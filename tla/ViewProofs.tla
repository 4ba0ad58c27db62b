----------------------------- MODULE ViewProofs -----------------------------
(* What users are shown, for every set of users, documents and fields: the *)
(* rendered document (SignedPdf), the activity log and the list of         *)
(* documents (Dashboard).                                                  *)
EXTENDS Dashboard, SignedPdf, FiniteSetTheorems, TLAPS

-----------------------------------------------------------------------------
(* The rendered document: how far it has come *)

\* Which loops run for which kind of file, and over which fields.
Loops ==
    /\ job \in Job /\ fields \in Seq(Field)
    /\ stage \in {"start", "draw", "certify", "place", "convert", "done", "null", "threw"}
    /\ stage = "start" => drawn = {} /\ mediaFiles = {}
    /\ stage \in {"draw", "certify"} => job.kind = "pdf"
    /\ stage \in {"place", "convert", "threw"} => job.kind = "docx"
    /\ stage \in {"draw", "place"} => todo \subseteq Chosen
    /\ stage \in {"certify", "convert", "done"} => todo = {}

LEMMA InitLoops == RenderInit => Loops
  <1> SUFFICES ASSUME RenderInit PROVE Loops
    OBVIOUS
  <1>1. job \in Job
    BY RenderAssumption DEF RenderInit
  <1>2. job.kind \in {"pdf", "docx"}
    BY <1>1 DEF Job
  <1>3. fields \in Seq(Field)
    BY <1>2, RenderAssumption DEF RenderInit
  <1>4. QED  BY <1>1, <1>3 DEF RenderInit, Loops

\* The turn of one field: in the loop over the sorted fields of a PDF, or in one of
\* the two loops over those of a DOCX.
Turn(i) == /\ i \in todo /\ todo' = todo \ {i}
           /\ \/ stage = "draw" /\ stage' \in {"draw", "null"}
              \/ stage = "place" /\ stage' = "place"
           /\ UNCHANGED <<certified, linked>>

LEMMA TurnOf ==
    ASSUME NEW i, Draw(i) \/ Place(i)
    PROVE  Turn(i) /\ UNCHANGED <<job, fields>>
  <1> USE DEF Turn, packageVars
  <1>1. CASE Draw(i)
    BY <1>1 DEF Draw, SkipMissingPage, DrawText, DrawTyped, DrawImage, SignatureTurn,
       DrawTurn
  <1>2. CASE Place(i)
    BY <1>2 DEF Place, SkipField, ReplaceByText, ReplaceByImage, AnchorText,
       AnchorImage, AnchorTyped, LeaveUnsigned, Anchor, Replace, AnchorTurn, AnchorNext,
       ReplaceTurn
  <1>3. QED  BY <1>1, <1>2

\* The turn that a colour ends.
Refused(i) == /\ i \in todo /\ stage' = "null"
              /\ \/ stage = "draw" /\ HasPage(i)
                 \/ stage = "place" /\ ~HasPlaceholders
              /\ BadColor(i)
              /\ UNCHANGED <<drawn, firstField, certified, open, nextRelId, mediaFiles, linked>>

LEMMA RefusalOf ==
    ASSUME NEW i, RefuseColor(i)
    PROVE  Refused(i) /\ UNCHANGED <<job, fields>> /\ todo' = todo \ {i}
  BY DEF RefuseColor, Refused, DrawTurn, AnchorNext, packageVars

\* Steps beside the turns.
Others == \/ Start \/ EndDraw \/ Certify \/ EndCertify \/ Pack
          \/ Convert

LEMMA NextLoops == Loops /\ [RenderNext]_renderVars => Loops' /\ UNCHANGED <<job, fields>>
  <1> SUFFICES ASSUME Loops, [RenderNext]_renderVars
               PROVE  Loops' /\ UNCHANGED <<job, fields>>
    OBVIOUS
  <1>0. UNCHANGED <<job, fields>> => UNCHANGED Chosen
    BY DEF Chosen, F
  <1>1. CASE Others
    <2>1. UNCHANGED <<job, fields>>
      BY <1>1 DEF Others, Start, EndDraw, Certify, EndCertify, Pack, Convert
    <2>2. job.kind \in {"pdf", "docx"}
      BY DEF Loops, Job
    <2>3. CASE Start
      BY <1>0, <2>1, <2>2, <2>3 DEF Start, Loops
    <2>4. CASE EndDraw \/ Certify \/ EndCertify
      BY <1>0, <2>1, <2>4 DEF EndDraw, Certify, EndCertify, Loops
    <2>5. CASE Pack \/ Convert
      BY <1>0, <2>1, <2>5 DEF Pack, Convert, Loops
    <2>6. QED  BY <1>1, <2>1, <2>3, <2>4, <2>5 DEF Others
  <1>2. ASSUME NEW i \in todo, Draw(i) \/ Place(i)
        PROVE  Loops' /\ UNCHANGED <<job, fields>>
    <2>1. Turn(i) /\ UNCHANGED <<job, fields>>
      BY <1>2, TurnOf
    <2>2. QED  BY <1>0, <2>1 DEF Turn, Loops
  <1>3. ASSUME NEW i \in todo, RefuseColor(i)
        PROVE  Loops' /\ UNCHANGED <<job, fields>>
    BY <1>0, <1>3, RefusalOf DEF Refused, Loops
  <1>4. CASE UNCHANGED renderVars
    BY <1>0, <1>4 DEF renderVars, Loops
  <1>5. QED  BY <1>1, <1>2, <1>3, <1>4 DEF RenderNext, Others, Rendered

\* What the fields of the turns hold.
LEMMA FieldOf ==
    ASSUME Loops, NEW i \in Chosen
    PROVE  /\ i \in Nat \ {0} /\ i \in DOMAIN fields
           /\ F(i) \in Field
  <1>1. i \in DOMAIN fields
    BY DEF Chosen
  <1>2. QED  BY <1>1 DEF Loops, F

-----------------------------------------------------------------------------
(* The rendered document: whose marks it has *)

\* What OwnMarks says of one mark.
Own(m) == LET f == F(m.field)
          IN  \/ m.by \in {None, f.signer}
              \/ /\ job.kind = "pdf" /\ f.type = "SIGNATURE"
                 /\ m.as = "image" /\ m.by = job.top
                 /\ ~HasImage(f) /\ ~HasTyped(f)

LEMMA TurnOwn ==
    ASSUME Loops, NEW i \in todo, Draw(i) \/ Place(i),
           NEW m \in drawn' \ drawn
    PROVE  Own(m)
  <1> DEFINE f == F(i)
  <1>0. i \in Chosen
    BY TurnOf DEF Turn, Loops
  <1>1. f \in Field
    BY <1>0, FieldOf
  <1>2. f.text.form \in {"absent", "plain", "list"}
    BY <1>1 DEF Field, Text
  <1>3. PdfText(f) \in {None, f.signer} /\ DocxText(f) \in {None, f.signer}
    BY <1>2 DEF PdfText, DocxText
  <1>4. CASE SkipMissingPage(i) \/ SkipField(i) \/ LeaveUnsigned(i)
    BY <1>4 DEF SkipMissingPage, SkipField, LeaveUnsigned
  <1>5. \A by, form, id : Put(i, by, form, id)
                          => m.field = i /\ m.by = by /\ m.as = form
    BY DEF Put
  <1>6. CASE DrawText(i)
    <2>1. Put(i, PdfText(f), "text", 0)
      BY <1>6 DEF DrawText
    <2>2. QED  BY <1>3, <1>5, <2>1 DEF Own
  <1>7. CASE DrawTyped(i)
    <2>1. Put(i, f.signer, "text", 0)
      BY <1>7 DEF DrawTyped
    <2>2. QED  BY <1>5, <2>1 DEF Own
  <1>8. CASE DrawImage(i)
    <2>1. Put(i, PdfImage(f), "image", 0) /\ ~HasTyped(f) /\ f.type = "SIGNATURE"
      BY <1>8 DEF DrawImage, SignatureTurn
    <2>2. job.kind = "pdf"
      BY <1>8 DEF DrawImage, SignatureTurn, DrawTurn, Loops
    <2>3. QED  BY <1>5, <2>1, <2>2 DEF Own, PdfImage
  <1>9. CASE ReplaceByText(i) \/ ReplaceByImage(i) \/ AnchorText(i)
             \/ AnchorImage(i) \/ AnchorTyped(i)
    <2>1. PICK by, form, id : by \in {None, f.signer} /\ Put(i, by, form, id)
      BY <1>3, <1>9 DEF ReplaceByText, ReplaceByImage, AnchorText, AnchorImage,
         AnchorTyped, Replace, Anchor
    <2>2. QED  BY <1>5, <2>1 DEF Own
  <1>10. QED  BY <1>4, <1>6, <1>7, <1>8, <1>9 DEF Draw, Place

LEMMA NextOwn == Loops /\ OwnMarks /\ [RenderNext]_renderVars => OwnMarks'
  <1> SUFFICES ASSUME Loops, OwnMarks, [RenderNext]_renderVars, NEW m \in drawn'
               PROVE  Own(m)'
    BY DEF OwnMarks, Own
  <1>1. Own(m) => Own(m)'
    BY NextLoops DEF Own, F, HasImage, HasTyped
  <1>2. CASE m \in drawn
    BY <1>1, <1>2 DEF OwnMarks, Own
  <1>3. CASE m \notin drawn
    <2>1. PICK i \in todo : Draw(i) \/ Place(i)
      BY <1>3, RefusalOf DEF Refused, RenderNext, renderVars, pageVars, Start,
         EndDraw, Certify, EndCertify, Pack, Convert, Rendered
    <2>2. QED  BY <1>1, <1>3, <2>1, TurnOwn
  <1>4. QED  BY <1>2, <1>3

\* Nobody's text or signature gets into somebody else's field, but for an empty
\* signature field of a PDF, which gets the signature of the document.
THEOREM MarksAreOwn == RenderSpec => []OwnMarks
  <1>1. RenderInit => Loops /\ OwnMarks
    BY InitLoops DEF RenderInit, OwnMarks
  <1>2. Loops /\ OwnMarks /\ [RenderNext]_renderVars => (Loops /\ OwnMarks)'
    BY NextLoops, NextOwn
  <1>3. QED  BY <1>1, <1>2, PTL DEF RenderSpec

-----------------------------------------------------------------------------
(* The rendered document: why the service answers null *)

\* Why it may.
Excuse == \/ ~job.found
          \/ ~job.readable
          \/ \E i \in Chosen : Undrawable(i)

\* As long as it has not, there was no reason so far.
NoExcuseYet ==
    /\ stage \notin {"start", "null"} =>
          /\ job.found /\ job.readable
          /\ \A i \in Chosen \ todo : ~Undrawable(i)
          /\ stage \in {"done", "threw"} => todo = {}
    /\ stage = "null" => Excuse

LEMMA TurnUndrawable ==
    ASSUME NEW i, Draw(i), job.kind = "pdf"
    PROVE  stage' = "null" <=> Undrawable(i)
  <1> USE DEF DrawTurn, SignatureTurn, Undrawable
  <1>1. CASE SkipMissingPage(i)
    BY <1>1 DEF SkipMissingPage
  <1>2. CASE DrawText(i)
    BY <1>2 DEF DrawText
  <1>3. CASE DrawTyped(i)
    BY <1>3 DEF DrawTyped
  <1>4. CASE DrawImage(i)
    BY <1>4 DEF DrawImage
  <1>5. QED  BY <1>1, <1>2, <1>3, <1>4 DEF Draw

LEMMA TurnDrawable ==
    ASSUME NEW i, Place(i), job.kind = "docx"
    PROVE  ~Undrawable(i)
  <1>1. HasPlaceholders \/ ~BadColor(i)
    BY DEF Place, SkipField, ReplaceByText, ReplaceByImage, AnchorText, AnchorImage,
       AnchorTyped, LeaveUnsigned, Anchor, Replace, AnchorTurn, ReplaceTurn
  <1>2. QED  BY <1>1 DEF Undrawable

LEMMA NextNoExcuse == Loops /\ NoExcuseYet /\ [RenderNext]_renderVars => NoExcuseYet'
  <1> SUFFICES ASSUME Loops, NoExcuseYet, [RenderNext]_renderVars PROVE NoExcuseYet'
    OBVIOUS
  <1>1. UNCHANGED <<job, fields>>
    BY NextLoops
  <1>2. Chosen' = Chosen
    BY <1>1 DEF Chosen, F
  <1>3. \A i : Undrawable(i)' <=> Undrawable(i)
    <2>1. \A i : F(i)' = F(i)
      BY <1>1 DEF F
    <2>2. HasPlaceholders' <=> HasPlaceholders
      BY <1>2, <2>1 DEF HasPlaceholders
    <2>3. QED
      BY <1>1, <2>1, <2>2 DEF Undrawable, HasPage, HasTyped, CannotDrawText,
         CannotDrawTyped, PdfText, BadColor
  <1>4. Excuse' <=> Excuse
    BY <1>1, <1>2, <1>3 DEF Excuse
  <1>5. CASE Start
    <2>1. job.kind \in {"pdf", "docx"}
      BY DEF Loops, Job
    <2>2. todo' = Chosen
      BY <1>5 DEF Start
    <2>3. CASE ~job.found \/ ~job.readable
      BY <1>4, <1>5, <2>3 DEF Start, Excuse, NoExcuseYet
    <2>4. CASE job.found /\ job.readable
      BY <1>1, <1>2, <1>5, <2>1, <2>2, <2>4 DEF Start, NoExcuseYet
    <2>5. QED  BY <2>3, <2>4
  <1>6. CASE EndDraw \/ Certify \/ EndCertify \/ Pack \/ Convert
    <2>1. stage \notin {"start", "null"} /\ stage' \notin {"start", "null"} /\ todo' = todo
      BY <1>6 DEF EndDraw, Certify, EndCertify, Pack, Convert
    <2>2. todo = {}
      BY <1>6 DEF EndDraw, Certify, EndCertify, Pack, Convert, Loops
    <2>3. QED  BY <1>1, <1>2, <1>3, <2>1, <2>2 DEF NoExcuseYet
  <1>7. ASSUME NEW i \in todo, Draw(i) PROVE NoExcuseYet'
    <2>1. job.kind = "pdf" => (stage' = "null" <=> Undrawable(i))
      BY <1>7, TurnUndrawable
    <2>2. todo' = todo \ {i} /\ stage = "draw" /\ stage' \in {"draw", "null"}
      BY <1>7, TurnOf DEF Turn, Draw, SkipMissingPage, DrawText, DrawTyped, DrawImage,
         SignatureTurn, DrawTurn
    <2>3. i \in Chosen /\ job.kind = "pdf"
      BY <2>2 DEF Loops
    <2>4. CASE Undrawable(i)
      BY <1>4, <2>1, <2>2, <2>3, <2>4 DEF NoExcuseYet, Excuse
    <2>5. CASE ~Undrawable(i)
      BY <1>1, <1>2, <1>3, <2>1, <2>2, <2>3, <2>5 DEF NoExcuseYet
    <2>6. QED  BY <2>4, <2>5
  <1>8. ASSUME NEW i \in todo, Place(i) PROVE NoExcuseYet'
    <2>1. stage = "place" /\ stage' = "place"
      BY <1>8 DEF Place, SkipField, ReplaceByText, ReplaceByImage, AnchorText,
         AnchorImage, AnchorTyped, LeaveUnsigned, Anchor, Replace, AnchorTurn, AnchorNext,
         ReplaceTurn
    <2>2. todo' = todo \ {i} /\ job.kind = "docx"
      BY <1>8, <2>1, TurnOf DEF Turn, Loops
    <2>3. ~Undrawable(i)
      BY <1>8, <2>2, TurnDrawable
    <2>4. QED  BY <1>1, <1>2, <1>3, <2>1, <2>2, <2>3 DEF NoExcuseYet
  <1>9. ASSUME NEW i \in todo, RefuseColor(i) PROVE NoExcuseYet'
    <2>1. Refused(i)
      BY <1>9, RefusalOf
    <2>2. i \in Chosen /\ Undrawable(i)
      BY <2>1 DEF Refused, Loops, Undrawable
    <2>3. QED  BY <1>4, <2>1, <2>2 DEF Refused, NoExcuseYet, Excuse
  <1>10. CASE UNCHANGED renderVars
    BY <1>2, <1>3, <1>4, <1>10 DEF renderVars, NoExcuseYet
  <1>11. QED  BY <1>5, <1>6, <1>7, <1>8, <1>9, <1>10 DEF RenderNext, Rendered

\* The service answers null for rows that are not found, a file that cannot be
\* parsed, and a colour or a text that cannot be drawn, and for nothing else.
THEOREM NullIsExplained == RenderSpec => []NullExplained
  <1>1. RenderInit => Loops /\ NoExcuseYet
    BY InitLoops DEF RenderInit, NoExcuseYet
  <1>2. Loops /\ NoExcuseYet /\ [RenderNext]_renderVars => (Loops /\ NoExcuseYet)'
    BY NextLoops, NextNoExcuse
  <1>3. Loops /\ NoExcuseYet => NullExplained
    <2> SUFFICES ASSUME Loops, NoExcuseYet, stage \in Ended
                 PROVE  stage = "null" <=> Excuse
      BY DEF NullExplained, Excuse
    <2>1. CASE stage = "null"
      BY <2>1 DEF NoExcuseYet
    <2>2. CASE stage = "done"
      <3>1. todo = {} /\ job.found /\ job.readable
        BY <2>2 DEF Loops, NoExcuseYet
      <3>2. QED  BY <2>2, <3>1 DEF NoExcuseYet, Excuse
    <2>3. CASE stage = "threw"
      <3>1. todo = {} /\ job.found /\ job.readable
        BY <2>3 DEF NoExcuseYet
      <3>2. QED  BY <2>3, <3>1 DEF NoExcuseYet, Excuse
    <2>4. QED  BY <2>1, <2>2, <2>3 DEF Ended
  <1>4. QED  BY <1>1, <1>2, <1>3, PTL DEF RenderSpec

-----------------------------------------------------------------------------
(* The rendered document: what is on it *)

Marked(i) == \E m \in drawn : m.field = i /\ m.by = F(i).signer

\* The fields whose turn has been have their mark.
MarksSoFar ==
    stage \notin {"start", "null"} =>
        \A i \in Chosen \ todo : Filled(i) /\ HasPlace(i) => Marked(i)

\* Placeholders are taken in the order of the list, by fields that fill them.
OpenSoFar ==
    /\ stage = "start" => open = job.slots
    /\ stage = "place" /\ HasPlaceholders =>
          /\ \A i \in todo, j \in Chosen \ todo : j < i
          /\ \A slot \in job.slots \ open :
                 \E j \in Chosen \ todo :
                     /\ F(j).placeholder = slot
                     /\ F(j).type = "SIGNATURE" => Filled(j)

\* Images in a DOCX are in the fields that have one.
ImagesInPlace ==
    job.kind = "docx" => \A m \in drawn : m.as = "image" => IsImage(m.field)

LEMMA PutMarked ==
    ASSUME NEW i, NEW by, NEW form, NEW id, Put(i, by, form, id)
    PROVE  \E m \in drawn' : m.field = i /\ m.by = by
  <1> DEFINE new == [field |-> i, by |-> by, as |-> form, id |-> id]
  <1>1. new \in drawn'
    BY DEF Put
  <1>2. new.field = i /\ new.by = by
    OBVIOUS
  <1>3. QED  BY <1>1, <1>2

LEMMA TurnDrawn ==
    ASSUME Loops, NEW i \in todo, Draw(i), stage' # "null",
           Filled(i), HasPlace(i)
    PROVE  Marked(i)'
  <1> DEFINE f == F(i)
  <1>1. stage = "draw"
    BY DEF Draw, SkipMissingPage, DrawText, DrawTyped, DrawImage, SignatureTurn,
       DrawTurn
  <1>2. i \in Chosen /\ job.kind = "pdf"
    BY <1>1 DEF Loops
  <1>3. f \in Field
    BY <1>2, FieldOf
  <1>4. f.signer # None
    BY <1>3, RenderAssumption DEF Field
  <1>5. HasPage(i)
    BY <1>2 DEF HasPlace
  <1>6. UNCHANGED fields
    BY TurnOf
  <1>7. \E form : Put(i, f.signer, form, 0)
    <2>1. CASE SkipMissingPage(i)
      BY <1>5, <2>1 DEF SkipMissingPage
    <2>2. CASE DrawText(i)
      BY <2>2 DEF DrawText, Filled, PdfText
    <2>3. CASE DrawTyped(i)
      BY <2>3 DEF DrawTyped
    <2>4. CASE DrawImage(i)
      <3>1. HasImage(f) /\ f.signer \notin job.broken
        BY <1>2, <2>4 DEF DrawImage, SignatureTurn, Filled, HasPlace
      <3>2. PdfImage(f) = f.signer
        BY <3>1 DEF PdfImage
      <3>3. QED  BY <1>4, <2>4, <3>1, <3>2 DEF DrawImage
    <2>5. QED  BY <2>1, <2>2, <2>3, <2>4 DEF Draw
  <1>8. QED  BY <1>6, <1>7, PutMarked DEF Marked, F

LEMMA TurnPlaced ==
    ASSUME Loops, OpenSoFar, NEW i \in todo, Place(i),
           Filled(i), HasPlace(i)
    PROVE  Marked(i)'
  <1> DEFINE f == F(i)
  <1>1. stage = "place"
    BY DEF Place, SkipField, ReplaceByText, ReplaceByImage, AnchorText, AnchorImage,
       AnchorTyped, LeaveUnsigned, Anchor, Replace, AnchorTurn, AnchorNext, ReplaceTurn
  <1>2. i \in Chosen /\ job.kind = "docx" /\ job.slots \subseteq Slots
    BY <1>1 DEF Loops, Job
  <1>3. UNCHANGED fields
    BY TurnOf
  <1>4. ASSUME HasPlaceholders PROVE f.placeholder \in open
    <2>1. f.placeholder \in job.slots /\ ~TakenBefore(i)
      BY <1>2, <1>4 DEF HasPlace
    <2>2. SUFFICES ASSUME f.placeholder \notin open PROVE FALSE
      OBVIOUS
    <2>3. PICK j \in Chosen \ todo : /\ F(j).placeholder = f.placeholder
                                     /\ F(j).type = "SIGNATURE" => Filled(j)
      BY <1>1, <1>4, <2>1, <2>2 DEF OpenSoFar
    <2>4. j < i
      BY <1>1, <1>4 DEF OpenSoFar
    <2>5. QED  BY <2>1, <2>3, <2>4 DEF TakenBefore
  <1>5. IsText(i) => DocxText(f) = f.signer
    BY DEF IsText, Filled, DocxText, PdfText
  <1>6. \E form, id : Put(i, f.signer, form, id)
    <2>1. CASE SkipField(i)
      <3>1. HasPlaceholders /\ f.placeholder = None
        BY <2>1 DEF SkipField, ReplaceTurn
      <3>2. QED  BY <1>2, <3>1, RenderAssumption DEF HasPlace
    <2>2. CASE ReplaceByText(i) \/ ReplaceByImage(i)
      <3>1. HasPlaceholders
        BY <2>2 DEF ReplaceByText, ReplaceByImage, Replace, ReplaceTurn
      <3>2. CASE ReplaceByText(i)
        BY <1>4, <1>5, <3>1, <3>2 DEF ReplaceByText, Replace
      <3>3. CASE ReplaceByImage(i)
        BY <1>4, <3>1, <3>3 DEF ReplaceByImage, Replace
      <3>4. QED  BY <2>2, <3>2, <3>3
    <2>3. CASE AnchorText(i)
      BY <1>5, <2>3 DEF AnchorText, Anchor
    <2>4. CASE AnchorImage(i) \/ AnchorTyped(i)
      BY <2>4 DEF AnchorImage, AnchorTyped, Anchor
    <2>5. CASE LeaveUnsigned(i)
      BY <2>5 DEF LeaveUnsigned, IsNotSigned, Filled
    <2>6. QED  BY <2>1, <2>2, <2>3, <2>4, <2>5 DEF Place
  <1>7. QED  BY <1>3, <1>6, PutMarked DEF Marked, F

LEMMA TurnKeepsMarks ==
    ASSUME NEW i, Draw(i) \/ Place(i)
    PROVE  drawn \subseteq drawn'
  BY DEF Draw, SkipMissingPage, DrawText, DrawTyped, DrawImage, Place, SkipField,
     ReplaceByText, ReplaceByImage, AnchorText, AnchorImage, AnchorTyped,
     LeaveUnsigned, Anchor, Replace, Put

\* What a turn takes out of the placeholders.
LEMMA TurnOpen ==
    ASSUME NEW i, Place(i), HasPlaceholders
    PROVE  /\ \A j \in todo \ {i} : i < j
           /\ \/ open' = open
              \/ /\ open' = open \ {F(i).placeholder}
                 /\ F(i).type = "SIGNATURE" => Filled(i)
  <1>1. ReplaceTurn(i)
    BY DEF Place, SkipField, ReplaceByText, ReplaceByImage, AnchorText, AnchorImage,
       AnchorTyped, LeaveUnsigned, Anchor, Replace, AnchorTurn, AnchorNext
  <1>2. CASE ReplaceByText(i) \/ ReplaceByImage(i)
    BY <1>1, <1>2 DEF ReplaceByText, ReplaceByImage, Replace, IsText, IsTyped,
       IsImage, Filled, ReplaceTurn
  <1>3. CASE ~(ReplaceByText(i) \/ ReplaceByImage(i))
    BY <1>1, <1>3 DEF Place, SkipField, AnchorText, AnchorImage, AnchorTyped,
       LeaveUnsigned, Anchor, ReplaceTurn
  <1>4. QED  BY <1>2, <1>3

\* The request and its fields stay as they are, and so does what is asked of them.
LEMMA FieldsKept ==
    ASSUME UNCHANGED <<job, fields>>
    PROVE  /\ Chosen' = Chosen
           /\ HasPlaceholders' <=> HasPlaceholders
           /\ \A i : /\ F(i)' = F(i)
                     /\ IsImage(i)' <=> IsImage(i)
                     /\ Filled(i)' <=> Filled(i)
                     /\ HasPlace(i)' <=> HasPlace(i)
  <1>1. Chosen' = Chosen /\ \A i : F(i)' = F(i)
    BY DEF Chosen, F
  <1>2. HasPlaceholders' <=> HasPlaceholders
    BY <1>1 DEF HasPlaceholders
  <1>3. \A i : Filled(i)' <=> Filled(i)
    BY <1>1 DEF Filled, HasImage, HasTyped
  <1>4. \A i : TakenBefore(i)' <=> TakenBefore(i)
    BY <1>1, <1>3 DEF TakenBefore
  <1>5. ASSUME NEW i PROVE HasPlace(i)' <=> HasPlace(i)
    <2>1. /\ HasPage(i)' <=> HasPage(i)
          /\ HasTyped(F(i))' <=> HasTyped(F(i))
      BY <1>1 DEF HasPage, HasTyped
    <2>2. IsImage(i)' <=> IsImage(i)
      BY <1>1 DEF IsImage, HasImage
    <2>3. QED  BY <1>1, <1>2, <1>4, <2>1, <2>2 DEF HasPlace
  <1>6. \A i : IsImage(i)' <=> IsImage(i)
    BY <1>1 DEF IsImage, HasImage
  <1>7. QED  BY <1>1, <1>2, <1>3, <1>5, <1>6

LEMMA NextOpen == Loops /\ OpenSoFar /\ [RenderNext]_renderVars => OpenSoFar'
  <1> SUFFICES ASSUME Loops, OpenSoFar, [RenderNext]_renderVars PROVE OpenSoFar'
    OBVIOUS
  <1>1. UNCHANGED <<job, fields>>
    BY NextLoops
  <1>2. CASE Start
    <2>1. todo' = Chosen /\ open' = open /\ stage = "start"
      BY <1>2 DEF Start, packageVars
    <2>2. open' = job'.slots
      BY <1>1, <2>1 DEF OpenSoFar
    <2>3. todo' = Chosen'
      BY <1>1, <2>1, FieldsKept
    <2>4. QED  BY <2>2, <2>3 DEF OpenSoFar
  <1>3. CASE EndDraw \/ Certify \/ EndCertify \/ Pack \/ Convert
    <2>1. stage' \notin {"start", "place"}
      BY <1>3 DEF EndDraw, Certify, EndCertify, Pack, Convert
    <2>2. QED  BY <2>1 DEF OpenSoFar
  <1>4. ASSUME NEW i \in todo, Draw(i) PROVE OpenSoFar'
    <2>1. stage = "draw" /\ stage' \in {"draw", "null"}
      BY <1>4, TurnOf DEF Turn, Draw, SkipMissingPage, DrawText, DrawTyped, DrawImage,
         SignatureTurn, DrawTurn
    <2>2. QED  BY <2>1 DEF OpenSoFar
  <1>5. ASSUME NEW i \in todo, Place(i) PROVE OpenSoFar'
    <2>1. /\ stage = "place" /\ stage' = "place" /\ todo' = todo \ {i}
          /\ i \in Chosen
      BY <1>5, TurnOf DEF Turn, Loops, Place, SkipField, ReplaceByText,
         ReplaceByImage, AnchorText, AnchorImage, AnchorTyped, LeaveUnsigned, Anchor,
         Replace, AnchorTurn, AnchorNext, ReplaceTurn
    <2>2. SUFFICES ASSUME HasPlaceholders
                   PROVE  /\ \A k \in todo', j \in Chosen \ todo' : j < k
                          /\ \A slot \in job.slots \ open' :
                                 \E j \in Chosen \ todo' :
                                     /\ F(j).placeholder = slot
                                     /\ F(j).type = "SIGNATURE" => Filled(j)
      BY <1>1, <2>1, FieldsKept DEF OpenSoFar
    <2>3. /\ \A j \in todo \ {i} : i < j
          /\ \/ open' = open
             \/ /\ open' = open \ {F(i).placeholder}
                /\ F(i).type = "SIGNATURE" => Filled(i)
      BY <1>5, <2>2, TurnOpen
    <2>4. \A k \in todo', j \in Chosen \ todo' : j < k
      BY <2>1, <2>2, <2>3 DEF OpenSoFar
    <2>5. ASSUME NEW slot \in job.slots \ open'
          PROVE  \E j \in Chosen \ todo' :
                     /\ F(j).placeholder = slot
                     /\ F(j).type = "SIGNATURE" => Filled(j)
      BY <2>1, <2>2, <2>3 DEF OpenSoFar
    <2>6. QED  BY <2>4, <2>5
  <1>6. ASSUME NEW i \in todo, RefuseColor(i) PROVE OpenSoFar'
    BY <1>6, RefusalOf DEF Refused, OpenSoFar
  <1>7. CASE UNCHANGED renderVars
    BY <1>1, <1>7, FieldsKept DEF renderVars, OpenSoFar
  <1>8. QED  BY <1>2, <1>3, <1>4, <1>5, <1>6, <1>7 DEF RenderNext, Rendered

LEMMA NextImages ==
    Loops /\ ImagesInPlace /\ [RenderNext]_renderVars => ImagesInPlace'
  <1> SUFFICES ASSUME Loops, ImagesInPlace, [RenderNext]_renderVars,
                      job.kind = "docx", NEW m \in drawn', m.as = "image"
               PROVE  IsImage(m.field)
    BY NextLoops, FieldsKept DEF ImagesInPlace
  <1>1. CASE m \in drawn
    BY <1>1 DEF ImagesInPlace
  <1>2. CASE m \notin drawn
    <2>1. PICK i \in todo : Draw(i) \/ Place(i)
      BY <1>2, RefusalOf DEF Refused, RenderNext, renderVars, pageVars, Start,
         EndDraw, Certify, EndCertify, Pack, Convert, Rendered
    <2>2. stage # "draw"
      BY DEF Loops
    <2>3. Place(i)
      BY <2>1, <2>2 DEF Draw, SkipMissingPage, DrawText, DrawTyped, DrawImage,
         SignatureTurn, DrawTurn
    <2>4. PICK by, form, id : Put(i, by, form, id) /\ (form = "image" => IsImage(i))
      BY <1>2, <2>3 DEF Place, SkipField, ReplaceByText, ReplaceByImage, AnchorText,
         AnchorImage, AnchorTyped, LeaveUnsigned, Anchor, Replace
    <2>5. m.field = i /\ m.as = form
      BY <1>2, <2>4 DEF Put
    <2>6. QED  BY <2>4, <2>5
  <1>3. QED  BY <1>1, <1>2

LEMMA NextMarks ==
    Loops /\ OpenSoFar /\ ImagesInPlace /\ MarksSoFar /\ [RenderNext]_renderVars
    => MarksSoFar'
  <1> SUFFICES ASSUME Loops, OpenSoFar, ImagesInPlace, MarksSoFar,
                      [RenderNext]_renderVars,
                      stage' \notin {"start", "null"}, NEW k \in Chosen \ todo',
                      Filled(k), HasPlace(k)
               PROVE  Marked(k)'
    BY NextLoops, FieldsKept DEF MarksSoFar
  <1>1. UNCHANGED <<job, fields>>
    BY NextLoops
  <1>2. drawn \subseteq drawn' => (Marked(k) => Marked(k)')
    BY <1>1, FieldsKept DEF Marked
  <1>3. CASE Start
    BY <1>3 DEF Start
  <1>4. CASE EndDraw \/ Certify \/ EndCertify \/ Convert
             \/ UNCHANGED renderVars
    <2>1. todo' = todo /\ drawn' = drawn /\ stage \notin {"start", "null"}
      BY <1>4 DEF EndDraw, Certify, EndCertify, Convert, renderVars, pageVars
    <2>2. QED  BY <1>2, <2>1 DEF MarksSoFar
  <1>5. CASE Pack
    <2>1. todo' = todo /\ stage = "place" /\ job.kind = "docx"
      BY <1>5 DEF Pack, Loops
    <2>2. PICK m \in drawn : m.field = k /\ m.by = F(k).signer
      BY <2>1 DEF MarksSoFar, Marked
    <2>3. HasPlaceholders \/ job.body
      BY <2>1 DEF HasPlace
    <2>4. m.as = "image" => job.closed
      BY <2>1, <2>2 DEF HasPlace, ImagesInPlace
    <2>5. m \in drawn'
      BY <1>5, <2>3, <2>4 DEF Pack
    <2>6. QED  BY <1>1, <2>2, <2>5, FieldsKept DEF Marked
  <1>6. ASSUME NEW i \in todo, Draw(i) \/ Place(i) PROVE Marked(k)'
    <2>1. todo' = todo \ {i} /\ stage \in {"draw", "place"}
      BY <1>6, TurnOf DEF Turn
    <2>2. CASE k = i
      BY <1>6, <2>2, TurnDrawn, TurnPlaced
    <2>3. CASE k # i
      BY <1>2, <1>6, <2>1, <2>3, TurnKeepsMarks DEF MarksSoFar
    <2>4. QED  BY <2>2, <2>3
  <1>7. ASSUME NEW i \in todo, RefuseColor(i) PROVE Marked(k)'
    BY <1>7, RefusalOf DEF Refused
  <1>8. QED  BY <1>3, <1>4, <1>5, <1>6, <1>7 DEF RenderNext, Rendered

\* A document that is rendered has what every signer wrote, in each of their
\* fields that there is a place for.
THEOREM NoneIsMissing == RenderSpec => []NoneMissing
  <1> DEFINE Inv == Loops /\ OpenSoFar /\ ImagesInPlace /\ MarksSoFar
  <1>1. RenderInit => Inv
    BY InitLoops DEF RenderInit, OpenSoFar, ImagesInPlace, MarksSoFar
  <1>2. Inv /\ [RenderNext]_renderVars => Inv'
    BY NextLoops, NextOpen, NextImages, NextMarks
  <1>3. Inv => NoneMissing
    BY DEF Loops, MarksSoFar, NoneMissing, Marked
  <1>4. QED  BY <1>1, <1>2, <1>3, PTL DEF RenderSpec

-----------------------------------------------------------------------------
(* The rendered document: the certificate pages *)

\* What CertificateOwn says of one page.
OwnPage(c) == \/ c.by \in {None, c.signer}
              \/ Holders(c.signer) = {}
              \/ LET g == F(Holder(c.signer)).signature
                 IN  c.signer \notin g.image \union g.typed

Pages ==
    /\ firstField \in {0} \union Chosen
    /\ certified \in Seq(Certificate)
    /\ CertificateOwn

LEMMA ResolvedSignature ==
    ASSUME Loops, firstField \in {0} \union Chosen, NEW s \in Signers
    PROVE  LET c == ResolveSignatureForEmail(s)
           IN  /\ c.typed \in Signers \union {None}
               /\ c.image \in Signers \union {None}
               /\ OwnPage([signer |-> s, by |-> c.typed])
               /\ OwnPage([signer |-> s, by |-> c.image])
  <1> DEFINE own  == OwnSignature(s)
             g    == F(Holder(s)).signature
             c    == ResolveSignatureForEmail(s)
             page(by) == [signer |-> s, by |-> by]
  <1>1. s # None
    BY RenderAssumption
  <1>2. /\ own.typed \in {s, None} /\ own.image \in {s, None}
        /\ own = [typed |-> None, image |-> None]
           => Holders(s) = {} \/ s \notin g.image \union g.typed
    <2>1. CASE Holders(s) = {}
      BY <2>1 DEF OwnSignature
    <2>2. CASE Holders(s) # {}
      <3>1. own = [typed |-> IF s \in g.typed THEN s ELSE None,
                   image |-> IF s \in g.image THEN s ELSE None]
        BY <2>2 DEF OwnSignature
      <3>2. own.typed = (IF s \in g.typed THEN s ELSE None)
            /\ own.image = (IF s \in g.image THEN s ELSE None)
        BY <3>1
      <3> HIDE DEF own, g
      <3>3. own = [typed |-> None, image |-> None] => own.typed = None /\ own.image = None
        OBVIOUS
      <3>4. QED  BY <1>1, <3>2, <3>3
    <2>3. QED  BY <2>1, <2>2
  <1>3. CASE firstField # 0 /\ own = [typed |-> None, image |-> None]
    <2> DEFINE f == F(firstField)
    <2>1. c = StandIn
      BY <1>3 DEF ResolveSignatureForEmail
    <2>2. f.signer \in Signers
      BY <1>3, FieldOf DEF Field
    <2>3. job.top \in Signers \union {None}
      BY DEF Loops, Job
    <2>4. PdfImage(f) \in Signers \union {None}
      BY <2>2, <2>3 DEF PdfImage
    <2>5. c.typed \in Signers \union {None} /\ c.image \in Signers \union {None}
      BY <2>1, <2>2, <2>3, <2>4 DEF StandIn
    <2>6. \A by : OwnPage(page(by))
      BY <1>2, <1>3 DEF OwnPage
    <2>7. QED  BY <2>5, <2>6
  <1>4. CASE ~(firstField # 0 /\ own = [typed |-> None, image |-> None])
    <2>1. c = own
      BY <1>4 DEF ResolveSignatureForEmail
    <2>2. \A by \in {s, None} : OwnPage(page(by))
      BY DEF OwnPage
    <2>3. QED  BY <1>2, <2>1, <2>2
  <1>5. QED  BY <1>3, <1>4

\* The one page that Certify appends.
LEMMA CertifyOwn ==
    ASSUME Loops, Pages, Certify
    PROVE  \E c \in Certificate : /\ certified' = Append(certified, c)
                                  /\ Len(certified) + 1 <= Len(job.signed)
                                  /\ c.signer = job.signed[Len(certified) + 1]
                                  /\ OwnPage(c)
  <1> DEFINE k == Len(certified) + 1
             s == job.signed[k]
             c == ResolveSignatureForEmail(s)
  <1>1. k \in 1..Len(job.signed)
    BY DEF Certify, Pages
  <1>2. job.signed \in Seq(Signers)
    BY DEF Loops, Job
  <1>3. s \in Signers
    BY <1>1, <1>2
  <1>4. /\ c.typed \in Signers \union {None} /\ c.image \in Signers \union {None}
        /\ OwnPage([signer |-> s, by |-> c.typed])
        /\ OwnPage([signer |-> s, by |-> c.image])
    BY <1>3, ResolvedSignature DEF Pages
  <1>5. PICK by \in {None, c.typed, c.image} :
            certified' = Append(certified, [signer |-> s, by |-> by])
    BY DEF Certify
  <1> HIDE DEF c, s
  <1>6. [signer |-> s, by |-> by] \in Certificate
    BY <1>3, <1>4, <1>5 DEF Certificate
  <1>7. OwnPage([signer |-> s, by |-> None])
    BY DEF OwnPage
  <1>8. OwnPage([signer |-> s, by |-> by])
    BY <1>4, <1>5, <1>7
  <1>9. [signer |-> s, by |-> by].signer = s
    OBVIOUS
  <1>10. QED  BY <1>1, <1>5, <1>6, <1>8, <1>9 DEF s

LEMMA NextPages ==
    Loops /\ Pages /\ [RenderNext]_renderVars => Pages'
  <1> SUFFICES ASSUME Loops, Pages, [RenderNext]_renderVars PROVE Pages'
    OBVIOUS
  <1>1. UNCHANGED <<job, fields>>
    BY NextLoops
  <1>2. Chosen' = Chosen
    BY <1>1, FieldsKept
  <1>3. \A c : OwnPage(c) => OwnPage(c)'
    <2>1. \A t : Holders(t)' = Holders(t)
      BY <1>1, <1>2, FieldsKept DEF Holders
    <2>2. \A t : Holder(t)' = Holder(t)
      BY <2>1 DEF Holder
    <2>3. QED  BY <1>1, <2>1, <2>2 DEF OwnPage, F
  <1>4. ASSUME NEW list, certified' = list, Len(list) <= Len(job.signed),
                \A k \in DOMAIN list :
                    list[k].signer = job.signed[k] /\ OwnPage(list[k])
         PROVE  CertificateOwn'
    <2>1. \A k \in DOMAIN list : list[k].signer = job'.signed[k] /\ OwnPage(list[k])'
      BY <1>1, <1>3, <1>4
    <2>2. Len(list) <= Len(job'.signed)
      BY <1>1, <1>4
    <2>3. QED  BY <1>4, <2>1, <2>2 DEF CertificateOwn, OwnPage
  <1>5. firstField' \in {0} \union Chosen
    <2>1. CASE Others \/ UNCHANGED renderVars
      BY <2>1 DEF Pages, Others, renderVars, pageVars, Start, EndDraw, Certify,
         EndCertify, Pack, Convert
    <2>2. ASSUME NEW i \in todo, Draw(i) PROVE firstField' \in {firstField, i}
      BY <2>2 DEF Draw, SkipMissingPage, DrawText, DrawTyped, DrawImage, SignatureTurn
    <2>3. ASSUME NEW i \in todo, Place(i) PROVE firstField' = firstField
      BY <2>3 DEF Place, SkipField, ReplaceByText, ReplaceByImage, AnchorText,
         AnchorImage, AnchorTyped, LeaveUnsigned, Anchor, Replace, AnchorTurn, AnchorNext,
         ReplaceTurn
    <2>4. ASSUME NEW i \in todo, Draw(i) \/ Place(i) PROVE i \in Chosen
      BY <2>4, TurnOf DEF Turn, Loops
    <2>5. ASSUME NEW i \in todo, RefuseColor(i) PROVE firstField' = firstField
      BY <2>5, RefusalOf DEF Refused
    <2>6. QED  BY <2>1, <2>2, <2>3, <2>4, <2>5 DEF Pages, RenderNext, Others, Rendered
  <1>6. CASE Certify
    <2>1. PICK c \in Certificate : /\ certified' = Append(certified, c)
                                   /\ Len(certified) + 1 <= Len(job.signed)
                                   /\ c.signer = job.signed[Len(certified) + 1]
                                   /\ OwnPage(c)
      BY <1>6, CertifyOwn
    <2>2. certified \in Seq(Certificate)
      BY DEF Pages
    <2>3. /\ certified' \in Seq(Certificate)
          /\ Len(certified') = Len(certified) + 1
          /\ DOMAIN certified' = 1..Len(certified) + 1
          /\ certified'[Len(certified) + 1] = c
          /\ \A k \in 1..Len(certified) : certified'[k] = certified[k]
      BY <2>1, <2>2
    <2>4. ASSUME NEW k \in DOMAIN certified'
          PROVE  certified'[k].signer = job.signed[k] /\ OwnPage(certified'[k])
      <3>1. CASE k = Len(certified) + 1
        BY <2>1, <2>3, <3>1
      <3>2. CASE k # Len(certified) + 1
        <4>1. k \in DOMAIN certified /\ certified'[k] = certified[k]
          BY <2>2, <2>3, <2>4, <3>2
        <4>2. QED  BY <4>1 DEF Pages, CertificateOwn, OwnPage
      <3>3. QED  BY <3>1, <3>2
    <2>5. CertificateOwn'
      <3>1. PICK list : list = certified'
        OBVIOUS
      <3>2. Len(list) <= Len(job.signed)
        BY <2>1, <2>3, <3>1
      <3>3. QED  BY <1>4, <2>4, <3>1, <3>2
    <2>6. QED  BY <1>2, <1>5, <2>3, <2>5 DEF Pages
  <1>7. CASE UNCHANGED certified
    <2>1. PICK list : list = certified
      OBVIOUS
    <2>2. /\ Len(list) <= Len(job.signed)
          /\ \A k \in DOMAIN list : list[k].signer = job.signed[k] /\ OwnPage(list[k])
      BY <2>1 DEF Pages, CertificateOwn, OwnPage
    <2>3. CertificateOwn'
      BY <1>4, <1>7, <2>1, <2>2
    <2>4. QED  BY <1>2, <1>5, <1>7, <2>3 DEF Pages
  <1>8. QED
    BY <1>6, <1>7, TurnOf, RefusalOf DEF Turn, Refused, RenderNext, renderVars,
       pageVars, Start, EndDraw, EndCertify, Pack, Convert, Rendered

\* The certificate pages are those of the first SIGNED signers, in their order, and
\* somebody else's signature is on one only where its signer's own is not found.
THEOREM CertificateIsOwn == RenderSpec => []CertificateOwn
  <1>1. RenderInit => Loops /\ Pages
    <2> SUFFICES ASSUME RenderInit PROVE Loops /\ Pages
      OBVIOUS
    <2>1. Loops
      BY InitLoops
    <2>2. job.signed \in Seq(Signers)
      BY <2>1 DEF Loops, Job
    <2>3. certified = <<>> /\ firstField = 0
      BY DEF RenderInit
    <2>4. QED  BY <2>1, <2>2, <2>3 DEF Pages, CertificateOwn
  <1>2. Loops /\ Pages /\ [RenderNext]_renderVars => (Loops /\ Pages)'
    BY NextLoops, NextPages
  <1>3. Pages => CertificateOwn
    BY DEF Pages
  <1>4. QED  BY <1>1, <1>2, <1>3, PTL DEF RenderSpec

-----------------------------------------------------------------------------
(* The rendered document: the DOCX package *)

NewImage(i) == [id |-> nextRelId, by |-> F(i).signer]

\* Numbers are given in order, above those the package had.
Numbered ==
    /\ nextRelId \in Nat /\ nextRelId > job.maxId
    /\ \A x \in mediaFiles : x.id \in job.maxId + 1..nextRelId - 1
    /\ \A x, y \in mediaFiles : x.id = y.id => x = y
    /\ \A m \in drawn : m.id \in {0} \union (job.maxId + 1..nextRelId - 1)
    /\ \A m, n \in drawn : m.id # 0 /\ m.id = n.id => m = n

\* An image has its file from its turn on, and a relationship from Pack on.
Linked ==
    /\ \A m \in drawn :
           job.kind = "docx" /\ m.as = "image"
           => [id |-> m.id, by |-> F(m.field).signer] \in mediaFiles
    /\ stage = "start" => linked = {}
    /\ stage \in {"convert", "done"} /\ job.kind = "docx"
       => \A m \in drawn : m.as = "image" => m.id \in linked

\* A turn that gives no number.
Unnumbered == /\ UNCHANGED <<nextRelId, mediaFiles>>
              /\ \A m \in drawn' \ drawn :
                     m.id = 0 /\ ~(job.kind = "docx" /\ m.as = "image")

\* A turn that gives one, to at most one mark.
NumberGiven(i) ==
    /\ nextRelId' = nextRelId + 1
    /\ mediaFiles' \in {mediaFiles, mediaFiles \union {NewImage(i)}}
    /\ \E mark : /\ mark.field = i /\ mark.id = nextRelId
                 /\ drawn' \in {drawn, drawn \union {mark}}
                 /\ mark.as = "image" => mediaFiles' = mediaFiles \union {NewImage(i)}

LEMMA AMark ==
    ASSUME NEW i, NEW by, NEW form, NEW id
    PROVE  \E mark : /\ mark.field = i /\ mark.as = form /\ mark.id = id
                     /\ Put(i, by, form, id) => drawn' = drawn \union {mark}
  <1> DEFINE mark == [field |-> i, by |-> by, as |-> form, id |-> id]
  <1>1. mark.field = i /\ mark.as = form /\ mark.id = id
    OBVIOUS
  <1>2. Put(i, by, form, id) => drawn' = drawn \union {mark}
    BY DEF Put
  <1>3. QED  BY <1>1, <1>2

LEMMA TurnNumbers ==
    ASSUME Loops, NEW i \in todo, Draw(i) \/ Place(i)
    PROVE  Unnumbered \/ NumberGiven(i)
  <1>1. ASSUME NEW by, Put(i, by, "text", 0)
        PROVE  \A m \in drawn' \ drawn : m.id = 0 /\ m.as = "text"
    BY <1>1, AMark
  <1>2. CASE SkipMissingPage(i) \/ SkipField(i) \/ LeaveUnsigned(i)
    BY <1>2 DEF SkipMissingPage, SkipField, LeaveUnsigned, DrawTurn, packageVars,
       Unnumbered
  <1>3. CASE DrawText(i) \/ DrawTyped(i) \/ DrawImage(i)
    <2>1. stage = "draw" /\ UNCHANGED <<nextRelId, mediaFiles>>
      BY <1>3 DEF DrawText, DrawTyped, DrawImage, SignatureTurn, DrawTurn, packageVars
    <2>2. job.kind # "docx"
      BY <2>1 DEF Loops
    <2>3. UNCHANGED drawn \/ \E by : Put(i, by, "text", 0) \/ Put(i, by, "image", 0)
      BY <1>3 DEF DrawText, DrawTyped, DrawImage
    <2>4. \A m \in drawn' \ drawn : m.id = 0
      BY <2>3, AMark
    <2>5. QED  BY <2>1, <2>2, <2>4 DEF Unnumbered
  <1>4. CASE ReplaceByText(i)
    <2>1. UNCHANGED drawn \/ \E by : Put(i, by, "text", 0)
      BY <1>4 DEF ReplaceByText, Replace
    <2>2. QED  BY <1>1, <1>4, <2>1 DEF ReplaceByText, Unnumbered
  <1>5. CASE ReplaceByImage(i) \/ AnchorImage(i)
    <2>1. \E by : UNCHANGED drawn \/ Put(i, by, "image", nextRelId)
      BY <1>5 DEF ReplaceByImage, Replace, AnchorImage, Anchor
    <2>2. PICK by : UNCHANGED drawn \/ Put(i, by, "image", nextRelId)
      BY <2>1
    <2>3. CASE Put(i, by, "image", nextRelId)
      <3>1. \E mark : /\ mark.field = i /\ mark.as = "image" /\ mark.id = nextRelId
                      /\ drawn' = drawn \union {mark}
        BY <2>3, AMark
      <3>2. QED
        BY <1>5, <3>1 DEF ReplaceByImage, AnchorImage, AddImage, NewImage, NumberGiven
    <2>4. CASE UNCHANGED drawn
      <3> DEFINE mark == [field |-> i, id |-> nextRelId]
      <3>1. mark.field = i /\ mark.id = nextRelId
        OBVIOUS
      <3>2. QED
        BY <1>5, <2>4, <3>1 DEF ReplaceByImage, AnchorImage, AddImage, NewImage,
           NumberGiven
    <2>5. QED  BY <2>2, <2>3, <2>4
  <1>6. CASE AnchorText(i) \/ AnchorTyped(i)
    <2>1. \E by : Put(i, by, "text", nextRelId)
      BY <1>6 DEF AnchorText, AnchorTyped, Anchor
    <2>2. \E mark : /\ mark.field = i /\ mark.id = nextRelId /\ mark.as = "text"
                    /\ drawn' = drawn \union {mark}
      BY <2>1, AMark
    <2>3. QED  BY <1>6, <2>2 DEF AnchorText, AnchorTyped, NumberGiven
  <1>7. QED  BY <1>2, <1>3, <1>4, <1>5, <1>6 DEF Draw, Place

LEMMA NextNumbered == Loops /\ Numbered /\ [RenderNext]_renderVars => Numbered'
  <1> SUFFICES ASSUME Loops, Numbered, [RenderNext]_renderVars PROVE Numbered'
    OBVIOUS
  <1>1. UNCHANGED <<job, fields>> /\ job.maxId \in Nat
    BY NextLoops DEF Loops, Job
  <1>2. CASE Others \/ UNCHANGED renderVars
    <2>1. UNCHANGED <<nextRelId, mediaFiles>> /\ drawn' \subseteq drawn
      BY <1>2 DEF Others, renderVars, pageVars, packageVars, Start, EndDraw, Certify,
         EndCertify, Pack, Convert
    <2>2. QED  BY <1>1, <2>1 DEF Numbered
  <1>3. ASSUME Unnumbered PROVE Numbered'
    <2>1. /\ UNCHANGED <<nextRelId, mediaFiles>>
          /\ \A m \in drawn' : m \in drawn \/ m.id = 0
      BY <1>3 DEF Unnumbered
    <2>2. QED  BY <1>1, <2>1 DEF Numbered
  <1>4. ASSUME NEW i, NumberGiven(i) PROVE Numbered'
    <2>1. PICK mark : /\ mark.field = i /\ mark.id = nextRelId
                      /\ drawn' \in {drawn, drawn \union {mark}}
      BY <1>4 DEF NumberGiven
    <2>2. \A x \in mediaFiles' : x \in mediaFiles \/ (x = NewImage(i) /\ x.id = nextRelId)
      BY <1>4 DEF NumberGiven, NewImage
    <2>3. nextRelId' = nextRelId + 1 /\ nextRelId \in Nat /\ nextRelId > job.maxId
      BY <1>4 DEF NumberGiven, Numbered
    <2>4. \A m \in drawn' : m \in drawn \/ (m = mark /\ m.id = nextRelId)
      BY <2>1
    <2>5. /\ \A x \in mediaFiles' : x.id \in job.maxId + 1..nextRelId
          /\ \A m \in drawn' : m.id \in {0} \union (job.maxId + 1..nextRelId)
      BY <1>1, <2>2, <2>3, <2>4 DEF Numbered
    <2>6. \A x, y \in mediaFiles' : x.id = y.id => x = y
      BY <1>1, <2>2, <2>3 DEF Numbered
    <2>7. \A m, n \in drawn' : m.id # 0 /\ m.id = n.id => m = n
      BY <1>1, <2>3, <2>4 DEF Numbered
    <2>8. QED  BY <1>1, <2>3, <2>5, <2>6, <2>7 DEF Numbered
  <1>5. ASSUME NEW i \in todo, RefuseColor(i) PROVE Unnumbered
    BY <1>5, RefusalOf DEF Refused, Unnumbered
  <1>6. QED  BY <1>2, <1>3, <1>4, <1>5, TurnNumbers DEF RenderNext, Others, Rendered

LEMMA NextLinked == Loops /\ Linked /\ [RenderNext]_renderVars => Linked'
  <1> SUFFICES ASSUME Loops, Linked, [RenderNext]_renderVars PROVE Linked'
    OBVIOUS
  <1> DEFINE file(m) == [id |-> m.id, by |-> F(m.field).signer]
  <1>1. UNCHANGED <<job, fields>> /\ \A m : file(m)' = file(m)
    BY NextLoops DEF F
  <1> HIDE DEF file
  <1>2. /\ (\A m \in drawn' : job.kind = "docx" /\ m.as = "image" => file(m) \in mediaFiles')
        /\ stage' = "start" => linked' = {}
        /\ stage' \in {"convert", "done"} /\ job.kind = "docx"
           => \A m \in drawn' : m.as = "image" => m.id \in linked'
        => Linked'
    BY <1>1 DEF Linked, file
  <1>3. \A m \in drawn : job.kind = "docx" /\ m.as = "image" => file(m) \in mediaFiles
    BY DEF Linked, file
  <1>4. CASE Start
    <2>1. /\ drawn' = {} /\ mediaFiles' = {} /\ linked' = {}
      BY <1>4 DEF Start, pageVars, packageVars, Loops, Linked
    <2>2. QED  BY <1>2, <2>1
  <1>5. CASE EndDraw \/ Certify \/ EndCertify
    <2>1. UNCHANGED <<drawn, mediaFiles>> /\ stage' # "start" /\ job.kind = "pdf"
      BY <1>5 DEF EndDraw, Certify, EndCertify, pageVars, packageVars, Loops
    <2>2. QED  BY <1>2, <1>3, <2>1
  <1>6. CASE Pack
    <2>1. mediaFiles' = mediaFiles /\ drawn' \subseteq drawn /\ stage' # "start"
      BY <1>6 DEF Pack
    <2>2. ASSUME NEW m \in drawn', m.as = "image", job.kind = "docx"
          PROVE  m.id \in linked'
      <3>1. job.closed /\ m \in drawn /\ linked' = {x.id : x \in mediaFiles}
        BY <1>6, <2>2 DEF Pack
      <3>2. file(m) \in mediaFiles /\ file(m).id = m.id
        BY <1>3, <2>2, <3>1 DEF file
      <3>3. QED  BY <3>1, <3>2
    <2>3. QED  BY <1>2, <1>3, <2>1, <2>2
  <1>7. CASE Convert \/ UNCHANGED renderVars
    <2>1. /\ UNCHANGED <<drawn, mediaFiles, linked>>
          /\ stage' = stage \/ (stage = "convert" /\ stage' # "start")
      BY <1>7 DEF Convert, pageVars, packageVars, renderVars
    <2>2. QED  BY <1>2, <1>3, <2>1 DEF Linked
  <1>8. ASSUME NEW i \in todo, Draw(i) \/ Place(i) PROVE Linked'
    <2>1. stage' \notin {"start", "convert", "done"}
      BY <1>8, TurnOf DEF Turn
    <2>2. CASE Unnumbered
      BY <1>2, <1>3, <2>1, <2>2 DEF Unnumbered
    <2>3. CASE NumberGiven(i)
      <3>1. PICK mark :
                /\ mark.field = i /\ mark.id = nextRelId
                /\ drawn' \in {drawn, drawn \union {mark}}
                /\ mark.as = "image" => mediaFiles' = mediaFiles \union {NewImage(i)}
        BY <2>3 DEF NumberGiven
      <3>2. file(mark) = NewImage(i)
        BY <3>1 DEF file, NewImage
      <3>3. mediaFiles \subseteq mediaFiles'
        BY <2>3 DEF NumberGiven
      <3>4. \A m \in drawn' : job.kind = "docx" /\ m.as = "image" => file(m) \in mediaFiles'
        BY <1>3, <3>1, <3>2, <3>3
      <3>5. QED  BY <1>2, <2>1, <3>4
    <2>4. QED  BY <1>8, <2>2, <2>3, TurnNumbers
  <1>9. ASSUME NEW i \in todo, RefuseColor(i) PROVE Linked'
    BY <1>2, <1>3, <1>9, RefusalOf DEF Refused
  <1>10. QED  BY <1>4, <1>5, <1>6, <1>7, <1>8, <1>9 DEF RenderNext, Rendered

\* What is added to a DOCX package fits together and leaves the rest alone.
THEOREM PackageIsConsistent == RenderSpec => []PackageConsistent
  <1>1. RenderInit => Loops /\ Numbered /\ Linked
    <2> SUFFICES ASSUME RenderInit PROVE Loops /\ Numbered /\ Linked
      OBVIOUS
    <2>1. Loops
      BY InitLoops
    <2>2. job.maxId \in Nat
      BY <2>1 DEF Loops, Job
    <2>3. QED  BY <2>1, <2>2 DEF RenderInit, FirstRelId, Numbered, Linked
  <1>2. Loops /\ Numbered /\ Linked /\ [RenderNext]_renderVars
        => (Loops /\ Numbered /\ Linked)'
    BY NextLoops, NextNumbered, NextLinked
  <1>3. Loops /\ Numbered /\ Linked => PackageConsistent
    <2> SUFFICES ASSUME Loops, Numbered, Linked PROVE PackageConsistent
      OBVIOUS
    <2>1. job.maxId \in Nat /\ job.media \subseteq Nat
      BY DEF Loops, Job
    <2>2. \A x \in mediaFiles : x.id > job.maxId
      BY <2>1 DEF Numbered
    <2>3. (\A n \in job.media : n <= job.maxId) => \A x \in mediaFiles : x.id \notin job.media
      BY <2>1, <2>2 DEF Numbered
    <2>4. ASSUME NEW m \in drawn, job.kind = "docx", m.as = "image"
          PROVE  /\ [id |-> m.id, by |-> F(m.field).signer] \in mediaFiles
                 /\ stage \in {"convert", "done"} => m.id \in linked
      BY <2>4 DEF Linked
    <2>5. QED  BY <2>2, <2>3, <2>4 DEF PackageConsistent, Numbered
  <1>4. QED  BY <1>1, <1>2, <1>3, PTL DEF RenderSpec

-----------------------------------------------------------------------------
(* The rendered document: types *)

\* A turn adds at most one mark, by somebody or nobody.
LEMMA TurnMark ==
    ASSUME Loops, nextRelId \in Nat, NEW i \in todo, Draw(i) \/ Place(i)
    PROVE  /\ drawn' \subseteq drawn \union Mark
           /\ firstField' \in {firstField, i}
           /\ open' \subseteq open
  <1>1. i \in Chosen
    BY TurnOf DEF Turn, Loops
  <1>2. i \in Nat /\ F(i) \in Field
    BY <1>1, FieldOf
  <1>3. F(i).signer \in Signers /\ F(i).text.form \in {"absent", "plain", "list"}
    BY <1>2 DEF Field, Text
  <1>4. job.top \in Signers \union {None}
    BY DEF Loops, Job
  <1>5. ASSUME NEW by \in Signers \union {None}, NEW form \in {"text", "image"},
               NEW id \in Nat, Put(i, by, form, id)
        PROVE  drawn' \subseteq drawn \union Mark
    <2>1. [field |-> i, by |-> by, as |-> form, id |-> id] \in Mark
      BY <1>2 DEF Mark
    <2>2. QED  BY <1>5, <2>1 DEF Put
  <1>6. /\ PdfText(F(i)) \in Signers \union {None}
        /\ DocxText(F(i)) \in Signers \union {None}
        /\ PdfImage(F(i)) \in Signers \union {None}
    BY <1>3, <1>4 DEF PdfText, DocxText, PdfImage
  <1>7. CASE SkipMissingPage(i) \/ SkipField(i) \/ LeaveUnsigned(i)
    BY <1>7 DEF SkipMissingPage, DrawTurn, packageVars, SkipField, LeaveUnsigned,
       ReplaceTurn, AnchorTurn, AnchorNext
  <1>8. CASE DrawText(i) \/ DrawTyped(i) \/ DrawImage(i)
    <2>1. firstField' \in {firstField, i} /\ open' = open
      BY <1>8 DEF DrawText, DrawTyped, DrawImage, SignatureTurn, DrawTurn, packageVars
    <2>2. \/ UNCHANGED drawn
          \/ Put(i, PdfText(F(i)), "text", 0)
          \/ Put(i, F(i).signer, "text", 0)
          \/ Put(i, PdfImage(F(i)), "image", 0)
      BY <1>8 DEF DrawText, DrawTyped, DrawImage
    <2>3. QED  BY <1>3, <1>5, <1>6, <2>1, <2>2
  <1>9. CASE \/ ReplaceByText(i) \/ ReplaceByImage(i)
             \/ AnchorText(i) \/ AnchorImage(i) \/ AnchorTyped(i)
    <2>1. firstField' = firstField /\ open' \subseteq open
      BY <1>9 DEF ReplaceByText, ReplaceByImage, AnchorText, AnchorImage, AnchorTyped,
         Replace, ReplaceTurn, Anchor, AnchorTurn, AnchorNext
    <2>2. \/ UNCHANGED drawn
          \/ \E by \in {F(i).signer, DocxText(F(i))}, form \in {"text", "image"},
                id \in {0, nextRelId} : Put(i, by, form, id)
      BY <1>9 DEF ReplaceByText, ReplaceByImage, AnchorText, AnchorImage, AnchorTyped,
         Replace, Anchor
    <2>3. QED  BY <1>3, <1>5, <1>6, <2>1, <2>2
  <1>10. QED  BY <1>7, <1>8, <1>9 DEF Draw, Place

LEMMA NextTypes ==
    Loops /\ Pages /\ Numbered /\ TypeOK /\ [RenderNext]_renderVars => TypeOK'
  <1> SUFFICES ASSUME Loops, Pages, Numbered, TypeOK, [RenderNext]_renderVars
               PROVE  TypeOK'
    OBVIOUS
  <1>1. /\ UNCHANGED <<job, fields>> /\ Loops' /\ Pages'
        /\ job \in Job /\ fields \in Seq(Field)
    BY NextLoops, NextPages DEF Loops
  <1>2. /\ job' \in Job /\ fields' \in Seq(Field) /\ DOMAIN fields' = DOMAIN fields
        /\ stage' \in {"start", "draw", "certify", "place", "convert"} \union Ended
        /\ certified' \in Seq(Certificate)
    BY <1>1 DEF Loops, Pages, Ended
  <1>3. CASE Others
    <2>1. /\ todo' \subseteq DOMAIN fields /\ drawn' \subseteq Mark
          /\ UNCHANGED <<firstField, open, nextRelId, mediaFiles>>
      BY <1>3 DEF Others, Start, EndDraw, Certify, EndCertify, Pack, Convert, pageVars,
         packageVars, TypeOK, Chosen
    <2>2. linked' \subseteq Nat
      BY <1>3 DEF Others, Start, EndDraw, Certify, EndCertify, Pack, Convert,
         packageVars, TypeOK, Image
    <2>3. QED  BY <1>2, <2>1, <2>2 DEF TypeOK
  <1>4. ASSUME NEW i \in todo, Draw(i) \/ Place(i) PROVE TypeOK'
    <2>1. nextRelId \in Nat /\ i \in DOMAIN fields
      BY DEF TypeOK
    <2>2. todo' \subseteq DOMAIN fields /\ linked' \subseteq Nat
      BY <1>4, TurnOf DEF Turn, TypeOK
    <2>3. /\ drawn' \subseteq Mark /\ firstField' \in {0} \union DOMAIN fields
          /\ open' \subseteq Slots
      BY <1>4, <2>1, TurnMark DEF TypeOK
    <2>4. F(i).signer \in Signers
      <3>1. F(i) \in Field
        BY <1>1, <2>1 DEF F
      <3>2. QED  BY <3>1 DEF Field
    <2>5. nextRelId' \in Nat /\ mediaFiles' \subseteq Image
      <3>1. NewImage(i) \in Image
        BY <2>1, <2>4 DEF NewImage, Image
      <3>2. CASE Unnumbered
        BY <3>2 DEF Unnumbered, TypeOK
      <3>3. CASE NumberGiven(i)
        BY <2>1, <3>1, <3>3 DEF NumberGiven, TypeOK
      <3>4. QED  BY <1>4, <3>2, <3>3, TurnNumbers
    <2>6. QED  BY <1>2, <2>2, <2>3, <2>5 DEF TypeOK
  <1>5. ASSUME NEW i \in todo, RefuseColor(i) PROVE TypeOK'
    BY <1>2, <1>5, RefusalOf DEF Refused, TypeOK
  <1>6. CASE UNCHANGED renderVars
    BY <1>6 DEF renderVars, TypeOK
  <1>7. QED  BY <1>3, <1>4, <1>5, <1>6 DEF RenderNext, Others, Rendered

\* Each of the service's variables keeps its type.
THEOREM RenderTypes == RenderSpec => []TypeOK
  <1> DEFINE Inv == Loops /\ Pages /\ Numbered /\ TypeOK
  <1>1. RenderInit => Inv
    <2> SUFFICES ASSUME RenderInit PROVE Inv
      OBVIOUS
    <2>1. Loops
      BY InitLoops
    <2>2. /\ job \in Job /\ fields \in Seq(Field) /\ job.slots \subseteq Slots
          /\ job.maxId \in Nat /\ job.signed \in Seq(Signers)
      BY <2>1 DEF Loops, Job
    <2>3. QED  BY <2>1, <2>2 DEF RenderInit, Pages, CertificateOwn, Numbered, FirstRelId,
                  TypeOK
  <1>2. Inv /\ [RenderNext]_renderVars => Inv'
    BY NextLoops, NextPages, NextNumbered, NextTypes
  <1>3. QED  BY <1>1, <1>2, PTL DEF RenderSpec

-----------------------------------------------------------------------------
(* The activity log: the steps of a request *)

Received(r) ==
    /\ pc[r] = "idle"
    /\ \E b \in Bodies : body' = [body EXCEPT ![r] = b]
    /\ \E label \in {"write", "find", "notFound"} : pc' = [pc EXCEPT ![r] = label]
    /\ together' = together \union {{r, q} : q \in Log!Active}
    /\ UNCHANGED <<clock, log, wrote, checkedAt, unlogged>>

\* Write, Save or Send.
Wrote(r) ==
    /\ pc[r] = "write" /\ pc' = [pc EXCEPT ![r] = "find"]
    /\ \/ wrote' = wrote
       \/ wrote' = wrote \union {r} /\ ~Log!Locked(body[r].doc)
    /\ UNCHANGED <<clock, log, body, checkedAt, unlogged, together>>

\* Commit or RollBack.
Finished(r) ==
    /\ pc[r] = "commit"
    /\ \E label \in {"done", "rolledBack"} : pc' = [pc EXCEPT ![r] = label]
    /\ UNCHANGED <<clock, log, body, wrote, checkedAt, unlogged, together>>

Moved(r) == \/ Received(r) \/ Wrote(r) \/ Log!FindRecent(r) \/ Log!CreateEntry(r)
            \/ Log!FailToLog(r) \/ Finished(r)

LEMMA StepMoves == ASSUME NEW r, Log!Step(r) PROVE Moved(r)
  <1>1. CASE Log!Receive(r)
    <2>1. \A b : Log!Begun(b) \subseteq {"write", "find", "notFound"}
      BY DEF Log!Begun
    <2>2. QED  BY <1>1, <2>1 DEF Log!Receive, Log!Goto, Received, Moved
  <1>2. CASE Log!Write(r) \/ Log!Save(r) \/ Log!Send(r)
    BY <1>2 DEF Log!Write, Log!WriteRow, Log!Save, Log!Send, Log!Goto, Wrote, Moved
  <1>3. CASE Log!Commit(r) \/ Log!RollBack(r)
    BY <1>3 DEF Log!Commit, Log!RollBack, Log!Goto, Finished, Moved
  <1>4. QED  BY <1>1, <1>2, <1>3 DEF Log!Step, Moved

LEMMA NextMoves ==
    [Next]_vars => \/ Log!Tick
                   \/ \E r \in Requests : Moved(r)
                   \/ UNCHANGED logVars
  BY StepMoves DEF Next, LogStep, CreateDocument, ReadStep, Terminated, vars

\* After logging: a transaction is to be committed, the others are done.
LEMMA AfterLogging ==
    ASSUME NEW r, Log!AfterLog(r)
    PROVE  \E label \in {"commit", "done"} :
               /\ pc' = [pc EXCEPT ![r] = label]
               /\ label = "commit" => body[r].op \in Log!Transactions
  BY DEF Log!AfterLog, Log!Goto

-----------------------------------------------------------------------------
(* The activity log: its invariant *)

Known == Log!Running \union Log!Finished

LogTypes ==
    /\ clock \in Nat
    /\ pc \in [Requests -> {"idle"} \union Known]
    /\ body \in [Requests -> Bodies \union {Log!NoBody}]
    /\ checkedAt \in [Requests -> Nat]
    /\ \A r \in Requests : checkedAt[r] <= clock
    /\ \A e \in log : e.by \in Requests /\ e.at \in Nat /\ e.at <= clock
    /\ \A r \in wrote : r \in Requests /\ pc[r] \notin {"idle", "write"}

LEMMA InitLogTypes == Init => LogTypes
  BY LogAssumption DEF Init, Log!Init, LogTypes

LEMMA NextLogTypes == LogTypes /\ [Next]_vars => LogTypes'
  <1> SUFFICES ASSUME LogTypes, [Next]_vars PROVE LogTypes'
    OBVIOUS
  <1> USE DEF LogTypes, Known, Log!Running, Log!Finished
  <1>1. CASE Log!Tick
    BY <1>1 DEF Log!Tick, Log!logVars
  <1>2. ASSUME NEW r \in Requests, Moved(r) PROVE LogTypes'
    <2>1. CASE Received(r)
      BY <2>1 DEF Received
    <2>2. CASE Wrote(r) \/ Finished(r)
      BY <2>2 DEF Wrote, Finished
    <2>3. CASE Log!FindRecent(r)
      BY <2>3 DEF Log!FindRecent, Log!AfterLog, Log!Goto
    <2>4. CASE Log!CreateEntry(r)
      BY <2>4 DEF Log!CreateEntry, Log!AfterLog, Log!Goto
    <2>5. CASE Log!FailToLog(r)
      BY <2>5 DEF Log!FailToLog, Log!AfterLog, Log!Goto
    <2>6. QED  BY <1>2, <2>1, <2>2, <2>3, <2>4, <2>5 DEF Moved
  <1>3. CASE UNCHANGED logVars
    BY <1>3 DEF logVars
  <1>4. QED  BY <1>1, <1>2, <1>3, NextMoves

\* A transaction that has got its row.
Holds(r) == pc[r] \in {"find", "create", "commit"} /\ r \in wrote

\* Requests in flight together are known as such, and of the transactions about
\* one document only one has its row.
Flight ==
    /\ \A q, r \in Requests : q # r /\ q \in Log!Active /\ r \in Log!Active
                              => {q, r} \in together
    /\ \A q, r \in Requests : Holds(q) /\ Holds(r) /\ body[q].doc = body[r].doc
                              => q = r

\* An entry is of a request that has logged, and of its change.
Authors ==
    /\ \A e \in log : /\ pc[e.by] \in {"commit", "done", "rolledBack"}
                      /\ Log!Same(e, body[e.by])
    /\ \A d, e \in log : d.by = e.by => d = e

LEMMA NextFlight == LogTypes /\ Flight /\ [Next]_vars => Flight'
  <1> SUFFICES ASSUME LogTypes, Flight, [Next]_vars PROVE Flight'
    OBVIOUS
  <1> USE DEF Log!Active, Log!Running
  <1>1. pc \in [Requests -> {"idle"} \union Known]
        /\ body \in [Requests -> Bodies \union {Log!NoBody}]
    BY DEF LogTypes
  <1>2. CASE Log!Tick
    BY <1>2 DEF Log!Tick, Log!logVars, Flight, Holds
  <1>3. ASSUME NEW r \in Requests, Received(r) PROVE Flight'
    <2>1. /\ \A q \in Requests \ {r} : pc'[q] = pc[q] /\ body'[q] = body[q]
          /\ pc'[r] \in {"write", "find", "notFound"}
      BY <1>1, <1>3 DEF Received
    <2>2. \A q \in Requests \ {r} : Holds(q)' <=> Holds(q)
      BY <1>3, <2>1 DEF Received, Holds
    <2>3. ~Holds(r)'
      BY <1>3 DEF Received, LogTypes, Holds
    <2>4. \A q, t \in Requests : Holds(q)' /\ Holds(t)' /\ body'[q].doc = body'[t].doc
                                 => q = t
      BY <2>1, <2>2, <2>3 DEF Flight
    <2>5. \A q \in Requests \ {r} : q \in Log!Active' => {q, r} \in together'
      BY <1>3, <2>1 DEF Received
    <2>6. together \subseteq together'
      BY <1>3 DEF Received
    <2>7. \A q, t \in Requests : q # t /\ q \in Log!Active' /\ t \in Log!Active'
                                 => {q, t} \in together'
      <3> SUFFICES ASSUME NEW q \in Requests, NEW t \in Requests, q # t,
                          q \in Log!Active', t \in Log!Active'
                   PROVE  {q, t} \in together'
        OBVIOUS
      <3>1. CASE q = r \/ t = r
        <4>1. {q, t} = {t, q}
          OBVIOUS
        <4>2. QED  BY <2>5, <3>1, <4>1
      <3>2. CASE q # r /\ t # r
        BY <2>1, <2>6, <3>2 DEF Flight
      <3>3. QED  BY <3>1, <3>2
    <2>8. QED  BY <2>4, <2>7 DEF Flight
  <1>4. ASSUME NEW r \in Requests, Moved(r), ~Received(r) PROVE Flight'
    <2>1. /\ UNCHANGED <<body, together>> /\ pc[r] \in Log!Running
          /\ \A q \in Requests \ {r} : pc'[q] = pc[q]
      BY <1>1, <1>4, AfterLogging DEF Moved, Wrote, Finished, Log!FindRecent,
         Log!CreateEntry, Log!FailToLog, Log!Goto
    <2>2. /\ \A q \in Requests \ {r} : Holds(q)' <=> Holds(q)
          /\ Holds(r)' /\ ~Holds(r) => ~Log!Locked(body[r].doc)
      <3>1. wrote' = wrote \/ Wrote(r)
        BY <1>4 DEF Moved, Finished, Log!FindRecent, Log!CreateEntry, Log!FailToLog
      <3>2. \A q \in Requests \ {r} : q \in wrote' <=> q \in wrote
        BY <3>1 DEF Wrote
      <3>3. CASE Wrote(r)
        BY <2>1, <3>2, <3>3 DEF Wrote, LogTypes, Holds
      <3>4. CASE ~Wrote(r)
        <4>1. pc[r] \in {"find", "create", "commit"}
          BY <1>4, <3>4 DEF Moved, Finished, Log!FindRecent, Log!CreateEntry,
             Log!FailToLog
        <4>2. QED  BY <2>1, <3>1, <3>4, <4>1 DEF Holds
      <3>5. QED  BY <3>3, <3>4
    <2>3. \A q \in Requests : Holds(q) /\ ~Log!Locked(body[r].doc)
                             => body[q].doc # body[r].doc
      BY DEF Log!Locked, Holds
    <2>5. \A q, t \in Requests : Holds(q)' /\ Holds(t)' /\ body'[q].doc = body'[t].doc
                                 => q = t
      <3>1. ASSUME NEW q \in Requests \ {r}, Holds(q)', Holds(r)'
            PROVE  body[q].doc # body[r].doc
        BY <2>2, <2>3, <3>1 DEF Flight
      <3>2. \A q, t \in Requests \ {r} : Holds(q)' /\ Holds(t)' /\ body[q].doc = body[t].doc
                                         => q = t
        BY <2>2 DEF Flight
      <3>3. QED  BY <2>1, <3>1, <3>2
    <2>6. \A q \in Requests : q \in Log!Active' => q \in Log!Active
      BY <2>1
    <2>7. QED  BY <2>1, <2>5, <2>6 DEF Flight
  <1>5. CASE UNCHANGED logVars
    BY <1>5 DEF logVars, Flight, Holds
  <1>6. QED  BY <1>2, <1>3, <1>4, <1>5, NextMoves

LEMMA NextAuthors == LogTypes /\ Authors /\ [Next]_vars => Authors'
  <1> SUFFICES ASSUME LogTypes, Authors, [Next]_vars PROVE Authors'
    OBVIOUS
  <1>1. /\ pc \in [Requests -> {"idle"} \union Known]
        /\ body \in [Requests -> Bodies \union {Log!NoBody}]
        /\ \A e \in log : e.by \in Requests
    BY DEF LogTypes
  <1>2. CASE Log!Tick
    BY <1>2 DEF Log!Tick, Log!logVars, Authors, Log!Same
  <1>3. ASSUME NEW r \in Requests, Received(r) \/ Wrote(r) PROVE Authors'
    <2>1. \A e \in log : e.by # r
      BY <1>3 DEF Received, Wrote, Authors
    <2>2. \A q \in Requests \ {r} : pc'[q] = pc[q] /\ body'[q] = body[q]
      BY <1>1, <1>3 DEF Received, Wrote
    <2>3. log' = log
      BY <1>3 DEF Received, Wrote
    <2>4. QED  BY <1>1, <2>1, <2>2, <2>3 DEF Authors, Log!Same
  <1>4. ASSUME NEW r \in Requests,
               Log!FindRecent(r) \/ Log!FailToLog(r) \/ Finished(r)
        PROVE  Authors'
    <2>1. log' = log /\ body' = body
      BY <1>4 DEF Log!FindRecent, Log!FailToLog, Finished
    <2>2. \A q \in Requests : pc'[q] = pc[q] \/ pc[q] \in {"find", "create", "commit"}
      BY <1>1, <1>4, AfterLogging DEF Log!FindRecent, Log!FailToLog, Finished, Log!Goto
    <2>3. pc[r] = "commit" => pc'[r] \in {"done", "rolledBack"}
      BY <1>1, <1>4 DEF Log!FindRecent, Log!FailToLog, Finished
    <2>4. \A q \in Requests \ {r} : pc'[q] = pc[q]
      BY <1>1, <1>4, AfterLogging DEF Log!FindRecent, Log!FailToLog, Finished, Log!Goto
    <2>5. \A e \in log : pc'[e.by] \in {"commit", "done", "rolledBack"}
      BY <1>1, <2>2, <2>3, <2>4 DEF Authors
    <2>6. QED  BY <2>1, <2>5 DEF Authors, Log!Same
  <1>5. ASSUME NEW r \in Requests, Log!CreateEntry(r) PROVE Authors'
    <2> DEFINE new == [user |-> body[r].user, doc |-> body[r].doc,
                       activity |-> Log!ActivityOf(body[r].op), at |-> clock, by |-> r]
    <2>1. log' = log \union {new} /\ body' = body
      BY <1>5 DEF Log!CreateEntry
    <2>2. /\ pc'[r] \in {"commit", "done"}
          /\ \A q \in Requests \ {r} : pc'[q] = pc[q]
      BY <1>1, <1>5, AfterLogging DEF Log!CreateEntry
    <2>3. \A e \in log : e.by # r
      BY <1>5 DEF Log!CreateEntry, Authors
    <2>4. new.by = r /\ Log!Same(new, body[r])
      BY DEF Log!Same
    <2> HIDE DEF new
    <2>5. \A e \in log' : /\ pc'[e.by] \in {"commit", "done", "rolledBack"}
                          /\ Log!Same(e, body[e.by])
      BY <1>1, <2>1, <2>2, <2>3, <2>4 DEF Authors
    <2>6. \A d, e \in log' : d.by = e.by => d = e
      BY <2>1, <2>3, <2>4 DEF Authors
    <2>7. QED  BY <2>1, <2>5, <2>6 DEF Authors, Log!Same
  <1>6. CASE UNCHANGED logVars
    BY <1>6 DEF logVars, Authors, Log!Same
  <1>7. QED  BY <1>2, <1>3, <1>4, <1>5, <1>6, NextMoves DEF Moved

\* An entry that stands in the way of another one by request r.
Conflicts(e, r) == Log!Same(e, body[r]) /\ e.at >= checkedAt[r] - Minute

\* Who wrote it was in flight with r, and they are not both transactions that have
\* written the row.
Apart(e, r) == {e.by, r} \in together /\ ~({e.by, r} \subseteq wrote)

\* About to create an entry, a request has seen all of those that stand in the
\* way but of requests that were in flight with it.
Checked == \A r \in Requests : pc[r] = "create" =>
               /\ body[r].user # NoUser
               /\ \A e \in log : Conflicts(e, r) => Apart(e, r)

\* Of the others a request's step leaves everything alone.
LEMMA OthersKept ==
    ASSUME LogTypes, NEW r \in Requests, Moved(r)
    PROVE  /\ together \subseteq together'
           /\ \A q \in Requests : pc[q] # "idle" => body'[q] = body[q]
           /\ \A q \in Requests : pc[q] # "write" => (q \in wrote' <=> q \in wrote)
           /\ \A q \in Requests \ {r} :
                  /\ pc'[q] = pc[q] /\ body'[q] = body[q] /\ checkedAt'[q] = checkedAt[q]
  <1>1. /\ pc \in [Requests -> {"idle"} \union Known]
        /\ body \in [Requests -> Bodies \union {Log!NoBody}]
        /\ checkedAt \in [Requests -> Nat]
    BY DEF LogTypes
  <1>2. CASE Received(r)
    BY <1>1, <1>2 DEF Received
  <1>3. CASE ~Received(r)
    BY <1>1, <1>3, AfterLogging DEF Moved, Wrote, Finished, Log!FindRecent,
       Log!CreateEntry, Log!FailToLog, Log!Goto
  <1>4. QED  BY <1>2, <1>3

LEMMA NextChecked ==
    LogTypes /\ Flight /\ Authors /\ Checked /\ [Next]_vars => Checked'
  <1> SUFFICES ASSUME LogTypes, Flight, Authors, Checked, [Next]_vars PROVE Checked'
    OBVIOUS
  <1> USE DEF Conflicts, Apart
  <1>1. /\ pc \in [Requests -> {"idle"} \union Known]
        /\ checkedAt \in [Requests -> Nat]
        /\ \A e \in log : e.by \in Requests /\ e.at \in Nat
        /\ clock \in Nat
    BY DEF LogTypes
  <1>2. Minute \in Nat
    BY LogAssumption DEF Log!ConstantsOK
  <1>3. CASE Log!Tick
    BY <1>3 DEF Log!Tick, Log!logVars, Checked, Log!Same
  <1>4. ASSUME NEW r \in Requests, Moved(r) PROVE Checked'
    <2>1. /\ together \subseteq together'
          /\ \A q \in Requests : pc[q] # "idle" => body'[q] = body[q]
          /\ \A q \in Requests \ {r} :
                 pc'[q] = pc[q] /\ body'[q] = body[q] /\ checkedAt'[q] = checkedAt[q]
      BY <1>4, OthersKept
    <2>2. \A e \in log : pc[e.by] \notin {"idle", "write"}
      BY DEF Authors
    <2>3. \A q \in Requests : pc[q] # "write" => (q \in wrote' <=> q \in wrote)
      BY <1>4, OthersKept
    <2>4. ASSUME NEW q \in Requests \ {r}, pc'[q] = "create", NEW e \in log, Conflicts(e, q)'
          PROVE  Apart(e, q)'
      <3>1. pc[q] = "create" /\ Conflicts(e, q)
        BY <2>1, <2>4 DEF Log!Same
      <3>2. Apart(e, q)
        BY <3>1 DEF Checked
      <3>3. {e.by, q} \subseteq wrote' => {e.by, q} \subseteq wrote
        BY <1>1, <2>2, <2>3, <3>1
      <3>4. QED  BY <2>1, <3>2, <3>3
    <2>5. ASSUME NEW q \in Requests \ {r}, pc'[q] = "create", NEW e \in log' \ log,
                 Conflicts(e, q)'
          PROVE  Apart(e, q)'
      <3>1. Log!CreateEntry(r)
        BY <1>4, <2>5 DEF Moved, Received, Wrote, Finished, Log!FindRecent, Log!FailToLog
      <3>2. e.by = r /\ e.doc = body[r].doc
        BY <2>5, <3>1 DEF Log!CreateEntry
      <3>3. pc[q] = "create" /\ pc[r] = "create"
        BY <2>1, <2>5, <3>1 DEF Log!CreateEntry
      <3>4. {r, q} \in together
        BY <3>3 DEF Flight, Log!Active, Log!Running
      <3>5. body[r].doc = body[q].doc
        BY <2>1, <2>5, <3>2 DEF Log!Same
      <3>6. ~({r, q} \subseteq wrote)
        BY <3>3, <3>5 DEF Flight, Holds
      <3>7. ~({r, q} \subseteq wrote')
        BY <2>3, <3>3, <3>6
      <3>8. QED  BY <2>1, <3>2, <3>4, <3>7
    <2>6. ASSUME pc'[r] = "create"
          PROVE  body'[r].user # NoUser /\ \A e \in log' : ~Conflicts(e, r)'
      <3>1. Log!FindRecent(r)
        BY <1>1, <1>4, <2>6, AfterLogging DEF Moved, Received, Wrote, Finished,
           Log!CreateEntry, Log!FailToLog
      <3>2. /\ body[r].user # NoUser /\ Log!Recent(body[r]) = {}
            /\ log' = log /\ body' = body /\ checkedAt'[r] = clock
        <4>1. log' = log /\ body' = body /\ checkedAt'[r] = clock
          BY <1>1, <3>1 DEF Log!FindRecent
        <4>2. CASE ~(body[r].user # NoUser /\ Log!Recent(body[r]) = {})
          <5>1. Log!AfterLog(r)
            BY <3>1, <4>2 DEF Log!FindRecent
          <5>2. pc'[r] # "create"
            BY <1>1, <5>1, AfterLogging
          <5>3. QED  BY <2>6, <5>2
        <4>3. QED  BY <4>1, <4>2
      <3>3. QED  BY <3>2 DEF Log!Recent, Log!Same
    <2>7. ASSUME NEW q \in Requests \ {r}, pc'[q] = "create" PROVE body'[q].user # NoUser
      BY <2>1, <2>7 DEF Checked
    <2>8. QED  BY <2>4, <2>5, <2>6, <2>7 DEF Checked
  <1>5. CASE UNCHANGED logVars
    BY <1>5 DEF logVars, Checked, Log!Same
  <1>6. QED  BY <1>3, <1>4, <1>5, NextMoves

LEMMA NextDoubles ==
    LogTypes /\ Authors /\ Checked /\ Log!DoublesOverlap /\ [Next]_vars
    => Log!DoublesOverlap'
  <1> SUFFICES ASSUME LogTypes, Authors, Checked, Log!DoublesOverlap, [Next]_vars,
                      NEW d \in log', NEW e \in log', d # e,
                      <<d.user, d.activity, d.doc>> = <<e.user, e.activity, e.doc>>,
                      e.at - d.at \in 0..Minute
               PROVE  /\ {d.by, e.by} \in together'
                      /\ ~({d.by, e.by} \subseteq wrote')
    BY DEF Log!DoublesOverlap
  <1>1. /\ checkedAt \in [Requests -> Nat] /\ clock \in Nat
        /\ \A r \in Requests : checkedAt[r] <= clock
        /\ \A x \in log : x.by \in Requests /\ x.at \in Nat
    BY DEF LogTypes
  <1>2. Minute \in Nat
    BY LogAssumption DEF Log!ConstantsOK
  <1>3. CASE d \in log /\ e \in log
    <2>1. /\ {d.by, e.by} \in together
          /\ ~({d.by, e.by} \subseteq wrote)
      BY <1>3 DEF Log!DoublesOverlap
    <2>2. pc[d.by] # "write" /\ pc[e.by] # "write"
      BY <1>3 DEF Authors
    <2>3. ASSUME NEW r \in Requests, Moved(r)
          PROVE  /\ together \subseteq together'
                 /\ {d.by, e.by} \subseteq wrote' => {d.by, e.by} \subseteq wrote
      <3>1. /\ together \subseteq together'
            /\ \A q \in Requests : pc[q] # "write" => (q \in wrote' <=> q \in wrote)
        BY <2>3, OthersKept
      <3>2. QED  BY <1>1, <1>3, <2>2, <3>1
    <2>4. CASE UNCHANGED <<together, wrote>>
      BY <2>1, <2>4
    <2>5. QED  BY <2>1, <2>3, <2>4, NextMoves DEF Log!Tick, Log!logVars, logVars
  <1>4. ASSUME NEW r \in Requests, Log!CreateEntry(r) PROVE
            /\ {d.by, e.by} \in together'
            /\ ~({d.by, e.by} \subseteq wrote')
    <2> DEFINE new == [user |-> body[r].user, doc |-> body[r].doc,
                       activity |-> Log!ActivityOf(body[r].op), at |-> clock, by |-> r]
    <2>1. log' = log \union {new} /\ wrote' = wrote /\ together' = together
      BY <1>4 DEF Log!CreateEntry
    <2>2. /\ new.user = body[r].user /\ new.activity = Log!ActivityOf(body[r].op)
          /\ new.doc = body[r].doc /\ new.at = clock /\ new.by = r
      OBVIOUS
    <2> HIDE DEF new
    <2>3. ASSUME NEW x \in log, Log!Same(x, body[r]), x.at >= clock - Minute
          PROVE  /\ {x.by, r} \in together
                 /\ ~({x.by, r} \subseteq wrote)
      <3>1. pc[r] = "create"
        BY <1>4 DEF Log!CreateEntry
      <3>2. x.at >= checkedAt[r] - Minute
        BY <1>1, <1>2, <2>3
      <3>3. QED  BY <2>3, <3>1, <3>2 DEF Checked, Conflicts, Apart
    <2>4. CASE d \in log /\ e = new
      <3>1. Log!Same(d, body[r])
        BY <2>2, <2>4 DEF Log!Same
      <3>2. d.at >= clock - Minute
        BY <1>1, <1>2, <2>2, <2>4
      <3>3. QED  BY <2>1, <2>2, <2>3, <2>4, <3>1, <3>2
    <2>5. CASE d = new /\ e \in log
      <3>1. Log!Same(e, body[r])
        BY <2>2, <2>5 DEF Log!Same
      <3>2. e.at >= clock - Minute
        BY <1>1, <1>2, <2>2, <2>5
      <3>3. {e.by, r} = {r, e.by}
        OBVIOUS
      <3>4. QED  BY <2>1, <2>2, <2>3, <2>5, <3>1, <3>2, <3>3
    <2>6. CASE d \in log /\ e \in log
      BY <2>1, <2>6 DEF Log!DoublesOverlap
    <2>7. QED  BY <2>1, <2>4, <2>5, <2>6
  <1>5. CASE log' = log
    BY <1>3, <1>5
  <1>6. QED
    BY <1>4, <1>5, NextMoves DEF Moved, Received, Wrote, Finished, Log!FindRecent,
       Log!FailToLog, Log!Tick, Log!logVars, logVars

\* A request that has come past logging, for a user who is known, has an entry of
\* its kind, of its own or found.
Logged == \A r \in Requests \ unlogged :
              pc[r] \in {"commit", "done", "rolledBack"} /\ body[r].user # NoUser
              => \E e \in log : Conflicts(e, r)

LEMMA NextLogged == LogTypes /\ Logged /\ [Next]_vars => Logged'
  <1> SUFFICES ASSUME LogTypes, Logged, [Next]_vars PROVE Logged'
    OBVIOUS
  <1> USE DEF Conflicts
  <1>1. /\ pc \in [Requests -> {"idle"} \union Known]
        /\ checkedAt \in [Requests -> Nat] /\ clock \in Nat
        /\ \A r \in Requests : checkedAt[r] <= clock
        /\ \A e \in log : e.at \in Nat
    BY DEF LogTypes
  <1>2. Minute \in Nat
    BY LogAssumption DEF Log!ConstantsOK
  <1>3. CASE Log!Tick
    BY <1>3 DEF Log!Tick, Log!logVars, Logged, Log!Same
  <1>4. ASSUME NEW r \in Requests, Moved(r) PROVE Logged'
    <2>1. \A q \in Requests \ {r} :
              pc'[q] = pc[q] /\ body'[q] = body[q] /\ checkedAt'[q] = checkedAt[q]
      BY <1>4, OthersKept
    <2>2. log \subseteq log' /\ unlogged \subseteq unlogged'
      BY <1>4 DEF Moved, Received, Wrote, Finished, Log!FindRecent, Log!CreateEntry,
         Log!FailToLog
    <2>3. ASSUME NEW q \in Requests \ {r}, q \notin unlogged',
                 pc'[q] \in {"commit", "done", "rolledBack"}, body'[q].user # NoUser
          PROVE  \E e \in log' : Conflicts(e, q)'
      <3>1. PICK e \in log : Conflicts(e, q)
        BY <2>1, <2>2, <2>3 DEF Logged
      <3>2. Conflicts(e, q)'
        BY <2>1, <3>1 DEF Log!Same
      <3>3. QED  BY <2>2, <3>1, <3>2
    <2>4. ASSUME r \notin unlogged', pc'[r] \in {"commit", "done", "rolledBack"},
                 body'[r].user # NoUser
          PROVE  \E e \in log' : Conflicts(e, r)'
      <3>1. CASE Received(r) \/ Wrote(r)
        BY <1>1, <2>4, <3>1 DEF Received, Wrote
      <3>2. CASE Finished(r)
        BY <2>2, <2>4, <3>2 DEF Finished, Logged, Log!Same
      <3>3. CASE Log!FailToLog(r)
        BY <2>4, <3>3 DEF Log!FailToLog
      <3>4. CASE Log!FindRecent(r)
        <4>1. body' = body /\ checkedAt'[r] = clock /\ log' = log
          BY <1>1, <3>4 DEF Log!FindRecent
        <4>2. CASE body[r].user # NoUser /\ Log!Recent(body[r]) = {}
          BY <1>1, <2>4, <3>4, <4>2 DEF Log!FindRecent, Log!Goto
        <4>3. CASE Log!Recent(body[r]) # {}
          BY <4>1, <4>3 DEF Log!Recent, Log!Same
        <4>4. QED  BY <2>4, <4>1, <4>2, <4>3
      <3>5. CASE Log!CreateEntry(r)
        <4> DEFINE new == [user |-> body[r].user, doc |-> body[r].doc,
                           activity |-> Log!ActivityOf(body[r].op), at |-> clock, by |-> r]
        <4>1. new \in log' /\ body' = body /\ checkedAt' = checkedAt
          BY <3>5 DEF Log!CreateEntry
        <4>2. Log!Same(new, body[r]) /\ new.at >= checkedAt[r] - Minute
          BY <1>1, <1>2 DEF Log!Same
        <4> HIDE DEF new
        <4>3. QED  BY <4>1, <4>2 DEF Log!Same
      <3>6. QED  BY <1>4, <3>1, <3>2, <3>3, <3>4, <3>5 DEF Moved
    <2>5. QED  BY <2>3, <2>4 DEF Logged
  <1>5. CASE UNCHANGED logVars
    BY <1>5 DEF logVars, Logged, Log!Same
  <1>6. QED  BY <1>3, <1>4, <1>5, NextMoves

\* Every change by a known user is among the recent activities for the week, by
\* its own entry or one that was found at most a minute old.
THEOREM ChangesAreLogged == Spec => []ChangeLogged
  <1>1. Init => LogTypes /\ Logged
    BY InitLogTypes DEF Init, Log!Init, Logged
  <1>2. LogTypes /\ Logged /\ [Next]_vars => (LogTypes /\ Logged)'
    BY NextLogTypes, NextLogged
  <1>3. LogTypes /\ Logged => ChangeLogged
    <2> SUFFICES ASSUME LogTypes, Logged, NEW r \in Requests \ unlogged, pc[r] = "done",
                        body[r].user # NoUser, clock <= checkedAt[r] - Minute + Week
                 PROVE  \E e \in Log!RecentActivity(body[r].user) :
                            e.activity = Log!ActivityOf(body[r].op) /\ e.doc = body[r].doc
      BY DEF ChangeLogged, Log!ChangeLogged
    <2>1. PICK e \in log : Conflicts(e, r)
      BY DEF Logged
    <2>2. /\ clock \in Nat /\ checkedAt[r] \in Nat /\ e.at \in Nat
          /\ Minute \in Nat /\ Week \in Nat
      BY LogAssumption DEF LogTypes, Log!ConstantsOK
    <2>3. e.at >= clock - Week
      BY <2>1, <2>2 DEF Conflicts
    <2>4. QED  BY <2>1, <2>3 DEF Conflicts, Log!Same, Log!RecentActivity
  <1>4. QED  BY <1>1, <1>2, <1>3, PTL DEF Spec

\* Two entries for one thing within a minute come from requests that were in
\* flight together, and not from two transactions that both wrote the row.
THEOREM DoublesDoOverlap == Spec => []DoublesOverlap
  <1>1. Init => LogTypes /\ Flight /\ Authors /\ Checked /\ Log!DoublesOverlap
    BY InitLogTypes DEF Init, Log!Init, Flight, Authors, Checked, Log!DoublesOverlap,
       Log!Active, Log!Running, Holds
  <1>2. LogTypes /\ Flight /\ Authors /\ Checked /\ Log!DoublesOverlap /\ [Next]_vars
        => (LogTypes /\ Flight /\ Authors /\ Checked /\ Log!DoublesOverlap)'
    BY NextLogTypes, NextFlight, NextAuthors, NextChecked, NextDoubles
  <1>3. QED  BY <1>1, <1>2, PTL DEF Spec, DoublesOverlap

-----------------------------------------------------------------------------
(* The documents *)

\* Ids are given in order; a table is finite.
TableOK ==
    /\ nextId \in Nat \ {0}
    /\ DOMAIN documents \subseteq 1..nextId - 1
    /\ documents \in [DOMAIN documents -> Log!Document]

\* The documents that stay keep their time.
TimesKept == \A d \in DOMAIN documents \intersect DOMAIN documents' :
                 documents'[d].createdAt = documents[d].createdAt

LEMMA InitTable == Init => TableOK
  <1> SUFFICES ASSUME Init PROVE TableOK
    OBVIOUS
  <1>1. documents \in Tables /\ nextId = Cardinality(DOMAIN documents) + 1
    BY DEF Init, Log!Init
  <1>2. documents \in [DOMAIN documents -> Log!Document]
    BY <1>1, LogAssumption DEF Log!ConstantsOK
  <1>3. Cardinality(DOMAIN documents) \in Nat
    BY <1>1, TablesAssumption, FS_CardinalityType
  <1>4. DOMAIN documents = 1..nextId - 1
    BY <1>1, <1>3, TablesAssumption
  <1>5. QED  BY <1>1, <1>2, <1>3, <1>4 DEF TableOK

LEMMA StepTable ==
    ASSUME LogTypes, TableOK, NEW r \in Requests, Log!Step(r)
    PROVE  /\ DOMAIN documents' \subseteq DOMAIN documents
           /\ documents' \in [DOMAIN documents' -> Log!Document]
           /\ TimesKept
  <1>1. documents \in [DOMAIN documents -> Log!Document]
    BY DEF TableOK
  <1>2. CASE documents' = documents
    BY <1>1, <1>2 DEF TimesKept
  <1>3. CASE Log!Save(r)
    <2> DEFINE b == body[r]
    <2>1. documents' = [d \in DOMAIN documents |->
                            IF d = b.doc
                            THEN [documents[d] EXCEPT !.status = Log!NewStatus(b)]
                            ELSE documents[d]]
      BY <1>3 DEF Log!Save
    <2>2. Log!NewStatus(b) \in Log!Status
      <3>1. b.op \in {"sign", "reject"} /\ b \in Bodies \union {Log!NoBody}
        BY <1>3 DEF Log!Save, LogTypes
      <3>2. b \in Bodies
        BY <3>1 DEF Log!NoBody
      <3>3. b \in Log!Body
        BY <3>2, LogAssumption DEF Log!ConstantsOK
      <3>4. CASE b.op = "sign"
        BY <3>3, <3>4 DEF Log!Body, Log!NewStatus, Log!Status
      <3>5. CASE b.op # "sign"
        BY <3>5 DEF Log!NewStatus, Log!Status
      <3>6. QED  BY <3>4, <3>5
    <2> HIDE DEF b
    <2>3. ASSUME NEW d \in DOMAIN documents
          PROVE  /\ documents'[d] \in Log!Document
                 /\ documents'[d].createdAt = documents[d].createdAt
      BY <1>1, <2>1, <2>2 DEF Log!Document
    <2>4. QED  BY <2>1, <2>3 DEF TimesKept
  <1>4. CASE Log!Commit(r)
    BY <1>1, <1>4 DEF Log!Commit, TimesKept
  <1>5. QED
    BY <1>2, <1>3, <1>4 DEF Log!Step, Log!Receive, Log!Write, Log!Send, Log!FindRecent,
       Log!CreateEntry, Log!FailToLog, Log!RollBack

LEMMA NextTable == LogTypes /\ TableOK /\ [Next]_vars => TableOK' /\ TimesKept
  <1> SUFFICES ASSUME LogTypes, TableOK, [Next]_vars PROVE TableOK' /\ TimesKept
    OBVIOUS
  <1>1. CASE UNCHANGED <<documents, nextId>>
    BY <1>1 DEF TableOK, TimesKept
  <1>2. ASSUME NEW r \in Requests, Log!Step(r), UNCHANGED nextId PROVE TableOK' /\ TimesKept
    BY <1>2, StepTable DEF TableOK
  <1>3. CASE CreateDocument
    <2>1. /\ nextId \in Nat \ {0} /\ nextId' = nextId + 1
          /\ DOMAIN documents' = DOMAIN documents \union {nextId}
          /\ documents' \in [DOMAIN documents' -> Log!Document]
          /\ \A d \in DOMAIN documents : d # nextId /\ documents'[d] = documents[d]
      <3>1. documents' = [d \in DOMAIN documents \union {nextId} |->
                              IF d = nextId THEN [status |-> "DRAFT", createdAt |-> clock]
                                            ELSE documents[d]]
        BY <1>3 DEF CreateDocument
      <3>2. [status |-> "DRAFT", createdAt |-> clock] \in Log!Document
        BY DEF LogTypes, Log!Document, Log!Status
      <3>3. \A d \in DOMAIN documents : d # nextId /\ documents[d] \in Log!Document
        BY DEF TableOK
      <3>4. QED  BY <1>3, <3>1, <3>2, <3>3 DEF CreateDocument, TableOK
    <2>2. DOMAIN documents' \subseteq 1..nextId' - 1
      BY <2>1 DEF TableOK
    <2>3. QED  BY <2>1, <2>2 DEF TableOK, TimesKept
  <1>4. CASE Log!Tick /\ UNCHANGED nextId
    BY <1>1, <1>4 DEF Log!Tick
  <1>5. ASSUME NEW r \in Readers, List!Step(r) PROVE UNCHANGED documents
    BY <1>5 DEF List!Step, List!Open, List!OpenStatuses, List!ReadRows, List!ReadCount,
       List!Read, List!CountStatuses, List!CountAll, List!NextPage
  <1>6. QED
    BY <1>1, <1>2, <1>3, <1>4, <1>5 DEF Next, LogStep, ReadStep, Terminated, vars

-----------------------------------------------------------------------------
(* The list: what is in it *)

\* DocumentList counts as FiniteSets does.
LEMMA SameCardinality == \A S : List!Cardinality(S) = Cardinality(S)
  BY DEF List!Cardinality, Cardinality

LEMMA FiniteList ==
    ASSUME TableOK, NEW where
    PROVE  /\ List!Listed(where) \subseteq Nat
           /\ IsFiniteSet(List!Listed(where))
           /\ List!CountOf(where) = Cardinality(List!Listed(where))
           /\ List!CountOf(where) \in Nat
  <1>1. DOMAIN documents \subseteq 1..nextId - 1 /\ nextId - 1 \in Int
    BY DEF TableOK
  <1>2. List!Listed(where) \subseteq 1..nextId - 1
    BY <1>1 DEF List!Listed, List!ListedIn
  <1>3. IsFiniteSet(List!Listed(where))
    BY <1>1, <1>2, FS_Interval, FS_Subset
  <1>4. List!Listed(where) \subseteq Nat
    BY <1>1, <1>2
  <1>5. Cardinality(List!Listed(where)) \in Nat
    BY <1>3, FS_CardinalityType
  <1>6. QED  BY <1>3, <1>4, <1>5, SameCardinality DEF List!CountOf

LEMMA DisjointUnion ==
    ASSUME NEW S, IsFiniteSet(S), NEW T, IsFiniteSet(T), S \intersect T = {}
    PROVE  /\ IsFiniteSet(S \union T)
           /\ Cardinality(S \union T) = Cardinality(S) + Cardinality(T)
  <1>1. Cardinality(S \intersect T) = 0
    BY FS_EmptySet
  <1>2. Cardinality(S) \in Nat /\ Cardinality(T) \in Nat
    BY FS_CardinalityType
  <1>3. /\ IsFiniteSet(S \union T)
        /\ Cardinality(S \union T)
           = Cardinality(S) + Cardinality(T) - Cardinality(S \intersect T)
    BY FS_Union
  <1>4. QED  BY <1>1, <1>2, <1>3

\* The documents of one status, of whatever time.
Number(status) == List!CountOf(List!Ever(status))

\* The four statuses are all there are.
LEMMA SumOfCounts ==
    ASSUME TableOK
    PROVE  Number(All) = Number("DRAFT") + Number("PENDING")
                               + Number("COMPLETED") + Number("REJECTED")
  <1> DEFINE L(status) == List!Listed(List!Ever(status))
             AB  == L("DRAFT") \union L("PENDING")
             ABC == AB \union L("COMPLETED")
  <1>1. /\ L(All) = ABC \union L("REJECTED")
        /\ L("DRAFT") \intersect L("PENDING") = {}
        /\ AB \intersect L("COMPLETED") = {}
        /\ ABC \intersect L("REJECTED") = {}
    <2>1. All \notin List!Status
      BY ListAssumption DEF List!ConstantsOK
    <2>2. \A d \in DOMAIN documents : documents[d].status \in List!Status
      BY DEF TableOK, Log!Document, Log!Status, List!Status
    <2>3. \A status : L(status) = IF status = All THEN DOMAIN documents
                                 ELSE {d \in DOMAIN documents :
                                           status = All \/ documents[d].status = status}
      BY DEF List!Listed, List!ListedIn, List!Ever, List!Where
    <2>4. QED  BY <2>1, <2>2, <2>3 DEF List!Status
  <1>2. ASSUME NEW status
        PROVE  /\ IsFiniteSet(L(status)) /\ Cardinality(L(status)) = Number(status)
               /\ Number(status) \in Nat
    BY FiniteList DEF Number
  <1> HIDE DEF L
  <1>3. /\ IsFiniteSet(AB)
        /\ Cardinality(AB) = Number("DRAFT") + Number("PENDING")
    <2>1. IsFiniteSet(AB) /\ Cardinality(AB) = Cardinality(L("DRAFT")) + Cardinality(L("PENDING"))
      BY <1>1, <1>2, DisjointUnion
    <2>2. QED  BY <1>2, <2>1
  <1> HIDE DEF AB
  <1>4. /\ IsFiniteSet(ABC)
        /\ Cardinality(ABC) = Cardinality(AB) + Number("COMPLETED")
    <2>1. IsFiniteSet(ABC) /\ Cardinality(ABC) = Cardinality(AB) + Cardinality(L("COMPLETED"))
      BY <1>1, <1>2, <1>3, DisjointUnion
    <2>2. QED  BY <1>2, <2>1
  <1> HIDE DEF ABC
  <1>5. Cardinality(ABC \union L("REJECTED")) = Cardinality(ABC) + Number("REJECTED")
    <2>1. Cardinality(ABC \union L("REJECTED")) = Cardinality(ABC) + Cardinality(L("REJECTED"))
      BY <1>1, <1>2, <1>4, DisjointUnion
    <2>2. QED  BY <1>2, <2>1
  <1>6. QED  BY <1>1, <1>2, <1>3, <1>4, <1>5

-----------------------------------------------------------------------------
(* The list: the readers *)

Query == [where: [status: Filters \union {All}, period: Periods \union {All}, from: Int],
          limit: Nat \ {0}, page: Nat]

ListTypes ==
    /\ place \in [Readers -> {"idle", "page", "statuses", "total", "answered"}]
    /\ reads \in [Readers -> SUBSET {"rows", "count"}]
    /\ query \in [Readers -> Query]
    /\ count \in [Readers -> Nat]
    /\ total \in [Readers -> Nat]
    /\ counts \in [Readers -> [List!Status -> Nat]]
    /\ rows \in [Readers -> SUBSET Nat]
    /\ first \in [Readers -> SUBSET Nat]
    /\ shown \in [Readers -> SUBSET Nat]
    /\ \A r \in Readers : place[r] = "idle" => query[r].page = 0 /\ first[r] = {}

LEMMA InitListTypes == Init => ListTypes
  <1> SUFFICES ASSUME List!Init PROVE ListTypes
    BY DEF Init
  <1>1. List!NoQuery \in Query /\ List!NoQuery.page = 0
    BY DEF List!NoQuery, List!Ever, List!Where, Query
  <1>2. List!NoCounts \in [List!Status -> Nat]
    BY DEF List!NoCounts
  <1>3. QED  BY <1>1, <1>2 DEF List!Init, ListTypes

\* A step of one reader leaves the table and the other readers alone.
LEMMA ReaderKept ==
    ASSUME ListTypes, NEW r \in Readers, List!Step(r)
    PROVE  /\ UNCHANGED <<documents, torn>> /\ shrunk \subseteq shrunk'
           /\ \A q \in Readers \ {r} :
                  /\ place'[q] = place[q] /\ reads'[q] = reads[q] /\ query'[q] = query[q]
                  /\ rows'[q] = rows[q] /\ count'[q] = count[q] /\ counts'[q] = counts[q]
                  /\ total'[q] = total[q] /\ first'[q] = first[q] /\ shown'[q] = shown[q]
                  /\ q \in uneasy' <=> q \in uneasy
                  /\ q \in shrunk' <=> q \in shrunk
  <1> USE DEF ListTypes, List!Goto, List!answer, List!history
  <1>1. CASE List!Open(r) \/ List!OpenStatuses(r)
    BY <1>1 DEF List!Open, List!OpenStatuses
  <1>2. CASE List!ReadRows(r)
    BY <1>2 DEF List!ReadRows, List!Read
  <1>3. CASE List!ReadCount(r)
    BY <1>3 DEF List!ReadCount, List!Read
  <1>4. CASE List!CountStatuses(r) \/ List!CountAll(r)
    BY <1>4 DEF List!CountStatuses, List!CountAll
  <1>5. CASE List!NextPage(r)
    BY <1>5 DEF List!NextPage
  <1>6. QED  BY <1>1, <1>2, <1>3, <1>4, <1>5 DEF List!Step

\* What a query asks for when its page comes later.
LEMMA WhereType ==
    ASSUME LogTypes, NEW status \in Filters \union {All}, NEW period \in Periods \union {All}
    PROVE  /\ List!Where(status, period)
              \in [status: Filters \union {All}, period: Periods \union {All}, from: Int]
           /\ List!Where(status, period).status = status
           /\ List!Where(status, period).period = period
  <1>1. period # All => period \in Nat
    BY ListAssumption DEF List!ConstantsOK
  <1>2. clock \in Nat
    BY DEF LogTypes
  <1>3. QED  BY <1>1, <1>2 DEF List!Where

LEMMA Turned ==
    ASSUME LogTypes, ListTypes, NEW r \in Readers, List!NextPage(r)
    PROVE  /\ query' \in [Readers -> Query]
           /\ query'[r].where = List!Where(query[r].where.status, query[r].where.period)
           /\ query'[r].limit = query[r].limit
           /\ query'[r].page = query[r].page + 1
  <1> DEFINE q  == query[r]
             where == List!Where(q.where.status, q.where.period)
             q1 == [q EXCEPT !.where = where, !.page = q.page + 1]
  <1>1. q \in Query /\ query \in [Readers -> Query]
    BY DEF ListTypes
  <1>2. query' = [query EXCEPT ![r] = q1]
    BY DEF List!NextPage
  <1>3. where \in [status: Filters \union {All}, period: Periods \union {All}, from: Int]
    BY <1>1, WhereType DEF Query
  <1> HIDE DEF where
  <1>4. \A old \in Query :
            /\ [old EXCEPT !.where = where] \in Query
            /\ [old EXCEPT !.where = where].where = where
            /\ [old EXCEPT !.where = where].limit = old.limit
    BY <1>3 DEF Query
  <1>5. \A old \in Query :
            /\ [old EXCEPT !.page = q.page + 1] \in Query
            /\ [old EXCEPT !.page = q.page + 1].where = old.where
            /\ [old EXCEPT !.page = q.page + 1].limit = old.limit
            /\ [old EXCEPT !.page = q.page + 1].page = q.page + 1
    BY <1>1 DEF Query
  <1>6. q1 = [[q EXCEPT !.where = where] EXCEPT !.page = q.page + 1]
    OBVIOUS
  <1>7. /\ q1 \in Query
        /\ q1.where = where /\ q1.limit = q.limit /\ q1.page = q.page + 1
    BY <1>1, <1>4, <1>5, <1>6
  <1> HIDE DEF q1
  <1>8. QED  BY <1>1, <1>2, <1>7 DEF where

LEMMA StepListTypes ==
    ASSUME LogTypes, TableOK, ListTypes, NEW r \in Readers, List!Step(r)
    PROVE  ListTypes'
  <1> USE DEF ListTypes, List!Goto, List!answer, List!history
  <1>1. CASE List!Open(r)
    <2>1. PICK status \in Filters, period \in Periods, limit \in Limits :
              /\ query' = [query EXCEPT ![r] = [where |-> List!Where(status, period),
                                                limit |-> limit, page |-> 1]]
              /\ first' = [first EXCEPT ![r] = List!Listed(List!Where(status, period))]
      BY <1>1 DEF List!Open
    <2>2. [where |-> List!Where(status, period), limit |-> limit, page |-> 1] \in Query
      BY WhereType, ListAssumption DEF List!ConstantsOK, Query
    <2>3. List!Listed(List!Where(status, period)) \subseteq Nat
      BY FiniteList
    <2>4. QED  BY <1>1, <2>1, <2>2, <2>3 DEF List!Open
  <1>2. CASE List!OpenStatuses(r)
    BY <1>2 DEF List!OpenStatuses
  <1>3. CASE List!ReadRows(r)
    <2> DEFINE q == query[r]
    <2>1. PICK s \in List!Orders(List!Listed(q.where)) :
              rows' = [rows EXCEPT ![r] =
                          {s[i] : i \in DOMAIN s \intersect
                                            List!Offset(q) + 1..List!Offset(q) + q.limit}]
      BY <1>3 DEF List!ReadRows
    <2>2. \A i \in DOMAIN s : s[i] \in Nat
      BY FiniteList DEF List!Orders
    <2> HIDE DEF q
    <2>3. rows' \in [Readers -> SUBSET Nat]
      BY <2>1, <2>2
    <2>4. QED  BY <1>3, <2>3 DEF List!ReadRows, List!Read
  <1>4. CASE List!ReadCount(r)
    <2>1. List!CountOf(query[r].where) \in Nat
      BY FiniteList
    <2>2. QED  BY <1>4, <2>1 DEF List!ReadCount, List!Read
  <1>5. CASE List!CountStatuses(r)
    <2>1. List!StatusCounts \in [List!Status -> Nat]
      BY FiniteList DEF List!StatusCounts
    <2>2. QED  BY <1>5, <2>1 DEF List!CountStatuses
  <1>6. CASE List!CountAll(r)
    <2>1. List!CountOf(List!Ever(All)) \in Nat
      BY FiniteList
    <2>2. QED  BY <1>6, <2>1 DEF List!CountAll
  <1>7. CASE List!NextPage(r)
    <2>1. query' \in [Readers -> Query]
      BY <1>7, Turned
    <2>2. QED  BY <1>7, <2>1 DEF List!NextPage
  <1>8. QED  BY <1>1, <1>2, <1>3, <1>4, <1>5, <1>6, <1>7 DEF List!Step

\* The steps of the table and those of the readers.
LEMMA NextReads ==
    [Next]_vars => \/ List!Watch
                   \/ \E r \in Readers : List!Step(r)
                   \/ UNCHANGED <<documents, readVars>>
  BY DEF Next, ReadStep, Terminated, vars

LEMMA NextListTypes == LogTypes /\ TableOK /\ ListTypes /\ [Next]_vars => ListTypes'
  <1>1. List!Watch /\ ListTypes => ListTypes'
    BY DEF List!Watch, ListTypes, List!answer
  <1>2. UNCHANGED readVars /\ ListTypes => ListTypes'
    BY DEF readVars, ListTypes
  <1>3. QED  BY <1>1, <1>2, NextReads, StepListTypes

\* Times, requests, documents, queries and numbers keep their types; no entry
\* is of the future, and no id is used before it is given.
THEOREM DashboardTypes == Spec => [](LogTypes /\ TableOK /\ ListTypes)
  <1>1. Init => LogTypes /\ TableOK /\ ListTypes
    BY InitLogTypes, InitTable, InitListTypes
  <1>2. LogTypes /\ TableOK /\ ListTypes /\ [Next]_vars
        => (LogTypes /\ TableOK /\ ListTypes)'
    BY NextLogTypes, NextTable, NextListTypes
  <1>3. QED  BY <1>1, <1>2, PTL DEF Spec

-----------------------------------------------------------------------------
(* The list: the numbers beside it *)

\* What has been counted for a page that is not answered yet still holds.
Counted(r) ==
    /\ \/ place[r] = "page" /\ "count" \notin reads[r]
       \/ place[r] \in {"statuses", "total"} /\ query[r].page > 0
       => \A where : where = query[r].where => count[r] = List!CountOf(where)
    /\ place[r] = "total" => counts[r] = List!StatusCounts

\* What CountsAgree says of one reader.
Beside(r) == IF query[r].where.status = All THEN total[r]
             ELSE counts[r][query[r].where.status]
Agree(r) == /\ total[r] = counts[r]["DRAFT"] + counts[r]["PENDING"]
                          + counts[r]["COMPLETED"] + counts[r]["REJECTED"]
            /\ query[r].page > 0
               => /\ count[r] <= Beside(r)
                  /\ query[r].where.period = All => count[r] = Beside(r)

Numbers == \A r \in Readers \ uneasy :
               /\ Counted(r)
               /\ place[r] = "answered" => Agree(r)

LEMMA CountsKept ==
    ASSUME documents' = documents
    PROVE  /\ \A where : List!CountOf(where)' = List!CountOf(where)
           /\ List!StatusCounts' = List!StatusCounts
           /\ \A status : Number(status)' = Number(status)
  <1>1. \A where : List!CountOf(where)' = List!CountOf(where)
    BY DEF List!CountOf, List!Listed, List!ListedIn
  <1>2. \A status : List!Ever(status)' = List!Ever(status)
    BY DEF List!Ever, List!Where
  <1>3. \A status : Number(status)' = Number(status)
    BY <1>2 DEF Number, List!CountOf, List!Listed, List!ListedIn
  <1>4. List!StatusCounts = [status \in List!Status |-> Number(status)]
    BY DEF List!StatusCounts, Number
  <1>5. List!StatusCounts' = [status \in List!Status |-> Number(status)']
    BY DEF List!StatusCounts, Number
  <1>6. QED  BY <1>1, <1>3, <1>4, <1>5

\* With a period the list has at most as many documents as without one.
LEMMA PeriodNarrows ==
    ASSUME TableOK, NEW where \in [status: Filters \union {All},
                                  period: Periods \union {All}, from: Int]
    PROVE  /\ List!CountOf(where) <= Number(where.status)
           /\ where.period = All => List!CountOf(where) = Number(where.status)
  <1> DEFINE L == List!Listed(where)
             M == List!Listed(List!Ever(where.status))
  <1>1. L \subseteq M /\ (where.period = All => L = M)
    BY DEF List!Listed, List!ListedIn, List!Ever, List!Where
  <1>2. /\ IsFiniteSet(M) /\ Number(where.status) = Cardinality(M)
        /\ List!CountOf(where) = Cardinality(L)
    BY FiniteList DEF Number
  <1> HIDE DEF L, M
  <1>3. Cardinality(L) <= Cardinality(M)
    BY <1>1, <1>2, FS_Subset
  <1>4. QED  BY <1>1, <1>2, <1>3

LEMMA StepNumbers ==
    ASSUME TableOK, ListTypes, Numbers, NEW r \in Readers, List!Step(r)
    PROVE  Numbers'
  <1> USE DEF List!Goto, List!answer, List!history
  <1>1. /\ UNCHANGED documents
        /\ \A q \in Readers \ {r} :
               /\ place'[q] = place[q] /\ reads'[q] = reads[q] /\ query'[q] = query[q]
               /\ count'[q] = count[q] /\ counts'[q] = counts[q] /\ total'[q] = total[q]
               /\ q \in uneasy' <=> q \in uneasy
    BY ReaderKept
  <1>2. /\ \A where : List!CountOf(where)' = List!CountOf(where)
        /\ List!StatusCounts' = List!StatusCounts
    BY <1>1, CountsKept
  <1>3. ASSUME NEW q \in Readers \ {r}, q \notin uneasy'
        PROVE  Counted(q)' /\ (place'[q] = "answered" => Agree(q)')
    <2>1. Counted(q) /\ (place[q] = "answered" => Agree(q))
      BY <1>1, <1>3 DEF Numbers
    <2>2. QED  BY <1>1, <1>2, <2>1 DEF Counted, Agree, Beside
  <1>4. /\ place \in [Readers -> {"idle", "page", "statuses", "total", "answered"}]
        /\ reads \in [Readers -> SUBSET {"rows", "count"}]
        /\ query[r] \in Query
        /\ count \in [Readers -> Nat] /\ total \in [Readers -> Nat]
        /\ counts \in [Readers -> [List!Status -> Nat]]
        /\ place[r] = "idle" => query[r].page = 0
    BY DEF ListTypes
  <1>5. ASSUME r \notin uneasy'
        PROVE  Counted(r)' /\ (place'[r] = "answered" => Agree(r)')
    <2>1. CASE List!Open(r)
      <3>1. place'[r] = "page" /\ reads'[r] = {"rows", "count"}
        BY <1>4, <2>1 DEF List!Open
      <3>2. QED  BY <3>1 DEF Counted
    <2>2. CASE List!OpenStatuses(r)
      <3>1. place'[r] = "statuses" /\ query'[r].page = 0
        BY <1>4, <2>2 DEF List!OpenStatuses
      <3>2. QED  BY <3>1 DEF Counted
    <2>3. CASE List!ReadRows(r)
      <3>1. /\ place[r] = "page" /\ place'[r] \in {"page", "statuses"}
            /\ reads'[r] = reads[r] \ {"rows"}
            /\ place'[r] = "statuses" => reads[r] = {"rows"}
            /\ UNCHANGED <<query, count, uneasy>>
        BY <1>4, <2>3 DEF List!ReadRows, List!Read
      <3>2. Counted(r)
        BY <1>5, <3>1 DEF Numbers
      <3>3. QED  BY <1>2, <3>1, <3>2 DEF Counted
    <2>4. CASE List!ReadCount(r)
      <3>1. /\ place[r] = "page" /\ place'[r] \in {"page", "statuses"}
            /\ count'[r] = List!CountOf(query[r].where) /\ query' = query
        BY <1>4, <2>4 DEF List!ReadCount, List!Read
      <3>2. QED  BY <1>2, <3>1 DEF Counted
    <2>5. CASE List!CountStatuses(r)
      <3>1. /\ place[r] = "statuses" /\ place'[r] = "total"
            /\ counts'[r] = List!StatusCounts
            /\ UNCHANGED <<query, count, uneasy>>
        BY <1>4, <2>5 DEF List!CountStatuses
      <3>2. Counted(r)
        BY <1>5, <3>1 DEF Numbers
      <3>3. QED  BY <1>2, <3>1, <3>2 DEF Counted
    <2>6. CASE List!CountAll(r)
      <3>1. /\ place[r] = "total" /\ place'[r] = "answered"
            /\ total'[r] = Number(All)
            /\ UNCHANGED <<query, count, counts, uneasy>>
        BY <1>4, <2>6 DEF List!CountAll, Number
      <3>2. Counted(r)
        BY <1>5, <3>1 DEF Numbers
      <3>3. counts[r] = List!StatusCounts
        BY <3>1, <3>2 DEF Counted
      <3>4. \A status \in List!Status : counts[r][status] = Number(status)
        BY <3>3 DEF List!StatusCounts, Number
      <3>5. total'[r] = counts[r]["DRAFT"] + counts[r]["PENDING"]
                        + counts[r]["COMPLETED"] + counts[r]["REJECTED"]
        BY <3>1, <3>4, SumOfCounts DEF List!Status
      <3>6. query[r].page > 0 => count[r] = List!CountOf(query[r].where)
        BY <3>1, <3>2 DEF Counted
      <3>7. Beside(r)' = Number(query[r].where.status)
        <4>1. query[r].where.status \in List!Status \union {All}
          BY <1>4, ListAssumption DEF Query, List!ConstantsOK
        <4>2. QED  BY <3>1, <3>4, <4>1 DEF Beside
      <3>8. /\ List!CountOf(query[r].where) <= Number(query[r].where.status)
            /\ query[r].where.period = All
               => List!CountOf(query[r].where) = Number(query[r].where.status)
        BY <1>4, PeriodNarrows DEF Query
      <3>9. Agree(r)'
        BY <3>1, <3>5, <3>6, <3>7, <3>8 DEF Agree
      <3>10. QED  BY <3>1, <3>9 DEF Counted
    <2>7. CASE List!NextPage(r)
      <3>1. place'[r] = "page" /\ reads'[r] = {"rows", "count"}
        BY <1>4, <2>7 DEF List!NextPage
      <3>2. QED  BY <3>1 DEF Counted
    <2>8. QED  BY <2>1, <2>2, <2>3, <2>4, <2>5, <2>6, <2>7 DEF List!Step
  <1>6. QED  BY <1>3, <1>5 DEF Numbers

\* A change of the table disturbs those who are reading.
LEMMA WatchNumbers == ASSUME ListTypes, Numbers, List!Watch PROVE Numbers'
  <1> SUFFICES ASSUME NEW r \in Readers, r \notin uneasy'
               PROVE  Counted(r)' /\ (place'[r] = "answered" => Agree(r)')
    BY DEF Numbers
  <1>1. UNCHANGED <<place, reads, query, rows, count, counts, total>>
    BY DEF List!Watch, List!answer
  <1>2. Counted(r) /\ (place[r] = "answered" => Agree(r))
    BY DEF Numbers, List!Watch
  <1>3. place'[r] = "answered" => Agree(r)'
    BY <1>1, <1>2 DEF Agree, Beside
  <1>4. CASE documents' = documents
    BY <1>1, <1>2, <1>3, <1>4, CountsKept DEF Counted
  <1>5. CASE documents' # documents
    <2>1. place[r] \in {"idle", "answered"}
      BY <1>5 DEF List!Watch
    <2>2. QED  BY <1>1, <1>3, <2>1 DEF Counted
  <1>6. QED  BY <1>4, <1>5

\* The numbers beside a page agree, unless the table changed between their
\* queries, but that the list has fewer items if a period was asked for.
THEOREM CountsDoAgree == Spec => []CountsAgree
  <1> DEFINE Inv == LogTypes /\ TableOK /\ ListTypes /\ Numbers
  <1>1. Init => Inv
    <2>1. Init => Numbers
      BY DEF Init, List!Init, Numbers, Counted
    <2>2. QED  BY <2>1, InitLogTypes, InitTable, InitListTypes
  <1>2. Inv /\ [Next]_vars => Inv'
    <2>1. Inv /\ UNCHANGED <<documents, readVars>> => Numbers'
      BY CountsKept DEF readVars, Numbers, Counted, Agree, Beside
    <2>2. QED
      BY <2>1, NextLogTypes, NextTable, NextListTypes, NextReads, StepNumbers, WatchNumbers
  <1>3. Inv => CountsAgree
    BY DEF Numbers, Agree, Beside, CountsAgree, List!CountsAgree
  <1>4. QED  BY <1>1, <1>2, <1>3, PTL DEF Spec

-----------------------------------------------------------------------------
(* The list: ranks *)

\* The place of a document in a list that is sorted by time, the latest first.
RankIn(table, set, d) == Cardinality({e \in set : table[e].createdAt >= table[d].createdAt})

Rank(where, d) == RankIn(documents, List!Listed(where), d)

\* No two documents of the list have the same time.
Distinct(where) ==
    \A d, e \in List!Listed(where) :
        d # e => documents[d].createdAt # documents[e].createdAt

LEMMA RankRange ==
    ASSUME TableOK, NEW where, NEW d \in List!Listed(where)
    PROVE  Rank(where, d) \in 1..List!CountOf(where)
  <1> DEFINE L == List!Listed(where)
             U == {e \in L : documents[e].createdAt >= documents[d].createdAt}
  <1>1. IsFiniteSet(L) /\ List!CountOf(where) = Cardinality(L) /\ Cardinality(L) \in Nat
    BY FiniteList
  <1>2. documents[d].createdAt \in Int
    BY DEF TableOK, List!Listed, List!ListedIn, Log!Document
  <1>3. d \in U /\ U \subseteq L
    BY <1>2
  <1> HIDE DEF L, U
  <1>4. IsFiniteSet(U) /\ Cardinality(U) <= Cardinality(L)
    BY <1>1, <1>3, FS_Subset
  <1>5. Cardinality(U) \in Nat /\ Cardinality(U) # 0
    BY <1>3, <1>4, FS_CardinalityType, FS_EmptySet
  <1>6. Rank(where, d) = Cardinality(U)
    BY DEF Rank, RankIn, L, U
  <1>7. QED  BY <1>1, <1>4, <1>5, <1>6

\* A query of the list has the document at its rank.
LEMMA RankAt ==
    ASSUME TableOK, NEW where, Distinct(where), NEW d \in List!Listed(where),
           NEW s \in List!Orders(List!Listed(where))
    PROVE  Rank(where, d) \in DOMAIN s /\ s[Rank(where, d)] = d
  <1> DEFINE L == List!Listed(where)
             n == Cardinality(L)
             U == {e \in L : documents[e].createdAt >= documents[d].createdAt}
  <1>1. IsFiniteSet(L) /\ n \in Nat
    BY FiniteList
  <1>2. /\ s \in [1..n -> L]
        /\ \A i, j \in 1..n :
               i < j => /\ s[i] # s[j]
                        /\ documents[s[i]].createdAt >= documents[s[j]].createdAt
    BY SameCardinality DEF List!Orders
  <1>3. \A e \in L : documents[e].createdAt \in Int
    BY DEF TableOK, List!Listed, List!ListedIn, Log!Document
  <1>4. \A e, g \in L : e # g => documents[e].createdAt # documents[g].createdAt
    BY DEF Distinct
  <1>5. d \in L
    OBVIOUS
  <1> HIDE DEF L, n
  <1>6. IsFiniteSet(1..n) /\ Cardinality(1..n) = n
    BY <1>1, FS_Interval
  <1>7. \A i, j \in 1..n : s[i] = s[j] => i = j
    BY <1>1, <1>2
  <1>8. s \in Injection(1..n, L)
    BY <1>2, <1>7 DEF Injection, IsInjective
  <1>9. s \in Surjection(1..n, L)
    BY <1>1, <1>6, <1>8, FS_Injection DEF n
  <1>10. PICK k \in 1..n : s[k] = d
    BY <1>5, <1>9 DEF Surjection
  <1>11. k \in Nat /\ IsFiniteSet(1..k) /\ Cardinality(1..k) = k
    BY <1>1, <1>10, FS_Interval
  <1>12. \A i \in 1..n : s[i] \in U <=> i <= k
    <2> SUFFICES ASSUME NEW i \in 1..n PROVE s[i] \in U <=> i <= k
      OBVIOUS
    <2>1. CASE i <= k
      BY <1>1, <1>2, <1>3, <1>10, <2>1
    <2>2. CASE k < i
      <3>1. s[i] # d /\ documents[d].createdAt >= documents[s[i]].createdAt
        BY <1>2, <1>10, <2>2
      <3>2. documents[s[i]].createdAt # documents[d].createdAt
        BY <1>2, <1>4, <1>5, <3>1
      <3>3. s[i] \notin U
        BY <1>2, <1>3, <1>5, <3>1, <3>2
      <3>4. QED  BY <1>1, <2>2, <3>3
    <2>3. QED  BY <1>1, <2>1, <2>2
  <1> DEFINE t == [i \in 1..k |-> s[i]]
  <1>13. U \subseteq L
    OBVIOUS
  <1>14. IsFiniteSet(U)
    BY <1>1, <1>13, FS_Subset
  <1> HIDE DEF U
  <1>15. 1..k \subseteq 1..n
    BY <1>1, <1>10
  <1>16. t \in [1..k -> U]
    BY <1>12, <1>15
  <1>17. t \in Injection(1..k, U)
    BY <1>7, <1>15, <1>16 DEF Injection, IsInjective
  <1>18. \A e \in U : \E i \in 1..k : t[i] = e
    BY <1>9, <1>11, <1>12, <1>13 DEF Surjection
  <1>19. t \in Surjection(1..k, U)
    BY <1>16, <1>18 DEF Surjection
  <1> HIDE DEF t
  <1>20. Cardinality(U) = k
    BY <1>11, <1>14, <1>17, <1>19, FS_Injection
  <1>21. Rank(where, d) = k
    BY <1>20 DEF Rank, RankIn, L, U
  <1>22. QED  BY <1>2, <1>10, <1>21

LEMMA RankGrows ==
    ASSUME NEW old, NEW new, NEW L, NEW M, IsFiniteSet(M), L \subseteq M,
           \A e \in L : new[e].createdAt = old[e].createdAt, NEW d \in L
    PROVE  RankIn(old, L, d) <= RankIn(new, M, d)
  <1> DEFINE U == {e \in L : old[e].createdAt >= old[d].createdAt}
             V == {e \in M : new[e].createdAt >= new[d].createdAt}
  <1>1. U \subseteq V /\ V \subseteq M
    OBVIOUS
  <1> HIDE DEF U, V
  <1>2. IsFiniteSet(V)
    BY <1>1, FS_Subset
  <1>3. Cardinality(U) <= Cardinality(V)
    BY <1>1, <1>2, FS_Subset
  <1>4. QED  BY <1>3 DEF RankIn, U, V

\* A list that only grows pushes its documents back.
LEMMA RankRises ==
    ASSUME TableOK, TableOK', TimesKept, NEW where,
           List!Listed(where) \subseteq List!Listed(where)',
           NEW d \in List!Listed(where)
    PROVE  Rank(where, d) <= Rank(where, d)'
  <1>1. PICK new : new = documents'
    OBVIOUS
  <1>2. PICK M : M = List!Listed(where)'
    OBVIOUS
  <1>3. M \subseteq DOMAIN new /\ List!Listed(where) \subseteq DOMAIN documents
    BY <1>1, <1>2 DEF List!Listed, List!ListedIn
  <1>4. IsFiniteSet(M)
    <2>1. PICK n \in Nat : DOMAIN new \subseteq 1..n
      BY <1>1 DEF TableOK
    <2>2. IsFiniteSet(1..n)
      BY <2>1, FS_Interval
    <2>3. M \subseteq 1..n
      BY <1>3, <2>1
    <2>4. QED  BY <2>2, <2>3, FS_Subset
  <1>5. List!Listed(where) \subseteq M
    BY <1>2
  <1>6. \A e \in List!Listed(where) : new[e].createdAt = documents[e].createdAt
    BY <1>1, <1>3, <1>5 DEF TimesKept
  <1>7. RankIn(documents, List!Listed(where), d) <= RankIn(new, M, d)
    BY <1>4, <1>5, <1>6, RankGrows
  <1>8. QED  BY <1>1, <1>2, <1>7 DEF Rank

\* The last page ends behind the list.
LEMMA LastPageEnds ==
    ASSUME NEW n \in Nat, NEW limit \in Nat \ {0}, NEW page \in Nat,
           page >= List!TotalPages(n, limit)
    PROVE  n <= page * limit
  <1> DEFINE q == (n + limit - 1) \div limit
  <1>1. q \in Int /\ n + limit - 1 < (q + 1) * limit
    OBVIOUS
  <1>2. q <= page
    BY DEF List!TotalPages
  <1>3. (q + 1) * limit <= (page + 1) * limit
    BY <1>1, <1>2
  <1>4. QED  BY <1>1, <1>3

-----------------------------------------------------------------------------
(* The list: the pages together *)

\* The rows of the page that is asked for have not come.
Pending(r) == place[r] = "page" /\ "rows" \in reads[r]

\* How far into the list the pages reach that have come, and what is on them.
UpTo(r) == IF Pending(r) THEN List!Offset(query[r])
           ELSE List!Offset(query[r]) + query[r].limit
Got(r)  == IF Pending(r) THEN shown[r] ELSE shown[r] \union rows[r]

\* The documents the list began with are still in it, and those that have not
\* been pushed behind the pages that have come are on these pages; all are,
\* when the last page is read.
SeenOf(r, where) ==
    /\ first[r] \subseteq List!Listed(where)
    /\ place[r] = "page" /\ reads[r] = {"rows"} => count[r] = List!CountOf(where)
    /\ Distinct(where)
       => /\ \A d \in first[r] : Rank(where, d) <= UpTo(r) => d \in Got(r)
          /\ place[r] \in {"statuses", "total", "answered"} /\ List!LastPage(r)
             => first[r] \subseteq Got(r)

Seen(r) ==
    place[r] # "idle"
    => /\ \A where : where = query[r].where => SeenOf(r, where)
       /\ place[r] = "answered" => rows[r] \subseteq shown[r]

AllSeen == \A r \in Readers \ (shrunk \union torn) : Seen(r)

LEMMA ListKept ==
    ASSUME documents' = documents
    PROVE  \A where : /\ List!Listed(where)' = List!Listed(where)
                      /\ List!CountOf(where)' = List!CountOf(where)
                      /\ Distinct(where)' <=> Distinct(where)
                      /\ \A d : Rank(where, d)' = Rank(where, d)
  <1> SUFFICES ASSUME NEW where
               PROVE  /\ List!Listed(where)' = List!Listed(where)
                      /\ List!CountOf(where)' = List!CountOf(where)
                      /\ Distinct(where)' <=> Distinct(where)
                      /\ \A d : Rank(where, d)' = Rank(where, d)
    OBVIOUS
  <1>1. List!Listed(where)' = List!Listed(where)
    BY DEF List!Listed, List!ListedIn
  <1>2. List!CountOf(where)' = List!CountOf(where)
    BY CountsKept
  <1>3. Distinct(where)' <=> Distinct(where)
    BY <1>1 DEF Distinct
  <1>4. \A d : Rank(where, d)' = Rank(where, d)
    BY <1>1 DEF Rank, RankIn
  <1>5. QED  BY <1>1, <1>2, <1>3, <1>4

\* A reader of whom nothing changes.
LEMMA SeenKept ==
    ASSUME documents' = documents, NEW r \in Readers, Seen(r),
           place'[r] = place[r], reads'[r] = reads[r], query'[r] = query[r],
           rows'[r] = rows[r], count'[r] = count[r], first'[r] = first[r],
           shown'[r] = shown[r]
    PROVE  Seen(r)'
  <1>1. /\ UpTo(r)' = UpTo(r) /\ Got(r)' = Got(r)
        /\ List!LastPage(r)' <=> List!LastPage(r)
    BY DEF UpTo, Got, Pending, List!LastPage, List!Offset, List!TotalPages
  <1>2. CASE place[r] = "idle"
    BY <1>2 DEF Seen
  <1>3. ASSUME place[r] # "idle", NEW where, where = query[r].where
        PROVE  SeenOf(r, where)'
    <2>1. SeenOf(r, where)
      BY <1>3 DEF Seen
    <2>2. QED  BY <1>1, <2>1, ListKept DEF SeenOf
  <1>4. QED  BY <1>2, <1>3 DEF Seen

LEMMA OpenSeen ==
    ASSUME LogTypes, TableOK, ListTypes, NEW r \in Readers, List!Open(r)
    PROVE  Seen(r)'
  <1>1. PICK limit \in Limits : \E where :
            /\ query' = [query EXCEPT ![r] = [where |-> where, limit |-> limit, page |-> 1]]
            /\ first' = [first EXCEPT ![r] = List!Listed(where)]
    BY DEF List!Open
  <1> PICK where :
            /\ query' = [query EXCEPT ![r] = [where |-> where, limit |-> limit, page |-> 1]]
            /\ first' = [first EXCEPT ![r] = List!Listed(where)]
    BY <1>1
  <1>2. documents' = documents
    BY DEF List!Open
  <1>3. place'[r] = "page" /\ reads'[r] = {"rows", "count"}
    BY DEF List!Open, List!Goto, ListTypes
  <1>4. query'[r] = [where |-> where, limit |-> limit, page |-> 1]
    BY DEF ListTypes
  <1>5. first'[r] = List!Listed(where) /\ query'[r].where = where
    BY <1>4 DEF ListTypes
  <1>6. UpTo(r)' = 0
    <2>1. limit \in Nat
      BY ListAssumption DEF List!ConstantsOK
    <2>2. QED  BY <1>3, <1>4, <2>1 DEF UpTo, Pending, List!Offset
  <1>7. \A d \in first'[r] : Rank(where, d)' \in Nat /\ Rank(where, d)' > 0
    <2> SUFFICES ASSUME NEW d \in List!Listed(where)
                 PROVE  Rank(where, d)' \in Nat /\ Rank(where, d)' > 0
      BY <1>5
    <2>1. Rank(where, d) \in 1..List!CountOf(where)
      BY RankRange
    <2>2. Rank(where, d)' = Rank(where, d)
      BY <1>2, ListKept
    <2>3. List!CountOf(where) \in Nat
      BY FiniteList
    <2>4. QED  BY <2>1, <2>2, <2>3
  <1>8. List!Listed(where)' = List!Listed(where)
    BY <1>2, ListKept
  <1>9. SeenOf(r, where)'
    BY <1>3, <1>5, <1>6, <1>7, <1>8 DEF SeenOf
  <1>10. QED  BY <1>3, <1>5, <1>9 DEF Seen

LEMMA OpenStatusesSeen ==
    ASSUME ListTypes, NEW r \in Readers, List!OpenStatuses(r)
    PROVE  Seen(r)'
  <1>1. first'[r] = {} /\ place'[r] = "statuses"
    BY DEF List!OpenStatuses, List!Goto, List!history, ListTypes
  <1>2. ASSUME NEW where PROVE SeenOf(r, where)'
    BY <1>1 DEF SeenOf
  <1>3. QED  BY <1>1, <1>2 DEF Seen

\* A page that ends behind the list, and what is on the pages up to it, is
\* everything.
LEMMA AllGot ==
    ASSUME TableOK, ListTypes, NEW r \in Readers, NEW where,
           NEW set, set \subseteq List!Listed(where),
           query[r].page >= List!TotalPages(List!CountOf(where), query[r].limit),
           NEW got,
           \A d \in set : Rank(where, d) <= List!Offset(query[r]) + query[r].limit
                          => d \in got
    PROVE  set \subseteq got
  <1> SUFFICES ASSUME NEW d \in set PROVE d \in got
    OBVIOUS
  <1>1. query[r].limit \in Nat \ {0} /\ query[r].page \in Nat
    BY DEF ListTypes, Query
  <1>2. List!CountOf(where) \in Nat
    BY FiniteList
  <1>3. List!CountOf(where) <= query[r].page * query[r].limit
    BY <1>1, <1>2, LastPageEnds
  <1>4. List!Offset(query[r]) + query[r].limit = query[r].page * query[r].limit
    BY <1>1 DEF List!Offset
  <1>5. Rank(where, d) \in 1..List!CountOf(where)
    BY RankRange
  <1>6. query[r].page * query[r].limit \in Int
    BY <1>1
  <1>7. Rank(where, d) <= query[r].page * query[r].limit
    BY <1>2, <1>3, <1>5, <1>6
  <1>8. QED  BY <1>4, <1>7

LEMMA ReadRowsSeen ==
    ASSUME TableOK, ListTypes, NEW r \in Readers, List!ReadRows(r), Seen(r)
    PROVE  Seen(r)'
  <1> DEFINE from == List!Offset(query[r])
             to   == from + query[r].limit
  <1> SUFFICES ASSUME NEW where, where = query[r].where PROVE SeenOf(r, where)'
    <2>1. query' = query /\ place'[r] \in {"page", "statuses"}
      BY DEF List!ReadRows, List!Read, List!Goto, ListTypes
    <2>2. QED  BY <2>1 DEF Seen
  <1>1. PICK s \in List!Orders(List!Listed(where)) :
            rows' = [rows EXCEPT ![r] = {s[i] : i \in DOMAIN s \intersect from + 1..to}]
    BY DEF List!ReadRows
  <1>2. /\ UNCHANGED <<documents, query, count, first, shown>>
        /\ place[r] = "page" /\ "rows" \in reads[r]
        /\ "rows" \notin reads'[r]
        /\ place'[r] = IF reads[r] = {"rows"} THEN "statuses" ELSE "page"
    BY DEF List!ReadRows, List!Read, List!Goto, List!history, ListTypes
  <1>3. from \in Int /\ to \in Int
    BY DEF ListTypes, Query, List!Offset
  <1>4. /\ UpTo(r) = from /\ Got(r) = shown[r]
        /\ UpTo(r)' = to /\ Got(r)' = shown[r] \union rows'[r]
    BY <1>2 DEF UpTo, Got, Pending, List!Offset
  <1>5. rows'[r] = {s[i] : i \in DOMAIN s \intersect from + 1..to}
    BY <1>1 DEF ListTypes
  <1> HIDE DEF from, to
  <1>6. SeenOf(r, where)
    BY <1>2 DEF Seen
  <1>7. ASSUME Distinct(where), NEW d \in first[r], Rank(where, d) <= to
        PROVE  d \in Got(r)'
    <2>1. d \in List!Listed(where)
      BY <1>6, <1>7 DEF SeenOf
    <2>2. Rank(where, d) \in DOMAIN s /\ s[Rank(where, d)] = d
      BY <1>7, <2>1, RankAt
    <2>3. Rank(where, d) \in Int
      <3>1. Rank(where, d) \in 1..List!CountOf(where)
        BY <2>1, RankRange
      <3>2. QED  BY <3>1
    <2>4. CASE Rank(where, d) <= from
      BY <1>4, <1>6, <1>7, <2>4 DEF SeenOf
    <2>5. CASE ~ (Rank(where, d) <= from)
      <3>1. Rank(where, d) \in from + 1..to
        BY <1>3, <1>7, <2>3, <2>5
      <3>2. d \in rows'[r]
        BY <1>5, <2>2, <3>1
      <3>3. QED  BY <1>4, <3>2
    <2>6. QED  BY <2>4, <2>5
  <1>8. ASSUME Distinct(where), place'[r] = "statuses", List!LastPage(r)'
        PROVE  first[r] \subseteq Got(r)'
    <2>1. count[r] = List!CountOf(where)
      BY <1>2, <1>6, <1>8 DEF SeenOf
    <2>2. query[r].page >= List!TotalPages(List!CountOf(where), query[r].limit)
      BY <1>2, <1>8, <2>1 DEF List!LastPage
    <2>3. first[r] \subseteq List!Listed(where)
      BY <1>6 DEF SeenOf
    <2>4. \A d \in first[r] : Rank(where, d) <= List!Offset(query[r]) + query[r].limit
                              => d \in Got(r)'
      BY <1>7, <1>8 DEF from, to
    <2>5. QED  BY <2>2, <2>3, <2>4, AllGot
  <1>9. /\ List!Listed(where)' = List!Listed(where)
        /\ Distinct(where)' <=> Distinct(where)
        /\ \A d : Rank(where, d)' = Rank(where, d)
    BY <1>2, ListKept
  <1>10. QED  BY <1>2, <1>4, <1>6, <1>7, <1>8, <1>9 DEF SeenOf

LEMMA ReadCountSeen ==
    ASSUME TableOK, ListTypes, NEW r \in Readers, List!ReadCount(r), Seen(r)
    PROVE  Seen(r)'
  <1> SUFFICES ASSUME NEW where, where = query[r].where PROVE SeenOf(r, where)'
    <2>1. query' = query /\ place'[r] \in {"page", "statuses"}
      BY DEF List!ReadCount, List!Read, List!Goto, ListTypes
    <2>2. QED  BY <2>1 DEF Seen
  <1>1. /\ UNCHANGED <<documents, query, rows, first, shown>>
        /\ place[r] = "page"
        /\ reads'[r] = reads[r] \ {"count"}
        /\ place'[r] = IF reads[r] = {"count"} THEN "statuses" ELSE "page"
        /\ count'[r] = List!CountOf(where)
    BY DEF List!ReadCount, List!Read, List!Goto, List!history, ListTypes
  <1>2. UpTo(r)' = UpTo(r) /\ Got(r)' = Got(r)
    BY <1>1 DEF UpTo, Got, Pending, List!Offset
  <1>3. SeenOf(r, where)
    BY <1>1 DEF Seen
  <1>4. ASSUME Distinct(where), place'[r] = "statuses", List!LastPage(r)'
        PROVE  first[r] \subseteq Got(r)
    <2>1. query[r].page >= List!TotalPages(List!CountOf(where), query[r].limit)
      BY <1>1, <1>4 DEF List!LastPage, List!TotalPages
    <2>2. first[r] \subseteq List!Listed(where)
      BY <1>3 DEF SeenOf
    <2>3. UpTo(r) = List!Offset(query[r]) + query[r].limit
      BY <1>1, <1>4 DEF UpTo, Pending
    <2>4. \A d \in first[r] : Rank(where, d) <= List!Offset(query[r]) + query[r].limit
                              => d \in Got(r)
      BY <1>3, <1>4, <2>3 DEF SeenOf
    <2>5. QED  BY <2>1, <2>2, <2>4, AllGot
  <1>5. /\ List!Listed(where)' = List!Listed(where)
        /\ List!CountOf(where)' = List!CountOf(where)
        /\ Distinct(where)' <=> Distinct(where)
        /\ \A d : Rank(where, d)' = Rank(where, d)
    BY <1>1, ListKept
  <1>6. place'[r] \in {"page", "statuses"}
    BY <1>1
  <1>7. QED  BY <1>1, <1>2, <1>3, <1>4, <1>5, <1>6 DEF SeenOf

\* The two counts; then the page is answered.
LEMMA CountsSeen ==
    ASSUME TableOK, ListTypes, NEW r \in Readers, Seen(r),
           List!CountStatuses(r) \/ List!CountAll(r)
    PROVE  Seen(r)'
  <1>1. /\ UNCHANGED <<documents, query, rows, count, first>>
        /\ place[r] \in {"statuses", "total"}
        /\ place'[r] \in {"total", "answered"}
        /\ shown[r] \subseteq shown'[r]
        /\ place'[r] = "answered" => rows[r] \subseteq shown'[r]
    BY DEF List!CountStatuses, List!CountAll, List!Goto, List!history, ListTypes
  <1>2. UpTo(r)' = UpTo(r) /\ Got(r) \subseteq Got(r)'
    BY <1>1 DEF UpTo, Got, Pending, List!Offset
  <1>3. List!LastPage(r)' <=> List!LastPage(r)
    BY <1>1 DEF List!LastPage, List!TotalPages
  <1>4. ASSUME NEW where, where = query[r].where PROVE SeenOf(r, where)'
    <2>1. SeenOf(r, where)
      BY <1>1, <1>4 DEF Seen
    <2>2. /\ List!Listed(where)' = List!Listed(where)
          /\ Distinct(where)' <=> Distinct(where)
          /\ \A d : Rank(where, d)' = Rank(where, d)
      BY <1>1, ListKept
    <2>3. QED  BY <1>1, <1>2, <1>3, <2>1, <2>2 DEF SeenOf
  <1>5. QED  BY <1>1, <1>4 DEF Seen

LEMMA NextPageSeen ==
    ASSUME LogTypes, TableOK, ListTypes, NEW r \in Readers, List!NextPage(r), Seen(r),
           r \notin shrunk'
    PROVE  Seen(r)'
  <1>1. /\ UNCHANGED <<documents, first, shown>>
        /\ place[r] = "answered" /\ place'[r] = "page" /\ reads'[r] = {"rows", "count"}
    BY DEF List!NextPage, List!Goto, ListTypes
  <1>2. /\ query'[r].where = List!Where(query[r].where.status, query[r].where.period)
        /\ query'[r].limit = query[r].limit
        /\ query'[r].page = query[r].page + 1
    BY Turned
  <1>3. UpTo(r)' = UpTo(r)
    <2>1. query[r].limit \in Nat /\ query[r].page \in Nat
      BY DEF ListTypes, Query
    <2>2. \A page, limit, next \in Nat :
              next = page + 1 => (next - 1) * limit = (page - 1) * limit + limit
      OBVIOUS
    <2>3. query'[r].page \in Nat
      BY <1>2, <2>1
    <2>4. (query'[r].page - 1) * query[r].limit
          = (query[r].page - 1) * query[r].limit + query[r].limit
      BY <1>2, <2>1, <2>2, <2>3
    <2>5. List!Offset(query[r])' = (query'[r].page - 1) * query[r].limit
      BY <1>2 DEF List!Offset
    <2>6. List!Offset(query[r])' = List!Offset(query[r]) + query[r].limit
      BY <2>4, <2>5 DEF List!Offset
    <2>7. QED  BY <1>1, <2>6 DEF UpTo, Pending
  <1>4. Got(r) = Got(r)'
    BY <1>1 DEF Got, Pending, Seen
  <1>5. List!Listed(query'[r].where) = List!Listed(query[r].where)
    BY <1>2 DEF List!NextPage
  <1>6. ASSUME NEW where, where = query'[r].where PROVE SeenOf(r, where)'
    <2>1. PICK old : old = query[r].where
      OBVIOUS
    <2>2. SeenOf(r, old)
      BY <1>1, <2>1 DEF Seen
    <2>3. List!Listed(where)' = List!Listed(old)
      BY <1>1, <1>5, <1>6, <2>1, ListKept
    <2>4. /\ Distinct(where)' => Distinct(old)
          /\ \A d : Rank(where, d)' = Rank(old, d)
      BY <1>1, <2>3 DEF Distinct, Rank, RankIn
    <2>5. QED  BY <1>1, <1>3, <1>4, <2>2, <2>3, <2>4 DEF SeenOf
  <1>7. QED  BY <1>1, <1>6 DEF Seen

\* The table changes: the list of a reader who is still considered only grows,
\* and not at all between the two queries of a page.
LEMMA WatchSeen ==
    ASSUME TableOK, TableOK', TimesKept, ListTypes, List!Watch,
           NEW r \in Readers, r \notin shrunk' \union torn', Seen(r)
    PROVE  Seen(r)'
  <1>1. UNCHANGED <<place, reads, query, rows, count, first, shown>>
    BY DEF List!Watch, List!answer
  <1>2. CASE place[r] = "idle"
    BY <1>1, <1>2 DEF Seen
  <1>3. CASE place[r] # "idle"
    <2>1. ASSUME NEW where, where = query[r].where PROVE SeenOf(r, where)'
      <3>1. SeenOf(r, where)
        BY <1>3, <2>1 DEF Seen
      <3>2. List!Listed(where) \subseteq List!Listed(where)'
        BY <1>3, <2>1 DEF List!Watch, List!Listed
      <3>3. Distinct(where)' => Distinct(where)
        <4>1. \A d \in List!Listed(where) :
                  documents'[d].createdAt = documents[d].createdAt
          BY <3>2 DEF List!Listed, List!ListedIn, TimesKept
        <4>2. QED  BY <3>2, <4>1 DEF Distinct
      <3>4. \A d \in first[r] : Rank(where, d) <= Rank(where, d)'
        BY <3>1, <3>2, RankRises DEF SeenOf
      <3>5. \A d \in first[r] : Rank(where, d) \in Int /\ Rank(where, d)' \in Int
        <4>1. ASSUME NEW d \in List!Listed(where) PROVE Rank(where, d) \in Int
          <5>1. Rank(where, d) \in 1..List!CountOf(where)
            BY RankRange
          <5>2. QED  BY <5>1
        <4>2. ASSUME NEW d \in List!Listed(where)' PROVE Rank(where, d)' \in Int
          <5>1. PICK U : U = {e \in List!Listed(where)' :
                                  documents'[e].createdAt >= documents'[d].createdAt}
            OBVIOUS
          <5>2. PICK n \in Nat : DOMAIN documents' \subseteq 1..n
            BY DEF TableOK
          <5>3. U \subseteq 1..n
            BY <5>1, <5>2 DEF List!Listed, List!ListedIn
          <5>4. IsFiniteSet(1..n)
            BY <5>2, FS_Interval
          <5>5. IsFiniteSet(U)
            BY <5>3, <5>4, FS_Subset
          <5>6. Cardinality(U) \in Nat
            BY <5>5, FS_CardinalityType
          <5>7. QED  BY <5>1, <5>6 DEF Rank, RankIn
        <4>3. QED  BY <3>1, <3>2, <4>1, <4>2 DEF SeenOf
      <3>6. UpTo(r) \in Int
        BY DEF UpTo, List!Offset, ListTypes, Query
      <3>7. /\ UpTo(r)' = UpTo(r) /\ Got(r)' = Got(r)
            /\ List!LastPage(r)' <=> List!LastPage(r)
        BY <1>1 DEF UpTo, Got, Pending, List!LastPage, List!Offset, List!TotalPages
      <3>8. \A d \in first[r] : Rank(where, d)' <= UpTo(r)' => Rank(where, d) <= UpTo(r)
        BY <3>4, <3>5, <3>6, <3>7
      <3>9. ASSUME place[r] = "page", reads[r] = {"rows"}
            PROVE  List!Listed(where)' = List!Listed(where)
        <4>1. List!Cardinality(reads[r]) = 1
          BY <3>9, SameCardinality, FS_Singleton
        <4>2. List!Listed(where)' \subseteq List!Listed(where)
          BY <2>1, <3>9, <4>1 DEF List!Watch, List!Listed
        <4>3. QED  BY <3>2, <4>2
      <3>10. place[r] = "page" /\ reads[r] = {"rows"}
             => List!CountOf(where)' = List!CountOf(where)
        BY <3>9 DEF List!CountOf
      <3>11. QED  BY <1>1, <3>1, <3>2, <3>3, <3>7, <3>8, <3>10 DEF SeenOf
    <2>2. place[r] = "answered" => rows[r] \subseteq shown[r]
      BY <1>3 DEF Seen
    <2>3. QED  BY <1>1, <2>1, <2>2 DEF Seen
  <1>4. QED  BY <1>2, <1>3

LEMMA NextSeen ==
    ASSUME LogTypes, TableOK, TableOK', TimesKept, ListTypes, AllSeen, [Next]_vars
    PROVE  AllSeen'
  <1>1. ASSUME NEW r \in Readers, List!Step(r) PROVE AllSeen'
    <2>1. /\ UNCHANGED <<documents, torn>> /\ shrunk \subseteq shrunk'
          /\ \A q \in Readers \ {r} :
                 /\ place'[q] = place[q] /\ reads'[q] = reads[q]
                 /\ query'[q] = query[q] /\ rows'[q] = rows[q]
                 /\ count'[q] = count[q] /\ first'[q] = first[q]
                 /\ shown'[q] = shown[q]
      BY <1>1, ReaderKept
    <2>2. ASSUME NEW q \in Readers \ {r}, Seen(q) PROVE Seen(q)'
      BY <2>1, <2>2, SeenKept
    <2>3. Seen(r) /\ r \notin shrunk' => Seen(r)'
      BY <1>1, OpenSeen, OpenStatusesSeen, ReadRowsSeen, ReadCountSeen, CountsSeen,
         NextPageSeen DEF List!Step
    <2>4. QED  BY <2>1, <2>2, <2>3 DEF AllSeen
  <1>2. ASSUME List!Watch PROVE AllSeen'
    <2>1. shrunk \subseteq shrunk' /\ torn \subseteq torn'
      BY <1>2 DEF List!Watch
    <2>2. QED  BY <1>2, <2>1, WatchSeen DEF AllSeen
  <1>3. ASSUME UNCHANGED <<documents, readVars>> PROVE AllSeen'
    BY <1>3, SeenKept DEF readVars, AllSeen
  <1>4. QED  BY <1>1, <1>2, <1>3, NextReads

\* A client who goes through the pages sees every document that was in the list
\* when it was opened, although each page is another query.
THEOREM PagesAreComplete == Spec => []PagesComplete
  <1> DEFINE Inv == LogTypes /\ TableOK /\ ListTypes /\ AllSeen
  <1>1. Init => Inv
    <2>1. Init => AllSeen
      BY DEF Init, List!Init, AllSeen, Seen
    <2>2. QED  BY <2>1, InitLogTypes, InitTable, InitListTypes
  <1>2. Inv /\ [Next]_vars => Inv'
    BY NextLogTypes, NextTable, NextListTypes, NextSeen
  <1>3. Inv => PagesComplete
    <2> SUFFICES ASSUME AllSeen, NEW r \in Readers \ (shrunk \union torn),
                        place[r] = "answered", List!LastPage(r),
                        \A d, e \in List!Ids :
                            d # e => documents[d].createdAt # documents[e].createdAt
                 PROVE  first[r] \subseteq shown[r]
      BY DEF PagesComplete, List!PagesComplete
    <2>1. PICK where : where = query[r].where
      OBVIOUS
    <2>2. Distinct(where)
      BY DEF Distinct, List!Ids, List!Listed, List!ListedIn
    <2>3. SeenOf(r, where) /\ rows[r] \subseteq shown[r]
      BY <2>1 DEF AllSeen, Seen
    <2>4. first[r] \subseteq Got(r)
      BY <2>2, <2>3 DEF SeenOf
    <2>5. QED  BY <2>3, <2>4 DEF Got, Pending
  <1>4. QED  BY <1>1, <1>2, <1>3, PTL DEF Spec
=============================================================================
