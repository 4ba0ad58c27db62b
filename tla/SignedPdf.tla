------------------------------ MODULE SignedPdf ------------------------------
(***************************************************************************)
(* getPresignedUrlService (getPresignedUrl.services.ts): the rendering of  *)
(* one document with the marks of its signers, as PDF or DOCX.             *)
(*                                                                         *)
(* The service reads the user, the file and the document, and then runs    *)
(* alone over the fields of documentSignData; an action here is one turn   *)
(* of one of its loops.  What a job may contain is what clients store:     *)
(* signers write their texts and signatures into lists that the fields     *)
(* share, and the document may have the last signer's signature on top.    *)
(*                                                                         *)
(* Data: a text, an image or a typed signature is the signer it belongs    *)
(* to; a position is its rank in reading order; geometry, fonts and markup *)
(* are left out, but not the identifiers that tie them, and of the colours *)
(* whether they can be parsed.                                             *)
(***************************************************************************)
EXTENDS Integers, Sequences

CONSTANTS
    Signers,    \* e-mail addresses
    Slots,      \* placeholders a DOCX file may have
    FieldLists, \* lists of fields that a file of each kind may have
    Jobs,       \* what else the service may be asked and find
    None        \* an absent value

VARIABLES
    job,        \* the request with the three rows it has read
    fields,     \* allFields: documentSignData['2'].data.fields
    stage,      \* the loop that runs, or how the service ended
    todo,       \* the fields it has not come to
    drawn,      \* what the fields have put on the pages
    firstField, \* firstSignatureField, 0 before there is one
    certified,  \* the certificate pages appended
    open,       \* the placeholders that documentXml still has
    nextRelId,
    mediaFiles, \* the images added to the package, named by their id
    linked      \* the ids added to the relationships file

renderVars == <<job, fields, stage, todo, drawn, firstField, certified, open,
                nextRelId, mediaFiles, linked>>

-----------------------------------------------------------------------------
(* Types *)

\* customText: absent, a plain string of the field's signer, or a list with a
\* text of each of some signers.
Text == [form: {"absent", "plain", "list"}, by: SUBSET Signers]

\* signature: an object with the field's signer's signature (an absent one
\* has nothing), or a list with entries of some signers.
Signature == [form: {"object", "list"}, entries: SUBSET Signers,
              image: SUBSET Signers, typed: SUBSET Signers]

\* "NAME" stands for every type that is neither DATE nor SIGNATURE.
Field == [type: {"NAME", "DATE", "SIGNATURE"}, signer: Signers,
          page: Nat, pos: Nat, text: Text, signature: Signature,
          placeholder: Slots \union {None}]

Job == [kind: {"pdf", "docx"},
        found: BOOLEAN,              \* are the three rows found?  Not if one is
                                     \* missing, or its query fails
        readable: BOOLEAN,           \* can the file be parsed?
        email: Signers \union {None},\* forEmail: only this signer's fields
        signed: Seq(Signers),        \* signers with status SIGNED
        top: Signers \union {None},  \* documentSignData.signature
        miscolored: SUBSET Signers,  \* signers with a colour of the form '#RGB'
        foreign: SUBSET Signers,     \* texts Helvetica cannot encode
        broken: SUBSET Signers,      \* images that are neither PNG nor JPEG
        font: BOOLEAN,               \* is the handwriting font there?
        certificate: BOOLEAN,        \* is Certificate2.pdf there?
        pages: Nat,
        slots: SUBSET Slots,         \* placeholders in document.xml
        maxId: Nat,                  \* highest rId of the package
        media: SUBSET Nat,           \* numbers of its image files
        closed: BOOLEAN,             \* has </Relationships>
        body: BOOLEAN,               \* has <w:body>
        converts: BOOLEAN]           \* does LibreOffice convert it?

Mark        == [field: Nat, by: Signers \union {None}, as: {"text", "image"}, id: Nat]
Certificate == [signer: Signers, by: Signers \union {None}]
Image       == [id: Nat, by: Signers]

Ended == {"done", "null", "threw"}

ASSUME RenderAssumption ==
    /\ FieldLists \in [{"pdf", "docx"} -> SUBSET Seq(Field)]
    /\ Jobs \subseteq Job
    /\ None \notin Signers \union Slots

-----------------------------------------------------------------------------
(* What the fields hold *)

F(i) == fields[i]

\* forEmail keeps the fields of one signer.
Chosen == {i \in DOMAIN fields : job.email \in {None, F(i).signer}}

\* Seeded fault: the first entry of the list, whoever it is by.
AnyText(f) == IF f.text.form = "list" /\ f.text.by # {}
              THEN CHOOSE s \in f.text.by : s # f.signer \/ f.text.by = {s}
              ELSE None

\* PDF: the entry of the field's signer.  A string is iterated by characters,
\* none of which has an e-mail.
PdfText(f) == IF f.text.form = "list" /\ f.signer \in f.text.by THEN f.signer
                                                                ELSE None

\* DOCX: a string is taken as it is; without any, the recipient's name, or
\* today's date.
DocxText(f) ==
    CASE f.text.form = "list"   -> PdfText(f)
      [] f.text.form = "plain"  -> f.signer
      [] f.text.form = "absent" -> IF f.type = "DATE" THEN None ELSE f.signer

HasTyped(f) == f.signer \in f.signature.typed
HasImage(f) == f.signer \in f.signature.image

\* signatureImageAsBase64 || documentSignData.signature
PdfImage(f) == IF HasImage(f) THEN f.signer ELSE job.top

\* Fields by page, then by position; the sort is stable.
Precedes(i, j) ==
    \/ F(i).page < F(j).page
    \/ F(i).page = F(j).page /\ F(i).pos < F(j).pos
    \/ F(i).page = F(j).page /\ F(i).pos = F(j).pos /\ i < j

\* resolveSignatureForEmail: the first of the rendered fields that is about
\* the signer.
Holders(s) ==
    {i \in Chosen :
        /\ F(i).type = "SIGNATURE"
        /\ IF F(i).signature.form = "list" THEN s \in F(i).signature.entries
                                           ELSE F(i).signer = s}

Holder(s) == CHOOSE i \in Holders(s) : \A j \in Holders(s) : i <= j

OwnSignature(s) ==
    IF Holders(s) = {} THEN [typed |-> None, image |-> None]
    ELSE LET g == F(Holder(s)).signature
         IN  [typed |-> IF s \in g.typed THEN s ELSE None,
              image |-> IF s \in g.image THEN s ELSE None]

\* The first signature field stands in; a list has no image of its own.
StandIn ==
    LET f == F(firstField)
    IN  IF f.signature.form = "object"
        THEN [typed |-> IF HasTyped(f) THEN f.signer ELSE None, image |-> PdfImage(f)]
        ELSE [typed |-> None, image |-> job.top]

\* Seeded fault: the first signature field is looked at before the signer's.
StandInFirst(s) == IF firstField # 0 THEN StandIn ELSE OwnSignature(s)

ResolveSignatureForEmail(s) ==
    IF firstField # 0 /\ OwnSignature(s) = [typed |-> None, image |-> None]
    THEN StandIn
    ELSE OwnSignature(s)

\* hasPlaceholders: one field with a placeholder decides for all of them.
HasPlaceholders == \E i \in Chosen : F(i).placeholder # None

\* Math.max(0, ...existingIds) + 1
FirstRelId(maxId) == maxId + 1

\* The pages of a DOCX in the order in which the fields first name them.
FirstOf(page) == CHOOSE i \in Chosen : /\ F(i).page = page
                                       /\ \A j \in Chosen : F(j).page = page => i <= j

-----------------------------------------------------------------------------
(* The service *)

RenderInit ==
    /\ job \in Jobs
    /\ fields \in FieldLists[job.kind]
    /\ stage = "start"
    /\ todo = {}
    /\ drawn = {}
    /\ firstField = 0
    /\ certified = <<>>
    /\ open = job.slots
    /\ nextRelId = FirstRelId(job.maxId)
    /\ mediaFiles = {}
    /\ linked = {}

pageVars    == <<drawn, firstField, certified>>
packageVars == <<open, nextRelId, mediaFiles, linked>>

\* User, DocumentData and Document; detectFileType; the parsing of the file.
Start ==
    /\ stage = "start"
    /\ stage' = CASE ~job.found \/ ~job.readable                   -> "null"
                  [] job.found /\ job.readable /\ job.kind = "pdf"  -> "draw"
                  [] job.found /\ job.readable /\ job.kind = "docx" ->
                         IF Chosen = {} THEN "convert" ELSE "place"
    /\ todo' = Chosen
    /\ UNCHANGED <<job, fields, pageVars, packageVars>>

\* The turn of field i in the loop over the sorted fields of a PDF.
DrawTurn(i) ==
    /\ stage = "draw"
    /\ i \in todo
    /\ \A j \in todo \ {i} : Precedes(i, j)
    /\ todo' = todo \ {i}
    /\ UNCHANGED <<job, fields, certified, packageVars>>

Put(i, by, as, id) ==
    drawn' = drawn \union {[field |-> i, by |-> by, as |-> as, id |-> id]}

HasPage(i) == F(i).page <= job.pages

\* '#RGB' is cut into two digits, one and none: rgb() refuses the numbers, and
\* throws.
BadColor(i) == F(i).signer \in job.miscolored

SkipMissingPage(i) ==
    /\ DrawTurn(i)
    /\ ~HasPage(i)
    /\ UNCHANGED <<stage, drawn, firstField>>

\* NAME, DATE and the others.  Iterating over an absent customText throws, and
\* so does a text that the font cannot encode; nothing catches it but the
\* service, which then answers null.
CannotDrawText(i) == F(i).text.form = "absent" \/ PdfText(F(i)) \in job.foreign

DrawText(i) ==
    /\ DrawTurn(i)
    /\ HasPage(i)
    /\ ~BadColor(i)
    /\ F(i).type # "SIGNATURE"
    /\ IF CannotDrawText(i)
       THEN stage' = "null" /\ UNCHANGED drawn
       ELSE Put(i, PdfText(F(i)), "text", 0) /\ UNCHANGED stage
    /\ UNCHANGED firstField

SignatureTurn(i) ==
    /\ DrawTurn(i)
    /\ HasPage(i)
    /\ ~BadColor(i)
    /\ F(i).type = "SIGNATURE"
    /\ firstField' = IF firstField = 0 THEN i ELSE firstField

\* A typed signature; without its font it is drawn in Helvetica.
CannotDrawTyped(i) == ~job.font /\ F(i).signer \in job.foreign

DrawTyped(i) ==
    /\ SignatureTurn(i)
    /\ HasTyped(F(i))
    /\ IF CannotDrawTyped(i)
       THEN stage' = "null" /\ UNCHANGED drawn
       ELSE Put(i, F(i).signer, "text", 0) /\ UNCHANGED stage

\* Seeded fault: an image that is in embeddedSignatures is not drawn again.
DrawImageOnce(i) ==
    /\ SignatureTurn(i)
    /\ ~HasTyped(F(i))
    /\ IF \/ PdfImage(F(i)) \in job.broken \union {None}
          \/ \E m \in drawn : m.as = "image" /\ m.by = PdfImage(F(i))
       THEN UNCHANGED drawn
       ELSE Put(i, PdfImage(F(i)), "image", 0)
    /\ UNCHANGED stage

\* Seeded fault: only the first of the two formats is caught.
DrawImageUncaught(i) ==
    /\ SignatureTurn(i)
    /\ ~HasTyped(F(i))
    /\ IF PdfImage(F(i)) \in job.broken
       THEN stage' = "null" /\ UNCHANGED drawn
       ELSE /\ UNCHANGED stage
            /\ IF PdfImage(F(i)) = None THEN UNCHANGED drawn
                                        ELSE Put(i, PdfImage(F(i)), "image", 0)

\* An image; one that cannot be embedded is skipped.
DrawImage(i) ==
    /\ SignatureTurn(i)
    /\ ~HasTyped(F(i))
    /\ IF PdfImage(F(i)) \in job.broken \union {None}
       THEN UNCHANGED drawn
       ELSE Put(i, PdfImage(F(i)), "image", 0)
    /\ UNCHANGED stage

EndDraw ==
    /\ stage = "draw"
    /\ todo = {}
    /\ stage' = IF job.certificate THEN "certify" ELSE "done"
    /\ UNCHANGED <<job, fields, todo, pageVars, packageVars>>

\* One certificate page for each SIGNED signer.  The page is there before its
\* name and signature are drawn; a failure of these keeps it and drops the
\* pages to come.
Certify ==
    LET k == Len(certified) + 1
        s == job.signed[k]
        c == ResolveSignatureForEmail(s)
        fails == \/ s \in job.foreign
                 \/ c.typed # None /\ ~job.font
                 \/ c.typed = None /\ c.image \in job.broken
        by == IF fails THEN None ELSE IF c.typed # None THEN c.typed ELSE c.image
    IN  /\ stage = "certify"
        /\ k <= Len(job.signed)
        /\ certified' = Append(certified, [signer |-> s, by |-> by])
        /\ stage' = IF fails THEN "done" ELSE "certify"
        /\ UNCHANGED <<job, fields, todo, drawn, firstField, packageVars>>

EndCertify ==
    /\ stage = "certify"
    /\ Len(certified) = Len(job.signed)
    /\ stage' = "done"
    /\ UNCHANGED <<job, fields, todo, pageVars, packageVars>>

\* A DOCX with placeholders: the turn of field i, in the order of the list.
ReplaceTurn(i) ==
    /\ stage = "place"
    /\ HasPlaceholders
    /\ i \in todo
    /\ \A j \in todo \ {i} : i < j
    /\ todo' = todo \ {i}
    /\ UNCHANGED <<job, fields, stage, firstField, certified, linked>>

\* A field without one is left out.
SkipField(i) ==
    /\ ReplaceTurn(i)
    /\ F(i).placeholder = None
    /\ UNCHANGED <<drawn, open, nextRelId, mediaFiles>>

\* A text or an image takes the placeholder's place, if it is still there.
Replace(i, by, as, id) ==
    /\ ReplaceTurn(i)
    /\ F(i).placeholder # None
    /\ open' = open \ {F(i).placeholder}
    /\ IF F(i).placeholder \in open THEN Put(i, by, as, id) ELSE UNCHANGED drawn

\* A DOCX without placeholders: the turn of field i, page by page.  (Within a
\* page the comparator is not transitive, and the order is left open.)
AnchorNext(i) ==
    /\ stage = "place"
    /\ ~HasPlaceholders
    /\ i \in todo
    /\ \A j \in todo \ {i} :
           F(i).page = F(j).page \/ FirstOf(F(i).page) < FirstOf(F(j).page)
    /\ todo' = todo \ {i}
    /\ UNCHANGED <<job, fields, firstField, certified, linked>>

AnchorTurn(i) == AnchorNext(i) /\ ~BadColor(i) /\ UNCHANGED stage

\* The colour is looked up first, in a PDF and where fields are anchored, for
\* every type of field; placeholders are replaced without it.  What it throws
\* ends the service with null.
RefuseColor(i) ==
    /\ BadColor(i)
    /\ \/ DrawTurn(i) /\ HasPage(i)
       \/ AnchorNext(i)
    /\ stage' = "null"
    /\ UNCHANGED <<drawn, firstField, open, nextRelId, mediaFiles>>

\* A text box or an image is anchored under a number of its own.
Anchor(i, by, as) ==
    /\ AnchorTurn(i)
    /\ Put(i, by, as, nextRelId)
    /\ UNCHANGED open

\* Seeded fault: the number is not counted on.
AddImageSameId(i) ==
    /\ mediaFiles' = mediaFiles \union {[id |-> nextRelId, by |-> F(i).signer]}
    /\ UNCHANGED nextRelId

\* The image of field i gets a number, a file and a relationship.
AddImage(i) ==
    /\ mediaFiles' = mediaFiles \union {[id |-> nextRelId, by |-> F(i).signer]}
    /\ nextRelId' = nextRelId + 1

IsText(i)      == F(i).type # "SIGNATURE"
IsImage(i)     == F(i).type = "SIGNATURE" /\ HasImage(F(i))
IsTyped(i)     == F(i).type = "SIGNATURE" /\ ~HasImage(F(i)) /\ HasTyped(F(i))
IsNotSigned(i) == F(i).type = "SIGNATURE" /\ ~HasImage(F(i)) /\ ~HasTyped(F(i))

ReplaceByText(i) ==
    /\ IsText(i) \/ IsTyped(i)
    /\ Replace(i, IF IsText(i) THEN DocxText(F(i)) ELSE F(i).signer, "text", 0)
    /\ UNCHANGED <<nextRelId, mediaFiles>>

\* The package gets the image also when the placeholder is gone.
ReplaceByImage(i) ==
    /\ IsImage(i)
    /\ Replace(i, F(i).signer, "image", nextRelId)
    /\ AddImage(i)

AnchorText(i) ==
    /\ IsText(i)
    /\ Anchor(i, DocxText(F(i)), "text")
    /\ nextRelId' = nextRelId + 1
    /\ UNCHANGED mediaFiles

AnchorImage(i) ==
    /\ IsImage(i)
    /\ Anchor(i, F(i).signer, "image")
    /\ AddImage(i)

AnchorTyped(i) ==
    /\ IsTyped(i)
    /\ Anchor(i, F(i).signer, "text")
    /\ nextRelId' = nextRelId + 1
    /\ UNCHANGED mediaFiles

\* A signature field without a signature of its signer stays as it is.
LeaveUnsigned(i) ==
    /\ IsNotSigned(i)
    /\ AnchorTurn(i) \/ (ReplaceTurn(i) /\ F(i).placeholder # None)
    /\ UNCHANGED <<drawn, open, nextRelId, mediaFiles>>

\* Text boxes and shapes go behind <w:body>, relationships before
\* </Relationships>, where there are such; an image without its relationship is
\* not rendered.
Pack ==
    /\ stage = "place"
    /\ todo = {}
    /\ drawn' = {m \in drawn : /\ HasPlaceholders \/ job.body
                               /\ m.as = "image" => job.closed}
    /\ linked' = IF job.closed THEN {m.id : m \in mediaFiles} ELSE {}
    /\ stage' = "convert"
    /\ UNCHANGED <<job, fields, todo, firstField, certified, open, nextRelId, mediaFiles>>

\* convertDocxBytesToPdf is returned without await: its failure passes the
\* catch that answers null.
Convert ==
    /\ stage = "convert"
    /\ stage' = IF job.converts THEN "done" ELSE "threw"
    /\ UNCHANGED <<job, fields, todo, pageVars, packageVars>>

Rendered == stage \in Ended /\ UNCHANGED renderVars

Draw(i) == SkipMissingPage(i) \/ DrawText(i) \/ DrawTyped(i) \/ DrawImage(i)

Place(i) == \/ SkipField(i) \/ ReplaceByText(i) \/ ReplaceByImage(i)
            \/ AnchorText(i) \/ AnchorImage(i) \/ AnchorTyped(i)
            \/ LeaveUnsigned(i)

RenderNext ==
    \/ Start \/ EndDraw \/ Certify \/ EndCertify \/ Pack \/ Convert \/ Rendered
    \/ \E i \in todo : Draw(i) \/ Place(i) \/ RefuseColor(i)

RenderSpec == RenderInit /\ [][RenderNext]_renderVars

-----------------------------------------------------------------------------
(* Properties *)

\* Type invariant of the service's variables.
TypeOK ==
    /\ job \in Job
    /\ fields \in Seq(Field)
    /\ stage \in {"start", "draw", "certify", "place", "convert"} \union Ended
    /\ todo \subseteq DOMAIN fields
    /\ drawn \subseteq Mark
    /\ firstField \in {0} \union DOMAIN fields
    /\ certified \in Seq(Certificate)
    /\ open \subseteq Slots
    /\ nextRelId \in Nat
    /\ mediaFiles \subseteq Image
    /\ linked \subseteq Nat

\* Nobody's text or signature gets into somebody else's field, although the
\* signers share the lists the fields hold: but in a PDF a signature field that
\* its signer has left empty gets documentSignData.signature, whoever's it is.
OwnMarks ==
    \A m \in drawn :
        LET f == F(m.field)
        IN  \/ m.by \in {None, f.signer}
            \/ /\ job.kind = "pdf" /\ f.type = "SIGNATURE"
               /\ m.as = "image" /\ m.by = job.top
               /\ ~HasImage(f) /\ ~HasTyped(f)

\* The signer has written into the field.
Filled(i) ==
    \/ F(i).type = "SIGNATURE" /\ (HasImage(F(i)) \/ HasTyped(F(i)))
    \/ F(i).type # "SIGNATURE" /\ F(i).text.form = "list" /\ F(i).signer \in F(i).text.by

\* Another field stands before i in the list and fills the same placeholder.
TakenBefore(i) ==
    \E j \in Chosen :
        /\ j < i
        /\ F(j).placeholder = F(i).placeholder
        /\ F(j).type = "SIGNATURE" => Filled(j)

\* There is a place for what field i holds: in a DOCX, for an image, only where
\* the relationships file can be added to.
HasPlace(i) ==
    CASE job.kind = "pdf" ->
            /\ HasPage(i)
            /\ \/ F(i).type # "SIGNATURE"
               \/ HasTyped(F(i))
               \/ F(i).signer \notin job.broken
      [] job.kind = "docx" ->
            /\ IsImage(i) => job.closed /\ F(i).signer \notin job.broken
            /\ IF HasPlaceholders
               THEN F(i).placeholder \in job.slots /\ ~TakenBefore(i)
               ELSE job.body

\* A document that is rendered has what every signer wrote, in each of their
\* fields: one field that is empty, misplaced or has a broken image does not
\* cost another one its mark.
NoneMissing ==
    stage = "done" =>
        \A i \in Chosen :
            Filled(i) /\ HasPlace(i)
            => \E m \in drawn : m.field = i /\ m.by = F(i).signer

\* What pdf-lib refuses at the turn of field i: the colour of its signer, also in
\* a DOCX without placeholders; a text or a typed signature of a PDF.
Undrawable(i) ==
    IF job.kind = "pdf"
    THEN /\ HasPage(i)
         /\ \/ BadColor(i)
            \/ IF F(i).type = "SIGNATURE" THEN HasTyped(F(i)) /\ CannotDrawTyped(i)
                                          ELSE CannotDrawText(i)
    ELSE ~HasPlaceholders /\ BadColor(i)

\* The service answers null for a document that is not found or cannot be parsed,
\* and for one with a single field that cannot be drawn, which everybody else's
\* signatures are lost with: the colour of its signer is '#RGB', or, in a PDF, its
\* text is absent or cannot be encoded.  For nothing else, an image that cannot be
\* embedded or a certificate included; and nothing is answered in part.
NullExplained ==
    stage \in Ended =>
        (stage = "null" <=> \/ ~job.found
                            \/ ~job.readable
                            \/ \E i \in Chosen : Undrawable(i))

\* The certificate pages are those of the first SIGNED signers, in their order.
\* One of them has somebody else's signature, or the document's, only if the
\* first rendered field that is about its signer has no signature of theirs, or
\* there is none (as in a rendering for another signer).
CertificateOwn ==
    /\ Len(certified) <= Len(job.signed)
    /\ \A k \in DOMAIN certified :
           LET c == certified[k]
           IN  /\ c.signer = job.signed[k]
               /\ \/ c.by \in {None, c.signer}
                  \/ Holders(c.signer) = {}
                  \/ LET g == F(Holder(c.signer)).signature
                     IN  c.signer \notin g.image \union g.typed

\* What is added to a DOCX package fits together and leaves the rest alone: an
\* id is given once and is none the package had, an image that is rendered has a
\* file of the field's signer and a relationship, and no image of the package is
\* overwritten unless its number is above all relationship ids.
PackageConsistent ==
    /\ \A m, n \in drawn : m.id # 0 /\ m.id = n.id => m = n
    /\ \A x, y \in mediaFiles : x.id = y.id => x = y
    /\ \A x \in mediaFiles : x.id > job.maxId
    /\ \A m \in drawn :
           job.kind = "docx" /\ m.as = "image"
           => /\ [id |-> m.id, by |-> F(m.field).signer] \in mediaFiles
              /\ stage \in {"convert", "done"} => m.id \in linked
    /\ (\A n \in job.media : n <= job.maxId)
       => \A x \in mediaFiles : x.id \notin job.media
=============================================================================
