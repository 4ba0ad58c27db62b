---------------------------- MODULE MCSignedPdf ----------------------------
(* Instances of SignedPdf for TLC. *)
EXTENDS SignedPdf, TLC

CONSTANTS s1, s2

Other(s) == CHOOSE t \in Signers : t # s

NoText      == [form |-> "absent", by |-> {}]
NoSignature == [form |-> "object", entries |-> {}, image |-> {}, typed |-> {}]

\* Texts: none, a string, and lists with or without the signer's entry.
Texts(s) == {NoText, [form |-> "plain", by |-> {}]}
            \union {[form |-> "list", by |-> b] : b \in SUBSET Signers}

\* Signatures: an object with none, an image, a typed one or both, and lists
\* with an entry of the other signer, of the field's own, or of both.
Signatures(s) ==
    {[NoSignature EXCEPT !.image = i, !.typed = t] : i, t \in {{}, {s}}}
    \union {[form |-> "list", entries |-> {Other(s)}, image |-> {Other(s)}, typed |-> {}]}
    \union {[form |-> "list", entries |-> Signers, image |-> i, typed |-> t \ i] :
                i \in SUBSET Signers, t \in {{}, Signers}}

Shapes(s) ==
    {[type |-> "NAME", signer |-> s, page |-> 1, pos |-> 1, text |-> t,
      signature |-> NoSignature, placeholder |-> None] : t \in Texts(s)}
    \union
    {[type |-> "SIGNATURE", signer |-> s, page |-> 1, pos |-> 1, text |-> NoText,
      signature |-> g, placeholder |-> None] : g \in Signatures(s)}

AllShapes == UNION {Shapes(s) : s \in Signers}

OnPages  == {[f EXCEPT !.page = n] : f \in AllShapes, n \in {1, 2}}
InSlots  == {[f EXCEPT !.placeholder = p] : f \in AllShapes, p \in Slots \union {None}}
            \union {[f EXCEPT !.type = "DATE"] : f \in {g \in AllShapes : g.type = "NAME"}}

ListsOf(set) == {<<>>} \union (set \X set)

AllLists == [kind \in {"pdf", "docx"} |->
                ListsOf(IF kind = "pdf" THEN OnPages ELSE InSlots)]

\* A job in which nothing is wrong.
Plain(kind, email, signed) ==
    [kind |-> kind, found |-> TRUE, readable |-> TRUE, email |-> email,
     signed |-> signed, top |-> None, miscolored |-> {}, foreign |-> {},
     broken |-> {}, font |-> TRUE, certificate |-> TRUE, pages |-> 2,
     slots |-> Slots, maxId |-> 1, media |-> {1}, closed |-> TRUE,
     body |-> TRUE, converts |-> TRUE]

\* What may be wrong with a PDF, and with a DOCX.
PdfVariants(j) ==
    {j, [j EXCEPT !.certificate = FALSE], [j EXCEPT !.font = FALSE],
     [j EXCEPT !.pages = 1]}
    \union {[j EXCEPT !.top = s] : s \in Signers}
    \union {[j EXCEPT !.foreign = {s}] : s \in Signers}
    \union {[j EXCEPT !.miscolored = {s}] : s \in Signers}
    \union {[j EXCEPT !.broken = {s}, !.top = t] : s \in Signers, t \in Signers \union {None}}
    \union {[j EXCEPT !.font = FALSE, !.foreign = {s}] : s \in Signers}

DocxVariants(j) ==
    {j, [j EXCEPT !.slots = {}], [j EXCEPT !.closed = FALSE],
     [j EXCEPT !.body = FALSE], [j EXCEPT !.converts = FALSE],
     [j EXCEPT !.media = {2, 3}], [j EXCEPT !.maxId = 0, !.media = {}]}
    \union {[j EXCEPT !.slots = {p}] : p \in Slots}
    \union {[j EXCEPT !.miscolored = {s}] : s \in Signers}
    \union {[j EXCEPT !.broken = {s}] : s \in Signers}

AllJobs ==
    UNION {PdfVariants(Plain("pdf", e, signed)) :
               e \in {None, s1}, signed \in {<<s1, s2>>, <<s2>>}}
    \union UNION {DocxVariants(Plain("docx", e, <<>>)) : e \in {None, s1}}
    \union {[Plain(k, None, <<>>) EXCEPT !.found = a, !.readable = ~a] :
               k \in {"pdf", "docx"}, a \in BOOLEAN}
=============================================================================
