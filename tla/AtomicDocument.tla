--------------------------- MODULE AtomicDocument ---------------------------
(***************************************************************************)
(* What the requests about a document do to it as long as they come one at *)
(* a time: each of them changes a recipient's row, or the document, in one *)
(* step from what the tables hold at that moment.  Once two requests have  *)
(* been in flight together, only this is left of it: a row that is not     *)
(* there never appears, and the document becomes COMPLETED only if there   *)
(* was a moment at which every recipient had signed.                       *)
(*                                                                         *)
(* DocumentSigning implements it.                                          *)
(***************************************************************************)
CONSTANTS Recipients, Requests, NoEmail, None

VARIABLES
    doc,       \* status and documentSignData
    recipient, \* signingStatus of each address, or ABSENT
    calm,      \* have all requests come one at a time?
    agreed     \* was there a moment at which every recipient had signed?

vars == <<doc, recipient, calm, agreed>>

Status == {"COMPLETED", "DRAFT", "PENDING", "REJECTED", "INBOX", "ALL"}
Writer == Requests \union {None}
Signer == Recipients \union {NoEmail, None}
Data   == [fields: [Recipients -> Writer], signature: Signer, rejection: Writer]

Empty == [fields |-> [e \in Recipients |-> None], signature |-> None, rejection |-> None]

AllSigned == \A e \in Recipients : recipient[e] \in {"SIGNED", "ABSENT"}

Init ==
    /\ doc \in [status: Status \ {"COMPLETED"}, data: {Empty}]
    /\ recipient \in [Recipients -> {"ABSENT", "NOT_SIGNED"}]
    /\ calm = TRUE
    /\ agreed = AllSigned

\* A recipient signs, or refuses to.
Mark(e, status) ==
    /\ recipient[e] # "ABSENT"
    /\ recipient' = [recipient EXCEPT ![e] = status]
    /\ agreed' = (agreed \/ AllSigned')
    /\ UNCHANGED <<doc, calm>>

\* A signature is complete: the last one is stored.
Sign(status, signature) ==
    /\ doc' = IF AllSigned
              THEN [status |-> status, data |-> [doc.data EXCEPT !.signature = signature]]
              ELSE [doc EXCEPT !.status = "PENDING"]
    /\ UNCHANGED <<recipient, calm, agreed>>

Reject(r) ==
    /\ doc' = [status |-> "REJECTED", data |-> [doc.data EXCEPT !.rejection = r]]
    /\ UNCHANGED <<recipient, calm, agreed>>

\* A client stores fields: those of some signers, or all, with or without the
\* rest.
SaveFields(r, signers) ==
    /\ doc' = [doc EXCEPT !.data.fields =
                  [e \in Recipients |-> IF e \in signers THEN r ELSE @[e]]]
    /\ UNCHANGED <<recipient, calm, agreed>>

Overwrite(r, signers) ==
    /\ \E kept \in {doc.data, Empty} :
           doc' = [doc EXCEPT !.data =
                      [kept EXCEPT !.fields = [e \in Recipients |->
                                                  IF e \in signers THEN r ELSE None]]]
    /\ UNCHANGED <<recipient, calm, agreed>>

\* A request comes while another one is in flight.
Overlap == calm' = FALSE /\ UNCHANGED <<doc, recipient, agreed>>

\* What an old copy of the document may become.
WriteOldCopy ==
    /\ ~calm
    /\ doc' \in [status: Status, data: Data]
    /\ doc'.status = "COMPLETED" => agreed
    /\ UNCHANGED <<recipient, calm, agreed>>

Next ==
    \/ \E e \in Recipients, status \in {"SIGNED", "REJECTED"} : Mark(e, status)
    \/ \E status \in Status, signature \in Signer : Sign(status, signature)
    \/ \E r \in Requests : Reject(r)
    \/ \E r \in Requests, signers \in SUBSET Recipients :
           SaveFields(r, signers) \/ Overwrite(r, signers)
    \/ Overlap
    \/ WriteOldCopy

Spec == Init /\ [][Next]_vars
=============================================================================
