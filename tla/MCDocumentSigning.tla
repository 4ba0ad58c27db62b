------------------------- MODULE MCDocumentSigning -------------------------
(* Instances of DocumentSigning for TLC. *)
EXTENDS DocumentSigning, TLC

Symmetry == Permutations(Requests)

\* A signer's or the owner's request, as the web client sends it.
Sign(e)       == [op |-> "updateStatus", email |-> e, status |-> "COMPLETED",
                  signature |-> TRUE]
SaveFields(e) == [op |-> "save", fields |-> {e}, isComplete |-> TRUE,
                  echo |-> FALSE]

\* Every body, with two of the six statuses updateStatus can store.
AllBodies ==
    [op: {"updateStatus"}, email: Email, signature: BOOLEAN,
     status: {"COMPLETED", "REJECTED", "PENDING", "INVALID"}]
    \union RejectBody
    \union SaveBody

\* The requests of signers, with and without the saving of their fields.
SignBodies     == {Sign(e) : e \in Recipients}
SignSaveBodies == SignBodies \union {SaveFields(e) : e \in Recipients}

OnlyDraft   == {"DRAFT"}
OnlyPending == {"PENDING"}

AllSettingsOn == {EmailSetting}
OwnerMailOn   == {{"ownerDocumentCompleted"}}
OnAndOff      == {EmailSetting, {}}
=============================================================================
