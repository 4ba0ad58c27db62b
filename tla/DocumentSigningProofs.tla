----------------------- MODULE DocumentSigningProofs -----------------------
(* What holds of DocumentSigning for every set of recipients and requests. *)
EXTENDS DocumentSigning, TLAPS

\* At each label, the body is one that brings a handler there.
Control ==
    \A r \in Requests :
        /\ pc[r] \in {"findRecipient", "saveRecipient"} =>
               /\ body[r] \in UpdateBody \union RejectBody
               /\ body[r].email \in Recipients
        /\ pc[r] = "saveRecipient" => SavesRecipient(body[r])
        /\ pc[r] = "findAll"       => body[r] \in UpdateBody
        /\ pc[r] = "saveDocument"  => body[r] \in Body
        /\ pc[r] = "notify"        => body[r] \in UpdateBody \union RejectBody

TypeInv == TypeOK /\ Control

-----------------------------------------------------------------------------
(* The operators of the handlers, typed. *)

LEMMA BodyOp ==
    ASSUME NEW b \in Body
    PROVE  /\ b.op \in {"updateStatus", "reject", "save"}
           /\ b.op = "updateStatus" => b \in UpdateBody
           /\ b.op = "reject" => b \in RejectBody
           /\ b.op = "save" => b \in SaveBody
  BY DEF Body, UpdateBody, RejectBody, SaveBody

LEMMA StatusUpdatedType ==
    ASSUME NEW b \in UpdateBody, NEW d, NEW rows,
           d.data \in SignData, d = [status |-> d.status, data |-> d.data],
           d.status \in DocStatus
    PROVE  /\ StatusUpdated(b, d, rows).data \in SignData
           /\ StatusUpdated(b, d, rows).status \in DocStatus \union {"INVALID"}
  BY DEF StatusUpdated, UpdateBody, SignData, DocStatus

LEMMA FieldsSavedType ==
    ASSUME NEW r \in Requests, NEW b \in SaveBody, NEW d \in Document
    PROVE  /\ FieldsSaved(r, b, d).data \in SignData
           /\ FieldsSaved(r, b, d).status = d.status
  BY DEF FieldsSaved, SaveBody, SignData, Document

LEMMA RejectedType ==
    ASSUME NEW r \in Requests, NEW d \in Document
    PROVE  /\ Rejected(r, d).data \in SignData
           /\ Rejected(r, d).status = "REJECTED"
  BY DEF Rejected, SignData, Document

LEMMA ComputedType ==
    ASSUME NEW r \in Requests, NEW d \in Document, body[r] \in Body
    PROVE  /\ Computed(r, d).data \in SignData
           /\ Computed(r, d).status \in DocStatus \union {"INVALID"}
  <1>1. CASE body[r].op = "updateStatus"
    <2>1. body[r] \in UpdateBody  BY <1>1, BodyOp
    <2>2. Computed(r, d) = StatusUpdated(body[r], d, seen[r])
      BY <1>1 DEF Computed
    <2>3. QED  BY <2>1, <2>2, StatusUpdatedType DEF Document
  <1>2. CASE body[r].op = "reject"
    <2>1. Computed(r, d) = Rejected(r, d)  BY <1>2 DEF Computed
    <2>2. QED  BY <2>1, RejectedType DEF DocStatus
  <1>3. CASE body[r].op = "save"
    <2>1. body[r] \in SaveBody  BY <1>3, BodyOp
    <2>2. Computed(r, d) = FieldsSaved(r, body[r], d)  BY <1>3 DEF Computed
    <2>3. QED  BY <2>1, <2>2, FieldsSavedType DEF Document
  <1>4. QED  BY <1>1, <1>2, <1>3, BodyOp

LEMMA EffectType ==
    ASSUME NEW r \in Requests, NEW data \in SignData, body[r] \in Body
    PROVE  Effect(r, data) \in SignData
  <1>1. CASE body[r].op = "updateStatus"
    BY <1>1, BodyOp DEF Effect, SignData, UpdateBody
  <1>2. CASE body[r].op = "reject"
    BY <1>2 DEF Effect, SignData
  <1>3. CASE body[r].op = "save"
    <2>1. body[r] \in SaveBody  BY <1>3, BodyOp
    <2>2. body[r].isComplete \in BOOLEAN  BY <2>1 DEF SaveBody
    <2>3. CASE body[r].isComplete
      BY <1>3, <2>3 DEF Effect, SignData
    <2>4. CASE ~body[r].isComplete
      BY <1>3, <2>4 DEF Effect, SignData
    <2>5. QED  BY <2>2, <2>3, <2>4
  <1>4. QED  BY <1>1, <1>2, <1>3, BodyOp

\* Applied to the document that a request loaded, what the code computes is
\* what the request is meant to change.
LEMMA ComputedIsEffect ==
    ASSUME NEW r \in Requests, NEW d \in Document, body[r] \in Body
    PROVE  Computed(r, d).data = Effect(r, d.data)
  <1>1. CASE body[r].op = "updateStatus"
    BY <1>1 DEF Computed, Effect, StatusUpdated, CheckAllSigned, Document
  <1>2. CASE body[r].op = "reject"
    BY <1>2 DEF Computed, Effect, Rejected
  <1>3. CASE body[r].op = "save"
    <2>1. body[r].isComplete \in BOOLEAN  BY <1>3, BodyOp DEF SaveBody
    <2>2. Computed(r, d) = FieldsSaved(r, body[r], d)  BY <1>3 DEF Computed
    <2>3. CASE body[r].isComplete
      BY <1>3, <2>2, <2>3 DEF Effect, FieldsSaved, Document, SignData
    <2>4. CASE ~body[r].isComplete
      BY <1>3, <2>2, <2>4 DEF Effect, FieldsSaved, Document, SignData
    <2>5. QED  BY <2>1, <2>3, <2>4
  <1>4. QED  BY <1>1, <1>2, <1>3, BodyOp

LEMMA WriteBackType ==
    ASSUME NEW r \in Requests, NEW new,
           doc \in Document, new.data \in SignData, new.status \in DocStatus
    PROVE  WriteBack(r, new) \in Document
  BY DEF WriteBack, Document

LEMMA MailType ==
    ASSUME NEW r \in Requests, body[r] \in UpdateBody \union RejectBody
    PROVE  /\ body[r].op = "reject" => RejectMails(r) \subseteq Mail
           /\ body[r].op # "reject" => StatusMails(r) \subseteq Mail
  <1>1. body[r].email \in Email
    BY DEF UpdateBody, RejectBody, Email
  <1>2. RejectMails(r) \subseteq Mail
    BY <1>1 DEF RejectMails, When, Mail
  <1>3. StatusMails(r) \subseteq Mail
    BY <1>1 DEF StatusMails, When, Mail, Email
  <1>4. QED  BY <1>2, <1>3

-----------------------------------------------------------------------------
(* Types *)

LEMMA LoadType ==
    ASSUME NEW r \in Requests, NEW b \in Body, NEW next,
           TypeInv, Load(r, b, next),
           \/ next \in {"findAll", "findRecipient"} /\ b \in UpdateBody
              /\ (next = "findRecipient" => b.email \in Recipients)
           \/ next \in {"failed", "findRecipient"} /\ b \in RejectBody
           \/ next = "saveDocument"
    PROVE  TypeInv'
  <1>1. TypeOK'
    BY DEF TypeInv, TypeOK, Load, Goto, database, Running, Finished
  <1>2. b.email \in Recipients \/ b \notin RejectBody
    BY DEF RejectBody
  <1>3. Control'
    BY <1>2 DEF TypeInv, TypeOK, Control, Load, Goto
  <1>4. QED  BY <1>1, <1>3 DEF TypeInv

LEMMA SaveDocumentType ==
    ASSUME NEW r \in Requests, TypeInv, SaveDocument(r)
    PROVE  TypeInv'
  <1> DEFINE new == Computed(r, loaded[r])
  <1>1. body[r] \in Body /\ pc[r] = "saveDocument"
    BY DEF TypeInv, Control, SaveDocument
  <1>2. loaded[r] \in Document /\ doc \in Document /\ serial \in SignData
    BY DEF TypeInv, TypeOK
  <1>3. /\ new.data \in SignData
        /\ new.status \in DocStatus \union {"INVALID"}
        /\ Effect(r, serial) \in SignData
    BY <1>1, <1>2, ComputedType, EffectType
  <1>4. doc' \in Document /\ serial' \in SignData
    <2>1. CASE ~Valid(new)
      BY <2>1, <1>2 DEF SaveDocument, TypeInv, TypeOK
    <2>2. CASE Valid(new)
      <3>1. WriteBack(r, new) \in Document
        BY <2>2, <1>2, <1>3, WriteBackType DEF Valid
      <3>2. QED  BY <2>2, <3>1, <1>3 DEF SaveDocument
    <2>3. QED  BY <2>1, <2>2
  <1>5. \E next \in {"failed", "done", "notify"} :
            /\ Goto(r, next)
            /\ next = "notify" => body[r].op # "save"
    BY DEF SaveDocument
  <1>6. TypeOK'
    BY <1>4, <1>5 DEF SaveDocument, TypeInv, TypeOK, locals, Goto, Running, Finished
  <1>7. Control'
    <2>1. body' = body  BY DEF SaveDocument, locals
    <2>2. body[r].op # "save" => body[r] \in UpdateBody \union RejectBody
      BY <1>1, BodyOp
    <2>3. QED
      BY <1>5, <2>1, <2>2 DEF Control, TypeInv, TypeOK, Goto
  <1>8. QED  BY <1>6, <1>7 DEF TypeInv

LEMMA StepType ==
    ASSUME TypeInv, [Next]_vars
    PROVE  TypeInv'
  <1>1. ASSUME NEW r \in Requests, LoadUpdateStatus(r)
        PROVE  TypeInv'
    <2>1. PICK b \in Bodies :
              /\ b.op = "updateStatus"
              /\ Load(r, b, IF b.email = NoEmail THEN "findAll" ELSE "findRecipient")
      BY <1>1 DEF LoadUpdateStatus
    <2>2. b \in Body /\ b \in UpdateBody
      BY <2>1, BodyOp, BodiesAssumption
    <2>3. b.email # NoEmail => b.email \in Recipients
      BY <2>2 DEF UpdateBody, Email
    <2>4. QED  BY <2>1, <2>2, <2>3, LoadType
  <1>2. ASSUME NEW r \in Requests, LoadReject(r)
        PROVE  TypeInv'
    <2>1. PICK b \in Bodies :
              /\ b.op = "reject"
              /\ Load(r, b, IF b.owner THEN "findRecipient" ELSE "failed")
      BY <1>2 DEF LoadReject
    <2>2. b \in Body /\ b \in RejectBody
      BY <2>1, BodyOp, BodiesAssumption
    <2>3. QED  BY <2>1, <2>2, LoadType
  <1>3. ASSUME NEW r \in Requests, LoadSave(r)
        PROVE  TypeInv'
    <2>1. PICK b \in Bodies : Load(r, b, "saveDocument")
      BY <1>3 DEF LoadSave
    <2>2. QED  BY <2>1, BodiesAssumption, LoadType
  <1>4. ASSUME NEW r \in Requests, FindRecipient(r)
        PROVE  TypeInv'
    <2>1. /\ body[r] \in UpdateBody \union RejectBody
          /\ body[r].email \in Recipients
      BY <1>4 DEF FindRecipient, TypeInv, Control
    <2>2. TypeOK'
      BY <1>4, <2>1
      DEF FindRecipient, TypeInv, TypeOK, database, history, Goto, Running, Finished
    <2>3. body[r] \in RejectBody => SavesRecipient(body[r])
      BY DEF RejectBody, SavesRecipient
    <2>4. Control'
      BY <1>4, <2>1, <2>3 DEF FindRecipient, TypeInv, TypeOK, Control, Goto,
         SavesRecipient
    <2>5. QED  BY <2>2, <2>4 DEF TypeInv
  <1>5. ASSUME NEW r \in Requests, SaveRecipient(r)
        PROVE  TypeInv'
    <2>1. /\ body[r] \in UpdateBody \union RejectBody
          /\ body[r].email \in Recipients
      BY <1>5 DEF SaveRecipient, TypeInv, Control
    <2>2. NewSigningStatus(body[r]) \in Row
      BY DEF NewSigningStatus, Row, SigningStatus
    <2>3. TypeOK'
      BY <1>5, <2>1, <2>2 DEF SaveRecipient, TypeInv, TypeOK, locals, Goto,
         Running, Finished, EverySigned
    <2>4. body[r] \in Body /\ (body[r].op # "reject" => body[r] \in UpdateBody)
      BY <2>1 DEF Body, RejectBody
    <2>5. Control'
      BY <1>5, <2>4 DEF SaveRecipient, locals, TypeInv, TypeOK, Control, Goto
    <2>6. QED  BY <2>3, <2>5 DEF TypeInv
  <1>6. ASSUME NEW r \in Requests, FindAll(r)
        PROVE  TypeInv'
    <2>1. TypeOK'
      BY <1>6 DEF FindAll, TypeInv, TypeOK, database, history, Goto, Running, Finished
    <2>2. Control'
      BY <1>6 DEF FindAll, TypeInv, TypeOK, Control, Goto, Body
    <2>3. QED  BY <2>1, <2>2 DEF TypeInv
  <1>7. ASSUME NEW r \in Requests, SaveDocument(r)
        PROVE  TypeInv'
    BY <1>7, SaveDocumentType
  <1>8. ASSUME NEW r \in Requests, Notify(r)
        PROVE  TypeInv'
    <2>1. body[r] \in UpdateBody \union RejectBody
      BY <1>8 DEF Notify, TypeInv, Control
    <2>2. mails' \subseteq Mail
      BY <1>8, <2>1, MailType DEF Notify, TypeInv, TypeOK
    <2>3. TypeOK'
      BY <1>8, <2>2 DEF Notify, TypeInv, TypeOK, database, locals, history, Goto,
         Running, Finished
    <2>4. Control'
      BY <1>8 DEF Notify, TypeInv, TypeOK, Control, locals, Goto
    <2>5. QED  BY <2>3, <2>4 DEF TypeInv
  <1>9. ASSUME NEW r \in Requests, Abort(r)
        PROVE  TypeInv'
    BY <1>9 DEF Abort, TypeInv, TypeOK, Control, database, locals, history, Goto,
       Running, Finished
  <1>10. CASE UNCHANGED vars
    BY <1>10 DEF vars, database, locals, history, TypeInv, TypeOK, Control
  <1>11. QED
    BY <1>1, <1>2, <1>3, <1>4, <1>5, <1>6, <1>7, <1>8, <1>9, <1>10
    DEF Next, Step, Terminated

LEMMA InitType == Init => TypeInv
  <1> SUFFICES ASSUME Init PROVE TypeInv
    OBVIOUS
  <1>1. NoData \in SignData
    BY DEF NoData, SignData
  <1>2. doc \in Document
    BY <1>1, StatusAssumption DEF Init, Document
  <1>3. TypeOK
    BY <1>1, <1>2, SettingsAssumption
    DEF Init, TypeOK, Row, SigningStatus, EverySigned
  <1>4. Control
    BY DEF Init, Control
  <1>5. QED  BY <1>3, <1>4 DEF TypeInv

\* The type invariant holds for every set of recipients, requests and bodies.
THEOREM TypeCorrect == Spec => []TypeOK
  <1>1. TypeInv => TypeOK  BY DEF TypeInv
  <1>2. QED  BY InitType, StepType, <1>1, PTL DEF Spec

-----------------------------------------------------------------------------
(* COMPLETED only after a moment at which everybody had signed. *)

\* The rows a handler decides from were the rows of the database when it read
\* them, so if they are all SIGNED there was such a moment.
SeenInv ==
    /\ EverySigned(recipient) => everAllSigned
    /\ \A r \in Requests :
           /\ pc[r] = "saveDocument"
           /\ body[r].op = "updateStatus"
           /\ EverySigned(seen[r])
           => everAllSigned

CompletedInv == CompletedNeedsAllSigned /\ SeenInv

LEMMA LoadCompleted ==
    ASSUME NEW r \in Requests, NEW b, NEW next, TypeInv, CompletedInv,
           Load(r, b, next), next = "saveDocument" => b.op # "updateStatus"
    PROVE  CompletedInv'
  BY DEF Load, Goto, database, TypeInv, TypeOK, CompletedInv,
     CompletedNeedsAllSigned, SeenInv, EverySigned

LEMMA SaveDocumentCompleted ==
    ASSUME NEW r \in Requests, TypeInv, CompletedInv, SaveDocument(r)
    PROVE  CompletedInv'
  <1> DEFINE new == Computed(r, loaded[r])
  <1>1. /\ pc[r] = "saveDocument"
        /\ UNCHANGED <<recipient, body, seen, everAllSigned>>
        /\ \E next \in {"failed", "done", "notify"} : Goto(r, next)
    BY DEF SaveDocument, locals
  <1>2. SeenInv'
    BY <1>1 DEF CompletedInv, SeenInv, EverySigned, Goto, TypeInv, TypeOK
  <1>3. ASSUME doc'.status = "COMPLETED", doc.status # "COMPLETED"
        PROVE  everAllSigned
    <2>1. new.status = "COMPLETED" /\ new.status # loaded[r].status
      BY <1>3 DEF SaveDocument, WriteBack
    <2>2. body[r] \in Body
      BY <1>1 DEF TypeInv, Control
    <2>3. CASE body[r].op = "updateStatus"
      <3>1. new = StatusUpdated(body[r], loaded[r], seen[r])
        BY <2>3 DEF Computed
      <3>2. loaded[r] \in Document
        BY DEF TypeInv, TypeOK
      <3>3. EverySigned(seen[r])
        BY <2>1, <3>1, <3>2 DEF StatusUpdated, CheckAllSigned, Document
      <3>4. QED  BY <1>1, <2>3, <3>3 DEF CompletedInv, SeenInv
    <2>4. CASE body[r].op = "reject"
      BY <2>1, <2>4 DEF Computed, Rejected
    <2>5. CASE body[r].op = "save"
      <3>1. new = FieldsSaved(r, body[r], loaded[r])
        BY <2>5 DEF Computed
      <3>2. new.status = loaded[r].status
        BY <2>2, <2>5, <3>1, BodyOp, FieldsSavedType DEF TypeInv, TypeOK
      <3>3. QED  BY <2>1, <3>2
    <2>6. QED  BY <2>2, <2>3, <2>4, <2>5, BodyOp
  <1>4. CompletedNeedsAllSigned'
    BY <1>1, <1>3 DEF CompletedInv, CompletedNeedsAllSigned
  <1>5. QED  BY <1>2, <1>4 DEF CompletedInv

LEMMA StepCompleted ==
    ASSUME TypeInv, CompletedInv, [Next]_vars
    PROVE  CompletedInv'
  <1> USE DEF CompletedInv, CompletedNeedsAllSigned, SeenInv
  <1>1. ASSUME NEW r \in Requests, LoadUpdateStatus(r)
        PROVE  CompletedInv'
    BY <1>1, LoadCompleted DEF LoadUpdateStatus
  <1>2. ASSUME NEW r \in Requests, LoadReject(r)
        PROVE  CompletedInv'
    BY <1>2, LoadCompleted DEF LoadReject
  <1>3. ASSUME NEW r \in Requests, LoadSave(r)
        PROVE  CompletedInv'
    BY <1>3, LoadCompleted DEF LoadSave
  <1>4. ASSUME NEW r \in Requests, FindRecipient(r)
        PROVE  CompletedInv'
    BY <1>4 DEF FindRecipient, Goto, database, history, TypeInv, TypeOK, EverySigned
  <1>5. ASSUME NEW r \in Requests, SaveRecipient(r)
        PROVE  CompletedInv'
    <2>1. pc'[r] = "saveDocument" => body[r].op = "reject"
      BY <1>5 DEF SaveRecipient, Goto, TypeInv, TypeOK
    <2>2. EverySigned(recipient)' => everAllSigned'
      BY <1>5 DEF SaveRecipient, EverySigned
    <2>3. everAllSigned => everAllSigned'
      BY <1>5 DEF SaveRecipient
    <2>4. QED
      BY <1>5, <2>1, <2>2, <2>3 DEF SaveRecipient, Goto, locals, TypeInv, TypeOK,
         EverySigned
  <1>6. ASSUME NEW r \in Requests, FindAll(r)
        PROVE  CompletedInv'
    <2>1. seen'[r] = recipient
      BY <1>6 DEF FindAll, TypeInv, TypeOK
    <2>2. QED
      BY <1>6, <2>1 DEF FindAll, Goto, database, history, TypeInv, TypeOK, EverySigned
  <1>7. ASSUME NEW r \in Requests, SaveDocument(r)
        PROVE  CompletedInv'
    BY <1>7, SaveDocumentCompleted
  <1>8. ASSUME NEW r \in Requests, Notify(r) \/ Abort(r)
        PROVE  CompletedInv'
    BY <1>8 DEF Notify, Abort, Goto, database, locals, history, TypeInv, TypeOK,
       Running, EverySigned
  <1>9. CASE UNCHANGED vars
    BY <1>9 DEF vars, database, locals, history, EverySigned
  <1>10. QED
    BY <1>1, <1>2, <1>3, <1>4, <1>5, <1>6, <1>7, <1>8, <1>9
    DEF Next, Step, Terminated

\* A document is COMPLETED only if every recipient row was SIGNED at some
\* moment, whatever requests run together and wherever they fail.
THEOREM CompletedSafe == Spec => []CompletedNeedsAllSigned
  <1>1. Init => CompletedInv
    BY StatusAssumption DEF Init, CompletedInv, CompletedNeedsAllSigned, SeenInv
  <1>2. CompletedInv => CompletedNeedsAllSigned
    BY DEF CompletedInv
  <1>3. QED  BY <1>1, <1>2, InitType, StepType, StepCompleted, PTL DEF Spec

-----------------------------------------------------------------------------
(* The last signer sees all the others, and tells the owner. *)

\* While r is the last request that changed a recipient row, the rows are what
\* r left: its own row has the status r gave it, and the rows r reads next are
\* still those of the database when r acts on them.
ChangerInv ==
    \A r \in Requests : changer = r =>
        /\ body[r] \in UpdateBody \union RejectBody
        /\ body[r].email \in Recipients
        /\ SavesRecipient(body[r])
        /\ recipient[body[r].email] = NewSigningStatus(body[r])
        /\ pc[r] \notin {"idle", "findRecipient", "saveRecipient"}
        /\ pc[r] \in {"saveDocument", "notify", "done"} /\ body[r].op = "updateStatus"
             => seen[r] = recipient

OwnerInv == ChangerInv /\ OwnerTold

\* Only a request that made its signer SIGNED can leave every row SIGNED.
LEMMA ChangerSigned ==
    ASSUME NEW r \in Requests, TypeInv, ChangerInv,
           changer = r, EverySigned(recipient)
    PROVE  body[r] \in UpdateBody /\ body[r].op = "updateStatus"
           /\ body[r].status = "COMPLETED"
  <1>1. NewSigningStatus(body[r]) \in {"SIGNED", "ABSENT"}
    BY DEF ChangerInv, EverySigned
  <1>2. body[r].op # "reject" /\ body[r].status # "REJECTED"
    BY <1>1 DEF NewSigningStatus
  <1>3. QED
    BY <1>2 DEF ChangerInv, SavesRecipient, UpdateBody, RejectBody

LEMMA LoadOwner ==
    ASSUME NEW r \in Requests, NEW b, NEW next, TypeInv, OwnerInv,
           Load(r, b, next)
    PROVE  OwnerInv'
  <1>1. changer # r
    BY DEF Load, OwnerInv, ChangerInv
  <1>2. \A q \in Requests : q # r => /\ body'[q] = body[q]
                                     /\ pc'[q] = pc[q]
    BY DEF Load, Goto, TypeInv, TypeOK
  <1>3. UNCHANGED <<recipient, seen, changer, settings, mails>>
    BY DEF Load, database
  <1>4. ChangerInv'
    BY <1>1, <1>2, <1>3 DEF OwnerInv, ChangerInv
  <1>5. OwnerTold'
    BY <1>1, <1>2, <1>3 DEF OwnerInv, OwnerTold, EverySigned
  <1>6. QED  BY <1>4, <1>5 DEF OwnerInv

LEMMA SaveRecipientOwner ==
    ASSUME NEW r \in Requests, TypeInv, OwnerInv, SaveRecipient(r)
    PROVE  OwnerInv'
  <1> DEFINE e == body[r].email
             new == NewSigningStatus(body[r])
  <1>1. /\ pc[r] = "saveRecipient"
        /\ UNCHANGED <<body, seen, settings, mails>>
        /\ \E next \in {"saveDocument", "findAll"} :
               Goto(r, next) /\ (next = "saveDocument" => body[r].op = "reject")
    BY DEF SaveRecipient, locals
  <1>2. /\ body[r] \in UpdateBody \union RejectBody
        /\ e \in Recipients
        /\ SavesRecipient(body[r])
    BY <1>1 DEF TypeInv, Control
  <1>3. changer # r
    BY <1>1 DEF OwnerInv, ChangerInv
  <1>4. CASE recipient' = recipient
    <2>1. changer' = changer
      BY <1>4 DEF SaveRecipient
    <2>2. ChangerInv'
      BY <1>1, <1>3, <1>4, <2>1 DEF OwnerInv, ChangerInv, Goto, TypeInv, TypeOK
    <2>3. OwnerTold'
      BY <1>1, <1>3, <1>4, <2>1 DEF OwnerInv, OwnerTold, EverySigned, Goto, TypeInv,
         TypeOK
    <2>4. QED  BY <2>2, <2>3 DEF OwnerInv
  <1>5. CASE recipient' # recipient
    <2>1. changer' = r /\ recipient'[e] = new
      BY <1>2, <1>5 DEF SaveRecipient, TypeInv, TypeOK
    <2>2. ChangerInv'
      BY <1>1, <1>2, <2>1 DEF ChangerInv, Goto, TypeInv, TypeOK, RejectBody
    <2>3. OwnerTold'
      BY <1>1, <2>1 DEF OwnerTold, Goto, TypeInv, TypeOK
    <2>4. QED  BY <2>2, <2>3 DEF OwnerInv
  <1>6. QED  BY <1>4, <1>5

LEMMA SaveDocumentOwner ==
    ASSUME NEW r \in Requests, TypeInv, OwnerInv, SaveDocument(r)
    PROVE  OwnerInv'
  <1>1. /\ pc[r] = "saveDocument"
        /\ UNCHANGED <<recipient, body, seen, settings, mails, changer>>
        /\ \E next \in {"failed", "done", "notify"} :
               Goto(r, next) /\ (next = "done" => body[r].op = "save")
    BY DEF SaveDocument, locals
  <1>2. changer = r => body[r].op # "save"
    BY DEF OwnerInv, ChangerInv, UpdateBody, RejectBody
  <1>3. ChangerInv'
    BY <1>1 DEF OwnerInv, ChangerInv, Goto, TypeInv, TypeOK
  <1>4. OwnerTold'
    BY <1>1, <1>2 DEF OwnerInv, OwnerTold, EverySigned, Goto, TypeInv, TypeOK
  <1>5. QED  BY <1>3, <1>4 DEF OwnerInv

LEMMA NotifyOwner ==
    ASSUME NEW r \in Requests, TypeInv, OwnerInv, Notify(r)
    PROVE  OwnerInv'
  <1>1. /\ pc[r] = "notify" /\ Goto(r, "done")
        /\ UNCHANGED <<recipient, settings, body, seen, changer>>
        /\ mails \subseteq mails'
    BY DEF Notify, database, locals, history
  <1>2. ChangerInv'
    BY <1>1 DEF OwnerInv, ChangerInv, Goto, TypeInv, TypeOK
  <1>3. ASSUME changer = r, EverySigned(recipient),
               "ownerDocumentCompleted" \in settings
        PROVE  [by |-> r, kind |-> "completed", to |-> Owner] \in mails'
    <2>1. /\ body[r].op = "updateStatus"
          /\ body[r].status = "COMPLETED"
      BY <1>3, ChangerSigned DEF OwnerInv
    <2>2. EverySigned(seen[r])
      BY <1>1, <1>3, <2>1 DEF OwnerInv, ChangerInv
    <2>3. [by |-> r, kind |-> "completed", to |-> Owner] \in StatusMails(r)
      BY <1>3, <2>1, <2>2 DEF StatusMails, TellsOwner, CheckAllSigned, When
    <2>4. QED  BY <2>1, <2>3 DEF Notify
  <1>4. OwnerTold'
    BY <1>1, <1>3 DEF OwnerInv, OwnerTold, EverySigned, Goto, TypeInv, TypeOK
  <1>5. QED  BY <1>2, <1>4 DEF OwnerInv

LEMMA StepOwner ==
    ASSUME TypeInv, OwnerInv, [Next]_vars
    PROVE  OwnerInv'
  <1> USE DEF OwnerInv, ChangerInv, OwnerTold
  <1>1. ASSUME NEW r \in Requests,
               LoadUpdateStatus(r) \/ LoadReject(r) \/ LoadSave(r)
        PROVE  OwnerInv'
    BY <1>1, LoadOwner DEF LoadUpdateStatus, LoadReject, LoadSave
  <1>2. ASSUME NEW r \in Requests, FindRecipient(r)
        PROVE  OwnerInv'
    BY <1>2 DEF FindRecipient, Goto, database, history, TypeInv, TypeOK, EverySigned
  <1>3. ASSUME NEW r \in Requests, SaveRecipient(r)
        PROVE  OwnerInv'
    BY <1>3, SaveRecipientOwner
  <1>4. ASSUME NEW r \in Requests, FindAll(r)
        PROVE  OwnerInv'
    <2>1. /\ seen' = [seen EXCEPT ![r] = recipient]
          /\ pc[r] = "findAll" /\ Goto(r, "saveDocument")
          /\ UNCHANGED <<recipient, settings, body, mails, changer>>
      BY <1>4 DEF FindAll, database, history
    <2>2. ChangerInv'
      BY <2>1 DEF Goto, TypeInv, TypeOK
    <2>3. OwnerTold'
      BY <2>1 DEF Goto, TypeInv, TypeOK, EverySigned
    <2>4. QED  BY <2>2, <2>3
  <1>5. ASSUME NEW r \in Requests, SaveDocument(r)
        PROVE  OwnerInv'
    BY <1>5, SaveDocumentOwner
  <1>6. ASSUME NEW r \in Requests, Notify(r)
        PROVE  OwnerInv'
    BY <1>6, NotifyOwner
  <1>7. ASSUME NEW r \in Requests, Abort(r)
        PROVE  OwnerInv'
    BY <1>7 DEF Abort, Goto, database, locals, history, TypeInv, TypeOK, Running,
       EverySigned
  <1>8. CASE UNCHANGED vars
    BY <1>8 DEF vars, database, locals, history, EverySigned
  <1>9. QED
    BY <1>1, <1>2, <1>3, <1>4, <1>5, <1>6, <1>7, <1>8 DEF Next, Step, Terminated

LEMMA InitOwner == Init => OwnerInv
  BY NoneAssumption DEF Init, OwnerInv, ChangerInv, OwnerTold

\* However the requests interleave or fail, the last request that changed a
\* row and left all of them SIGNED found all of them SIGNED.
THEOREM LastSignerSafe == Spec => []LastSignerSeesAll
  <1>1. TypeInv /\ OwnerInv => LastSignerSeesAll
    BY ChangerSigned DEF OwnerInv, ChangerInv, LastSignerSeesAll
  <1>2. QED  BY <1>1, InitType, InitOwner, StepType, StepOwner, PTL DEF Spec

\* And once it is over the owner has been told.
THEOREM OwnerToldSafe == Spec => []OwnerTold
  <1>1. OwnerInv => OwnerTold
    BY DEF OwnerInv
  <1>2. QED  BY <1>1, InitType, InitOwner, StepType, StepOwner, PTL DEF Spec

-----------------------------------------------------------------------------
(* Requests that never overlap keep the two tables consistent. *)

\* While no two requests have overlapped, a request works on the latest
\* document and the latest rows; and a COMPLETED document has an unsigned
\* recipient only while the request that caused it has not saved the document.
Deciding(r) == /\ pc[r] \in {"findAll", "saveDocument"}
               /\ body[r].op # "save"
               /\ SavesRecipient(body[r])

SerialInv == ~overlapped =>
    /\ \A q, r \in Requests : pc[q] \in Running /\ pc[r] \in Running => q = r
    /\ \A r \in Requests : pc[r] \in Running \ {"notify"} => loaded[r] = doc
    /\ \A r \in Requests : pc[r] = "saveDocument" /\ body[r].op = "updateStatus"
                             => seen[r] = recipient
    /\ doc.data = serial
    /\ NoneFailed /\ doc.status = "COMPLETED"
         => EverySigned(recipient) \/ \E r \in Requests : Deciding(r)

LEMMA LoadSerial ==
    ASSUME NEW r \in Requests, NEW b, NEW next, TypeInv, SerialInv,
           Load(r, b, next), next = "saveDocument" => b.op # "updateStatus",
           next \in {"findAll", "findRecipient", "saveDocument", "failed"}
    PROVE  SerialInv'
  <1> SUFFICES ASSUME ~overlapped' PROVE SerialInv'
    BY DEF SerialInv
  <1>1. ~overlapped /\ \A q \in Requests : pc[q] \notin Running
    BY DEF Load
  <1>2. /\ pc' = [pc EXCEPT ![r] = next]
        /\ body' = [body EXCEPT ![r] = b]
        /\ loaded' = [loaded EXCEPT ![r] = doc]
        /\ UNCHANGED <<doc, recipient, seen, serial>>
    BY DEF Load, Goto, database
  <1>3. NoneFailed' => NoneFailed
    BY <1>2 DEF NoneFailed, Load, TypeInv, TypeOK
  <1>4. \A q \in Requests : ~Deciding(q)
    BY <1>1 DEF Deciding, Running
  <1>5. QED
    BY <1>1, <1>2, <1>3, <1>4 DEF SerialInv, TypeInv, TypeOK, Running, EverySigned

LEMMA SaveDocumentSerial ==
    ASSUME NEW r \in Requests, TypeInv, SerialInv, SaveDocument(r)
    PROVE  SerialInv'
  <1> SUFFICES ASSUME ~overlapped' PROVE SerialInv'
    BY DEF SerialInv
  <1> DEFINE new == Computed(r, loaded[r])
  <1>1. /\ ~overlapped
        /\ pc[r] = "saveDocument"
        /\ UNCHANGED <<recipient, body, loaded, seen>>
        /\ \E next \in {"failed", "done", "notify"} : Goto(r, next)
    BY DEF SaveDocument, locals
  <1>2. loaded[r] = doc /\ doc.data = serial /\ doc \in Document
        /\ body[r] \in Body
    BY <1>1 DEF SerialInv, Running, TypeInv, TypeOK, Control
  <1>3. new.data = Effect(r, serial)
    BY <1>2, ComputedIsEffect
  <1>4. \A q \in Requests : q # r => pc'[q] \notin Running /\ pc[q] \notin Running
    BY <1>1 DEF SerialInv, Running, Goto, TypeInv, TypeOK
  <1>5. doc'.data = serial'
    <2>1. CASE ~Valid(new)
      BY <2>1, <1>2 DEF SaveDocument
    <2>2. CASE Valid(new)
      BY <2>2, <1>2, <1>3 DEF SaveDocument, WriteBack, DataChanged
    <2>3. QED  BY <2>1, <2>2
  <1>6. ASSUME NoneFailed', doc'.status = "COMPLETED"
        PROVE  EverySigned(recipient)
    <2>1. NoneFailed
      BY <1>1, <1>6 DEF NoneFailed, Goto, TypeInv, TypeOK
    <2>2. new.status # "INVALID" => doc'.status = new.status
      BY <1>2 DEF SaveDocument, WriteBack, Valid
    <2>3. CASE body[r].op = "updateStatus"
      <3>1. new = StatusUpdated(body[r], doc, recipient)
        BY <1>1, <1>2, <2>3 DEF Computed, SerialInv
      <3>2. ~EverySigned(recipient) => new.status = "PENDING"
        BY <3>1, <1>2 DEF StatusUpdated, CheckAllSigned, Document
      <3>3. QED  BY <3>2, <2>2, <1>6
    <2>4. CASE body[r].op = "reject"
      BY <2>4, <2>2, <1>6 DEF Computed, Rejected
    <2>5. CASE body[r].op = "save"
      <3>1. new = FieldsSaved(r, body[r], doc) /\ body[r] \in SaveBody
        BY <2>5, <1>2, BodyOp DEF Computed
      <3>2. new.status = doc.status
        BY <3>1, <1>2, FieldsSavedType
      <3>3. doc.status = "COMPLETED"
        BY <3>2, <2>2, <1>6, <1>2 DEF Document, DocStatus
      <3>4. \A q \in Requests : ~Deciding(q)
        BY <1>4, <2>5 DEF Deciding, Running
      <3>5. QED  BY <1>1, <2>1, <3>3, <3>4 DEF SerialInv
    <2>6. QED  BY <1>2, <2>3, <2>4, <2>5, BodyOp
  <1>7. pc'[r] \in {"failed", "done", "notify"}
    BY <1>1 DEF Goto, TypeInv, TypeOK
  <1>8. QED
    BY <1>1, <1>4, <1>5, <1>6, <1>7 DEF SerialInv, Running, EverySigned

LEMMA StepSerial ==
    ASSUME TypeInv, SerialInv, [Next]_vars
    PROVE  SerialInv'
  <1>1. ASSUME NEW r \in Requests,
               LoadUpdateStatus(r) \/ LoadReject(r) \/ LoadSave(r)
        PROVE  SerialInv'
    BY <1>1, LoadSerial DEF LoadUpdateStatus, LoadReject, LoadSave
  <1>2. ASSUME NEW r \in Requests, FindRecipient(r)
        PROVE  SerialInv'
    <2>1. /\ pc[r] = "findRecipient"
          /\ \E next \in {"failed", "saveRecipient", "findAll"} : Goto(r, next)
          /\ UNCHANGED <<doc, recipient, loaded, body, seen, overlapped, serial>>
      BY <1>2 DEF FindRecipient, database, history
    <2>2. \A q \in Requests : Deciding(q) => Deciding(q)'
      BY <2>1 DEF Deciding, Goto, TypeInv, TypeOK
    <2>3. NoneFailed' => NoneFailed
      BY <2>1 DEF NoneFailed, Goto, TypeInv, TypeOK
    <2>4. QED
      BY <2>1, <2>2, <2>3 DEF SerialInv, Goto, TypeInv, TypeOK, Running, EverySigned
  <1>3. ASSUME NEW r \in Requests, SaveRecipient(r)
        PROVE  SerialInv'
    <2>1. /\ pc[r] = "saveRecipient"
          /\ \E next \in {"findAll", "saveDocument"} :
                 Goto(r, next) /\ (next = "saveDocument" => body[r].op = "reject")
          /\ UNCHANGED <<doc, loaded, body, seen, overlapped, serial>>
      BY <1>3 DEF SaveRecipient, locals
    <2>2. Deciding(r)'
      <3>1. SavesRecipient(body[r]) /\ body[r].op # "save"
        BY <2>1 DEF TypeInv, Control, UpdateBody, RejectBody
      <3>2. QED  BY <2>1, <3>1 DEF Deciding, SavesRecipient, Goto, TypeInv, TypeOK
    <2>3. ~overlapped => \A q \in Requests : pc[q] \in Running => q = r
      BY <2>1 DEF SerialInv, Running
    <2>4. QED
      BY <2>1, <2>2, <2>3 DEF SerialInv, Goto, TypeInv, TypeOK, Running
  <1>4. ASSUME NEW r \in Requests, FindAll(r)
        PROVE  SerialInv'
    <2>1. /\ pc[r] = "findAll" /\ Goto(r, "saveDocument")
          /\ seen' = [seen EXCEPT ![r] = recipient]
          /\ UNCHANGED <<doc, recipient, loaded, body, overlapped, serial>>
      BY <1>4 DEF FindAll, database, history
    <2>2. \A q \in Requests : Deciding(q) => Deciding(q)'
      BY <2>1 DEF Deciding, Goto, TypeInv, TypeOK
    <2>3. NoneFailed' => NoneFailed
      BY <2>1 DEF NoneFailed, Goto, TypeInv, TypeOK
    <2>4. QED
      BY <2>1, <2>2, <2>3 DEF SerialInv, Goto, TypeInv, TypeOK, Running, EverySigned
  <1>5. ASSUME NEW r \in Requests, SaveDocument(r)
        PROVE  SerialInv'
    BY <1>5, SaveDocumentSerial
  <1>6. ASSUME NEW r \in Requests, Notify(r)
        PROVE  SerialInv'
    <2>1. /\ pc[r] = "notify" /\ Goto(r, "done")
          /\ UNCHANGED <<doc, recipient, loaded, body, seen, overlapped, serial>>
      BY <1>6 DEF Notify, database, locals, history
    <2>2. \A q \in Requests : Deciding(q) => Deciding(q)'
      BY <2>1 DEF Deciding, Goto, TypeInv, TypeOK
    <2>3. NoneFailed' => NoneFailed
      BY <2>1 DEF NoneFailed, Goto, TypeInv, TypeOK
    <2>4. QED
      BY <2>1, <2>2, <2>3 DEF SerialInv, Goto, TypeInv, TypeOK, Running, EverySigned
  <1>7. ASSUME NEW r \in Requests, Abort(r)
        PROVE  SerialInv'
    <2>1. /\ Goto(r, "aborted")
          /\ UNCHANGED <<doc, recipient, loaded, body, seen, overlapped, serial>>
      BY <1>7 DEF Abort, database, locals, history
    <2>2. ~NoneFailed'
      BY <2>1 DEF NoneFailed, Goto, TypeInv, TypeOK
    <2>3. QED
      BY <2>1, <2>2 DEF SerialInv, Goto, TypeInv, TypeOK, Running
  <1>8. CASE UNCHANGED vars
    BY <1>8 DEF vars, database, locals, history, SerialInv, NoneFailed, Deciding,
       EverySigned
  <1>9. QED
    BY <1>1, <1>2, <1>3, <1>4, <1>5, <1>6, <1>7, <1>8 DEF Next, Step, Terminated

LEMMA InitSerial == Init => SerialInv
  BY StatusAssumption DEF Init, SerialInv, Running

\* Handlers that never overlap never lose a key of documentSignData.
THEOREM NothingLostSafe == Spec => []NothingLostWithoutOverlap
  <1>1. SerialInv => NothingLostWithoutOverlap
    BY DEF SerialInv, NothingLostWithoutOverlap
  <1>2. QED  BY <1>1, InitType, InitSerial, StepType, StepSerial, PTL DEF Spec

\* Handlers that never overlap and never fail leave a COMPLETED document only
\* with SIGNED recipients.
THEOREM CompletedAgreesSafe == Spec => []CompletedAgreesWithoutOverlap
  <1>1. SerialInv => CompletedAgreesWithoutOverlap
    BY DEF SerialInv, CompletedAgreesWithoutOverlap, Quiet, Deciding, Running
  <1>2. QED  BY <1>1, InitType, InitSerial, StepType, StepSerial, PTL DEF Spec

-----------------------------------------------------------------------------
(* The document implements AtomicDocument. *)

\* A row about to be saved is there; and a moment at which all have signed has
\* been noticed.
MarkInv ==
    /\ \A r \in Requests : pc[r] = "saveRecipient" => recipient[body[r].email] # "ABSENT"
    /\ EverySigned(recipient) => everAllSigned

LEMMA NewStatusType ==
    ASSUME NEW b
    PROVE  NewSigningStatus(b) \in {"SIGNED", "REJECTED"}
  BY DEF NewSigningStatus

LEMMA LoadMark ==
    ASSUME NEW r \in Requests, NEW b, NEW next, TypeInv, MarkInv,
           Load(r, b, next), next # "saveRecipient"
    PROVE  MarkInv'
  <1>1. /\ pc' = [pc EXCEPT ![r] = next]
        /\ body' = [body EXCEPT ![r] = b]
        /\ UNCHANGED <<recipient, everAllSigned>>
    BY DEF Load, Goto, database
  <1>2. QED
    BY <1>1 DEF MarkInv, TypeInv, TypeOK, EverySigned

LEMMA StepMark ==
    ASSUME TypeInv, MarkInv, [Next]_vars
    PROVE  MarkInv'
  <1>1. ASSUME NEW r \in Requests,
               LoadUpdateStatus(r) \/ LoadReject(r) \/ LoadSave(r)
        PROVE  MarkInv'
    BY <1>1, LoadMark DEF LoadUpdateStatus, LoadReject, LoadSave
  <1>2. ASSUME NEW r \in Requests, FindRecipient(r)
        PROVE  MarkInv'
    <2>1. /\ recipient[body[r].email] = "ABSENT" => Goto(r, "failed")
          /\ \E next \in {"failed", "saveRecipient", "findAll"} : Goto(r, next)
          /\ UNCHANGED <<recipient, body, everAllSigned>>
      BY <1>2 DEF FindRecipient, database, history
    <2>2. QED
      BY <2>1 DEF MarkInv, Goto, TypeInv, TypeOK, EverySigned
  <1>3. ASSUME NEW r \in Requests, SaveRecipient(r)
        PROVE  MarkInv'
    <2> DEFINE e == body[r].email
               new == NewSigningStatus(body[r])
    <2>1. /\ recipient' = recipient \/ recipient' = [recipient EXCEPT ![e] = new]
          /\ everAllSigned' = (everAllSigned \/ EverySigned(recipient'))
          /\ \E next \in {"findAll", "saveDocument"} : Goto(r, next)
          /\ UNCHANGED body
      BY <1>3 DEF SaveRecipient, locals
    <2>2. new # "ABSENT"
      BY NewStatusType
    <2>3. \A f \in Recipients : recipient[f] # "ABSENT" => recipient'[f] # "ABSENT"
      BY <2>1, <2>2 DEF TypeInv, TypeOK
    <2>4. \A q \in Requests : pc'[q] = "saveRecipient" =>
              pc[q] = "saveRecipient" /\ body[q].email \in Recipients
      BY <2>1 DEF Goto, TypeInv, TypeOK, Control
    <2>5. \A q \in Requests : pc'[q] = "saveRecipient" =>
              recipient'[body'[q].email] # "ABSENT"
      BY <2>1, <2>3, <2>4 DEF MarkInv
    <2>6. EverySigned(recipient)' => everAllSigned'
      BY <2>1 DEF EverySigned
    <2>7. QED  BY <2>5, <2>6 DEF MarkInv
  <1>4. ASSUME NEW r \in Requests,
               FindAll(r) \/ SaveDocument(r) \/ Notify(r) \/ Abort(r)
        PROVE  MarkInv'
    <2>1. /\ \E next \in {"saveDocument", "failed", "done", "notify", "aborted"} :
                 Goto(r, next)
          /\ UNCHANGED <<recipient, body, everAllSigned>>
      BY <1>4 DEF FindAll, SaveDocument, Notify, Abort, database, locals, history
    <2>2. QED
      BY <2>1 DEF MarkInv, Goto, TypeInv, TypeOK, EverySigned
  <1>5. CASE UNCHANGED vars
    BY <1>5 DEF vars, database, locals, history, MarkInv, EverySigned
  <1>6. QED
    BY <1>1, <1>2, <1>3, <1>4, <1>5 DEF Next, Step, Terminated

\* What the request that works alone writes back is what it computes.
LEMMA WritesComputed ==
    ASSUME NEW r \in Requests, TypeInv, SerialInv, SaveDocument(r), ~overlapped,
           Valid(Computed(r, loaded[r]))
    PROVE  /\ doc \in Document
           /\ body[r] \in Body
           /\ loaded[r] = doc
           /\ body[r].op = "updateStatus" => seen[r] = recipient
           /\ doc'.status = Computed(r, doc).status
           /\ doc'.data = Computed(r, doc).data
           /\ doc' = [status |-> doc'.status, data |-> doc'.data]
  <1>1. pc[r] = "saveDocument"
    BY DEF SaveDocument
  <1>2. /\ doc \in Document /\ body[r] \in Body
        /\ loaded[r] = doc
        /\ body[r].op = "updateStatus" => seen[r] = recipient
    BY <1>1 DEF SerialInv, Running, TypeInv, TypeOK, Control
  <1>3. doc' = WriteBack(r, Computed(r, doc))
    BY <1>2 DEF SaveDocument
  <1>4. QED
    BY <1>2, <1>3 DEF WriteBack, DataChanged

LEMMA SaveDocumentAtomic ==
    ASSUME NEW r \in Requests, TypeInv, TypeInv', CompletedInv', SerialInv,
           SaveDocument(r)
    PROVE  [Atomic!Next]_(Atomic!vars)
  <1> DEFINE new == Computed(r, loaded[r])
             b == body[r]
  <1>1. UNCHANGED <<recipient, overlapped, everAllSigned>>
    BY DEF SaveDocument
  <1>2. CASE ~Valid(new)
    <2>1. UNCHANGED doc
      BY <1>2 DEF SaveDocument
    <2>2. QED  BY <1>1, <2>1 DEF Atomic!vars
  <1>3. CASE overlapped
    <2>1. doc' \in [status: Atomic!Status, data: Atomic!Data]
      BY DEF TypeInv, TypeOK, Document, SignData, DocStatus, Email, Atomic!Status,
         Atomic!Data, Atomic!Writer, Atomic!Signer
    <2>2. doc'.status = "COMPLETED" => everAllSigned
      BY <1>1 DEF CompletedInv, CompletedNeedsAllSigned
    <2>3. Atomic!WriteOldCopy
      BY <1>1, <1>3, <2>1, <2>2 DEF Atomic!WriteOldCopy
    <2>4. QED  BY <2>3 DEF Atomic!Next
  <1>4. CASE ~overlapped /\ Valid(new)
    <2>1. /\ doc \in Document
          /\ b \in Body
          /\ loaded[r] = doc
          /\ b.op = "updateStatus" => seen[r] = recipient
          /\ doc'.status = Computed(r, doc).status
          /\ doc'.data = Computed(r, doc).data
          /\ doc' = [status |-> doc'.status, data |-> doc'.data]
      BY <1>4, WritesComputed
    <2>2. doc = [status |-> doc.status, data |-> doc.data]
          /\ doc.status \in DocStatus /\ doc.data \in SignData
      BY <2>1 DEF Document
    <2>3. CASE b.op = "updateStatus"
      <3> DEFINE signature == IF b.signature THEN b.email ELSE None
      <3>1. b \in UpdateBody
        BY <2>1, <2>3, BodyOp
      <3>2. signature \in Atomic!Signer
        BY <3>1 DEF UpdateBody, Email, Atomic!Signer
      <3>3. Computed(r, doc) = StatusUpdated(b, doc, recipient)
        BY <2>1, <2>3 DEF Computed
      <3>4. CASE EverySigned(recipient)
        <4>1. Computed(r, doc) =
                  [status |-> b.status,
                   data |-> [doc.data EXCEPT !.signature = signature]]
          BY <3>3, <3>4 DEF StatusUpdated, CheckAllSigned
        <4>2. b.status \in Atomic!Status
          BY <4>1, <1>4, <2>1, <3>1 DEF Valid, UpdateBody, DocStatus, Atomic!Status
        <4>3. doc' = [status |-> b.status,
                      data |-> [doc.data EXCEPT !.signature = signature]]
          BY <4>1, <2>1
        <4>4. Atomic!AllSigned
          BY <3>4 DEF EverySigned, Atomic!AllSigned
        <4>5. Atomic!Sign(b.status, signature)
          BY <1>1, <4>3, <4>4 DEF Atomic!Sign
        <4>6. QED  BY <3>2, <4>2, <4>5 DEF Atomic!Next
      <3>5. CASE ~EverySigned(recipient)
        <4>1. Computed(r, doc) = [doc EXCEPT !.status = "PENDING"]
          BY <3>3, <3>5 DEF StatusUpdated, CheckAllSigned
        <4>2. doc' = [doc EXCEPT !.status = "PENDING"]
          BY <4>1, <2>1, <2>2
        <4>3. ~Atomic!AllSigned
          BY <3>5 DEF EverySigned, Atomic!AllSigned
        <4>4. Atomic!Sign("PENDING", signature)
          BY <1>1, <4>2, <4>3 DEF Atomic!Sign
        <4>5. QED  BY <3>2, <4>4 DEF Atomic!Next, Atomic!Status
      <3>6. QED  BY <3>4, <3>5
    <2>4. CASE b.op = "reject"
      <3>1. Computed(r, doc) = Rejected(r, doc)
        BY <2>4 DEF Computed
      <3>2. doc' = [status |-> "REJECTED", data |-> [doc.data EXCEPT !.rejection = r]]
        BY <3>1, <2>1 DEF Rejected
      <3>3. Atomic!Reject(r)
        BY <1>1, <3>2 DEF Atomic!Reject
      <3>4. QED  BY <3>3 DEF Atomic!Next
    <2>5. CASE b.op = "save"
      <3>1. b \in SaveBody
        BY <2>1, <2>5, BodyOp
      <3>2. b.isComplete \in BOOLEAN /\ b.echo \in BOOLEAN /\ b.fields \in SUBSET Recipients
        BY <3>1 DEF SaveBody
      <3>3. Computed(r, doc) = FieldsSaved(r, b, doc)
        BY <2>5 DEF Computed
      <3>4. CASE b.isComplete
        <4>1. Computed(r, doc).data =
                  [doc.data EXCEPT !.fields =
                      [e \in Recipients |-> IF e \in b.fields THEN r ELSE @[e]]]
          BY <3>3, <3>4, <2>2 DEF FieldsSaved, SignData
        <4>2. Computed(r, doc).status = doc.status
          BY <3>3, <2>2 DEF FieldsSaved
        <4>3. doc' = [doc EXCEPT !.data.fields =
                         [e \in Recipients |-> IF e \in b.fields THEN r ELSE @[e]]]
          BY <4>1, <4>2, <2>1, <2>2 DEF SignData
        <4>4. Atomic!SaveFields(r, b.fields)
          BY <1>1, <4>3 DEF Atomic!SaveFields
        <4>5. QED  BY <3>2, <4>4 DEF Atomic!Next
      <3>5. CASE ~b.isComplete
        <4> DEFINE kept == IF b.echo THEN doc.data ELSE Atomic!Empty
                   new_fields == [e \in Recipients |-> IF e \in b.fields THEN r ELSE None]
        <4>1. Computed(r, doc).data = [kept EXCEPT !.fields = new_fields]
          BY <3>2, <3>3, <3>5, <2>2 DEF FieldsSaved, SignData, Atomic!Empty
        <4>2. Computed(r, doc).status = doc.status
          BY <3>3, <2>2 DEF FieldsSaved
        <4>3. doc' = [doc EXCEPT !.data = [kept EXCEPT !.fields = new_fields]]
          BY <4>1, <4>2, <2>1, <2>2
        <4>4. kept \in {doc.data, Atomic!Empty}
          OBVIOUS
        <4>5. Atomic!Overwrite(r, b.fields)
          BY <1>1, <4>3, <4>4 DEF Atomic!Overwrite
        <4>6. QED  BY <3>2, <4>5 DEF Atomic!Next
      <3>6. QED  BY <3>2, <3>4, <3>5
    <2>6. QED  BY <2>1, <2>3, <2>4, <2>5, BodyOp
  <1>5. QED  BY <1>2, <1>3, <1>4

LEMMA SaveRecipientAtomic ==
    ASSUME NEW r \in Requests, TypeInv, MarkInv, SaveRecipient(r)
    PROVE  [Atomic!Next]_(Atomic!vars)
  <1> DEFINE e == body[r].email
             new == NewSigningStatus(body[r])
  <1>1. /\ pc[r] = "saveRecipient"
        /\ recipient' = recipient \/ recipient' = [recipient EXCEPT ![e] = new]
        /\ everAllSigned' = (everAllSigned \/ EverySigned(recipient'))
        /\ UNCHANGED <<doc, overlapped>>
    BY DEF SaveRecipient
  <1>2. CASE recipient' = recipient
    <2>1. everAllSigned' = everAllSigned
      BY <1>1, <1>2 DEF MarkInv, TypeInv, TypeOK
    <2>2. QED  BY <1>1, <1>2, <2>1 DEF Atomic!vars
  <1>3. CASE recipient' = [recipient EXCEPT ![e] = new]
    <2>1. e \in Recipients /\ recipient[e] # "ABSENT"
      BY <1>1 DEF TypeInv, Control, MarkInv
    <2>2. Atomic!AllSigned' <=> EverySigned(recipient')
      BY DEF Atomic!AllSigned, EverySigned
    <2>3. Atomic!Mark(e, new)
      BY <1>1, <1>3, <2>1, <2>2 DEF Atomic!Mark
    <2>4. new \in {"SIGNED", "REJECTED"}
      BY NewStatusType
    <2>5. QED  BY <2>1, <2>3, <2>4 DEF Atomic!Next
  <1>4. QED  BY <1>1, <1>2, <1>3

LEMMA StepAtomic ==
    ASSUME TypeInv, TypeInv', CompletedInv', SerialInv, MarkInv, [Next]_vars
    PROVE  [Atomic!Next]_(Atomic!vars)
  <1>1. ASSUME NEW r \in Requests, NEW b, NEW next, Load(r, b, next)
        PROVE  [Atomic!Next]_(Atomic!vars)
    <2>1. UNCHANGED <<doc, recipient, everAllSigned>>
      BY <1>1 DEF Load, database
    <2>2. CASE overlapped' = overlapped
      BY <2>1, <2>2 DEF Atomic!vars
    <2>3. CASE overlapped' # overlapped
      <3>1. overlapped'
        BY <1>1, <2>3 DEF Load, TypeInv, TypeOK
      <3>2. Atomic!Overlap
        BY <2>1, <3>1 DEF Atomic!Overlap
      <3>3. QED  BY <3>2 DEF Atomic!Next
    <2>4. QED  BY <2>2, <2>3
  <1>2. ASSUME NEW r \in Requests,
               LoadUpdateStatus(r) \/ LoadReject(r) \/ LoadSave(r)
        PROVE  [Atomic!Next]_(Atomic!vars)
    BY <1>1, <1>2 DEF LoadUpdateStatus, LoadReject, LoadSave
  <1>3. ASSUME NEW r \in Requests,
               FindRecipient(r) \/ FindAll(r) \/ Notify(r) \/ Abort(r)
        PROVE  UNCHANGED Atomic!vars
    BY <1>3 DEF FindRecipient, FindAll, Notify, Abort, database, history, Atomic!vars
  <1>4. CASE UNCHANGED vars
    BY <1>4 DEF vars, database, history, Atomic!vars
  <1>5. QED
    BY <1>2, <1>3, <1>4, SaveRecipientAtomic, SaveDocumentAtomic
    DEF Next, Step, Terminated

LEMMA InitMark == Init => MarkInv
  BY DEF Init, MarkInv

LEMMA InitAtomic == Init => Atomic!Init
  <1> SUFFICES ASSUME Init PROVE Atomic!Init
    OBVIOUS
  <1>1. PICK s \in InitStatuses : doc = [status |-> s, data |-> NoData]
    BY DEF Init
  <1>2. s \in Atomic!Status \ {"COMPLETED"}
    BY StatusAssumption DEF DocStatus, Atomic!Status
  <1>3. NoData = Atomic!Empty
    BY DEF NoData, Atomic!Empty
  <1>4. doc \in [status: Atomic!Status \ {"COMPLETED"}, data: {Atomic!Empty}]
    BY <1>1, <1>2, <1>3
  <1>5. everAllSigned = Atomic!AllSigned
    BY DEF Init, EverySigned, Atomic!AllSigned
  <1>6. QED  BY <1>4, <1>5 DEF Init, Atomic!Init

\* As long as requests come one at a time, each of them changes a row or the
\* document in one step from what the tables hold; afterwards the document is
\* still not COMPLETED before everyone has signed.
THEOREM AtomicRefined == Spec => ImplementsAtomic
  <1>1. Init => CompletedInv
    BY StatusAssumption DEF Init, CompletedInv, CompletedNeedsAllSigned, SeenInv
  <1>2. QED
    BY <1>1, InitType, InitSerial, InitMark, InitAtomic, StepType, StepCompleted,
       StepSerial, StepMark, StepAtomic, PTL DEF Spec, ImplementsAtomic, Atomic!Spec

=============================================================================
