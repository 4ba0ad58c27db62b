------------------------ MODULE RecipientSyncProofs ------------------------
(* What holds of RecipientSync for every set of addresses and requests. *)
EXTENDS RecipientSync, TLAPS

\* Rows are numbered in order: no id is used again.
IdsUsed ==
    /\ \A i \in DOMAIN rows : i < nextId
    /\ \A r \in Requests : \A i \in DOMAIN existing[r] : i < nextId
    /\ \A i \in told : i < nextId

\* A running sync has a list, and is at one of its entries.
Control ==
    \A r \in Requests :
        /\ pc[r] \in Syncing => /\ body[r] \in [op: {"sync"}, list: Lists]
                                /\ index[r] \in DOMAIN body[r].list
        /\ pc[r] = "idle" => body[r] = NoBody
        /\ pc[r] \in {"idle", "notify", "destroy"} => index[r] = 1
        /\ pc[r] = "save" => body[r] \in SignBody

TypeInv == TypeOK /\ IdsUsed /\ Control

\* The e-mail of a row never changes.
SameEmail ==
    \A r \in Requests : \A i \in DOMAIN rows \intersect DOMAIN existing[r] :
        existing[r][i].email = rows[i].email

\* A signer's request has loaded rows of its signer's address only.
OwnAnswer ==
    \A r \in Requests : pc[r] = "save" =>
        \A i \in DOMAIN existing[r] : existing[r][i].email = body[r].email

\* A recipient who was told of its removal has a row only until the sync that
\* told it destroys the row.
Told ==
    \A i \in told \intersect DOMAIN rows :
        \E r \in Requests : /\ pc[r] \in {"destroy", "aborted"}
                           /\ i \in RecipientsToDelete(body[r].list, existing[r])

OneSync == ~overlapped =>
    \A q, r \in Requests : pc[q] \in Syncing /\ pc[r] \in Syncing => q = r

Careful ==
    /\ ~overlapped
    /\ \A r \in Requests : body[r].op = "sync" => DistinctEmails(body[r].list)

\* A running sync has loaded every row of an address it has yet to write.
LoadedWhatRemains == Careful =>
    \A r \in Requests : pc[r] \in Syncing =>
        \A i \in DOMAIN rows : \A k \in DOMAIN body[r].list :
            k >= index[r] /\ rows[i].email = body[r].list[k].email
            => i \in DOMAIN existing[r]

OneRow == LoadedWhatRemains /\ (Careful => NoDuplicateRecipients)

-----------------------------------------------------------------------------
(* Operators *)

LEMMA UpdatedType ==
    ASSUME NEW x \in Row, NEW y \in Row, NEW entry \in Entry
    PROVE  /\ Updated(x, y, entry) \in Row
           /\ Updated(x, y, entry).email = x.email
           /\ Updated(x, y, entry).signingStatus = x.signingStatus
  BY DEF Updated, Row, Entry

LEMMA NewRowType ==
    ASSUME NEW entry \in Entry
    PROVE  NewRow(entry) \in Row /\ NewRow(entry).email = entry.email
  BY DEF NewRow, Row, Entry

LEMMA CurrentType ==
    ASSUME TypeInv, NEW r \in Requests, pc[r] = "write"
    PROVE  /\ Current(r) \in Entry
           /\ body[r].list \in Lists
           /\ Len(body[r].list) \in Nat
           /\ DOMAIN body[r].list = 1..Len(body[r].list)
  BY ListsAssumption DEF TypeInv, Control, Syncing, Current

LEMMA RestrictType ==
    ASSUME NEW t, IsTable(t), NEW ids, ids \subseteq DOMAIN t
    PROVE  IsTable([i \in ids |-> t[i]])
  BY DEF IsTable

-----------------------------------------------------------------------------
(* Types *)

LEMMA InitType == Init => TypeInv
  <1> SUFFICES ASSUME Init PROVE TypeInv
    OBVIOUS
  <1>1. IsTable(rows) /\ \A i \in DOMAIN rows : i < nextId
    BY TablesAssumption DEF Init
  <1>2. IsTable(NoRows)
    BY DEF NoRows, IsTable
  <1>3. QED
    BY <1>1, <1>2, TablesAssumption DEF Init, TypeInv, TypeOK, IdsUsed,
       Control, Syncing, NoRows

LEMMA NextType == TypeInv /\ [Next]_vars => TypeInv'
  <1> SUFFICES ASSUME TypeInv, [Next]_vars PROVE TypeInv'
    OBVIOUS
  <1> USE ListsAssumption DEF TypeInv, TypeOK, IdsUsed, Control, Goto, Running
  <1>1. ASSUME NEW r \in Requests, Refuse(r)
        PROVE  TypeInv'
    BY <1>1 DEF Refuse, Receive
  <1>2. ASSUME NEW r \in Requests, FindAll(r)
        PROVE  TypeInv'
    <2>1. PICK list \in Lists :
              /\ body' = [body EXCEPT ![r] = [op |-> "sync", list |-> list]]
              /\ pc' = [pc EXCEPT ![r] = IF RecipientsToDelete(list, rows) # {}
                                         THEN "notify" ELSE "write"]
      BY <1>2 DEF FindAll, Receive
    <2>2. /\ rows' = rows /\ nextId' = nextId /\ index' = index /\ told' = told
          /\ existing' = [existing EXCEPT ![r] = rows]
          /\ recipientRemoved' = recipientRemoved
          /\ overlapped' \in BOOLEAN /\ latest' = r
          /\ pc[r] = "idle" /\ index[r] = 1
      BY <1>2 DEF FindAll
    <2>3. TypeOK'
      <3>1. body' \in [Requests -> [op: {"sync"}, list: Lists] \union SignBody \union {NoBody}]
        BY <2>1
      <3>2. /\ existing' = [q \in Requests |-> existing'[q]]
            /\ \A q \in Requests : IsTable(existing'[q])
        BY <2>2
      <3>3. pc' \in [Requests -> Running \union {"idle", "refused", "failed", "done", "aborted"}]
        BY <2>1 DEF Syncing
      <3>4. QED  BY <2>2, <3>1, <3>2, <3>3
    <2>4. IdsUsed'
      BY <2>2
    <2>5. 1 \in DOMAIN list
      BY <2>1
    <2>6. Control'
      BY <2>1, <2>2, <2>5 DEF Syncing
    <2>7. QED  BY <2>3, <2>4, <2>6
  <1>3. ASSUME NEW r \in Requests, NotifyRemoved(r)
        PROVE  TypeInv'
    <2>1. RecipientsToDelete(body[r].list, existing[r]) \subseteq DOMAIN existing[r]
      BY DEF RecipientsToDelete
    <2>2. told' \subseteq Nat /\ \A i \in told' : i < nextId
      BY <1>3, <2>1 DEF NotifyRemoved, IsTable
    <2>3. QED
      BY <1>3, <2>2 DEF NotifyRemoved, Syncing
  <1>4. ASSUME NEW r \in Requests, Destroy(r)
        PROVE  TypeInv'
    BY <1>4 DEF Syncing, Destroy, IsTable
  <1>5. ASSUME NEW r \in Requests, UpdateRecipient(r)
        PROVE  TypeInv'
    <2>1. PICK i \in Matching(Current(r), existing[r]) :
              /\ rows' = IF i \in DOMAIN rows
                         THEN [rows EXCEPT ![i] = Updated(@, existing[r][i], Current(r))]
                         ELSE rows
              /\ existing' = [existing EXCEPT ![r][i] =
                                  Updated(@, existing[r][i], Current(r))]
      BY <1>5 DEF UpdateRecipient
    <2>2. /\ pc[r] = "write"
          /\ Current(r) \in Entry /\ body[r].list \in Lists
          /\ Len(body[r].list) \in Nat
          /\ DOMAIN body[r].list = 1..Len(body[r].list)
      BY <1>5, CurrentType DEF UpdateRecipient
    <2>3. i \in DOMAIN existing[r] /\ existing[r][i] \in Row
      BY <2>1 DEF Matching, IsTable
    <2>4. IsTable(rows') /\ DOMAIN rows' = DOMAIN rows
      BY <2>1, <2>2, <2>3, UpdatedType DEF IsTable
    <2>5. /\ existing' = [q \in Requests |-> existing'[q]]
          /\ \A q \in Requests : /\ IsTable(existing'[q])
                                 /\ DOMAIN existing'[q] = DOMAIN existing[q]
      BY <2>1, <2>2, <2>3, UpdatedType DEF IsTable
    <2>6. TypeOK'
      <3>1. index' \in [Requests -> Nat]
        BY <1>5 DEF UpdateRecipient, Advance
      <3>2. pc' \in [Requests -> Running \union {"idle", "refused", "failed", "done", "aborted"}]
        BY <1>5 DEF UpdateRecipient, Advance
      <3>3. QED
        BY <1>5, <2>4, <2>5, <3>1, <3>2 DEF UpdateRecipient
    <2>7. IdsUsed'
      BY <1>5, <2>4, <2>5 DEF UpdateRecipient
    <2>8. Control'
      BY <1>5, <2>2 DEF UpdateRecipient, Advance, Syncing
    <2>9. QED  BY <2>6, <2>7, <2>8 DEF TypeInv
  <1>6. ASSUME NEW r \in Requests, CreateRecipient(r)
        PROVE  TypeInv'
    <2>1. /\ pc[r] = "write"
          /\ Current(r) \in Entry /\ body[r].list \in Lists
          /\ Len(body[r].list) \in Nat
          /\ DOMAIN body[r].list = 1..Len(body[r].list)
      BY <1>6, CurrentType DEF CreateRecipient
    <2>2. IsTable(rows') /\ DOMAIN rows' = DOMAIN rows \union {nextId}
      BY <1>6, <2>1, NewRowType DEF IsTable, CreateRecipient
    <2>3. TypeOK'
      BY <1>6, <2>1, <2>2 DEF CreateRecipient, Advance, Syncing
    <2>4. IdsUsed'
      BY <1>6, <2>2 DEF CreateRecipient, IsTable
    <2>5. Control'
      BY <1>6, <2>1 DEF CreateRecipient, Advance, Syncing
    <2>6. QED  BY <2>3, <2>4, <2>5 DEF TypeInv
  <1>7. ASSUME NEW r \in Requests, RefuseEntry(r)
        PROVE  TypeInv'
    BY <1>7 DEF Syncing, RefuseEntry
  <1>8. ASSUME NEW r \in Requests, FindSigner(r)
        PROVE  TypeInv'
    <2>1. PICK i \in DOMAIN rows, b \in SignBody :
              /\ body' = [body EXCEPT ![r] = b]
              /\ existing' = [existing EXCEPT ![r] = [j \in {i} |-> rows[j]]]
      BY <1>8 DEF FindSigner
    <2>3. IsTable([j \in {i} |-> rows[j]])
      BY RestrictType
    <2>4. TypeOK'
      BY <1>8, <2>1, <2>3 DEF FindSigner
    <2>5. IdsUsed' /\ Control'
      BY <1>8, <2>1 DEF FindSigner, Syncing
    <2>6. QED  BY <2>4, <2>5 DEF TypeInv
  <1>9. ASSUME NEW r \in Requests, SaveSigner(r)
        PROVE  TypeInv'
    <2>1. IsTable(rows') /\ DOMAIN rows' = DOMAIN rows
      <3>1. \A i \in DOMAIN rows : rows[i] \in Row
        BY DEF IsTable
      <3>2. \A x \in Row : [x EXCEPT !.signingStatus = Answer(body[r].status)] \in Row
        BY DEF Row, Answer
      <3>3. rows' = [i \in DOMAIN rows |-> rows'[i]] /\ \A i \in DOMAIN rows : rows'[i] \in Row
        BY <1>9, <3>1, <3>2 DEF SaveSigner
      <3>4. QED  BY <3>3 DEF IsTable
    <2>2. QED
      BY <1>9, <2>1 DEF SaveSigner, Syncing
  <1>10. ASSUME NEW r \in Requests, Abort(r)
        PROVE  TypeInv'
    BY <1>10 DEF Syncing, Abort
  <1>11. CASE UNCHANGED vars
    BY <1>11 DEF Syncing, vars
  <1>12. QED
    BY <1>1, <1>2, <1>3, <1>4, <1>5, <1>6, <1>7, <1>8, <1>9, <1>10, <1>11 DEF
       Next, Terminated

\* The rows and the handlers' variables always have their types.
THEOREM TypeCorrect == Spec => []TypeOK
  <1>1. Spec => []TypeInv  BY InitType, NextType, PTL DEF Spec
  <1>2. TypeInv => TypeOK  BY DEF TypeInv
  <1>3. QED  BY <1>1, <1>2, PTL

-----------------------------------------------------------------------------
(* Rows keep their ids and e-mails *)

LEMMA StepUpdate ==
    ASSUME TypeInv, NEW r \in Requests, UpdateRecipient(r)
    PROVE  /\ DOMAIN rows' = DOMAIN rows
           /\ \A i \in DOMAIN rows : /\ rows'[i].email = rows[i].email
                                     /\ rows'[i].signingStatus = rows[i].signingStatus
           /\ \A q \in Requests :
                  /\ DOMAIN existing'[q] = DOMAIN existing[q]
                  /\ \A i \in DOMAIN existing[q] :
                         existing'[q][i].email = existing[q][i].email
  <1>1. PICK i \in Matching(Current(r), existing[r]) :
            /\ rows' = IF i \in DOMAIN rows
                       THEN [rows EXCEPT ![i] = Updated(@, existing[r][i], Current(r))]
                       ELSE rows
            /\ existing' = [existing EXCEPT ![r][i] =
                                Updated(@, existing[r][i], Current(r))]
    BY DEF UpdateRecipient
  <1>2. /\ Current(r) \in Entry
        /\ IsTable(rows) /\ IsTable(existing[r])
        /\ existing = [q \in Requests |-> existing[q]]
    BY CurrentType DEF UpdateRecipient, TypeInv, TypeOK
  <1>3. i \in DOMAIN existing[r] /\ existing[r][i] \in Row
    BY <1>1, <1>2 DEF Matching, IsTable
  <1>4. /\ DOMAIN rows' = DOMAIN rows
        /\ \A j \in DOMAIN rows : /\ rows'[j].email = rows[j].email
                                  /\ rows'[j].signingStatus = rows[j].signingStatus
    <2>1. CASE i \notin DOMAIN rows
      BY <1>1, <2>1
    <2>2. CASE i \in DOMAIN rows
      <3>1. rows' = [rows EXCEPT ![i] = Updated(rows[i], existing[r][i], Current(r))]
        BY <1>1, <2>2
      <3>2. rows[i] \in Row
        BY <1>2, <2>2 DEF IsTable
      <3>3. /\ Updated(rows[i], existing[r][i], Current(r)).email = rows[i].email
            /\ Updated(rows[i], existing[r][i], Current(r)).signingStatus
                  = rows[i].signingStatus
        BY <1>2, <1>3, <3>2, UpdatedType
      <3>4. rows = [j \in DOMAIN rows |-> rows[j]]
        BY <1>2 DEF IsTable
      <3>5. QED  BY <3>1, <3>3, <3>4
    <2>3. QED  BY <2>1, <2>2
  <1>5. /\ DOMAIN existing'[r] = DOMAIN existing[r]
        /\ \A j \in DOMAIN existing[r] : existing'[r][j].email = existing[r][j].email
        /\ \A q \in Requests \ {r} : existing'[q] = existing[q]
    BY <1>1, <1>2, <1>3, UpdatedType
  <1>6. QED  BY <1>4, <1>5

LEMMA InitSameEmail == Init => SameEmail
  BY DEF Init, SameEmail, NoRows

LEMMA NextSameEmail == TypeInv /\ SameEmail /\ [Next]_vars => SameEmail'
  <1> SUFFICES ASSUME TypeInv, SameEmail, [Next]_vars PROVE SameEmail'
    OBVIOUS
  <1> USE DEF TypeInv, TypeOK, IdsUsed, Control, Goto
  <1>1. ASSUME NEW r \in Requests, Refuse(r)
        PROVE  SameEmail'
    BY <1>1 DEF SameEmail, Refuse
  <1>2. ASSUME NEW r \in Requests, FindAll(r)
        PROVE  SameEmail'
    BY <1>2 DEF SameEmail, FindAll
  <1>3. ASSUME NEW r \in Requests, NotifyRemoved(r)
        PROVE  SameEmail'
    BY <1>3 DEF SameEmail, NotifyRemoved
  <1>4. ASSUME NEW r \in Requests, Destroy(r)
        PROVE  SameEmail'
    BY <1>4 DEF SameEmail, Destroy
  <1>5. ASSUME NEW r \in Requests, UpdateRecipient(r)
        PROVE  SameEmail'
    BY <1>5, StepUpdate DEF SameEmail
  <1>6. ASSUME NEW r \in Requests, CreateRecipient(r)
        PROVE  SameEmail'
    BY <1>6 DEF SameEmail, CreateRecipient
  <1>7. ASSUME NEW r \in Requests, RefuseEntry(r)
        PROVE  SameEmail'
    BY <1>7 DEF SameEmail, RefuseEntry
  <1>8. ASSUME NEW r \in Requests, FindSigner(r)
        PROVE  SameEmail'
    <2>1. PICK i \in DOMAIN rows :
              existing' = [existing EXCEPT ![r] = [j \in {i} |-> rows[j]]]
      BY <1>8 DEF FindSigner
    <2>2. QED
      BY <1>8, <2>1 DEF SameEmail, FindSigner
  <1>9. ASSUME NEW r \in Requests, SaveSigner(r)
        PROVE  SameEmail'
    <2>1. DOMAIN rows' = DOMAIN rows
      BY <1>9 DEF SaveSigner
    <2>2. \A i \in DOMAIN rows : rows[i] \in Row /\ rows'[i].email = rows[i].email
      BY <1>9 DEF SaveSigner, IsTable
    <2>3. QED
      BY <1>9, <2>1, <2>2 DEF SameEmail, SaveSigner
  <1>10. ASSUME NEW r \in Requests, Abort(r)
        PROVE  SameEmail'
    BY <1>10 DEF SameEmail, Abort
  <1>11. CASE UNCHANGED vars
    BY <1>11 DEF SameEmail, vars
  <1>12. QED
    BY <1>1, <1>2, <1>3, <1>4, <1>5, <1>6, <1>7, <1>8, <1>9, <1>10, <1>11 DEF
       Next, Terminated

LEMMA NextOwnAnswer == TypeInv /\ OwnAnswer /\ [Next]_vars => OwnAnswer'
  <1> SUFFICES ASSUME TypeInv, OwnAnswer, [Next]_vars PROVE OwnAnswer'
    OBVIOUS
  <1> USE DEF TypeInv, TypeOK, Goto
  <1>1. ASSUME NEW r \in Requests, Refuse(r)
        PROVE  OwnAnswer'
    BY <1>1 DEF OwnAnswer, Refuse, Receive
  <1>2. ASSUME NEW r \in Requests, FindAll(r)
        PROVE  OwnAnswer'
    BY <1>2 DEF OwnAnswer, FindAll, Receive
  <1>3. ASSUME NEW r \in Requests, NotifyRemoved(r)
        PROVE  OwnAnswer'
    BY <1>3 DEF OwnAnswer, NotifyRemoved
  <1>4. ASSUME NEW r \in Requests, Destroy(r)
        PROVE  OwnAnswer'
    BY <1>4 DEF OwnAnswer, Destroy
  <1>5. ASSUME NEW r \in Requests, UpdateRecipient(r)
        PROVE  OwnAnswer'
    <2>1. /\ UNCHANGED body /\ pc'[r] # "save"
          /\ \A q \in Requests \ {r} : pc'[q] = pc[q] /\ existing'[q] = existing[q]
      BY <1>5 DEF UpdateRecipient, Advance
    <2>2. QED
      BY <2>1 DEF OwnAnswer
  <1>6. ASSUME NEW r \in Requests, CreateRecipient(r)
        PROVE  OwnAnswer'
    BY <1>6 DEF OwnAnswer, CreateRecipient, Advance
  <1>7. ASSUME NEW r \in Requests, RefuseEntry(r)
        PROVE  OwnAnswer'
    BY <1>7 DEF OwnAnswer, RefuseEntry
  <1>8. ASSUME NEW r \in Requests, FindSigner(r)
        PROVE  OwnAnswer'
    <2>1. PICK i \in DOMAIN rows, b \in SignBody :
              /\ b.email = rows[i].email
              /\ body' = [body EXCEPT ![r] = b]
              /\ existing' = [existing EXCEPT ![r] = [j \in {i} |-> rows[j]]]
      BY <1>8 DEF FindSigner
    <2>2. QED
      BY <1>8, <2>1 DEF OwnAnswer, FindSigner
  <1>9. ASSUME NEW r \in Requests, SaveSigner(r)
        PROVE  OwnAnswer'
    BY <1>9 DEF OwnAnswer, SaveSigner
  <1>10. ASSUME NEW r \in Requests, Abort(r)
        PROVE  OwnAnswer'
    BY <1>10 DEF OwnAnswer, Abort
  <1>11. CASE UNCHANGED vars
    BY <1>11 DEF OwnAnswer, vars
  <1>12. QED
    BY <1>1, <1>2, <1>3, <1>4, <1>5, <1>6, <1>7, <1>8, <1>9, <1>10, <1>11 DEF
       Next, Terminated

\* No step resets or replaces the row of a signer whom the running sync keeps;
\* an answer is replaced only by one of the same address.
LEMMA StepKeepsSignature ==
    TypeInv /\ SameEmail /\ OwnAnswer /\ [Next]_vars => SignatureKeptStep
  <1> SUFFICES ASSUME TypeInv, SameEmail, OwnAnswer, [Next]_vars,
                      NEW i \in DOMAIN rows, rows[i].signingStatus # "NOT_SIGNED"
               PROVE  \/ /\ i \in DOMAIN rows'
                         /\ rows'[i].signingStatus = rows[i].signingStatus
                      \/ \E r \in Requests :
                             /\ pc[r] = "destroy" /\ pc'[r] = "write"
                             /\ rows[i].email \notin EmailsOf(body[r].list)
                      \/ \E r \in Requests :
                             /\ pc[r] = "save" /\ pc'[r] = "done"
                             /\ rows[i].email = body[r].email
                             /\ i \in DOMAIN rows'
                             /\ rows'[i].signingStatus = Answer(body[r].status)
    BY DEF SignatureKeptStep
  <1> DEFINE Kept == /\ i \in DOMAIN rows'
                     /\ rows'[i].signingStatus = rows[i].signingStatus
             Dropped == \E r \in Requests :
                             /\ pc[r] = "destroy" /\ pc'[r] = "write"
                             /\ rows[i].email \notin EmailsOf(body[r].list)
             Answered == \E r \in Requests :
                             /\ pc[r] = "save" /\ pc'[r] = "done"
                             /\ rows[i].email = body[r].email
                             /\ i \in DOMAIN rows'
                             /\ rows'[i].signingStatus = Answer(body[r].status)
  <1> USE DEF TypeInv, TypeOK, IdsUsed, Control, Goto
  <1>1. ASSUME NEW r \in Requests, Refuse(r)
        PROVE  Kept \/ Dropped \/ Answered
    BY <1>1 DEF Refuse
  <1>2. ASSUME NEW r \in Requests, FindAll(r)
        PROVE  Kept \/ Dropped \/ Answered
    BY <1>2 DEF FindAll
  <1>3. ASSUME NEW r \in Requests, NotifyRemoved(r)
        PROVE  Kept \/ Dropped \/ Answered
    BY <1>3 DEF NotifyRemoved
  <1>4. ASSUME NEW r \in Requests, Destroy(r)
        PROVE  Kept \/ Dropped \/ Answered
    BY <1>4 DEF SameEmail, Destroy, RecipientsToDelete
  <1>5. ASSUME NEW r \in Requests, UpdateRecipient(r)
        PROVE  Kept \/ Dropped \/ Answered
    BY <1>5, StepUpdate
  <1>6. ASSUME NEW r \in Requests, CreateRecipient(r)
        PROVE  Kept \/ Dropped \/ Answered
    BY <1>6 DEF CreateRecipient
  <1>7. ASSUME NEW r \in Requests, RefuseEntry(r)
        PROVE  Kept \/ Dropped \/ Answered
    BY <1>7 DEF RefuseEntry
  <1>8. ASSUME NEW r \in Requests, FindSigner(r)
        PROVE  Kept \/ Dropped \/ Answered
    BY <1>8 DEF FindSigner
  <1>9. ASSUME NEW r \in Requests, SaveSigner(r)
        PROVE  Kept \/ Dropped \/ Answered
    <2>1. rows[i] \in Row /\ DOMAIN rows' = DOMAIN rows
      BY <1>9 DEF IsTable, SaveSigner
    <2>2. CASE i \in DOMAIN existing[r] /\ Answers(body[r], existing[r][i])
      <3>1. rows'[i].signingStatus = Answer(body[r].status)
        BY <1>9, <2>1, <2>2 DEF SaveSigner, Row
      <3>2. rows[i].email = body[r].email
        BY <1>9, <2>2 DEF SaveSigner, SameEmail, OwnAnswer
      <3>3. pc[r] = "save" /\ pc'[r] = "done"
        BY <1>9 DEF SaveSigner
      <3>4. Answered
        BY <2>1, <3>1, <3>2, <3>3
      <3>5. QED  BY <3>4
    <2>3. CASE ~(i \in DOMAIN existing[r] /\ Answers(body[r], existing[r][i]))
      <3>1. rows'[i] = rows[i]
        BY <1>9, <2>3 DEF SaveSigner
      <3>2. QED  BY <2>1, <3>1
    <2>4. QED  BY <2>2, <2>3
  <1>10. ASSUME NEW r \in Requests, Abort(r)
        PROVE  Kept \/ Dropped \/ Answered
    BY <1>10 DEF Abort
  <1>11. CASE UNCHANGED vars
    BY <1>11 DEF vars
  <1>12. QED
    BY <1>1, <1>2, <1>3, <1>4, <1>5, <1>6, <1>7, <1>8, <1>9, <1>10, <1>11 DEF
       Next, Terminated

-----------------------------------------------------------------------------
(* Removed recipients *)

LEMMA InitTold == Init => Told
  BY DEF Init, Told

LEMMA NextTold == TypeInv /\ Told /\ [Next]_vars => Told'
  <1> SUFFICES ASSUME TypeInv, Told, [Next]_vars PROVE Told'
    OBVIOUS
  <1> USE DEF TypeInv, TypeOK, IdsUsed, Control, Goto
  <1>1. ASSUME NEW r \in Requests, Refuse(r)
        PROVE  Told'
    BY <1>1 DEF Told, Refuse, Receive
  <1>2. ASSUME NEW r \in Requests, FindAll(r)
        PROVE  Told'
    BY <1>2 DEF Told, FindAll, Receive
  <1>3. ASSUME NEW r \in Requests, NotifyRemoved(r)
        PROVE  Told'
    BY <1>3 DEF Told, NotifyRemoved
  <1>4. ASSUME NEW r \in Requests, Destroy(r)
        PROVE  Told'
    BY <1>4 DEF Told, Destroy
  <1>5. ASSUME NEW r \in Requests, UpdateRecipient(r)
        PROVE  Told'
    <2>1. /\ DOMAIN rows' = DOMAIN rows /\ told' = told /\ body' = body
          /\ \A q \in Requests \ {r} : existing'[q] = existing[q] /\ pc'[q] = pc[q]
          /\ pc[r] = "write"
      BY <1>5, StepUpdate DEF UpdateRecipient, Advance
    <2>2. SUFFICES ASSUME NEW i \in told \intersect DOMAIN rows, NEW q \in Requests,
                          pc[q] \in {"destroy", "aborted"},
                          i \in RecipientsToDelete(body[q].list, existing[q])
                   PROVE  /\ pc'[q] \in {"destroy", "aborted"}
                          /\ i \in RecipientsToDelete(body'[q].list, existing'[q])
      BY <2>1 DEF Told
    <2>3. QED  BY <2>1, <2>2
  <1>6. ASSUME NEW r \in Requests, CreateRecipient(r)
        PROVE  Told'
    <2>1. /\ DOMAIN rows' = DOMAIN rows \union {nextId} /\ told' = told
          /\ body' = body /\ existing' = existing /\ nextId \notin told
          /\ pc[r] = "write" /\ \A q \in Requests \ {r} : pc'[q] = pc[q]
      BY <1>6 DEF CreateRecipient, Advance
    <2>2. SUFFICES ASSUME NEW i \in told \intersect DOMAIN rows, NEW q \in Requests,
                          pc[q] \in {"destroy", "aborted"},
                          i \in RecipientsToDelete(body[q].list, existing[q])
                   PROVE  /\ pc'[q] \in {"destroy", "aborted"}
                          /\ i \in RecipientsToDelete(body'[q].list, existing'[q])
      BY <2>1 DEF Told
    <2>3. QED  BY <2>1, <2>2
  <1>7. ASSUME NEW r \in Requests, RefuseEntry(r)
        PROVE  Told'
    BY <1>7 DEF Told, RefuseEntry
  <1>8. ASSUME NEW r \in Requests, FindSigner(r)
        PROVE  Told'
    BY <1>8 DEF Told, FindSigner
  <1>9. ASSUME NEW r \in Requests, SaveSigner(r)
        PROVE  Told'
    BY <1>9 DEF Told, SaveSigner
  <1>10. ASSUME NEW r \in Requests, Abort(r)
        PROVE  Told'
    BY <1>10 DEF Told, Abort
  <1>11. CASE UNCHANGED vars
    BY <1>11 DEF Told, vars
  <1>12. QED
    BY <1>1, <1>2, <1>3, <1>4, <1>5, <1>6, <1>7, <1>8, <1>9, <1>10, <1>11 DEF
       Next, Terminated

-----------------------------------------------------------------------------
(* One row per address *)

LEMMA InitOneSync == Init => OneSync
  BY DEF Init, OneSync, Syncing

LEMMA NextOneSync == TypeInv /\ OneSync /\ [Next]_vars => OneSync'
  <1> SUFFICES ASSUME TypeInv, OneSync, [Next]_vars PROVE OneSync'
    OBVIOUS
  <1> USE DEF TypeInv, TypeOK, IdsUsed, Control, Goto
  <1>1. ASSUME NEW r \in Requests, Refuse(r)
        PROVE  OneSync'
    BY <1>1 DEF OneSync, Syncing, Refuse
  <1>2. ASSUME NEW r \in Requests, FindAll(r)
        PROVE  OneSync'
    <2>1. /\ overlapped' = (overlapped \/ \E q \in Requests : pc[q] \in Syncing)
          /\ \A q \in Requests \ {r} : pc'[q] = pc[q]
      BY <1>2 DEF FindAll
    <2>2. QED  BY <2>1 DEF OneSync
  <1>3. ASSUME NEW r \in Requests, NotifyRemoved(r)
        PROVE  OneSync'
    BY <1>3 DEF OneSync, Syncing, NotifyRemoved
  <1>4. ASSUME NEW r \in Requests, Destroy(r)
        PROVE  OneSync'
    BY <1>4 DEF OneSync, Syncing, Destroy
  <1>5. ASSUME NEW r \in Requests, UpdateRecipient(r)
        PROVE  OneSync'
    BY <1>5 DEF OneSync, Syncing, UpdateRecipient, Advance
  <1>6. ASSUME NEW r \in Requests, CreateRecipient(r)
        PROVE  OneSync'
    BY <1>6 DEF OneSync, Syncing, CreateRecipient, Advance
  <1>7. ASSUME NEW r \in Requests, RefuseEntry(r)
        PROVE  OneSync'
    BY <1>7 DEF OneSync, Syncing, RefuseEntry
  <1>8. ASSUME NEW r \in Requests, FindSigner(r)
        PROVE  OneSync'
    BY <1>8 DEF OneSync, Syncing, FindSigner
  <1>9. ASSUME NEW r \in Requests, SaveSigner(r)
        PROVE  OneSync'
    BY <1>9 DEF OneSync, Syncing, SaveSigner
  <1>10. ASSUME NEW r \in Requests, Abort(r)
        PROVE  OneSync'
    BY <1>10 DEF OneSync, Syncing, Abort
  <1>11. CASE UNCHANGED vars
    BY <1>11 DEF OneSync, vars
  <1>12. QED
    BY <1>1, <1>2, <1>3, <1>4, <1>5, <1>6, <1>7, <1>8, <1>9, <1>10, <1>11 DEF
       Next, Terminated

LEMMA InitOneRow == Init => OneRow
  BY TablesAssumption DEF Init, OneRow, LoadedWhatRemains,
     NoDuplicateRecipients, Syncing

LEMMA NextOneRow ==
    TypeInv /\ SameEmail /\ OneSync /\ OneRow /\ [Next]_vars => OneRow'
  <1> SUFFICES ASSUME TypeInv /\ SameEmail /\ OneSync, OneRow, [Next]_vars
             PROVE OneRow'
    OBVIOUS
  <1> USE DEF TypeInv, TypeOK, IdsUsed, Control, Goto
  <1>1. ASSUME NEW r \in Requests, Refuse(r)
        PROVE  OneRow'
    <2>1. /\ rows' = rows /\ index' = index
          /\ \A q \in Requests \ {r} : /\ existing'[q] = existing[q] /\ pc'[q] = pc[q]
                                        /\ body'[q] = body[q]
          /\ pc'[r] \notin Syncing
      BY <1>1 DEF Refuse, Receive, Syncing
    <2>2. Careful' => Careful
      BY <1>1 DEF Careful, Refuse, Receive, NoBody
    <2>3. LoadedWhatRemains'
      BY <2>1, <2>2 DEF OneRow, LoadedWhatRemains
    <2>4. QED
      BY <2>1, <2>2, <2>3 DEF OneRow, NoDuplicateRecipients
  <1>2. ASSUME NEW r \in Requests, FindAll(r)
        PROVE  OneRow'
    <2>1. Careful' => Careful /\ \A q \in Requests : pc[q] \notin Syncing
      <3> SUFFICES ASSUME Careful'
                   PROVE  Careful /\ \A q \in Requests : pc[q] \notin Syncing
        OBVIOUS
      <3>1. ~overlapped /\ \A q \in Requests : pc[q] \notin Syncing
        BY <1>2 DEF Careful, FindAll
      <3>2. body[r].op # "sync" /\ \A q \in Requests \ {r} : body'[q] = body[q]
        BY <1>2 DEF FindAll, Receive, NoBody
      <3>3. QED  BY <3>1, <3>2 DEF Careful
    <2>2. rows' = rows /\ existing'[r] = rows /\ \A q \in Requests \ {r} : pc'[q] = pc[q]
      BY <1>2 DEF FindAll
    <2>3. LoadedWhatRemains'
      BY <2>1, <2>2 DEF LoadedWhatRemains
    <2>4. QED
      BY <2>1, <2>2, <2>3 DEF OneRow, NoDuplicateRecipients
  <1>3. ASSUME NEW r \in Requests, NotifyRemoved(r)
        PROVE  OneRow'
    BY <1>3 DEF OneRow, LoadedWhatRemains, NoDuplicateRecipients, Careful,
       Syncing, NotifyRemoved
  <1>4. ASSUME NEW r \in Requests, Destroy(r)
        PROVE  OneRow'
    BY <1>4 DEF OneRow, LoadedWhatRemains, NoDuplicateRecipients, Careful,
       Syncing, Destroy
  <1>5. ASSUME NEW r \in Requests, UpdateRecipient(r)
        PROVE  OneRow'
    <2>1. /\ DOMAIN rows' = DOMAIN rows
          /\ \A i \in DOMAIN rows : rows'[i].email = rows[i].email
          /\ \A q \in Requests : DOMAIN existing'[q] = DOMAIN existing[q]
      BY <1>5, StepUpdate
    <2>2. /\ body' = body /\ overlapped' = overlapped /\ pc[r] \in Syncing
          /\ index'[r] = index[r] + 1
          /\ \A q \in Requests \ {r} : index'[q] = index[q] /\ pc'[q] = pc[q]
      BY <1>5 DEF UpdateRecipient, Advance, Syncing
    <2>3. Careful' = Careful
      BY <2>2 DEF Careful
    <2>4. body[r].list \in Seq(Entry)
      BY <2>2, ListsAssumption DEF Syncing
    <2>5. LoadedWhatRemains'
      <3> SUFFICES ASSUME Careful, NEW q \in Requests, pc'[q] \in Syncing,
                          NEW i \in DOMAIN rows, NEW k \in DOMAIN body[q].list,
                          k >= index'[q], rows[i].email = body[q].list[k].email
                   PROVE  i \in DOMAIN existing[q]
        BY <2>1, <2>2, <2>3 DEF LoadedWhatRemains
      <3>1. CASE q # r  BY <2>2, <3>1 DEF OneRow, LoadedWhatRemains
      <3>2. CASE q = r
        <4>1. k \in Nat /\ index[r] \in Nat  BY <2>4, <3>2
        <4>2. k >= index[r]  BY <2>2, <3>2, <4>1
        <4>3. QED  BY <2>2, <3>2, <4>2 DEF OneRow, LoadedWhatRemains
      <3>3. QED  BY <3>1, <3>2
    <2>6. QED
      BY <2>1, <2>3, <2>5 DEF OneRow, NoDuplicateRecipients
  <1>6. ASSUME NEW r \in Requests, CreateRecipient(r)
        PROVE  OneRow'
    <2>1. /\ pc[r] \in Syncing /\ Matching(Current(r), existing[r]) = {}
          /\ rows' = [i \in DOMAIN rows \union {nextId} |->
                         IF i = nextId THEN NewRow(Current(r)) ELSE rows[i]]
          /\ body' = body /\ overlapped' = overlapped /\ existing' = existing
          /\ index'[r] = index[r] + 1 /\ nextId \notin DOMAIN rows
          /\ \A q \in Requests \ {r} : pc'[q] = pc[q]
      BY <1>6 DEF CreateRecipient, Advance, Syncing
    <2>2. Careful' = Careful
      BY <2>1 DEF Careful
    <2>3. Current(r) = body[r].list[index[r]] /\ NewRow(Current(r)).email = Current(r).email
      BY DEF Current, NewRow
    <2>4. body[r].op = "sync" /\ body[r].list \in Seq(Entry) /\ index[r] \in DOMAIN body[r].list
      BY <2>1, ListsAssumption
    <2>5. ASSUME Careful, NEW i \in DOMAIN rows PROVE rows[i].email # Current(r).email
      <3>1. index[r] >= index[r]  BY <2>4
      <3>2. rows[i].email = Current(r).email => i \in DOMAIN existing[r]
        BY <2>1, <2>3, <2>4, <2>5, <3>1 DEF OneRow, LoadedWhatRemains
      <3>3. QED  BY <2>1, <3>2 DEF SameEmail, Matching
    <2>6. Careful' => NoDuplicateRecipients'
      BY <2>1, <2>2, <2>3, <2>5 DEF OneRow, NoDuplicateRecipients
    <2>7. LoadedWhatRemains'
      <3> SUFFICES ASSUME Careful, NEW q \in Requests, pc'[q] \in Syncing,
                          NEW i \in DOMAIN rows', NEW k \in DOMAIN body[q].list,
                          k >= index'[q], rows'[i].email = body[q].list[k].email
                   PROVE  i \in DOMAIN existing[q]
        BY <2>1, <2>2 DEF LoadedWhatRemains
      <3>1. q = r
        BY <2>1 DEF Careful, OneSync
      <3>2. k \in Nat /\ index[r] \in Nat /\ k >= index[r] /\ k # index[r]
        BY <2>1, <2>4, <3>1
      <3>3. CASE i = nextId
        <4>1. body[r].list[k].email = body[r].list[index[r]].email
          BY <2>1, <2>3, <3>1, <3>3
        <4>2. DistinctEmails(body[r].list)
          BY <2>4 DEF Careful
        <4>3. QED  BY <2>4, <3>1, <3>2, <4>1, <4>2 DEF DistinctEmails
      <3>4. CASE i # nextId
        BY <2>1, <3>1, <3>2, <3>4 DEF OneRow, LoadedWhatRemains
      <3>5. QED  BY <3>3, <3>4
    <2>8. QED
      BY <2>6, <2>7 DEF OneRow
  <1>7. ASSUME NEW r \in Requests, RefuseEntry(r)
        PROVE  OneRow'
    BY <1>7 DEF OneRow, LoadedWhatRemains, NoDuplicateRecipients, Careful,
       Syncing, RefuseEntry
  <1>8. ASSUME NEW r \in Requests, FindSigner(r)
        PROVE  OneRow'
    <2>1. /\ rows' = rows /\ index' = index
          /\ \A q \in Requests \ {r} : /\ existing'[q] = existing[q] /\ pc'[q] = pc[q]
                                        /\ body'[q] = body[q]
          /\ pc'[r] \notin Syncing
      BY <1>8 DEF FindSigner, Syncing
    <2>2. Careful' => Careful
      BY <1>8 DEF Careful, FindSigner, NoBody
    <2>3. LoadedWhatRemains'
      BY <2>1, <2>2 DEF OneRow, LoadedWhatRemains
    <2>4. QED
      BY <2>1, <2>2, <2>3 DEF OneRow, NoDuplicateRecipients
  <1>9. ASSUME NEW r \in Requests, SaveSigner(r)
        PROVE  OneRow'
    BY <1>9 DEF OneRow, LoadedWhatRemains, NoDuplicateRecipients, Careful,
       Syncing, SaveSigner
  <1>10. ASSUME NEW r \in Requests, Abort(r)
        PROVE  OneRow'
    BY <1>10 DEF OneRow, LoadedWhatRemains, NoDuplicateRecipients, Careful,
       Syncing, Abort
  <1>11. CASE UNCHANGED vars
    BY <1>11 DEF OneRow, LoadedWhatRemains, NoDuplicateRecipients, Careful, vars
  <1>12. QED
    BY <1>1, <1>2, <1>3, <1>4, <1>5, <1>6, <1>7, <1>8, <1>9, <1>10, <1>11 DEF
       Next, Terminated

-----------------------------------------------------------------------------
(* The same list sent twice *)

\* Every sync has the same list, with a colour for every entry.
Resubmitted ==
    /\ \A r, q \in Requests : body[r].op = "sync" /\ body[q].op = "sync"
                              => body[r] = body[q]
    /\ \A r \in Requests : body[r].op = "sync" =>
           /\ DistinctEmails(body[r].list)
           /\ \A k \in DOMAIN body[r].list : body[r].list[k].color # None

\* The row is there because of this entry of the list.
Comes(row, entry) == row.email = entry.email /\ row.color = entry.color

\* What has been added since a running sync loaded the rows comes of its list.
AddedIsListed == Resubmitted =>
    \A r \in Requests : pc[r] \in Syncing =>
        \A i \in DOMAIN rows \ DOMAIN existing[r] :
            \E k \in DOMAIN body[r].list : Comes(rows[i], body[r].list[k])

Doubled == AddedIsListed /\ (Resubmitted => NoDuplicateRecipients)

LEMMA InitDoubled == Init => Doubled
  BY TablesAssumption DEF Init, Doubled, AddedIsListed, NoDuplicateRecipients,
     Syncing

\* A step that changes neither the e-mails nor the colours, nor starts a sync.
LEMMA QuietDoubled ==
    ASSUME Doubled, Resubmitted' => Resubmitted,
           DOMAIN rows' \subseteq DOMAIN rows,
           \A i \in DOMAIN rows' : /\ rows'[i].email = rows[i].email
                                   /\ rows'[i].color = rows[i].color,
           \A q \in Requests : pc'[q] \in Syncing =>
               pc[q] \in Syncing /\ existing'[q] = existing[q] /\ body'[q] = body[q]
    PROVE  Doubled'
  <1>1. Resubmitted' => NoDuplicateRecipients'
    BY DEF Doubled, NoDuplicateRecipients
  <1>2. AddedIsListed'
    BY DEF Doubled, AddedIsListed, Comes
  <1>3. QED  BY <1>1, <1>2 DEF Doubled

LEMMA NextDoubled == TypeInv /\ SameEmail /\ Doubled /\ [Next]_vars => Doubled'
  <1> SUFFICES ASSUME TypeInv, SameEmail, Doubled, [Next]_vars
               PROVE  Doubled'
    OBVIOUS
  <1> USE DEF Goto
  <1>1. ASSUME NEW r \in Requests, Refuse(r)
        PROVE  Doubled'
    <2>1. /\ rows' = rows /\ existing' = existing
          /\ pc'[r] \notin Syncing
          /\ \A q \in Requests \ {r} : pc'[q] = pc[q] /\ body'[q] = body[q]
          /\ body[r].op # "sync"
      BY <1>1 DEF Refuse, Receive, Syncing, TypeInv, TypeOK, Control, NoBody
    <2>2. Resubmitted' => Resubmitted
      BY <2>1 DEF Resubmitted
    <2>3. QED  BY <2>1, <2>2, QuietDoubled
  <1>2. ASSUME NEW r \in Requests, FindAll(r)
        PROVE  Doubled'
    <2>1. /\ rows' = rows /\ existing'[r] = rows
          /\ \A q \in Requests \ {r} : /\ pc'[q] = pc[q] /\ body'[q] = body[q]
                                       /\ existing'[q] = existing[q]
          /\ body[r].op # "sync"
      BY <1>2 DEF FindAll, Receive, TypeInv, TypeOK, Control, NoBody
    <2>2. Resubmitted' => Resubmitted
      BY <2>1 DEF Resubmitted
    <2>3. AddedIsListed'
      BY <2>1, <2>2 DEF Doubled, AddedIsListed, Comes
    <2>4. QED
      BY <2>1, <2>2, <2>3 DEF Doubled, NoDuplicateRecipients
  <1>3. ASSUME NEW r \in Requests,
               NotifyRemoved(r) \/ RefuseEntry(r) \/ Abort(r)
        PROVE  Doubled'
    <2>1. /\ UNCHANGED <<rows, existing, body>>
          /\ pc[r] \in Running
          /\ (pc'[r] = "destroy" /\ pc[r] = "notify") \/ pc'[r] \notin Syncing
          /\ \A q \in Requests \ {r} : pc'[q] = pc[q]
      BY <1>3 DEF NotifyRemoved, RefuseEntry, Abort, Running, Syncing, TypeInv,
         TypeOK
    <2>2. Resubmitted' => Resubmitted
      BY <2>1 DEF Resubmitted
    <2>3. QED  BY <2>1, <2>2, QuietDoubled DEF Syncing
  <1>4. ASSUME NEW r \in Requests, Destroy(r)
        PROVE  Doubled'
    <2>1. /\ DOMAIN rows' \subseteq DOMAIN rows
          /\ \A i \in DOMAIN rows' : rows'[i] = rows[i]
          /\ UNCHANGED <<existing, body>>
          /\ pc[r] \in Syncing
          /\ \A q \in Requests \ {r} : pc'[q] = pc[q]
      BY <1>4 DEF Destroy, Syncing
    <2>2. Resubmitted' => Resubmitted
      BY <2>1 DEF Resubmitted
    <2>3. QED  BY <2>1, <2>2, QuietDoubled
  <1>5. ASSUME NEW r \in Requests, UpdateRecipient(r)
        PROVE  Doubled'
    <2>1. /\ DOMAIN rows' = DOMAIN rows
          /\ \A i \in DOMAIN rows : rows'[i].email = rows[i].email
          /\ \A q \in Requests : DOMAIN existing'[q] = DOMAIN existing[q]
      BY <1>5, StepUpdate
    <2>2. /\ UNCHANGED body /\ pc[r] = "write"
          /\ \A q \in Requests \ {r} : pc'[q] = pc[q]
      BY <1>5 DEF UpdateRecipient, Advance
    <2>3. \A i \in DOMAIN rows :
              \/ rows'[i].color = rows[i].color
              \/ /\ rows'[i].color = Current(r).color
                 /\ rows[i].email = Current(r).email
      <3>1. PICK i \in Matching(Current(r), existing[r]) :
                rows' = IF i \in DOMAIN rows
                        THEN [rows EXCEPT ![i] = Updated(@, existing[r][i], Current(r))]
                        ELSE rows
        BY <1>5 DEF UpdateRecipient
      <3>2. CASE i \notin DOMAIN rows
        BY <3>1, <3>2
      <3>3. CASE i \in DOMAIN rows
        <4>1. rows' = [rows EXCEPT ![i] = Updated(rows[i], existing[r][i], Current(r))]
          BY <3>1, <3>3
        <4>2. rows[i] \in Row /\ rows = [j \in DOMAIN rows |-> rows[j]]
          BY <3>3 DEF TypeInv, TypeOK, IsTable
        <4>3. Updated(rows[i], existing[r][i], Current(r)).color
                  \in {rows[i].color, Current(r).color}
          BY <4>2 DEF Updated, Row
        <4>4. rows[i].email = Current(r).email
          BY <3>1, <3>3 DEF Matching, SameEmail
        <4>5. QED  BY <4>1, <4>2, <4>3, <4>4
      <3>4. QED  BY <3>2, <3>3
    <2>4. Current(r) = body[r].list[index[r]] /\ index[r] \in DOMAIN body[r].list
      BY <2>2 DEF Current, TypeInv, Control, Syncing
    <2>5. Resubmitted' => Resubmitted
      BY <2>2 DEF Resubmitted
    <2>6. AddedIsListed'
      <3> SUFFICES ASSUME Resubmitted, NEW q \in Requests, pc[q] \in Syncing,
                          NEW i \in DOMAIN rows \ DOMAIN existing[q]
                   PROVE  \E k \in DOMAIN body[q].list :
                              Comes(rows'[i], body[q].list[k])
        BY <2>1, <2>2, <2>5 DEF AddedIsListed, Syncing
      <3>1. PICK k \in DOMAIN body[q].list : Comes(rows[i], body[q].list[k])
        BY DEF Doubled, AddedIsListed
      <3>2. body[q].op = "sync" /\ body[r].op = "sync"
        BY <2>2 DEF TypeInv, Control, Syncing
      <3>3. body[q].list = body[r].list /\ DistinctEmails(body[q].list)
        BY <3>2 DEF Resubmitted
      <3>4. CASE rows'[i].color = rows[i].color
        BY <2>1, <3>1, <3>4 DEF Comes
      <3>5. CASE /\ rows'[i].color = Current(r).color
                 /\ rows[i].email = Current(r).email
        <4>1. k = index[r]
          BY <2>4, <3>1, <3>3, <3>5 DEF Comes, DistinctEmails
        <4>2. QED  BY <2>1, <2>4, <3>1, <3>3, <3>5, <4>1 DEF Comes
      <3>6. QED  BY <2>3, <3>4, <3>5
    <2>7. QED
      BY <2>1, <2>5, <2>6 DEF Doubled, NoDuplicateRecipients
  <1>6. ASSUME NEW r \in Requests, CreateRecipient(r)
        PROVE  Doubled'
    <2>1. /\ pc[r] = "write" /\ Matching(Current(r), existing[r]) = {}
          /\ ~Taken(Current(r).color, nextId)
          /\ rows' = [i \in DOMAIN rows \union {nextId} |->
                         IF i = nextId THEN NewRow(Current(r)) ELSE rows[i]]
          /\ UNCHANGED <<body, existing>>
          /\ \A q \in Requests \ {r} : pc'[q] = pc[q]
      BY <1>6 DEF CreateRecipient, Advance
    <2>2. nextId \notin DOMAIN rows
      BY DEF TypeInv, TypeOK, IsTable, IdsUsed
    <2>3. Current(r) = body[r].list[index[r]] /\ index[r] \in DOMAIN body[r].list
          /\ body[r].op = "sync"
      BY <2>1 DEF Current, TypeInv, Control, Syncing
    <2>4. Resubmitted' => Resubmitted
      BY <2>1 DEF Resubmitted
    <2>5. Comes(rows'[nextId], Current(r))
      BY <2>1 DEF Comes, NewRow
    <2>6. ASSUME Resubmitted, NEW i \in DOMAIN rows
          PROVE  rows[i].email # Current(r).email
      <3> SUFFICES ASSUME rows[i].email = Current(r).email PROVE FALSE
        OBVIOUS
      <3>1. i \notin DOMAIN existing[r]
        BY <2>1 DEF SameEmail, Matching
      <3>2. PICK k \in DOMAIN body[r].list : Comes(rows[i], body[r].list[k])
        BY <2>1, <2>6, <3>1 DEF Doubled, AddedIsListed, Syncing
      <3>3. k = index[r]
        BY <2>3, <2>6, <3>2 DEF Comes, Resubmitted, DistinctEmails
      <3>4. rows[i].color = Current(r).color /\ Current(r).color # None
        BY <2>3, <2>6, <3>2, <3>3 DEF Comes, Resubmitted
      <3>5. QED  BY <2>1, <2>2, <3>4 DEF Taken
    <2>7. Resubmitted' => NoDuplicateRecipients'
      BY <2>1, <2>4, <2>5, <2>6 DEF Doubled, NoDuplicateRecipients, Comes
    <2>8. AddedIsListed'
      <3> SUFFICES ASSUME Resubmitted, NEW q \in Requests, pc[q] \in Syncing,
                          NEW i \in DOMAIN rows' \ DOMAIN existing[q]
                   PROVE  \E k \in DOMAIN body[q].list :
                              Comes(rows'[i], body[q].list[k])
        BY <2>1, <2>4 DEF AddedIsListed, Syncing
      <3>1. CASE i = nextId
        <4>1. body[q].op = "sync"
          BY DEF TypeInv, Control
        <4>2. body[q] = body[r]
          BY <2>3, <4>1 DEF Resubmitted
        <4>3. QED  BY <2>3, <2>5, <3>1, <4>2
      <3>2. CASE i # nextId
        BY <2>1, <3>2 DEF Doubled, AddedIsListed
      <3>3. QED  BY <3>1, <3>2
    <2>9. QED  BY <2>7, <2>8 DEF Doubled
  <1>7. ASSUME NEW r \in Requests, FindSigner(r)
        PROVE  Doubled'
    <2>1. /\ rows' = rows /\ pc'[r] \notin Syncing
          /\ \A q \in Requests \ {r} : /\ pc'[q] = pc[q] /\ body'[q] = body[q]
                                       /\ existing'[q] = existing[q]
          /\ body[r].op # "sync"
      BY <1>7 DEF FindSigner, Syncing, TypeInv, TypeOK, Control, NoBody
    <2>2. Resubmitted' => Resubmitted
      BY <2>1 DEF Resubmitted
    <2>3. QED  BY <2>1, <2>2, QuietDoubled
  <1>8. ASSUME NEW r \in Requests, SaveSigner(r)
        PROVE  Doubled'
    <2>1. /\ DOMAIN rows' = DOMAIN rows
          /\ UNCHANGED <<existing, body>> /\ pc'[r] \notin Syncing
          /\ \A q \in Requests \ {r} : pc'[q] = pc[q]
      BY <1>8 DEF SaveSigner, Syncing, TypeInv, TypeOK
    <2>2. \A i \in DOMAIN rows : /\ rows[i] \in Row
                                 /\ rows'[i].email = rows[i].email
                                 /\ rows'[i].color = rows[i].color
      BY <1>8 DEF SaveSigner, TypeInv, TypeOK, IsTable, Row
    <2>3. Resubmitted' => Resubmitted
      BY <2>1 DEF Resubmitted
    <2>4. QED  BY <2>1, <2>2, <2>3, QuietDoubled
  <1>9. CASE UNCHANGED vars
    <2>1. UNCHANGED <<rows, existing, body, pc>>
      BY <1>9 DEF vars
    <2>2. Resubmitted' => Resubmitted
      BY <2>1 DEF Resubmitted
    <2>3. QED  BY <2>1, <2>2, QuietDoubled
  <1>10. QED
    BY <1>1, <1>2, <1>3, <1>4, <1>5, <1>6, <1>7, <1>8, <1>9 DEF Next, Terminated

-----------------------------------------------------------------------------
(* The list is stored *)

\* Without overlap, the sync that runs is the one that started last.
LatestRuns == ~overlapped => \A q \in Requests : pc[q] \in Syncing => latest = q

\* A sync that is done has gone through its list.
DoneIsThrough ==
    \A r \in Requests : pc[r] = "done" /\ body[r].op = "sync" =>
        /\ body[r].list \in Lists
        /\ index[r] = Len(body[r].list) + 1

Undisturbed(r) ==
    /\ ~overlapped
    /\ latest = r
    /\ body[r].op = "sync"
    /\ DistinctEmails(body[r].list)

\* What the sync has loaded agrees with the rows, and is still there unless the
\* sync has destroyed it.
LoadedAgrees ==
    \A r \in Requests : Undisturbed(r) /\ pc[r] \in Syncing =>
        /\ \A i \in DOMAIN existing[r] \intersect DOMAIN rows :
               /\ existing[r][i].phone = rows[i].phone
               /\ existing[r][i].color = rows[i].color
        /\ \A i \in DOMAIN existing[r] :
               existing[r][i].email \in EmailsOf(body[r].list) => i \in DOMAIN rows
        /\ pc[r] \in {"notify", "destroy"} => DOMAIN rows = DOMAIN existing[r]

Agrees(row, entry) ==
    row.email = entry.email /\ row.phone = entry.phone /\ row.color = entry.color

Listed(row, list) ==
    row.email \in EmailsOf(list) \/ row.phone \in PhonesOf(list)

\* The entries up to the index have their rows, and no other rows are left.
Written ==
    \A r \in Requests : Undisturbed(r) /\ pc[r] \in {"write", "done"} =>
        /\ \A k \in DOMAIN body[r].list :
               k < index[r] => \E i \in DOMAIN rows : Agrees(rows[i], body[r].list[k])
        /\ \A i \in DOMAIN rows : Listed(rows[i], body[r].list)

Stored == LatestRuns /\ DoneIsThrough /\ LoadedAgrees /\ Written

LEMMA InitStored == Init => Stored
  BY DEF Init, Stored, LatestRuns, DoneIsThrough, LoadedAgrees, Written, Syncing

\* The request starts no sync, nor writes an entry.
Rests(q) ==
    \/ /\ pc'[q] = pc[q] \/ (pc[q] = "notify" /\ pc'[q] = "destroy")
       /\ existing'[q] = existing[q]
       /\ body'[q] = body[q]
    \/ pc'[q] \notin Syncing \union {"done"}
    \/ (pc'[q] = "done" /\ body'[q].op # "sync")

SameLists ==
    /\ DOMAIN rows' = DOMAIN rows
    /\ \A i \in DOMAIN rows : /\ rows'[i].email = rows[i].email
                              /\ rows'[i].phone = rows[i].phone
                              /\ rows'[i].color = rows[i].color
    /\ UNCHANGED <<overlapped, latest, index>>

LEMMA QuietStored ==
    ASSUME Stored, SameLists, \A q \in Requests : Rests(q)
    PROVE  Stored'
  <1>1. \A q \in Requests : Undisturbed(q)' /\ pc'[q] \in Syncing \union {"done"} =>
            /\ Undisturbed(q)
            /\ existing'[q] = existing[q] /\ body'[q] = body[q]
            /\ index'[q] = index[q]
            /\ pc'[q] = pc[q] \/ (pc[q] = "notify" /\ pc'[q] = "destroy")
    BY DEF Undisturbed, Rests, SameLists
  <1>2. LatestRuns'
    BY DEF Stored, LatestRuns, Syncing, Rests, SameLists
  <1>3. DoneIsThrough'
    BY DEF Stored, DoneIsThrough, Syncing, Rests, SameLists
  <1>4. LoadedAgrees'
    BY <1>1 DEF Stored, LoadedAgrees, Syncing, SameLists
  <1>5. Written'
    BY <1>1 DEF Stored, Written, Agrees, Listed, Syncing, SameLists
  <1>6. QED  BY <1>2, <1>3, <1>4, <1>5 DEF Stored

\* The other requests while the latest sync writes an entry.
LEMMA AdvanceStored ==
    ASSUME TypeInv, Stored, NEW r \in Requests, pc[r] = "write", Advance(r),
           UNCHANGED <<body, overlapped, latest>>
    PROVE  /\ LatestRuns' /\ DoneIsThrough'
           /\ index'[r] = index[r] + 1 /\ index[r] \in Nat
           /\ pc'[r] \in {"write", "done"}
           /\ \A q \in Requests : Undisturbed(q)' /\ pc'[q] \in Syncing \union {"done"}
                                  => q = r /\ Undisturbed(r)
  <1>1. /\ index'[r] = index[r] + 1 /\ index[r] \in Nat
        /\ pc'[r] = IF index[r] = Len(body[r].list) THEN "done" ELSE "write"
        /\ \A q \in Requests \ {r} : pc'[q] = pc[q] /\ index'[q] = index[q]
    BY DEF Advance, Goto, TypeInv, TypeOK
  <1>2. LatestRuns'
    BY <1>1 DEF Stored, LatestRuns, Syncing
  <1>3. DoneIsThrough'
    BY <1>1 DEF Stored, DoneIsThrough, TypeInv, Control, Syncing
  <1>4. \A q \in Requests : Undisturbed(q)' => q = r /\ Undisturbed(r)
    BY DEF Stored, LatestRuns, Undisturbed, Syncing
  <1>5. QED  BY <1>1, <1>2, <1>3, <1>4

LEMMA UpdateStored ==
    ASSUME TypeInv, SameEmail, Stored, NEW r \in Requests, UpdateRecipient(r)
    PROVE  Stored'
  <1> DEFINE list  == body[r].list
             entry == Current(r)
  <1>1. PICK i \in Matching(entry, existing[r]) :
            /\ rows' = IF i \in DOMAIN rows
                       THEN [rows EXCEPT ![i] = Updated(@, existing[r][i], entry)]
                       ELSE rows
            /\ existing' = [existing EXCEPT ![r][i] =
                                Updated(@, existing[r][i], entry)]
    BY DEF UpdateRecipient
  <1>2. /\ pc[r] = "write" /\ Advance(r)
        /\ UNCHANGED <<body, overlapped, latest>>
    BY DEF UpdateRecipient
  <1>3. /\ entry \in Entry /\ list \in Lists
        /\ entry = list[index[r]] /\ index[r] \in DOMAIN list
        /\ DOMAIN list = 1..Len(list)
    BY <1>2, CurrentType DEF Current, TypeInv, Control, Syncing
  <1>4. /\ i \in DOMAIN existing[r] /\ existing[r][i] \in Row
        /\ existing[r][i].email = entry.email
    BY <1>1 DEF Matching, TypeInv, TypeOK, IsTable
  <1>5. /\ existing'[r] = [existing[r] EXCEPT ![i] =
                              Updated(existing[r][i], existing[r][i], entry)]
        /\ DOMAIN existing'[r] = DOMAIN existing[r]
    BY <1>1, <1>4 DEF TypeInv, TypeOK, IsTable
  <1>6. Updated(existing[r][i], existing[r][i], entry)
            = [existing[r][i] EXCEPT !.phone = entry.phone, !.color = entry.color]
    BY <1>3, <1>4 DEF Updated, Row
  <1>7. /\ LatestRuns' /\ DoneIsThrough'
        /\ index'[r] = index[r] + 1 /\ index[r] \in Nat
        /\ pc'[r] \in {"write", "done"}
        /\ \A q \in Requests : Undisturbed(q)' /\ pc'[q] \in Syncing \union {"done"}
                               => q = r /\ Undisturbed(r)
    BY <1>2, AdvanceStored
  <1>8. ASSUME Undisturbed(r)
        PROVE  /\ DOMAIN rows' = DOMAIN rows
               /\ i \in DOMAIN rows
               /\ Agrees(rows'[i], entry)
               /\ \A j \in DOMAIN rows \ {i} : rows'[j] = rows[j]
    <2>1. i \in DOMAIN rows
      BY <1>2, <1>3, <1>4, <1>8 DEF Stored, LoadedAgrees, Syncing, EmailsOf
    <2>2. /\ existing[r][i].phone = rows[i].phone
          /\ existing[r][i].color = rows[i].color
          /\ existing[r][i].email = rows[i].email
      BY <1>2, <1>4, <1>8, <2>1 DEF Stored, LoadedAgrees, Syncing, SameEmail
    <2>3. rows[i] \in Row /\ rows = [j \in DOMAIN rows |-> rows[j]]
      BY <2>1 DEF TypeInv, TypeOK, IsTable
    <2>4. rows' = [rows EXCEPT ![i] = Updated(rows[i], existing[r][i], entry)]
      BY <1>1, <2>1
    <2>5. Agrees(Updated(rows[i], existing[r][i], entry), entry)
      BY <1>3, <1>4, <2>2, <2>3 DEF Updated, Agrees, Row
    <2>6. QED  BY <2>1, <2>3, <2>4, <2>5
  <1>9. LoadedAgrees'
    <2> SUFFICES ASSUME Undisturbed(r), pc'[r] \in Syncing
                 PROVE  /\ \A j \in DOMAIN existing'[r] \intersect DOMAIN rows' :
                               /\ existing'[r][j].phone = rows'[j].phone
                               /\ existing'[r][j].color = rows'[j].color
                        /\ \A j \in DOMAIN existing'[r] :
                               existing'[r][j].email \in EmailsOf(list)
                               => j \in DOMAIN rows'
                        /\ pc'[r] \notin {"notify", "destroy"}
      BY <1>2, <1>7 DEF LoadedAgrees
    <2>1. /\ existing'[r][i].phone = entry.phone
          /\ existing'[r][i].color = entry.color
          /\ existing'[r][i].email = entry.email
          /\ \A j \in DOMAIN existing[r] \ {i} : existing'[r][j] = existing[r][j]
      BY <1>4, <1>5, <1>6 DEF Row, TypeInv, TypeOK, IsTable
    <2>2. QED
      BY <1>2, <1>5, <1>7, <1>8, <2>1 DEF Stored, LoadedAgrees, Agrees, Syncing
  <1>10. Written'
    <2> SUFFICES ASSUME Undisturbed(r)
                 PROVE  /\ \A k \in DOMAIN list : k < index[r] + 1 =>
                               \E j \in DOMAIN rows : Agrees(rows'[j], list[k])
                        /\ \A j \in DOMAIN rows : Listed(rows'[j], list)
      BY <1>2, <1>7, <1>8 DEF Written, Syncing
    <2>1. ASSUME NEW k \in DOMAIN list, k < index[r] + 1
          PROVE  \E j \in DOMAIN rows : Agrees(rows'[j], list[k])
      <3>1. k \in Nat
        BY <1>3, ListsAssumption
      <3>2. CASE k = index[r]
        BY <1>3, <1>8, <3>2
      <3>3. CASE k < index[r]
        <4>1. PICK j \in DOMAIN rows : Agrees(rows[j], list[k])
          BY <1>2, <3>3 DEF Stored, Written
        <4>2. j # i
          <5>1. list[k].email # list[index[r]].email
            <6>1. k # index[r]
              BY <1>7, <3>1, <3>3
            <6>2. DistinctEmails(list)
              BY DEF Undisturbed
            <6>3. QED  BY <1>3, <6>1, <6>2 DEF DistinctEmails
          <5>2. rows[i].email = entry.email
            BY <1>4, <1>8 DEF SameEmail
          <5>3. QED  BY <1>3, <4>1, <5>1, <5>2 DEF Agrees
        <4>3. QED  BY <1>8, <4>1, <4>2
      <3>4. QED  BY <1>7, <2>1, <3>1, <3>2, <3>3
    <2>2. ASSUME NEW j \in DOMAIN rows
          PROVE  Listed(rows'[j], list)
      <3>1. CASE j = i
        BY <1>3, <1>8, <3>1 DEF Agrees, Listed, EmailsOf
      <3>2. CASE j # i
        BY <1>2, <1>8, <3>2 DEF Stored, Written
      <3>3. QED  BY <3>1, <3>2
    <2>3. QED  BY <2>1, <2>2
  <1>11. QED  BY <1>7, <1>9, <1>10 DEF Stored

LEMMA CreateStored ==
    ASSUME TypeInv, SameEmail, Stored, NEW r \in Requests, CreateRecipient(r)
    PROVE  Stored'
  <1> DEFINE list  == body[r].list
             entry == Current(r)
  <1>1. /\ pc[r] = "write" /\ Advance(r)
        /\ UNCHANGED <<body, overlapped, latest, existing>>
        /\ rows' = [i \in DOMAIN rows \union {nextId} |->
                       IF i = nextId THEN NewRow(entry) ELSE rows[i]]
    BY DEF CreateRecipient
  <1>2. /\ entry \in Entry /\ list \in Lists
        /\ entry = list[index[r]] /\ index[r] \in DOMAIN list
        /\ DOMAIN list = 1..Len(list)
    BY <1>1, CurrentType DEF Current, TypeInv, Control, Syncing
  <1>3. /\ nextId \notin DOMAIN rows
        /\ \A q \in Requests : nextId \notin DOMAIN existing[q]
    BY DEF TypeInv, TypeOK, IsTable, IdsUsed
  <1>4. /\ DOMAIN rows' = DOMAIN rows \union {nextId}
        /\ \A j \in DOMAIN rows : rows'[j] = rows[j]
        /\ Agrees(rows'[nextId], entry)
    BY <1>1, <1>3 DEF NewRow, Agrees
  <1>5. /\ LatestRuns' /\ DoneIsThrough'
        /\ index'[r] = index[r] + 1 /\ index[r] \in Nat
        /\ pc'[r] \in {"write", "done"}
        /\ \A q \in Requests : Undisturbed(q)' /\ pc'[q] \in Syncing \union {"done"}
                               => q = r /\ Undisturbed(r)
    BY <1>1, AdvanceStored
  <1>6. LoadedAgrees'
    BY <1>1, <1>3, <1>4, <1>5 DEF Stored, LoadedAgrees, Syncing
  <1>7. Written'
    <2> SUFFICES ASSUME Undisturbed(r)
                 PROVE  /\ \A k \in DOMAIN list : k < index[r] + 1 =>
                               \E j \in DOMAIN rows' : Agrees(rows'[j], list[k])
                        /\ \A j \in DOMAIN rows' : Listed(rows'[j], list)
      BY <1>1, <1>5 DEF Written, Syncing
    <2>1. ASSUME NEW k \in DOMAIN list, k < index[r] + 1
          PROVE  \E j \in DOMAIN rows' : Agrees(rows'[j], list[k])
      <3>1. k \in Nat
        BY <1>2, ListsAssumption
      <3>2. CASE k = index[r]
        BY <1>2, <1>4, <3>2
      <3>3. CASE k < index[r]
        <4>1. PICK j \in DOMAIN rows : Agrees(rows[j], list[k])
          BY <1>1, <3>3 DEF Stored, Written
        <4>2. QED  BY <1>4, <4>1
      <3>4. QED  BY <1>5, <2>1, <3>1, <3>2, <3>3
    <2>2. ASSUME NEW j \in DOMAIN rows'
          PROVE  Listed(rows'[j], list)
      <3>1. CASE j = nextId
        BY <1>2, <1>4, <3>1 DEF Agrees, Listed, EmailsOf
      <3>2. CASE j # nextId
        BY <1>1, <1>4, <3>2 DEF Stored, Written
      <3>3. QED  BY <3>1, <3>2
    <2>3. QED  BY <2>1, <2>2
  <1>8. QED  BY <1>5, <1>6, <1>7 DEF Stored

LEMMA FindStored ==
    ASSUME TypeInv, Stored, NEW r \in Requests, FindAll(r)
    PROVE  Stored'
  <1>1. PICK list \in Lists :
            /\ body' = [body EXCEPT ![r] = [op |-> "sync", list |-> list]]
            /\ pc' = [pc EXCEPT ![r] = IF RecipientsToDelete(list, rows) # {}
                                       THEN "notify" ELSE "write"]
    BY DEF FindAll, Receive, Goto
  <1>2. /\ rows' = rows /\ index' = index /\ latest' = r
        /\ existing' = [existing EXCEPT ![r] = rows]
        /\ overlapped' = (overlapped \/ \E q \in Requests : pc[q] \in Syncing)
        /\ index[r] = 1
    BY DEF FindAll, TypeInv, Control
  <1>3. /\ pc'[r] = IF RecipientsToDelete(list, rows) # {} THEN "notify" ELSE "write"
        /\ body'[r].list = list /\ existing'[r] = rows
        /\ \A q \in Requests \ {r} : pc'[q] = pc[q] /\ body'[q] = body[q]
    BY <1>1, <1>2 DEF TypeInv, TypeOK
  <1>4. LatestRuns'
    BY <1>2, <1>3 DEF LatestRuns
  <1>5. DoneIsThrough'
    BY <1>2, <1>3 DEF Stored, DoneIsThrough
  <1>6. LoadedAgrees'
    <2> SUFFICES ASSUME NEW q \in Requests, q = r
                 PROVE  /\ \A i \in DOMAIN existing'[q] \intersect DOMAIN rows' :
                               /\ existing'[q][i].phone = rows'[i].phone
                               /\ existing'[q][i].color = rows'[i].color
                        /\ DOMAIN rows' = DOMAIN existing'[q]
      BY <1>2 DEF LoadedAgrees, Undisturbed
    <2>1. QED  BY <1>2, <1>3
  <1>7. Written'
    <2> SUFFICES ASSUME pc'[r] \in {"write", "done"}
                 PROVE  /\ \A k \in DOMAIN list : ~(k < 1)
                        /\ \A i \in DOMAIN rows : Listed(rows[i], list)
      BY <1>2, <1>3 DEF Written, Undisturbed
    <2>1. \A k \in DOMAIN list : ~(k < 1)
      BY ListsAssumption
    <2>2. RecipientsToDelete(list, rows) = {}
      BY <1>3
    <2>3. QED  BY <2>1, <2>2 DEF RecipientsToDelete, Listed
  <1>8. QED  BY <1>4, <1>5, <1>6, <1>7 DEF Stored

LEMMA DestroyStored ==
    ASSUME TypeInv, SameEmail, Stored, NEW r \in Requests, Destroy(r)
    PROVE  Stored'
  <1> DEFINE list == body[r].list
             gone == RecipientsToDelete(list, existing[r])
  <1>1. /\ pc[r] = "destroy" /\ pc' = [pc EXCEPT ![r] = "write"]
        /\ rows' = [i \in DOMAIN rows \ gone |-> rows[i]]
        /\ UNCHANGED <<body, existing, index, overlapped, latest>>
    BY DEF Destroy, Goto
  <1>2. /\ pc'[r] = "write" /\ \A q \in Requests \ {r} : pc'[q] = pc[q]
        /\ DOMAIN rows' = DOMAIN rows \ gone
        /\ \A i \in DOMAIN rows' : rows'[i] = rows[i]
    BY <1>1 DEF TypeInv, TypeOK
  <1>3. \A q \in Requests : Undisturbed(q)' => q = r /\ Undisturbed(r)
    BY <1>1 DEF Stored, LatestRuns, Undisturbed, Syncing
  <1>4. LatestRuns' /\ DoneIsThrough'
    BY <1>1, <1>2 DEF Stored, LatestRuns, DoneIsThrough, Syncing
  <1>5. ASSUME Undisturbed(r)
        PROVE  /\ DOMAIN rows = DOMAIN existing[r]
               /\ \A i \in DOMAIN rows : /\ existing[r][i].phone = rows[i].phone
                                         /\ existing[r][i].color = rows[i].color
                                         /\ existing[r][i].email = rows[i].email
    BY <1>1, <1>5 DEF Stored, LoadedAgrees, SameEmail, Syncing
  <1>6. LoadedAgrees'
    <2> SUFFICES ASSUME Undisturbed(r)
                 PROVE  /\ \A i \in DOMAIN existing[r] \intersect DOMAIN rows' :
                               /\ existing[r][i].phone = rows'[i].phone
                               /\ existing[r][i].color = rows'[i].color
                        /\ \A i \in DOMAIN existing[r] :
                               existing[r][i].email \in EmailsOf(list)
                               => i \in DOMAIN rows'
      BY <1>1, <1>2, <1>3 DEF LoadedAgrees
    <2>1. QED  BY <1>2, <1>5 DEF RecipientsToDelete
  <1>7. Written'
    <2> SUFFICES ASSUME Undisturbed(r)
                 PROVE  /\ \A k \in DOMAIN list : ~(k < index[r])
                        /\ \A i \in DOMAIN rows' : Listed(rows'[i], list)
      BY <1>1, <1>3 DEF Written
    <2>1. \A i \in DOMAIN rows' : Listed(rows'[i], list)
      BY <1>2, <1>5 DEF RecipientsToDelete, Listed
    <2>2. \A k \in DOMAIN list : ~(k < index[r])
      <3>1. index[r] = 1 /\ list \in Seq(Entry)
        BY <1>1, ListsAssumption DEF TypeInv, Control, Syncing
      <3>2. QED  BY <3>1
    <2>3. QED  BY <2>1, <2>2
  <1>8. QED  BY <1>4, <1>6, <1>7 DEF Stored

LEMMA NextStored == TypeInv /\ SameEmail /\ Stored /\ [Next]_vars => Stored'
  <1> SUFFICES ASSUME TypeInv, SameEmail, Stored, [Next]_vars
               PROVE  Stored'
    OBVIOUS
  <1>1. ASSUME NEW r \in Requests, Refuse(r) \/ FindSigner(r)
        PROVE  Stored'
    <2>1. /\ UNCHANGED <<rows, overlapped, latest, index>>
          /\ pc'[r] \notin Syncing \union {"done"}
          /\ \A q \in Requests \ {r} : /\ pc'[q] = pc[q] /\ body'[q] = body[q]
                                       /\ existing'[q] = existing[q]
      BY <1>1 DEF Refuse, FindSigner, Receive, Goto, Syncing, TypeInv, TypeOK
    <2>2. SameLists /\ \A q \in Requests : Rests(q)
      BY <2>1 DEF SameLists, Rests
    <2>3. QED  BY <2>2, QuietStored
  <1>2. ASSUME NEW r \in Requests,
               NotifyRemoved(r) \/ RefuseEntry(r) \/ Abort(r)
        PROVE  Stored'
    <2>1. /\ UNCHANGED <<rows, overlapped, latest, index, existing, body>>
          /\ \/ pc[r] = "notify" /\ pc'[r] = "destroy"
             \/ pc'[r] \notin Syncing \union {"done"}
          /\ \A q \in Requests \ {r} : pc'[q] = pc[q]
      BY <1>2 DEF NotifyRemoved, RefuseEntry, Abort, Goto, Syncing, TypeInv,
         TypeOK
    <2>2. SameLists /\ \A q \in Requests : Rests(q)
      BY <2>1 DEF SameLists, Rests
    <2>3. QED  BY <2>2, QuietStored
  <1>3. ASSUME NEW r \in Requests, SaveSigner(r)
        PROVE  Stored'
    <2>1. /\ DOMAIN rows' = DOMAIN rows
          /\ UNCHANGED <<overlapped, latest, index, existing, body>>
          /\ pc'[r] = "done"
          /\ \A q \in Requests \ {r} : pc'[q] = pc[q]
      BY <1>3 DEF SaveSigner, Goto, TypeInv, TypeOK
    <2>2. \A i \in DOMAIN rows : /\ rows[i] \in Row
                                 /\ rows'[i].email = rows[i].email
                                 /\ rows'[i].phone = rows[i].phone
                                 /\ rows'[i].color = rows[i].color
      BY <1>3 DEF SaveSigner, TypeInv, TypeOK, IsTable, Row
    <2>3. body[r].op # "sync"
      BY <1>3 DEF SaveSigner, TypeInv, Control, SignBody
    <2>4. SameLists /\ \A q \in Requests : Rests(q)
      BY <2>1, <2>2, <2>3 DEF SameLists, Rests
    <2>5. QED  BY <2>4, QuietStored
  <1>4. CASE UNCHANGED vars
    <2>1. SameLists /\ \A q \in Requests : Rests(q)
      BY <1>4 DEF SameLists, Rests, vars
    <2>2. QED  BY <2>1, QuietStored
  <1>5. QED
    BY <1>1, <1>2, <1>3, <1>4, FindStored, DestroyStored, UpdateStored,
       CreateStored
    DEF Next, Terminated

-----------------------------------------------------------------------------
(* Theorems *)

Inv == TypeInv /\ SameEmail /\ OwnAnswer /\ Told /\ OneSync /\ OneRow /\ Doubled /\ Stored

LEMMA Invariance == Spec => []Inv
  <1>1. Init => OwnAnswer
    BY DEF Init, OwnAnswer
  <1>2. Init => Inv
    BY <1>1, InitType, InitSameEmail, InitTold, InitOneSync, InitOneRow,
       InitDoubled, InitStored DEF Inv
  <1>3. Inv /\ [Next]_vars => Inv'
    BY NextType, NextSameEmail, NextOwnAnswer, NextTold, NextOneSync,
       NextOneRow, NextDoubled, NextStored DEF Inv
  <1>4. QED  BY <1>2, <1>3, PTL DEF Spec

\* Careful syncs give no address two rows, also when some of them stop halfway.
THEOREM OneRowSafe == Spec => []OneRowPerRecipient
  <1>1. Inv => OneRowPerRecipient
    BY DEF Inv, OneRow, Careful, OneRowPerRecipient
  <1>2. QED  BY <1>1, Invariance, PTL

\* A sync that succeeded, and that no other one overlapped, has stored its list.
THEOREM ListSafe == Spec => []ListStored
  <1>1. ASSUME Inv, NEW r \in Requests, Undisturbed(r), pc[r] = "done"
        PROVE  /\ \A k \in DOMAIN body[r].list :
                      \E i \in DOMAIN rows : Agrees(rows[i], body[r].list[k])
               /\ \A i \in DOMAIN rows : Listed(rows[i], body[r].list)
    <2>1. body[r].list \in Seq(Entry) /\ index[r] = Len(body[r].list) + 1
      BY <1>1, ListsAssumption DEF Inv, Stored, DoneIsThrough, Undisturbed
    <2>2. \A k \in DOMAIN body[r].list : k < index[r]
      BY <2>1
    <2>3. QED  BY <1>1, <2>2 DEF Inv, Stored, Written
  <1>2. Inv => ListStored
    BY <1>1 DEF ListStored, Undisturbed, Agrees, Listed
  <1>3. QED  BY <1>2, Invariance, PTL

\* The same list sent any number of times at once, with a colour for every entry,
\* gives no address two rows.
THEOREM DoubleSubmission == Spec => []DoubleSubmissionSafe
  <1>1. Inv => DoubleSubmissionSafe
    BY DEF Inv, Doubled, Resubmitted, DoubleSubmissionSafe
  <1>2. QED  BY <1>1, Invariance, PTL

\* Who was told of its removal has no row once the syncs are over.
THEOREM ToldSafe == Spec => []ToldAreGone
  <1>1. Inv => ToldAreGone
    BY DEF Inv, Told, ToldAreGone
  <1>2. QED  BY <1>1, Invariance, PTL

\* A signature or a rejection is lost only with a row that the destroying list
\* does not name, and replaced only by another answer of its signer.
THEOREM SignatureSafe == Spec => SignatureKept
  <1>1. Inv /\ [Next]_vars => [SignatureKeptStep]_vars
    BY StepKeepsSignature DEF Inv
  <1>2. QED  BY <1>1, Invariance, PTL DEF Spec, SignatureKept

=============================================================================
