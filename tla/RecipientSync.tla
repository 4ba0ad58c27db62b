---------------------------- MODULE RecipientSync ----------------------------
(***************************************************************************)
(* The Recipient rows of one document.                                     *)
(*                                                                         *)
(* createRecipientService makes the rows agree with the list of signers in *)
(* the request: it reads the rows, destroys those it takes for removed,    *)
(* then updates or creates one row per entry, one query after another and  *)
(* without a transaction, so a failure leaves what was already written.    *)
(* Meanwhile signers sign or reject: updateStatus loads a row by e-mail    *)
(* and saves their answer.                                                 *)
(*                                                                         *)
(* An entry of a list has an e-mail, a phone, a colour, and is valid if    *)
(* the validation of the Recipient model accepts its other fields.         *)
(***************************************************************************)
EXTENDS Naturals, Sequences

CONSTANTS
    Emails, Phones, Colors,
    Requests,   \* HTTP requests, each handled once
    Lists,      \* the lists of signers the clients may send
    InitTables, \* the rows before the first request: functions from row ids
    FirstId,    \* the id of the next row
    Faults,     \* may a query fail, or the process die, inside a handler?
    None        \* no phone, no colour

VARIABLES
    rows,      \* the Recipient rows, by id
    nextId,    \* the sequence that numbers the rows
    recipientRemoved, \* the flag of DocumentMeta.emailSettings
    pc,        \* what each request does next
    body,      \* the body of each request
    existing,  \* the Recipient instances each request has loaded, by id
    index,     \* the entry of the list each request is to write
    told,      \* ids of the rows whose recipients were mailed their removal
    overlapped, \* history: were two syncs ever in flight together?
    latest     \* history: the sync that started last

vars == <<rows, nextId, recipientRemoved, pc, body, existing, index, told,
          overlapped, latest>>

-----------------------------------------------------------------------------
(* Types *)

Phone == Phones \union {None}
Color == Colors \union {None}
Row   == [email: Emails, phone: Phone, color: Color,
          signingStatus: {"NOT_SIGNED", "SIGNED", "REJECTED"}]
IsTable(t) == DOMAIN t \subseteq Nat /\ t \in [DOMAIN t -> Row]
Entry == [email: Emails, phone: Phone, color: Color, valid: BOOLEAN]

SyncBody == [op: {"sync"}, list: Seq(Entry) \ {<<>>}]
SignBody == [op: {"sign"}, email: Emails, status: {"COMPLETED", "REJECTED", "other"}]
NoBody   == [op |-> "none"]
NoRows   == [i \in {} |-> None]

Syncing == {"notify", "destroy", "write"}
Running == Syncing \union {"save"}

ASSUME ListsAssumption  == Lists \subseteq Seq(Entry) \ {<<>>}
ASSUME TablesAssumption ==
    /\ \A t \in InitTables : IsTable(t)
    /\ FirstId \in Nat
    /\ \A t \in InitTables : \A i \in DOMAIN t : i < FirstId
    /\ \A t \in InitTables : \A i, j \in DOMAIN t : t[i].email = t[j].email => i = j
ASSUME FaultsAssumption == Faults \in BOOLEAN
ASSUME NoneAssumption   == None \notin Phones \union Colors \union Requests

-----------------------------------------------------------------------------
(* What the code computes *)

EmailsOf(list) == {list[k].email : k \in DOMAIN list}
PhonesOf(list) == {list[k].phone : k \in DOMAIN list}

\* The controller refuses a list that uses a colour twice.
UniqueColors(list) ==
    \A j, k \in DOMAIN list :
        list[j].color = list[k].color /\ list[j].color # None => j = k

\* Seeded fault: the e-mail does not protect a row.
DeletedByPhone(list, table) ==
    {i \in DOMAIN table : table[i].phone \notin PhonesOf(list)}

\* recipientsToDelete: the rows with neither an e-mail nor a phone of the list.
\* An entry without phone counts as having the phone null.
RecipientsToDelete(list, table) ==
    {i \in DOMAIN table : /\ table[i].email \notin EmailsOf(list)
                          /\ table[i].phone \notin PhonesOf(list)}

\* Seeded fault: the row is looked up by phone.
MatchingPhone(entry, table) ==
    {i \in DOMAIN table : table[i].phone = entry.phone}

\* The instances among which existingRecipients.find() takes one.
Matching(entry, table) == {i \in DOMAIN table : table[i].email = entry.email}

\* Seeded fault: the index on (documentId, color) is missing.
NeverTaken(color, i) == FALSE

\* The unique index on (documentId, color): another row has the colour.
Taken(color, i) ==
    color # None /\ \E j \in DOMAIN rows \ {i} : rows[j].color = color

\* Recipient.create
NewRow(entry) ==
    [email |-> entry.email, phone |-> entry.phone, color |-> entry.color,
     signingStatus |-> "NOT_SIGNED"]

\* Seeded fault: a changed phone is not stored.
UpdatedColor(row, instance, entry) ==
    [row EXCEPT !.color = IF entry.color # instance.color THEN entry.color ELSE @]

\* instance.update(entry) writes the attributes that differ from the instance.
Updated(row, instance, entry) ==
    [row EXCEPT !.phone = IF entry.phone # instance.phone THEN entry.phone ELSE @,
                !.color = IF entry.color # instance.color THEN entry.color ELSE @]

Goto(r, label) == pc' = [pc EXCEPT ![r] = label]

-----------------------------------------------------------------------------
(* createRecipientService *)

Init ==
    /\ rows \in InitTables
    /\ nextId = FirstId
    /\ recipientRemoved \in BOOLEAN
    /\ pc       = [r \in Requests |-> "idle"]
    /\ body     = [r \in Requests |-> NoBody]
    /\ existing = [r \in Requests |-> NoRows]
    /\ index    = [r \in Requests |-> 1]
    /\ told     = {}
    /\ overlapped = FALSE
    /\ latest = None

Receive(r, list) == body' = [body EXCEPT ![r] = [op |-> "sync", list |-> list]]

\* The controller's check of the colours fails.
Refuse(r) ==
    /\ pc[r] = "idle"
    /\ \E list \in Lists : ~UniqueColors(list) /\ Receive(r, list)
    /\ Goto(r, "refused")
    /\ UNCHANGED <<rows, nextId, recipientRemoved, existing, index, told,
                   overlapped, latest>>

\* Recipient.findAll({ documentId })
FindAll(r) ==
    /\ pc[r] = "idle"
    /\ \E list \in Lists :
           /\ UniqueColors(list)
           /\ Receive(r, list)
           /\ Goto(r, IF RecipientsToDelete(list, rows) # {} THEN "notify"
                                                            ELSE "write")
    /\ existing' = [existing EXCEPT ![r] = rows]
    /\ overlapped' = (overlapped \/ \E q \in Requests : pc[q] \in Syncing)
    /\ latest' = r
    /\ UNCHANGED <<rows, nextId, recipientRemoved, index, told>>

\* The settings are read, and the removed recipients are mailed.
NotifyRemoved(r) ==
    /\ pc[r] = "notify"
    /\ told' = IF recipientRemoved
               THEN told \union RecipientsToDelete(body[r].list, existing[r])
               ELSE told
    /\ Goto(r, "destroy")
    /\ UNCHANGED <<rows, nextId, recipientRemoved, body, existing, index,
                   overlapped, latest>>

\* Recipient.destroy({ id: deleteIds })
Destroy(r) ==
    /\ pc[r] = "destroy"
    /\ rows' = [i \in DOMAIN rows \ RecipientsToDelete(body[r].list, existing[r])
                    |-> rows[i]]
    /\ Goto(r, "write")
    /\ UNCHANGED <<nextId, recipientRemoved, body, existing, index, told,
                   overlapped, latest>>

\* The entry that request r is to write.
Current(r) == body[r].list[index[r]]

Advance(r) ==
    /\ index' = [index EXCEPT ![r] = @ + 1]
    /\ Goto(r, IF index[r] = Len(body[r].list) THEN "done" ELSE "write")

\* existingRecipient.update(): of no effect if the row is gone by now.
UpdateRecipient(r) ==
    /\ pc[r] = "write"
    /\ Current(r).valid
    /\ \E i \in Matching(Current(r), existing[r]) :
           LET instance == existing[r][i]
               entry    == Current(r)
           IN  /\ \/ i \notin DOMAIN rows
                  \/ entry.color = instance.color
                  \/ ~Taken(entry.color, i)
               /\ rows' = IF i \in DOMAIN rows
                          THEN [rows EXCEPT ![i] = Updated(@, instance, entry)]
                          ELSE rows
               /\ existing' = [existing EXCEPT ![r][i] =
                                   Updated(@, instance, entry)]
    /\ Advance(r)
    /\ UNCHANGED <<nextId, recipientRemoved, body, told, overlapped, latest>>

\* Recipient.create(): no instance that was loaded has the e-mail.
CreateRecipient(r) ==
    /\ pc[r] = "write"
    /\ Current(r).valid
    /\ Matching(Current(r), existing[r]) = {}
    /\ ~Taken(Current(r).color, nextId)
    /\ rows' = [i \in DOMAIN rows \union {nextId} |->
                    IF i = nextId THEN NewRow(Current(r)) ELSE rows[i]]
    /\ nextId' = nextId + 1
    /\ Advance(r)
    /\ UNCHANGED <<recipientRemoved, body, existing, told, overlapped, latest>>

\* An invalid entry, or a colour that another row has, ends the request; what
\* it has written stays.
RefuseEntry(r) ==
    /\ pc[r] = "write"
    /\ \/ ~Current(r).valid
       \/ /\ Matching(Current(r), existing[r]) = {}
          /\ Taken(Current(r).color, nextId)
       \/ \E i \in Matching(Current(r), existing[r]) \intersect DOMAIN rows :
              /\ Current(r).color # existing[r][i].color
              /\ Taken(Current(r).color, i)
    /\ Goto(r, "failed")
    /\ UNCHANGED <<rows, nextId, recipientRemoved, body, existing, index, told,
                   overlapped, latest>>

-----------------------------------------------------------------------------
(* Signers and failures *)

\* updateStatus: Recipient.findOne({ documentId, email })
FindSigner(r) ==
    /\ pc[r] = "idle"
    /\ \E i \in DOMAIN rows :
           /\ \E b \in SignBody : /\ b.email = rows[i].email
                                 /\ body' = [body EXCEPT ![r] = b]
           /\ existing' = [existing EXCEPT ![r] = [j \in {i} |-> rows[j]]]
    /\ Goto(r, "save")
    /\ UNCHANGED <<rows, nextId, recipientRemoved, index, told, overlapped, latest>>

\* The answer that a status of the body stands for.
Answer(status) == IF status = "REJECTED" THEN "REJECTED" ELSE "SIGNED"

\* recipient.save() writes the answer: not for another status, and not SIGNED
\* into an instance that was loaded SIGNED, which is no change.
Answers(b, instance) ==
    \/ b.status = "REJECTED"
    \/ b.status = "COMPLETED" /\ instance.signingStatus # "SIGNED"

\* updateStatus: recipient.save(), of no effect if the row is gone by now.
SaveSigner(r) ==
    /\ pc[r] = "save"
    /\ rows' = [i \in DOMAIN rows |->
                    IF i \in DOMAIN existing[r] /\ Answers(body[r], existing[r][i])
                    THEN [rows[i] EXCEPT !.signingStatus = Answer(body[r].status)]
                    ELSE rows[i]]
    /\ Goto(r, "done")
    /\ UNCHANGED <<nextId, recipientRemoved, body, existing, index, told,
                   overlapped, latest>>

\* A query fails, or the process dies.
Abort(r) ==
    /\ Faults
    /\ pc[r] \in Running
    /\ Goto(r, "aborted")
    /\ UNCHANGED <<rows, nextId, recipientRemoved, body, existing, index, told,
                   overlapped, latest>>

Terminated ==
    /\ \A r \in Requests : pc[r] \notin Running \union {"idle"}
    /\ UNCHANGED vars

Next ==
    \/ \E r \in Requests :
           \/ Refuse(r) \/ FindAll(r) \/ NotifyRemoved(r) \/ Destroy(r)
           \/ UpdateRecipient(r) \/ CreateRecipient(r) \/ RefuseEntry(r)
           \/ FindSigner(r) \/ SaveSigner(r) \/ Abort(r)
    \/ Terminated

Spec == Init /\ [][Next]_vars

-----------------------------------------------------------------------------
(* Properties *)

\* Type invariant of the rows and of the handlers' variables.
TypeOK ==
    /\ IsTable(rows)
    /\ nextId \in Nat
    /\ recipientRemoved \in BOOLEAN
    /\ pc \in [Requests -> Running \union {"idle", "refused", "failed", "done", "aborted"}]
    /\ body \in [Requests -> [op: {"sync"}, list: Lists] \union SignBody \union {NoBody}]
    /\ existing = [r \in Requests |-> existing[r]]
    /\ \A r \in Requests : IsTable(existing[r])
    /\ index \in [Requests -> Nat]
    /\ told \subseteq Nat
    /\ overlapped \in BOOLEAN
    /\ latest \in Requests \union {None}

DistinctEmails(list) ==
    \A j, k \in DOMAIN list : list[j].email = list[k].email => j = k

NoDuplicateRecipients ==
    \A i, j \in DOMAIN rows : rows[i].email = rows[j].email => i = j

\* Syncs that do not overlap, of lists that name nobody twice, never give an
\* address two rows (only one of which its signer could sign), also when a sync
\* stopped halfway and another one repeats it.
OneRowPerRecipient ==
    /\ ~overlapped
    /\ \A r \in Requests : body[r].op = "sync" => DistinctEmails(body[r].list)
    => NoDuplicateRecipients

\* A sync that succeeded and overlapped no other leaves a row for every entry,
\* with the values of the entry, and otherwise only rows with a phone of the
\* list: its later queries do not undo the earlier ones, and a signature that
\* is saved meanwhile does not either.
ListStored ==
    \A r \in Requests :
        /\ latest = r
        /\ pc[r] = "done"
        /\ body[r].op = "sync"
        /\ DistinctEmails(body[r].list)
        /\ ~overlapped
        => /\ \A k \in DOMAIN body[r].list :
                  \E i \in DOMAIN rows :
                      /\ rows[i].email = body[r].list[k].email
                      /\ rows[i].phone = body[r].list[k].phone
                      /\ rows[i].color = body[r].list[k].color
           /\ \A i \in DOMAIN rows :
                  \/ rows[i].email \in EmailsOf(body[r].list)
                  \/ rows[i].phone \in PhonesOf(body[r].list)

SignatureKeptStep ==
    \A i \in DOMAIN rows :
        rows[i].signingStatus # "NOT_SIGNED" =>
            \/ /\ i \in DOMAIN rows'
               /\ rows'[i].signingStatus = rows[i].signingStatus
            \/ \E r \in Requests : /\ pc[r] = "destroy" /\ pc'[r] = "write"
                                   /\ rows[i].email \notin EmailsOf(body[r].list)
            \/ \E r \in Requests : /\ pc[r] = "save" /\ pc'[r] = "done"
                                   /\ rows[i].email = body[r].email
                                   /\ i \in DOMAIN rows'
                                   /\ rows'[i].signingStatus = Answer(body[r].status)

\* However syncs and signers interleave, a signature or a rejection is lost only
\* with a row that the list of the destroying sync does not name, and replaced
\* only by a later answer in the name of the same recipient: no sync resets or
\* replaces the row of a signer it keeps.
SignatureKept == [][SignatureKeptStep]_vars

\* A recipient who was told of its removal has no row once the syncs that could
\* have told it are over: no later update or signature brings the row back.
ToldAreGone ==
    (\A r \in Requests : pc[r] \notin {"notify", "destroy", "aborted"})
        => told \intersect DOMAIN rows = {}

\* The same list sent twice at the same time, with a colour for every entry,
\* gives no address two rows: the unique index stops the second sync.
DoubleSubmissionSafe ==
    /\ \A r, q \in Requests : body[r].op = "sync" /\ body[q].op = "sync"
                              => body[r] = body[q]
    /\ \A r \in Requests : body[r].op = "sync" =>
           /\ DistinctEmails(body[r].list)
           /\ \A k \in DOMAIN body[r].list : body[r].list[k].color # None
    => NoDuplicateRecipients

=============================================================================
