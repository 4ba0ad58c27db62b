----------------------------- MODULE ActivityLog -----------------------------
(***************************************************************************)
(* The activity log of the dashboard (logActivity.services.ts), as         *)
(* updateDocumentData, deleteDocument (createDocument.services.ts),        *)
(* signDocument, rejectDocument (getDocument.services.ts) and              *)
(* sendDocument call it, with the change each of them makes to the         *)
(* Document table, and getRecentActivity.  Saving and deleting log before  *)
(* their transaction commits, on another connection; the others log after  *)
(* their change.  The clock ticks.  A send logs only if recipients are to  *)
(* be asked for their signature; the sends of this module are those.       *)
(*                                                                         *)
(* An upload is left out: its entry is about a row that was just made, so  *)
(* that it is never held back.                                             *)
(***************************************************************************)
EXTENDS Integers, FiniteSets

CONSTANTS
    Documents, \* ids a Document may have
    Users,     \* values of userId
    NoUser,    \* userId undefined
    Requests,  \* HTTP requests, each handled once
    Bodies,    \* what the clients may ask for
    Tables,    \* what the Document table may be at first
    Minute,    \* how long a second entry is held back, in ticks
    Week,      \* how far back getRecentActivity reads, in ticks
    MaxClock,  \* bound of the clock
    Faults     \* may a query fail?

VARIABLES
    clock,
    documents, \* the Document table: status and createdAt of each id
    log,       \* the ActivityLog table
    pc,
    body,
    wrote,     \* the transactions that have written the row of their document
    (* history *)
    checkedAt, \* when each request looked for a recent entry
    unlogged,  \* the requests of which logActivity failed
    together   \* the pairs of requests that were in flight together

logVars == <<log, pc, body, wrote, checkedAt, unlogged, together>>
vars    == <<clock, documents, logVars>>

-----------------------------------------------------------------------------
(* Types *)

Status   == {"DRAFT", "PENDING", "COMPLETED", "REJECTED"}
Document == [status: Status, createdAt: Int]

\* "to": the status that comes of signing.
Transactions == {"save", "delete"}
Body == [op: {"save", "delete", "reject", "send"}, doc: Documents,
         user: Users \union {NoUser}]
        \union [op: {"sign"}, doc: Documents, user: Users \union {NoUser},
                to: {"PENDING", "COMPLETED"}]
NoBody == [op |-> "none"]

Activity == {"update", "delete", "sign", "send"}
Entry    == [user: Users, activity: Activity, doc: Documents, at: 0..MaxClock,
             by: Requests]

Running  == {"write", "find", "create", "commit"}
Finished == {"done", "notFound", "rolledBack"}

\* What is assumed of the constants (Dashboard states it as an assumption).
ConstantsOK ==
    /\ Bodies \subseteq Body
    /\ \A table \in Tables : table \in [DOMAIN table -> Document]
    /\ NoUser \notin Users
    /\ Minute \in Nat /\ Week \in Nat /\ MaxClock \in Nat

-----------------------------------------------------------------------------
(* The table *)

\* The activity each handler names.
ActivityOf(op) == CASE op \in {"save", "reject"} -> "update"
                    [] op = "delete" -> "delete"
                    [] op = "sign" -> "sign"
                    [] op = "send" -> "send"

\* Seeded fault: any document will do.
SameAny(entry, b) == entry.user = b.user /\ entry.activity = ActivityOf(b.op)

\* The entry is of this user, activity and document; whose signature it is
\* about is not compared.
Same(entry, b) == /\ entry.user = b.user
                  /\ entry.activity = ActivityOf(b.op)
                  /\ entry.doc = b.doc

\* ActivityLog.findOne: what is not older than a minute.
Recent(b) == {e \in log : Same(e, b) /\ e.at >= clock - Minute}

\* getRecentActivity
RecentActivity(user) == {e \in log : e.user = user /\ e.at >= clock - Week}

-----------------------------------------------------------------------------
(* The handlers *)

Init ==
    /\ clock = 0
    /\ documents \in Tables
    /\ log = {}
    /\ pc        = [r \in Requests |-> "idle"]
    /\ body      = [r \in Requests |-> NoBody]
    /\ wrote     = {}
    /\ checkedAt = [r \in Requests |-> 0]
    /\ unlogged  = {}
    /\ together  = {}

Goto(r, label) == pc' = [pc EXCEPT ![r] = label]

Active == {r \in Requests : pc[r] \in Running}

\* A transaction that has written the row of a document keeps it locked.
Locked(doc) == \E r \in wrote \intersect Active : body[r].doc = doc

\* The status that signDocument or rejectDocument saves.
NewStatus(b) == IF b.op = "sign" THEN b.to ELSE "REJECTED"

\* May save() find nothing changed?  Then it sends no query.  A rejection brings
\* its time with it.
MayBeSame(b) == \/ b.op = "save"
                \/ b.op = "sign" /\ documents[b.doc].status = NewStatus(b)

\* What comes after the document was looked for.
Begun(b) == IF b.doc \notin DOMAIN documents THEN {"notFound"}
            ELSE {"write"} \union {label \in {"find"} : MayBeSame(b)}

\* Document.findOne, and what the handler assigns to it.
Receive(r) ==
    \E b \in Bodies :
        /\ pc[r] = "idle"
        /\ body' = [body EXCEPT ![r] = b]
        /\ together' = together \union {{r, q} : q \in Active}
        /\ \E label \in Begun(b) : Goto(r, label)
        /\ UNCHANGED <<clock, documents, log, wrote, checkedAt, unlogged>>

\* Written by the transaction, once no other one has the row locked; a document
\* that is gone has no row.
WriteRow(r) == wrote' = IF body[r].doc \in DOMAIN documents
                        THEN wrote \union {r} ELSE wrote

\* Seeded fault: save() is not given the transaction, so that the row is not
\* locked until the commit.
WriteUnlocked(r) ==
    /\ pc[r] = "write"
    /\ body[r].op \in Transactions
    /\ WriteRow(r)
    /\ Goto(r, "find")
    /\ UNCHANGED <<clock, documents, log, body, checkedAt, unlogged, together>>

\* updateDocumentData and deleteDocument: what the transaction writes is not
\* seen yet.
Write(r) ==
    /\ pc[r] = "write"
    /\ body[r].op \in Transactions
    /\ ~Locked(body[r].doc)
    /\ WriteRow(r)
    /\ Goto(r, "find")
    /\ UNCHANGED <<clock, documents, log, body, checkedAt, unlogged, together>>

\* signDocument and rejectDocument
Save(r) ==
    LET b == body[r]
    IN  /\ pc[r] = "write"
        /\ b.op \in {"sign", "reject"}
        /\ ~Locked(b.doc)
        /\ documents' = [d \in DOMAIN documents |->
                            IF d = b.doc
                            THEN [documents[d] EXCEPT !.status = NewStatus(b)]
                            ELSE documents[d]]
        /\ Goto(r, "find")
        /\ UNCHANGED <<clock, log, body, wrote, checkedAt, unlogged, together>>

\* sendDocument writes the recipients, which are not modelled here.
Send(r) ==
    /\ pc[r] = "write"
    /\ body[r].op = "send"
    /\ Goto(r, "find")
    /\ UNCHANGED <<clock, documents, log, body, wrote, checkedAt, unlogged, together>>

\* After logging, whatever came of it.
AfterLog(r) == Goto(r, IF body[r].op \in Transactions THEN "commit" ELSE "done")

\* ActivityLog.findOne; without a userId it throws, and the error is swallowed.
FindRecent(r) ==
    /\ pc[r] = "find"
    /\ checkedAt' = [checkedAt EXCEPT ![r] = clock]
    /\ IF body[r].user # NoUser /\ Recent(body[r]) = {}
       THEN Goto(r, "create")
       ELSE AfterLog(r)
    /\ UNCHANGED <<clock, documents, log, body, wrote, unlogged, together>>

\* ActivityLog.create
CreateEntry(r) ==
    /\ pc[r] = "create"
    /\ log' = log \union {[user |-> body[r].user, doc |-> body[r].doc,
                           activity |-> ActivityOf(body[r].op),
                           at |-> clock, by |-> r]}
    /\ AfterLog(r)
    /\ UNCHANGED <<clock, documents, body, wrote, checkedAt, unlogged, together>>

\* A query of logActivity fails: the handler goes on.
FailToLog(r) ==
    /\ Faults
    /\ pc[r] \in {"find", "create"}
    /\ unlogged' = unlogged \union {r}
    /\ AfterLog(r)
    /\ UNCHANGED <<clock, documents, log, body, wrote, checkedAt, together>>

\* The transaction commits: the document is gone, or has other data (which are
\* not modelled here).
Commit(r) ==
    /\ pc[r] = "commit"
    /\ documents' = [d \in DOMAIN documents
                           \ (IF body[r].op = "delete" THEN {body[r].doc} ELSE {})
                        |-> documents[d]]
    /\ Goto(r, "done")
    /\ UNCHANGED <<clock, log, body, wrote, checkedAt, unlogged, together>>

\* It fails, or the process dies: the entry stays.
RollBack(r) ==
    /\ Faults
    /\ pc[r] = "commit"
    /\ Goto(r, "rolledBack")
    /\ UNCHANGED <<clock, documents, log, body, wrote, checkedAt, unlogged, together>>

Step(r) ==
    \/ Receive(r) \/ Write(r) \/ Save(r) \/ Send(r)
    \/ FindRecent(r) \/ CreateEntry(r) \/ FailToLog(r)
    \/ Commit(r) \/ RollBack(r)

Tick ==
    /\ clock < MaxClock
    /\ clock' = clock + 1
    /\ UNCHANGED <<documents, logVars>>

Next == Tick \/ \E r \in Requests : Step(r)

Spec == Init /\ [][Next]_vars

-----------------------------------------------------------------------------
(* Properties *)

\* Every change that was made, by a user who is known and with no query failing,
\* is among the recent activities for the week: its own entry, or that of
\* another change of the same kind by the same user to the same document, made
\* at most a minute before.
ChangeLogged ==
    \A r \in Requests \ unlogged :
        /\ pc[r] = "done"
        /\ body[r].user # NoUser
        /\ clock <= checkedAt[r] - Minute + Week
        => \E e \in RecentActivity(body[r].user) :
               e.activity = ActivityOf(body[r].op) /\ e.doc = body[r].doc

\* Two entries for one user, activity and document less than a minute apart come
\* from requests that were in flight together, and not from two transactions that
\* both wrote the row of the document, which wait for one another: the second one
\* finds the entry of the first, although it was made on another connection.  A
\* save that changes nothing writes no row, and neither does a change to a
\* document that is gone: they wait for nobody.
DoublesOverlap ==
    \A d, e \in log :
        /\ d # e
        /\ <<d.user, d.activity, d.doc>> = <<e.user, e.activity, e.doc>>
        /\ e.at - d.at \in 0..Minute
        => /\ {d.by, e.by} \in together
           /\ ~({d.by, e.by} \subseteq wrote)
=============================================================================
