------------------------------ MODULE Dashboard ------------------------------
(***************************************************************************)
(* The dashboard of a user: the documents change, and the activity log     *)
(* with them (ActivityLog), while clients go through the list of documents *)
(* (DocumentList).                                                         *)
(***************************************************************************)
EXTENDS Integers, FiniteSets

CONSTANTS
    Documents, Users, NoUser, Requests, Bodies, Tables, Minute, Week, MaxClock,
    Faults,
    Readers, Filters, Periods, All, Limits,
    Loads      \* the bounds of a behaviour

VARIABLES
    documents,
    nextId,    \* the id the next document gets
    clock, log, pc, body, wrote, checkedAt, unlogged, together,
    place, reads, query, rows, count, counts, total, first, shown, shrunk, torn,
    uneasy

logVars  == <<clock, log, pc, body, wrote, checkedAt, unlogged, together>>
readVars == <<place, reads, query, rows, count, counts, total, first, shown, shrunk,
              torn, uneasy>>
vars     == <<documents, nextId, logVars, readVars>>

Log  == INSTANCE ActivityLog
List == INSTANCE DocumentList

\* How many requests change documents, how many at once, and how many of
\* them fail somewhere; how many clients read; how many documents there are in
\* all; how long the clock runs.
Load == [requests: Nat, inFlight: Nat, failures: Nat, readers: Nat, documents: Nat,
         clock: Nat]

ASSUME LogAssumption   == Log!ConstantsOK
ASSUME ListAssumption  == List!ConstantsOK
\* The ids of the first documents are those that have been given.
ASSUME TablesAssumption ==
    \A table \in Tables : /\ IsFiniteSet(DOMAIN table)
                          /\ DOMAIN table = 1..Cardinality(DOMAIN table)
ASSUME LoadsAssumption == Loads \subseteq Load

-----------------------------------------------------------------------------
Init ==
    /\ Log!Init
    /\ List!Init
    /\ nextId = Cardinality(DOMAIN documents) + 1

\* What has happened is within some load.
Bounded ==
    \E load \in Loads :
        /\ Cardinality({r \in Requests : pc[r] # "idle"}) <= load.requests
        /\ Cardinality(Log!Active) <= load.inFlight
        /\ Cardinality(unlogged \union {r \in Requests : pc[r] = "rolledBack"})
           <= load.failures
        /\ Cardinality({r \in Readers : place[r] # "idle"}) <= load.readers
        /\ nextId - 1 <= load.documents
        /\ clock <= load.clock

\* createDocument: a draft of this moment; it is not logged.
CreateDocument ==
    /\ documents' = [d \in DOMAIN documents \union {nextId} |->
                        IF d = nextId THEN [status |-> "DRAFT", createdAt |-> clock]
                                      ELSE documents[d]]
    /\ nextId' = nextId + 1
    /\ UNCHANGED logVars

LogStep ==
    /\ \/ Log!Tick
       \/ \E r \in Requests : Log!Step(r)
    /\ UNCHANGED nextId

ReadStep ==
    /\ \E r \in Readers : List!Step(r)
    /\ UNCHANGED <<nextId, logVars>>

Terminated ==
    /\ Log!Active = {}
    /\ \A r \in Readers : place[r] \in {"idle", "answered"}
    /\ UNCHANGED vars

Next ==
    \/ LogStep /\ List!Watch /\ Bounded'
    \/ CreateDocument /\ List!Watch /\ Bounded'
    \/ ReadStep /\ Bounded'
    \/ Terminated

Spec == Init /\ [][Next]_vars

-----------------------------------------------------------------------------
(* Properties of the components *)

\* Every change that was made is among the recent activities (see ActivityLog).
ChangeLogged == Log!ChangeLogged

\* Only requests in flight together make two entries for one thing within a
\* minute, and two transactions that both wrote the row never do (see
\* ActivityLog).
DoublesOverlap == Log!DoublesOverlap

\* A client who goes through the pages sees every document that was there (see
\* DocumentList).
PagesComplete == List!PagesComplete

\* The numbers beside a page agree, but for its period (see DocumentList).
CountsAgree == List!CountsAgree
=============================================================================
