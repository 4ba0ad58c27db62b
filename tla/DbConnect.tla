------------------------------ MODULE DbConnect ------------------------------
(***************************************************************************)
(* Connecting to the database (connectDb.ts).  Every route handler awaits  *)
(* ensureDbConnection, or connectDb, before it touches a table.  Each      *)
(* replica is a Node.js process with its own isConnected, isSyncing and    *)
(* syncPromise; its requests interleave at their awaits.  The replicas     *)
(* share the database.                                                     *)
(*                                                                         *)
(* Node.js runs every continuation of a settled promise before the next    *)
(* event, so the requests that await syncPromise go on in the step that    *)
(* settles it.                                                             *)
(***************************************************************************)
CONSTANTS
    Procs,        \* the replicas
    Requests,     \* HTTP requests
    Development,  \* the replicas with NODE_ENV = 'development'
    Configured,   \* those with a database name in their environment
    Faults        \* may a query fail?

VARIABLES
    database,     \* does the database exist?
    isConnected, isSyncing, \* the flags of each replica
    syncing,      \* the requests whose sequelize.sync() is running
    pc,           \* what each request does next
    proc,         \* the replica that handles each request
    ensures,      \* does the request call ensureDbConnection (or connectDb)?
    retrying,     \* is the request in the catch block of connectDb?
    synced        \* history: the replicas that have completed performSync

vars == <<database, isConnected, isSyncing, syncing, pc, proc, ensures,
          retrying, synced>>

ASSUME ConstantsAssumption ==
    /\ Development \subseteq Procs
    /\ Configured \subseteq Procs
    /\ Faults \in BOOLEAN

-----------------------------------------------------------------------------

Connecting == {"authenticate", "import", "createDb", "lookup"}
Waiting    == {"awaitSync", "awaitOther"}
Running    == Connecting \union Waiting

Goto(r, label) == pc' = [pc EXCEPT ![r] = label]

\* The running syncs of replica p.
SyncsOf(p) == {r \in syncing : proc[r] = p}

Init ==
    /\ database \in BOOLEAN
    /\ isConnected = [p \in Procs |-> FALSE]
    /\ isSyncing   = [p \in Procs |-> FALSE]
    /\ syncing = {}
    /\ pc       = [r \in Requests |-> "idle"]
    /\ proc     \in [Requests -> Procs]
    /\ ensures  \in [Requests -> BOOLEAN]
    /\ retrying = [r \in Requests |-> FALSE]
    /\ synced = {}

\* Seeded fault: a request does not wait for the sync of another one.
NextOfConnectedHasty(r) == "ready"

\* Where a request goes once its replica is connected: ensureDbConnection
\* waits for a sync that is still in progress, connectDb does not.
NextOfConnected(r) ==
    IF ensures[r] /\ isSyncing[proc[r]] THEN "awaitOther" ELSE "ready"

\* ensureDbConnection or connectDb is called.  Without a database name, or with
\* that of the fallback, connectDb returns and nothing is connected.
Arrive(r) ==
    /\ pc[r] = "idle"
    /\ Goto(r, IF isConnected[proc[r]] \/ proc[r] \notin Configured
               THEN NextOfConnected(r) ELSE "authenticate")
    /\ UNCHANGED <<database, isConnected, isSyncing, syncing, proc, ensures,
                   retrying, synced>>

\* sequelize.authenticate(): a missing database is error 3D000, which connectDb
\* handles once.
Authenticate(r) ==
    /\ pc[r] = "authenticate"
    /\ Goto(r, IF database THEN "import"
               ELSE IF retrying[r] THEN "failed" ELSE "lookup")
    /\ UNCHANGED <<database, isConnected, isSyncing, syncing, proc, ensures,
                   retrying, synced>>

\* createDatabaseIfNotExists: SELECT 1 FROM pg_database
LookUpDatabase(r) ==
    /\ pc[r] = "lookup"
    /\ retrying' = [retrying EXCEPT ![r] = TRUE]
    /\ Goto(r, IF database THEN "authenticate" ELSE "createDb")
    /\ UNCHANGED <<database, isConnected, isSyncing, syncing, proc, ensures,
                   synced>>

\* createDatabaseIfNotExists: CREATE DATABASE, an error if it exists by now.
CreateDatabase(r) ==
    /\ pc[r] = "createDb"
    /\ database' = TRUE
    /\ Goto(r, IF database THEN "failed" ELSE "authenticate")
    /\ UNCHANGED <<isConnected, isSyncing, syncing, proc, ensures, retrying,
                   synced>>

\* Outside development performSync does nothing; the request goes on at once.
SkipSync(r) ==
    /\ pc[r] = "import"
    /\ proc[r] \notin Development
    /\ isConnected' = [isConnected EXCEPT ![proc[r]] = TRUE]
    /\ synced' = synced \union {proc[r]}
    /\ Goto(r, "ready")
    /\ UNCHANGED <<database, isSyncing, syncing, proc, ensures, retrying>>

\* performSync, after the models are imported: sequelize.sync() starts.
StartSync(r) ==
    /\ pc[r] = "import"
    /\ proc[r] \in Development
    /\ ~isSyncing[proc[r]]
    /\ isSyncing' = [isSyncing EXCEPT ![proc[r]] = TRUE]
    /\ syncing' = syncing \union {r}
    /\ Goto(r, "awaitSync")
    /\ UNCHANGED <<database, isConnected, proc, ensures, retrying, synced>>

\* performSync while another request syncs: its promise is awaited.
JoinSync(r) ==
    /\ pc[r] = "import"
    /\ proc[r] \in Development
    /\ isSyncing[proc[r]]
    /\ Goto(r, "awaitSync")
    /\ UNCHANGED <<database, isConnected, isSyncing, syncing, proc, ensures,
                   retrying, synced>>

\* The requests of replica p that await syncPromise go on.
Resume(p, label) ==
    pc' = [q \in Requests |-> IF proc[q] = p /\ pc[q] \in Waiting THEN label
                                                                  ELSE pc[q]]

\* Seeded fault: only the request that started the sync goes on.
EndSyncAlone(r) ==
    /\ r \in syncing
    /\ isSyncing' = [isSyncing EXCEPT ![proc[r]] = FALSE]
    /\ syncing' = syncing \ {r}
    /\ isConnected' = [isConnected EXCEPT ![proc[r]] = TRUE]
    /\ synced' = synced \union {proc[r]}
    /\ Goto(r, "ready")
    /\ UNCHANGED <<database, proc, ensures, retrying>>

\* sequelize.sync() of request r succeeds; isSyncing is reset, and whoever
\* awaited it in connectDb sets isConnected.
EndSync(r) ==
    /\ r \in syncing
    /\ isSyncing' = [isSyncing EXCEPT ![proc[r]] = FALSE]
    /\ syncing' = syncing \ {r}
    /\ isConnected' = [isConnected EXCEPT ![proc[r]] = TRUE]
    /\ synced' = synced \union {proc[r]}
    /\ Resume(proc[r], "ready")
    /\ UNCHANGED <<database, proc, ensures, retrying>>

\* Seeded fault: the waiting requests take the failure for a success.
FailSyncQuietly(r) ==
    /\ Faults
    /\ r \in syncing
    /\ isSyncing' = [isSyncing EXCEPT ![proc[r]] = FALSE]
    /\ syncing' = syncing \ {r}
    /\ Resume(proc[r], "ready")
    /\ UNCHANGED <<database, isConnected, proc, ensures, retrying, synced>>

\* sequelize.sync() fails, and so does whoever awaits it.
FailSync(r) ==
    /\ Faults
    /\ r \in syncing
    /\ isSyncing' = [isSyncing EXCEPT ![proc[r]] = FALSE]
    /\ syncing' = syncing \ {r}
    /\ Resume(proc[r], "failed")
    /\ UNCHANGED <<database, isConnected, proc, ensures, retrying, synced>>

\* Any other query or import fails.
Fail(r) ==
    /\ Faults
    /\ pc[r] \in Connecting
    /\ Goto(r, "failed")
    /\ UNCHANGED <<database, isConnected, isSyncing, syncing, proc, ensures,
                   retrying, synced>>

Terminated ==
    /\ \A r \in Requests : pc[r] \in {"ready", "failed"}
    /\ UNCHANGED vars

Step(r) == \/ Authenticate(r) \/ LookUpDatabase(r) \/ CreateDatabase(r)
           \/ SkipSync(r) \/ StartSync(r) \/ JoinSync(r)
           \/ EndSync(r) \/ FailSync(r)

Next ==
    \/ \E r \in Requests : Arrive(r) \/ Step(r) \/ Fail(r)
    \/ Terminated

Spec == Init /\ [][Next]_vars

\* Every query, and every sync, ends.
FairSpec == Spec /\ \A r \in Requests : WF_vars(Step(r))

-----------------------------------------------------------------------------
(* Properties *)

\* Type invariant of the flags and of the requests.
TypeOK ==
    /\ database \in BOOLEAN
    /\ isConnected \in [Procs -> BOOLEAN]
    /\ isSyncing \in [Procs -> BOOLEAN]
    /\ syncing \subseteq Requests
    /\ pc \in [Requests -> Running \union {"idle", "ready", "failed"}]
    /\ proc \in [Requests -> Procs]
    /\ ensures \in [Requests -> BOOLEAN]
    /\ retrying \in [Requests -> BOOLEAN]
    /\ synced \subseteq Procs

\* A replica never runs two sequelize.sync({ alter: true }) at the same time.
SyncsExclusive ==
    \A q, r \in syncing : proc[q] = proc[r] => q = r

\* No request gets through, by whichever way, before the database exists and its
\* replica has completed performSync: not one that joined the sync of another
\* request, nor one that found isConnected set.  A replica without a database
\* name lets every request through, and has no part in this.
ReadyMeansSynced ==
    \A r \in Requests :
        pc[r] = "ready" /\ proc[r] \in Configured => database /\ proc[r] \in synced

ReleasedQuietly(r) ==
    ensures[r] /\ pc[r] # "ready" /\ pc'[r] = "ready" => SyncsOf(proc[r])' = {}

\* ensureDbConnection lets no request through while its replica alters the
\* tables, also in a sync that started after the first one had ended.
ReleasedWithoutSync == [][\A r \in Requests : ReleasedQuietly(r)]_vars

\* Every request that asks for the connection gets it or fails.
EveryRequestEnds ==
    \A r \in Requests : pc[r] \in Running ~> pc[r] \in {"ready", "failed"}

=============================================================================
