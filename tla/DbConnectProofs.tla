-------------------------- MODULE DbConnectProofs --------------------------
(* What holds of DbConnect for every set of replicas and requests. *)
EXTENDS DbConnect, TLAPS

\* A running sync is that of a waiting request, and its replica knows of it.
SyncKnown ==
    \A r \in syncing :
        /\ pc[r] = "awaitSync"
        /\ isSyncing[proc[r]]
        /\ proc[r] \in Development

\* Who has got past a query of connectDb knows that its answer was positive.
Reached ==
    /\ \A p \in Procs : /\ isConnected[p] => database /\ p \in synced
                        /\ isSyncing[p] => database
    /\ \A r \in Requests :
           /\ pc[r] \in {"import"} \union Waiting => database
           /\ pc[r] = "ready" /\ proc[r] \in Configured
              => proc[r] \in synced /\ database

-----------------------------------------------------------------------------
(* Types *)

LEMMA InitTypeOK == Init => TypeOK
  BY DEF Init, TypeOK, Running

LEMMA NextTypeOK == TypeOK /\ [Next]_vars => TypeOK'
  <1> SUFFICES ASSUME TypeOK, [Next]_vars PROVE TypeOK'
    OBVIOUS
  <1> USE DEF TypeOK, Goto, Running, Connecting, Waiting
  <1>1. ASSUME NEW r \in Requests, Arrive(r) PROVE TypeOK'
    BY <1>1 DEF TypeOK, Arrive, NextOfConnected
  <1>2. ASSUME NEW r \in Requests, Authenticate(r) PROVE TypeOK'
    BY <1>2 DEF TypeOK, Authenticate
  <1>3. ASSUME NEW r \in Requests, LookUpDatabase(r) PROVE TypeOK'
    BY <1>3 DEF TypeOK, LookUpDatabase
  <1>4. ASSUME NEW r \in Requests, CreateDatabase(r) PROVE TypeOK'
    BY <1>4 DEF TypeOK, CreateDatabase
  <1>5. ASSUME NEW r \in Requests, SkipSync(r) PROVE TypeOK'
    BY <1>5 DEF TypeOK, SkipSync
  <1>6. ASSUME NEW r \in Requests, StartSync(r) PROVE TypeOK'
    BY <1>6 DEF TypeOK, StartSync
  <1>7. ASSUME NEW r \in Requests, JoinSync(r) PROVE TypeOK'
    BY <1>7 DEF TypeOK, JoinSync
  <1>8. ASSUME NEW r \in Requests, EndSync(r) PROVE TypeOK'
    BY <1>8 DEF TypeOK, EndSync, Resume
  <1>9. ASSUME NEW r \in Requests, FailSync(r) PROVE TypeOK'
    BY <1>9 DEF TypeOK, FailSync, Resume
  <1>10. ASSUME NEW r \in Requests, Fail(r) PROVE TypeOK'
    BY <1>10 DEF TypeOK, Fail
  <1>11. CASE UNCHANGED vars
    BY <1>11 DEF TypeOK, vars
  <1>12. QED
    BY <1>1, <1>2, <1>3, <1>4, <1>5, <1>6, <1>7, <1>8, <1>9, <1>10, <1>11 DEF
       Next, Step, Terminated

-----------------------------------------------------------------------------
(* Syncs *)

LEMMA InitSyncs == Init => SyncKnown /\ SyncsExclusive /\ Reached
  BY DEF Init, SyncKnown, SyncsExclusive, Reached, Waiting

LEMMA NextSyncKnown ==
    TypeOK /\ SyncKnown /\ SyncsExclusive /\ [Next]_vars => SyncKnown'
  <1> SUFFICES ASSUME TypeOK /\ SyncKnown /\ SyncsExclusive, [Next]_vars
             PROVE SyncKnown'
    OBVIOUS
  <1> USE DEF TypeOK, Goto, Running, Connecting, Waiting
  <1>1. ASSUME NEW r \in Requests, Arrive(r) PROVE SyncKnown'
    BY <1>1 DEF SyncKnown, SyncsExclusive, Arrive, NextOfConnected
  <1>2. ASSUME NEW r \in Requests, Authenticate(r) PROVE SyncKnown'
    BY <1>2 DEF SyncKnown, SyncsExclusive, Authenticate
  <1>3. ASSUME NEW r \in Requests, LookUpDatabase(r) PROVE SyncKnown'
    BY <1>3 DEF SyncKnown, SyncsExclusive, LookUpDatabase
  <1>4. ASSUME NEW r \in Requests, CreateDatabase(r) PROVE SyncKnown'
    BY <1>4 DEF SyncKnown, SyncsExclusive, CreateDatabase
  <1>5. ASSUME NEW r \in Requests, SkipSync(r) PROVE SyncKnown'
    BY <1>5 DEF SyncKnown, SyncsExclusive, SkipSync
  <1>6. ASSUME NEW r \in Requests, StartSync(r) PROVE SyncKnown'
    BY <1>6 DEF SyncKnown, SyncsExclusive, StartSync
  <1>7. ASSUME NEW r \in Requests, JoinSync(r) PROVE SyncKnown'
    BY <1>7 DEF SyncKnown, SyncsExclusive, JoinSync
  <1>8. ASSUME NEW r \in Requests, EndSync(r) PROVE SyncKnown'
    BY <1>8 DEF SyncKnown, SyncsExclusive, EndSync, Resume
  <1>9. ASSUME NEW r \in Requests, FailSync(r) PROVE SyncKnown'
    BY <1>9 DEF SyncKnown, SyncsExclusive, FailSync, Resume
  <1>10. ASSUME NEW r \in Requests, Fail(r) PROVE SyncKnown'
    BY <1>10 DEF SyncKnown, SyncsExclusive, Fail
  <1>11. CASE UNCHANGED vars
    BY <1>11 DEF SyncKnown, SyncsExclusive, vars
  <1>12. QED
    BY <1>1, <1>2, <1>3, <1>4, <1>5, <1>6, <1>7, <1>8, <1>9, <1>10, <1>11 DEF
       Next, Step, Terminated

LEMMA NextSyncsExclusive ==
    TypeOK /\ SyncKnown /\ SyncsExclusive /\ [Next]_vars => SyncsExclusive'
  <1> SUFFICES ASSUME TypeOK /\ SyncKnown /\ SyncsExclusive, [Next]_vars
             PROVE SyncsExclusive'
    OBVIOUS
  <1> USE DEF TypeOK, Goto, Running, Connecting, Waiting
  <1>1. ASSUME NEW r \in Requests, Arrive(r) PROVE SyncsExclusive'
    BY <1>1 DEF SyncKnown, SyncsExclusive, Arrive, NextOfConnected
  <1>2. ASSUME NEW r \in Requests, Authenticate(r) PROVE SyncsExclusive'
    BY <1>2 DEF SyncKnown, SyncsExclusive, Authenticate
  <1>3. ASSUME NEW r \in Requests, LookUpDatabase(r) PROVE SyncsExclusive'
    BY <1>3 DEF SyncKnown, SyncsExclusive, LookUpDatabase
  <1>4. ASSUME NEW r \in Requests, CreateDatabase(r) PROVE SyncsExclusive'
    BY <1>4 DEF SyncKnown, SyncsExclusive, CreateDatabase
  <1>5. ASSUME NEW r \in Requests, SkipSync(r) PROVE SyncsExclusive'
    BY <1>5 DEF SyncKnown, SyncsExclusive, SkipSync
  <1>6. ASSUME NEW r \in Requests, StartSync(r) PROVE SyncsExclusive'
    BY <1>6 DEF SyncKnown, SyncsExclusive, StartSync
  <1>7. ASSUME NEW r \in Requests, JoinSync(r) PROVE SyncsExclusive'
    BY <1>7 DEF SyncKnown, SyncsExclusive, JoinSync
  <1>8. ASSUME NEW r \in Requests, EndSync(r) PROVE SyncsExclusive'
    BY <1>8 DEF SyncKnown, SyncsExclusive, EndSync, Resume
  <1>9. ASSUME NEW r \in Requests, FailSync(r) PROVE SyncsExclusive'
    BY <1>9 DEF SyncKnown, SyncsExclusive, FailSync, Resume
  <1>10. ASSUME NEW r \in Requests, Fail(r) PROVE SyncsExclusive'
    BY <1>10 DEF SyncKnown, SyncsExclusive, Fail
  <1>11. CASE UNCHANGED vars
    BY <1>11 DEF SyncKnown, SyncsExclusive, vars
  <1>12. QED
    BY <1>1, <1>2, <1>3, <1>4, <1>5, <1>6, <1>7, <1>8, <1>9, <1>10, <1>11 DEF
       Next, Step, Terminated

LEMMA NextReached == TypeOK /\ SyncKnown /\ Reached /\ [Next]_vars => Reached'
  <1> SUFFICES ASSUME TypeOK /\ SyncKnown /\ Reached, [Next]_vars
             PROVE Reached'
    OBVIOUS
  <1> USE DEF TypeOK, Goto, Running, Connecting, Waiting
  <1>1. ASSUME NEW r \in Requests, Arrive(r) PROVE Reached'
    <2>1. /\ UNCHANGED <<database, isConnected, isSyncing, proc, synced>>
          /\ \A q \in Requests \ {r} : pc'[q] = pc[q]
      BY <1>1 DEF Arrive
    <2>2. CASE isConnected[proc[r]]
      <3>1. database /\ proc[r] \in synced
        BY <2>2 DEF Reached
      <3>2. QED  BY <2>1, <3>1 DEF Reached
    <2>3. CASE ~isConnected[proc[r]] /\ proc[r] \in Configured
      <3>1. pc'[r] = "authenticate"
        BY <1>1, <2>3 DEF Arrive
      <3>2. QED  BY <2>1, <3>1 DEF Reached
    <2>4. CASE ~isConnected[proc[r]] /\ proc[r] \notin Configured
      <3>1. CASE ensures[r] /\ isSyncing[proc[r]]
        <4>1. pc'[r] = "awaitOther"
          BY <1>1, <2>4, <3>1 DEF Arrive, NextOfConnected
        <4>2. QED  BY <2>1, <3>1, <4>1 DEF Reached, Arrive
      <3>2. CASE ~(ensures[r] /\ isSyncing[proc[r]])
        <4>1. pc'[r] = "ready"
          BY <1>1, <2>4, <3>2 DEF Arrive, NextOfConnected
        <4>2. QED  BY <2>1, <2>4, <4>1 DEF Reached
      <3>3. QED  BY <3>1, <3>2
    <2>5. QED  BY <2>2, <2>3, <2>4
  <1>2. ASSUME NEW r \in Requests, Authenticate(r) PROVE Reached'
    BY <1>2 DEF SyncKnown, Reached, Authenticate
  <1>3. ASSUME NEW r \in Requests, LookUpDatabase(r) PROVE Reached'
    BY <1>3 DEF SyncKnown, Reached, LookUpDatabase
  <1>4. ASSUME NEW r \in Requests, CreateDatabase(r) PROVE Reached'
    BY <1>4 DEF SyncKnown, Reached, CreateDatabase
  <1>5. ASSUME NEW r \in Requests, SkipSync(r) PROVE Reached'
    BY <1>5 DEF SyncKnown, Reached, SkipSync
  <1>6. ASSUME NEW r \in Requests, StartSync(r) PROVE Reached'
    BY <1>6 DEF SyncKnown, Reached, StartSync
  <1>7. ASSUME NEW r \in Requests, JoinSync(r) PROVE Reached'
    BY <1>7 DEF SyncKnown, Reached, JoinSync
  <1>8. ASSUME NEW r \in Requests, EndSync(r) PROVE Reached'
    BY <1>8 DEF SyncKnown, Reached, EndSync, Resume
  <1>9. ASSUME NEW r \in Requests, FailSync(r) PROVE Reached'
    BY <1>9 DEF SyncKnown, Reached, FailSync, Resume
  <1>10. ASSUME NEW r \in Requests, Fail(r) PROVE Reached'
    BY <1>10 DEF SyncKnown, Reached, Fail
  <1>11. CASE UNCHANGED vars
    BY <1>11 DEF SyncKnown, Reached, vars
  <1>12. QED
    BY <1>1, <1>2, <1>3, <1>4, <1>5, <1>6, <1>7, <1>8, <1>9, <1>10, <1>11 DEF
       Next, Step, Terminated

\* A request that ensureDbConnection lets through finds no sync running.
LEMMA StepReleases ==
    TypeOK /\ SyncKnown /\ SyncsExclusive /\ [Next]_vars
        => \A q \in Requests : ReleasedQuietly(q)
  <1> SUFFICES ASSUME TypeOK, SyncKnown, SyncsExclusive, [Next]_vars,
                      NEW q \in Requests
               PROVE  ReleasedQuietly(q)
    OBVIOUS
  <1> USE DEF TypeOK, Goto, Running, Connecting, Waiting
  <1>1. ASSUME NEW r \in Requests, Arrive(r) PROVE ReleasedQuietly(q)
    BY <1>1 DEF ReleasedQuietly, SyncsOf, SyncKnown, SyncsExclusive, Arrive,
       NextOfConnected
  <1>2. ASSUME NEW r \in Requests, Authenticate(r) PROVE ReleasedQuietly(q)
    BY <1>2 DEF ReleasedQuietly, SyncsOf, SyncKnown, SyncsExclusive,
       Authenticate
  <1>3. ASSUME NEW r \in Requests, LookUpDatabase(r) PROVE ReleasedQuietly(q)
    BY <1>3 DEF ReleasedQuietly, SyncsOf, SyncKnown, SyncsExclusive,
       LookUpDatabase
  <1>4. ASSUME NEW r \in Requests, CreateDatabase(r) PROVE ReleasedQuietly(q)
    BY <1>4 DEF ReleasedQuietly, SyncsOf, SyncKnown, SyncsExclusive,
       CreateDatabase
  <1>5. ASSUME NEW r \in Requests, SkipSync(r) PROVE ReleasedQuietly(q)
    BY <1>5 DEF ReleasedQuietly, SyncsOf, SyncKnown, SyncsExclusive, SkipSync
  <1>6. ASSUME NEW r \in Requests, StartSync(r) PROVE ReleasedQuietly(q)
    BY <1>6 DEF ReleasedQuietly, SyncsOf, SyncKnown, SyncsExclusive, StartSync
  <1>7. ASSUME NEW r \in Requests, JoinSync(r) PROVE ReleasedQuietly(q)
    BY <1>7 DEF ReleasedQuietly, SyncsOf, SyncKnown, SyncsExclusive, JoinSync
  <1>8. ASSUME NEW r \in Requests, EndSync(r) PROVE ReleasedQuietly(q)
    BY <1>8 DEF ReleasedQuietly, SyncsOf, SyncKnown, SyncsExclusive, EndSync,
       Resume
  <1>9. ASSUME NEW r \in Requests, FailSync(r) PROVE ReleasedQuietly(q)
    BY <1>9 DEF ReleasedQuietly, SyncsOf, SyncKnown, SyncsExclusive, FailSync,
       Resume
  <1>10. ASSUME NEW r \in Requests, Fail(r) PROVE ReleasedQuietly(q)
    BY <1>10 DEF ReleasedQuietly, SyncsOf, SyncKnown, SyncsExclusive, Fail
  <1>11. CASE UNCHANGED vars
    BY <1>11 DEF ReleasedQuietly, SyncsOf, SyncKnown, SyncsExclusive, vars
  <1>12. QED
    BY <1>1, <1>2, <1>3, <1>4, <1>5, <1>6, <1>7, <1>8, <1>9, <1>10, <1>11 DEF
       Next, Step, Terminated

-----------------------------------------------------------------------------
(* Theorems *)

Inv == TypeOK /\ SyncKnown /\ SyncsExclusive /\ Reached

LEMMA Invariance == Spec => []Inv
  <1>1. Init => Inv
    BY InitTypeOK, InitSyncs DEF Inv
  <1>2. Inv /\ [Next]_vars => Inv'
    BY NextTypeOK, NextSyncKnown, NextSyncsExclusive, NextReached DEF Inv
  <1>3. QED  BY <1>1, <1>2, PTL DEF Spec

\* The flags and the requests always have their types.
THEOREM TypeCorrect == Spec => []TypeOK
  <1>1. Inv => TypeOK  BY DEF Inv
  <1>2. QED  BY <1>1, Invariance, PTL

\* A replica never runs two syncs at the same time.
THEOREM SyncsExclude == Spec => []SyncsExclusive
  <1>1. Inv => SyncsExclusive  BY DEF Inv
  <1>2. QED  BY <1>1, Invariance, PTL

\* No request gets through before its replica has completed performSync, if the
\* replica knows a database at all.
THEOREM ReadySafe == Spec => []ReadyMeansSynced
  <1>1. Inv => ReadyMeansSynced  BY DEF Inv, Reached, ReadyMeansSynced
  <1>2. QED  BY <1>1, Invariance, PTL

\* ensureDbConnection lets no request through while its replica syncs.
THEOREM ReleaseSafe == Spec => ReleasedWithoutSync
  <1>1. Inv /\ [Next]_vars => [\A r \in Requests : ReleasedQuietly(r)]_vars
    BY StepReleases DEF Inv
  <1>2. QED  BY <1>1, Invariance, PTL DEF Spec, ReleasedWithoutSync

=============================================================================
