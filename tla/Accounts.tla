------------------------------ MODULE Accounts ------------------------------
(***************************************************************************)
(* Local users, their profiles and API keys.                               *)
(*                                                                         *)
(* The accounts live in a central service, where an account has an id that *)
(* never changes and an e-mail address that does.  Most requests ask it    *)
(* for their session and bring the local User row in step                  *)
(* (findOrCreateLocalUser): find the row with the id or the address,       *)
(* create it or update it, and go on with the row.  If a query fails, they *)
(* go on with a substitute that is marked syncError, and whose id,         *)
(* Number("user_123"), is none.                                            *)
(*                                                                         *)
(* sync-user does the same for the id and the address in its body, which   *)
(* need not be those of the session, nor belong together.                  *)
(*                                                                         *)
(* A request is a process, an action the code between two awaits.  Names   *)
(* travel with the addresses and are left out.                             *)
(***************************************************************************)
CONSTANTS
    Accounts,   \* ids of the central service; also of the first User rows, and
                \* of their API keys
    Addresses,  \* e-mail addresses
    Requests,   \* HTTP requests; a created row or key has the id of its request
    Faults,     \* may a query fail inside a handler?
    None        \* no row, no signature

VARIABLES
    central,    \* the address of each account, in the central service
    users,      \* the User rows
    keys,       \* the ApiKey rows
    pc,         \* what each request does next
    op,         \* what each request is for
    key,        \* the API key a request revokes or checks
    account,    \* the id of the session's user, or of the one in the body
    email,      \* the address of that user
    localUser,  \* the id of the User instance a request has, or None
    loaded,     \* the User instance as it was read
    (* history *)
    used,       \* the addresses each account has had, or was given in a body
    overlapped, \* the accounts of which two requests were in flight together
    latest,     \* the last request in the name of each account
    late,       \* the checks that came after the revocation was answered
    faulted     \* the requests of which a query failed

local   == <<op, key, account, email, localUser, loaded>>
history == <<used, overlapped, latest, late, faulted>>
vars    == <<central, users, keys, pc, local, history>>

-----------------------------------------------------------------------------
(* Types *)

Ids  == Accounts \union Requests
User == [account: Accounts, email: Addresses, signature: Accounts \union {None}]
Key  == [user: Ids, maker: Accounts, revokedBy: Accounts \union {None}]
NoUser == [account |-> None, email |-> None, signature |-> None]

SyncOps == {"sync", "createKey", "revokeKey"}
Ops     == SyncOps \union {"profile", "check"}

Running  == {"find", "insert", "update", "createKey", "findKey", "saveKey",
             "findProfile", "saveProfile", "findOwner"}
Finished == {"done", "syncError", "refused", "failed"}

ASSUME FaultsAssumption == Faults \in BOOLEAN
ASSUME IdsAssumption    == /\ Accounts \intersect Requests = {}
                           /\ None \notin Ids \union Addresses

-----------------------------------------------------------------------------
(* What the queries match *)

\* Seeded fault: the condition is lost, and any row is found.
MatchesAny(r) == DOMAIN users

\* Seeded fault: the row is found by its address only.
MatchesEmail(r) == {i \in DOMAIN users : users[i].email = email[r]}

\* where: { [Op.or]: [{ centralizedUserId }, { email }] }, in no order.
Matches(r) == {i \in DOMAIN users : \/ users[i].account = account[r]
                                    \/ users[i].email = email[r]}

\* The unique indexes on email and on centralizedUserId, for row i.
Violates(i, user) == \E j \in DOMAIN users \ {i} : \/ users[j].email = user.email
                                                  \/ users[j].account = user.account

\* The defaults of findOrCreate.
NewUser(r) == [account |-> account[r], email |-> email[r], signature |-> None]

\* Seeded fault: the row keeps the address it was created with.
SyncedAccount(r, user) == [user EXCEPT !.account = account[r]]

\* localUser.update() writes the attributes that differ from the instance.
Synced(r, user) ==
    [user EXCEPT !.email   = IF loaded[r].email # email[r] THEN email[r] ELSE @,
                 !.account = IF loaded[r].account # account[r] THEN account[r] ELSE @]

\* Seeded fault: a revoked key is found as well.
FoundByHash(k) == k \in DOMAIN keys

\* verifyFromHeader: ApiKey.findOne({ keyHash, revokedAt: null })
Verified(k) == k \in DOMAIN keys /\ keys[k].revokedBy = None

\* Seeded fault: a key of any user is revoked.
AnyKey(r) == key[r] \in DOMAIN keys

\* revoke: ApiKey.findOne({ id, userId })
OwnKey(r) == key[r] \in DOMAIN keys /\ keys[key[r]].user = localUser[r]

Goto(r, label) == pc' = [pc EXCEPT ![r] = label]

\* Where a request goes with the row it has found, created or updated.
AfterSync(r) == CASE op[r] = "sync"      -> "done"
                  [] op[r] = "createKey" -> "createKey"
                  [] op[r] = "revokeKey" -> "findKey"

\* Without a local user no key is created or revoked.
AfterSyncError(r) == IF op[r] = "sync" THEN "syncError" ELSE "failed"

SyncFails(r) ==
    /\ Goto(r, AfterSyncError(r))
    /\ localUser' = [localUser EXCEPT ![r] = None]

-----------------------------------------------------------------------------

Init ==
    /\ central \in [Accounts -> Addresses]
    /\ \A a, b \in Accounts : central[a] = central[b] => a = b
    /\ \E known \in SUBSET Accounts :
           /\ users = [i \in known |-> [account |-> i, email |-> central[i],
                                        signature |-> None]]
           /\ keys  = [k \in known |-> [user |-> k, maker |-> k, revokedBy |-> None]]
    /\ pc = [r \in Requests |-> "idle"]
    /\ op = [r \in Requests |-> "sync"]
    /\ key = [r \in Requests |-> None]
    /\ account   = [r \in Requests |-> None]
    /\ email     = [r \in Requests |-> None]
    /\ localUser = [r \in Requests |-> None]
    /\ loaded    = [r \in Requests |-> NoUser]
    /\ used = [a \in Accounts |-> {central[a]}]
    /\ overlapped = {}
    /\ latest = [a \in Accounts |-> None]
    /\ late = {}
    /\ faulted = {}

\* The central service gives account a an address that is free there.
ChangeEmail(a, e) ==
    /\ e \notin {central[b] : b \in Accounts}
    /\ central' = [central EXCEPT ![a] = e]
    /\ used' = [used EXCEPT ![a] = @ \union {e}]
    /\ UNCHANGED <<users, keys, pc, local, overlapped, latest, late, faulted>>

-----------------------------------------------------------------------------
(* Requests with a session *)

\* getSession: the user of the session, or of the body, is account a with
\* address e.
GetSession(r, o, k, a, e) ==
    /\ pc[r] = "idle"
    /\ op'  = [op EXCEPT ![r] = o]
    /\ key' = [key EXCEPT ![r] = k]
    /\ account' = [account EXCEPT ![r] = a]
    /\ email'   = [email EXCEPT ![r] = e]
    /\ Goto(r, IF o = "profile" THEN "findProfile" ELSE "find")
    /\ overlapped' = IF \E q \in Requests : pc[q] \in Running /\ account[q] = a
                     THEN overlapped \union {a}
                     ELSE overlapped
    /\ latest' = [latest EXCEPT ![a] = r]
    /\ used' = [used EXCEPT ![a] = @ \union {e}]
    /\ UNCHANGED <<central, users, keys, localUser, loaded, late, faulted>>

\* Every route behind withAuth, and auto-login, me and session, whose user has
\* the account's address.  sync-user takes the user from its body unchecked: any
\* account with any address.  (One without id or address ends as FailSync does.)
Sync(r) ==
    \E a \in Accounts, e \in Addresses : GetSession(r, "sync", None, a, e)

CreateKey(r) == \E a \in Accounts : GetSession(r, "createKey", None, a, central[a])

RevokeKey(r) ==
    \E a \in Accounts, k \in Ids : GetSession(r, "revokeKey", k, a, central[a])

UpdateProfile(r) ==
    \E a \in Accounts : GetSession(r, "profile", None, a, central[a])

\* No session: 401.
Refuse(r) ==
    /\ pc[r] = "idle"
    /\ Goto(r, "refused")
    /\ UNCHANGED <<central, users, keys, local, history>>

-----------------------------------------------------------------------------
(* findOrCreateLocalUser *)

\* User.findOrCreate: the query.  A row that differs from the session is updated.
FindUser(r) ==
    /\ pc[r] = "find"
    /\ \/ \E i \in Matches(r) :
              /\ localUser' = [localUser EXCEPT ![r] = i]
              /\ loaded' = [loaded EXCEPT ![r] = users[i]]
              /\ Goto(r, IF users[i].account = account[r] /\ users[i].email = email[r]
                         THEN AfterSync(r)
                         ELSE "update")
       \/ /\ Matches(r) = {}
          /\ Goto(r, "insert")
          /\ UNCHANGED <<localUser, loaded>>
    /\ UNCHANGED <<central, users, keys, op, key, account, email, history>>

\* User.findOrCreate: the insertion.  If another request has created the row
\* meanwhile, Sequelize reports the violation, or looks again.
InsertUser(r) ==
    /\ pc[r] = "insert"
    /\ \/ /\ ~Violates(r, NewUser(r))
          /\ users' = [i \in DOMAIN users \union {r} |->
                           IF i = r THEN NewUser(r) ELSE users[i]]
          /\ localUser' = [localUser EXCEPT ![r] = r]
          /\ Goto(r, AfterSync(r))
       \/ /\ Violates(r, NewUser(r))
          /\ SyncFails(r)
          /\ UNCHANGED users
       \/ /\ Violates(r, NewUser(r))
          /\ Goto(r, "find")
          /\ UNCHANGED <<users, localUser>>
    /\ UNCHANGED <<central, keys, op, key, account, email, loaded, history>>

\* localUser.update()
UpdateUser(r) ==
    LET i == localUser[r]
    IN  /\ pc[r] = "update"
        /\ IF Violates(i, Synced(r, users[i]))
           THEN SyncFails(r) /\ UNCHANGED users
           ELSE /\ users' = [users EXCEPT ![i] = Synced(r, @)]
                /\ Goto(r, AfterSync(r))
                /\ UNCHANGED localUser
        /\ UNCHANGED <<central, keys, op, key, account, email, loaded, history>>

-----------------------------------------------------------------------------
(* API keys *)

\* ApiKey.create
SaveNewKey(r) ==
    /\ pc[r] = "createKey"
    /\ keys' = [k \in DOMAIN keys \union {r} |->
                    IF k = r THEN [user |-> localUser[r], maker |-> account[r],
                                   revokedBy |-> None]
                             ELSE keys[k]]
    /\ Goto(r, "done")
    /\ UNCHANGED <<central, users, local, history>>

\* A key that is revoked already is not saved again.
FindKey(r) ==
    /\ pc[r] = "findKey"
    /\ Goto(r, IF ~OwnKey(r) THEN "refused"
               ELSE IF keys[key[r]].revokedBy # None THEN "done"
               ELSE "saveKey")
    /\ UNCHANGED <<central, users, keys, local, history>>

\* row.revokedAt = new Date(); row.save()
SaveKey(r) ==
    /\ pc[r] = "saveKey"
    /\ keys' = [keys EXCEPT ![key[r]].revokedBy = account[r]]
    /\ Goto(r, "done")
    /\ UNCHANGED <<central, users, local, history>>

\* checkAuthByApiKey: the key is verified, then its user is read.
CheckKey(r) ==
    /\ pc[r] = "idle"
    /\ op' = [op EXCEPT ![r] = "check"]
    /\ \E k \in Ids :
           /\ key' = [key EXCEPT ![r] = k]
           /\ localUser' = [localUser EXCEPT ![r] =
                                IF Verified(k) THEN keys[k].user ELSE None]
           /\ Goto(r, IF Verified(k) THEN "findOwner" ELSE "refused")
           /\ late' = IF \E q \in Requests : /\ pc[q] = "done"
                                             /\ op[q] = "revokeKey" /\ key[q] = k
                      THEN late \union {r}
                      ELSE late
    /\ UNCHANGED <<central, users, keys, account, email, loaded, used, overlapped,
                   latest, faulted>>

\* User.findByPk
FindOwner(r) ==
    /\ pc[r] = "findOwner"
    /\ Goto(r, IF localUser[r] \in DOMAIN users THEN "done" ELSE "refused")
    /\ UNCHANGED <<central, users, keys, local, history>>

-----------------------------------------------------------------------------
(* updateUserProfile *)

\* User.findOne; the row is not brought in step with the session.
FindProfile(r) ==
    /\ pc[r] = "findProfile"
    /\ \/ \E i \in Matches(r) : /\ localUser' = [localUser EXCEPT ![r] = i]
                                /\ Goto(r, "saveProfile")
       \/ /\ Matches(r) = {}
          /\ Goto(r, "failed")
          /\ UNCHANGED localUser
    /\ UNCHANGED <<central, users, keys, op, key, account, email, loaded, history>>

\* user.update({ name, fullName, signature })
SaveProfile(r) ==
    /\ pc[r] = "saveProfile"
    /\ users' = [users EXCEPT ![localUser[r]].signature = account[r]]
    /\ Goto(r, "done")
    /\ UNCHANGED <<central, keys, local, history>>

-----------------------------------------------------------------------------
(* Failures *)

\* A query of findOrCreateLocalUser fails.
FailSync(r) ==
    /\ Faults
    /\ pc[r] \in {"find", "insert", "update"}
    /\ SyncFails(r)
    /\ faulted' = faulted \union {r}
    /\ UNCHANGED <<central, users, keys, op, key, account, email, loaded, used,
                   overlapped, latest, late>>

\* Another query fails.
Fail(r) ==
    /\ Faults
    /\ pc[r] \in Running \ {"find", "insert", "update"}
    /\ Goto(r, "failed")
    /\ faulted' = faulted \union {r}
    /\ UNCHANGED <<central, users, keys, local, used, overlapped, latest, late>>

Terminated ==
    /\ \A r \in Requests : pc[r] \in Finished
    /\ UNCHANGED vars

Next ==
    \/ \E a \in Accounts, e \in Addresses : ChangeEmail(a, e)
    \/ \E r \in Requests :
           \/ Sync(r) \/ CreateKey(r) \/ RevokeKey(r) \/ UpdateProfile(r)
           \/ CheckKey(r) \/ Refuse(r)
           \/ FindUser(r) \/ InsertUser(r) \/ UpdateUser(r)
           \/ SaveNewKey(r) \/ FindKey(r) \/ SaveKey(r) \/ FindOwner(r)
           \/ FindProfile(r) \/ SaveProfile(r)
           \/ FailSync(r) \/ Fail(r)
    \/ Terminated

Spec == Init /\ [][Next]_vars

-----------------------------------------------------------------------------
(* Properties *)

\* Type invariant of the rows and of the handlers' variables.
TypeOK ==
    /\ central \in [Accounts -> Addresses]
    /\ DOMAIN users \subseteq Ids /\ users \in [DOMAIN users -> User]
    /\ DOMAIN keys \subseteq Ids /\ keys \in [DOMAIN keys -> Key]
    /\ pc \in [Requests -> {"idle"} \union Running \union Finished]
    /\ op \in [Requests -> Ops]
    /\ key \in [Requests -> Ids \union {None}]
    /\ account \in [Requests -> Accounts \union {None}]
    /\ email \in [Requests -> Addresses \union {None}]
    /\ localUser \in [Requests -> Ids \union {None}]
    /\ loaded \in [Requests -> User \union {NoUser}]
    /\ used \in [Accounts -> SUBSET Addresses]
    /\ overlapped \subseteq Accounts
    /\ latest \in [Accounts -> Requests \union {None}]
    /\ late \subseteq Requests
    /\ faulted \subseteq Requests

\* Of no address were there ever two accounts, neither at the central service nor
\* in the bodies of requests.
NoneShared == \A a, b \in Accounts : used[a] \intersect used[b] # {} => a = b

\* Unless two accounts come with one address, a key belongs to the row of the
\* account that made it, and was revoked by nobody else, however logins, changes
\* of address and failures interleave: rows are found by id or address, and none
\* is ever handed to another account.
KeysOwn ==
    NoneShared =>
        \A k \in DOMAIN keys :
            /\ keys[k].user \in DOMAIN users
            /\ users[keys[k].user].account = keys[k].maker
            /\ keys[k].revokedBy \in {keys[k].maker, None}

\* Under the same condition the signature in a profile is that of its account,
\* although updateUserProfile finds rows that are out of step.
SignatureOwn ==
    NoneShared =>
        \A i \in DOMAIN users : users[i].signature \in {users[i].account, None}

\* Under the same condition, a request that fails although none of its queries did
\* ran together with another one in the name of its account: requests of other
\* accounts never take its address or its row.
SyncErrorNeedsOverlap ==
    NoneShared =>
        \A r \in Requests \ faulted :
            op[r] \in SyncOps /\ pc[r] \in {"syncError", "failed"}
                => account[r] \in overlapped

\* When the latest request in the name of an account, the account's own or a
\* sync-user whose body names it, has got its row, and did not run together with
\* another one of that name, then the row has the address that request came with:
\* whatever requests of other names do meanwhile.
SyncedAgrees ==
    NoneShared =>
        \A a \in Accounts \ overlapped, r \in Requests :
            /\ latest[a] = r
            /\ op[r] \in SyncOps
            /\ pc[r] = "done"
            => /\ users[localUser[r]].account = a
               /\ users[localUser[r]].email = email[r]

\* Once a revocation was answered with success, no check that comes later
\* accepts the key: not even if two revocations ran together.
RevokedRefused == \A r \in late : pc[r] # "done"

=============================================================================
