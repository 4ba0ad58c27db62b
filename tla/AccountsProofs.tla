--------------------------- MODULE AccountsProofs ---------------------------
(* What holds of Accounts for every set of accounts, addresses and requests. *)
EXTENDS Accounts, TLAPS

\* What a request has at each of its queries.
Control ==
    /\ \A a \in Accounts : central[a] \in used[a]
    /\ \A r \in Requests :
        /\ pc[r] \in Running \ {"findOwner"} =>
               account[r] \in Accounts /\ email[r] \in used[account[r]]
        /\ pc[r] \in {"find", "insert", "update"} => op[r] \in SyncOps
        /\ pc[r] = "createKey" => op[r] = "createKey"
        /\ pc[r] \in {"findKey", "saveKey"} => op[r] = "revokeKey"
        /\ pc[r] \in {"findProfile", "saveProfile"} => op[r] = "profile"
        /\ pc[r] = "findOwner" => op[r] = "check"
        /\ pc[r] \in {"idle", "findOwner"} => account[r] = None
        /\ pc[r] \in {"update", "createKey", "findKey", "saveKey", "saveProfile"} =>
               localUser[r] \in DOMAIN users
        /\ pc[r] = "saveKey" => key[r] \in DOMAIN keys

TypeInv == TypeOK /\ Control

\* A row or a key with the id of a request was created by it.
Fresh ==
    \A r \in Requests :
        /\ r \in DOMAIN keys => pc[r] = "done"
        /\ r \in DOMAIN users => pc[r] \notin {"idle", "find", "insert"}

\* An answered revocation holds.
Revoked ==
    \A r \in Requests :
        pc[r] = "done" /\ op[r] = "revokeKey" =>
            key[r] \in DOMAIN keys /\ keys[key[r]].revokedBy # None

\* A check that came too late was refused.
Refused == \A r \in late : pc[r] = "refused"

\* An account has one row.
OneRow ==
    \A i, j \in DOMAIN users : users[i].account = users[j].account => i = j

\* Of an account whose requests have not overlapped, only the latest runs.
Sole ==
    \A r \in Requests, a \in Accounts :
        /\ pc[r] \in Running /\ account[r] = a /\ a \notin overlapped => latest[a] = r
        /\ latest[a] = r => account[r] = a /\ pc[r] # "idle"

\* What holds as long as no address was ever that of two accounts:
\* rows and the requests that have them stay with their accounts,
Mine ==
    /\ \A i \in DOMAIN users : users[i].email \in used[users[i].account]
    /\ \A r \in Requests :
        /\ pc[r] \in {"update", "createKey", "findKey", "saveKey", "saveProfile"} =>
               users[localUser[r]].account = account[r]
        /\ pc[r] = "saveKey" => keys[key[r]].user = localUser[r]

\* and so do keys and signatures;
Owned ==
    /\ \A k \in DOMAIN keys :
           /\ keys[k].user \in DOMAIN users
           /\ users[keys[k].user].account = keys[k].maker
           /\ keys[k].revokedBy \in {keys[k].maker, None}
    /\ \A i \in DOMAIN users : users[i].signature \in {users[i].account, None}

\* the row an account still lacks is created by nobody else;
Absent ==
    \A r \in Requests :
        pc[r] = "insert" /\ account[r] \notin overlapped =>
            \A i \in DOMAIN users : users[i].account # account[r]

\* so findOrCreateLocalUser fails for none but overlapping requests;
Served ==
    \A r \in Requests \ faulted :
        op[r] \in SyncOps /\ pc[r] \in {"syncError", "failed"} => account[r] \in overlapped

\* and the latest request of an account has its row in step, or is about to.
InStep ==
    \A a \in Accounts \ overlapped, r \in Requests :
        latest[a] = r /\ op[r] \in SyncOps =>
            /\ pc[r] \in {"createKey", "findKey", "saveKey", "done"} =>
                   /\ localUser[r] \in DOMAIN users
                   /\ users[localUser[r]].account = a
                   /\ users[localUser[r]].email = email[r]
            /\ pc[r] = "update" => users[localUser[r]].email = loaded[r].email

Sound == NoneShared => Mine /\ Owned /\ Absent /\ Served /\ InStep

-----------------------------------------------------------------------------
(* The cases of a step *)

\* Every request with a session starts with GetSession.
LEMMA Sessions ==
    ASSUME TypeInv, NEW r \in Requests,
           Sync(r) \/ CreateKey(r) \/ RevokeKey(r) \/ UpdateProfile(r)
    PROVE  \E o \in SyncOps \union {"profile"}, k \in Ids \union {None}, a \in Accounts :
               \E e \in Addresses : GetSession(r, o, k, a, e)
  <1>1. CASE Sync(r)
    BY <1>1 DEF Sync, SyncOps
  <1>2. CASE CreateKey(r)
    BY <1>2 DEF CreateKey, SyncOps, TypeInv, TypeOK
  <1>3. CASE RevokeKey(r)
    BY <1>3 DEF RevokeKey, SyncOps, TypeInv, TypeOK
  <1>4. CASE UpdateProfile(r)
    BY <1>4 DEF UpdateProfile, SyncOps, TypeInv, TypeOK
  <1>5. QED  BY <1>1, <1>2, <1>3, <1>4

\* Where a request goes after findOrCreateLocalUser.
LEMMA Continues ==
    ASSUME NEW r \in Requests, op[r] \in SyncOps
    PROVE  /\ AfterSync(r) \in {"done", "createKey", "findKey"}
           /\ AfterSync(r) = "done" => op[r] = "sync"
           /\ AfterSync(r) = "createKey" => op[r] = "createKey"
           /\ AfterSync(r) = "findKey" => op[r] = "revokeKey"
           /\ AfterSyncError(r) \in {"syncError", "failed"}
  BY DEF SyncOps, AfterSync, AfterSyncError

\* What an update makes of a row.
LEMMA SyncedType ==
    ASSUME NEW r \in Requests, NEW user \in User,
           account[r] \in Accounts, email[r] \in Addresses
    PROVE  /\ Synced(r, user) \in User
           /\ Synced(r, user).email \in {user.email, email[r]}
           /\ Synced(r, user).account \in {user.account, account[r]}
           /\ Synced(r, user).signature = user.signature
           /\ Synced(r, user).email = user.email \/ loaded[r].email # email[r]
           /\ user.email = loaded[r].email => Synced(r, user).email = email[r]
  BY DEF Synced, User

\* What localUser.update() does to the rows.
Updates(r) ==
    /\ ~Violates(localUser[r], Synced(r, users[localUser[r]]))
    /\ DOMAIN users' = DOMAIN users
    /\ users' \in [DOMAIN users -> User]
    /\ users'[localUser[r]] = Synced(r, users[localUser[r]])
    /\ \A j \in DOMAIN users : j # localUser[r] => users'[j] = users[j]
    /\ Goto(r, AfterSync(r))
    /\ UNCHANGED localUser

UpdateFails(r) ==
    /\ Violates(localUser[r], Synced(r, users[localUser[r]]))
    /\ SyncFails(r)
    /\ UNCHANGED users

LEMMA UpdateCases ==
    ASSUME TypeInv, NEW r \in Requests, UpdateUser(r)
    PROVE  /\ pc[r] = "update" /\ op[r] \in SyncOps
           /\ account[r] \in Accounts /\ email[r] \in used[account[r]]
           /\ email[r] \in Addresses /\ localUser[r] \in DOMAIN users
           /\ Updates(r) \/ UpdateFails(r)
  <1> DEFINE i == localUser[r]
  <1>1. /\ pc[r] = "update" /\ op[r] \in SyncOps
        /\ account[r] \in Accounts /\ email[r] \in used[account[r]] /\ i \in DOMAIN users
    BY DEF UpdateUser, TypeInv, Control, Running
  <1>2. email[r] \in Addresses  BY <1>1 DEF TypeInv, TypeOK
  <1>3. users \in [DOMAIN users -> User]  BY DEF TypeInv, TypeOK
  <1>4. Synced(r, users[i]) \in User  BY <1>1, <1>2, <1>3, SyncedType
  <1>5. CASE Violates(i, Synced(r, users[i]))
    BY <1>1, <1>2, <1>5 DEF UpdateUser, UpdateFails
  <1>6. CASE ~Violates(i, Synced(r, users[i]))
    <2>1. /\ users' = [users EXCEPT ![i] = Synced(r, @)]
          /\ Goto(r, AfterSync(r)) /\ UNCHANGED localUser
      BY <1>6 DEF UpdateUser
    <2>2. Updates(r)  BY <1>1, <1>3, <1>4, <1>6, <2>1 DEF Updates
    <2>3. QED  BY <1>1, <1>2, <2>2
  <1>7. QED  BY <1>5, <1>6

-----------------------------------------------------------------------------
(* Types *)

LEMMA InitType == Init => TypeInv
  <1> SUFFICES ASSUME Init PROVE TypeInv
    OBVIOUS
  <1>1. TypeOK
    BY DEF Init, TypeOK, Ops, SyncOps, User, Key, Ids
  <1>2. Control
    BY DEF Init, Control, Running
  <1>3. QED  BY <1>1, <1>2 DEF TypeInv

LEMMA NextType == TypeInv /\ [Next]_vars => TypeInv'
  <1> SUFFICES ASSUME TypeInv, [Next]_vars PROVE TypeInv'
    OBVIOUS
  <1> USE DEF TypeInv, TypeOK, Control, Goto, local, history, Running,
        Finished, Ops, SyncOps, Ids, User, Key, NoUser
  <1>1. ASSUME NEW r \in Requests, NEW o \in SyncOps \union {"profile"},
               NEW k \in Ids \union {None}, NEW a \in Accounts, NEW e \in Addresses,
               GetSession(r, o, k, a, e)
        PROVE  TypeInv'
    BY <1>1 DEF GetSession
  <1>2. ASSUME NEW a \in Accounts, NEW e \in Addresses, ChangeEmail(a, e)
        PROVE  TypeInv'
    BY <1>2 DEF ChangeEmail
  <1>3. ASSUME NEW r \in Requests, CheckKey(r)
        PROVE  TypeInv'
    BY <1>3 DEF CheckKey, Verified
  <1>4. ASSUME NEW r \in Requests, Refuse(r)
        PROVE  TypeInv'
    BY <1>4 DEF Refuse
  <1>5. ASSUME NEW r \in Requests, FindUser(r)
        PROVE  TypeInv'
    <2>1. /\ pc[r] = "find" /\ op[r] \in SyncOps /\ account[r] \in Accounts
          /\ email[r] \in used[account[r]]
      BY <1>5 DEF FindUser
    <2>2. CASE \E i \in DOMAIN users :
              /\ localUser' = [localUser EXCEPT ![r] = i]
              /\ loaded' = [loaded EXCEPT ![r] = users[i]]
              /\ Goto(r, AfterSync(r)) \/ Goto(r, "update")
      BY <1>5, <2>1, <2>2, Continues DEF FindUser
    <2>3. CASE Goto(r, "insert") /\ UNCHANGED <<localUser, loaded>>
      BY <1>5, <2>1, <2>3 DEF FindUser
    <2>4. QED  BY <1>5, <2>2, <2>3 DEF FindUser, Matches
  <1>6. ASSUME NEW r \in Requests, InsertUser(r)
        PROVE  TypeInv'
    <2>0. pc[r] = "insert" /\ op[r] \in SyncOps /\ account[r] \in Accounts /\ email[r] \in Addresses
      BY <1>6 DEF InsertUser
    <2>1. CASE /\ users' = [i \in DOMAIN users \union {r} |->
                               IF i = r THEN NewUser(r) ELSE users[i]]
               /\ localUser' = [localUser EXCEPT ![r] = r]
               /\ Goto(r, AfterSync(r))
      BY <1>6, <2>0, <2>1, Continues DEF InsertUser, NewUser
    <2>2. CASE SyncFails(r) /\ UNCHANGED users
      BY <1>6, <2>0, <2>2, Continues DEF InsertUser, SyncFails
    <2>3. CASE Goto(r, "find") /\ UNCHANGED <<users, localUser>>
      BY <1>6, <2>0, <2>3 DEF InsertUser
    <2>4. QED  BY <1>6, <2>1, <2>2, <2>3 DEF InsertUser
  <1>7. ASSUME NEW r \in Requests, UpdateUser(r)
        PROVE  TypeInv'
    <2>1. CASE UpdateFails(r)
      BY <1>7, <2>1, UpdateCases, Continues DEF UpdateUser, UpdateFails,
         SyncFails
    <2>2. CASE Updates(r)
      BY <1>7, <2>2, UpdateCases, Continues DEF UpdateUser, Updates
    <2>3. QED  BY <1>7, <2>1, <2>2, UpdateCases
  <1>8. ASSUME NEW r \in Requests, SaveNewKey(r)
        PROVE  TypeInv'
    BY <1>8 DEF SaveNewKey
  <1>9. ASSUME NEW r \in Requests, FindKey(r)
        PROVE  TypeInv'
    BY <1>9 DEF FindKey, OwnKey
  <1>10. ASSUME NEW r \in Requests, SaveKey(r)
        PROVE  TypeInv'
    <2>1. key[r] \in DOMAIN keys /\ keys[key[r]] \in Key /\ account[r] \in Accounts
      BY <1>10 DEF SaveKey
    <2>2. [keys[key[r]] EXCEPT !.revokedBy = account[r]] \in Key
      BY <2>1
    <2>3. DOMAIN keys' = DOMAIN keys /\ pc' = [pc EXCEPT ![r] = "done"]
      BY <1>10 DEF SaveKey
    <2>4. keys' \in [DOMAIN keys -> Key]
      BY <1>10, <2>1, <2>2 DEF SaveKey
    <2>5. TypeOK'
      BY <1>10, <2>3, <2>4 DEF SaveKey
    <2>6. Control'
      BY <1>10, <2>3 DEF SaveKey
    <2>7. QED  BY <2>5, <2>6
  <1>11. ASSUME NEW r \in Requests, FindOwner(r)
        PROVE  TypeInv'
    BY <1>11 DEF FindOwner
  <1>12. ASSUME NEW r \in Requests, FindProfile(r)
        PROVE  TypeInv'
    <2>1. pc[r] = "findProfile" /\ op[r] = "profile"
      BY <1>12 DEF FindProfile
    <2>2. CASE localUser'[r] \in DOMAIN users /\ Goto(r, "saveProfile")
      BY <1>12, <2>1, <2>2 DEF FindProfile
    <2>3. CASE Goto(r, "failed") /\ UNCHANGED localUser
      BY <1>12, <2>1, <2>3 DEF FindProfile
    <2>4. QED  BY <1>12, <2>2, <2>3 DEF FindProfile, Matches
  <1>13. ASSUME NEW r \in Requests, SaveProfile(r)
        PROVE  TypeInv'
    BY <1>13 DEF SaveProfile
  <1>14. ASSUME NEW r \in Requests, FailSync(r)
        PROVE  TypeInv'
    BY <1>14, Continues DEF FailSync, SyncFails
  <1>15. ASSUME NEW r \in Requests, Fail(r)
        PROVE  TypeInv'
    BY <1>15 DEF Fail
  <1>16. CASE UNCHANGED vars
    BY <1>16 DEF vars
  <1>17. QED
    BY <1>1, <1>2, <1>3, <1>4, <1>5, <1>6, <1>7, <1>8, <1>9, <1>10, <1>11,
       <1>12, <1>13, <1>14, <1>15, <1>16,
       Sessions DEF Next, Terminated

-----------------------------------------------------------------------------
(* API keys *)

LEMMA InitFresh == Init => Fresh
  BY IdsAssumption DEF Init, Fresh, Ids

LEMMA NextFresh == TypeInv /\ Fresh /\ [Next]_vars => Fresh'
  <1> SUFFICES ASSUME TypeInv, Fresh, [Next]_vars PROVE Fresh'
    OBVIOUS
  <1> USE DEF TypeInv, TypeOK, Goto, local, history, Control, Running, Fresh,
        SyncFails
  <1>1. ASSUME NEW r \in Requests, NEW o \in SyncOps \union {"profile"},
               NEW k \in Ids \union {None}, NEW a \in Accounts, NEW e \in Addresses,
               GetSession(r, o, k, a, e)
        PROVE  Fresh'
    BY <1>1 DEF GetSession
  <1>2. ASSUME NEW a \in Accounts, NEW e \in Addresses, ChangeEmail(a, e)
        PROVE  Fresh'
    BY <1>2 DEF ChangeEmail
  <1>3. ASSUME NEW r \in Requests, CheckKey(r)
        PROVE  Fresh'
    BY <1>3 DEF CheckKey
  <1>4. ASSUME NEW r \in Requests, Refuse(r)
        PROVE  Fresh'
    BY <1>4 DEF Refuse
  <1>5. ASSUME NEW r \in Requests, FindUser(r)
        PROVE  Fresh'
    BY <1>5, Continues DEF FindUser
  <1>6. ASSUME NEW r \in Requests, InsertUser(r)
        PROVE  Fresh'
    BY <1>6, Continues DEF InsertUser
  <1>7. ASSUME NEW r \in Requests, UpdateUser(r)
        PROVE  Fresh'
    BY <1>7, UpdateCases, Continues DEF UpdateUser
  <1>8. ASSUME NEW r \in Requests, SaveNewKey(r)
        PROVE  Fresh'
    BY <1>8 DEF SaveNewKey
  <1>9. ASSUME NEW r \in Requests, FindKey(r)
        PROVE  Fresh'
    BY <1>9 DEF FindKey
  <1>10. ASSUME NEW r \in Requests, SaveKey(r)
        PROVE  Fresh'
    BY <1>10 DEF SaveKey
  <1>11. ASSUME NEW r \in Requests, FindOwner(r)
        PROVE  Fresh'
    BY <1>11 DEF FindOwner
  <1>12. ASSUME NEW r \in Requests, FindProfile(r)
        PROVE  Fresh'
    BY <1>12 DEF FindProfile
  <1>13. ASSUME NEW r \in Requests, SaveProfile(r)
        PROVE  Fresh'
    BY <1>13 DEF SaveProfile
  <1>14. ASSUME NEW r \in Requests, FailSync(r)
        PROVE  Fresh'
    BY <1>14, Continues DEF FailSync
  <1>15. ASSUME NEW r \in Requests, Fail(r)
        PROVE  Fresh'
    BY <1>15 DEF Fail
  <1>16. CASE UNCHANGED vars
    BY <1>16 DEF vars
  <1>17. QED
    BY <1>1, <1>2, <1>3, <1>4, <1>5, <1>6, <1>7, <1>8, <1>9, <1>10, <1>11,
       <1>12, <1>13, <1>14, <1>15, <1>16,
       Sessions DEF Next, Terminated

LEMMA InitRevoked == Init => Revoked
  BY DEF Init, Revoked

LEMMA NextRevoked == TypeInv /\ Fresh /\ Revoked /\ [Next]_vars => Revoked'
  <1> SUFFICES ASSUME TypeInv, Fresh, Revoked, [Next]_vars PROVE Revoked'
    OBVIOUS
  <1> USE DEF TypeInv, TypeOK, Goto, local, history, Control, Running, Fresh,
        Revoked, SyncOps, SyncFails
  <1>1. ASSUME NEW r \in Requests, NEW o \in SyncOps \union {"profile"},
               NEW k \in Ids \union {None}, NEW a \in Accounts, NEW e \in Addresses,
               GetSession(r, o, k, a, e)
        PROVE  Revoked'
    BY <1>1 DEF GetSession
  <1>2. ASSUME NEW a \in Accounts, NEW e \in Addresses, ChangeEmail(a, e)
        PROVE  Revoked'
    BY <1>2 DEF ChangeEmail
  <1>3. ASSUME NEW r \in Requests, CheckKey(r)
        PROVE  Revoked'
    BY <1>3 DEF CheckKey
  <1>4. ASSUME NEW r \in Requests, Refuse(r)
        PROVE  Revoked'
    BY <1>4 DEF Refuse
  <1>5. ASSUME NEW r \in Requests, FindUser(r)
        PROVE  Revoked'
    BY <1>5, Continues DEF FindUser
  <1>6. ASSUME NEW r \in Requests, InsertUser(r)
        PROVE  Revoked'
    BY <1>6, Continues DEF InsertUser
  <1>7. ASSUME NEW r \in Requests, UpdateUser(r)
        PROVE  Revoked'
    BY <1>7, UpdateCases, Continues DEF UpdateUser
  <1>8. ASSUME NEW r \in Requests, SaveNewKey(r)
        PROVE  Revoked'
    BY <1>8, IdsAssumption DEF SaveNewKey, Key, Ids
  <1>9. ASSUME NEW r \in Requests, FindKey(r)
        PROVE  Revoked'
    BY <1>9 DEF FindKey, OwnKey, Key, Ids
  <1>10. ASSUME NEW r \in Requests, SaveKey(r)
        PROVE  Revoked'
    BY <1>10, IdsAssumption DEF SaveKey, Key, Ids
  <1>11. ASSUME NEW r \in Requests, FindOwner(r)
        PROVE  Revoked'
    BY <1>11 DEF FindOwner
  <1>12. ASSUME NEW r \in Requests, FindProfile(r)
        PROVE  Revoked'
    BY <1>12 DEF FindProfile
  <1>13. ASSUME NEW r \in Requests, SaveProfile(r)
        PROVE  Revoked'
    BY <1>13 DEF SaveProfile
  <1>14. ASSUME NEW r \in Requests, FailSync(r)
        PROVE  Revoked'
    BY <1>14, Continues DEF FailSync
  <1>15. ASSUME NEW r \in Requests, Fail(r)
        PROVE  Revoked'
    BY <1>15 DEF Fail
  <1>16. CASE UNCHANGED vars
    BY <1>16 DEF vars
  <1>17. QED
    BY <1>1, <1>2, <1>3, <1>4, <1>5, <1>6, <1>7, <1>8, <1>9, <1>10, <1>11,
       <1>12, <1>13, <1>14, <1>15, <1>16,
       Sessions DEF Next, Terminated

LEMMA InitRefused == Init => Refused
  BY DEF Init, Refused

LEMMA NextRefused == TypeInv /\ Revoked /\ Refused /\ [Next]_vars => Refused'
  <1> SUFFICES ASSUME TypeInv, Revoked, Refused, [Next]_vars PROVE Refused'
    OBVIOUS
  <1> USE DEF TypeInv, TypeOK, Goto, local, history, Control, Refused, Running,
        SyncFails
  <1>1. ASSUME NEW r \in Requests, NEW o \in SyncOps \union {"profile"},
               NEW k \in Ids \union {None}, NEW a \in Accounts, NEW e \in Addresses,
               GetSession(r, o, k, a, e)
        PROVE  Refused'
    BY <1>1 DEF GetSession
  <1>2. ASSUME NEW a \in Accounts, NEW e \in Addresses, ChangeEmail(a, e)
        PROVE  Refused'
    BY <1>2 DEF ChangeEmail
  <1>3. ASSUME NEW r \in Requests, CheckKey(r)
        PROVE  Refused'
    BY <1>3 DEF CheckKey, Revoked, Verified
  <1>4. ASSUME NEW r \in Requests, Refuse(r)
        PROVE  Refused'
    BY <1>4 DEF Refuse
  <1>5. ASSUME NEW r \in Requests, FindUser(r)
        PROVE  Refused'
    BY <1>5, Continues DEF FindUser
  <1>6. ASSUME NEW r \in Requests, InsertUser(r)
        PROVE  Refused'
    BY <1>6, Continues DEF InsertUser
  <1>7. ASSUME NEW r \in Requests, UpdateUser(r)
        PROVE  Refused'
    BY <1>7, UpdateCases, Continues DEF UpdateUser
  <1>8. ASSUME NEW r \in Requests, SaveNewKey(r)
        PROVE  Refused'
    BY <1>8 DEF SaveNewKey
  <1>9. ASSUME NEW r \in Requests, FindKey(r)
        PROVE  Refused'
    BY <1>9 DEF FindKey
  <1>10. ASSUME NEW r \in Requests, SaveKey(r)
        PROVE  Refused'
    BY <1>10 DEF SaveKey
  <1>11. ASSUME NEW r \in Requests, FindOwner(r)
        PROVE  Refused'
    BY <1>11 DEF FindOwner
  <1>12. ASSUME NEW r \in Requests, FindProfile(r)
        PROVE  Refused'
    BY <1>12 DEF FindProfile
  <1>13. ASSUME NEW r \in Requests, SaveProfile(r)
        PROVE  Refused'
    BY <1>13 DEF SaveProfile
  <1>14. ASSUME NEW r \in Requests, FailSync(r)
        PROVE  Refused'
    BY <1>14, Continues DEF FailSync
  <1>15. ASSUME NEW r \in Requests, Fail(r)
        PROVE  Refused'
    BY <1>15 DEF Fail
  <1>16. CASE UNCHANGED vars
    BY <1>16 DEF vars
  <1>17. QED
    BY <1>1, <1>2, <1>3, <1>4, <1>5, <1>6, <1>7, <1>8, <1>9, <1>10, <1>11,
       <1>12, <1>13, <1>14, <1>15, <1>16,
       Sessions DEF Next, Terminated

-----------------------------------------------------------------------------
(* Rows and requests *)

LEMMA InitOneRow == Init => OneRow
  BY DEF Init, OneRow

LEMMA NextOneRow == TypeInv /\ OneRow /\ [Next]_vars => OneRow'
  <1> SUFFICES ASSUME TypeInv, OneRow, [Next]_vars PROVE OneRow'
    OBVIOUS
  <1> USE DEF TypeInv, TypeOK, Goto, local, history, OneRow
  <1>1. ASSUME NEW r \in Requests, NEW o \in SyncOps \union {"profile"},
               NEW k \in Ids \union {None}, NEW a \in Accounts, NEW e \in Addresses,
               GetSession(r, o, k, a, e)
        PROVE  OneRow'
    BY <1>1 DEF GetSession
  <1>2. ASSUME NEW a \in Accounts, NEW e \in Addresses, ChangeEmail(a, e)
        PROVE  OneRow'
    BY <1>2 DEF ChangeEmail
  <1>3. ASSUME NEW r \in Requests, CheckKey(r)
        PROVE  OneRow'
    BY <1>3 DEF CheckKey
  <1>4. ASSUME NEW r \in Requests, Refuse(r)
        PROVE  OneRow'
    BY <1>4 DEF Refuse
  <1>5. ASSUME NEW r \in Requests, FindUser(r)
        PROVE  OneRow'
    BY <1>5 DEF FindUser
  <1>6. ASSUME NEW r \in Requests, InsertUser(r)
        PROVE  OneRow'
    <2>0. pc[r] = "insert"
      BY <1>6 DEF InsertUser
    <2>1. CASE UNCHANGED users
      BY <2>1
    <2>2. CASE /\ ~Violates(r, NewUser(r))
               /\ users' = [i \in DOMAIN users \union {r} |->
                               IF i = r THEN NewUser(r) ELSE users[i]]
      BY <2>2 DEF Violates, NewUser
    <2>3. QED  BY <1>6, <2>1, <2>2 DEF InsertUser
  <1>7. ASSUME NEW r \in Requests, UpdateUser(r)
        PROVE  OneRow'
    <2>1. CASE UpdateFails(r)
      BY <2>1 DEF UpdateFails
    <2>2. CASE Updates(r)
      BY <2>2, UpdateCases, <1>7 DEF Updates, Violates
    <2>3. QED  BY <1>7, <2>1, <2>2, UpdateCases
  <1>8. ASSUME NEW r \in Requests, SaveNewKey(r)
        PROVE  OneRow'
    BY <1>8 DEF SaveNewKey
  <1>9. ASSUME NEW r \in Requests, FindKey(r)
        PROVE  OneRow'
    BY <1>9 DEF FindKey
  <1>10. ASSUME NEW r \in Requests, SaveKey(r)
        PROVE  OneRow'
    BY <1>10 DEF SaveKey
  <1>11. ASSUME NEW r \in Requests, FindOwner(r)
        PROVE  OneRow'
    BY <1>11 DEF FindOwner
  <1>12. ASSUME NEW r \in Requests, FindProfile(r)
        PROVE  OneRow'
    BY <1>12 DEF FindProfile
  <1>13. ASSUME NEW r \in Requests, SaveProfile(r)
        PROVE  OneRow'
    <2>1. /\ DOMAIN users' = DOMAIN users
          /\ \A i \in DOMAIN users : users'[i].account = users[i].account
      BY <1>13 DEF SaveProfile, User, Control
    <2>2. QED  BY <2>1
  <1>14. ASSUME NEW r \in Requests, FailSync(r)
        PROVE  OneRow'
    BY <1>14 DEF FailSync
  <1>15. ASSUME NEW r \in Requests, Fail(r)
        PROVE  OneRow'
    BY <1>15 DEF Fail
  <1>16. CASE UNCHANGED vars
    BY <1>16 DEF vars
  <1>17. QED
    BY <1>1, <1>2, <1>3, <1>4, <1>5, <1>6, <1>7, <1>8, <1>9, <1>10, <1>11,
       <1>12, <1>13, <1>14, <1>15, <1>16,
       Sessions DEF Next, Terminated

LEMMA InitSole == Init => Sole
  BY IdsAssumption DEF Init, Sole, Ids, Running

LEMMA NextSole == TypeInv /\ Sole /\ [Next]_vars => Sole'
  <1> SUFFICES ASSUME TypeInv, Sole, [Next]_vars PROVE Sole'
    OBVIOUS
  <1> USE DEF TypeInv, TypeOK, Goto, local, history, Control, Running, Sole,
        SyncFails
  <1>1. ASSUME NEW r \in Requests, NEW o \in SyncOps \union {"profile"},
               NEW k \in Ids \union {None}, NEW a \in Accounts, NEW e \in Addresses,
               GetSession(r, o, k, a, e)
        PROVE  Sole'
    BY <1>1, IdsAssumption DEF GetSession, Ids
  <1>2. ASSUME NEW a \in Accounts, NEW e \in Addresses, ChangeEmail(a, e)
        PROVE  Sole'
    BY <1>2 DEF ChangeEmail
  <1>3. ASSUME NEW r \in Requests, CheckKey(r)
        PROVE  Sole'
    BY <1>3, IdsAssumption DEF CheckKey, Ids
  <1>4. ASSUME NEW r \in Requests, Refuse(r)
        PROVE  Sole'
    BY <1>4 DEF Refuse
  <1>5. ASSUME NEW r \in Requests, FindUser(r)
        PROVE  Sole'
    BY <1>5, Continues DEF FindUser
  <1>6. ASSUME NEW r \in Requests, InsertUser(r)
        PROVE  Sole'
    BY <1>6, Continues DEF InsertUser
  <1>7. ASSUME NEW r \in Requests, UpdateUser(r)
        PROVE  Sole'
    BY <1>7, UpdateCases, Continues DEF UpdateUser
  <1>8. ASSUME NEW r \in Requests, SaveNewKey(r)
        PROVE  Sole'
    BY <1>8 DEF SaveNewKey
  <1>9. ASSUME NEW r \in Requests, FindKey(r)
        PROVE  Sole'
    BY <1>9 DEF FindKey
  <1>10. ASSUME NEW r \in Requests, SaveKey(r)
        PROVE  Sole'
    BY <1>10 DEF SaveKey
  <1>11. ASSUME NEW r \in Requests, FindOwner(r)
        PROVE  Sole'
    BY <1>11 DEF FindOwner
  <1>12. ASSUME NEW r \in Requests, FindProfile(r)
        PROVE  Sole'
    BY <1>12 DEF FindProfile
  <1>13. ASSUME NEW r \in Requests, SaveProfile(r)
        PROVE  Sole'
    BY <1>13 DEF SaveProfile
  <1>14. ASSUME NEW r \in Requests, FailSync(r)
        PROVE  Sole'
    BY <1>14, Continues DEF FailSync
  <1>15. ASSUME NEW r \in Requests, Fail(r)
        PROVE  Sole'
    BY <1>15 DEF Fail
  <1>16. CASE UNCHANGED vars
    BY <1>16 DEF vars
  <1>17. QED
    BY <1>1, <1>2, <1>3, <1>4, <1>5, <1>6, <1>7, <1>8, <1>9, <1>10, <1>11,
       <1>12, <1>13, <1>14, <1>15, <1>16,
       Sessions DEF Next, Terminated

-----------------------------------------------------------------------------
(* As long as no address was ever that of two accounts *)

\* The addresses that accounts have had are not forgotten.
LEMMA UsedGrows ==
    TypeInv /\ [Next]_vars =>
        /\ \A a \in Accounts : used[a] \subseteq used'[a]
        /\ NoneShared' => NoneShared
  <1> SUFFICES ASSUME TypeInv, [Next]_vars
               PROVE  \A a \in Accounts : used[a] \subseteq used'[a]
    BY DEF NoneShared
  <1> USE DEF TypeInv, TypeOK, local, history
  <1>1. CASE \E a \in Accounts, e \in Addresses :
                 used' = [used EXCEPT ![a] = @ \union {e}]
    BY <1>1
  <1>2. CASE UNCHANGED used
    BY <1>2
  <1>3. ASSUME NEW r \in Requests,
               Sync(r) \/ CreateKey(r) \/ RevokeKey(r) \/ UpdateProfile(r)
        PROVE  \E a \in Accounts, e \in Addresses :
                   used' = [used EXCEPT ![a] = @ \union {e}]
    BY <1>3, Sessions DEF GetSession
  <1>4. QED
    BY <1>1, <1>2, <1>3 DEF Next, vars, ChangeEmail,
       CheckKey, Refuse, FindUser, InsertUser, UpdateUser, SaveNewKey, FindKey, SaveKey,
       FindOwner, FindProfile, SaveProfile, FailSync, Fail, Terminated

\* Then the row a query finds is the one of the account.
LEMMA MatchesMine ==
    ASSUME TypeInv, NoneShared, Mine, NEW r \in Requests, NEW i \in Matches(r),
           account[r] \in Accounts, email[r] \in used[account[r]]
    PROVE  i \in DOMAIN users /\ users[i].account = account[r]
  <1>1. i \in DOMAIN users /\ users[i] \in User  BY DEF Matches, TypeInv, TypeOK
  <1>2. users[i].account \in Accounts /\ users[i].email \in used[users[i].account]
    BY <1>1 DEF Mine, User
  <1>3. QED  BY <1>1, <1>2 DEF Matches, NoneShared

\* Then an update leaves the row with its account, and never fails.
LEMMA UpdateMine ==
    ASSUME TypeInv, NoneShared, Mine, OneRow, NEW r \in Requests, UpdateUser(r)
    PROVE  /\ Updates(r) /\ users[localUser[r]].account = account[r]
           /\ users'[localUser[r]].email \in {users[localUser[r]].email, email[r]}
           /\ users'[localUser[r]].signature = users[localUser[r]].signature
           /\ users[localUser[r]].email = loaded[r].email =>
                  users'[localUser[r]].email = email[r]
           /\ \A j \in DOMAIN users : /\ users'[j].account = users[j].account
                                      /\ users'[j].signature = users[j].signature
  <1> DEFINE i == localUser[r]
             new == Synced(r, users[i])
  <1>1. /\ i \in DOMAIN users /\ users[i] \in User /\ account[r] \in Accounts
        /\ email[r] \in Addresses /\ email[r] \in used[account[r]]
        /\ users[i].account = account[r] /\ users[i].email \in used[account[r]]
    BY UpdateCases DEF TypeInv, TypeOK, Mine
  <1>2. /\ new.email \in {users[i].email, email[r]} /\ new.account = account[r]
        /\ new.signature = users[i].signature
        /\ users[i].email = loaded[r].email => new.email = email[r]
    BY <1>1, SyncedType
  <1>3. ASSUME NEW j \in DOMAIN users \ {i}
        PROVE  users[j].email # new.email /\ users[j].account # new.account
    <2>1. users[j].account # account[r]  BY <1>1, <1>3 DEF OneRow
    <2>2. users[j].account \in Accounts /\ users[j].email \in used[users[j].account]
      BY <1>3 DEF TypeInv, TypeOK, User, Mine
    <2>3. QED  BY <1>1, <1>2, <2>1, <2>2 DEF NoneShared
  <1>4. ~Violates(i, new)  BY <1>3 DEF Violates
  <1>5. Updates(r)  BY <1>4, UpdateCases DEF UpdateFails
  <1>6. QED  BY <1>1, <1>2, <1>5 DEF Updates

\* What InsertUser does to the rows.
Inserts(r) ==
    /\ DOMAIN users' = DOMAIN users \union {r}
    /\ users'[r] = NewUser(r)
    /\ \A i \in DOMAIN users : users'[i] = users[i]
    /\ localUser' = [localUser EXCEPT ![r] = r]
    /\ Goto(r, AfterSync(r))

InsertFails(r) ==
    /\ Violates(r, NewUser(r))
    /\ \/ SyncFails(r)
       \/ Goto(r, "find") /\ UNCHANGED localUser
    /\ UNCHANGED users

LEMMA InsertCases ==
    ASSUME TypeInv, Fresh, NEW r \in Requests, InsertUser(r)
    PROVE  /\ pc[r] = "insert" /\ op[r] \in SyncOps /\ r \notin DOMAIN users
           /\ account[r] \in Accounts /\ email[r] \in used[account[r]]
           /\ Inserts(r) \/ InsertFails(r)
  <1>1. /\ pc[r] = "insert" /\ op[r] \in SyncOps /\ r \notin DOMAIN users
        /\ account[r] \in Accounts /\ email[r] \in used[account[r]]
    BY DEF InsertUser, TypeInv, Control, Running, Fresh
  <1>2. CASE Violates(r, NewUser(r))
    BY <1>1, <1>2 DEF InsertUser, InsertFails
  <1>3. CASE ~Violates(r, NewUser(r))
    BY <1>1, <1>3 DEF InsertUser, Inserts
  <1>4. QED  BY <1>2, <1>3

\* The other requests and rows do not notice, and the request goes on.
Proceeds(r) ==
    /\ pc'[r] \in {"done", "createKey", "findKey"}
    /\ \A q \in Requests \ {r} : pc'[q] = pc[q] /\ localUser'[q] = localUser[q]
    /\ \A i \in DOMAIN users \ {localUser'[r]} : users'[i] = users[i]
    /\ UNCHANGED <<keys, op, key, account, email, used, overlapped, latest, faulted>>

LEMMA Inserted ==
    ASSUME TypeInv, Fresh, NEW r \in Requests, InsertUser(r), Inserts(r)
    PROVE  /\ Proceeds(r)
           /\ localUser'[r] = r /\ r \notin DOMAIN users
           /\ DOMAIN users' = DOMAIN users \union {r}
           /\ users'[r].account = account[r] /\ users'[r].email = email[r]
           /\ users'[r].signature = None
           /\ \A i \in DOMAIN users : users'[i] = users[i]
  <1>1. AfterSync(r) \in {"done", "createKey", "findKey"}
    BY InsertCases, Continues
  <1>2. UNCHANGED <<keys, op, key, account, email, used, overlapped, latest, faulted>>
    BY DEF InsertUser, history
  <1>3. /\ pc' = [pc EXCEPT ![r] = AfterSync(r)]
        /\ localUser' = [localUser EXCEPT ![r] = r]
    BY DEF Inserts, Goto
  <1>4. /\ pc'[r] = AfterSync(r) /\ localUser'[r] = r
        /\ \A q \in Requests \ {r} : pc'[q] = pc[q] /\ localUser'[q] = localUser[q]
    BY <1>3 DEF TypeInv, TypeOK
  <1>5. QED  BY <1>1, <1>2, <1>4, InsertCases DEF Inserts, NewUser, Proceeds

LEMMA Updated ==
    ASSUME TypeInv, NoneShared, Mine, OneRow, NEW r \in Requests, UpdateUser(r)
    PROVE  /\ Proceeds(r)
           /\ UNCHANGED localUser
           /\ DOMAIN users' = DOMAIN users
  <1>1. AfterSync(r) \in {"done", "createKey", "findKey"}
    BY UpdateCases, Continues
  <1>2. UNCHANGED <<keys, op, key, account, email, used, overlapped, latest, faulted>>
    BY DEF UpdateUser, history
  <1>3. pc' = [pc EXCEPT ![r] = AfterSync(r)] /\ UNCHANGED localUser
    BY UpdateMine DEF Updates, Goto
  <1>4. pc'[r] = AfterSync(r) /\ \A q \in Requests \ {r} : pc'[q] = pc[q]
    BY <1>3 DEF TypeInv, TypeOK
  <1>5. QED  BY <1>1, <1>2, <1>3, <1>4, UpdateMine DEF Updates, Proceeds

LEMMA InitSound == Init => Sound
  <1> SUFFICES ASSUME Init PROVE Mine /\ Owned /\ Absent /\ Served /\ InStep
    BY DEF Sound
  <1>1. PICK known \in SUBSET Accounts :
           /\ users = [i \in known |-> [account |-> i, email |-> central[i],
                                        signature |-> None]]
           /\ keys  = [k \in known |-> [user |-> k, maker |-> k, revokedBy |-> None]]
    BY DEF Init
  <1>2. /\ DOMAIN users = known /\ DOMAIN keys = known
        /\ \A i \in known : /\ users[i].account = i /\ users[i].email = central[i]
                            /\ users[i].signature = None
                            /\ keys[i].user = i /\ keys[i].maker = i
                            /\ keys[i].revokedBy = None
    BY <1>1
  <1>3. \A a \in Accounts : central[a] \in used[a]
    BY DEF Init
  <1>4. Mine  BY <1>1, <1>2, <1>3 DEF Init, Mine
  <1>5. Owned  BY <1>2 DEF Owned
  <1>6. Absent /\ Served  BY DEF Init, Absent, Served
  <1>7. InStep  BY IdsAssumption DEF Init, InStep, Ids
  <1>8. QED  BY <1>4, <1>5, <1>6, <1>7

LEMMA NextMine ==
    TypeInv /\ Fresh /\ OneRow /\ NoneShared /\ Mine /\ [Next]_vars => Mine'
  <1> SUFFICES ASSUME TypeInv, Fresh, OneRow, NoneShared, Mine, [Next]_vars
             PROVE Mine'
    OBVIOUS
  <1> USE DEF TypeInv, TypeOK, Goto, local, history, Control, Running, Mine,
        SyncFails
  <1>1. ASSUME NEW r \in Requests, NEW o \in SyncOps \union {"profile"},
               NEW k \in Ids \union {None}, NEW a \in Accounts, NEW e \in Addresses,
               GetSession(r, o, k, a, e)
        PROVE  Mine'
    BY <1>1 DEF GetSession
  <1>2. ASSUME NEW a \in Accounts, NEW e \in Addresses, ChangeEmail(a, e)
        PROVE  Mine'
    BY <1>2, UsedGrows DEF ChangeEmail
  <1>3. ASSUME NEW r \in Requests, CheckKey(r)
        PROVE  Mine'
    BY <1>3 DEF CheckKey
  <1>4. ASSUME NEW r \in Requests, Refuse(r)
        PROVE  Mine'
    BY <1>4 DEF Refuse
  <1>5. ASSUME NEW r \in Requests, FindUser(r)
        PROVE  Mine'
    BY <1>5, MatchesMine, Continues DEF FindUser, Matches
  <1>6. ASSUME NEW r \in Requests, InsertUser(r)
        PROVE  Mine'
    <2>1. CASE Inserts(r)
      <3>1. /\ DOMAIN users' = DOMAIN users \union {r}
            /\ users'[r].account = account[r] /\ users'[r].email = email[r]
            /\ \A i \in DOMAIN users : users'[i] = users[i]
            /\ UNCHANGED <<account, email, used, keys, key>>
        BY <1>6, <2>1 DEF InsertUser, Inserts, NewUser
      <3>2. \A i \in DOMAIN users' : users'[i].email \in used'[users'[i].account]
        BY <3>1, InsertCases, <1>6
      <3>3. localUser'[r] = r /\ pc'[r] \in {"done", "createKey", "findKey"}
        <4>1. AfterSync(r) \in {"done", "createKey", "findKey"}
          BY <1>6, InsertCases, Continues
        <4>2. QED  BY <2>1, <4>1 DEF Inserts
      <3>4. \A q \in Requests \ {r} : pc'[q] = pc[q] /\ localUser'[q] = localUser[q]
        BY <2>1 DEF Inserts
      <3>5. QED  BY <3>1, <3>2, <3>3, <3>4
    <2>2. CASE InsertFails(r)
      BY <1>6, <2>2, InsertCases, Continues DEF InsertUser, InsertFails
    <2>3. QED  BY <1>6, <2>1, <2>2, InsertCases
  <1>7. ASSUME NEW r \in Requests, UpdateUser(r)
        PROVE  Mine'
    BY <1>7, UpdateMine, UpdateCases, Continues DEF UpdateUser, Updates
  <1>8. ASSUME NEW r \in Requests, SaveNewKey(r)
        PROVE  Mine'
    BY <1>8, IdsAssumption DEF SaveNewKey, Fresh, Ids
  <1>9. ASSUME NEW r \in Requests, FindKey(r)
        PROVE  Mine'
    BY <1>9 DEF FindKey, OwnKey
  <1>10. ASSUME NEW r \in Requests, SaveKey(r)
        PROVE  Mine'
    BY <1>10 DEF SaveKey
  <1>11. ASSUME NEW r \in Requests, FindOwner(r)
        PROVE  Mine'
    BY <1>11 DEF FindOwner
  <1>12. ASSUME NEW r \in Requests, FindProfile(r)
        PROVE  Mine'
    BY <1>12, MatchesMine DEF FindProfile, Matches
  <1>13. ASSUME NEW r \in Requests, SaveProfile(r)
        PROVE  Mine'
    BY <1>13 DEF SaveProfile, User
  <1>14. ASSUME NEW r \in Requests, FailSync(r)
        PROVE  Mine'
    BY <1>14, Continues DEF FailSync
  <1>15. ASSUME NEW r \in Requests, Fail(r)
        PROVE  Mine'
    BY <1>15 DEF Fail
  <1>16. CASE UNCHANGED vars
    BY <1>16 DEF vars
  <1>17. QED
    BY <1>1, <1>2, <1>3, <1>4, <1>5, <1>6, <1>7, <1>8, <1>9, <1>10, <1>11,
       <1>12, <1>13, <1>14, <1>15, <1>16,
       Sessions DEF Next, Terminated

LEMMA NextOwned ==
    TypeInv /\ Fresh /\ OneRow /\ NoneShared /\ Mine /\ Owned /\ [Next]_vars => Owned'
  <1> SUFFICES ASSUME TypeInv, Fresh, OneRow, NoneShared, Mine, Owned, [Next]_vars
             PROVE Owned'
    OBVIOUS
  <1> USE DEF TypeInv, TypeOK, Goto, local, history, Control, Running, Owned,
        SyncFails
  <1>1. ASSUME NEW r \in Requests, NEW o \in SyncOps \union {"profile"},
               NEW k \in Ids \union {None}, NEW a \in Accounts, NEW e \in Addresses,
               GetSession(r, o, k, a, e)
        PROVE  Owned'
    BY <1>1 DEF GetSession
  <1>2. ASSUME NEW a \in Accounts, NEW e \in Addresses, ChangeEmail(a, e)
        PROVE  Owned'
    BY <1>2 DEF ChangeEmail
  <1>3. ASSUME NEW r \in Requests, CheckKey(r)
        PROVE  Owned'
    BY <1>3 DEF CheckKey
  <1>4. ASSUME NEW r \in Requests, Refuse(r)
        PROVE  Owned'
    BY <1>4 DEF Refuse
  <1>5. ASSUME NEW r \in Requests, FindUser(r)
        PROVE  Owned'
    BY <1>5 DEF FindUser
  <1>6. ASSUME NEW r \in Requests, InsertUser(r)
        PROVE  Owned'
    <2>1. CASE Inserts(r)
      <3>0. /\ Proceeds(r) /\ Inserts(r) /\ localUser'[r] = r /\ r \notin DOMAIN users
            /\ op[r] \in SyncOps /\ account[r] \in Accounts /\ pc[r] = "insert"
        BY <1>6, <2>1, Inserted, InsertCases
      <3>1. \A k \in DOMAIN keys' :
                /\ keys'[k].user \in DOMAIN users'
                /\ users'[keys'[k].user].account = keys'[k].maker
                /\ keys'[k].revokedBy \in {keys'[k].maker, None}
        BY <3>0 DEF Inserts, NewUser, Proceeds
      <3>2. \A i \in DOMAIN users' : users'[i].signature \in {users'[i].account, None}
        BY <1>6, <2>1, Inserted DEF Inserts, NewUser
      <3>3. QED  BY <3>1, <3>2
    <2>2. CASE InsertFails(r)
      BY <1>6, <2>2, InsertCases DEF InsertUser, InsertFails
    <2>3. QED  BY <1>6, <2>1, <2>2, InsertCases
  <1>7. ASSUME NEW r \in Requests, UpdateUser(r)
        PROVE  Owned'
    BY <1>7, UpdateMine, UpdateCases, Updated DEF Proceeds
  <1>8. ASSUME NEW r \in Requests, SaveNewKey(r)
        PROVE  Owned'
    BY <1>8, IdsAssumption DEF SaveNewKey, Fresh, Ids, Mine
  <1>9. ASSUME NEW r \in Requests, FindKey(r)
        PROVE  Owned'
    BY <1>9 DEF FindKey
  <1>10. ASSUME NEW r \in Requests, SaveKey(r)
        PROVE  Owned'
    BY <1>10 DEF SaveKey, Mine, Key
  <1>11. ASSUME NEW r \in Requests, FindOwner(r)
        PROVE  Owned'
    BY <1>11 DEF FindOwner
  <1>12. ASSUME NEW r \in Requests, FindProfile(r)
        PROVE  Owned'
    BY <1>12 DEF FindProfile
  <1>13. ASSUME NEW r \in Requests, SaveProfile(r)
        PROVE  Owned'
    BY <1>13 DEF SaveProfile, User, Mine
  <1>14. ASSUME NEW r \in Requests, FailSync(r)
        PROVE  Owned'
    BY <1>14 DEF FailSync
  <1>15. ASSUME NEW r \in Requests, Fail(r)
        PROVE  Owned'
    BY <1>15 DEF Fail
  <1>16. CASE UNCHANGED vars
    BY <1>16 DEF vars
  <1>17. QED
    BY <1>1, <1>2, <1>3, <1>4, <1>5, <1>6, <1>7, <1>8, <1>9, <1>10, <1>11,
       <1>12, <1>13, <1>14, <1>15, <1>16,
       Sessions DEF Next, Terminated

LEMMA NextAbsent ==
    TypeInv /\ Fresh /\ OneRow /\ NoneShared /\ Mine /\ Sole /\ Absent /\ [Next]_vars => Absent'
  <1> SUFFICES ASSUME TypeInv, Fresh, OneRow, NoneShared, Mine, Sole, Absent, [Next]_vars
             PROVE Absent'
    OBVIOUS
  <1> USE DEF TypeInv, TypeOK, Goto, local, history, Control, Running, Absent,
        SyncFails
  <1>1. ASSUME NEW r \in Requests, NEW o \in SyncOps \union {"profile"},
               NEW k \in Ids \union {None}, NEW a \in Accounts, NEW e \in Addresses,
               GetSession(r, o, k, a, e)
        PROVE  Absent'
    BY <1>1 DEF GetSession
  <1>2. ASSUME NEW a \in Accounts, NEW e \in Addresses, ChangeEmail(a, e)
        PROVE  Absent'
    BY <1>2 DEF ChangeEmail
  <1>3. ASSUME NEW r \in Requests, CheckKey(r)
        PROVE  Absent'
    BY <1>3 DEF CheckKey
  <1>4. ASSUME NEW r \in Requests, Refuse(r)
        PROVE  Absent'
    BY <1>4 DEF Refuse
  <1>5. ASSUME NEW r \in Requests, FindUser(r)
        PROVE  Absent'
    BY <1>5, Continues DEF FindUser, Matches
  <1>6. ASSUME NEW r \in Requests, InsertUser(r)
        PROVE  Absent'
    <2>1. CASE Inserts(r)
      <3>0. /\ Proceeds(r) /\ Inserts(r) /\ localUser'[r] = r /\ r \notin DOMAIN users
            /\ op[r] \in SyncOps /\ account[r] \in Accounts /\ pc[r] = "insert"
        BY <1>6, <2>1, Inserted, InsertCases
      <3> SUFFICES ASSUME NEW q \in Requests, pc'[q] = "insert", account'[q] \notin overlapped',
                          NEW i \in DOMAIN users'
                   PROVE  users'[i].account # account'[q]
        OBVIOUS
      <3>1. /\ q # r /\ pc[q] = "insert" /\ account'[q] = account[q]
            /\ account[q] \notin overlapped
        BY <3>0 DEF Proceeds
      <3>2. account[q] # account[r]
        BY <3>1, InsertCases, <1>6 DEF Sole
      <3>3. QED  BY <1>6, <2>1, <3>1, <3>2, Inserted DEF Inserts, NewUser
    <2>2. CASE InsertFails(r)
      BY <1>6, <2>2, InsertCases, Continues DEF InsertUser, InsertFails
    <2>3. QED  BY <1>6, <2>1, <2>2, InsertCases
  <1>7. ASSUME NEW r \in Requests, UpdateUser(r)
        PROVE  Absent'
    BY <1>7, UpdateMine, UpdateCases, Updated DEF Proceeds
  <1>8. ASSUME NEW r \in Requests, SaveNewKey(r)
        PROVE  Absent'
    BY <1>8 DEF SaveNewKey
  <1>9. ASSUME NEW r \in Requests, FindKey(r)
        PROVE  Absent'
    BY <1>9 DEF FindKey
  <1>10. ASSUME NEW r \in Requests, SaveKey(r)
        PROVE  Absent'
    BY <1>10 DEF SaveKey
  <1>11. ASSUME NEW r \in Requests, FindOwner(r)
        PROVE  Absent'
    BY <1>11 DEF FindOwner
  <1>12. ASSUME NEW r \in Requests, FindProfile(r)
        PROVE  Absent'
    BY <1>12 DEF FindProfile
  <1>13. ASSUME NEW r \in Requests, SaveProfile(r)
        PROVE  Absent'
    BY <1>13 DEF SaveProfile, User
  <1>14. ASSUME NEW r \in Requests, FailSync(r)
        PROVE  Absent'
    BY <1>14, Continues DEF FailSync
  <1>15. ASSUME NEW r \in Requests, Fail(r)
        PROVE  Absent'
    BY <1>15 DEF Fail
  <1>16. CASE UNCHANGED vars
    BY <1>16 DEF vars
  <1>17. QED
    BY <1>1, <1>2, <1>3, <1>4, <1>5, <1>6, <1>7, <1>8, <1>9, <1>10, <1>11,
       <1>12, <1>13, <1>14, <1>15, <1>16,
       Sessions DEF Next, Terminated

LEMMA NextServed ==
    TypeInv /\ Fresh /\ OneRow /\ NoneShared /\ Mine /\ Absent /\ Served /\ [Next]_vars => Served'
  <1> SUFFICES ASSUME TypeInv, Fresh, OneRow, NoneShared, Mine, Absent, Served, [Next]_vars
             PROVE Served'
    OBVIOUS
  <1> USE DEF TypeInv, TypeOK, Goto, local, history, Control, Running, Served,
        SyncFails, SyncOps
  <1>1. ASSUME NEW r \in Requests, NEW o \in SyncOps \union {"profile"},
               NEW k \in Ids \union {None}, NEW a \in Accounts, NEW e \in Addresses,
               GetSession(r, o, k, a, e)
        PROVE  Served'
    BY <1>1 DEF GetSession
  <1>2. ASSUME NEW a \in Accounts, NEW e \in Addresses, ChangeEmail(a, e)
        PROVE  Served'
    BY <1>2 DEF ChangeEmail
  <1>3. ASSUME NEW r \in Requests, CheckKey(r)
        PROVE  Served'
    BY <1>3 DEF CheckKey
  <1>4. ASSUME NEW r \in Requests, Refuse(r)
        PROVE  Served'
    BY <1>4 DEF Refuse
  <1>5. ASSUME NEW r \in Requests, FindUser(r)
        PROVE  Served'
    BY <1>5, Continues DEF FindUser
  <1>6. ASSUME NEW r \in Requests, InsertUser(r)
        PROVE  Served'
    <2>1. CASE Inserts(r)
      <3>0. /\ Proceeds(r) /\ Inserts(r) /\ localUser'[r] = r /\ r \notin DOMAIN users
            /\ op[r] \in SyncOps /\ account[r] \in Accounts /\ pc[r] = "insert"
        BY <1>6, <2>1, Inserted, InsertCases
      <3>1. QED  BY <3>0 DEF Proceeds
    <2>2. CASE InsertFails(r)
      <3>1. /\ op' = op /\ account' = account /\ faulted' = faulted /\ overlapped' = overlapped
            /\ \A q \in Requests \ {r} : pc'[q] = pc[q]
        BY <1>6, <2>2 DEF InsertUser, InsertFails
      <3>2. account[r] \in overlapped
        <4>1. PICK j \in DOMAIN users : users[j].email = email[r] \/ users[j].account = account[r]
          BY <2>2 DEF InsertFails, Violates, NewUser
        <4>2. users[j].account \in Accounts /\ users[j].email \in used[users[j].account]
          BY <4>1 DEF User, Mine
        <4>3. users[j].account = account[r]
          BY <1>6, <4>1, <4>2, InsertCases DEF NoneShared
        <4>4. QED  BY <1>6, <4>3, InsertCases DEF Absent
      <3>3. QED  BY <3>1, <3>2
    <2>3. QED  BY <1>6, <2>1, <2>2, InsertCases
  <1>7. ASSUME NEW r \in Requests, UpdateUser(r)
        PROVE  Served'
    BY <1>7, UpdateMine, UpdateCases, Updated DEF Proceeds
  <1>8. ASSUME NEW r \in Requests, SaveNewKey(r)
        PROVE  Served'
    BY <1>8 DEF SaveNewKey
  <1>9. ASSUME NEW r \in Requests, FindKey(r)
        PROVE  Served'
    BY <1>9 DEF FindKey
  <1>10. ASSUME NEW r \in Requests, SaveKey(r)
        PROVE  Served'
    BY <1>10 DEF SaveKey
  <1>11. ASSUME NEW r \in Requests, FindOwner(r)
        PROVE  Served'
    BY <1>11 DEF FindOwner
  <1>12. ASSUME NEW r \in Requests, FindProfile(r)
        PROVE  Served'
    BY <1>12 DEF FindProfile
  <1>13. ASSUME NEW r \in Requests, SaveProfile(r)
        PROVE  Served'
    BY <1>13 DEF SaveProfile
  <1>14. ASSUME NEW r \in Requests, FailSync(r)
        PROVE  Served'
    BY <1>14, Continues DEF FailSync
  <1>15. ASSUME NEW r \in Requests, Fail(r)
        PROVE  Served'
    BY <1>15 DEF Fail
  <1>16. CASE UNCHANGED vars
    BY <1>16 DEF vars
  <1>17. QED
    BY <1>1, <1>2, <1>3, <1>4, <1>5, <1>6, <1>7, <1>8, <1>9, <1>10, <1>11,
       <1>12, <1>13, <1>14, <1>15, <1>16,
       Sessions DEF Next, Terminated

LEMMA NextInStep ==
    TypeInv /\ Fresh /\ OneRow /\ NoneShared /\ Mine /\ Sole /\ InStep /\ [Next]_vars => InStep'
  <1> SUFFICES ASSUME TypeInv, Fresh, OneRow, NoneShared, Mine, Sole, InStep, [Next]_vars
             PROVE InStep'
    OBVIOUS
  <1> USE DEF TypeInv, TypeOK, Goto, local, history, Control, Running, InStep,
        SyncFails, SyncOps
  <1>1. ASSUME NEW r \in Requests, NEW o \in SyncOps \union {"profile"},
               NEW k \in Ids \union {None}, NEW a \in Accounts, NEW e \in Addresses,
               GetSession(r, o, k, a, e)
        PROVE  InStep'
    BY <1>1 DEF GetSession
  <1>2. ASSUME NEW a \in Accounts, NEW e \in Addresses, ChangeEmail(a, e)
        PROVE  InStep'
    BY <1>2 DEF ChangeEmail
  <1>3. ASSUME NEW r \in Requests, CheckKey(r)
        PROVE  InStep'
    BY <1>3 DEF CheckKey
  <1>4. ASSUME NEW r \in Requests, Refuse(r)
        PROVE  InStep'
    BY <1>4 DEF Refuse
  <1>5. ASSUME NEW r \in Requests, FindUser(r)
        PROVE  InStep'
    <2>1. /\ pc[r] = "find" /\ op[r] \in SyncOps /\ account[r] \in Accounts
          /\ email[r] \in used[account[r]]
      BY <1>5 DEF FindUser
    <2>2. CASE \E i \in DOMAIN users :
              /\ users[i].account = account[r]
              /\ localUser' = [localUser EXCEPT ![r] = i]
              /\ loaded' = [loaded EXCEPT ![r] = users[i]]
              /\ \/ users[i].email = email[r] /\ Goto(r, AfterSync(r))
                 \/ Goto(r, "update")
      BY <1>5, <2>1, <2>2, Continues DEF FindUser, Sole
    <2>3. CASE Goto(r, "insert") /\ UNCHANGED <<localUser, loaded>>
      BY <1>5, <2>1, <2>3 DEF FindUser
    <2>4. QED  BY <1>5, <2>1, <2>2, <2>3, MatchesMine DEF FindUser, Matches
  <1>6. ASSUME NEW r \in Requests, InsertUser(r)
        PROVE  InStep'
    <2>1. CASE Inserts(r)
      <3>0. /\ Proceeds(r) /\ Inserts(r) /\ localUser'[r] = r /\ r \notin DOMAIN users
            /\ op[r] \in SyncOps /\ account[r] \in Accounts /\ pc[r] = "insert"
        BY <1>6, <2>1, Inserted, InsertCases
      <3> SUFFICES ASSUME NEW a \in Accounts \ overlapped, NEW q \in Requests,
                          latest[a] = q, op[q] \in SyncOps
                   PROVE  /\ pc'[q] \in {"createKey", "findKey", "saveKey", "done"} =>
                                 /\ localUser'[q] \in DOMAIN users'
                                 /\ users'[localUser'[q]].account = a
                                 /\ users'[localUser'[q]].email = email[q]
                          /\ pc'[q] = "update" =>
                                 users'[localUser'[q]].email = loaded[q].email
        BY <1>6 DEF InsertUser
      <3>1. CASE q = r
        BY <3>0, <3>1 DEF Sole, Inserts, NewUser, Proceeds
      <3>2. CASE q # r
        BY <3>0, <3>2 DEF Inserts, NewUser, Proceeds
      <3>3. QED  BY <3>1, <3>2
    <2>2. CASE InsertFails(r)
      BY <1>6, <2>2, InsertCases, Continues DEF InsertUser, InsertFails
    <2>3. QED  BY <1>6, <2>1, <2>2, InsertCases
  <1>7. ASSUME NEW r \in Requests, UpdateUser(r)
        PROVE  InStep'
    <2> SUFFICES ASSUME NEW a \in Accounts \ overlapped, NEW q \in Requests,
                        latest[a] = q, op[q] \in SyncOps
                 PROVE  /\ pc'[q] \in {"createKey", "findKey", "saveKey", "done"} =>
                               /\ localUser'[q] \in DOMAIN users'
                               /\ users'[localUser'[q]].account = a
                               /\ users'[localUser'[q]].email = email[q]
                        /\ pc'[q] = "update" =>
                               users'[localUser'[q]].email = loaded[q].email
      BY <1>7 DEF UpdateUser
    <2>1. CASE q = r
      <3>1. account[r] = a  BY <2>1 DEF Sole
      <3>2. users[localUser[r]].email = loaded[r].email
        BY <2>1, UpdateCases, <1>7
      <3>3. QED  BY <1>7, <2>1, <3>1, <3>2, UpdateMine, UpdateCases, Updated DEF Proceeds
    <2>2. CASE q # r
      <3>1. pc'[q] = pc[q] /\ localUser'[q] = localUser[q] /\ DOMAIN users' = DOMAIN users
        BY <1>7, <2>2, Updated DEF Proceeds
      <3>2. CASE localUser[q] # localUser[r]
        BY <1>7, <3>1, <3>2, Updated DEF Proceeds
      <3>3. CASE localUser[q] = localUser[r]
        <4>1. account[r] # a
          BY <1>7, <2>2, UpdateCases DEF Sole
        <4>2. users[localUser[q]].account # a
          BY <1>7, <3>3, <4>1, UpdateMine
        <4>3. account[q] = a  BY DEF Sole
        <4>4. pc[q] # "update"  BY <4>2, <4>3 DEF Mine
        <4>5. QED  BY <3>1, <4>2, <4>4
      <3>4. QED  BY <3>2, <3>3
    <2>3. QED  BY <2>1, <2>2
  <1>8. ASSUME NEW r \in Requests, SaveNewKey(r)
        PROVE  InStep'
    BY <1>8 DEF SaveNewKey
  <1>9. ASSUME NEW r \in Requests, FindKey(r)
        PROVE  InStep'
    BY <1>9 DEF FindKey
  <1>10. ASSUME NEW r \in Requests, SaveKey(r)
        PROVE  InStep'
    BY <1>10 DEF SaveKey
  <1>11. ASSUME NEW r \in Requests, FindOwner(r)
        PROVE  InStep'
    BY <1>11 DEF FindOwner
  <1>12. ASSUME NEW r \in Requests, FindProfile(r)
        PROVE  InStep'
    BY <1>12 DEF FindProfile
  <1>13. ASSUME NEW r \in Requests, SaveProfile(r)
        PROVE  InStep'
    BY <1>13 DEF SaveProfile, User
  <1>14. ASSUME NEW r \in Requests, FailSync(r)
        PROVE  InStep'
    BY <1>14, Continues DEF FailSync
  <1>15. ASSUME NEW r \in Requests, Fail(r)
        PROVE  InStep'
    BY <1>15 DEF Fail
  <1>16. CASE UNCHANGED vars
    BY <1>16 DEF vars
  <1>17. QED
    BY <1>1, <1>2, <1>3, <1>4, <1>5, <1>6, <1>7, <1>8, <1>9, <1>10, <1>11,
       <1>12, <1>13, <1>14, <1>15, <1>16,
       Sessions DEF Next, Terminated

LEMMA NextSound ==
    TypeInv /\ Fresh /\ OneRow /\ Sole /\ Sound /\ [Next]_vars => Sound'
  <1> SUFFICES ASSUME TypeInv, Fresh, OneRow, Sole, Sound, [Next]_vars, NoneShared'
               PROVE  (Mine /\ Owned /\ Absent /\ Served /\ InStep)'
    BY DEF Sound
  <1>1. NoneShared  BY UsedGrows
  <1>2. Mine /\ Owned /\ Absent /\ Served /\ InStep  BY <1>1 DEF Sound
  <1>3. Mine'  BY <1>1, <1>2, NextMine
  <1>4. Owned'  BY <1>1, <1>2, NextOwned
  <1>5. Absent'  BY <1>1, <1>2, NextAbsent
  <1>6. Served'  BY <1>1, <1>2, NextServed
  <1>7. InStep'  BY <1>1, <1>2, NextInStep
  <1>8. QED  BY <1>3, <1>4, <1>5, <1>6, <1>7

-----------------------------------------------------------------------------
(* The theorems *)

Inv == TypeInv /\ Fresh /\ Revoked /\ Refused /\ OneRow /\ Sole /\ Sound

\* The inductive invariant holds of every state the handlers can reach.
THEOREM Invariance == Spec => []Inv
  <1>1. Init => Inv
    BY InitType, InitFresh, InitRevoked, InitRefused, InitOneRow, InitSole,
       InitSound DEF Inv
  <1>2. Inv /\ [Next]_vars => Inv'
    BY NextType, NextFresh, NextRevoked, NextRefused, NextOneRow, NextSole,
       NextSound DEF Inv
  <1>3. QED  BY <1>1, <1>2, PTL DEF Spec

\* The rows and the handlers' variables keep their types.
THEOREM TypeCorrect == Spec => []TypeOK
  <1>1. Inv => TypeOK  BY DEF Inv, TypeInv
  <1>2. QED  BY <1>1, Invariance, PTL

\* A key belongs to the account that made it, and is revoked by it only.
THEOREM KeysOwnSafe == Spec => []KeysOwn
  <1>1. Inv => KeysOwn  BY DEF Inv, Sound, Owned, KeysOwn
  <1>2. QED  BY <1>1, Invariance, PTL

\* A profile carries no other account's signature.
THEOREM SignatureOwnSafe == Spec => []SignatureOwn
  <1>1. Inv => SignatureOwn  BY DEF Inv, Sound, Owned, SignatureOwn
  <1>2. QED  BY <1>1, Invariance, PTL

\* findOrCreateLocalUser fails by itself only for overlapping requests of one account.
THEOREM SyncErrorSafe == Spec => []SyncErrorNeedsOverlap
  <1>1. Inv => SyncErrorNeedsOverlap  BY DEF Inv, Sound, Served, SyncErrorNeedsOverlap
  <1>2. QED  BY <1>1, Invariance, PTL

\* After the latest request of an account its row agrees with its session.
THEOREM SyncedSafe == Spec => []SyncedAgrees
  <1>1. Inv => SyncedAgrees  BY DEF Inv, Sound, InStep, SyncedAgrees
  <1>2. QED  BY <1>1, Invariance, PTL

\* A key whose revocation was answered is never accepted again.
THEOREM RevokedRefusedSafe == Spec => []RevokedRefused
  <1>1. Inv => RevokedRefused  BY DEF Inv, Refused, RevokedRefused
  <1>2. QED  BY <1>1, Invariance, PTL

=============================================================================
