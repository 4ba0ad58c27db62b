------------------------ MODULE FolderDeletionProofs ------------------------
(* What holds of FolderDeletion for every set of rows and requests, and for  *)
(* every size of the connection pool.                                        *)
EXTENDS FolderDeletion, FiniteSetTheorems, TLAPS

\* The connections that a request holds, from where it is.
Outer(r) == IF body[r].op = "deleteFolder" THEN 1 ELSE 0
Holds(r) ==
    /\ pc[r] \in {"idle", "begin", "update", "create", "done", "notFound", "conflict",
                 "failed"} => held[r] = 0
    /\ pc[r] \in {"findFolder", "subfolders", "missing", "partly", "updating"}
           => held[r] = 1
    /\ pc[r] = "documents" => held[r] = Outer(r)
    /\ pc[r] \in InTransaction => held[r] = Outer(r) + 1

Deleting == {"documents"} \union InTransaction

\* Where the handler of each operation can be, and what it has in hand there.
Control ==
    \A r \in Requests :
        /\ Holds(r)
        /\ pc[r] = "idle" => body[r] = NoBody
        /\ pc[r] \in {"begin", "findFolder", "subfolders", "missing", "partly", "conflict"}
               => body[r].op = "deleteFolder"
        /\ pc[r] \in Deleting => body[r].op \in {"deleteFolder", "deleteDocument"}
        /\ pc[r] \in {"update", "updating"} => body[r].op = "addDocumentToFolder"
        /\ pc[r] = "create" => body[r].op = "createFolder"
        /\ left[r] \subseteq listed[r]
        /\ pc[r] \in InTransaction => current[r] \in listed[r] \intersect mine

TypeInv == TypeOK /\ Control

-----------------------------------------------------------------------------
(* Types *)

LEMMA BodyFields ==
    ASSUME NEW b \in Bodies
    PROVE  /\ b.op \in {"deleteFolder", "deleteDocument", "addDocumentToFolder",
                        "createFolder"}
           /\ b.op # "deleteDocument" => b.folder \in Folders
           /\ b.op \in {"deleteDocument", "addDocumentToFolder"} => b.doc \in Docs
  BY BodiesAssumption DEF Body

\* What the two actions that wait for locks do once the locks are free.
LEMMA Destroys ==
    ASSUME NEW r \in Requests, Destroy(r)
    PROVE  /\ pc[r] = "destroy"
           /\ \/ RollbackDocument(r)
              \/ /\ Goto(r, "commit")
                 /\ UNCHANGED <<tables, config, pool, body, locals, mailed, history>>
  BY Zenon DEF Destroy

LEMMA DestroysFolders ==
    ASSUME NEW r \in Requests, DestroyFolders(r)
    PROVE  /\ pc[r] = "documents" /\ body[r].op = "deleteFolder"
           /\ left[r] = {} /\ failed[r] = {}
           /\ Release(r)
           /\ Goto(r, "done") \/ (Referenced(r) /\ Goto(r, "conflict"))
           /\ UNCHANGED <<config, body, locals, mailed, history, dataOf>>
  BY Zenon DEF DestroyFolders, AllDeleted, tables

LEMMA DestroyedFolders ==
    ASSUME NEW r \in Requests, DestroyFolders(r)
    PROVE  \/ UNCHANGED tables /\ Goto(r, "conflict")
           \/ /\ parent' = [g \in DOMAIN parent \ found[r] |->
                               IF parent[g] \in found[r] THEN Root ELSE parent[g]]
              /\ folderOf' = [d \in DOMAIN folderOf |->
                               IF folderOf[d] \in found[r] THEN Root ELSE folderOf[d]]
  BY Zenon DEF DestroyFolders

LEMMA DestroyedTypes ==
    ASSUME TypeOK, NEW r \in Requests, DestroyFolders(r)
    PROVE  /\ parent' \in [DOMAIN parent' -> FolderId \union {Root}]
           /\ DOMAIN parent' \subseteq FolderId
           /\ folderOf' \in [DOMAIN folderOf' -> FolderId \union {Root}]
           /\ DOMAIN folderOf' \subseteq Docs
  <1>1. CASE UNCHANGED tables
    BY <1>1 DEF TypeOK, tables
  <1>2. CASE parent' = [g \in DOMAIN parent \ found[r] |->
                          IF parent[g] \in found[r] THEN Root ELSE parent[g]]
             /\ folderOf' = [d \in DOMAIN folderOf |->
                               IF folderOf[d] \in found[r] THEN Root ELSE folderOf[d]]
    BY <1>2 DEF TypeOK
  <1>3. QED
    BY <1>1, <1>2, DestroyedFolders

LEMMA DestroyedRows ==
    ASSUME TypeOK, NEW r \in Requests, DestroyFolders(r)
    PROVE  /\ DOMAIN folderOf' = DOMAIN folderOf
           /\ \A d \in DOMAIN folderOf : folderOf'[d] \in {folderOf[d], Root}
           /\ DOMAIN parent' \subseteq DOMAIN parent
           /\ \A g \in DOMAIN parent' : parent'[g] \in {parent[g], Root}
           /\ \/ Goto(r, "conflict")
              \/ found[r] \intersect DOMAIN parent' = {}
  <1>1. CASE UNCHANGED tables /\ Goto(r, "conflict")
    BY <1>1 DEF tables
  <1>2. CASE parent' = [g \in DOMAIN parent \ found[r] |->
                          IF parent[g] \in found[r] THEN Root ELSE parent[g]]
             /\ folderOf' = [d \in DOMAIN folderOf |->
                               IF folderOf[d] \in found[r] THEN Root ELSE folderOf[d]]
    BY <1>2
  <1>3. QED
    BY <1>1, <1>2, DestroyedFolders

LEMMA InitType == Init => TypeInv
  <1> SUFFICES ASSUME Init PROVE TypeInv
    OBVIOUS
  <1>1. /\ parent \in [DOMAIN parent -> FolderId \union {Root}]
        /\ DOMAIN parent \subseteq FolderId
    BY TreesAssumption DEF Init, IsTree, FolderId
  <1>2. /\ folderOf \in [DOMAIN folderOf -> FolderId \union {Root}]
        /\ DOMAIN folderOf \subseteq Docs
    BY <1>1 DEF Init
  <1>3. /\ dataOf \in [Docs -> Data \union {Root}]
        /\ mine \subseteq Folders \union Docs
        /\ onDelete \in Actions
        /\ documentDeleted \in BOOLEAN
    BY DEF Init
  <1>4. TypeOK
    BY <1>1, <1>2, <1>3, PoolAssumption DEF Init, TypeOK
  <1>5. Control
    BY DEF Init, Control, Holds, InTransaction, Deleting, NoBody
  <1>6. QED
    BY <1>4, <1>5 DEF TypeInv

LEMMA NextType == TypeInv /\ [Next]_vars => TypeInv'
  <1> SUFFICES ASSUME TypeInv, [Next]_vars PROVE TypeInv'
    OBVIOUS
  <1> USE DEF TypeInv, TypeOK, Control, Holds, Outer, Deleting, InTransaction,
        Running, Finished, Goto, NoBody, tables, config, pool, locals, history
  <1>1. ASSUME NEW r \in Requests, DeleteFolder(r)
        PROVE  TypeInv'
    BY <1>1, BodyFields DEF DeleteFolder, Receive
  <1>2. ASSUME NEW r \in Requests, Begin(r)
        PROVE  TypeInv'
    BY <1>2, BodyFields DEF Begin, Acquire
  <1>3. ASSUME NEW r \in Requests, FindFolder(r)
        PROVE  TypeInv'
    BY <1>3, BodyFields DEF FindFolder, Release
  <1>4. ASSUME NEW r \in Requests, FindSubfolders(r)
        PROVE  TypeInv'
    BY <1>4, BodyFields DEF FindSubfolders
  <1>5. ASSUME NEW r \in Requests, FindDocuments(r)
        PROVE  TypeInv'
    BY <1>5, BodyFields DEF FindDocuments
  <1>6. ASSUME NEW r \in Requests, DeleteDocument(r)
        PROVE  TypeInv'
    BY <1>6, BodyFields DEF DeleteDocument, Receive
  <1>7. ASSUME NEW r \in Requests, LoadDocument(r)
        PROVE  TypeInv'
    <2>1. PICK d \in left[r] :
              /\ Loads(r, d)
              /\ current' = [current EXCEPT ![r] = d]
              /\ left' = [left EXCEPT ![r] = @ \ {d}]
      BY <1>7 DEF LoadDocument
    <2>2. d \in Docs
      OBVIOUS
    <2>3. TypeOK'
      BY <1>7, <2>1, <2>2 DEF LoadDocument, Acquire
    <2>4. d \in listed[r] \intersect mine
      BY <1>7, <2>1, <2>2 DEF Loads
    <2>5. Control'
      BY <1>7, <2>1, <2>4 DEF LoadDocument, Acquire
    <2>6. QED
      BY <2>3, <2>5
  <1>8. ASSUME NEW r \in Requests, MissDocument(r)
        PROVE  TypeInv'
    BY <1>8, BodyFields DEF MissDocument, Loads
  <1>9. ASSUME NEW r \in Requests, ReadMeta(r)
        PROVE  TypeInv'
    BY <1>9, BodyFields DEF ReadMeta
  <1>10. ASSUME NEW r \in Requests, Destroy(r)
        PROVE  TypeInv'
    BY <1>10, Destroys DEF RollbackDocument, Release
  <1>11. ASSUME NEW r \in Requests, Commit(r)
        PROVE  TypeInv'
    BY <1>11, BodyFields DEF Commit, Release
  <1>12. ASSUME NEW r \in Requests, EndDocument(r)
        PROVE  TypeInv'
    BY <1>12, BodyFields DEF EndDocument
  <1>13. ASSUME NEW r \in Requests, EndPartly(r)
        PROVE  TypeInv'
    BY <1>13, BodyFields DEF EndPartly
  <1>14. ASSUME NEW r \in Requests, DestroyFolders(r)
        PROVE  TypeInv'
    <2>1. held' = [held EXCEPT ![r] = 0] /\ free' \in Nat
      BY <1>14, DestroysFolders DEF Release
    <2>2. TypeOK'
      BY <1>14, <2>1, DestroysFolders, DestroyedTypes
    <2>3. Control'
      BY <1>14, <2>1, DestroysFolders
    <2>4. QED
      BY <2>2, <2>3
  <1>15. ASSUME NEW r \in Requests, AddDocumentToFolder(r)
        PROVE  TypeInv'
    BY <1>15, BodyFields DEF AddDocumentToFolder, Receive
  <1>16. ASSUME NEW r \in Requests, BeginUpdate(r)
        PROVE  TypeInv'
    BY <1>16, BodyFields DEF BeginUpdate, Acquire
  <1>17. ASSUME NEW r \in Requests, Update(r)
        PROVE  TypeInv'
    <2>1. body[r] \in Bodies /\ body[r].folder \in Folders
      BY <1>17, BodyFields DEF Update
    <2>2. /\ folderOf' \in [DOMAIN folderOf' -> FolderId \union {Root}]
          /\ DOMAIN folderOf' \subseteq Docs
      BY <1>17, <2>1 DEF Update, FolderId
    <2>3. disturbed' \subseteq Requests
      BY <1>17 DEF Update, Active
    <2>4. TypeOK'
      BY <1>17, <2>2, <2>3 DEF Update, Release
    <2>5. Control'
      BY <1>17 DEF Update, Release
    <2>6. QED
      BY <2>4, <2>5
  <1>18. ASSUME NEW r \in Requests, CreateFolder(r)
        PROVE  TypeInv'
    BY <1>18, BodyFields DEF CreateFolder, Receive
  <1>19. ASSUME NEW r \in Requests, Create(r)
        PROVE  TypeInv'
    <2>1. body[r] \in Bodies /\ body[r].folder \in Folders
      BY <1>19, BodyFields DEF Create
    <2>2. /\ parent' \in [DOMAIN parent' -> FolderId \union {Root}]
          /\ DOMAIN parent' \subseteq FolderId
      BY <1>19, <2>1 DEF Create, FolderId
    <2>3. disturbed' \subseteq Requests
      BY <1>19 DEF Create, Active
    <2>4. TypeOK'
      BY <1>19, <2>2, <2>3 DEF Create
    <2>5. Control'
      BY <1>19 DEF Create
    <2>6. QED
      BY <2>4, <2>5
  <1>20. ASSUME NEW r \in Requests, TimeOutRequest(r)
        PROVE  TypeInv'
    BY <1>20, BodyFields DEF TimeOutRequest
  <1>21. ASSUME NEW r \in Requests, TimeOutDocument(r)
        PROVE  TypeInv'
    BY <1>21, BodyFields DEF TimeOutDocument
  <1>22. ASSUME NEW r \in Requests, TimeOutMeta(r)
        PROVE  TypeInv'
    BY <1>22, BodyFields DEF TimeOutMeta, RollbackDocument, Release
  <1>23. ASSUME NEW r \in Requests, FailDocument(r)
        PROVE  TypeInv'
    BY <1>23, BodyFields DEF FailDocument, RollbackDocument, Release,
       InTransaction
  <1>24. ASSUME NEW r \in Requests, FailFolder(r)
        PROVE  TypeInv'
    BY <1>24, BodyFields DEF FailFolder, Release
  <1>25. CASE UNCHANGED vars
    BY <1>25 DEF vars
  <1>26. QED
    BY <1>1, <1>2, <1>3, <1>4, <1>5, <1>6, <1>7, <1>8, <1>9, <1>10, <1>11,
       <1>12, <1>13, <1>14, <1>15, <1>16, <1>17, <1>18, <1>19, <1>20, <1>21,
       <1>22, <1>23, <1>24, <1>25 DEF Next, Step, TimeOut, Terminated

\* The rows, the pool and the handlers' variables always have their types.
THEOREM TypeCorrect == Spec => []TypeOK
  <1>1. Spec => []TypeInv  BY InitType, NextType, PTL DEF Spec
  <1>2. TypeInv => TypeOK  BY DEF TypeInv
  <1>3. QED  BY <1>1, <1>2, PTL

-----------------------------------------------------------------------------
(* Whose documents are deleted, and what their recipients are told *)

LEMMA InitOthers == Init => OthersKept
  BY DEF Init, OthersKept

LEMMA NextOthers == TypeInv /\ OthersKept /\ [Next]_vars => OthersKept'
  <1> SUFFICES ASSUME TypeInv /\ OthersKept, [Next]_vars PROVE OthersKept'
    OBVIOUS
  <1> USE DEF TypeInv, TypeOK, Control, InTransaction, OthersKept, Goto,
        tables, config, pool, locals, history
  <1>1. ASSUME NEW r \in Requests, DeleteFolder(r)
        PROVE  OthersKept'
    BY <1>1 DEF DeleteFolder, Receive
  <1>2. ASSUME NEW r \in Requests, Begin(r)
        PROVE  OthersKept'
    BY <1>2 DEF Begin, Acquire
  <1>3. ASSUME NEW r \in Requests, FindFolder(r)
        PROVE  OthersKept'
    BY <1>3 DEF FindFolder, Release
  <1>4. ASSUME NEW r \in Requests, FindSubfolders(r)
        PROVE  OthersKept'
    BY <1>4 DEF FindSubfolders
  <1>5. ASSUME NEW r \in Requests, FindDocuments(r)
        PROVE  OthersKept'
    BY <1>5 DEF FindDocuments
  <1>6. ASSUME NEW r \in Requests, DeleteDocument(r)
        PROVE  OthersKept'
    BY <1>6 DEF DeleteDocument, Receive
  <1>7. ASSUME NEW r \in Requests, LoadDocument(r)
        PROVE  OthersKept'
    BY <1>7 DEF LoadDocument, Acquire, Loads
  <1>8. ASSUME NEW r \in Requests, MissDocument(r)
        PROVE  OthersKept'
    BY <1>8 DEF MissDocument, Loads
  <1>9. ASSUME NEW r \in Requests, ReadMeta(r)
        PROVE  OthersKept'
    BY <1>9 DEF ReadMeta
  <1>10. ASSUME NEW r \in Requests, Destroy(r)
        PROVE  OthersKept'
    BY <1>10, Destroys DEF RollbackDocument, Release
  <1>11. ASSUME NEW r \in Requests, Commit(r)
        PROVE  OthersKept'
    BY <1>11 DEF Commit, Release
  <1>12. ASSUME NEW r \in Requests, EndDocument(r)
        PROVE  OthersKept'
    BY <1>12 DEF EndDocument
  <1>13. ASSUME NEW r \in Requests, EndPartly(r)
        PROVE  OthersKept'
    BY <1>13 DEF EndPartly
  <1>14. ASSUME NEW r \in Requests, DestroyFolders(r)
        PROVE  OthersKept'
    BY <1>14, DestroysFolders, DestroyedFolders DEF Release
  <1>15. ASSUME NEW r \in Requests, AddDocumentToFolder(r)
        PROVE  OthersKept'
    BY <1>15 DEF AddDocumentToFolder, Receive
  <1>16. ASSUME NEW r \in Requests, BeginUpdate(r)
        PROVE  OthersKept'
    BY <1>16 DEF BeginUpdate, Acquire
  <1>17. ASSUME NEW r \in Requests, Update(r)
        PROVE  OthersKept'
    BY <1>17 DEF Update, Release
  <1>18. ASSUME NEW r \in Requests, CreateFolder(r)
        PROVE  OthersKept'
    BY <1>18 DEF CreateFolder, Receive
  <1>19. ASSUME NEW r \in Requests, Create(r)
        PROVE  OthersKept'
    BY <1>19 DEF Create
  <1>20. ASSUME NEW r \in Requests, TimeOutRequest(r)
        PROVE  OthersKept'
    BY <1>20 DEF TimeOutRequest
  <1>21. ASSUME NEW r \in Requests, TimeOutDocument(r)
        PROVE  OthersKept'
    BY <1>21 DEF TimeOutDocument
  <1>22. ASSUME NEW r \in Requests, TimeOutMeta(r)
        PROVE  OthersKept'
    BY <1>22 DEF TimeOutMeta, RollbackDocument, Release
  <1>23. ASSUME NEW r \in Requests, FailDocument(r)
        PROVE  OthersKept'
    BY <1>23 DEF FailDocument, RollbackDocument, Release, InTransaction
  <1>24. ASSUME NEW r \in Requests, FailFolder(r)
        PROVE  OthersKept'
    BY <1>24 DEF FailFolder, Release
  <1>25. CASE UNCHANGED vars
    BY <1>25 DEF vars
  <1>26. QED
    BY <1>1, <1>2, <1>3, <1>4, <1>5, <1>6, <1>7, <1>8, <1>9, <1>10, <1>11,
       <1>12, <1>13, <1>14, <1>15, <1>16, <1>17, <1>18, <1>19, <1>20, <1>21,
       <1>22, <1>23, <1>24, <1>25 DEF Next, Step, TimeOut, Terminated

\* A document of another user is never deleted.
THEOREM OthersSafe == Spec => []OthersKept
  <1>1. Spec => [](TypeInv /\ OthersKept)
    BY InitType, NextType, InitOthers, NextOthers, PTL DEF Spec
  <1>2. QED  BY <1>1, PTL

\* The mails precede the deletion.
Told == documentDeleted =>
    /\ Docs \ DOMAIN folderOf \subseteq mailed
    /\ \A r \in Requests : pc[r] \in {"destroy", "commit"} => current[r] \in mailed

LEMMA InitTold == Init => Told
  BY DEF Init, Told

LEMMA NextTold == TypeInv /\ Told /\ [Next]_vars => Told'
  <1> SUFFICES ASSUME TypeInv /\ Told, [Next]_vars PROVE Told'
    OBVIOUS
  <1> USE DEF TypeInv, TypeOK, Told, Goto, tables, config, pool, locals, history
  <1>1. ASSUME NEW r \in Requests, DeleteFolder(r)
        PROVE  Told'
    BY <1>1 DEF DeleteFolder, Receive
  <1>2. ASSUME NEW r \in Requests, Begin(r)
        PROVE  Told'
    BY <1>2 DEF Begin, Acquire
  <1>3. ASSUME NEW r \in Requests, FindFolder(r)
        PROVE  Told'
    BY <1>3 DEF FindFolder, Release
  <1>4. ASSUME NEW r \in Requests, FindSubfolders(r)
        PROVE  Told'
    BY <1>4 DEF FindSubfolders
  <1>5. ASSUME NEW r \in Requests, FindDocuments(r)
        PROVE  Told'
    BY <1>5 DEF FindDocuments
  <1>6. ASSUME NEW r \in Requests, DeleteDocument(r)
        PROVE  Told'
    BY <1>6 DEF DeleteDocument, Receive
  <1>7. ASSUME NEW r \in Requests, LoadDocument(r)
        PROVE  Told'
    BY <1>7 DEF LoadDocument, Acquire, Loads
  <1>8. ASSUME NEW r \in Requests, MissDocument(r)
        PROVE  Told'
    BY <1>8 DEF MissDocument, Loads
  <1>9. ASSUME NEW r \in Requests, ReadMeta(r)
        PROVE  Told'
    BY <1>9 DEF ReadMeta
  <1>10. ASSUME NEW r \in Requests, Destroy(r)
        PROVE  Told'
    BY <1>10, Destroys DEF RollbackDocument, Release
  <1>11. ASSUME NEW r \in Requests, Commit(r)
        PROVE  Told'
    BY <1>11 DEF Commit, Release
  <1>12. ASSUME NEW r \in Requests, EndDocument(r)
        PROVE  Told'
    BY <1>12 DEF EndDocument
  <1>13. ASSUME NEW r \in Requests, EndPartly(r)
        PROVE  Told'
    BY <1>13 DEF EndPartly
  <1>14. ASSUME NEW r \in Requests, DestroyFolders(r)
        PROVE  Told'
    BY <1>14, DestroysFolders, DestroyedFolders DEF Release
  <1>15. ASSUME NEW r \in Requests, AddDocumentToFolder(r)
        PROVE  Told'
    BY <1>15 DEF AddDocumentToFolder, Receive
  <1>16. ASSUME NEW r \in Requests, BeginUpdate(r)
        PROVE  Told'
    BY <1>16 DEF BeginUpdate, Acquire
  <1>17. ASSUME NEW r \in Requests, Update(r)
        PROVE  Told'
    BY <1>17 DEF Update, Release
  <1>18. ASSUME NEW r \in Requests, CreateFolder(r)
        PROVE  Told'
    BY <1>18 DEF CreateFolder, Receive
  <1>19. ASSUME NEW r \in Requests, Create(r)
        PROVE  Told'
    BY <1>19 DEF Create
  <1>20. ASSUME NEW r \in Requests, TimeOutRequest(r)
        PROVE  Told'
    BY <1>20 DEF TimeOutRequest
  <1>21. ASSUME NEW r \in Requests, TimeOutDocument(r)
        PROVE  Told'
    BY <1>21 DEF TimeOutDocument
  <1>22. ASSUME NEW r \in Requests, TimeOutMeta(r)
        PROVE  Told'
    BY <1>22 DEF TimeOutMeta, RollbackDocument, Release
  <1>23. ASSUME NEW r \in Requests, FailDocument(r)
        PROVE  Told'
    BY <1>23 DEF FailDocument, RollbackDocument, Release, InTransaction
  <1>24. ASSUME NEW r \in Requests, FailFolder(r)
        PROVE  Told'
    BY <1>24 DEF FailFolder, Release
  <1>25. CASE UNCHANGED vars
    BY <1>25 DEF vars
  <1>26. QED
    BY <1>1, <1>2, <1>3, <1>4, <1>5, <1>6, <1>7, <1>8, <1>9, <1>10, <1>11,
       <1>12, <1>13, <1>14, <1>15, <1>16, <1>17, <1>18, <1>19, <1>20, <1>21,
       <1>22, <1>23, <1>24, <1>25 DEF Next, Step, TimeOut, Terminated

\* No document disappears unless its recipients were told.
THEOREM ToldSafe == Spec => []GoneMeansTold
  <1>1. Spec => [](TypeInv /\ Told)
    BY InitType, NextType, InitTold, NextTold, PTL DEF Spec
  <1>2. Told => GoneMeansTold
    BY DEF Told, GoneMeansTold
  <1>3. QED  BY <1>1, <1>2, PTL

-----------------------------------------------------------------------------
(* What is gone when a deletion succeeds *)

\* A document that was read is still to be deleted, being deleted, counted as
\* failed, or gone.
Processed ==
    \A r \in Requests : \A d \in listed[r] \intersect DOMAIN folderOf :
        \/ d \in left[r] \/ d \in failed[r]
        \/ pc[r] \in InTransaction /\ d = current[r]

LEMMA InitProcessed == Init => Processed
  BY DEF Init, Processed

LEMMA NextProcessed == TypeInv /\ Processed /\ [Next]_vars => Processed'
  <1> SUFFICES ASSUME TypeInv /\ Processed, [Next]_vars PROVE Processed'
    OBVIOUS
  <1> USE DEF TypeInv, TypeOK, Control, Deleting, InTransaction, Processed,
        Goto, tables, config, pool, locals, history
  <1>1. ASSUME NEW r \in Requests, DeleteFolder(r)
        PROVE  Processed'
    BY <1>1 DEF DeleteFolder, Receive
  <1>2. ASSUME NEW r \in Requests, Begin(r)
        PROVE  Processed'
    BY <1>2 DEF Begin, Acquire
  <1>3. ASSUME NEW r \in Requests, FindFolder(r)
        PROVE  Processed'
    BY <1>3 DEF FindFolder, Release
  <1>4. ASSUME NEW r \in Requests, FindSubfolders(r)
        PROVE  Processed'
    BY <1>4 DEF FindSubfolders
  <1>5. ASSUME NEW r \in Requests, FindDocuments(r)
        PROVE  Processed'
    BY <1>5 DEF FindDocuments
  <1>6. ASSUME NEW r \in Requests, DeleteDocument(r)
        PROVE  Processed'
    BY <1>6 DEF DeleteDocument, Receive
  <1>7. ASSUME NEW r \in Requests, LoadDocument(r)
        PROVE  Processed'
    BY <1>7 DEF LoadDocument, Acquire, Loads
  <1>8. ASSUME NEW r \in Requests, MissDocument(r)
        PROVE  Processed'
    BY <1>8 DEF MissDocument, Loads
  <1>9. ASSUME NEW r \in Requests, ReadMeta(r)
        PROVE  Processed'
    BY <1>9 DEF ReadMeta
  <1>10. ASSUME NEW r \in Requests, Destroy(r)
        PROVE  Processed'
    BY <1>10, Destroys DEF RollbackDocument, Release
  <1>11. ASSUME NEW r \in Requests, Commit(r)
        PROVE  Processed'
    BY <1>11 DEF Commit, Release
  <1>12. ASSUME NEW r \in Requests, EndDocument(r)
        PROVE  Processed'
    BY <1>12 DEF EndDocument
  <1>13. ASSUME NEW r \in Requests, EndPartly(r)
        PROVE  Processed'
    BY <1>13 DEF EndPartly
  <1>14. ASSUME NEW r \in Requests, DestroyFolders(r)
        PROVE  Processed'
    BY <1>14, DestroysFolders, DestroyedRows
  <1>15. ASSUME NEW r \in Requests, AddDocumentToFolder(r)
        PROVE  Processed'
    BY <1>15 DEF AddDocumentToFolder, Receive
  <1>16. ASSUME NEW r \in Requests, BeginUpdate(r)
        PROVE  Processed'
    BY <1>16 DEF BeginUpdate, Acquire
  <1>17. ASSUME NEW r \in Requests, Update(r)
        PROVE  Processed'
    BY <1>17 DEF Update, Release
  <1>18. ASSUME NEW r \in Requests, CreateFolder(r)
        PROVE  Processed'
    BY <1>18 DEF CreateFolder, Receive
  <1>19. ASSUME NEW r \in Requests, Create(r)
        PROVE  Processed'
    BY <1>19 DEF Create
  <1>20. ASSUME NEW r \in Requests, TimeOutRequest(r)
        PROVE  Processed'
    BY <1>20 DEF TimeOutRequest
  <1>21. ASSUME NEW r \in Requests, TimeOutDocument(r)
        PROVE  Processed'
    BY <1>21 DEF TimeOutDocument
  <1>22. ASSUME NEW r \in Requests, TimeOutMeta(r)
        PROVE  Processed'
    BY <1>22 DEF TimeOutMeta, RollbackDocument, Release
  <1>23. ASSUME NEW r \in Requests, FailDocument(r)
        PROVE  Processed'
    BY <1>23 DEF FailDocument, RollbackDocument, Release, InTransaction
  <1>24. ASSUME NEW r \in Requests, FailFolder(r)
        PROVE  Processed'
    BY <1>24 DEF FailFolder, Release
  <1>25. CASE UNCHANGED vars
    BY <1>25 DEF vars
  <1>26. QED
    BY <1>1, <1>2, <1>3, <1>4, <1>5, <1>6, <1>7, <1>8, <1>9, <1>10, <1>11,
       <1>12, <1>13, <1>14, <1>15, <1>16, <1>17, <1>18, <1>19, <1>20, <1>21,
       <1>22, <1>23, <1>24, <1>25 DEF Next, Step, TimeOut, Terminated

Created == {r \in Requests : pc[r] = "done" /\ body[r].op = "createFolder"}

\* The folders that exist, or were read, are not yet to be created.
Known ==
    /\ DOMAIN parent \subseteq Folders \union Created
    /\ \A r \in Requests : found[r] \subseteq Folders \union Created

LEMMA InitKnown == Init => Known
  BY TreesAssumption DEF Init, Known, IsTree

LEMMA NextKnown == TypeInv /\ Known /\ [Next]_vars => Known'
  <1> SUFFICES ASSUME TypeInv /\ Known, [Next]_vars PROVE Known'
    OBVIOUS
  <1> USE DEF TypeInv, TypeOK, Control, Deleting, InTransaction, Known,
        Created, NoBody, Goto, tables, config, pool, locals, history
  <1>1. ASSUME NEW r \in Requests, DeleteFolder(r)
        PROVE  Known'
    BY <1>1 DEF DeleteFolder, Receive
  <1>2. ASSUME NEW r \in Requests, Begin(r)
        PROVE  Known'
    BY <1>2 DEF Begin, Acquire
  <1>3. ASSUME NEW r \in Requests, FindFolder(r)
        PROVE  Known'
    BY <1>3 DEF FindFolder, Release
  <1>4. ASSUME NEW r \in Requests, FindSubfolders(r)
        PROVE  Known'
    BY <1>4 DEF FindSubfolders
  <1>5. ASSUME NEW r \in Requests, FindDocuments(r)
        PROVE  Known'
    BY <1>5 DEF FindDocuments
  <1>6. ASSUME NEW r \in Requests, DeleteDocument(r)
        PROVE  Known'
    BY <1>6 DEF DeleteDocument, Receive
  <1>7. ASSUME NEW r \in Requests, LoadDocument(r)
        PROVE  Known'
    BY <1>7 DEF LoadDocument, Acquire, Loads
  <1>8. ASSUME NEW r \in Requests, MissDocument(r)
        PROVE  Known'
    BY <1>8 DEF MissDocument, Loads
  <1>9. ASSUME NEW r \in Requests, ReadMeta(r)
        PROVE  Known'
    BY <1>9 DEF ReadMeta
  <1>10. ASSUME NEW r \in Requests, Destroy(r)
        PROVE  Known'
    BY <1>10, Destroys DEF RollbackDocument, Release
  <1>11. ASSUME NEW r \in Requests, Commit(r)
        PROVE  Known'
    BY <1>11 DEF Commit, Release
  <1>12. ASSUME NEW r \in Requests, EndDocument(r)
        PROVE  Known'
    BY <1>12 DEF EndDocument
  <1>13. ASSUME NEW r \in Requests, EndPartly(r)
        PROVE  Known'
    BY <1>13 DEF EndPartly
  <1>14. ASSUME NEW r \in Requests, DestroyFolders(r)
        PROVE  Known'
    BY <1>14, DestroysFolders, DestroyedRows
  <1>15. ASSUME NEW r \in Requests, AddDocumentToFolder(r)
        PROVE  Known'
    BY <1>15 DEF AddDocumentToFolder, Receive
  <1>16. ASSUME NEW r \in Requests, BeginUpdate(r)
        PROVE  Known'
    BY <1>16 DEF BeginUpdate, Acquire
  <1>17. ASSUME NEW r \in Requests, Update(r)
        PROVE  Known'
    BY <1>17 DEF Update, Release
  <1>18. ASSUME NEW r \in Requests, CreateFolder(r)
        PROVE  Known'
    BY <1>18 DEF CreateFolder, Receive
  <1>19. ASSUME NEW r \in Requests, Create(r)
        PROVE  Known'
    BY <1>19 DEF Create
  <1>20. ASSUME NEW r \in Requests, TimeOutRequest(r)
        PROVE  Known'
    BY <1>20 DEF TimeOutRequest
  <1>21. ASSUME NEW r \in Requests, TimeOutDocument(r)
        PROVE  Known'
    BY <1>21 DEF TimeOutDocument
  <1>22. ASSUME NEW r \in Requests, TimeOutMeta(r)
        PROVE  Known'
    BY <1>22 DEF TimeOutMeta, RollbackDocument, Release
  <1>23. ASSUME NEW r \in Requests, FailDocument(r)
        PROVE  Known'
    BY <1>23 DEF FailDocument, RollbackDocument, Release, InTransaction
  <1>24. ASSUME NEW r \in Requests, FailFolder(r)
        PROVE  Known'
    BY <1>24 DEF FailFolder, Release
  <1>25. CASE UNCHANGED vars
    BY <1>25 DEF vars
  <1>26. QED
    BY <1>1, <1>2, <1>3, <1>4, <1>5, <1>6, <1>7, <1>8, <1>9, <1>10, <1>11,
       <1>12, <1>13, <1>14, <1>15, <1>16, <1>17, <1>18, <1>19, <1>20, <1>21,
       <1>22, <1>23, <1>24, <1>25 DEF Next, Step, TimeOut, Terminated

\* A deletion that succeeded left out nothing, and its folders are gone.
Succeeded ==
    \A r \in Requests :
        /\ body[r].op # "deleteFolder" => found[r] = {}
        /\ pc[r] = "done" /\ body[r].op \in {"deleteFolder", "deleteDocument"}
               => /\ left[r] = {} /\ failed[r] = {}
                  /\ found[r] \intersect DOMAIN parent = {}

LEMMA InitSucceeded == Init => Succeeded
  BY DEF Init, Succeeded

LEMMA NextSucceeded ==
    TypeInv /\ Known /\ Succeeded /\ [Next]_vars => Succeeded'
  <1> SUFFICES ASSUME TypeInv /\ Known /\ Succeeded, [Next]_vars
             PROVE Succeeded'
    OBVIOUS
  <1> USE DEF TypeInv, TypeOK, Control, Deleting, InTransaction, NoBody,
        Succeeded, Goto, tables, config, pool, locals, history
  <1>1. ASSUME NEW r \in Requests, DeleteFolder(r)
        PROVE  Succeeded'
    BY <1>1 DEF DeleteFolder, Receive
  <1>2. ASSUME NEW r \in Requests, Begin(r)
        PROVE  Succeeded'
    BY <1>2 DEF Begin, Acquire
  <1>3. ASSUME NEW r \in Requests, FindFolder(r)
        PROVE  Succeeded'
    BY <1>3 DEF FindFolder, Release
  <1>4. ASSUME NEW r \in Requests, FindSubfolders(r)
        PROVE  Succeeded'
    BY <1>4 DEF FindSubfolders
  <1>5. ASSUME NEW r \in Requests, FindDocuments(r)
        PROVE  Succeeded'
    BY <1>5 DEF FindDocuments
  <1>6. ASSUME NEW r \in Requests, DeleteDocument(r)
        PROVE  Succeeded'
    BY <1>6 DEF DeleteDocument, Receive
  <1>7. ASSUME NEW r \in Requests, LoadDocument(r)
        PROVE  Succeeded'
    BY <1>7 DEF LoadDocument, Acquire, Loads
  <1>8. ASSUME NEW r \in Requests, MissDocument(r)
        PROVE  Succeeded'
    BY <1>8 DEF MissDocument, Loads
  <1>9. ASSUME NEW r \in Requests, ReadMeta(r)
        PROVE  Succeeded'
    BY <1>9 DEF ReadMeta
  <1>10. ASSUME NEW r \in Requests, Destroy(r)
        PROVE  Succeeded'
    BY <1>10, Destroys DEF RollbackDocument, Release
  <1>11. ASSUME NEW r \in Requests, Commit(r)
        PROVE  Succeeded'
    BY <1>11 DEF Commit, Release
  <1>12. ASSUME NEW r \in Requests, EndDocument(r)
        PROVE  Succeeded'
    BY <1>12 DEF EndDocument
  <1>13. ASSUME NEW r \in Requests, EndPartly(r)
        PROVE  Succeeded'
    BY <1>13 DEF EndPartly
  <1>14. ASSUME NEW r \in Requests, DestroyFolders(r)
        PROVE  Succeeded'
    BY <1>14, DestroysFolders, DestroyedRows
  <1>15. ASSUME NEW r \in Requests, AddDocumentToFolder(r)
        PROVE  Succeeded'
    BY <1>15 DEF AddDocumentToFolder, Receive
  <1>16. ASSUME NEW r \in Requests, BeginUpdate(r)
        PROVE  Succeeded'
    BY <1>16 DEF BeginUpdate, Acquire
  <1>17. ASSUME NEW r \in Requests, Update(r)
        PROVE  Succeeded'
    BY <1>17 DEF Update, Release
  <1>18. ASSUME NEW r \in Requests, CreateFolder(r)
        PROVE  Succeeded'
    BY <1>18 DEF CreateFolder, Receive
  <1>19. ASSUME NEW r \in Requests, Create(r)
        PROVE  Succeeded'
    <2>1. r \notin Folders \union Created
      BY <1>19, IdsAssumption DEF Create, Created
    <2>2. DOMAIN parent' \subseteq DOMAIN parent \union {r}
      BY <1>19 DEF Create
    <2>3. \A q \in Requests : r \notin found[q]
      BY <2>1 DEF Known
    <2>4. /\ UNCHANGED <<body, found, left, failed>>
          /\ \A q \in Requests : pc'[q] = "done" => pc[q] = "done" \/ q = r
          /\ body[r].op = "createFolder"
      BY <1>19 DEF Create
    <2>5. QED
      BY <2>2, <2>3, <2>4
  <1>20. ASSUME NEW r \in Requests, TimeOutRequest(r)
        PROVE  Succeeded'
    BY <1>20 DEF TimeOutRequest
  <1>21. ASSUME NEW r \in Requests, TimeOutDocument(r)
        PROVE  Succeeded'
    BY <1>21 DEF TimeOutDocument
  <1>22. ASSUME NEW r \in Requests, TimeOutMeta(r)
        PROVE  Succeeded'
    BY <1>22 DEF TimeOutMeta, RollbackDocument, Release
  <1>23. ASSUME NEW r \in Requests, FailDocument(r)
        PROVE  Succeeded'
    BY <1>23 DEF FailDocument, RollbackDocument, Release, InTransaction
  <1>24. ASSUME NEW r \in Requests, FailFolder(r)
        PROVE  Succeeded'
    BY <1>24 DEF FailFolder, Release
  <1>25. CASE UNCHANGED vars
    BY <1>25 DEF vars
  <1>26. QED
    BY <1>1, <1>2, <1>3, <1>4, <1>5, <1>6, <1>7, <1>8, <1>9, <1>10, <1>11,
       <1>12, <1>13, <1>14, <1>15, <1>16, <1>17, <1>18, <1>19, <1>20, <1>21,
       <1>22, <1>23, <1>24, <1>25 DEF Next, Step, TimeOut, Terminated

\* A deletion that answers success has deleted all that it read.
THEOREM SuccessSafe == Spec => []SuccessDeletesTree
  <1> DEFINE Inv == TypeInv /\ Processed /\ Known /\ Succeeded
  <1>1. Init => Inv
    BY InitType, InitProcessed, InitKnown, InitSucceeded
  <1>2. Inv /\ [Next]_vars => Inv'
    BY NextType, NextProcessed, NextKnown, NextSucceeded
  <1>3. Inv => SuccessDeletesTree
    BY DEF Processed, Succeeded, SuccessDeletesTree, InTransaction
  <1>4. QED
    BY <1>1, <1>2, <1>3, PTL DEF Spec

-----------------------------------------------------------------------------
(* What a deletion has read of the tree *)

\* While nothing is put into a folder, a deletion misses neither a subfolder of
\* a folder that it has read, nor a document in one.
Closed ==
    \A r \in Requests \ disturbed :
        /\ pc[r] = "subfolders" =>
               \A g \in DOMAIN parent : parent[g] \in found[r] =>
                   g \in found[r] \/ parent[g] \in todo[r]
        /\ pc[r] \in Deleting /\ body[r].op = "deleteFolder" =>
               /\ \A g \in DOMAIN parent : parent[g] \in found[r] => g \in found[r]
               /\ \A d \in DOMAIN folderOf : folderOf[d] \in found[r] => d \in listed[r]
        /\ pc[r] # "conflict"

LEMMA InitClosed == Init => Closed
  BY DEF Init, Closed, Deleting, InTransaction

\* Without an addition nothing refers to the folders that are to be destroyed.
LEMMA UndisturbedUnreferenced ==
    ASSUME NEW r \in Requests \ disturbed, Processed, Closed,
           pc[r] = "documents", body[r].op = "deleteFolder", left[r] = {}, failed[r] = {}
    PROVE  ~Referenced(r)
  <1>1. pc[r] \in Deleting
    BY DEF Deleting
  <1>2. listed[r] \intersect DOMAIN folderOf = {}
    BY DEF Processed, InTransaction
  <1>3. \A g \in DOMAIN parent : parent[g] \in found[r] => g \in found[r]
    BY <1>1 DEF Closed
  <1>4. \A d \in DOMAIN folderOf : folderOf[d] \in found[r] => d \in listed[r]
    BY <1>1 DEF Closed
  <1>5. QED
    BY <1>2, <1>3, <1>4 DEF Referenced

LEMMA ConflictDisturbs ==
    ASSUME TypeOK, Processed, Closed, NEW r \in Requests, DestroyFolders(r),
           Goto(r, "conflict")
    PROVE  r \in disturbed
  <1>1. SUFFICES ASSUME r \notin disturbed PROVE FALSE
    OBVIOUS
  <1>2. ~Referenced(r)
    BY <1>1, DestroysFolders, UndisturbedUnreferenced
  <1>3. Goto(r, "done")
    BY <1>2, DestroysFolders
  <1>4. pc \in [Requests -> {"idle"} \union Running \union Finished]
    BY DEF TypeOK
  <1>5. QED
    BY <1>3, <1>4 DEF Goto

LEMMA NextClosed == TypeInv /\ Processed /\ Closed /\ [Next]_vars => Closed'
  <1> SUFFICES ASSUME TypeInv /\ Processed /\ Closed, [Next]_vars PROVE Closed'
    OBVIOUS
  <1> USE DEF TypeInv, TypeOK, Control, Deleting, InTransaction, Running,
        Closed, Goto, tables, config, pool, locals, history
  <1>1. ASSUME NEW r \in Requests, DeleteFolder(r)
        PROVE  Closed'
    BY <1>1 DEF DeleteFolder, Receive
  <1>2. ASSUME NEW r \in Requests, Begin(r)
        PROVE  Closed'
    BY <1>2 DEF Begin, Acquire
  <1>3. ASSUME NEW r \in Requests, FindFolder(r)
        PROVE  Closed'
    BY <1>3 DEF FindFolder, Release
  <1>4. ASSUME NEW r \in Requests, FindSubfolders(r)
        PROVE  Closed'
    BY <1>4 DEF FindSubfolders
  <1>5. ASSUME NEW r \in Requests, FindDocuments(r)
        PROVE  Closed'
    BY <1>5 DEF FindDocuments
  <1>6. ASSUME NEW r \in Requests, DeleteDocument(r)
        PROVE  Closed'
    BY <1>6 DEF DeleteDocument, Receive
  <1>7. ASSUME NEW r \in Requests, LoadDocument(r)
        PROVE  Closed'
    BY <1>7 DEF LoadDocument, Acquire, Loads
  <1>8. ASSUME NEW r \in Requests, MissDocument(r)
        PROVE  Closed'
    BY <1>8 DEF MissDocument, Loads
  <1>9. ASSUME NEW r \in Requests, ReadMeta(r)
        PROVE  Closed'
    BY <1>9 DEF ReadMeta
  <1>10. ASSUME NEW r \in Requests, Destroy(r)
        PROVE  Closed'
    BY <1>10, Destroys DEF RollbackDocument, Release
  <1>11. ASSUME NEW r \in Requests, Commit(r)
        PROVE  Closed'
    BY <1>11 DEF Commit, Release
  <1>12. ASSUME NEW r \in Requests, EndDocument(r)
        PROVE  Closed'
    BY <1>12 DEF EndDocument
  <1>13. ASSUME NEW r \in Requests, EndPartly(r)
        PROVE  Closed'
    BY <1>13 DEF EndPartly
  <1>14. ASSUME NEW r \in Requests, DestroyFolders(r)
        PROVE  Closed'
    <2>1. Root \notin found[r] /\ \A q \in Requests : Root \notin found[q]
      BY RootAssumption
    <2>2. Goto(r, "conflict") => r \in disturbed
      BY <1>14, ConflictDisturbs
    <2>3. /\ UNCHANGED <<body, todo, found, listed, disturbed>>
          /\ pc' = [pc EXCEPT ![r] = pc'[r]]
          /\ pc'[r] = "done" \/ (pc'[r] = "conflict" /\ r \in disturbed)
      BY <1>14, <2>2, DestroysFolders
    <2>4. /\ DOMAIN folderOf' = DOMAIN folderOf
          /\ \A d \in DOMAIN folderOf : folderOf'[d] \in {folderOf[d], Root}
          /\ DOMAIN parent' \subseteq DOMAIN parent
          /\ \A g \in DOMAIN parent' : parent'[g] \in {parent[g], Root}
      BY <1>14, DestroyedRows
    <2>5. QED
      BY <2>1, <2>3, <2>4
  <1>15. ASSUME NEW r \in Requests, AddDocumentToFolder(r)
        PROVE  Closed'
    BY <1>15 DEF AddDocumentToFolder, Receive
  <1>16. ASSUME NEW r \in Requests, BeginUpdate(r)
        PROVE  Closed'
    BY <1>16 DEF BeginUpdate, Acquire
  <1>17. ASSUME NEW r \in Requests, Update(r)
        PROVE  Closed'
    <2>1. CASE UNCHANGED <<folderOf, disturbed>>
      BY <1>17, <2>1 DEF Update
    <2>2. CASE disturbed' = disturbed \union Active
      <3>1. \A q \in Requests \ disturbed' : pc'[q] \notin Running \union {"conflict"}
        BY <1>17, <2>2 DEF Update, Active
      <3>2. QED
        BY <3>1
    <2>3. QED
      BY <1>17, <2>1, <2>2 DEF Update
  <1>18. ASSUME NEW r \in Requests, CreateFolder(r)
        PROVE  Closed'
    BY <1>18 DEF CreateFolder, Receive
  <1>19. ASSUME NEW r \in Requests, Create(r)
        PROVE  Closed'
    <2>1. CASE UNCHANGED <<parent, disturbed>>
      BY <1>19, <2>1 DEF Create
    <2>2. CASE disturbed' = disturbed \union Active
      <3>1. \A q \in Requests \ disturbed' : pc'[q] \notin Running \union {"conflict"}
        BY <1>19, <2>2 DEF Create, Active
      <3>2. QED
        BY <3>1
    <2>3. QED
      BY <1>19, <2>1, <2>2 DEF Create
  <1>20. ASSUME NEW r \in Requests, TimeOutRequest(r)
        PROVE  Closed'
    BY <1>20 DEF TimeOutRequest
  <1>21. ASSUME NEW r \in Requests, TimeOutDocument(r)
        PROVE  Closed'
    BY <1>21 DEF TimeOutDocument
  <1>22. ASSUME NEW r \in Requests, TimeOutMeta(r)
        PROVE  Closed'
    BY <1>22 DEF TimeOutMeta, RollbackDocument, Release
  <1>23. ASSUME NEW r \in Requests, FailDocument(r)
        PROVE  Closed'
    BY <1>23 DEF FailDocument, RollbackDocument, Release, InTransaction
  <1>24. ASSUME NEW r \in Requests, FailFolder(r)
        PROVE  Closed'
    BY <1>24 DEF FailFolder, Release
  <1>25. CASE UNCHANGED vars
    BY <1>25 DEF vars
  <1>26. QED
    BY <1>1, <1>2, <1>3, <1>4, <1>5, <1>6, <1>7, <1>8, <1>9, <1>10, <1>11,
       <1>12, <1>13, <1>14, <1>15, <1>16, <1>17, <1>18, <1>19, <1>20, <1>21,
       <1>22, <1>23, <1>24, <1>25 DEF Next, Step, TimeOut, Terminated

\* A deletion meets a row that refers to its folders only if something was put
\* into a folder while it ran.
THEOREM ConflictSafe == Spec => []ConflictNeedsAddition
  <1> DEFINE Inv == TypeInv /\ Processed /\ Closed
  <1>1. Init => Inv
    BY InitType, InitProcessed, InitClosed
  <1>2. Inv /\ [Next]_vars => Inv'
    BY NextType, NextProcessed, NextClosed
  <1>3. Inv => ConflictNeedsAddition
    BY DEF Closed, ConflictNeedsAddition
  <1>4. QED
    BY <1>1, <1>2, <1>3, PTL DEF Spec

-----------------------------------------------------------------------------
(* The pool *)

\* The requests that have come, and those that hold a connection, or two.
Started    == {r \in Requests : pc[r] # "idle"}
Holders    == {r \in Requests : held[r] >= 1}
HoldersOfTwo == {r \in Requests : held[r] = 2}

\* Every connection is free or held; only so many requests have come.
Counted ==
    /\ IsFiniteSet(Started)
    /\ IsFiniteSet(Holders) /\ IsFiniteSet(HoldersOfTwo)
    /\ free + Cardinality(Holders) + Cardinality(HoldersOfTwo) = MaxConnections

\* What one request's step does to the pool.
PoolStep(r) ==
    /\ \A q \in Requests \ {r} : pc'[q] = pc[q]
    /\ \/ UNCHANGED pool
       \/ Acquire(r) /\ held[r] \in 0..1
       \/ Release(r) /\ held[r] \in 1..2

LEMMA StepPool ==
    ASSUME TypeInv, [Next]_vars
    PROVE  UNCHANGED <<pc, pool>> \/ \E r \in Requests : PoolStep(r)
  <1> USE DEF TypeInv, TypeOK, Control, Holds, Outer, Deleting, InTransaction,
        Goto
  <1>1. ASSUME NEW r \in Requests, Begin(r) \/ LoadDocument(r) \/ BeginUpdate(r)
        PROVE  PoolStep(r)
    <2>1. /\ Acquire(r)
          /\ \A q \in Requests \ {r} : pc'[q] = pc[q]
          /\ pc[r] \in {"begin", "documents", "update"}
      BY <1>1 DEF Begin, LoadDocument, BeginUpdate
    <2>2. held[r] \in 0..1
      BY <2>1
    <2>3. QED  BY <2>1, <2>2 DEF PoolStep
  <1>2. ASSUME NEW r \in Requests, RollbackDocument(r), pc[r] \in InTransaction
        PROVE  PoolStep(r)
    <2>1. Release(r) /\ \A q \in Requests \ {r} : pc'[q] = pc[q]
      BY <1>2 DEF RollbackDocument
    <2>2. held[r] \in 1..2
      BY <1>2
    <2>3. QED  BY <2>1, <2>2 DEF PoolStep
  <1>3. ASSUME NEW r \in Requests, Destroy(r)
        PROVE  PoolStep(r)
    BY <1>2, <1>3, Destroys DEF PoolStep
  <1>4. ASSUME NEW r \in Requests, DestroyFolders(r)
        PROVE  PoolStep(r)
    <2>1. /\ pc[r] = "documents" /\ body[r].op = "deleteFolder" /\ Release(r)
          /\ \A q \in Requests \ {r} : pc'[q] = pc[q]
      BY <1>4, DestroysFolders
    <2>2. held[r] \in 1..2
      BY <2>1
    <2>3. QED  BY <2>1, <2>2 DEF PoolStep
  <1>5. ASSUME NEW r \in Requests, Commit(r) \/ Update(r) \/ FailFolder(r)
        PROVE  PoolStep(r)
    <2>1. /\ Release(r)
          /\ \A q \in Requests \ {r} : pc'[q] = pc[q]
          /\ \/ pc[r] \in {"commit", "updating", "findFolder", "subfolders"}
             \/ pc[r] = "documents" /\ body[r].op = "deleteFolder"
      BY <1>5 DEF Commit, Update, FailFolder
    <2>2. held[r] \in 1..2
      BY <2>1
    <2>3. QED  BY <2>1, <2>2 DEF PoolStep
  <1>6. ASSUME NEW r \in Requests, FindFolder(r)
        PROVE  PoolStep(r)
    <2>1. /\ Release(r) \/ UNCHANGED pool
          /\ \A q \in Requests \ {r} : pc'[q] = pc[q]
          /\ pc[r] = "findFolder"
      BY <1>6 DEF FindFolder
    <2>2. held[r] \in 1..2
      BY <2>1
    <2>3. QED  BY <2>1, <2>2 DEF PoolStep
  <1>7. ASSUME NEW r \in Requests, TimeOutMeta(r) \/ FailDocument(r)
        PROVE  PoolStep(r)
    BY <1>2, <1>7 DEF TimeOutMeta, FailDocument
  <1>8. ASSUME NEW r \in Requests,
               \/ DeleteFolder(r) \/ DeleteDocument(r)
               \/ AddDocumentToFolder(r) \/ CreateFolder(r)
               \/ FindSubfolders(r) \/ FindDocuments(r) \/ MissDocument(r)
               \/ ReadMeta(r) \/ EndDocument(r) \/ EndPartly(r) \/ Create(r)
               \/ TimeOutRequest(r) \/ TimeOutDocument(r)
        PROVE  PoolStep(r)
    BY <1>8 DEF PoolStep, DeleteFolder, DeleteDocument, AddDocumentToFolder,
       CreateFolder, FindSubfolders, FindDocuments, MissDocument, ReadMeta,
       EndDocument, EndPartly, Create, TimeOutRequest, TimeOutDocument
  <1>9. CASE UNCHANGED vars
    BY <1>9 DEF vars
  <1>10. QED
    BY <1>1, <1>3, <1>4, <1>5, <1>6, <1>7, <1>8, <1>9
    DEF Next, Step, TimeOut, Terminated

LEMMA InitCounted == Init => Counted
  <1> SUFFICES ASSUME Init PROVE Counted
    OBVIOUS
  <1>1. Started = {} /\ Holders = {} /\ HoldersOfTwo = {} /\ free = MaxConnections
    BY DEF Init, Started, Holders, HoldersOfTwo
  <1>2. IsFiniteSet({}) /\ Cardinality({}) = 0
    BY FS_EmptySet
  <1>3. QED  BY <1>1, <1>2, PoolAssumption DEF Counted

LEMMA AcquireCounts ==
    ASSUME TypeInv, Counted, NEW r \in Requests, Acquire(r), held[r] \in 0..1
    PROVE  /\ IsFiniteSet(Holders') /\ IsFiniteSet(HoldersOfTwo')
           /\ free' + Cardinality(Holders') + Cardinality(HoldersOfTwo')
                  = MaxConnections
  <1>1. held \in [Requests -> 0..2] /\ free \in Nat
    BY DEF TypeInv, TypeOK
  <1>2. free' = free - 1 /\ held' = [held EXCEPT ![r] = held[r] + 1]
    BY DEF Acquire
  <1>3. /\ Cardinality(Holders) \in Nat /\ Cardinality(HoldersOfTwo) \in Nat
    BY FS_CardinalityType DEF Counted
  <1>4. CASE held[r] = 0
    <2>1. /\ Holders' = Holders \union {r} /\ r \notin Holders
          /\ HoldersOfTwo' = HoldersOfTwo
      BY <1>1, <1>2, <1>4 DEF Holders, HoldersOfTwo
    <2>2. /\ IsFiniteSet(Holders \union {r})
          /\ Cardinality(Holders \union {r}) = Cardinality(Holders) + 1
      BY <2>1, FS_AddElement DEF Counted
    <2>3. /\ IsFiniteSet(Holders') /\ IsFiniteSet(HoldersOfTwo')
          /\ Cardinality(Holders') + Cardinality(HoldersOfTwo') + free'
                 = Cardinality(Holders) + Cardinality(HoldersOfTwo) + free
      BY <1>1, <1>2, <1>3, <2>1, <2>2 DEF Counted
    <2>4. QED  BY <1>1, <1>2, <1>3, <2>1, <2>2, <2>3 DEF Counted
  <1>5. CASE held[r] = 1
    <2>1. /\ HoldersOfTwo' = HoldersOfTwo \union {r} /\ r \notin HoldersOfTwo
          /\ Holders' = Holders
      BY <1>1, <1>2, <1>5 DEF Holders, HoldersOfTwo
    <2>2. /\ IsFiniteSet(HoldersOfTwo \union {r})
          /\ Cardinality(HoldersOfTwo \union {r}) = Cardinality(HoldersOfTwo) + 1
      BY <2>1, FS_AddElement DEF Counted
    <2>3. /\ IsFiniteSet(Holders') /\ IsFiniteSet(HoldersOfTwo')
          /\ Cardinality(Holders') + Cardinality(HoldersOfTwo') + free'
                 = Cardinality(Holders) + Cardinality(HoldersOfTwo) + free
      BY <1>1, <1>2, <1>3, <2>1, <2>2 DEF Counted
    <2>4. QED  BY <1>1, <1>2, <1>3, <2>1, <2>2, <2>3 DEF Counted
  <1>6. QED  BY <1>4, <1>5

LEMMA ReleaseCounts ==
    ASSUME TypeInv, Counted, NEW r \in Requests, Release(r), held[r] \in 1..2
    PROVE  /\ IsFiniteSet(Holders') /\ IsFiniteSet(HoldersOfTwo')
           /\ free' + Cardinality(Holders') + Cardinality(HoldersOfTwo')
                  = MaxConnections
  <1>1. held \in [Requests -> 0..2] /\ free \in Nat
    BY DEF TypeInv, TypeOK
  <1>2. free' = free + 1 /\ held' = [held EXCEPT ![r] = held[r] - 1]
    BY DEF Release
  <1>3. /\ Cardinality(Holders) \in Nat /\ Cardinality(HoldersOfTwo) \in Nat
    BY FS_CardinalityType DEF Counted
  <1>4. CASE held[r] = 1
    <2>1. /\ Holders' = Holders \ {r} /\ r \in Holders
          /\ HoldersOfTwo' = HoldersOfTwo
      BY <1>1, <1>2, <1>4 DEF Holders, HoldersOfTwo
    <2>2. /\ IsFiniteSet(Holders \ {r})
          /\ Cardinality(Holders \ {r}) = Cardinality(Holders) - 1
      BY <2>1, FS_RemoveElement DEF Counted
    <2>3. /\ IsFiniteSet(Holders') /\ IsFiniteSet(HoldersOfTwo')
          /\ Cardinality(Holders') + Cardinality(HoldersOfTwo') + free'
                 = Cardinality(Holders) + Cardinality(HoldersOfTwo) + free
      BY <1>1, <1>2, <1>3, <2>1, <2>2 DEF Counted
    <2>4. QED  BY <1>1, <1>2, <1>3, <2>1, <2>2, <2>3 DEF Counted
  <1>5. CASE held[r] = 2
    <2>1. /\ HoldersOfTwo' = HoldersOfTwo \ {r} /\ r \in HoldersOfTwo
          /\ Holders' = Holders
      BY <1>1, <1>2, <1>5 DEF Holders, HoldersOfTwo
    <2>2. /\ IsFiniteSet(HoldersOfTwo \ {r})
          /\ Cardinality(HoldersOfTwo \ {r}) = Cardinality(HoldersOfTwo) - 1
      BY <2>1, FS_RemoveElement DEF Counted
    <2>3. /\ IsFiniteSet(Holders') /\ IsFiniteSet(HoldersOfTwo')
          /\ Cardinality(Holders') + Cardinality(HoldersOfTwo') + free'
                 = Cardinality(Holders) + Cardinality(HoldersOfTwo) + free
      BY <1>1, <1>2, <1>3, <2>1, <2>2 DEF Counted
    <2>4. QED  BY <1>1, <1>2, <1>3, <2>1, <2>2, <2>3 DEF Counted
  <1>6. QED  BY <1>4, <1>5

LEMMA NextCounted == TypeInv /\ Counted /\ [Next]_vars => Counted'
  <1> SUFFICES ASSUME TypeInv, Counted, [Next]_vars PROVE Counted'
    OBVIOUS
  <1>1. CASE UNCHANGED <<pc, pool>>
    BY <1>1 DEF pool, Counted, Started, Holders, HoldersOfTwo
  <1>2. ASSUME NEW r \in Requests, PoolStep(r)
        PROVE  Counted'
    <2>1. Started' \in SUBSET (Started \union {r})
      BY <1>2 DEF PoolStep, Started
    <2>2. IsFiniteSet(Started \union {r})
      BY FS_AddElement DEF Counted
    <2>3. IsFiniteSet(Started')
      BY <2>1, <2>2, FS_Subset
    <2>4. CASE UNCHANGED pool
      BY <2>3, <2>4 DEF pool, Counted, Holders, HoldersOfTwo
    <2>5. CASE Acquire(r) /\ held[r] \in 0..1
      BY <2>3, <2>5, AcquireCounts DEF Counted
    <2>6. CASE Release(r) /\ held[r] \in 1..2
      BY <2>3, <2>6, ReleaseCounts DEF Counted
    <2>7. QED  BY <1>2, <2>4, <2>5, <2>6 DEF PoolStep
  <1>3. QED  BY <1>1, <1>2, StepPool

\* Who holds a connection is running, or never gave it back; who holds two
\* deletes a folder.
LEMMA HoldersKnown ==
    ASSUME TypeInv
    PROVE  /\ Holders \subseteq FolderDeletions \union (Active \ FolderDeletions)
                                     \union Leaked
           /\ HoldersOfTwo \subseteq FolderDeletions
  <1>1. ASSUME NEW r \in Requests, held[r] >= 1
        PROVE  r \in Active \/ r \in Leaked
    BY <1>1 DEF TypeInv, TypeOK, Control, Holds, Active, Leaked, Finished
  <1>2. ASSUME NEW r \in Requests, held[r] = 2
        PROVE  r \in FolderDeletions
    BY <1>2 DEF TypeInv, TypeOK, Control, Holds, Outer, Active, FolderDeletions,
       Finished, Running, InTransaction
  <1>3. QED  BY <1>1, <1>2 DEF Holders, HoldersOfTwo

\* However many requests come, nobody waits for a connection as long as two for
\* each running folder deletion, one for each other request, and one for each
\* transaction that was never ended are fewer than the pool has.
THEOREM ConnectionsSafe == Spec => []EnoughConnections
  <1> DEFINE Inv == TypeInv /\ Counted
  <1>1. Init => Inv
    BY InitType, InitCounted
  <1>2. Inv /\ [Next]_vars => Inv'
    BY NextType, NextCounted
  <1>3. Inv => EnoughConnections
    <2> SUFFICES ASSUME TypeInv, Counted PROVE EnoughConnections
      OBVIOUS
    <2> DEFINE D == FolderDeletions
               O == Active \ FolderDeletions
               L == Leaked
    <2>1. /\ D \in SUBSET Started /\ O \in SUBSET Started /\ L \in SUBSET Started
      BY DEF FolderDeletions, Active, Leaked, Started, Running, InTransaction
    <2>2. IsFiniteSet(D) /\ IsFiniteSet(O) /\ IsFiniteSet(L)
      BY <2>1, FS_Subset DEF Counted
    <2>3. /\ IsFiniteSet(D \union O)
          /\ Cardinality(D \union O) <= Cardinality(D) + Cardinality(O)
      <3>1. IsFiniteSet(D \intersect O)
        BY <2>2, FS_Subset
      <3>2. /\ Cardinality(D) \in Nat /\ Cardinality(O) \in Nat
            /\ Cardinality(D \intersect O) \in Nat
        BY <2>2, <3>1, FS_CardinalityType
      <3>3. /\ IsFiniteSet(D \union O)
            /\ Cardinality(D \union O) = Cardinality(D) + Cardinality(O)
                                          - Cardinality(D \intersect O)
        BY <2>2, FS_Union
      <3>4. QED  BY <3>2, <3>3
    <2>4. /\ IsFiniteSet(D \union O \union L)
          /\ Cardinality(D \union O \union L) <= Cardinality(D \union O) + Cardinality(L)
      <3>1. IsFiniteSet((D \union O) \intersect L)
        BY <2>2, FS_Subset
      <3>2. /\ Cardinality(D \union O) \in Nat /\ Cardinality(L) \in Nat
            /\ Cardinality((D \union O) \intersect L) \in Nat
        BY <2>2, <2>3, <3>1, FS_CardinalityType
      <3>3. /\ IsFiniteSet(D \union O \union L)
            /\ Cardinality(D \union O \union L) = Cardinality(D \union O) + Cardinality(L)
                                          - Cardinality((D \union O) \intersect L)
        BY <2>2, <2>3, FS_Union
      <3>4. QED  BY <3>2, <3>3
    <2>5. Cardinality(Holders) <= Cardinality(D \union O \union L)
      BY <2>4, HoldersKnown, FS_Subset
    <2>6. Cardinality(HoldersOfTwo) <= Cardinality(D)
      BY <2>2, HoldersKnown, FS_Subset
    <2>7. /\ Cardinality(D) \in Nat /\ Cardinality(O) \in Nat /\ Cardinality(L) \in Nat
          /\ Cardinality(D \union O) \in Nat
          /\ Cardinality(D \union O \union L) \in Nat
          /\ Cardinality(Holders) \in Nat /\ Cardinality(HoldersOfTwo) \in Nat
      BY <2>2, <2>3, <2>4, FS_CardinalityType DEF Counted
    <2>8. free \in Nat
          /\ free + Cardinality(Holders) + Cardinality(HoldersOfTwo) = MaxConnections
      BY DEF Counted, TypeInv, TypeOK
    <2> HIDE DEF D, O, L
    <2>9. 2 * Cardinality(D) + Cardinality(O) + Cardinality(L) < MaxConnections
              => free > 0
      BY <2>3, <2>4, <2>5, <2>6, <2>7, <2>8, PoolAssumption
    <2>10. QED  BY <2>9 DEF EnoughConnections, D, O, L
  <1>4. QED
    BY <1>1, <1>2, <1>3, PTL DEF Spec

=============================================================================
