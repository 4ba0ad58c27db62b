--------------------------- MODULE FolderDeletion ---------------------------
(***************************************************************************)
(* Deleting folders with everything in them, and the connections it takes. *)
(*                                                                         *)
(* deleteFolder (folders.controller.ts) reads the folders and documents    *)
(* below a folder in one transaction, deletes the documents one by one,    *)
(* each in a transaction of its own (deleteDocument), and then the         *)
(* folders.  The outer transaction holds a connection of the pool until it *)
(* is committed or rolled back, the inner one a second, and deleteDocument *)
(* reads DocumentMeta over a third.  Whoever finds no free connection      *)
(* waits, until the acquire timeout of the pool.                           *)
(*                                                                         *)
(* Meanwhile the user deletes single documents, puts documents into        *)
(* folders and creates folders.  The model has one replica of the service  *)
(* and one user's requests; folders and documents may be another user's.   *)
(* A query outside of a transaction takes a connection for one step.       *)
(***************************************************************************)
EXTENDS Naturals, FiniteSets

CONSTANTS
    Folders, Docs, Data, \* ids of Folder, Document and DocumentData rows
    Requests,       \* HTTP requests; a created folder's id is its request
    Bodies,         \* the bodies of the requests
    InitTrees,      \* parentId of the folders before the first request
    Actions,        \* ON DELETE of the foreign keys (the schema is not in src)
    MaxConnections, \* pool.max
    Faults,         \* may a query fail inside a handler?
    Root            \* no folder, no DocumentData

VARIABLES
    parent,    \* Folder.parentId, of the rows that exist
    folderOf,  \* Document.folderId, of the rows that exist
    dataOf,    \* Document.documentDataId
    mine,      \* the folders and documents of the user
    onDelete,  \* ON DELETE of the foreign keys
    documentDeleted, \* the flag of DocumentMeta.emailSettings
    free,      \* free connections of the pool
    held,      \* the connections that each request holds
    pc,        \* what each request does next
    body,      \* the body of each request
    todo,      \* folders whose subfolders are still to be read
    found,     \* allFolderIds
    listed,    \* allDocumentIds
    left,      \* the documents that are still to be deleted
    current,   \* the document being deleted
    failed,    \* failedDeletions
    mailed,    \* documents whose recipients were told that it is cancelled
    (* history *)
    deletedBy, \* the documents that each request has deleted
    disturbed  \* the requests that ran while something was put into a folder

tables == <<parent, folderOf, dataOf>>
config == <<mine, onDelete, documentDeleted>>
pool   == <<free, held>>
locals == <<todo, found, listed, left, current, failed>>
history == <<deletedBy, disturbed>>
vars   == <<tables, config, pool, pc, body, locals, mailed, history>>

-----------------------------------------------------------------------------
(* Types *)

FolderId == Folders \union Requests

\* "valid" says that the query string has folderId and userId.
Body == [op: {"deleteFolder"}, folder: Folders, valid: BOOLEAN]
        \union [op: {"deleteDocument"}, doc: Docs]
        \union [op: {"addDocumentToFolder"}, doc: Docs, folder: Folders]
        \union [op: {"createFolder"}, folder: Folders]
NoBody == [op |-> "none"]

InTransaction == {"readMeta", "destroy", "commit"}
Running  == {"begin", "findFolder", "subfolders", "documents", "update",
             "updating", "create"} \union InTransaction
Finished == {"done", "notFound", "conflict", "failed", "missing", "partly"}

\* A parentId for each of the folders that exist.
IsTree(t) == /\ DOMAIN t \subseteq Folders
             /\ t \in [DOMAIN t -> DOMAIN t \union {Root}]

ASSUME BodiesAssumption  == Bodies \subseteq Body
ASSUME TreesAssumption   == \A t \in InitTrees : IsTree(t)
ASSUME ActionsAssumption == Actions \subseteq {"NO ACTION", "SET NULL"}
ASSUME PoolAssumption    == MaxConnections \in Nat
ASSUME FaultsAssumption  == Faults \in BOOLEAN
ASSUME RootAssumption    == Root \notin FolderId \union Docs \union Data
ASSUME IdsAssumption     == /\ Folders \intersect Requests = {}
                            /\ FolderId \intersect Docs = {}

-----------------------------------------------------------------------------
(* The database and the pool *)

Exists(d) == d \in DOMAIN folderOf

\* The other documents with the DocumentData of d.
Sharers(d) == {e \in DOMAIN folderOf \ {d} : dataOf[e] # Root /\ dataOf[e] = dataOf[d]}

\* A transaction that has destroyed a document locks its row, and the rows
\* that shared its DocumentData, until it ends.
LockedByOther(r, d) ==
    \E q \in Requests \ {r} : /\ pc[q] = "commit"
                              /\ d = current[q] \/ d \in Sharers(current[q])

Active == {r \in Requests : pc[r] \in Running}

Goto(r, label) == pc' = [pc EXCEPT ![r] = label]

Acquire(r) ==
    /\ free > 0
    /\ free' = free - 1
    /\ held' = [held EXCEPT ![r] = @ + 1]

Release(r) ==
    /\ free' = free + 1
    /\ held' = [held EXCEPT ![r] = @ - 1]

Init ==
    /\ parent \in InitTrees
    /\ folderOf \in [Docs -> DOMAIN parent \union {Root}]
    /\ dataOf \in [Docs -> Data]
    /\ mine \in SUBSET (Folders \union Docs)
    /\ \A d \in Docs : folderOf[d] # Root => (d \in mine <=> folderOf[d] \in mine)
    /\ onDelete \in Actions
    /\ documentDeleted \in BOOLEAN
    /\ free = MaxConnections
    /\ held = [r \in Requests |-> 0]
    /\ pc   = [r \in Requests |-> "idle"]
    /\ body = [r \in Requests |-> NoBody]
    /\ todo    = [r \in Requests |-> {}]
    /\ found   = [r \in Requests |-> {}]
    /\ listed  = [r \in Requests |-> {}]
    /\ left    = [r \in Requests |-> {}]
    /\ current = [r \in Requests |-> Root]
    /\ failed  = [r \in Requests |-> {}]
    /\ mailed = {}
    /\ deletedBy = [r \in Requests |-> {}]
    /\ disturbed = {}

-----------------------------------------------------------------------------
(* deleteFolder, up to the documents *)

Receive(r, op) ==
    /\ pc[r] = "idle"
    /\ \E b \in Bodies : b.op = op /\ body' = [body EXCEPT ![r] = b]

DeleteFolder(r) ==
    /\ Receive(r, "deleteFolder")
    /\ Goto(r, "begin")
    /\ UNCHANGED <<tables, config, pool, locals, mailed, history>>

\* sequelize.transaction().  Without its parameters the request ends here, and
\* nobody ends the transaction.
Begin(r) ==
    /\ pc[r] = "begin"
    /\ Acquire(r)
    /\ Goto(r, IF body[r].valid THEN "findFolder" ELSE "missing")
    /\ UNCHANGED <<tables, config, body, locals, mailed, history>>

\* Seeded fault: the answer 404 leaves the transaction open.
FindFolderOnly(r) ==
    LET f == body[r].folder
    IN  /\ pc[r] = "findFolder"
        /\ IF f \in DOMAIN parent /\ f \in mine
           THEN /\ todo'  = [todo EXCEPT ![r] = {f}]
                /\ found' = [found EXCEPT ![r] = {f}]
                /\ Goto(r, "subfolders")
           ELSE /\ Goto(r, "notFound")
                /\ UNCHANGED <<todo, found>>
        /\ UNCHANGED <<tables, config, pool, body, listed, left, current, failed,
                       mailed, history>>

\* Folder.findOne({ id, userId })
FindFolder(r) ==
    LET f == body[r].folder
    IN  /\ pc[r] = "findFolder"
        /\ IF f \in DOMAIN parent /\ f \in mine
           THEN /\ todo'  = [todo EXCEPT ![r] = {f}]
                /\ found' = [found EXCEPT ![r] = {f}]
                /\ Goto(r, "subfolders")
                /\ UNCHANGED pool
           ELSE /\ Release(r)
                /\ Goto(r, "notFound")
                /\ UNCHANGED <<todo, found>>
        /\ UNCHANGED <<tables, config, body, listed, left, current, failed,
                       mailed, history>>

\* getAllSubfolders: one query per folder, in some order, whoever owns it.
FindSubfolders(r) ==
    /\ pc[r] = "subfolders"
    /\ \E f \in todo[r] :
           LET children == {g \in DOMAIN parent : parent[g] = f}
           IN  /\ todo'  = [todo EXCEPT ![r] = (@ \ {f}) \union children]
               /\ found' = [found EXCEPT ![r] = @ \union children]
    /\ UNCHANGED <<tables, config, pool, pc, body, listed, left, current, failed,
                   mailed, history>>

\* Seeded fault: the documents of the subfolders are forgotten.
FindOwnDocuments(r) ==
    LET docs == {d \in DOMAIN folderOf : folderOf[d] = body[r].folder}
    IN  /\ pc[r] = "subfolders"
        /\ todo[r] = {}
        /\ listed' = [listed EXCEPT ![r] = docs]
        /\ left'   = [left EXCEPT ![r] = docs]
        /\ Goto(r, "documents")
        /\ UNCHANGED <<tables, config, pool, body, todo, found, current, failed,
                       mailed, history>>

\* getAllDocumentIds
FindDocuments(r) ==
    LET docs == {d \in DOMAIN folderOf : folderOf[d] \in found[r]}
    IN  /\ pc[r] = "subfolders"
        /\ todo[r] = {}
        /\ listed' = [listed EXCEPT ![r] = docs]
        /\ left'   = [left EXCEPT ![r] = docs]
        /\ Goto(r, "documents")
        /\ UNCHANGED <<tables, config, pool, body, todo, found, current, failed,
                       mailed, history>>

-----------------------------------------------------------------------------
(* deleteDocument, called by deleteFolder or by its own route *)

DeleteDocument(r) ==
    /\ Receive(r, "deleteDocument")
    /\ listed' = [listed EXCEPT ![r] = {body'[r].doc}]
    /\ left'   = [left EXCEPT ![r] = {body'[r].doc}]
    /\ Goto(r, "documents")
    /\ UNCHANGED <<tables, config, pool, todo, found, current, failed, mailed,
                   history>>

\* Seeded fault: the owner of the document is not looked at.
LoadAny(r, d) == Exists(d)

\* Document.findOne({ id, userId })
Loads(r, d) == Exists(d) /\ d \in mine

\* The transaction begins, and loads the document and its recipients.
LoadDocument(r) ==
    /\ pc[r] = "documents"
    /\ \E d \in left[r] : /\ Loads(r, d)
                          /\ current' = [current EXCEPT ![r] = d]
                          /\ left' = [left EXCEPT ![r] = @ \ {d}]
    /\ Acquire(r)
    /\ Goto(r, "readMeta")
    /\ UNCHANGED <<tables, config, body, todo, found, listed, failed, mailed,
                   history>>

\* "Document not found": the transaction is over at once.
MissDocument(r) ==
    /\ pc[r] = "documents"
    /\ free > 0
    /\ \E d \in left[r] : /\ ~Loads(r, d)
                          /\ left'   = [left EXCEPT ![r] = @ \ {d}]
                          /\ failed' = [failed EXCEPT ![r] = @ \union {d}]
    /\ UNCHANGED <<tables, config, pool, pc, body, todo, found, listed, current,
                   mailed, history>>

\* The transaction of the document is rolled back.
RollbackDocument(r) ==
    /\ Release(r)
    /\ failed' = [failed EXCEPT ![r] = @ \union {current[r]}]
    /\ Goto(r, "documents")
    /\ UNCHANGED <<tables, config, body, todo, found, listed, left, current,
                   mailed, history>>

\* Seeded fault: nobody is told.
ReadMetaOnly(r) ==
    /\ pc[r] = "readMeta"
    /\ free > 0
    /\ Goto(r, "destroy")
    /\ UNCHANGED <<tables, config, pool, body, locals, mailed, history>>

\* DocumentMeta.findOne, outside of the transaction, and the mails.
ReadMeta(r) ==
    /\ pc[r] = "readMeta"
    /\ free > 0
    /\ mailed' = IF documentDeleted THEN mailed \union {current[r]} ELSE mailed
    /\ Goto(r, "destroy")
    /\ UNCHANGED <<tables, config, pool, body, locals, history>>

\* document.destroy, DocumentData.destroy: NO ACTION refuses to delete the
\* DocumentData of another document.
Destroy(r) ==
    /\ pc[r] = "destroy"
    /\ ~LockedByOther(r, current[r])
    /\ IF /\ onDelete = "NO ACTION"
          /\ Exists(current[r])
          /\ Sharers(current[r]) # {}
       THEN RollbackDocument(r)
       ELSE /\ Goto(r, "commit")
            /\ UNCHANGED <<tables, config, pool, body, locals, mailed, history>>

\* The document is gone, and SET NULL takes its DocumentData from the others.
\* logActivity waits for a connection before the commit, and ignores a timeout.
Commit(r) ==
    LET d == current[r]
    IN  /\ pc[r] = "commit"
        /\ folderOf' = [e \in DOMAIN folderOf \ {d} |-> folderOf[e]]
        /\ dataOf' = [e \in Docs |-> IF Exists(d) /\ e \in Sharers(d)
                                     THEN Root ELSE dataOf[e]]
        /\ deletedBy' = [deletedBy EXCEPT ![r] = @ \union ({d} \intersect DOMAIN folderOf)]
        /\ Release(r)
        /\ Goto(r, "documents")
        /\ UNCHANGED <<parent, config, body, locals, mailed, disturbed>>

-----------------------------------------------------------------------------
(* The end of deleteFolder and of deleteDocument *)

\* deleteDocument: the route answers what became of the document.
EndDocument(r) ==
    /\ pc[r] = "documents"
    /\ body[r].op = "deleteDocument"
    /\ left[r] = {}
    /\ Goto(r, IF failed[r] = {} THEN "done" ELSE "failed")
    /\ UNCHANGED <<tables, config, pool, body, locals, mailed, history>>

\* deleteFolder: "Folder deletion aborted.", and nobody ends the transaction.
EndPartly(r) ==
    /\ pc[r] = "documents"
    /\ body[r].op = "deleteFolder"
    /\ left[r] = {}
    /\ failed[r] # {}
    /\ Goto(r, "partly")
    /\ UNCHANGED <<tables, config, pool, body, locals, mailed, history>>

\* Seeded fault: the folders are deleted although a document is left.
AnyDeleted(r) == listed[r] = {} \/ failed[r] # listed[r]

AllDeleted(r) == failed[r] = {}

\* A row outside of the folders that are to be destroyed refers to one of them.
Referenced(r) ==
    \/ \E g \in DOMAIN parent \ found[r] : parent[g] \in found[r]
    \/ \E d \in DOMAIN folderOf : folderOf[d] \in found[r]

\* Folder.destroy and commit, or the rollback on a foreign key's error.
DestroyFolders(r) ==
    /\ pc[r] = "documents"
    /\ body[r].op = "deleteFolder"
    /\ left[r] = {}
    /\ AllDeleted(r)
    /\ \A d \in DOMAIN folderOf : folderOf[d] \in found[r] => ~LockedByOther(r, d)
    /\ Release(r)
    /\ IF onDelete = "NO ACTION" /\ Referenced(r)
       THEN Goto(r, "conflict") /\ UNCHANGED tables
       ELSE /\ parent' = [g \in DOMAIN parent \ found[r] |->
                             IF parent[g] \in found[r] THEN Root ELSE parent[g]]
            /\ folderOf' = [d \in DOMAIN folderOf |->
                             IF folderOf[d] \in found[r] THEN Root ELSE folderOf[d]]
            /\ UNCHANGED dataOf
            /\ Goto(r, "done")
    /\ UNCHANGED <<config, body, locals, mailed, history>>

-----------------------------------------------------------------------------
(* addDocumentToFolder and createFolder *)

\* Folder.findOne and Document.findOne; nothing is written if the document is in
\* the folder already.
AddDocumentToFolder(r) ==
    /\ Receive(r, "addDocumentToFolder")
    /\ free > 0
    /\ LET b == body'[r]
       IN  Goto(r, IF {b.folder, b.doc} \subseteq mine /\ b.folder \in DOMAIN parent
                                                       /\ Exists(b.doc)
                   THEN IF folderOf[b.doc] = b.folder THEN "done" ELSE "update"
                   ELSE "notFound")
    /\ UNCHANGED <<tables, config, pool, locals, mailed, history>>

\* document.update takes a connection, and keeps it while the row is locked.
BeginUpdate(r) ==
    /\ pc[r] = "update"
    /\ Acquire(r)
    /\ Goto(r, "updating")
    /\ UNCHANGED <<tables, config, body, locals, mailed, history>>

\* Nothing is written to a document that is gone, and a folder that is gone is
\* an error.
Update(r) ==
    LET b == body[r]
    IN  /\ pc[r] = "updating"
        /\ ~LockedByOther(r, b.doc)
        /\ Release(r)
        /\ IF Exists(b.doc) /\ b.folder \notin DOMAIN parent
           THEN Goto(r, "failed") /\ UNCHANGED <<folderOf, disturbed>>
           ELSE /\ folderOf' = [d \in DOMAIN folderOf |->
                                   IF d = b.doc THEN b.folder ELSE folderOf[d]]
                /\ disturbed' = disturbed \union Active
                /\ Goto(r, "done")
        /\ UNCHANGED <<parent, dataOf, config, body, locals, mailed, deletedBy>>

\* Folder.findByPk(parentId): the parent may be anybody's.
CreateFolder(r) ==
    /\ Receive(r, "createFolder")
    /\ free > 0
    /\ Goto(r, IF body'[r].folder \in DOMAIN parent THEN "create" ELSE "notFound")
    /\ UNCHANGED <<tables, config, pool, locals, mailed, history>>

\* Folder.create: an error if the parent is gone.
Create(r) ==
    LET f == body[r].folder
    IN  /\ pc[r] = "create"
        /\ free > 0
        /\ IF f \in DOMAIN parent
           THEN /\ parent' = [g \in DOMAIN parent \union {r} |->
                                 IF g = r THEN f ELSE parent[g]]
                /\ disturbed' = disturbed \union Active
                /\ Goto(r, "done")
           ELSE /\ Goto(r, "failed")
                /\ UNCHANGED <<parent, disturbed>>
        /\ UNCHANGED <<folderOf, dataOf, config, pool, body, locals, mailed,
                       deletedBy>>

-----------------------------------------------------------------------------
(* Timeouts and failures *)

\* No connection for the first query of a handler, or for one of its others.
TimeOutRequest(r) ==
    /\ pc[r] \in {"begin", "update", "create"}
    /\ free = 0
    /\ Goto(r, "failed")
    /\ UNCHANGED <<tables, config, pool, body, locals, mailed, history>>

\* No connection for the transaction of a document: it counts as failed.
TimeOutDocument(r) ==
    /\ pc[r] = "documents"
    /\ free = 0
    /\ \E d \in left[r] : /\ left'   = [left EXCEPT ![r] = @ \ {d}]
                          /\ failed' = [failed EXCEPT ![r] = @ \union {d}]
    /\ UNCHANGED <<tables, config, pool, pc, body, todo, found, listed, current,
                   mailed, history>>

\* Seeded fault: the query outside of the transaction is tried again and again.
RetryMeta(r) ==
    /\ pc[r] = "readMeta"
    /\ free = 0
    /\ UNCHANGED vars

\* No connection for DocumentMeta.findOne.
TimeOutMeta(r) ==
    /\ pc[r] = "readMeta"
    /\ free = 0
    /\ RollbackDocument(r)

TimeOut(r) == TimeOutRequest(r) \/ TimeOutDocument(r) \/ TimeOutMeta(r)

\* A query of the document's transaction fails.
FailDocument(r) ==
    /\ Faults
    /\ pc[r] \in InTransaction
    /\ RollbackDocument(r)

\* Another query of deleteFolder fails; the transaction is rolled back.
FailFolder(r) ==
    /\ Faults
    /\ \/ pc[r] \in {"findFolder", "subfolders"}
       \/ /\ pc[r] = "documents"
          /\ body[r].op = "deleteFolder"
          /\ left[r] = {} /\ AllDeleted(r)
    /\ Release(r)
    /\ Goto(r, "failed")
    /\ UNCHANGED <<tables, config, body, locals, mailed, history>>

Terminated ==
    /\ \A r \in Requests : pc[r] \in {"idle"} \union Finished
    /\ UNCHANGED vars

Step(r) == \/ Begin(r) \/ FindFolder(r) \/ FindSubfolders(r) \/ FindDocuments(r)
           \/ LoadDocument(r) \/ MissDocument(r) \/ ReadMeta(r) \/ Destroy(r)
           \/ Commit(r) \/ EndDocument(r) \/ EndPartly(r) \/ DestroyFolders(r)
           \/ BeginUpdate(r) \/ Update(r) \/ Create(r)

Next ==
    \/ \E r \in Requests : \/ DeleteFolder(r) \/ DeleteDocument(r)
                           \/ AddDocumentToFolder(r) \/ CreateFolder(r)
                           \/ Step(r) \/ TimeOut(r)
                           \/ FailDocument(r) \/ FailFolder(r)
    \/ Terminated

Spec == Init /\ [][Next]_vars

\* A query ends, a lock that is free is granted, and a wait for a connection
\* that never comes free ends with the timeout.
FairSpec == Spec /\ \A r \in Requests : WF_vars(Step(r) \/ TimeOut(r))

-----------------------------------------------------------------------------
(* Properties *)

\* Type invariant of the rows, the pool and the handlers' variables.
TypeOK ==
    /\ parent \in [DOMAIN parent -> FolderId \union {Root}]
    /\ DOMAIN parent \subseteq FolderId
    /\ folderOf \in [DOMAIN folderOf -> FolderId \union {Root}]
    /\ DOMAIN folderOf \subseteq Docs
    /\ dataOf \in [Docs -> Data \union {Root}]
    /\ mine \subseteq Folders \union Docs
    /\ onDelete \in Actions
    /\ documentDeleted \in BOOLEAN
    /\ free \in Nat
    /\ held \in [Requests -> 0..2]
    /\ pc \in [Requests -> {"idle"} \union Running \union Finished]
    /\ body \in [Requests -> Bodies \union {NoBody}]
    /\ todo \in [Requests -> SUBSET FolderId]
    /\ found \in [Requests -> SUBSET FolderId]
    /\ listed \in [Requests -> SUBSET Docs]
    /\ left \in [Requests -> SUBSET Docs]
    /\ current \in [Requests -> Docs \union {Root}]
    /\ failed \in [Requests -> SUBSET Docs]
    /\ mailed \subseteq Docs
    /\ deletedBy \in [Requests -> SUBSET Docs]
    /\ disturbed \subseteq Requests

\* deleteFolder answers success only if every folder and every document that it
\* read is gone, whatever other requests and the ON DELETE of the schema did in
\* between.
SuccessDeletesTree ==
    \A r \in Requests :
        /\ pc[r] = "done"
        /\ body[r].op \in {"deleteFolder", "deleteDocument"}
        => /\ found[r] \intersect DOMAIN parent = {}
           /\ listed[r] \intersect DOMAIN folderOf = {}

\* A document of another user is never deleted, also in a folder of another user
\* inside a folder that is.
OthersKept == Docs \ mine \subseteq DOMAIN folderOf

\* No document disappears unless its recipients were told (with documentDeleted
\* on): neither timeouts nor concurrent deletions skip the mails.
GoneMeansTold == documentDeleted => Docs \ DOMAIN folderOf \subseteq mailed

\* A folder deletion meets a row that refers to its folders only if something
\* was put into a folder, or created in one, while it ran: it reads every level
\* of subfolders and all of their documents, and other deletions do not disturb
\* it.
ConflictNeedsAddition ==
    \A r \in Requests : pc[r] = "conflict" => r \in disturbed

Leaked == {r \in Requests : pc[r] \in {"missing", "partly"}}
FolderDeletions == {r \in Active : body[r].op = "deleteFolder"}

\* As long as two connections per running folder deletion, one for each other
\* request, and one for each transaction that was never ended are fewer than
\* the pool has, nobody waits for a connection.  (A pool of 5 is enough for two
\* folder deletions; three may wait for each other until the timeout.)
EnoughConnections ==
    2 * Cardinality(FolderDeletions) + Cardinality(Active \ FolderDeletions)
        + Cardinality(Leaked) < MaxConnections
    => free > 0

\* Every request ends, also when it waits for connections that are never given
\* back, or for rows that another request has locked.
EveryRequestEnds == \A r \in Requests : pc[r] \in Running ~> pc[r] \in Finished

=============================================================================
