----------------------------- MODULE FolderPaths -----------------------------
(***************************************************************************)
(* The folders of one user: createFolderPath, createFolder, renameFolder   *)
(* and listFolders (folders.controller.ts), query by query, while folders  *)
(* are deleted.  Nothing in the table keeps two folders of one name apart, *)
(* and no handler here uses a transaction.                                 *)
(*                                                                         *)
(* FolderDeletion models deleteFolder; here it is two steps, the reading   *)
(* of a subtree without documents and its destruction.                     *)
(***************************************************************************)
EXTENDS Integers, Sequences

CONSTANTS
    Names,     \* names of folders
    Requests,  \* HTTP requests, each handled once
    Bodies,    \* what the clients may ask for
    OnDeletes, \* ON DELETE of the foreign key on parentId
    Faults,    \* may a query fail, or the process die, inside a handler?
    Root       \* parentId null

VARIABLES
    filed,     \* the folders that documents are in
    folders,   \* the Folder table: name and parentId of each id
    nextId,    \* the id the next folder gets
    onDelete,
    pc,
    body,
    left,      \* createFolderPath: the parts not yet come to
    at,        \* createFolderPath: parentId; then the id that is answered
    found,     \* listFolders: the ids listed; deleteFolder: the subtree
    crumbs,    \* listFolders: the breadcrumbs of each folder, as far as known
    (* history *)
    maker,     \* the request that made each folder of a path
    together,  \* the pairs of requests that were in flight together
    disturbed  \* the requests that came before a folder was renamed or deleted

vars == <<filed, folders, nextId, onDelete, pc, body, left, at, found, crumbs,
          maker, together, disturbed>>

-----------------------------------------------------------------------------
(* Types *)

Folder == [name: Names, parent: Nat \union {Root}]

PathBody   == [op: {"createPath"}, path: Seq(Names)]
CreateBody == [op: {"create"}, name: Names, parent: Nat \union {Root}]
RenameBody == [op: {"rename"}, folder: Nat, name: Names]
DeleteBody == [op: {"delete"}, folder: Nat]
ListBody   == [op: {"list"}, parent: Nat \union {Root}]
NoBody     == [op |-> "none"]
Body       == PathBody \union CreateBody \union RenameBody \union DeleteBody
              \union ListBody

Running  == {"findPart", "createPart", "insert", "update", "destroy", "crumbs"}
Finished == {"done", "failed", "notFound", "conflict", "aborted"}

\* What is assumed of the constants (Filing states it as an assumption).
ConstantsOK ==
    /\ Bodies \subseteq Body
    /\ OnDeletes \subseteq {"NO ACTION", "SET NULL"}
    /\ Root \notin Nat

-----------------------------------------------------------------------------
(* The table *)

Ids == DOMAIN folders

Children(set) == {f \in Ids : folders[f].parent \in set}

\* Seeded fault: the name alone is looked up.
Named(name, parent) == {f \in Ids : folders[f].name = name}

\* Seeded fault: only the first part is looked up.
MatchingFirst(name, parent) ==
    {f \in Ids : parent = Root /\ folders[f] = [name |-> name, parent |-> parent]}

\* Folder.findOne({ name, userId, teamId, parentId }) returns one of these.
Matching(name, parent) == {f \in Ids : folders[f] = [name |-> name, parent |-> parent]}

\* f and the folders whose parents lead to it.
Subtree(f) ==
    {g \in Ids : \A set \in SUBSET Ids : f \in set /\ Children(set) \subseteq set
                                         => g \in set}

\* Folder f is at the end of the path: its name, its parent's and so on are the
\* parts.
IsAt(f, path) ==
    \E chain \in [0..Len(path) -> Ids \union {Root}] :
        /\ chain[0] = Root
        /\ chain[Len(path)] = f
        /\ \A k \in 1..Len(path) :
               /\ chain[k] \in Ids
               /\ folders[chain[k]] = [name |-> path[k], parent |-> chain[k - 1]]

-----------------------------------------------------------------------------
(* The handlers *)

Init ==
    /\ filed    = {}
    /\ folders  = <<>>
    /\ nextId   = 1
    /\ onDelete \in OnDeletes
    /\ pc       = [r \in Requests |-> "idle"]
    /\ body     = [r \in Requests |-> NoBody]
    /\ left     = [r \in Requests |-> <<>>]
    /\ at       = [r \in Requests |-> Root]
    /\ found    = [r \in Requests |-> {}]
    /\ crumbs   = [r \in Requests |-> <<>>]
    /\ maker    = <<>>
    /\ together = {}
    /\ disturbed = {}

table == <<filed, folders, nextId, onDelete, maker>>

Active  == {r \in Requests : pc[r] \in Running}
Started == {r \in Requests : pc[r] # "idle"}

Goto(r, label) == pc' = [pc EXCEPT ![r] = label]

\* A request arrives.
Receive(r, b) ==
    /\ pc[r] = "idle"
    /\ b \in Bodies
    /\ body' = [body EXCEPT ![r] = b]
    /\ together' = together \union {{r, q} : q \in Active}
    /\ UNCHANGED <<filed, onDelete, disturbed>>

\* createFolderPath: a path without parts is refused.
CreateFolderPath(r) ==
    \E b \in Bodies :
        /\ b.op = "createPath"
        /\ Receive(r, b)
        /\ left' = [left EXCEPT ![r] = b.path]
        /\ Goto(r, IF b.path = <<>> THEN "failed" ELSE "findPart")
        /\ UNCHANGED <<folders, nextId, maker, at, found, crumbs>>

\* Folder.findOne for the next part.
FindPart(r) ==
    LET matching == Matching(Head(left[r]), at[r])
    IN  /\ pc[r] = "findPart"
        /\ IF matching = {}
           THEN /\ Goto(r, "createPart")
                /\ UNCHANGED <<left, at>>
           ELSE /\ \E f \in matching : at' = [at EXCEPT ![r] = f]
                /\ left' = [left EXCEPT ![r] = Tail(@)]
                /\ Goto(r, IF Len(left[r]) = 1 THEN "done" ELSE "findPart")
        /\ UNCHANGED <<table, body, found, crumbs, together, disturbed>>

Exists(parent) == parent \in Ids \union {Root}

\* The new row gets the next id.
Insert(name, parent) ==
    /\ folders' = [f \in Ids \union {nextId} |->
                      IF f = nextId THEN [name |-> name, parent |-> parent]
                                    ELSE folders[f]]
    /\ nextId' = nextId + 1

\* Folder.create for the part; an error if the parent is gone.
CreatePart(r) ==
    /\ pc[r] = "createPart"
    /\ IF Exists(at[r])
       THEN /\ Insert(Head(left[r]), at[r])
            /\ maker' = [f \in DOMAIN maker \union {nextId} |->
                            IF f = nextId THEN r ELSE maker[f]]
            /\ at'   = [at EXCEPT ![r] = nextId]
            /\ left' = [left EXCEPT ![r] = Tail(@)]
            /\ Goto(r, IF Len(left[r]) = 1 THEN "done" ELSE "findPart")
       ELSE /\ Goto(r, "failed")
            /\ UNCHANGED <<folders, nextId, maker, at, left>>
    /\ UNCHANGED <<filed, onDelete, body, found, crumbs, together, disturbed>>

\* createFolder: the parent is looked up, the name is not.
CreateFolder(r) ==
    \E b \in Bodies :
        /\ b.op = "create"
        /\ Receive(r, b)
        /\ Goto(r, IF Exists(b.parent) THEN "insert" ELSE "notFound")
        /\ UNCHANGED <<folders, nextId, maker, left, at, found, crumbs>>

CreateOne(r) ==
    /\ pc[r] = "insert"
    /\ IF Exists(body[r].parent)
       THEN /\ Insert(body[r].name, body[r].parent)
            /\ Goto(r, "done")
       ELSE /\ Goto(r, "failed")
            /\ UNCHANGED <<folders, nextId>>
    /\ UNCHANGED <<filed, onDelete, maker, body, left, at, found, crumbs, together,
                   disturbed>>

\* renameFolder: Folder.findOne
RenameFolder(r) ==
    \E b \in Bodies :
        /\ b.op = "rename"
        /\ Receive(r, b)
        /\ Goto(r, IF b.folder \in Ids THEN "update" ELSE "notFound")
        /\ UNCHANGED <<folders, nextId, maker, left, at, found, crumbs>>

\* folder.update: nothing is written for a folder that is gone.
Update(r) ==
    /\ pc[r] = "update"
    /\ folders' = [f \in Ids |-> IF f = body[r].folder
                                 THEN [folders[f] EXCEPT !.name = body[r].name]
                                 ELSE folders[f]]
    /\ disturbed' = disturbed \union Started
    /\ Goto(r, "done")
    /\ UNCHANGED <<filed, nextId, onDelete, maker, body, left, at, found, crumbs,
                   together>>

\* deleteFolder reads the subtree, which has no documents ...
DeleteFolder(r) ==
    \E b \in Bodies :
        /\ b.op = "delete"
        /\ b.folder \in Ids => Subtree(b.folder) \intersect filed = {}
        /\ Receive(r, b)
        /\ found' = [found EXCEPT ![r] = IF b.folder \in Ids THEN Subtree(b.folder) ELSE {}]
        /\ Goto(r, IF b.folder \in Ids THEN "destroy" ELSE "notFound")
        /\ UNCHANGED <<folders, nextId, maker, left, at, crumbs>>

\* What Folder.destroy leaves pointing into the set.
Dangling(set) == (Children(set) \ set) \union (filed \intersect set)

\* ... and destroys it; what was put into it since, a folder or a document,
\* keeps it, or is left without a folder.
Destroy(r) ==
    /\ pc[r] = "destroy"
    /\ IF onDelete = "NO ACTION" /\ Dangling(found[r]) # {}
       THEN /\ Goto(r, "conflict")
            /\ UNCHANGED <<filed, folders, disturbed>>
       ELSE /\ folders' = [f \in Ids \ found[r] |->
                              IF folders[f].parent \in found[r]
                              THEN [folders[f] EXCEPT !.parent = Root]
                              ELSE folders[f]]
            /\ filed' = filed \ found[r]
            /\ disturbed' = disturbed \union Started
            /\ Goto(r, "done")
    /\ UNCHANGED <<nextId, onDelete, maker, body, left, at, found, crumbs, together>>

\* listFolders: the folders in one parent (the counts are left out).
ListFolders(r) ==
    \E b \in Bodies :
        /\ b.op = "list"
        /\ Receive(r, b)
        /\ found'  = [found EXCEPT ![r] = Children({b.parent})]
        /\ crumbs' = [crumbs EXCEPT ![r] = [f \in Children({b.parent}) |->
                                               [next |-> f, path |-> <<>>]]]
        /\ Goto(r, IF Children({b.parent}) = {} THEN "done" ELSE "crumbs")
        /\ UNCHANGED <<folders, nextId, maker, left, at>>

\* Seeded fault: crumbs are pushed instead of unshifted.
Pushed(path, name) == Append(path, name)

Unshifted(path, name) == <<name>> \o path

\* getBreadcrumbPath, for each folder at its own pace: Folder.findByPk, up to
\* the root or to a folder that is gone.
FindCrumb(r) ==
    /\ pc[r] = "crumbs"
    /\ \E f \in found[r] :
           LET c == crumbs[r][f]
           IN  /\ c.next # Root
               /\ crumbs' = [crumbs EXCEPT ![r][f] =
                     IF c.next \in Ids
                     THEN [next |-> folders[c.next].parent,
                           path |-> Unshifted(c.path, folders[c.next].name)]
                     ELSE [c EXCEPT !.next = Root]]
    /\ Goto(r, IF \A f \in found[r] : crumbs'[r][f].next = Root THEN "done"
                                                                ELSE "crumbs")
    /\ UNCHANGED <<table, body, left, at, found, together, disturbed>>

\* A query fails, or the process dies.
Abort(r) ==
    /\ Faults
    /\ pc[r] \in Running
    /\ Goto(r, "aborted")
    /\ UNCHANGED <<table, body, left, at, found, crumbs, together, disturbed>>

Step(r) ==
    \/ CreateFolderPath(r) \/ FindPart(r) \/ CreatePart(r)
    \/ CreateFolder(r) \/ CreateOne(r)
    \/ RenameFolder(r) \/ Update(r)
    \/ DeleteFolder(r) \/ Destroy(r)
    \/ ListFolders(r) \/ FindCrumb(r)
    \/ Abort(r)

\* Documents are put into folders, and deleted (Uploads).
FileDocument ==
    /\ filed' \in SUBSET Ids
    /\ UNCHANGED <<folders, nextId, onDelete, maker, pc, body, left, at, found,
                   crumbs, together, disturbed>>

Next == (\E r \in Requests : Step(r)) \/ FileDocument

Spec == Init /\ [][Next]_vars

-----------------------------------------------------------------------------
(* Properties *)

\* Type invariant of the table and the handlers' variables.
TypeOK ==
    /\ Ids \subseteq 1..(nextId - 1)
    /\ folders \in [Ids -> Folder]
    /\ \A f \in Ids : folders[f].parent \in Ids \union {Root}
    /\ nextId \in Nat \ {0}
    /\ onDelete \in OnDeletes
    /\ pc \in [Requests -> {"idle"} \union Running \union Finished]
    /\ body \in [Requests -> Bodies \union {NoBody}]
    /\ left \in [Requests -> Seq(Names)]
    /\ at \in [Requests -> Nat \union {Root}]
    /\ found \in [Requests -> SUBSET Nat]
    /\ maker \in [DOMAIN maker -> Requests]
    /\ disturbed \subseteq Requests

\* createFolderPath answers the folder at the path it was given, whichever
\* folders it found and whichever it made, and whoever else made folders of the
\* same names meanwhile; only renaming and deleting can make it another one.
PathReached ==
    \A r \in Requests \ disturbed :
        pc[r] = "done" /\ body[r].op = "createPath" => IsAt(at[r], body[r].path)

\* Two folders that createFolderPath has made have the same name in the same
\* parent only if the two requests were in flight together, or a folder was
\* renamed or deleted after one of them came: calling it again makes no copies.
DuplicatesOverlap ==
    \A f, g \in Ids \intersect DOMAIN maker :
        f # g /\ folders[f] = folders[g]
        => \/ {maker[f], maker[g]} \in together
           \/ {maker[f], maker[g]} \intersect disturbed # {}

\* The breadcrumbs of every listed folder are its path, although each of them is
\* another query, as long as no folder was renamed or deleted meanwhile.
BreadcrumbsWhole ==
    \A r \in Requests \ disturbed :
        pc[r] = "done" /\ body[r].op = "list"
        => \A f \in found[r] : IsAt(f, crumbs[r][f].path)
=============================================================================
