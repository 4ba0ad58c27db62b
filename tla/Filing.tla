------------------------------- MODULE Filing -------------------------------
(***************************************************************************)
(* Folders and documents together: FolderPaths changes the Folder table,   *)
(* and Uploads looks into it when it files a document.  The requests of    *)
(* both interleave; Loads bounds how many of each there are.               *)
(***************************************************************************)
EXTENDS Integers, Sequences, FiniteSets

CONSTANTS
    FolderNames, FolderRequests, FolderBodies, OnDeletes, Root,
    FileNames, FileRequests, FileBodies, Transports, FolderIds, None,
    Faults,
    Loads      \* the bounds of a behaviour

VARIABLES
    folders, nextId, onDelete, folderPc, folderBody, left, at, found, crumbs,
    maker, together, disturbed,
    transport, bucket, rows, documents, pc, body, loaded, buffer, dataId, fileOf,
    namesOf, puts

folderVars == <<folders, nextId, onDelete, folderPc, folderBody, left, at, found,
                crumbs, maker, together, disturbed>>
fileVars   == <<transport, bucket, rows, documents, pc, body, loaded, buffer, dataId,
                fileOf, namesOf, puts>>
vars       == <<folderVars, fileVars>>

\* The folders that documents are in.
Filed == {documents[d].folder : d \in DOMAIN documents} \ {None}

F == INSTANCE FolderPaths
         WITH Names <- FolderNames, Requests <- FolderRequests,
              Bodies <- FolderBodies, pc <- folderPc, body <- folderBody,
              filed <- Filed

U == INSTANCE Uploads
         WITH Names <- FileNames, Requests <- FileRequests,
              Bodies <- FileBodies, folderIds <- DOMAIN folders

\* How many requests are handled, how many at once, and how many are aborted,
\* under which settings.
Load == [folder: Nat, file: Nat, inFlight: Nat, aborts: Nat, onDelete: OnDeletes,
         transport: Transports]

ASSUME FolderAssumption == F!ConstantsOK
ASSUME FileAssumption   == U!ConstantsOK
ASSUME RequestsAssumption == FolderRequests \union FileRequests \subseteq Nat
ASSUME LoadsAssumption  == Loads \subseteq Load

-----------------------------------------------------------------------------
Init == folders = <<>> /\ documents = <<>> /\ F!Init /\ U!Init

\* The requests that have come (they are numbered as they come), and how many of
\* them were aborted.
Come(state) == {r \in DOMAIN state : state[r] # "idle"}
Aborted     == Cardinality({r \in Come(folderPc) : folderPc[r] = "aborted"})
               + Cardinality({r \in Come(pc) : pc[r] = "aborted"})

InFlight == Cardinality(F!Active) + Cardinality({r \in Come(pc) : pc[r] \in U!Running})

\* The settings, and what has happened, are within the load if some more come.
Within(load, folderMore, fileMore) ==
    /\ load.onDelete = onDelete
    /\ load.transport = transport
    /\ Cardinality(Come(folderPc)) + folderMore <= load.folder
    /\ Cardinality(Come(pc)) + fileMore <= load.file
    /\ InFlight + folderMore + fileMore <= load.inFlight
    /\ Aborted <= load.aborts

Bounded == \E load \in Loads : Within(load, 0, 0)

\* The documents whose folder is destroyed are left without one.
FolderStep ==
    \E r \in FolderRequests :
        /\ folderPc[r] = "idle"
           => r - 1 = Cardinality(Come(folderPc)) /\ \E load \in Loads : Within(load, 1, 0)
        /\ \E gone \in SUBSET Filed :
               documents' = [d \in DOMAIN documents |->
                                IF documents[d].folder \in gone
                                THEN [documents[d] EXCEPT !.folder = None]
                                ELSE documents[d]]
        /\ F!Step(r)
        /\ UNCHANGED <<transport, bucket, rows, pc, body, loaded, buffer, dataId, fileOf,
                       namesOf, puts>>

FileStep ==
    \E r \in FileRequests :
        /\ pc[r] = "idle"
           => r - 1 = Cardinality(Come(pc)) /\ \E load \in Loads : Within(load, 0, 1)
        /\ UNCHANGED folderVars
        /\ U!Step(r)

Terminated ==
    /\ F!Active = {}
    /\ \A r \in FileRequests : pc[r] \notin U!Running
    /\ UNCHANGED vars

Next ==
    \/ FolderStep /\ Bounded'
    \/ FileStep /\ Bounded'
    \/ Terminated

Spec == Init /\ [][Next]_vars

-----------------------------------------------------------------------------
(* Properties of the components, and of both *)

\* createFolderPath answers the folder at the path it was given, whoever else
\* made folders of the same names meanwhile (see FolderPaths).
PathReached == F!PathReached

\* Only requests that were in flight together make two folders of one path (see
\* FolderPaths).
DuplicatesOverlap == F!DuplicatesOverlap

\* The breadcrumbs of every listed folder are its path (see FolderPaths).
BreadcrumbsWhole == F!BreadcrumbsWhole

\* Every row of DocumentData leads to its own file, unless another file was put
\* under one of its names (see Uploads).
FileKept == U!FileKept

\* Whichever row is found by the data of a document's row, the document's own
\* file is rendered, under the same condition, or nothing (see Uploads).
RendersOwn == U!RendersOwn
=============================================================================
