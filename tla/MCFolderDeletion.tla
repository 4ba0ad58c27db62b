-------------------------- MODULE MCFolderDeletion --------------------------
(* Instances of FolderDeletion for TLC. *)
EXTENDS FolderDeletion, TLC

Symmetry == Permutations(Requests) \union Permutations(Docs) \union Permutations(Data)

\* A folder f with or without another one g, inside it or beside it.
Trees(f, g) ==
    {[x \in {f} |-> Root],
     [x \in {f, g} |-> Root],
     [x \in {f, g} |-> IF x = f THEN Root ELSE f]}
AllTrees == UNION {Trees(f, g) : f, g \in Folders}

BothActions == {"NO ACTION", "SET NULL"}
SetNull  == {"SET NULL"}
=============================================================================
