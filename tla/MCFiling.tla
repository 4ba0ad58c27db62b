------------------------------ MODULE MCFiling ------------------------------
EXTENDS Filing

CONSTANTS a, b, x, y, root, none

Path(parts) == [op |-> "createPath", path |-> parts]

\* Paths that share parts, have the same name twice, or none.
Paths == {Path(<<a>>), Path(<<a, b>>), Path(<<a, a>>), Path(<<>>)}

AllFolderBodies ==
    Paths
    \union [op: {"create"}, name: {b}, parent: {root, 1}]
    \union [op: {"rename"}, folder: {1}, name: {b}]
    \union [op: {"delete"}, folder: {1}]
    \union [op: {"list"}, parent: {root, 1}]

AllFileBodies ==
    [op: {"upload"}, name: {x, y}, valid: {TRUE}]
    \union [op: {"upload"}, name: {x}, valid: {FALSE}]
    \union [op: {"create"}, row: {1, 2}, title: {x}, normalize: {FALSE},
            folder: {none, 1}]
    \union [op: {"create"}, row: {1, 2}, title: {x, y}, normalize: {TRUE},
            folder: {none}]
    \union [op: {"create"}, row: {1}, title: {y}, normalize: {TRUE}, folder: {1}]
    \union [op: {"replace"}, document: {1}, row: {1, 2}, withInitial: BOOLEAN]

BothActions    == {"NO ACTION", "SET NULL"}
BothTransports == {"s3", "database"}
SomeIds        == 1..9

\* Folders alone, files alone, and both.
SomeLoads ==
    [folder: {3}, file: {0}, inFlight: {3}, aborts: {1}, onDelete: BothActions,
     transport: {"s3"}]
    \union [folder: {0}, file: {4}, inFlight: {2}, aborts: {0},
            onDelete: {"SET NULL"}, transport: {"s3"}]
    \union [folder: {0}, file: {3}, inFlight: {3}, aborts: {1},
            onDelete: {"SET NULL"}, transport: BothTransports]
    \union [folder: {1}, file: {2}, inFlight: {3}, aborts: {1},
            onDelete: BothActions, transport: {"s3"}]
    \union [folder: {2}, file: {1}, inFlight: {3}, aborts: {1},
            onDelete: BothActions, transport: {"s3"}]

UpTo3 == 1..3
UpTo4 == 1..4
=============================================================================
