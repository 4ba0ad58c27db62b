SPECIFICATION Spec
CONSTANTS
    Folders = {f1, f2}
    Docs = {d1, d2}
    Data = {x1, x2}
    Requests = {r1, r2}
    Bodies <- Body
    InitTrees <- AllTrees
    Actions <- BothActions
    MaxConnections = 3
    Faults = TRUE
    Root = root
SYMMETRY Symmetry
INVARIANTS
    SuccessDeletesTree
    OthersKept
    GoneMeansTold
    ConflictNeedsAddition
    EnoughConnections
