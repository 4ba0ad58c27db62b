SPECIFICATION FairSpec
CONSTANTS
    Folders = {f1}
    Docs = {d1, d2}
    Data = {x1}
    Requests = {r1, r2}
    Bodies <- Body
    InitTrees <- AllTrees
    Actions <- SetNull
    MaxConnections = 2
    Faults = FALSE
    Root = root
PROPERTY EveryRequestEnds
