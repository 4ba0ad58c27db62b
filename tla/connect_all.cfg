SPECIFICATION FairSpec
CONSTANTS
    Procs = {p1, p2, p3}
    Requests = {r1, r2, r3}
    Development = {p1}
    Configured = {p1, p2}
    Faults = TRUE
INVARIANTS
    ReadyMeansSynced
PROPERTIES
    ReleasedWithoutSync
    EveryRequestEnds
