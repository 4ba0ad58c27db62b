SPECIFICATION Spec
CONSTANTS
    Documents = {1, 2, 3, 4, 5}
    Users = {1, 2}
    NoUser = noUser
    Requests = {r1, r2, r3}
    Bodies <- SomeBodies
    Tables <- SomeTables
    Minute = 1
    Week = 2
    MaxClock = 2
    Faults = TRUE
    Readers = {c}
    Filters = {"COMPLETED", all}
    Periods = {3, all}
    All = all
    Limits = {2}
    Loads <- SomeLoads
    noUser = noUser
SYMMETRY Symmetry
INVARIANTS
    ChangeLogged
    DoublesOverlap
    PagesComplete
    
