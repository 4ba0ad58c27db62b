SPECIFICATION Spec
CONSTANTS
    Emails = {e1, e2}
    Phones = {p1}
    Colors = {c1, c2}
    Requests = {r1, r2}
    Lists <- OrderlyLists
    InitTables <- OneRowTables
    FirstId = 3
    Faults = TRUE
    None = none
SYMMETRY Symmetry
INVARIANTS
    OneRowPerRecipient
    ListStored
    DoubleSubmissionSafe
PROPERTY SignatureKept
