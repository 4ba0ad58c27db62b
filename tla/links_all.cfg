SPECIFICATION Spec
CONSTANTS
    Emails = {e1, e2}
    Requests = {r1, r2}
    Bodies <- AllBodies
    Faults = TRUE
    None = none
SYMMETRY Symmetry
INVARIANTS
    MailedLinkOpens
    AwaitedSendReaches
