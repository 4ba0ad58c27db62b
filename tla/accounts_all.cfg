SPECIFICATION Spec
CONSTANTS
    Accounts = {a1, a2}
    Addresses = {e1, e2, e3}
    Requests = {r1, r2}
    Faults = TRUE
    None = none
SYMMETRY Symmetry
INVARIANTS
    KeysOwn
    SignatureOwn
    SyncErrorNeedsOverlap
    SyncedAgrees
    RevokedRefused
