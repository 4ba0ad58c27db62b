SPECIFICATION Spec
CONSTANTS
    Recipients = {e1, e2}
    Requests = {r1, r2}
    Bodies <- AllBodies
    InitStatuses <- OnlyDraft
    InitSettings <- OnAndOff
    Faults = TRUE
    Owner = owner
    NoEmail = noEmail
    None = none
SYMMETRY Symmetry
INVARIANTS
    CompletedNeedsAllSigned
    LastSignerSeesAll
    OwnerTold
    CompletedAgreesWithoutOverlap
PROPERTY
    ImplementsAtomic
