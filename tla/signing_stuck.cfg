SPECIFICATION FairSpec
CONSTANTS
    Recipients = {e1, e2}
    Requests = {r1, r2}
    Bodies <- SignBodies
    InitStatuses <- OnlyDraft
    InitSettings <- OwnerMailOn
    Faults = FALSE
    Owner = owner
    NoEmail = noEmail
    None = none
INVARIANT CompletedMailMeansCompleted
