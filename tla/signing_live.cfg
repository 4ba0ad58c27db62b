SPECIFICATION FairSpec
CONSTANTS
    Recipients = {e1, e2}
    Requests = {r1, r2, r3}
    Bodies <- SignSaveBodies
    InitStatuses <- OnlyPending
    InitSettings <- AllSettingsOn
    Faults = FALSE
    Owner = owner
    NoEmail = noEmail
    None = none
PROPERTY AllSignedLeadsToCompleted
