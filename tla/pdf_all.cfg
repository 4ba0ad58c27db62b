SPECIFICATION RenderSpec
CONSTANTS
    s1 = s1
    s2 = s2
    Signers = {s1, s2}
    Slots = {p1, p2}
    FieldLists <- AllLists
    Jobs <- AllJobs
    None = none
INVARIANTS
    OwnMarks
    NoneMissing
    NullExplained
    CertificateOwn
    PackageConsistent
