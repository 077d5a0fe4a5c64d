SPECIFICATION Spec
CONSTANTS
    Reqs = {r1, r2, r3}
    MaxActive = 1
    Ops <- SequentialOps
    InitFc <- MCInitFc
    InitSize <- MCInitSize
    InitDisk <- MCInitDisk
    TrashEnabled = TRUE
    PersonalQuota = 10
    DefaultQuota <- NoQuota
    MaxClock = 3
SYMMETRY Symmetry
INVARIANTS
    TreeConsistent
    SizesConsistent
    VersionsConsistent
    SyncDetects
    WithinQuota
