SPECIFICATION Spec
CONSTANTS
    Reqs = {r1, r2}
    MaxActive = 2
    Ops <- ConcurrentOps
    InitFc <- MCInitFc2
    InitSize <- MCInitSize2
    InitDisk <- MCInitDisk2
    TrashEnabled = TRUE
    PersonalQuota <- NoQuota
    DefaultQuota <- NoQuota
    MaxClock = 2
SYMMETRY Symmetry
INVARIANTS
    SyncDetectsApart
    TrashConsistent
    AckedPutStored
    DeltasAddUp
