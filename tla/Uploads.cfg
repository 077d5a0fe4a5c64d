SPECIFICATION FairUploadSpec
CONSTANTS
    Reqs <- MCReqs
    Plans <- MCPlans
    MaxActive = 2
    Ops = {}
    InitFc <- MCInitFc
    InitSize <- MCInitSize
    InitDisk <- MCInitDisk
    TrashEnabled = TRUE
    PersonalQuota = 4
    DefaultQuota <- NoQuota
    MaxClock = 2
    MaxPart = 2
    MaxRestarts = 1
INVARIANTS
    AssemblyExact
    NoOrphanChunks
    BulkAnswerTrue
    UploadedTree
PROPERTIES
    EveryRequestAnswered
