SPECIFICATION MCSpec
CONSTANTS
    Reqs = {r1, r2}
    Kinds <- MCKinds
    Writers = {w1}
    Generatable = TRUE
    Permits = 1
    Gens = {1, 2}
    MaxPhp = 1
    MaxFaults = 1
    Threads = {t1, t2}
    SEQ_MAX = 1
    MaxMs = 2
    MaxIds = 4
CHECK_DEADLOCK FALSE
INVARIANTS
    GenerationsBounded
    StaleExplained
    UniqueUnlessOvertaken
PROPERTIES
    EveryPreviewAnswered
