SPECIFICATION FairSpec
CONSTANTS
    Reqs = {r1, r2}
    PositiveTtl = 2
    NegativeTtl = 1
    EvictTtl = 3
    AcquireTimeout = 1
    ResolveTimeout = 1
    Permits = 1
    MaxLag = 1
    MaxClock = 4
PROPERTIES
    EveryRequestDecided
