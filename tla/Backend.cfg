SPECIFICATION Spec
CONSTANTS
    Replies <- MCReplies
    Timeout = 2
    MaxHeader = 6
    MaxRecord = 3
    MaxNoise = 1
    MaxWrites = 2
    MaxFaults = 1
CHECK_DEADLOCK FALSE
INVARIANTS
    BodyExact
PROPERTIES
    PayloadsServed
    EveryProxiedAnswered
    ConfigReachesUnlessStalled
