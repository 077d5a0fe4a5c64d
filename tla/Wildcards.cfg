SPECIFICATION Spec
CONSTANTS
    Clients = {c1}
    Ops <- WildOps
    Paths <- WildPaths
    Dirs <- WildDirs
    LongPaths = {}
    InitNode <- WildNode
    Wild <- WildNames
    MaxRequests = 2
    MaxFailures = 0
INVARIANTS
    RowsFollowRequests
CHECK_DEADLOCK FALSE
