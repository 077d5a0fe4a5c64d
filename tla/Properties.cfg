SPECIFICATION Spec
CONSTANTS
    Clients = {c1, c2}
    Ops <- MCOps
    Paths <- MCPaths
    Dirs <- MCDirs
    LongPaths <- MCLong
    InitNode <- MCNode
    Wild = {}
    MaxRequests = 3
    MaxFailures = 1
SYMMETRY Symmetry
CHECK_DEADLOCK FALSE
INVARIANTS
    PatchAsAnswered
    PropsSharePath
    RowsFollowRequests
