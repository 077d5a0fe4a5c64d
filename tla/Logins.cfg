SPECIFICATION Spec
CONSTANTS
    Reqs = {r1, r2}
    Plans <- MCPlans
    Tokens <- MCTokens
    TokenRow <- MCTokenRow
    Users <- MCUsers
    Password <- MCPassword
    Cfg <- MCCfg
    MaxAttempts = 1
    ShortWindow = 2
    LongWindow = 3
    CountTtl = 1
    TokenTtl = 1
    UserTtl = 1
    BaseDelay = 1
    MaxShift = 1
    MaxDelay = 2
    ActivityInterval = 2
    MaxLag = 1
    MaxRows = 2
    MaxClock = 3
SYMMETRY Symmetry
INVARIANTS
    GrantsLapse
    ThrottleMissesOnlyRecent
    IdentityProven
