SPECIFICATION FairSpec
CONSTANTS
    Wallets = {w1, w2, w3}
    UnsafeWallets = {}
    Callers = {}
    Anonymous = "anonymous"
    Calls = {c1}
    NoRow = NoRow
    MaxWallets = 2
    MaxPerCaller = 2
    MaxPerAnonymous = 1
    IdleTtl = 1
    EvictionInterval = 1
    PushTtl = 2
    CanDelete = TRUE
    Durable = TRUE
    StartTime = 1
    MaxTime = 4
INVARIANTS CapBound QuotaBound RefusedOnlyWhenFull
PROPERTIES CallEnds
CHECK_DEADLOCK TRUE
