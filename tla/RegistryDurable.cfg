SPECIFICATION Spec
CONSTANTS
    Wallets = {w1, w2, w3}
    UnsafeWallets = {w3}
    Callers = {}
    Anonymous = "anonymous"
    Calls = {c1, c2}
    NoRow = NoRow
    MaxWallets = 1
    MaxPerCaller = 2
    MaxPerAnonymous = 1
    IdleTtl = 0
    EvictionInterval = 1
    PushTtl = 2
    CanDelete = FALSE
    Durable = TRUE
    StartTime = 1
    MaxTime = 3
SYMMETRY Symmetry
INVARIANTS TypeOK CapBound PromiseKept
PROPERTIES PromisedIsWatched WatchesAsPromised
CHECK_DEADLOCK TRUE
