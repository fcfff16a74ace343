SPECIFICATION RouteSpec
CONSTANTS
    Wallets = {w1, w2}
    UnsafeWallets = {w2}
    Callers = {}
    Anonymous = "anonymous"
    Calls = {c1, c2}
    NoRow = NoRow
    MaxWallets = 1
    MaxPerCaller = 1
    MaxPerAnonymous = 1
    IdleTtl = 1
    EvictionInterval = 2
    PushTtl = 2
    CanDelete = FALSE
    Durable = TRUE
    StartTime = 2
    MaxTime = 3
    Txs = {1, 2}
    Untimed = {}
    Chains <- TwoBlocks
    Active = {w1}
    MaxTxsPerWallet = 1
    RefreshPageSize = 1
    MaxQueryLimit = 1
    FirstConnectLimit = 1
SYMMETRY Symmetry
INVARIANTS RouteTypeOK PromiseKept HistoryGoesForward FirstConnectWasRefused
PROPERTIES WatchesAsPromised
CHECK_DEADLOCK TRUE
