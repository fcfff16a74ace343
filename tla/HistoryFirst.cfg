SPECIFICATION RouteSpec
CONSTANTS
    Wallets = {w1, w2}
    UnsafeWallets = {w2}
    Callers = {}
    Anonymous = "anonymous"
    Calls = {c1}
    NoRow = NoRow
    MaxWallets = 1
    MaxPerCaller = 1
    MaxPerAnonymous = 1
    IdleTtl = 1
    EvictionInterval = 1
    PushTtl = 2
    CanDelete = FALSE
    Durable = TRUE
    StartTime = 1
    MaxTime = 2
    Txs = {1, 2}
    Untimed = {}
    Chains <- OneOrTwoBlocks
    Active = {w1}
    MaxTxsPerWallet = 1
    RefreshPageSize = 1
    MaxQueryLimit = 1
    FirstConnectLimit = 1
INVARIANTS FirstConnectIsTold
CHECK_DEADLOCK TRUE
