SPECIFICATION LiveSpec
CONSTANTS
    Wallets = {w1}
    Txs = {1, 2}
    Chains <- OneBlockEach
    MaxTxsPerWallet = 2
    PollLimit = 2
    SeenMax = 1
    MaxRemembered = 2
    Attempts = 2
    LosesAnswers = FALSE
    ReadsHistory = FALSE
    MaxMessages = 2
    MaxCrashes = 1
    MaxPending = 1
INVARIANTS TakenOnce
PROPERTIES QueueDrains SafetyNet PumpMakesProgress TickMakesProgress
