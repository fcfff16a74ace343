SPECIFICATION LiveSpec
CONSTANTS
    Wallets = {w1}
    Txs = {1}
    Chains <- OneTx
    MaxTxsPerWallet = 1
    PollLimit = 1
    SeenMax = 1
    MaxRemembered = 1
    Attempts = 2
    LosesAnswers = FALSE
    ReadsHistory = FALSE
    MaxMessages = 1
    MaxCrashes = 1
    MaxPending = 2
PROPERTIES SightedIsAnnounced
