SPECIFICATION Spec
CONSTANTS
    Wallets = {w1}
    Txs = {1, 2}
    Chains <- TwoTxs
    MaxTxsPerWallet = 1
    PollLimit = 1
    SeenMax = 2
    MaxRemembered = 1
    Attempts = 1
    LosesAnswers = TRUE
    ReadsHistory = TRUE
    MaxMessages = 1
    MaxCrashes = 1
    MaxPending = 1
INVARIANTS TypeOK NothingLost AnnouncedIsReadable CacheCapped
PROPERTIES AnnouncedAsPromised HistoryIsNotNews
