SPECIFICATION LiveSpec
CONSTANTS
    Wallets = {w1}
    Objects = {1, 2}
    Reconciles = {r1, r2}
    Endpoints = 1
    Unbounded = Unbounded
    MaxDrops = 2
INVARIANTS TypeOK BackoffRespected NothingForgotten
PROPERTIES WatchedIsOpen
CHECK_DEADLOCK FALSE
