SPECIFICATION LiveSpec
CONSTANTS
    Wallets = {w1}
    Objects = {1, 2}
    Reconciles = {r1}
    Endpoints = 1
    Unbounded = Unbounded
    MaxDrops = 0
PROPERTIES IdleIsReleased
CHECK_DEADLOCK FALSE
