SPECIFICATION LiveSpec
CONSTANTS
    Wallets = {w1}
    Objects = {1, 2}
    Reconciles = {r1}
    Endpoints = 2
    Unbounded = Unbounded
    MaxDrops = 0
PROPERTIES FailsOver
CHECK_DEADLOCK FALSE
