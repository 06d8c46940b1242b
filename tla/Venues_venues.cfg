SPECIFICATION MCSpec
CONSTANTS
    Qty = 2
    MaxOrders = 2
    MaxThird = 0
    BufferSize = 1
    Attempts = 2
    MaxSessions = 2
    Brokers = {"fubon", "ibkr"}
INVARIANTS
    AdaptersTypeOK
    CountsOwnFillsOnce
    EarlyFillsAreFound
    ServesThisSession
PROPERTIES
    FailureIsEarned
    KeepPromiseOrOvercount
    OrderIsAnswered
CHECK_DEADLOCK FALSE
