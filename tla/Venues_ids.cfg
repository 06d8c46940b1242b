SPECIFICATION MCSpec
CONSTANTS
    Qty = 2
    MaxOrders = 2
    MaxThird = 0
    BufferSize = 1
    Attempts = 2
    MaxSessions = 2
    Brokers = {"ibkr"}
INVARIANT ListsOwnExecutions
CHECK_DEADLOCK FALSE
