SPECIFICATION Spec
CONSTANTS
    Ids <- MCIds
    Patience = 2
    MaxBehind = 1
    None = None
INVARIANT MarketOwnReply
CHECK_DEADLOCK FALSE
