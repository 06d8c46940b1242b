SPECIFICATION RollSpec
CONSTANTS
    Contracts <- MCContracts
    BookStale = 3
    RestAges = {0, 4}
    Stale = 1
    Watchdog = 2
    ForwardFill = 2
    Window = 3
    MaxTrailing = 2
    MaxLag = 1
    PollsAMinute = 2
    LiveExecute = TRUE
INVARIANT RollTypeOK
INVARIANT OneContract
INVARIANT BarPriceIsRecent
PROPERTY WedgedFeedIsNoticed
