SPECIFICATION RollSpec
CONSTANTS
    Contracts <- MCContracts
    BookStale = 3
    RestAges = {0, 4}
    Stale = 1
    Watchdog = 2
    ForwardFill = 3
    Window = 3
    MaxTrailing = 2
    MaxLag = 1
    PollsAMinute = 2
    LiveExecute = TRUE
INVARIANT SeedIsCheckedToo
