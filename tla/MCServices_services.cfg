SPECIFICATION MCSpec
CONSTANTS
    Ids <- MCIds
    Patience = 2
    MaxBehind = 1
    None = None
    LastDay = 11
    Expiries = {9, 36}
    MinBusinessDays = 3
    ExitBusinessDays = 1
    MaxClosed = 2
    Symbols <- MCSymbols
    Ttl = 2
    MaxServe = 3
    Lag = 1
    QueueSize = 2
    SeenLimit = 1
    Overlap = 1
    MaxAlerts = 3
    MaxLog = 3
    MaxQty = 2
    MaxCommands = 2
    MaxDelay = 2
    LastRow = 6
INVARIANT TypeOK
INVARIANT GuardedOwnReply
INVARIANT ServicesTypeOK
INVARIANT NeverHeldIntoExpiry
INVARIANT FlatOverTheWeekend
INVARIANT AlertsGoOutInOrder
INVARIANT CommandsAnsweredOnce
INVARIANT ServedRateIsBounded
INVARIANT NeverCrossesZero
INVARIANT CompleteMeansClosed
INVARIANT BooksMatchPosition
PROPERTY WedgedIsScrapped
PROPERTY EveryCallReturns
PROPERTY EntersNothingDue
PROPERTY AlertsGoOut
\* a closed facade, a finished process and the last bar have nothing left to do
CHECK_DEADLOCK FALSE
