SPECIFICATION FairSpec
CONSTANTS
    CcfQty = 2
    UmcQty = 3
    MaxPlans = 2
    MaxUnwinds = 1
    StrayOrders = TRUE
INVARIANTS
    TypeOK
    RunningMatchesBrokers
PROPERTIES
    UnwindOnlyReduces
    DriftIsAnswered
    StuckPauseClears
CHECK_DEADLOCK FALSE
