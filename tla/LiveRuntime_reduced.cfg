SPECIFICATION FairSpec
CONSTANTS
    CcfQty = 2
    UmcQty = 2
    MaxPlans = 1
    MaxUnwinds = 1
    StrayOrders = FALSE
INVARIANTS
    FlatHoldsNothing
CHECK_DEADLOCK FALSE
