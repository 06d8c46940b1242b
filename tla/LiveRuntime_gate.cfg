SPECIFICATION FairSpec
CONSTANTS
    CcfQty = 1
    UmcQty = 1
    MaxPlans = 2
    MaxUnwinds = 1
    StrayOrders = FALSE
PROPERTIES
    GateReopens
CHECK_DEADLOCK FALSE
