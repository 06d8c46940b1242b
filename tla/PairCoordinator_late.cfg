SPECIFICATION Spec
CONSTANTS
    CcfQty = 1
    UmcQty = 2
    MaxRecall = 0
    Unreadable = Unreadable
    AccountsLag = FALSE
    LateFills = TRUE
INVARIANTS
    NoReversedPair
CHECK_DEADLOCK FALSE
