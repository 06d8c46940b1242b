SPECIFICATION MCSpec
CONSTANTS
    CcfQty = 2
    UmcQty = 2
    MaxRecall = 1
    Unreadable = Unreadable
    AccountsLag = TRUE
    LateFills = TRUE
INVARIANTS
    TypeOK
    NeverFlips
    TradesOnlyWhatItVerified
    RunsOnOnlyWhenHedged
    ExposureIsReversedOrCritical
    IntentIsDurable
    CalmUnwindRestoresPair
PROPERTY
    KeepsPromise
CHECK_DEADLOCK FALSE
