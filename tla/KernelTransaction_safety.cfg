SPECIFICATION Spec
CONSTANTS
    k1 = k1
    k2 = k2
    Kernels <- MCKernels
    Curated <- MCCurated
    StartDisks <- StockDisks
    MaxActs = 4
    UserMayClose = TRUE
    ParseMayFail = TRUE
INVARIANTS
    TypeOK
    KernelsHandleLive
    NoDoubleRelease
    IdleIsClean
    RefreshNeverMeetsTransaction
    IInv
PROPERTIES
    NoTransactionAfterClose
    TransactionKeepsView
CHECK_DEADLOCK FALSE
