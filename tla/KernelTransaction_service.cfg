SPECIFICATION FairSpec
CONSTANTS
    k1 = k1
    k2 = k2
    Kernels <- MCKernels
    Curated <- MCCurated
    StartDisks <- StockDisks
    MaxActs = 4
    UserMayClose = TRUE
    ParseMayFail = FALSE
PROPERTIES
    ServiceSpec
    ExecuteFinishes
    UiReturns
    WorkerEnds
CHECK_DEADLOCK FALSE
