SPECIFICATION FairSpec
CONSTANTS
    k1 = k1
    k2 = k2
    Kernels <- MCKernels
    Curated <- MCCurated
    StartDisks <- PlainDisks
    MaxActs = 3
    UserMayClose = FALSE
    ParseMayFail = FALSE
PROPERTIES
    ExecuteStartsWorker
CHECK_DEADLOCK FALSE
