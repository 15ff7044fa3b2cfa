SPECIFICATION FairSpec
CONSTANTS
    k1 = k1
    k2 = k2
    Kernels <- MCKernels
    Curated <- MCCurated
    StartDisks <- PlainDisks
    MaxActs = 2
    UserMayClose = FALSE
    ParseMayFail = FALSE
PROPERTIES
    TreeFollowsKernels
CHECK_DEADLOCK FALSE
