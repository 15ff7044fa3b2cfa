SPECIFICATION Spec
CONSTANTS
    k1 = k1
    k2 = k2
    Kernels <- MCKernels
    Curated <- MCCurated
    StartDisks <- PlainDisks
    MaxActs = 1
    UserMayClose = FALSE
    ParseMayFail = TRUE
INVARIANTS
    PurgeHarmless
CHECK_DEADLOCK FALSE
