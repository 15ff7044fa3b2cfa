SPECIFICATION Spec
CONSTANTS
    k1 = k1
    k2 = k2
    Kernels <- MCKernels
    Curated <- MCCurated
    StartDisks <- PlainDisks
    MaxActs = 4
    UserMayClose = FALSE
    ParseMayFail = FALSE
INVARIANTS
    CheckedRowsStay
CHECK_DEADLOCK FALSE
