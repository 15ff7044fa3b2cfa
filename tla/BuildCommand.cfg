SPECIFICATION FairBuildSpec
CONSTANTS
    Codes = {0, 1, 130}
    Terminals = {"blocking", "singleton", "retrying", "none"}
    StartMayExpire = TRUE
    DoneMayExpire = TRUE
    WindowMayClose = TRUE
    Keys = {"k1", "k2"}
INVARIANTS
    TypeOK
    CodeIsReal
    FailsForAReason
PROPERTIES
    NoLateStart
    HelperEnds
    ContractSpec
    JobSpec
CHECK_DEADLOCK FALSE
