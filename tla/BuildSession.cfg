SPECIFICATION FairSpec
CONSTANTS
    Flavors = {"a", "b"}
    Checkouts = {{}, {"a", "b"}}
    MaxJobs = 3
    MaxActs = 3
    MaxPolls = 2
    MaxPools = 1
INVARIANTS
    TypeOK
    HelperIsProtected
    StaleOfferIsOrphan
    IInv
PROPERTIES
    InstallsOfferedBuild
    RunningSettles
    PollingEnds
    MarkerConsumed
CHECK_DEADLOCK FALSE
