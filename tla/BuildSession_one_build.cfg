SPECIFICATION Spec
CONSTANTS
    Flavors = {"a", "b"}
    Checkouts = {{}, {"a", "b"}}
    MaxJobs = 3
    MaxActs = 2
    MaxPolls = 2
    MaxPools = 1
INVARIANTS
    OneBuild
CHECK_DEADLOCK FALSE
