CONSTANTS
    Scripts = {r1, r2}
    Machines <- EnabledMachines
    MaxVersion = 2
    Repo = {"linux", "lts"}
    Custom = {"custom"}
    SameRelease = {"lts"}
    Dirs <- MCDirs
    Gpus <- MCGpus
    MaxFlows = 2
    MaxBuilds = 0
    MaxExternal = 1
    MaxEvents = 3

SPECIFICATION Spec

INVARIANTS
    PrecompiledIsPaired

CHECK_DEADLOCK FALSE
