CONSTANTS
    Scripts = {r1, r2}
    Machines <- MCMachines
    MaxVersion = 2
    Repo = {"linux", "lts"}
    Custom = {"custom"}
    SameRelease = {"lts"}
    Dirs <- MCDirs
    Gpus <- MCGpus
    MaxFlows = 2
    MaxBuilds = 1
    MaxExternal = 1
    MaxEvents = 3

SPECIFICATION Spec

INVARIANTS
    TypeOK
    SectionOnce
    FailsWithCause
    UnwarnedIsPaired
    SuccessMeansAll
    InstallFindsItsTargets

PROPERTIES
    BackupFirst

SYMMETRY ScriptSymmetry

CHECK_DEADLOCK FALSE
