SPECIFICATION Spec
CONSTANTS
    p1 = p1
    p2 = p2
    Pool <- MCPool
    Sources = {"aur", "main"}
    Layouts <- MCLayouts
    Upstreams <- MCUpstreams
    Pages <- MCPages
    Entries = {"my.patch"}
    Options = {"lto"}
    Offered <- MCOffered
    Resets = {"lto"}
    Defaults = {}
    HomeIsGit = TRUE
    ParentIsGit = TRUE
    MaxClicks = 3
    MaxEdits = 1
    PH = "$pkgbase"
    NoEntry = "no entry"
    Patches = {"up.patch", "my.patch"}
    BadPieces = {}
SYMMETRY PoolSymmetry
INVARIANTS
    TypeOK
    CwdRestored
    OwnCheckoutOnly
    BuildsWhatIsConfigured
    ForeignKept
PROPERTIES
    RepeatIsStable
CHECK_DEADLOCK FALSE
