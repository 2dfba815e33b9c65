\* Safety and liveness of the name-bound kinds.
SPECIFICATION FairSpec
CONSTANTS
    a = a
    b = b
    c = c
    n1 = n1
    n2 = n2
    Bindings = {n1, n2}
    Unbound = Unbound
    Configs = {a, b, c}
    NoConfig = NoConfig
    Kinds = {"Policy", "Mount", "System", "Rotation", "MFAMethod"}
    Home = n1
    PathOf <- MCPathOf
    FixedOf <- MCFixedOf
    SeenOf <- MCSeenOf
    BareOf <- MCBareOf
    Invalid = {b}
    MaxGen = 2
    MaxCreates = 1
    EnvBudget = 1
    DriftChecks = TRUE
INVARIANTS
    IndInv
    NoForeignOverwrite
    FinalizerBeforeMutation
PROPERTIES
    CleanupBeforeRelease
    ReadyMeansApplied
    OwnObjectIsNeverRefused
    CleanupCompletes
    Converges
    DriftIsRepaired
CHECK_DEADLOCK FALSE
