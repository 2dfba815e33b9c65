\* An edited lease TTL is reported as applied.
SPECIFICATION Spec
CONSTANTS
    a = a
    b = b
    c = c
    n1 = n1
    n2 = n2
    Bindings = {n1, n2}
    Unbound = Unbound
    Configs = {a, b, c}
    NoConfig = NoConfig
    Kinds = {"Mount"}
    Home = n1
    PathOf <- MCPathOf
    FixedOf <- MCFixedOf
    SeenOf <- MCSeenOf
    BareOf <- MCBareOf
    Invalid = {}
    MaxGen = 2
    MaxCreates = 1
    EnvBudget = 1
    DriftChecks = TRUE
PROPERTY
    MountReadyMeansApplied
CHECK_DEADLOCK FALSE
