\* An edited connectionRef leads to the object of somebody else.
SPECIFICATION Spec
CONSTANTS
    a = a
    b = b
    c = c
    n1 = n1
    n2 = n2
    Bindings = {n1, n2}
    Unbound = Unbound
    Configs = {a, b, c}
    NoConfig = NoConfig
    Kinds = {"Quota"}
    Home = n1
    PathOf <- MCPathOf
    FixedOf <- MCFixedOf
    SeenOf <- MCSeenOf
    BareOf <- MCBareOf
    Invalid = {}
    MaxGen = 2
    MaxCreates = 1
    EnvBudget = 2
    DriftChecks = TRUE
INVARIANT
    MarkerVouchesForItsObject
CHECK_DEADLOCK FALSE
