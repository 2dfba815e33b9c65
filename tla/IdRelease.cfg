\* The finalizer goes although an object the operator made lives on.
SPECIFICATION Spec
CONSTANTS
    Bindings = {i1, i2}
    Unbound = Unbound
    Configs = {a}
    NoConfig = NoConfig
    Kinds = {"Entity"}
    MaxGen = 1
    MaxCreates = 1
    EnvBudget = 0
    DriftChecks = TRUE
PROPERTIES
    ReleaseProvesCleanup
CHECK_DEADLOCK FALSE
