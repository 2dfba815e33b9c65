\* Liveness of the other ID-bound kinds.
SPECIFICATION FairSpec
CONSTANTS
    Bindings = {i1, i2}
    Unbound = Unbound
    Configs = {a, b}
    NoConfig = NoConfig
    Kinds = {"Group", "GroupAlias", "Persona"}
    MaxGen = 2
    MaxCreates = 1
    EnvBudget = 1
    DriftChecks = TRUE
PROPERTIES
    CleanupCompletes
    Converges
    DriftIsRepaired
CHECK_DEADLOCK FALSE
