\* Safety of two ID-bound kinds under every pair of environment events.
SPECIFICATION Spec
CONSTANTS
    Bindings = {i1, i2}
    Unbound = Unbound
    Configs = {a, b}
    NoConfig = NoConfig
    Kinds = {"Entity", "EntityAlias"}
    MaxGen = 2
    MaxCreates = 1
    EnvBudget = 2
    DriftChecks = TRUE
SYMMETRY IdSymmetry
INVARIANTS
    NoForeignMutation
    FinalizerBeforeMutation
    IndInv
PROPERTIES
    CleanupBeforeRelease
    BindingIsStable
    ReadyMeansApplied
    ImplementsPromise
CHECK_DEADLOCK FALSE
