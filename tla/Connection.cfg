\* One worker of another controller beside the connection's own.
SPECIFICATION FairSpec
CONSTANTS
    Workers = {w1}
    Reconciler = Reconciler
    None = None
    Settings <- MCSettings
    Bundles = {b1, b2}
    NoBundle = NoBundle
    EditBudget = 2
    FaultBudget = 1
INVARIANTS
    CacheInv
PROPERTIES
    ReadyIsVerified
    ClientIsRetained
    ConnectionConverges
