\* Two callers; a lease with a third of it as margin, one with a minute as
\* margin, and one that never ends.
SPECIFICATION Spec
CONSTANTS
    AuthMethods = {"token", "approle"}
    t1 = t1
    t2 = t2
    t3 = t3
    t4 = t4
    c1 = c1
    c2 = c2
    Callers = {c1, c2}
    NoCaller = NoCaller
    Tokens = {t1, t2, t3, t4}
    NoToken = NoToken
    Durations = {0, 1, 7}
    Minute = 2
    MaxDuration = 7
    FaultBudget = 1
SYMMETRY Symmetry
INVARIANTS
    IndInv
    LockHolderIsBusy
    RetryUsesAnotherToken
    MarginCoversDelay
    DeniedForAReason
