\* Two memberships of one group, on one target that may get a second ID or on
\* the group itself.
SPECIFICATION FairSpec
CONSTANTS
    target = target
    Claims = {1, 2}
    Initial = {1}
    Targets = {target}
    Self = Self
    Ids = {1, 2}
    NoId = 0
    FirstId <- MCFirstId
    Group = Group
    MaxCreates = 1
    EnvBudget = 1
    DriftChecks = TRUE
INVARIANTS
    IndInv
PROPERTIES
    ForeignEdgesSurvive
    StalledClaimsKeepTheirEdges
    MembershipReadyMeansMember
    ClaimsConverge
    ReleasedEdgesGo
CHECK_DEADLOCK FALSE
