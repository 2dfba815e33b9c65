SPECIFICATION FairSpec
CONSTANTS
    Kinds <- MCAllKinds
    SpecLists <- MCSpecLists
    BaoLists <- MCBaoLists
    MaxEdits = 1
    MaxForeign = 1
    MaxFaults = 1
INVARIANTS
    StatusInv
PROPERTIES
    DriftIsReal
    DriftIsRepaired
    WritesSettle
