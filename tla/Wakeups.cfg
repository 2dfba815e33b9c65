SPECIFICATION FairSpec
CONSTANTS
    Nets <- MCNets
    MaxChanges = 2
INVARIANTS
    IndInv
PROPERTIES
    ReadinessTravels
CHECK_DEADLOCK FALSE
