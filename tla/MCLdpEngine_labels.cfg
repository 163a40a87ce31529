\* Three label switching routers, two prefixes.
CONSTANTS
    Lsr = {1, 2, 3}
    Fec = {1, 2}
    Labs <- AllLabs
    MaxHop = 4
    HopLimit = 2
    PathLimit = 1
SPECIFICATION Spec
CHECK_DEADLOCK FALSE
INVARIANT LabelsUnique
INVARIANT TransitMatchesLib
INVARIANT NoGhostBinding
INVARIANT LoopFree
PROPERTY Settles
