SPECIFICATION SpecRemoving
CONSTANTS
    M = 3
    NULL = NULL
    MaxKey = 7
    MaxLive = 20
    MaxHeight = 5
    PastRotation = FALSE
    Keys <- SmallKeys
    Levels <- NoLevels
INVARIANTS
    Occupancy
    Balanced
    TraversalIsStored
    NoNodeLost
    CallsReturn
PROPERTIES
    ImplementsKeySet
