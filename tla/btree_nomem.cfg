SPECIFICATION SpecShortOfMemory
CONSTANTS
    M = 3
    NULL = NULL
    MaxKey = 7
    MaxLive = 6
    MaxHeight = 5
    PastRotation = TRUE
    Keys <- SmallKeys
    Levels <- FourLevels
INVARIANTS
    Balanced
    TraversalIsStored
