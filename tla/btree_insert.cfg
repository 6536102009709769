SPECIFICATION SpecInsertOnly
CONSTANTS
    M = 4
    NULL = NULL
    MaxKey = 8
    MaxLive = 20
    MaxHeight = 5
    PastRotation = TRUE
    Keys <- SmallKeys
    Levels <- NoLevels
INVARIANTS
    Occupancy
PROPERTIES
    ImplementsKeySetFully
