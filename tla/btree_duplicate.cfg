SPECIFICATION SpecInsertOnly
CONSTANTS
    M = 4
    NULL = NULL
    MaxKey = 5
    MaxLive = 4
    MaxHeight = 5
    PastRotation = TRUE
    Keys <- SmallKeys
    Levels <- NoLevels
PROPERTIES
    DuplicateFails
