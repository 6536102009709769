SPECIFICATION TestSpec
CONSTANTS
    M = 5
    NULL = NULL
    MaxLive = 20
    MaxHeight = 5
    PastRotation = TRUE
    Keys <- TestKeys
    Levels <- NoLevels
INVARIANT InnerNodesWhole
CHECK_DEADLOCK FALSE
