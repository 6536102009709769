SPECIFICATION FsSpec
CONSTANTS
    Inodes = {i1, i2, i3, i4}
    a = a
    b = b
    c = c
    Names = {a, b, c}
    KeyOf <- SomeKeys
    Garbage = {1}
    NULL = NULL
    Width <- SomeWidths
SYMMETRY AnyInode
\* An oops ends the behaviour.
CHECK_DEADLOCK FALSE
INVARIANTS
    TypeOK
    Coherent
    FileNumExact
    LinksSuffice
    ReachedIsLive
    OpenIsLive
    NeverStolen
    SuperOnce
    ListingExact
PROPERTIES
    FreedOnce
