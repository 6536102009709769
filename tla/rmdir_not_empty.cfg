SPECIFICATION FsSpec
CONSTANTS
    Inodes = {i1, i2, i3}
    a = a
    b = b
    c = c
    Names = {a, b, c}
    KeyOf <- SomeKeys
    Garbage = {}
    NULL = NULL
    Width <- SomeWidths
SYMMETRY AnyInode
\* An oops ends the behaviour.
CHECK_DEADLOCK FALSE
PROPERTIES
    RemovedEmpty
