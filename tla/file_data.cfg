SPECIFICATION Spec
CONSTANTS
    QUANTUM = 2
    QSET = 2
    INTS = 2
    Payloads <- EmptyShortLong
    Counts = {2}
    Seeks <- SomeSeeks
    NULL = NULL
    JUNK = JUNK
    MaxPos = 8
    MaxWrites = 2
INVARIANTS
    TypeOK
PROPERTIES
    ImplementsByteFile
