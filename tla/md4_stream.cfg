SPECIFICATION Spec
CONSTANTS
    BLOCK = 12
    FIELD = 8
    BYTE = 2
    Pieces <- ShortAndLong
    MaxCount = 37
INVARIANTS
    TypeOK
    Buffered
PROPERTIES
    ImplementsMessage
