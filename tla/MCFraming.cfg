SPECIFICATION FairSpec
CONSTANTS
    N = 5
    Bytes <- ByteValues
    CR = "r"
    LF = "n"
    NUL = "0"
    MaxBytes = 7
INVARIANTS
    TypeOK
    WaitingIsDrained
    CloseMeansEof
    MessageIsOneLine
    BytesKept
PROPERTIES
    DrainEnds
    EofNoticed
CHECK_DEADLOCK FALSE
