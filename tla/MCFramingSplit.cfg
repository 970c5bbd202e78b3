SPECIFICATION Spec
CONSTANTS
    N = 5
    Bytes <- ByteValues
    CR = "r"
    LF = "n"
    NUL = "0"
    MaxBytes = 7
INVARIANT
    SplitLineKept
CHECK_DEADLOCK FALSE
