SPECIFICATION HashSpec
CONSTANTS
    Keys <- KeyNames
    djb2 <- First_hash
    djb2a <- Second_hash
    Hints <- SmallHints
    MaxInserts = 4
    NULL = NULL
INVARIANTS
    CountsAgree
    ValuesOwnedOnce
    SpinMeansUsedUp
PROPERTIES
    ImplementsDictionary
CHECK_DEADLOCK FALSE
