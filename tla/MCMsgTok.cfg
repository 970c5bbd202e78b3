SPECIFICATION TokSpec
CONSTANTS
    Space = " "
    Colon = ":"
    CR = "r"
    LF = "n"
    NUL = "0"
    Others <- Letters
    MaxLength = 7
INVARIANTS
    TokensAsReference
    EndsComplete
CHECK_DEADLOCK FALSE
