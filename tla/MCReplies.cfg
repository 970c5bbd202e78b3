SPECIFICATION RepliesSpec
CONSTANTS
    Texts <- SomeTexts
    Widths <- SomeWidths
    MaxMembers = 42
    MaxMotd = 245
INVARIANTS
    RepliesFit
    NamReplyFits
    MotdComplete
CHECK_DEADLOCK FALSE
