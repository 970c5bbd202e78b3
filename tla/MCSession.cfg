SPECIFICATION SessionSpec
CONSTANTS
    MaxClients = 1
    Fds <- OneFd
    Nicks <- Short
    None = None
    Names <- TextValues
    Lower <- Same
    Stored <- Same
    Prefixed <- Channels
    Topics <- TopicValues
    Texts <- TextValues
    Empty = ""
    Zero = "0"
    Split <- Lists
    MaxLines = 2
INVARIANTS
    SessionTypeOK
    LinesIndependent
    FirstLineIsClean
    ErrorIsOwn
PROPERTIES
    TargetIsOwn
CHECK_DEADLOCK FALSE
