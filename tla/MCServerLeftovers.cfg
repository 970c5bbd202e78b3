SPECIFICATION Spec
CONSTANTS
    MaxClients = 3
    Fds <- OneFd
    Nicks = {}
    None = None
    Names <- LongNames
    Lower <- LongLower
    Stored <- LongStored
    Prefixed <- LongNames
    Topics = {}
INVARIANTS
    ChannelsInhabited
    FreedAreLong
    StrayOnlyFromClosed
CHECK_DEADLOCK FALSE
