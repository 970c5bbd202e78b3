SPECIFICATION Spec
CONSTANTS
    MaxClients = 2
    Fds <- FdRange
    Nicks = {alice}
    None = None
    Names <- CaseNames
    Lower <- CaseLower
    Stored <- CaseStored
    Prefixed <- CaseNames
    Topics = {news}
INVARIANT
    DeliveredToTarget
CHECK_DEADLOCK FALSE
