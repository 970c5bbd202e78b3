SPECIFICATION Spec
CONSTANTS
    MaxClients = 2
    Fds <- FdRange
    Nicks = {alice}
    None = None
    Names <- CaseNames
    Lower <- CaseLower
    Stored <- CaseStored
    Prefixed <- CaseNames
    Topics = {news}
INVARIANTS
    ServerTypeOK
    KeysLowercase
    MembersResolve
PROPERTIES
    MembershipIsOwn
    
CHECK_DEADLOCK FALSE
