SPECIFICATION ClientsFairSpec
CONSTANTS
    MaxClients = 3
    Fds <- FdRange
    Nicks = {alice, bob}
    None = None
INVARIANTS
    ClientsTypeOK
    NickTableAgrees
    NicksResolve
    RegisteredIff
    CountersAgree
    FdOwnership
PROPERTIES
    EofIsClosed
    ImplementsDirectory
CHECK_DEADLOCK FALSE
