SPECIFICATION ReactorFairSpec
CONSTANTS
    MaxClients = 3
    Fds <- TwoFds
    Nicks = {}
    None = None
    MaxEvents = 2
    MaxInput = 1
INVARIANTS
    BatchIsServed
    ReadsDoNotBlock
PROPERTIES
    ImplementsFairClients
CHECK_DEADLOCK FALSE
