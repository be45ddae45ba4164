SPECIFICATION FairSpec
CONSTANTS
    c1 = c1
    c2 = c2
    Clients <- MCClients
    Daemon = Daemon
    Nobody = Nobody
    MaxMsgs = 4
    MaxDepth = 3
    MaxHooked = 2
    MaxRefused = 1
INVARIANTS
    HandlerKeepsLock
    OwnMessage
    NeverWaitsForItself
    IdleReleasesLock
PROPERTIES
    UmHandled
CHECK_DEADLOCK FALSE
