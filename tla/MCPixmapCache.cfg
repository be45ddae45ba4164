SPECIFICATION Spec
CONSTANTS
    p1 = p1
    p2 = p2
    t1 = t1
    t2 = t2
    t3 = t3
    own = own
    shared = shared
    Nobody = Nobody
    Procs <- MCProcs
    Threads <- MCThreads
    ProcOf <- MCProcOf
    Pixmaps <- MCPixmaps
    MayDraw <- MCMayDraw
    MayCopyTo <- MCMayCopyTo
    MayCopyFrom <- MCMayCopyFrom
    MayGet <- MCMayGet
    MaxDraws = 3
INVARIANTS
    TypeOK
    NothingErased
    CacheCurrent
    ImageShowsFinished
CHECK_DEADLOCK FALSE
