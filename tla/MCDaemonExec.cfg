SPECIFICATION FairSpec
CONSTANTS
    p1 = p1
    p2 = p2
    t1 = t1
    t2 = t2
    t3 = t3
    NoThread = NoThread
    Procs <- MCProcs
    Threads <- MCThreads
    ProcOf <- MCProcOf
    MaxExecs = 2
INVARIANTS
    TypeOK
    OwnReply
    OneMessagePerProcess
PROPERTIES
    KeepsPromise
    ExecReturns
CHECK_DEADLOCK FALSE
