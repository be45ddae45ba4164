SPECIFICATION Spec
CONSTANTS
    x1 = x1
    Displays <- MCOne
    None = None
    PipeCap = 4
    MaxEvents = 2
    MaxPutBacks = 0
    MaxChecks = 0
INVARIANTS
    ReadEventsQueues
CHECK_DEADLOCK FALSE
