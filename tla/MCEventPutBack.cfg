SPECIFICATION FairSpec
CONSTANTS
    x1 = x1
    Displays <- MCOne
    None = None
    PipeCap = 4
    MaxEvents = 2
    MaxPutBacks = 1
    MaxChecks = 0
PROPERTIES
    NextEventReturns
CHECK_DEADLOCK FALSE
