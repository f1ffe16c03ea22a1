SPECIFICATION FairSpec
CONSTANTS
    Callers = {mainTask, eventLoop}
    MaxCalls = 2
    MaxEvents = 1
PROPERTIES
    EveryCallReturns
CHECK_DEADLOCK FALSE
