SPECIFICATION FairSpec
CONSTANTS
    Callers = {mainTask, eventLoop}
    MaxCalls = 3
    MaxEvents = 1
INVARIANT TypeOK
PROPERTIES
    ImplementsRpc
    RegisteredCallReturns
    CloseIsNoticed
CHECK_DEADLOCK FALSE
