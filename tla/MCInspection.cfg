SPECIFICATION Spec
CONSTANTS
    t1 = t1
    t2 = t2
    loopMethod = loopMethod
    leafMethod = leafMethod
    nativeMethod = nativeMethod
    NoThread = NoThread
    Threads <- MCThreads
    Names <- MCNames
    LineOf <- MCLineOf
    ScopeOf <- MCScopeOf
    Stacks <- MCStacks
    MaxStops = 2
    MaxRequests = 2
INVARIANTS
    TypeOK
    SnapshotIsFaithful
    AnswersAreTrue
    TopIsWhereItStopped
CHECK_DEADLOCK FALSE
