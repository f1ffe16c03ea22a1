SPECIFICATION MCSpec
CONSTANTS
    Main = t1
    Threads = {t1, t2}
    NoThread = NoThread
    Composites <- MCComposites
    MaxSteps = 4
    MaxEvents = 3
    MaxRequests = 2
INVARIANTS
    TypeOK
    StepAccounted
    SuspensionAccounted
    SnapshotOfStoppedProgram
    NoStepAfterContinue
PROPERTIES
    SuspensionResolved
    LeavingEndsJvm
    IsDebuggee
