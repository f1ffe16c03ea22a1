SPECIFICATION MCSpec
CONSTANTS
    Main = t1
    Threads = {t1, t2}
    NoThread = NoThread
    Composites <- MCComposites
    MaxSteps = 4
    MaxEvents = 4
    MaxRequests = 2
INVARIANT SnapshotOfStoppedJvm
