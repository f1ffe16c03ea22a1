SPECIFICATION FairSpec
CONSTANTS
    RuntimeException = RuntimeException
    OutOfMemoryError = OutOfMemoryError
    NoException = NoException
    ExceptionClasses <- MCExceptionClasses
    MaxExceptions <- MCMaxExceptions
    MaxLaunches = 2
INVARIANTS
    TypeOK
    CauseIsFirstException
    JvmIsOwned
PROPERTIES
    OnlyItsOwnEnd
    DeathIsReported
    LeavingIsAnswered
    DisconnectKills
CHECK_DEADLOCK FALSE
