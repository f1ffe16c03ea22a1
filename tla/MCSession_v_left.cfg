SPECIFICATION Spec
CONSTANTS
    RuntimeException = RuntimeException
    OutOfMemoryError = OutOfMemoryError
    NoException = NoException
    ExceptionClasses <- MCExceptionClasses
    MaxExceptions <- MCMaxExceptions
    MaxLaunches = 1
INVARIANT NoJvmLeft
CHECK_DEADLOCK FALSE
