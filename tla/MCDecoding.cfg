SPECIFICATION Spec
CONSTANTS
    MaxItems = 3
    ClassFiles <- Shapes
INVARIANTS
    PacketsAreUnderstood
    ClassFilesAreUnderstood
CHECK_DEADLOCK FALSE
