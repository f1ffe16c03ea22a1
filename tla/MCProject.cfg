SPECIFICATION Spec
CONSTANTS
    P = P
    Q = Q
    DefaultPackage = DefaultPackage
    NoFile = NoFile
    Projects <- MCProjects
    Outputs <- MCOutputs
INVARIANTS
    MapIsTwoWay
    MapIsTrue
    MainClassExists
CHECK_DEADLOCK FALSE
