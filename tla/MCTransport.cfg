SPECIFICATION FairSpec
CONSTANTS
    Length <- MCLength
    MaxDocuments = 2
    MaxEvents = 1
INVARIANTS
    TypeOK
    NumbersAreUnique
    AnsweredInOrder
    ReadsWhatWasSent
    StdoutParses
PROPERTIES
    RequestIsAnswered
CHECK_DEADLOCK FALSE
