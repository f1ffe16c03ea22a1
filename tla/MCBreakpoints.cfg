SPECIFICATION Spec
CONSTANTS
    Outer = Outer
    Inner = Inner
    Other = Other
    FileA = FileA
    FileB = FileB
    NoteFile = NoteFile
    NoClass = NoClass
    Classes <- MCClasses
    Files <- MCFiles
    SourceOf <- MCSourceOf
    LinesOf <- MCLinesOf
    Requests <- MCRequests
    MaxEdits <- MCMaxEdits
INVARIANTS
    TypeOK
    NoOrphans
    PendingAwaits
    ShownIsTrue
    RecordedIsLive
    NoneMissed
