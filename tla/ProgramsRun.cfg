SPECIFICATION FairPrograms
CONSTANTS
    FileArrayLen = 4
    FnameLen = 4
    CharsPerBlock = 2
    Disks <- MCDisks
    Sizes = {1, 3}
    Statuses = {0, 128}
    MaxPos = 5
    NL = "NL"
    NUL = "NUL"
    Space = "SP"
    Commands <- MCCommands
    BufSize = 3
    Junk = {"NL", "a"}
    OddNames <- MCOddNames
INVARIANTS
    ReadsInOrder
    EntriesInOrder
    
    CatCopies
    LsListsAll
    GrepExact
    SyserrPasses
    FailureNoticed
PROPERTIES
    ZeroOnlyAtEnd
    ProgramsEnd
