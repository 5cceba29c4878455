SPECIFICATION FairSpec
CONSTANTS
    LineBufMax = 4
    Chars = {a, b}
    NL = NL
    NUL = NUL
    ReadSizes = {0, 2, 5}
    TypeAhead = TRUE
    BadBuffers = TRUE
INVARIANTS
    RestIsClear
PROPERTIES
    WokenReaderReturns
CHECK_DEADLOCK FALSE
