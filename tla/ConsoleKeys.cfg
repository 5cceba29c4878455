SPECIFICATION ConsoleSpec
CONSTANTS
    LineBufMax = 3
    Chars = {a}
    NL = NL
    NUL = NUL
    ReadSizes = {4}
    TypeAhead = FALSE
    BadBuffers = TRUE
    Cols = 2
    Rows = 6
    Newline = NL
    ByteSize = 4
    PageCells = 12
    KeysHit = {"cursor"}
    Texts <- MCTexts
    Exceptions <- MCExceptions
    OtherCursors <- MCOtherCursors
INVARIANTS
    DisplayShown
    CursorOnScreen
    LineIsShown
    FaultReported
CHECK_DEADLOCK FALSE
