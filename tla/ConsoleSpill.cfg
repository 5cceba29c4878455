SPECIFICATION ConsoleSpec
CONSTANTS
    LineBufMax = 4
    Chars = {a}
    NL = NL
    NUL = NUL
    ReadSizes = {5}
    TypeAhead = FALSE
    BadBuffers = FALSE
    Cols = 2
    Rows = 6
    Newline = NL
    ByteSize = 4
    PageCells = 12
    KeysHit = {"putc"}
    Texts <- MCTexts
    Exceptions <- MCExceptions
    OtherCursors <- MCOtherCursors
INVARIANTS
    StoresOnScreen
CHECK_DEADLOCK FALSE
