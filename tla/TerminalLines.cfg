SPECIFICATION Spec
CONSTANTS
    LineBufMax = 5
    Chars = {a, b}
    NL = NL
    NUL = NUL
    ReadSizes = {5, 9}
    TypeAhead = FALSE
    BadBuffers = FALSE
INVARIANTS
    BufferSafe
PROPERTIES
    RefinesLineEditor
