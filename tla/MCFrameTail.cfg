\* Does cutl() delete the tail properly?  Not when the screen begins with it.
SPECIFICATION Spec
CONSTANTS
    Char = {x, y}
    NUL = NUL
    NULL = NULL
    InitGapSize = 2
    MaxLines = 3
    Rows = 3
    MaxBytes = 2
PROPERTY DeletesTailProperly
CHECK_DEADLOCK FALSE
