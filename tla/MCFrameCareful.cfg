\* The careful keys, with three lines and three characters: a line grows, and the
\* screen scrolls both ways.
SPECIFICATION CarefulSpec
CONSTANTS
    Char = {x, y}
    NUL = NUL
    NULL = NULL
    InitGapSize = 2
    MaxLines = 3
    Rows = 3
    MaxBytes = 3
SYMMETRY CharSymmetry
INVARIANTS
    NeverFaults
    GapAtCursor
    CursorVisible
PROPERTY ImplementsTextBuffer
\* The last line can be the only one, with no room left to type or to open a line.
CHECK_DEADLOCK FALSE
