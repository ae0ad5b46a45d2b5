\* Any key at any time, with three lines and two characters: a screen of two rows of
\* text scrolls, lines break and join, and are cut at the head, the tail and between.
SPECIFICATION Spec
CONSTANTS
    Char = {x, y}
    NUL = NUL
    NULL = NULL
    InitGapSize = 2
    MaxLines = 3
    Rows = 3
    MaxBytes = 2
SYMMETRY CharSymmetry
INVARIANTS
    TypeOK
    Linked
    RowOfCurrent
    CountsHold
PROPERTY DeleteTakesOne
\* A fault ends the run.
CHECK_DEADLOCK FALSE
