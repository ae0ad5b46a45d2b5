\* Lines of up to four characters with a gap of three at first: a line grows
\* several times, at its start, its end and in its middle.
SPECIFICATION Spec
CONSTANTS
    Char = {x, y}
    NUL = NUL
    InitGapSize = 3
    Column = {0, 1, 2, 3, 4, 5}
    MaxText = 4
SYMMETRY CharSymmetry
INVARIANTS
    LineInv
    GapAtCursor
PROPERTY ImplementsTextLine
