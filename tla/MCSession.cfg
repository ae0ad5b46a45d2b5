\* A counter of three bits, for which 8 bytes are the longest line it can count, and a
\* terminal where the longest message ends before the position begins.
SPECIFICATION Spec
CONSTANTS
    Rows = 4
    Cols = 48
    Frame <- SmallFrame
    CounterRange = 8
    PositionWidth = {17}
    MaxQueue = 2
INVARIANTS
    TypeOK
    CursorFollows
    NULIsNoText
    PositionShown
    StaysInStatusbuf
PROPERTY ImplementsKeyQueue
\* The session ends.
CHECK_DEADLOCK FALSE
