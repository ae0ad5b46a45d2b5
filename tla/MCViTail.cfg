\* Is every line that can be reached still allocated, with u among the keys?  Not after
\* undo of a dd on the first line made taill point to it.
SPECIFICATION Spec
CONSTANTS
    Char = {x}
    Space = x
    NUL = NUL
    NULL = NULL
    InitGapSize = 2
    MaxLines = 4
    Rows = 3
    HistorySize = 2
    TabWidth = 2
    q = q
    Command = {q}
    CmdbufSize = 2
    MaxEdits = 5
INVARIANT ReachableAlive
\* A fault or an exit ends the run.
CHECK_DEADLOCK FALSE
