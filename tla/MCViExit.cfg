\* Does exit free each line once?  Not after a dd that was undone.
SPECIFICATION Spec
CONSTANTS
    Char = {x}
    Space = x
    NUL = NUL
    NULL = NULL
    InitGapSize = 2
    MaxLines = 3
    Rows = 3
    HistorySize = 3
    TabWidth = 2
    q = q
    Command = {q}
    CmdbufSize = 2
    MaxEdits = 4
INVARIANT ExitIsClean
CHECK_DEADLOCK FALSE
