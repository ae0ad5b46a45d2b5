\* Does undo take back the last edit, wherever the cursor is?  Not two joins taken back
\* in a row.
SPECIFICATION AnyUndoSpec
CONSTANTS
    Char = {x}
    Space = x
    NUL = NUL
    NULL = NULL
    InitGapSize = 2
    MaxLines = 5
    Rows = 4
    HistorySize = 4
    TabWidth = 2
    q = q
    Command = {q}
    CmdbufSize = 2
    MaxEdits = 4
PROPERTY UndoTakesBackText
CHECK_DEADLOCK FALSE
