\* The careful keys and undo, with up to four edits in a ring that holds two: records
\* are evicted and disposed of, and edits and undos are mixed, up to two undos in a row.
SPECIFICATION CarefulSpec
CONSTANTS
    Char = {x}
    Space = x
    NUL = NUL
    NULL = NULL
    InitGapSize = 2
    MaxLines = 5
    Rows = 4
    HistorySize = 3
    TabWidth = 2
    q = q
    Command = {q}
    CmdbufSize = 2
    MaxEdits = 4
INVARIANTS
    NeverFaults
    GapAtCursor
    Linked
    ScreenFollows
    ReachableAlive
    RefsCoverPlaces
PROPERTY UndoRestores
CHECK_DEADLOCK FALSE
