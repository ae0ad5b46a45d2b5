\* Every key but u, in every mode, exit included, with four lines and up to four recorded
\* edits: the undo ring, which holds two, wraps, and the records it evicts are disposed of.
SPECIFICATION EditSpec
CONSTANTS
    Char = {x}
    Space = x
    NUL = NUL
    NULL = NULL
    InitGapSize = 2
    MaxLines = 4
    Rows = 3
    HistorySize = 3
    TabWidth = 2
    q = q
    Command = {q}
    CmdbufSize = 2
    MaxEdits = 4
INVARIANTS
    TypeOK
    ReachableAlive
    RefsCoverPlaces
    ExitIsClean
PROPERTY FaultsHaveCause
\* A fault or an exit ends the run.
CHECK_DEADLOCK FALSE
