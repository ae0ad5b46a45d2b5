----------------------------- MODULE HistoryOps -----------------------------
(***************************************************************************)
(* The undo history, src/src/history.c, as operators on the framebuffer f  *)
(* of FrameOps and the ring r of RingOps.  A record of the ring is a       *)
(* struct cmd_s:                                                           *)
(*                                                                         *)
(*     [cmd, arg, dptr, row, col, scroll_r]                                *)
(*                                                                         *)
(* with dptr a line id, or NULL.                                           *)
(***************************************************************************)
EXTENDS FrameOps

CONSTANTS HistorySize       \* VI_HISTORY_SIZE, the slots of the undo ring

ASSUME HistorySizeAssumption == HistorySize \in Nat /\ HistorySize >= 2

\* What calloc leaves in a slot: VICMD_INSERT_C is 0.
ZeroCmd == [cmd |-> "INSERT_C", arg |-> NUL, dptr |-> NULL, row |-> 0, col |-> 0, scroll_r |-> 0]

R == INSTANCE RingOps WITH ItemCount <- HistorySize, ZeroItem <- ZeroCmd

Cmd(cmd, arg, dptr, f, row, col) ==
    [cmd |-> cmd, arg |-> arg, dptr |-> dptr, row |-> row, col |-> col, scroll_r |-> f.scroll_r]

\* mutant of DeallocateCmd: the references are not asked.
DeallocateCmdAlways(f, cmd) == IF cmd.dptr = NULL THEN f ELSE FreeLine(f, cmd.dptr)

\* deallocate_cmd(): the deallocator of the ring.  Only the commands that hold a
\* line have something to do.
DeallocateCmd(f, cmd) ==
    LET line == cmd.dptr
    IN  IF line = NULL THEN f
        ELSE Check(f, Usable(f, line),
                   IF f.line[line].refs = 1 THEN FreeLine(f, line)
                   ELSE [f EXCEPT !.line[line].refs = @ - 1])

\* mutant of AddUndoable: the record's reference is not counted.
AddUndoableUncounted(f, r, cmd) ==
    IF R!NextDisposes(r) THEN DeallocateCmd(f, r.buffer[R!NextSlot(r)]) ELSE f

\* add_undoable_at_loc(): the framebuffer after it.  next() may dispose of an
\* older command first; the new one counts as a reference to its line.
AddUndoable(f, r, cmd) ==
    LET disposed == IF R!NextDisposes(r) THEN DeallocateCmd(f, r.buffer[R!NextSlot(r)]) ELSE f
    IN  IF cmd.dptr = NULL THEN disposed
        ELSE Check(disposed, Readable(disposed, cmd.dptr),
                   [disposed EXCEPT !.line[cmd.dptr].refs = @ + 1])

\* destroy() of the ring: every slot goes to the deallocator.
DestroyRing(f, r) ==
    LET after[k \in 0 .. HistorySize] == IF k = 0 THEN f
                                         ELSE DeallocateCmd(after[k - 1], r.buffer[k - 1])
    IN  after[HistorySize]

-----------------------------------------------------------------------------
(* undo(), one operator for each command *)

\* mutant of Restore: the current line is not looked up again.
RestoreKeepsLine(f, cmd, row, col) ==
    [f EXCEPT !.buffer_r = row, !.buffer_c = col,
              !.scroll_r = cmd.scroll_r, !.scroll = SeekLine(f, cmd.scroll_r)]

\* mutant of Restore: the line the screen begins with is not looked up again.
RestoreKeepsScroll(f, cmd, row, col) ==
    [f EXCEPT !.buffer_r = row, !.buffer_c = col, !.currentl = SeekLine(f, row),
              !.scroll_r = cmd.scroll_r]

\* Cursor and scroll go where the record says; currentl is found by its row.
Restore(f, cmd, row, col) ==
    [f EXCEPT !.buffer_r = row, !.buffer_c = col, !.currentl = SeekLine(f, row),
              !.scroll_r = cmd.scroll_r, !.scroll = SeekLine(f, cmd.scroll_r)]

\* mutant of UndoInsertC: the gap is not brought to the character.
UndoInsertCKeepsGap(f, cmd) ==
    LET g == Restore(f, cmd, cmd.row, cmd.col + 1) IN BackspaceChar(g, g.currentl)

UndoInsertC(f, cmd) ==
    LET g == MoveGapToCursor(Restore(f, cmd, cmd.row, cmd.col + 1))
    IN  IF g.fault THEN g ELSE BackspaceChar(g, g.currentl)

\* mutant of UndoBackspaceC: the column is the one before the backspace.
UndoBackspaceCOff(f, cmd, moves) ==
    LET g == MoveGapToCursor(Restore(f, cmd, cmd.row, cmd.col + 1))
    IN  IF g.fault THEN g ELSE InsertChar(g, g.currentl, cmd.arg, moves)

\* A row that is gone leaves everything as it was.
UndoBackspaceC(f, cmd, moves) ==
    LET g == MoveGapToCursor(Restore(f, cmd, cmd.row, cmd.col))
    IN  IF SeekLine(f, cmd.row) = NULL THEN f
        ELSE IF g.fault THEN g ELSE InsertChar(g, g.currentl, cmd.arg, moves)

\* mutant of UndoAddl: the line is cut and what was typed into it lost.
UndoAddlCuts(f, cmd, moves) ==
    LET g == Cutl([Restore(f, cmd, cmd.row, cmd.col) EXCEPT !.currentl = SeekLine(f, cmd.row + 1)])
    IN  IF g.fault THEN g
        ELSE MoveGapToCursor([g EXCEPT !.buffer_c = cmd.col, !.buffer_r = cmd.row])

\* exit_vi() on a missing line does not help: stop_logging() follows currentl.
UndoAddl(f, cmd, moves) ==
    LET l    == SeekLine(f, cmd.row + 1)
        g    == [Restore(f, cmd, cmd.row, cmd.col) EXCEPT !.currentl = l]
        h    == MergeLinesUp(g, cmd.dptr, moves)
    IN  Check(f, SeekLine(f, cmd.row) # NULL /\ l # NULL,
          Check(h, TRUE,
                MoveGapToCursor([h EXCEPT !.buffer_c = cmd.col, !.buffer_r = cmd.row])))

UndoDell(f, cmd) ==
    LET g == BreakLineAfter(Restore(f, cmd, cmd.row, cmd.col), cmd.dptr)
    IN  Check(f, SeekLine(f, cmd.row) # NULL, IF g.fault THEN g ELSE MoveGapToCursor(g))

\* mutant of UndoDD: the line goes first, whatever links it had.
UndoDDFirst(f, cmd) ==
    LET h == InsertLineAfter(Restore(f, cmd, cmd.row, cmd.col), NULL, cmd.dptr)
    IN  Check(h, TRUE, [h EXCEPT !.buffer_r = cmd.row, !.buffer_c = cmd.col])

\* dd: the line that was cut still has the links it had; they tell where it was.
UndoDD(f, cmd) ==
    LET g     == Restore(f, cmd, cmd.row, cmd.col)
        l     == cmd.dptr
        first == InsertLineAfter(g, NULL, l)
        only  == Cutl([first EXCEPT !.currentl = first.line[l].nextl])
        above(h) == InsertLineAfter(h, h.line[h.currentl].prevl, l)
        back(h, row) == Check(h, TRUE, [h EXCEPT !.buffer_r = row, !.buffer_c = cmd.col])
        done  == CASE g.currentl = g.headl /\ g.line[l].prevl = NULL /\ g.line[l].nextl = NULL ->
                        LET h == back(only, only.buffer_r)
                        IN  IF h.fault THEN h ELSE MoveGapToCursor(h)
                   [] g.currentl = g.headl /\ g.line[l].prevl = NULL /\ g.line[l].nextl # NULL ->
                        back(first, cmd.row)
                   [] \/ g.currentl = g.headl /\ g.line[l].prevl # NULL
                      \/ g.currentl # g.headl /\ g.currentl = g.taill /\ g.line[l].nextl = NULL ->
                        LET h == InsertLineAfter(g, g.currentl, l) IN back(h, h.buffer_r)
                   [] g.currentl # g.headl /\ g.currentl = g.taill /\ g.line[l].nextl # NULL ->
                        LET h == above([g EXCEPT !.line[l].nextl = NULL])
                        IN  back(h, h.buffer_r - 1)
                   [] OTHER -> LET h == above(g) IN back(h, h.buffer_r - 1)
    IN  IF g.currentl = NULL THEN f ELSE Check(f, Usable(f, l), done)

Undo(f, cmd, moves) ==
    CASE cmd.cmd = "INSERT_C"    -> UndoInsertC(f, cmd)
      [] cmd.cmd = "BACKSPACE_C" -> UndoBackspaceC(f, cmd, moves)
      [] cmd.cmd = "ADDL"        -> UndoAddl(f, cmd, moves)
      [] cmd.cmd = "DELL"        -> UndoDell(f, cmd)
      [] cmd.cmd = "DD"          -> UndoDD(f, cmd)
=============================================================================
