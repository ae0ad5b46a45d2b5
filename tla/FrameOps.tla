------------------------------ MODULE FrameOps ------------------------------
(***************************************************************************)
(* The framebuffer, struct fb_s of src/include/fb.h, and the functions of  *)
(* src/src/fb.c as operators on one record f:                              *)
(*                                                                         *)
(*   line     the struct vi_line of each id: the counters of the gap       *)
(*            buffer, links, refs, and data, the id of its byte array      *)
(*   bytes    the byte arrays; two structs share one after a struct copy   *)
(*   alive    the ids allocated and not freed;  fresh  the next new id     *)
(*   headl, taill, currentl, scroll      ids, or NULL                      *)
(*   scroll_r, buffer_r, buffer_c, buffer_n                                *)
(*   fault    the program did what C leaves undefined: it followed NULL or *)
(*            a pointer to freed memory, or left an allocation.  A column  *)
(*            or a count that would wrap also ends the model there; rows   *)
(*            may wrap, and are negative then: no line is at such a row.   *)
(*                                                                         *)
(* Ids are not used again after a free, so that a stale one is noticed.    *)
(***************************************************************************)
EXTENDS LineOps, SequencesExt

CONSTANTS NULL,                     \* the null pointer
          MaxLines,                 \* bound: struct vi_line allocated in one run
          Rows                      \* term->rows, the last one is the status line

ASSUME MaxLinesAssumption == MaxLines \in Nat /\ MaxLines >= 1
ASSUME RowsAssumption == Rows \in Nat /\ Rows >= 3

LineId == 1 .. MaxLines
ASSUME NULLAssumption == NULL \notin LineId
Dangling == 0       \* a data pointer to an array that was freed or moved away

NewStruct(data) == [sog |-> 0, eog |-> InitGapSize - 1, size |-> InitGapSize + 1,
                    data_n |-> 0, data |-> data, prevl |-> NULL, nextl |-> NULL, refs |-> 1]

\* Undefined behaviour ends the run; nothing happens after it.
Check(f, ok, g) == IF f.fault THEN f ELSE IF ok THEN g ELSE [f EXCEPT !.fault = TRUE]

Usable(f, id)   == id # NULL /\ id \in f.alive
Readable(f, id) == Usable(f, id) /\ f.line[id].data # Dangling

\* A struct with its bytes is a line of LineOps.
View(f, id) == LET s == f.line[id]
               IN  Line(s.sog, s.eog, s.size, s.data_n, f.bytes[s.data])
Put(f, id, l) ==
    [f EXCEPT !.line[id] = [@ EXCEPT !.sog = l.sog, !.eog = l.eog,
                                     !.size = l.size, !.data_n = l.data_n],
              !.bytes[f.line[id].data] = l.data]

\* The array of id is gone from where it was: the other structs that share it dangle.
Abandon(f, id) ==
    [f EXCEPT !.line = [k \in LineId |-> IF k # id /\ @[k].data = @[id].data
                                         THEN [@[k] EXCEPT !.data = Dangling] ELSE @[k]]]

-----------------------------------------------------------------------------
\* alloc_emptyl(): the new line is f.fresh.
AllocEmptyl(f) == [f EXCEPT !.line[f.fresh] = NewStruct(f.fresh),
                            !.bytes[f.fresh] = EmptyLine.data,
                            !.alive = @ \cup {f.fresh},
                            !.fresh = @ + 1]

\* free_line()
FreeLine(f, id) ==
    Check(f, Readable(f, id),
          [Abandon(f, id) EXCEPT !.bytes[f.line[id].data] = EmptyLine.data,
                                 !.line[id] = NewStruct(id),
                                 !.alive = @ \ {id}])

\* init_fb_struct()
InitFb ==
    AllocEmptyl([line |-> [id \in LineId |-> NewStruct(id)],
                 bytes |-> [id \in LineId |-> EmptyLine.data],
                 alive |-> {}, fresh |-> 1,
                 headl |-> 1, taill |-> 1, currentl |-> 1, scroll |-> 1,
                 scroll_r |-> 0, buffer_r |-> 0, buffer_c |-> 0, buffer_n |-> 1,
                 fault |-> FALSE])

\* The lines from id on, along nextl, up to n links away; NULL behind the last one.
Walk(f, id, n) ==
    LET at[i \in 0 .. n] == IF i = 0 THEN id
                            ELSE IF at[i - 1] = NULL THEN NULL ELSE f.line[at[i - 1]].nextl
    IN  at

\* seek_line(): the line row links after the head, or NULL.
SeekLine(f, row) == IF row < 0 THEN NULL ELSE Walk(f, f.headl, row)[row]

\* move_gap_to_cursor(), with the bytes its memmove touches.
MoveGapToCursor(f) ==
    LET l == View(f, f.currentl)
        c == f.buffer_c
        InArray == \/ c > l.sog /\ l.eog + (c - l.sog) \in DOMAIN l.data
                   \/ c < l.sog /\ l.eog - (l.sog - c) + 1 >= 0 /\ l.eog \in DOMAIN l.data
    IN  Check(f, /\ Usable(f, f.currentl)
                 /\ c = f.line[f.currentl].sog \/ (Readable(f, f.currentl) /\ InArray),
              IF c = f.line[f.currentl].sog THEN f ELSE Put(f, f.currentl, MoveGap(l, c)))

CursorLeft(f) ==
    LET l == View(f, f.currentl)
    IN  Check(f, /\ Readable(f, f.currentl)
                 /\ l.sog > 0 /\ l.eog \in DOMAIN l.data /\ f.buffer_c - 1 \in DOMAIN l.data,
              [Put(f, f.currentl, GapLeft(l, f.buffer_c)) EXCEPT !.buffer_c = @ - 1])

CursorRight(f) ==
    LET l == View(f, f.currentl)
    IN  Check(f, /\ Readable(f, f.currentl)
                 /\ l.eog + 1 \in DOMAIN l.data /\ f.buffer_c \in DOMAIN l.data,
              [Put(f, f.currentl, GapRight(l, f.buffer_c)) EXCEPT !.buffer_c = @ + 1])

\* mutant of Clamp: the column is kept in a shorter line.
ClampNot(f, id) == f.buffer_c

\* buffer_c, kept inside the line id.
Clamp(f, id) == IF f.buffer_c >= f.line[id].data_n THEN f.line[id].data_n ELSE f.buffer_c

\* mutant of EnterLine: the gap is not adjusted when the row changes.
EnterLineKeepsGap(f, id, r) ==
    Check(f, Usable(f, id), [f EXCEPT !.currentl = id, !.buffer_r = r, !.buffer_c = Clamp(f, id)])

\* What cursor_up() and cursor_down() share: the cursor enters line id at row r.
EnterLine(f, id, r) ==
    Check(f, Usable(f, id),
          MoveGapToCursor([f EXCEPT !.currentl = id, !.buffer_r = r, !.buffer_c = Clamp(f, id)]))
CursorDown(f) == Check(f, Usable(f, f.currentl),
                       EnterLine(f, f.line[f.currentl].nextl, f.buffer_r + 1))

\* mutant of CursorUp: the row is not counted down.
CursorUpKeepsRow(f) == Check(f, Usable(f, f.currentl),
                             EnterLine(f, f.line[f.currentl].prevl, f.buffer_r))
CursorUp(f)   == Check(f, Usable(f, f.currentl),
                       EnterLine(f, f.line[f.currentl].prevl, f.buffer_r - 1))

\* insert_char() into line id; a realloc that has to grow the array may move it.
InsertChar(f, id, ch, moves) ==
    LET l     == View(f, id)
        grows == NeedsGrowth(l)
        room  == IF grows THEN l.size + InitGapSize - 1 ELSE l.size
    IN  Check(f, /\ Readable(f, id)
                 /\ 0 .. l.size - 1 \subseteq DOMAIN l.data
                 /\ l.eog < l.size /\ f.buffer_c < room,
              [Put(IF grows /\ moves THEN Abandon(f, id) ELSE f,
                   id, InsertInGap(l, f.buffer_c, ch)) EXCEPT !.buffer_c = @ + 1])

\* backspace_char(), at a column other than 0, and what it returns.
BackspaceChar(f, id) ==
    LET l == View(f, id)
    IN  Check(f, /\ Readable(f, id)
                 /\ l.sog > 0 /\ l.data_n > 0 /\ f.buffer_c - 1 \in DOMAIN l.data,
              [Put(f, id, Backspace(l)) EXCEPT !.buffer_c = @ - 1])
Backspaced(f) == ErasedChar(View(f, f.currentl), f.buffer_c)

-----------------------------------------------------------------------------
\* The end of insert_line_after(): line goes after parent, or first for NULL.
LinkFirst(f, line) ==
    [f EXCEPT !.scroll = line,
              !.line = [@ EXCEPT ![f.headl].prevl = line,
                                 ![line].nextl = f.headl, ![line].prevl = NULL],
              !.taill = IF f.headl = f.taill THEN line ELSE @,
              !.headl = line]

\* mutant of LinkLast: taill is read from the link before it is set.
LinkLastStale(f, parent, line) ==
    [f EXCEPT !.line[parent].nextl = line, !.line[line].prevl = parent,
              !.taill = f.line[parent].nextl]
LinkLast(f, parent, line) ==
    [f EXCEPT !.line[parent].nextl = line, !.line[line].prevl = parent, !.taill = line]

\* mutant of LinkBetween: the following line keeps its prevl.
LinkBetweenHalf(f, parent, line) ==
    [f EXCEPT !.line = [@ EXCEPT ![parent].nextl = line, ![line].prevl = parent,
                                 ![line].nextl = f.line[parent].nextl]]
LinkBetween(f, parent, line) ==
    LET nextl == f.line[parent].nextl
    IN  [f EXCEPT !.line = [@ EXCEPT ![parent].nextl = line, ![line].nextl = nextl,
                                     ![line].prevl = parent, ![nextl].prevl = line]]
InsertLineAfter(f, parent, line) ==
    LET linked == IF parent = NULL THEN LinkFirst(f, line)
                  ELSE IF f.line[parent].nextl = NULL THEN LinkLast(f, parent, line)
                  ELSE LinkBetween(f, parent, line)
    IN  Check(f, Usable(f, line) /\ Usable(f, IF parent = NULL THEN f.headl ELSE parent),
              [linked EXCEPT !.currentl = line, !.buffer_n = @ + 1,
                             !.buffer_r = @ + 1, !.buffer_c = 0])

\* insert_line_after(parent, NULL): what is right of the cursor becomes the line.
BreakLineAfter(f, parent) ==
    LET new  == f.fresh
        l    == View(f, f.currentl)
        diff == f.line[f.currentl].data_n - f.buffer_c
        split == Put(Put(AllocEmptyl(f), new, AfterCursor(l, f.buffer_c)),
                     f.currentl, BeforeCursor(l, f.buffer_c))
    IN  Check(f, /\ Usable(f, f.currentl) /\ diff >= 0
                 /\ diff > 0 => Readable(f, f.currentl) /\ l.eog + 1 + diff \in DOMAIN l.data,
              InsertLineAfter(IF diff = 0 THEN AllocEmptyl(f) ELSE split, parent, new))

\* mutant of CutlReturns: the first line is never deleted.
CutlReturnsOnFirst(f) == IF f.line[f.currentl].prevl = NULL THEN "NONE_DELETED" ELSE "DELETED_STAY"

\* cutl() and what it returns.
CutlReturns(f) == LET s == f.line[f.currentl]
                  IN  CASE s.prevl = NULL /\ s.nextl = NULL -> "NONE_DELETED"
                        [] s.prevl # NULL /\ s.nextl = NULL -> "DELETED_UPWARD"
                        [] OTHER -> "DELETED_STAY"
Unlink(f) ==
    LET s == f.line[f.currentl]
    IN  CASE s.prevl = NULL ->
               [f EXCEPT !.headl = s.nextl, !.scroll = s.nextl, !.currentl = s.nextl,
                         !.line[s.nextl].prevl = NULL]
          [] s.prevl # NULL /\ s.nextl # NULL ->
               [f EXCEPT !.line = [@ EXCEPT ![s.prevl].nextl = s.nextl,
                                            ![s.nextl].prevl = s.prevl],
                         !.currentl = s.nextl]
          [] s.prevl # NULL /\ s.nextl = NULL ->
               CursorUp([f EXCEPT !.line[s.prevl].nextl = NULL, !.taill = s.prevl])
LeaveScroll(f, line) ==
    IF f.scroll # line THEN f
    ELSE CursorUp([f EXCEPT !.scroll_r = @ - 1, !.scroll = f.line[line].prevl])

\* mutant of Cutl: the reference of the buffer is not given up.
CutlKeepsRef(f) ==
    LET g == LeaveScroll(Unlink(f), f.currentl)
    IN  IF CutlReturns(f) = "NONE_DELETED" THEN f
        ELSE Check(g, TRUE, [g EXCEPT !.buffer_c = Clamp(g, g.currentl)])
Cutl(f) ==
    LET line == f.currentl
        g    == LeaveScroll(Unlink(f), line)
    IN  Check(f, Usable(f, line),
          IF CutlReturns(f) = "NONE_DELETED" THEN f
          ELSE Check(g, g.line[line].refs > 0,
                     [g EXCEPT !.buffer_c = Clamp(g, g.currentl), !.line[line].refs = @ - 1]))

\* The characters of txt one after the other.
InsertText(f, id, txt, moves) ==
    LET after[k \in 0 .. Len(txt)] == IF k = 0 THEN f
                                      ELSE InsertChar(after[k - 1], id, txt[k], moves)
    IN  after[Len(txt)]

\* merge_lines_up(): the characters of lower go behind those of the line above,
\* one insert_char() each, and the current line is cut.
MergeLinesUp(f, lower, moves) ==
    LET upper == f.line[lower].prevl
        ready == MoveGapToCursor([f EXCEPT !.currentl = upper,
                                           !.buffer_c = f.line[upper].data_n])
        moved == InsertText(IF ready.fault THEN ready ELSE [ready EXCEPT !.currentl = lower],
                            upper, Text(View(f, lower)), moves)
        full  == IF f.line[lower].data_n # 0
                 THEN Check(f, Readable(f, lower), moved) ELSE f
        t     == full.line[upper].data_n - full.line[lower].data_n
        cut   == Cutl(full)
    IN  Check(f, Usable(f, lower) /\ Usable(f, upper),
          Check(full, t >= 0, Check(cut, TRUE, [cut EXCEPT !.buffer_c = t])))

-----------------------------------------------------------------------------
(* What the keys of vi.c do to the framebuffer *)

\* After every key redraw_buffer() or write_status() has put the terminal cursor
\* where move_to_cursor() says; the difference is unsigned, so a cursor above
\* the first visible line counts as far below it.
CursorR(f)  == f.buffer_r - f.scroll_r

\* mutant of AtBottom: one row too late.
AtBottomLate(f) == CursorR(f) < 0 \/ CursorR(f) + 1 > Rows - 1
AtBottom(f) == CursorR(f) < 0 \/ CursorR(f) + 1 > Rows - 2

ScrollDown(f) == Check(f, Usable(f, f.scroll),
                       [f EXCEPT !.scroll = f.line[f.scroll].nextl, !.scroll_r = @ + 1])

\* o in command mode, and newline in insert mode
OpenLine(f) ==
    LET g == InsertLineAfter(AllocEmptyl(f), f.currentl, f.fresh)
    IN  IF AtBottom(f) THEN ScrollDown(g) ELSE g
BreakLine(f) ==
    LET g == BreakLineAfter(f, f.currentl)
    IN  IF AtBottom(f) THEN ScrollDown(g) ELSE g

\* j and k
RowDown(f) == CursorDown(IF AtBottom(f) THEN ScrollDown(f) ELSE f)
RowUp(f) ==
    IF f.currentl # f.scroll THEN CursorUp(f)
    ELSE CursorUp([f EXCEPT !.scroll = f.line[f.scroll].prevl, !.scroll_r = @ - 1])

\* mutant of JoinLine: the gap stays where cursor_up() left it.
JoinLineKeepsGap(f, moves) == MergeLinesUp(f, f.currentl, moves)

\* DEL at column 0 of a line that is not the first
JoinLine(f, moves) == MoveGapToCursor(MergeLinesUp(f, f.currentl, moves))

\* dd; the only line is emptied instead
DeleteLine(f) ==
    IF CutlReturns(f) = "NONE_DELETED"
    THEN [f EXCEPT !.line[f.currentl].sog = 0,
                   !.line[f.currentl].eog = f.line[f.currentl].size - 1,
                   !.line[f.currentl].data_n = 0,
                   !.buffer_c = 0]
    ELSE Cutl(f)

-----------------------------------------------------------------------------
\* The lines from the head on, and their texts.
LinesOf(f) ==
    LET at == Walk(f, f.headl, MaxLines - 1)
    IN  [k \in 1 .. Cardinality({i \in 0 .. MaxLines - 1 : at[i] # NULL}) |-> at[k - 1]]
TextOf(f, id) == Text(View(f, id))
Texts(f) == LET ids == LinesOf(f) IN [k \in DOMAIN ids |-> TextOf(f, ids[k])]
=============================================================================
