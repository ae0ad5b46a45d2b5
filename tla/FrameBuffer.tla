---------------------------- MODULE FrameBuffer ----------------------------
(***************************************************************************)
(* The framebuffer under the keys of vi.c that edit and move, before any   *)
(* undo: which mode a key needs is left out, because i and ESC change the  *)
(* mode at any time and do not touch the framebuffer.  Vi adds the modes,  *)
(* the undo ring and exit.                                                 *)
(***************************************************************************)
EXTENDS FrameOps

CONSTANTS MaxBytes      \* bound: characters in the arrays, in the text or left over in a gap

VARIABLES fb,
          text    \* history: the texts of the lines, as they would be drawn

vars == <<fb, text>>

Running    == ~fb.fault
Current    == fb.line[fb.currentl]
Written(id) == {i \in DOMAIN fb.bytes[id] : fb.bytes[id][i] # NUL}
RoomToType == Cardinality(UNION {{id} \X Written(id) : id \in LineId}) < MaxBytes
RoomToOpen == fb.fresh <= MaxLines

\* No two lines share their bytes here, so it does not matter whether a realloc
\* moves them.
Moves == FALSE

Init == fb = InitFb /\ text = <<<<>>>>

\* A line that was cut is out of everybody's reach here (the undo ring is not
\* part of this module): only its reference count is remembered.
Forget(f) ==
    LET held == ToSet(LinesOf(f))
        Keep(id) == id \in held
    IN  [f EXCEPT !.line = [id \in LineId |-> IF Keep(id) THEN @[id]
                                             ELSE [NewStruct(id) EXCEPT !.refs = f.line[id].refs]],
                  !.bytes = [id \in LineId |-> IF Keep(id) THEN @[id] ELSE EmptyLine.data]]

Step(f) == fb' = (IF f.fault THEN f ELSE Forget(f)) /\ text' = IF f.fault THEN text ELSE Texts(f)

Type(ch) == Running /\ RoomToType /\ Step(InsertChar(fb, fb.currentl, ch, Moves))
Erase    == Running /\ fb.buffer_c # 0 /\ Step(BackspaceChar(fb, fb.currentl))
Left     == Running /\ fb.buffer_c # 0 /\ Step(CursorLeft(fb))
Right    == Running /\ fb.buffer_c + 1 <= Current.data_n /\ Step(CursorRight(fb))
Down     == Running /\ Current.nextl # NULL /\ Step(RowDown(fb))
Up       == Running /\ Current.prevl # NULL /\ Step(RowUp(fb))
\* The newline key of command mode moves down and does not scroll.
Enter    == Running /\ Current.nextl # NULL /\ Step(CursorDown(fb))
Break    == Running /\ RoomToOpen /\ Step(BreakLine(fb))
Open     == Running /\ RoomToOpen /\ Step(OpenLine(fb))
Join     == /\ Running /\ fb.buffer_c = 0 /\ fb.currentl # fb.headl
            /\ Step(JoinLine(fb, Moves))
Delete   == Running /\ Step(DeleteLine(fb))

Next == \/ \E ch \in Char : Type(ch)
        \/ Erase \/ Left \/ Right \/ Down \/ Up \/ Enter
        \/ Break \/ Open \/ Join \/ Delete

Spec == Init /\ [][Next]_vars

\* The keys as far as they keep cursor, gap and screen together.  Three habits
\* of the user make the difference: a line break is removed, and a line is
\* deleted, only where it is the last one and not the first on the screen, and
\* the newline key is not used to move.  The README says what happens otherwise.
AtEnd == Current.nextl = NULL /\ (fb.currentl = fb.headl \/ fb.currentl # fb.scroll)
CarefulNext == \/ \E ch \in Char : Type(ch)
               \/ Erase \/ Left \/ Right \/ Down \/ Up \/ Break \/ Open
               \/ AtEnd /\ Join
               \/ AtEnd /\ fb.currentl # fb.headl /\ Delete
CarefulSpec == Init /\ [][CarefulNext]_vars
-----------------------------------------------------------------------------
Struct == [sog : Nat, eog : Nat, size : Nat, data_n : Nat, data : LineId,
           prevl : LineId \cup {NULL}, nextl : LineId \cup {NULL}, refs : Nat]

TypeOK == /\ fb.line \in [LineId -> Struct]
          /\ \A id \in LineId : /\ DOMAIN fb.bytes[id] = 0 .. fb.line[id].size - 1
                                /\ \A i \in DOMAIN fb.bytes[id] : fb.bytes[id][i] \in Char \cup {NUL}
          /\ fb.alive = 1 .. fb.fresh - 1
          /\ {fb.headl, fb.taill, fb.currentl} \subseteq fb.alive
          /\ fb.scroll \in fb.alive \cup {NULL}
          /\ {fb.buffer_c, fb.buffer_n} \subseteq Nat /\ {fb.scroll_r, fb.buffer_r} \subseteq Int
          /\ fb.fault \in BOOLEAN

Held == ToSet(LinesOf(fb))

\* The lines form one doubly linked list from headl to taill, whatever was
\* inserted, joined and cut: prevl mirrors nextl, no line is met twice, and the
\* end is where taill points.  (The log of stop_logging() warns of the first.)
Linked == Running =>
    LET s == LinesOf(fb)
    IN  /\ s[Len(s)] = fb.taill
        /\ IsInjective(s)
        /\ \A k \in DOMAIN s : fb.line[s[k]].prevl = IF k = 1 THEN NULL ELSE s[k - 1]

\* buffer_r is the row of currentl, though the two are never set from each other:
\* every undo record takes its row from buffer_r and finds its line by it.
RowOfCurrent == Running => SeekLine(fb, fb.buffer_r) = fb.currentl

\* The reference count says whether the framebuffer holds the line.
CountsHold == Running =>
    LET held == Held IN \A id \in fb.alive : fb.line[id].refs = IF id \in held THEN 1 ELSE 0

\* Deleting a line removes that line and not a character of another one, unless
\* there is a malformed line: dd of the only line sets eog on its NUL.
DeleteTakesOne ==
    [][Delete /\ (\A id \in Held : WellFormed(View(fb, id))) =>
         \/ fb'.fault
         \/ text' = IF Len(text) = 1 THEN <<<<>>>> ELSE RemoveAt(text, fb.buffer_r + 1)]_vars

\* --- with CarefulSpec ---

\* Nothing undefined happens.
NeverFaults == ~fb.fault

\* The gap is at the cursor and the cursor inside the line, which is what
\* insert_char() and the rest index the line by: "it's easier to re-adjust the
\* gap whenever the cursor row changes" (journal.txt).
GapAtCursor == Running => Current.sog = fb.buffer_c /\ fb.buffer_c <= Current.data_n

\* The cursor is on the screen, above the status line, and scroll is the line
\* scroll_r rows down, so that the row drawn there is the row edited.
CursorVisible == Running =>
    /\ SeekLine(fb, fb.scroll_r) = fb.scroll
    /\ CursorR(fb) \in 0 .. Rows - 2

\* Behind the list of gap buffers there is a text with a cursor.
Promise == INSTANCE TextBuffer WITH lines <- text, row <- fb.buffer_r, col <- fb.buffer_c
ImplementsTextBuffer == Promise!Spec

\* --- what the documentation says and the program does not do ---

\* fb.h: cutl() "Deletes line properly if deleting tail".
DeletesTailProperly == [][Delete /\ Current.nextl = NULL => ~fb'.fault]_vars
=============================================================================
