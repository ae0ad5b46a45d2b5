--------------------------------- MODULE Vi ---------------------------------
(***************************************************************************)
(* The editor, src/src/vi.c: what each key does in each mode, with the     *)
(* framebuffer of FrameOps and the undo ring of HistoryOps.  One action is *)
(* one call of keypress_handler(), from the key to the redrawn screen.     *)
(*                                                                         *)
(* Left out: keys a mode ignores, and what Session has: the way of a key   *)
(* to its handler, the status line, the terminal (its cursor is CursorR).  *)
(***************************************************************************)
EXTENDS HistoryOps

CONSTANTS Space,        \* what a tab inserts
          TabWidth,     \* VI_TABWIDTH
          Command,      \* the letters typed after a colon, q among them
          q,            \* the letter of the quit command
          CmdbufSize,   \* VI_CMDBUF_SIZE
          MaxEdits      \* bound: edits recorded in one run

ASSUME TabAssumption == Space \in Char /\ TabWidth \in Nat
ASSUME CommandAssumption == q \in Command /\ CmdbufSize \in Nat \ {0}
ASSUME MaxEditsAssumption == MaxEdits \in Nat

VARIABLES fb,           \* struct fb_s
          undo_ring,    \* struct ring_s of struct cmd_s
          mode,
          cmdbuf,       \* the letters in cmdbuf, up to cmdbuf_i, while a command is typed
          ended,        \* exit_vi() or exit(2) was reached
          text,         \* history: the lines as redraw_buffer() would draw them
          saved,        \* history: text and cursor before each record of the ring
          edits         \* history: how many edits were recorded

vars == <<fb, undo_ring, mode, cmdbuf, ended, text, saved, edits>>

\* The text of a line, if its bytes are there to be read.
Legible(f, id) == Readable(f, id) /\ f.line[id].size - 1 \in DOMAIN f.bytes[f.line[id].data]
Shown(f) == LET ids == LinesOf(f)
            IN  [k \in DOMAIN ids |->
                   IF f.line[ids[k]].data_n # 0 /\ Legible(f, ids[k]) THEN TextOf(f, ids[k]) ELSE <<>>]
Look(f) == [text |-> Shown(f), row |-> f.buffer_r, col |-> f.buffer_c]

\* redraw_buffer(), and the status line that shows the bytes of the current line.
Drawn(f) ==
    LET at == Walk(f, f.scroll, Rows - 2)
    IN  Check(f, /\ Usable(f, f.currentl) /\ Legible(f, f.currentl)
                 /\ \A i \in 0 .. Rows - 2 :
                       at[i] # NULL => /\ Usable(f, at[i])
                                       /\ f.line[at[i]].data_n # 0 => Legible(f, at[i]),
              f)

\* A realloc that moves the array matters only to a second struct that shares it.
Shared == \E i, j \in fb.alive : i # j /\ fb.line[i].data = fb.line[j].data
Moves  == IF Shared THEN BOOLEAN ELSE {FALSE}

-----------------------------------------------------------------------------
\* An edit in the making: framebuffer, ring, and what the ring remembers.
Now == [fb |-> fb, ring |-> undo_ring, saved |-> saved]

\* add_undoable_at_loc() for an edit that found the text as in before.
Recorded(e, f, cmd, before) ==
    [fb    |-> IF f.fault THEN f ELSE AddUndoable(f, e.ring, cmd),
     ring  |-> R!PushItem(e.ring, cmd),
     saved |-> LET s == Append(e.saved, before)
               IN  IF Len(s) = HistorySize THEN Tail(s) ELSE s]

\* A character is recorded, then inserted.
Typed(e, ch, moves) ==
    LET f == e.fb
        r == Recorded(e, f, Cmd("INSERT_C", NUL, NULL, f, f.buffer_r, f.buffer_c), Look(f))
    IN  [r EXCEPT !.fb = IF r.fb.fault THEN r.fb ELSE InsertChar(r.fb, r.fb.currentl, ch, moves)]

\* The end of every key.  After a fault fb is as it was before it.
Show(f) == LET g == Drawn(f)
           IN  fb' = g /\ text' = IF g.fault THEN text ELSE Shown(g)

Running    == ~fb.fault /\ ~ended
Pressed(m) == Running /\ mode = m
RoomToEdit(n) == edits + n <= MaxEdits
RoomToOpen == fb.fresh <= MaxLines

\* The key moves, or edits, and stays in the mode to.
Moving(f, to) == /\ Show(f) /\ mode' = to
                 /\ UNCHANGED <<undo_ring, cmdbuf, ended, saved, edits>>
Editing(e, n, to) == /\ Show(e.fb) /\ mode' = to
                     /\ undo_ring' = e.ring /\ saved' = e.saved /\ edits' = edits + n
                     /\ UNCHANGED <<cmdbuf, ended>>

Init == /\ fb = InitFb
        /\ undo_ring = R!InitRing
        /\ mode = "COMMAND" /\ cmdbuf = <<>> /\ ended = FALSE
        /\ text = <<<<>>>> /\ saved = <<>> /\ edits = 0

-----------------------------------------------------------------------------
(* keypress_command_handler() *)

Current == fb.line[fb.currentl]

EnterInsert == Pressed("COMMAND") /\ Moving(fb, "INSERT")
Left  == Pressed("COMMAND") /\ fb.buffer_c # 0 /\ Moving(CursorLeft(fb), mode)
Right == /\ Pressed("COMMAND") /\ fb.buffer_c + 1 <= Current.data_n
         /\ Moving(CursorRight(fb), mode)
Down  == Pressed("COMMAND") /\ Current.nextl # NULL /\ Moving(RowDown(fb), mode)
Up    == Pressed("COMMAND") /\ Current.prevl # NULL /\ Moving(RowUp(fb), mode)
Enter == Pressed("COMMAND") /\ Current.nextl # NULL /\ Moving(CursorDown(fb), mode)
StartDelete == Pressed("COMMAND") /\ Moving(fb, "DEL_CMD")

\* A line was added at the cursor, which the record has where it was before.
Added(f) == Recorded(Now, f, Cmd("ADDL", NUL, f.currentl, f, fb.buffer_r, fb.buffer_c), Look(fb))
Open == /\ Pressed("COMMAND") /\ RoomToOpen /\ RoomToEdit(1)
        /\ Editing(Added(OpenLine(fb)), 1, "INSERT")

UndoKey == /\ Pressed("COMMAND")
           /\ ~R!IsEmpty(undo_ring)
           /\ R!TopItem(undo_ring).cmd = "DELL" => RoomToOpen
           /\ \E moves \in Moves : Show(Undo(fb, R!TopItem(undo_ring), moves))
           /\ undo_ring' = R!DropTop(undo_ring)
           /\ saved' = SubSeq(saved, 1, Len(saved) - 1)
           /\ UNCHANGED <<mode, cmdbuf, ended, edits>>

(* keypress_insert_handler() *)

Type(ch) == /\ Pressed("INSERT") /\ RoomToEdit(1)
            /\ \E moves \in Moves : Editing(Typed(Now, ch, moves), 1, mode)

\* The tab key is as many spaces, each with a record of its own.
Spaces(moves) ==
    LET typed[k \in 0 .. TabWidth] == IF k = 0 THEN Now ELSE Typed(typed[k - 1], Space, moves)
    IN  typed[TabWidth]
Tab == /\ Pressed("INSERT") /\ RoomToEdit(TabWidth)
       /\ \E moves \in Moves : Editing(Spaces(moves), TabWidth, mode)

Break == /\ Pressed("INSERT") /\ RoomToOpen /\ RoomToEdit(1)
         /\ Editing(Added(BreakLine(fb)), 1, mode)

Erase == /\ Pressed("INSERT") /\ fb.buffer_c # 0 /\ RoomToEdit(1)
         /\ LET f == BackspaceChar(fb, fb.currentl)
                c == IF f.fault THEN NUL ELSE Backspaced(fb)
            IN  Editing(Recorded(Now, f, Cmd("BACKSPACE_C", c, NULL, f, f.buffer_r, f.buffer_c),
                                 Look(fb)), 1, mode)

\* The record of a join holds the line the cursor is in afterwards.
Join == /\ Pressed("INSERT") /\ fb.buffer_c = 0 /\ fb.currentl # fb.headl /\ RoomToEdit(1)
        /\ \E moves \in Moves :
             LET f == JoinLine(fb, moves)
             IN  Editing(Recorded(Now, f, Cmd("DELL", NUL, f.currentl, f, f.buffer_r, f.buffer_c),
                                  Look(fb)), 1, mode)

LeaveInsert == Pressed("INSERT") /\ Moving(fb, "COMMAND")

(* keypress_delmode_handler() *)

\* The only line stays and is emptied; the record gets a copy of its struct,
\* which has the same bytes.
Copied(f) == [f EXCEPT !.line[f.fresh] = f.line[f.currentl],
                       !.alive = @ \cup {f.fresh}, !.fresh = @ + 1]
DeleteOnly ==
    /\ Pressed("DEL_CMD") /\ CutlReturns(fb) = "NONE_DELETED" /\ RoomToOpen /\ RoomToEdit(1)
    /\ Editing(Recorded(Now, DeleteLine(Copied(fb)),
                        Cmd("DD", NUL, fb.fresh, fb, fb.buffer_r, fb.buffer_c), Look(fb)),
               1, "COMMAND")
Delete ==
    /\ Pressed("DEL_CMD") /\ CutlReturns(fb) # "NONE_DELETED" /\ RoomToEdit(1)
    /\ LET f == DeleteLine(fb)
       IN  Editing(Recorded(Now, f, Cmd("DD", NUL, fb.currentl, f, f.buffer_r, f.buffer_c), Look(fb)),
                   1, "COMMAND")
LeaveDelete == Pressed("DEL_CMD") /\ Moving(fb, "COMMAND")

(* keypress_insert_command() *)

Commanding(s, to) == /\ cmdbuf' = s /\ mode' = to
                     /\ UNCHANGED <<fb, undo_ring, ended, text, saved, edits>>
\* A write behind cmdbuf: what the heap holds after it is anybody's guess.
Overflow == /\ fb' = [InitFb EXCEPT !.fault = TRUE]
            /\ undo_ring' = R!InitRing /\ mode' = "COMMAND" /\ cmdbuf' = <<>>
            /\ text' = <<>> /\ saved' = <<>> /\ edits' = 0
            /\ UNCHANGED ended
StartCommand == Pressed("COMMAND") /\ Commanding(<<>>, "INSERT_COMMAND")
TypeCommand(ch) ==
    /\ Pressed("INSERT_COMMAND")
    /\ IF Len(cmdbuf) < CmdbufSize THEN Commanding(Append(cmdbuf, ch), mode) ELSE Overflow
LeaveCommand == Pressed("INSERT_COMMAND") /\ Commanding(<<>>, "COMMAND")

\* A return ends the command with a NUL, which needs its place in cmdbuf too.
DoCommand == /\ Pressed("INSERT_COMMAND") /\ cmdbuf # <<q>>
             /\ IF Len(cmdbuf) < CmdbufSize THEN Commanding(<<>>, "COMMAND") ELSE Overflow

(* exit_vi() *)

\* destroy_fb_struct(): the lines one after the other.
FreeLines(f, ids) ==
    LET after[k \in 0 .. Len(ids)] == IF k = 0 THEN f ELSE FreeLine(after[k - 1], ids[k])
    IN  after[Len(ids)]

\* destroy_history_struct(), the lines stop_logging() reads, destroy_fb_struct().
AfterExit(f, r) ==
    LET g == DestroyRing(f, r)
        read == Check(g, /\ Usable(g, g.headl) /\ Usable(g, g.taill) /\ Readable(g, g.taill)
                         /\ Usable(g, g.currentl) /\ Readable(g, g.currentl)
                         /\ \A id \in ToSet(LinesOf(g)) : Readable(g, id), g)
    IN  FreeLines(read, LinesOf(g))
\* What the process remembered is gone with it.
Over == /\ ended' = TRUE
        /\ undo_ring' = R!InitRing /\ mode' = "COMMAND" /\ cmdbuf' = <<>>
        /\ text' = <<>> /\ saved' = <<>> /\ edits' = 0
ExitVi == Over /\ fb' = AfterExit(fb, undo_ring)

Quit     == Pressed("INSERT_COMMAND") /\ cmdbuf = <<q>> /\ Len(cmdbuf) < CmdbufSize /\ ExitVi
QuitKey  == Running /\ ExitVi               \* the key 1, in every mode
Abort    == Running /\ Over /\ fb' = InitFb  \* the key 2: exit(2)

\* Every key but u.
EditNext == \/ EnterInsert \/ Left \/ Right \/ Down \/ Up \/ Enter \/ StartDelete
            \/ Open \/ (\E ch \in Char : Type(ch)) \/ Tab \/ Break \/ Erase \/ Join \/ LeaveInsert
            \/ DeleteOnly \/ Delete \/ LeaveDelete
            \/ StartCommand \/ (\E ch \in Command : TypeCommand(ch)) \/ LeaveCommand \/ DoCommand
            \/ Quit \/ QuitKey \/ Abort
EditSpec == Init /\ [][EditNext]_vars

Next == EditNext \/ UndoKey
Spec == Init /\ [][Next]_vars

\* The keys of a careful user: he joins and deletes only the last line, not where
\* the screen begins with it, nor with the cursor right of where the line above
\* ends, nor while the record that is about to be evicted holds it.  He takes back
\* an added line only while it is the last one, and a join only while the line
\* that its record holds is where the record says and has its gap there.  Each of
\* these conditions is needed; the README says what goes wrong without it.
AtEnd == Running /\ Current.nextl = NULL /\ (fb.currentl = fb.headl \/ fb.currentl # fb.scroll)
Above == fb.line[Current.prevl]
EvictsHolderOf(id) == /\ R!NextDisposes(undo_ring)
                      /\ undo_ring.buffer[R!NextSlot(undo_ring)].dptr = id
TakesBack(cmd) ==
    /\ cmd.cmd = "ADDL" => cmd.dptr = fb.taill
    /\ cmd.cmd = "DELL" => cmd.dptr = SeekLine(fb, cmd.row) /\ fb.line[cmd.dptr].sog = cmd.col
CarefulEdits ==
    \/ EnterInsert \/ Left \/ Right \/ Down \/ Up \/ Enter \/ StartDelete
    \/ Open \/ (\E ch \in Char : Type(ch)) \/ Tab \/ Break \/ Erase \/ LeaveInsert
    \/ AtEnd /\ Join
    \/ /\ AtEnd /\ fb.currentl # fb.headl /\ fb.buffer_c <= Above.data_n
       /\ ~EvictsHolderOf(fb.currentl)
       /\ Delete
    \/ LeaveDelete
CarefulNext == \/ CarefulEdits
               \/ (R!IsEmpty(undo_ring) \/ TakesBack(R!TopItem(undo_ring))) /\ UndoKey
CarefulSpec == Init /\ [][CarefulNext]_vars

\* The careful keys without u.
CarefulEditSpec == Init /\ [][CarefulEdits]_vars

\* Careful with the edits, but u is pressed anywhere.
AnyUndoSpec == Init /\ [][CarefulEdits \/ UndoKey]_vars
-----------------------------------------------------------------------------
CmdName == {"INSERT_C", "BACKSPACE_C", "ADDL", "DELL", "DD"}
Slots   == 0 .. HistorySize - 1
Live    == {(undo_ring.tail + k) % HistorySize : k \in 1 .. R!Depth(undo_ring)}
InText  == ToSet(LinesOf(fb))

\* --- with EditSpec, and all but the types with CarefulSpec ---

TypeOK == /\ \A i \in Slots : undo_ring.buffer[i] \in
                [cmd : CmdName, arg : Char \cup {NUL}, dptr : LineId \cup {NULL},
                 row : Int, col : Nat, scroll_r : Int]
          /\ undo_ring.head \in Slots /\ undo_ring.tail \in Slots
          /\ mode \in {"COMMAND", "INSERT", "INSERT_COMMAND", "DEL_CMD"}
          /\ cmdbuf \in Seq(Command) /\ Len(cmdbuf) <= CmdbufSize
          /\ ended \in BOOLEAN /\ fb.fault \in BOOLEAN
          /\ Len(saved) = R!Depth(undo_ring) /\ edits \in 0 .. MaxEdits
          /\ fb.alive \subseteq LineId /\ fb.fresh \in 1 .. MaxLines + 1

\* A line that can still be reached is not freed: not a line of the text, and
\* not one a record holds that can be undone or is still to be disposed of.
\* "Undo history commands that store vi_line pointers must live until they exit
\* the history buffer" (journal.txt).
Holding == Live \cup {undo_ring.tail}
ReachableAlive == Running =>
    /\ InText \subseteq fb.alive
    /\ {fb.headl, fb.taill, fb.currentl} \subseteq fb.alive
    /\ \A i \in Holding : undo_ring.buffer[i].dptr \in fb.alive \cup {NULL}

\* refs is "the amount of places the memory reference of this struct is held in
\* memory": it never falls short of them, or the line would be freed too early.
Records(id) == Cardinality({i \in Holding : undo_ring.buffer[i].dptr = id})
RefsCoverPlaces == Running =>
    LET held == InText
    IN  \A id \in fb.alive :
           fb.line[id].refs >= Records(id) + (IF id \in held THEN 1 ELSE 0)

\* Nothing undefined happens but where the code has no answer: the key finds the
\* screen, the gap or the current line amiss already (a dd or a join before the last
\* line, or of a line the screen begins with, or a dd of the only line came before);
\* or it is one letter too many of a command; or a dd of the last line where the
\* screen begins with it, or of a line whose own record is evicted at that moment; or
\* a join anywhere but at the end.  No other eviction frees a line that is being
\* edited or recorded, and no edit leaves its line.
Amiss == \/ fb.scroll = NULL
         \/ Current.sog # fb.buffer_c
         \/ ~WellFormed(View(fb, fb.currentl))
FaultsHaveCause ==
    [][Running /\ fb'.fault =>
         \/ Amiss
         \/ mode = "INSERT_COMMAND" /\ Len(cmdbuf) = CmdbufSize
         \/ Delete /\ ((Current.nextl = NULL /\ ~AtEnd) \/ EvictsHolderOf(fb.currentl))
         \/ Join /\ ~AtEnd]_vars

\* --- with CarefulSpec ---

\* Nothing undefined happens.
NeverFaults == ~fb.fault

\* The lines are one doubly linked list from headl to taill, no line twice: undo
\* links lines in by what a cut line remembers of its neighbours, which edits and
\* undos have changed since.  True with EditSpec, too.
Linked == Running =>
    LET s == LinesOf(fb)
    IN  /\ s[Len(s)] = fb.taill
        /\ IsInjective(s)
        /\ \A k \in DOMAIN s : fb.line[s[k]].prevl = IF k = 1 THEN NULL ELSE s[k - 1]

\* The screen begins with a line of the text, the one scroll_r rows down, and the
\* cursor is not above it.  Undo sets scroll_r to what it was at the edit and looks
\* the line up before it adds or removes one itself.
ScreenFollows == Running =>
    /\ fb.scroll # NULL /\ SeekLine(fb, fb.scroll_r) = fb.scroll
    /\ CursorR(fb) >= 0

\* u takes back exactly the last edit that was not taken back yet: text and
\* cursor are what they were before it, whatever was edited and undone between.
\* "I needed to re-construct the reverse operation in order to undo them
\* properly" (journal.txt).
UndoRestores ==
    [][UndoKey => \/ fb'.fault
                  \/ Look(fb)' = saved[Len(saved)]]_vars

\* The gap is at the cursor after every key, undo included, and the cursor is in
\* the line its row says.
GapAtCursor == Running => /\ Current.sog = fb.buffer_c /\ fb.buffer_c <= Current.data_n
                          /\ SeekLine(fb, fb.buffer_r) = fb.currentl

\* --- what the documentation says and the program does not do ---

\* journal.txt: lines "must be freed if and only if they do not exist anywhere
\* else": exit frees no line twice and reads none that was freed.  True of the
\* program without u (EditSpec), false with it (Spec), as is ReachableAlive.
ExitIsClean == ended => ~fb.fault

\* journal.txt: the reverse operation of an edit undoes it "properly": wherever
\* the cursor has gone since, the text is what it was (AnyUndoSpec).
UndoTakesBackText == [][UndoKey => fb'.fault \/ text' = saved[Len(saved)].text]_vars
=============================================================================
