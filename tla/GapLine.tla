------------------------------- MODULE GapLine -------------------------------
(***************************************************************************)
(* The life of one line of the editor: what the functions of src/src/fb.c  *)
(* do to it while the cursor is in it, as it is split by a newline, and    *)
(* when the cursor comes back from another line.                           *)
(*                                                                         *)
(* A newline makes two lines of one.  The module follows either of them:   *)
(* BreakKeep the old struct, BreakMove the new one.                        *)
(***************************************************************************)
EXTENDS LineOps, Sequences

CONSTANTS Column,   \* the columns the cursor may have in another line
          MaxText   \* bound: characters in the line

ASSUME ColumnAssumption == Column \subseteq Nat
ASSUME MaxTextAssumption == MaxText \in Nat

VARIABLES line,       \* the struct vi_line
          buffer_c,   \* the cursor column, 0 while the cursor is elsewhere
          here,       \* fb->currentl is this line
          erased      \* what the last backspace_char() returned

vars == <<line, buffer_c, here, erased>>

Init == line = EmptyLine /\ buffer_c = 0 /\ here = TRUE /\ erased = NUL

Type(ch) == /\ here
            /\ line.data_n < MaxText
            /\ line' = InsertInGap(line, buffer_c, ch)
            /\ buffer_c' = buffer_c + 1
            /\ UNCHANGED <<here, erased>>

Erase == /\ here /\ buffer_c # 0
         /\ erased' = ErasedChar(line, buffer_c)
         /\ line' = Backspace(line)
         /\ buffer_c' = buffer_c - 1
         /\ UNCHANGED here

\* The keys h and l, with their guards of keypress_command_handler().
Left == /\ here /\ buffer_c # 0
        /\ line' = GapLeft(line, buffer_c)
        /\ buffer_c' = buffer_c - 1
        /\ UNCHANGED <<here, erased>>

Right == /\ here /\ buffer_c + 1 <= line.data_n
         /\ line' = GapRight(line, buffer_c)
         /\ buffer_c' = buffer_c + 1
         /\ UNCHANGED <<here, erased>>

\* cursor_up() and cursor_down() into this line from column col of another: the
\* column is clamped to the line and the gap is moved there.
Land(col) == LET c == IF col >= line.data_n THEN line.data_n ELSE col
             IN  /\ ~here
                 /\ here' = TRUE
                 /\ buffer_c' = c
                 /\ line' = MoveGap(line, c)
                 /\ UNCHANGED erased

Leave == /\ here
         /\ here' = FALSE
         /\ buffer_c' = 0
         /\ UNCHANGED <<line, erased>>

BreakKeep == /\ here
             /\ line' = BeforeCursor(line, buffer_c)
             /\ here' = FALSE
             /\ buffer_c' = 0
             /\ UNCHANGED erased

BreakMove == /\ here
             /\ line' = AfterCursor(line, buffer_c)
             /\ buffer_c' = 0
             /\ UNCHANGED <<here, erased>>

Next == \/ \E ch \in Char : Type(ch)
        \/ Erase \/ Left \/ Right
        \/ \E col \in Column : Land(col)
        \/ Leave \/ BreakKeep \/ BreakMove

Spec == Init /\ [][Next]_vars
-----------------------------------------------------------------------------
\* The struct keeps its shape: the gap has two bytes at least and ends before
\* the NUL, and data_n counts exactly the bytes around it.  Every offset the
\* operations compute is inside the allocation because of this.
LineInv == WellFormed(line)

\* While the cursor is in the line the gap is at the cursor: what insert_char(),
\* backspace_char() and the two moves take for granted.
GapAtCursor == here => line.sog = buffer_c

\* The bytes around the gap are characters, never a NUL: the text has no hole
\* and %s of the log stops inside the allocation.
TextOfChars == \A k \in 1 .. line.data_n : Text(line)[k] \in Char

\* From the outside the gap buffer is a text with a cursor.
Promise == INSTANCE TextLine WITH text <- Text(line), cursor <- buffer_c
ImplementsTextLine == Promise!Spec
=============================================================================
