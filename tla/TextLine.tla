------------------------------ MODULE TextLine ------------------------------
(***************************************************************************)
(* A line of text and the cursor in it, as the user of the editor sees it: *)
(* what the gap buffer of fb.c has to look like from the outside.          *)
(***************************************************************************)
EXTENDS Naturals, Sequences

CONSTANTS Char,     \* the characters that can be typed
          NUL,      \* stands for "nothing was erased"
          Column    \* the columns the cursor may have in another line

VARIABLES text,     \* a sequence of characters
          cursor,   \* how many of them are left of the cursor
          here,     \* the cursor is in this line
          erased    \* what the last backspace deleted

vars == <<text, cursor, here, erased>>

InsertAt(s, c, ch) == [k \in 1 .. Len(s) + 1 |-> IF k <= c THEN s[k]
                                                 ELSE IF k = c + 1 THEN ch ELSE s[k - 1]]
EraseAt(s, c) == [k \in 1 .. Len(s) - 1 |-> IF k < c THEN s[k] ELSE s[k + 1]]
Before(s, c) == [k \in 1 .. c |-> s[k]]
After(s, c) == [k \in 1 .. Len(s) - c |-> s[c + k]]

Init == text = <<>> /\ cursor = 0 /\ here = TRUE /\ erased = NUL

Type(ch) == /\ here
            /\ text' = InsertAt(text, cursor, ch)
            /\ cursor' = cursor + 1
            /\ UNCHANGED <<here, erased>>

Erase == /\ here /\ cursor > 0
         /\ erased' = text[cursor]
         /\ text' = EraseAt(text, cursor)
         /\ cursor' = cursor - 1
         /\ UNCHANGED here

Left  == here /\ cursor > 0 /\ cursor' = cursor - 1 /\ UNCHANGED <<text, here, erased>>
Right == here /\ cursor < Len(text) /\ cursor' = cursor + 1 /\ UNCHANGED <<text, here, erased>>

\* The cursor comes from another line, at column col there.
Land(col) == /\ ~here
             /\ here' = TRUE
             /\ cursor' = IF col >= Len(text) THEN Len(text) ELSE col
             /\ UNCHANGED <<text, erased>>

Leave == here /\ here' = FALSE /\ cursor' = 0 /\ UNCHANGED <<text, erased>>

\* Newline: the line is what was before the cursor, and the cursor leaves it ...
BreakKeep == /\ here
             /\ text' = Before(text, cursor)
             /\ here' = FALSE /\ cursor' = 0
             /\ UNCHANGED erased

\* ... and a line of what was after the cursor is made, where the cursor goes.
BreakMove == /\ here
             /\ text' = After(text, cursor)
             /\ cursor' = 0
             /\ UNCHANGED <<here, erased>>

Next == \/ \E ch \in Char : Type(ch)
        \/ Erase \/ Left \/ Right
        \/ \E col \in Column : Land(col)
        \/ Leave \/ BreakKeep \/ BreakMove

Spec == Init /\ [][Next]_vars
=============================================================================
