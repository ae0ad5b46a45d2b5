----------------------------- MODULE TextBuffer -----------------------------
(***************************************************************************)
(* The text the user edits: lines of characters and a cursor.  What the    *)
(* framebuffer of fb.c has to look like from the outside.                  *)
(***************************************************************************)
EXTENDS Naturals, Sequences, SequencesExt

CONSTANTS Char

VARIABLES lines,    \* the texts of the lines, one at least
          row, col  \* the cursor: col characters of line row + 1 are left of it

vars == <<lines, row, col>>

Current == lines[row + 1]
Clip(s) == IF col >= Len(s) THEN Len(s) ELSE col
Left(s)  == SubSeq(s, 1, col)
Right(s) == SubSeq(s, col + 1, Len(s))

Init == lines = <<<<>>>> /\ row = 0 /\ col = 0

Type(ch) == /\ lines' = [lines EXCEPT ![row + 1] = Left(@) \o <<ch>> \o Right(@)]
            /\ col' = col + 1 /\ UNCHANGED row

Erase == /\ col > 0
         /\ lines' = [lines EXCEPT ![row + 1] = RemoveAt(@, col)]
         /\ col' = col - 1 /\ UNCHANGED row

MoveLeft  == col > 0 /\ col' = col - 1 /\ UNCHANGED <<lines, row>>
MoveRight == col < Len(Current) /\ col' = col + 1 /\ UNCHANGED <<lines, row>>

MoveUp   == /\ row > 0
            /\ row' = row - 1 /\ col' = Clip(lines[row])
            /\ UNCHANGED lines
MoveDown == /\ row + 1 < Len(lines)
            /\ row' = row + 1 /\ col' = Clip(lines[row + 2])
            /\ UNCHANGED lines

\* Newline: the line breaks at the cursor.
Break == /\ lines' = InsertAt([lines EXCEPT ![row + 1] = Left(@)], row + 2, Right(Current))
         /\ row' = row + 1 /\ col' = 0

\* An empty line below.
Open == /\ lines' = InsertAt(lines, row + 2, <<>>)
        /\ row' = row + 1 /\ col' = 0

\* Backspace at the start of a line takes the line break away.
Join == /\ row > 0 /\ col = 0
        /\ lines' = RemoveAt([lines EXCEPT ![row] = @ \o Current], row + 1)
        /\ row' = row - 1 /\ col' = Len(lines[row])

\* The last line goes, the cursor moves up; the only line is emptied.
DeleteLast == /\ row + 1 = Len(lines)
              /\ IF row = 0
                 THEN lines' = <<<<>>>> /\ row' = 0 /\ col' = 0
                 ELSE /\ lines' = Front(lines)
                      /\ row' = row - 1 /\ col' = Clip(lines[row])

Next == \/ \E ch \in Char : Type(ch)
        \/ Erase \/ MoveLeft \/ MoveRight \/ MoveUp \/ MoveDown
        \/ Break \/ Open \/ Join \/ DeleteLast

Spec == Init /\ [][Next]_vars
=============================================================================
