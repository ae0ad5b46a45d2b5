---------------------------- MODULE GapLineProofs ----------------------------
(***************************************************************************)
(* Proofs about GapLine, for every alphabet, every initial gap size and    *)
(* every length of the line: the lemmas of LineProofs about the operators, *)
(* put together along the actions.                                         *)
(***************************************************************************)
EXTENDS GapLine, LineProofs

-----------------------------------------------------------------------------
(* The inductive invariant.  LineInv alone is not inductive: the moves and   *)
(* the edits index the line by buffer_c and so need the gap to be there, and *)
(* Land clamps a column to data_n.  CharsAround is what makes the bytes that *)
(* cross the gap characters.                                                 *)

IInv == /\ Good(line)
        /\ here \in BOOLEAN
        /\ here => line.sog = buffer_c

LEMMA InitIInv == Init => IInv
BY EmptyLineGood DEF Init, IInv, EmptyLine, Line

LEMMA StepIInv == IInv /\ [Next]_vars => IInv'
<1> SUFFICES ASSUME IInv, [Next]_vars PROVE IInv'
    OBVIOUS
<1>0. Good(line) /\ here \in BOOLEAN /\ (here => line.sog = buffer_c)  BY DEF IInv
<1>1. ASSUME NEW ch \in Char, Type(ch) PROVE IInv'
  <2>1. /\ here /\ here' = here /\ buffer_c' = line.sog + 1
        /\ line' = InsertInGap(line, line.sog, ch)
        BY <1>0, <1>1 DEF Type
  <2>2. Good(line') /\ line'.sog = line.sog + 1  BY <1>0, <2>1, InsertGood
  <2> QED  BY <1>0, <2>1, <2>2 DEF IInv
<1>2. CASE Erase
  <2>1. /\ here /\ here' = here /\ buffer_c' = line.sog - 1 /\ line.sog # 0
        /\ line' = Backspace(line)
        BY <1>0, <1>2 DEF Erase
  <2>2. Good(line') /\ line'.sog = line.sog - 1  BY <1>0, <2>1, BackspaceGood
  <2> QED  BY <1>0, <2>1, <2>2 DEF IInv
<1>3. CASE Left
  <2>1. /\ here /\ here' = here /\ buffer_c' = line.sog - 1 /\ line.sog # 0
        /\ line' = GapLeft(line, line.sog)
        BY <1>0, <1>3 DEF Left
  <2>2. Good(line') /\ line'.sog = line.sog - 1  BY <1>0, <2>1, LeftGood
  <2> QED  BY <1>0, <2>1, <2>2 DEF IInv
<1>4. CASE Right
  <2>1. /\ here /\ here' = here /\ buffer_c' = line.sog + 1 /\ line.sog + 1 <= line.data_n
        /\ line' = GapRight(line, line.sog)
        BY <1>0, <1>4 DEF Right
  <2>2. Good(line') /\ line'.sog = line.sog + 1  BY <1>0, <2>1, RightGood
  <2> QED  BY <1>0, <2>1, <2>2 DEF IInv
<1>5. ASSUME NEW col \in Column, Land(col) PROVE IInv'
  <2> DEFINE c == IF col >= line.data_n THEN line.data_n ELSE col
  <2>1. here' = TRUE /\ buffer_c' = c /\ line' = MoveGap(line, c)  BY <1>5 DEF Land
  <2>2. line.data_n \in Nat  BY <1>0, GoodFields
  <2>3. c \in Nat /\ c <= line.data_n  BY <2>2, ColumnAssumption
  <2> HIDE DEF c
  <2>4. Good(line') /\ line'.sog = c  BY <1>0, <2>1, <2>3, MoveGapGood
  <2> QED  BY <2>1, <2>4 DEF IInv
<1>6. CASE Leave
  BY <1>0, <1>6 DEF Leave, IInv
<1>7. CASE BreakKeep
  <2>1. here' = FALSE /\ line' = BeforeCursor(line, line.sog)  BY <1>0, <1>7 DEF BreakKeep
  <2>2. Good(line')  BY <1>0, <2>1, BeforeCursorGood
  <2> QED  BY <2>1, <2>2 DEF IInv
<1>8. CASE BreakMove
  <2>1. here' = here /\ buffer_c' = 0 /\ line' = AfterCursor(line, line.sog)
        BY <1>0, <1>8 DEF BreakMove
  <2>2. Good(line') /\ line'.sog = 0  BY <1>0, <2>1, AfterCursorGood
  <2> QED  BY <1>0, <2>1, <2>2 DEF IInv
<1>9. CASE UNCHANGED vars
  BY <1>0, <1>9 DEF vars, IInv
<1> QED  BY <1>1, <1>2, <1>3, <1>4, <1>5, <1>6, <1>7, <1>8, <1>9 DEF Next

\* The inductive invariant holds throughout.
THEOREM Invariance == Spec => []IInv
BY InitIInv, StepIInv, PTL DEF Spec

\* Every struct vi_line the operations of fb.c make keeps its shape: the gap is
\* inside the allocation and data_n counts the bytes around it, however long
\* the line gets.
THEOREM ShapeKept == Spec => []LineInv
<1>1. IInv => LineInv  BY DEF IInv, Good, LineInv
<1> QED  BY <1>1, Invariance, PTL

\* Whenever the cursor is in the line the gap is at the cursor, also after the
\* cursor came back from a line of any length.
THEOREM GapFollowsCursor == Spec => []GapAtCursor
<1>1. IInv => GapAtCursor  BY DEF IInv, GapAtCursor
<1> QED  BY <1>1, Invariance, PTL

\* No NUL is ever inside the text.
THEOREM NoHoleInText == Spec => []TextOfChars
<1>1. IInv => TextOfChars
  <2> SUFFICES ASSUME IInv, NEW k \in 1 .. line.data_n PROVE Text(line)[k] \in Char
      BY DEF TextOfChars
  <2>1. Good(line)  BY DEF IInv
  <2>2. Text(line) = [j \in 1 .. line.data_n |-> CharAt(line, j)]  BY <2>1, TextOfGood
  <2>3. CharAt(line, k) \in Char  BY <2>1, TextOfGood
  <2> QED  BY <2>2, <2>3
<1> QED  BY <1>1, Invariance, PTL

-----------------------------------------------------------------------------
(* The gap buffer implements the text with a cursor *)

LEMMA InitRefined == Init => Promise!Init
BY EmptyLineGood DEF Init, Promise!Init

LEMMA StepRefined == IInv /\ [Next]_vars => [Promise!Next]_(Promise!vars)
<1> SUFFICES ASSUME IInv, [Next]_vars PROVE [Promise!Next]_(Promise!vars)
    OBVIOUS
<1>0. Good(line) /\ here \in BOOLEAN /\ (here => line.sog = buffer_c)  BY DEF IInv
<1> DEFINE t == Text(line)
           n == line.data_n
<1>t. /\ t = [k \in 1 .. n |-> CharAt(line, k)]
      /\ Len(t) = n /\ n \in Nat /\ line.sog \in Nat /\ line.sog <= n
      BY <1>0, TextOfGood, GoodFields
<1>u. Good(line') => /\ Text(line') = [k \in 1 .. line'.data_n |-> CharAt(line', k)]
                     /\ Text(line)' = Text(line')
      BY TextOfGood
<1>1. ASSUME NEW ch \in Char, Type(ch) PROVE Promise!Type(ch)
  <2>1. /\ here /\ here' = here /\ buffer_c = line.sog /\ buffer_c' = buffer_c + 1
        /\ line' = InsertInGap(line, line.sog, ch) /\ erased' = erased
        BY <1>0, <1>1 DEF Type
  <2>2. /\ Good(line') /\ line'.data_n = n + 1
        /\ \A k \in 1 .. n + 1 :
              CharAt(line', k) = IF k <= line.sog THEN CharAt(line, k)
                                 ELSE IF k = line.sog + 1 THEN ch ELSE CharAt(line, k - 1)
        BY <1>0, <2>1, InsertGood
  <2>3. Text(line') = [k \in 1 .. n + 1 |-> CharAt(line', k)]  BY <1>u, <2>2
  <2>4. \A k \in 1 .. n + 1 :
            CharAt(line', k) = IF k <= line.sog THEN t[k]
                               ELSE IF k = line.sog + 1 THEN ch ELSE t[k - 1]
    <3> SUFFICES ASSUME NEW k \in 1 .. n + 1
                 PROVE  CharAt(line', k) = IF k <= line.sog THEN t[k]
                                           ELSE IF k = line.sog + 1 THEN ch ELSE t[k - 1]
        OBVIOUS
    <3>1. k <= line.sog => k \in 1 .. n  BY <1>t
    <3>2. ~(k <= line.sog) /\ k # line.sog + 1 => k - 1 \in 1 .. n  BY <1>t
    <3> HIDE DEF t, n
    <3>3. k <= line.sog => t[k] = CharAt(line, k)  BY <3>1, <1>t
    <3>4. ~(k <= line.sog) /\ k # line.sog + 1 => t[k - 1] = CharAt(line, k - 1)
          BY <3>2, <1>t
    <3> QED  BY <2>2, <3>3, <3>4
  <2>5. Text(line') = Promise!InsertAt(t, line.sog, ch)
    <3> HIDE DEF t, n
    <3> QED  BY <1>t, <2>3, <2>4 DEF Promise!InsertAt
  <2> QED  BY <1>u, <2>1, <2>2, <2>5 DEF Promise!Type
<1>2. CASE Erase
  <2>1. /\ here /\ here' = here /\ buffer_c = line.sog /\ buffer_c' = buffer_c - 1
        /\ line.sog # 0
        /\ line' = Backspace(line) /\ erased' = ErasedChar(line, line.sog)
        BY <1>0, <1>2 DEF Erase
  <2>2. /\ Good(line') /\ line'.data_n = n - 1
        /\ ErasedChar(line, line.sog) = CharAt(line, line.sog)
        /\ \A k \in 1 .. n - 1 :
              CharAt(line', k) = IF k < line.sog THEN CharAt(line, k) ELSE CharAt(line, k + 1)
        BY <1>0, <2>1, BackspaceGood
  <2>3. Text(line') = [k \in 1 .. n - 1 |-> CharAt(line', k)]  BY <1>u, <2>2
  <2>4. \A k \in 1 .. n - 1 : CharAt(line', k) = IF k < line.sog THEN t[k] ELSE t[k + 1]
    <3> SUFFICES ASSUME NEW k \in 1 .. n - 1
                 PROVE  CharAt(line', k) = IF k < line.sog THEN t[k] ELSE t[k + 1]
        OBVIOUS
    <3>1. k \in 1 .. n /\ k + 1 \in 1 .. n  BY <1>t
    <3> HIDE DEF t, n
    <3>2. t[k] = CharAt(line, k) /\ t[k + 1] = CharAt(line, k + 1)  BY <3>1, <1>t
    <3> QED  BY <2>2, <3>2
  <2>5. Text(line') = Promise!EraseAt(t, line.sog)
    <3> HIDE DEF t, n
    <3> QED  BY <1>t, <2>3, <2>4 DEF Promise!EraseAt
  <2>6. line.sog \in 1 .. n  BY <1>t, <2>1
  <2>7. erased' = t[line.sog]
    <3> HIDE DEF t, n
    <3> QED  BY <1>t, <2>1, <2>2, <2>6
  <2>8. buffer_c > 0  BY <2>1, <1>t
  <2> QED  BY <1>u, <2>1, <2>2, <2>5, <2>7, <2>8 DEF Promise!Erase, Promise!Next
<1>3. CASE Left
  <2>1. /\ here /\ here' = here /\ buffer_c = line.sog /\ buffer_c' = buffer_c - 1
        /\ line.sog # 0 /\ line' = GapLeft(line, line.sog) /\ erased' = erased
        BY <1>0, <1>3 DEF Left
  <2>2. Good(line') /\ Text(line') = Text(line)  BY <1>0, <2>1, LeftGood
  <2>3. buffer_c > 0  BY <2>1, <1>t
  <2> QED  BY <1>u, <2>1, <2>2, <2>3 DEF Promise!Left, Promise!Next
<1>4. CASE Right
  <2>1. /\ here /\ here' = here /\ buffer_c = line.sog /\ buffer_c' = buffer_c + 1
        /\ line.sog + 1 <= n /\ line' = GapRight(line, line.sog) /\ erased' = erased
        BY <1>0, <1>4 DEF Right
  <2>2. Good(line') /\ Text(line') = Text(line)  BY <1>0, <2>1, RightGood
  <2>3. buffer_c < Len(t)  BY <2>1, <1>t
  <2> QED  BY <1>u, <2>1, <2>2, <2>3 DEF Promise!Right, Promise!Next
<1>5. ASSUME NEW col \in Column, Land(col) PROVE Promise!Land(col)
  <2> DEFINE c == IF col >= n THEN n ELSE col
  <2>1. /\ ~here /\ here' = TRUE /\ buffer_c' = c /\ line' = MoveGap(line, c)
        /\ erased' = erased
        BY <1>5 DEF Land
  <2>3. c \in Nat /\ c <= n  BY <1>t, ColumnAssumption
  <2>4. c = IF col >= Len(t) THEN Len(t) ELSE col  BY <1>t
  <2> HIDE DEF c
  <2>5. Good(line') /\ Text(line') = Text(line)  BY <1>0, <2>1, <2>3, MoveGapGood
  <2> QED  BY <1>u, <2>1, <2>4, <2>5 DEF Promise!Land
<1>6. CASE Leave
  BY <1>6 DEF Leave, Promise!Leave, Promise!Next
<1>7. CASE BreakKeep
  <2>1. /\ here /\ here' = FALSE /\ buffer_c = line.sog /\ buffer_c' = 0
        /\ line' = BeforeCursor(line, line.sog) /\ erased' = erased
        BY <1>0, <1>7 DEF BreakKeep
  <2>2. /\ Good(line') /\ line'.data_n = line.sog
        /\ \A k \in 1 .. line.sog : CharAt(line', k) = CharAt(line, k)
        BY <1>0, <2>1, BeforeCursorGood
  <2>3. \A k \in 1 .. line.sog : k \in 1 .. n  BY <1>t
  <2>4. Text(line') = Promise!Before(t, line.sog)
    <3> HIDE DEF t, n
    <3> QED  BY <1>t, <1>u, <2>2, <2>3 DEF Promise!Before
  <2> QED  BY <1>u, <2>1, <2>2, <2>4 DEF Promise!BreakKeep, Promise!Next
<1>8. CASE BreakMove
  <2>1. /\ here /\ here' = here /\ buffer_c = line.sog /\ buffer_c' = 0
        /\ line' = AfterCursor(line, line.sog) /\ erased' = erased
        BY <1>0, <1>8 DEF BreakMove
  <2>2. /\ Good(line') /\ line'.data_n = n - line.sog
        /\ \A k \in 1 .. n - line.sog : CharAt(line', k) = CharAt(line, line.sog + k)
        BY <1>0, <2>1, AfterCursorGood
  <2>3. \A k \in 1 .. n - line.sog : line.sog + k \in 1 .. n  BY <1>t
  <2>4. Text(line') = Promise!After(t, line.sog)
    <3> HIDE DEF t, n
    <3> QED  BY <1>t, <1>u, <2>2, <2>3 DEF Promise!After
  <2> QED  BY <1>u, <2>1, <2>2, <2>4 DEF Promise!BreakMove, Promise!Next
<1>9. CASE UNCHANGED vars
  BY <1>9 DEF vars, Promise!vars
<1> QED  BY <1>1, <1>2, <1>3, <1>4, <1>5, <1>6, <1>7, <1>8, <1>9
         DEF Next, Promise!Next

\* Behind the struct vi_line there is a text with a cursor, for every alphabet
\* and every size of the gap: typing inserts at the cursor, backspace removes the
\* character left of it, moving and growing the gap is invisible, and a newline
\* loses nothing.
THEOREM GapLineImplementsTextLine == Spec => ImplementsTextLine
BY InitRefined, StepRefined, Invariance, PTL DEF Spec, ImplementsTextLine, Promise!Spec
=============================================================================
