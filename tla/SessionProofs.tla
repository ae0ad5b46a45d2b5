--------------------------- MODULE SessionProofs ---------------------------
(***************************************************************************)
(* Proofs about Session, for every terminal size of 18 columns and more,   *)
(* every set of cursors and line sizes, every width of the counter, and    *)
(* any number of keys typed ahead.                                         *)
(*                                                                         *)
(* The properties speak of the moment the program waits for a key, or      *)
(* handles one.  Made inductive, they say what holds in the other phases:  *)
(* where the cursor is while a key is on its way to its handler, which     *)
(* mode an ESC has left behind, which NUL may be left where.               *)
(***************************************************************************)
EXTENDS Session, TLAPS

-----------------------------------------------------------------------------
(* Type correctness *)

LEMMA PositionInTerminal == PositionAt \in Nat /\ PositionAt < Cols
BY TerminalAssumption DEF PositionAt

LEMMA CopiedType ==
    ASSUME NEW s \in SUBSET Nat, NEW at \in Nat, NEW n \in Nat
    PROVE  Copied(s, at, n) \in SUBSET Nat
BY DEF Copied

LEMMA StatusType ==
    ASSUME TypeOK, NEW to, NEW n \in Nat
    PROVE  Status(to, n) \in SUBSET Nat
<1>1. status \in SUBSET Nat  BY DEF TypeOK
<1>2. Copied(status, 0, n) \in SUBSET Nat /\ Copied(status, 0, InsertMessage) \in SUBSET Nat
  BY <1>1, CopiedType DEF InsertMessage
<1> QED  BY <1>1, <1>2 DEF Status, Blank, Blanks, Blanked

Modes == {"COMMAND", "INSERT", "INSERT_COMMAND", "DEL_CMD"}

\* The end of a key in one of the modes.
LEMMA EndsTypeOK ==
    ASSUME TypeOK, NEW to \in Modes, NEW n \in Nat, Ends(to, n), fb' \in Frame,
           cursor' \in Nat \X Nat
    PROVE  TypeOK'
<1>1. status' \in SUBSET Nat  BY StatusType DEF Ends
<1>2. phase' \in {"poll", "status", "undefined"}  BY DEF Ends
<1> QED  BY <1>1, <1>2 DEF Ends, TypeOK, Modes

LEMMA InitTypeOK == Init => TypeOK
<1> SUFFICES ASSUME Init PROVE TypeOK  OBVIOUS
<1>1. queue \in Seq(Byte)  BY DEF Init
<1>2. NUL \in Byte  BY DEF Byte
<1>3. key \in [high : BOOLEAN, low : Byte] /\ got \in [key : Byte, turn : {0, 1}]
  BY <1>2 DEF Init, Fresh
<1>4. cursor \in Nat \X Nat /\ i \in 0 .. CounterRange - 1
  BY SizeAssumption DEF Init, Home
<1> QED  BY <1>1, <1>3, <1>4 DEF Init, TypeOK

\* What the handler of a mode does: it moves cursor and framebuffer, and ends in a
\* mode with or without a message.
LEMMA ModeCases ==
    ASSUME TypeOK, Mode
    PROVE  /\ phase = "handle" /\ fb' \in Frame /\ cursor' \in Nat \X Nat
           /\ \E to \in Modes, n \in Nat : Ends(to, n)
<1>1. fb \in Frame /\ cursor \in Nat \X Nat  BY DEF TypeOK
<1>2. fb' \in Frame => MovedBack \in Nat \X Nat  BY FrameAssumption DEF MovedBack
<1>3. <<Rows - 1, 0>> \in Nat \X Nat  BY TerminalAssumption
<1>4. Untouched => fb' \in Frame /\ cursor' \in Nat \X Nat  BY <1>1 DEF Untouched
<1>5. Edited => fb' \in Frame /\ cursor' \in Nat \X Nat  BY <1>2 DEF Edited
<1>6. UNCHANGED fb /\ cursor' = MovedBack => fb' \in Frame /\ cursor' \in Nat \X Nat
  BY <1>1, <1>2
<1>m. Modes = {"COMMAND", "INSERT", "INSERT_COMMAND", "DEL_CMD"}  BY DEF Modes
<1>7. CASE CommandKey
  BY <1>1, <1>3, <1>4, <1>5, <1>7, <1>m DEF CommandKey, Handling
<1>8. CASE InsertKey
  BY <1>4, <1>5, <1>8, <1>m DEF InsertKey, Handling
<1>9. CASE DeleteKey
  BY <1>4, <1>5, <1>9, <1>m DEF DeleteKey, Handling, NoLines
<1>10. CASE LineKey
  BY <1>4, <1>6, <1>10, <1>m DEF LineKey, EscapeLine, Handling, UnknownCommand
<1> QED  BY <1>7, <1>8, <1>9, <1>10 DEF Mode

LEMMA StepTypeOK == TypeOK /\ [Next]_vars => TypeOK'
<1> SUFFICES ASSUME TypeOK, [Next]_vars PROVE TypeOK'  OBVIOUS
<1>1. ASSUME NEW b \in Byte, Press(b) PROVE TypeOK'
  BY <1>1 DEF Press, TypeOK, screen
<1>2. CASE Start
  BY <1>2 DEF Start, TypeOK, screen
<1>3. CASE Poll \/ TimeOut
  <2>1. PICK b \in Byte : Deliver(b) /\ queue' \in Seq(Byte)
    <3>1. CASE Poll
      <4>1. queue \in Seq(Byte) /\ queue # <<>>  BY <3>1 DEF Poll, TypeOK
      <4>2. Head(queue) \in Byte /\ Tail(queue) \in Seq(Byte)  BY <4>1
      <4> QED  BY <3>1, <4>2 DEF Poll
    <3>2. CASE TimeOut
      <4>1. NUL \in Byte /\ queue \in Seq(Byte)  BY DEF Byte, TypeOK
      <4> QED  BY <3>2, <4>1 DEF TimeOut
    <3> QED  BY <1>3, <3>1, <3>2
  <2>2. key' \in [high : BOOLEAN, low : Byte]  BY <2>1 DEF Deliver, KeyAfter, Paired, Fresh
  <2>3. got' \in [key : Byte, turn : {0, 1}]  BY <2>1, <2>2 DEF Deliver, TypeOK
  <2> QED  BY <2>1, <2>2, <2>3 DEF Deliver, TypeOK, screen
<1>4. CASE Mode
  BY <1>4, ModeCases, EndsTypeOK
<1>5. CASE StatusLoop
  <2>1. i' \in 0 .. CounterRange - 1
    <3>1. i + 1 \in Nat /\ CounterRange \in Nat \ {0}  BY SizeAssumption DEF TypeOK
    <3>2. \A x \in Nat : x % CounterRange \in 0 .. CounterRange - 1  BY <3>1
    <3> QED  BY <1>5, <3>1, <3>2 DEF StatusLoop
  <2>2. status' \in SUBSET Nat  BY <1>5 DEF StatusLoop, TypeOK
  <2>3. phase' \in {"status", "undefined"}  BY <1>5 DEF StatusLoop
  <2> QED  BY <1>5, <2>1, <2>2, <2>3 DEF StatusLoop, TypeOK
<1>6. CASE StatusDone
  <2>1. MovedBack \in Nat \X Nat  BY <1>6, FrameAssumption DEF StatusDone, MovedBack, TypeOK
  <2>2. status' \in SUBSET Nat
    BY <1>6, CopiedType, PositionInTerminal, WidthAssumption DEF StatusDone, TypeOK
  <2>3. i' \in 0 .. CounterRange - 1 /\ phase' \in {"poll", "undefined"}
    BY <1>6, SizeAssumption DEF StatusDone
  <2>4. cursor' \in Nat \X Nat  BY <1>6, <2>1 DEF StatusDone
  <2>5. /\ queue' = queue /\ key' = key /\ mode' = mode /\ message' = message /\ got' = got
        /\ fb' = fb
    BY <1>6 DEF StatusDone
  <2> QED  BY <2>2, <2>3, <2>4, <2>5 DEF TypeOK
<1>7. CASE ExitVi \/ Abort
  <2>1. phase' \in {"end", "undefined"} /\ queue' \in {queue, <<>>}
    BY <1>7 DEF ExitVi, Abort
  <2>2. queue \in Seq(Byte) /\ <<>> \in Seq(Byte)  BY DEF TypeOK
  <2>3. queue' \in Seq(Byte)  BY <2>1, <2>2
  <2> QED  BY <1>7, <2>1, <2>3 DEF ExitVi, Abort, TypeOK, screen
<1>8. CASE UNCHANGED vars
  BY <1>8 DEF vars, TypeOK
<1> QED  BY <1>1, <1>2, <1>3, <1>4, <1>5, <1>6, <1>7, <1>8 DEF Next, System

\* Every variable keeps its type; in particular every column written to statusbuf
\* is a natural number, so that nothing goes before its start.
THEOREM TypeCorrect == Spec => []TypeOK
BY InitTypeOK, StepTypeOK, PTL DEF Spec
-----------------------------------------------------------------------------
(* The inductive invariant *)

\* From the start of a wait for a key to its handler the two cursors agree.
CursorInv == phase \in {"start", "poll", "handle"} =>
    cursor = IF mode = "INSERT_COMMAND" THEN <<Rows - 1, 0>> ELSE <<fb.row, fb.col>>

\* The status line is drawn outside the command line only, and its loop is at rest
\* otherwise.
LoopInv == /\ phase = "status" => mode # "INSERT_COMMAND"
           /\ phase = "start" => mode = "COMMAND"
           /\ phase \notin {"status", "undefined"} => i = 0
           /\ phase = "status" => i <= fb.size - 1 \/ i = 0

\* Once an ESC is handled the mode is COMMAND, until the next byte has been read; so
\* it is still when the zero of a timeout is paired with it.
EscapeInv == /\ phase \in {"status", "poll"} /\ key = Fresh(ESC) => mode = "COMMAND"
             /\ phase = "handle" => key # Fresh(NUL)
             /\ phase = "handle" /\ key.low = NUL => mode = "COMMAND"

\* A NUL is right of where the position starts, or the end of one of two messages;
\* that of the shorter one is gone once a key has ended in command mode.
HiddenBy(c) == \/ c >= PositionAt
               \/ c = NoLines
               \/ c = UnknownCommand /\ (message \/ mode # "COMMAND")
StatusInv == \A c \in status : HiddenBy(c)

IInv == TypeOK /\ CursorInv /\ LoopInv /\ EscapeInv /\ StatusInv

LEMMA InitIInv == Init => IInv
<1> SUFFICES ASSUME Init PROVE IInv  OBVIOUS
<1>1. TypeOK  BY InitTypeOK
<1>2. CursorInv  BY DEF Init, CursorInv, Home
<1>3. LoopInv /\ StatusInv  BY DEF Init, LoopInv, StatusInv
<1>4. EscapeInv  BY DEF Init, EscapeInv, Fresh, ESC, NUL
<1> QED  BY <1>1, <1>2, <1>3, <1>4 DEF IInv

\* Where a NUL may be after a copy.
LEMMA CopiedWhere ==
    ASSUME NEW s, NEW at, NEW n, NEW c \in Copied(s, at, n)
    PROVE  c = at + n \/ (c \in s /\ c \notin at .. at + n - 1)
BY DEF Copied

\* What is left in the status line after a key.
LEMMA EndsStatusInv ==
    ASSUME IInv, NEW to \in Modes, NEW n \in {0, UnknownCommand, NoLines}, Ends(to, n)
    PROVE  StatusInv'
<1> SUFFICES ASSUME NEW c \in status' PROVE HiddenBy(c)'
    BY DEF StatusInv
<1>1. /\ status' = Status(to, n) /\ mode' = to /\ message' = (n # 0)
  BY DEF Ends
<1>2. \A d \in status : d >= PositionAt \/ d \in {NoLines, UnknownCommand}
  BY DEF IInv, StatusInv, HiddenBy
<1>3. status \subseteq Nat  BY DEF IInv, TypeOK
<1>4. CASE n # 0
  <2>1. c = 0 + n \/ c \in status  BY <1>1, <1>4, CopiedWhere DEF Status
  <2>2. message' /\ n \in {UnknownCommand, NoLines}  BY <1>1, <1>4
  <2>3. c \in {UnknownCommand, NoLines} \/ c >= PositionAt
    <3>1. CASE c = 0 + n  BY <2>2, <3>1 DEF UnknownCommand, NoLines
    <3>2. CASE c \in status  BY <1>2, <3>2
    <3> QED  BY <2>1, <3>1, <3>2
  <2> QED  BY <2>2, <2>3 DEF HiddenBy, PositionAt
<1>5. CASE n = 0 /\ to = "INSERT"
  <2>1. c \in Copied(status, 0, InsertMessage) /\ c # InsertMessage  BY <1>1, <1>5 DEF Status
  <2>2. c \in status  BY <2>1, CopiedWhere DEF InsertMessage
  <2> QED  BY <1>1, <1>2, <1>5, <2>2 DEF HiddenBy, PositionAt
<1>6. CASE n = 0 /\ to = "COMMAND"
  <2>1. c \in status /\ c \notin 0 .. 19  BY <1>1, <1>6 DEF Status, Blank, Blanks, Blanked
  <2>2. c # UnknownCommand  BY <2>1 DEF UnknownCommand
  <2> QED  BY <1>2, <2>1, <2>2 DEF HiddenBy, PositionAt
<1>7. CASE n = 0 /\ to \notin {"INSERT", "COMMAND"}
  <2>1. c \in status  BY <1>1, <1>7 DEF Status, Blanks
  <2> QED  BY <1>1, <1>2, <1>7, <2>1 DEF HiddenBy, PositionAt
<1> QED  BY <1>4, <1>5, <1>6, <1>7

\* What a handler leaves: the mode and the cursor.
LEMMA ModeEnds ==
    ASSUME TypeOK, Mode
    PROVE  \E to \in Modes, n \in {0, UnknownCommand, NoLines} :
              /\ Ends(to, n)
              /\ key.low = ESC => to = "COMMAND"
              /\ to = "INSERT_COMMAND" =>
                    \/ cursor' = <<Rows - 1, 0>>
                    \/ mode = "INSERT_COMMAND" /\ cursor' = cursor
<1>m. Modes = {"COMMAND", "INSERT", "INSERT_COMMAND", "DEL_CMD"}  BY DEF Modes
<1>1. CASE CommandKey
  BY <1>1, <1>m DEF CommandKey, Handling, ESC, NUL
<1>2. CASE InsertKey
  BY <1>2, <1>m DEF InsertKey, Handling, ESC
<1>3. CASE DeleteKey
  BY <1>3, <1>m DEF DeleteKey, Handling, ESC
<1>4. CASE LineKey
  BY <1>4, <1>m DEF LineKey, EscapeLine, Handling, ESC, Untouched
<1> QED  BY <1>1, <1>2, <1>3, <1>4 DEF Mode
\* The end of a key, in every mode.
LEMMA ModeKeeps ==
    ASSUME IInv, Mode
    PROVE  (CursorInv /\ LoopInv /\ EscapeInv /\ StatusInv)'
<1>0. TypeOK  BY DEF IInv
<1>1. PICK to \in Modes, n \in {0, UnknownCommand, NoLines} :
         /\ Ends(to, n)
         /\ key.low = ESC => to = "COMMAND"
         /\ to = "INSERT_COMMAND" => \/ cursor' = <<Rows - 1, 0>>
                                     \/ mode = "INSERT_COMMAND" /\ cursor' = cursor
  BY <1>0, ModeEnds
<1>2. phase = "handle"  BY <1>0, ModeCases
<1>3. /\ mode' = to /\ key' = key /\ i' = i /\ i = 0
      /\ phase' \in {"poll", "status", "undefined"}
      /\ phase' = "poll" => to = "INSERT_COMMAND"
      /\ phase' = "status" => to # "INSERT_COMMAND"
  BY <1>1, <1>2 DEF Ends, IInv, LoopInv
<1>4. CursorInv'  BY <1>1, <1>2, <1>3 DEF IInv, CursorInv
<1>5. LoopInv'  BY <1>3 DEF LoopInv
<1>6. EscapeInv'  BY <1>1, <1>3 DEF EscapeInv, Fresh
<1>7. StatusInv'  BY <1>1, EndsStatusInv
<1> QED  BY <1>4, <1>5, <1>6, <1>7

\* poll_char(): a byte, or the zero of a timeout.
LEMMA DeliverKeeps ==
    ASSUME IInv, NEW b \in Byte, Deliver(b)
    PROVE  (CursorInv /\ LoopInv /\ EscapeInv /\ StatusInv)'
<1>1. /\ phase = "poll" /\ phase' \in {"poll", "handle"} /\ key' = KeyAfter(b)
      /\ UNCHANGED <<mode, fb, cursor, status, i, message>>
      /\ phase' = "poll" <=> key' = Fresh(NUL)
  BY DEF Deliver, screen
<1>2. CursorInv' /\ LoopInv'  BY <1>1 DEF IInv, CursorInv, LoopInv
<1>3. EscapeInv'
  <2>1. CASE key = Fresh(ESC)
    <3>1. mode' = "COMMAND"  BY <1>1, <2>1 DEF IInv, EscapeInv
    <3> QED  BY <1>1, <3>1 DEF EscapeInv
  <2>2. CASE key # Fresh(ESC)
    <3>1. key' = Fresh(b)  BY <1>1, <2>2 DEF KeyAfter
    <3>a. phase' = "handle" => b # NUL
      <4>1. phase' = "handle" => key' # Fresh(NUL)  BY <1>1
      <4> QED  BY <3>1, <4>1
    <3>b. key'.low = b  BY <3>1 DEF Fresh
    <3>2. phase' = "handle" => key'.low # NUL  BY <3>a, <3>b
    <3>3. phase' = "poll" => key' # Fresh(ESC)  BY <1>1 DEF Fresh, ESC, NUL
    <3> QED  BY <1>1, <3>2, <3>3 DEF EscapeInv
  <2> QED  BY <2>1, <2>2
<1>4. StatusInv'  BY <1>1 DEF IInv, StatusInv, HiddenBy
<1> QED  BY <1>2, <1>3, <1>4

\* One byte of the line is copied into the status line.
LEMMA LoopKeeps ==
    ASSUME IInv, StatusLoop
    PROVE  (CursorInv /\ LoopInv /\ EscapeInv /\ StatusInv)'
<1>1. /\ phase = "status" /\ phase' \in {"status", "undefined"} /\ status' \subseteq status
      /\ UNCHANGED <<key, mode, fb, cursor, message>> /\ i < fb.size - 1
  BY DEF StatusLoop
<1>2. CursorInv' /\ EscapeInv' /\ StatusInv'
  BY <1>1 DEF IInv, CursorInv, EscapeInv, StatusInv, HiddenBy
<1>3. LoopInv'
  <2>1. i \in Nat /\ i + 1 \in Nat /\ i + 1 <= CounterRange /\ fb.size \in Nat
        /\ CounterRange \in Nat \ {0}
    BY FrameAssumption, SizeAssumption DEF IInv, TypeOK
  <2>2. \A x \in 0 .. CounterRange - 1 : x % CounterRange = x  BY <2>1
  <2>3. CounterRange % CounterRange = 0  BY <2>1
  <2>4. i' = i + 1 \/ i' = 0
    <3>1. CASE i + 1 = CounterRange  BY <2>3, <3>1 DEF StatusLoop
    <3>2. CASE i + 1 # CounterRange  BY <2>1, <2>2, <3>2 DEF StatusLoop
    <3> QED  BY <3>1, <3>2
  <2>5. i' <= fb.size - 1 \/ i' = 0  BY <1>1, <2>1, <2>4
  <2> QED  BY <1>1, <2>5 DEF IInv, LoopInv
<1> QED  BY <1>2, <1>3

\* The position is printed and the cursor put back.
LEMMA DoneKeeps ==
    ASSUME IInv, StatusDone
    PROVE  (CursorInv /\ LoopInv /\ EscapeInv /\ StatusInv)'
<1>1. /\ phase = "status" /\ phase' \in {"poll", "undefined"} /\ i' = 0 /\ cursor' = <<fb'.row, fb'.col>>
      /\ UNCHANGED <<key, mode, fb, message>>
      /\ \E n \in PositionWidth : status' = Copied(status, PositionAt, n)
  BY DEF StatusDone, MovedBack
<1>2. CursorInv' /\ LoopInv' /\ EscapeInv'
  BY <1>1 DEF IInv, CursorInv, LoopInv, EscapeInv
<1>3. StatusInv'
  <2> SUFFICES ASSUME NEW c \in status' PROVE HiddenBy(c)'
      BY DEF StatusInv
  <2>1. PICK n \in PositionWidth : c = PositionAt + n \/ c \in status  BY <1>1, CopiedWhere
  <2>2. CASE c = PositionAt + n
    <3>1. n \in Nat /\ PositionAt \in Nat  BY WidthAssumption, PositionInTerminal
    <3>2. c >= PositionAt  BY <2>2, <3>1
    <3> QED  BY <3>2 DEF HiddenBy, PositionAt
  <2>3. CASE c \in status  BY <1>1, <2>3 DEF IInv, StatusInv, HiddenBy, PositionAt
  <2> QED  BY <2>1, <2>2, <2>3
<1> QED  BY <1>2, <1>3

LEMMA StepIInv == IInv /\ [Next]_vars => IInv'
<1> SUFFICES ASSUME IInv, [Next]_vars PROVE IInv'  OBVIOUS
<1>0. TypeOK'  BY StepTypeOK DEF IInv
<1>1. ASSUME NEW b \in Byte, Press(b) PROVE IInv'
  BY <1>0, <1>1
  DEF Press, screen, IInv, CursorInv, LoopInv, EscapeInv, StatusInv, HiddenBy, PositionAt
<1>2. CASE Start
  <2>1. phase = "start" /\ phase' = "poll" /\ UNCHANGED <<key, mode, fb, cursor, status, i, message>>
    BY <1>2 DEF Start, screen
  <2> QED
    BY <1>0, <2>1 DEF IInv, CursorInv, LoopInv, EscapeInv, StatusInv, HiddenBy, PositionAt
<1>3. CASE Poll \/ TimeOut
  <2>1. \E b \in Byte : Deliver(b)
    <3>1. CASE Poll
      <4>1. queue \in Seq(Byte) /\ queue # <<>>  BY <3>1 DEF Poll, IInv, TypeOK
      <4>2. Head(queue) \in Byte  BY <4>1
      <4> QED  BY <3>1, <4>2 DEF Poll
    <3>2. CASE TimeOut  BY <3>2 DEF TimeOut, Byte
    <3> QED  BY <1>3, <3>1, <3>2
  <2> QED  BY <1>0, <2>1, DeliverKeeps DEF IInv
<1>4. CASE Mode \/ StatusLoop \/ StatusDone
  BY <1>0, <1>4, ModeKeeps, LoopKeeps, DoneKeeps DEF IInv
<1>5. CASE ExitVi \/ Abort
  <2>1. /\ phase = "handle" /\ phase' \in {"end", "undefined"}
        /\ UNCHANGED <<key, mode, fb, cursor, status, i, message>>
    BY <1>5 DEF ExitVi, Abort, screen
  <2> QED
    BY <1>0, <2>1 DEF IInv, CursorInv, LoopInv, EscapeInv, StatusInv, HiddenBy, PositionAt
<1>6. CASE UNCHANGED vars
  BY <1>0, <1>6
  DEF vars, IInv, CursorInv, LoopInv, EscapeInv, StatusInv, HiddenBy, PositionAt
<1> QED  BY <1>1, <1>2, <1>3, <1>4, <1>5, <1>6 DEF Next, System

LEMMA Invariance == Spec => []IInv
BY InitIInv, StepIInv, PTL DEF Spec

-----------------------------------------------------------------------------
(* The properties *)

\* Whenever the program waits for a key the terminal cursor is the framebuffer's
\* or in the command line, whichever of the two the keys before have moved.
THEOREM CursorInSync == Spec => []CursorFollows
<1>1. IInv => CursorFollows  BY DEF IInv, CursorInv, CursorFollows
<1> QED  BY <1>1, Invariance, PTL

\* The zero that comes with a timed-out ESC is never typed into text or command.
THEOREM TimeoutTypesNothing == Spec => []NULIsNoText
<1>1. IInv => NULIsNoText  BY DEF IInv, EscapeInv, NULIsNoText
<1> QED  BY <1>1, Invariance, PTL

\* In command mode the position is not cut off by the end of an older message, with
\* the one exception of the message that is longer than what is blanked.
THEOREM PositionVisible == Spec => []PositionShown
<1>1. IInv => PositionShown  BY DEF IInv, StatusInv, HiddenBy, PositionShown
<1> QED  BY <1>1, Invariance, PTL
-----------------------------------------------------------------------------
(* Inside statusbuf *)

Inside == status \subseteq 0 .. Cols - 1 /\ phase # "undefined"
BInv == TypeOK /\ LoopInv /\ Inside

LEMMA CopiedInside ==
    ASSUME NEW s \in SUBSET (0 .. Cols - 1), NEW at \in Nat, NEW n \in Nat, at + n <= Cols - 1
    PROVE  Copied(s, at, n) \subseteq 0 .. Cols - 1
BY TerminalAssumption DEF Copied

\* The messages are shorter than a terminal of 30 columns.
LEMMA EndsInside ==
    ASSUME Fits, BInv, NEW to, NEW n \in {0, UnknownCommand, NoLines}, Ends(to, n)
    PROVE  Inside'
<1>1. status \in SUBSET (0 .. Cols - 1)  BY DEF BInv, Inside
<1>2. Cols >= 30 /\ Cols \in Nat  BY TerminalAssumption DEF Fits
<1>3. n \in Nat /\ 0 + n <= Cols - 1  BY <1>2 DEF UnknownCommand, NoLines
<1>4. InsertMessage \in Nat /\ 0 + InsertMessage <= Cols - 1  BY <1>2 DEF InsertMessage
<1>5. /\ Copied(status, 0, n) \subseteq 0 .. Cols - 1
      /\ Copied(status, 0, InsertMessage) \subseteq 0 .. Cols - 1
  BY <1>1, <1>3, <1>4, CopiedInside
<1>6. Status(to, n) \subseteq 0 .. Cols - 1
      BY <1>1, <1>5 DEF Status, Blank, Blanks, Blanked
<1>7. Blanked <= Cols  BY <1>2 DEF Blanked
<1> QED  BY <1>6, <1>7 DEF Ends, Inside

LEMMA InsideKept == ASSUME Fits PROVE BInv /\ IInv /\ IInv' /\ [Next]_vars => BInv'
<1> SUFFICES ASSUME BInv, IInv, IInv', [Next]_vars PROVE Inside'
    BY DEF BInv, IInv
<1>0. phase # "undefined" /\ status \subseteq 0 .. Cols - 1  BY DEF BInv, Inside
<1>1. CASE Mode
  <2>1. PICK to \in Modes, n \in {0, UnknownCommand, NoLines} : Ends(to, n)
    BY <1>1, ModeEnds DEF BInv
  <2> QED  BY <2>1, EndsInside
<1>2. CASE StatusLoop
  <2>1. fb.size \in Nat /\ fb \in Frame /\ i \in Nat /\ Cols \in Nat
    BY FrameAssumption, SizeAssumption, TerminalAssumption DEF BInv, TypeOK
  <2>2. TextAt + fb.size - 1 <= Cols /\ i < fb.size - 1
    BY <1>2, <2>1 DEF Fits, StatusLoop
  <2>3. TextAt + i < Cols  BY <2>1, <2>2 DEF TextAt
  <2> QED  BY <1>0, <1>2, <2>3 DEF StatusLoop, Inside
<1>3. CASE StatusDone
  <2>1. PICK n \in PositionWidth : status' = Copied(status, PositionAt, n)
    BY <1>3 DEF StatusDone
  <2>2. n \in Nat /\ n <= 17  BY WidthAssumption DEF Fits
  <2>3. PositionAt \in Nat /\ PositionAt + n <= Cols - 1
    BY <2>2, TerminalAssumption DEF PositionAt
  <2>4. status' \subseteq 0 .. Cols - 1  BY <1>0, <2>1, <2>2, <2>3, CopiedInside
  <2> QED  BY <1>3, <2>4 DEF StatusDone, Inside
<1>4. CASE ExitVi
  <2>1. \A f \in Frame : 30 <= Cols /\ f.size - 1 <= Cols /\ f.size <= CounterRange
    <3> SUFFICES ASSUME NEW f \in Frame
                 PROVE  30 <= Cols /\ f.size - 1 <= Cols /\ f.size <= CounterRange
        OBVIOUS
    <3>1. f.size \in Nat /\ Cols \in Nat  BY FrameAssumption, TerminalAssumption
    <3>2. TextAt + f.size - 1 <= Cols /\ f.size <= CounterRange /\ Cols >= 30  BY DEF Fits
    <3> QED  BY <3>1, <3>2 DEF TextAt
  <2>2. phase' = "end"  BY <1>4, <2>1 DEF ExitVi
  <2>3. status' = status  BY <1>4 DEF ExitVi, screen
  <2> QED  BY <1>0, <2>2, <2>3 DEF Inside
<1>5. CASE Start \/ Poll \/ TimeOut \/ Abort
  <2>1. status' = status /\ phase' \in {"poll", "handle", "end"}
    BY <1>5 DEF Start, Poll, TimeOut, Deliver, Abort, screen
  <2> QED  BY <1>0, <2>1 DEF Inside
<1>6. ASSUME NEW b \in Byte, Press(b) PROVE Inside'
  BY <1>0, <1>6 DEF Press, Inside, screen
<1>7. CASE UNCHANGED vars
  BY <1>0, <1>7 DEF vars, Inside
<1> QED  BY <1>1, <1>2, <1>3, <1>4, <1>5, <1>6, <1>7 DEF Next, System

\* As long as every line fits between column 10 and the right margin and its length
\* into the counter, no key and no exit writes outside statusbuf.
THEOREM WritesInside == Spec => []StaysInStatusbuf
<1> DEFINE FInv == Fits => BInv
<1>1. Init => FInv
  <2>1. Init => IInv  BY InitIInv
  <2> QED  BY <2>1 DEF IInv, BInv, Init, Inside
<1>2. FInv /\ IInv /\ IInv' /\ [Next]_vars => FInv'
  <2> SUFFICES ASSUME Fits, BInv, IInv, IInv', [Next]_vars PROVE BInv'
      BY DEF Fits
  <2> QED  BY InsideKept
<1>3. FInv => StaysInStatusbuf  BY DEF BInv, Inside, StaysInStatusbuf
<1> HIDE DEF FInv
<1> QED  BY <1>1, <1>2, <1>3, Invariance, PTL DEF Spec
=============================================================================
