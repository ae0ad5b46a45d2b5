------------------------------ MODULE Session ------------------------------
(***************************************************************************)
(* From the keyboard to the status line: poll_char() of                    *)
(* src/src/native/linux/input.c, the modes of keypress_handler() in        *)
(* src/src/vi.c, the terminal cursor and the status line at the end of     *)
(* every key.  The framebuffer is open: a key that reaches it may leave    *)
(* any cursor and any current line (FrameOps and Vi say which).            *)
(*                                                                         *)
(* Of statusbuf the model keeps the columns that hold a NUL: write_string()*)
(* stops at the first one.  Of cmdbuf it keeps nothing: a command is q,    *)
(* redraw or unknown.  saved_cursor_* is left out: whatever is restored    *)
(* from it, move_to_cursor() overwrites.                                   *)
(***************************************************************************)
EXTENDS Integers, Sequences

CONSTANTS Rows, Cols,   \* of the terminal
          Frame,        \* what the framebuffer may be: [row, col, size], with row and col
                        \* of the cursor on the screen and the size of its line
          CounterRange, \* 2^8: i of keypress_handler() is a uint8_t
          PositionWidth,\* the widths "%d,%d,(%d,%d)" may have
          MaxQueue      \* bound: bytes typed ahead

ASSUME FrameAssumption == Frame \subseteq [row : Nat, col : Nat, size : Nat \ {0}]
ASSUME SizeAssumption == CounterRange \in Nat \ {0} /\ MaxQueue \in Nat
ASSUME WidthAssumption == PositionWidth \subseteq Nat
\* In less than 18 columns the position would be printed before the start of statusbuf.
ASSUME TerminalAssumption == Rows \in Nat \ {0} /\ Cols \in Nat /\ Cols >= 18

\* The bytes: those the modes tell apart, and "x" for all others.
ESC  == "ESC"
NUL  == "NUL"
Byte == {ESC, NUL, ":", "i", "d", "RET", "x", "1", "2"}

VARIABLES queue,        \* what the terminal has for the next read()
          key,          \* the static key of poll_char(): its high byte is set or not, and its low one
          phase,        \* where the code is: starting, polling, in the handler of the mode, in
                        \* the status loop, at its end, or where C defines nothing
          mode, fb,
          cursor,       \* term->cursor_r and cursor_c
          status,       \* the columns of statusbuf that hold a NUL
          i,            \* the counter of the status loop
          message,      \* history: the last key left a message (keep_status, when it was seen)
          got           \* history: the last key handled that was not NUL, and a parity

vars == <<queue, key, phase, mode, fb, cursor, status, i, message, got>>

Fresh(b)  == [high |-> FALSE, low |-> b]
Paired(b) == [high |-> TRUE, low |-> b]
Home      == <<0, 0>>

Init == /\ queue = <<>> /\ key = Fresh(NUL) /\ phase = "start"
        /\ mode = "COMMAND" /\ fb \in {f \in Frame : <<f.row, f.col>> = Home} /\ cursor = Home
        /\ status = {} /\ i = 0 /\ message = FALSE /\ got = [key |-> NUL, turn |-> 0]

screen == <<mode, fb, cursor, status, i, message>>
-----------------------------------------------------------------------------
(* The user, and the program's start *)

Press(b) == /\ phase # "end" /\ Len(queue) < MaxQueue
            /\ queue' = Append(queue, b)
            /\ UNCHANGED <<key, phase, screen, got>>

\* tty_raw() flushes what was typed before.
Start == /\ phase = "start" /\ phase' = "poll" /\ queue' = <<>>
         /\ UNCHANGED <<key, screen, got>>

(* poll_char() *)

\* mutant of KeyAfter: a key is not cleared before the next read.
KeyAfterUncleared(b) == IF key = Fresh(ESC) THEN Paired(b)
                        ELSE IF b = NUL THEN key ELSE Fresh(b)

\* After an ESC the next byte, or the zero of a read that timed out, is paired with it.
KeyAfter(b) == IF key = Fresh(ESC) THEN Paired(b) ELSE Fresh(b)

\* A key that is not zero goes to the handler, which casts it to a char.
Deliver(b) == /\ phase = "poll"
              /\ key' = KeyAfter(b)
              /\ phase' = IF key' = Fresh(NUL) THEN "poll" ELSE "handle"
              /\ got' = IF key'.low = NUL THEN got ELSE [key |-> key'.low, turn |-> 1 - got.turn]
              /\ UNCHANGED screen
Poll    == queue # <<>> /\ Deliver(Head(queue)) /\ queue' = Tail(queue)
TimeOut == queue = <<>> /\ Deliver(NUL) /\ UNCHANGED queue

(* The status line *)

UnknownCommand == 15        \* the lengths of the messages
NoLines        == 24
InsertMessage  == 12
TextAt         == 10        \* where the bytes of the current line go

\* mutants of PositionAt: too far to the right; the wrong way round.
PositionAtRight == Cols - 8
PositionAtNegative == 18 - Cols
PositionAt == Cols - 18

\* vistrcpy(statusbuf + at, a string of n), with its NUL.
Copied(s, at, n) == (s \ (at .. at + n - 1)) \cup {at + n}

Blanked == 20               \* columns, in a narrower terminal too

\* mutant of Blank: too few columns.
BlankShort(s) == s \ (0 .. 14)
Blank(s) == s \ (0 .. Blanked - 1)

\* keypress_handler() after the mode's handler, which went to mode to and left
\* a message of n columns (0: none).
Blanks(to, n) == n = 0 /\ to = "COMMAND"
Status(to, n) == IF n # 0 THEN Copied(status, 0, n)
                 ELSE IF to = "INSERT" THEN Copied(status, 0, InsertMessage) \ {InsertMessage}
                 ELSE IF Blanks(to, n) THEN Blank(status) ELSE status
Ends(to, n) == /\ mode' = to /\ status' = Status(to, n) /\ message' = (n # 0)
               /\ phase' = IF status' \subseteq 0 .. Cols - 1 /\ (Blanks(to, n) => Blanked <= Cols)
                           THEN IF to = "INSERT_COMMAND" THEN "poll" ELSE "status"
                           ELSE "undefined"
               /\ UNCHANGED <<queue, key, i, got>>

\* The loop that copies the bytes of the line, none of them NUL.
StatusLoop == /\ phase = "status" /\ i < fb.size - 1
              /\ status' = status \ {TextAt + i}
              /\ phase' = IF TextAt + i < Cols THEN phase ELSE "undefined"
              /\ i' = (i + 1) % CounterRange
              /\ UNCHANGED <<queue, key, mode, fb, cursor, message, got>>

\* mutant of MovedBack: the cursor is restored and not moved to the text's.
RestoredOnly == cursor

\* move_to_cursor(), with which restore_cursor_local() and exit_to_command_mode() end.
MovedBack == <<fb.row, fb.col>>'

\* The position is printed and write_status() shows it.
StatusDone == /\ phase = "status" /\ i >= fb.size - 1
              /\ \E n \in PositionWidth : status' = Copied(status, PositionAt, n)
              /\ phase' = IF status' \subseteq 0 .. Cols - 1 THEN "poll" ELSE "undefined"
              /\ i' = 0 /\ UNCHANGED fb
              /\ cursor' = MovedBack
              /\ UNCHANGED <<queue, key, mode, message, got>>

(* The handlers of the modes *)

Handling(m, c) == phase = "handle" /\ mode = m /\ key.low \in c
Untouched == UNCHANGED <<fb, cursor>>
Edited    == fb' \in Frame /\ cursor' = MovedBack

CommandKey ==
    \/ Handling("COMMAND", {":"}) /\ UNCHANGED fb /\ cursor' = <<Rows - 1, 0>> /\ Ends("INSERT_COMMAND", 0)
    \/ Handling("COMMAND", {"i"}) /\ (Untouched \/ Edited) /\ Ends("INSERT", 0)    \* i, o
    \/ Handling("COMMAND", {"d"}) /\ Untouched /\ Ends("DEL_CMD", 0)
    \/ Handling("COMMAND", {"RET"}) /\ fb' \in Frame /\ UNCHANGED cursor /\ Ends("COMMAND", 0)
    \/ Handling("COMMAND", {"x"}) /\ (Untouched \/ Edited) /\ Ends("COMMAND", 0)    \* h j k l u
    \/ Handling("COMMAND", {ESC, NUL}) /\ Untouched /\ Ends("COMMAND", 0)

InsertKey ==
    \/ Handling("INSERT", Byte \ {ESC}) /\ Edited /\ Ends("INSERT", 0)
    \/ Handling("INSERT", {ESC}) /\ Untouched /\ Ends("COMMAND", 0)

DeleteKey ==
    \/ Handling("DEL_CMD", {"d"}) /\ Edited /\ \E n \in {0, NoLines} : Ends("COMMAND", n)
    \/ Handling("DEL_CMD", Byte \ {"d"}) /\ Untouched /\ Ends("COMMAND", 0)

\* mutant of EscapeLine: the command line stays open.
EscapeLineStays == Handling("INSERT_COMMAND", {ESC}) /\ Untouched /\ Ends("INSERT_COMMAND", 0)

EscapeLine == /\ Handling("INSERT_COMMAND", {ESC}) /\ UNCHANGED fb /\ cursor' = MovedBack
              /\ Ends("COMMAND", 0)
LineKey == \/ EscapeLine
           \/ Handling("INSERT_COMMAND", Byte \ {ESC, "RET"}) /\ Untouched /\ Ends("INSERT_COMMAND", 0)
           \/ /\ Handling("INSERT_COMMAND", {"RET"}) /\ UNCHANGED fb /\ cursor' = MovedBack
              /\ \E n \in {0, UnknownCommand} : Ends("COMMAND", n)     \* redraw, or unknown

\* exit_vi(), by the key 1 or the command q: stop_logging() clears 30 columns of
\* statusbuf and copies every line into it, tty_reset() flushes what was typed ahead.
ExitVi == /\ phase = "handle"
          /\ key.low = "1" \/ Handling("INSERT_COMMAND", {"RET"})
          /\ \E f \in Frame : phase' = IF 30 <= Cols /\ f.size - 1 <= Cols /\ f.size <= CounterRange
                                       THEN "end" ELSE "undefined"
          /\ queue' = <<>> /\ UNCHANGED <<key, screen, got>>
Abort  == /\ phase = "handle" /\ key.low = "2" /\ phase' = "end"
          /\ UNCHANGED <<queue, key, screen, got>>

Mode == /\ key.low \notin {"1", "2"}
        /\ CommandKey \/ InsertKey \/ DeleteKey \/ LineKey
System == Start \/ Poll \/ TimeOut \/ Mode \/ StatusLoop \/ StatusDone \/ ExitVi \/ Abort
Next == System \/ \E b \in Byte : Press(b)

\* The main loop polls for ever, a read returns at the latest after VTIME, and
\* the one thread goes on with what it does.  Nobody has to press a key.
Spec == Init /\ [][Next]_vars /\ WF_vars(System)
-----------------------------------------------------------------------------
TypeOK == /\ queue \in Seq(Byte) /\ key \in [high : BOOLEAN, low : Byte]
          /\ phase \in {"start", "poll", "handle", "status", "end", "undefined"}
          /\ mode \in {"COMMAND", "INSERT", "INSERT_COMMAND", "DEL_CMD"}
          /\ fb \in Frame /\ cursor \in Nat \X Nat
          /\ status \subseteq Nat /\ i \in 0 .. CounterRange - 1
          /\ message \in BOOLEAN /\ got \in [key : Byte, turn : {0, 1}]

\* Between keys the terminal cursor is where the framebuffer has it, or in the
\* command line: the scroll tests of the next key rely on it, though many keys
\* move one of the two only.
CursorFollows == phase = "poll" =>
    cursor = IF mode = "INSERT_COMMAND" THEN <<Rows - 1, 0>> ELSE <<fb.row, fb.col>>

\* The zero that a timed-out read pairs with an ESC reaches the handler as a key.
\* It never becomes text or part of a command: every mode has been left by then.
NULIsNoText == phase = "handle" /\ key.low = NUL => mode = "COMMAND"

\* In command mode no NUL hides the position at the right end of the status line,
\* but those of the message of this very key and of "-- No lines in buffer --",
\* which is longer than what is blanked.
PositionShown ==
    phase = "poll" /\ mode = "COMMAND" =>
       \A c \in status : c >= PositionAt \/ c = NoLines \/ message

\* The program writes inside statusbuf and its loops end as long as the terminal has
\* 30 columns, the position 17 at most, and no line grows over the right margin or
\* past what the counter can count.  Nothing in the code sees to any of that.
Fits == /\ Cols >= 30 /\ \A n \in PositionWidth : n <= 17
        /\ \A f \in Frame : TextAt + f.size - 1 <= Cols /\ f.size <= CounterRange

\* With lines that fit nothing is written outside statusbuf, at the end of any key
\* or in the log at exit.
StaysInStatusbuf == Fits => phase # "undefined"

\* Every key typed, NUL apart, reaches its handler, once and in order, ESC and
\* what follows it included; and the handlers return, so that it always will.
Promise == INSTANCE KeyQueue
             WITH pending <- SelectSeq(queue, LAMBDA b : b # NUL),
                  state <- IF phase \in {"start", "end"} THEN phase ELSE "run"
ImplementsKeyQueue == Promise!Spec
=============================================================================
