------------------------------ MODULE KeyQueue ------------------------------
(***************************************************************************)
(* What include/input.h promises: "Whenever a keypress is made, the passed *)
(* function pointer gets invoked", once for each key, in order, as long as *)
(* the program runs.  What is typed before it has the terminal is lost.    *)
(***************************************************************************)
EXTENDS Sequences, Naturals

CONSTANT Byte
VARIABLES pending,      \* keys typed and not handled yet
          got,          \* the last key handled, and the parity of their number
          state         \* "start", "run" or "end"

vars == <<pending, got, state>>

Init == pending = <<>> /\ state = "start" /\ got \in [key : Byte, turn : {0}]

Press(b) == state # "end" /\ pending' = Append(pending, b) /\ UNCHANGED <<got, state>>
Open     == state = "start" /\ state' = "run" /\ pending' = <<>> /\ UNCHANGED got
Handle   == /\ state = "run" /\ pending # <<>>
            /\ got' = [key |-> Head(pending), turn |-> 1 - got.turn]
            /\ pending' = Tail(pending)
            /\ UNCHANGED state
Close    == state = "run" /\ state' = "end" /\ pending' \in {pending, <<>>} /\ UNCHANGED got

Next == (\E b \in Byte : Press(b)) \/ Open \/ Handle \/ Close
Spec == Init /\ [][Next]_vars /\ WF_vars(Open) /\ WF_vars(Handle)
=============================================================================
