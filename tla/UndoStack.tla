----------------------------- MODULE UndoStack -----------------------------
(***************************************************************************)
(* What src/include/ring.h promises: a stack "to which infinitely many     *)
(* items can be pushed but finitely many can be popped".  At most Capacity *)
(* items are kept; a push beyond that silently forgets the oldest one.     *)
(***************************************************************************)
EXTENDS Naturals, Sequences

CONSTANTS Item, Capacity, NoItem

VARIABLES stack,    \* the items that can be popped, oldest first
          result,   \* what the last pop returned (NoItem stands for NULL)
          closed    \* the ring has been destroyed

vars == <<stack, result, closed>>

Init == stack = <<>> /\ result = NoItem /\ closed = FALSE

Push(x) == /\ ~closed
           /\ stack' = IF Len(stack) < Capacity THEN Append(stack, x)
                                                ELSE Append(Tail(stack), x)
           /\ UNCHANGED <<result, closed>>

Pop == /\ ~closed /\ stack # <<>>
       /\ result' = stack[Len(stack)]
       /\ stack' = SubSeq(stack, 1, Len(stack) - 1)
       /\ UNCHANGED closed

PopEmpty == /\ ~closed /\ stack = <<>>
            /\ result' = NoItem
            /\ UNCHANGED <<stack, closed>>

Close == /\ ~closed
         /\ closed' = TRUE
         /\ stack' = <<>>
         /\ UNCHANGED result

Next == (\E x \in Item : Push(x)) \/ Pop \/ PopEmpty \/ Close

Spec == Init /\ [][Next]_vars
=============================================================================
