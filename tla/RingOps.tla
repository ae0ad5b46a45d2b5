------------------------------ MODULE RingOps ------------------------------
(***************************************************************************)
(* The circular stack of src/src/ring.c as operators on one record         *)
(*                                                                         *)
(*     r = [head, tail, buffer]                                            *)
(*                                                                         *)
(* where buffer is the C array of ItemCount slots.  The live items are the *)
(* ones above tail, up to and including head, going round the array; the   *)
(* slot at tail itself is never live.  ZeroItem is what calloc leaves in a *)
(* slot: an all-zero command, which the deallocator ignores.               *)
(***************************************************************************)
EXTENDS Naturals

CONSTANTS ItemCount,    \* slots in the ring (VI_HISTORY_SIZE in the editor)
          ZeroItem      \* the content of a slot that was never written

ASSUME ItemCountAssumption == ItemCount \in Nat /\ ItemCount >= 2

Slot == 0 .. ItemCount - 1

InitRing == [head |-> 0, tail |-> 0, buffer |-> [i \in Slot |-> ZeroItem]]

\* The slot after i, going round: (i + 1) % item_count.
Succ(i) == (i + 1) % ItemCount

\* mutant of Pred: pop() without its test for zero.
PredUnguarded(i) == i - 1

\* The slot before i: the code tests for zero, the counters are unsigned.
Pred(i) == IF i = 0 THEN ItemCount - 1 ELSE i - 1

\* next(): the slot the next item goes to, and whether next() first hands the
\* slot's present content to the deallocator.
NextSlot(r) == Succ(r.head)

\* mutant of NextDisposes: only an empty ring disposes.
NextDisposesIfEmpty(r) == r.head = r.tail

NextDisposes(r) == NextSlot(r) = r.tail

\* mutant of Commit: nothing is pushed out at the tail.
CommitKeepsTail(r) == [r EXCEPT !.head = Succ(r.head)]

\* commit(): head moves up; when it runs into tail, tail is pushed one up.
Commit(r) ==
    LET h == Succ(r.head)
    IN  [r EXCEPT !.head = h,
                  !.tail = IF h = r.tail THEN Succ(r.tail) ELSE r.tail]

\* mutant of PushItem: next() returns the slot at head, as journal.txt has it.
PushItemAtHead(r, item) == Commit([r EXCEPT !.buffer[r.head] = item])

\* next(), the caller's writes through the pointer, commit(): the only way the
\* code pushes an item (add_undoable_at_loc).
PushItem(r, item) == Commit([r EXCEPT !.buffer[NextSlot(r)] = item])

\* pop(): NULL (here IsEmpty) when head meets tail, else the item at head.
IsEmpty(r)   == r.head = r.tail
TopItem(r)   == r.buffer[r.head]
DropTop(r)   == [r EXCEPT !.head = Pred(r.head)]

\* How many items can be popped, and the items themselves, oldest first.
Depth(r) == IF r.head >= r.tail THEN r.head - r.tail
                                ELSE r.head + ItemCount - r.tail
LiveItems(r) == [k \in 1 .. Depth(r) |-> r.buffer[(r.tail + k) % ItemCount]]
=============================================================================
