-------------------------------- MODULE Ring --------------------------------
(***************************************************************************)
(* The ring of src/src/ring.c in use: a program that pushes fresh items,   *)
(* pops, and finally destroys the ring.  Beside the ring the module keeps  *)
(* what happened to each item, so that its life can be talked about: a     *)
(* deallocator that frees memory must run once for an item, and never for  *)
(* one that can still be popped.                                           *)
(***************************************************************************)
EXTENDS RingOps, Sequences, FiniteSets

CONSTANTS Item          \* the items a program may push, each of them once

ASSUME ZeroItemAssumption == ZeroItem \notin Item

VARIABLES ring,         \* the struct ring_s
          result,       \* what the last pop() returned, ZeroItem for NULL
          destroyed,    \* destroy() has run
          pushed,       \* history: the items pushed so far
          popped,       \* history: the items handed back by pop()
          disposals     \* history: how often the deallocator got each item

vars == <<ring, result, destroyed, pushed, popped, disposals>>

Init == /\ ring = InitRing
        /\ result = ZeroItem
        /\ destroyed = FALSE
        /\ pushed = {}
        /\ popped = {}
        /\ disposals = [x \in Item |-> 0]

Push(x) ==
    /\ ~destroyed
    /\ x \notin pushed
    /\ ring' = PushItem(ring, x)
    /\ pushed' = pushed \cup {x}
    /\ disposals' =
         [y \in Item |-> IF NextDisposes(ring) /\ y = ring.buffer[NextSlot(ring)]
                         THEN disposals[y] + 1 ELSE disposals[y]]
    /\ UNCHANGED <<result, destroyed, popped>>

Pop ==
    /\ ~destroyed
    /\ ~IsEmpty(ring)
    /\ result' = TopItem(ring)
    /\ ring' = DropTop(ring)
    /\ popped' = popped \cup {TopItem(ring)}
    /\ UNCHANGED <<destroyed, pushed, disposals>>

PopEmpty ==
    /\ ~destroyed
    /\ IsEmpty(ring)
    /\ result' = ZeroItem
    /\ UNCHANGED <<ring, destroyed, pushed, popped, disposals>>

\* destroy() hands every slot to the deallocator, whether it is live or not.
Destroy ==
    /\ ~destroyed
    /\ destroyed' = TRUE
    /\ disposals' =
         [y \in Item |-> IF \E i \in Slot : ring.buffer[i] = y
                         THEN disposals[y] + 1 ELSE disposals[y]]
    /\ UNCHANGED <<ring, result, pushed, popped>>

Next == (\E x \in Item : Push(x)) \/ Pop \/ PopEmpty \/ Destroy

Spec == Init /\ [][Next]_vars
-----------------------------------------------------------------------------
Live == {LiveItems(ring)[k] : k \in 1 .. Depth(ring)}
Disposed == {x \in Item : disposals[x] > 0}

\* Every variable keeps its type: in particular head and tail stay inside the
\* array, whatever the order of pushes and pops (the modulo arithmetic of
\* commit() and the wrap of pop()).
TypeOK == /\ ring \in [head : Slot, tail : Slot,
                       buffer : [Slot -> Item \cup {ZeroItem}]]
          /\ result \in Item \cup {ZeroItem}
          /\ destroyed \in BOOLEAN
          /\ pushed \subseteq Item
          /\ popped \subseteq Item
          /\ disposals \in [Item -> Nat]

\* An item that can still be popped was never handed to the deallocator: the
\* undo command that undo() pops is intact (next() disposes of a slot before it
\* is known whether the slot is the oldest live one or an older, evicted one).
LiveNeverDisposed == ~destroyed => Live \cap Disposed = {}

\* The deallocator never runs twice for one item, not even in destroy(), which
\* visits the live, the evicted and the popped slots alike.
DisposedAtMostOnce == \A x \in Item : disposals[x] <= 1

\* No item is forgotten without its deallocator having run: what was pushed is
\* live, was popped, was disposed of, or is the one evicted item that waits in
\* the slot at tail; destroy() disposes of everything that was not popped.
EvictedIsDisposed ==
    pushed \subseteq popped \cup Disposed
                     \cup (IF destroyed THEN {}
                           ELSE Live \cup {ring.buffer[ring.tail]})

\* The ring implements the bounded stack, with one item less than it has slots:
\* not the "number of items this buffer stores" that ring.h calls item_count.
Promise == INSTANCE UndoStack
             WITH Capacity <- ItemCount - 1, NoItem <- ZeroItem,
                  stack <- IF destroyed THEN <<>> ELSE LiveItems(ring),
                  closed <- destroyed
ImplementsUndoStack == Promise!Spec
=============================================================================
