----------------------------- MODULE RingProofs -----------------------------
(***************************************************************************)
(* Proofs about Ring, for every number of slots and every set of items.    *)
(*                                                                         *)
(* The inductive invariant adds to the type two facts that the properties  *)
(* leave out: the items in the slots are distinct, and whatever a slot     *)
(* holds (live, evicted or popped) was not disposed of so far, because     *)
(* next() disposes of a slot's content just before it is overwritten.      *)
(***************************************************************************)
EXTENDS Ring, SequenceTheorems, TLAPS

-----------------------------------------------------------------------------
(* Arithmetic of the slots *)

\* commit() increments and takes the remainder: one step round the ring.
LEMMA SuccValue == \A i \in Slot : /\ Succ(i) = (IF i = ItemCount - 1 THEN 0 ELSE i + 1)
                                   /\ Succ(i) \in Slot
<1> SUFFICES ASSUME NEW i \in Slot
             PROVE  /\ Succ(i) = (IF i = ItemCount - 1 THEN 0 ELSE i + 1)
                    /\ Succ(i) \in Slot
    OBVIOUS
<1> USE ItemCountAssumption DEF Slot, Succ
<1>1. CASE i = ItemCount - 1
  <2>1. i + 1 = ItemCount  BY <1>1
  <2>2. ItemCount % ItemCount = 0  OBVIOUS
  <2> QED  BY <2>1, <2>2, <1>1
<1>2. CASE i # ItemCount - 1
  <2>1. i + 1 \in 0 .. ItemCount - 1  BY <1>2
  <2>2. (i + 1) % ItemCount = i + 1  BY <2>1
  <2> QED  BY <2>1, <2>2, <1>2
<1> QED  BY <1>1, <1>2

\* pop() steps back, testing for zero first because the counters are unsigned.
LEMMA PredValue == \A i \in Slot : Pred(i) \in Slot
BY ItemCountAssumption DEF Slot, Pred

\* The slot k above tail, going round the ring.
LEMMA AboveTail ==
    ASSUME NEW t \in Slot, NEW k \in 0 .. ItemCount
    PROVE  (t + k) % ItemCount = (IF t + k < ItemCount THEN t + k ELSE t + k - ItemCount)
<1> USE ItemCountAssumption DEF Slot
<1>1. CASE t + k < ItemCount
  <2>1. t + k \in 0 .. ItemCount - 1  BY <1>1
  <2> QED  BY <1>1, <2>1
<1>2. CASE t + k >= ItemCount
  <2>1. t + k \in ItemCount .. 2 * ItemCount - 1  BY <1>2
  <2> QED  BY <1>2, <2>1
<1> QED  BY <1>1, <1>2

-----------------------------------------------------------------------------
(* Type correctness *)

RingType == [head : Slot, tail : Slot, buffer : [Slot -> Item \cup {ZeroItem}]]

\* The initial ring, a push and a pop leave a well-formed ring.
LEMMA InitRingType == InitRing \in RingType
BY ItemCountAssumption DEF InitRing, RingType, Slot

LEMMA PushItemFields ==
    ASSUME NEW r \in RingType, NEW x \in Item
    PROVE  /\ PushItem(r, x) \in RingType
           /\ PushItem(r, x).head = Succ(r.head)
           /\ PushItem(r, x).tail = (IF Succ(r.head) = r.tail THEN Succ(r.tail) ELSE r.tail)
           /\ PushItem(r, x).buffer = [r.buffer EXCEPT ![Succ(r.head)] = x]
<1>1. Succ(r.head) \in Slot /\ Succ(r.tail) \in Slot
      BY SuccValue DEF RingType
<1> QED  BY <1>1 DEF PushItem, Commit, NextSlot, RingType

LEMMA DropTopFields ==
    ASSUME NEW r \in RingType
    PROVE  /\ DropTop(r) \in RingType
           /\ DropTop(r).head = Pred(r.head)
           /\ DropTop(r).tail = r.tail
           /\ DropTop(r).buffer = r.buffer
BY PredValue DEF DropTop, RingType

-----------------------------------------------------------------------------
(* The inductive invariant *)

\* The live slots, without arithmetic: those above tail up to head, going round.
IsLive(r, i) == IF r.tail <= r.head THEN r.tail < i /\ i <= r.head
                                    ELSE r.tail < i \/ i <= r.head

\* An item is in one slot at most, and only an item that was pushed is there.
SlotsHoldPushed ==
    /\ \A i \in Slot : ring.buffer[i] \in pushed \cup {ZeroItem}
    /\ \A i, j \in Slot : (ring.buffer[i] = ring.buffer[j] /\ ring.buffer[i] # ZeroItem)
                             => i = j

\* A live slot holds an item, never the zero bytes calloc left there.
LiveHoldItems == \A i \in Slot : IsLive(ring, i) => ring.buffer[i] \in Item

\* Until destroy(), nothing a slot holds was disposed of, and after it nothing
\* was disposed of twice.
SlotsUndisposed ==
    /\ ~destroyed => \A i \in Slot : \A x \in Item :
                         ring.buffer[i] = x => disposals[x] = 0
    /\ \A x \in Item : disposals[x] <= 1
    /\ \A x \in Item : x \notin pushed => disposals[x] = 0

\* Where each pushed item is.
PushedAccounted ==
    \A x \in pushed : \/ x \in popped
                      \/ disposals[x] > 0
                      \/ /\ ~destroyed
                         /\ \E i \in Slot : /\ ring.buffer[i] = x
                                            /\ IsLive(ring, i) \/ i = ring.tail

IInv == /\ TypeOK /\ SlotsHoldPushed /\ LiveHoldItems
        /\ SlotsUndisposed /\ PushedAccounted

\* The slots a push leaves live: the live ones but the one tail moved onto, and
\* the new one.
LEMMA PushLive ==
    ASSUME NEW r \in RingType, NEW x \in Item, NEW i \in Slot
    PROVE  /\ IsLive(PushItem(r, x), i) => IsLive(r, i) \/ i = Succ(r.head)
           /\ IsLive(r, i) \/ i = r.tail =>
                 \/ IsLive(PushItem(r, x), i)
                 \/ i = PushItem(r, x).tail
                 \/ i = Succ(r.head)
           /\ IsLive(r, i) => i # Succ(r.head)
           /\ IsLive(PushItem(r, x), Succ(r.head))
           /\ i = r.tail /\ i # Succ(r.head) => i = PushItem(r, x).tail
<1>1. /\ Succ(r.head) = (IF r.head = ItemCount - 1 THEN 0 ELSE r.head + 1)
      /\ Succ(r.tail) = (IF r.tail = ItemCount - 1 THEN 0 ELSE r.tail + 1)
      /\ r.head \in Slot /\ r.tail \in Slot
      BY SuccValue DEF RingType
<1>2. /\ PushItem(r, x).head = Succ(r.head)
      /\ PushItem(r, x).tail = (IF Succ(r.head) = r.tail THEN Succ(r.tail) ELSE r.tail)
      BY PushItemFields
<1> QED  BY <1>1, <1>2, ItemCountAssumption DEF IsLive, Slot

\* The slots a pop leaves live: all but the one at head.
LEMMA PopLive ==
    ASSUME NEW r \in RingType, ~IsEmpty(r), NEW i \in Slot
    PROVE  /\ IsLive(DropTop(r), i) <=> IsLive(r, i) /\ i # r.head
           /\ IsLive(r, r.head)
<1>1. /\ DropTop(r).head = (IF r.head = 0 THEN ItemCount - 1 ELSE r.head - 1)
      /\ DropTop(r).tail = r.tail
      BY DropTopFields DEF Pred
<1>2. r.head \in Slot /\ r.tail \in Slot  BY DEF RingType
<1> QED  BY <1>1, <1>2, ItemCountAssumption DEF IsLive, IsEmpty, Slot

LEMMA InitInvariant == Init => IInv
<1> SUFFICES ASSUME Init PROVE IInv
    OBVIOUS
<1> USE DEF Init
<1>1. ring \in RingType  BY InitRingType
<1>2. \A i \in Slot : ring.buffer[i] = ZeroItem  BY DEF InitRing
<1>3. ring.head = 0 /\ ring.tail = 0  BY DEF InitRing
<1>4. disposals \in [Item -> Nat] /\ \A x \in Item : disposals[x] = 0
      OBVIOUS
<1>5. TypeOK  BY <1>1, <1>4 DEF TypeOK, RingType
<1>6. SlotsHoldPushed  BY <1>2 DEF SlotsHoldPushed
<1>7. LiveHoldItems  BY <1>3 DEF LiveHoldItems, IsLive, Slot
<1>8. SlotsUndisposed  BY <1>2, <1>4, ZeroItemAssumption DEF SlotsUndisposed
<1>9. PushedAccounted  BY DEF PushedAccounted
<1> QED  BY <1>5, <1>6, <1>7, <1>8, <1>9 DEF IInv

LEMMA PushInvariant == ASSUME IInv, NEW x \in Item, Push(x) PROVE IInv'
<1> DEFINE h == Succ(ring.head)
<1>1. ring \in RingType  BY DEF IInv, TypeOK, RingType
<1>2. h \in Slot  BY <1>1, SuccValue DEF RingType
<1>3. /\ ring' = PushItem(ring, x)
      /\ ring' \in RingType
      /\ ring'.buffer = [ring.buffer EXCEPT ![h] = x]
      BY <1>1, PushItemFields DEF Push
<1>4. \A i \in Slot : ring'.buffer[i] = (IF i = h THEN x ELSE ring.buffer[i])
      BY <1>1, <1>3 DEF RingType
<1>5. /\ x \notin pushed /\ pushed' = pushed \cup {x}
      /\ ~destroyed /\ destroyed' = destroyed
      /\ popped' = popped /\ result' = result
      BY DEF Push
<1>6. /\ disposals' \in [Item -> Nat]
      /\ \A y \in Item : disposals'[y] =
            IF h = ring.tail /\ y = ring.buffer[h] THEN disposals[y] + 1 ELSE disposals[y]
      BY DEF Push, NextDisposes, NextSlot, IInv, TypeOK
<1>7. TypeOK'
      BY <1>3, <1>5, <1>6 DEF IInv, TypeOK, RingType
<1>8. SlotsHoldPushed'
  <2>1. \A i \in Slot : ring.buffer[i] # x
        BY <1>5, ZeroItemAssumption DEF IInv, SlotsHoldPushed
  <2> QED  BY <1>4, <1>5, <2>1 DEF IInv, SlotsHoldPushed
<1>9. LiveHoldItems'
  <2> SUFFICES ASSUME NEW i \in Slot, IsLive(ring, i)'
               PROVE  ring'.buffer[i] \in Item
      BY DEF LiveHoldItems
  <2>1. IsLive(PushItem(ring, x), i)  BY <1>3 DEF IsLive
  <2>2. IsLive(ring, i) \/ i = h  BY <1>1, <2>1, PushLive
  <2> QED  BY <2>2, <1>4 DEF IInv, LiveHoldItems
<1>10. SlotsUndisposed'
  <2>1. ASSUME NEW i \in Slot, NEW y \in Item, ring'.buffer[i] = y
        PROVE  disposals'[y] = 0
    <3>1. CASE i = h
      <4>1. y = x  BY <3>1, <2>1, <1>4
      <4>2. y # ring.buffer[h]
            BY <4>1, <1>2, <1>5, ZeroItemAssumption DEF IInv, SlotsHoldPushed
      <4>3. disposals[y] = 0  BY <4>1, <1>5 DEF IInv, SlotsUndisposed
      <4> QED  BY <4>2, <4>3, <1>6
    <3>2. CASE i # h
      <4>1. ring.buffer[i] = y  BY <3>2, <2>1, <1>4
      <4>2. y # ring.buffer[h]
            BY <4>1, <3>2, <1>2, ZeroItemAssumption DEF IInv, SlotsHoldPushed
      <4>3. disposals[y] = 0  BY <4>1, <1>5 DEF IInv, SlotsUndisposed
      <4> QED  BY <4>2, <4>3, <1>6
    <3> QED  BY <3>1, <3>2
  <2>2. ASSUME NEW y \in Item PROVE disposals'[y] <= 1
    <3>1. y = ring.buffer[h] => disposals[y] = 0
          BY <1>2, <1>5 DEF IInv, SlotsUndisposed
    <3>2. disposals[y] <= 1 /\ disposals[y] \in Nat
          BY DEF IInv, SlotsUndisposed, TypeOK
    <3> QED  BY <3>1, <3>2, <1>6
  <2>3. ASSUME NEW y \in Item, y \notin pushed' PROVE disposals'[y] = 0
    <3>1. y \notin pushed  BY <2>3, <1>5
    <3>2. y # ring.buffer[h]
          BY <3>1, <1>2, ZeroItemAssumption DEF IInv, SlotsHoldPushed
    <3> QED  BY <3>1, <3>2, <1>6 DEF IInv, SlotsUndisposed
  <2> QED  BY <2>1, <2>2, <2>3 DEF SlotsUndisposed
<1>11. PushedAccounted'
  <2> SUFFICES ASSUME NEW y \in pushed'
               PROVE  \/ y \in popped'
                      \/ disposals'[y] > 0
                      \/ /\ ~destroyed'
                         /\ \E i \in Slot : /\ ring'.buffer[i] = y
                                            /\ IsLive(ring', i) \/ i = ring'.tail
      BY DEF PushedAccounted, IsLive
  <2>1. CASE y = x
    <3>1. IsLive(ring', h)  BY <1>1, <1>2, <1>3, PushLive
    <3> QED  BY <2>1, <3>1, <1>2, <1>4, <1>5
  <2>2. CASE y # x
    <3>1. y \in pushed /\ y \in Item  BY <2>2, <1>5 DEF IInv, TypeOK
    <3>2. CASE y \in popped  BY <3>2, <1>5
    <3>3. CASE disposals[y] > 0
          BY <3>1, <3>3, <1>6 DEF IInv, TypeOK
    <3>4. CASE \E i \in Slot : /\ ring.buffer[i] = y
                               /\ IsLive(ring, i) \/ i = ring.tail
      <4>1. PICK i \in Slot : /\ ring.buffer[i] = y
                              /\ IsLive(ring, i) \/ i = ring.tail
            BY <3>4
      <4>2. CASE i = h
        <5>1. i = ring.tail  BY <4>1, <4>2, <1>1, PushLive
        <5>2. disposals'[y] = disposals[y] + 1  BY <3>1, <4>1, <4>2, <5>1, <1>6
        <5> QED  BY <5>2, <3>1 DEF IInv, TypeOK
      <4>3. CASE i # h
        <5>1. ring'.buffer[i] = y  BY <4>1, <4>3, <1>4
        <5>2. IsLive(ring', i) \/ i = ring'.tail
              BY <4>1, <4>3, <1>1, <1>3, PushLive
        <5> QED  BY <5>1, <5>2, <1>5
      <4> QED  BY <4>2, <4>3
    <3> QED  BY <3>1, <3>2, <3>3, <3>4 DEF IInv, PushedAccounted
  <2> QED  BY <2>1, <2>2
<1> QED  BY <1>7, <1>8, <1>9, <1>10, <1>11 DEF IInv

LEMMA PopInvariant == ASSUME IInv, Pop PROVE IInv'
<1>1. ring \in RingType  BY DEF IInv, TypeOK, RingType
<1>2. /\ ring' = DropTop(ring)
      /\ ring' \in RingType
      /\ ring'.buffer = ring.buffer
      /\ ring'.tail = ring.tail
      /\ ~IsEmpty(ring)
      BY <1>1, DropTopFields DEF Pop
<1>3. /\ popped' = popped \cup {TopItem(ring)}
      /\ UNCHANGED <<destroyed, pushed, disposals>>
      /\ result' = TopItem(ring)
      /\ TopItem(ring) = ring.buffer[ring.head]
      /\ ring.head \in Slot
      /\ ~destroyed
      BY <1>1 DEF Pop, TopItem, RingType
<1>4. TopItem(ring) \in Item
      BY <1>1, <1>2, <1>3, PopLive DEF IInv, LiveHoldItems
<1>5. TypeOK'
      BY <1>2, <1>3, <1>4 DEF IInv, TypeOK, RingType
<1>6. SlotsHoldPushed'  BY <1>2, <1>3 DEF IInv, SlotsHoldPushed
<1>7. \A i \in Slot : IsLive(ring, i)' <=> IsLive(ring, i) /\ i # ring.head
  <2> SUFFICES ASSUME NEW i \in Slot
               PROVE  IsLive(ring', i) <=> IsLive(ring, i) /\ i # ring.head
      BY DEF IsLive
  <2> QED  BY <1>1, <1>2, PopLive
<1>8. LiveHoldItems'  BY <1>2, <1>7 DEF IInv, LiveHoldItems
<1>9. SlotsUndisposed'  BY <1>2, <1>3 DEF IInv, SlotsUndisposed
<1>10. PushedAccounted'
  <2> SUFFICES ASSUME NEW y \in pushed
               PROVE  \/ y \in popped'
                      \/ disposals'[y] > 0
                      \/ /\ ~destroyed'
                         /\ \E i \in Slot : /\ ring'.buffer[i] = y
                                            /\ IsLive(ring, i)' \/ i = ring'.tail
      BY <1>3 DEF PushedAccounted
  <2>1. CASE y \in popped \/ disposals[y] > 0  BY <2>1, <1>3
  <2>2. CASE \E i \in Slot : /\ ring.buffer[i] = y
                             /\ IsLive(ring, i) \/ i = ring.tail
    <3>1. PICK i \in Slot : /\ ring.buffer[i] = y
                            /\ IsLive(ring, i) \/ i = ring.tail
          BY <2>2
    <3>2. CASE i = ring.head  BY <3>1, <3>2, <1>3
    <3>3. CASE i # ring.head  BY <3>1, <3>3, <1>2, <1>3, <1>7
    <3> QED  BY <3>2, <3>3
  <2> QED  BY <2>1, <2>2 DEF IInv, PushedAccounted
<1> QED  BY <1>5, <1>6, <1>8, <1>9, <1>10 DEF IInv

LEMMA DestroyInvariant == ASSUME IInv, Destroy PROVE IInv'
<1>1. /\ UNCHANGED <<ring, result, pushed, popped>>
      /\ ~destroyed /\ destroyed' = TRUE
      /\ disposals' \in [Item -> Nat]
      /\ \A y \in Item : disposals'[y] =
            IF \E i \in Slot : ring.buffer[i] = y THEN disposals[y] + 1 ELSE disposals[y]
      BY DEF Destroy, IInv, TypeOK
<1>2. TypeOK'  BY <1>1 DEF IInv, TypeOK
<1>3. SlotsHoldPushed'  BY <1>1 DEF IInv, SlotsHoldPushed
<1>4. LiveHoldItems'  BY <1>1 DEF IInv, LiveHoldItems, IsLive
<1>5. SlotsUndisposed'
  <2>1. ASSUME NEW y \in Item PROVE disposals'[y] <= 1
    <3>1. (\E i \in Slot : ring.buffer[i] = y) => disposals[y] = 0
          BY <1>1 DEF IInv, SlotsUndisposed
    <3> QED  BY <3>1, <1>1 DEF IInv, SlotsUndisposed, TypeOK
  <2>2. ASSUME NEW y \in Item, y \notin pushed PROVE disposals'[y] = 0
    <3>1. ~ \E i \in Slot : ring.buffer[i] = y
          BY <2>2, ZeroItemAssumption DEF IInv, SlotsHoldPushed
    <3> QED  BY <3>1, <2>2, <1>1 DEF IInv, SlotsUndisposed
  <2> QED  BY <1>1, <2>1, <2>2 DEF SlotsUndisposed
<1>6. PushedAccounted'
  <2> SUFFICES ASSUME NEW y \in pushed
               PROVE  y \in popped \/ disposals'[y] > 0
      BY <1>1 DEF PushedAccounted
  <2>1. y \in Item /\ disposals[y] \in Nat  BY DEF IInv, TypeOK
  <2> QED  BY <2>1, <1>1 DEF IInv, PushedAccounted
<1> QED  BY <1>2, <1>3, <1>4, <1>5, <1>6 DEF IInv

\* IInv is an invariant: a step is a push, a pop, a pop of the empty ring, the
\* destruction or a stutter.
LEMMA Invariant == Spec => []IInv
<1>1. Init => IInv  BY InitInvariant
<1>2. IInv /\ [Next]_vars => IInv'
  <2> SUFFICES ASSUME IInv, [Next]_vars PROVE IInv'
      OBVIOUS
  <2>1. ASSUME NEW x \in Item, Push(x) PROVE IInv'  BY <2>1, PushInvariant
  <2>2. CASE Pop  BY <2>2, PopInvariant
  <2>3. CASE PopEmpty
    <3>1. /\ UNCHANGED <<ring, destroyed, pushed, popped, disposals>>
          /\ result' = ZeroItem
          BY <2>3 DEF PopEmpty
    <3> QED  BY <3>1 DEF IInv, TypeOK, SlotsHoldPushed, LiveHoldItems, IsLive,
                         SlotsUndisposed, PushedAccounted
  <2>4. CASE Destroy  BY <2>4, DestroyInvariant
  <2>5. CASE UNCHANGED vars
        BY <2>5 DEF vars, IInv, TypeOK, SlotsHoldPushed, LiveHoldItems, IsLive,
                    SlotsUndisposed, PushedAccounted
  <2> QED  BY <2>1, <2>2, <2>3, <2>4, <2>5 DEF Next
<1> QED  BY <1>1, <1>2, PTL DEF Spec
-----------------------------------------------------------------------------
(* The live items as a sequence *)

\* The k-th live item sits k slots above tail; every live slot is one of these.
LEMMA LiveSlots ==
    ASSUME NEW r \in RingType
    PROVE  /\ Depth(r) \in 0 .. ItemCount - 1
           /\ \A k \in 1 .. Depth(r) : /\ (r.tail + k) % ItemCount \in Slot
                                       /\ IsLive(r, (r.tail + k) % ItemCount)
           /\ \A i \in Slot : IsLive(r, i) =>
                 \E k \in 1 .. Depth(r) : i = (r.tail + k) % ItemCount
<1> USE ItemCountAssumption DEF Slot
<1>1. r.head \in Slot /\ r.tail \in Slot  BY DEF RingType
<1>2. Depth(r) \in 0 .. ItemCount - 1  BY <1>1 DEF Depth
<1>3. \A k \in 0 .. ItemCount : (r.tail + k) % ItemCount =
          IF r.tail + k < ItemCount THEN r.tail + k ELSE r.tail + k - ItemCount
      BY <1>1, AboveTail
<1>4. ASSUME NEW k \in 1 .. Depth(r)
      PROVE  /\ (r.tail + k) % ItemCount \in Slot
             /\ IsLive(r, (r.tail + k) % ItemCount)
  <2>1. (r.tail + k) % ItemCount =
          IF r.tail + k < ItemCount THEN r.tail + k ELSE r.tail + k - ItemCount
        BY <1>2, <1>3
  <2> QED  BY <2>1, <1>1, <1>2 DEF Depth, IsLive
<1>5. ASSUME NEW i \in Slot, IsLive(r, i)
      PROVE  \E k \in 1 .. Depth(r) : i = (r.tail + k) % ItemCount
  <2> DEFINE k == IF r.tail < i THEN i - r.tail ELSE i + ItemCount - r.tail
  <2>1. k \in 1 .. Depth(r)  BY <1>1, <1>5 DEF Depth, IsLive
  <2>2. k \in 0 .. ItemCount  BY <2>1, <1>2
  <2>3. (r.tail + k) % ItemCount =
          IF r.tail + k < ItemCount THEN r.tail + k ELSE r.tail + k - ItemCount
        BY <2>2, <1>3
  <2>4. i = (r.tail + k) % ItemCount  BY <2>3, <1>1
  <2> QED  BY <2>1, <2>4
<1> QED  BY <1>2, <1>4, <1>5

LEMMA LiveIsSlots ==
    ASSUME ring \in RingType
    PROVE  Live = {ring.buffer[i] : i \in {j \in Slot : IsLive(ring, j)}}
<1>1. \A k \in 1 .. Depth(ring) :
          LiveItems(ring)[k] = ring.buffer[(ring.tail + k) % ItemCount]
      BY DEF LiveItems
<1> QED  BY <1>1, LiveSlots DEF Live

-----------------------------------------------------------------------------
(* The theorems *)

\* Every reachable state is well-typed: head and tail never leave the array,
\* for any number of slots, pushes and pops.
THEOREM TypeCorrect == Spec => []TypeOK
BY Invariant, PTL DEF IInv

\* An item that can still be popped was never handed to the deallocator.
THEOREM LiveItemsIntact == Spec => []LiveNeverDisposed
<1>1. IInv => LiveNeverDisposed
  <2> SUFFICES ASSUME IInv, ~destroyed, NEW x \in Live PROVE x \notin Disposed
      BY DEF LiveNeverDisposed
  <2>1. ring \in RingType  BY DEF IInv, TypeOK, RingType
  <2>2. PICK i \in Slot : x = ring.buffer[i]  BY <2>1, LiveIsSlots
  <2> QED  BY <2>2 DEF IInv, SlotsUndisposed, Disposed
<1> QED  BY <1>1, Invariant, PTL

\* The deallocator runs at most once for each item, destroy() included.
THEOREM NoDoubleDisposal == Spec => []DisposedAtMostOnce
<1>1. IInv => DisposedAtMostOnce
      BY DEF IInv, SlotsUndisposed, DisposedAtMostOnce
<1> QED  BY <1>1, Invariant, PTL

\* Nothing that was pushed is lost without having been popped or disposed of,
\* but for the one evicted item that waits at tail.
THEOREM NothingForgotten == Spec => []EvictedIsDisposed
<1>1. IInv => EvictedIsDisposed
  <2> SUFFICES ASSUME IInv, NEW x \in pushed
               PROVE  x \in popped \cup Disposed
                            \cup (IF destroyed THEN {}
                                  ELSE Live \cup {ring.buffer[ring.tail]})
      BY DEF EvictedIsDisposed
  <2>1. ring \in RingType /\ x \in Item  BY DEF IInv, TypeOK, RingType
  <2>2. CASE disposals[x] > 0  BY <2>1, <2>2 DEF Disposed
  <2>3. CASE x \in popped  BY <2>3
  <2>4. CASE ~destroyed /\ \E i \in Slot : /\ ring.buffer[i] = x
                                           /\ IsLive(ring, i) \/ i = ring.tail
        BY <2>1, <2>4, LiveIsSlots
  <2> QED  BY <2>2, <2>3, <2>4 DEF IInv, PushedAccounted
<1> QED  BY <1>1, Invariant, PTL
-----------------------------------------------------------------------------
(* The ring implements the bounded stack *)

Value == Item \cup {ZeroItem}

\* The live items form a sequence of Depth(r) values.
LEMMA LiveItemsSeq ==
    ASSUME NEW r \in RingType
    PROVE  /\ LiveItems(r) \in Seq(Value)
           /\ Len(LiveItems(r)) = Depth(r)
           /\ Depth(r) \in 0 .. ItemCount - 1
           /\ \A k \in 1 .. Depth(r) :
                 LiveItems(r)[k] = r.buffer[IF r.tail + k < ItemCount
                                            THEN r.tail + k
                                            ELSE r.tail + k - ItemCount]
<1>1. Depth(r) \in 0 .. ItemCount - 1 /\ Depth(r) \in Nat
      BY LiveSlots, ItemCountAssumption
<1>2. ASSUME NEW k \in 1 .. Depth(r)
      PROVE  /\ (r.tail + k) % ItemCount =
                  (IF r.tail + k < ItemCount THEN r.tail + k ELSE r.tail + k - ItemCount)
             /\ r.buffer[(r.tail + k) % ItemCount] \in Value
  <2>1. k \in 0 .. ItemCount /\ r.tail \in Slot
        BY <1>1, ItemCountAssumption DEF RingType
  <2> QED  BY <2>1, AboveTail, LiveSlots DEF RingType, Value
<1>3. LiveItems(r) \in [1 .. Depth(r) -> Value]
      BY <1>2 DEF LiveItems
<1>4. LiveItems(r) \in Seq(Value) /\ Len(LiveItems(r)) = Depth(r)
      BY <1>1, <1>3
<1> QED  BY <1>1, <1>2, <1>4 DEF LiveItems

\* A push below the capacity appends; at the capacity it also drops the oldest.
LEMMA PushLiveItems ==
    ASSUME NEW r \in RingType, NEW x \in Item
    PROVE  LiveItems(PushItem(r, x)) =
             IF Len(LiveItems(r)) < ItemCount - 1
             THEN Append(LiveItems(r), x) ELSE Append(Tail(LiveItems(r)), x)
<1> DEFINE q == PushItem(r, x)
           L == LiveItems(r)
           M == LiveItems(q)
<1> USE ItemCountAssumption
<1>1. /\ q \in RingType
      /\ q.head = (IF r.head = ItemCount - 1 THEN 0 ELSE r.head + 1)
      /\ q.tail = (IF q.head = r.tail
                   THEN (IF r.tail = ItemCount - 1 THEN 0 ELSE r.tail + 1) ELSE r.tail)
      /\ \A i \in Slot : q.buffer[i] = (IF i = q.head THEN x ELSE r.buffer[i])
      /\ r.head \in 0 .. ItemCount - 1 /\ r.tail \in 0 .. ItemCount - 1
  <2>1. r.head \in Slot /\ r.tail \in Slot /\ r.buffer \in [Slot -> Value]
        BY DEF RingType, Value
  <2>2. /\ Succ(r.head) = (IF r.head = ItemCount - 1 THEN 0 ELSE r.head + 1)
        /\ Succ(r.tail) = (IF r.tail = ItemCount - 1 THEN 0 ELSE r.tail + 1)
        BY <2>1, SuccValue
  <2>3. /\ q \in RingType
        /\ q.head = Succ(r.head)
        /\ q.tail = (IF Succ(r.head) = r.tail THEN Succ(r.tail) ELSE r.tail)
        /\ q.buffer = [r.buffer EXCEPT ![Succ(r.head)] = x]
        BY PushItemFields
  <2>4. \A i \in Slot : q.buffer[i] = (IF i = q.head THEN x ELSE r.buffer[i])
        BY <2>1, <2>3
  <2> HIDE DEF q
  <2> QED  BY <2>1, <2>2, <2>3, <2>4 DEF Slot
<1>2. /\ L \in Seq(Value) /\ Len(L) = Depth(r) /\ Depth(r) \in 0 .. ItemCount - 1
      /\ \A k \in 1 .. Depth(r) :
            L[k] = r.buffer[IF r.tail + k < ItemCount THEN r.tail + k
                                                      ELSE r.tail + k - ItemCount]
      BY LiveItemsSeq
<1>3. /\ M \in Seq(Value) /\ Len(M) = Depth(q) /\ Depth(q) \in 0 .. ItemCount - 1
      /\ \A k \in 1 .. Depth(q) :
            M[k] = q.buffer[IF q.tail + k < ItemCount THEN q.tail + k
                                                      ELSE q.tail + k - ItemCount]
      BY <1>1, LiveItemsSeq
<1>4. x \in Value  BY DEF Value
<1> HIDE DEF L, M, q
<1>5. CASE Depth(r) < ItemCount - 1
  <2>1. q.tail = r.tail /\ Depth(q) = Depth(r) + 1
        BY <1>1, <1>5 DEF Depth
  <2>2. /\ Append(L, x) \in Seq(Value)
        /\ Len(Append(L, x)) = Depth(r) + 1
        /\ \A k \in 1 .. Depth(r) : Append(L, x)[k] = L[k]
        /\ Append(L, x)[Depth(r) + 1] = x
        BY <1>2, <1>4, AppendProperties
  <2>3. ASSUME NEW k \in 1 .. Depth(r) + 1 PROVE M[k] = Append(L, x)[k]
    <3> DEFINE i == IF r.tail + k < ItemCount THEN r.tail + k ELSE r.tail + k - ItemCount
    <3>1. i \in Slot  BY <1>1, <1>2 DEF Slot
    <3>2. M[k] = IF i = q.head THEN x ELSE r.buffer[i]
          BY <1>1, <1>3, <2>1, <3>1
    <3>3. i = q.head <=> k = Depth(r) + 1
      <4>1. CASE r.head >= r.tail  BY <4>1, <1>1, <1>5 DEF Depth
      <4>2. CASE r.head < r.tail  BY <4>2, <1>1, <1>5 DEF Depth
      <4> QED  BY <4>1, <4>2, <1>1
    <3>4. CASE k = Depth(r) + 1  BY <3>2, <3>3, <3>4, <2>2
    <3>5. CASE k # Depth(r) + 1
      <4>1. k \in 1 .. Depth(r)  BY <3>5, <1>2
      <4> QED  BY <4>1, <3>2, <3>3, <3>5, <2>2, <1>2
    <3> QED  BY <3>4, <3>5
  <2>4. M = Append(L, x)
        BY <1>3, <2>1, <2>2, <2>3, SeqEqual
  <2> QED  BY <2>4, <1>2, <1>5 DEF L, M, q
<1>6. CASE Depth(r) = ItemCount - 1
  <2>1. /\ q.tail = (IF r.tail = ItemCount - 1 THEN 0 ELSE r.tail + 1)
        /\ q.head = r.tail
        /\ Depth(q) = Depth(r)
        BY <1>1, <1>6 DEF Depth
  <2>2. L # <<>>  BY <1>2, <1>6, EmptySeq
  <2>3. /\ Tail(L) \in Seq(Value)
        /\ Len(Tail(L)) = Depth(r) - 1
        /\ \A k \in 1 .. Depth(r) - 1 : Tail(L)[k] = L[k + 1]
        BY <1>2, <2>2, HeadTailProperties
  <2>4. /\ Append(Tail(L), x) \in Seq(Value)
        /\ Len(Append(Tail(L), x)) = Depth(r)
        /\ \A k \in 1 .. Depth(r) - 1 : Append(Tail(L), x)[k] = L[k + 1]
        /\ Append(Tail(L), x)[Depth(r)] = x
        BY <1>2, <1>4, <2>3, AppendProperties
  <2>5. ASSUME NEW k \in 1 .. Depth(r) PROVE M[k] = Append(Tail(L), x)[k]
    <3> DEFINE i == IF q.tail + k < ItemCount THEN q.tail + k ELSE q.tail + k - ItemCount
    <3>1. i \in Slot  BY <1>1, <1>2, <2>1 DEF Slot
    <3>2. M[k] = IF i = q.head THEN x ELSE r.buffer[i]
          BY <1>1, <1>3, <2>1, <3>1
    <3>3. i = q.head <=> k = Depth(r)
          BY <1>1, <1>2, <1>6, <2>1
    <3>4. CASE k = Depth(r)  BY <3>2, <3>3, <3>4, <2>4
    <3>5. CASE k # Depth(r)
      <4>1. k \in 1 .. Depth(r) - 1 /\ k + 1 \in 1 .. Depth(r)  BY <3>5, <1>2
      <4>2. L[k + 1] = r.buffer[IF r.tail + (k + 1) < ItemCount THEN r.tail + (k + 1)
                                ELSE r.tail + (k + 1) - ItemCount]
            BY <4>1, <1>2
      <4>3. i = IF r.tail + (k + 1) < ItemCount THEN r.tail + (k + 1)
                                ELSE r.tail + (k + 1) - ItemCount
        <5>1. CASE r.tail = ItemCount - 1  BY <5>1, <1>1, <2>1, <4>1, <1>6
        <5>2. CASE r.tail # ItemCount - 1  BY <5>2, <1>1, <2>1, <4>1, <1>6
        <5> QED  BY <5>1, <5>2
      <4>4. M[k] = r.buffer[i]  BY <3>2, <3>3, <3>5
      <4>5. M[k] = L[k + 1]  BY <4>2, <4>3, <4>4
      <4> QED  BY <4>1, <4>5, <2>4
    <3> QED  BY <3>4, <3>5
  <2>6. M = Append(Tail(L), x)
        BY <1>3, <2>1, <2>4, <2>5, SeqEqual
  <2> QED  BY <2>6, <1>2, <1>6 DEF L, M, q
<1> QED  BY <1>2, <1>5, <1>6

\* A pop of a ring that is not empty takes the last live item, the one at head.
LEMMA PopLiveItems ==
    ASSUME NEW r \in RingType, ~IsEmpty(r)
    PROVE  /\ LiveItems(r) # <<>>
           /\ TopItem(r) = LiveItems(r)[Len(LiveItems(r))]
           /\ LiveItems(DropTop(r)) = SubSeq(LiveItems(r), 1, Len(LiveItems(r)) - 1)
<1> DEFINE q == DropTop(r)
           L == LiveItems(r)
           M == LiveItems(q)
<1> USE ItemCountAssumption
<1>1. /\ q \in RingType
      /\ q.head = (IF r.head = 0 THEN ItemCount - 1 ELSE r.head - 1)
      /\ q.tail = r.tail /\ q.buffer = r.buffer
      /\ r.head \in 0 .. ItemCount - 1 /\ r.tail \in 0 .. ItemCount - 1
      /\ r.head # r.tail
      BY DropTopFields DEF Pred, RingType, Slot, IsEmpty
<1>2. /\ L \in Seq(Value) /\ Len(L) = Depth(r) /\ Depth(r) \in 0 .. ItemCount - 1
      /\ \A k \in 1 .. Depth(r) :
            L[k] = r.buffer[IF r.tail + k < ItemCount THEN r.tail + k
                                                      ELSE r.tail + k - ItemCount]
      BY LiveItemsSeq
<1>3. /\ M \in Seq(Value) /\ Len(M) = Depth(q) /\ Depth(q) \in 0 .. ItemCount - 1
      /\ \A k \in 1 .. Depth(q) :
            M[k] = q.buffer[IF q.tail + k < ItemCount THEN q.tail + k
                                                      ELSE q.tail + k - ItemCount]
      BY <1>1, LiveItemsSeq
<1>4. TopItem(r) = r.buffer[r.head]  BY DEF TopItem
<1> HIDE DEF L, M, q
<1>5. Depth(r) >= 1 /\ Depth(q) = Depth(r) - 1
      BY <1>1 DEF Depth
<1>6. L # <<>>  BY <1>2, <1>5, EmptySeq
<1>7. TopItem(r) = L[Len(L)]
  <2>1. r.head = IF r.tail + Depth(r) < ItemCount THEN r.tail + Depth(r)
                                                  ELSE r.tail + Depth(r) - ItemCount
        BY <1>1 DEF Depth
  <2>2. Depth(r) \in 1 .. Depth(r)  BY <1>2, <1>5
  <2> QED  BY <2>1, <2>2, <1>2, <1>4
<1>8. /\ SubSeq(L, 1, Len(L) - 1) \in Seq(Value)
      /\ Len(SubSeq(L, 1, Len(L) - 1)) = Depth(r) - 1
      /\ \A k \in 1 .. Depth(r) - 1 : SubSeq(L, 1, Len(L) - 1)[k] = L[k]
  <2>1. \A k \in 1 .. Depth(r) - 1 : L[k] \in Value
        BY <1>2, ElementOfSeq
  <2> QED  BY <2>1, <1>2, <1>5, SubSeqProperties
<1>9. \A k \in 1 .. Depth(q) : M[k] = SubSeq(L, 1, Len(L) - 1)[k]
  <2> SUFFICES ASSUME NEW k \in 1 .. Depth(q)
               PROVE  M[k] = SubSeq(L, 1, Len(L) - 1)[k]
      OBVIOUS
  <2>1. k \in 1 .. Depth(r) - 1 /\ k \in 1 .. Depth(r)  BY <1>2, <1>5
  <2>2. M[k] = L[k]  BY <2>1, <1>1, <1>2, <1>3
  <2> QED  BY <2>1, <2>2, <1>8
<1>10. M = SubSeq(L, 1, Len(L) - 1)
      BY <1>3, <1>5, <1>8, <1>9, SeqEqual
<1> QED  BY <1>6, <1>7, <1>10 DEF L, M, q

\* The ring of ItemCount slots is a stack that keeps the ItemCount - 1 most
\* recent items: every push and pop of the code is a push and pop of that stack.
THEOREM RingImplementsUndoStack == Spec => ImplementsUndoStack
<1> DEFINE St == IF destroyed THEN <<>> ELSE LiveItems(ring)
<1>1. Init => Promise!Init
  <2> SUFFICES ASSUME Init PROVE Promise!Init
      OBVIOUS
  <2>1. ring \in RingType  BY InitRingType DEF Init
  <2>2. Depth(ring) = 0  BY ItemCountAssumption DEF Init, InitRing, Depth
  <2>3. LiveItems(ring) = <<>>  BY <2>1, <2>2, LiveItemsSeq, EmptySeq
  <2> QED  BY <2>3 DEF Init, Promise!Init
<1>2. IInv /\ [Next]_vars => [Promise!Next]_(Promise!vars)
  <2> SUFFICES ASSUME IInv, [Next]_vars
               PROVE  Promise!Next \/ UNCHANGED <<St, result, destroyed>>
      BY DEF Promise!vars
  <2>0. ring \in RingType  BY DEF IInv, TypeOK, RingType
  <2>1. ASSUME NEW x \in Item, Push(x) PROVE Promise!Next
    <3>1. Promise!Push(x)
          BY <2>0, <2>1, PushLiveItems DEF Push, Promise!Push
    <3> QED  BY <3>1 DEF Promise!Next
  <2>2. CASE Pop
    <3>1. Promise!Pop
          BY <2>0, <2>2, PopLiveItems DEF Pop, Promise!Pop
    <3> QED  BY <3>1 DEF Promise!Next
  <2>3. CASE PopEmpty
    <3>1. Depth(ring) = 0
          BY <2>0, <2>3 DEF PopEmpty, IsEmpty, Depth, RingType, Slot
    <3>2. LiveItems(ring) = <<>>  BY <2>0, <3>1, LiveItemsSeq, EmptySeq
    <3>3. Promise!PopEmpty
          BY <2>3, <3>2 DEF PopEmpty, Promise!PopEmpty
    <3> QED  BY <3>3 DEF Promise!Next
  <2>4. CASE Destroy
    <3>1. Promise!Close  BY <2>4 DEF Destroy, Promise!Close
    <3> QED  BY <3>1 DEF Promise!Next
  <2>5. CASE UNCHANGED vars  BY <2>5 DEF vars
  <2> QED  BY <2>1, <2>2, <2>3, <2>4, <2>5 DEF Next
<1> QED  BY <1>1, <1>2, Invariant, PTL DEF Spec, ImplementsUndoStack, Promise!Spec
=============================================================================
