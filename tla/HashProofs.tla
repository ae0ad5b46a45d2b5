----------------------------- MODULE HashProofs -----------------------------
(***************************************************************************)
(* Proofs about HashTable, for every set of keys, every hash function,     *)
(* every initial capacity and every number of puts.                        *)
(*                                                                         *)
(* That lookups find what was put needs three facts beyond the types: some *)
(* bucket is empty, every member has a bucket with no empty one before it  *)
(* on its probe, and while the table is being doubled this holds in the    *)
(* new buckets for the keys copied so far.  The refinement adds what holds *)
(* while no key was stored twice: no two buckets have the same key, and    *)
(* every key in a bucket is a member.                                      *)
(***************************************************************************)
EXTENDS HashTable, FiniteSetTheorems, WellFoundedInduction, TLAPS

Sizes == Nat \ {0}

-----------------------------------------------------------------------------
(* Arithmetic of the probe *)

\* One lap and no more: the remainder by comparison.
LEMMA LapRemainder ==
    ASSUME NEW n \in Sizes, NEW x \in 0 .. 2 * n - 1
    PROVE  x % n = (IF x < n THEN x ELSE x - n)
<1> USE DEF Sizes
<1>1. CASE x < n
  <2>1. x \in 0 .. n - 1  BY <1>1
  <2> QED  BY <1>1, <2>1
<1>2. CASE x >= n
  <2>1. x \in n .. 2 * n - 1  BY <1>2
  <2> QED  BY <1>2, <2>1
<1> QED  BY <1>1, <1>2

\* A probe starts inside the table.
LEMMA HomeInTable ==
    ASSUME NEW n \in Sizes, NEW h \in HashFunction, NEW k \in Key
    PROVE  Home(h, k, n) \in 0 .. n - 1
<1>1. h[k] \in Nat  BY HashValueAssumption DEF HashFunction
<1>2. \A x \in Nat : x % n \in 0 .. n - 1  BY DEF Sizes
<1> QED  BY <1>1, <1>2 DEF Home

\* The bucket d further on, going round.
LEMMA AtValue ==
    ASSUME NEW n \in Sizes, NEW h \in HashFunction, NEW k \in Key, NEW d \in 0 .. n - 1
    PROVE  /\ At(h, k, n, d) = (IF Home(h, k, n) + d < n THEN Home(h, k, n) + d
                                ELSE Home(h, k, n) + d - n)
           /\ At(h, k, n, d) \in 0 .. n - 1
<1> DEFINE s == Home(h, k, n)
           x == s + d
<1>1. s \in 0 .. n - 1  BY HomeInTable
<1> HIDE DEF s
<1>2. x \in 0 .. 2 * n - 1  BY <1>1 DEF Sizes
<1> HIDE DEF x
<1>3. x % n = (IF x < n THEN x ELSE x - n)  BY <1>2, LapRemainder
<1>4. (IF x < n THEN x ELSE x - n) \in 0 .. n - 1  BY <1>1 DEF x, Sizes
<1>5. At(h, k, n, d) = x % n  BY DEF At, s, x
<1>6. At(h, k, n, d) = (IF x < n THEN x ELSE x - n)  BY <1>3, <1>5
<1>7. At(h, k, n, d) \in 0 .. n - 1  BY <1>4, <1>6
<1>8. n \in Int /\ d \in Int  BY DEF Sizes
<1> QED  BY <1>1, <1>6, <1>7, <1>8 DEF s, x

\* A probe that never stops sees every bucket.
LEMMA ProbeSeesAll ==
    ASSUME NEW n \in Sizes, NEW h \in HashFunction, NEW k \in Key, NEW j \in 0 .. n - 1
    PROVE  \E d \in 0 .. n - 1 : At(h, k, n, d) = j
<1> DEFINE s == Home(h, k, n)
           d == IF j >= s THEN j - s ELSE j - s + n
<1>1. s \in 0 .. n - 1  BY HomeInTable
<1> HIDE DEF s
<1>2. d \in 0 .. n - 1 /\ (IF s + d < n THEN s + d ELSE s + d - n) = j
  BY <1>1 DEF Sizes
<1> HIDE DEF d
<1>3. At(h, k, n, d) = (IF s + d < n THEN s + d ELSE s + d - n)
  BY <1>2, AtValue DEF s
<1> QED  BY <1>2, <1>3

\* The next distance: one further, or home again.
LEMMA NextDistance ==
    ASSUME NEW n \in Sizes, NEW d \in 0 .. n - 1
    PROVE  (d + 1) % n \in {0, d + 1} \cap (0 .. n - 1)
<1> DEFINE x == d + 1
<1>1. x \in 0 .. 2 * n - 1  BY DEF Sizes
<1> HIDE DEF x
<1>2. x % n = (IF x < n THEN x ELSE x - n)  BY <1>1, LapRemainder
<1>3. (IF x < n THEN x ELSE x - n) \in {0, x} \cap (0 .. n - 1)  BY DEF x, Sizes
<1>4. x % n \in {0, x} \cap (0 .. n - 1)  BY <1>2, <1>3
<1> QED  BY <1>4 DEF x

\* The load factor is an integer: it counts whole tables.
LEMMA OverfullWhenFull ==
    ASSUME NEW n \in Sizes, NEW used \in Nat
    PROVE  Overfull(used, n) <=> used >= n
<1>1. CASE used < n
  <2>1. used \div n = 0  BY <1>1 DEF Sizes
  <2> QED  BY <1>1, <2>1 DEF Overfull, Sizes
<1>2. CASE used >= n
  <2>1. used \div n >= 1  BY <1>2 DEF Sizes
  <2>2. used \div n \in Int  BY DEF Sizes
  <2> QED  BY <1>2, <2>1, <2>2 DEF Overfull, Sizes
<1> QED  BY <1>1, <1>2 DEF Sizes

\* A non-empty set of distances has a least one.
LEMMA LeastElement ==
    ASSUME NEW T, T \subseteq Nat, T # {}
    PROVE  \E x \in T : \A y \in 0 .. x - 1 : y \notin T
<1>1. PICK x \in T : \A y \in T : ~ (<<y, x>> \in OpToRel(<, Nat))
  BY NatLessThanWellFounded, WFMin
<1>2. \A y \in T : ~ (y < x)
  BY <1>1 DEF OpToRel
<1>3. x \in Nat  OBVIOUS
<1>4. \A y \in 0 .. x - 1 : y < x  BY <1>3
<1> QED  BY <1>2, <1>4
-----------------------------------------------------------------------------
(* The buckets *)

Array(n) == [0 .. n - 1 -> Bucket]
Values == Value \cup {NoValue}

\* calloc() leaves an array with nothing in it.
LEMMA NewBucketsEmpty ==
    ASSUME NEW n \in Nat
    PROVE  NewBuckets(n) \in Array(n) /\ Filled(NewBuckets(n), n) = {}
BY DEF NewBuckets, Array, Bucket, Filled

\* Not more buckets are filled than there are, and when fewer are one is empty.
LEMMA FilledFinite ==
    ASSUME NEW n \in Sizes, NEW b \in Array(n)
    PROVE  /\ IsFiniteSet(Filled(b, n)) /\ Cardinality(Filled(b, n)) \in Nat
           /\ Cardinality(Filled(b, n)) < n => \E j \in 0 .. n - 1 : b[j].key = EMPTY
<1>1. n - 1 \in Int /\ n - 1 >= 0  BY DEF Sizes
<1>2. IsFiniteSet(0 .. n - 1) /\ Cardinality(0 .. n - 1) = n
  <2>1. Cardinality(0 .. n - 1) = (IF 0 > n - 1 THEN 0 ELSE (n - 1) - 0 + 1)  BY <1>1, FS_Interval
  <2> QED  BY <1>1, <2>1, FS_Interval DEF Sizes
<1>3. IsFiniteSet(Filled(b, n))
  <2>1. Filled(b, n) \in SUBSET (0 .. n - 1)  BY DEF Filled
  <2> QED  BY <1>2, <2>1, FS_Subset
<1>4. Cardinality(Filled(b, n)) \in Nat  BY <1>3, FS_CardinalityType
<1>5. ASSUME Cardinality(Filled(b, n)) < n, \A j \in 0 .. n - 1 : b[j].key # EMPTY
      PROVE  FALSE
  <2>1. Filled(b, n) = 0 .. n - 1  BY <1>5 DEF Filled
  <2> QED  BY <1>2, <1>4, <1>5, <2>1 DEF Sizes
<1> QED  BY <1>3, <1>4, <1>5

\* Where the loops of put() stop: no bucket before d stops them, the one at d does.
StopsAt(b, n, h, k, d) ==
    /\ d \in 0 .. n - 1 /\ b[At(h, k, n, d)].key \in PutStops(k)
    /\ \A e \in 0 .. d - 1 : b[At(h, k, n, e)].key \notin PutStops(k)

\* With an empty bucket they stop.
LEMMA PutPlaceExists ==
    ASSUME NEW n \in Sizes, NEW h \in HashFunction, NEW k \in Key, NEW b,
           NEW j \in 0 .. n - 1, b[j].key = EMPTY
    PROVE  StopsAt(b, n, h, k, PutPlace(b, n, h, k))
<1> DEFINE T == {d \in 0 .. n - 1 : b[At(h, k, n, d)].key \in PutStops(k)}
<1>1. PICK d \in 0 .. n - 1 : At(h, k, n, d) = j  BY ProbeSeesAll
<1>2. d \in T  BY <1>1 DEF PutStops
<1>3. T \subseteq Nat  BY DEF Sizes
<1>4. PICK x \in T : \A y \in 0 .. x - 1 : y \notin T  BY <1>2, <1>3, LeastElement
<1>5. \A y \in 0 .. x - 1 : y \in 0 .. n - 1  BY DEF Sizes
<1>6. \E p \in 0 .. n - 1 : /\ b[At(h, k, n, p)].key \in PutStops(k)
                            /\ \A e \in 0 .. p - 1 : b[At(h, k, n, e)].key \notin PutStops(k)
  BY <1>4, <1>5
<1> QED  BY <1>6 DEF StopsAt, PutPlace

\* A key and its value go to bucket x.
Written(b, x, k, v) == [b EXCEPT ![x] = [key |-> k, value |-> v]]

\* A key is stored where put() stops: it can be found from then on, and so can
\* every key that could be found before.
LEMMA StoreKeepsPlaces ==
    ASSUME NEW n \in Sizes, NEW h \in HashFunction, NEW k \in Key, NEW v \in Values,
           NEW b \in Array(n), NEW d, StopsAt(b, n, h, k, d), NEW c,
           c = Written(b, At(h, k, n, d), k, v)
    PROVE  /\ c \in Array(n)
           /\ Places(c, n, h, k) # {}
           /\ \A m \in Key : Places(b, n, h, m) # {} => Places(c, n, h, m) # {}
           /\ Filled(c, n) \subseteq Filled(b, n) \cup {At(h, k, n, d)}
           /\ b[At(h, k, n, d)].key = k => Filled(c, n) = Filled(b, n)
<1> DEFINE x == At(h, k, n, d)
<1>1. d \in 0 .. n - 1 /\ d \in Int /\ n \in Int  BY DEF StopsAt, Sizes
<1>2. x \in 0 .. n - 1  BY <1>1, AtValue
<1> HIDE DEF x
<1>3. k # EMPTY /\ k # DELETED  BY MarksAssumption
<1>4. c \in Array(n)  BY <1>2 DEF Written, Array, Bucket, Values, x
<1>5. c[x].key = k /\ \A y \in 0 .. n - 1 : y # x => c[y] = b[y]
  BY <1>2 DEF Written, Array, x
<1>6. \A y \in 0 .. n - 1 : b[y].key # EMPTY => c[y].key # EMPTY  BY <1>3, <1>5
<1>7. \A m \in Key, e \in 0 .. n - 1 : At(h, m, n, e) \in 0 .. n - 1  BY AtValue
<1>8. d \in Places(c, n, h, k)
  <2>1. \A e \in 0 .. d - 1 : e \in 0 .. n - 1  BY <1>1
  <2>2. \A e \in 0 .. d - 1 : c[At(h, k, n, e)].key # EMPTY
    BY <1>6, <1>7, <2>1 DEF StopsAt, PutStops
  <2> QED  BY <1>1, <1>5, <2>2 DEF Places, x
<1>9. ASSUME NEW m \in Key, NEW p \in Places(b, n, h, m), m # k
      PROVE  p \in Places(c, n, h, m)
  <2>1. /\ p \in 0 .. n - 1 /\ b[At(h, m, n, p)].key = m
        /\ \A e \in 0 .. p - 1 : b[At(h, m, n, e)].key # EMPTY
    BY DEF Places
  <2>2. At(h, m, n, p) # x
    BY <1>9, <2>1, MarksAssumption DEF StopsAt, PutStops, x
  <2>3. c[At(h, m, n, p)].key = m  BY <1>5, <1>7, <2>1, <2>2
  <2>4. \A e \in 0 .. p - 1 : e \in 0 .. n - 1  BY <1>1, <2>1
  <2>5. \A e \in 0 .. p - 1 : c[At(h, m, n, e)].key # EMPTY  BY <1>6, <1>7, <2>1, <2>4
  <2> QED  BY <2>1, <2>3, <2>5 DEF Places
<1>10. Filled(c, n) \subseteq Filled(b, n) \cup {x}  BY <1>5 DEF Filled
<1>11. b[x].key = k => Filled(c, n) = Filled(b, n)  BY <1>2, <1>3, <1>5 DEF Filled
<1> QED  BY <1>4, <1>8, <1>9, <1>10, <1>11 DEF x

\* What remove_hashed() leaves in bucket x.
Tombstone(b, x) == [b EXCEPT ![x] = [key |-> DELETED, value |-> NoValue]]

\* A key is removed where it is found: the others can still be found, and the
\* bucket remains filled.
LEMMA TombstoneKeepsPlaces ==
    ASSUME NEW n \in Sizes, NEW h \in HashFunction, NEW b \in Array(n),
           NEW k \in Key, NEW x \in 0 .. n - 1, b[x].key = k, NEW c,
           c = Tombstone(b, x)
    PROVE  /\ c \in Array(n)
           /\ \A m \in Key \ {k} : Places(b, n, h, m) # {} => Places(c, n, h, m) # {}
           /\ Filled(c, n) = Filled(b, n)
<1>1. n \in Int  BY DEF Sizes
<1>2. c \in Array(n)  BY DEF Tombstone, Array, Bucket
<1>3. c[x].key = DELETED /\ \A y \in 0 .. n - 1 : y # x => c[y] = b[y]
  BY DEF Tombstone, Array
<1>4. k # EMPTY /\ DELETED # EMPTY  BY MarksAssumption
<1>5. \A y \in 0 .. n - 1 : b[y].key # EMPTY <=> c[y].key # EMPTY  BY <1>3, <1>4
<1>6. ASSUME NEW m \in Key \ {k}, NEW p \in Places(b, n, h, m)
      PROVE  p \in Places(c, n, h, m)
  <2>1. /\ p \in 0 .. n - 1 /\ b[At(h, m, n, p)].key = m
        /\ \A e \in 0 .. p - 1 : b[At(h, m, n, e)].key # EMPTY
    BY DEF Places
  <2>2. \A e \in 0 .. n - 1 : At(h, m, n, e) \in 0 .. n - 1  BY AtValue
  <2>3. c[At(h, m, n, p)].key = m  BY <1>3, <2>1, <2>2
  <2>4. \A e \in 0 .. p - 1 : e \in 0 .. n - 1  BY <1>1, <2>1
  <2>5. \A e \in 0 .. p - 1 : c[At(h, m, n, e)].key # EMPTY  BY <1>5, <2>1, <2>2, <2>4
  <2> QED  BY <2>1, <2>3, <2>5 DEF Places
<1>7. Filled(c, n) = Filled(b, n)  BY <1>5 DEF Filled
<1> QED  BY <1>2, <1>6, <1>7
-----------------------------------------------------------------------------
(* Type correctness *)

\* What the types say of a table whose probe is under way.
LEMMA ProbeTypes ==
    ASSUME TypeOK, phase = "probe"
    PROVE  /\ buckets_n \in Sizes /\ hash \in HashFunction /\ buckets \in Array(buckets_n)
           /\ call \in Call /\ call.key \in Key
           /\ call.op = "put" => call.value \in Values
           /\ index \in 0 .. buckets_n - 1 /\ buckets[index] \in Bucket
           /\ Here \in Key \cup {EMPTY, DELETED}
<1>1. /\ buckets_n \in Sizes /\ hash \in HashFunction /\ buckets \in Array(buckets_n)
      /\ call \in Call /\ dist \in 0 .. buckets_n - 1
  BY DEF TypeOK, Busy, Sizes, Array
<1>2. call.key \in Key  BY <1>1 DEF Call
<1>3. call.op = "put" => call.value \in Values  BY <1>1 DEF Call, Values
<1>4. index \in 0 .. buckets_n - 1  BY <1>1, <1>2, AtValue DEF index
<1>5. buckets[index] \in Bucket  BY <1>1, <1>4 DEF Array
<1>6. Here \in Key \cup {EMPTY, DELETED}  BY <1>5 DEF Here, Bucket
<1> QED  BY <1>1, <1>2, <1>3, <1>4, <1>5, <1>6

\* A new table has its types.
LEMMA InitTypeOK == Init => TypeOK
<1> SUFFICES ASSUME Init PROVE TypeOK  OBVIOUS
<1>1. buckets_n \in Sizes  BY CapacityAssumption DEF Init, Sizes
<1>2. buckets \in Array(buckets_n)  BY <1>1, NewBucketsEmpty DEF Init, Sizes
<1>3. dist \in 0 .. buckets_n - 1 /\ moved \in 0 .. buckets_n  BY <1>1 DEF Init, Sizes
<1> QED  BY <1>1, <1>2, <1>3 DEF Init, TypeOK, Busy, NotFound, Sizes, Array

\* A store keeps the array.
LEMMA StoreTypes ==
    ASSUME TypeOK, Probing({"put"}), Store
    PROVE  buckets' \in Array(buckets_n)
<1>1. phase = "probe" /\ call.op = "put"  BY DEF Probing
<1>2. buckets \in Array(buckets_n) /\ call.key \in Key /\ call.value \in Values
  BY <1>1, ProbeTypes
<1>3. [key |-> call.key, value |-> call.value] \in Bucket  BY <1>2 DEF Bucket, Values
<1> QED  BY <1>2, <1>3 DEF Store, Array

\* upsize_table() puts a key into an array that stays one.
LEMMA RehashTypes ==
    ASSUME TypeOK, Rehash
    PROVE  tmp' \in Array(2 * buckets_n)
<1> DEFINE n == 2 * buckets_n
           b == buckets[moved]
           v == IF type = "DICT" THEN buckets[0].value ELSE NoValue
<1>1. /\ buckets_n \in Sizes /\ buckets \in Array(buckets_n) /\ tmp \in Array(n)
      /\ moved \in 0 .. buckets_n - 1
  BY DEF TypeOK, Rehash, Sizes, Array
<1>2. 0 \in 0 .. buckets_n - 1  BY <1>1 DEF Sizes
<1>3. v \in Values /\ b \in Bucket  BY <1>1, <1>2 DEF Array, Bucket, Values
<1>4. tmp' = tmp \/ (b.key \in Key /\ tmp' = PutInto(tmp, n, hash, b.key, v))
  BY <1>3 DEF Rehash, Bucket
<1> HIDE DEF n, b, v
<1>5. CASE tmp' = tmp  BY <1>1, <1>5 DEF n
<1>6. CASE b.key \in Key /\ tmp' = PutInto(tmp, n, hash, b.key, v)
  <2>1. [key |-> b.key, value |-> v] \in Bucket  BY <1>3, <1>6 DEF Bucket, Values
  <2>2. tmp' \in Array(n)  BY <1>1, <1>6, <2>1 DEF PutInto, Array
  <2> QED  BY <2>2 DEF n
<1> QED  BY <1>4, <1>5, <1>6

\* put() ends idle or in upsize_table(), with a table twice the size at hand.
LEMMA AfterPutTypes ==
    ASSUME TypeOK, phase = "probe", NEW used \in Nat, AfterPut(used)
    PROVE  \/ /\ phase' = "upsize" /\ call' = call /\ tmp' = NewBuckets(2 * buckets_n)
              /\ tmp' \in Array(2 * buckets_n) /\ used >= buckets_n
           \/ phase' = "idle" /\ call' = NoCall /\ tmp' = tmp /\ used < buckets_n
<1>1. buckets_n \in Sizes  BY DEF TypeOK, Sizes
<1>2. 2 * buckets_n \in Nat  BY <1>1 DEF Sizes
<1>3. NewBuckets(2 * buckets_n) \in Array(2 * buckets_n)  BY <1>2, NewBucketsEmpty
<1>4. Overfull(used, buckets_n) <=> used >= buckets_n  BY <1>1, OverfullWhenFull
<1>5. CASE Overfull(used, buckets_n)  BY <1>3, <1>4, <1>5 DEF AfterPut
<1>6. CASE ~ Overfull(used, buckets_n)
  <2>1. used < buckets_n  BY <1>1, <1>4, <1>6 DEF Sizes
  <2> QED  BY <1>6, <2>1 DEF AfterPut
<1> QED  BY <1>5, <1>6

\* Every step keeps the types.
LEMMA StepTypeOK == TypeOK /\ [Next]_vars => TypeOK'
<1> SUFFICES ASSUME TypeOK, [Next]_vars PROVE TypeOK'  OBVIOUS
<1>0. buckets_n \in Sizes  BY DEF TypeOK, Sizes
<1>n. 0 \in 0 .. buckets_n - 1  BY <1>0 DEF Sizes
<1>a. NotFound \in [found : BOOLEAN, value : Values]  BY DEF NotFound, Values
<1>1. ASSUME NEW c \in Call, Calls(c), UNCHANGED <<type, hash>> PROVE TypeOK'
  BY <1>1, <1>a DEF Calls, TypeOK, Busy, table, upsize, Values
<1>2. CASE Destroy /\ UNCHANGED <<type, hash>>
  BY <1>2 DEF Destroy, TypeOK, Busy, table, upsize
<1>3. CASE Collide /\ UNCHANGED <<type, hash>>
  <2>1. dist' \in 0 .. buckets_n - 1
    <3>1. dist \in 0 .. buckets_n - 1 /\ dist' = (dist + 1) % buckets_n
      BY <1>3 DEF Collide, TypeOK
    <3> HIDE DEF TypeOK
    <3> QED  BY <1>0, <3>1, NextDistance
  <2> QED  BY <1>3, <2>1 DEF Collide, TypeOK, Busy, table, upsize
<1>4. CASE PutNew /\ UNCHANGED <<type, hash>>
  <2>1. phase = "probe" /\ Probing({"put"}) /\ Store /\ AfterPut(buckets_used + 1)
    BY <1>4 DEF PutNew, Probing
  <2>2. buckets_used + 1 \in Nat  BY DEF TypeOK
  <2>3. buckets' \in Array(buckets_n)  BY <2>1, StoreTypes
  <2>4. call.key \in Key /\ call \in Call  BY <2>1, ProbeTypes
  <2>5. \/ phase' = "upsize" /\ call' = call /\ tmp' \in Array(2 * buckets_n)
        \/ phase' = "idle" /\ call' = NoCall
    BY <2>1, <2>2, AfterPutTypes
  <2> QED  BY <1>4, <1>n, <2>2, <2>3, <2>4, <2>5 DEF PutNew, TypeOK, Busy, Array
<1>5. CASE PutAgain /\ UNCHANGED <<type, hash>>
  <2>1. phase = "probe" /\ Probing({"put"}) /\ Store /\ AfterPut(buckets_used)
    BY <1>5 DEF PutAgain, Probing
  <2>2. buckets_used \in Nat  BY DEF TypeOK
  <2>3. buckets' \in Array(buckets_n)  BY <2>1, StoreTypes
  <2>4. call.key \in Key /\ call \in Call  BY <2>1, ProbeTypes
  <2>5. \/ phase' = "upsize" /\ call' = call /\ tmp' \in Array(2 * buckets_n)
        \/ phase' = "idle" /\ call' = NoCall
    BY <2>1, <2>2, AfterPutTypes
  <2> QED  BY <1>5, <1>n, <2>2, <2>3, <2>4, <2>5 DEF PutAgain, TypeOK, Busy, Array
<1>6. CASE Hit /\ UNCHANGED <<type, hash>>
  <2>1. buckets[index] \in Bucket  BY <1>6, ProbeTypes DEF Hit, Probing
  <2>2. Found(buckets[index].value) \in [found : BOOLEAN, value : Values]
    BY <2>1 DEF Found, Bucket, Values
  <2> QED  BY <1>6, <1>n, <2>2 DEF Hit, Answers, TypeOK, Busy, table, upsize, Values
<1>7. CASE Miss /\ UNCHANGED <<type, hash>>
  BY <1>7, <1>n, <1>a DEF Miss, Answers, TypeOK, Busy, table, upsize, Values
<1>8. CASE RemoveHit /\ UNCHANGED <<type, hash>>
  <2>1. buckets \in Array(buckets_n)  BY DEF TypeOK, Array
  <2>2. [key |-> DELETED, value |-> NoValue] \in Bucket  BY DEF Bucket
  <2>3. buckets' \in Array(buckets_n)  BY <1>8, <2>1, <2>2 DEF RemoveHit, Cleared, Array
  <2>4. Found(NoValue) \in [found : BOOLEAN, value : Values]  BY DEF Found, Values
  <2> QED
    BY <1>8, <1>n, <2>3, <2>4 DEF RemoveHit, Cleared, Answers, TypeOK, Busy, upsize, Values, Array
<1>9. CASE Rehash /\ UNCHANGED <<type, hash>>
  <2>1. tmp' \in Array(2 * buckets_n)  BY <1>9, RehashTypes
  <2>2. moved' \in 0 .. buckets_n  BY <1>0, <1>9 DEF Rehash, TypeOK, Sizes
  <2> QED  BY <1>9, <2>1, <2>2 DEF Rehash, TypeOK, Busy, table, Array
<1>10. CASE Swap /\ UNCHANGED <<type, hash>>
  <2>1. 2 * buckets_n \in Nat \ {0} /\ dist \in 0 .. 2 * buckets_n - 1
    BY <1>0 DEF TypeOK, Sizes
  <2>2. 0 \in 0 .. 2 * buckets_n  BY <1>0 DEF Sizes
  <2> QED  BY <1>10, <2>1, <2>2 DEF Swap, TypeOK, Busy
<1>11. CASE UNCHANGED vars
  BY <1>11 DEF vars, table, upsize, TypeOK, Busy
<1>12. CASE Client /\ UNCHANGED <<type, hash>>
  <2>1. \A k \in Key : [op |-> "get", key |-> k] \in Call /\ [op |-> "remove", key |-> k] \in Call
    BY DEF Call
  <2>2. \A k \in Key, v \in Values : [op |-> "put", key |-> k, value |-> v] \in Call
    BY DEF Call, Values
  <2> QED  BY <1>1, <1>2, <1>12, <2>1, <2>2 DEF Client, Get, Remove, Put, Values
<1> QED
  BY <1>3, <1>4, <1>5, <1>6, <1>7, <1>8, <1>9, <1>10, <1>11, <1>12 DEF Next, Step

\* Every variable keeps its type, whatever the sequence of calls: the arrays have
\* the size that buckets_n says, and no index leaves them.
THEOREM TypeCorrect == Spec => []TypeOK
BY InitTypeOK, StepTypeOK, PTL DEF Spec
-----------------------------------------------------------------------------
(* The inductive invariant *)

\* A loop that is not under way has left no trace.
AtRest == (phase # "probe" => dist = 0) /\ (phase # "upsize" => moved = 0)

\* The count bounds the filled buckets; it reaches the size only on the way into
\* upsize_table(), which fills at most one bucket for each it has seen.
Counted ==
    IF phase = "upsize"
    THEN /\ buckets_used = buckets_n
         /\ Cardinality(Filled(tmp, 2 * buckets_n)) <= moved
    ELSE /\ buckets_used < buckets_n
         /\ Cardinality(Filled(buckets, buckets_n)) <= buckets_used

\* A probe has not passed a bucket that stops it.
PassedNone ==
    phase = "probe" =>
       \A e \in 0 .. dist - 1 : buckets[At(hash, call.key, buckets_n, e)].key \notin Stops

\* Every member has a place, and in upsize_table() one in the new buckets too once
\* the loop is past it.
Findable ==
    /\ \A k \in members : Places(buckets, buckets_n, hash, k) # {}
    /\ phase = "upsize" =>
          \A j \in 0 .. moved - 1 :
             buckets[j].key \in Key => Places(tmp, 2 * buckets_n, hash, buckets[j].key) # {}

IInv == TypeOK /\ AtRest /\ Counted /\ PassedNone /\ Findable

\* At most one bucket more.
LEMMA OneMore ==
    ASSUME NEW S, NEW T, NEW x, IsFiniteSet(T), S \subseteq T \cup {x}
    PROVE  Cardinality(S) \in Nat /\ Cardinality(S) <= Cardinality(T) + 1
<1>1. IsFiniteSet(T \cup {x}) /\ Cardinality(T) \in Nat
      /\ Cardinality(T \cup {x}) = (IF x \in T THEN Cardinality(T) ELSE Cardinality(T) + 1)
  BY FS_AddElement, FS_CardinalityType
<1>2. Cardinality(S) <= Cardinality(T \cup {x}) /\ IsFiniteSet(S)  BY <1>1, FS_Subset
<1>3. Cardinality(S) \in Nat  BY <1>2, FS_CardinalityType
<1> QED  BY <1>1, <1>2, <1>3

LEMMA InitIInv == Init => IInv
<1> SUFFICES ASSUME Init PROVE IInv  OBVIOUS
<1>1. TypeOK  BY InitTypeOK
<1>2. buckets_n \in Sizes  BY <1>1 DEF TypeOK, Sizes
<1>3. Filled(buckets, buckets_n) = {}  BY <1>2, NewBucketsEmpty DEF Init, Sizes
<1>4. Counted  BY <1>2, <1>3, FS_EmptySet DEF Counted, Init, Sizes
<1> QED  BY <1>1, <1>4 DEF IInv, AtRest, PassedNone, Findable, Init

\* A call begins, or a table is destroyed: nothing moves.
LEMMA ClientKeeps ==
    ASSUME IInv, UNCHANGED <<hash, table, upsize, members>>, dist' = 0,
           phase # "upsize", phase' # "upsize"
    PROVE  (AtRest /\ Counted /\ PassedNone /\ Findable)'
<1>1. moved' = 0  BY DEF IInv, AtRest, upsize
<1>2. \A e \in 0 .. dist' - 1 : FALSE  OBVIOUS
<1>3. Counted' /\ Findable'  BY DEF IInv, Counted, Findable, table, upsize
<1> QED  BY <1>1, <1>2, <1>3 DEF AtRest, PassedNone

\* The probe goes on past a bucket that does not stop it, or begins again.
LEMMA CollideKeeps ==
    ASSUME IInv, Collide, UNCHANGED <<type, hash>>
    PROVE  (AtRest /\ Counted /\ PassedNone /\ Findable)'
<1>1. phase = "probe" /\ phase' = "probe" /\ dist \in 0 .. buckets_n - 1 /\ buckets_n \in Sizes
      /\ TypeOK
  BY DEF IInv, TypeOK, Collide, Sizes
<1>2. dist' \in {0, dist + 1} \cap (0 .. buckets_n - 1)
  BY <1>1, NextDistance DEF Collide
<1>3. AtRest' /\ Counted' /\ Findable'
  BY <1>1 DEF IInv, Collide, AtRest, Counted, Findable, table, upsize
<1>4. Stops' = Stops  BY DEF Stops, Collide
<1>5. buckets[At(hash, call.key, buckets_n, dist)].key \notin Stops
  BY DEF Collide, Here, index
<1>6. \A e \in 0 .. dist' - 1 : e = dist \/ e \in 0 .. dist - 1
  <2>1. dist \in Nat  BY <1>1 DEF Sizes
  <2>2. CASE dist' = 0  BY <2>2
  <2>3. CASE dist' = dist + 1  BY <2>1, <2>3
  <2> QED  BY <1>2, <2>2, <2>3
<1>7. \A e \in 0 .. dist' - 1 : buckets[At(hash, call.key, buckets_n, e)].key \notin Stops
  BY <1>1, <1>5, <1>6 DEF IInv, PassedNone
<1>8. PassedNone'  BY <1>4, <1>7 DEF PassedNone, Collide, table
<1> QED  BY <1>3, <1>8

\* What a store does to the invariant, whether the bucket is new or not.
LEMMA StoreKeeps ==
    ASSUME IInv, Probing({"put"}), Here \in PutStops(call.key), Store,
           NEW used \in Nat, used = buckets_used + 1 \/ (used = buckets_used /\ Here = call.key),
           buckets_used' = used, UNCHANGED <<buckets_n, type, hash, moved>>, AfterPut(used),
           members' = members \cup {call.key}, dist' = 0
    PROVE  (AtRest /\ Counted /\ PassedNone /\ Findable)'
<1> DEFINE n == buckets_n
           k == call.key
           c == buckets'
<1>1. phase = "probe" /\ TypeOK /\ call.op = "put"  BY DEF Probing, IInv
<1>2. /\ n \in Sizes /\ hash \in HashFunction /\ buckets \in Array(n) /\ k \in Key
      /\ call.value \in Values /\ index \in 0 .. n - 1
  BY <1>1, ProbeTypes
<1>3. StopsAt(buckets, n, hash, k, dist)
  BY <1>1 DEF StopsAt, IInv, TypeOK, PassedNone, Stops, Here, index
<1>4. /\ c \in Array(n)
      /\ Places(c, n, hash, k) # {}
      /\ \A m \in Key : Places(buckets, n, hash, m) # {} => Places(c, n, hash, m) # {}
      /\ Filled(c, n) \subseteq Filled(buckets, n) \cup {index}
      /\ Here = k => Filled(c, n) = Filled(buckets, n)
  <2> DEFINE v == call.value
             d == dist
  <2>1. c = Written(buckets, At(hash, k, n, d), k, v)
    BY Zenon DEF Store, index, Written
  <2>a. v \in Values /\ StopsAt(buckets, n, hash, k, d)  BY <1>2, <1>3
  <2> HIDE DEF n, k, c, v, d
  <2>2. /\ c \in Array(n)
        /\ Places(c, n, hash, k) # {}
        /\ \A m \in Key : Places(buckets, n, hash, m) # {} => Places(c, n, hash, m) # {}
        /\ Filled(c, n) \subseteq Filled(buckets, n) \cup {At(hash, k, n, d)}
        /\ buckets[At(hash, k, n, d)].key = k => Filled(c, n) = Filled(buckets, n)
    BY <1>2, <2>a, <2>1, StoreKeepsPlaces
  <2>3. index = At(hash, k, n, d) /\ Here = buckets[At(hash, k, n, d)].key
    BY DEF index, Here, n, k, d
  <2> QED  BY <2>2, <2>3
<1>5. IsFiniteSet(Filled(buckets, n)) /\ Cardinality(Filled(buckets, n)) \in Nat
  BY <1>2, FilledFinite
<1>6. Cardinality(Filled(c, n)) <= used /\ Cardinality(Filled(c, n)) \in Nat
  <2>1. buckets_used \in Nat /\ Cardinality(Filled(buckets, n)) <= buckets_used
    BY <1>1 DEF IInv, Counted, TypeOK
  <2>2. CASE used = buckets_used + 1
    <3>1. Cardinality(Filled(c, n)) \in Nat
          /\ Cardinality(Filled(c, n)) <= Cardinality(Filled(buckets, n)) + 1
      BY <1>4, <1>5, OneMore
    <3> QED  BY <1>5, <2>1, <2>2, <3>1
  <2>3. CASE used = buckets_used /\ Here = call.key  BY <1>4, <1>5, <2>1, <2>3
  <2> QED  BY <2>2, <2>3
<1>7. buckets_used < n /\ buckets_used \in Nat /\ n \in Int
  BY <1>1, <1>2 DEF IInv, Counted, TypeOK, Sizes
<1>8. members \subseteq Key /\ \A m \in members : Places(buckets, n, hash, m) # {}
  BY <1>1 DEF IInv, TypeOK, Findable
<1>9. \A m \in members' : Places(c, n, hash, m) # {}  BY <1>4, <1>8
<1>10. moved' = 0  BY <1>1 DEF IInv, AtRest
<1>11. CASE /\ phase' = "upsize" /\ call' = call /\ tmp' = NewBuckets(2 * n)
            /\ used >= n
  <2>1. used = n  BY <1>7, <1>11
  <2>2. 2 * n \in Nat  BY <1>2 DEF Sizes
  <2>3. Cardinality(Filled(tmp', 2 * n)) = 0  BY <1>11, <2>2, NewBucketsEmpty, FS_EmptySet
  <2>4. Counted'  BY <1>10, <1>11, <2>1, <2>3 DEF Counted
  <2>5. Findable'  BY <1>9, <1>10, <1>11 DEF Findable
  <2> QED  BY <1>11, <2>4, <2>5 DEF AtRest, PassedNone
<1>12. CASE phase' = "idle" /\ call' = NoCall /\ tmp' = tmp /\ used < n
  <2>1. Counted'  BY <1>6, <1>12 DEF Counted
  <2>2. Findable'  BY <1>9, <1>12 DEF Findable
  <2> QED  BY <1>10, <1>12, <2>1, <2>2 DEF AtRest, PassedNone
<1> QED  BY <1>1, <1>11, <1>12, AfterPutTypes
\* A remove takes away one member, one place and no filled bucket.
LEMMA RemoveKeeps ==
    ASSUME IInv, RemoveHit, UNCHANGED <<type, hash>>
    PROVE  (AtRest /\ Counted /\ PassedNone /\ Findable)'
<1> DEFINE n == buckets_n
           k == call.key
           c == buckets'
           x == index
<1>1. phase = "probe" /\ TypeOK /\ phase' = "idle" /\ dist' = 0
  BY DEF RemoveHit, Probing, Answers, IInv
<1>2. /\ n \in Sizes /\ hash \in HashFunction /\ buckets \in Array(n) /\ k \in Key
      /\ x \in 0 .. n - 1
  BY <1>1, ProbeTypes
<1>3. c = Tombstone(buckets, x) /\ buckets[x].key = k
  BY Zenon DEF RemoveHit, Cleared, Here, Tombstone
<1>4. /\ \A m \in Key \ {k} : Places(buckets, n, hash, m) # {} => Places(c, n, hash, m) # {}
      /\ Filled(c, n) = Filled(buckets, n)
  <2> HIDE DEF n, k, c, x
  <2> QED  BY <1>2, <1>3, TombstoneKeepsPlaces
<1>5. Counted'
  BY <1>1, <1>4 DEF IInv, Counted, RemoveHit, Cleared
<1>6. members' = members \ {k} /\ members \subseteq Key
  BY <1>1 DEF RemoveHit, TypeOK
<1>7. \A m \in members : Places(buckets, n, hash, m) # {}  BY <1>1 DEF IInv, Findable
<1>8. \A m \in members' : Places(c, n, hash, m) # {}  BY <1>4, <1>6, <1>7
<1>9. buckets_n' = n  BY DEF RemoveHit
<1>10. Findable'  BY <1>1, <1>8, <1>9 DEF Findable
<1>11. moved' = 0  BY <1>1 DEF IInv, AtRest, RemoveHit, Answers, upsize
<1> QED  BY <1>1, <1>5, <1>10, <1>11 DEF AtRest, PassedNone

\* One turn of upsize_table()'s loop: the key of its bucket has a place now, the
\* keys before still have theirs.
LEMMA RehashKeeps ==
    ASSUME IInv, Rehash, UNCHANGED <<type, hash>>
    PROVE  (AtRest /\ Counted /\ PassedNone /\ Findable)'
<1> DEFINE n == 2 * buckets_n
           b == buckets[moved]
           v == IF type = "DICT" THEN buckets[0].value ELSE NoValue
           t == tmp
           u == tmp'
           d == PutPlace(t, n, hash, b.key)
           x == At(hash, b.key, n, d)
<1>1. /\ phase = "upsize" /\ phase' = "upsize" /\ TypeOK /\ moved \in 0 .. buckets_n - 1
      /\ moved' = moved + 1 /\ moved \in Nat /\ moved < buckets_n
      /\ UNCHANGED <<buckets, buckets_n, buckets_used, members, dist, hash>>
  BY DEF IInv, TypeOK, Rehash, table
<1>2. /\ n \in Sizes /\ n \in Int /\ buckets_n \in Sizes /\ hash \in HashFunction
      /\ t \in Array(n) /\ buckets \in Array(buckets_n)
  BY <1>1 DEF TypeOK, Sizes, Array
<1>3. 0 \in 0 .. buckets_n - 1  BY <1>2 DEF Sizes
<1>4. v \in Values /\ b \in Bucket  BY <1>1, <1>2, <1>3 DEF Array, Bucket, Values
<1>5. /\ Cardinality(Filled(t, n)) <= moved
      /\ \A j \in 0 .. moved - 1 :
            buckets[j].key \in Key => Places(t, n, hash, buckets[j].key) # {}
      /\ \A k \in members : Places(buckets, buckets_n, hash, k) # {}
  BY <1>1 DEF IInv, Counted, Findable
<1>6. moved < n  BY <1>1, <1>2 DEF Sizes
<1>7. /\ IsFiniteSet(Filled(t, n)) /\ Cardinality(Filled(t, n)) \in Nat
      /\ \E j \in 0 .. n - 1 : t[j].key = EMPTY
  <2> HIDE DEF n, t
  <2>1. /\ IsFiniteSet(Filled(t, n)) /\ Cardinality(Filled(t, n)) \in Nat
        /\ Cardinality(Filled(t, n)) < n => \E j \in 0 .. n - 1 : t[j].key = EMPTY
    BY <1>2, FilledFinite
  <2> QED  BY <1>1, <1>2, <1>5, <1>6, <2>1
<1>8. /\ Cardinality(Filled(u, n)) <= moved + 1
      /\ b.key \in Key => Places(u, n, hash, b.key) # {}
      /\ \A m \in Key : Places(t, n, hash, m) # {} => Places(u, n, hash, m) # {}
  <2>1. CASE b.key \in {EMPTY, DELETED}
    <3>1. u = t  BY <2>1 DEF Rehash
    <3>2. b.key \notin Key  BY <2>1, MarksAssumption
    <3> HIDE DEF u, t, n
    <3> QED  BY <1>1, <1>5, <1>7, <3>1, <3>2
  <2>2. CASE b.key \notin {EMPTY, DELETED}
    <3>1. b.key \in Key  BY <1>4, <2>2 DEF Bucket
    <3>2. u = PutInto(t, n, hash, b.key, v)  BY <2>2 DEF Rehash
    <3>3. u = Written(t, x, b.key, v)  BY <3>2, Zenon DEF PutInto, Written
    <3>4. StopsAt(t, n, hash, b.key, d)
      <4> HIDE DEF n, t, b
      <4> QED  BY <1>2, <1>7, <3>1, PutPlaceExists
    <3> HIDE DEF n, b, v, t, u, d
    <3>5. /\ Places(u, n, hash, b.key) # {}
          /\ \A m \in Key : Places(t, n, hash, m) # {} => Places(u, n, hash, m) # {}
          /\ Filled(u, n) \subseteq Filled(t, n) \cup {x}
      BY <1>2, <1>4, <3>1, <3>3, <3>4, StoreKeepsPlaces
    <3>6. /\ Cardinality(Filled(u, n)) \in Nat
          /\ Cardinality(Filled(u, n)) <= Cardinality(Filled(t, n)) + 1
      <4> HIDE DEF x
      <4> QED  BY <1>7, <3>5, OneMore
    <3> QED  BY <1>1, <1>5, <1>7, <3>5, <3>6
  <2> QED  BY <2>1, <2>2
<1>9. Counted'
  BY <1>1, <1>8 DEF IInv, Counted
<1>10. \A j \in 0 .. moved' - 1 : j = moved \/ j \in 0 .. moved - 1  BY <1>1
<1>11. \A j \in 0 .. moved' - 1 :
          buckets[j].key \in Key => Places(u, n, hash, buckets[j].key) # {}
  <2> HIDE DEF n, u, t
  <2> QED  BY <1>5, <1>8, <1>10
<1>12. Findable'  BY <1>1, <1>5, <1>11 DEF Findable
<1>13. AtRest' /\ PassedNone'  BY <1>1 DEF IInv, AtRest, PassedNone
<1> QED  BY <1>9, <1>12, <1>13

\* The new buckets take over when all keys have been copied.
LEMMA SwapKeeps ==
    ASSUME IInv, Swap, UNCHANGED <<type, hash>>
    PROVE  (AtRest /\ Counted /\ PassedNone /\ Findable)'
<1>1. /\ phase = "upsize" /\ phase' = "idle" /\ TypeOK /\ moved = buckets_n /\ moved' = 0
      /\ buckets' = tmp /\ buckets_n' = 2 * buckets_n /\ hash' = hash
      /\ UNCHANGED <<buckets_used, dist, members>>
  BY DEF IInv, Swap
<1>2. buckets_n \in Nat /\ buckets_n > 0 /\ members \subseteq Key  BY <1>1 DEF TypeOK
<1>3. Counted'
  BY <1>1, <1>2 DEF IInv, Counted
<1>4. \A k \in members : Places(tmp, 2 * buckets_n, hash, k) # {}
  <2> SUFFICES ASSUME NEW k \in members PROVE Places(tmp, 2 * buckets_n, hash, k) # {}
      OBVIOUS
  <2>1. PICK d \in 0 .. buckets_n - 1 : buckets[At(hash, k, buckets_n, d)].key = k
    BY DEF IInv, Findable, Places
  <2>2. hash \in HashFunction /\ k \in Key /\ buckets_n \in Sizes
    BY <1>1, <1>2 DEF TypeOK, Sizes
  <2>3. At(hash, k, buckets_n, d) \in 0 .. buckets_n - 1  BY <2>2, AtValue
  <2> HIDE DEF At
  <2> QED  BY <1>1, <2>1, <2>2, <2>3 DEF IInv, Findable
<1>5. Findable'  BY <1>1, <1>4 DEF Findable
<1> QED  BY <1>1, <1>3, <1>5 DEF IInv, AtRest, PassedNone

\* Every step keeps the invariant.
LEMMA StepIInv == IInv /\ [Next]_vars => IInv'
<1> SUFFICES ASSUME IInv, [Next]_vars PROVE IInv'  OBVIOUS
<1>0. TypeOK'  BY StepTypeOK DEF IInv
<1>1. CASE Client /\ UNCHANGED <<type, hash>>
  <2>1. /\ UNCHANGED <<hash, table, upsize, members, dist>>
        /\ phase = "idle" /\ phase' \in {"probe", "gone"}
    BY <1>1 DEF Client, Get, Remove, Put, Calls, Destroy
  <2>2. dist' = 0  BY <2>1 DEF IInv, AtRest
  <2> QED  BY <1>0, <2>1, <2>2, ClientKeeps DEF IInv
<1>2. CASE (Hit \/ Miss) /\ UNCHANGED <<type, hash>>
  <2>1. /\ UNCHANGED <<hash, table, upsize, members>> /\ dist' = 0
        /\ phase = "probe" /\ phase' = "idle"
    BY <1>2 DEF Hit, Miss, Answers, Probing
  <2> QED  BY <1>0, <2>1, ClientKeeps DEF IInv
<1>3. CASE PutNew /\ UNCHANGED <<type, hash>>
  <2>1. buckets_used + 1 \in Nat  BY DEF IInv, TypeOK
  <2>2. Here \in PutStops(call.key)  BY <1>3 DEF PutNew, PutStops
  <2> QED  BY <1>0, <1>3, <2>1, <2>2, StoreKeeps DEF PutNew, IInv
<1>4. CASE PutAgain /\ UNCHANGED <<type, hash>>
  <2>1. buckets_used \in Nat  BY DEF IInv, TypeOK
  <2>2. Here \in PutStops(call.key)  BY <1>4 DEF PutAgain, PutStops
  <2> QED  BY <1>0, <1>4, <2>1, <2>2, StoreKeeps DEF PutAgain, IInv
<1>5. CASE UNCHANGED vars
  BY <1>5 DEF vars, table, upsize, IInv, TypeOK, AtRest, Counted, PassedNone, Findable,
              Stops, Busy
<1>6. CASE (Collide \/ RemoveHit \/ Rehash \/ Swap) /\ UNCHANGED <<type, hash>>
  BY <1>0, <1>6, CollideKeeps, RemoveKeeps, RehashKeeps, SwapKeeps DEF IInv
<1> QED  BY <1>1, <1>2, <1>3, <1>4, <1>5, <1>6 DEF Next, Step

LEMMA Invariance == Spec => []IInv
BY InitIInv, StepIInv, PTL DEF Spec

-----------------------------------------------------------------------------
(* The properties *)

\* However many tombstones have been left and refilled, between calls and in a
\* probe some bucket is empty, so that no probe goes round for ever.
THEOREM NeverFull == Spec => []KeepsAnEmptyBucket
<1>1. IInv => KeepsAnEmptyBucket
  <2> SUFFICES ASSUME IInv, phase # "upsize"
               PROVE  Cardinality(Filled(buckets, buckets_n)) < buckets_n
      BY DEF KeepsAnEmptyBucket
  <2>1. buckets_n \in Sizes /\ buckets \in Array(buckets_n) /\ buckets_used \in Nat
    BY DEF IInv, TypeOK, Sizes, Array
  <2>2. Cardinality(Filled(buckets, buckets_n)) \in Nat  BY <2>1, FilledFinite
  <2>3. /\ buckets_used < buckets_n
        /\ Cardinality(Filled(buckets, buckets_n)) <= buckets_used
    BY DEF IInv, Counted
  <2> QED  BY <2>1, <2>2, <2>3 DEF Sizes
<1> QED  BY <1>1, Invariance, PTL

\* A lookup that stops at an empty bucket has passed no place of its key.
LEMMA MissIsRight == ASSUME IInv, Miss PROVE call.key \notin members
<1> SUFFICES ASSUME call.key \in members PROVE FALSE  OBVIOUS
<1> DEFINE k == call.key
           n == buckets_n
<1>1. phase = "probe" /\ call.op # "put" /\ TypeOK  BY DEF Miss, Probing, IInv
<1>2. n \in Sizes /\ k \in Key /\ dist \in 0 .. n - 1  BY <1>1, ProbeTypes DEF TypeOK
<1>3. PICK d : d \in Places(buckets, n, hash, k)  BY <1>1 DEF IInv, Findable
<1>4. /\ d \in 0 .. n - 1 /\ buckets[At(hash, k, n, d)].key = k
      /\ \A e \in 0 .. d - 1 : buckets[At(hash, k, n, e)].key # EMPTY
  BY <1>3 DEF Places
<1>5. Stops = {k, EMPTY} /\ k # EMPTY
  BY <1>1, <1>2, MarksAssumption DEF Stops, GetStops
<1>6. buckets[At(hash, k, n, dist)].key = EMPTY  BY <1>5 DEF Miss, Here, index
<1>7. \A e \in 0 .. dist - 1 : buckets[At(hash, k, n, e)].key # k
  BY <1>1, <1>5 DEF IInv, PassedNone
<1>8. ~ (d < dist)  BY <1>2, <1>4, <1>7 DEF Sizes
<1>9. ~ (dist < d)  BY <1>2, <1>4, <1>6 DEF Sizes
<1>10. d # dist  BY <1>4, <1>5, <1>6
<1> QED  BY <1>2, <1>4, <1>8, <1>9, <1>10 DEF Sizes

\* get() and remove() find every key that was put and not removed since, through
\* collisions, tombstones and doublings.
THEOREM MembersFound == Spec => FindsMembers
<1>1. IInv /\ [Next]_vars => [Miss => call.key \notin members]_vars  BY MissIsRight
<1> QED  BY <1>1, Invariance, PTL DEF Spec, FindsMembers

-----------------------------------------------------------------------------
(* The table is a map *)

\* A key is in one bucket at most.
Once(b, n) ==
    \A i, j \in 0 .. n - 1 : b[i].key \in Key /\ b[i].key = b[j].key => i = j
OnlyAt(b, n, k, x) == \A i \in 0 .. n - 1 : b[i].key = k => i = x
NoValues(b, n) == \A i \in 0 .. n - 1 : b[i].value = NoValue

\* While the history is sound the buckets hold the members, each once, and a
\* table holds no values; upsize_table() copies what it has seen and no more.
Exact ==
    /\ \A i \in 0 .. buckets_n - 1 : buckets[i].key \in Key => buckets[i].key \in members
    /\ Once(buckets, buckets_n)
    /\ type = "TABL" => /\ NoValues(buckets, buckets_n)
                        /\ phase = "probe" /\ call.op = "put" => call.value = NoValue
                        /\ phase = "upsize" => NoValues(tmp, 2 * buckets_n)
    /\ phase = "upsize" =>
          /\ Once(tmp, 2 * buckets_n)
          /\ \A i \in 0 .. 2 * buckets_n - 1 :
                tmp[i].key \in Key => \E j \in 0 .. moved - 1 : tmp[i].key = buckets[j].key

\* A new array holds no keys and no values.
LEMMA NewExact ==
    ASSUME NEW n \in Nat
    PROVE  /\ Once(NewBuckets(n), n) /\ NoValues(NewBuckets(n), n)
           /\ \A i \in 0 .. n - 1 : NewBuckets(n)[i].key \notin Key
BY MarksAssumption DEF Once, NoValues, NewBuckets

\* Storing a key that is in no other bucket.
LEMMA WrittenExact ==
    ASSUME NEW n \in Sizes, NEW b \in Array(n), NEW x \in 0 .. n - 1, NEW k \in Key,
           NEW v \in Values, Once(b, n), NEW c, c = Written(b, x, k, v),
           OnlyAt(b, n, k, x)
    PROVE  /\ Once(c, n) /\ (NoValues(b, n) /\ v = NoValue => NoValues(c, n))
           /\ c[x].key = k /\ c[x].value = v
           /\ \A i \in 0 .. n - 1 : i # x => c[i] = b[i]
           /\ \A i \in 0 .. n - 1 : c[i].key \in Key => c[i].key = k \/ c[i].key = b[i].key
<1>1. c[x] = [key |-> k, value |-> v] /\ \A i \in 0 .. n - 1 : i # x => c[i] = b[i]
  BY DEF Written, Array
<1>2. Once(c, n)  BY <1>1 DEF Once, OnlyAt
<1>3. NoValues(b, n) /\ v = NoValue => NoValues(c, n)  BY <1>1 DEF NoValues
<1> QED  BY <1>1, <1>2, <1>3

\* The map behind an array: from the keys that can be found to their values.
MapOf(b, n, h) ==
    LET in == {k \in Key : Places(b, n, h, k) # {}}
    IN  [k \in in |-> b[At(h, k, n, CHOOSE d \in Places(b, n, h, k) : TRUE)].value]

LEMMA MapOfExact ==
    ASSUME NEW n \in Sizes, NEW h \in HashFunction, NEW b \in Array(n), NEW M \in SUBSET Key,
           \A k \in M : Places(b, n, h, k) # {},
           \A i \in 0 .. n - 1 : b[i].key \in Key => b[i].key \in M,
           Once(b, n)
    PROVE  /\ MapOf(b, n, h) = [k \in M |-> MapOf(b, n, h)[k]]
           /\ \A i \in 0 .. n - 1 : b[i].key \in Key => MapOf(b, n, h)[b[i].key] = b[i].value
           /\ \A k \in M : \E i \in 0 .. n - 1 : b[i].key = k
<1> DEFINE at == [k \in Key |-> At(h, k, n, CHOOSE d \in Places(b, n, h, k) : TRUE)]
<1>1. \A k \in Key : \A d \in Places(b, n, h, k) :
         At(h, k, n, d) \in 0 .. n - 1 /\ b[At(h, k, n, d)].key = k
  BY AtValue DEF Places
<1>2. {k \in Key : Places(b, n, h, k) # {}} = M  BY <1>1
<1>3. \A k \in M : at[k] \in 0 .. n - 1 /\ b[at[k]].key = k  BY <1>1
<1>4. MapOf(b, n, h) = [k \in M |-> b[at[k]].value]  BY <1>2 DEF MapOf
<1> HIDE DEF at
<1>5. \A i \in 0 .. n - 1 : b[i].key \in Key => b[i].key \in M /\ i = at[b[i].key]
  BY <1>3 DEF Once
<1> QED  BY <1>3, <1>4, <1>5

LEMMA ContentsIsMapOf == Contents = MapOf(buckets, buckets_n, hash)
BY DEF Contents, MapOf

LEMMA ContentsExact ==
    ASSUME IInv, Exact
    PROVE  /\ Contents = [k \in members |-> Contents[k]]
           /\ \A i \in 0 .. buckets_n - 1 :
                 buckets[i].key \in Key => Contents[buckets[i].key] = buckets[i].value
           /\ \A k \in members : \E i \in 0 .. buckets_n - 1 : buckets[i].key = k
<1>1. /\ buckets_n \in Sizes /\ hash \in HashFunction /\ buckets \in Array(buckets_n)
      /\ members \in SUBSET Key
      /\ \A k \in members : Places(buckets, buckets_n, hash, k) # {}
      /\ \A i \in 0 .. buckets_n - 1 : buckets[i].key \in Key => buckets[i].key \in members
      /\ Once(buckets, buckets_n)
  BY DEF IInv, TypeOK, Findable, Exact, Sizes, Array
<1> QED  BY <1>1, MapOfExact, ContentsIsMapOf

\* The invariant of the refinement.
RInv == IInv /\ (sound => Exact)

\* What a put does while the history is sound: its bucket is the only one of
\* the key, before and after.
LEMMA SoundStore ==
    ASSUME IInv, sound, Exact, sound', PutNew \/ PutAgain
    PROVE  /\ phase = "probe" /\ call.op = "put" /\ call.key \in Key /\ call.value \in Values
           /\ index \in 0 .. buckets_n - 1 /\ buckets_n \in Sizes /\ buckets \in Array(buckets_n)
           /\ \A i \in 0 .. buckets_n - 1 : buckets[i].key = call.key => i = index
           /\ buckets' = Written(buckets, index, call.key, call.value)
           /\ buckets_n' = buckets_n /\ members' = members \cup {call.key} /\ moved' = moved
           /\ answer' = answer
           /\ \/ phase' = "upsize" /\ call' = call /\ tmp' = NewBuckets(2 * buckets_n)
              \/ phase' = "idle" /\ call' = NoCall
<1>1. phase = "probe" /\ call.op = "put" /\ TypeOK  BY DEF PutNew, PutAgain, Probing, IInv
<1>2. /\ call.key \in Key /\ call.value \in Values /\ index \in 0 .. buckets_n - 1
      /\ buckets_n \in Sizes /\ buckets \in Array(buckets_n)
  BY <1>1, ProbeTypes
<1>3. buckets' = Written(buckets, index, call.key, call.value)
  BY Zenon DEF PutNew, PutAgain, Store, Written
<1>4. \A i \in 0 .. buckets_n - 1 : buckets[i].key = call.key => i = index
  BY <1>2 DEF PutNew, PutAgain, Exact, Once, Here
<1>5. \E used \in Nat : AfterPut(used)
  <2>1. buckets_used \in Nat /\ buckets_used + 1 \in Nat  BY <1>1 DEF TypeOK
  <2>2. AfterPut(buckets_used) \/ AfterPut(buckets_used + 1)  BY DEF PutNew, PutAgain
  <2> QED  BY <2>1, <2>2
<1>6. \/ phase' = "upsize" /\ call' = call /\ tmp' = NewBuckets(2 * buckets_n)
      \/ phase' = "idle" /\ call' = NoCall
  BY <1>1, <1>5, AfterPutTypes
<1> QED  BY <1>1, <1>2, <1>3, <1>4, <1>6 DEF PutNew, PutAgain

LEMMA InitExact == Init => Exact
<1> SUFFICES ASSUME Init PROVE Exact  OBVIOUS
<1>1. buckets_n \in Nat /\ phase = "idle" /\ buckets = NewBuckets(buckets_n)
  BY CapacityAssumption DEF Init
<1> QED  BY <1>1, NewExact DEF Exact

\* A put, new or again.
LEMMA StoreExact ==
    ASSUME IInv, sound, Exact, sound', PutNew \/ PutAgain, UNCHANGED <<type, hash>>
    PROVE  Exact'
<1> DEFINE n == buckets_n
           k == call.key
           v == call.value
           c == buckets'
           x == index
<1>1. /\ phase = "probe" /\ call.op = "put" /\ k \in Key /\ v \in Values
      /\ x \in 0 .. n - 1 /\ n \in Sizes /\ buckets \in Array(n)
      /\ \A i \in 0 .. n - 1 : buckets[i].key = k => i = x
      /\ c = Written(buckets, x, k, v)
      /\ buckets_n' = n /\ members' = members \cup {k} /\ moved' = moved
      /\ \/ phase' = "upsize" /\ call' = call /\ tmp' = NewBuckets(2 * n)
         \/ phase' = "idle" /\ call' = NoCall
  BY SoundStore
<1>2. Once(buckets, n) /\ OnlyAt(buckets, n, k, x)  BY <1>1 DEF Exact, OnlyAt
<1>3. /\ Once(c, n) /\ (NoValues(buckets, n) /\ v = NoValue => NoValues(c, n))
      /\ \A i \in 0 .. n - 1 : c[i].key \in Key => c[i].key = k \/ c[i].key = buckets[i].key
  <2> HIDE DEF n, k, v, c, x
  <2> QED  BY <1>1, <1>2, WrittenExact
<1>4. 2 * n \in Nat  BY <1>1 DEF Sizes
<1>5. /\ Once(NewBuckets(2 * n), 2 * n) /\ NoValues(NewBuckets(2 * n), 2 * n)
      /\ \A i \in 0 .. 2 * n - 1 : NewBuckets(2 * n)[i].key \notin Key
  BY <1>4, NewExact
<1>6. \A i \in 0 .. n - 1 : c[i].key \in Key => c[i].key \in members'
  BY <1>1, <1>3 DEF Exact
<1>7. type' = "TABL" => NoValues(c, n)  BY <1>1, <1>3 DEF Exact
<1> QED  BY <1>1, <1>3, <1>5, <1>6, <1>7 DEF Exact

\* A remove: the key was in that bucket only.
LEMMA RemoveExact ==
    ASSUME IInv, Exact, RemoveHit, UNCHANGED <<type, hash>>
    PROVE  Exact'
<1> DEFINE n == buckets_n
           c == buckets'
           x == index
<1>1. phase = "probe" /\ TypeOK  BY DEF RemoveHit, Probing, IInv
<1>2. /\ n \in Sizes /\ buckets \in Array(n) /\ call.key \in Key /\ x \in 0 .. n - 1
  BY <1>1, ProbeTypes
<1>3. /\ c = Tombstone(buckets, x) /\ buckets[x].key = call.key /\ buckets_n' = n
      /\ phase' = "idle" /\ members' = members \ {call.key}
  BY Zenon DEF RemoveHit, Cleared, Answers, Here, Tombstone
<1>4. /\ c[x] = [key |-> DELETED, value |-> NoValue]
      /\ \A i \in 0 .. n - 1 : i # x => c[i] = buckets[i]
  BY <1>2, <1>3 DEF Tombstone, Array
<1>5. DELETED \notin Key  BY MarksAssumption
<1>6. Once(c, n)  BY <1>4, <1>5 DEF Exact, Once
<1>7. NoValues(buckets, n) => NoValues(c, n)  BY <1>4 DEF NoValues
<1>8. \A i \in 0 .. n - 1 : c[i].key \in Key => c[i].key \in members'
  BY <1>2, <1>3, <1>4, <1>5 DEF Exact, Once
<1> QED  BY <1>3, <1>6, <1>7, <1>8 DEF Exact

\* One turn of the copying loop: the key is not in the new buckets yet.
LEMMA RehashExact ==
    ASSUME IInv, Exact, Rehash, UNCHANGED <<type, hash>>
    PROVE  Exact'
<1> DEFINE n == 2 * buckets_n
           b == buckets[moved]
           v == IF type = "DICT" THEN buckets[0].value ELSE NoValue
           t == tmp
           u == tmp'
           d == PutPlace(t, n, hash, b.key)
           x == At(hash, b.key, n, d)
<1>1. /\ phase = "upsize" /\ phase' = "upsize" /\ TypeOK /\ moved \in 0 .. buckets_n - 1
      /\ moved' = moved + 1 /\ moved \in Nat /\ moved < buckets_n
      /\ UNCHANGED <<buckets, buckets_n, members, type>>
  BY DEF IInv, TypeOK, Rehash, table
<1>2. /\ n \in Sizes /\ n \in Int /\ buckets_n \in Sizes /\ hash \in HashFunction
      /\ t \in Array(n) /\ buckets \in Array(buckets_n)
  BY <1>1 DEF TypeOK, Sizes, Array
<1>3. 0 \in 0 .. buckets_n - 1  BY <1>2 DEF Sizes
<1>4. v \in Values /\ b \in Bucket /\ (type = "TABL" => v = NoValue)
  BY <1>1, <1>2, <1>3 DEF Array, Bucket, Values
<1>5. /\ Once(t, n) /\ (type = "TABL" => NoValues(t, n))
      /\ \A i \in 0 .. n - 1 : t[i].key \in Key => \E j \in 0 .. moved - 1 : t[i].key = buckets[j].key
  BY <1>1 DEF Exact
<1>6. /\ Once(u, n) /\ (type = "TABL" => NoValues(u, n))
      /\ \A i \in 0 .. n - 1 : u[i].key \in Key => u[i].key = b.key \/ u[i].key = t[i].key
  <2>1. CASE b.key \in {EMPTY, DELETED}
    <3>1. u = t  BY <2>1 DEF Rehash
    <3> HIDE DEF u, t, n
    <3> QED  BY <1>5, <3>1
  <2>2. CASE b.key \notin {EMPTY, DELETED}
    <3>1. b.key \in Key  BY <1>4, <2>2 DEF Bucket
    <3>2. u = PutInto(t, n, hash, b.key, v)  BY <2>2 DEF Rehash
    <3>3. u = Written(t, x, b.key, v)  BY <3>2, Zenon DEF PutInto, Written
    <3>4. \A i \in 0 .. n - 1 : t[i].key # b.key
      <4> SUFFICES ASSUME NEW i \in 0 .. n - 1, t[i].key = b.key PROVE FALSE  OBVIOUS
      <4>1. PICK j \in 0 .. moved - 1 : buckets[j].key = buckets[moved].key
        BY <1>5, <3>1
      <4>2. j \in 0 .. buckets_n - 1 /\ j # moved  BY <1>1, <1>2 DEF Sizes
      <4> QED  BY <1>1, <3>1, <4>1, <4>2 DEF Exact, Once
    <3>5. x \in 0 .. n - 1
      <4>1. \E j \in 0 .. n - 1 : t[j].key = EMPTY
        <5>1. Cardinality(Filled(t, n)) <= moved /\ moved < n
          BY <1>1, <1>2 DEF IInv, Counted, Sizes
        <5> HIDE DEF n, t
        <5>2. Cardinality(Filled(t, n)) \in Nat
              /\ (Cardinality(Filled(t, n)) < n => \E j \in 0 .. n - 1 : t[j].key = EMPTY)
          BY <1>2, FilledFinite
        <5> QED  BY <1>1, <1>2, <5>1, <5>2
      <4> HIDE DEF n, t, b
      <4>2. d \in 0 .. n - 1  BY <1>2, <3>1, <4>1, PutPlaceExists DEF StopsAt
      <4> HIDE DEF d
      <4> QED  BY <1>2, <3>1, <4>2, AtValue
    <3>6. OnlyAt(t, n, b.key, x)  BY <3>4 DEF OnlyAt
    <3> HIDE DEF n, b, v, t, u, d, x
    <3> QED  BY <1>2, <1>4, <1>5, <3>1, <3>3, <3>5, <3>6, WrittenExact
  <2> QED  BY <2>1, <2>2
<1>7. \A i \in 0 .. n - 1 : u[i].key \in Key => \E j \in 0 .. moved' - 1 : u[i].key = buckets[j].key
  <2> SUFFICES ASSUME NEW i \in 0 .. n - 1, u[i].key \in Key
               PROVE  \E j \in 0 .. moved' - 1 : u[i].key = buckets[j].key
      OBVIOUS
  <2>1. CASE u[i].key = b.key  BY <1>1, <2>1
  <2>2. CASE u[i].key = t[i].key
    <3>1. PICK j \in 0 .. moved - 1 : t[i].key = buckets[j].key  BY <1>5, <2>2
    <3>2. j \in 0 .. moved' - 1  BY <1>1
    <3> QED  BY <2>2, <3>1, <3>2
  <2> QED  BY <1>6, <2>1, <2>2
<1> QED  BY <1>1, <1>6, <1>7 DEF Exact

\* The new buckets of a table hold the same members.
LEMMA SwapExact ==
    ASSUME IInv, Exact, Swap, sound', UNCHANGED <<type, hash>>
    PROVE  Exact' /\ type = "TABL"
<1>1. /\ phase = "upsize" /\ phase' = "idle" /\ TypeOK /\ moved = buckets_n
      /\ buckets' = tmp /\ buckets_n' = 2 * buckets_n
      /\ members' = members /\ type = "TABL"
  BY DEF IInv, Swap
<1>2. \A i \in 0 .. 2 * buckets_n - 1 : tmp[i].key \in Key => tmp[i].key \in members
  BY <1>1 DEF Exact
<1> QED  BY <1>1, <1>2 DEF Exact
LEMMA StepRInv == RInv /\ [Next]_vars => RInv'
<1> SUFFICES ASSUME RInv, [Next]_vars PROVE RInv'  OBVIOUS
<1>0. IInv /\ IInv'  BY StepIInv DEF RInv
<1> SUFFICES ASSUME sound' PROVE Exact'  BY <1>0 DEF RInv
<1>1. sound
  BY DEF Next, Step, Client, vars, Get, Remove, Put, Calls, Destroy, Collide, PutNew, PutAgain,
         Hit, Miss, RemoveHit, Answers, Rehash, Swap
<1>2. Exact  BY <1>1 DEF RInv
<1>3. CASE Client /\ UNCHANGED <<type, hash>>
  <2>1. /\ UNCHANGED <<table, upsize, members, type>> /\ phase = "idle"
        /\ \/ phase' = "gone"
           \/ /\ phase' = "probe"
              /\ type = "TABL" /\ call'.op = "put" => call'.value = NoValue
    <3>1. ASSUME NEW k \in Key, Get(k) \/ Remove(k)
          PROVE  /\ UNCHANGED <<table, upsize, members>> /\ phase = "idle"
                 /\ phase' = "probe" /\ call'.op # "put"
      <4>1. CASE Get(k)  BY <4>1 DEF Get, Calls
      <4>2. CASE Remove(k)  BY <4>2 DEF Remove, Calls
      <4> QED  BY <3>1, <4>1, <4>2
    <3>2. CASE \E k \in Key, v \in IF type = "DICT" THEN Value ELSE {NoValue} : Put(k, v)
      BY <1>3, <3>2 DEF Put, Calls
    <3>3. CASE Destroy  BY <1>3, <3>3 DEF Destroy
    <3> QED  BY <1>3, <3>1, <3>2, <3>3 DEF Client
  <2> QED  BY <1>2, <2>1 DEF Exact, table, upsize
<1>4. CASE (Collide \/ Hit \/ Miss) /\ UNCHANGED <<type, hash>>
  <2>1. /\ UNCHANGED <<table, upsize, members, type>> /\ phase = "probe"
        /\ phase' = "idle" \/ (phase' = "probe" /\ call' = call)
    BY <1>4 DEF Collide, Hit, Miss, Answers, Probing
  <2> QED  BY <1>2, <2>1 DEF Exact, table, upsize
<1>5. CASE (PutNew \/ PutAgain) /\ UNCHANGED <<type, hash>>
  BY <1>0, <1>1, <1>2, <1>5, StoreExact
<1>6. CASE (RemoveHit \/ Rehash \/ Swap) /\ UNCHANGED <<type, hash>>
  BY <1>0, <1>1, <1>2, <1>6, RemoveExact, RehashExact, SwapExact
<1>7. CASE UNCHANGED vars
  BY <1>2, <1>7 DEF vars, table, upsize, Exact, Once, NoValues
<1> QED  BY <1>3, <1>4, <1>5, <1>6, <1>7 DEF Next, Step

LEMMA RInvariance == Spec => []RInv
<1>1. Init => RInv  BY InitIInv, InitExact DEF RInv
<1> QED  BY <1>1, StepRInv, PTL DEF Spec

\* ContentsExact after a step.
LEMMA NextContentsExact ==
    ASSUME IInv', Exact'
    PROVE  /\ Contents' = [k \in members' |-> Contents'[k]]
           /\ \A i \in 0 .. buckets_n' - 1 :
                 buckets'[i].key \in Key => Contents'[buckets'[i].key] = buckets'[i].value
           /\ \A k \in members' : \E i \in 0 .. buckets_n' - 1 : buckets'[i].key = k
<1>1. /\ buckets_n' \in Sizes /\ hash' \in HashFunction /\ buckets' \in Array(buckets_n')
      /\ members' \in SUBSET Key
      /\ \A k \in members' : Places(buckets', buckets_n', hash', k) # {}
      /\ \A i \in 0 .. buckets_n' - 1 : buckets'[i].key \in Key => buckets'[i].key \in members'
      /\ Once(buckets', buckets_n')
  BY DEF IInv, TypeOK, Findable, Exact, Sizes, Array
<1>2. Contents' = MapOf(buckets', buckets_n', hash')  BY DEF Contents, MapOf
<1> QED  BY <1>1, <1>2, MapOfExact

\* A put is the put of the map.
LEMMA PutRefined ==
    ASSUME RInv, RInv', sound, sound', PutNew \/ PutAgain
    PROVE  Promise!Put
<1> DEFINE n == buckets_n
           k == call.key
           C == Contents
           D == Contents'
<1>1. IInv /\ IInv' /\ Exact /\ Exact'  BY DEF RInv
<1>2. /\ phase = "probe" /\ call.op = "put" /\ k \in Key /\ call.value \in Values
      /\ index \in 0 .. n - 1 /\ n \in Sizes /\ buckets \in Array(n)
      /\ \A i \in 0 .. n - 1 : buckets[i].key = k => i = index
      /\ buckets' = Written(buckets, index, k, call.value)
      /\ buckets_n' = n /\ members' = members \cup {k} /\ answer' = answer
      /\ phase' # "probe"
  BY <1>1, SoundStore
<1>3. /\ C = [m \in members |-> C[m]]
      /\ \A i \in 0 .. n - 1 : buckets[i].key \in Key => C[buckets[i].key] = buckets[i].value
      /\ \A m \in members : \E i \in 0 .. n - 1 : buckets[i].key = m
  BY <1>1, ContentsExact
<1>4. /\ D = [m \in members' |-> D[m]]
      /\ \A i \in 0 .. n - 1 : buckets'[i].key \in Key => D[buckets'[i].key] = buckets'[i].value
  <2>1. /\ D = [m \in members' |-> D[m]]
        /\ \A i \in 0 .. buckets_n' - 1 :
              buckets'[i].key \in Key => D[buckets'[i].key] = buckets'[i].value
    BY <1>1, NextContentsExact
  <2> QED  BY <1>2, <2>1
<1>5. /\ buckets'[index].key = k /\ buckets'[index].value = call.value
      /\ \A i \in 0 .. n - 1 : i # index => buckets'[i] = buckets[i]
  BY <1>2 DEF Written, Array
<1>6. D[k] = call.value  BY <1>2, <1>4, <1>5
<1>7. ASSUME NEW m \in members, m # k PROVE D[m] = C[m]
  <2>1. PICK i \in 0 .. n - 1 : buckets[i].key = m  BY <1>3
  <2>2. m \in Key  BY <1>1 DEF IInv, TypeOK
  <2>3. buckets'[i] = buckets[i]
    <3>1. CASE i = index
      <4>1. buckets[index].key = m /\ buckets[index].key \in Key  BY <2>1, <2>2, <3>1
      <4>2. PutNew => FALSE  BY <4>1, MarksAssumption DEF PutNew, Here
      <4>3. PutAgain => FALSE  BY <1>7, <4>1 DEF PutAgain, Here
      <4> QED  BY <4>2, <4>3
    <3>2. CASE i # index  BY <1>5, <3>2
    <3> QED  BY <3>1, <3>2
  <2> QED  BY <1>3, <1>4, <2>1, <2>2, <2>3
<1>8. D = [m \in DOMAIN C \cup {k} |-> IF m = k THEN call.value ELSE C[m]]
  <2> HIDE DEF C, D, k
  <2>1. DOMAIN C = members  BY <1>3
  <2>2. \A m \in members' : D[m] = IF m = k THEN call.value ELSE C[m]  BY <1>2, <1>6, <1>7
  <2> QED  BY <1>2, <1>4, <2>1, <2>2
<1>9. Pending = call /\ Pending' = NoCall  BY <1>2 DEF Pending, NoCall
<1> QED  BY <1>2, <1>8, <1>9 DEF Promise!Put, Promise!NoCall, NoCall

\* A removal that finds its key is the remove of the map.
LEMMA RemoveRefined ==
    ASSUME RInv, RInv', sound, sound', RemoveHit
    PROVE  Promise!Remove
<1> DEFINE n == buckets_n
           k == call.key
           C == Contents
           D == Contents'
<1>1. IInv /\ IInv' /\ Exact /\ Exact' /\ TypeOK  BY DEF RInv, IInv
<1>2. phase = "probe" /\ call.op = "remove" /\ phase' = "idle" /\ answer' = Found(NoValue)
      /\ n' = n /\ members' = members \ {k}
  BY DEF RemoveHit, Probing, Answers
<1>3. k \in Key /\ index \in 0 .. n - 1 /\ n \in Sizes /\ buckets \in Array(n)
  BY <1>1, <1>2, ProbeTypes
<1>4. buckets[index].key = k /\ k \in members
  BY <1>1, <1>3 DEF RemoveHit, Here, Exact
<1>5. /\ C = [m \in members |-> C[m]]
      /\ \A i \in 0 .. n - 1 : buckets[i].key \in Key => C[buckets[i].key] = buckets[i].value
      /\ \A m \in members : \E i \in 0 .. n - 1 : buckets[i].key = m
  BY <1>1, ContentsExact
<1>6. /\ D = [m \in members' |-> D[m]]
      /\ \A i \in 0 .. n - 1 : buckets'[i].key \in Key => D[buckets'[i].key] = buckets'[i].value
  <2>1. /\ D = [m \in members' |-> D[m]]
        /\ \A i \in 0 .. buckets_n' - 1 :
              buckets'[i].key \in Key => D[buckets'[i].key] = buckets'[i].value
    BY <1>1, NextContentsExact
  <2> QED  BY <1>2, <2>1
<1>7. \A i \in 0 .. n - 1 : i # index => buckets'[i] = buckets[i]
  BY <1>3 DEF RemoveHit, Cleared, Array
<1>8. ASSUME NEW m \in members' PROVE D[m] = C[m]
  <2>1. PICK i \in 0 .. n - 1 : buckets[i].key = m  BY <1>2, <1>5
  <2>2. m \in Key /\ i # index  BY <1>1, <1>2, <1>4, <2>1 DEF TypeOK
  <2> QED  BY <1>5, <1>6, <1>7, <2>1, <2>2
<1>9. D = [m \in DOMAIN C \ {k} |-> C[m]] /\ k \in DOMAIN C
  <2> HIDE DEF C, D, k
  <2>1. DOMAIN C = members  BY <1>5
  <2> QED  BY <1>2, <1>4, <1>6, <1>8, <2>1
<1>10. Pending = call /\ Pending' = NoCall  BY <1>2 DEF Pending, NoCall
<1> QED
  BY <1>2, <1>9, <1>10
  DEF Promise!Remove, Promise!In, Promise!Found, Found, Promise!NoCall, NoCall
\* The answers of get(), and of a lookup that fails, are those of the map.
LEMMA AnswerRefined ==
    ASSUME RInv, sound, sound', Hit \/ Miss, UNCHANGED hash
    PROVE  Promise!Get \/ Promise!Remove
<1> DEFINE k == call.key
           C == Contents
<1>1. IInv /\ Exact /\ TypeOK  BY DEF RInv, IInv
<1>2. /\ phase = "probe" /\ call.op \in {"get", "remove"} /\ phase' = "idle"
      /\ UNCHANGED <<table, hash>>
  BY <1>1 DEF Hit, Miss, Probing, Answers
<1>3. k \in Key /\ index \in 0 .. buckets_n - 1  BY <1>1, <1>2, ProbeTypes
<1>4. /\ C = [m \in members |-> C[m]]
      /\ \A i \in 0 .. buckets_n - 1 : buckets[i].key \in Key => C[buckets[i].key] = buckets[i].value
  BY <1>1, ContentsExact
<1>5. C' = C  BY <1>2 DEF Contents, table
<1>6. Pending = call /\ Pending' = NoCall  BY <1>2 DEF Pending, NoCall
<1>7. CASE Hit
  <2>1. call.op = "get" /\ buckets[index].key = k /\ answer' = Found(buckets[index].value)
    BY <1>7 DEF Hit, Probing, Here, Answers
  <2>2. k \in members /\ C[k] = buckets[index].value  BY <1>1, <1>3, <1>4, <2>1 DEF Exact
  <2>3. k \in DOMAIN C
    <3> HIDE DEF C, k
    <3> QED  BY <1>4, <2>2
  <2> QED
    BY <1>5, <1>6, <2>1, <2>2, <2>3
    DEF Promise!Get, Promise!In, Promise!Found, Found, Promise!NoCall, NoCall
<1>8. CASE Miss
  <2>1. answer' = NotFound /\ k \notin members  BY <1>1, <1>8, MissIsRight DEF Miss, Answers
  <2>2. k \notin DOMAIN C /\ C = [m \in DOMAIN C \ {k} |-> C[m]]
    <3> HIDE DEF C, k
    <3> QED  BY <1>4, <2>1
  <2> QED
    BY <1>2, <1>5, <1>6, <2>1, <2>2
    DEF Promise!Get, Promise!Remove, Promise!In, Promise!NotFound, NotFound, Promise!NoCall, NoCall
<1> QED  BY <1>7, <1>8

\* A table that has taken over its new buckets holds what it held.
LEMMA SwapRefined ==
    ASSUME RInv, RInv', sound, sound', Swap, UNCHANGED <<type, hash>>
    PROVE  Contents' = Contents
<1> DEFINE C == Contents
           D == Contents'
<1>1. IInv /\ IInv' /\ Exact /\ Exact' /\ type = "TABL"  BY SwapExact DEF RInv
<1>2. members' = members /\ type' = type /\ members \subseteq Key
  BY <1>1 DEF Swap, IInv, TypeOK
<1>3. /\ C = [m \in members |-> C[m]]
      /\ \A i \in 0 .. buckets_n - 1 : buckets[i].key \in Key => C[buckets[i].key] = buckets[i].value
      /\ \A m \in members : \E i \in 0 .. buckets_n - 1 : buckets[i].key = m
  BY <1>1, ContentsExact
<1>4. /\ D = [m \in members' |-> D[m]]
      /\ \A i \in 0 .. buckets_n' - 1 :
            buckets'[i].key \in Key => D[buckets'[i].key] = buckets'[i].value
      /\ \A m \in members' : \E i \in 0 .. buckets_n' - 1 : buckets'[i].key = m
  BY <1>1, NextContentsExact
<1>5. NoValues(buckets, buckets_n) /\ NoValues(buckets', buckets_n')
  BY <1>1, <1>2 DEF Exact
<1> HIDE DEF C, D
<1>6. \A m \in members : C[m] = NoValue  BY <1>2, <1>3, <1>5 DEF NoValues
<1>7. \A m \in members : D[m] = NoValue  BY <1>2, <1>4, <1>5 DEF NoValues
<1>8. C = D  BY <1>2, <1>3, <1>4, <1>6, <1>7
<1> QED  BY <1>8 DEF C, D

\* Until a key is stored twice or a dictionary is doubled the hash table is a map:
\* every call takes effect at once, on its own key only, and is answered by what
\* the map holds, whatever collides and however often a table is doubled.
THEOREM HashTableImplementsKeyMap == Spec => ImplementsKeyMap
<1>1. Init => Promise!Init
  <2> SUFFICES ASSUME Init PROVE Promise!Init  OBVIOUS
  <2>1. IInv /\ Exact  BY InitIInv, InitExact
  <2>2. members = {} /\ phase = "idle" /\ answer = NotFound  BY DEF Init
  <2>3. Contents = [m \in {} |-> NoValue]
    <3>1. Contents = [m \in {} |-> Contents[m]]  BY <2>1, <2>2, ContentsExact
    <3> QED  BY <3>1
  <2> QED
    BY <2>2, <2>3
    DEF Promise!Init, Pending, Promise!NoCall, NoCall, Promise!NotFound, NotFound
<1>2. RInv /\ RInv' /\ [Next]_vars => [sound' => Promise!Next]_<<Contents, Pending, answer>>
  <2> SUFFICES ASSUME RInv, RInv', [Next]_vars, sound'
               PROVE  Promise!Next \/ UNCHANGED <<Contents, Pending, answer>>
      OBVIOUS
  <2>1. sound
    BY DEF Next, Step, Client, vars, Get, Remove, Put, Calls, Destroy, Collide, PutNew, PutAgain,
           Hit, Miss, RemoveHit, Answers, Rehash, Swap
  <2>2. ASSUME NEW c \in Call, Calls(c), UNCHANGED hash PROVE Promise!Calls(c)
    <3>1. Contents' = Contents  BY <2>2 DEF Calls, Contents, table
    <3>2. Pending = NoCall /\ Pending' = c /\ answer' = NotFound
      BY <2>2 DEF Calls, Pending, NoCall
    <3> QED
      BY <3>1, <3>2 DEF Promise!Calls, Promise!NoCall, NoCall, Promise!NotFound, NotFound
  <2>3. ASSUME NEW k \in Key, Get(k) \/ Remove(k), UNCHANGED hash PROVE Promise!Next
    <3>1. PICK op \in {"get", "remove"} : Calls([op |-> op, key |-> k])
      BY <2>3 DEF Get, Remove
    <3>2. [op |-> op, key |-> k] \in Call  BY DEF Call
    <3>3. Promise!Calls([op |-> op, key |-> k])  BY <2>2, <2>3, <3>1, <3>2
    <3> QED  BY <3>3 DEF Promise!Next, Promise!Request
  <2>4. ASSUME NEW k \in Key, NEW v \in Values, Put(k, v), UNCHANGED hash PROVE Promise!Next
    <3>1. [op |-> "put", key |-> k, value |-> v] \in Call  BY DEF Call, Values
    <3>2. Promise!Calls([op |-> "put", key |-> k, value |-> v])
      BY <2>2, <2>4, <3>1 DEF Put
    <3> QED  BY <3>2 DEF Promise!Next, Promise!Request, Values
  <2>5. CASE (Destroy \/ Collide \/ Rehash) /\ UNCHANGED <<type, hash>>
    <3>1. UNCHANGED <<table, hash, call, answer>>  BY <2>5 DEF Destroy, Collide, Rehash
    <3>2. Contents' = Contents  BY <3>1 DEF Contents, table
    <3>3. Pending' = Pending  BY <2>5, <3>1 DEF Destroy, Collide, Rehash, Pending
    <3> QED  BY <3>1, <3>2, <3>3
  <2>6. CASE (PutNew \/ PutAgain) /\ UNCHANGED <<type, hash>>
    BY <2>1, <2>6, PutRefined DEF Promise!Next
  <2>7. CASE (Hit \/ Miss) /\ UNCHANGED <<type, hash>>
    BY <2>1, <2>7, AnswerRefined DEF Promise!Next
  <2>8. CASE RemoveHit /\ UNCHANGED <<type, hash>>
    BY <2>1, <2>8, RemoveRefined DEF Promise!Next
  <2>9. CASE Swap /\ UNCHANGED <<type, hash>>
    <3>1. Contents' = Contents  BY <2>1, <2>9, SwapRefined
    <3> QED  BY <2>9, <3>1 DEF Swap, Pending
  <2>10. CASE UNCHANGED vars
    BY <2>10 DEF vars, table, Contents, Pending
  <2>11. CASE Client /\ UNCHANGED <<type, hash>>
    <3>1. \A v \in IF type = "DICT" THEN Value ELSE {NoValue} : v \in Values  BY DEF Values
    <3> QED  BY <2>3, <2>4, <2>5, <2>11, <3>1 DEF Client
  <2> QED
    BY <2>5, <2>6, <2>7, <2>8, <2>9, <2>10, <2>11 DEF Next, Step
<1> QED  BY <1>1, <1>2, RInvariance, PTL DEF Spec, ImplementsKeyMap
=============================================================================
