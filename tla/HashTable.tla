----------------------------- MODULE HashTable -----------------------------
(***************************************************************************)
(* The hash table of src/src/hasht.c under any sequence of put, get and    *)
(* remove, as a set of keys or as a dictionary.  The probe loops and the   *)
(* copying loop of upsize_table() run step by step, so that whether they   *)
(* end is a question.                                                      *)
(***************************************************************************)
EXTENDS HashOps, FiniteSets

CONSTANTS Capacity,     \* the capacities given to init_hasht()
          MaxUsed       \* bound: no put once that many buckets were counted

\* init_hasht() refuses all but powers of two.  It lets zero pass, with which
\* the first put divides by zero.
ASSUME CapacityAssumption == Capacity \subseteq Nat \ {0}
ASSUME PowersOfTwo == \A n \in Capacity : \E e \in 0 .. 31 : n = 2 ^ e
ASSUME MaxUsedAssumption == MaxUsed \in Nat

VARIABLES type,         \* HASH_ENTRY_TABL or HASH_ENTRY_DICT
          hash,         \* the hash function, the same all the time
          buckets, buckets_n, buckets_used,
          phase,        \* where the code is: between calls, in a probe loop, in
                        \* upsize_table(), or after destroy_hasht()
          call,         \* the call that is being served
          dist,         \* how far from home its probe is
          tmp,          \* the buckets of upsize_table()'s tmp_table
          moved,        \* its loop counter
          answer,       \* what the last get or remove returned
          members,      \* history: keys put and not removed since
          sound         \* history: no key is stored twice, no dictionary was doubled

table  == <<buckets, buckets_n, buckets_used>>
upsize == <<tmp, moved>>
vars == <<type, hash, table, phase, call, dist, upsize, answer, members, sound>>

NoCall == [op |-> "none"]
NotFound == [found |-> FALSE, value |-> NoValue]
Found(v) == [found |-> TRUE, value |-> v]

Init == /\ type \in {"TABL", "DICT"} /\ hash \in HashFunction
        /\ buckets_n \in Capacity /\ buckets = NewBuckets(buckets_n) /\ buckets_used = 0
        /\ phase = "idle" /\ call = NoCall /\ dist = 0
        /\ tmp = NewBuckets(0) /\ moved = 0
        /\ answer = NotFound /\ members = {} /\ sound = TRUE

-----------------------------------------------------------------------------
(* The calls *)

Calls(c) == /\ phase = "idle"
            /\ phase' = "probe" /\ call' = c /\ answer' = NotFound
            /\ UNCHANGED <<table, dist, upsize, members, sound>>
Put(k, v)  == buckets_used < MaxUsed /\ Calls([op |-> "put", key |-> k, value |-> v])
Get(k)     == Calls([op |-> "get", key |-> k])
Remove(k)  == Calls([op |-> "remove", key |-> k])

Destroy == /\ phase = "idle" /\ phase' = "gone"
           /\ UNCHANGED <<table, call, dist, upsize, answer, members, sound>>

(* The probe loop: the bucket it looks at is buckets[index]. *)

index == At(hash, call.key, buckets_n, dist)
Here  == buckets[index].key
Probing(ops) == phase = "probe" /\ call.op \in ops

Stops == IF call.op = "put" THEN PutStops(call.key) ELSE GetStops(call.key)

Collide == /\ phase = "probe" /\ Here \notin Stops
           /\ dist' = (dist + 1) % buckets_n
           /\ UNCHANGED <<table, phase, call, upsize, answer, members, sound>>

\* mutant of Overfull: the table may fill up to its last bucket and beyond.
OverfullLate(used, n) == used > n

\* put() ends with the load factor, an integer division: not 0 means at least 1.
Overfull(used, n) == used \div n > 0
AfterPut(used) == IF Overfull(used, buckets_n)
                  THEN /\ phase' = "upsize" /\ tmp' = NewBuckets(2 * buckets_n)
                       /\ UNCHANGED call
                  ELSE phase' = "idle" /\ call' = NoCall /\ UNCHANGED tmp

Store == buckets' = [buckets EXCEPT ![index] = [key |-> call.key, value |-> call.value]]
PutNew == /\ Probing({"put"}) /\ Here \in {EMPTY, DELETED}
          /\ Store /\ buckets_used' = buckets_used + 1 /\ UNCHANGED buckets_n
          /\ AfterPut(buckets_used + 1)
          /\ members' = members \cup {call.key}
          /\ sound' = (sound /\ \A i \in 0 .. buckets_n - 1 : buckets[i].key # call.key)
          /\ dist' = 0 /\ UNCHANGED <<moved, answer>>
PutAgain == /\ Probing({"put"}) /\ Here = call.key
            /\ Store /\ UNCHANGED <<buckets_n, buckets_used>>
            /\ AfterPut(buckets_used)
            /\ members' = members \cup {call.key}
            /\ dist' = 0 /\ UNCHANGED <<moved, answer, sound>>

Answers(a) == /\ answer' = a /\ phase' = "idle" /\ call' = NoCall /\ dist' = 0
              /\ UNCHANGED <<upsize, sound>>
Hit  == /\ Probing({"get"}) /\ Here = call.key
        /\ Answers(Found(buckets[index].value)) /\ UNCHANGED <<table, members>>
Miss == /\ Probing({"get", "remove"}) /\ Here \in Stops \ {call.key}
        /\ Answers(NotFound) /\ UNCHANGED <<table, members>>

\* mutants of Cleared: the bucket is emptied; it is not counted any more.
ClearedToEmpty == /\ buckets' = [buckets EXCEPT ![index] = [key |-> EMPTY, value |-> NoValue]]
                  /\ UNCHANGED buckets_used
ClearedUncounted == /\ buckets' = [buckets EXCEPT ![index] = [key |-> DELETED, value |-> NoValue]]
                    /\ buckets_used' = buckets_used - 1

\* remove_hashed() leaves a tombstone and goes on counting its bucket.
Cleared == /\ buckets' = [buckets EXCEPT ![index] = [key |-> DELETED, value |-> NoValue]]
           /\ UNCHANGED buckets_used
RemoveHit == /\ Probing({"remove"}) /\ Here = call.key
             /\ Cleared /\ UNCHANGED buckets_n
             /\ Answers(Found(NoValue))
             /\ members' = members \ {call.key}

(* upsize_table() *)

\* A dictionary puts every key with the value of the first bucket.
Rehash == LET b == buckets[moved]
          IN  /\ phase = "upsize" /\ moved < buckets_n
              /\ tmp' = IF b.key \in {EMPTY, DELETED} THEN tmp
                        ELSE PutInto(tmp, 2 * buckets_n, hash, b.key,
                                     IF type = "DICT" THEN buckets[0].value ELSE NoValue)
              /\ moved' = moved + 1
              /\ UNCHANGED <<table, phase, call, dist, answer, members, sound>>

\* mutant of Swap: the number of buckets stays.
SwapKeepsSize == /\ phase = "upsize" /\ moved = buckets_n
                 /\ buckets' = tmp /\ UNCHANGED <<buckets_n, buckets_used>>
                 /\ tmp' = NewBuckets(0) /\ moved' = 0
                 /\ phase' = "idle" /\ call' = NoCall
                 /\ sound' = (sound /\ type = "TABL")
                 /\ UNCHANGED <<dist, answer, members>>

\* Buckets and their number are taken over, but not how many are used.
Swap == /\ phase = "upsize" /\ moved = buckets_n
        /\ buckets' = tmp /\ buckets_n' = 2 * buckets_n /\ UNCHANGED buckets_used
        /\ tmp' = NewBuckets(0) /\ moved' = 0
        /\ phase' = "idle" /\ call' = NoCall
        /\ sound' = (sound /\ type = "TABL")
        /\ UNCHANGED <<dist, answer, members>>

Step == Collide \/ PutNew \/ PutAgain \/ Hit \/ Miss \/ RemoveHit \/ Rehash \/ Swap
Client == \/ \E k \in Key : Get(k) \/ Remove(k)
          \/ \E k \in Key, v \in IF type = "DICT" THEN Value ELSE {NoValue} : Put(k, v)
          \/ Destroy
Next == (Step \/ Client) /\ UNCHANGED <<type, hash>>

\* A call runs to its end; nobody is obliged to call.
Spec == Init /\ [][Next]_vars /\ WF_vars(Step /\ UNCHANGED <<type, hash>>)
-----------------------------------------------------------------------------
\* Every variable keeps its type; the arrays have the size the code takes them to have.
Busy == phase \in {"probe", "upsize"}
Call == [op : {"put"}, key : Key, value : Value \cup {NoValue}]
          \cup [op : {"get", "remove"}, key : Key]
TypeOK == /\ type \in {"TABL", "DICT"} /\ hash \in HashFunction
          /\ buckets_n \in Nat \ {0} /\ buckets_used \in Nat
          /\ buckets \in [0 .. buckets_n - 1 -> Bucket]
          /\ phase \in {"idle", "probe", "upsize", "gone"}
          /\ call \in IF Busy THEN Call ELSE {NoCall}
          /\ dist \in 0 .. buckets_n - 1
          /\ phase = "upsize" => tmp \in [0 .. 2 * buckets_n - 1 -> Bucket]
          /\ moved \in 0 .. buckets_n
          /\ answer \in [found : BOOLEAN, value : Value \cup {NoValue}]
          /\ members \subseteq Key /\ sound \in BOOLEAN

\* Between calls and in a probe some bucket is empty, although tombstones are
\* never cleared and the table doubles only when the count reaches its size: the
\* count never falls, and that is what keeps the loops from going round for ever.
KeepsAnEmptyBucket == phase # "upsize" => Cardinality(Filled(buckets, buckets_n)) < buckets_n

\* get() and remove() never miss a key that was put and not removed since,
\* whatever was removed, put twice or moved in between.
FindsMembers == [][Miss => call.key \notin members]_vars

\* Every call returns.
CallsReturn == Busy ~> ~Busy

\* Until a key is stored twice (put() takes the first tombstone, though the key
\* may be further on) or a dictionary is doubled, the table is a map.
Contents == LET in == {k \in Key : Places(buckets, buckets_n, hash, k) # {}}
            IN  [k \in in |-> buckets[At(hash, k, buckets_n,
                                         CHOOSE d \in Places(buckets, buckets_n, hash, k) : TRUE)].value]
Pending == IF phase = "probe" THEN call ELSE NoCall
Promise == INSTANCE KeyMap WITH map <- Contents, call <- Pending
ImplementsKeyMap == Promise!Init /\ [][sound' => Promise!Next]_<<Contents, Pending, answer>>
=============================================================================
