------------------------------ MODULE HashOps ------------------------------
(***************************************************************************)
(* The buckets of src/src/hasht.c: open addressing with linear probing.    *)
(* b is an array of n buckets [key, value], h the hash function.  A table  *)
(* (HASH_ENTRY_TABL) has no values; here its buckets all hold NoValue.     *)
(***************************************************************************)
EXTENDS Integers

CONSTANTS Key,          \* the addresses that are stored
          Value,        \* what a dictionary stores with them
          EMPTY,        \* EMPTY_ITEM, what calloc leaves in a bucket
          DELETED,      \* DELETED_ITEM, a tombstone
          NoValue,      \* the null pointer
          HashValue     \* what do_hash() may return

ASSUME MarksAssumption == EMPTY # DELETED /\ {EMPTY, DELETED} \cap Key = {}
ASSUME HashValueAssumption == HashValue \subseteq Nat

\* fnv_hash_1a_32() and fnv_hash_1a_64(): any function of the address.
HashFunction == [Key -> HashValue]

Bucket == [key : Key \cup {EMPTY, DELETED}, value : Value \cup {NoValue}]
NewBuckets(n) == [i \in 0 .. n - 1 |-> [key |-> EMPTY, value |-> NoValue]]

\* The d-th bucket a probe for k looks at.
Home(h, k, n) == h[k] % n
At(h, k, n, d) == (Home(h, k, n) + d) % n

\* mutant of GetStops: a lookup gives up at a tombstone.
GetStopsAtDeleted(k) == {k, EMPTY, DELETED}

\* The key of a bucket where put() stops, and where get() and remove() stop.
PutStops(k) == {k, EMPTY, DELETED}
GetStops(k) == {k, EMPTY}

\* put_into_dict() and put_into_table() in one go: the loop ends at the first
\* bucket that stops it.  A key that is there already gets the new value.
PutPlace(b, n, h, k) ==
    CHOOSE d \in 0 .. n - 1 : /\ b[At(h, k, n, d)].key \in PutStops(k)
                              /\ \A e \in 0 .. d - 1 : b[At(h, k, n, e)].key \notin PutStops(k)
PutInto(b, n, h, k, v) ==
    [b EXCEPT ![At(h, k, n, PutPlace(b, n, h, k))] = [key |-> k, value |-> v]]

\* The probe distances at which a lookup could find k.
Places(b, n, h, k) ==
    {d \in 0 .. n - 1 : /\ b[At(h, k, n, d)].key = k
                        /\ \A e \in 0 .. d - 1 : b[At(h, k, n, e)].key # EMPTY}
Filled(b, n) == {i \in 0 .. n - 1 : b[i].key # EMPTY}
=============================================================================
