------------------------------- MODULE KeyMap -------------------------------
(***************************************************************************)
(* What include/hasht.h promises of a hash table: a finite map, or a set   *)
(* of keys when there are no values.  A call is made, then it takes        *)
(* effect and is answered in one step.                                     *)
(***************************************************************************)
CONSTANTS Key, Value, NoValue
VARIABLES map,          \* a function from the keys that are in to their values
          call,         \* the call that waits for its effect
          answer        \* what the last get() or remove() returned

vars == <<map, call, answer>>
NoCall   == [op |-> "none"]
NotFound == [found |-> FALSE, value |-> NoValue]
Found(v) == [found |-> TRUE, value |-> v]
In(k) == k \in DOMAIN map

Init == map = [k \in {} |-> NoValue] /\ call = NoCall /\ answer = NotFound

Calls(c) == call = NoCall /\ call' = c /\ answer' = NotFound /\ UNCHANGED map
Request == \/ \E k \in Key, v \in Value \cup {NoValue} : Calls([op |-> "put", key |-> k, value |-> v])
           \/ \E k \in Key, op \in {"get", "remove"} : Calls([op |-> op, key |-> k])

Put == /\ call.op = "put" /\ call' = NoCall
       /\ map' = [k \in DOMAIN map \cup {call.key} |-> IF k = call.key THEN call.value ELSE map[k]]
       /\ UNCHANGED answer
Get == /\ call.op = "get" /\ call' = NoCall
       /\ answer' = IF In(call.key) THEN Found(map[call.key]) ELSE NotFound
       /\ UNCHANGED map
Remove == /\ call.op = "remove" /\ call' = NoCall
          /\ answer' = IF In(call.key) THEN Found(NoValue) ELSE NotFound
          /\ map' = [k \in DOMAIN map \ {call.key} |-> map[k]]

Next == Request \/ Put \/ Get \/ Remove
Spec == Init /\ [][Next]_vars
=============================================================================
