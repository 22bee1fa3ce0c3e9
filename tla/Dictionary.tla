----------------------------- MODULE Dictionary -----------------------------
(***************************************************************************)
(* What the hash table promises: a map from keys to values that put        *)
(* changes at one key and that get reads.                                  *)
(***************************************************************************)
CONSTANTS Key, Val, None

VARIABLES
  map,
  last    \* the last operation that returned, with its key and value

vars == <<map, last>>

Init == map = [k \in Key |-> None] /\ last = None

Put(k, v) == map' = [map EXCEPT ![k] = v] /\ last' = <<"put", k, v>>

Get(k) == last' = <<"get", k, map[k]>> /\ UNCHANGED map

\* Another operation is under way, or one that is no part of the promise.
Forget == last' = None /\ UNCHANGED map

Next == Forget \/ \E k \in Key : Get(k) \/ \E v \in Val : Put(k, v)

Spec == Init /\ [][Next]_vars
=============================================================================
