----------------------------- MODULE BoundedMap ------------------------------
(* What a map of fixed capacity promises: put inserts or overwrites one    *)
(* key and touches no other, and refuses a new key only when it is full.   *)
EXTENDS Naturals, FiniteSets
CONSTANTS Key, Val, NoVal, Room
VARIABLES map, size,
          done   \* the answer to the last put

Present == {k \in Key : map[k] # NoVal}

Init == map = [k \in Key |-> NoVal] /\ size = 0 /\ done = TRUE

Put(k, v) == /\ map[k] # NoVal \/ Cardinality(Present) < Room
             /\ map' = [map EXCEPT ![k] = v]
             /\ size' = Cardinality(Present \cup {k})
             /\ done' = TRUE

Refuse(k) == /\ map[k] = NoVal /\ Cardinality(Present) = Room
             /\ done' = FALSE /\ UNCHANGED <<map, size>>

Next == \E k \in Key : Refuse(k) \/ \E v \in Val : Put(k, v)
Spec == Init /\ [][Next]_<<map, size, done>>
=============================================================================
