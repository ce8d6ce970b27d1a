---------------------------- MODULE ResourcePool -----------------------------
(* What an object pool promises: a set of objects that are each with one   *)
(* holder or with none, and whose contents only their holder changes.      *)
EXTENDS Naturals
CONSTANTS Slot, Value, Fresh, nullptr
VARIABLES held,      \* the objects that were handed out
          contents,  \* what is in each of them
          got        \* the answer to the last request
vars == <<held, contents, got>>

Init == held = {} /\ contents = [s \in {} |-> Fresh] /\ got = nullptr

Acquire(s) == /\ s \in Slot \ held
              /\ held' = held \cup {s}
              /\ contents' = [t \in held' |-> IF t = s THEN Fresh ELSE contents[t]]
              /\ got' = s

(* Only an empty pool refuses.                                             *)
Refuse == held = Slot /\ got' = nullptr /\ UNCHANGED <<held, contents>>

Write(s, v) == /\ s \in held
               /\ contents' = [contents EXCEPT ![s] = v]
               /\ UNCHANGED <<held, got>>

Release(s) == /\ s \in held
              /\ held' = held \ {s}
              /\ contents' = [t \in held' |-> contents[t]]
              /\ UNCHANGED got

Next == \/ \E s \in Slot : Acquire(s) \/ Release(s) \/ \E v \in Value : Write(s, v)
        \/ Refuse
Spec == Init /\ [][Next]_vars
=============================================================================
