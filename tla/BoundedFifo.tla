----------------------------- MODULE BoundedFifo -----------------------------
(***************************************************************************)
(* What a single-producer single-consumer ring promises to the two threads *)
(* it joins: a FIFO queue of at most Capacity items.  A push that is       *)
(* refused and a pop that finds nothing change nothing and are stuttering  *)
(* steps.                                                                  *)
(***************************************************************************)
EXTENDS Naturals, Sequences

CONSTANTS Capacity,   \* template parameter Capacity of ts::SpscRing
          Item,       \* the payloads (template parameter T)
          NoItem      \* the value-initialised payload T{}

VARIABLES q,          \* the items pushed and not yet popped, oldest first
          out         \* the consumer's variable, the target of its last pop

vars == <<q, out>>

Init == /\ q = <<>>
        /\ out = NoItem

Put(i) == /\ Len(q) < Capacity
          /\ q' = Append(q, i)
          /\ UNCHANGED out

Get == /\ q # <<>>
       /\ out' = Head(q)
       /\ q' = Tail(q)

Next == (\E i \in Item : Put(i)) \/ Get

Spec == Init /\ [][Next]_vars

\* A consumer that keeps polling takes every item.
FairSpec == Spec /\ WF_vars(Get)
=============================================================================
