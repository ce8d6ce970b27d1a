----------------------------- MODULE ObjectPool ------------------------------
(* ObjectPool<T, N>: the free list runs through the free slots themselves, *)
(* so a slot is either a link or an object, and nothing says which.        *)
EXTENDS Naturals, FiniteSets
CONSTANTS N,      \* slots
          Value,  \* what a holder may write
          Fresh   \* a T() just constructed

ASSUME PoolAssumption ==
    /\ N \in Nat \ {0}
    /\ Value \cap 0..N = {} /\ Fresh \notin 0..N

Slot == 1..N
nullptr == 0
Link == 0..N

VARIABLES slots_,  \* the union: next of a free slot, storage of a live one
          free_,   \* the first free slot
          held,    \* the pointers callers hold
          poolRet  \* what the last acquire returned
poolVars == <<slots_, free_, held, poolRet>>

PoolInit == /\ slots_ = [s \in Slot |-> IF s < N THEN s + 1 ELSE nullptr]
            /\ free_ = 1
            /\ held = {}
            /\ poolRet = nullptr

(* The link is read before T() is constructed over it.                     *)
acquireLate == /\ free_ # nullptr        \* constructs first: the link is lost
               /\ slots_' = [slots_ EXCEPT ![free_] = Fresh]
               /\ free_' = nullptr
               /\ held' = held \cup {free_}
               /\ poolRet' = free_
acquire == /\ free_ # nullptr
           /\ free_' = slots_[free_]
           /\ slots_' = [slots_ EXCEPT ![free_] = Fresh]
           /\ held' = held \cup {free_}
           /\ poolRet' = free_

acquireDrained == /\ free_ = nullptr
                  /\ poolRet' = nullptr
                  /\ UNCHANGED <<slots_, free_, held>>

(* The holder fills in the object, as encode_nos does with fix_buf.        *)
use(s, v) == /\ s \in held
             /\ slots_' = [slots_ EXCEPT ![s] = v]
             /\ UNCHANGED <<free_, held, poolRet>>

(* A caller releases what it acquired, once; of nullptr it does nothing.   *)
releaseBehind(s) == /\ s \in held        \* linked in behind the first free slot
                    /\ free_' = IF free_ = nullptr THEN s ELSE free_
                    /\ slots_' = IF free_ = nullptr
                                 THEN [slots_ EXCEPT ![s] = nullptr]
                                 ELSE [slots_ EXCEPT ![free_] = s]
                    /\ held' = held \ {s}
                    /\ UNCHANGED poolRet
release(s) == /\ s \in held
              /\ slots_' = [slots_ EXCEPT ![s] = free_]
              /\ free_' = s
              /\ held' = held \ {s}
              /\ UNCHANGED poolRet

PoolNext == \/ acquire \/ acquireDrained
            \/ \E s \in Slot : release(s) \/ \E v \in Value : use(s, v)
PoolSpec == PoolInit /\ [][PoolNext]_poolVars

(***************************************************************************)
(* Properties.                                                             *)
(***************************************************************************)
(* p lists the free slots in the order of their links.                     *)
Threads(p, k) == /\ \A i, j \in 1..k : p[i] = p[j] => i = j
                 /\ free_ = (IF k = 0 THEN nullptr ELSE p[1])
                 /\ \A i \in 1..k : slots_[p[i]] = (IF i = k THEN nullptr ELSE p[i + 1])

(* The links from free_ pass every slot that nobody holds, once each, and  *)
(* end: acquire and release keep the list intact in any order of calls,    *)
(* although holders overwrite the memory the links are kept in.            *)
FreeListExact ==
    LET k == N - Cardinality(held)
    IN  \E p \in [1..k -> Slot \ held] : Threads(p, k)

(* The intrusive list is invisible: acquire hands out a slot nobody holds, *)
(* refuses only when all are held, and an object keeps what its holder     *)
(* wrote until it is released.                                             *)
Pool == INSTANCE ResourcePool WITH contents <- [s \in held |-> slots_[s]], got <- poolRet
ImplementsPool == Pool!Spec
=============================================================================
