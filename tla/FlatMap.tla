------------------------------- MODULE FlatMap -------------------------------
(* FlatMap<V, Cap>: open addressing with linear probing, no deletion.      *)
EXTENDS Naturals, FiniteSets
CONSTANTS CapBits,      \* Cap, a power of two that a size_t can hold
          Multiplier,   \* 0x9E3779B97F4A7C15
          Key, Val, NoVal

ASSUME MapAssumption ==
    /\ CapBits \in 0..63 /\ Multiplier \in Nat
    /\ Key \subseteq Nat /\ NoVal \notin Val

VARIABLES table,  \* slots_
          size_,
          mapRet  \* what the last put returned
mapVars == <<table, size_, mapRet>>

Cap == 2^CapBits
Index == 0..(Cap - 1)
Probe == 0..(Cap - 1)

(* The shift by one and the mask keep bits 1 to CapBits of the product,    *)
(* which depend on no higher bits of either factor.                        *)
hash(k) == (((k % (2 * Cap)) * (Multiplier % (2 * Cap))) \div 2) % Cap

(* The slot of the given probe: the index moves on by one and wraps.       *)
AtUnwrapped(k, p) ==                     \* stays on the last slot
    IF hash(k) + p < Cap THEN hash(k) + p ELSE Cap - 1
At(k, p) == (hash(k) + p) % Cap

MapInit == /\ table = [i \in Index |-> [used |-> FALSE, key |-> 0, val |-> NoVal]]
           /\ size_ = 0
           /\ mapRet = TRUE

Earlier(p) == {q \in Probe : q < p}
Unused(i) == ~table[i].used
Holds(i, k) == table[i].used /\ table[i].key = k

(* put stops at the first slot that is unused or has the key.              *)
PutStops(k, p) == /\ Unused(At(k, p)) \/ Holds(At(k, p), k)
                  /\ \A q \in Earlier(p) : ~Unused(At(k, q)) /\ ~Holds(At(k, q), k)

put(k, v) ==
    \E p \in Probe :
       /\ PutStops(k, p)
       /\ size_' = IF Unused(At(k, p)) THEN size_ + 1 ELSE size_
       /\ table' = [table EXCEPT ![At(k, p)] = [used |-> TRUE, key |-> k, val |-> v]]
       /\ mapRet' = TRUE

putFull(k) == /\ \A p \in Probe : ~PutStops(k, p)
              /\ mapRet' = FALSE
              /\ UNCHANGED <<table, size_>>

(* get stops at the first unused slot, or at the key.                      *)
GetStops(k, p) == /\ Holds(At(k, p), k)
                  /\ \A q \in Earlier(p) : ~Unused(At(k, q)) /\ ~Holds(At(k, q), k)
get(k) == IF \E p \in Probe : GetStops(k, p)
          THEN table[At(k, CHOOSE p \in Probe : GetStops(k, p))].val
          ELSE NoVal

MapNext == \E k \in Key : putFull(k) \/ \E v \in Val : put(k, v)
MapSpec == MapInit /\ [][MapNext]_mapVars

(***************************************************************************)
(* Properties.                                                             *)
(***************************************************************************)
(* Seen through get and size the table is a map with room for Cap keys:    *)
(* put changes its own key and no other, finds an existing key at every    *)
(* load, the full table included, and refuses only a new one then.         *)
Map == INSTANCE BoundedMap WITH map <- [k \in Key |-> get(k)],
                               size <- size_, done <- mapRet, Room <- Cap
ImplementsMap == Map!Spec
=============================================================================
