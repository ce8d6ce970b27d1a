--------------------------- MODULE SpscRing_proofs ---------------------------
(***************************************************************************)
(* The ring is race-free and implements a bounded FIFO queue, for every    *)
(* Capacity and every number of laps before its indices wrap.              *)
(*                                                                         *)
(* The argument: RingInv is inductive.  Its heart is IndicesOrdered, which *)
(* says that going backwards round the ring from tail_ one meets           *)
(* tail_cache_, head_ and head_cache_ in this order, within one lap; a     *)
(* stale load can only return a value between two of them.  SlotDistinct   *)
(* turns distances below one lap into different slots.                     *)
(***************************************************************************)
EXTENDS SpscRing, TLAPS


\* The ring has a slot, and size_t holds at least two laps of it.
LEMMA ModulusFacts == /\ Capacity \in Nat /\ Capacity >= 1
                      /\ IndexMod \in Nat /\ IndexMod >= 2 * Capacity
<1>1. Capacity \in Nat /\ Capacity >= 1 /\ Laps \in Nat /\ Laps >= 2
  BY CapacityAssumption, LapsAssumption
<1>2. Laps * Capacity >= 2 * Capacity
  BY <1>1
<1> QED  BY <1>1, <1>2 DEF IndexMod

\* No multiple of Capacity lies strictly between 0 and Capacity.
LEMMA NoSmallMultiple ==
    ASSUME NEW k \in Int
    PROVE  ~(0 < k * Capacity /\ k * Capacity < Capacity)
<1>1. Capacity \in Nat /\ Capacity >= 1
  BY CapacityAssumption
<1>2. CASE k <= 0
  <2>1. k * Capacity <= 0  BY <1>1, <1>2
  <2> QED BY <2>1, <1>1
<1>3. CASE k >= 1
  <2>1. k * Capacity >= Capacity BY <1>1, <1>3
  <2> QED BY <2>1, <1>1
<1> QED BY <1>2, <1>3

\* i & kMask is an index into buf_.
LEMMA SlotType == ASSUME NEW i \in Nat PROVE Slot(i) \in 0 .. Capacity - 1
BY CapacityAssumption DEF Slot

\* Two indices less than one lap apart use different slots, also across
\* the wrap of size_t: what makes the mask a correct ring index.
LEMMA SlotDistinct ==
    ASSUME NEW a \in Index, NEW b \in Index,
           Sub(a, b) > 0, Sub(a, b) < Capacity
    PROVE  Slot(a) # Slot(b)
<1>1. Capacity \in Nat \ {0} /\ Laps \in Nat /\ a \in Int /\ b \in Int
  BY CapacityAssumption, LapsAssumption, ModulusFacts DEF Index
<1>2. a = Capacity * (a \div Capacity) + Slot(a)
  BY <1>1 DEF Slot
<1>3. b = Capacity * (b \div Capacity) + Slot(b)
  BY <1>1 DEF Slot
<1> DEFINE qa == a \div Capacity  qb == b \div Capacity
<1>4. qa \in Int /\ qb \in Int
  BY <1>1
<1>5. SUFFICES ASSUME Slot(a) = Slot(b) PROVE FALSE
  OBVIOUS
<1> HIDE DEF qa, qb
<1>6. a - b = (qa - qb) * Capacity
  <2>1. a - b = Capacity * qa - Capacity * qb
    <3>1. Slot(a) \in Int /\ Capacity * qa \in Int /\ Capacity * qb \in Int
      BY <1>1, <1>4 DEF Slot
    <3>2. a = Capacity * qa + Slot(a) /\ b = Capacity * qb + Slot(a)
      BY <1>2, <1>3, <1>5 DEF qa, qb
    <3> QED BY <3>1, <3>2
  <2>2. Capacity * qa - Capacity * qb = (qa - qb) * Capacity
    BY <1>1, <1>4
  <2> QED BY <2>1, <2>2
<1>7. Sub(a, b) = (qa - qb) * Capacity \/ Sub(a, b) = (qa - qb + Laps) * Capacity
  BY <1>1, <1>4, <1>6 DEF Sub, IndexMod
<1> QED BY <1>1, <1>4, <1>7, NoSmallMultiple
-----------------------------------------------------------------------------
\* Unsigned subtraction stays in size_t.
LEMMA SubType ==
    ASSUME NEW a \in Index, NEW b \in Index
    PROVE  Sub(a, b) \in Index
BY ModulusFacts DEF Index, Sub

\* Two indices are equal exactly when their distance is 0 (try_pop's test).
LEMMA SubZero ==
    ASSUME NEW a \in Index, NEW b \in Index
    PROVE  Sub(a, b) = 0 <=> a = b
BY ModulusFacts DEF Index, Sub

\* Incrementing an index stays in size_t.
LEMMA AddType ==
    ASSUME NEW a \in Index, NEW k \in Index
    PROVE  Add(a, k) \in Index
BY ModulusFacts DEF Index, Add

\* Publishing (tail_ + 1) moves tail_ one further from a fixed index.
LEMMA SubAddLeft ==
    ASSUME NEW a \in Index, NEW b \in Index, Sub(a, b) + 1 < IndexMod
    PROVE  Sub(Add(a, 1), b) = Sub(a, b) + 1
BY ModulusFacts DEF Index, Sub, Add

\* Freeing (head_ + 1) brings head_ one closer to an index ahead of it.
LEMMA SubAddRight ==
    ASSUME NEW a \in Index, NEW b \in Index, a # b
    PROVE  Sub(a, Add(b, 1)) = Sub(a, b) - 1
BY ModulusFacts DEF Index, Sub, Add

\* A possibly stale load lies between what was seen and what is there.
LEMMA CoherentChain ==
    ASSUME NEW seen \in Index, NEW current \in Index,
           NEW v \in Coherent(seen, current)
    PROVE  /\ v \in Index
           /\ Sub(current, seen) = Sub(current, v) + Sub(v, seen)
BY ModulusFacts DEF Index, Sub, Coherent
-----------------------------------------------------------------------------
\* The initial indices and slots are well typed.
LEMMA TypeInit == Init => TypeOK
BY ModulusFacts DEF Init, TypeOK, Index

\* Every step of try_push, try_pop and size_approx keeps the types.
LEMMA TypeStep == TypeOK /\ [Next]_vars => TypeOK'
<1> SUFFICES ASSUME TypeOK, [Next]_vars PROVE TypeOK'
  OBVIOUS
<1> USE DEF TypeOK, producerVars, consumerVars
<1>0. 1 \in Index
  BY ModulusFacts DEF Index
<1>1. ASSUME NEW i \in Item, PushBegin(i) PROVE TypeOK'
  BY <1>1 DEF PushBegin
<1>2. CASE PushRefresh
  BY <1>2, CoherentChain DEF PushRefresh, Acquire
<1>3. CASE PushWrite
  BY <1>3 DEF PushWrite
<1>4. CASE PushPublish
  BY <1>0, <1>4, AddType DEF PushPublish
<1>5. CASE PopBegin
  BY <1>5 DEF PopBegin
<1>6. CASE PopRefresh
  BY <1>6, CoherentChain DEF PopRefresh, Acquire
<1>7. CASE PopRead
  <2>1. Slot(head_) \in 0 .. Capacity - 1
    BY SlotType, ModulusFacts DEF Index
  <2> QED BY <1>7, <2>1 DEF PopRead
<1>8. CASE PopFree
  BY <1>0, <1>8, AddType DEF PopFree
<1>9. CASE SizeApprox
  <2>1. PICK t \in Coherent(tail_cache_, tail_) : approx' = Sub(t, head_)
    BY <1>9 DEF SizeApprox
  <2>2. approx' \in Index
    BY <2>1, CoherentChain, SubType
  <2> QED BY <1>9, <2>2 DEF SizeApprox
<1>10. CASE UNCHANGED vars
  BY <1>10 DEF vars
<1> QED
  BY <1>1, <1>2, <1>3, <1>4, <1>5, <1>6, <1>7, <1>8, <1>9, <1>10 DEF Next, Push, Pop

\* The indices never leave size_t and the slots only hold payloads,
\* whatever the capacity.
THEOREM TypeCorrect == Spec => []TypeOK
BY TypeInit, TypeStep, PTL DEF Spec
-----------------------------------------------------------------------------
\* The distances between the four indices are natural numbers.
LEMMA SpaceTyped ==
    ASSUME TypeOK
    PROVE  /\ Sub(tail_, head_cache_) \in Nat /\ Sub(tail_, tail_cache_) \in Nat
           /\ Sub(tail_cache_, head_) \in Nat /\ Sub(head_, head_cache_) \in Nat
BY SubType, ModulusFacts DEF TypeOK, Index

\* The fresh ring satisfies the ring invariant.
LEMMA InvInit == Init => RingInv
BY ModulusFacts DEF Init, RingInv, IndicesOrdered, ProducerLocal, ConsumerLocal,
                    SyncIsCache, Sub, Full

\* Every step preserves the ring invariant: one case per memory access of
\* try_push and try_pop.
LEMMA InvStep == TypeOK /\ RingInv /\ [Next]_vars => RingInv'
<1> SUFFICES ASSUME TypeOK, RingInv, [Next]_vars PROVE RingInv'
  OBVIOUS
<1> USE DEF RingInv, SyncIsCache, producerVars, consumerVars
<1>0. /\ tail_ \in Index /\ head_cache_ \in Index
      /\ head_ \in Index /\ tail_cache_ \in Index
  BY DEF TypeOK
<1>1. ASSUME NEW i \in Item, PushBegin(i) PROVE RingInv'
  BY <1>1 DEF PushBegin, IndicesOrdered, ProducerLocal, ConsumerLocal, Full
<1>2. CASE PushRefresh
  <2>1. PICK h \in Coherent(head_cache_, head_) :
           /\ head_cache_' = h
           /\ pSync' = h
           /\ ppc' = IF Full(tail_, h) THEN "idle" ELSE "write"
    BY <1>2 DEF PushRefresh, Acquire
  <2>2. /\ h \in Index
        /\ Sub(head_, head_cache_) = Sub(head_, h) + Sub(h, head_cache_)
    BY <1>0, <2>1, CoherentChain
  <2>3. Sub(tail_, h) = Sub(tail_, head_cache_) - Sub(h, head_cache_)
    BY <1>0, <2>2, ModulusFacts DEF IndicesOrdered, Sub, Index
  <2>4. IndicesOrdered'
    <3>1. Sub(head_, h) \in Nat /\ Sub(h, head_cache_) \in Nat
      BY <1>0, <2>2, SubType, ModulusFacts DEF Index
    <3>2. Sub(tail_, h) = Sub(tail_, tail_cache_) + Sub(tail_cache_, head_) + Sub(head_, h)
      BY <2>2, <2>3, <3>1, SpaceTyped DEF IndicesOrdered
    <3>3. Sub(tail_, h) <= Capacity
      BY <2>3, <3>1, SpaceTyped, ModulusFacts DEF IndicesOrdered
    <3> QED BY <1>2, <2>1, <3>2, <3>3 DEF PushRefresh, IndicesOrdered
  <2>5. ProducerLocal'
    BY <1>2, <2>1 DEF PushRefresh, ProducerLocal, Full
  <2>6. ConsumerLocal'
    BY <1>2 DEF PushRefresh, ConsumerLocal
  <2> QED BY <1>2, <2>1, <2>4, <2>5, <2>6 DEF PushRefresh
<1>3. CASE PushWrite
  <2>1. IndicesOrdered'
    BY <1>3 DEF PushWrite, IndicesOrdered
  <2>2. ProducerLocal'
    <3>1. Slot(tail_) \in 0 .. Capacity - 1
      BY <1>0, SlotType, ModulusFacts DEF Index
    <3> QED BY <1>3, <3>1 DEF PushWrite, ProducerLocal, TypeOK, Full
  <2>3. ConsumerLocal'
    <3>1. CASE cpc = "free"
      <4>1. Sub(tail_, head_) > 0 /\ Sub(tail_, head_) < Capacity
        <5>1. Sub(tail_cache_, head_) # 0
          BY <1>0, <3>1, SubZero DEF ConsumerLocal
        <5>2. Sub(tail_, head_cache_) < Capacity
          <6>1. Sub(tail_, head_cache_) # Capacity
            BY <1>3 DEF PushWrite, ProducerLocal, Full
          <6> QED BY <6>1, SpaceTyped, ModulusFacts DEF IndicesOrdered
        <5>3. Sub(tail_, head_) = Sub(tail_, tail_cache_) + Sub(tail_cache_, head_)
          BY <1>0, ModulusFacts DEF IndicesOrdered, Sub, Index
        <5> QED BY <5>1, <5>2, <5>3, SpaceTyped, ModulusFacts DEF IndicesOrdered
      <4>2. Slot(tail_) # Slot(head_)
        BY <1>0, <4>1, SlotDistinct
      <4>3. Slot(head_) \in 0 .. Capacity - 1
        BY <1>0, SlotType, ModulusFacts DEF Index
      <4> QED BY <1>3, <4>2, <4>3 DEF PushWrite, ConsumerLocal, TypeOK
    <3>2. CASE cpc # "free"
      BY <1>3, <3>2 DEF PushWrite, ConsumerLocal
    <3> QED BY <3>1, <3>2
  <2> QED BY <1>3, <2>1, <2>2, <2>3 DEF PushWrite
<1>4. CASE PushPublish
  <2>1. Sub(tail_, head_cache_) < Capacity
    <3>1. Sub(tail_, head_cache_) # Capacity
      BY <1>4 DEF PushPublish, ProducerLocal, Full
    <3> QED BY <3>1, SpaceTyped, ModulusFacts DEF IndicesOrdered
  <2>2. /\ Sub(tail_', head_cache_) = Sub(tail_, head_cache_) + 1
        /\ Sub(tail_', tail_cache_) = Sub(tail_, tail_cache_) + 1
    BY <1>0, <1>4, <2>1, SubAddLeft, SpaceTyped, ModulusFacts
       DEF PushPublish, IndicesOrdered
  <2>3. IndicesOrdered'
    BY <1>4, <2>1, <2>2, SpaceTyped, ModulusFacts DEF PushPublish, IndicesOrdered
  <2> QED
    BY <1>4, <2>3 DEF PushPublish, ProducerLocal, ConsumerLocal
<1>5. CASE PopBegin
  BY <1>5 DEF PopBegin, IndicesOrdered, ProducerLocal, ConsumerLocal
<1>6. CASE PopRefresh
  <2>1. PICK t \in Coherent(tail_cache_, tail_) :
           /\ tail_cache_' = t
           /\ cSync' = t
           /\ cpc' = IF head_ = t THEN "idle" ELSE "read"
    BY <1>6 DEF PopRefresh, Acquire
  <2>2. /\ t \in Index
        /\ Sub(tail_, tail_cache_) = Sub(tail_, t) + Sub(t, tail_cache_)
    BY <1>0, <2>1, CoherentChain
  <2>3. Sub(tail_cache_, head_) = 0 /\ tail_cache_ = head_
    BY <1>0, <1>6, SubZero DEF PopRefresh, ConsumerLocal
  <2>4. IndicesOrdered'
    BY <1>0, <1>6, <2>1, <2>2, <2>3, SpaceTyped, SubType, ModulusFacts
       DEF PopRefresh, IndicesOrdered, Index
  <2>5. ConsumerLocal'
    BY <1>6, <2>1 DEF PopRefresh, ConsumerLocal
  <2>6. ProducerLocal'
    BY <1>6 DEF PopRefresh, ProducerLocal
  <2> QED BY <1>6, <2>1, <2>4, <2>5, <2>6 DEF PopRefresh
<1>7. CASE PopRead
  BY <1>7 DEF PopRead, IndicesOrdered, ProducerLocal, ConsumerLocal
<1>8. CASE PopFree
  <2>1. Sub(tail_cache_, head_') = Sub(tail_cache_, head_) - 1
    BY <1>0, <1>8, SubAddRight DEF PopFree, ConsumerLocal
  <2>2. Sub(head_', head_cache_) = Sub(head_, head_cache_) + 1
    <3>1. Sub(tail_cache_, head_) # 0
      BY <1>0, <1>8, SubZero DEF PopFree, ConsumerLocal
    <3> QED
      BY <1>0, <1>8, <3>1, SubAddLeft, SpaceTyped, ModulusFacts
         DEF PopFree, IndicesOrdered
  <2>3. IndicesOrdered'
    BY <1>8, <2>1, <2>2, SpaceTyped, ModulusFacts DEF PopFree, IndicesOrdered
  <2> QED BY <1>8, <2>3 DEF PopFree, ProducerLocal, ConsumerLocal
<1>9. CASE SizeApprox
  BY <1>9 DEF SizeApprox, IndicesOrdered, ProducerLocal, ConsumerLocal
<1>10. CASE UNCHANGED vars
  BY <1>10 DEF vars, IndicesOrdered, ProducerLocal, ConsumerLocal
<1> QED
  BY <1>1, <1>2, <1>3, <1>4, <1>5, <1>6, <1>7, <1>8, <1>9, <1>10 DEF Next, Push, Pop

\* In every behaviour of one producer and one consumer the four indices
\* stay in order, at most Capacity apart, and each thread's cached index is
\* one it has synchronised with (spsc.hpp, try_push and try_pop).
THEOREM RingInvariant == Spec => []RingInv
BY TypeInit, TypeStep, InvInit, InvStep, PTL DEF Spec
-----------------------------------------------------------------------------
\* The ring invariant excludes a data race on a slot.
LEMMA RaceFreeState == TypeOK /\ RingInv => NoDataRace
<1> SUFFICES ASSUME TypeOK, RingInv PROVE NoDataRace
  OBVIOUS
<1> USE DEF RingInv, SyncIsCache
<1>0. tail_ \in Index /\ head_ \in Index /\ tail_cache_ \in Index
  BY DEF TypeOK
<1>1. ppc = "write" => Sub(tail_, head_cache_) < Capacity
  <2>1. ppc = "write" => Sub(tail_, head_cache_) # Capacity
    BY DEF ProducerLocal, Full
  <2> QED BY <2>1, SpaceTyped, ModulusFacts DEF IndicesOrdered
<1>2. cpc = "read" => Sub(tail_cache_, head_) > 0
  <2>1. cpc = "read" => Sub(tail_cache_, head_) # 0
    BY <1>0, SubZero DEF ConsumerLocal
  <2> QED BY <2>1, SpaceTyped
<1>3. Sub(tail_cache_, head_) <= Capacity
  BY SpaceTyped, ModulusFacts DEF IndicesOrdered
<1>4. Sub(tail_, head_) = Sub(tail_, tail_cache_) + Sub(tail_cache_, head_)
  BY <1>0, ModulusFacts DEF IndicesOrdered, Sub, Index, TypeOK
<1>5. ASSUME ppc = "write", cpc = "read" PROVE Slot(tail_) # Slot(head_)
  <2>1. Sub(tail_, head_) > 0 /\ Sub(tail_, head_) < Capacity
    BY <1>1, <1>2, <1>4, <1>5, SpaceTyped, ModulusFacts DEF IndicesOrdered
  <2> QED BY <1>0, <2>1, SlotDistinct
<1>6. cpc = "read" => Sub(tail_cache_, head_) \in 1 .. Capacity
  BY <1>2, <1>3, SpaceTyped, ModulusFacts
<1> QED BY <1>1, <1>5, <1>6 DEF NoDataRace

\* The ring is free of data races for every capacity: acquire and release
\* on the two indices are enough, and the relaxed loads of a thread's own
\* index are harmless.
THEOREM RaceFreedom == Spec => []NoDataRace
BY TypeInit, TypeStep, InvInit, InvStep, RaceFreeState, PTL DEF Spec

\* size_approx subtracts a possibly stale tail_ from the caller's own head_.
LEMMA SizeStep ==
    TypeOK /\ RingInv /\ SizeApproxSound /\ [Next]_vars => SizeApproxSound'
<1> SUFFICES ASSUME TypeOK, RingInv, SizeApproxSound, [Next]_vars
             PROVE  SizeApproxSound'
  OBVIOUS
<1>1. CASE SizeApprox
  <2>1. PICK t \in Coherent(tail_cache_, tail_) : approx' = Sub(t, head_)
    BY <1>1 DEF SizeApprox
  <2>2. /\ tail_ \in Index /\ head_ \in Index
        /\ tail_cache_ \in Index /\ head_cache_ \in Index
    BY DEF TypeOK
  <2>3. /\ t \in Index
        /\ Sub(tail_, tail_cache_) = Sub(tail_, t) + Sub(t, tail_cache_)
    BY <2>1, <2>2, CoherentChain
  <2>4. Sub(t, head_) <= Capacity
    BY <2>2, <2>3, ModulusFacts DEF RingInv, IndicesOrdered, Sub, Index
  <2> QED BY <2>1, <2>4 DEF SizeApproxSound
<1>2. CASE ~SizeApprox
  <2>1. approx' = approx
    BY <1>2 DEF Next, Push, Pop, PushBegin, PushRefresh, PushWrite, PushPublish,
                PopBegin, PopRefresh, PopRead, PopFree, vars, consumerVars
  <2> QED BY <2>1 DEF SizeApproxSound
<1> QED BY <1>1, <1>2

\* size_approx, called by the consumer as run_logger does, never
\* underflows.
THEOREM SizeApproxCorrect == Spec => []SizeApproxSound
<1>1. Init => SizeApproxSound
  BY ModulusFacts DEF Init, SizeApproxSound
<1> QED
  BY <1>1, TypeInit, TypeStep, InvInit, InvStep, SizeStep, PTL DEF Spec
-----------------------------------------------------------------------------
\* The length of the abstract queue
Count == Sub(tail_, Taken)

\* Adding the distance to an index gives the other index.
LEMMA AddSub ==
    ASSUME NEW a \in Index, NEW b \in Index
    PROVE  Add(b, Sub(a, b)) = a
BY ModulusFacts DEF Index, Sub, Add

\* Index addition is associative where the ring uses it.
LEMMA AddAdd ==
    ASSUME NEW a \in Index, NEW k \in Nat, k + 1 < IndexMod
    PROVE  Add(Add(a, 1), k) = Add(a, k + 1)
BY ModulusFacts DEF Index, Add

\* Advancing from b towards a by less than their distance.
LEMMA SubAddBelow ==
    ASSUME NEW a \in Index, NEW b \in Index, NEW k \in Nat, k < Sub(a, b)
    PROVE  /\ Add(b, k) \in Index
           /\ Sub(a, Add(b, k)) = Sub(a, b) - k
BY ModulusFacts DEF Index, Sub, Add

\* The abstract queue never holds more than the producer believes.
LEMMA CountFacts ==
    ASSUME TypeOK, RingInv
    PROVE  /\ Taken \in Index /\ Count \in Nat
           /\ Count <= Sub(tail_, head_cache_) /\ Count <= Capacity
           /\ cpc = "read" => Count >= 1
<1>0. /\ tail_ \in Index /\ head_ \in Index
      /\ tail_cache_ \in Index /\ head_cache_ \in Index
  BY DEF TypeOK
<1>1. 1 \in Index
  BY ModulusFacts DEF Index
<1>2. Taken \in Index
  BY <1>0, <1>1, AddType DEF Taken
<1>3. Count \in Nat
  BY <1>0, <1>2, SubType, ModulusFacts DEF Count, Index
<1>4. Sub(tail_, head_) = Sub(tail_, tail_cache_) + Sub(tail_cache_, head_)
  BY <1>0, ModulusFacts DEF RingInv, IndicesOrdered, Sub, Index
<1>5. CASE cpc = "free"
  <2>1. Sub(tail_cache_, head_) # 0
    BY <1>0, <1>5, SubZero DEF RingInv, ConsumerLocal
  <2>2. tail_ # head_
    <3>1. Sub(tail_, head_) # 0
      BY <1>4, <2>1, SpaceTyped
    <3> QED BY <1>0, <3>1, SubZero
  <2>3. Count = Sub(tail_, head_) - 1
    BY <1>0, <1>5, <2>2, SubAddRight DEF Count, Taken
  <2> QED BY <1>2, <1>3, <1>4, <1>5, <2>3, SpaceTyped, ModulusFacts
             DEF RingInv, IndicesOrdered
<1>6. CASE cpc # "free"
  <2>1. Count = Sub(tail_, head_)
    BY <1>6 DEF Count, Taken
  <2>2. cpc = "read" => Sub(tail_cache_, head_) # 0
    BY <1>0, SubZero DEF RingInv, ConsumerLocal
  <2> QED BY <1>2, <1>3, <1>4, <2>1, <2>2, SpaceTyped, ModulusFacts
             DEF RingInv, IndicesOrdered
<1> QED BY <1>5, <1>6

\* The mapped queue is a sequence of payloads.
LEMMA ContentsSeq ==
    ASSUME TypeOK, RingInv
    PROVE  /\ Contents \in Seq(Item \cup {NoItem})
           /\ Len(Contents) = Count
<1>1. \A i \in 1 .. Count : buf_[Slot(Add(Taken, i - 1))] \in Item \cup {NoItem}
  <2> TAKE i \in 1 .. Count
  <2>1. Add(Taken, i - 1) \in Index
    BY CountFacts, SubAddBelow DEF TypeOK, Count
  <2>2. Slot(Add(Taken, i - 1)) \in 0 .. Capacity - 1
    BY <2>1, SlotType, ModulusFacts DEF Index
  <2> QED BY <2>2 DEF TypeOK
<1>2. Contents \in [1 .. Count -> Item \cup {NoItem}]
  BY <1>1 DEF Contents, Count
<1> QED BY <1>2, CountFacts
\* A step that moves no index and writes no slot leaves the queue alone.
LEMMA QuietStep ==
    ASSUME tail_' = tail_, Taken' = Taken, buf_' = buf_
    PROVE  Contents' = Contents
BY DEF Contents, Sub, Add, Slot, IndexMod

\* Writing the slot behind tail_ changes no item of the queue.
LEMMA WriteQuiet ==
    ASSUME TypeOK, RingInv, PushWrite
    PROVE  Contents' = Contents
<1>0. tail_ \in Index
  BY DEF TypeOK
<1>1. tail_' = tail_ /\ Taken' = Taken
  BY DEF PushWrite, consumerVars, Taken, Add, IndexMod
<1>2. Count < Capacity
  <2>1. Sub(tail_, head_cache_) # Capacity
    BY DEF PushWrite, RingInv, ProducerLocal, Full
  <2> QED BY <2>1, CountFacts, SpaceTyped, ModulusFacts DEF RingInv, IndicesOrdered
<1>3. \A i \in 1 .. Count :
         buf_'[Slot(Add(Taken, i - 1))] = buf_[Slot(Add(Taken, i - 1))]
  <2> TAKE i \in 1 .. Count
  <2>1. /\ Add(Taken, i - 1) \in Index
        /\ Sub(tail_, Add(Taken, i - 1)) = Count - (i - 1)
    BY <1>0, CountFacts, SubAddBelow DEF Count
  <2>2. Slot(tail_) # Slot(Add(Taken, i - 1))
    BY <1>0, <1>2, <2>1, CountFacts, SlotDistinct, ModulusFacts
  <2>3. Slot(Add(Taken, i - 1)) \in 0 .. Capacity - 1
    BY <2>1, SlotType, ModulusFacts DEF Index
  <2> QED BY <2>2, <2>3 DEF PushWrite, TypeOK
<1>4. Contents' = [i \in 1 .. Count |-> buf_'[Slot(Add(Taken, i - 1))]]
  BY <1>1 DEF Contents, Count, Sub, Add, Slot, IndexMod
<1> QED BY <1>3, <1>4 DEF Contents, Count

\* The release store of tail_ is the abstract Put.
LEMMA PublishPuts ==
    ASSUME TypeOK, RingInv, PushPublish
    PROVE  /\ Len(Contents) < Capacity
           /\ Contents' = Append(Contents, item)
           /\ item \in Item
<1>0. tail_ \in Index /\ Taken \in Index
  BY CountFacts DEF TypeOK
<1>1. Taken' = Taken /\ buf_' = buf_ /\ tail_' = Add(tail_, 1)
  BY DEF PushPublish, consumerVars, Taken, Add, IndexMod
<1>2. Count < Capacity /\ Count \in Nat
  <2>1. Sub(tail_, head_cache_) # Capacity
    BY DEF PushPublish, RingInv, ProducerLocal, Full
  <2> QED BY <2>1, CountFacts, SpaceTyped, ModulusFacts DEF RingInv, IndicesOrdered
<1>3. Sub(Add(tail_, 1), Taken) = Count + 1
  BY <1>0, <1>2, SubAddLeft, ModulusFacts DEF Count
<1>4. Contents' = [i \in 1 .. Count + 1 |-> buf_[Slot(Add(Taken, i - 1))]]
  <2>1. Contents' = [i \in 1 .. Sub(Add(tail_, 1), Taken) |->
                        buf_[Slot(Add(Taken, i - 1))]]
    BY <1>1 DEF Contents, Sub, Add, Slot, IndexMod
  <2> QED BY <1>3, <2>1
<1>5. buf_[Slot(Add(Taken, Count))] = item
  <2>1. Add(Taken, Count) = tail_
    BY <1>0, AddSub DEF Count
  <2> QED BY <2>1 DEF PushPublish, RingInv, ProducerLocal
<1>6. Contents = [i \in 1 .. Count |-> buf_[Slot(Add(Taken, i - 1))]]
  BY DEF Contents, Count
<1>7. Contents' = Append(Contents, item)
  BY <1>2, <1>4, <1>5, <1>6, ContentsSeq
<1>8. item \in Item
  BY DEF PushPublish, RingInv, ProducerLocal
<1> QED BY <1>2, <1>7, <1>8, ContentsSeq

\* Copying the slot out is the abstract Get.
LEMMA ReadGets ==
    ASSUME TypeOK, RingInv, PopRead
    PROVE  /\ Contents # << >>
           /\ out' = Head(Contents)
           /\ Contents' = Tail(Contents)
<1>0. tail_ \in Index /\ head_ \in Index
  BY DEF TypeOK
<1>1. /\ Taken = head_ /\ Taken' = Add(head_, 1)
      /\ tail_' = tail_ /\ buf_' = buf_ /\ out' = buf_[Slot(head_)]
  BY DEF PopRead, producerVars, Taken, Add, IndexMod
<1>2. Count \in Nat /\ Count >= 1 /\ Count <= Capacity
  BY CountFacts DEF PopRead
<1>3. Contents = [i \in 1 .. Count |-> buf_[Slot(Add(head_, i - 1))]]
  BY <1>1 DEF Contents, Count
<1>4. Add(head_, 0) = head_
  BY <1>0, ModulusFacts DEF Add, Index
<1>5. out' = Head(Contents) /\ Contents # << >>
  <2>1. Contents \in Seq(Item \cup {NoItem}) /\ Len(Contents) = Count
    BY ContentsSeq
  <2>2. Contents[1] = buf_[Slot(Add(head_, 0))]
    BY <1>2, <1>3
  <2> QED BY <1>1, <1>2, <1>4, <2>1, <2>2
<1>6. Contents' = [i \in 1 .. Count - 1 |-> buf_[Slot(Add(Add(head_, 1), i - 1))]]
  <2>1. Contents' = [i \in 1 .. Sub(tail_, Add(head_, 1)) |->
                        buf_[Slot(Add(Add(head_, 1), i - 1))]]
    BY <1>1 DEF Contents, Sub, Add, Slot, IndexMod
  <2>2. tail_ # head_
    BY <1>0, <1>1, <1>2, SubZero DEF Count
  <2>3. Sub(tail_, Add(head_, 1)) = Count - 1
    BY <1>0, <1>1, <2>2, SubAddRight DEF Count
  <2> QED BY <2>1, <2>3
<1>7. \A i \in 1 .. Count - 1 : Add(Add(head_, 1), i - 1) = Add(head_, i)
  <2> TAKE i \in 1 .. Count - 1
  <2>1. i - 1 \in Nat /\ (i - 1) + 1 < IndexMod /\ (i - 1) + 1 = i
    BY <1>2, ModulusFacts
  <2> QED BY <1>0, <2>1, AddAdd
<1>8. Contents' = [i \in 1 .. Count - 1 |-> buf_[Slot(Add(head_, i))]]
  BY <1>6, <1>7
<1>9. Contents' = Tail(Contents)
  BY <1>2, <1>3, <1>8, ContentsSeq
<1> QED BY <1>5, <1>9

\* Handing the slot back leaves the queue as the copy left it.
LEMMA FreeQuiet ==
    ASSUME TypeOK, RingInv, PopFree
    PROVE  Contents' = Contents
<1>1. tail_' = tail_ /\ buf_' = buf_ /\ Taken' = Taken
  BY DEF PopFree, producerVars, Taken
<1> QED BY <1>1, QuietStep

\* Every step of the ring is a step of the abstract queue, or none.
LEMMA RefinementStep ==
    TypeOK /\ RingInv /\ [Next]_vars => [Fifo!Next]_(Fifo!vars)
<1> SUFFICES ASSUME TypeOK, RingInv, [Next]_vars
             PROVE  [Fifo!Next]_(Fifo!vars)
  OBVIOUS
<1> USE DEF Fifo!vars, producerVars, consumerVars
<1>1. ASSUME NEW i \in Item, PushBegin(i) PROVE UNCHANGED Fifo!vars
  <2>1. tail_' = tail_ /\ buf_' = buf_ /\ Taken' = Taken /\ out' = out
    BY <1>1 DEF PushBegin, Taken, Add, IndexMod
  <2> QED BY <2>1, QuietStep
<1>2. CASE PushRefresh
  <2>1. tail_' = tail_ /\ buf_' = buf_ /\ Taken' = Taken /\ out' = out
    BY <1>2 DEF PushRefresh, Taken, Add, IndexMod
  <2> QED BY <2>1, QuietStep
<1>3. CASE PushWrite
  BY <1>3, WriteQuiet DEF PushWrite
<1>4. CASE PushPublish
  <2>1. Fifo!Put(item)
    BY <1>4, PublishPuts DEF Fifo!Put, PushPublish
  <2> QED BY <1>4, <2>1, PublishPuts DEF Fifo!Next
<1>5. CASE PopBegin
  <2>1. tail_' = tail_ /\ buf_' = buf_ /\ Taken' = Taken /\ out' = out
    BY <1>5 DEF PopBegin, Taken, Add, IndexMod
  <2> QED BY <2>1, QuietStep
<1>6. CASE PopRefresh
  <2>1. tail_' = tail_ /\ buf_' = buf_ /\ Taken' = Taken /\ out' = out
    BY <1>6 DEF PopRefresh, Taken, Add, IndexMod
  <2> QED BY <2>1, QuietStep
<1>7. CASE PopRead
  <2>1. Fifo!Get
    BY <1>7, ReadGets DEF Fifo!Get
  <2> QED BY <2>1 DEF Fifo!Next
<1>8. CASE PopFree
  BY <1>8, FreeQuiet DEF PopFree
<1>9. CASE SizeApprox
  <2>1. tail_' = tail_ /\ buf_' = buf_ /\ Taken' = Taken /\ out' = out
    BY <1>9 DEF SizeApprox, Taken, Add, IndexMod
  <2> QED BY <2>1, QuietStep
<1>10. CASE UNCHANGED vars
  <2>1. tail_' = tail_ /\ buf_' = buf_ /\ Taken' = Taken /\ out' = out
    BY <1>10 DEF vars, Taken, Add, IndexMod
  <2> QED BY <2>1, QuietStep
<1> QED
  BY <1>1, <1>2, <1>3, <1>4, <1>5, <1>6, <1>7, <1>8, <1>9, <1>10 DEF Next, Push, Pop

\* The fresh ring is the empty queue.
LEMMA RefinementInit == Init => Fifo!Init
<1> SUFFICES ASSUME Init PROVE Fifo!Init
  OBVIOUS
<1>1. Sub(tail_, Taken) = 0
  BY ModulusFacts DEF Init, Taken, Sub
<1>2. Contents = << >>
  BY <1>1 DEF Contents
<1> QED BY <1>2 DEF Init, Fifo!Init

\* ts::SpscRing implements a bounded FIFO queue, for every capacity and
\* every width of the index, with loads as stale as coherence allows.
THEOREM RingRefinesFifo == Spec => ImplementsFifo
<1> USE DEF ImplementsFifo, Fifo!Spec
<1>1. Init => Fifo!Init
  BY RefinementInit
<1>2. TypeOK /\ RingInv /\ [Next]_vars => [Fifo!Next]_(Fifo!vars)
  BY RefinementStep
<1> QED
  BY <1>1, <1>2, TypeInit, TypeStep, InvInit, InvStep, PTL DEF Spec
=============================================================================
