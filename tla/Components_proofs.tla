-------------------------- MODULE Components_proofs --------------------------
(***************************************************************************)
(* The parts beside the pipeline, each proved on its own.                  *)
(* The free list of ObjectPool<T, N> is intact after any sequence of       *)
(* acquire, use and release, for every N, and so the pool is the plain set *)
(* of objects that ResourcePool describes.                                 *)
(* FlatMap<V, Cap> is the map that BoundedMap describes, for every power   *)
(* of two, every set of keys and every sequence of put: no probe path      *)
(* ever has a gap, so get finds what put stored, and put refuses a key     *)
(* only when the table is full.                                            *)
(* The calibration of TscClock and the pacing of run_market_data, for      *)
(* every rate of the counter, every period and every delay between two     *)
(* reads of a clock.                                                       *)
(* What the engine's main sets up before the pipeline: the slices of an    *)
(* arena are sound, engine_hugepages tells the truth, a thread under       *)
(* SCHED_FIFO has a core to itself and no thread is starved, whatever the  *)
(* sizes, the cores, the options and the failures.                         *)
(***************************************************************************)
EXTENDS ObjectPool, FlatMap, Clock, StartUp, NaturalFacts
-----------------------------------------------------------------------------
(* ObjectPool                                                              *)

PoolTyped == /\ slots_ \in [Slot -> Link \cup Value \cup {Fresh}]
             /\ free_ \in Link
             /\ held \in SUBSET Slot

\* Slots that nobody holds
FreeCount == N - Cardinality(held)

\* The free list as a path: what FreeListExact says there is.
Path(p) == p \in [1..FreeCount -> Slot \ held] /\ Threads(p, FreeCount)

\* The slots are finitely many, so what is held and what is free can be counted.
LEMMA HeldFinite ==
    ASSUME PoolTyped
    PROVE  /\ IsFiniteSet(held) /\ Cardinality(held) \in Nat
           /\ FreeCount \in 0..N
           /\ FreeCount = 0 <=> held = Slot
<1>1. N \in Nat /\ N >= 1
  BY PoolAssumption
<1>2. IsFiniteSet(Slot) /\ Cardinality(Slot) = N
  BY <1>1, FS_Interval DEF Slot
<1>3. IsFiniteSet(held) /\ Cardinality(held) <= N /\ (N = Cardinality(held) => Slot = held)
  BY <1>2, FS_Subset DEF PoolTyped
<1>4. Cardinality(held) \in Nat
  BY <1>3, FS_CardinalityType
<1>5. held = Slot => Cardinality(held) = N
  BY <1>2
<1> QED BY <1>1, <1>3, <1>4, <1>5 DEF FreeCount

\* A slot more or less in the callers' hands.
LEMMA HeldChanges ==
    ASSUME PoolTyped, NEW s \in Slot
    PROVE  /\ s \notin held => Cardinality(held \cup {s}) = Cardinality(held) + 1
           /\ s \in held => Cardinality(held \ {s}) = Cardinality(held) - 1
BY HeldFinite, FS_AddElement, FS_RemoveElement

\* The constructor links all slots in order.
LEMMA PoolStart == PoolInit => PoolTyped /\ FreeListExact
<1> SUFFICES ASSUME PoolInit PROVE PoolTyped /\ FreeListExact
  OBVIOUS
<1>1. N \in Nat /\ N >= 1
  BY PoolAssumption
<1>2. PoolTyped
  BY <1>1 DEF PoolInit, PoolTyped, Slot, Link, nullptr
<1>3. Cardinality(held) = 0
  BY FS_EmptySet DEF PoolInit
<1> DEFINE p == [i \in 1..N |-> i]
<1>4. p \in [1..N -> Slot \ held] /\ Threads(p, N)
  BY <1>1 DEF PoolInit, Threads, Slot
<1> QED BY <1>1, <1>2, <1>3, <1>4 DEF FreeListExact

\* The first free slot, where there is one.
LEMMA FirstFree ==
    ASSUME PoolTyped, NEW p, Path(p)
    PROVE  /\ free_ = nullptr <=> FreeCount = 0
           /\ free_ # nullptr => free_ = p[1] /\ free_ \in Slot \ held
<1>1. FreeCount \in Nat
  BY HeldFinite, PoolAssumption
<1>2. CASE FreeCount = 0
  BY <1>2 DEF Path, Threads
<1>3. CASE FreeCount # 0
  <2>1. 1 \in 1..FreeCount
    BY <1>1, <1>3
  <2>2. p[1] \in Slot \ held /\ free_ = p[1]
    BY <1>3, <2>1 DEF Path, Threads
  <2>3. 0 \notin Slot
    BY PoolAssumption DEF Slot
  <2> QED BY <1>3, <2>2, <2>3 DEF nullptr
<1> QED BY <1>2, <1>3

\* acquire takes the head of the list and follows its link, which it reads
\* before the object is constructed over it.
LEMMA AcquireKeeps ==
    ASSUME PoolTyped, FreeListExact, acquire
    PROVE  PoolTyped' /\ FreeListExact'
<1>0. PICK k : k = FreeCount
  OBVIOUS
<1>1. PICK p : Path(p)
  BY DEF FreeListExact, Path, FreeCount
<1>2. free_ = p[1] /\ free_ \in Slot \ held /\ k # 0
  BY <1>0, <1>1, FirstFree DEF acquire
<1>3. k \in Nat /\ k >= 1 /\ N \in Nat /\ Cardinality(held) \in Nat
  BY <1>0, <1>2, HeldFinite, PoolAssumption
<1>4. N - Cardinality(held') = k - 1
  <2>1. Cardinality(held') = Cardinality(held) + 1
    BY <1>2, HeldChanges DEF acquire
  <2> QED BY <1>0, <1>3, <2>1 DEF FreeCount
<1>5. /\ p \in [1..k -> Slot \ held]
      /\ \A i, j \in 1..k : p[i] = p[j] => i = j
      /\ \A i \in 1..k : slots_[p[i]] = (IF i = k THEN nullptr ELSE p[i + 1])
  BY <1>0, <1>1 DEF Path, Threads
<1>6. PoolTyped'
  <2>1. slots_[free_] \in Link
    <3>1. slots_[p[1]] = (IF 1 = k THEN nullptr ELSE p[2])
      BY <1>3, <1>5
    <3>2. k # 1 => p[2] \in Slot
      BY <1>3, <1>5
    <3> QED BY <1>2, <1>3, <3>1, <3>2 DEF Slot, Link, nullptr
  <2> QED BY <1>2, <2>1 DEF acquire, PoolTyped
<1>q. PICK q : q = [i \in 1..k - 1 |-> p[i + 1]]
  OBVIOUS
<1>7. \A i \in 1..k - 1 : /\ i + 1 \in 1..k /\ q[i] = p[i + 1] /\ p[i + 1] \in Slot \ held
                          /\ p[i + 1] # free_ /\ slots_'[p[i + 1]] = slots_[p[i + 1]]
  <2> TAKE i \in 1..k - 1
  <2>1. i + 1 \in 1..k /\ 1 \in 1..k /\ i + 1 # 1
    BY <1>3
  <2>2. p[i + 1] # p[1]
    BY <1>5, <2>1
  <2>3. p[i + 1] \in Slot \ held
    BY <1>5, <2>1
  <2> QED BY <1>2, <1>q, <2>1, <2>2, <2>3 DEF acquire, PoolTyped
<1>8. q \in [1..k - 1 -> Slot \ held']
  BY <1>2, <1>7, <1>q DEF acquire
<1>9. Threads(q, k - 1)'
  <2>1. \A i, j \in 1..k - 1 : q[i] = q[j] => i = j
    BY <1>3, <1>5, <1>7
  <2>2. free_' = (IF k - 1 = 0 THEN nullptr ELSE q[1])
    <3>1. free_' = slots_[p[1]]
      BY <1>2 DEF acquire
    <3>2. slots_[p[1]] = (IF 1 = k THEN nullptr ELSE p[1 + 1])
      BY <1>3, <1>5
    <3>3. k # 1 => q[1] = p[1 + 1]
      BY <1>3, <1>q
    <3> QED BY <1>3, <3>1, <3>2, <3>3
  <2>3. ASSUME NEW i \in 1..k - 1
        PROVE  slots_'[q[i]] = (IF i = k - 1 THEN nullptr ELSE q[i + 1])
    <3>1. slots_'[q[i]] = (IF i + 1 = k THEN nullptr ELSE p[i + 1 + 1])
      BY <1>5, <1>7
    <3>2. i # k - 1 => i + 1 \in 1..k - 1
      BY <1>3
    <3>3. i # k - 1 => q[i + 1] = p[i + 1 + 1]
      BY <3>2, <1>q
    <3> QED BY <1>3, <3>1, <3>3
  <2> QED BY <2>1, <2>2, <2>3 DEF Threads
<1> QED BY <1>4, <1>6, <1>8, <1>9 DEF FreeListExact

\* release puts the slot in front of the list.
LEMMA ReleaseKeeps ==
    ASSUME PoolTyped, FreeListExact, NEW s \in Slot, release(s)
    PROVE  PoolTyped' /\ FreeListExact'
<1>0. PICK k : k = FreeCount
  OBVIOUS
<1>1. PICK p : Path(p)
  BY DEF FreeListExact, Path, FreeCount
<1>2. s \in held /\ held' = held \ {s} /\ free_' = s /\ slots_' = [slots_ EXCEPT ![s] = free_]
  BY DEF release
<1>3. k \in Nat /\ N \in Nat /\ Cardinality(held) \in Nat
  BY <1>0, HeldFinite, PoolAssumption
<1>4. N - Cardinality(held') = k + 1
  <2>1. Cardinality(held') = Cardinality(held) - 1
    BY <1>2, HeldChanges
  <2> QED BY <1>0, <1>3, <2>1 DEF FreeCount
<1>5. /\ p \in [1..k -> Slot \ held]
      /\ \A i, j \in 1..k : p[i] = p[j] => i = j
      /\ free_ = (IF k = 0 THEN nullptr ELSE p[1])
      /\ \A i \in 1..k : slots_[p[i]] = (IF i = k THEN nullptr ELSE p[i + 1])
  BY <1>0, <1>1 DEF Path, Threads
<1>6. PoolTyped'
  BY <1>2, PoolAssumption DEF PoolTyped, Slot, Link
<1>q. PICK q : q = [i \in 1..k + 1 |-> IF i = 1 THEN s ELSE p[i - 1]]
  OBVIOUS
<1>7. q[1] = s /\ slots_'[s] = free_
  BY <1>2, <1>3, <1>q DEF PoolTyped
<1>8. \A i \in 1..k + 1 : i # 1 =>
         /\ i - 1 \in 1..k /\ q[i] = p[i - 1] /\ p[i - 1] \in Slot \ held
         /\ p[i - 1] # s /\ slots_'[p[i - 1]] = slots_[p[i - 1]]
  <2> SUFFICES ASSUME NEW i \in 1..k + 1, i # 1
               PROVE  /\ i - 1 \in 1..k /\ q[i] = p[i - 1] /\ p[i - 1] \in Slot \ held
                      /\ p[i - 1] # s /\ slots_'[p[i - 1]] = slots_[p[i - 1]]
    OBVIOUS
  <2>1. i - 1 \in 1..k
    BY <1>3
  <2>2. p[i - 1] \in Slot \ held
    BY <1>5, <2>1
  <2> QED BY <1>2, <1>q, <2>1, <2>2 DEF PoolTyped
<1>9. q \in [1..k + 1 -> Slot \ held']
  BY <1>2, <1>8, <1>q
<1>10. Threads(q, k + 1)'
  <2>1. ASSUME NEW i \in 1..k + 1, NEW j \in 1..k + 1, q[i] = q[j] PROVE i = j
    <3>1. CASE i = 1 \/ j = 1
      BY <1>7, <1>8, <2>1, <3>1
    <3>2. CASE i # 1 /\ j # 1
      <4>1. p[i - 1] = p[j - 1] /\ i - 1 \in 1..k /\ j - 1 \in 1..k
        BY <1>8, <2>1, <3>2
      <4>2. i - 1 = j - 1
        BY <1>5, <4>1
      <4> QED BY <1>3, <4>2
    <3> QED BY <3>1, <3>2
  <2>2. free_' = (IF k + 1 = 0 THEN nullptr ELSE q[1])
    BY <1>2, <1>3, <1>7
  <2>3. ASSUME NEW i \in 1..k + 1
        PROVE  slots_'[q[i]] = (IF i = k + 1 THEN nullptr ELSE q[i + 1])
    <3>1. CASE i = 1
      <4>1. k # 0 => q[2] = p[1]
        BY <1>3, <1>q
      <4> QED BY <1>3, <1>5, <1>7, <3>1, <4>1
    <3>2. CASE i # 1
      <4>1. slots_'[q[i]] = slots_[p[i - 1]] /\ i - 1 \in 1..k
        BY <1>8, <3>2
      <4>2. slots_[p[i - 1]] = (IF i - 1 = k THEN nullptr ELSE p[i - 1 + 1])
        BY <1>5, <4>1
      <4>3. i # k + 1 => q[i + 1] = p[i]
        BY <1>3, <1>q, <3>2
      <4> QED BY <1>3, <4>1, <4>2, <4>3
    <3> QED BY <3>1, <3>2
  <2> QED BY <2>1, <2>2, <2>3 DEF Threads
<1> QED BY <1>4, <1>6, <1>9, <1>10 DEF FreeListExact

\* A holder writes into slots off the list.
LEMMA UseKeeps ==
    ASSUME PoolTyped, FreeListExact, NEW s \in Slot, NEW v \in Value, use(s, v)
    PROVE  PoolTyped' /\ FreeListExact'
<1>1. PICK p : Path(p)
  BY DEF FreeListExact, Path, FreeCount
<1>2. s \in held /\ slots_' = [slots_ EXCEPT ![s] = v] /\ UNCHANGED <<free_, held>>
  BY DEF use
<1>3. PoolTyped'
  BY <1>2 DEF PoolTyped
<1>4. \A i \in 1..FreeCount : p[i] \in Slot /\ p[i] # s /\ slots_'[p[i]] = slots_[p[i]]
  BY <1>1, <1>2 DEF Path, PoolTyped
<1>5. PICK k : k = FreeCount
  OBVIOUS
<1>6. Threads(p, k)'
  BY <1>1, <1>2, <1>4, <1>5 DEF Path, Threads
<1>7. p \in [1..k -> Slot \ held'] /\ k = N - Cardinality(held')
  BY <1>1, <1>2, <1>5 DEF Path, FreeCount
<1> QED BY <1>3, <1>6, <1>7 DEF FreeListExact

\* Every call keeps the list exact.
LEMMA PoolStep == PoolTyped /\ FreeListExact /\ [PoolNext]_poolVars => PoolTyped' /\ FreeListExact'
<1> SUFFICES ASSUME PoolTyped, FreeListExact, [PoolNext]_poolVars
             PROVE  PoolTyped' /\ FreeListExact'
  OBVIOUS
<1>1. CASE acquireDrained \/ UNCHANGED poolVars
  <2>1. UNCHANGED <<slots_, free_, held>>
    BY <1>1 DEF acquireDrained, poolVars
  <2>2. PoolTyped'
    BY <2>1 DEF PoolTyped
  <2>3. PICK p : Path(p)
    BY DEF FreeListExact, Path, FreeCount
  <2>4. PICK k : k = FreeCount
    OBVIOUS
  <2>5. Threads(p, k)' /\ p \in [1..k -> Slot \ held'] /\ k = N - Cardinality(held')
    BY <2>1, <2>3, <2>4 DEF Path, Threads, FreeCount
  <2> QED BY <2>2, <2>5 DEF FreeListExact
<1> QED BY <1>1, AcquireKeeps, ReleaseKeeps, UseKeeps DEF PoolNext

\* The links from free_ pass every free slot exactly once, however acquire,
\* release and the holders' writes are interleaved.
THEOREM FreeListIsExact == PoolSpec => []FreeListExact
BY PoolStart, PoolStep, PTL DEF PoolSpec

\* Each call is a step of the plain pool: acquire returns a slot that nobody
\* holds, and nullptr only when all are held.
LEMMA PoolSimulates ==
    PoolTyped /\ FreeListExact /\ [PoolNext]_poolVars => [Pool!Next]_(Pool!vars)
<1> SUFFICES ASSUME PoolTyped, FreeListExact, [PoolNext]_poolVars
             PROVE  [Pool!Next]_(Pool!vars)
  OBVIOUS
<1> DEFINE contents == [s \in held |-> slots_[s]]
<1>1. PICK p : Path(p)
  BY DEF FreeListExact, Path, FreeCount
<1>2. CASE acquire
  <2>1. PICK s \in Slot : s = free_ /\ s \notin held
    BY <1>1, <1>2, FirstFree DEF acquire
  <2>2. contents' = [t \in held' |-> IF t = s THEN Fresh ELSE contents[t]]
    BY <1>2, <2>1 DEF acquire, PoolTyped
  <2>3. Pool!Acquire(s)
    BY <1>2, <2>1, <2>2 DEF acquire, Pool!Acquire
  <2> QED BY <2>3 DEF Pool!Next
<1>3. CASE acquireDrained
  <2>1. held = Slot
    BY <1>1, <1>3, FirstFree, HeldFinite DEF acquireDrained
  <2>2. contents' = contents
    BY <1>3 DEF acquireDrained
  <2>3. Pool!Refuse
    BY <1>3, <2>1, <2>2 DEF acquireDrained, Pool!Refuse
  <2> QED BY <2>3 DEF Pool!Next
<1>4. ASSUME NEW s \in Slot, release(s) PROVE Pool!Next
  <2>1. contents' = [t \in held' |-> contents[t]]
    BY <1>4 DEF release, PoolTyped
  <2>2. Pool!Release(s)
    BY <1>4, <2>1 DEF release, Pool!Release
  <2> QED BY <2>2 DEF Pool!Next
<1>5. ASSUME NEW s \in Slot, NEW v \in Value, use(s, v) PROVE Pool!Next
  <2>1. contents' = [contents EXCEPT ![s] = v]
    BY <1>5 DEF use, PoolTyped
  <2>2. Pool!Write(s, v)
    BY <1>5, <2>1 DEF use, Pool!Write
  <2> QED BY <2>2 DEF Pool!Next
<1>6. CASE UNCHANGED poolVars
  BY <1>6 DEF poolVars, Pool!vars
<1> QED BY <1>2, <1>3, <1>4, <1>5, <1>6 DEF PoolNext

\* The intrusive list is invisible to the callers: the pool implements the
\* set of objects of ResourcePool.
THEOREM PoolRefines == PoolSpec => ImplementsPool
<1>1. PoolInit => Pool!Init
  BY DEF PoolInit, Pool!Init
<1> QED
  BY <1>1, PoolStart, PoolStep, PoolSimulates, PTL DEF PoolSpec, ImplementsPool, Pool!Spec

-----------------------------------------------------------------------------
(* FlatMap                                                                 *)

Used == {i \in Index : table[i].used}
Slots == [used : BOOLEAN, key : Nat, val : Val \cup {NoVal}]

MapTyped == /\ table \in [Index -> Slots]
            /\ \A i \in Used : table[i].key \in Key /\ table[i].val \in Val
            /\ size_ = Cardinality(Used)

\* No key is stored twice.
NoDuplicate == \A i, j \in Used : table[i].key = table[j].key => i = j

\* A key is reached from its hash without passing an unused slot.
Reached(i, k) == \E p \in Probe : At(k, p) = i /\ \A q \in Earlier(p) : At(k, q) \in Used
NoGap == \A i \in Used : Reached(i, table[i].key)

MapInv == MapTyped /\ NoDuplicate /\ NoGap

\* The capacity is a positive number.
LEMMA CapPositive == Cap \in Nat /\ Cap >= 1
BY MapAssumption, PowerDoubles DEF Cap

\* The hash is an index.
LEMMA HashIsIndex == ASSUME NEW k \in Key PROVE hash(k) \in Index
<1>1. k \in Nat
  BY MapAssumption
<1>2. PICK a \in Nat : a = k % (2 * Cap)
  BY <1>1, CapPositive
<1>3. PICK c \in Nat : c = Multiplier % (2 * Cap)
  BY CapPositive, MapAssumption
<1>4. PICK x \in Nat : x = a * c
  OBVIOUS
<1>5. PICK y \in Nat : y = x \div 2
  OBVIOUS
<1>6. y % Cap \in 0..(Cap - 1)
  BY CapPositive
<1> QED BY <1>2, <1>3, <1>4, <1>5, <1>6 DEF hash, Index

\* The probes of a key visit every slot once.
LEMMA ProbesCover ==
    ASSUME NEW k \in Key
    PROVE  /\ \A p \in Probe : At(k, p) \in Index
           /\ \A i \in Index : \E p \in Probe : At(k, p) = i
           /\ \A p, q \in Probe : At(k, p) = At(k, q) => p = q
<1>1. PICK h \in Index : h = hash(k)
  BY HashIsIndex
<1>2. \A p \in Probe : At(k, p) = IF h + p < Cap THEN h + p ELSE h + p - Cap
  <2> TAKE p \in Probe
  <2>1. h + p \in Nat /\ h + p < Cap => (h + p) % Cap = h + p
    BY CapPositive DEF Index, Probe
  <2>2. h + p >= Cap => (h + p) % Cap = h + p - Cap
    BY CapPositive DEF Index, Probe
  <2> QED BY <1>1, <2>1, <2>2, CapPositive DEF At, Index, Probe
<1>3. \A p \in Probe : At(k, p) \in Index
  BY <1>2, CapPositive DEF Index, Probe
<1>4. \A p, q \in Probe : At(k, p) = At(k, q) => p = q
  BY <1>2, CapPositive DEF Index, Probe
<1>5. ASSUME NEW i \in Index PROVE \E p \in Probe : At(k, p) = i
  <2>1. CASE i >= h
    <3>1. i - h \in Probe
      BY <2>1, CapPositive DEF Index, Probe
    <3> QED BY <1>2, <3>1, <2>1, CapPositive DEF Index, Probe
  <2>2. CASE i < h
    <3>1. i - h + Cap \in Probe
      BY <2>2, CapPositive DEF Index, Probe
    <3> QED BY <1>2, <3>1, <2>2, CapPositive DEF Index, Probe
  <2> QED BY <2>1, <2>2 DEF Index
<1> QED BY <1>3, <1>4, <1>5

\* get finds a stored key, and nothing for any other.
GetRight ==
    \A k \in Key : /\ \A i \in Used : table[i].key = k => get(k) = table[i].val
                   /\ (\A i \in Used : table[i].key # k) => get(k) = NoVal

\* No gap and no duplicate make get right.
LEMMA GetFinds == MapInv => GetRight
<1> SUFFICES ASSUME MapInv, NEW k \in Key
             PROVE  /\ \A i \in Used : table[i].key = k => get(k) = table[i].val
                    /\ (\A i \in Used : table[i].key # k) => get(k) = NoVal
  BY DEF GetRight
<1>1. \A i \in Index : Holds(i, k) <=> i \in Used /\ table[i].key = k
  BY DEF Holds, Used
<1>2. \A p \in Probe : At(k, p) \in Index
  BY ProbesCover
<1>3. ASSUME NEW i \in Used, table[i].key = k PROVE get(k) = table[i].val
  <2>1. PICK p \in Probe : At(k, p) = i /\ \A q \in Earlier(p) : At(k, q) \in Used
    BY <1>3 DEF MapInv, NoGap, Reached
  <2>2. \A q \in Earlier(p) : ~Unused(At(k, q)) /\ ~Holds(At(k, q), k)
    <3> TAKE q \in Earlier(p)
    <3>1. q \in Probe /\ q # p
      BY DEF Earlier, Probe
    <3>2. At(k, q) # i /\ At(k, q) \in Used
      BY <2>1, <3>1, ProbesCover
    <3>3. ~Holds(At(k, q), k)
      BY <1>3, <3>2 DEF MapInv, NoDuplicate, Holds
    <3> QED BY <3>2, <3>3 DEF Unused, Used
  <2>3. GetStops(k, p)
    BY <1>1, <1>2, <1>3, <2>1, <2>2 DEF GetStops
  <2>4. \A q \in Probe : GetStops(k, q) => At(k, q) = i
    BY <1>1, <1>2, <1>3 DEF GetStops, MapInv, NoDuplicate
  <2>5. PICK q \in Probe : GetStops(k, q) /\ q = (CHOOSE r \in Probe : GetStops(k, r))
    BY <2>3
  <2>6. At(k, q) = i
    BY <2>4, <2>5
  <2> QED BY <2>3, <2>5, <2>6 DEF get
<1>4. ASSUME \A i \in Used : table[i].key # k PROVE get(k) = NoVal
  <2>1. \A p \in Probe : ~GetStops(k, p)
    BY <1>1, <1>2, <1>4 DEF GetStops
  <2> QED BY <2>1 DEF get
<1> QED BY <1>3, <1>4

\* So it is after a step.
LEMMA GetFindsNext == MapInv' => GetRight'
BY GetFinds, PTL

Stored == {k \in Key : get(k) # NoVal}

\* The keys that get finds are those of the used slots, as many as there are.
LEMMA StoredKeys ==
    ASSUME MapInv
    PROVE  /\ Stored = {table[i].key : i \in Used}
           /\ IsFiniteSet(Used) /\ IsFiniteSet(Stored)
           /\ Cardinality(Stored) = size_ /\ size_ \in Nat /\ size_ <= Cap
           /\ size_ = Cap <=> Used = Index
<1>1. IsFiniteSet(Index) /\ Cardinality(Index) = Cap
  BY CapPositive, FS_Interval DEF Index
<1>2. /\ IsFiniteSet(Used) /\ Cardinality(Used) <= Cap
      /\ Cap = Cardinality(Used) => Index = Used
  BY <1>1, FS_Subset DEF Used
<1>3. Cardinality(Used) \in Nat
  BY <1>2, FS_CardinalityType
<1>4. \A i \in Used : table[i].key \in Key /\ table[i].val \in Val
  BY DEF MapInv, MapTyped
<1>5. NoVal \notin Val
  BY MapAssumption
<1>6. Stored = {table[i].key : i \in Used}
  <2>1. \A i \in Used : table[i].key \in Stored
    BY <1>4, <1>5, GetFinds DEF Stored, GetRight
  <2>2. \A k \in Stored : \E i \in Used : table[i].key = k
    BY GetFinds DEF Stored, GetRight
  <2> QED BY <2>1, <2>2
<1>7. PICK f : f = [i \in Used |-> table[i].key]
  OBVIOUS
<1>8. f \in Bijection(Used, Stored)
  <2>1. f \in [Used -> Stored]
    BY <1>6, <1>7
  <2>2. \A i, j \in Used : f[i] = f[j] => i = j
    BY <1>7 DEF MapInv, NoDuplicate
  <2>3. \A k \in Stored : \E i \in Used : f[i] = k
    BY <1>6, <1>7
  <2>4. f \in Injection(Used, Stored)
    BY <2>1, <2>2, Fun_IsInj
  <2>5. f \in Surjection(Used, Stored)
    BY <2>1, <2>3, Fun_IsSurj
  <2> QED BY <2>4, <2>5 DEF Bijection
<1>9. IsFiniteSet(Stored) /\ Cardinality(Stored) = Cardinality(Used)
  BY <1>2, <1>8, FS_Bijection, Fun_ExistsBij
<1>10. size_ = Cardinality(Used)
  BY DEF MapInv, MapTyped
<1> QED BY <1>1, <1>2, <1>3, <1>6, <1>9, <1>10

\* A key that put cannot place has met only used slots, none of them its own.
LEMMA RefusedWhenFull ==
    ASSUME MapInv, NEW k \in Key, \A p \in Probe : ~PutStops(k, p)
    PROVE  Used = Index /\ k \notin Stored
<1> DEFINE A == {p \in Probe : Unused(At(k, p)) \/ Holds(At(k, p), k)}
<1>1. A = {}
  <2> SUFFICES ASSUME A # {} PROVE FALSE
    OBVIOUS
  <2>1. A \in SUBSET Nat
    BY CapPositive DEF Probe
  <2>2. PICK m \in A : \A n \in A : m <= n
    <3> HIDE DEF A
    <3> QED BY <2>1, LeastNumber
  <2>3. \A q \in Earlier(m) : q \notin A /\ q \in Probe
    BY <2>1, <2>2 DEF Earlier, Probe
  <2>4. PutStops(k, m)
    BY <2>2, <2>3 DEF PutStops
  <2> QED BY <2>2, <2>4
<1>2. \A i \in Index : ~Unused(i) /\ ~Holds(i, k)
  BY <1>1, ProbesCover
<1>3. Used = Index
  BY <1>2 DEF Unused, Used
<1> QED BY <1>2, <1>3, StoredKeys DEF Holds, Used

\* The slot where put stops is the only one that may have the key.
LEMMA OwnSlot ==
    ASSUME MapInv, NEW k \in Key, NEW p \in Probe, PutStops(k, p)
    PROVE  \A j \in Used : table[j].key = k => j = At(k, p)
<1> SUFFICES ASSUME NEW j \in Used, table[j].key = k, j # At(k, p) PROVE FALSE
  OBVIOUS
<1>1. At(k, p) \in Index
  BY ProbesCover
<1>2. At(k, p) \notin Used
  BY <1>1 DEF MapInv, NoDuplicate, PutStops, Holds, Unused, Used
<1>3. PICK r \in Probe : At(k, r) = j /\ \A q \in Earlier(r) : At(k, q) \in Used
  BY DEF MapInv, NoGap, Reached
<1>4. r # p /\ r \in Nat /\ p \in Nat
  BY <1>3, CapPositive DEF Probe
<1>5. CASE r < p
  <2>1. r \in Earlier(p)
    BY <1>5 DEF Earlier
  <2> QED BY <1>3, <2>1 DEF PutStops, Holds, Used
<1>6. CASE p < r
  <2>1. p \in Earlier(r)
    BY <1>6 DEF Earlier
  <2> QED BY <1>2, <1>3, <2>1
<1> QED BY <1>4, <1>5, <1>6

\* put keeps keys unique and probe paths without a gap.
LEMMA PutKeeps ==
    ASSUME MapInv, NEW k \in Key, NEW v \in Val, NEW p \in Probe, PutStops(k, p),
           size_' = IF Unused(At(k, p)) THEN size_ + 1 ELSE size_,
           table' = [table EXCEPT ![At(k, p)] = [used |-> TRUE, key |-> k, val |-> v]]
    PROVE  MapInv'
<1>1. PICK i \in Index : i = At(k, p)
  BY ProbesCover
<1>2. table \in [Index -> Slots] /\ k \in Nat
  BY MapAssumption DEF MapInv, MapTyped
<1>3. PICK r \in Slots : r = [used |-> TRUE, key |-> k, val |-> v]
  BY <1>2 DEF Slots
<1>4. r.used /\ r.key = k /\ r.val = v
  BY <1>3
<1>5. /\ table' \in [Index -> Slots] /\ table'[i] = r
      /\ \A j \in Index \ {i} : table'[j] = table[j]
  BY <1>1, <1>2, <1>3
<1>6. Used' = Used \cup {i}
  BY <1>1, <1>4, <1>5 DEF Used
<1>7. \A j \in Used \ {i} : j \in Index \ {i} /\ table'[j] = table[j] /\ table[j].key # k
  BY <1>1, <1>5, OwnSlot DEF Used
<1>8. MapTyped'
  <2>1. \A j \in Used' : table'[j].key \in Key /\ table'[j].val \in Val
    BY <1>4, <1>5, <1>6, <1>7 DEF MapInv, MapTyped
  <2>2. size_ = Cardinality(Used) /\ IsFiniteSet(Used) /\ size_ \in Nat
    BY StoredKeys DEF MapInv, MapTyped
  <2>3. Unused(i) <=> i \notin Used
    BY DEF Unused, Used
  <2>4. Cardinality(Used \cup {i}) = IF i \in Used THEN Cardinality(Used) ELSE Cardinality(Used) + 1
    BY <2>2, FS_AddElement
  <2>5. size_' = Cardinality(Used')
    BY <1>1, <1>6, <2>2, <2>3, <2>4
  <2> QED BY <1>5, <2>1, <2>5 DEF MapTyped
<1>9. NoDuplicate'
  <2> SUFFICES ASSUME NEW j \in Used', NEW l \in Used', table'[j].key = table'[l].key
               PROVE  j = l
    BY DEF NoDuplicate
  <2>1. CASE j # i /\ l # i
    BY <1>6, <1>7, <2>1 DEF MapInv, NoDuplicate
  <2>2. CASE j = i \/ l = i
    BY <1>4, <1>5, <1>6, <1>7, <2>2
  <2> QED BY <2>1, <2>2
<1>10. NoGap'
  <2> SUFFICES ASSUME NEW j \in Used'
               PROVE  \E q \in Probe : /\ At(table'[j].key, q) = j
                                        /\ \A o \in Earlier(q) : At(table'[j].key, o) \in Used'
    BY DEF NoGap, Reached
  <2>1. CASE j = i
    <3>1. \A q \in Earlier(p) : At(k, q) \in Used
      BY ProbesCover DEF PutStops, Unused, Used, Earlier
    <3> QED BY <1>1, <1>4, <1>5, <1>6, <2>1, <3>1
  <2>2. CASE j # i
    <3>1. j \in Used /\ table'[j] = table[j]
      BY <1>6, <1>7, <2>2
    <3>2. Reached(j, table[j].key)
      BY <3>1 DEF MapInv, NoGap
    <3> QED BY <1>6, <3>1, <3>2 DEF Reached
  <2> QED BY <2>1, <2>2
<1> QED BY <1>8, <1>9, <1>10 DEF MapInv

\* What get returns after a put.
LEMMA PutIsSeen ==
    ASSUME MapInv, NEW k \in Key, NEW v \in Val, put(k, v)
    PROVE  /\ MapInv'
           /\ get(k)' = v /\ \A l \in Key \ {k} : get(l)' = get(l)
           /\ k \in Stored \/ size_ < Cap
           /\ size_' = Cardinality(Stored \cup {k})
<1>1. PICK p \in Probe :
         /\ PutStops(k, p)
         /\ size_' = IF Unused(At(k, p)) THEN size_ + 1 ELSE size_
         /\ table' = [table EXCEPT ![At(k, p)] = [used |-> TRUE, key |-> k, val |-> v]]
  BY DEF put
<1>2. MapInv'
  BY <1>1, PutKeeps
<1>3. \A l \in Key :
         /\ \A j \in Used' : table'[j].key = l => get(l)' = table'[j].val
         /\ (\A j \in Used' : table'[j].key # l) => get(l)' = NoVal
  BY <1>2, GetFindsNext DEF GetRight
<1>4. PICK i \in Index : i = At(k, p)
  BY ProbesCover
<1>5. /\ table'[i] = [used |-> TRUE, key |-> k, val |-> v]
      /\ \A j \in Index \ {i} : table'[j] = table[j]
  BY <1>1, <1>4 DEF MapInv, MapTyped
<1>6. Used' = Used \cup {i} /\ Used \subseteq Index
  BY <1>5 DEF Used
<1>7. get(k)' = v
  BY <1>2, <1>3, <1>5, <1>6
<1>8. ASSUME NEW l \in Key \ {k} PROVE get(l)' = get(l)
  <2>1. \A j \in Used : table[j].key = l => j # i
    BY <1>1, <1>4 DEF PutStops, Holds, Unused, Used
  <2>2. CASE \E j \in Used : table[j].key = l
    <3>1. PICK j \in Used : table[j].key = l
      BY <2>2
    <3>2. j \in Used' /\ table'[j] = table[j]
      BY <1>5, <1>6, <2>1, <3>1
    <3> QED BY <1>2, <1>3, <3>1, <3>2, GetFinds DEF GetRight
  <2>3. CASE ~\E j \in Used : table[j].key = l
    <3>1. \A j \in Used' : table'[j].key # l
      BY <1>5, <1>6, <2>3
    <3> QED BY <1>2, <1>3, <2>3, <3>1, GetFinds DEF GetRight
  <2> QED BY <2>2, <2>3
<1>9. i \in Used => k \in Stored
  <2>1. i \in Used => table[i].key = k
    BY <1>1, <1>4 DEF PutStops, Holds, Unused, Used
  <2> QED BY <2>1, StoredKeys
<1>10. i \notin Used => k \notin Stored
  BY <1>1, <1>4, OwnSlot, StoredKeys
<1>11. i \notin Used => size_ < Cap
  BY StoredKeys, CapPositive
<1>12. size_' = IF i \in Used THEN size_ ELSE size_ + 1
  BY <1>1, <1>4 DEF Unused, Used
<1>13. Cardinality(Stored \cup {k}) = IF k \in Stored THEN size_ ELSE size_ + 1
  BY StoredKeys, FS_AddElement
<1> QED BY <1>2, <1>7, <1>8, <1>9, <1>10, <1>11, <1>12, <1>13

\* The empty table.
LEMMA MapStart == MapInit => MapInv /\ \A k \in Key : get(k) = NoVal
<1> SUFFICES ASSUME MapInit PROVE MapInv /\ \A k \in Key : get(k) = NoVal
  OBVIOUS
<1>1. Used = {}
  BY DEF MapInit, Used
<1>2. table \in [Index -> Slots]
  BY DEF MapInit, Slots
<1>3. MapInv
  BY <1>1, <1>2, FS_EmptySet DEF MapInit, MapInv, MapTyped, NoDuplicate, NoGap
<1> QED BY <1>1, <1>3, GetFinds DEF GetRight

\* Every step keeps the table sound.
LEMMA MapStep == MapInv /\ [MapNext]_mapVars => MapInv'
<1> SUFFICES ASSUME MapInv, [MapNext]_mapVars PROVE MapInv'
  OBVIOUS
<1>1. ASSUME NEW k \in Key, NEW v \in Val, put(k, v) PROVE MapInv'
  BY <1>1, PutIsSeen
<1>2. ASSUME UNCHANGED <<table, size_>> PROVE MapInv'
  BY <1>2 DEF MapInv, MapTyped, NoDuplicate, NoGap, Reached, Used
<1> QED BY <1>1, <1>2 DEF MapNext, mapVars, putFull

\* The abstract map counts as this module does.
LEMMA SameCount == \A S : Map!Cardinality(S) = Cardinality(S)
BY DEF Map!Cardinality, Cardinality

\* Every step is one of the map, or changes nothing of it.
LEMMA MapRefinement ==
    MapInv /\ [MapNext]_mapVars => [Map!Next]_<<[k \in Key |-> get(k)], size_, mapRet>>
<1> SUFFICES ASSUME MapInv, [MapNext]_mapVars
             PROVE  [Map!Next]_<<[k \in Key |-> get(k)], size_, mapRet>>
  OBVIOUS
<1>1. \A k \in Key : [l \in Key |-> get(l)][k] = get(k)
  OBVIOUS
<1>2. Map!Present = Stored
  BY DEF Map!Present, Stored
<1>3. ASSUME NEW k \in Key, NEW v \in Val, put(k, v) PROVE Map!Put(k, v)
  <2>1. get(k) # NoVal \/ Cardinality(Stored) < Cap
    BY <1>3, PutIsSeen, StoredKeys DEF Stored
  <2>2. [l \in Key |-> get(l)]' = [[l \in Key |-> get(l)] EXCEPT ![k] = v]
    BY <1>3, PutIsSeen
  <2>3. size_' = Cardinality(Stored \cup {k}) /\ mapRet' = TRUE
    BY <1>3, PutIsSeen DEF put
  <2> QED BY <1>1, <1>2, <2>1, <2>2, <2>3, SameCount DEF Map!Put
<1>4. ASSUME UNCHANGED <<table, size_>>
      PROVE  UNCHANGED <<[k \in Key |-> get(k)], size_>>
  BY <1>4 DEF get, GetStops, Holds, Unused
<1>5. ASSUME NEW k \in Key, putFull(k) PROVE Map!Refuse(k)
  <2>1. get(k) = NoVal /\ Cardinality(Stored) = Cap
    BY <1>5, RefusedWhenFull, StoredKeys DEF putFull, Stored
  <2>2. UNCHANGED <<[l \in Key |-> get(l)], size_>> /\ mapRet' = FALSE
    BY <1>4, <1>5 DEF putFull
  <2> QED BY <1>1, <1>2, <2>1, <2>2, SameCount DEF Map!Refuse
<1>6. ASSUME UNCHANGED mapVars
      PROVE  UNCHANGED <<[k \in Key |-> get(k)], size_, mapRet>>
  BY <1>4, <1>6 DEF mapVars
<1> QED BY <1>3, <1>5, <1>6 DEF MapNext, Map!Next

\* FlatMap implements the bounded map: put changes its own key and no other,
\* get sees it at once, a stored key is found at every load, and only a new
\* key at a full table is refused.
THEOREM FlatMapRefines == MapSpec => ImplementsMap
<1>1. MapInit => Map!Init
  <2> SUFFICES ASSUME MapInit PROVE Map!Init
    OBVIOUS
  <2>1. [k \in Key |-> get(k)] = [k \in Key |-> NoVal]
    BY MapStart
  <2> QED BY <2>1 DEF MapInit, Map!Init
<1> QED BY <1>1, MapStart, MapStep, MapRefinement, PTL DEF MapSpec, ImplementsMap, Map!Spec
-----------------------------------------------------------------------------
(* TscClock and the pace of run_market_data                                *)

Calibrated == md \in {"begin", "spin", "idle", "test"}
Paced == md \in {"spin", "idle", "test"}

\* calibrate: the wall clock was read before the counter and is read again
\* after it, so the sample is shorter than ns + 1 nanoseconds.
CalibrationInv ==
    /\ {tsc, w0, c0, dticks, ns} \subseteq Nat
    /\ md = "c0" => w0 * TicksPerNs <= tsc
    /\ md = "c1" => w0 * TicksPerNs <= c0 /\ c0 <= tsc
    /\ md = "w1" => w0 * TicksPerNs <= c0 /\ c0 + dticks <= tsc /\ TicksPerNs <= dticks
    /\ Calibrated => TicksPerNs <= dticks /\ dticks < (ns + 1) * TicksPerNs

\* run_market_data: ticks are due at multiples of the period from the start,
\* and the last one was not made before it was due.
PaceInv ==
    /\ {begun, next, now, made} \subseteq Nat
    /\ now <= tsc
    /\ ~Paced => made = 0
    /\ Paced => /\ begun <= tsc /\ next = begun + made * period_ticks
                /\ made >= 1 => begun + (made - 1) * period_ticks <= now
    /\ md \in {"idle", "test"} => begun <= now
    /\ md = "idle" => now < next

\* The rate is positive.
LEMMA Rate ==
    /\ TicksPerNs \in Nat /\ TicksPerNs >= 1 /\ Sample \in Nat /\ Sample >= TicksPerNs
    /\ PeriodNs \in Nat
BY ClockAssumption

\* A calibrated clock has seen at least one nanosecond pass.
LEMMA NsPositive ==
    ASSUME CalibrationInv, Calibrated
    PROVE  /\ ns \in Nat /\ ns >= 1 /\ dticks \in Nat /\ dticks >= 1
           /\ period_ticks \in Nat
<1>1. ns \in Nat /\ dticks \in Nat /\ TicksPerNs <= dticks /\ dticks < (ns + 1) * TicksPerNs
  BY DEF CalibrationInv
<1>2. ns # 0
  <2>1. ns = 0 => (ns + 1) * TicksPerNs = TicksPerNs
    BY Rate
  <2> QED BY <1>1, <2>1, Rate
<1>3. PeriodNs * dticks \in Nat
  BY <1>1, Rate
<1>4. period_ticks \in Nat
  <2> DEFINE x == PeriodNs * dticks
  <2> HIDE DEF x
  <2>1. x \in Nat
    BY <1>3 DEF x
  <2>2. x \div ns \in Nat
    BY <1>1, <1>2, <2>1, RoundsDown
  <2> QED BY <2>2 DEF period_ticks, x
<1> QED BY <1>1, <1>2, <1>4, Rate

\* Nothing has been read.
LEMMA ClockStart == ClockInit => CalibrationInv /\ PaceInv
BY Rate DEF ClockInit, CalibrationInv, PaceInv, Calibrated, Paced

\* The steps of calibrate; nothing later changes what it found.
LEMMA CalibrationStep == CalibrationInv /\ [ClockNext]_clockVars => CalibrationInv'
<1> SUFFICES ASSUME CalibrationInv, [ClockNext]_clockVars PROVE CalibrationInv'
  OBVIOUS
<1>0. tsc \in Nat /\ w0 \in Nat /\ c0 \in Nat /\ dticks \in Nat /\ ns \in Nat
  BY DEF CalibrationInv
<1>t. w0 * TicksPerNs \in Nat /\ (ns + 1) * TicksPerNs \in Nat
  BY <1>0, Rate
<1>1. CASE Pass
  <2>1. tsc' = tsc + 1 /\ UNCHANGED <<md, w0, c0, dticks, ns>>
    BY <1>1 DEF Pass
  <2>2. md = "c0" => w0 * TicksPerNs <= tsc'
    BY <1>0, <1>t, <2>1 DEF CalibrationInv
  <2>3. md = "c1" => w0 * TicksPerNs <= c0 /\ c0 <= tsc'
    BY <1>0, <2>1 DEF CalibrationInv
  <2>4. md = "w1" => w0 * TicksPerNs <= c0 /\ c0 + dticks <= tsc' /\ TicksPerNs <= dticks
    BY <1>0, <2>1 DEF CalibrationInv
  <2>5. Calibrated => TicksPerNs <= dticks /\ dticks < (ns + 1) * TicksPerNs
    BY DEF CalibrationInv
  <2>6. Calibrated' <=> Calibrated
    BY <2>1 DEF Calibrated
  <2> QED BY <1>0, <2>1, <2>2, <2>3, <2>4, <2>5, <2>6 DEF CalibrationInv
<1>2. CASE ReadW0
  <2>1. md' = "c0" /\ w0' = tsc \div TicksPerNs /\ UNCHANGED <<tsc, c0, dticks, ns>>
    BY <1>2 DEF ReadW0, CLOCK_MONOTONIC_RAW
  <2>2. w0' \in Nat /\ w0' * TicksPerNs <= tsc
    BY <1>0, <2>1, RoundsDown, Rate
  <2> QED BY <1>0, <2>1, <2>2 DEF CalibrationInv, Calibrated
<1>3. CASE ReadC0
  <2>1. md = "c0" /\ md' = "c1" /\ c0' = tsc /\ UNCHANGED <<tsc, w0, dticks, ns>>
    BY <1>3 DEF ReadC0
  <2> QED BY <1>0, <2>1 DEF CalibrationInv, Calibrated
<1>4. CASE ReadC1
  <2>1. /\ md = "c1" /\ md' = "w1" /\ tsc >= c0 + Sample /\ dticks' = tsc - c0
        /\ UNCHANGED <<tsc, w0, c0, ns>>
    BY <1>4 DEF ReadC1
  <2>2. w0 * TicksPerNs <= c0
    BY <2>1 DEF CalibrationInv
  <2>3. dticks' \in Nat /\ TicksPerNs <= dticks' /\ c0 + dticks' <= tsc
    BY <1>0, <2>1, Rate
  <2> QED BY <1>0, <2>1, <2>2, <2>3 DEF CalibrationInv, Calibrated
<1>5. CASE ReadW1
  <2>1. /\ md = "w1" /\ md' = "begin" /\ ns' = tsc \div TicksPerNs - w0
        /\ w0' = 0 /\ c0' = 0 /\ UNCHANGED <<tsc, dticks>>
    BY <1>5 DEF ReadW1, CLOCK_MONOTONIC_RAW
  <2>2. w0 * TicksPerNs <= c0 /\ c0 + dticks <= tsc /\ TicksPerNs <= dticks
    BY <2>1 DEF CalibrationInv
  <2>3. PICK w1 \in Nat : w1 = tsc \div TicksPerNs /\ tsc < (w1 + 1) * TicksPerNs
    BY <1>0, RoundsDown, Rate
  <2>4. w0 <= w1
    <3>1. CASE w0 >= w1 + 1
      <4>1. w0 * TicksPerNs >= (w1 + 1) * TicksPerNs
        BY <1>0, <3>1, Rate
      <4>2. (w1 + 1) * TicksPerNs \in Nat
        BY Rate
      <4> QED BY <1>0, <1>t, <2>2, <2>3, <4>1, <4>2
    <3> QED BY <1>0, <3>1
  <2>5. ns' \in Nat /\ ns' = w1 - w0
    BY <1>0, <2>1, <2>3, <2>4
  <2>6. (w1 + 1) * TicksPerNs = (ns' + 1) * TicksPerNs + w0 * TicksPerNs
    BY <1>0, <2>5, Rate
  <2>7. dticks < (ns' + 1) * TicksPerNs
    <3>1. (ns' + 1) * TicksPerNs \in Nat
      BY <2>5, Rate
    <3> QED BY <1>0, <1>t, <2>2, <2>3, <2>6, <3>1
  <2> QED BY <1>0, <2>1, <2>2, <2>5, <2>7 DEF CalibrationInv, Calibrated
<1>6. CASE Begin \/ Look \/ Idle \/ Make \/ UNCHANGED clockVars
  <2>1. /\ UNCHANGED <<tsc, w0, c0, dticks, ns>>
        /\ md' = md \/ (Calibrated /\ Calibrated')
    BY <1>6 DEF Begin, Look, Idle, Make, clockVars, Calibrated
  <2>2. CASE md' = md
    BY <2>1, <2>2 DEF CalibrationInv, Calibrated
  <2>3. CASE Calibrated /\ Calibrated'
    BY <2>1, <2>3 DEF CalibrationInv, Calibrated
  <2> QED BY <2>1, <2>2, <2>3
<1> QED BY <1>1, <1>2, <1>3, <1>4, <1>5, <1>6 DEF ClockNext

\* The steps of run_market_data.
LEMMA PaceStep == CalibrationInv /\ PaceInv /\ [ClockNext]_clockVars => PaceInv'
<1> SUFFICES ASSUME CalibrationInv, PaceInv, [ClockNext]_clockVars PROVE PaceInv'
  OBVIOUS
<1>0. tsc \in Nat /\ begun \in Nat /\ next \in Nat /\ now \in Nat /\ made \in Nat /\ now <= tsc
  BY DEF CalibrationInv, PaceInv
<1>1. CASE Pass
  <2>1. tsc' = tsc + 1 /\ UNCHANGED <<md, dticks, ns, begun, next, now, made>>
    BY <1>1 DEF Pass
  <2>2. period_ticks' = period_ticks
    BY <2>1 DEF period_ticks
  <2>3. now' <= tsc' /\ (begun <= tsc => begun <= tsc')
    BY <1>0, <2>1
  <2> QED BY <2>1, <2>2, <2>3 DEF PaceInv, Paced
<1>2. CASE ReadW0 \/ ReadC0 \/ ReadC1 \/ ReadW1
  <2>1. ~Paced /\ md' \in {"c0", "c1", "w1", "begin"}
    BY <1>2 DEF ReadW0, ReadC0, ReadC1, ReadW1, Paced
  <2>2. UNCHANGED <<tsc, begun, next, now, made>>
    BY <1>2 DEF ReadW0, ReadC0, ReadC1, ReadW1
  <2> QED BY <1>0, <2>1, <2>2 DEF PaceInv, Paced
<1>3. CASE Begin
  <2>1. /\ md = "begin" /\ md' = "spin" /\ begun' = tsc /\ next' = tsc
        /\ UNCHANGED <<tsc, now, made, dticks, ns>>
    BY <1>3 DEF Begin
  <2>2. made = 0
    BY <2>1 DEF PaceInv, Paced
  <2>3. period_ticks' = period_ticks /\ period_ticks \in Nat
    BY <2>1, NsPositive DEF period_ticks, Calibrated
  <2>4. next' = begun' + made' * period_ticks'
    BY <1>0, <2>1, <2>2, <2>3
  <2> QED BY <1>0, <2>1, <2>2, <2>4 DEF PaceInv, Paced
<1>4. CASE Look
  <2>1. /\ md \in {"spin", "idle"} /\ md' = "test" /\ now' = tsc
        /\ UNCHANGED <<tsc, begun, next, made, dticks, ns>>
    BY <1>4 DEF Look
  <2>2. period_ticks' = period_ticks /\ period_ticks \in Nat
    BY <2>1, NsPositive DEF period_ticks, Calibrated
  <2>3. /\ begun <= tsc /\ next = begun + made * period_ticks
        /\ made >= 1 => begun + (made - 1) * period_ticks <= now
    BY <2>1 DEF PaceInv, Paced
  <2>4. made >= 1 => begun + (made - 1) * period_ticks <= now'
    <3>1. made >= 1 => (made - 1) * period_ticks \in Nat
      BY <1>0, <2>2
    <3> QED BY <1>0, <2>1, <2>3, <3>1
  <2> QED BY <1>0, <2>1, <2>2, <2>3, <2>4 DEF PaceInv, Paced
<1>5. CASE Idle
  <2>1. md = "test" /\ now < next /\ md' = "idle" /\ UNCHANGED <<tsc, begun, next, now, made, dticks, ns>>
    BY <1>5 DEF Idle
  <2>2. period_ticks' = period_ticks
    BY <2>1 DEF period_ticks
  <2> QED BY <2>1, <2>2 DEF PaceInv, Paced
<1>6. CASE Make
  <2>1. /\ md = "test" /\ now >= next /\ md' = "spin" /\ next' = next + period_ticks
        /\ made' = made + 1 /\ UNCHANGED <<tsc, begun, now, dticks, ns>>
    BY <1>6 DEF Make
  <2>2. period_ticks' = period_ticks /\ period_ticks \in Nat
    BY <2>1, NsPositive DEF period_ticks, Calibrated
  <2>3. begun <= tsc /\ next = begun + made * period_ticks
    BY <2>1 DEF PaceInv, Paced
  <2>4. PICK P \in Nat : P = period_ticks
    BY <2>2
  <2>5. /\ next' = begun + (made + 1) * P /\ begun + (made + 1 - 1) * P = next
    BY <1>0, <2>1, <2>3, <2>4
  <2>6. next' = begun' + made' * period_ticks' /\ begun' + (made' - 1) * period_ticks' <= now'
    BY <1>0, <2>1, <2>2, <2>4, <2>5
  <2>7. next' \in Nat /\ made' \in Nat
    BY <1>0, <2>1, <2>2
  <2> QED BY <1>0, <2>1, <2>3, <2>6, <2>7 DEF PaceInv, Paced
<1>7. CASE UNCHANGED clockVars
  BY <1>7 DEF clockVars, PaceInv, Paced, period_ticks
<1> QED BY <1>1, <1>2, <1>3, <1>4, <1>5, <1>6, <1>7 DEF ClockNext

\* Both hold of every state.
LEMMA ClockInvariant == ClockInit /\ [][ClockNext]_clockVars => [](CalibrationInv /\ PaceInv)
BY ClockStart, CalibrationStep, PaceStep, PTL

\* The arithmetic of the conversion: T ticks make a nanosecond, D ticks were
\* counted in n nanoseconds.
LEMMA ConversionBound ==
    ASSUME NEW T \in Nat, T >= 1, NEW D \in Nat, T <= D, NEW n \in Nat, D < (n + 1) * T,
           NEW d \in 0..D
    PROVE  (d * n) \div D + 1 >= d \div T
<1> DEFINE r == (d * n) \div D
           q == d \div T
<1>1. q \in Nat /\ q * T <= d
  BY RoundsDown
<1>2. r \in Nat /\ d * n < (r + 1) * D
  <2> DEFINE x == d * n
  <2>1. x \in Nat
    OBVIOUS
  <2> HIDE DEF x
  <2>2. x \div D \in Nat /\ x < (x \div D + 1) * D
    BY <2>1, RoundsDown
  <2> QED BY <2>2 DEF x
<1> HIDE DEF r, q
<1>3. SUFFICES ASSUME q >= r + 2 PROVE FALSE
  BY <1>1, <1>2 DEF r, q
<1>4. q * T >= (r + 2) * T
  BY <1>1, <1>2, <1>3
<1>5. (r + 1) * T <= d - T
  BY <1>1, <1>2, <1>4
<1>6. ((r + 1) * T) * D <= (d - T) * D
  BY <1>2, <1>5
<1>7. (d * n) * T < ((r + 1) * D) * T
  BY <1>2
<1>8. d * (n * T) >= d * (D - T)
  BY <1>2
<1>9. d * T <= D * T
  OBVIOUS
<1>10. d * (D - T) = d * D - d * T /\ (d - T) * D = d * D - D * T
  OBVIOUS
<1>11. (d * n) * T = d * (n * T) /\ ((r + 1) * D) * T = ((r + 1) * T) * D
  BY <1>2
<1>12. d * (D - T) < (d - T) * D
  BY <1>2, <1>6, <1>7, <1>8, <1>11
<1>13. d * D \in Nat /\ d * T \in Nat /\ D * T \in Nat
  OBVIOUS
<1> QED BY <1>9, <1>10, <1>12, <1>13

\* A reported latency is at most one nanosecond short of the real one,
\* wherever the calibrating thread was held up.
THEOREM LatenciesNotFlattered ==
    ClockInit /\ [][ClockNext]_clockVars => []NeverFlattered
<1>1. CalibrationInv => NeverFlattered
  <2> SUFFICES ASSUME CalibrationInv, Calibrated, NEW d \in 0..dticks
               PROVE  ticks_to_ns(d) + 1 >= d \div TicksPerNs
    BY DEF NeverFlattered, Calibrated
  <2>1. ns \in Nat /\ dticks \in Nat /\ TicksPerNs <= dticks /\ dticks < (ns + 1) * TicksPerNs
    BY DEF CalibrationInv
  <2> QED BY <2>1, Rate, ConversionBound DEF ticks_to_ns
<1> QED BY <1>1, ClockInvariant, PTL

\* When the generator is idle it has made a tick for every period since it
\* began, however late it was.
THEOREM RateIsKept ==
    ClockInit /\ [][ClockNext]_clockVars => []NothingOwed
<1>1. CalibrationInv /\ PaceInv => NothingOwed
  <2> SUFFICES ASSUME CalibrationInv, PaceInv, md = "idle"
               PROVE  made = (now - begun) \div period_ticks + 1
    BY DEF NothingOwed
  <2>1. PICK P \in Nat : P = period_ticks
    BY NsPositive DEF Calibrated
  <2>2. /\ begun \in Nat /\ now \in Nat /\ made \in Nat /\ next \in Nat
        /\ begun <= now /\ now < next /\ next = begun + made * P
        /\ made >= 1 => begun + (made - 1) * P <= now
    BY <2>1 DEF PaceInv, Paced
  <2>3. made # 0
    <3>1. made = 0 => made * P = 0
      BY <2>1
    <3> QED BY <2>2, <3>1
  <2>4. PICK q \in Nat : q = made - 1
    BY <2>2, <2>3
  <2>5. PICK x \in Nat : x = now - begun
    BY <2>2
  <2>6. q * P <= x /\ x < (q + 1) * P
    <3>1. q * P \in Nat /\ (q + 1) * P \in Nat
      BY <2>1
    <3>2. (made - 1) * P = q * P /\ made * P = (q + 1) * P
      BY <2>2, <2>4
    <3> QED BY <2>2, <2>3, <2>4, <2>5, <3>1, <3>2
  <2>7. P >= 1
    <3>1. P = 0 => (q + 1) * P = 0
      OBVIOUS
    <3> QED BY <2>6, <3>1
  <2>8. x \div P = q
    BY <2>6, <2>7, Quotient
  <2> QED BY <2>1, <2>2, <2>4, <2>5, <2>8
<1> QED BY <1>1, ClockInvariant, PTL
-----------------------------------------------------------------------------
(* The arithmetic of the arenas                                            *)

\* The word and the alignments are positive.
LEMMA ArenaTypes ==
    /\ Word \in Nat /\ Word > 0
    /\ \A a \in Align : a \in Nat /\ a > 0
    /\ \A n \in Ask : n \in Nat
BY ArenaAssumption, PowerDoubles DEF Word

\* Integer division brackets its dividend.
LEMMA Division ==
    ASSUME NEW x \in Nat, NEW a \in Nat, a > 0
    PROVE  /\ x \div a \in Nat /\ (x \div a) * a \in Nat
           /\ (x \div a) * a <= x /\ x < (x \div a) * a + a
OBVIOUS

\* A multiple of a leaves no remainder.
LEMMA Multiple ==
    ASSUME NEW q \in Nat, NEW a \in Nat, a > 0
    PROVE  (q * a) % a = 0
OBVIOUS

\* round_up finds the next multiple, unless the addition wraps.
LEMMA RoundUp ==
    ASSUME NEW v \in Nat, NEW a \in Nat, a > 0, v + a <= Word
    PROVE  /\ round_up(v, a) \in Nat
           /\ v <= round_up(v, a) /\ round_up(v, a) < v + a
           /\ round_up(v, a) % a = 0
<1> DEFINE x == v + (a - 1)
<1>1. x \in Nat /\ x < Word /\ Word \in Nat
  BY ArenaTypes
<1>2. x % Word = x
  BY <1>1
<1>3. round_up(v, a) = (x \div a) * a
  BY <1>2 DEF round_up
<1> HIDE DEF x
<1>4. x \div a \in Nat /\ (x \div a) * a \in Nat /\ (x \div a) * a <= x /\ x < (x \div a) * a + a
  BY <1>1, Division
<1>5. ((x \div a) * a) % a = 0
  BY <1>4, Multiple
<1> QED BY <1>3, <1>4, <1>5 DEF x

\* What is aligned already stays where it is.
LEMMA RoundUpAligned ==
    ASSUME NEW v \in Nat, NEW a \in Nat, a > 0, v + a <= Word, v % a = 0
    PROVE  round_up(v, a) = v
<1> DEFINE r == round_up(v, a)
           p == v \div a
           q == r \div a
<1>1. r \in Nat /\ v <= r /\ r < v + a /\ r % a = 0
  BY RoundUp
<1>2. p \in Int /\ v = a * p + (v % a)
  OBVIOUS
<1> HIDE DEF r
<1>3. q \in Int /\ r = a * q + (r % a)
  BY <1>1
<1> HIDE DEF p, q
<1>4. v = a * p /\ r = a * q
  BY <1>1, <1>2, <1>3
<1>5. (q - p) * a < a /\ (q - p) * a >= 0
  BY <1>1, <1>2, <1>3, <1>4
<1>6. q - p = 0
  <2>1. CASE q - p >= 1
    <3>1. (q - p) * a >= a
      BY <1>2, <1>3, <2>1
    <3> QED BY <1>5, <1>2, <1>3, <3>1
  <2>2. CASE q - p <= -1
    <3>1. (q - p) * a <= -a
      BY <1>2, <1>3, <2>2
    <3> QED BY <1>5, <1>2, <1>3, <3>1
  <2> QED BY <1>2, <1>3, <2>1, <2>2
<1>7. q = p
  BY <1>2, <1>3, <1>6
<1> QED BY <1>4, <1>7 DEF r
-----------------------------------------------------------------------------
(* BumpAllocator                                                           *)

\* No request that callers make can run over the end of the address space.
NoWrap == \A n \in Ask, a \in Align : base_ + bytes_ + n + a <= Word

\* Blocks lie below the offset, one behind the other.
BlockShape == [at : Nat, n : Nat, a : Nat \ {0}]
ArenaInv ==
    /\ base_ \in Nat /\ bytes_ \in Nat /\ off_ \in 0..bytes_
    /\ blocks \subseteq BlockShape
    /\ \A b \in blocks : b.at % b.a = 0 /\ base_ <= b.at /\ b.at + b.n <= base_ + off_
    /\ \A b, c \in blocks : b # c => b.at + b.n <= c.at \/ c.at + c.n <= b.at

\* What the invariant says about ends it says about bytes.
LEMMA ArenaSound == ArenaInv => BlocksSound
<1> SUFFICES ASSUME ArenaInv PROVE BlocksSound
  OBVIOUS
<1>1. ASSUME NEW b \in blocks
      PROVE  b.at % b.a = 0 /\ Bytes(b) \subseteq base_..(base_ + bytes_ - 1)
  <2>1. b.at \in Nat /\ b.n \in Nat /\ base_ \in Nat /\ bytes_ \in Nat /\ off_ \in 0..bytes_
    BY <1>1 DEF ArenaInv, BlockShape
  <2>2. b.at % b.a = 0 /\ base_ <= b.at /\ b.at + b.n <= base_ + off_
    BY <1>1 DEF ArenaInv
  <2> QED BY <2>1, <2>2 DEF Bytes
<1>2. ASSUME NEW b \in blocks, NEW c \in blocks, b # c
      PROVE  Bytes(b) \cap Bytes(c) = {}
  <2>1. b.at \in Nat /\ b.n \in Nat /\ c.at \in Nat /\ c.n \in Nat
    BY DEF ArenaInv, BlockShape
  <2>2. b.at + b.n <= c.at \/ c.at + c.n <= b.at
    BY <1>2 DEF ArenaInv
  <2> QED BY <2>1, <2>2 DEF Bytes
<1> QED BY <1>1, <1>2 DEF BlocksSound

\* A slice starts at or behind the offset and ends at the new one.
LEMMA Slice ==
    ASSUME NEW n \in Nat, NEW a \in Nat, a > 0, base_ \in Nat, off_ \in Nat,
           base_ + off_ + n + a <= Word
    PROVE  /\ aligned(a) \in Nat /\ aligned(a) % a = 0
           /\ base_ + off_ <= aligned(a) /\ aligned(a) < base_ + off_ + a
           /\ new_off(n, a) = aligned(a) - base_ + n
<1> DEFINE v == base_ + off_
<1>1. v \in Nat /\ v < Word /\ v + a <= Word /\ Word \in Nat
  BY ArenaTypes
<1>2. aligned(a) = round_up(v, a)
  BY <1>1 DEF aligned
<1> HIDE DEF v
<1>3. /\ aligned(a) \in Nat /\ aligned(a) % a = 0
      /\ v <= aligned(a) /\ aligned(a) < v + a
  BY <1>1, <1>2, RoundUp
<1> DEFINE g == aligned(a) - base_
<1>4. g \in Nat /\ g < Word /\ g + n \in Nat /\ g + n < Word
  BY <1>1, <1>3 DEF v
<1>5. new_off(n, a) = ((g % Word) + n) % Word
  BY DEF new_off
<1> HIDE DEF g
<1>6. new_off(n, a) = g + n
  BY <1>1, <1>4, <1>5
<1> QED BY <1>3, <1>6 DEF g, v

\* The region is whole at the start, and every call keeps the blocks apart.
LEMMA ArenaStart ==
    ASSUME NEW bases \in SUBSET Nat, NEW sizes \in SUBSET Nat
    PROVE  ArenaInit(bases, sizes) => ArenaInv
BY DEF ArenaInit, ArenaInv

\* alloc adds a block behind all others.
LEMMA AllocKeeps ==
    ASSUME ArenaInv, NEW n \in Nat, NEW a \in Nat, a > 0,
           base_ + bytes_ + n + a <= Word, alloc(n, a)
    PROVE  ArenaInv'
<1>1. base_ \in Nat /\ bytes_ \in Nat /\ off_ \in Nat /\ off_ <= bytes_ /\ Word \in Nat
  BY ArenaTypes DEF ArenaInv
<1>2. base_ + off_ + n + a <= Word
  BY <1>1
<1>3. /\ aligned(a) \in Nat /\ aligned(a) % a = 0 /\ base_ + off_ <= aligned(a)
      /\ new_off(n, a) = aligned(a) - base_ + n
  BY <1>1, <1>2, Slice
<1>4. PICK d : d = [at |-> aligned(a), n |-> n, a |-> a]
  OBVIOUS
<1>5. /\ off_' = new_off(n, a) /\ new_off(n, a) <= bytes_ /\ blocks' = blocks \cup {d}
      /\ base_' = base_ /\ bytes_' = bytes_
  BY <1>4 DEF alloc
<1>6. off_' \in 0..bytes_' /\ off_' >= off_ /\ d.at + d.n = base_' + off_' /\ off_' \in Nat
  BY <1>1, <1>3, <1>4, <1>5
<1>7. d \in BlockShape /\ d.at % d.a = 0 /\ base_' <= d.at /\ d.at \in Nat /\ d.n \in Nat
  BY <1>1, <1>3, <1>4, <1>5 DEF BlockShape
<1>8. ASSUME NEW b \in blocks
      PROVE  b.at + b.n <= base_' + off_' /\ b.at + b.n <= d.at /\ base_' <= b.at /\ b.at % b.a = 0
  <2>1. b.at \in Nat /\ b.n \in Nat /\ b.at + b.n <= base_ + off_ /\ base_ <= b.at /\ b.at % b.a = 0
    BY DEF ArenaInv, BlockShape
  <2>2. base_ + off_ <= d.at
    BY <1>3, <1>4
  <2> QED BY <1>1, <1>5, <1>6, <1>7, <2>1, <2>2
<1>9. \A b \in blocks' : b.at % b.a = 0 /\ base_' <= b.at /\ b.at + b.n <= base_' + off_'
  BY <1>1, <1>5, <1>6, <1>7, <1>8
<1>10. ASSUME NEW b \in blocks', NEW c \in blocks', b # c
       PROVE  b.at + b.n <= c.at \/ c.at + c.n <= b.at
  <2>1. CASE b \in blocks /\ c \in blocks
    BY <1>10, <2>1 DEF ArenaInv
  <2>2. CASE b = d
    BY <1>5, <1>8, <1>10, <2>2
  <2>3. CASE c = d
    BY <1>5, <1>8, <1>10, <2>3
  <2> QED BY <1>5, <2>1, <2>2, <2>3
<1>11. base_' \in Nat /\ bytes_' \in Nat /\ blocks' \subseteq BlockShape
  BY <1>1, <1>5, <1>7 DEF ArenaInv
<1> QED BY <1>6, <1>9, <1>10, <1>11 DEF ArenaInv

\* Whatever is asked for in any order, and however often the arena is reset,
\* the live blocks are aligned, inside the region and apart: for size_t of any
\* width, 64 bits among them, and every power of two that fits as alignment,
\* while no request is so large that the sums of alloc wrap.
THEOREM BlocksAreSound ==
    ASSUME NEW bases \in SUBSET Nat, NEW sizes \in SUBSET Nat
    PROVE  ArenaInit(bases, sizes) /\ NoWrap /\ [][ArenaNext]_arenaVars => []BlocksSound
<1>1. ArenaInit(bases, sizes) => ArenaInv
  BY ArenaStart
<1>2. ArenaInv /\ NoWrap /\ [ArenaNext]_arenaVars => ArenaInv' /\ NoWrap'
  <2> SUFFICES ASSUME ArenaInv, NoWrap, [ArenaNext]_arenaVars PROVE ArenaInv' /\ NoWrap'
    OBVIOUS
  <2>1. base_' = base_ /\ bytes_' = bytes_
    BY DEF ArenaNext, reset, alloc, allocRefused, arenaVars
  <2>2. NoWrap'
    BY <2>1 DEF NoWrap
  <2>3. ASSUME NEW n \in Ask, NEW a \in Align, alloc(n, a) PROVE ArenaInv'
    <3>1. n \in Nat /\ a \in Nat /\ a > 0 /\ base_ + bytes_ + n + a <= Word
      BY ArenaTypes DEF NoWrap
    <3> QED BY <2>3, <3>1, AllocKeeps
  <2>4. CASE reset
    BY <2>2, <2>4 DEF reset, ArenaInv
  <2>5. CASE UNCHANGED arenaVars
    BY <2>2, <2>5 DEF arenaVars, ArenaInv
  <2>6. ASSUME NEW n \in Ask, NEW a \in Align, allocRefused(n, a) PROVE ArenaInv'
    BY <2>5, <2>6 DEF allocRefused
  <2> QED BY <2>2, <2>3, <2>4, <2>5, <2>6 DEF ArenaNext
<1> QED BY <1>1, <1>2, ArenaSound, PTL
-----------------------------------------------------------------------------
(* The hot state                                                           *)

\* Sizes and pages
LEMMA PageTypes ==
    /\ HotSize \in Nat /\ HotSize > 0 /\ Slack \in Nat
    /\ CacheLine \in Nat /\ CacheLine > 0
    /\ SmallPage \in Nat /\ SmallPage > 0 /\ kHugePageSize \in Nat /\ kHugePageSize > 0
    /\ SmallPage % CacheLine = 0 /\ kHugePageSize % SmallPage = 0
    /\ HotSize + Slack + 3 * kHugePageSize < Word /\ Word \in Nat
BY StartUpAssumption, ArenaTypes

\* What divides is smaller.
LEMMA Divides ==
    ASSUME NEW x \in Nat, NEW a \in Nat, a > 0, x > 0, x % a = 0
    PROVE  \E q \in Nat : q >= 1 /\ x = q * a
<1> DEFINE q == x \div a
<1>1. q \in Nat /\ x = a * q + (x % a)
  OBVIOUS
<1> HIDE DEF q
<1>2. x = q * a
  BY <1>1
<1>3. q # 0
  BY <1>2
<1> QED BY <1>1, <1>2, <1>3

\* Pages are aligned to a cache line and no smaller than one.
LEMMA Pages ==
    /\ CacheLine <= SmallPage /\ SmallPage <= kHugePageSize
    /\ kHugePageSize % CacheLine = 0 /\ (kHugePageSize + SmallPage) % CacheLine = 0
<1>1. PICK q \in Nat : q >= 1 /\ SmallPage = q * CacheLine
  BY PageTypes, Divides
<1>2. PICK r \in Nat : r >= 1 /\ kHugePageSize = r * SmallPage
  BY PageTypes, Divides
<1>3. r * q \in Nat /\ kHugePageSize = (r * q) * CacheLine
  BY <1>1, <1>2, PageTypes
<1>4. r * q + q \in Nat /\ kHugePageSize + SmallPage = (r * q + q) * CacheLine
  BY <1>1, <1>3, PageTypes
<1>5. kHugePageSize % CacheLine = 0 /\ (kHugePageSize + SmallPage) % CacheLine = 0
  BY <1>3, <1>4, Multiple, PageTypes
<1>6. CacheLine <= SmallPage
  BY <1>1, PageTypes
<1>7. SmallPage <= kHugePageSize
  BY <1>2, PageTypes
<1> QED BY <1>5, <1>6, <1>7

\* Where the constructor may have put the arena
Mapping == \/ pages = "huge" /\ base_ = kHugePageSize
           \/ pages = "normal" /\ base_ = kHugePageSize + SmallPage
           \/ pages = "none" /\ base_ = 0

\* Each stage of main knows what the ones before it left behind.
MainInv ==
    /\ main = "arena" => pages = "none" /\ ~on_huge /\ blocks = {} /\ off_ = 0
    /\ main = "place" => /\ Mapping /\ bytes_ = round_up(HotSize + Slack, kHugePageSize)
                         /\ ~on_huge /\ blocks = {} /\ off_ = 0
    /\ main = "heap" => pages = "none" /\ ~on_huge /\ blocks = {}
    /\ GaugeHonest

\* The arena is as large as what main puts there, wherever it lies: alloc
\* succeeds on every mapping and starts at its first byte.
LEMMA RoomForHotState ==
    ASSUME Mapping, base_ # 0, off_ = 0, bytes_ = round_up(HotSize + Slack, kHugePageSize)
    PROVE  /\ aligned(CacheLine) = base_ /\ new_off(HotSize, CacheLine) = HotSize
           /\ base_ % CacheLine = 0 /\ HotSize <= bytes_ /\ base_ \in Nat /\ bytes_ \in Nat
<1>1. /\ base_ \in Nat /\ base_ <= 2 * kHugePageSize /\ base_ % CacheLine = 0
  BY Pages, PageTypes DEF Mapping
<1>2. /\ HotSize + Slack \in Nat /\ HotSize + Slack + kHugePageSize <= Word
      /\ base_ + CacheLine <= Word /\ base_ + HotSize < Word
  BY <1>1, Pages, PageTypes
<1>3. bytes_ \in Nat /\ HotSize + Slack <= bytes_
  BY <1>2, RoundUp, PageTypes
<1>4. aligned(CacheLine) = base_
  <2>1. (base_ + off_) % Word = base_
    BY <1>1, <1>2, PageTypes
  <2>2. round_up(base_, CacheLine) = base_
    BY <1>1, <1>2, PageTypes, RoundUpAligned
  <2> QED BY <2>1, <2>2 DEF aligned
<1>5. new_off(HotSize, CacheLine) = HotSize
  <2>1. (base_ - base_) % Word = 0 /\ (0 + HotSize) % Word = HotSize
    BY <1>1, <1>2, PageTypes
  <2> QED BY <1>4, <2>1 DEF new_off
<1> QED BY <1>1, <1>3, <1>4, <1>5, PageTypes

\* Nothing is placed yet.
LEMMA MainStart == StartUpInit => MainInv
BY DEF StartUpInit, ArenaInit, MainInv, GaugeHonest

\* main's steps.
LEMMA MainStep == MainInv /\ [StartUpNext]_vars => MainInv'
<1> SUFFICES ASSUME MainInv, [StartUpNext]_vars PROVE MainInv'
  OBVIOUS
<1>1. CASE HugeArena
  <2>1. main = "arena" /\ main' = "place" /\ UNCHANGED <<off_, blocks, on_huge>>
    BY <1>1 DEF HugeArena
  <2>2. Mapping' /\ bytes_' = round_up(HotSize + Slack, kHugePageSize)
    BY <1>1 DEF HugeArena, Mapped, Mapping
  <2> QED BY <2>1, <2>2 DEF MainInv, GaugeHonest
<1>2. CASE NoArena
  BY <1>2 DEF NoArena, arenaVars, MainInv, GaugeHonest
<1>3. CASE Place
  <2>1. /\ main = "place" /\ base_ # 0 /\ main' = "up" /\ hs' = "arena"
        /\ on_huge' = (pages = "huge") /\ UNCHANGED <<pages, base_, bytes_>>
        /\ blocks' = blocks \cup {[at |-> aligned(CacheLine), n |-> HotSize, a |-> CacheLine]}
    BY <1>3 DEF Place, alloc
  <2>2. Mapping /\ off_ = 0 /\ blocks = {} /\ bytes_ = round_up(HotSize + Slack, kHugePageSize)
    BY <2>1 DEF MainInv
  <2>3. /\ aligned(CacheLine) = base_ /\ base_ % CacheLine = 0 /\ HotSize <= bytes_
        /\ base_ \in Nat /\ bytes_ \in Nat
    BY <2>1, <2>2, RoomForHotState
  <2>4. BlocksSound'
    <3>1. blocks' = {[at |-> base_, n |-> HotSize, a |-> CacheLine]}
      BY <2>1, <2>2, <2>3
    <3>2. base_..(base_ + HotSize - 1) \subseteq base_'..(base_' + bytes_' - 1)
      BY <2>1, <2>3, PageTypes
    <3> QED BY <2>3, <3>1, <3>2 DEF BlocksSound, Bytes
  <2>5. pages # "none"
    BY <2>1, <2>2, PageTypes DEF Mapping
  <2>6. on_huge' <=> pages' = "huge" /\ hs' = "arena"
    BY <2>1
  <2> QED BY <2>1, <2>4, <2>5, <2>6 DEF MainInv, GaugeHonest
<1>4. CASE PlaceFails
  <2>1. /\ main = "place" /\ main' = "heap" /\ UNCHANGED <<pages, on_huge, blocks>>
        /\ base_ = 0 \/ new_off(HotSize, CacheLine) > bytes_
    BY <1>4 DEF PlaceFails, allocRefused, arenaVars
  <2>2. Mapping /\ off_ = 0 /\ bytes_ = round_up(HotSize + Slack, kHugePageSize)
        /\ ~on_huge /\ blocks = {}
    BY <2>1 DEF MainInv
  <2>3. base_ = 0
    <3>1. ASSUME base_ # 0 PROVE FALSE
      <4>1. new_off(HotSize, CacheLine) = HotSize /\ HotSize <= bytes_ /\ bytes_ \in Nat
        BY <2>2, <3>1, RoomForHotState
      <4> QED BY <2>1, <3>1, <4>1, PageTypes
    <3> QED BY <3>1
  <2>4. pages = "none"
    BY <2>2, <2>3, PageTypes DEF Mapping
  <2> QED BY <2>1, <2>2, <2>4 DEF MainInv, GaugeHonest
<1>5. CASE NewHotState
  <2>1. main = "heap" /\ main' = "up" /\ hs' = "heap" /\ UNCHANGED <<pages, on_huge, blocks>>
    BY <1>5 DEF NewHotState, arenaVars
  <2>2. pages = "none" /\ ~on_huge /\ blocks = {}
    BY <2>1 DEF MainInv
  <2>3. BlocksSound'
    BY <2>1, <2>2 DEF BlocksSound
  <2> QED BY <2>1, <2>2, <2>3 DEF MainInv, GaugeHonest
<1>6. CASE (\E t \in Hot : HotThread(t)) \/ UNCHANGED vars
  <2>1. UNCHANGED <<arenaVars, mainVars>>
    BY <1>6 DEF HotThread, vars
  <2>2. UNCHANGED <<base_, bytes_, off_, blocks, main, pages, hs, on_huge>>
    BY <2>1 DEF arenaVars, mainVars
  <2> QED BY <2>2 DEF MainInv, Mapping, GaugeHonest, BlocksSound, Bytes
<1> QED BY <1>1, <1>2, <1>3, <1>4, <1>5, <1>6 DEF StartUpNext

\* engine_hugepages is 1 exactly if the hot state is on huge pages, and the
\* heap is the last resort only.
THEOREM GaugeIsHonest == StartUpSpec => []GaugeHonest
<1>1. MainInv => GaugeHonest
  BY DEF MainInv
<1> QED BY <1>1, MainStart, MainStep, PTL DEF StartUpSpec
-----------------------------------------------------------------------------
(* The cores                                                               *)

\* A hot thread has either its own core or all of the housekeeping cores;
\* it goes real-time only on its own.
OwnCore(t) == t \in Hot /\ mask[t] = {cpu[t]} /\ cpu[t] \in online
CoresInv ==
    /\ Housekeeping \subseteq online
    /\ setup \in [Hot -> {"new", "pinned", "run"}]
    /\ mask \in [Thread -> SUBSET Cpu] /\ policy \in [Thread -> {"OTHER", "FIFO"}]
    /\ \A t \in Thread : Housekeeping \subseteq mask[t] \/ OwnCore(t)
    /\ \A t \in Hot : setup[t] = "pinned" => OwnCore(t) /\ pin(t)
    /\ \A t \in Thread : policy[t] = "FIFO" => /\ OwnCore(t) /\ pin(t) /\ rt(t)
                                               /\ setup[t] # "new"

\* The units start every thread on the housekeeping cores, under no
\* real-time policy.
LEMMA CoresStart == CoresInit => CoresInv
<1> SUFFICES ASSUME CoresInit PROVE CoresInv
  OBVIOUS
<1>1. Housekeeping \subseteq online /\ online \subseteq Cpu
  BY CoresAssumption DEF CoresInit
<1>2. \A t \in Thread : /\ UnitMask(t) \cap online \subseteq Cpu
                        /\ Housekeeping \subseteq UnitMask(t) \cap online
  BY <1>1 DEF UnitMask
<1>3. mask \in [Thread -> SUBSET Cpu] /\ \A t \in Thread : Housekeeping \subseteq mask[t]
  BY <1>2 DEF CoresInit
<1>4. setup \in [Hot -> {"new", "pinned", "run"}] /\ \A t \in Hot : setup[t] = "new"
  BY DEF CoresInit
<1>5. policy \in [Thread -> {"OTHER", "FIFO"}] /\ \A t \in Thread : policy[t] = "OTHER"
  BY DEF CoresInit
<1> QED BY <1>1, <1>3, <1>4, <1>5 DEF CoresInv

\* A step of a thread's set-up changes only what is that thread's.
LEMMA SetupKeeps ==
    ASSUME CoresInv, NEW t \in Hot, SetupStep(t) \/ NextHandler(t)
    PROVE  CoresInv'
<1>0. t \in Thread /\ cpu[t] \in Cpu /\ UNCHANGED <<online, mayNice, args>>
  BY CoresAssumption DEF Thread, SetupStep, SkipSetup, Pin, Elevate, NextHandler
<1>1. /\ Housekeeping \subseteq online' /\ setup \in [Hot -> {"new", "pinned", "run"}]
      /\ mask \in [Thread -> SUBSET Cpu] /\ policy \in [Thread -> {"OTHER", "FIFO"}]
      /\ \A u \in Thread : pin(u)' = pin(u) /\ rt(u)' = rt(u)
  BY <1>0 DEF CoresInv, pin, rt, Program
<1>2. /\ \A u \in Thread : Housekeeping \subseteq mask[u] \/ OwnCore(u)
      /\ \A u \in Hot : setup[u] = "pinned" => OwnCore(u) /\ pin(u)
      /\ \A u \in Thread : policy[u] = "FIFO" =>
            OwnCore(u) /\ pin(u) /\ rt(u) /\ setup[u] # "new"
  BY DEF CoresInv
<1>3. ASSUME UNCHANGED mask PROVE \A u \in Thread : OwnCore(u)' <=> OwnCore(u)
  BY <1>0, <1>3 DEF OwnCore
<1>4. CASE SkipSetup(t) \/ (Pin(t) /\ cpu[t] \notin online)
  <2>1. setup[t] = "new" /\ setup' = [setup EXCEPT ![t] = "run"] /\ UNCHANGED <<mask, policy>>
    BY <1>4 DEF SkipSetup, Pin
  <2>2. setup' \in [Hot -> {"new", "pinned", "run"}] /\ setup'[t] = "run"
    BY <1>1, <2>1
  <2>3. \A u \in Hot : u # t => setup'[u] = setup[u]
    BY <1>1, <2>1
  <2>4. \A u \in Thread : Housekeeping \subseteq mask'[u] \/ OwnCore(u)'
    BY <1>2, <1>3, <2>1
  <2>5. \A u \in Hot : setup'[u] = "pinned" => OwnCore(u)' /\ pin(u)'
    BY <1>1, <1>2, <1>3, <2>1, <2>2, <2>3 DEF Thread
  <2>6. \A u \in Thread : policy'[u] = "FIFO" => OwnCore(u)' /\ pin(u)' /\ rt(u)' /\ setup'[u] # "new"
    BY <1>1, <1>2, <1>3, <2>1, <2>2, <2>3 DEF OwnCore
  <2> QED BY <1>1, <2>1, <2>2, <2>4, <2>5, <2>6 DEF CoresInv
<1>5. CASE Pin(t) /\ cpu[t] \in online
  <2>1. /\ setup[t] = "new" /\ pin(t) /\ mask' = [mask EXCEPT ![t] = {cpu[t]}]
        /\ setup' = [setup EXCEPT ![t] = "pinned"] /\ policy' = policy
    BY <1>5 DEF Pin
  <2>2. OwnCore(t)' /\ \A u \in Thread : u # t => (OwnCore(u)' <=> OwnCore(u)) /\ mask'[u] = mask[u]
    BY <1>0, <1>1, <1>5, <2>1 DEF OwnCore
  <2>3. mask' \in [Thread -> SUBSET Cpu] /\ setup' \in [Hot -> {"new", "pinned", "run"}]
    BY <1>0, <1>1, <2>1
  <2>4. policy[t] # "FIFO"
    BY <1>0, <1>2, <2>1
  <2>5. \A u \in Thread : Housekeeping \subseteq mask'[u] \/ OwnCore(u)'
    BY <1>2, <2>2
  <2>6. \A u \in Hot : setup'[u] = "pinned" => OwnCore(u)' /\ pin(u)'
    BY <1>0, <1>1, <1>2, <2>1, <2>2 DEF Thread
  <2>7. \A u \in Thread : policy'[u] = "FIFO" => OwnCore(u)' /\ pin(u)' /\ rt(u)' /\ setup'[u] # "new"
    <3>1. \A u \in Hot : u # t => setup'[u] = setup[u]
      BY <1>1, <2>1
    <3> QED BY <1>1, <1>2, <2>1, <2>2, <2>4, <3>1 DEF OwnCore
  <2> QED BY <1>1, <2>1, <2>3, <2>5, <2>6, <2>7 DEF CoresInv
<1>6. CASE Elevate(t)
  <2>1. /\ setup[t] = "pinned" /\ setup' = [setup EXCEPT ![t] = "run"] /\ UNCHANGED mask
        /\ policy' = policy \/ (rt(t) /\ policy' = [policy EXCEPT ![t] = "FIFO"])
    BY <1>6 DEF Elevate
  <2>2. OwnCore(t) /\ pin(t)
    BY <1>2, <2>1
  <2>3. policy' \in [Thread -> {"OTHER", "FIFO"}] /\ setup' \in [Hot -> {"new", "pinned", "run"}]
    BY <1>0, <1>1, <2>1
  <2>4. \A u \in Thread : Housekeeping \subseteq mask'[u] \/ OwnCore(u)'
    BY <1>2, <1>3, <2>1
  <2>5. \A u \in Hot : setup'[u] = "pinned" => OwnCore(u)' /\ pin(u)'
    BY <1>1, <1>2, <1>3, <2>1 DEF Thread
  <2>6. \A u \in Thread : policy'[u] = "FIFO" => OwnCore(u)' /\ pin(u)' /\ rt(u)' /\ setup'[u] # "new"
    <3>1. \A u \in Hot : setup[u] # "new" => setup'[u] # "new"
      BY <1>1, <2>1
    <3>2. setup'[t] # "new"
      BY <1>1, <2>1
    <3>3. \A u \in Thread : u # t => policy'[u] = policy[u]
      BY <1>1, <2>1
    <3>4. policy'[t] = "FIFO" => rt(t)
      BY <1>0, <1>1, <1>2, <2>1
    <3> QED BY <1>0, <1>1, <1>2, <1>3, <2>1, <2>2, <3>1, <3>2, <3>3, <3>4 DEF OwnCore
  <2> QED BY <1>1, <2>1, <2>3, <2>4, <2>5, <2>6 DEF CoresInv
<1>7. CASE NextHandler(t)
  <2>1. /\ setup' = [setup EXCEPT ![t] = "new"] /\ policy' = [policy EXCEPT ![t] = "OTHER"]
        /\ mask' = [mask EXCEPT ![t] = UnitMask(t) \cap online]
    BY <1>7 DEF NextHandler
  <2>2. UnitMask(t) \cap online \subseteq Cpu /\ Housekeeping \subseteq UnitMask(t) \cap online
    BY <1>0, <1>1, CoresAssumption DEF UnitMask
  <2>3. /\ mask' \in [Thread -> SUBSET Cpu] /\ policy' \in [Thread -> {"OTHER", "FIFO"}]
        /\ setup' \in [Hot -> {"new", "pinned", "run"}]
    BY <1>0, <1>1, <2>1, <2>2
  <2>4. /\ Housekeeping \subseteq mask'[t] /\ policy'[t] = "OTHER" /\ setup'[t] = "new"
        /\ \A u \in Thread : u # t => /\ (OwnCore(u)' <=> OwnCore(u)) /\ mask'[u] = mask[u]
                                      /\ policy'[u] = policy[u]
        /\ \A u \in Hot : u # t => setup'[u] = setup[u]
    BY <1>0, <1>1, <2>1, <2>2 DEF OwnCore
  <2>5. \A u \in Thread : Housekeeping \subseteq mask'[u] \/ OwnCore(u)'
    BY <1>2, <2>4
  <2>6. \A u \in Hot : setup'[u] = "pinned" => OwnCore(u)' /\ pin(u)'
    BY <1>1, <1>2, <2>4 DEF Thread
  <2>7. \A u \in Thread : policy'[u] = "FIFO" => OwnCore(u)' /\ pin(u)' /\ rt(u)' /\ setup'[u] # "new"
    BY <1>1, <1>2, <2>4 DEF OwnCore
  <2> QED BY <1>1, <2>3, <2>5, <2>6, <2>7 DEF CoresInv
<1> QED BY <1>4, <1>5, <1>6, <1>7 DEF SetupStep

\* main and the arena leave the cores alone.
LEMMA CoresStep == CoresInv /\ [StartUpNext]_vars => CoresInv'
<1> SUFFICES ASSUME CoresInv, [StartUpNext]_vars PROVE CoresInv'
  OBVIOUS
<1>1. CASE HugeArena \/ NoArena \/ Place \/ PlaceFails \/ NewHotState \/ UNCHANGED vars
  <2>1. UNCHANGED <<online, mayNice, args, setup, mask, policy>>
    BY <1>1 DEF HugeArena, NoArena, Place, PlaceFails, NewHotState, vars, coresVars
  <2> QED BY <2>1 DEF CoresInv, OwnCore, pin, rt, Program
<1>2. ASSUME NEW t \in Hot, HotThread(t) PROVE CoresInv'
  BY <1>2, SetupKeeps DEF HotThread
<1> QED BY <1>1, <1>2 DEF StartUpNext

\* A real-time spin sits on a core of its own, where both options asked for
\* it: a core that is offline or a failed pin never puts one elsewhere.
THEOREM FifoIsNailed == StartUpSpec => []FifoNailed
<1>1. CoresInv => FifoNailed
  <2> SUFFICES ASSUME CoresInv, NEW t \in Thread, policy[t] = "FIFO"
               PROVE  /\ t \in Hot /\ pin(t) /\ rt(t)
                      /\ mask[t] = {cpu[t]} /\ mask[t] \subseteq online \ Housekeeping
    BY DEF FifoNailed
  <2>1. OwnCore(t) /\ pin(t) /\ rt(t)
    BY DEF CoresInv
  <2>2. cpu[t] \notin Housekeeping
    BY <2>1, CoresAssumption DEF OwnCore
  <2> QED BY <2>1, <2>2 DEF OwnCore
<1>2. StartUpInit => CoresInv
  BY CoresStart DEF StartUpInit
<1> QED BY <1>1, <1>2, CoresStep, PTL DEF StartUpSpec

\* Every thread of both programs has a core that no real-time thread but
\* itself may use.
THEOREM NobodyIsStarved == StartUpSpec => []NobodyStarved
<1>1. CoresInv => NobodyStarved
  <2> SUFFICES ASSUME CoresInv, NEW t \in Thread
               PROVE  \E c \in mask[t] \cap online :
                         \A u \in Thread \ {t} : policy[u] = "FIFO" => c \notin mask[u]
    BY DEF NobodyStarved
  <2>1. \A u \in Thread : policy[u] = "FIFO" =>
           u \in Hot /\ mask[u] = {cpu[u]} /\ cpu[u] \notin Housekeeping
    BY CoresAssumption DEF CoresInv, OwnCore
  <2>2. CASE Housekeeping \subseteq mask[t]
    <3>1. PICK c : c \in Housekeeping
      BY CoresAssumption
    <3>2. c \in mask[t] \cap online
      BY <2>2, <3>1 DEF CoresInv
    <3> QED BY <2>1, <3>1, <3>2
  <2>3. CASE OwnCore(t)
    <3>1. cpu[t] \in mask[t] \cap online
      BY <2>3 DEF OwnCore
    <3>2. \A u \in Thread \ {t} : policy[u] = "FIFO" => cpu[t] \notin mask[u]
      BY <2>1, <2>3, CoresAssumption DEF OwnCore
    <3> QED BY <3>1, <3>2
  <2> QED BY <2>2, <2>3 DEF CoresInv
<1>2. StartUpInit => CoresInv
  BY CoresStart DEF StartUpInit
<1> QED BY <1>1, <1>2, CoresStep, PTL DEF StartUpSpec
=============================================================================
