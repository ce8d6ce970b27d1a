--------------------------- MODULE Histogram_proofs --------------------------
(***************************************************************************)
(* The buckets of Histogram keep their promise for every number of sub-    *)
(* buckets and octaves; a snapshot taken while the gateway records is      *)
(* sound for every interleaving of its reads with the relaxed updates; and *)
(* one that no record overlaps is exact.                                   *)
(***************************************************************************)
EXTENDS Histogram, NaturalFacts
-----------------------------------------------------------------------------
(* bucket_of and value_of                                                  *)

\* The sizes are powers of two.
LEMMA Sizes ==
    /\ kSubBits \in Nat /\ kMaxOctave \in Nat /\ kMaxOctave > kSubBits + 1
    /\ kSub = 2^kSubBits /\ kSub \in Nat /\ kSub >= 1
    /\ kLinear = 2 * kSub /\ kLinear = 2^(kSubBits + 1)
    /\ kMaxOctave - (kSubBits + 1) \in Nat
    /\ kBuckets = kLinear + (kMaxOctave - (kSubBits + 1)) * kSub /\ kBuckets \in Nat
    /\ kBuckets >= kLinear
<1>1. kSubBits \in Nat /\ kMaxOctave \in Nat /\ kMaxOctave > kSubBits + 1
  BY HistogramAssumption
<1>2. kSub = 2^kSubBits /\ kSub \in Nat /\ kSub >= 1 /\ kLinear = 2^(kSubBits + 1)
  BY <1>1, PowerDoubles DEF kSub, kLinear
<1>3. PICK m \in Nat : m = kMaxOctave - (kSubBits + 1)
  BY <1>1
<1>4. m * kSub \in Nat
  BY <1>2
<1> QED BY <1>1, <1>2, <1>3, <1>4 DEF kLinear, kBuckets

\* clzll finds the octave.
LEMMA LogIsOctave ==
    ASSUME NEW v \in Nat, NEW o \in Nat, 2^o <= v, v < 2^(o + 1)
    PROVE  Log2(v) = o
<1>1. o \in 0..v
  BY PowerAbove, PowerDoubles
<1>2. PICK r \in 0..v : r = Log2(v) /\ 2^r <= v /\ v < 2^(r + 1)
  BY <1>1 DEF Log2
<1> QED BY <1>2, OctaveUnique

\* Where a value above the linear range lies: in octave o, which is divided
\* into kSub sub-buckets of 2 * half values, as the rem-th value of the q-th.
Lies(v, o, half, q, rem) ==
    /\ o \in kSubBits + 1 .. kMaxOctave - 1
    /\ 2^o <= v /\ v < 2^(o + 1)
    /\ half \in Nat /\ half >= 1 /\ 2^(o - kSubBits) = 2 * half
    /\ 2^o = kSub * (2 * half)
    /\ q \in 0 .. kSub - 1 /\ rem \in 0 .. 2 * half - 1
    /\ v = 2^o + q * (2 * half) + rem
    /\ bucket_of(v) = kLinear + (o - (kSubBits + 1)) * kSub + q

\* Every value above the linear range lies somewhere.
LEMMA EveryValueLies ==
    ASSUME NEW v \in InRange, v >= kLinear
    PROVE  \E o, half, q, rem : Lies(v, o, half, q, rem)
<1>1. v \in Nat /\ v >= 1 /\ v < 2^kMaxOctave
  BY Sizes, PowerDoubles DEF InRange
<1>2. PICK o \in 0..v : 2^o <= v /\ v < 2^(o + 1)
  BY <1>1, Octave
<1>3. 2^o \in Nat /\ 2^(o + 1) = 2 * 2^o
  BY <1>1, PowerDoubles
<1>4. o >= kSubBits + 1
  <2>1. o + 1 <= kSubBits + 1 => 2^(o + 1) <= kLinear
    BY <1>1, Sizes, PowerGrows
  <2> QED BY <1>1, <1>2, <1>3, <2>1, Sizes
<1>5. o < kMaxOctave
  <2>1. kMaxOctave <= o => 2^kMaxOctave <= 2^o
    BY <1>1, Sizes, PowerGrows
  <2> QED BY <1>1, <1>2, <1>3, <2>1, Sizes, PowerDoubles
<1>6. PICK half \in Nat : half = 2^(o - (kSubBits + 1)) /\ half >= 1
                          /\ 2^(o - (kSubBits + 1) + 1) = 2 * half
  <2>1. o - (kSubBits + 1) \in Nat
    BY <1>1, <1>4, Sizes
  <2> QED BY <2>1, PowerDoubles
<1>7. 2^(o - kSubBits) = 2 * half
  <2>1. o - (kSubBits + 1) + 1 = o - kSubBits
    BY <1>1, Sizes
  <2> QED BY <1>6, <2>1
<1>8. 2^o = kSub * (2 * half)
  <2>1. o - kSubBits \in Nat /\ kSubBits + (o - kSubBits) = o
    BY <1>1, <1>4, Sizes
  <2>2. 2^(kSubBits + (o - kSubBits)) = 2^kSubBits * 2^(o - kSubBits)
    BY <2>1, Sizes, PowerSum
  <2> QED BY <1>7, <2>1, <2>2, Sizes
<1>9. PICK w \in Nat : w = 2 * half /\ w >= 1
  BY <1>6
<1>10. PICK x \in Nat : x = v - 2^o /\ x < kSub * w
  BY <1>1, <1>2, <1>3, <1>8, <1>9
<1>11. PICK q \in Nat : q = x \div w /\ q * w <= x /\ x < (q + 1) * w
  BY <1>9, RoundsDown
<1>12. q < kSub
  <2>1. kSub <= q => kSub * w <= q * w
    BY Sizes
  <2>2. kSub * w \in Nat /\ q * w \in Nat
    BY Sizes
  <2> QED BY <1>10, <1>11, <2>1, <2>2, Sizes
<1>13. PICK rem \in 0 .. w - 1 : x = q * w + rem
  <2>1. (q + 1) * w = q * w + w /\ q * w \in Nat
    BY <1>9
  <2>2. x - q * w \in 0 .. w - 1
    BY <1>11, <2>1
  <2> QED BY <2>1, <2>2
<1>14. bucket_of(v) = kLinear + (o - (kSubBits + 1)) * kSub + q
  <2>1. Log2(v) = o
    BY <1>1, <1>2, LogIsOctave
  <2>2. ~(v < kLinear) /\ ~(Log2(v) >= kMaxOctave)
    BY <1>1, <1>5, <2>1, Sizes
  <2>3. (v - 2^o) \div 2^(o - kSubBits) = q
    BY <1>7, <1>9, <1>10, <1>11
  <2> QED BY <2>1, <2>2, <2>3 DEF bucket_of
<1>15. v = 2^o + q * w + rem
  <2>1. q * w \in Nat
    OBVIOUS
  <2> QED BY <1>1, <1>3, <1>10, <1>13, <2>1
<1>16. Lies(v, o, half, q, rem)
  BY <1>1, <1>2, <1>4, <1>5, <1>6, <1>7, <1>8, <1>9, <1>12, <1>14, <1>15, Sizes DEF Lies
<1> QED BY <1>16

\* The bucket is between the first of its octave and the first of the next.
LEMMA BucketPlace ==
    ASSUME NEW v \in Nat, NEW o, NEW half, NEW q, NEW rem, Lies(v, o, half, q, rem)
    PROVE  /\ bucket_of(v) \in Nat
           /\ kLinear + (o - (kSubBits + 1)) * kSub <= bucket_of(v)
           /\ bucket_of(v) < kLinear + (o - kSubBits) * kSub
           /\ bucket_of(v) < kBuckets
<1>1. PICK m \in Nat : m = o - (kSubBits + 1) /\ m + 1 <= kMaxOctave - (kSubBits + 1)
                       /\ m + 1 = o - kSubBits
  BY Sizes DEF Lies
<1>2. bucket_of(v) = kLinear + m * kSub + q /\ q \in 0 .. kSub - 1
  BY <1>1 DEF Lies
<1>3. m * kSub \in Nat /\ (m + 1) * kSub = m * kSub + kSub
  BY Sizes
<1>4. PICK r \in Nat : r = kMaxOctave - (kSubBits + 1)
  BY Sizes
<1>5. (m + 1) * kSub <= r * kSub /\ r * kSub \in Nat
  BY <1>1, <1>4, Sizes
<1> QED BY <1>1, <1>2, <1>3, <1>4, <1>5, Sizes

\* value_of finds the octave and the sub-bucket again, and returns the middle.
LEMMA ValueIsMiddle ==
    ASSUME NEW v \in Nat, NEW o, NEW half, NEW q, NEW rem, Lies(v, o, half, q, rem)
    PROVE  value_of(bucket_of(v)) = 2^o + q * (2 * half) + half
<1>1. PICK m \in Nat : m = o - (kSubBits + 1)
  BY Sizes DEF Lies
<1>2. bucket_of(v) = kLinear + m * kSub + q /\ q \in 0 .. kSub - 1 /\ o \in Nat
  BY <1>1, Sizes DEF Lies
<1>3. PICK y \in Nat : y = m * kSub
  BY Sizes
<1>4. PICK x \in Nat : x = y + q
  BY <1>2
<1>5. ~(bucket_of(v) < kLinear) /\ bucket_of(v) - kLinear = x
  BY <1>2, <1>3, <1>4, Sizes
<1>6. (m + 1) * kSub = y + kSub
  BY <1>3, Sizes
<1>7. x \div kSub = m
  <2>1. m * kSub <= x /\ x < (m + 1) * kSub
    BY <1>2, <1>3, <1>4, <1>6, Sizes
  <2> QED BY <2>1, Sizes, Quotient
<1>8. x % kSub = q
  <2>1. x % kSub \in Nat /\ x = kSub * (x \div kSub) + (x % kSub)
    BY Sizes, Remainder
  <2>2. kSub * m = y
    BY <1>3, Sizes
  <2> QED BY <1>2, <1>4, <1>7, <2>1, <2>2
<1>9. kSubBits + 1 + x \div kSub = o
  BY <1>1, <1>2, <1>7, Sizes
<1>10. 2^(o - kSubBits) = 2 * half /\ half \in Nat /\ (2 * half) \div 2 = half
  BY DEF Lies
<1> QED BY <1>5, <1>8, <1>9, <1>10 DEF value_of

\* What BucketsFaithful says of one value.
LEMMA OneValue ==
    ASSUME NEW v \in InRange
    PROVE  /\ v \in Nat /\ bucket_of(v) \in Buckets
           /\ v < kLinear => Distance(v, value_of(bucket_of(v))) = 0
           /\ Distance(v, value_of(bucket_of(v))) * 2 * kSub <= v
<1>1. v \in Nat
  BY Sizes, PowerDoubles DEF InRange
<1>2. CASE v < kLinear
  <2>1. bucket_of(v) = v /\ value_of(v) = v
    BY <1>2 DEF bucket_of, value_of
  <2>2. bucket_of(v) \in Buckets
    BY <1>1, <1>2, <2>1, Sizes DEF Buckets
  <2>3. Distance(v, v) = 0
    BY <1>1 DEF Distance
  <2>4. 0 * 2 * kSub = 0
    BY Sizes
  <2> QED BY <1>1, <2>1, <2>2, <2>3, <2>4
<1>3. CASE v >= kLinear
  <2>1. PICK o, half, q, rem : Lies(v, o, half, q, rem)
    BY <1>3, EveryValueLies
  <2>2. bucket_of(v) \in Buckets
    BY <1>1, <2>1, BucketPlace, Sizes DEF Buckets
  <2>3. PICK z : z = value_of(bucket_of(v))
    OBVIOUS
  <2>4. z = 2^o + q * (2 * half) + half
    BY <1>1, <2>1, <2>3, ValueIsMiddle
  <2>5. /\ half \in Nat /\ rem \in 0 .. 2 * half - 1 /\ v = 2^o + q * (2 * half) + rem
        /\ 2^o <= v /\ 2^o = kSub * (2 * half) /\ q \in Nat /\ o \in Nat
    BY <2>1, Sizes DEF Lies
  <2>6. PICK g \in Nat : g = 2^o + q * (2 * half)
    <3>1. 2^o \in Nat
      BY <2>5, PowerDoubles
    <3>2. q * (2 * half) \in Nat
      BY <2>5
    <3> QED BY <3>1, <3>2
  <2>7. Distance(v, z) \in Nat /\ Distance(v, z) <= half
    <3>1. v = g + rem /\ z = g + half
      BY <2>4, <2>5, <2>6
    <3> QED BY <2>5, <3>1 DEF Distance
  <2>8. PICK d \in Nat : d = Distance(v, z) /\ d <= half
    BY <2>7
  <2>9. d * 2 * kSub <= kSub * (2 * half)
    BY <2>5, <2>8, Sizes
  <2>10. d * 2 * kSub \in Nat
    BY Sizes
  <2> QED BY <1>1, <1>3, <2>2, <2>3, <2>5, <2>8, <2>9, <2>10, Sizes
<1> QED BY <1>1, <1>2, <1>3, Sizes

\* A value is in the bucket of its predecessor or a later one.
LEMMA BucketsInOrder ==
    ASSUME NEW v \in InRange, v > 0
    PROVE  bucket_of(v - 1) <= bucket_of(v)
<1>1. v \in Nat /\ v - 1 \in Nat /\ v - 1 \in InRange
  BY Sizes, PowerDoubles DEF InRange
<1>2. CASE v < kLinear
  <2>1. bucket_of(v) = v /\ bucket_of(v - 1) = v - 1
    BY <1>1, <1>2, Sizes DEF bucket_of
  <2> QED BY <1>1, <2>1
<1>3. CASE v >= kLinear
  <2>1. PICK o, half, q, rem : Lies(v, o, half, q, rem)
    BY <1>3, EveryValueLies
  <2>2. PICK m \in Nat : m = o - (kSubBits + 1)
    BY <2>1, Sizes DEF Lies
  <2>3. bucket_of(v) \in Nat /\ kLinear + m * kSub <= bucket_of(v)
    BY <1>1, <2>1, <2>2, BucketPlace
  <2>4. CASE v - 1 < kLinear
    <3>1. bucket_of(v - 1) = v - 1
      BY <1>1, <2>4, Sizes DEF bucket_of
    <3>2. m * kSub \in Nat
      BY Sizes
    <3> QED BY <1>1, <2>3, <2>4, <3>1, <3>2, Sizes
  <2>5. CASE v - 1 >= kLinear
    <3>1. PICK o1, half1, q1, rem1 : Lies(v - 1, o1, half1, q1, rem1)
      BY <1>1, <2>5, EveryValueLies
    <3>2. /\ o \in Nat /\ o1 \in Nat /\ o >= kSubBits + 1 /\ o1 >= kSubBits + 1
          /\ 2^o1 <= v - 1 /\ v < 2^(o + 1)
      BY <2>1, <3>1, Sizes DEF Lies
    <3>3. o1 <= o
      <4>1. o + 1 <= o1 => 2^(o + 1) <= 2^o1
        BY <3>2, PowerGrows
      <4>2. 2^(o + 1) \in Nat /\ 2^o1 \in Nat
        BY <3>2, PowerDoubles
      <4> QED BY <1>1, <3>2, <4>1, <4>2
    <3>4. CASE o1 = o
      <4>1. half1 = half /\ half \in Nat /\ half >= 1 /\ q \in Nat /\ q1 \in Nat
        BY <2>1, <3>1, <3>4, Sizes DEF Lies
      <4>2. PICK g \in Nat : g = 2^o
        BY <3>2, PowerDoubles
      <4>3. PICK w \in Nat : w = 2 * half
        BY <4>1
      <4>4. /\ v = g + q * w + rem /\ rem \in 0 .. w - 1
            /\ v - 1 = g + q1 * w + rem1 /\ rem1 \in 0 .. w - 1
        BY <2>1, <3>1, <3>4, <4>1, <4>2, <4>3 DEF Lies
      <4>5. q1 <= q
        <5>1. q + 1 <= q1 => (q + 1) * w <= q1 * w
          BY <4>1
        <5>2. (q + 1) * w = q * w + w /\ q * w \in Nat /\ q1 * w \in Nat
          BY <4>1
        <5> QED BY <1>1, <4>1, <4>4, <5>1, <5>2
      <4>6. bucket_of(v) = kLinear + m * kSub + q /\ bucket_of(v - 1) = kLinear + m * kSub + q1
        BY <2>1, <2>2, <3>1, <3>4 DEF Lies
      <4>7. m * kSub \in Nat
        BY Sizes
      <4> QED BY <4>1, <4>5, <4>6, <4>7, Sizes
    <3>5. CASE o1 < o
      <4>1. PICK n \in Nat : n = o1 - kSubBits /\ n <= m
        BY <2>2, <3>2, <3>5, Sizes
      <4>2. n * kSub <= m * kSub /\ n * kSub \in Nat /\ m * kSub \in Nat
        BY <4>1, Sizes
      <4>3. bucket_of(v - 1) \in Nat /\ bucket_of(v - 1) < kLinear + n * kSub
        BY <1>1, <3>1, <4>1, BucketPlace
      <4> QED BY <2>3, <4>2, <4>3, Sizes
    <3> QED BY <3>2, <3>3, <3>4, <3>5
  <2> QED BY <1>1, <2>4, <2>5, Sizes
<1> QED BY <1>1, <1>2, <1>3, Sizes

\* Every value below 2^kMaxOctave has a bucket, a small one exactly, a larger
\* one within half a sub-bucket, and the order of values is that of buckets.
THEOREM BucketsAreFaithful == BucketsFaithful
<1> SUFFICES ASSUME NEW v \in InRange
             PROVE  LET error == Distance(v, value_of(bucket_of(v)))
                    IN  /\ bucket_of(v) \in Buckets
                        /\ v < kLinear => error = 0
                        /\ error * 2 * kSub <= v
                        /\ v > 0 => bucket_of(v - 1) <= bucket_of(v)
  BY DEF BucketsFaithful
<1> QED BY OneValue, BucketsInOrder
-----------------------------------------------------------------------------
(* Snapshots while the gateway records                                     *)

\* Records whose bucket update is visible: all but possibly the last
Visible == Len(recorded) - (IF "bucket" \in todo THEN 1 ELSE 0)
Seen(x) == {j \in 1..Visible : bucket_of(recorded[j]) = x}

\* The buckets count the visible records, each in its own bucket.
RecordInv ==
    /\ recorded \in Seq(Samples) /\ ns \in Nat /\ max_ \in Nat /\ Visible \in Nat
    /\ todo \subseteq {"bucket", "count", "sum", "max"}
    /\ todo # {} => Len(recorded) >= 1 /\ ns = recorded[Len(recorded)]
    /\ buckets_ \in [Buckets -> Nat]
    /\ \A x \in Buckets : buckets_[x] = Cardinality(Seen(x))

IsPage(s) == \E c, m \in Nat :
                \E mean, p, q, r : s = [count |-> c, mean |-> mean, p50 |-> p, p99 |-> q,
                                        p999 |-> r, max |-> m]

\* What the loop has counted: records C of the buckets below i, among them
\* all that were visible when it started.
Counting(from, C) ==
    /\ before <= from /\ snap.count <= from
    /\ total = Cardinality(C)
    /\ \A j \in C : bucket_of(recorded[j]) < i
    /\ \A j \in 1..from : bucket_of(recorded[j]) < i => j \in C

SnapshotInv ==
    /\ IsPage(snap) /\ snap.max <= max_ /\ snap.count <= Visible
    /\ before \in Nat /\ before <= Visible
    /\ b \in [Buckets -> Nat]
    /\ spc \in {"idle", "scan", "max", "mean"}
    /\ spc = "idle" => before <= snap.count
    /\ spc = "scan" => /\ i \in Buckets
                       /\ \E from \in 0..Visible : \E C \in SUBSET (1..Visible) : Counting(from, C)
    /\ spc = "max" => /\ total \in Nat /\ total <= Visible
                      /\ before <= total /\ snap.count <= total
    /\ spc = "mean" => total \in Nat /\ total = snap.count /\ before <= total

\* The type of a page, for its two counters.
LEMMA PageCounters ==
    ASSUME NEW s, IsPage(s)
    PROVE  s.count \in Nat /\ s.max \in Nat
BY DEF IsPage

\* A sample has a bucket.
LEMMA SampleHasBucket ==
    ASSUME Samples \subseteq InRange, NEW v \in Samples
    PROVE  v \in Nat /\ bucket_of(v) \in Buckets /\ bucket_of(v) \in Nat
BY OneValue, Sizes DEF Buckets

\* Nothing is recorded and no snapshot was taken.
LEMMA HistogramStart == Init => RecordInv /\ SnapshotInv
<1> SUFFICES ASSUME Init PROVE RecordInv /\ SnapshotInv
  OBVIOUS
<1>1. Visible = 0 /\ recorded = <<>> /\ todo = {}
  BY DEF Init, Visible
<1>2. \A x \in Buckets : Seen(x) = {}
  BY <1>1 DEF Seen
<1>3. Empty \in [Buckets -> Nat] /\ \A x \in Buckets : Empty[x] = 0
  BY DEF Empty
<1>4. RecordInv
  <2>1. \A x \in Buckets : buckets_[x] = Cardinality(Seen(x))
    BY <1>2, <1>3, FS_EmptySet DEF Init
  <2>2. recorded \in Seq(Samples) /\ ns \in Nat /\ max_ \in Nat /\ Visible \in Nat
    BY <1>1 DEF Init
  <2> QED BY <1>1, <1>3, <2>1, <2>2 DEF Init, RecordInv
<1>5. IsPage(NoSnapshot) /\ NoSnapshot.count = 0 /\ NoSnapshot.max = 0
  BY DEF IsPage, NoSnapshot
<1>6. SnapshotInv
  BY <1>1, <1>3, <1>5 DEF Init, SnapshotInv
<1> QED BY <1>4, <1>6

\* A record in progress is not visible until its bucket is.
LEMMA VisibleRecords ==
    ASSUME RecordInv
    PROVE  /\ Visible \in Nat /\ Len(recorded) \in Nat /\ Visible <= Len(recorded)
           /\ "bucket" \in todo => Visible = Len(recorded) - 1
           /\ "bucket" \notin todo => Visible = Len(recorded)
           /\ \A j \in 1..Visible : recorded[j] \in Samples
<1>1. Visible \in Nat /\ Len(recorded) \in Nat
  BY DEF RecordInv
<1>2. /\ "bucket" \in todo => Visible = Len(recorded) - 1
      /\ "bucket" \notin todo => Visible = Len(recorded)
  BY <1>1 DEF Visible
<1>3. Visible <= Len(recorded)
  BY <1>1, <1>2
<1>4. \A j \in 1..Len(recorded) : recorded[j] \in Samples
  BY DEF RecordInv
<1> QED BY <1>1, <1>2, <1>3, <1>4

\* Starting a record shows nothing to the reader.
LEMMA RecordKeeps ==
    ASSUME Samples \subseteq InRange, RecordInv, NEW v \in Samples, Record(v)
    PROVE  /\ RecordInv' /\ Visible' = Visible
           /\ \A j \in 1..Visible : recorded'[j] = recorded[j]
<1>1. /\ todo = {} /\ ns' = v /\ recorded' = Append(recorded, v)
      /\ todo' = {"bucket", "count", "sum", "max"} /\ UNCHANGED <<buckets_, max_>>
  BY DEF Record, shared
<1>2. recorded \in Seq(Samples) /\ Visible \in Nat /\ Visible = Len(recorded)
  BY <1>1, VisibleRecords DEF RecordInv
<1>3. /\ recorded' \in Seq(Samples) /\ Len(recorded') = Len(recorded) + 1
      /\ recorded'[Len(recorded')] = v
      /\ \A j \in 1..Len(recorded) : recorded'[j] = recorded[j]
  BY <1>1, <1>2
<1>4. Visible' = Visible
  <2>1. Visible' = Len(recorded') - 1
    BY <1>1 DEF Visible
  <2> QED BY <1>2, <1>3, <2>1
<1>5. \A j \in 1..Visible : recorded'[j] = recorded[j]
  BY <1>2, <1>3
<1>6. \A x \in Buckets : Seen(x)' = Seen(x)
  BY <1>4, <1>5 DEF Seen
<1>7. v \in Nat
  BY SampleHasBucket
<1>8. \A x \in Buckets : buckets_'[x] = Cardinality(Seen(x))'
  BY <1>1, <1>6 DEF RecordInv
<1>9. Len(recorded') >= 1
  BY <1>2, <1>3
<1>10. RecordInv'
  BY <1>1, <1>2, <1>3, <1>4, <1>7, <1>8, <1>9 DEF RecordInv
<1> QED BY <1>4, <1>5, <1>10

\* An update that becomes visible: the bucket's adds the record to the
\* visible ones, max_ is only raised.
LEMMA UpdateKeeps ==
    ASSUME Samples \subseteq InRange, RecordInv,
           NEW u \in {"bucket", "count", "sum", "max"}, Update(u)
    PROVE  /\ RecordInv' /\ Visible' >= Visible /\ recorded' = recorded
           /\ max_' >= max_
<1>1. u \in todo /\ todo' = todo \ {u} /\ recorded' = recorded /\ ns' = ns
  BY DEF Update
<1>2. PICK V \in Nat : V = Visible
  BY DEF RecordInv
<1>3. /\ recorded \in Seq(Samples) /\ Len(recorded) \in Nat /\ Len(recorded) >= 1
      /\ ns = recorded[Len(recorded)] /\ ns \in Nat /\ max_ \in Nat
  BY <1>1 DEF RecordInv
<1>4. max_' \in Nat /\ max_' >= max_
  BY <1>3 DEF Update
<1>5. CASE u = "bucket"
  <2>1. V = Len(recorded) - 1 /\ Visible' = V + 1
    <3>1. Visible' = Len(recorded)
      BY <1>1, <1>3, <1>5 DEF Visible
    <3> QED BY <1>1, <1>2, <1>3, <1>5, <3>1, VisibleRecords
  <2>2. PICK y \in Buckets : y = bucket_of(ns)
    <3>1. ns \in Samples
      BY <1>3
    <3> QED BY <3>1, SampleHasBucket
  <2>3. buckets_' = [buckets_ EXCEPT ![y] = @ + 1] /\ buckets_ \in [Buckets -> Nat]
    BY <1>5, <2>2 DEF Update, RecordInv
  <2>4. bucket_of(recorded[V + 1]) = y
    BY <1>3, <2>1, <2>2
  <2>5. \A x \in Buckets : Seen(x)' = IF x = y THEN Seen(x) \cup {V + 1} ELSE Seen(x)
    <3> TAKE x \in Buckets
    <3>1. Seen(x) = {j \in 1..V : bucket_of(recorded[j]) = x}
      BY <1>2 DEF Seen
    <3>2. Seen(x)' = {j \in 1..V + 1 : bucket_of(recorded[j]) = x}
      BY <1>1, <2>1 DEF Seen
    <3>3. 1..V + 1 = (1..V) \cup {V + 1}
      OBVIOUS
    <3> QED BY <2>4, <3>1, <3>2, <3>3
  <2>6. Cardinality(Seen(y) \cup {V + 1}) = Cardinality(Seen(y)) + 1
    <3>1. Seen(y) \in SUBSET (1..V) /\ V + 1 \notin Seen(y)
      BY <1>2 DEF Seen
    <3>2. IsFiniteSet(Seen(y))
      BY <3>1, FS_Interval, FS_Subset
    <3> QED BY <3>1, <3>2, FS_AddElement
  <2>7. \A x \in Buckets : buckets_[x] = Cardinality(Seen(x)) /\ buckets_[x] \in Nat
    BY <2>3 DEF RecordInv
  <2>8. \A x \in Buckets : buckets_'[x] = Cardinality(Seen(x))'
    <3> TAKE x \in Buckets
    <3>1. CASE x = y
      BY <2>3, <2>5, <2>6, <2>7, <3>1
    <3>2. CASE x # y
      BY <2>3, <2>5, <2>7, <3>2
    <3> QED BY <3>1, <3>2
  <2>9. buckets_' \in [Buckets -> Nat]
    BY <2>3
  <2>10. todo' \subseteq {"bucket", "count", "sum", "max"}
    BY <1>1 DEF RecordInv
  <2>11. RecordInv'
    BY <1>1, <1>3, <1>4, <2>1, <2>8, <2>9, <2>10 DEF RecordInv
  <2> QED BY <1>1, <1>2, <1>4, <2>1, <2>11
<1>6. CASE u # "bucket"
  <2>1. "bucket" \in todo' <=> "bucket" \in todo
    BY <1>1, <1>6
  <2>2. Visible' = Visible
    BY <1>1, <2>1 DEF Visible
  <2>3. buckets_' = buckets_
    BY <1>6 DEF Update
  <2>4. \A x \in Buckets : Seen(x)' = Seen(x)
    BY <1>1, <2>2 DEF Seen
  <2>5. RecordInv'
    BY <1>1, <1>3, <1>4, <2>2, <2>3, <2>4 DEF RecordInv
  <2> QED BY <1>1, <1>2, <1>4, <2>2, <2>5
<1> QED BY <1>5, <1>6

\* What the reader knows survives when more becomes visible.
LEMMA ReaderUndisturbed ==
    ASSUME RecordInv, SnapshotInv, RecordInv', Visible' >= Visible, max_' >= max_,
           \A j \in 1..Visible : recorded'[j] = recorded[j],
           UNCHANGED readerVars
    PROVE  SnapshotInv'
<1>1. PICK V \in Nat : V = Visible
  BY DEF RecordInv
<1>2. PICK W \in Nat : W = Visible' /\ V <= W
  BY <1>1 DEF RecordInv
<1>3. UNCHANGED <<spc, i, b, total, snap, before>>
  BY DEF readerVars
<1>4. IsPage(snap) /\ snap.count \in Nat /\ snap.max \in Nat
  BY PageCounters DEF SnapshotInv
<1>5. snap.max <= max_' /\ snap.count <= W /\ before \in Nat /\ before <= W
  BY <1>1, <1>2, <1>4 DEF SnapshotInv, RecordInv
<1>6. spc = "scan" => \E from \in 0..W : \E C \in SUBSET (1..W) : Counting(from, C)'
  <2> SUFFICES ASSUME spc = "scan"
               PROVE  \E from \in 0..W : \E C \in SUBSET (1..W) : Counting(from, C)'
    OBVIOUS
  <2>1. PICK from \in 0..V : \E C \in SUBSET (1..V) : Counting(from, C)
    BY <1>1 DEF SnapshotInv
  <2>2. PICK C \in SUBSET (1..V) : Counting(from, C)
    BY <2>1
  <2>3. from \in 0..W /\ C \in SUBSET (1..W)
    BY <1>2
  <2>4. \A j \in 1..V : recorded'[j] = recorded[j]
    BY <1>1
  <2>5. \A j \in 1..from : j \in 1..V
    BY <2>1
  <2>6. Counting(from, C)'
    BY <1>3, <2>2, <2>4, <2>5 DEF Counting
  <2> QED BY <2>3, <2>6
<1>7. spc = "max" => total \in Nat /\ total <= W /\ before <= total /\ snap.count <= total
  BY <1>1, <1>2 DEF SnapshotInv
<1> QED BY <1>2, <1>3, <1>4, <1>5, <1>6, <1>7 DEF SnapshotInv

\* A snapshot starts from what is visible.
LEMMA BeginKeeps ==
    ASSUME Samples \subseteq InRange, RecordInv, SnapshotInv, SnapBegin
    PROVE  SnapshotInv' /\ snap' = snap
<1>1. /\ spc = "idle" /\ spc' = "scan" /\ i' = 0 /\ b' = Empty /\ total' = 0
      /\ before' = Len(recorded) - (IF todo = {} THEN 0 ELSE 1)
      /\ UNCHANGED <<todo, recorded, snap, max_>>
  BY DEF SnapBegin, shared
<1>2. PICK V \in Nat : V = Visible
  BY DEF RecordInv
<1>3. Visible' = V
  BY <1>1, <1>2 DEF Visible
<1>4. before' \in Nat /\ before' <= V
  <2>1. Len(recorded) \in Nat /\ (todo # {} => Len(recorded) >= 1)
    BY DEF RecordInv
  <2>2. "bucket" \in todo => todo # {}
    OBVIOUS
  <2> QED BY <1>1, <1>2, <2>1, <2>2, VisibleRecords
<1>5. 0 \in Buckets /\ Empty \in [Buckets -> Nat]
  BY Sizes DEF Buckets, Empty
<1>6. Counting(V, {})'
  <2>1. \A j \in 1..V : ~(bucket_of(recorded[j]) < 0)
    BY <1>2, VisibleRecords, SampleHasBucket
  <2>2. Cardinality({}) = 0
    BY FS_EmptySet
  <2> QED BY <1>1, <1>2, <1>4, <2>1, <2>2 DEF Counting, SnapshotInv
<1>7. V \in 0..V /\ {} \in SUBSET (1..V)
  OBVIOUS
<1>8. \E from \in 0..V : \E C \in SUBSET (1..V) : Counting(from, C)'
  BY <1>6, <1>7
<1> QED BY <1>1, <1>2, <1>3, <1>4, <1>5, <1>8 DEF SnapshotInv

\* One bucket more is counted.
LEMMA ScanKeeps ==
    ASSUME Samples \subseteq InRange, RecordInv, SnapshotInv, SnapScan
    PROVE  SnapshotInv' /\ snap' = snap
<1>1. /\ spc = "scan" /\ b' = [b EXCEPT ![i] = buckets_[i]] /\ total' = total + b'[i]
      /\ i' = i + 1 /\ spc' = IF i' < kBuckets THEN "scan" ELSE "max"
      /\ UNCHANGED <<todo, recorded, snap, before, max_>>
  BY DEF SnapScan, shared
<1>2. PICK V \in Nat : V = Visible
  BY DEF RecordInv
<1>3. Visible' = V
  BY <1>1, <1>2 DEF Visible
<1>4. PICK n \in Buckets : n = i
  BY <1>1 DEF SnapshotInv
<1>5. n \in Nat /\ n < kBuckets
  BY <1>4, Sizes DEF Buckets
<1>6. b' \in [Buckets -> Nat] /\ b'[n] = buckets_[n] /\ buckets_[n] = Cardinality(Seen(n))
  BY <1>1, <1>4 DEF SnapshotInv, RecordInv
<1>7. PICK from \in 0..V : \E C \in SUBSET (1..V) : Counting(from, C)
  BY <1>1, <1>2 DEF SnapshotInv
<1>8. PICK C \in SUBSET (1..V) : Counting(from, C)
  BY <1>7
<1>9. PICK D \in SUBSET (1..V) : D = {j \in 1..V : bucket_of(recorded[j]) = n}
  OBVIOUS
<1>10. Seen(n) = D
  BY <1>2, <1>9 DEF Seen
<1>11. \A j \in 1..V : bucket_of(recorded[j]) \in Nat /\ bucket_of(recorded[j]) < kBuckets
  BY <1>2, VisibleRecords, SampleHasBucket, Sizes DEF Buckets
<1>12. C \cap D = {}
  BY <1>4, <1>5, <1>8, <1>9, <1>11 DEF Counting
<1>13. IsFiniteSet(1..V) /\ Cardinality(1..V) = V
  BY FS_Interval
<1>14. IsFiniteSet(C) /\ IsFiniteSet(D)
  BY <1>13, FS_Subset
<1>15. Cardinality(C) \in Nat /\ Cardinality(D) \in Nat
  BY <1>14, FS_CardinalityType
<1>16. Cardinality(C \cup D) = Cardinality(C) + Cardinality(D)
  <2>1. Cardinality(C \cup D) = Cardinality(C) + Cardinality(D) - Cardinality(C \cap D)
    BY <1>14, FS_Union
  <2>2. Cardinality(C \cap D) = 0
    BY <1>12, FS_EmptySet
  <2> QED BY <1>15, <2>1, <2>2
<1>17. PICK E \in SUBSET (1..V) : E = C \cup D
  OBVIOUS
<1>18. total' = Cardinality(E) /\ total' \in Nat
  BY <1>1, <1>4, <1>6, <1>8, <1>10, <1>15, <1>16, <1>17 DEF Counting
<1>19. \A j \in E : bucket_of(recorded[j]) < n + 1
  BY <1>4, <1>5, <1>8, <1>9, <1>11, <1>17 DEF Counting
<1>20. \A j \in 1..from : bucket_of(recorded[j]) < n + 1 => j \in E
  <2> SUFFICES ASSUME NEW j \in 1..from, bucket_of(recorded[j]) < n + 1 PROVE j \in E
    OBVIOUS
  <2>1. j \in 1..V
    BY <1>7
  <2>2. bucket_of(recorded[j]) < n \/ bucket_of(recorded[j]) = n
    BY <1>5, <1>11, <2>1
  <2> QED BY <1>4, <1>8, <1>9, <1>17, <2>1, <2>2 DEF Counting
<1>21. before <= from /\ snap.count <= from /\ before \in Nat /\ snap.count \in Nat
  BY <1>8, PageCounters DEF Counting, SnapshotInv
<1>22. CASE n + 1 < kBuckets
  <2>1. i' \in Buckets /\ spc' = "scan"
    BY <1>1, <1>4, <1>5, <1>22, Sizes DEF Buckets
  <2>2. Counting(from, E)'
    BY <1>1, <1>4, <1>18, <1>19, <1>20, <1>21 DEF Counting
  <2>3. \E f \in 0..V : \E F \in SUBSET (1..V) : Counting(f, F)'
    BY <1>7, <1>17, <2>2
  <2> QED BY <1>1, <1>2, <1>3, <1>6, <2>1, <2>3 DEF SnapshotInv
<1>23. CASE ~(n + 1 < kBuckets)
  <2>1. spc' = "max"
    BY <1>1, <1>4, <1>23
  <2>2. total' <= V
    BY <1>13, <1>17, <1>18, FS_Subset
  <2>3. 1..from \in SUBSET E
    <3> SUFFICES ASSUME NEW j \in 1..from PROVE j \in E
      OBVIOUS
    <3>1. j \in 1..V
      BY <1>7
    <3>2. bucket_of(recorded[j]) < n + 1
      BY <1>5, <1>11, <1>23, <3>1, Sizes
    <3> QED BY <1>20, <3>2
  <2>4. from <= total'
    <3>1. IsFiniteSet(E)
      BY <1>13, <1>17, FS_Subset
    <3>2. Cardinality(1..from) = from
      BY <1>7, FS_Interval
    <3> QED BY <1>18, <2>3, <3>1, <3>2, FS_Subset
  <2>5. before <= total' /\ snap.count <= total'
    BY <1>7, <1>18, <1>21, <2>4
  <2> QED BY <1>1, <1>2, <1>3, <1>6, <1>18, <2>1, <2>2, <2>5 DEF SnapshotInv
<1> QED BY <1>1, <1>22, <1>23

\* The page is built from the total and max_.
LEMMA MaxKeeps ==
    ASSUME RecordInv, SnapshotInv, SnapMax
    PROVE  SnapshotInv' /\ snap'.count >= snap.count /\ snap'.max >= snap.max
<1>1. /\ spc = "max" /\ snap' = [NoSnapshot EXCEPT !.count = total, !.max = max_]
      /\ spc' = IF total = 0 THEN "idle" ELSE "mean"
      /\ UNCHANGED <<todo, recorded, b, total, before, max_>>
  BY DEF SnapMax, shared
<1>2. Visible' = Visible
  BY <1>1 DEF Visible
<1>3. /\ total \in Nat /\ total <= Visible /\ before <= total /\ snap.count <= total
      /\ snap.max <= max_ /\ max_ \in Nat /\ before \in Nat
  BY <1>1 DEF SnapshotInv, RecordInv
<1>4. snap' = [count |-> total, mean |-> 0, p50 |-> 0, p99 |-> 0, p999 |-> 0, max |-> max_]
  BY <1>1 DEF NoSnapshot
<1>5. IsPage(snap')
  BY <1>3, <1>4 DEF IsPage
<1>6. snap'.count = total /\ snap'.max = max_
  BY <1>4
<1>7. snap.count \in Nat /\ snap.max \in Nat
  BY PageCounters DEF SnapshotInv
<1>8. SnapshotInv'
  BY <1>1, <1>2, <1>3, <1>5, <1>6 DEF SnapshotInv
<1> QED BY <1>3, <1>6, <1>7, <1>8

\* A page with its mean and percentiles filled in
FilledIn(s, m, p, q, r) == [s EXCEPT !.mean = m, !.p50 = p, !.p99 = q, !.p999 = r]

\* It is a page with the same counters.
LEMMA PageFilledIn ==
    ASSUME NEW s, IsPage(s), NEW m1, NEW p1, NEW q1, NEW r1
    PROVE  /\ IsPage(FilledIn(s, m1, p1, q1, r1))
           /\ FilledIn(s, m1, p1, q1, r1).count = s.count
           /\ FilledIn(s, m1, p1, q1, r1).max = s.max
<1>1. PICK c, m \in Nat : \E mean, p, q, r :
         s = [count |-> c, mean |-> mean, p50 |-> p, p99 |-> q, p999 |-> r, max |-> m]
  BY DEF IsPage
<1>2. PICK mean, p, q, r :
         s = [count |-> c, mean |-> mean, p50 |-> p, p99 |-> q, p999 |-> r, max |-> m]
  BY <1>1
<1>3. PICK t : t = FilledIn(s, m1, p1, q1, r1)
  OBVIOUS
<1>4. t = [s EXCEPT !.mean = m1, !.p50 = p1, !.p99 = q1, !.p999 = r1]
  BY <1>3 DEF FilledIn
<1>5. t = [count |-> c, mean |-> m1, p50 |-> p1, p99 |-> q1, p999 |-> r1, max |-> m]
  BY <1>2, <1>4
<1>6. IsPage(t) /\ t.count = s.count /\ t.max = s.max
  BY <1>2, <1>5 DEF IsPage
<1> QED BY <1>3, <1>6

\* The mean and the percentiles leave the two counters alone.
LEMMA MeanKeeps ==
    ASSUME RecordInv, SnapshotInv, SnapMean
    PROVE  SnapshotInv' /\ snap'.count = snap.count /\ snap'.max = snap.max
<1>1. snap' = FilledIn(snap, sum_ \div total, percentile(b, total, 50, 100),
                       percentile(b, total, 99, 100), percentile(b, total, 999, 1000))
  BY DEF SnapMean, FilledIn
<1>2. spc = "mean" /\ spc' = "idle" /\ UNCHANGED <<todo, recorded, b, total, before, max_>>
  BY DEF SnapMean, shared
<1>3. Visible' = Visible
  BY <1>2 DEF Visible
<1>4. IsPage(snap') /\ snap'.count = snap.count /\ snap'.max = snap.max
  BY <1>1, PageFilledIn DEF SnapshotInv
<1> QED BY <1>2, <1>3, <1>4 DEF SnapshotInv

\* Every step keeps the invariant, and no page goes back.
LEMMA HistogramStep ==
    ASSUME Samples \subseteq InRange, RecordInv, SnapshotInv, [Next]_vars
    PROVE  /\ RecordInv' /\ SnapshotInv'
           /\ snap'.count >= snap.count /\ snap'.max >= snap.max
<1>0. snap.count \in Nat /\ snap.max \in Nat /\ max_ \in Nat /\ Visible \in Nat
  BY PageCounters DEF SnapshotInv, RecordInv
<1>1. ASSUME NEW v \in Samples, Record(v)
      PROVE  RecordInv' /\ SnapshotInv' /\ snap' = snap
  <2>1. max_' = max_ /\ UNCHANGED readerVars
    BY <1>1 DEF Record, shared
  <2>2. RecordInv' /\ Visible' = Visible /\ \A j \in 1..Visible : recorded'[j] = recorded[j]
    BY <1>1, RecordKeeps
  <2>3. Visible' >= Visible /\ max_' >= max_
    BY <1>0, <2>1, <2>2
  <2> QED BY <2>1, <2>2, <2>3, ReaderUndisturbed DEF readerVars
<1>2. ASSUME NEW u \in {"bucket", "count", "sum", "max"}, Update(u)
      PROVE  RecordInv' /\ SnapshotInv' /\ snap' = snap
  <2>1. UNCHANGED readerVars
    BY <1>2 DEF Update
  <2>2. RecordInv' /\ Visible' >= Visible /\ recorded' = recorded /\ max_' >= max_
    BY <1>2, UpdateKeeps
  <2> QED BY <2>1, <2>2, ReaderUndisturbed DEF readerVars
<1>3. ASSUME Snapshot PROVE RecordInv'
  BY <1>3 DEF Snapshot, SnapBegin, SnapScan, SnapMax, SnapMean, shared, RecordInv, Visible, Seen
<1>4. ASSUME Snapshot
      PROVE  SnapshotInv' /\ snap'.count >= snap.count /\ snap'.max >= snap.max
  <2>1. CASE SnapBegin
    BY <1>0, <2>1, BeginKeeps
  <2>2. CASE SnapScan
    BY <1>0, <2>2, ScanKeeps
  <2>3. CASE SnapMax
    BY <2>3, MaxKeeps
  <2>4. CASE SnapMean
    BY <1>0, <2>4, MeanKeeps
  <2> QED BY <1>4, <2>1, <2>2, <2>3, <2>4 DEF Snapshot
<1>5. CASE UNCHANGED vars
  <2>1. UNCHANGED <<buckets_, max_, ns, todo, spc, i, b, total, snap, recorded, before>>
    BY <1>5 DEF vars
  <2>2. RecordInv'
    BY <2>1 DEF RecordInv, Visible, Seen
  <2>3. SnapshotInv'
    BY <2>1 DEF SnapshotInv, Visible, Counting
  <2> QED BY <1>0, <2>1, <2>2, <2>3
<1> QED BY <1>0, <1>1, <1>2, <1>3, <1>4, <1>5 DEF Next

\* For samples in the range of the histogram: a snapshot counts every record
\* that was finished when it began and none that was not begun when it ended.
THEOREM SnapshotsAreBetween ==
    ASSUME Samples \subseteq InRange
    PROVE  Spec => []SnapshotBetween
<1>1. RecordInv /\ SnapshotInv => SnapshotBetween
  <2> SUFFICES ASSUME RecordInv, SnapshotInv, spc = "idle"
               PROVE  before <= snap.count /\ snap.count <= Len(recorded)
    BY DEF SnapshotBetween
  <2>1. snap.count \in Nat /\ snap.count <= Visible /\ before <= snap.count
    BY PageCounters DEF SnapshotInv
  <2> QED BY <2>1, VisibleRecords
<1>2. RecordInv /\ SnapshotInv /\ [Next]_vars => RecordInv' /\ SnapshotInv'
  BY HistogramStep
<1> QED BY <1>1, <1>2, HistogramStart, PTL DEF Spec

\* For samples in the range: neither the count nor the maximum ever goes back
\* from one page to the next, although nothing orders the updates.
THEOREM PagesAreMonotone ==
    ASSUME Samples \subseteq InRange
    PROVE  Spec => PagesMonotone
<1>1. RecordInv /\ SnapshotInv /\ [Next]_vars => RecordInv' /\ SnapshotInv'
  BY HistogramStep
<1>2. RecordInv /\ SnapshotInv /\ [Next]_vars =>
         [snap'.count >= snap.count /\ snap'.max >= snap.max]_snap
  BY HistogramStep
<1> QED BY <1>1, <1>2, HistogramStart, PTL DEF Spec, PagesMonotone
-----------------------------------------------------------------------------
(* Sums over finite sets: MapThenSumSet takes the elements in the order of *)
(* CHOOSE.  That order does not matter.                                    *)
SumOf(c, S) == MapThenSumSet(LAMBDA j : c[j], S)
Pick(s) == CHOOSE x \in s : TRUE
IsFold(g, S, c) ==
    g = [s \in SUBSET S |-> IF s = {} THEN 0 ELSE c[Pick(s)] + g[s \ {Pick(s)}]]
Weights(c, S) == IsFiniteSet(S) /\ \A x \in S : c[x] \in Nat
FoldTo(h, n, S, c) ==
    /\ h \in [SUBSET S -> Nat]
    /\ \A s \in SUBSET S : Cardinality(s) <= n =>
          h[s] = IF s = {} THEN 0 ELSE c[Pick(s)] + h[s \ {Pick(s)}]

\* A sum in terms of its table.
LEMMA SumTable ==
    ASSUME NEW c, NEW S
    PROVE  SumOf(c, S) = (CHOOSE g : IsFold(g, S, c))[S]
BY DEF SumOf, MapThenSumSet, MapThenFoldSet, IsFold, Pick

\* A set and what remains of it without one element.
LEMMA LessOne ==
    ASSUME NEW S, IsFiniteSet(S), NEW s \in SUBSET S, NEW x \in s
    PROVE  /\ IsFiniteSet(s) /\ Cardinality(s) \in Nat /\ Cardinality(s) >= 1
           /\ s \ {x} \in SUBSET S /\ Cardinality(s \ {x}) = Cardinality(s) - 1
<1>1. IsFiniteSet(s)
  BY FS_Subset
<1>2. IsFiniteSet(s \ {x}) /\ Cardinality(s \ {x}) = Cardinality(s) - 1
  BY <1>1, FS_RemoveElement
<1>3. Cardinality(s) \in Nat /\ Cardinality(s \ {x}) \in Nat
  BY <1>1, <1>2, FS_CardinalityType
<1> QED BY <1>1, <1>2, <1>3

\* What is chosen from a set is in it.
LEMMA PickIn == ASSUME NEW s, s # {} PROVE Pick(s) \in s
BY DEF Pick

\* The table exists up to every size of the subsets.
LEMMA FoldToExists ==
    ASSUME NEW c, NEW S, Weights(c, S)
    PROVE  \A n \in Nat : \E h : FoldTo(h, n, S, c)
<1> DEFINE A == {n \in Nat : \E h : FoldTo(h, n, S, c)}
<1>0. IsFiniteSet(S) /\ \A x \in S : c[x] \in Nat
  BY DEF Weights
<1>1. 0 \in A
  <2>1. PICK h : h = [s \in SUBSET S |-> 0]
    OBVIOUS
  <2>2. \A s \in SUBSET S : Cardinality(s) <= 0 => s = {}
    <3> SUFFICES ASSUME NEW s \in SUBSET S, Cardinality(s) <= 0, s # {} PROVE FALSE
      OBVIOUS
    <3>1. PICK x \in s : TRUE
      OBVIOUS
    <3>2. Cardinality(s) \in Nat /\ Cardinality(s) >= 1
      BY <1>0, <3>1, LessOne
    <3> QED BY <3>2
  <2>3. FoldTo(h, 0, S, c)
    BY <2>1, <2>2 DEF FoldTo
  <2> QED BY <2>3
<1>2. ASSUME NEW n \in Nat, n \in A PROVE n + 1 \in A
  <2>1. PICK h : FoldTo(h, n, S, c)
    BY <1>2
  <2>2. PICK k : k = [s \in SUBSET S |-> IF Cardinality(s) = n + 1 /\ s # {}
                                         THEN c[Pick(s)] + h[s \ {Pick(s)}] ELSE h[s]]
    OBVIOUS
  <2>3. h \in [SUBSET S -> Nat]
    BY <2>1 DEF FoldTo
  <2>4. \A s \in SUBSET S : s # {} => c[Pick(s)] \in Nat /\ h[s \ {Pick(s)}] \in Nat
    <3> SUFFICES ASSUME NEW s \in SUBSET S, s # {}
                 PROVE  c[Pick(s)] \in Nat /\ h[s \ {Pick(s)}] \in Nat
      OBVIOUS
    <3>1. Pick(s) \in s /\ s \ {Pick(s)} \in SUBSET S
      BY PickIn
    <3> QED BY <1>0, <2>3, <3>1
  <2>5. k \in [SUBSET S -> Nat]
    BY <2>2, <2>3, <2>4
  <2>6. ASSUME NEW s \in SUBSET S, Cardinality(s) <= n + 1
        PROVE  k[s] = IF s = {} THEN 0 ELSE c[Pick(s)] + k[s \ {Pick(s)}]
    <3>1. CASE s = {}
      <4>1. Cardinality(s) = 0
        BY <3>1, FS_EmptySet
      <4>2. h[s] = 0
        BY <2>1, <3>1, <4>1 DEF FoldTo
      <4> QED BY <2>2, <3>1, <4>2
    <3>2. CASE s # {}
      <4>1. PICK x \in s : x = Pick(s)
        BY <3>2, PickIn
      <4>2. PICK r \in SUBSET S : r = s \ {x}
        OBVIOUS
      <4>3. Cardinality(s) \in Nat /\ Cardinality(r) = Cardinality(s) - 1
        BY <1>0, <4>1, <4>2, LessOne
      <4>4. Cardinality(r) # n + 1
        BY <2>6, <4>3
      <4>5. k[r] = h[r]
        BY <2>2, <4>4
      <4>6. k[s] = c[x] + h[r]
        <5>1. CASE Cardinality(s) = n + 1
          BY <2>2, <3>2, <4>1, <4>2, <5>1
        <5>2. CASE Cardinality(s) # n + 1
          <6>1. Cardinality(s) <= n
            BY <2>6, <4>3, <5>2
          <6>2. h[s] = c[x] + h[r]
            BY <2>1, <3>2, <4>1, <4>2, <6>1 DEF FoldTo
          <6> QED BY <2>2, <5>2, <6>2
        <5> QED BY <5>1, <5>2
      <4> QED BY <3>2, <4>1, <4>2, <4>5, <4>6
    <3> QED BY <3>1, <3>2
  <2>7. FoldTo(k, n + 1, S, c)
    BY <2>5, <2>6 DEF FoldTo
  <2> QED BY <2>7
<1>3. \A n \in Nat : n \in A
  <2> HIDE DEF A
  <2> QED BY <1>1, <1>2, SetInduction
<1> QED BY <1>3

\* So the recursion of the sum has a solution.
LEMMA FoldExists ==
    ASSUME NEW c, NEW S, Weights(c, S)
    PROVE  \E g : IsFold(g, S, c)
<1>1. IsFiniteSet(S) /\ Cardinality(S) \in Nat
  BY FS_CardinalityType DEF Weights
<1>2. PICK h : FoldTo(h, Cardinality(S), S, c)
  BY <1>1, FoldToExists
<1>3. \A s \in SUBSET S : Cardinality(s) <= Cardinality(S)
  BY <1>1, FS_Subset
<1>4. \A s \in SUBSET S : h[s] = IF s = {} THEN 0 ELSE c[Pick(s)] + h[s \ {Pick(s)}]
  BY <1>2, <1>3 DEF FoldTo
<1>5. h = [s \in SUBSET S |-> h[s]]
  BY <1>2 DEF FoldTo
<1>6. IsFold(h, S, c)
  BY <1>4, <1>5 DEF IsFold
<1> QED BY <1>6

\* The recursion, for one set.
LEMMA FoldUnfold ==
    ASSUME NEW c, NEW S, NEW g, IsFold(g, S, c)
    PROVE  \A s \in SUBSET S :
              g[s] = IF s = {} THEN 0 ELSE c[Pick(s)] + g[s \ {Pick(s)}]
BY DEF IsFold

\* Any element may be taken first.
LEMMA FoldAdd ==
    ASSUME NEW c, NEW S, Weights(c, S), NEW g, IsFold(g, S, c)
    PROVE  \A s \in SUBSET S : g[s] \in Nat /\ \A x \in s : g[s] = c[x] + g[s \ {x}]
<1> DEFINE Good(s) == g[s] \in Nat /\ \A x \in s : g[s] = c[x] + g[s \ {x}]
           A == {n \in Nat : \A s \in SUBSET S : Cardinality(s) <= n => Good(s)}
<1>0. IsFiniteSet(S) /\ \A x \in S : c[x] \in Nat
  BY DEF Weights
<1>u. \A s \in SUBSET S : g[s] = IF s = {} THEN 0 ELSE c[Pick(s)] + g[s \ {Pick(s)}]
  BY FoldUnfold
<1>1. 0 \in A
  <2> SUFFICES ASSUME NEW s \in SUBSET S, Cardinality(s) <= 0 PROVE Good(s)
    OBVIOUS
  <2>1. \A x \in s : FALSE
    <3> SUFFICES ASSUME NEW x \in s PROVE FALSE
      OBVIOUS
    <3>1. Cardinality(s) \in Nat /\ Cardinality(s) >= 1
      BY <1>0, LessOne
    <3> QED BY <3>1
  <2>2. s = {}
    BY <2>1
  <2>3. g[s] = 0
    BY <2>2, <1>u
  <2> QED BY <2>1, <2>3
<1>2. ASSUME NEW n \in Nat, n \in A PROVE n + 1 \in A
  <2> SUFFICES ASSUME NEW s \in SUBSET S, Cardinality(s) <= n + 1 PROVE Good(s)
    OBVIOUS
  <2>1. CASE s = {}
    BY <2>1, <1>u
  <2>2. CASE s # {}
    <3>1. PICK p \in s : p = Pick(s)
      BY <2>2, PickIn
    <3>2. PICK r \in SUBSET S : r = s \ {p}
      OBVIOUS
    <3>3. ASSUME NEW x \in s, NEW t \in SUBSET S, t = s \ {x} PROVE Good(t)
      <4>1. Cardinality(s) \in Nat /\ Cardinality(t) = Cardinality(s) - 1
        BY <1>0, <3>3, LessOne
      <4>2. Cardinality(t) <= n
        BY <4>1
      <4> QED BY <1>2, <4>2
    <3>4. g[s] = c[p] + g[r]
      BY <2>2, <3>1, <3>2, <1>u
    <3>5. Good(r) /\ c[p] \in Nat
      BY <1>0, <3>2, <3>3
    <3>6. ASSUME NEW x \in s PROVE g[s] = c[x] + g[s \ {x}]
      <4>1. CASE x = p
        BY <3>2, <3>4, <4>1
      <4>2. CASE x # p
        <5>1. PICK t \in SUBSET S : t = s \ {x}
          OBVIOUS
        <5>2. Good(t) /\ c[x] \in Nat
          BY <1>0, <3>3, <5>1
        <5>3. PICK q \in SUBSET S : q = r \ {x}
          OBVIOUS
        <5>4. t \ {p} = q /\ x \in r /\ p \in t
          BY <3>2, <4>2, <5>1, <5>3
        <5>5. g[r] = c[x] + g[q] /\ g[r] \in Nat
          BY <3>5, <5>3, <5>4
        <5>6. g[t] = c[p] + g[q] /\ g[t] \in Nat
          BY <5>2, <5>4
        <5>7. g[q] \in Nat
          <6>1. IsFiniteSet(r) /\ Cardinality(r) \in Nat /\ Cardinality(q) = Cardinality(r) - 1
            BY <1>0, <5>3, <5>4, LessOne
          <6>2. Cardinality(s) \in Nat /\ Cardinality(r) = Cardinality(s) - 1
            BY <1>0, <3>2, LessOne
          <6>3. Cardinality(q) <= n
            BY <6>1, <6>2
          <6> QED BY <1>2, <6>3
        <5>8. g[s] = c[x] + g[t]
          BY <3>4, <3>5, <5>2, <5>5, <5>6, <5>7
        <5> QED BY <5>1, <5>8
      <4> QED BY <4>1, <4>2
    <3> QED BY <3>4, <3>5, <3>6
  <2> QED BY <2>1, <2>2
<1>3. \A n \in Nat : n \in A
  <2> HIDE DEF A
  <2> QED BY <1>1, <1>2, SetInduction
<1> SUFFICES ASSUME NEW s \in SUBSET S PROVE Good(s)
  OBVIOUS
<1>4. Cardinality(s) \in Nat
  BY <1>0, FS_Subset, FS_CardinalityType
<1>5. Cardinality(s) \in A
  BY <1>3, <1>4
<1> QED BY <1>4, <1>5

\* Folds of weights that agree on a set agree on its subsets.
LEMMA FoldAgree ==
    ASSUME NEW c, NEW d, NEW S, NEW T, Weights(c, S), Weights(d, T), S \subseteq T,
           \A x \in S : c[x] = d[x], NEW g, IsFold(g, S, c), NEW h, IsFold(h, T, d)
    PROVE  \A s \in SUBSET S : g[s] = h[s]
<1> DEFINE A == {n \in Nat : \A s \in SUBSET S : Cardinality(s) <= n => g[s] = h[s]}
<1>0. IsFiniteSet(S)
  BY DEF Weights
<1>u. /\ \A s \in SUBSET S : g[s] = IF s = {} THEN 0 ELSE c[Pick(s)] + g[s \ {Pick(s)}]
      /\ \A s \in SUBSET T : h[s] = IF s = {} THEN 0 ELSE d[Pick(s)] + h[s \ {Pick(s)}]
  BY FoldUnfold
<1>1. 0 \in A
  <2> SUFFICES ASSUME NEW s \in SUBSET S, Cardinality(s) <= 0 PROVE g[s] = h[s]
    OBVIOUS
  <2>1. \A x \in s : FALSE
    <3> SUFFICES ASSUME NEW x \in s PROVE FALSE
      OBVIOUS
    <3>1. Cardinality(s) \in Nat /\ Cardinality(s) >= 1
      BY <1>0, LessOne
    <3> QED BY <3>1
  <2>2. s = {} /\ s \in SUBSET T
    BY <2>1
  <2>3. g[s] = 0 /\ h[s] = 0
    BY <2>2, <1>u
  <2> QED BY <2>3
<1>2. ASSUME NEW n \in Nat, n \in A PROVE n + 1 \in A
  <2> SUFFICES ASSUME NEW s \in SUBSET S, Cardinality(s) <= n + 1 PROVE g[s] = h[s]
    OBVIOUS
  <2>0. s \in SUBSET T
    OBVIOUS
  <2>1. CASE s = {}
    <3>1. g[s] = 0 /\ h[s] = 0
      BY <2>0, <2>1, <1>u
    <3> QED BY <3>1
  <2>2. CASE s # {}
    <3>1. PICK p \in s : p = Pick(s)
      BY <2>2, PickIn
    <3>2. PICK r \in SUBSET S : r = s \ {p}
      OBVIOUS
    <3>3. Cardinality(s) \in Nat /\ Cardinality(r) = Cardinality(s) - 1
      BY <1>0, <3>2, LessOne
    <3>4. Cardinality(r) <= n
      BY <3>3
    <3>5. g[r] = h[r]
      BY <1>2, <3>4
    <3>6. g[s] = c[p] + g[r] /\ h[s] = d[p] + h[r]
      BY <2>0, <2>2, <3>1, <3>2, <1>u
    <3> QED BY <3>5, <3>6
  <2> QED BY <2>1, <2>2
<1>3. \A n \in Nat : n \in A
  <2> HIDE DEF A
  <2> QED BY <1>1, <1>2, SetInduction
<1> SUFFICES ASSUME NEW s \in SUBSET S PROVE g[s] = h[s]
  OBVIOUS
<1>4. Cardinality(s) \in Nat
  BY <1>0, FS_Subset, FS_CardinalityType
<1>5. Cardinality(s) \in A
  BY <1>3, <1>4
<1> QED BY <1>4, <1>5

\* The sum has a table.
LEMMA SumFold ==
    ASSUME NEW c, NEW S, Weights(c, S)
    PROVE  \E g : IsFold(g, S, c) /\ SumOf(c, S) = g[S]
<1>1. PICK g : g = CHOOSE h : IsFold(h, S, c)
  OBVIOUS
<1>2. IsFold(g, S, c)
  BY <1>1, FoldExists
<1>3. SumOf(c, S) = g[S]
  BY <1>1, SumTable
<1> QED BY <1>2, <1>3

\* The sum over no elements is 0.
LEMMA SumEmpty == ASSUME NEW c PROVE SumOf(c, {}) = 0
<1>1. Weights(c, {})
  BY FS_EmptySet DEF Weights
<1>2. PICK g : IsFold(g, {}, c) /\ SumOf(c, {}) = g[{}]
  BY <1>1, SumFold
<1>3. {} \in SUBSET {}
  OBVIOUS
<1> QED BY <1>2, <1>3, FoldUnfold

\* One element more adds its weight.
LEMMA SumAdd ==
    ASSUME NEW c, NEW S, NEW y, y \notin S, Weights(c, S \cup {y})
    PROVE  /\ SumOf(c, S) \in Nat /\ SumOf(c, S \cup {y}) = SumOf(c, S) + c[y]
           /\ SumOf(c, S \cup {y}) \in Nat
<1>1. PICK T : T = S \cup {y}
  OBVIOUS
<1>2. Weights(c, T) /\ S \in SUBSET T /\ T \in SUBSET T /\ y \in T /\ T \ {y} = S
  BY <1>1
<1>3. Weights(c, S) /\ c[y] \in Nat
  BY <1>2, FS_Subset DEF Weights
<1>4. PICK g : IsFold(g, S, c) /\ SumOf(c, S) = g[S]
  BY <1>3, SumFold
<1>5. PICK h : IsFold(h, T, c) /\ SumOf(c, T) = h[T]
  BY <1>2, SumFold
<1>6. \A s \in SUBSET S : g[s] = h[s]
  BY <1>2, <1>3, <1>4, <1>5, FoldAgree
<1>7. g[S] = h[S]
  BY <1>6
<1>8. h[T] \in Nat /\ h[T] = c[y] + h[T \ {y}] /\ h[S] \in Nat
  BY <1>2, <1>5, FoldAdd
<1>9. SumOf(c, S) \in Nat /\ SumOf(c, T) = SumOf(c, S) + c[y] /\ SumOf(c, T) \in Nat
  <2>1. PICK k, m, n \in Nat : k = h[S] /\ m = h[T] /\ n = c[y]
    BY <1>3, <1>8
  <2>2. m = n + k
    BY <1>2, <1>8, <2>1
  <2>3. SumOf(c, S) = k /\ SumOf(c, T) = m
    BY <1>4, <1>5, <1>7, <2>1
  <2>4. m = k + n
    BY <2>2
  <2> QED BY <2>1, <2>3, <2>4
<1> QED BY <1>1, <1>9

\* The sum of equal weights is the same.
LEMMA SumSame ==
    ASSUME NEW c, NEW d, NEW S, Weights(c, S), \A x \in S : c[x] = d[x]
    PROVE  SumOf(c, S) = SumOf(d, S)
<1>1. Weights(d, S)
  BY DEF Weights
<1>2. PICK g : IsFold(g, S, c) /\ SumOf(c, S) = g[S]
  BY SumFold
<1>3. PICK h : IsFold(h, S, d) /\ SumOf(d, S) = h[S]
  BY <1>1, SumFold
<1>4. \A s \in SUBSET S : g[s] = h[s]
  BY <1>1, <1>2, <1>3, FoldAgree
<1> QED BY <1>2, <1>3, <1>4
-----------------------------------------------------------------------------
(* The reference: ranks among the samples                                  *)

\* The order of values is that of buckets.
LEMMA BucketMonotone ==
    ASSUME NEW x \in InRange, NEW y \in InRange, x <= y
    PROVE  bucket_of(x) <= bucket_of(y)
<1> DEFINE A == {k \in Nat : x + k \in InRange => bucket_of(x) <= bucket_of(x + k)}
<1>0. x \in Nat /\ y \in Nat /\ \A v \in InRange : v \in Nat /\ bucket_of(v) \in Nat
  BY OneValue, Sizes DEF Buckets
<1>1. 0 \in A
  <2>1. x + 0 = x
    BY <1>0
  <2> QED BY <1>0, <2>1
<1>2. ASSUME NEW k \in Nat, k \in A PROVE k + 1 \in A
  <2> SUFFICES ASSUME x + (k + 1) \in InRange PROVE bucket_of(x) <= bucket_of(x + (k + 1))
    OBVIOUS
  <2>1. PICK v \in Nat : v = x + (k + 1) /\ v - 1 = x + k /\ v > 0
    BY <1>0
  <2>2. v - 1 \in InRange /\ v \in InRange
    BY <1>0, <2>1, Sizes, PowerDoubles DEF InRange
  <2>3. bucket_of(x) <= bucket_of(v - 1)
    BY <1>2, <2>1, <2>2
  <2>4. bucket_of(v - 1) <= bucket_of(v)
    BY <2>1, <2>2, BucketsInOrder
  <2>5. bucket_of(x) <= bucket_of(v)
    BY <1>0, <2>2, <2>3, <2>4
  <2> QED BY <2>1, <2>5
<1>3. \A k \in Nat : k \in A
  <2> HIDE DEF A
  <2> QED BY <1>1, <1>2, SetInduction
<1>4. PICK k \in Nat : y = x + k
  <2>1. y - x \in Nat /\ y = x + (y - x)
    BY <1>0
  <2> QED BY <2>1
<1>5. k \in A
  BY <1>3
<1> QED BY <1>4, <1>5

\* The records in the buckets below k
Lower(k) == {j \in 1..Len(recorded) : bucket_of(recorded[j]) < k}

\* When no record is in progress every record is visible, in its bucket.
LEMMA AllVisible ==
    ASSUME Samples \subseteq InRange, RecordInv, todo = {}
    PROVE  /\ Len(recorded) \in Nat /\ Visible = Len(recorded)
           /\ DOMAIN recorded = 1..Len(recorded)
           /\ \A j \in 1..Len(recorded) :
                 /\ recorded[j] \in InRange /\ recorded[j] \in Nat
                 /\ bucket_of(recorded[j]) \in Buckets /\ bucket_of(recorded[j]) \in Nat
<1>1. "bucket" \notin todo
  OBVIOUS
<1>2. Len(recorded) \in Nat /\ Visible = Len(recorded) /\ \A j \in 1..Visible : recorded[j] \in Samples
  BY <1>1, VisibleRecords
<1>3. DOMAIN recorded = 1..Len(recorded)
  BY DEF RecordInv
<1>4. \A j \in 1..Len(recorded) : recorded[j] \in Samples
  BY <1>2
<1> QED BY <1>2, <1>3, <1>4, SampleHasBucket

\* One bucket more.
LEMMA LowerNext ==
    ASSUME Samples \subseteq InRange, RecordInv, todo = {}, NEW k \in Buckets
    PROVE  /\ Cardinality(Lower(k)) \in Nat /\ buckets_[k] \in Nat
           /\ Cardinality(Lower(k + 1)) = Cardinality(Lower(k)) + buckets_[k]
<1>1. PICK n \in Nat : n = Len(recorded) /\ Visible = n
  BY AllVisible
<1>2. \A j \in 1..n : bucket_of(recorded[j]) \in Nat
  BY <1>1, AllVisible
<1>3. k \in Nat
  BY Sizes DEF Buckets
<1>4. PICK C \in SUBSET (1..n) : C = Lower(k)
  BY <1>1 DEF Lower
<1>5. PICK D \in SUBSET (1..n) : D = Seen(k)
  BY <1>1 DEF Seen
<1>6. Lower(k + 1) = C \cup D
  <2>1. \A j \in 1..n : bucket_of(recorded[j]) < k + 1 <=>
                           bucket_of(recorded[j]) < k \/ bucket_of(recorded[j]) = k
    BY <1>2, <1>3
  <2> QED BY <1>1, <1>4, <1>5, <2>1 DEF Lower, Seen
<1>7. C \cap D = {}
  <2>1. \A j \in 1..n : ~(bucket_of(recorded[j]) < k /\ bucket_of(recorded[j]) = k)
    BY <1>2, <1>3
  <2> QED BY <1>1, <1>4, <1>5, <2>1 DEF Lower, Seen
<1>8. IsFiniteSet(C) /\ IsFiniteSet(D)
  <2>1. IsFiniteSet(1..n)
    BY FS_Interval
  <2> QED BY <2>1, FS_Subset
<1>9. Cardinality(C) \in Nat /\ Cardinality(D) \in Nat
  BY <1>8, FS_CardinalityType
<1>10. Cardinality(C \cup D) = Cardinality(C) + Cardinality(D) - Cardinality(C \cap D)
  BY <1>8, FS_Union
<1>11. Cardinality(C \cap D) = 0
  BY <1>7, FS_EmptySet
<1>12. buckets_[k] = Cardinality(D)
  BY <1>5 DEF RecordInv
<1>13. Cardinality(C \cup D) = Cardinality(C) + Cardinality(D)
  BY <1>9, <1>10, <1>11
<1> QED BY <1>4, <1>6, <1>9, <1>12, <1>13

\* No record is below the first bucket, and every one below the last.
LEMMA LowerEnds ==
    ASSUME Samples \subseteq InRange, RecordInv, todo = {}
    PROVE  Cardinality(Lower(0)) = 0 /\ Cardinality(Lower(kBuckets)) = Len(recorded)
<1>1. PICK n \in Nat : n = Len(recorded)
  BY AllVisible
<1>2. \A j \in 1..n : bucket_of(recorded[j]) \in Buckets /\ bucket_of(recorded[j]) \in Nat
  BY <1>1, AllVisible
<1>3. \A j \in 1..n : ~(bucket_of(recorded[j]) < 0) /\ bucket_of(recorded[j]) < kBuckets
  BY <1>2, Sizes DEF Buckets
<1>4. Lower(0) = {} /\ Lower(kBuckets) = 1..n
  BY <1>1, <1>3 DEF Lower
<1>5. Cardinality(1..n) = n
  BY FS_Interval
<1> QED BY <1>1, <1>4, <1>5, FS_EmptySet

\* The cumulative count of a copy of the buckets is the number of records up
\* to that bucket.
LEMMA CumulativeCounts ==
    ASSUME Samples \subseteq InRange, RecordInv, todo = {}, NEW c,
           \A x \in Buckets : c[x] = buckets_[x]
    PROVE  \A k \in Buckets : Cumulative(c, k) = Cardinality(Lower(k + 1))
<1> DEFINE P == {k \in 0..kBuckets : SumOf(c, 0..k - 1) = Cardinality(Lower(k))}
<1>0. kBuckets \in Nat
  BY Sizes
<1>1. 0 \in P
  <2>1. 0..0 - 1 = {}
    OBVIOUS
  <2>2. SumOf(c, 0..0 - 1) = 0
    BY <2>1, SumEmpty
  <2> QED BY <1>0, <2>2, LowerEnds
<1>2. ASSUME NEW k \in 1..kBuckets, k - 1 \in P PROVE k \in P
  <2>1. PICK m \in Buckets : m = k - 1 /\ m + 1 = k /\ m \in Nat
    BY <1>0 DEF Buckets
  <2>2. SumOf(c, 0..m - 1) = Cardinality(Lower(m))
    BY <1>2, <2>1
  <2>3. 0..k - 1 = (0..m - 1) \cup {m} /\ m \notin 0..m - 1
    BY <2>1
  <2>4. Weights(c, (0..m - 1) \cup {m})
    <3>1. IsFiniteSet(0..m)
      <4>1. m \in Int /\ 0 \in Int
        BY <2>1
      <4> QED BY ONLY <4>1, FS_Interval
    <3>2. \A x \in 0..k - 1 : x \in Buckets
      BY <1>0 DEF Buckets
    <3>3. \A x \in Buckets : buckets_[x] \in Nat
      BY DEF RecordInv
    <3> QED BY <2>1, <2>3, <3>1, <3>2, <3>3 DEF Weights
  <2>5. SumOf(c, (0..m - 1) \cup {m}) = SumOf(c, 0..m - 1) + c[m]
    BY <2>3, <2>4, SumAdd
  <2>6. Cardinality(Lower(m + 1)) = Cardinality(Lower(m)) + buckets_[m]
    BY LowerNext
  <2>7. SumOf(c, 0..k - 1) = Cardinality(Lower(k))
    BY <2>1, <2>2, <2>3, <2>5, <2>6
  <2> QED BY <1>0, <2>7
<1>3. \A k \in 0..kBuckets : k \in P
  <2> HIDE DEF P
  <2> QED BY <1>0, <1>1, <1>2, Along
<1> SUFFICES ASSUME NEW k \in Buckets PROVE Cumulative(c, k) = Cardinality(Lower(k + 1))
  OBVIOUS
<1>4. PICK m \in 0..kBuckets : m = k + 1 /\ m - 1 = k
  BY <1>0 DEF Buckets
<1>5. SumOf(c, 0..m - 1) = Cardinality(Lower(m))
  BY <1>3
<1>6. Cumulative(c, k) = SumOf(c, 0..k)
  BY DEF Cumulative, SumOf
<1> QED BY <1>4, <1>5, <1>6

\* A rank is that of some record: KthSmallest has a value.
LEMMA RankHasRecord ==
    ASSUME Samples \subseteq InRange, RecordInv, todo = {},
           NEW k \in Nat, 1 <= k, k <= Len(recorded)
    PROVE  \E j \in 1..Len(recorded) : Below(recorded[j]) < k /\ k <= UpTo(recorded[j])
<1>1. PICK n \in Nat : n = Len(recorded) /\ DOMAIN recorded = 1..n
  BY AllVisible
<1>2. \A j \in 1..n : recorded[j] \in InRange /\ recorded[j] \in Nat
  BY <1>1, AllVisible
<1>3. IsFiniteSet(1..n) /\ Cardinality(1..n) = n
  BY FS_Interval
<1>4. \A x : Below(x) \in Nat /\ UpTo(x) \in Nat
  <2> SUFFICES ASSUME NEW x PROVE Below(x) \in Nat /\ UpTo(x) \in Nat
    OBVIOUS
  <2>1. PICK C, D \in SUBSET (1..n) : C = {j \in 1..n : recorded[j] < x}
                                     /\ D = {j \in 1..n : recorded[j] <= x}
    OBVIOUS
  <2>2. Cardinality(C) \in Nat /\ Cardinality(D) \in Nat
    BY <1>3, FS_Subset, FS_CardinalityType
  <2> QED BY <1>1, <2>1, <2>2 DEF Below, UpTo
<1> DEFINE A == {m \in Nat : k <= UpTo(m)}
<1>5. A # {}
  <2>1. PICK M \in Nat : M = 2^kMaxOctave - 1
    BY Sizes, PowerDoubles
  <2>2. \A j \in 1..n : recorded[j] <= M
    BY <1>2, <2>1 DEF InRange
  <2>3. {j \in 1..n : recorded[j] <= M} = 1..n
    BY <2>2
  <2>4. UpTo(M) = n
    BY <1>1, <1>3, <2>3 DEF UpTo
  <2> QED BY <1>1, <2>4
<1>6. PICK m \in A : \A r \in A : m <= r
  BY <1>5, LeastNumber
<1>7. m \in Nat /\ k <= UpTo(m)
  BY <1>6
<1>8. Below(m) < k
  <2>1. CASE m = 0
    <3>1. {j \in 1..n : recorded[j] < 0} = {}
      BY <1>2
    <3>2. Below(0) = 0
      BY <1>1, <3>1, FS_EmptySet DEF Below
    <3> QED BY <2>1, <3>2
  <2>2. CASE m # 0
    <3>1. m - 1 \in Nat /\ ~(m <= m - 1)
      BY <1>7, <2>2
    <3>2. ~(k <= UpTo(m - 1))
      BY <1>6, <3>1
    <3>3. {j \in 1..n : recorded[j] < m} = {j \in 1..n : recorded[j] <= m - 1}
      BY <1>2, <1>7
    <3>4. Below(m) = UpTo(m - 1)
      BY <1>1, <3>3 DEF Below, UpTo
    <3> QED BY <1>4, <3>2, <3>4
  <2> QED BY <2>1, <2>2
<1>9. PICK j \in 1..n : recorded[j] = m
  <2>1. SUFFICES ASSUME \A j \in 1..n : recorded[j] # m PROVE FALSE
    OBVIOUS
  <2>2. {j \in 1..n : recorded[j] < m} = {j \in 1..n : recorded[j] <= m}
    BY <1>2, <1>7, <2>1
  <2>3. Below(m) = UpTo(m)
    BY <1>1, <2>2 DEF Below, UpTo
  <2> QED BY <1>4, <1>7, <1>8, <2>3
<1> QED BY <1>1, <1>7, <1>8, <1>9

\* So the reference has its value.
LEMMA KthSmallestIs ==
    ASSUME Samples \subseteq InRange, RecordInv, todo = {},
           NEW k \in Nat, 1 <= k, k <= Len(recorded)
    PROVE  /\ KthSmallest(k) \in InRange
           /\ Below(KthSmallest(k)) < k /\ k <= UpTo(KthSmallest(k))
<1>1. PICK V : V = {recorded[j] : j \in DOMAIN recorded}
  OBVIOUS
<1>2. \E x \in V : Below(x) < k /\ k <= UpTo(x)
  BY <1>1, AllVisible, RankHasRecord
<1>3. KthSmallest(k) = CHOOSE x \in V : Below(x) < k /\ k <= UpTo(x)
  BY <1>1 DEF KthSmallest
<1>4. /\ KthSmallest(k) \in V
      /\ Below(KthSmallest(k)) < k /\ k <= UpTo(KthSmallest(k))
  BY <1>2, <1>3
<1>5. V \subseteq InRange
  BY <1>1, AllVisible
<1> QED BY <1>4, <1>5

\* The first bucket whose cumulative count reaches k is that of the k-th
\* smallest record.
LEMMA FirstHit ==
    ASSUME Samples \subseteq InRange, RecordInv, todo = {}, NEW c,
           \A x \in Buckets : c[x] = buckets_[x],
           NEW k \in Nat, 1 <= k, k <= Len(recorded),
           NEW H, H = {x \in Buckets : Cumulative(c, x) >= k}
    PROVE  H # {} /\ Min(H) = bucket_of(KthSmallest(k))
<1>1. PICK n \in Nat : n = Len(recorded) /\ DOMAIN recorded = 1..n
  BY AllVisible
<1>2. \A j \in 1..n : /\ recorded[j] \in InRange /\ recorded[j] \in Nat
                      /\ bucket_of(recorded[j]) \in Nat
  BY <1>1, AllVisible
<1>3. PICK X \in InRange : X = KthSmallest(k) /\ Below(X) < k /\ k <= UpTo(X)
  BY KthSmallestIs
<1>4. PICK B \in Buckets : B = bucket_of(X) /\ B \in Nat /\ X \in Nat
  BY OneValue, Sizes DEF Buckets
<1>5. \A x \in Buckets : x \in Nat /\ Cumulative(c, x) = Cardinality(Lower(x + 1))
  BY CumulativeCounts, Sizes DEF Buckets
<1>6. IsFiniteSet(1..n)
  BY FS_Interval
<1>7. PICK lo, up \in SUBSET (1..n) : /\ lo = {j \in 1..n : recorded[j] < X}
                                     /\ up = {j \in 1..n : recorded[j] <= X}
  OBVIOUS
<1>8. Below(X) = Cardinality(lo) /\ UpTo(X) = Cardinality(up)
  BY <1>1, <1>7 DEF Below, UpTo
<1>9. IsFiniteSet(lo) /\ IsFiniteSet(up) /\ Cardinality(lo) \in Nat /\ Cardinality(up) \in Nat
  BY <1>6, FS_Subset, FS_CardinalityType
<1>10. B \in H
  <2>1. PICK C \in SUBSET (1..n) : C = Lower(B + 1)
    BY <1>1 DEF Lower
  <2>2. IsFiniteSet(C) /\ Cardinality(C) \in Nat
    BY <1>6, FS_Subset, FS_CardinalityType
  <2>3. ASSUME NEW j \in up PROVE j \in C
    <3>1. j \in 1..n /\ recorded[j] <= X /\ recorded[j] \in InRange
      BY <1>2, <1>7
    <3>2. bucket_of(recorded[j]) <= B
      BY <1>4, <3>1, BucketMonotone
    <3>3. bucket_of(recorded[j]) < B + 1
      BY <1>2, <1>4, <3>1, <3>2
    <3> QED BY <1>1, <2>1, <3>1, <3>3 DEF Lower
  <2>4. Cardinality(up) <= Cardinality(C)
    BY <2>2, <2>3, FS_Subset
  <2>5. Cumulative(c, B) >= k
    BY <1>3, <1>5, <1>8, <1>9, <2>1, <2>2, <2>4
  <2> QED BY <2>5
<1>11. ASSUME NEW y \in H PROVE B <= y
  <2>1. SUFFICES ASSUME y < B PROVE FALSE
    BY <1>4, <1>5
  <2>2. PICK C \in SUBSET (1..n) : C = Lower(y + 1)
    BY <1>1 DEF Lower
  <2>3. IsFiniteSet(C) /\ Cardinality(C) \in Nat
    BY <1>6, FS_Subset, FS_CardinalityType
  <2>4. y \in Nat /\ Cardinality(C) >= k
    BY <1>5, <2>2
  <2>5. ASSUME NEW j \in C PROVE j \in lo
    <3>1. j \in 1..n /\ bucket_of(recorded[j]) < y + 1
      BY <1>1, <2>2 DEF Lower
    <3>2. recorded[j] \in InRange /\ recorded[j] \in Nat /\ bucket_of(recorded[j]) \in Nat
      BY <1>2, <3>1
    <3>3. X <= recorded[j] => B <= bucket_of(recorded[j])
      BY <1>4, <3>2, BucketMonotone
    <3>4. ~(B <= bucket_of(recorded[j]))
      BY <1>4, <2>1, <2>4, <3>1, <3>2
    <3>5. recorded[j] < X
      BY <1>4, <3>2, <3>3, <3>4
    <3> QED BY <1>7, <3>1, <3>5
  <2>6. Cardinality(C) <= Cardinality(lo)
    BY <1>9, <2>5, FS_Subset
  <2> QED BY <1>3, <1>8, <1>9, <2>3, <2>4, <2>6
<1>12. PICK z : z = Min(H)
  OBVIOUS
<1>13. z = CHOOSE x \in H : \A y \in H : x <= y
  BY <1>12 DEF Min
<1>14. z \in H /\ \A y \in H : z <= y
  BY <1>10, <1>11, <1>13
<1>15. z <= B /\ B <= z /\ z \in Nat
  BY <1>5, <1>10, <1>11, <1>14
<1>16. z = B
  BY <1>4, <1>15
<1> QED BY <1>3, <1>4, <1>10, <1>12, <1>16

\* A percentile of an undisturbed copy is exact.
LEMMA PercentileExact ==
    ASSUME Samples \subseteq InRange, RecordInv, todo = {}, NEW c,
           \A x \in Buckets : c[x] = buckets_[x],
           NEW num \in Nat, NEW den \in Nat, den >= 1, num <= den
    PROVE  Exact(percentile(c, Len(recorded), num, den), num, den)
<1>1. PICK n \in Nat : n = Len(recorded)
  BY AllVisible
<1>2. n * num \in Nat /\ n * num <= n * den
  OBVIOUS
<1>3. PICK k \in Nat : k = (n * num) \div den /\ k * den <= n * num
  BY <1>2, RoundsDown
<1>4. k <= n
  <2>1. n + 1 <= k => (n + 1) * den <= k * den
    OBVIOUS
  <2>2. (n + 1) * den = n * den + den /\ n * den \in Nat /\ k * den \in Nat
    OBVIOUS
  <2> QED BY <1>2, <1>3, <2>1, <2>2
<1>5. ASSUME k >= 1
      PROVE  percentile(c, n, num, den) = value_of(bucket_of(KthSmallest(k)))
  <2>1. PICK H : H = {x \in Buckets : Cumulative(c, x) >= k}
    OBVIOUS
  <2>2. H # {} /\ Min(H) = bucket_of(KthSmallest(k))
    BY <1>1, <1>4, <1>5, <2>1, FirstHit
  <2>3. percentile(c, n, num, den) = value_of(IF H = {} THEN kBuckets - 1 ELSE Min(H))
    BY <1>3, <2>1 DEF percentile
  <2> QED BY <2>2, <2>3
<1> QED BY <1>1, <1>3, <1>5 DEF Exact
-----------------------------------------------------------------------------
(* Snapshots that no record overlaps                                       *)

\* Records whose sum, and whose maximum, is visible
Summed == Len(recorded) - (IF "sum" \in todo THEN 1 ELSE 0)
Maxed == Len(recorded) - (IF "max" \in todo THEN 1 ELSE 0)

\* sum_ and max_ are those of the visible records.
TotalsInv ==
    /\ sum_ = SumOf(recorded, 1..Summed)
    /\ \A j \in 1..Maxed : recorded[j] <= max_
    /\ max_ = 0 \/ \E j \in 1..Maxed : recorded[j] = max_

\* What a snapshot that no record has overlapped has read so far.
CleanInv ==
    /\ clean => todo = {}
    /\ clean /\ spc = "scan" => /\ total = Cardinality(Lower(i))
                                /\ \A x \in Buckets : x < i => b[x] = buckets_[x]
    /\ clean /\ spc \in {"max", "mean"} => /\ total = Len(recorded)
                                           /\ \A x \in Buckets : b[x] = buckets_[x]
    /\ clean /\ spc = "mean" => snap.count = total /\ snap.max = max_ /\ total # 0
    /\ CleanSnapshotExact

ExactInv == TotalsInv /\ CleanInv

\* The samples are numbers, all of them but the last possibly summed.
LEMMA SummedRecords ==
    ASSUME RecordInv
    PROVE  /\ Len(recorded) \in Nat /\ DOMAIN recorded = 1..Len(recorded)
           /\ \A j \in 1..Len(recorded) : recorded[j] \in Nat
           /\ Summed \in Nat /\ Maxed \in Nat
           /\ "sum" \in todo => Summed = Len(recorded) - 1
           /\ "sum" \notin todo => Summed = Len(recorded)
           /\ "max" \in todo => Maxed = Len(recorded) - 1
           /\ "max" \notin todo => Maxed = Len(recorded)
<1>1. recorded \in Seq(Samples)
  BY DEF RecordInv
<1>2. /\ Len(recorded) \in Nat /\ DOMAIN recorded = 1..Len(recorded)
      /\ \A j \in 1..Len(recorded) : recorded[j] \in Samples
  BY <1>1
<1>3. \A j \in 1..Len(recorded) : recorded[j] \in Nat
  BY <1>2, HistogramAssumption
<1>4. todo # {} => Len(recorded) >= 1
  BY DEF RecordInv
<1>5. PICK n \in Nat : n = Len(recorded) /\ (todo # {} => n >= 1)
  BY <1>2, <1>4
<1>6. /\ "sum" \in todo => Summed = n - 1 /\ n >= 1
      /\ "sum" \notin todo => Summed = n
  BY <1>5 DEF Summed
<1>7. /\ "max" \in todo => Maxed = n - 1 /\ n >= 1
      /\ "max" \notin todo => Maxed = n
  BY <1>5 DEF Maxed
<1>8. Summed \in Nat /\ Maxed \in Nat
  BY <1>6, <1>7
<1> QED BY <1>2, <1>3, <1>5, <1>6, <1>7, <1>8

\* A new record is in neither yet.
LEMMA RecordTotals ==
    ASSUME RecordInv, TotalsInv, NEW v \in Samples, Record(v)
    PROVE  TotalsInv'
<1>1. /\ todo = {} /\ recorded' = Append(recorded, v)
      /\ todo' = {"bucket", "count", "sum", "max"} /\ UNCHANGED <<sum_, max_>>
  BY DEF Record, shared
<1>2. PICK n \in Nat : n = Len(recorded) /\ Summed = n /\ Maxed = n
  BY <1>1, SummedRecords
<1>3. recorded \in Seq(Samples)
  BY DEF RecordInv
<1>4. Len(recorded') = n + 1 /\ \A j \in 1..n : recorded'[j] = recorded[j]
  BY <1>1, <1>2, <1>3
<1>5. Summed' = n /\ Maxed' = n
  BY <1>1, <1>4 DEF Summed, Maxed
<1>6. Weights(recorded, 1..n)
  <2>1. IsFiniteSet(1..n)
    BY FS_Interval
  <2> QED BY <1>2, <2>1, SummedRecords DEF Weights
<1>7. PICK r : r = recorded'
  OBVIOUS
<1>8. SumOf(recorded, 1..n) = SumOf(r, 1..n)
  BY <1>4, <1>6, <1>7, SumSame
<1>9. sum_' = SumOf(r, 1..n)
  BY <1>1, <1>2, <1>8 DEF TotalsInv
<1>10. /\ \A j \in 1..n : recorded'[j] <= max_'
       /\ max_' = 0 \/ \E j \in 1..n : recorded'[j] = max_'
  BY <1>1, <1>2, <1>4 DEF TotalsInv
<1> QED BY <1>5, <1>7, <1>9, <1>10 DEF TotalsInv

\* An update brings its record into the sum, or into the maximum.
LEMMA UpdateTotals ==
    ASSUME RecordInv, TotalsInv, NEW u \in {"bucket", "count", "sum", "max"}, Update(u)
    PROVE  TotalsInv'
<1>1. u \in todo /\ todo' = todo \ {u} /\ recorded' = recorded
  BY DEF Update
<1>2. PICK n \in Nat : n = Len(recorded) /\ n >= 1 /\ ns = recorded[n]
  BY <1>1, SummedRecords DEF RecordInv
<1>3. ns \in Nat /\ max_ \in Nat
  BY DEF RecordInv
<1>4. sum_' = SumOf(recorded, 1..Summed')
  <2>1. CASE u = "sum"
    <3>1. PICK m \in Nat : m = n - 1 /\ m + 1 = n
      BY <1>2
    <3>2. Summed = m
      BY <1>1, <1>2, <2>1, <3>1, SummedRecords
    <3>3. Summed' = n
      <4>1. "sum" \notin todo'
        BY <1>1, <2>1
      <4> QED BY <1>1, <1>2, <4>1 DEF Summed
    <3>4. 1..n = (1..m) \cup {n} /\ n \notin 1..m
      BY <3>1
    <3>5. Weights(recorded, (1..m) \cup {n})
      <4>1. IsFiniteSet(1..n)
        BY FS_Interval
      <4>2. \A j \in 1..n : recorded[j] \in Nat
        BY <1>2, SummedRecords
      <4>3. Weights(recorded, 1..n)
        BY <4>1, <4>2 DEF Weights
      <4> QED BY <3>4, <4>3
    <3>6. SumOf(recorded, (1..m) \cup {n}) = SumOf(recorded, 1..m) + recorded[n]
      BY <3>4, <3>5, SumAdd
    <3>7. sum_ = SumOf(recorded, 1..m) /\ sum_' = sum_ + ns
      BY <2>1, <3>2 DEF TotalsInv, Update
    <3> QED BY <1>2, <3>3, <3>4, <3>6, <3>7
  <2>2. CASE u # "sum"
    <3>1. sum_' = sum_
      BY <2>2 DEF Update
    <3>2. Summed' = Summed
      BY <1>1, <2>2 DEF Summed
    <3> QED BY <3>1, <3>2 DEF TotalsInv
  <2> QED BY <2>1, <2>2
<1>5. /\ \A j \in 1..Maxed' : recorded[j] <= max_'
      /\ max_' = 0 \/ \E j \in 1..Maxed' : recorded[j] = max_'
  <2>1. CASE u = "max"
    <3>1. PICK m \in Nat : m = n - 1 /\ m + 1 = n
      BY <1>2
    <3>2. Maxed = m
      BY <1>1, <1>2, <2>1, <3>1, SummedRecords
    <3>3. Maxed' = n
      <4>1. "max" \notin todo'
        BY <1>1, <2>1
      <4> QED BY <1>1, <1>2, <4>1 DEF Maxed
    <3>4. max_' = IF ns > max_ THEN ns ELSE max_
      BY <2>1 DEF Update
    <3>5. \A j \in 1..m : recorded[j] <= max_ /\ recorded[j] \in Nat
      BY <1>2, <3>1, <3>2, SummedRecords DEF TotalsInv
    <3>6. \A j \in 1..n : j \in 1..m \/ j = n
      BY <3>1
    <3>7. \A j \in 1..n : recorded[j] <= max_'
      BY <1>2, <1>3, <3>4, <3>5, <3>6
    <3>8. max_ = 0 \/ \E j \in 1..m : recorded[j] = max_
      BY <3>2 DEF TotalsInv
    <3>9. n \in 1..n /\ \A j \in 1..m : j \in 1..n
      BY <1>2, <3>1
    <3>10. max_' = 0 \/ \E j \in 1..n : recorded[j] = max_'
      <4>1. CASE ns > max_
        BY <1>2, <3>4, <3>9, <4>1
      <4>2. CASE ~(ns > max_)
        BY <3>4, <3>8, <3>9, <4>2
      <4> QED BY <4>1, <4>2
    <3> QED BY <3>3, <3>7, <3>10
  <2>2. CASE u # "max"
    <3>1. max_' = max_
      BY <2>2 DEF Update
    <3>2. Maxed' = Maxed
      BY <1>1, <2>2 DEF Maxed
    <3> QED BY <3>1, <3>2 DEF TotalsInv
  <2> QED BY <2>1, <2>2
<1> QED BY <1>1, <1>4, <1>5 DEF TotalsInv

\* When every update is done the maximum is that of all records.
LEMMA MaximumExact ==
    ASSUME RecordInv, TotalsInv, todo = {}, Len(recorded) # 0
    PROVE  max_ = Max({recorded[j] : j \in DOMAIN recorded})
<1>0. PICK n \in Nat : n = Len(recorded) /\ DOMAIN recorded = 1..n
  BY SummedRecords
<1>1. n = Len(recorded) /\ Maxed = n /\ DOMAIN recorded = 1..n /\ n >= 1
  <2>1. "max" \notin todo
    OBVIOUS
  <2>2. Maxed = Len(recorded)
    BY <2>1, SummedRecords
  <2> QED BY <1>0, <2>2
<1>2. PICK V : V = {recorded[j] : j \in DOMAIN recorded}
  OBVIOUS
<1>3. \A j \in 1..n : recorded[j] \in Nat
  BY <1>1, SummedRecords
<1>4. V \subseteq Nat
  BY <1>1, <1>2, <1>3
<1>5. \A x \in V : x <= max_
  BY <1>1, <1>2 DEF TotalsInv
<1>6. max_ \in Nat
  BY DEF RecordInv
<1>7. max_ \in V
  <2>1. CASE max_ = 0
    <3>1. 1 \in 1..n
      BY <1>1
    <3>2. recorded[1] \in V
      BY <1>1, <1>2, <3>1
    <3>3. recorded[1] <= 0 /\ recorded[1] \in Nat
      BY <1>4, <1>5, <2>1, <3>2
    <3>4. recorded[1] = 0
      BY <3>3
    <3> QED BY <2>1, <3>2, <3>4
  <2>2. CASE max_ # 0
    <3>1. PICK j \in 1..n : recorded[j] = max_
      BY <1>1, <2>2 DEF TotalsInv
    <3> QED BY <1>1, <1>2, <3>1
  <2> QED BY <2>1, <2>2
<1>8. PICK z : z = Max(V)
  OBVIOUS
<1>9. z = CHOOSE x \in V : \A y \in V : x >= y
  BY <1>8 DEF Max
<1>10. \A y \in V : max_ >= y
  BY <1>4, <1>5, <1>6
<1>11. z \in V /\ \A y \in V : z >= y
  BY <1>7, <1>9, <1>10
<1>12. z \in Nat /\ z >= max_ /\ z <= max_
  BY <1>4, <1>5, <1>7, <1>11
<1>13. z = max_
  BY <1>6, <1>12
<1> QED BY <1>2, <1>8, <1>13

\* The fields of a page that is filled in.
LEMMA FilledInFields ==
    ASSUME NEW s, IsPage(s), NEW m1, NEW p1, NEW q1, NEW r1
    PROVE  /\ FilledIn(s, m1, p1, q1, r1).mean = m1
           /\ FilledIn(s, m1, p1, q1, r1).p50 = p1
           /\ FilledIn(s, m1, p1, q1, r1).p99 = q1
           /\ FilledIn(s, m1, p1, q1, r1).p999 = r1
<1>1. PICK c, m \in Nat : \E mean, p, q, r :
         s = [count |-> c, mean |-> mean, p50 |-> p, p99 |-> q, p999 |-> r, max |-> m]
  BY DEF IsPage
<1>2. PICK mean, p, q, r :
         s = [count |-> c, mean |-> mean, p50 |-> p, p99 |-> q, p999 |-> r, max |-> m]
  BY <1>1
<1>3. PICK t : t = FilledIn(s, m1, p1, q1, r1)
  OBVIOUS
<1>4. t = [s EXCEPT !.mean = m1, !.p50 = p1, !.p99 = q1, !.p999 = r1]
  BY <1>3 DEF FilledIn
<1>5. t = [count |-> c, mean |-> m1, p50 |-> p1, p99 |-> q1, p999 |-> r1, max |-> m]
  BY <1>2, <1>4
<1>6. t.mean = m1 /\ t.p50 = p1 /\ t.p99 = q1 /\ t.p999 = r1
  BY <1>5
<1> QED BY <1>3, <1>6

\* Nothing was recorded or read.
LEMMA ExactStart == Init => ExactInv
<1> SUFFICES ASSUME Init PROVE ExactInv
  OBVIOUS
<1>1. recorded = <<>> /\ todo = {} /\ sum_ = 0 /\ max_ = 0 /\ spc = "idle" /\ snap = NoSnapshot
  BY DEF Init
<1>2. Summed = 0 /\ Maxed = 0
  BY <1>1 DEF Summed, Maxed
<1>3. 1..0 = {}
  OBVIOUS
<1>4. SumOf(recorded, {}) = 0
  BY SumEmpty
<1>5. TotalsInv
  BY <1>1, <1>2, <1>3, <1>4 DEF TotalsInv
<1>6. CleanInv
  BY <1>1 DEF CleanInv, CleanSnapshotExact
<1> QED BY <1>5, <1>6 DEF ExactInv

\* The gateway ends a clean snapshot: there is none while an update is to come.
LEMMA GatewayIsNotClean ==
    ASSUME CleanInv, \/ \E v \in Samples : Record(v)
                     \/ \E u \in {"bucket", "count", "sum", "max"} : Update(u)
    PROVE  CleanInv'
<1>1. clean' = FALSE \/ (clean' = clean /\ todo # {})
  BY DEF Record, Update
<1>2. ~clean'
  BY <1>1 DEF CleanInv
<1> QED BY <1>2 DEF CleanInv, CleanSnapshotExact

\* The reader leaves what the gateway writes alone.
LEMMA SnapshotTotals ==
    ASSUME TotalsInv, Snapshot
    PROVE  TotalsInv' /\ UNCHANGED <<shared, todo, recorded>>
<1>1. UNCHANGED <<shared, todo, recorded>>
  BY DEF Snapshot, SnapBegin, SnapScan, SnapMax, SnapMean
<1>2. UNCHANGED <<sum_, max_, todo, recorded>>
  BY <1>1 DEF shared
<1>3. Summed' = Summed /\ Maxed' = Maxed
  BY <1>2 DEF Summed, Maxed
<1> QED BY <1>1, <1>2, <1>3 DEF TotalsInv

\* A snapshot begins with nothing read.
LEMMA BeginClean ==
    ASSUME Samples \subseteq InRange, RecordInv, SnapshotInv, ExactInv, SnapBegin
    PROVE  CleanInv'
<1>1. /\ spc' = "scan" /\ i' = 0 /\ total' = 0 /\ clean' = (todo = {})
      /\ UNCHANGED <<todo, recorded>>
  BY DEF SnapBegin
<1>2. \A x \in Buckets : ~(x < 0)
  BY Sizes DEF Buckets
<1>3. clean' => total' = Cardinality(Lower(0))
  BY <1>1, LowerEnds
<1>4. Lower(i)' = Lower(0)
  BY <1>1 DEF Lower
<1> QED BY <1>1, <1>2, <1>3, <1>4 DEF CleanInv, CleanSnapshotExact

\* One bucket more is read.
LEMMA ScanClean ==
    ASSUME Samples \subseteq InRange, RecordInv, SnapshotInv, ExactInv, SnapScan
    PROVE  CleanInv'
<1>1. /\ spc = "scan" /\ b' = [b EXCEPT ![i] = buckets_[i]] /\ total' = total + b'[i]
      /\ i' = i + 1 /\ spc' = IF i' < kBuckets THEN "scan" ELSE "max"
      /\ UNCHANGED <<todo, recorded, clean, buckets_>>
  BY DEF SnapScan, shared
<1>2. SUFFICES ASSUME clean PROVE CleanInv'
  BY <1>1 DEF CleanInv, CleanSnapshotExact
<1>3. todo = {} /\ total = Cardinality(Lower(i)) /\ \A x \in Buckets : x < i => b[x] = buckets_[x]
  BY <1>1, <1>2 DEF ExactInv, CleanInv
<1>4. PICK n \in Buckets : n = i
  BY <1>1 DEF SnapshotInv
<1>5. n \in Nat /\ n < kBuckets /\ kBuckets \in Nat
  BY <1>4, Sizes DEF Buckets
<1>6. b \in [Buckets -> Nat] /\ b'[n] = buckets_[n]
  BY <1>1, <1>4 DEF SnapshotInv
<1>7. total' = Cardinality(Lower(n + 1))
  BY <1>1, <1>3, <1>4, <1>6, LowerNext
<1>8. \A x \in Buckets : x \in Nat
  BY Sizes DEF Buckets
<1>9. \A x \in Buckets : x < n + 1 => b'[x] = buckets_[x]
  <2> SUFFICES ASSUME NEW x \in Buckets, x < n + 1 PROVE b'[x] = buckets_[x]
    OBVIOUS
  <2>1. CASE x = n
    BY <1>6, <2>1
  <2>2. CASE x # n
    <3>1. x < n
      BY <1>5, <1>8, <2>2
    <3>2. b'[x] = b[x]
      BY <1>1, <1>4, <1>6, <2>2
    <3> QED BY <1>3, <1>4, <3>1, <3>2
  <2> QED BY <2>1, <2>2
<1>10. CASE n + 1 < kBuckets
  <2>1. spc' = "scan" /\ i' = n + 1
    BY <1>1, <1>4, <1>10
  <2>2. Lower(i)' = Lower(n + 1)
    BY <1>1, <2>1 DEF Lower
  <2> QED BY <1>1, <1>3, <1>7, <1>9, <2>1, <2>2 DEF CleanInv, CleanSnapshotExact
<1>11. CASE ~(n + 1 < kBuckets)
  <2>1. spc' = "max" /\ n + 1 = kBuckets
    BY <1>1, <1>4, <1>5, <1>11
  <2>2. total' = Len(recorded)
    BY <1>3, <1>7, <2>1, LowerEnds
  <2>3. \A x \in Buckets : x < n + 1
    BY <2>1, <1>5 DEF Buckets
  <2>4. \A x \in Buckets : b'[x] = buckets_[x]
    BY <1>9, <2>3
  <2> QED BY <1>1, <1>3, <2>1, <2>2, <2>4 DEF CleanInv, CleanSnapshotExact
<1> QED BY <1>10, <1>11

\* The count and the maximum are those of the records; without any, the page
\* is the empty one.
LEMMA MaxClean ==
    ASSUME Samples \subseteq InRange, RecordInv, SnapshotInv, ExactInv, SnapMax
    PROVE  CleanInv'
<1>1. /\ spc = "max" /\ snap' = [NoSnapshot EXCEPT !.count = total, !.max = max_]
      /\ spc' = IF total = 0 THEN "idle" ELSE "mean"
      /\ UNCHANGED <<todo, recorded, b, total, clean, max_, buckets_>>
  BY DEF SnapMax, shared
<1>2. SUFFICES ASSUME clean PROVE CleanInv'
  BY <1>1 DEF CleanInv, CleanSnapshotExact
<1>3. todo = {} /\ total = Len(recorded) /\ \A x \in Buckets : b[x] = buckets_[x]
  BY <1>1, <1>2 DEF ExactInv, CleanInv
<1>4. snap' = [count |-> total, mean |-> 0, p50 |-> 0, p99 |-> 0, p999 |-> 0, max |-> max_]
  BY <1>1 DEF NoSnapshot
<1>5. CASE total = 0
  <2>1. "max" \notin todo
    BY <1>3
  <2>2. Maxed = 0
    BY <1>3, <1>5, <2>1, SummedRecords
  <2>3. 1..0 = {}
    OBVIOUS
  <2>4. max_ = 0
    BY <2>2, <2>3 DEF ExactInv, TotalsInv
  <2>5. snap' = NoSnapshot
    BY <1>4, <1>5, <2>4 DEF NoSnapshot
  <2>6. spc' = "idle"
    BY <1>1, <1>5
  <2> QED BY <1>1, <1>3, <2>5, <2>6 DEF CleanInv, CleanSnapshotExact
<1>6. CASE total # 0
  <2>1. spc' = "mean"
    BY <1>1, <1>6
  <2>2. snap'.count = total /\ snap'.max = max_
    BY <1>4
  <2> QED BY <1>1, <1>3, <1>6, <2>1, <2>2 DEF CleanInv, CleanSnapshotExact
<1> QED BY <1>5, <1>6

\* The mean and the percentiles are those of the records.
LEMMA MeanClean ==
    ASSUME Samples \subseteq InRange, RecordInv, SnapshotInv, ExactInv, SnapMean
    PROVE  CleanInv'
<1>1. snap' = FilledIn(snap, sum_ \div total, percentile(b, total, 50, 100),
                       percentile(b, total, 99, 100), percentile(b, total, 999, 1000))
  BY DEF SnapMean, FilledIn
<1>2. spc = "mean" /\ spc' = "idle" /\ UNCHANGED <<todo, recorded, clean>>
  BY DEF SnapMean
<1>3. SUFFICES ASSUME clean PROVE CleanInv'
  BY <1>2 DEF CleanInv, CleanSnapshotExact
<1>4. /\ todo = {} /\ total = Len(recorded) /\ \A x \in Buckets : b[x] = buckets_[x]
      /\ snap.count = total /\ snap.max = max_ /\ total # 0
  BY <1>2, <1>3 DEF ExactInv, CleanInv
<1>5. IsPage(snap)
  BY DEF SnapshotInv
<1>6. /\ snap'.count = snap.count /\ snap'.max = snap.max /\ snap'.mean = sum_ \div total
      /\ snap'.p50 = percentile(b, total, 50, 100)
      /\ snap'.p99 = percentile(b, total, 99, 100)
      /\ snap'.p999 = percentile(b, total, 999, 1000)
  BY <1>1, <1>5, PageFilledIn, FilledInFields
<1>7. snap'.max = Max({recorded[j] : j \in DOMAIN recorded})
  BY <1>4, <1>6, MaximumExact DEF ExactInv
<1>8. snap'.mean = MapThenSumSet(LAMBDA j : recorded[j], DOMAIN recorded) \div Len(recorded)
  <2>1. "sum" \notin todo
    BY <1>4
  <2>2. DOMAIN recorded = 1..Summed
    BY <2>1, SummedRecords
  <2>3. sum_ = SumOf(recorded, DOMAIN recorded)
    BY <2>2 DEF ExactInv, TotalsInv
  <2>4. sum_ = MapThenSumSet(LAMBDA j : recorded[j], DOMAIN recorded)
    BY <2>3 DEF SumOf
  <2> QED BY <1>4, <1>6, <2>4
<1>9. /\ Exact(percentile(b, Len(recorded), 50, 100), 50, 100)
      /\ Exact(percentile(b, Len(recorded), 99, 100), 99, 100)
      /\ Exact(percentile(b, Len(recorded), 999, 1000), 999, 1000)
  <2>1. 50 <= 100 /\ 99 <= 100 /\ 999 <= 1000 /\ 100 >= 1 /\ 1000 >= 1
    OBVIOUS
  <2> QED BY <1>4, <2>1, PercentileExact
<1>10. Exact(snap'.p50, 50, 100) /\ Exact(snap'.p99, 99, 100) /\ Exact(snap'.p999, 999, 1000)
  BY <1>4, <1>6, <1>9
<1>11. CleanSnapshotExact'
  <2>1. /\ Exact(snap.p50, 50, 100)' /\ Exact(snap.p99, 99, 100)'
        /\ Exact(snap.p999, 999, 1000)'
    BY <1>2, <1>10 DEF Exact, KthSmallest, Below, UpTo
  <2>2. snap'.count = Len(recorded')
    BY <1>2, <1>4, <1>6
  <2>3. snap'.max = Max({recorded'[j] : j \in DOMAIN recorded'})
    BY <1>2, <1>7
  <2>4. snap'.mean = MapThenSumSet(LAMBDA j : recorded'[j], DOMAIN recorded') \div Len(recorded')
    BY <1>2, <1>8
  <2> QED BY <2>1, <2>2, <2>3, <2>4 DEF CleanSnapshotExact, MapThenSumSet, MapThenFoldSet, Max
<1> QED BY <1>2, <1>4, <1>11 DEF CleanInv

\* Every step keeps the invariant.
LEMMA ExactStep ==
    ASSUME Samples \subseteq InRange, RecordInv, SnapshotInv, ExactInv, [Next]_vars
    PROVE  ExactInv'
<1>0. TotalsInv /\ CleanInv
  BY DEF ExactInv
<1>1. ASSUME NEW v \in Samples, Record(v) PROVE TotalsInv' /\ CleanInv'
  BY <1>0, <1>1, RecordTotals, GatewayIsNotClean
<1>2. ASSUME NEW u \in {"bucket", "count", "sum", "max"}, Update(u)
      PROVE  TotalsInv' /\ CleanInv'
  BY <1>0, <1>2, UpdateTotals, GatewayIsNotClean
<1>3. ASSUME Snapshot PROVE TotalsInv' /\ CleanInv'
  <2>1. TotalsInv'
    BY <1>0, <1>3, SnapshotTotals
  <2>2. CleanInv'
    BY <1>3, BeginClean, ScanClean, MaxClean, MeanClean DEF Snapshot
  <2> QED BY <2>1, <2>2
<1>4. CASE UNCHANGED vars
  <2>1. TotalsInv'
    BY <1>0, <1>4 DEF vars, TotalsInv, Summed, Maxed
  <2>2. CleanSnapshotExact'
    BY <1>0, <1>4 DEF vars, CleanInv, CleanSnapshotExact, Exact, KthSmallest, Below, UpTo,
                      MapThenSumSet, MapThenFoldSet, Max
  <2>3. UNCHANGED <<spc, i, b, total, snap, clean, todo, recorded, buckets_, max_>>
    BY <1>4 DEF vars
  <2>4. Lower(i)' = Lower(i)
    BY <2>3 DEF Lower
  <2>5. CleanInv'
    BY <1>0, <2>2, <2>3, <2>4 DEF CleanInv
  <2> QED BY <2>1, <2>5 DEF ExactInv
<1> QED BY <1>1, <1>2, <1>3, <1>4 DEF Next, ExactInv

\* For samples in the range of the histogram: a snapshot that no record
\* overlaps counts every sample, and its mean, maximum and percentiles are
\* those of the samples, however many there are and in whatever order their
\* updates became visible.
THEOREM CleanSnapshotsAreExact ==
    ASSUME Samples \subseteq InRange
    PROVE  Spec => []CleanSnapshotExact
<1>1. RecordInv /\ SnapshotInv /\ [Next]_vars => RecordInv' /\ SnapshotInv'
  BY HistogramStep
<1>2. RecordInv /\ SnapshotInv /\ ExactInv /\ [Next]_vars => ExactInv'
  BY ExactStep
<1>3. ExactInv => CleanSnapshotExact
  BY DEF ExactInv, CleanInv
<1> QED BY <1>1, <1>2, <1>3, HistogramStart, ExactStart, PTL DEF Spec
=============================================================================
