------------------------------ MODULE Histogram ------------------------------
(***************************************************************************)
(* ts::Histogram (include/hist.hpp): the latency histogram.  The gateway   *)
(* thread records while the metrics thread takes snapshots; there is no    *)
(* lock and every access is relaxed.  The updates of one record are to     *)
(* different locations, so they may become visible in any order; each read *)
(* of a snapshot is a step of its own.                                     *)
(***************************************************************************)
EXTENDS Integers, Sequences, FiniteSetsExt

CONSTANTS kSubBits,    \* 6 in the code
          kMaxOctave,  \* 40 in the code
          Samples,     \* the nanosecond values that are recorded
          MaxRecords   \* bound: how many are recorded

ASSUME HistogramAssumption ==
    /\ kSubBits \in Nat /\ kMaxOctave \in Nat /\ kMaxOctave > kSubBits + 1
    /\ Samples \subseteq Nat /\ MaxRecords \in Nat

kSub == 2^kSubBits
kLinear == 2 * kSub
kBuckets == kLinear + (kMaxOctave - (kSubBits + 1)) * kSub
Buckets == 0 .. kBuckets - 1
-----------------------------------------------------------------------------
(* bucket_of and value_of                                                  *)

\* 63 - clzll(v)
Log2(v) == CHOOSE o \in 0 .. v : 2^o <= v /\ v < 2^(o + 1)

\* The octaves numbered from the wrong one
bucket_of_shifted(v) ==
    IF v < kLinear THEN v
    ELSE LET oct == IF Log2(v) >= kMaxOctave THEN kMaxOctave - 1 ELSE Log2(v)
             sub == (v - 2^oct) \div 2^(oct - kSubBits)
         IN  kLinear + (oct - kSubBits) * kSub + sub

bucket_of(v) ==
    IF v < kLinear THEN v
    ELSE LET oct == IF Log2(v) >= kMaxOctave THEN kMaxOctave - 1 ELSE Log2(v)
             sub == (v - 2^oct) \div 2^(oct - kSubBits)
         IN  kLinear + (oct - (kSubBits + 1)) * kSub + sub

\* The lower end plus a whole width
value_of_upper(b) ==
    IF b < kLinear THEN b
    ELSE LET idx == b - kLinear
             oct == kSubBits + 1 + idx \div kSub
             width == 2^(oct - kSubBits)
         IN  2^oct + (idx % kSub) * width + width

value_of(b) ==
    IF b < kLinear THEN b
    ELSE LET idx == b - kLinear
             oct == kSubBits + 1 + idx \div kSub
             width == 2^(oct - kSubBits)
         IN  2^oct + (idx % kSub) * width + width \div 2

\* percentile(b, total, num/den): the first bucket whose cumulative count
\* reaches floor(total * p)
Cumulative(b, i) == MapThenSumSet(LAMBDA j : b[j], 0 .. i)

\* The cumulative count compared strictly
percentile_strict(b, total, num, den) ==
    LET target == (total * num) \div den
        hit == {i \in Buckets : Cumulative(b, i) > target}
    IN  value_of(IF hit = {} THEN kBuckets - 1 ELSE Min(hit))

percentile(b, total, num, den) ==
    LET target == (total * num) \div den
        hit == {i \in Buckets : Cumulative(b, i) >= target}
    IN  value_of(IF hit = {} THEN kBuckets - 1 ELSE Min(hit))
-----------------------------------------------------------------------------
VARIABLES buckets_, count_, sum_, max_,  \* the shared atomics
          ns, todo,        \* record: its argument, the updates still to come
          spc, i, b, total,  \* snapshot: position, index and local copies
          snap,            \* the last snapshot returned
          recorded,        \* history: the samples of all records so far
          before, clean    \* history: records finished when the snapshot
                           \* began; no record overlapped it

vars == <<buckets_, count_, sum_, max_, ns, todo, spc, i, b, total, snap,
          recorded, before, clean>>
shared == <<buckets_, count_, sum_, max_>>
readerVars == <<spc, i, b, total, snap, before>>

Empty == [x \in Buckets |-> 0]
NoSnapshot == [count |-> 0, mean |-> 0, p50 |-> 0, p99 |-> 0, p999 |-> 0, max |-> 0]

Init ==
    /\ buckets_ = Empty /\ count_ = 0 /\ sum_ = 0 /\ max_ = 0
    /\ ns = 0 /\ todo = {}
    /\ spc = "idle" /\ i = 0 /\ b = Empty /\ total = 0 /\ snap = NoSnapshot
    /\ recorded = <<>> /\ before = 0 /\ clean = TRUE

(* record, called by the gateway thread only                               *)

Record(v) ==
    /\ todo = {}
    /\ Len(recorded) < MaxRecords
    /\ ns' = v
    /\ recorded' = Append(recorded, v)
    /\ todo' = {"bucket", "count", "sum", "max"}
    /\ clean' = FALSE
    /\ UNCHANGED <<shared, readerVars>>

\* The sum left out
UpdateNoSum(u) ==
    /\ u \in todo
    /\ todo' = todo \ {u}
    /\ buckets_' = IF u = "bucket" THEN [buckets_ EXCEPT ![bucket_of(ns)] = @ + 1]
                   ELSE buckets_
    /\ count_' = IF u = "count" THEN count_ + 1 ELSE count_
    /\ sum_' = sum_
    /\ max_' = IF u = "max" /\ ns > max_ THEN ns ELSE max_
    /\ UNCHANGED <<ns, recorded, clean, readerVars>>

\* max_ overwritten instead of raised
UpdateLastMax(u) ==
    /\ u \in todo
    /\ todo' = todo \ {u}
    /\ buckets_' = IF u = "bucket" THEN [buckets_ EXCEPT ![bucket_of(ns)] = @ + 1]
                   ELSE buckets_
    /\ count_' = IF u = "count" THEN count_ + 1 ELSE count_
    /\ sum_' = IF u = "sum" THEN sum_ + ns ELSE sum_
    /\ max_' = IF u = "max" THEN ns ELSE max_
    /\ UNCHANGED <<ns, recorded, clean, readerVars>>

\* One of the four relaxed updates becomes visible.  max_ has one writer, so
\* its compare-and-swap loop ends at the value it loaded.
Update(u) ==
    /\ u \in todo
    /\ todo' = todo \ {u}
    /\ buckets_' = IF u = "bucket" THEN [buckets_ EXCEPT ![bucket_of(ns)] = @ + 1]
                   ELSE buckets_
    /\ count_' = IF u = "count" THEN count_ + 1 ELSE count_
    /\ sum_' = IF u = "sum" THEN sum_ + ns ELSE sum_
    /\ max_' = IF u = "max" /\ ns > max_ THEN ns ELSE max_
    /\ UNCHANGED <<ns, recorded, clean, readerVars>>

(* snapshot, called by the metrics thread                                  *)

SnapBegin ==
    /\ spc = "idle"
    /\ spc' = "scan" /\ i' = 0 /\ b' = Empty /\ total' = 0
    /\ before' = Len(recorded) - (IF todo = {} THEN 0 ELSE 1)
    /\ clean' = (todo = {})
    /\ UNCHANGED <<shared, ns, todo, recorded, snap>>

\* The first bucket skipped
SnapScanFromOne ==
    /\ spc = "scan"
    /\ b' = [b EXCEPT ![i] = IF i = 0 THEN 0 ELSE buckets_[i]]
    /\ total' = total + b'[i]
    /\ i' = i + 1
    /\ spc' = IF i' < kBuckets THEN "scan" ELSE "max"
    /\ UNCHANGED <<shared, ns, todo, recorded, snap, before, clean>>

\* One turn of the loop over the buckets
SnapScan ==
    /\ spc = "scan"
    /\ b' = [b EXCEPT ![i] = buckets_[i]]
    /\ total' = total + b'[i]
    /\ i' = i + 1
    /\ spc' = IF i' < kBuckets THEN "scan" ELSE "max"
    /\ UNCHANGED <<shared, ns, todo, recorded, snap, before, clean>>

\* count and max are set; an empty histogram returns here.
SnapMax ==
    /\ spc = "max"
    /\ snap' = [NoSnapshot EXCEPT !.count = total, !.max = max_]
    /\ spc' = IF total = 0 THEN "idle" ELSE "mean"
    /\ UNCHANGED <<shared, ns, todo, recorded, i, b, total, before, clean>>

\* The mean uses sum_ as it is now, the percentiles the copied buckets.
SnapMean ==
    /\ spc = "mean"
    /\ snap' = [snap EXCEPT !.mean = sum_ \div total,
                            !.p50 = percentile(b, total, 50, 100),
                            !.p99 = percentile(b, total, 99, 100),
                            !.p999 = percentile(b, total, 999, 1000)]
    /\ spc' = "idle"
    /\ UNCHANGED <<shared, ns, todo, recorded, i, b, total, before, clean>>

Snapshot == SnapBegin \/ SnapScan \/ SnapMax \/ SnapMean

Next == \/ \E v \in Samples : Record(v)
        \/ \E u \in {"bucket", "count", "sum", "max"} : Update(u)
        \/ Snapshot

Spec == Init /\ [][Next]_vars
-----------------------------------------------------------------------------
(* Properties                                                              *)

\* bucket_of and value_of keep their promise for every value of the range:
\* the bucket exists, small values are exact, the midpoint is within half a
\* sub-bucket (a relative error of 1 / 2^(kSubBits + 1)), and a larger
\* value never lands in a lower bucket.
InRange == 0 .. 2^kMaxOctave - 1
Distance(x, y) == IF x >= y THEN x - y ELSE y - x
BucketsFaithful ==
    \A v \in InRange :
        LET error == Distance(v, value_of(bucket_of(v)))
        IN  /\ bucket_of(v) \in Buckets
            /\ v < kLinear => error = 0
            /\ error * 2 * kSub <= v
            /\ v > 0 => bucket_of(v - 1) <= bucket_of(v)

(* The reference: the k-th smallest of all samples                         *)
Below(x) == Cardinality({j \in DOMAIN recorded : recorded[j] < x})
UpTo(x) == Cardinality({j \in DOMAIN recorded : recorded[j] <= x})
KthSmallest(k) ==
    CHOOSE x \in {recorded[j] : j \in DOMAIN recorded} : Below(x) < k /\ k <= UpTo(x)
Exact(p, num, den) ==
    LET k == (Len(recorded) * num) \div den
    IN  k >= 1 => p = value_of(bucket_of(KthSmallest(k)))

\* A snapshot that no record overlaps is exact: it counts every sample, its
\* mean and maximum are those of the samples, and each percentile is the
\* bucket of the sample whose rank is floor(total * p).  When that is 0, as
\* for a single sample, no sample has the rank and the code returns 0.
CleanSnapshotExact ==
    spc = "idle" /\ clean /\ snap # NoSnapshot =>
        /\ snap.count = Len(recorded)
        /\ snap.mean = MapThenSumSet(LAMBDA j : recorded[j], DOMAIN recorded)
                       \div Len(recorded)
        /\ snap.max = Max({recorded[j] : j \in DOMAIN recorded})
        /\ Exact(snap.p50, 50, 100)
        /\ Exact(snap.p99, 99, 100)
        /\ Exact(snap.p999, 999, 1000)

\* A snapshot taken while the gateway records misses at most the samples
\* that were not finished when it began, and invents none.
SnapshotBetween ==
    spc = "idle" => before <= snap.count /\ snap.count <= Len(recorded)

\* The counters a scraper sees never go back from one page to the next.
PagesMonotone ==
    [][snap'.count >= snap.count /\ snap'.max >= snap.max]_snap

(* What the comments say                                                   *)

\* hist.hpp:42, the sub-bucket is in "0..kSub-1", so the bucket exists.
BucketExists == bucket_of(ns) \in Buckets
=============================================================================
