------------------------------ MODULE SpscRing -------------------------------
(***************************************************************************)
(* ts::SpscRing<T, Capacity> (include/spsc.hpp): the lock-free ring that   *)
(* joins two pipeline threads.  One producer thread calls try_push, one    *)
(* consumer thread calls try_pop and size_approx; each memory access that  *)
(* the other thread can observe is a step of its own.                      *)
(*                                                                         *)
(* The indices are free-running size_t counters that wrap.  An atomic load *)
(* of the other thread's index returns any value that per-location         *)
(* coherence allows: not older than the last one this thread saw, possibly *)
(* older than the current one.                                             *)
(*                                                                         *)
(* pSync and cSync are history variables.  pSync is the newest head_ whose *)
(* release store synchronises with the producer: the consumer's reads of   *)
(* every earlier slot happen before what the producer does next.  cSync is *)
(* the same for the consumer and the producer's writes.                    *)
(***************************************************************************)
EXTENDS Integers, Sequences

CONSTANTS Capacity,   \* template parameter: number of slots
          Laps,       \* 2^64 \div Capacity: laps of the buffer before size_t wraps
          Item,       \* payloads
          NoItem      \* value-initialised payload, T{}

ASSUME CapacityAssumption == Capacity \in Nat \ {0}
ASSUME LapsAssumption == Laps \in Nat \ {0, 1}
ASSUME NoItemAssumption == NoItem \notin Item

VARIABLES tail_,        \* atomic, written by the producer only
          head_cache_,  \* the producer's last view of head_
          head_,        \* atomic, written by the consumer only
          tail_cache_,  \* the consumer's last view of tail_
          buf_,         \* the slots
          ppc, item,    \* the producer: where in try_push, and its argument
          cpc, out,     \* the consumer: where in try_pop, and its out argument
          approx,       \* what the consumer's last size_approx returned
          pSync, cSync  \* history: see above

producerVars == <<tail_, head_cache_, ppc, item, pSync>>
consumerVars == <<head_, tail_cache_, cpc, out, approx, cSync>>
vars == <<tail_, head_cache_, head_, tail_cache_, buf_,
          ppc, item, cpc, out, approx, pSync, cSync>>
-----------------------------------------------------------------------------
(* size_t arithmetic                                                       *)

IndexMod == Laps * Capacity
Index == 0 .. IndexMod - 1

\* a - b on indices: unsigned subtraction wraps
Sub(a, b) == IF a >= b THEN a - b ELSE a - b + IndexMod

\* a + k on indices, k at most one wrap away
Add(a, k) == IF a + k >= IndexMod THEN a + k - IndexMod ELSE a + k

\* i & kMask; Capacity is a power of two, so the mask is a remainder
Slot(i) == i % Capacity

\* What an atomic load may return when this thread last saw `seen` and the
\* location now holds `current`.
Coherent(seen, current) == {v \in Index : Sub(v, seen) <= Sub(current, seen)}

\* An acquire load that returns v synchronises with the release store of v;
\* a relaxed one would leave the thread's knowledge as it was.
AcquireRelaxed(sync, v) == sync
Acquire(sync, v) == v
-----------------------------------------------------------------------------
Init == /\ tail_ = 0 /\ head_cache_ = 0
        /\ head_ = 0 /\ tail_cache_ = 0
        /\ buf_ = [s \in 0 .. Capacity - 1 |-> NoItem]
        /\ ppc = "idle" /\ item = NoItem
        /\ cpc = "idle" /\ out = NoItem
        /\ approx = 0
        /\ pSync = 0 /\ cSync = 0

(* try_push                                                                *)

\* The full test, off by one
FullLate(t, h) == Sub(t, h) = Capacity + 1

\* t - head_cache_ == Capacity
Full(t, h) == Sub(t, h) = Capacity

\* try_push(i) up to its first test: the cached head decides whether the
\* shared one is read at all.
PushBegin(i) ==
    /\ ppc = "idle"
    /\ item' = i
    /\ ppc' = IF Full(tail_, head_cache_) THEN "refresh" ELSE "write"
    /\ UNCHANGED <<tail_, head_cache_, pSync, buf_, consumerVars>>

\* A refresh whose result is never stored in head_cache_
PushRefreshForgotten ==
    /\ ppc = "refresh"
    /\ ppc' = IF Full(tail_, head_cache_) THEN "idle" ELSE "write"
    /\ UNCHANGED <<tail_, head_cache_, item, pSync, buf_, consumerVars>>

\* head_cache_ = head_.load(acquire); still full: return false.
PushRefresh ==
    /\ ppc = "refresh"
    /\ \E h \in Coherent(head_cache_, head_) :
          /\ head_cache_' = h
          /\ pSync' = Acquire(pSync, h)
          /\ ppc' = IF Full(tail_, h) THEN "idle" ELSE "write"
    /\ UNCHANGED <<tail_, item, buf_, consumerVars>>

\* A publication that overtakes the write of the slot
PublishFirst ==
    /\ ppc = "write"
    /\ tail_' = Add(tail_, 1)
    /\ ppc' = "idle"
    /\ buf_' = [buf_ EXCEPT ![Slot(tail_)] = NoItem]
    /\ UNCHANGED <<head_cache_, item, pSync, consumerVars>>

\* buf_[t & kMask] = item
PushWrite ==
    /\ ppc = "write"
    /\ buf_' = [buf_ EXCEPT ![Slot(tail_)] = item]
    /\ ppc' = "publish"
    /\ UNCHANGED <<tail_, head_cache_, item, pSync, consumerVars>>

\* A counter that is never reduced to its width
PublishNoWrap ==
    /\ ppc = "publish"
    /\ tail_' = tail_ + 1
    /\ ppc' = "idle"
    /\ UNCHANGED <<head_cache_, item, pSync, buf_, consumerVars>>

\* tail_.store(t + 1, release); return true
PushPublish ==
    /\ ppc = "publish"
    /\ tail_' = Add(tail_, 1)
    /\ ppc' = "idle"
    /\ UNCHANGED <<head_cache_, item, pSync, buf_, consumerVars>>
-----------------------------------------------------------------------------
(* try_pop                                                                 *)

PopBegin ==
    /\ cpc = "idle"
    /\ cpc' = IF head_ = tail_cache_ THEN "refresh" ELSE "read"
    /\ UNCHANGED <<head_, tail_cache_, out, approx, cSync, buf_, producerVars>>

\* A refresh that never looks at what it loaded
PopRefreshUnchecked ==
    /\ cpc = "refresh"
    /\ \E t \in Coherent(tail_cache_, tail_) :
          /\ tail_cache_' = t
          /\ cSync' = Acquire(cSync, t)
          /\ cpc' = "read"
    /\ UNCHANGED <<head_, out, approx, buf_, producerVars>>

\* A refresh whose result is never stored in tail_cache_
PopRefreshForgotten ==
    /\ cpc = "refresh"
    /\ cpc' = IF head_ = tail_cache_ THEN "idle" ELSE "read"
    /\ UNCHANGED <<head_, tail_cache_, out, approx, cSync, buf_, producerVars>>

\* tail_cache_ = tail_.load(acquire); still empty: return false.
PopRefresh ==
    /\ cpc = "refresh"
    /\ \E t \in Coherent(tail_cache_, tail_) :
          /\ tail_cache_' = t
          /\ cSync' = Acquire(cSync, t)
          /\ cpc' = IF head_ = t THEN "idle" ELSE "read"
    /\ UNCHANGED <<head_, out, approx, buf_, producerVars>>

\* The slot is handed back before it is read
FreeFirst ==
    /\ cpc = "read"
    /\ head_' = Add(head_, 1)
    /\ cpc' = "idle"
    /\ \E s \in 0 .. Capacity - 1 : out' = buf_[s]
    /\ UNCHANGED <<tail_cache_, approx, cSync, buf_, producerVars>>

\* out = buf_[h & kMask]
PopRead ==
    /\ cpc = "read"
    /\ out' = buf_[Slot(head_)]
    /\ cpc' = "free"
    /\ UNCHANGED <<head_, tail_cache_, approx, cSync, buf_, producerVars>>

\* head_.store(h + 1, release); return true
PopFree ==
    /\ cpc = "free"
    /\ head_' = Add(head_, 1)
    /\ cpc' = "idle"
    /\ UNCHANGED <<tail_cache_, out, approx, cSync, buf_, producerVars>>

\* size_approx() as run_logger uses it: called by the consumer between two
\* pops, so head_ is its own and only tail_ may be stale.
SizeApprox ==
    /\ cpc = "idle"
    /\ \E t \in Coherent(tail_cache_, tail_) : approx' = Sub(t, head_)
    /\ UNCHANGED <<head_, tail_cache_, cpc, out, cSync, buf_, producerVars>>
-----------------------------------------------------------------------------
Push == \/ \E i \in Item : PushBegin(i)
        \/ PushRefresh
        \/ PushWrite
        \/ PushPublish

Pop == PopBegin \/ PopRefresh \/ PopRead \/ PopFree

Next == Push \/ Pop \/ SizeApprox

Spec == Init /\ [][Next]_vars

(* Both callers poll in a loop (run_strategy, run_gateway, run_logger), so *)
(* a thread inside a call goes on, and the consumer keeps calling try_pop. *)
(* A store becomes visible to the other thread in finite time: a load that *)
(* is repeated for ever is not stale for ever.                             *)
PushRefreshFresh == PushRefresh /\ head_cache_' = head_
PopRefreshFresh == PopRefresh /\ tail_cache_' = tail_

Fairness ==
    /\ WF_vars(PushRefresh) /\ WF_vars(PushWrite) /\ WF_vars(PushPublish)
    /\ WF_vars(Pop)
    /\ SF_vars(PushRefreshFresh) /\ SF_vars(PopRefreshFresh)

FairSpec == Spec /\ Fairness
-----------------------------------------------------------------------------
(* Properties                                                              *)

\* Types: the indices stay inside size_t, the slots hold payloads.
TypeOK ==
    /\ {tail_, head_cache_, head_, tail_cache_, pSync, cSync} \subseteq Index
    /\ buf_ \in [0 .. Capacity - 1 -> Item \cup {NoItem}]
    /\ ppc \in {"idle", "refresh", "write", "publish"}
    /\ cpc \in {"idle", "refresh", "read", "free"}
    /\ item \in Item \cup {NoItem}
    /\ out \in Item \cup {NoItem}
    /\ approx \in Index

\* spsc.hpp has no lock, so its correctness is that every two conflicting
\* accesses to a slot are ordered by an acquire that saw the other thread's
\* release: the producer writes slot t only after it synchronised with the
\* pop of item t - Capacity, the consumer reads slot h only after it
\* synchronised with the publication of item h; they never touch one slot
\* at the same time.
NoDataRace ==
    /\ ppc = "write" => Sub(tail_, pSync) < Capacity
    /\ cpc = "read" => Sub(cSync, head_) \in 1 .. Capacity
    /\ ~(ppc = "write" /\ cpc = "read" /\ Slot(tail_) = Slot(head_))

\* The four indices go round the ring in a fixed order, and even the
\* producer's stale view of the ring never shows more than Capacity items.
IndicesOrdered ==
    /\ Sub(tail_, head_cache_) = Sub(tail_, tail_cache_)
                                 + Sub(tail_cache_, head_)
                                 + Sub(head_, head_cache_)
    /\ Sub(tail_, head_cache_) <= Capacity

\* What each thread has established at each point inside a call.
ProducerLocal ==
    /\ ppc = "refresh" => Full(tail_, head_cache_)
    /\ ppc \in {"write", "publish"} => ~Full(tail_, head_cache_)
    /\ ppc = "publish" => buf_[Slot(tail_)] = item
    /\ ppc # "idle" => item \in Item

ConsumerLocal ==
    /\ cpc = "refresh" => head_ = tail_cache_
    /\ cpc \in {"read", "free"} => head_ # tail_cache_
    /\ cpc = "free" => out = buf_[Slot(head_)]

\* A thread knows exactly what its cached index says.
SyncIsCache == pSync = head_cache_ /\ cSync = tail_cache_

\* The inductive invariant of the ring (spsc.hpp, try_push and try_pop).
RingInv == /\ IndicesOrdered
           /\ ProducerLocal
           /\ ConsumerLocal
           /\ SyncIsCache

\* size_approx subtracts two separately loaded unsigned counters; as the
\* logger calls it, it never underflows to a huge count and never reports
\* items that were not pushed.
SizeApproxSound == approx <= Capacity

(* The ring implements the abstract queue.  An item joins the queue when   *)
(* tail_ is published and leaves it when the consumer has copied it out.   *)
Taken == IF cpc = "free" THEN Add(head_, 1) ELSE head_
Contents == [i \in 1 .. Sub(tail_, Taken) |-> buf_[Slot(Add(Taken, i - 1))]]

Fifo == INSTANCE BoundedFifo WITH q <- Contents, out <- out

\* try_push and try_pop implement a FIFO queue of Capacity items: nothing is
\* lost, duplicated, reordered, invented or torn.
ImplementsFifo == Fifo!Spec

\* A consumer that keeps polling pops every item, however stale its loads.
ImplementsFairFifo == Fifo!FairSpec

\* A producer that keeps retrying try_push is not refused for ever by its
\* cached head_ while the consumer polls: the spin loops of
\* run_market_data and run_strategy end.
PushNotStarved ==
    []<><<\E i \in Item : PushBegin(i)>>_vars => []<><<PushPublish>>_vars
=============================================================================
