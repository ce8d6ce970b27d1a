# A TLA+ model of the trading engine

The repository holds a C++20 trading engine, the mock exchange it trades with
and the Ansible roles that install both on a tuned Linux machine. This
directory holds TLA+ modules for the parts with interesting behaviour, TLC
configurations that check them on small instances, and TLAPS proofs of the
theorems that matter most for every size.

All C++ paths below are relative to `roles/trading-app-deploy/files/cpp/`.

## 1. The system

| Part | State | Operations | Talks to |
|---|---|---|---|
| SPSC ring (`include/spsc.hpp`) | slots, `tail_`, `head_`, and each thread's cached copy of the other's index | `try_push`, `try_pop`, `size_approx` | one producer thread, one consumer thread; no lock |
| Market data (`run_market_data`) | `seq`, `sym`, the pace | stamp a tick, push it, spin while ring1 is full | ring1 |
| Strategy (`run_strategy`, `include/strategy.hpp`) | `clordid`, a scratch object of the pool | pop a tick, decide, encode, push the order | ring1, pool, ring2 |
| Gateway (`run_gateway`) | `pending[]`, `orders`, `fills`, two histograms, a framer | pop and send an order, log it; read and match fills | ring2, ring3, the TCP connection |
| Logger (`run_logger`) | the log file | drain ring3 | ring3 |
| Metrics (`run_metrics`) | the clients that wait | accept, read, snapshot both histograms, reply | histograms, HTTP clients |
| Main | `g_running` | logon, start threads, join them, close | everything |
| Exchange (`src/exchange_main.cpp`) | `seq`, a framer, `g_run` | accept one client at a time, ack a logon, fill every order | the TCP connection |
| Histogram (`include/hist.hpp`) | buckets, count, sum, max, all relaxed atomics | `record` (gateway), `snapshot` (metrics) | two threads, no lock |
| FIX codec (`include/fix.hpp`) | the Builder's body, the Framer's buffer | `add`, `finalize`, `get`, `append`, `next` | strategy, gateway, exchange |
| Object pool (`include/pool.hpp`) | slots, a free list through the free ones | `acquire`, `release` | strategy |
| Flat hash map (`include/flatmap.hpp`) | slots, `size_` | `put`, `get` | the benchmark |
| Arenas (`include/bump.hpp`, `include/huge.hpp`) | a region, an offset | constructor with fallbacks, `alloc`, `reset` | `main`, at start-up |
| TSC clock (`include/tsc.hpp`) | ns per tick | `calibrate`, `ticks_to_ns` | market data, gateway |
| Affinity (`include/affinity.hpp`, `setup_core`) | each thread's mask and policy | pin, verify, go real-time | the hot threads of both programs |
| systemd units, BOD script, CPU tuning, netdata plugin, roles | the machine's | | the programs from outside |

What is hard about it:

* **Memory order.** The rings synchronise with acquire and release only, decide
  full and empty on cached indices, and let their indices wrap.
* **Two processes that send without reading.** `send_all` spins on a full
  socket buffer and the exchange blocks on one; neither reads meanwhile.
* **Matching by id.** A fill finds its tick through `clordid & 4095` in an
  array that nothing clears.
* **Shutdown at any moment.** Five threads poll one flag; the producer of a
  full ring may outlive its consumer, the logger may leave before the gateway.
* **Snapshots without a lock** of two thousand counters that change meanwhile.
* **A byte stream** cut anywhere by partial writes and short reads.
* **One thread for all scrapes.** The metrics thread serves its clients in
  turn, and `main` joins it: whatever a client does not send holds up both.
* **Start-up that may half fail.** No huge pages, a core offline, no capability,
  a port in use: each has its fallback, and the rest goes on.
* **Long runs.** Ids grow by a digit, indices wrap, latencies pass the range of
  the histogram.

`PROJECT.json` lists these hazards at their lines with the properties that
would notice each going wrong.

## 2. Modules

| Module | Models | Notes |
|---|---|---|
| `BoundedFifo` | what a ring promises | a bounded queue; Put and Get, with fairness |
| `SpscRing` | `SpscRing<T, N>` | one action per memory access |
| `SpscRing_proofs` | | theorems about `SpscRing` |
| `TradingEngine` | the pipeline and the exchange's handler | uses `BoundedFifo`'s behaviour for its rings |
| `TradingEngine_proofs` | | theorems about `TradingEngine` |
| `Histogram` | `Histogram` | arithmetic, and record against snapshot |
| `Histogram_proofs` | | theorems about both, and the laws of sums over finite sets |
| `FixCodec` | `Builder`, `View`, `Framer` | operators on byte sequences |
| `FixWire` | `send_all`, recv and `Framer` | one direction of the connection, in bytes |
| `FixSession` | `main` of both programs, `do_logon`, the systemd units | connect, logon, crashes, restarts, stops |
| `MetricsServer` | `run_metrics` and its clients | composed with `FixSession`: the engine as a unit |
| `MetricsServer_proofs` | | theorems about the session and the unit |
| `StartUp` | `main` before the logon | composes `Arena` and `Cores` |
| `Cores` | `setup_core`, the exchange's copy of it, the options | the hot threads of both programs |
| `Arena` | `BumpAllocator`, `HugeArena::alloc` | sums modulo 2^w |
| `Clock` | `TscClock`, the pacing of `run_market_data` | time passes between any two steps |
| `ObjectPool`, `ResourcePool` | `ObjectPool<T, N>` and what it promises | a refinement |
| `FlatMap`, `BoundedMap` | `FlatMap<V, Cap>` and what it promises | a refinement |
| `Components_proofs` | | theorems about the pool, the map, `Clock`, `StartUp`, `Arena` and `Cores` |
| `OrderEncoding` | tick, order, report, fill as data | one order through both programs |
| `FixCodec_proofs` | | what the operators of `FixCodec` compute, for every input |
| `FixMessages_proofs` | | theorems about `FixWire` and `OrderEncoding` |
| `NaturalFacts` | | least elements, induction and recursion on numbers, division, powers of two |
| `MC...` | | constants for TLC |

In each module an operator whose comment describes a slip ("the sum left out",
"the mask of half the capacity") stands right before the definition it is a
wrong version of. None of them is part of a specification; they exist to show
that the properties can fail.

### SpscRing

`try_push` is PushBegin (load `tail_`, test the cached head), PushRefresh
(acquire-load `head_`, test again), PushWrite (copy the payload), PushPublish
(release-store `tail_`); `try_pop` mirrors it. An acquire load may return any
value of the index that is not older than what the thread has already seen
(`Coherent`). `pSync` and `cSync` are ghosts: how far a thread has synchronised
with the other, in the sense of happens-before. NoDataRace says that a slot
access is ordered with the other thread's last conflicting access. Indices are
numbers modulo `IndexMod`, a multiple of the capacity as 2^64 is.

The refinement mapping takes the queue to be the slots from the first one that
was not copied out yet to the published tail, so PushPublish is Put, PopRead is
Get, and every other step is a stutter.

### TradingEngine

Each thread has a program counter and one action for each part of its loop that
another thread can get in between. A tick is its stamp, an order its id and its
tick's stamp. The two directions of the TCP connection are bounded sequences of
messages; `recv` returns any batch up to a bound. `GwSend` is `send_all` with
the counter behind it: not enabled while the buffer is full, so the gateway
stays there whatever `g_running` says. `GwPeerClosed` and `GwExit` end the
thread. SIGTERM may reach either process at any state.

`g_running` is tested in a step of its own where the next step depends on
another thread (StTest, GwTest), so an order can still be popped after the
signal.

Left out on purpose: retries of a failed call; the metrics thread's
page (it changes no state, and its snapshot is `Histogram`'s subject); the
logon, which has happened (see `FixSession`); the contents of messages, which is
`OrderEncoding`'s subject. A push is refused only when the ring is full:
between a pop and the moment the producer sees it, the code refuses a little
longer, which is a polling step more.

Two premises about the platform. `GwNothing` (EAGAIN) finds no reply anywhere
between the exchange and the gateway. On loopback, which the units use, `send`
leaves the reply in the receiver's queue. With a delay on the way
(`scripts/latency_demo.sh` puts netem on the interface) or a remote `--exch-ip`,
`recv` may find nothing while replies are in transit; then the bounds that
`FlowInv`, `NoMutualBlock` and `FillMatchesItsTick` have grow by the number of
those replies. And `LgExit` tests for an empty ring where the code calls
`size_approx`. The logger is the consumer, so only `tail_` can be behind
(`SizeApproxSound`: the difference is never negative). On x86 a relaxed load
returns what is in memory, and a `tail_` still in the gateway's store buffer is
a `GwLog` after `LgExit`, which the model has. A machine with weaker ordering
could let the logger leave over an event that was there before the signal.

### Histogram

`record` is split into its four relaxed updates, which may become visible in
any order; the next record starts after them. (The build is for x86, where
atomic read-modify-writes are visible in program order; the model allows more.)
`snapshot` reads one bucket per step, then the maximum, then the sum.
`percentile` multiplies with a ratio of integers; the code's `double` gives the
same floor for every total below 2^50 or so, up to the rounding of 0.99 and
0.999.

### FixSession

`en` and `ex` say where each program is, or its unit when it is not running:
"down" (to be started, at boot or after `RestartSec`) or "stopped". `line` is
the connection being served with the backlog behind it, `inbox` what the
exchange sent and the engine has not read. The pipeline is reduced to orders
out and fills in (`EnOrder`, `EnFill`). `enWanted` is whether the engine's unit
is to run, `enRun` the `g_running` of its process. A failed exit or a SIGKILL
leads to "down" because of `Restart=on-failure`, an operator's stop to
"stopped".

`Requires=` and `After=` tie the units together in three ways. The engine is
stopped before the exchange is (`ExStop`), the exchange is started with the
engine and before it (`UnitStart`, `EnStart`; started, with `Type=simple`, is
not listening yet), and a restart of the exchange restarts the engine, that
after a crash included: systemd stops the engine if it is up (`ExRestart`,
SIGTERM), starts the exchange once it has ended (`ExStart`), then the engine
again. This is what heals `EnDeaf`: when the exchange is gone the gateway thread
ends, nothing sets `g_running`, and the process stays up without a connection,
which systemd would not notice. An exchange that cannot listen exits and is
restarted in the same way (`ExListenFails`). A signal does not interrupt `recv`
(`std::signal` restarts it). Left out: systemd's start limit, which the two seconds between attempts do not
reach; the SIGKILL after its stop timeout, which `StopCompletes` shows is not
needed; a SIGTERM that is not a unit's stop.

### MetricsServer

`mx` says where the metrics thread is, `page` holds its connections: the
accepted one, then the accept queue. The thread starts with the pipeline
(`UnitLogon`) and `main` can leave only when it has ended (`UnitExit`), so
`StopCompletes` is about this thread as well. `MxRecvTimeout` is the point of
the module: the timeout was set on the listening socket, to bound `accept`, and
Linux copies it to accepted sockets. Without that step a client that connects
and sends nothing blocks every scrape and the shutdown. `MxListen` may fail, and
then the engine trades without a page. Clients ask or stay silent, give up
whenever they like (the plugin after a second) and come back. The page is not
data here; a deaf engine serves it like any other.

### StartUp, Cores, Arena, Clock

`HugeArena` is the constructor with its three outcomes, `Place` the allocation
in it, `NewHotState` the heap. `Cores` starts with any of the options, any one
of the hot cores offline and with or without the capability. A pin fails if
the core is offline; `Elevate` is `affinity_is` and `set_realtime`. The
exchange's handler is a new thread for each client and sets itself up again.
Each option is given at most once. The configured cores are distinct and not
housekeeping cores (`CoresAssumption`, the deployment's defaults): the code
does not check it, and with `--md-cpu=3` pin, verification and SCHED_FIFO all
succeed on a housekeeping core.

`Arena` keeps the width of `size_t`: a request near 2^w would wrap past the test
of the size, and no caller makes one. `Clock` counts in ticks, with a wall clock
of 1 ns that is a fixed multiple of them; `ns_per_tick_` is a ratio of integers,
and the rounding of doubles is left out. `nanosleep` sleeps its time: a signal
could cut it short, and is then the one that stops the engine.

### ObjectPool, FlatMap

A slot of the pool is a link or an object, and nothing in it says which; holders
may write anything to what they hold. Callers release what they acquired, once.
The map's hash is exact: for a capacity of 2^b, `(k * M >> 1) & mask` depends on
the low b + 1 bits of k and M only; so TLC, which has 32-bit integers, gets the
low 16 bits of M. (The comment above `hash` says that it takes
the top bits; it takes the low ones.)

### FixCodec, FixWire, OrderEncoding

Bytes are numbers. `frame` is `Framer::next`, `get` is `View::get`, `finalize`
is `Builder::reset`, `add` and `finalize` in one. `FixWire` sends messages with
every sequence of partial writes and reads them in every sequence of chunks.
`MessageAssumption` is what the programs give the Builder: `encode_nos`, the
exchange's report and the logon use each tag once and neither 8 nor 9, and their
values are numbers, symbols, time stamps and literals, or were read by `get`,
which stops at the separator; so no value contains one.
`OrderEncoding` follows single orders, in stretches around every change of the
number of digits of an id.

## 3. Runs

| Run | Configuration | Shows |
|---|---|---|
| ring | 2 slots, indices modulo 6, 2 payloads | no data race, `RingInv`, `size_approx` sound, the ring implements `BoundedFifo`; what is pushed is popped, a retrying producer gets in |
| engine_safety | 5 ticks, rings of 1, `pending` of 4, buffers of 1 and 2 messages, batches of 1 and 2 | `NothingLost`, `FlowInv`, `NoMutualBlock`, `FillMatchesItsTick`, `WarmupExcluded`, `LogDrained` |
| engine_liveness | 2 ticks, an empty pool, buffers of 1 and 2 | shutdown completes, ticks are filled, the exchange lets its client go |
| engine_pending_lapped | `pending` of 2 | violation: a fill timed from another tick |
| hist_snapshot | 2 sub-buckets, 4 octaves, 3 samples | snapshots exact or in between, pages monotone, bucket arithmetic |
| hist_range | a sample of 2^kMaxOctave | violation: a bucket behind the array |
| fix_stream | 3 messages of 26 and 36 bytes, buffer of 35, recv of 30 | the framer returns what was sent, at once |
| engine_unit | 1 kill of each program, for the exchange or a failed listen, 2 stops and starts, 1 probe, a backlog of 2, one client that asks and one that does not | the logon loses nothing, who trades is served, every crash heals, stops complete, scrapes are answered or cut off |
| components | a pool of 4, a map of 4 for 6 keys, regions of 13 bytes, a counter up to 14 | `ObjectPool` implements `ResourcePool`, `FlatMap` implements `BoundedMap`; blocks aligned and apart; latencies not flattered, no tick owed |
| startup | 4 hot threads, 2 others, 6 cores | the gauge is honest, a FIFO thread is on its own core, nobody is starved |
| order_roundtrip | 24 orders at each of 7 places below id 10^7 | fields survive, messages well formed |
| order_too_long | ids from 10^7 | violation: one byte too long |

**Bounds.** Rings of one slot make every producer wait for its consumer, and
with buffers of one and two messages the gateway waits for the exchange; five
ticks fill the connection and both hands around ring2 and lap `pending[]` of
four slots once; two ticks are enough for a thread to wait, at shutdown, on a
ring whose consumer has left. The ring run takes its indices three times around
the array and around their own modulus; other capacities are the proofs'
business. One kill lets a restarted engine meet its own predecessor in the
backlog, a kill of each program crosses the two recoveries, and the backlog has
room for a probe beside both. Two clients of the metrics page are enough for a
silent one to stand before one that asks, and to come back behind it. Six keys,
three of them with one home slot near the end of the array, overflow a map of four
slots and probe around its end; a pool of four has free lists in every order.
A counter up to 14 leaves room for a delay of up to 8 ticks in the calibration or
two periods of lateness in the pacing.
`MaxTicks`, `MaxRecords`, `MaxSent`, `Stretch`, `MaxOut`, `MaxKills`,
`MaxStops`, `MaxProbes`, `MaxTsc` and `MaxMade` are bounds of the model only;
all the others are parameters of the code. The components run starts in one of
its parts and stays there.

**Sizes that matter.** `FillMatchesItsTick` needs `PendingCap >= OutCap +
ExBatch + 1` and `NoMutualBlock` needs `InCap > ExBatch`. The deployed values
satisfy the second by far (a 4096-byte `recv` against buffers that the
kernel-tuning role lets grow to 16 MB) and not the first (4096 slots against
tens of thousands of buffered orders); `engine_pending_lapped` shows what
happens.

**Fairness.** Weak fairness of each thread, taken as a whole: hot threads spin
on cores of their own, the others sleep and wake on the housekeeping cores
(`NobodyStarved` is the part of this that the code is responsible for), and
a peer that is not blocked gets to its next `recv`. Signals, kills, failed
listens, starts by an operator, probes and the clients of the metrics page are
not fair; systemd's restarts are, the one that a restart of the exchange carries
to the engine included. In the ring, a thread's loads are not stale for ever. No
fairness is assumed of the way a stage serves its inputs.

## 4. Proofs

`SpscRing_proofs`, for every capacity, every index modulus that is a multiple
of it and every set of payloads:

* `TypeCorrect`: `Spec => []TypeOK`.
* `RingInvariant`: `Spec => []RingInv`. `RingInv` is the inductive invariant:
  modulo wrapping, the producer's cached head, the head, the consumer's cached
  tail and the tail lie in this order within one lap; what each thread has in
  hand is the slot's content; and a thread has synchronised exactly up to its
  cached index. The absence of races alone is not inductive: that the cached
  head is not ahead of the real one is what makes PushWrite safe.
* `RaceFreedom`: `Spec => []NoDataRace`, from `RingInv`.
* `SizeApproxCorrect`: `Spec => []SizeApproxSound`.
* `RingRefinesFifo`: `Spec => ImplementsFifo`, step by step under the mapping.

The arithmetic on wrapped differences is in lemmas of its own (`Sub` and `Add`
undo one another, slots of different positions within a lap differ).

`TradingEngine_proofs`, for all capacities, buffer sizes and batch sizes:

* `FlowInvariant`: `Spec => []FlowInv`. What is outstanding never exceeds the
  buffer to the exchange plus one batch plus the order just sent. Inductive
  because the gateway reads once after each order, so what it adds it takes out
  again or finds nothing to take, and because the exchange answers a batch
  before it reads the next.
* `NeverBothBlocked`: `Spec => []NoMutualBlock`, from it and `InCap > ExBatch`.
* `PipelineInvariant`: `Spec => []PipelineInv`, the inductive invariant from
  which the rest follows. It divides the round trip at the threads and relates
  each stretch to a counter: ring1 holds the ticks behind `clordid`
  (`TicksInOrder`), ring2 the orders behind the gateway's last (`OrdersInOrder`),
  the way back the fills behind the last counted (`FillsInOrder`), and, while
  both processes are up, exchange and socket exactly what is in between
  (`NothingDropped`). The histograms agree with the ids (`Counted`), a logger
  that is gone has at most the gateway's last order left (`LastEvent`), and
  `pending[]` holds the stamps of the last `PendingCap` orders (`PendingKept`),
  which are never further ahead of the fills than buffer, batch and one order
  (`WindowBounded`). `NothingLost` alone is not inductive: it does not say how
  the threads' counters and program counters relate to the queues, and the next
  id depends on them.
* `NothingIsLost`, `TypeCorrect`, `WarmupIsExcluded`, `LogIsDrained`.
* `FillsMatch`: `Spec => []FillMatchesItsTick` under the hypothesis `PendingCap
  >= OutCap + ExBatch + 1`, which `engine_safety` satisfies with slack and
  `engine_pending_lapped` breaks. By `WindowBounded` a fill is for one of
  the last `OutCap + ExBatch + 1` orders, whose slots are still theirs.

`MetricsServer_proofs`, for every backlog, any number of kills, stops and
probes and any clients:

* `SessionInvariant`: `Spec => []SessionInv` (of `FixSession`). At each stage of
  the engine's `main` it says what of the engine is in the line and the inbox:
  nothing before the logon, then the logon or its answer, then orders and fills.
  The point is the answer: it exists only once the handler serves this very
  connection, so a stale connection in front of it cannot matter any more.
* `UnitTypeCorrect`, `NothingIsDiscarded`, `TradingIsServed`: over `UnitSpec`,
  whose steps are steps of the session or leave it alone (`UnitSteps`).

`Histogram_proofs`, for every `kSubBits` and `kMaxOctave`:

* `BucketsAreFaithful`: `BucketsFaithful`, a fact about all values below
  2^kMaxOctave. A value of octave o is written as 2^o + q w + r with q below
  `kSub` and r below the width w; `bucket_of` keeps o and q, `value_of` gets
  them back and replaces r by w / 2. The laws of powers of two come from
  counting subsets (`PowerDoubles`).
* `SnapshotsAreBetween` and `PagesAreMonotone`, for samples within the range
  (`hist_range` shows what happens beyond it). A bucket is the number of visible
  records it belongs to (`RecordInv`); the loop's total is the size of some set
  of visible records of the buckets passed, with all that were visible at its
  start among them (`SnapshotInv`). Comparing with the records finished at the
  start, as `SnapshotBetween` does, would not do for monotone pages: the previous
  page may count a record that is still in progress.
* `CleanSnapshotsAreExact`: `Spec => []CleanSnapshotExact`, for samples within
  the range. `CleanSnapshotExact` speaks of finished snapshots only; inductive is
  `ExactInv`: `sum_` and `max_` are those of the records whose update is visible
  (`TotalsInv`), and as long as no record overlaps, what the reader has copied is
  what is there, its total the number of records in the buckets passed
  (`CleanInv`). Two facts stand behind it. A sum over a set does not depend on the
  order in which its elements are chosen (`FoldAdd`), so a record adds its value
  to the sum, and a bucket its count to the cumulative one (`SumAdd`). And the
  first bucket whose cumulative count reaches k is that of the k-th smallest
  record (`FirstHit`): buckets are in the order of the values (`BucketMonotone`),
  so up to that bucket there are at least the k records up to the value, and up
  to an earlier one at most those below it.

`FixMessages_proofs`, for every set of messages that satisfies
`MessageAssumption`, all sizes of buffers and reads, and, in `OrderEncoding`,
every order and sequence number:

* `FramesAreTheMessages`: `WireSpec => []FramesAreMessages`. The invariant
  (`WireInv`): the messages taken are the first ones posted, and what the framer
  holds, what is on the wire and what `send_all` has left are together exactly
  the bytes of the others, one behind the other (`OnTheWay`).
* `NothingIsHeldBack`: `WireSpec => []NothingHeldBack`, from the same invariant:
  the framer goes back to `recv` only with less than a message (`Waiting`).
* `OrderIsUnchanged`: `Spec => []OrderSurvives`. The invariant (`EncodingInv`)
  follows the one order: its price is within the band, the text is that of the
  order, the report carries its fields. It speaks of texts of any length; the
  code writes them to `fix_buf[112]` and `Order::fix[120]` and its behaviour is
  undefined beyond, so of the code it holds for the ids for which `OrderFits`
  does, those of at most seven digits.
* `MessagesAreWellFormed`: `Spec => []WellFormed`.

They rest on `FixCodec_proofs`, which says what the codec computes. `to_chars`,
`from_chars`, `FlattenSeq`, the checksum and the scan of `get` are recursive
functions; that such a recursion has a solution, and only one, is proved once
(`Recursion` of `NaturalFacts`), by induction in the form the provers can use:
a set that contains 0 and with each number the next (`SetInduction`). Then
`from_chars` undoes `to_chars` (`CharsRoundTrip`); a concatenation of parts has
each part at its offset (`FlattenJoins`); a finalized message has the shape the
framer goes by (`FinalizeShape`), so the framer takes a whole message whatever
follows it and no part of one (`FrameWhole`, `FramePart`); and `get`, which goes
from separator to separator, goes from field to field because no value contains
one, and so returns the value of the first field with the tag (`GetFirst`).

`Components_proofs`, about the pool and the map, for every size:

* `FreeListIsExact`: `PoolSpec => []FreeListExact`, which is inductive with the
  types: the list is a path through all free slots, and each operation makes the
  new path from the old one.
* `PoolRefines`: `PoolSpec => ImplementsPool`.
* `FlatMapRefines`: `MapSpec => ImplementsMap`, for every capacity of 2^0 to 2^63
  and every multiplier. The invariant: no key is stored
  twice, and no unused slot lies between a key's hash and its slot. `put` keeps
  it because it stops at the first unused slot and nothing is ever deleted; `get`
  is right because of it. The step that needs the least element of a set
  (`LeastNumber`) is that `put`, when it finds no place, has seen every slot.

About the start of the program:

* `BlocksAreSound`: for every width of `size_t` (the code's 64 bits are one),
  every region, all sizes and all powers of two as alignments, provided that no
  request can run over the end of the address space (`NoWrap`): blocks lie one
  behind the other below the offset.
* `GaugeIsHonest`: for all page sizes of which one divides the next, with any
  outcome of the two mappings; `main` always finds room in an arena it has.
* `FifoIsNailed`, `NobodyIsStarved`: for every set of cores and threads. A thread
  has the housekeeping cores or its own core, and a policy only on the latter
  (`CoresInv`).

About the clock, for every rate, period and delay:

* `LatenciesNotFlattered`: the sample is shorter than ns + 1 nanoseconds, because
  the wall clock's reads enclose the counter's (`CalibrationInv`).
* `RateIsKept`: ticks are due at multiples of the period from the start, and the
  last one was not made before it was due (`PaceInv`).

The theorems rest on the named assumptions of the modules' constants
(`CapacityAssumption`, `EngineAssumption` and so on), which TLC evaluates in the
runs, and on the hypotheses above.

Every invariant and every action property that a run checks is stated by a
theorem. Only model-checked: liveness, which is outside the prover
(`ShutdownCompletes`, `TicksAreFilled`, `ExchangeLetsGo`, `SelfHeals`,
`StopCompletes`, `ScrapesAnswered`, and the ring's `ImplementsFairFifo` and
`PushNotStarved`).

## 5. What the checks found

* `pending[]` can be lapped when the exchange stalls.
* `bucket_of` leaves the array for values of 2^40 ns and more, which a negative
  difference of two `rdtsc` readings also is.
* An encoded order can be longer than `OrderCtx::fix_buf`.

Seen while modelling, without a run of its own:

* An engine that loses the exchange stays up and trades nothing, and its unit
  has not failed. As deployed, the restart of the exchange takes it along
  (`SelfHeals`, whose mutant weakens `Requires=`); nothing in the program does.
* `/tmp/trading-engine.log` need not have "one line per order" (RUNBOOK.md): the
  logger may leave before the gateway's last event, and a full ring3 drops
  events (`GwLog`).
* `engine_orders_total`, "orders sent" (ProjectDeepDive.md), counts orders whose
  `send_all` found the exchange gone (`GwSend`).
* `percentile` rounds the rank down, so with a single sample every percentile
  is 0.
* Nothing keeps the configured cores apart or off the housekeeping cores, and
  `--rate=0`, or a rate that is no number, has no defined meaning.

## 6. Not modelled

The counter's instructions, `tsc_is_invariant`, `mlockall` and `madvise` (they
change nothing the programs see); the text of the metrics page; BinOrder,
`Histogram::reset`, `AffinityGuard` and the strong types `Price` and `Qty` (no
caller); the benchmarks and tests (no state of the system); the shell and Python
scripts but for the probe of the port and the plugin's scrape, and the roles
(sequential, declarative).

## 7. Plan

1. A property of what a full ring3 costs the log; today `GwLog` drops the event
   and nothing in the program counts the loss.
2. The composition of `SpscRing` with `TradingEngine` in place of the bounded
   queues: the refinement is proved, the substitution is by argument only.
