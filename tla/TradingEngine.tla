---------------------------- MODULE TradingEngine ----------------------------
(***************************************************************************)
(* The trading engine's pipeline (src/engine_main.cpp) and the connection  *)
(* handler of the mock exchange it trades with (src/exchange_main.cpp),    *)
(* from the logon onwards.  Threads: market-data -> ring1 -> strategy ->   *)
(* ring2 -> gateway -> ring3 -> logger; the gateway and the exchange's     *)
(* handler share one TCP connection.  Any thread may be between any two of *)
(* its steps when SIGTERM arrives at either process.                       *)
(*                                                                         *)
(* The rings are the bounded FIFO queues that SpscRing implements.  A tick *)
(* is its t0_tsc stamp, the value 0 being the zero that pending[] starts   *)
(* with; an order on a ring carries its id and its tick's stamp, on the    *)
(* wire only its id.  The socket buffers are counted in messages; a call   *)
(* that fails and is at once repeated is not a step.                       *)
(***************************************************************************)
EXTENDS Integers, Sequences

CONSTANTS MaxTicks,     \* bound: ticks generated
          RingCap,      \* ring_capacity()
          PendingCap,   \* pending_capacity(), size of HotState::pending
          PoolSize,     \* objects of HotState::pool
          Warmup,       \* kLimits.warmup_orders
          OutCap,       \* socket buffers engine -> exchange, in messages
          InCap,        \* socket buffers exchange -> engine, in messages
          ExBatch,      \* most messages one recv of the exchange returns
          GwBatch       \* most messages one recv of the gateway returns

ASSUME EngineAssumption ==
    /\ {MaxTicks, Warmup, PoolSize} \subseteq Nat
    /\ {RingCap, PendingCap, OutCap, InCap, ExBatch, GwBatch} \subseteq Nat \ {0}

\* The replies to one batch of orders fit in the buffer back to the engine
\* (one 4096-byte recv against hundreds of kilobytes of socket buffer).
ASSUME BufferAssumption == InCap > ExBatch

VARIABLES
    running,                           \* g_running
    mdPc, seq, ring1,                  \* run_market_data
    stPc, clordid, order, ctx, free, ring2,  \* run_strategy and the pool
    gwPc, nos, pending, orders, t2t,   \* run_gateway, sending side
    rx, fill, fills, rtt, ring3,       \* run_gateway, receiving side
    lgPc, logged,                      \* run_logger and its file
    mxPc,                              \* run_metrics
    engUp,                             \* the engine's end of the connection
    wireOut, wireIn,                   \* TCP, engine -> exchange and back
    exRun, exPc, exRx, exSeq, exUp     \* the exchange's handler

mdVars == <<mdPc, seq>>
stVars == <<stPc, clordid, order, ctx, free>>
txVars == <<nos, pending, orders, t2t>>
rxVars == <<rx, fill, fills, rtt>>
lgVars == <<lgPc, logged, mxPc>>
exVars == <<exRun, exPc, exRx, exSeq, exUp>>
wires == <<wireOut, wireIn>>
vars == <<running, mdVars, stVars, gwPc, txVars, rxVars, lgVars,
          ring1, ring2, ring3, engUp, wires, exVars>>

\* What a thread has no access to, rings and wires aside
notMd == <<running, stVars, gwPc, txVars, rxVars, lgVars, engUp, exVars>>
notSt == <<running, mdVars, gwPc, txVars, rxVars, lgVars, engUp, exVars>>
notGw == <<running, mdVars, stVars, lgVars, engUp, exVars>>
notLg == <<running, mdVars, stVars, gwPc, txVars, rxVars, engUp, exVars>>
notEx == <<running, mdVars, stVars, gwPc, txVars, rxVars, lgVars, engUp>>
rings == <<ring1, ring2, ring3>>

NoOrder == [id |-> 0, t0 |-> 0]

Init ==
    /\ running = TRUE
    /\ mdPc = "loop" /\ seq = 0 /\ ring1 = <<>>
    /\ stPc = "loop" /\ clordid = 1 /\ order = NoOrder
    /\ ctx = FALSE /\ free = PoolSize /\ ring2 = <<>>
    /\ gwPc = "loop" /\ nos = NoOrder /\ orders = 0 /\ t2t = 0
    /\ pending = [s \in 0 .. PendingCap - 1 |-> 0]
    /\ rx = <<>> /\ fill = NoOrder /\ fills = 0 /\ rtt = 0 /\ ring3 = <<>>
    /\ lgPc = "loop" /\ logged = <<>> /\ mxPc = "loop"
    /\ engUp = TRUE /\ wireOut = <<>> /\ wireIn = <<>>
    /\ exRun = TRUE /\ exPc = "test" /\ exRx = <<>> /\ exSeq = 2 /\ exUp = TRUE
-----------------------------------------------------------------------------
\* on_signal of the engine
EngSigterm ==
    /\ running
    /\ running' = FALSE
    /\ UNCHANGED <<mdVars, stVars, gwPc, txVars, rxVars, lgVars, rings, engUp, wires, exVars>>

(* run_market_data                                                         *)

\* The pace is due: stamp a tick, which is then in the thread's hands.
MdTick ==
    /\ mdPc = "loop" /\ running
    /\ seq < MaxTicks
    /\ mdPc' = "push"
    /\ UNCHANGED <<notMd, seq, rings, wires>>

\* try_push succeeds
MdPush ==
    /\ mdPc = "push"
    /\ Len(ring1) < RingCap
    /\ ring1' = Append(ring1, seq + 1)
    /\ seq' = seq + 1
    /\ mdPc' = "loop"
    /\ UNCHANGED <<notMd, ring2, ring3, wires>>

\* The spin loop ends at shutdown only: the tick is dropped.
MdGiveUp ==
    /\ mdPc = "push"
    /\ Len(ring1) = RingCap /\ ~running
    /\ seq' = seq + 1
    /\ mdPc' = "loop"
    /\ UNCHANGED <<notMd, rings, wires>>

MdExit ==
    /\ mdPc = "loop" /\ ~running
    /\ mdPc' = "done"
    /\ UNCHANGED <<notMd, seq, rings, wires>>

MarketData == MdTick \/ MdPush \/ MdGiveUp \/ MdExit
-----------------------------------------------------------------------------
(* run_strategy: every tick becomes one order                              *)

\* while (g_running): what is tested here may be over when the pop comes.
StTest ==
    /\ stPc = "loop" /\ running
    /\ stPc' = "pop"
    /\ UNCHANGED <<notSt, clordid, order, ctx, free, rings, wires>>

\* try_pop fails: continue
StRetry ==
    /\ stPc = "pop"
    /\ ring1 = <<>>
    /\ stPc' = "loop"
    /\ UNCHANGED <<notSt, clordid, order, ctx, free, rings, wires>>

\* Pop a tick, take a scratch context (or the stack buffer when the pool is
\* empty), decide and encode.
StPop ==
    /\ stPc = "pop"
    /\ ring1 # <<>>
    /\ ring1' = Tail(ring1)
    /\ order' = [id |-> clordid, t0 |-> Head(ring1)]
    /\ ctx' = (free > 0)
    /\ free' = IF free > 0 THEN free - 1 ELSE free
    /\ stPc' = "push"
    /\ UNCHANGED <<notSt, clordid, ring2, ring3, wires>>

\* The context is forgotten instead of released
StNextLeak ==
    /\ free' = free
    /\ ctx' = FALSE
    /\ clordid' = clordid + 1
    /\ stPc' = "loop"
    /\ UNCHANGED <<notSt, order, ring1, ring3, wires>>

\* After the push loop, whether it pushed or gave up
StNext ==
    /\ free' = IF ctx THEN free + 1 ELSE free
    /\ ctx' = FALSE
    /\ clordid' = clordid + 1
    /\ stPc' = "loop"
    /\ UNCHANGED <<notSt, order, ring1, ring3, wires>>

StPush ==
    /\ stPc = "push"
    /\ Len(ring2) < RingCap
    /\ ring2' = Append(ring2, order)
    /\ StNext

\* A full ring drops the order instead of being waited for
StDropWhenFull ==
    /\ stPc = "push"
    /\ Len(ring2) = RingCap
    /\ UNCHANGED ring2
    /\ StNext

\* The push loop does not look at g_running
StSpinForever ==
    /\ FALSE
    /\ UNCHANGED vars

\* The push loop ends at shutdown only: the order is dropped.
StGiveUp ==
    /\ stPc = "push"
    /\ Len(ring2) = RingCap /\ ~running
    /\ UNCHANGED ring2
    /\ StNext

StExit ==
    /\ stPc = "loop" /\ ~running
    /\ stPc' = "done"
    /\ UNCHANGED <<notSt, clordid, order, ctx, free, rings, wires>>

Strategy == StTest \/ StRetry \/ StPop \/ StPush \/ StGiveUp \/ StExit
-----------------------------------------------------------------------------
(* run_gateway, sending                                                    *)

\* The mask of half the capacity
PendingSlotShort(id) == id % (PendingCap \div 2)

\* clordid & kPendingMask; the capacity is a power of two
PendingSlot(id) == id % PendingCap

\* while (g_running)
GwTest ==
    /\ gwPc = "loop" /\ running
    /\ gwPc' = "pop"
    /\ UNCHANGED <<notGw, txVars, rxVars, rings, wires>>

\* Pop an order, record its tick-to-trade, remember its stamp.
GwPop ==
    /\ gwPc = "pop"
    /\ ring2 # <<>>
    /\ ring2' = Tail(ring2)
    /\ nos' = Head(ring2)
    /\ t2t' = IF orders >= Warmup THEN t2t + 1 ELSE t2t
    /\ pending' = [pending EXCEPT ![PendingSlot(nos'.id)] = nos'.t0]
    /\ gwPc' = "send"
    /\ UNCHANGED <<notGw, orders, rxVars, ring1, ring3, wires>>

\* Read the socket only after sending
GwIdleDeaf ==
    /\ gwPc = "pop"
    /\ ring2 = <<>>
    /\ gwPc' = "loop"
    /\ UNCHANGED <<notGw, txVars, rxVars, rings, wires>>

\* Nothing to send: poll the socket.
GwIdle ==
    /\ gwPc = "pop"
    /\ ring2 = <<>>
    /\ gwPc' = "recv"
    /\ UNCHANGED <<notGw, txVars, rxVars, rings, wires>>

\* send_all: spins while the buffer is full, whatever g_running says; when
\* the exchange has closed, the bytes are lost or the send fails, which the
\* caller ignores.  Then orders.fetch_add.
GwSend ==
    /\ gwPc = "send"
    /\ \/ /\ exUp /\ Len(wireOut) < OutCap
          /\ wireOut' = Append(wireOut, nos.id)
       \/ ~exUp /\ UNCHANGED wireOut
    /\ orders' = orders + 1
    /\ gwPc' = "log"
    /\ UNCHANGED <<notGw, nos, pending, t2t, rxVars, rings, wireIn>>

\* Send everything that is queued before reading
GwLogBurst ==
    /\ gwPc = "log"
    /\ ring3' = IF Len(ring3) < RingCap THEN Append(ring3, nos.id) ELSE ring3
    /\ gwPc' = IF ring2 # <<>> THEN "loop" ELSE "recv"
    /\ UNCHANGED <<notGw, txVars, rxVars, ring1, ring2, wires>>

\* try_push on ring3, its result ignored: a full ring drops the event.
GwLog ==
    /\ gwPc = "log"
    /\ ring3' = IF Len(ring3) < RingCap THEN Append(ring3, nos.id) ELSE ring3
    /\ gwPc' = "recv"
    /\ UNCHANGED <<notGw, txVars, rxVars, ring1, ring2, wires>>

(* run_gateway, receiving                                                  *)

\* recv returns the first n buffered messages.
GwRecv ==
    /\ gwPc = "recv"
    /\ \E n \in 1 .. GwBatch :
          /\ n <= Len(wireIn)
          /\ rx' = SubSeq(wireIn, 1, n)
          /\ wireIn' = SubSeq(wireIn, n + 1, Len(wireIn))
    /\ gwPc' = "parse"
    /\ UNCHANGED <<notGw, txVars, fill, fills, rtt, rings, wireOut>>

\* EAGAIN: back to the loop. On loopback, as deployed, the exchange's send
\* leaves a reply in the gateway's receive queue, so that there is none in
\* transit that recv could miss.
GwNothing ==
    /\ gwPc = "recv"
    /\ wireIn = <<>> /\ exUp
    /\ gwPc' = "loop"
    /\ UNCHANGED <<notGw, txVars, rxVars, rings, wires>>

\* recv returns 0, or an error other than EAGAIN: the thread ends, and
\* g_running stays as it is.
GwPeerClosed ==
    /\ gwPc = "recv"
    /\ wireIn = <<>> /\ ~exUp
    /\ gwPc' = "done"
    /\ UNCHANGED <<notGw, txVars, rxVars, rings, wires>>

\* The warm-up counted one too far
GwParseLate ==
    /\ gwPc = "parse"
    /\ rx # <<>>
    /\ fill' = [id |-> Head(rx).id, t0 |-> pending[PendingSlot(Head(rx).id)]]
    /\ rtt' = IF fills > Warmup THEN rtt + 1 ELSE rtt
    /\ fills' = fills + 1
    /\ rx' = Tail(rx)
    /\ UNCHANGED <<notGw, gwPc, txVars, rings, wires>>

\* One ExecutionReport: look its stamp up, record the round trip, count it.
GwParse ==
    /\ gwPc = "parse"
    /\ rx # <<>>
    /\ fill' = [id |-> Head(rx).id, t0 |-> pending[PendingSlot(Head(rx).id)]]
    /\ rtt' = IF fills >= Warmup THEN rtt + 1 ELSE rtt
    /\ fills' = fills + 1
    /\ rx' = Tail(rx)
    /\ UNCHANGED <<notGw, gwPc, txVars, rings, wires>>

\* framer.next() finds no further message.
GwParsed ==
    /\ gwPc = "parse"
    /\ rx = <<>>
    /\ gwPc' = "loop"
    /\ UNCHANGED <<notGw, txVars, rxVars, rings, wires>>

GwExit ==
    /\ gwPc = "loop" /\ ~running
    /\ gwPc' = "done"
    /\ UNCHANGED <<notGw, txVars, rxVars, rings, wires>>

Gateway == \/ GwTest \/ GwPop \/ GwIdle \/ GwSend \/ GwLog
           \/ GwRecv \/ GwNothing \/ GwPeerClosed \/ GwParse \/ GwParsed \/ GwExit
-----------------------------------------------------------------------------
(* run_logger                                                              *)

LgPop ==
    /\ lgPc = "loop"
    /\ ring3 # <<>>
    /\ logged' = Append(logged, Head(ring3))
    /\ ring3' = Tail(ring3)
    /\ UNCHANGED <<notLg, lgPc, mxPc, ring1, ring2, wires>>

\* No drain
LgExitAtOnce ==
    /\ lgPc = "loop"
    /\ ~running
    /\ lgPc' = "done"
    /\ UNCHANGED <<notLg, logged, mxPc, rings, wires>>

\* Leave only when g_running is down and size_approx() is 0. The logger is
\* the consumer, so head_ is its own; the relaxed load of tail_ returns, on
\* x86, what is in memory, and a tail_ that the gateway has not written back
\* yet is a GwLog that comes after this step.
LgExit ==
    /\ lgPc = "loop"
    /\ ~running /\ ring3 = <<>>
    /\ lgPc' = "done"
    /\ UNCHANGED <<notLg, logged, mxPc, rings, wires>>

Logger == LgPop \/ LgExit

\* run_metrics: accept times out every 200 ms, so the thread notices
\* shutdown; a page it serves changes nothing here.
MxExit ==
    /\ mxPc = "loop" /\ ~running
    /\ mxPc' = "done"
    /\ UNCHANGED <<notLg, lgPc, logged, rings, wires>>

(* main                                                                    *)

Joined == /\ mdPc = "done" /\ stPc = "done" /\ gwPc = "done"
          /\ lgPc = "done" /\ mxPc = "done"

\* Every thread is joined, then the connection is closed.
EngClose ==
    /\ Joined /\ engUp
    /\ engUp' = FALSE
    /\ UNCHANGED <<running, mdVars, stVars, gwPc, txVars, rxVars, lgVars, rings, wires, exVars>>
-----------------------------------------------------------------------------
(* mock exchange                                                           *)

\* on_signal of the exchange: a blocked recv is restarted, not interrupted.
ExSigterm ==
    /\ exRun
    /\ exRun' = FALSE
    /\ UNCHANGED <<notEx, exPc, exRx, exSeq, exUp, rings, wires>>

\* while (g_run): into recv, or out of the loop and close the connection.
ExTest ==
    /\ exPc = "test"
    /\ exPc' = IF exRun THEN "recv" ELSE "done"
    /\ exUp' = exRun
    /\ UNCHANGED <<notEx, exRun, exRx, exSeq, rings, wires>>

\* The blocking recv returns the first n buffered messages.
ExRecv ==
    /\ exPc = "recv"
    /\ \E n \in 1 .. ExBatch :
          /\ n <= Len(wireOut)
          /\ exRx' = SubSeq(wireOut, 1, n)
          /\ wireOut' = SubSeq(wireOut, n + 1, Len(wireOut))
    /\ exPc' = "reply"
    /\ UNCHANGED <<notEx, exRun, exSeq, exUp, rings, wireIn>>

\* An end of file taken for a message yet to come
ExIgnoreClose ==
    /\ FALSE
    /\ UNCHANGED vars

\* recv returns 0 once the engine has closed and everything was read.
ExPeerClosed ==
    /\ exPc = "recv"
    /\ wireOut = <<>> /\ ~engUp
    /\ exPc' = "done"
    /\ exUp' = FALSE
    /\ UNCHANGED <<notEx, exRun, exRx, exSeq, rings, wires>>

\* A NewOrderSingle is filled at once.  send_msg numbers the message and
\* increments seq before the body reads it as OrderID; send_all blocks while
\* the buffer is full and fails, unnoticed, once the engine has closed.
ExReply ==
    /\ exPc = "reply"
    /\ exRx # <<>>
    /\ \/ /\ engUp /\ Len(wireIn) < InCap
          /\ wireIn' = Append(wireIn, [id |-> Head(exRx), oid |-> exSeq + 1])
       \/ ~engUp /\ UNCHANGED wireIn
    /\ exSeq' = exSeq + 1
    /\ exRx' = Tail(exRx)
    /\ UNCHANGED <<notEx, exRun, exPc, exUp, rings, wireOut>>

\* The batch is answered: test g_run again.
ExReplied ==
    /\ exPc = "reply"
    /\ exRx = <<>>
    /\ exPc' = "test"
    /\ UNCHANGED <<notEx, exRun, exRx, exSeq, exUp, rings, wires>>

Exchange == ExTest \/ ExRecv \/ ExPeerClosed \/ ExReply \/ ExReplied
-----------------------------------------------------------------------------
\* Both processes are gone.
Over == /\ ~engUp /\ exPc = "done"
        /\ UNCHANGED vars

Next == \/ EngSigterm \/ MarketData \/ Strategy \/ Gateway \/ Logger \/ MxExit \/ EngClose
        \/ ExSigterm \/ Exchange \/ Over

Spec == Init /\ [][Next]_vars
\* Every thread is scheduled: the hot threads own their cores, the others
\* share the housekeeping cores; a peer that is not blocked reads its socket.
Fairness == /\ WF_vars(MarketData) /\ WF_vars(Strategy) /\ WF_vars(Gateway)
            /\ WF_vars(Logger) /\ WF_vars(MxExit) /\ WF_vars(EngClose) /\ WF_vars(Exchange)

FairSpec == Spec /\ Fairness
-----------------------------------------------------------------------------
(* Properties                                                              *)

Orders == [id : 0 .. MaxTicks, t0 : 0 .. MaxTicks]

\* Types; the queues stay within their capacities, no context leaks from
\* the pool and none is returned twice.
TypeOK ==
    /\ running \in BOOLEAN /\ engUp \in BOOLEAN
    /\ exRun \in BOOLEAN /\ exUp \in BOOLEAN /\ ctx \in BOOLEAN
    /\ mdPc \in {"loop", "push", "done"}
    /\ stPc \in {"loop", "pop", "push", "done"}
    /\ gwPc \in {"loop", "pop", "send", "log", "recv", "parse", "done"}
    /\ lgPc \in {"loop", "done"} /\ mxPc \in {"loop", "done"}
    /\ exPc \in {"test", "recv", "reply", "done"}
    /\ seq \in 0 .. MaxTicks /\ clordid \in 1 .. MaxTicks + 1
    /\ order \in Orders /\ nos \in Orders /\ fill \in Orders
    /\ free + (IF ctx THEN 1 ELSE 0) = PoolSize
    /\ pending \in [0 .. PendingCap - 1 -> 0 .. MaxTicks]
    /\ {orders, fills, t2t, rtt} \subseteq 0 .. MaxTicks
    /\ exSeq \in Nat
    /\ Len(ring1) <= RingCap /\ Len(ring2) <= RingCap /\ Len(ring3) <= RingCap
    /\ Len(wireOut) <= OutCap /\ Len(wireIn) <= InCap
    /\ Len(exRx) <= ExBatch /\ Len(rx) <= GwBatch

(* The orders between the strategy and the gateway's fill count, oldest    *)
(* first.                                                                  *)
IdsOf(s) == [i \in DOMAIN s |-> s[i].id]
Trip == IdsOf(rx) \o IdsOf(wireIn) \o exRx \o wireOut
        \o (IF gwPc = "send" THEN <<nos.id>> ELSE <<>>)
        \o IdsOf(ring2)
        \o (IF stPc = "push" THEN <<order.id>> ELSE <<>>)

\* While the connection lasts, the pipeline (three rings, four threads, two
\* sockets and the exchange) neither loses, duplicates nor reorders
\* anything: the orders under way are exactly those after the last one
\* filled, each made of its own tick, and before a shutdown the ticks behind
\* them are exactly the rest; the exchange gives consecutive OrderIDs.
NothingLost ==
    exUp /\ engUp =>
        /\ \A i \in 1 .. Len(Trip) : Trip[i] = fills + i
        /\ running => Trip \o ring1 = [i \in 1 .. seq - fills |-> fills + i]
        /\ \A o \in {ring2[i] : i \in DOMAIN ring2} \cup {order, nos} : o.t0 = o.id
        /\ \A i \in DOMAIN wireIn : wireIn[i].oid = wireIn[i].id + 2

Outstanding == Len(wireOut) + Len(exRx) + Len(wireIn)

\* The gateway reads after each order it sends, so what is outstanding is
\* bounded by what the exchange can have left unread: the buffer towards the
\* engine cannot fill up, whatever its size.
OutstandingBounded ==
    Outstanding <= OutCap + ExBatch + (IF gwPc \in {"log", "recv"} THEN 1 ELSE 0)

\* What makes it inductive: a batch is answered before the next one is read.
FlowInv ==
    /\ Len(wireOut) <= OutCap
    /\ Len(exRx) <= ExBatch
    /\ exRx # <<>> => exPc = "reply"
    /\ OutstandingBounded

\* The gateway's send_all spins without reading and the exchange's send
\* blocks without reading: they never do so at the same time, each with the
\* other's buffer full.
NoMutualBlock ==
    ~ /\ gwPc = "send" /\ exUp /\ Len(wireOut) = OutCap
      /\ exRx # <<>> /\ engUp /\ Len(wireIn) = InCap

\* The rtt of a fill is measured from the tick its order came from, although
\* pending[] is indexed by the id modulo its size and nothing clears or
\* checks a slot (run_gateway): "when a fill comes back it looks up the
\* originating tick's timestamp" (ProjectDeepDive.md:216).  Holds when the
\* array is larger than what can be outstanding, and only then.
FillMatchesItsTick == fill.t0 = fill.id

\* Both histograms leave out exactly the first Warmup samples, each counted
\* by its own counter, which the metrics thread reads at any time.
WarmupExcluded ==
    LET popped == orders + (IF gwPc = "send" THEN 1 ELSE 0)
        beyond(n) == IF n > Warmup THEN n - Warmup ELSE 0
    IN  t2t = beyond(popped) /\ rtt = beyond(fills)

\* run_logger drains ring3 before it ends: what stays unwritten is at most
\* the last order of the gateway, which it had in hand when the logger saw
\* the ring empty.
LogDrained == lgPc = "done" => ring3 \in {<<>>, <<nos.id>>}

\* SIGTERM ends the engine, wherever its threads are: nobody spins for ever
\* on a ring whose consumer is gone or on a socket buffer that is full.
ShutdownCompletes == ~running ~> ~engUp

\* Every tick is traded and filled unless one of the processes is stopped.
TicksAreFilled ==
    \A k \in 1 .. MaxTicks :
        (seq >= k) ~> (fills >= k \/ ~running \/ ~exRun)

\* Once the engine has closed, the exchange's handler ends (and main accepts
\* the next client).
ExchangeLetsGo == ~engUp ~> exPc = "done"
=============================================================================
