-------------------------------- MODULE Clock --------------------------------
(* TscClock and the pacing of run_market_data by it. Time passes between   *)
(* any two reads of a clock: the thread may lose its core there.           *)
EXTENDS Naturals
CONSTANTS TicksPerNs,  \* the counter's true rate
          Sample,      \* ticks that nanosleep sleeps at least
          PeriodNs,    \* 1e9 / rate
          MaxTsc,      \* bound of the model: where the counter stops
          MaxMade      \* bound of the model: ticks made

ASSUME ClockAssumption ==
    /\ TicksPerNs \in Nat \ {0} /\ Sample \in Nat /\ PeriodNs \in Nat
    /\ MaxTsc \in Nat /\ MaxMade \in Nat /\ Sample >= TicksPerNs

VARIABLES tsc,     \* the counter of every core
          md,      \* where calibrate, then run_market_data, is
          w0, c0,  \* calibrate's first reads
          dticks, ns,
          begun, next, now, made
clockVars == <<tsc, md, w0, c0, dticks, ns, begun, next, now, made>>

CLOCK_MONOTONIC_RAW == tsc \div TicksPerNs

(* ns_per_tick_ is the ratio ns / dticks.                                  *)
ticks_to_nsWhole(d) == d * (ns \div dticks)      \* the ratio as an integer
ticks_to_ns(d) == (d * ns) \div dticks
period_ticks == (PeriodNs * dticks) \div ns

ClockInit == /\ tsc \in 0..(TicksPerNs - 1)
             /\ md = "w0" /\ w0 = 0 /\ c0 = 0 /\ dticks = 0 /\ ns = 0
             /\ begun = 0 /\ next = 0 /\ now = 0 /\ made = 0

Pass == /\ tsc < MaxTsc
        /\ tsc' = tsc + 1
        /\ UNCHANGED <<md, w0, c0, dticks, ns, begun, next, now, made>>

(* calibrate: the wall clock's reads enclose the counter's.                *)
ReadW0 == /\ md = "w0" /\ md' = "c0"
          /\ w0' = CLOCK_MONOTONIC_RAW
          /\ UNCHANGED <<tsc, c0, dticks, ns, begun, next, now, made>>
ReadC0 == /\ md = "c0" /\ md' = "c1"
          /\ c0' = tsc
          /\ UNCHANGED <<tsc, w0, dticks, ns, begun, next, now, made>>
ReadC1 == /\ md = "c1" /\ md' = "w1"
          /\ tsc >= c0 + Sample
          /\ dticks' = tsc - c0
          /\ UNCHANGED <<tsc, w0, c0, ns, begun, next, now, made>>
ReadW1 == /\ md = "w1" /\ md' = "begin"
          /\ ns' = CLOCK_MONOTONIC_RAW - w0
          /\ w0' = 0 /\ c0' = 0             \* out of scope
          /\ UNCHANGED <<tsc, dticks, begun, next, now, made>>

(* run_market_data: read the counter, then wait, or make a tick.           *)
Begin == /\ md = "begin" /\ md' = "spin"
         /\ begun' = tsc /\ next' = tsc
         /\ UNCHANGED <<tsc, w0, c0, dticks, ns, now, made>>
Look == /\ md \in {"spin", "idle"} /\ md' = "test"
        /\ now' = tsc
        /\ UNCHANGED <<tsc, w0, c0, dticks, ns, begun, next, made>>
Idle == /\ md = "test" /\ now < next /\ md' = "idle"
        /\ UNCHANGED <<tsc, w0, c0, dticks, ns, begun, next, now, made>>
MakeDrifts == /\ md = "test" /\ now >= next /\ made < MaxMade /\ md' = "spin"
              /\ next' = now + period_ticks      \* from now, not from when it was due
              /\ made' = made + 1
              /\ UNCHANGED <<tsc, w0, c0, dticks, ns, begun, now>>
Make == /\ md = "test" /\ now >= next /\ made < MaxMade /\ md' = "spin"
        /\ next' = next + period_ticks
        /\ made' = made + 1
        /\ UNCHANGED <<tsc, w0, c0, dticks, ns, begun, now>>

ClockNext == Pass \/ ReadW0 \/ ReadC0 \/ ReadC1 \/ ReadW1 \/ Begin \/ Look \/ Idle \/ Make

(***************************************************************************)
(* Properties.                                                             *)
(***************************************************************************)
(* However long the calibrating thread is off its core between two reads,  *)
(* a latency within the sample is never reported shorter than it was by    *)
(* more than the one ns that the wall clock resolves: preemption inflates  *)
(* latencies, it does not flatter them.                                    *)
NeverFlattered ==
    md \in {"begin", "spin", "idle", "test"} =>
       \A d \in 0..dticks : ticks_to_ns(d) + 1 >= d \div TicksPerNs

(* A generator that was held up, by a full ring or off its core, makes up  *)
(* for it: when it has nothing to do, it has made a tick for every period  *)
(* since it began, so the configured rate holds in the long run.           *)
NothingOwed == md = "idle" => made = (now - begun) \div period_ticks + 1
=============================================================================
