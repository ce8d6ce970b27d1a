-------------------------------- MODULE Cores --------------------------------
(* Which core a thread sits on and under which policy: the threads that    *)
(* spin pin themselves to a core of their own and go real-time there, if   *)
(* the command line, the kernel and the capabilities let them.             *)
EXTENDS Naturals, FiniteSets
CONSTANTS Cpu, Housekeeping,
          Hot,       \* threads that call setup_core, or handle's copy of it
          Rest,      \* threads that do not
          cpu,       \* the core that each hot thread is told to use
          Exchange   \* the threads of mock_exchange; the others are the engine's

(* The deployment's defaults: one isolated core for each hot thread.       *)
ASSUME CoresAssumption ==
    /\ Housekeeping \subseteq Cpu /\ Housekeeping # {}
    /\ cpu \in [Hot -> Cpu \ Housekeeping]
    /\ \A t, u \in Hot : cpu[t] = cpu[u] => t = u
    /\ Exchange \subseteq Hot \cup Rest /\ Hot \cap Rest = {}

VARIABLES online,    \* cores that are not offline
          mayNice,   \* CAP_SYS_NICE
          args,      \* the command lines
          setup,     \* where each hot thread is in its set-up
          mask, policy
coresVars == <<online, mayNice, args, setup, mask, policy>>

Thread == Hot \cup Rest
Program(t) == IF t \in Exchange THEN "exchange" ELSE "engine"
Option == {"--pin=on", "--rt=on", "--huge=off"}

(* parse: what the tests of the set-up ask for. Each option at most once.  *)
pin(t) == "--pin=on" \in args[Program(t)]
rt(t) == "--rt=on" \in args[Program(t)]

(* CPUAffinity= of the two units: housekeeping, and the hot cores.         *)
UnitMask(t) == Housekeeping \cup {cpu[u] : u \in {h \in Hot : Program(h) = Program(t)}}

CoresInit == /\ online \in {Cpu} \cup {Cpu \ {c} : c \in {cpu[t] : t \in Hot}}
             /\ mayNice \in BOOLEAN
             /\ args \in [engine : SUBSET Option, exchange : SUBSET (Option \ {"--huge=off"})]
             /\ setup = [t \in Hot |-> "new"]
             /\ mask = [t \in Thread |-> UnitMask(t) \cap online]
             /\ policy = [t \in Thread |-> "OTHER"]

SkipSetup(t) == /\ setup[t] = "new" /\ ~pin(t)
                /\ setup' = [setup EXCEPT ![t] = "run"]
                /\ UNCHANGED <<online, mayNice, args, mask, policy>>

(* The kernel refuses a core that is offline; the thread then runs on      *)
(* where it is, under the policy it has.                                   *)
FifoFirst(t) ==                          \* elevates before it pins
    /\ setup[t] = "new" /\ pin(t)
    /\ policy' = IF rt(t) /\ mayNice THEN [policy EXCEPT ![t] = "FIFO"] ELSE policy
    /\ mask' = IF cpu[t] \in online THEN [mask EXCEPT ![t] = {cpu[t]}] ELSE mask
    /\ setup' = [setup EXCEPT ![t] = "run"]
    /\ UNCHANGED <<online, mayNice, args>>
Pin(t) == /\ setup[t] = "new" /\ pin(t)
          /\ IF cpu[t] \in online
             THEN /\ mask' = [mask EXCEPT ![t] = {cpu[t]}]
                  /\ setup' = [setup EXCEPT ![t] = "pinned"]
             ELSE /\ setup' = [setup EXCEPT ![t] = "run"]
                  /\ UNCHANGED mask
          /\ UNCHANGED <<online, mayNice, args, policy>>

(* set_realtime if affinity_is confirms the mask; the kernel denies it     *)
(* without the capability.                                                 *)
Elevate(t) == /\ setup[t] = "pinned"
              /\ policy' = IF mask[t] = {cpu[t]} /\ rt(t) /\ mayNice
                           THEN [policy EXCEPT ![t] = "FIFO"] ELSE policy
              /\ setup' = [setup EXCEPT ![t] = "run"]
              /\ UNCHANGED <<online, mayNice, args, mask>>

(* The exchange's handler ends with its client; the next client's is a new *)
(* thread of main's.                                                       *)
NextHandler(t) == /\ t \in Exchange /\ setup[t] = "run"
                  /\ setup' = [setup EXCEPT ![t] = "new"]
                  /\ mask' = [mask EXCEPT ![t] = UnitMask(t) \cap online]
                  /\ policy' = [policy EXCEPT ![t] = "OTHER"]
                  /\ UNCHANGED <<online, mayNice, args>>

SetupStep(t) == SkipSetup(t) \/ Pin(t) \/ Elevate(t)

(***************************************************************************)
(* Properties.                                                             *)
(***************************************************************************)
(* A thread that spins under SCHED_FIFO is nailed to its own core, which   *)
(* is online and no housekeeping core, and only where both options asked   *)
(* for it: a core that cannot be had never leaves a real-time spin on the  *)
(* cores of everyone else.                                                 *)
FifoNailed == \A t \in Thread : policy[t] = "FIFO" =>
    /\ t \in Hot /\ pin(t) /\ rt(t)
    /\ mask[t] = {cpu[t]} /\ mask[t] \subseteq online \ Housekeeping

(* Nobody is starved: every thread may run on a core that no other thread  *)
(* holds under SCHED_FIFO, in whatever order the two programs start and    *)
(* whichever set-ups fail. (The fairness of the pipeline rests on it.)     *)
NobodyStarved == \A t \in Thread : \E c \in mask[t] \cap online :
    \A u \in Thread \ {t} : policy[u] = "FIFO" => c \notin mask[u]
=============================================================================
