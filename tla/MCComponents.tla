---------------------------- MODULE MCComponents -----------------------------
(* The parts of the library that keep state and share it with nobody, for  *)
(* TLC: each behaviour exercises one of them under any sequence of calls.  *)
EXTENDS ObjectPool, FlatMap, Arena, Clock
VARIABLE part
vars == <<part, poolVars, mapVars, arenaVars, clockVars>>

Init == /\ part \in {"pool", "map", "arena", "clock"}
        /\ PoolInit /\ MapInit
        /\ IF part = "arena" THEN ArenaInit({3, 8}, {13}) ELSE ArenaInit({8}, {8})
        /\ IF part = "clock" THEN ClockInit ELSE ClockInit /\ tsc = 0

OnPool == part = "pool" /\ PoolNext /\ UNCHANGED <<part, mapVars, arenaVars, clockVars>>
OnMap == part = "map" /\ MapNext /\ UNCHANGED <<part, poolVars, arenaVars, clockVars>>
OnArena == part = "arena" /\ ArenaNext /\ UNCHANGED <<part, poolVars, mapVars, clockVars>>
OnClock == part = "clock" /\ ClockNext /\ UNCHANGED <<part, poolVars, mapVars, arenaVars>>
Next == OnPool \/ OnMap \/ OnArena \/ OnClock
Spec == Init /\ [][Next]_vars
=============================================================================
