------------------------------- MODULE StartUp -------------------------------
(* The engine's main up to the pipeline: the hot state goes onto huge      *)
(* pages, onto normal pages or onto the heap, then the threads start and   *)
(* find their cores, next to those of the exchange.                        *)
EXTENDS Arena, Cores
CONSTANTS HotSize,      \* sizeof(HotState)
          Slack,        \* what main adds: 1 MB
          kHugePageSize,
          SmallPage,    \* page size of a normal mapping
          CacheLine     \* alignof(HotState)

ASSUME StartUpAssumption ==
    /\ HotSize \in Nat \ {0} /\ Slack \in Nat
    /\ CacheLine \in Align /\ {SmallPage, kHugePageSize} \subseteq Nat \ {0}
    /\ SmallPage % CacheLine = 0 /\ kHugePageSize % SmallPage = 0
    /\ HotSize + Slack + 3 * kHugePageSize < Word

VARIABLES main,     \* where main is
          pages,    \* what backs the arena
          hs,       \* where the hot state is
          on_huge   \* what the metrics page will say
mainVars == <<main, pages, hs, on_huge>>
vars == <<arenaVars, coresVars, mainVars>>

huge == "--huge=off" \notin args.engine

StartUpInit == /\ ArenaInit({0}, {0}) /\ CoresInit
               /\ main = "arena" /\ pages = "none" /\ hs = "none" /\ on_huge = FALSE

(* The constructor: 2 MB pages if they are to be had, else normal ones,    *)
(* else nothing.                                                           *)
Mapped(kind, at) == /\ pages' = kind /\ base_' = at
                    /\ bytes_' = round_up(HotSize + Slack, kHugePageSize)
HugeArena == /\ main = "arena" /\ huge
             /\ \/ Mapped("huge", kHugePageSize)
                \/ Mapped("normal", kHugePageSize + SmallPage)
                \/ Mapped("none", 0)
             /\ main' = "place"
             /\ UNCHANGED <<off_, blocks, coresVars, hs, on_huge>>

(* --huge=off makes no arena at all.                                       *)
NoArena == /\ main = "arena" /\ ~huge
           /\ main' = "heap"
           /\ UNCHANGED <<arenaVars, coresVars, pages, hs, on_huge>>

PlaceAssumed == /\ main = "place"        \* says what was asked for
                /\ alloc(HotSize, CacheLine)
                /\ hs' = "arena" /\ on_huge' = huge
                /\ main' = "up"
                /\ UNCHANGED <<coresVars, pages>>
Place == /\ main = "place"
         /\ alloc(HotSize, CacheLine)
         /\ hs' = "arena" /\ on_huge' = (pages = "huge")
         /\ main' = "up"
         /\ UNCHANGED <<coresVars, pages>>

PlaceFails == /\ main = "place"
              /\ allocRefused(HotSize, CacheLine)
              /\ main' = "heap"
              /\ UNCHANGED <<coresVars, pages, hs, on_huge>>

NewHotState == /\ main = "heap"
               /\ hs' = "heap" /\ main' = "up"
               /\ UNCHANGED <<arenaVars, coresVars, pages, on_huge>>

(* The engine's hot threads start when the state they use is there; the    *)
(* exchange's handler when a client comes.                                 *)
HotThread(t) == /\ t \in Exchange \/ main = "up"
                /\ SetupStep(t) \/ NextHandler(t)
                /\ UNCHANGED <<arenaVars, mainVars>>

StartUpNext == \/ HugeArena \/ NoArena \/ Place \/ PlaceFails \/ NewHotState
               \/ \E t \in Hot : HotThread(t)
StartUpSpec == StartUpInit /\ [][StartUpNext]_vars

(***************************************************************************)
(* Properties.                                                             *)
(***************************************************************************)
(* Once the pipeline runs, engine_hugepages is 1 exactly if the whole hot  *)
(* state lies on huge pages (ProjectDeepDive.md: "1 if hot state is on     *)
(* huge pages, else 0"), and the heap is used only if no mapping was to    *)
(* be had or wanted: an arena that exists always has room for it.          *)
GaugeHonest == main = "up" =>
    /\ on_huge <=> pages = "huge" /\ hs = "arena"
    /\ hs = "heap" <=> pages = "none"
    /\ BlocksSound
=============================================================================
