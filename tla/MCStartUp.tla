------------------------------ MODULE MCStartUp ------------------------------
(* StartUp for TLC: two housekeeping cores and one for each hot thread.    *)
EXTENDS StartUp
MCCpu == {0, 1, 8, 10, 12, 14}
MCHousekeeping == {0, 1}
MCHot == {"market-data", "strategy", "gateway", "handler"}
MCCore == [t \in MCHot |-> CASE t = "market-data" -> 8 [] t = "strategy" -> 10
                             [] t = "gateway" -> 12 [] t = "handler" -> 14]
=============================================================================
