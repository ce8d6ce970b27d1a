----------------------------- MODULE MCSpscRing ------------------------------
(* SpscRing for TLC: finite as it stands, because its counters wrap.       *)
EXTENDS SpscRing
=============================================================================
