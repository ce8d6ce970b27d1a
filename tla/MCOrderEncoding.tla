--------------------------- MODULE MCOrderEncoding ---------------------------
(* OrderEncoding for TLC: stretches of orders around every change of the   *)
(* number of digits of an id.                                              *)
EXTENDS OrderEncoding

SevenDigits == {0, 90, 990, 9990, 99990, 999990, 9999970}
EightDigits == {9999999}
=============================================================================
