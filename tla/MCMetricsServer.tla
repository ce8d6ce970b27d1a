--------------------------- MODULE MCMetricsServer ---------------------------
(* MetricsServer for TLC: its bounds are constants of the model.           *)
EXTENDS MetricsServer
=============================================================================
