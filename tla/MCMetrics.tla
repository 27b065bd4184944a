------------------------------- MODULE MCMetrics -------------------------------
(* Metrics for TLC.                                                           *)
EXTENDS Metrics
=============================================================================
