--------------------------- MODULE MCMetricsCache ---------------------------
(* Small instances of MetricsCache for TLC.                                *)
EXTENDS MetricsCache

CONSTANTS s1, s2
=============================================================================
