--------------------------- MODULE MCDatalensClient ---------------------------
(* Small instances of DatalensClient for TLC.                              *)
EXTENDS DatalensClient

CONSTANTS c1, c2
=============================================================================
