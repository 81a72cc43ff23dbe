------------------------------ MODULE MCRunLoop ------------------------------
(* Small instances of RunLoop for TLC.                                     *)
EXTENDS RunLoop

CONSTANTS a, b

\* Chain a goes through ranges and rollbacks; b is there to fail and to hang.
Heads  == [c \in Chain |-> IF c = a THEN 2 ELSE 0]
Blocks == [c \in Chain |-> IF c = a THEN 2 ELSE 0]
=============================================================================
