--------------------------- MODULE MCChainRunner ---------------------------
(* Small instances of ChainRunner for TLC.                                 *)
EXTENDS ChainRunner

\* Every block carries logs, so that every mistake shows in the rows.
NoBlocksEmpty == {}

\* Block 1 carries none on the first branch and some on the others; block 2
\* the other way round.
SomeBlocksEmpty == {<<1, 1>>} \cup {<<2, f>> : f \in ForkId \ {1}}
=============================================================================
