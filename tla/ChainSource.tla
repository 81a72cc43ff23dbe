----------------------------- MODULE ChainSource -----------------------------
(***************************************************************************)
(* The outside world of one chain's indexing loop: the blockchain as       *)
(* Datalens serves it.  None of it is code of the repository; it is        *)
(* modelled from what src/datalens asks for and from what the runner does  *)
(* with the answers.                                                       *)
(*                                                                         *)
(* A block is a pair <<height, fork>>: the fork number stands for the      *)
(* block hash, so two blocks of one height are the same block exactly when *)
(* their fork numbers agree.  A reorg at height h replaces every block     *)
(* from h up by blocks of a fork never seen before, and cannot reach below *)
(* the heads that are settled.                                             *)
(***************************************************************************)
EXTENDS Naturals

CONSTANTS
    MaxBlock,      \* bound: the chain does not grow past this height
    MaxForks,      \* bound: fork numbers, hence MaxForks - 1 reorgs
    EmptyBlocks,   \* blocks that carry no log the indexer asks for
    SafeMayReorg   \* may blocks at or below the safe head be reorged?

Height == 0..MaxBlock
ForkId == 1..MaxForks
NoFork == 0        \* the "hash" of a block nobody recorded
Block  == Height \X ForkId

ASSUME SourceAssumption ==
    /\ MaxBlock \in Nat
    /\ MaxForks \in Nat \ {0}
    /\ EmptyBlocks \subseteq Block
    /\ SafeMayReorg \in BOOLEAN

VARIABLES
    chain,      \* [Height -> ForkId]: the canonical block of every height,
                \* above `latest' the one that will be produced there
    fork,       \* the fork being built on
    finalized,  \* the three heads of GET /v1/heads/{chain}
    safe,
    latest

sourceVars == <<chain, fork, finalized, safe, latest>>

SourceTypeOK ==
    /\ chain \in [Height -> ForkId]
    /\ fork \in ForkId
    /\ finalized \in Height /\ safe \in Height /\ latest \in Height
    /\ finalized <= safe /\ safe <= latest
    /\ \A b \in Height : chain[b] <= fork

SourceInit ==
    /\ chain = [b \in Height |-> 1]
    /\ fork = 1
    /\ finalized = 0 /\ safe = 0 /\ latest = 0

\* The height below which no block ever changes.
Settled == IF SafeMayReorg THEN finalized ELSE safe

Canonical(b) == <<b, chain[b]>>

\* The blocks of a height range that carry logs, as served right now.
LogsIn(from, to) == {Canonical(b) : b \in from..to} \ EmptyBlocks

-----------------------------------------------------------------------------
NewBlock ==
    /\ latest < MaxBlock
    /\ latest' = latest + 1
    /\ UNCHANGED <<chain, fork, finalized, safe>>

AdvanceSafe ==
    /\ safe < latest
    /\ safe' = safe + 1
    /\ UNCHANGED <<chain, fork, finalized, latest>>

AdvanceFinalized ==
    /\ finalized < safe
    /\ finalized' = finalized + 1
    /\ UNCHANGED <<chain, fork, safe, latest>>

\* The blocks from h up are replaced; the new branch may still be shorter
\* than the old one, and a safe head inside the old branch falls back.
Reorg ==
    /\ fork < MaxForks
    /\ \E h \in (Settled + 1)..latest, top \in Height :
        /\ top >= h - 1 /\ top <= latest
        /\ chain' = [b \in Height |-> IF b >= h THEN fork + 1 ELSE chain[b]]
        /\ latest' = top
        /\ safe' = IF safe >= h THEN h - 1 ELSE safe
    /\ fork' = fork + 1
    /\ UNCHANGED finalized

SourceNext == NewBlock \/ AdvanceSafe \/ AdvanceFinalized \/ Reorg
=============================================================================
