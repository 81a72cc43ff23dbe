---------------------------- MODULE IndexedPrefix ----------------------------
(***************************************************************************)
(* What the indexer promises a reader of its tables when the head it       *)
(* follows is settled: a chain that only grows, a position `next', and the *)
(* events of the chain.  One step indexes a contiguous range that starts   *)
(* where everything below is already there, and moves the position past it *)
(* in the same step.  The position may move back (a late writer repeats a  *)
(* range), the tables may not: a range indexed twice is indexed once.      *)
(***************************************************************************)
EXTENDS Integers

CONSTANTS
    Start,      \* the first block to index
    MaxHeight,  \* bound on the chain
    Hash,       \* what tells two blocks of a height apart
    Empty       \* <<height, hash>> pairs of blocks without events

VARIABLES
    ledger,  \* the settled chain: [0..n -> Hash]
    next,    \* the lowest block not claimed to be indexed
    events   \* the blocks whose events are in the tables

prefixVars == <<ledger, next, events>>

EventsOf(from, to) == {<<b, ledger[b]>> : b \in from..to} \ Empty

AllIndexed(from, to) == EventsOf(from, to) \subseteq events

PrefixInit ==
    /\ ledger \in [{0} -> Hash]
    /\ next = Start
    /\ events = {}

\* The settled chain grows; no block of it ever changes.
Settle ==
    /\ \E n \in 0..MaxHeight :
         /\ DOMAIN ledger \subseteq 0..n
         /\ ledger' \in [0..n -> Hash]
    /\ \A b \in DOMAIN ledger : ledger'[b] = ledger[b]
    /\ UNCHANGED <<next, events>>

IndexRange ==
    /\ \E to \in DOMAIN ledger : \E from \in Start..to :
         /\ AllIndexed(Start, from - 1)
         /\ events' = events \cup EventsOf(from, to)
         /\ next' = to + 1
    /\ UNCHANGED ledger

PrefixNext == Settle \/ IndexRange

PrefixSpec == PrefixInit /\ [][PrefixNext]_prefixVars
=============================================================================
