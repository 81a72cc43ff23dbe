----------------------------- MODULE ChainRunner -----------------------------
(***************************************************************************)
(* The indexing loop of one chain (src/runner.rs), with the three          *)
(* pieces of database state it moves together: the checkpoint, the block   *)
(* anchors and the rows.  A pass of the loop is a chain of awaits; every   *)
(* request to Datalens and every database transaction is one action, so    *)
(* that the chain can move, another process can write and the process can  *)
(* die between any two of them.                                            *)
(*                                                                         *)
(* Runner is the set of processes indexing this chain into one database:   *)
(* one in the intended deployment, two while a rolling update overlaps.    *)
(* Nothing in the code excludes the second.                                *)
(***************************************************************************)
EXTENDS Integers, ChainSource

CONSTANTS
    Runner,
    FinalityMode,    \* "finalized", "durable", "safe" or "latest"
    StartBlock,      \* ORMPINDEXER_START_BLOCK
    BatchSize,
    HeadBuffer,      \* ORMPINDEXER_DATALENS_HEAD_BUFFER_BLOCKS
    ReorgWindow,     \* ORMPINDEXER_REORG_WINDOW_BLOCKS
    ReorgsAnytime    \* FALSE: the environment where no reorg falls inside a pass

UsesReorgProtection == FinalityMode \in {"safe", "latest"}

ASSUME RunnerAssumption ==
    /\ FinalityMode \in {"finalized", "durable", "safe", "latest"}
    /\ StartBlock \in Height
    /\ BatchSize \in Nat \ {0}
    /\ HeadBuffer \in Nat
    /\ ReorgWindow \in Nat
    /\ UsesReorgProtection => ReorgWindow > 0
    /\ ReorgsAnytime \in BOOLEAN

VARIABLES
    checkpoint,  \* next_block of ormp_indexer_checkpoint, or NoCheckpoint
    anchors,     \* ormp_indexer_block_anchor: [Height -> ForkId or NoFork]
    rows,        \* the blocks whose events are in the event tables
    pass         \* [Runner -> the locals of run_chain_once]

dbVars == <<checkpoint, anchors, rows>>
vars   == <<sourceVars, dbVars, pass>>

NoCheckpoint == -1
NoAnchors    == [b \in Height |-> NoFork]
AnchorMap    == [Height -> ForkId \cup {NoFork}]
Unverified   == MaxBlock + 1
Position     == 0..(MaxBlock + 1)    \* a next_block or from_block

PassPC == {"idle", "reorg_heads", "reorg_anchors", "reorg_blocks", "rollback",
           "head", "logs", "anchor_heads", "anchor_blocks", "write"}

Pass == [pc       : PassPC,
         next     : Position,        \* checkpoint.next_block as this pass has it
         target   : Height,          \* target_block
         from     : Position,        \* from_block of the header query under way
         stored   : AnchorMap,       \* anchors read for the reorg check
         rollback : Height,          \* rollback_block
         absent   : BOOLEAN,         \* history: the answer had no header of it
         end      : Height,          \* served_end
         stop     : BOOLEAN,         \* stop_poll
         logs     : SUBSET Block,    \* decoded events of the range
         fresh    : AnchorMap,       \* anchors to write with them
         verified : Position]        \* history: lowest block this pass's reorg
                                     \* check has compared, else Unverified

Idle == [pc |-> "idle", next |-> 0, target |-> 0, from |-> 0,
         stored |-> NoAnchors, rollback |-> 0, absent |-> FALSE, end |-> 0, stop |-> FALSE,
         logs |-> {}, fresh |-> NoAnchors, verified |-> Unverified]

Init ==
    /\ SourceInit
    /\ checkpoint = NoCheckpoint
    /\ anchors = NoAnchors
    /\ rows = {}
    /\ pass = [r \in Runner |-> Idle]

TypeOK ==
    /\ SourceTypeOK
    /\ checkpoint \in Position \cup {NoCheckpoint}
    /\ anchors \in AnchorMap
    /\ rows \subseteq Block
    /\ pass \in [Runner -> Pass]

-----------------------------------------------------------------------------
Larger(a, b)  == IF a >= b THEN a ELSE b
Smaller(a, b) == IF a <= b THEN a ELSE b
SaturatingSub(a, b) == IF a >= b THEN a - b ELSE 0

\* Mutant: the finalized mode follows the safe head, as the durable one does.
HeadHeightSafe == IF FinalityMode = "latest" THEN latest ELSE safe

\* head_height: the head a mode follows.
HeadHeight == CASE FinalityMode = "finalized" -> finalized
                [] FinalityMode \in {"durable", "safe"} -> safe
                [] FinalityMode = "latest" -> latest

\* query_finality: how far up the chain Datalens serves the mode's queries.
ServedUpTo == IF UsesReorgProtection THEN latest ELSE safe

\* The header query from..to is answered in full.
Covers(to) == to <= latest

\* Moving on within the pass drops the locals that have gone out of scope.
Goto(r, locals) == pass' = [pass EXCEPT ![r] = locals]
EndPass(r)      == Goto(r, Idle)

AnchorsFromLogs(logs) ==
    [b \in Height |-> IF \E f \in ForkId : <<b, f>> \in logs
                        THEN CHOOSE f \in ForkId : <<b, f>> \in logs
                        ELSE NoFork]

\* Mutant: an exclusive upper bound.
AnchorsFromBlocksExclusive(from, to) ==
    [b \in Height |-> IF b \in from..(to - 1) THEN chain[b] ELSE NoFork]

AnchorsFromBlocks(from, to) ==
    [b \in Height |-> IF b \in from..to THEN chain[b] ELSE NoFork]

-----------------------------------------------------------------------------
(* The start of a pass, and the reorg check of the safe and latest modes.  *)

ReadOrCreate(r) ==
    /\ pass[r].pc = "idle"
    /\ checkpoint' = IF checkpoint = NoCheckpoint THEN StartBlock ELSE checkpoint
    /\ Goto(r, [Idle EXCEPT
                  !.pc = IF UsesReorgProtection /\ checkpoint' > 0
                           THEN "reorg_heads" ELSE "head",
                  !.next = checkpoint'])
    /\ UNCHANGED <<sourceVars, anchors, rows>>

\* Mutants: the finalized head is not consulted; it is stepped over by one.
CheckFromWindow(next) == Larger(StartBlock, SaturatingSub(next, ReorgWindow))
CheckFromSkipsOne(next) ==
    Larger(StartBlock, Larger(SaturatingSub(next, ReorgWindow), finalized + 2))

CheckFrom(next) ==
    Larger(StartBlock, Larger(SaturatingSub(next, ReorgWindow), finalized + 1))

ReorgHeads(r) ==
    /\ pass[r].pc = "reorg_heads"
    /\ LET from == CheckFrom(pass[r].next) IN
         IF from > pass[r].next - 1
           THEN Goto(r, [pass[r] EXCEPT !.pc = "head", !.verified = from])
           ELSE Goto(r, [pass[r] EXCEPT !.pc = "reorg_anchors", !.from = from])
    /\ UNCHANGED <<sourceVars, dbVars>>

ReorgAnchors(r) ==
    /\ pass[r].pc = "reorg_anchors"
    /\ Goto(r, [pass[r] EXCEPT
                  !.pc = "reorg_blocks",
                  !.stored = [b \in Height |->
                                IF b \in pass[r].from..(pass[r].next - 1)
                                  THEN anchors[b] ELSE NoFork]])
    /\ UNCHANGED <<sourceVars, dbVars>>

\* An incomplete header answer skips the check: the pass goes on unchecked.
ReorgCheckWaits(r) ==
    /\ pass[r].pc = "reorg_blocks"
    /\ Goto(r, [Idle EXCEPT !.pc = "head", !.next = pass[r].next])
    /\ UNCHANGED <<sourceVars, dbVars>>

\* The blocks of the check without an anchor, without a header in the answer, or
\* with another hash.
Differs(p, missing) ==
    {b \in p.from..(p.next - 1) : b \in missing \/ p.stored[b] # chain[b]}

\* Mutant: the search runs down from the newest block.
ReorgCheckComparesNewest(r) ==
    /\ pass[r].pc = "reorg_blocks"
    /\ Covers(pass[r].next - 1)
    /\ \E missing \in SUBSET (pass[r].from..(pass[r].next - 1)) :
         LET differs == Differs(pass[r], missing)
             checked == [Idle EXCEPT !.next = pass[r].next, !.verified = pass[r].from]
         IN  IF differs = {}
               THEN Goto(r, [checked EXCEPT !.pc = "head"])
               ELSE \E last \in differs :
                      /\ \A b \in differs : last >= b
                      /\ Goto(r, [checked EXCEPT !.pc = "rollback", !.rollback = last,
                                                 !.absent = last \in missing])
    /\ UNCHANGED <<sourceVars, dbVars>>

\* An answer that covers the range may still lack headers of it.
ReorgCheckCompares(r) ==
    /\ pass[r].pc = "reorg_blocks"
    /\ Covers(pass[r].next - 1)
    /\ \E missing \in SUBSET (pass[r].from..(pass[r].next - 1)) :
         LET differs == Differs(pass[r], missing)
             checked == [Idle EXCEPT !.next = pass[r].next, !.verified = pass[r].from]
         IN  IF differs = {}
               THEN Goto(r, [checked EXCEPT !.pc = "head"])
               ELSE \E first \in differs :
                      /\ \A b \in differs : first <= b
                      /\ Goto(r, [checked EXCEPT !.pc = "rollback", !.rollback = first,
                                                 !.absent = first \in missing])
    /\ UNCHANGED <<sourceVars, dbVars>>

\* Mutants: block_number > rollback_block; the anchors are not deleted.
RollbackReorgedAbove(r) ==
    /\ pass[r].pc = "rollback"
    /\ LET first == pass[r].rollback IN
         /\ rows' = {row \in rows : row[1] <= first}
         /\ anchors' = [b \in Height |-> IF b > first THEN NoFork ELSE anchors[b]]
         /\ checkpoint' = first
         /\ Goto(r, [Idle EXCEPT !.pc = "head", !.next = first,
                                 !.verified = pass[r].verified])
    /\ UNCHANGED sourceVars
RollbackReorgedKeepsAnchors(r) ==
    /\ pass[r].pc = "rollback"
    /\ LET first == pass[r].rollback IN
         /\ rows' = {row \in rows : row[1] < first}
         /\ checkpoint' = first
         /\ Goto(r, [Idle EXCEPT !.pc = "head", !.next = first,
                                 !.verified = pass[r].verified])
    /\ UNCHANGED <<sourceVars, anchors>>

\* rollback_legacy_from: one transaction.
RollbackReorged(r) ==
    /\ pass[r].pc = "rollback"
    /\ LET first == pass[r].rollback IN
         /\ rows' = {row \in rows : row[1] < first}
         /\ anchors' = [b \in Height |-> IF b >= first THEN NoFork ELSE anchors[b]]
         /\ checkpoint' = first
         /\ Goto(r, [Idle EXCEPT !.pc = "head", !.next = first,
                                 !.verified = pass[r].verified])
    /\ UNCHANGED sourceVars

-----------------------------------------------------------------------------
(* The batches of a pass.                                                  *)

\* Mutant: >= where the loop has >.
LatestBlockExclusive(r) ==
    /\ pass[r].pc = "head"
    /\ LET target == SaturatingSub(HeadHeight, HeadBuffer) IN
         IF pass[r].next >= target
           THEN EndPass(r)
           ELSE Goto(r, [pass[r] EXCEPT !.pc = "logs", !.target = target])
    /\ UNCHANGED <<sourceVars, dbVars>>

LatestBlock(r) ==
    /\ pass[r].pc = "head"
    /\ LET target == SaturatingSub(HeadHeight, HeadBuffer) IN
         IF pass[r].next > target
           THEN EndPass(r)
           ELSE Goto(r, [pass[r] EXCEPT !.pc = "logs", !.target = target])
    /\ UNCHANGED <<sourceVars, dbVars>>

RangeEnd(r) == Smaller(pass[r].next + BatchSize - 1, pass[r].target)

\* Mutant: the range counts as served to its end, whatever `served' says.
QueryLogsIgnoresServed(r) ==
    /\ pass[r].pc = "logs"
    /\ \E end \in pass[r].next..Smaller(RangeEnd(r), ServedUpTo),
          incomplete \in BOOLEAN :
         LET logs == LogsIn(pass[r].next, end) IN
           Goto(r, [pass[r] EXCEPT
                      !.pc = IF UsesReorgProtection THEN "anchor_heads" ELSE "write",
                      !.end = RangeEnd(r),
                      !.stop = incomplete \/ end < RangeEnd(r),
                      !.logs = logs,
                      !.fresh = IF UsesReorgProtection
                                  THEN NoAnchors ELSE AnchorsFromLogs(logs)])
    /\ UNCHANGED <<sourceVars, dbVars>>

\* The server may serve a prefix of the range, and may call even a fully
\* served range incomplete.
QueryLogs(r) ==
    /\ pass[r].pc = "logs"
    /\ \E end \in pass[r].next..Smaller(RangeEnd(r), ServedUpTo),
          incomplete \in BOOLEAN :
         LET logs == LogsIn(pass[r].next, end) IN
           Goto(r, [pass[r] EXCEPT
                      !.pc = IF UsesReorgProtection THEN "anchor_heads" ELSE "write",
                      !.end = end,
                      !.stop = incomplete \/ end < RangeEnd(r),
                      !.logs = logs,
                      !.fresh = IF UsesReorgProtection
                                  THEN NoAnchors ELSE AnchorsFromLogs(logs)])
    /\ UNCHANGED <<sourceVars, dbVars>>

QueryLogsServesNothing(r) ==
    /\ pass[r].pc = "logs"
    /\ EndPass(r)
    /\ UNCHANGED <<sourceVars, dbVars>>

AnchorHeads(r) ==
    /\ pass[r].pc = "anchor_heads"
    /\ LET from == Larger(pass[r].next, finalized + 1) IN
         IF from > pass[r].end
           THEN Goto(r, [pass[r] EXCEPT !.pc = "write"])
           ELSE Goto(r, [pass[r] EXCEPT !.pc = "anchor_blocks", !.from = from])
    /\ UNCHANGED <<sourceVars, dbVars>>

AnchorBlocks(r) ==
    /\ pass[r].pc = "anchor_blocks"
    /\ Covers(pass[r].end)
    /\ Goto(r, [pass[r] EXCEPT
                  !.pc = "write",
                  !.from = 0,
                  !.fresh = AnchorsFromBlocks(pass[r].from, pass[r].end)])
    /\ UNCHANGED <<sourceVars, dbVars>>

\* Headers that do not cover the range end the poll with nothing written.
AnchorBlocksWait(r) ==
    /\ pass[r].pc = "anchor_blocks"
    /\ EndPass(r)
    /\ UNCHANGED <<sourceVars, dbVars>>

\* Mutant: next_block is one too high.
WriteRangeSkipsOne(r) ==
    /\ pass[r].pc = "write"
    /\ LET next == pass[r].end + 2 IN
         /\ rows' = rows \cup pass[r].logs
         /\ anchors' = [b \in Height |-> IF pass[r].fresh[b] = NoFork
                                           THEN anchors[b] ELSE pass[r].fresh[b]]
         /\ checkpoint' = next
         /\ EndPass(r)
    /\ UNCHANGED sourceVars

\* write_events_and_advance_checkpoint: one transaction, then the loop test.
WriteRange(r) ==
    /\ pass[r].pc = "write"
    /\ LET next == pass[r].end + 1 IN
         /\ rows' = rows \cup pass[r].logs
         /\ anchors' = [b \in Height |-> IF pass[r].fresh[b] = NoFork
                                           THEN anchors[b] ELSE pass[r].fresh[b]]
         /\ checkpoint' = next
         /\ IF pass[r].stop \/ next > pass[r].target
              THEN EndPass(r)
              ELSE Goto(r, [Idle EXCEPT !.pc = "logs", !.next = next,
                                        !.target = pass[r].target,
                                        !.verified = pass[r].verified])
    /\ UNCHANGED sourceVars

\* Any await may fail, and the process may die and restart: the pass is gone,
\* an open transaction rolls back, and the loop starts over from the database.
Abort(r) ==
    /\ pass[r].pc # "idle"
    /\ EndPass(r)
    /\ UNCHANGED <<sourceVars, dbVars>>

-----------------------------------------------------------------------------
RunnerStep(r) ==
    \/ ReadOrCreate(r)
    \/ ReorgHeads(r) \/ ReorgAnchors(r)
    \/ ReorgCheckWaits(r) \/ ReorgCheckCompares(r) \/ RollbackReorged(r)
    \/ LatestBlock(r)
    \/ QueryLogs(r) \/ QueryLogsServesNothing(r)
    \/ AnchorHeads(r) \/ AnchorBlocks(r) \/ AnchorBlocksWait(r)
    \/ WriteRange(r)
    \/ Abort(r)

SourceStep ==
    /\ \/ NewBlock \/ AdvanceSafe \/ AdvanceFinalized
       \/ /\ ReorgsAnytime \/ \A r \in Runner : pass[r].pc = "idle"
          /\ Reorg
    /\ UNCHANGED <<dbVars, pass>>

Next == SourceStep \/ \E r \in Runner : RunnerStep(r)

Spec == Init /\ [][Next]_vars

\* The loop never stops polling (poll_interval and failure_backoff are finite
\* sleeps), and neither Datalens nor the database fails a kind of call for
\* ever: a call that is made again and again succeeds in the end.  The chain
\* keeps growing.
Fairness ==
    /\ WF_vars(NewBlock /\ UNCHANGED <<dbVars, pass>>)
    /\ \A r \in Runner :
           /\ WF_vars(ReadOrCreate(r))
           /\ SF_vars(ReorgHeads(r)) /\ SF_vars(ReorgAnchors(r))
           /\ SF_vars(ReorgCheckCompares(r)) /\ SF_vars(RollbackReorged(r))
           /\ SF_vars(LatestBlock(r)) /\ SF_vars(QueryLogs(r))
           /\ SF_vars(AnchorHeads(r)) /\ SF_vars(AnchorBlocks(r))
           /\ SF_vars(WriteRange(r))

FairSpec == Spec /\ Fairness
-----------------------------------------------------------------------------
(***************************************************************************)
(* Properties.  `SettledMode' is what the finalized and durable modes rely *)
(* on instead of anchors: the head they follow is never reorged.           *)
(***************************************************************************)
SettledMode ==
    \/ FinalityMode = "finalized"
    \/ FinalityMode = "durable" /\ ~SafeMayReorg

IndexedBelow(next) ==
    \A b \in StartBlock..(next - 1) : Canonical(b) \in rows \cup EmptyBlocks

\* Without anchors, everything the writer ever commits is the event of a block
\* that can no longer change, whoever else is indexing the chain
\* (src/runner.rs:316-421, src/config.rs:249).
SettledRowsCanonical ==
    \A row \in rows : row[1] <= Settled /\ row = Canonical(row[1])

\* No block is ever skipped: whatever partial serves, failures, restarts and
\* concurrent writers did, every block below the checkpoint has its events in
\* the tables (src/runner.rs:325-361, 383-421).
BelowCheckpointComplete == IndexedBelow(checkpoint)

\* The checkpoint never claims less than the tables hold: what a restart reads
\* back describes the rows it finds (src/database.rs:292-321, 156-212).
RowsBelowCheckpoint ==
    \A row \in rows : StartBlock <= row[1] /\ row[1] < checkpoint

\* The tables never mix two branches of the chain at one height: a rollback
\* removes the abandoned block before its replacement is written
\* (src/database.rs:178-190).
OneForkPerHeight ==
    \A x, y \in rows : x[1] = y[1] => x = y

\* Every indexed block that can still be reorged has an anchor, so that the
\* next check can notice; an unanchored one would be read as a reorg and roll
\* back for nothing (src/runner.rs:536-539, 585-634).
AnchorsCoverUnfinalized ==
    \A b \in StartBlock..(checkpoint - 1) :
        b > finalized => anchors[b] # NoFork

\* An anchor vouches for the rows of its block: both were read from the same
\* branch, so comparing the anchor finds out about the rows
\* (src/runner.rs:292-314 reads the logs, 595-604 the header, later).
RowsMatchAnchors ==
    \A row \in rows : anchors[row[1]] \in {NoFork, row[2]}

\* An anchor never stands for a block whose events are not in the tables, not
\* even when two processes roll back and write across each other: a hole below
\* the checkpoint has no anchor, so the next check takes it for a reorg and
\* indexes it again (src/runner.rs:536-539, src/database.rs:292-321, 196-205).
AnchorsBackedByRows ==
    \A b \in Height : anchors[b] # NoFork =>
        \E f \in ForkId : <<b, f>> \in rows \cup EmptyBlocks

\* What a completed reorg check promises the rest of its pass: no row of an
\* abandoned block is left in the range it compared (src/runner.rs:536-567).
CheckedRowsCanonical ==
    \A r \in Runner : pass[r].pc \notin {"idle", "rollback"} =>
        \A row \in rows :
            row[1] >= pass[r].verified => row = Canonical(row[1])

\* The checkpoint moves back only to a block with a recorded hash that is no
\* longer the chain's, or whose header Datalens left out of an answer it calls
\* complete: never for want of an anchor, and never on the word of an answer the
\* chain has contradicted by the time of the rollback (src/runner.rs:536-564).
RollbackIsJustified ==
    [][checkpoint' < checkpoint =>
          /\ anchors[checkpoint'] # NoFork
          /\ \/ anchors[checkpoint'] # chain[checkpoint']
             \/ \E r \in Runner : /\ pass[r].pc = "rollback" /\ pass[r].absent
                                 /\ pass[r].rollback = checkpoint']_vars

\* Every block the mode's head has passed by more than the buffer is indexed in
\* the end, however often calls fail, serves stop short or the process restarts
\* (src/runner.rs:133-169, 212-252).
CatchesUp ==
    \A b \in Height :
        b + HeadBuffer <= finalized ~> checkpoint > b

\* Rows of an abandoned block go away, unless a check gets to see them too late:
\* the replacement is finalized, or the checkpoint has gone on for more than the
\* window (src/runner.rs:478-482, 536-567).
StaleRowsRemoved ==
    \A row \in Block :
        row \in rows /\ row # Canonical(row[1])
          ~> \/ row \notin rows
             \/ row[1] <= finalized \/ row[1] + ReorgWindow < checkpoint

\* A reader of a settled mode's tables sees the events of a growing prefix of
\* the settled chain: the abstract specification, whatever Runner is.
Prefix == INSTANCE IndexedPrefix WITH
    Start <- StartBlock, MaxHeight <- MaxBlock, Hash <- ForkId,
    Empty <- EmptyBlocks,
    ledger <- [b \in 0..Settled |-> chain[b]],
    next <- IF checkpoint = NoCheckpoint THEN StartBlock ELSE checkpoint,
    events <- rows

\* Every step of every process is, to that reader, the settled chain growing, a
\* range of it being indexed from where all below is indexed, or nothing
\* (src/runner.rs:188-467, src/database.rs:292-321).
ImplementsPrefix == Prefix!PrefixSpec
=============================================================================
