------------------------- MODULE SingleRunnerProofs -------------------------
(***************************************************************************)
(* Theorems about ChainRunner with one process, the intended deployment,   *)
(* for every chain and every mode.                                         *)
(*                                                                         *)
(* Nothing in the code excludes a second process; what is proved here is   *)
(* what the deployment buys by running one.  Nobody else then writes to    *)
(* the tables of the chain, so that from its first transaction to its last *)
(* a pass holds the checkpoint that is stored, and what it has read of the *)
(* tables is still so when it comes to write.  What it has read of the     *)
(* chain may not be.                                                       *)
(***************************************************************************)
EXTENDS ChainRunnerProofs

SingleRunner == \E r : Runner = {r}

Reading == {"anchor_heads", "anchor_blocks", "write"}  \* the logs are in hand

LEMMA PassBounds ==
    ASSUME TypeOK, NEW r \in Runner
    PROVE  pass[r].next \in Nat /\ ServedUpTo \in Height /\ RangeEnd(r) \in Int
<1> USE SourceAssumption, RunnerAssumption
<1>1. pass[r] \in Pass
  BY DEF TypeOK
<1>2. pass[r].next \in Nat /\ pass[r].target \in Nat
  BY <1>1 DEF Pass, Position, Height
<1>3. RangeEnd(r) \in Int
  BY <1>2 DEF RangeEnd, Smaller
<1>4. ServedUpTo \in Height
  BY DEF TypeOK, SourceTypeOK, ServedUpTo, Height, Smaller
<1> QED BY <1>2, <1>3, <1>4

LEMMA Alone ==
    ASSUME TypeOK, NEW r, Runner = {r}, NEW locals, Goto(r, locals)
    PROVE  pass'[r] = locals
BY DEF TypeOK, Goto

(***************************************************************************)
(* Every mode.  SingleInv adds to the two properties that a pass holds the *)
(* stored checkpoint, and that the logs it holds are those of the range    *)
(* from there, one branch at each height.                                  *)
(***************************************************************************)
HeightsIndexed == \A b \in StartBlock..(checkpoint - 1) : Held(rows, b)

AnchorsBelowCheckpoint ==
    \A b \in Height : anchors[b] # NoFork => b < checkpoint

LogsOfRange(p) ==
    /\ p.next <= p.end
    /\ \A row \in p.logs : p.next <= row[1] /\ row[1] <= p.end
    /\ \A x, y \in p.logs : x[1] = y[1] => x = y
    /\ \A b \in p.next..p.end : Held(p.logs, b)

SinglePass(p) ==
    /\ p.pc # "idle" => StartBlock <= p.next /\ p.next = checkpoint
    /\ p.pc \notin {"idle", "head", "logs", "write"} => UsesReorgProtection
    /\ p.pc \in {"reorg_anchors", "reorg_blocks"} => StartBlock <= p.from
    /\ p.pc = "rollback" => p.rollback \in StartBlock..(p.next - 1)
    /\ p.pc \in Reading => LogsOfRange(p)
    /\ p.pc = "anchor_heads" => p.fresh = NoAnchors
    /\ p.pc = "anchor_blocks" => p.next <= p.from
    /\ p.pc = "write" =>
         \A b \in Height : p.fresh[b] # NoFork => b \in p.next..p.end

SingleInv ==
    /\ checkpoint = NoCheckpoint \/ StartBlock <= checkpoint
    /\ RowsBelowCheckpoint
    /\ OneForkPerHeight
    /\ HeightsIndexed
    /\ AnchorsBelowCheckpoint
    /\ \A r \in Runner : SinglePass(pass[r])

\* A step that leaves the tables alone need only be looked at for the pass.
LEMMA SingleQuiet ==
    ASSUME SingleInv, NEW r, Runner = {r}, UNCHANGED dbVars, SinglePass(pass[r])'
    PROVE  SingleInv'
BY DEF SingleInv, dbVars, RowsBelowCheckpoint, OneForkPerHeight, HeightsIndexed,
       AnchorsBelowCheckpoint, Held

LEMMA SingleReads ==
    ASSUME TypeOK, SingleInv, NEW r, Runner = {r}, QueryLogs(r)
    PROVE  SingleInv'
<1> USE SourceAssumption, RunnerAssumption
<1> DEFINE p == pass[r]
<1>1. PICK end \in p.next..Smaller(RangeEnd(r), ServedUpTo), incomplete \in BOOLEAN :
        Goto(r, [p EXCEPT
                  !.pc = IF UsesReorgProtection THEN "anchor_heads" ELSE "write",
                  !.end = end,
                  !.stop = incomplete \/ end < RangeEnd(r),
                  !.logs = LogsIn(p.next, end),
                  !.fresh = IF UsesReorgProtection THEN NoAnchors
                            ELSE AnchorsFromLogs(LogsIn(p.next, end))])
  BY DEF QueryLogs
<1>2. /\ p \in Pass /\ SinglePass(p) /\ p.pc = "logs"
      /\ p.next \in Nat /\ ServedUpTo \in Height /\ RangeEnd(r) \in Int
  <2>1. p \in Pass /\ SinglePass(p) /\ p.pc = "logs"
    BY DEF TypeOK, SingleInv, QueryLogs
  <2> QED BY <2>1, PassBounds
<1>3. end \in Height /\ p.next <= end
  BY <1>1, <1>2 DEF Smaller, Height
<1> DEFINE logs == LogsIn(p.next, end)
           locals == [p EXCEPT
                  !.pc = IF UsesReorgProtection THEN "anchor_heads" ELSE "write",
                  !.end = end,
                  !.stop = incomplete \/ end < RangeEnd(r),
                  !.logs = logs,
                  !.fresh = IF UsesReorgProtection THEN NoAnchors
                            ELSE AnchorsFromLogs(logs)]
<1>4. /\ locals.pc = IF UsesReorgProtection THEN "anchor_heads" ELSE "write"
      /\ locals.next = p.next /\ locals.end = end /\ locals.logs = logs
      /\ locals.fresh = IF UsesReorgProtection THEN NoAnchors
                        ELSE AnchorsFromLogs(logs)
  BY <1>2 DEF Pass
<1>5. \A row \in logs : row[1] \in p.next..end /\ row = Canonical(row[1])
  BY DEF LogsIn, Canonical
<1>6. \A b \in p.next..end : Held(logs, b)
  <2> SUFFICES ASSUME NEW b \in p.next..end PROVE Held(logs, b)
    OBVIOUS
  <2>1. chain[b] \in ForkId
    BY <1>2, <1>3 DEF TypeOK, SourceTypeOK, Height
  <2>2. <<b, chain[b]>> \in logs \cup EmptyBlocks
    BY DEF LogsIn, Canonical
  <2> QED BY <2>1, <2>2 DEF Held
<1>7. \A b \in Height : AnchorsFromLogs(logs)[b] # NoFork => b \in p.next..end
  BY <1>5 DEF AnchorsFromLogs
<1>8. pass'[r] = locals /\ UNCHANGED dbVars
  BY <1>1, Alone DEF QueryLogs
<1>9. LogsOfRange(locals)
  <2> HIDE DEF locals, logs, p
  <2>1. \A x, y \in logs : x[1] = y[1] => x = y
    BY <1>5
  <2>2. \A row \in logs : p.next <= row[1] /\ row[1] <= end
    BY <1>2, <1>3, <1>5 DEF Height
  <2> QED BY <1>3, <1>4, <1>6, <2>1, <2>2 DEF LogsOfRange
<1>10. SinglePass(pass[r])'
  <2> HIDE DEF locals, logs, p
  <2>1. p.next = checkpoint' /\ StartBlock <= p.next
    BY <1>2, <1>8 DEF SinglePass, dbVars
  <2> QED BY <1>4, <1>7, <1>8, <1>9, <2>1 DEF SinglePass
<1> QED BY <1>8, <1>10, SingleQuiet

LEMMA SingleWrites ==
    ASSUME TypeOK, SingleInv, NEW r, Runner = {r}, WriteRange(r)
    PROVE  SingleInv'
<1> USE SourceAssumption, RunnerAssumption
<1> DEFINE p == pass[r]
<1>1. /\ p \in Pass /\ SinglePass(p) /\ LogsOfRange(p) /\ p.pc = "write"
      /\ StartBlock <= p.next /\ p.next = checkpoint
      /\ \A b \in Height : p.fresh[b] # NoFork => b \in p.next..p.end
  BY DEF WriteRange, TypeOK, SingleInv, SinglePass, Reading
<1>2. /\ p.next \in Nat /\ p.end \in Nat /\ StartBlock \in Nat
      /\ p.logs \subseteq Block /\ rows \subseteq Block
  BY <1>1 DEF TypeOK, Pass, Position, Height
<1>3. /\ rows' = rows \cup p.logs /\ checkpoint' = p.end + 1
      /\ anchors' = [b \in Height |-> IF p.fresh[b] = NoFork
                                        THEN anchors[b] ELSE p.fresh[b]]
  BY DEF WriteRange
<1>b. \A row \in Block : row[1] \in Int
  BY DEF Block, Height
<1>4. RowsBelowCheckpoint'
  <2> HIDE DEF p
  <2>1. \A row \in rows : StartBlock <= row[1] /\ row[1] < p.next
    BY <1>1 DEF SingleInv, RowsBelowCheckpoint
  <2>2. \A row \in p.logs : p.next <= row[1] /\ row[1] <= p.end
    BY <1>1 DEF LogsOfRange
  <2>3. p.next <= p.end
    BY <1>1 DEF LogsOfRange
  <2> SUFFICES ASSUME NEW row \in rows \cup p.logs
               PROVE  StartBlock <= row[1] /\ row[1] < p.end + 1
    BY <1>3 DEF RowsBelowCheckpoint
  <2>4. row[1] \in Int
    BY <1>b, <1>2
  <2> QED BY <1>1, <1>2, <2>1, <2>2, <2>3, <2>4
<1>5. OneForkPerHeight'
  <2> HIDE DEF p
  <2>1. \A x, y \in rows : x[1] = y[1] => x = y
    BY DEF SingleInv, OneForkPerHeight
  <2>2. \A x, y \in p.logs : x[1] = y[1] => x = y
    BY <1>1 DEF LogsOfRange
  <2>3. \A x \in rows, y \in p.logs : x[1] # y[1]
    <3> SUFFICES ASSUME NEW x \in rows, NEW y \in p.logs PROVE x[1] # y[1]
      OBVIOUS
    <3>1. x[1] \in Int /\ y[1] \in Int
      BY <1>b, <1>2
    <3>2. x[1] < p.next
      BY <1>1 DEF SingleInv, RowsBelowCheckpoint
    <3>3. p.next <= y[1]
      BY <1>1 DEF LogsOfRange
    <3> QED BY <1>2, <3>1, <3>2, <3>3
  <2> QED BY <1>3, <2>1, <2>2, <2>3 DEF OneForkPerHeight
<1>6. HeightsIndexed'
  <2> HIDE DEF p
  <2> SUFFICES ASSUME NEW b \in StartBlock..(checkpoint' - 1)
               PROVE  \E f \in ForkId : <<b, f>> \in rows' \cup EmptyBlocks
    BY DEF HeightsIndexed, Held
  <2>0. b \in StartBlock..p.end
    BY <1>2, <1>3
  <2>1. CASE b < p.next
    <3>1. b \in StartBlock..(checkpoint - 1)
      BY <1>1, <1>2, <2>0, <2>1
    <3> QED BY <1>3, <3>1 DEF SingleInv, HeightsIndexed, Held
  <2>2. CASE ~(b < p.next)
    <3>1. b \in p.next..p.end
      BY <1>2, <2>0, <2>2
    <3> QED BY <1>1, <1>3, <3>1 DEF LogsOfRange, Held
  <2> QED BY <2>1, <2>2
<1>7. AnchorsBelowCheckpoint'
  <2> SUFFICES ASSUME NEW b \in Height, anchors'[b] # NoFork
               PROVE  b < p.end + 1
    BY <1>3 DEF AnchorsBelowCheckpoint
  <2> HIDE DEF p
  <2>1. CASE p.fresh[b] # NoFork
    BY <1>1, <1>2, <2>1
  <2>2. CASE p.fresh[b] = NoFork
    <3>1. b < p.next
      BY <1>1, <1>3, <2>2 DEF SingleInv, AnchorsBelowCheckpoint
    <3> QED BY <1>1, <1>2, <3>1 DEF LogsOfRange, Height
  <2> QED BY <2>1, <2>2
<1> DEFINE more == [Idle EXCEPT !.pc = "logs", !.next = p.end + 1,
                                !.target = p.target, !.verified = p.verified]
<1>8. pass'[r] = Idle \/ pass'[r] = more
  BY Alone DEF WriteRange, EndPass
<1>9. Idle.pc = "idle" /\ more.pc = "logs" /\ more.next = p.end + 1
  BY DEF Idle
<1>10. SinglePass(pass[r])'
  <2> HIDE DEF p, more
  <2>1. StartBlock <= p.end + 1
    BY <1>1, <1>2 DEF LogsOfRange
  <2> QED BY <1>3, <1>8, <1>9, <2>1 DEF SinglePass, Reading
<1>11. StartBlock <= checkpoint'
  BY <1>1, <1>2, <1>3 DEF LogsOfRange
<1> QED BY <1>4, <1>5, <1>6, <1>7, <1>10, <1>11 DEF SingleInv

LEMMA SingleRollsBack ==
    ASSUME TypeOK, SingleInv, NEW r, Runner = {r}, RollbackReorged(r)
    PROVE  SingleInv'
<1> USE SourceAssumption, RunnerAssumption
<1> DEFINE first == pass[r].rollback
<1>1. /\ first \in StartBlock..(checkpoint - 1)
      /\ StartBlock \in Nat /\ checkpoint \in Int /\ rows \subseteq Block
  BY DEF RollbackReorged, TypeOK, SingleInv, SinglePass, Position, Height, NoCheckpoint
<1>2. /\ rows' = {row \in rows : row[1] < first} /\ checkpoint' = first
      /\ anchors' = [b \in Height |-> IF b >= first THEN NoFork ELSE anchors[b]]
  BY DEF RollbackReorged
<1>3. RowsBelowCheckpoint'
  BY <1>2 DEF SingleInv, RowsBelowCheckpoint
<1>4. OneForkPerHeight'
  BY <1>2 DEF SingleInv, OneForkPerHeight
<1>5. HeightsIndexed'
  <2> HIDE DEF first
  <2> SUFFICES ASSUME NEW b \in StartBlock..(first - 1)
               PROVE  \E f \in ForkId : <<b, f>> \in rows' \cup EmptyBlocks
    BY <1>2 DEF HeightsIndexed, Held
  <2>1. b \in StartBlock..(checkpoint - 1) /\ b < first
    BY <1>1
  <2>2. PICK f \in ForkId : <<b, f>> \in rows \cup EmptyBlocks
    BY <2>1 DEF SingleInv, HeightsIndexed, Held
  <2> QED BY <1>2, <2>1, <2>2
<1>6. AnchorsBelowCheckpoint'
  <2> HIDE DEF first
  <2> QED BY <1>1, <1>2 DEF AnchorsBelowCheckpoint, Height
<1> DEFINE locals == [Idle EXCEPT !.pc = "head", !.next = first,
                                  !.verified = pass[r].verified]
<1>7. pass'[r] = locals
  BY Alone DEF RollbackReorged
<1>8. locals.pc = "head" /\ locals.next = first
  BY DEF Idle
<1>9. SinglePass(pass[r])'
  <2> HIDE DEF first, locals
  <2> QED BY <1>1, <1>2, <1>7, <1>8 DEF SinglePass, Reading
<1> QED BY <1>1, <1>2, <1>3, <1>4, <1>5, <1>6, <1>9 DEF SingleInv

LEMMA SingleStep ==
    ASSUME SingleRunner, TypeOK, SingleInv, [Next]_vars
    PROVE  SingleInv'
<1> USE SourceAssumption, RunnerAssumption
<1>1. ASSUME UNCHANGED <<dbVars, pass>> PROVE SingleInv'
  BY <1>1 DEF dbVars, SingleInv, RowsBelowCheckpoint, OneForkPerHeight, HeightsIndexed,
              AnchorsBelowCheckpoint, Held, SinglePass, LogsOfRange
<1>2. ASSUME NEW r \in Runner, RunnerStep(r) PROVE SingleInv'
  <2> DEFINE p == pass[r]
  <2>r. Runner = {r}
    BY DEF SingleRunner
  <2>p. /\ p \in Pass /\ SinglePass(p)
        /\ p.next \in Int /\ p.from \in Int /\ StartBlock \in Int /\ checkpoint \in Int
    BY DEF TypeOK, SingleInv, Pass, Position, Height, NoCheckpoint
  <2>e. ASSUME UNCHANGED dbVars, EndPass(r) PROVE SingleInv'
    <3>1. pass'[r] = Idle
      BY <2>e, <2>r, Alone DEF EndPass
    <3>2. SinglePass(pass[r])'
      BY <3>1 DEF SinglePass, Idle, Reading
    <3> QED BY <2>e, <2>r, <3>2, SingleQuiet
  \* The program points of which only the checkpoint is remembered.
  <2>h. ASSUME UNCHANGED dbVars, NEW locals, Goto(r, locals), p.pc # "idle",
               locals.pc \in {"head", "logs"}, locals.next = p.next
        PROVE  SingleInv'
    <3>1. pass'[r] = locals
      BY <2>h, <2>r, Alone
    <3>2. SinglePass(pass[r])'
      BY <2>h, <2>p, <3>1 DEF SinglePass, Reading, dbVars
    <3> QED BY <2>h, <2>r, <3>2, SingleQuiet
  <2>1. CASE ReadOrCreate(r)
    <3> DEFINE start == IF checkpoint = NoCheckpoint THEN StartBlock ELSE checkpoint
               pc == IF UsesReorgProtection /\ start > 0 THEN "reorg_heads" ELSE "head"
    <3>1. /\ checkpoint' = start /\ UNCHANGED <<anchors, rows>>
          /\ Goto(r, [Idle EXCEPT !.pc = pc, !.next = start])
      BY <2>1 DEF ReadOrCreate
    <3>2. pass'[r] = [Idle EXCEPT !.pc = pc, !.next = start]
      BY <2>r, <3>1, Alone
    <3>3. /\ pass'[r].pc = pc /\ pass'[r].next = start
      BY <3>2 DEF Idle
    <3>4. StartBlock <= start
      BY <2>p DEF SingleInv
    <3>5. SinglePass(pass[r])'
      BY <3>1, <3>3, <3>4 DEF SinglePass, Reading
    <3>6. RowsBelowCheckpoint' /\ AnchorsBelowCheckpoint' /\ OneForkPerHeight'
      <4>1. CASE checkpoint = NoCheckpoint
        <5>1. \A row \in rows : row[1] \in Nat
          BY DEF TypeOK, Block, Height
        <5>2. rows = {}
          BY <4>1, <5>1 DEF SingleInv, RowsBelowCheckpoint, NoCheckpoint
        <5>3. \A b \in Height : anchors[b] = NoFork
          BY <4>1 DEF SingleInv, AnchorsBelowCheckpoint, NoCheckpoint, Height
        <5> QED BY <3>1, <5>2, <5>3
                DEF RowsBelowCheckpoint, AnchorsBelowCheckpoint, OneForkPerHeight
      <4>2. CASE checkpoint # NoCheckpoint
        BY <3>1, <4>2
        DEF SingleInv, RowsBelowCheckpoint, AnchorsBelowCheckpoint, OneForkPerHeight
      <4> QED BY <4>1, <4>2
    <3>7. HeightsIndexed'
      <4>1. CASE checkpoint = NoCheckpoint
        BY <2>p, <3>1, <4>1 DEF HeightsIndexed
      <4>2. CASE checkpoint # NoCheckpoint
        BY <3>1, <4>2 DEF SingleInv, HeightsIndexed, Held
      <4> QED BY <4>1, <4>2
    <3> QED BY <2>r, <3>1, <3>4, <3>5, <3>6, <3>7 DEF SingleInv
  <2>2. CASE ReorgHeads(r)
    <3> DEFINE from == CheckFrom(p.next)
    <3>0. p.pc = "reorg_heads" /\ UNCHANGED dbVars
      BY <2>2 DEF ReorgHeads
    <3>1. StartBlock <= from
      BY <2>p DEF CheckFrom, Larger, SaturatingSub, TypeOK, SourceTypeOK, Height
    <3>2. CASE from > p.next - 1
      <4> HIDE DEF from
      <4>1. Goto(r, [p EXCEPT !.pc = "head", !.verified = from])
        BY <2>2, <3>2 DEF ReorgHeads, from
      <4> QED BY <2>p, <2>h, <3>0, <4>1 DEF Pass
    <3>3. CASE ~(from > p.next - 1)
      <4> HIDE DEF from
      <4>1. Goto(r, [p EXCEPT !.pc = "reorg_anchors", !.from = from])
        BY <2>2, <3>3 DEF ReorgHeads, from
      <4>2. /\ pass'[r].pc = "reorg_anchors" /\ pass'[r].from = from
            /\ pass'[r].next = p.next
        BY <2>p, <2>r, <4>1, Alone DEF Pass
      <4>3. SinglePass(pass[r])'
        BY <2>p, <3>0, <3>1, <4>2 DEF SinglePass, Reading, dbVars
      <4> QED BY <2>r, <3>0, <4>3, SingleQuiet
    <3> QED BY <3>2, <3>3
  <2>3. CASE ReorgAnchors(r)
    <3>1. PICK stored : Goto(r, [p EXCEPT !.pc = "reorg_blocks", !.stored = stored])
      BY <2>3 DEF ReorgAnchors
    <3>2. /\ pass'[r].pc = "reorg_blocks" /\ pass'[r].from = p.from
          /\ pass'[r].next = p.next
      BY <2>p, <2>r, <3>1, Alone DEF Pass
    <3>3. SinglePass(pass[r])'
      BY <2>3, <2>p, <3>2 DEF ReorgAnchors, SinglePass, Reading, dbVars
    <3> QED BY <2>3, <2>r, <3>3, SingleQuiet DEF ReorgAnchors
  <2>4. CASE ReorgCheckWaits(r)
    BY <2>4, <2>p, <2>h DEF ReorgCheckWaits, Idle
  <2>5. CASE ReorgCheckCompares(r)
    <3>0. p.pc = "reorg_blocks" /\ UNCHANGED dbVars
      BY <2>5 DEF ReorgCheckCompares
    <3>1. PICK missing : FindsNothing(r, missing) \/ \E first : Finds(r, missing, first)
      BY <2>5, CompareCases
    <3>2. CASE FindsNothing(r, missing)
      BY <2>p, <2>h, <3>0, <3>2, ComparedFields DEF FindsNothing
    <3>3. ASSUME NEW first, Finds(r, missing, first) PROVE SingleInv'
      <4>1. first \in p.from..(p.next - 1) /\ pass'[r] = Back(p, first, first \in missing)
        BY <2>r, <3>3, Alone DEF Finds, Differs
      <4>2. /\ pass'[r].pc = "rollback" /\ pass'[r].next = p.next
            /\ pass'[r].rollback = first
        BY <4>1, ComparedFields
      <4>3. SinglePass(pass[r])'
        BY <2>p, <3>0, <4>1, <4>2 DEF SinglePass, Reading, dbVars
      <4> QED BY <2>r, <3>0, <4>3, SingleQuiet
    <3> QED BY <3>1, <3>2, <3>3
  <2>6. CASE LatestBlock(r)
    <3> DEFINE target == SaturatingSub(HeadHeight, HeadBuffer)
    <3>1. EndPass(r) \/ Goto(r, [p EXCEPT !.pc = "logs", !.target = target])
      BY <2>6 DEF LatestBlock
    <3>2. p.pc = "head" /\ UNCHANGED dbVars
      BY <2>6 DEF LatestBlock
    <3> HIDE DEF target
    <3> QED BY <2>p, <2>e, <2>h, <3>1, <3>2 DEF Pass
  <2>7. CASE QueryLogsServesNothing(r) \/ AnchorBlocksWait(r) \/ Abort(r)
    BY <2>7, <2>e DEF QueryLogsServesNothing, AnchorBlocksWait, Abort
  <2>8. CASE AnchorHeads(r)
    <3> DEFINE from == Larger(p.next, finalized + 1)
    <3>1. p.pc = "anchor_heads" /\ UNCHANGED dbVars
      BY <2>8 DEF AnchorHeads
    <3>2. p.next <= from
      BY <2>p DEF Larger, TypeOK, SourceTypeOK, Height
    <3>3. /\ pass'[r].next = p.next /\ pass'[r].end = p.end /\ pass'[r].logs = p.logs
          /\ pass'[r].fresh = p.fresh
          /\ \/ pass'[r].pc = "write"
             \/ pass'[r].pc = "anchor_blocks" /\ pass'[r].from = from
      <4>1. \/ Goto(r, [p EXCEPT !.pc = "write"])
            \/ Goto(r, [p EXCEPT !.pc = "anchor_blocks", !.from = from])
        BY <2>8 DEF AnchorHeads
      <4> HIDE DEF from
      <4>2. CASE pass'[r] = [p EXCEPT !.pc = "write"]
        BY <2>p, <4>2 DEF Pass
      <4>3. CASE pass'[r] = [p EXCEPT !.pc = "anchor_blocks", !.from = from]
        BY <2>p, <4>3 DEF Pass
      <4> QED BY <2>r, <4>1, <4>2, <4>3, Alone
    <3> HIDE DEF from
    <3>4. SinglePass(pass[r])'
      BY <2>p, <3>1, <3>2, <3>3
      DEF SinglePass, Reading, dbVars, LogsOfRange, NoAnchors, Held
    <3> QED BY <2>r, <3>1, <3>4, SingleQuiet
  <2>9. CASE AnchorBlocks(r)
    <3> DEFINE fresh == AnchorsFromBlocks(p.from, p.end)
    <3>1. /\ p.pc = "anchor_blocks" /\ UNCHANGED dbVars
          /\ Goto(r, [p EXCEPT !.pc = "write", !.from = 0, !.fresh = fresh])
      BY <2>9 DEF AnchorBlocks
    <3>2. p.end \in Int
      BY <2>p DEF Pass, Height
    <3>3. \A b \in Height : fresh[b] # NoFork => b \in p.next..p.end
      BY <2>p, <3>1, <3>2 DEF AnchorsFromBlocks, SinglePass, Height
    <3> HIDE DEF fresh
    <3>4. /\ pass'[r].pc = "write" /\ pass'[r].next = p.next /\ pass'[r].end = p.end
          /\ pass'[r].logs = p.logs /\ pass'[r].fresh = fresh
      <4>1. pass'[r] = [p EXCEPT !.pc = "write", !.from = 0, !.fresh = fresh]
        BY <2>r, <3>1, Alone
      <4> HIDE DEF p
      <4> QED BY <2>p, <4>1 DEF Pass
    <3>5. SinglePass(pass[r])'
      BY <2>p, <3>1, <3>3, <3>4 DEF SinglePass, Reading, dbVars, LogsOfRange, Held
    <3> QED BY <2>r, <3>1, <3>5, SingleQuiet
  <2> QED BY <1>2, <2>r, <2>1, <2>2, <2>3, <2>4, <2>5, <2>6, <2>7, <2>8, <2>9,
             SingleReads, SingleWrites, SingleRollsBack DEF RunnerStep
<1> QED BY <1>1, <1>2 DEF Next, SourceStep, vars

THEOREM SingleInvariant == ASSUME SingleRunner PROVE Spec => []SingleInv
<1>1. Init => SingleInv
  BY SourceAssumption, RunnerAssumption
  DEF Init, SingleInv, RowsBelowCheckpoint, OneForkPerHeight, HeightsIndexed,
      AnchorsBelowCheckpoint, SinglePass, Reading, NoAnchors, Idle, NoCheckpoint, Height
<1>2. TypeOK /\ SingleInv /\ [Next]_vars => SingleInv'
  BY SingleStep
<1> QED BY <1>1, <1>2, TypeCorrect, PTL DEF Spec

\* With one process the checkpoint a restart reads back lies above every row it
\* finds, in every mode and whatever the chain does between the calls of a pass
\* (src/database.rs:292-321, 156-212).
THEOREM CheckpointAboveRows ==
    ASSUME SingleRunner PROVE Spec => []RowsBelowCheckpoint
<1>1. SingleInv => RowsBelowCheckpoint
  BY DEF SingleInv
<1> QED BY <1>1, SingleInvariant, PTL

\* With one process the tables hold one branch at each height, even in the
\* modes whose blocks are reorged away under the pass
\* (src/database.rs:178-190, src/runner.rs:383-421).
THEOREM OneFork ==
    ASSUME SingleRunner PROVE Spec => []OneForkPerHeight
<1>1. SingleInv => OneForkPerHeight
  BY DEF SingleInv
<1> QED BY <1>1, SingleInvariant, PTL

\* With one process no height below the checkpoint is skipped, in any mode: a
\* block of it is in the tables, if not the one that is canonical now
\* (src/runner.rs:325-361, 383-421).
THEOREM NoHeightSkipped ==
    ASSUME SingleRunner PROVE Spec => []HeightsIndexed
<1>1. SingleInv => HeightsIndexed
  BY DEF SingleInv
<1> QED BY <1>1, SingleInvariant, PTL

(***************************************************************************)
(* The safe and latest modes, with reorgs at any moment.  A fork number is *)
(* never reused, so a stored hash that differs from the chain's will       *)
(* always differ: CoverInv bounds every recorded fork by the one being     *)
(* built on.                                                               *)
(***************************************************************************)
CoverPass(p) ==
    /\ p.pc \in {"reorg_anchors", "reorg_blocks"} =>
         \A b \in p.from..(p.next - 1) : anchors[b] # NoFork
    /\ p.pc = "reorg_blocks" =>
         \A b \in p.from..(p.next - 1) : p.stored[b] = anchors[b]
    /\ p.pc = "rollback" =>
         /\ anchors[p.rollback] # NoFork
         /\ anchors[p.rollback] # chain[p.rollback] \/ p.absent
    /\ p.pc = "anchor_blocks" =>
         \A b \in p.next..p.end : b > finalized => p.from <= b
    /\ p.pc = "write" =>
         \A b \in p.next..p.end : b > finalized => p.fresh[b] # NoFork
    /\ \A b \in Height : p.fresh[b] <= fork

CoverInv ==
    /\ AnchorsCoverUnfinalized
    /\ \A b \in Height : anchors[b] <= fork
    /\ \A r \in Runner : CoverPass(pass[r])

\* The world's steps: heads advance, and a reorg takes a new fork number.
LEMMA SourceMoves ==
    ASSUME TypeOK, SourceStep
    PROVE  /\ UNCHANGED <<dbVars, pass>> /\ SourceTypeOK'
           /\ finalized <= finalized' /\ fork <= fork'
           /\ \A b \in Height : chain'[b] = chain[b] \/ chain'[b] > fork
<1> USE SourceAssumption DEF TypeOK, SourceTypeOK, Height, ForkId
<1>0. UNCHANGED <<dbVars, pass>> /\ SourceTypeOK'
  BY SourceStepType DEF SourceStep, SourceNext
<1>1. CASE NewBlock
  BY <1>0, <1>1 DEF NewBlock
<1>2. CASE AdvanceSafe
  BY <1>0, <1>2 DEF AdvanceSafe
<1>3. CASE AdvanceFinalized
  BY <1>0, <1>3 DEF AdvanceFinalized
<1>4. CASE Reorg
  BY <1>0, <1>4 DEF Reorg
<1> QED BY <1>1, <1>2, <1>3, <1>4 DEF SourceStep

LEMMA CoverWorld ==
    ASSUME TypeOK, SingleInv, CoverInv, SourceStep
    PROVE  CoverInv'
<1> USE SourceAssumption, RunnerAssumption
<1>1. /\ UNCHANGED <<checkpoint, anchors, rows, pass>>
      /\ finalized \in Nat /\ finalized' \in Nat /\ finalized <= finalized'
      /\ fork \in Nat /\ fork' \in Nat /\ fork <= fork'
      /\ \A b \in Height : chain'[b] = chain[b] \/ chain'[b] > fork
  <2>1. SourceTypeOK /\ SourceTypeOK'
    BY SourceMoves DEF TypeOK
  <2>2. finalized \in Nat /\ finalized' \in Nat /\ fork \in Nat /\ fork' \in Nat
    BY <2>1 DEF SourceTypeOK, Height, ForkId
  <2> QED BY <2>2, SourceMoves DEF dbVars
<1>t. anchors \in AnchorMap /\ checkpoint \in Int /\ StartBlock \in Nat
  BY DEF TypeOK, Position, Height, NoCheckpoint
<1>2. AnchorsCoverUnfinalized'
  BY <1>1, <1>t DEF CoverInv, AnchorsCoverUnfinalized
<1>3. (\A b \in Height : anchors[b] <= fork)'
  BY <1>1, <1>t DEF CoverInv, AnchorMap, ForkId, NoFork
<1>4. ASSUME NEW r \in Runner PROVE CoverPass(pass[r])'
  <2> DEFINE p == pass[r]
  <2>1. /\ p \in Pass /\ SinglePass(p) /\ CoverPass(p) /\ pass'[r] = p
        /\ p.next \in Nat /\ p.end \in Nat /\ p.rollback \in Height /\ p.fresh \in AnchorMap
    BY <1>1 DEF TypeOK, SingleInv, CoverInv, Pass, Position, Height
  <2> HIDE DEF p
  <2>2. p.pc = "rollback" => /\ anchors[p.rollback] # NoFork
                             /\ anchors[p.rollback] # chain'[p.rollback] \/ p.absent
    <3>1. \A b \in Height : anchors[b] \in Nat /\ anchors[b] <= fork
      BY <1>t DEF CoverInv, AnchorMap, ForkId, NoFork
    <3>2. \A b \in Height : chain'[b] # chain[b] => chain'[b] # anchors[b]
      BY <1>1, <3>1
    <3> QED BY <2>1, <3>2 DEF CoverPass
  <2>3. \A b \in Height : p.fresh[b] <= fork'
    BY <1>1, <2>1 DEF CoverPass, AnchorMap, ForkId, NoFork
  <2>4. p.pc \in {"anchor_blocks", "write"} =>
          \A b \in p.next..p.end : b > finalized' => b > finalized
    BY <1>1, <2>1
  <2> QED BY <1>1, <2>1, <2>2, <2>3, <2>4 DEF CoverPass
<1> QED BY <1>1, <1>2, <1>3, <1>4 DEF CoverInv

\* A step that leaves the tables alone need only be looked at for the pass.
LEMMA CoverQuiet ==
    ASSUME CoverInv, NEW r, Runner = {r}, UNCHANGED <<sourceVars, dbVars>>,
           CoverPass(pass[r])'
    PROVE  CoverInv'
BY DEF CoverInv, sourceVars, dbVars, AnchorsCoverUnfinalized

LEMMA CoverWrites ==
    ASSUME TypeOK, SingleInv, CoverInv, NEW r, Runner = {r}, WriteRange(r)
    PROVE  CoverInv'
<1> USE SourceAssumption, RunnerAssumption
<1> DEFINE p == pass[r]
<1>1. /\ p \in Pass /\ SinglePass(p) /\ CoverPass(p) /\ LogsOfRange(p) /\ p.pc = "write"
      /\ p.next = checkpoint /\ StartBlock <= p.next
      /\ \A b \in p.next..p.end : b > finalized => p.fresh[b] # NoFork
  BY DEF WriteRange, TypeOK, SingleInv, CoverInv, SinglePass, CoverPass, Reading
<1>2. p.next \in Nat /\ p.end \in Height /\ StartBlock \in Nat /\ finalized \in Nat
      /\ p.end \in Nat
  BY <1>1 DEF TypeOK, SourceTypeOK, Pass, Position, Height
<1>3. /\ checkpoint' = p.end + 1 /\ UNCHANGED <<fork, finalized>>
      /\ anchors' = [b \in Height |-> IF p.fresh[b] = NoFork
                                        THEN anchors[b] ELSE p.fresh[b]]
  BY DEF WriteRange, sourceVars
<1>4. AnchorsCoverUnfinalized'
  <2> HIDE DEF p
  <2> SUFFICES ASSUME NEW b \in StartBlock..p.end, b > finalized
               PROVE  anchors'[b] # NoFork
    BY <1>2, <1>3 DEF AnchorsCoverUnfinalized
  <2>1. b \in Height
    BY <1>2 DEF Height
  <2>2. CASE b < p.next
    <3>1. b \in StartBlock..(checkpoint - 1)
      BY <1>1, <1>2, <2>2
    <3> QED BY <1>3, <2>1, <3>1 DEF CoverInv, AnchorsCoverUnfinalized
  <2>3. CASE ~(b < p.next)
    <3>1. b \in p.next..p.end
      BY <1>2, <2>3
    <3> QED BY <1>1, <1>3, <2>1, <3>1
  <2> QED BY <2>2, <2>3
<1>5. (\A b \in Height : anchors[b] <= fork)'
  BY <1>1, <1>3 DEF CoverInv, CoverPass
<1> DEFINE more == [Idle EXCEPT !.pc = "logs", !.next = p.end + 1,
                                !.target = p.target, !.verified = p.verified]
<1>6. pass'[r] = Idle \/ pass'[r] = more
  BY Alone DEF WriteRange, EndPass
<1>7. /\ Idle.pc = "idle" /\ more.pc = "logs"
      /\ Idle.fresh = NoAnchors /\ more.fresh = NoAnchors
  BY DEF Idle
<1>8. CoverPass(pass[r])'
  <2> HIDE DEF p, more
  <2> QED BY <1>3, <1>6, <1>7 DEF CoverPass, NoAnchors, NoFork, TypeOK, SourceTypeOK, ForkId
<1> QED BY <1>4, <1>5, <1>8 DEF CoverInv

LEMMA CoverStep ==
    ASSUME SingleRunner, UsesReorgProtection, TypeOK, SingleInv, CoverInv, [Next]_vars
    PROVE  CoverInv'
<1> USE SourceAssumption, RunnerAssumption
<1>1. CASE SourceStep
  BY <1>1, CoverWorld
<1>2. ASSUME NEW r \in Runner, RunnerStep(r) PROVE CoverInv'
  <2> DEFINE p == pass[r]
  <2>r. Runner = {r}
    BY DEF SingleRunner
  <2>p. /\ p \in Pass /\ SinglePass(p) /\ CoverPass(p)
        /\ p.next \in Nat /\ p.from \in Nat /\ p.end \in Nat /\ StartBlock \in Nat
        /\ finalized \in Nat /\ fork \in Nat /\ chain \in [Height -> ForkId]
    <3>1. p \in Pass /\ SinglePass(p) /\ CoverPass(p)
      BY DEF TypeOK, SingleInv, CoverInv
    <3>2. p.next \in Nat /\ p.from \in Nat /\ p.end \in Nat
      <4> HIDE DEF p
      <4> QED BY <3>1 DEF Pass, Position, Height
    <3>3. /\ StartBlock \in Nat /\ finalized \in Nat /\ fork \in Nat
          /\ chain \in [Height -> ForkId]
      BY DEF TypeOK, SourceTypeOK, Height, ForkId
    <3> QED BY <3>1, <3>2, <3>3
  <2>i. \A b \in Height : NoAnchors[b] <= fork
    BY <2>p DEF NoAnchors, NoFork
  \* The program points of which CoverPass says nothing.
  <2>h. ASSUME UNCHANGED <<sourceVars, dbVars>>, NEW locals, Goto(r, locals),
               locals.pc \in {"idle", "reorg_heads", "head", "logs", "anchor_heads"},
               locals.fresh \in {NoAnchors, p.fresh}
        PROVE  CoverInv'
    <3>1. pass'[r] = locals
      BY <2>h, <2>r, Alone
    <3>2. \A b \in Height : locals.fresh[b] <= fork
      BY <2>h, <2>i, <2>p DEF CoverPass
    <3>3. CoverPass(pass[r])'
      BY <2>h, <3>1, <3>2 DEF CoverPass, sourceVars
    <3> QED BY <2>h, <2>r, <3>3, CoverQuiet
  <2>e. ASSUME UNCHANGED <<sourceVars, dbVars>>, EndPass(r) PROVE CoverInv'
    BY <2>e, <2>h DEF EndPass, Idle
  <2>1. CASE ReadOrCreate(r)
    <3> DEFINE pc == IF UsesReorgProtection /\ checkpoint' > 0 THEN "reorg_heads" ELSE "head"
               next == checkpoint'
    <3>0. pc \in {"reorg_heads", "head"}
      OBVIOUS
    <3>1. Goto(r, [Idle EXCEPT !.pc = pc, !.next = next])
      BY <2>1 DEF ReadOrCreate
    <3> HIDE DEF pc, next
    <3>2. pass'[r] = [Idle EXCEPT !.pc = pc, !.next = next]
      BY <2>r, <3>1, Alone
    <3>3. pass'[r].pc = pc /\ pass'[r].fresh = NoAnchors
      BY <3>2 DEF Idle
    <3>4. UNCHANGED <<anchors, finalized, chain, fork>>
          /\ checkpoint' = IF checkpoint = NoCheckpoint THEN StartBlock ELSE checkpoint
      BY <2>1 DEF ReadOrCreate, sourceVars
    <3>5. CoverPass(pass[r])'
      BY <2>i, <3>0, <3>3, <3>4 DEF CoverPass
    <3>6. AnchorsCoverUnfinalized'
      BY <2>p, <3>4 DEF AnchorsCoverUnfinalized, CoverInv
    <3> QED BY <2>r, <3>4, <3>5, <3>6 DEF CoverInv
  <2>2. CASE ReorgHeads(r)
    <3> DEFINE from == CheckFrom(p.next)
    <3>0. p.pc = "reorg_heads" /\ UNCHANGED <<sourceVars, dbVars>>
      BY <2>2 DEF ReorgHeads
    <3>1. from \in Nat /\ StartBlock <= from /\ finalized < from
      BY <2>p DEF CheckFrom, Larger, SaturatingSub
    <3> HIDE DEF from
    <3>2. CASE from > p.next - 1
      <4>1. Goto(r, [p EXCEPT !.pc = "head", !.verified = from])
        BY <2>2, <3>2 DEF ReorgHeads, from
      <4> QED BY <2>p, <2>h, <3>0, <4>1 DEF Pass
    <3>3. CASE ~(from > p.next - 1)
      <4>1. Goto(r, [p EXCEPT !.pc = "reorg_anchors", !.from = from])
        BY <2>2, <3>3 DEF ReorgHeads, from
      <4>2. /\ pass'[r].pc = "reorg_anchors" /\ pass'[r].from = from
            /\ pass'[r].next = p.next /\ pass'[r].fresh = p.fresh
        <5>1. pass'[r] = [p EXCEPT !.pc = "reorg_anchors", !.from = from]
          BY <2>r, <4>1, Alone
        <5> HIDE DEF p
        <5> QED BY <2>p, <5>1 DEF Pass
      <4>3. \A b \in from..(p.next - 1) : anchors[b] # NoFork
        <5>1. p.next = checkpoint
          BY <2>p, <3>0 DEF SinglePass
        <5>2. \A b \in from..(p.next - 1) :
                 b \in StartBlock..(checkpoint - 1) /\ b > finalized
          BY <2>p, <3>1, <5>1
        <5> QED BY <5>2 DEF CoverInv, AnchorsCoverUnfinalized
      <4>4. CoverPass(pass[r])'
        BY <2>p, <3>0, <4>2, <4>3 DEF CoverPass, dbVars, sourceVars
      <4> QED BY <2>r, <3>0, <4>4, CoverQuiet
    <3> QED BY <3>2, <3>3
  <2>3. CASE ReorgAnchors(r)
    <3> DEFINE stored == [b \in Height |-> IF b \in p.from..(p.next - 1)
                                             THEN anchors[b] ELSE NoFork]
    <3>0. /\ p.pc = "reorg_anchors" /\ UNCHANGED <<sourceVars, dbVars>>
          /\ Goto(r, [p EXCEPT !.pc = "reorg_blocks", !.stored = stored])
      BY <2>3 DEF ReorgAnchors
    <3>1. \A b \in p.from..(p.next - 1) : stored[b] = anchors[b]
      BY <2>p DEF Pass, Position, Height
    <3> HIDE DEF stored
    <3>2. /\ pass'[r].pc = "reorg_blocks" /\ pass'[r].from = p.from
          /\ pass'[r].next = p.next /\ pass'[r].stored = stored
          /\ pass'[r].fresh = p.fresh
      <4>1. pass'[r] = [p EXCEPT !.pc = "reorg_blocks", !.stored = stored]
        BY <2>r, <3>0, Alone
      <4> HIDE DEF p
      <4> QED BY <2>p, <4>1 DEF Pass
    <3>3. CoverPass(pass[r])'
      BY <2>p, <3>0, <3>1, <3>2 DEF CoverPass, dbVars, sourceVars
    <3> QED BY <2>r, <3>0, <3>3, CoverQuiet
  <2>4. CASE ReorgCheckWaits(r)
    BY <2>4, <2>h DEF ReorgCheckWaits, Idle
  <2>5. CASE ReorgCheckCompares(r)
    <3>0. p.pc = "reorg_blocks" /\ UNCHANGED <<sourceVars, dbVars>>
      BY <2>5 DEF ReorgCheckCompares
    <3>1. PICK missing : FindsNothing(r, missing) \/ \E first : Finds(r, missing, first)
      BY <2>5, CompareCases
    <3>2. CASE FindsNothing(r, missing)
      BY <2>h, <3>0, <3>2, ComparedFields DEF FindsNothing
    <3>3. ASSUME NEW first, Finds(r, missing, first) PROVE CoverInv'
      <4>1. /\ first \in p.from..(p.next - 1)
            /\ first \in missing \/ p.stored[first] # chain[first]
            /\ pass'[r] = Back(p, first, first \in missing)
        BY <2>r, <3>3, Alone DEF Finds, Differs
      <4>2. /\ pass'[r].pc = "rollback" /\ pass'[r].rollback = first
            /\ pass'[r].absent = (first \in missing) /\ pass'[r].fresh = NoAnchors
        BY <4>1, ComparedFields
      <4>3. /\ anchors[first] # NoFork
            /\ anchors[first] # chain[first] \/ pass'[r].absent
        BY <2>p, <3>0, <4>1, <4>2 DEF CoverPass
      <4>4. CoverPass(pass[r])'
        BY <2>i, <3>0, <4>2, <4>3 DEF CoverPass, dbVars, sourceVars
      <4> QED BY <2>r, <3>0, <4>4, CoverQuiet
    <3> QED BY <3>1, <3>2, <3>3
  <2>6. CASE RollbackReorged(r)
    <3> DEFINE first == p.rollback
               locals == [Idle EXCEPT !.pc = "head", !.next = first,
                                      !.verified = p.verified]
    <3>1. /\ checkpoint' = first /\ UNCHANGED <<finalized, fork>>
          /\ anchors' = [b \in Height |-> IF b >= first THEN NoFork ELSE anchors[b]]
          /\ first \in StartBlock..(checkpoint - 1) /\ first \in Height
      BY <2>6, <2>p DEF RollbackReorged, sourceVars, SinglePass, Pass
    <3>2. pass'[r] = locals
      BY <2>6, <2>r, Alone DEF RollbackReorged
    <3>3. pass'[r].pc = "head" /\ pass'[r].fresh = NoAnchors
      BY <3>2 DEF Idle
    <3> HIDE DEF locals
    <3>4. AnchorsCoverUnfinalized'
      <4> SUFFICES ASSUME NEW b \in StartBlock..(first - 1), b > finalized
                   PROVE  anchors'[b] # NoFork
        BY <3>1 DEF AnchorsCoverUnfinalized
      <4> HIDE DEF first
      <4>1. checkpoint \in Int
        BY DEF TypeOK, Position, NoCheckpoint
      <4>2. b \in Height /\ b \in StartBlock..(checkpoint - 1) /\ ~(b >= first)
        BY <2>p, <3>1, <4>1 DEF Height
      <4> QED BY <3>1, <4>2 DEF CoverInv, AnchorsCoverUnfinalized
    <3>5. (\A b \in Height : anchors[b] <= fork)'
      BY <2>p, <3>1 DEF CoverInv, NoFork
    <3>6. CoverPass(pass[r])'
      BY <2>i, <3>1, <3>3 DEF CoverPass
    <3> QED BY <2>r, <3>4, <3>5, <3>6 DEF CoverInv
  <2>7. CASE LatestBlock(r)
    <3> DEFINE target == SaturatingSub(HeadHeight, HeadBuffer)
    <3>1. EndPass(r) \/ Goto(r, [p EXCEPT !.pc = "logs", !.target = target])
      BY <2>7 DEF LatestBlock
    <3>2. UNCHANGED <<sourceVars, dbVars>>
      BY <2>7 DEF LatestBlock
    <3> HIDE DEF target
    <3> QED BY <2>p, <2>e, <2>h, <3>1, <3>2 DEF Pass
  <2>8. CASE QueryLogs(r)
    <3>1. PICK end, stop, logs :
             Goto(r, [p EXCEPT !.pc = "anchor_heads", !.end = end, !.stop = stop,
                               !.logs = logs, !.fresh = NoAnchors])
      BY <2>8 DEF QueryLogs
    <3>2. [p EXCEPT !.pc = "anchor_heads", !.end = end, !.stop = stop,
                    !.logs = logs, !.fresh = NoAnchors].pc = "anchor_heads"
      BY <2>p DEF Pass
    <3>3. [p EXCEPT !.pc = "anchor_heads", !.end = end, !.stop = stop,
                    !.logs = logs, !.fresh = NoAnchors].fresh = NoAnchors
      BY <2>p DEF Pass
    <3>4. UNCHANGED <<sourceVars, dbVars>>
      BY <2>8 DEF QueryLogs
    <3> QED BY <2>h, <3>1, <3>2, <3>3, <3>4
  <2>9. CASE QueryLogsServesNothing(r) \/ AnchorBlocksWait(r) \/ Abort(r)
    BY <2>9, <2>e DEF QueryLogsServesNothing, AnchorBlocksWait, Abort
  <2>10. CASE AnchorHeads(r)
    <3> DEFINE from == Larger(p.next, finalized + 1)
    <3>1. p.pc = "anchor_heads" /\ UNCHANGED <<sourceVars, dbVars>>
      BY <2>10 DEF AnchorHeads
    <3>2. from \in Nat /\ \A b \in p.next..p.end : b > finalized <=> from <= b
      BY <2>p DEF Larger
    <3>3. /\ pass'[r].next = p.next /\ pass'[r].end = p.end
          /\ pass'[r].fresh = p.fresh
          /\ \/ pass'[r].pc = "write" /\ from > p.end
             \/ pass'[r].pc = "anchor_blocks" /\ pass'[r].from = from
      <4>1. \/ Goto(r, [p EXCEPT !.pc = "write"]) /\ from > p.end
            \/ Goto(r, [p EXCEPT !.pc = "anchor_blocks", !.from = from])
        BY <2>10 DEF AnchorHeads
      <4> HIDE DEF from
      <4>2. \/ pass'[r] = [p EXCEPT !.pc = "write"] /\ from > p.end
            \/ pass'[r] = [p EXCEPT !.pc = "anchor_blocks", !.from = from]
        BY <2>r, <4>1, Alone
      <4> HIDE DEF p
      <4> QED BY <2>p, <4>2 DEF Pass
    <3> HIDE DEF from
    <3>4. CoverPass(pass[r])'
      BY <2>p, <3>1, <3>2, <3>3 DEF CoverPass, dbVars, sourceVars
    <3> QED BY <2>r, <3>1, <3>4, CoverQuiet
  <2>11. CASE AnchorBlocks(r)
    <3> DEFINE fresh == AnchorsFromBlocks(p.from, p.end)
    <3>1. /\ p.pc = "anchor_blocks" /\ UNCHANGED <<sourceVars, dbVars>>
          /\ Goto(r, [p EXCEPT !.pc = "write", !.from = 0, !.fresh = fresh])
      BY <2>11 DEF AnchorBlocks
    <3>2. \A b \in Height : fresh[b] <= fork
      BY <2>p DEF AnchorsFromBlocks, TypeOK, SourceTypeOK, NoFork
    <3>3. \A b \in p.next..p.end : b > finalized => fresh[b] # NoFork
      <4> SUFFICES ASSUME NEW b \in p.next..p.end, b > finalized
                   PROVE  fresh[b] # NoFork
        OBVIOUS
      <4>1. b \in p.from..p.end
        BY <2>p, <3>1 DEF CoverPass
      <4>2. b \in Height
        BY <2>p DEF Pass, Height
      <4> QED BY <2>p, <4>1, <4>2 DEF AnchorsFromBlocks, ForkId, NoFork
    <3> HIDE DEF fresh
    <3>4. /\ pass'[r].pc = "write" /\ pass'[r].next = p.next /\ pass'[r].end = p.end
          /\ pass'[r].fresh = fresh
      <4>1. pass'[r] = [p EXCEPT !.pc = "write", !.from = 0, !.fresh = fresh]
        BY <2>r, <3>1, Alone
      <4> HIDE DEF p
      <4> QED BY <2>p, <4>1 DEF Pass
    <3>5. CoverPass(pass[r])'
      BY <3>1, <3>2, <3>3, <3>4 DEF CoverPass, dbVars, sourceVars
    <3> QED BY <2>r, <3>1, <3>5, CoverQuiet
  <2> QED BY <1>2, <2>r, <2>1, <2>2, <2>3, <2>4, <2>5, <2>6, <2>7, <2>8, <2>9,
             <2>10, <2>11, CoverWrites DEF RunnerStep
<1>3. CASE UNCHANGED vars
  BY <1>3 DEF vars, sourceVars, dbVars, CoverInv, CoverPass, AnchorsCoverUnfinalized
<1> QED BY <1>1, <1>2, <1>3 DEF Next

THEOREM CoverInvariant ==
    ASSUME SingleRunner, UsesReorgProtection PROVE Spec => []CoverInv
<1>1. Init => CoverInv
  BY SourceAssumption, RunnerAssumption
  DEF Init, SourceInit, CoverInv, AnchorsCoverUnfinalized, CoverPass, NoAnchors, Idle,
      NoCheckpoint, NoFork, Height
<1>2. TypeOK /\ SingleInv /\ CoverInv /\ [Next]_vars => CoverInv'
  BY CoverStep
<1> QED BY <1>1, <1>2, TypeCorrect, SingleInvariant, PTL DEF Spec

\* In the safe and latest modes, with one process, every indexed block that can
\* still be reorged has an anchor, although the finalized head moves between
\* the moment the range to anchor is chosen and the moment it is written
\* (src/runner.rs:536-539, 585-634).
THEOREM UnfinalizedAnchored ==
    ASSUME SingleRunner, UsesReorgProtection PROVE Spec => []AnchorsCoverUnfinalized
<1>1. CoverInv => AnchorsCoverUnfinalized
  BY DEF CoverInv
<1> QED BY <1>1, CoverInvariant, PTL

Justified ==
    /\ anchors[checkpoint'] # NoFork
    /\ \/ anchors[checkpoint'] # chain[checkpoint']
       \/ \E r \in Runner : /\ pass[r].pc = "rollback" /\ pass[r].absent
                           /\ pass[r].rollback = checkpoint'

LEMMA RollbackStep ==
    ASSUME SingleRunner, TypeOK, SingleInv, UsesReorgProtection => CoverInv, [Next]_vars,
           checkpoint' < checkpoint
    PROVE  Justified
<1> USE SourceAssumption, RunnerAssumption
<1>1. checkpoint' # checkpoint
  BY DEF TypeOK, Position, NoCheckpoint
<1>2. PICK r \in Runner : RunnerStep(r)
  BY <1>1 DEF Next, SourceStep, vars, dbVars
<1>3. SinglePass(pass[r]) /\ pass[r] \in Pass
  BY DEF SingleInv, TypeOK
<1>4. RollbackReorged(r)
  <2>1. ~ReadOrCreate(r)
    BY DEF ReadOrCreate, NoCheckpoint, Height, TypeOK, Position
  <2>2. ~WriteRange(r)
    BY <1>3 DEF WriteRange, SinglePass, Reading, LogsOfRange, Pass, Position, Height
  <2> QED BY <1>1, <1>2, <2>1, <2>2
          DEF RunnerStep, ReorgHeads, ReorgAnchors, ReorgCheckWaits, ReorgCheckCompares,
              LatestBlock, QueryLogs, QueryLogsServesNothing, AnchorHeads, AnchorBlocks,
              AnchorBlocksWait, Abort, dbVars
<1>5. UsesReorgProtection /\ checkpoint' = pass[r].rollback /\ pass[r].pc = "rollback"
  BY <1>3, <1>4 DEF RollbackReorged, SinglePass
<1> QED BY <1>5 DEF CoverInv, CoverPass, Justified

\* With one process the checkpoint moves back only to a block that has an anchor,
\* whose hash is no longer the chain's or whose header the answer lacked, whatever
\* was reorged between the calls of the check and before its transaction
\* (src/runner.rs:536-564).
THEOREM RollbacksJustified ==
    ASSUME SingleRunner PROVE Spec => RollbackIsJustified
<1>1. TypeOK /\ SingleInv /\ (UsesReorgProtection => CoverInv) /\ [Next]_vars
        => [checkpoint' < checkpoint => Justified]_vars
  BY RollbackStep
<1>2. CASE UsesReorgProtection
  BY <1>1, <1>2, TypeCorrect, SingleInvariant, CoverInvariant, PTL
  DEF Spec, RollbackIsJustified, Justified
<1>3. CASE ~UsesReorgProtection
  BY <1>1, <1>3, TypeCorrect, SingleInvariant, PTL DEF Spec, RollbackIsJustified, Justified
<1> QED BY <1>2, <1>3

(***************************************************************************)
(* Anchors and rows of one branch.  The logs of a range and its headers    *)
(* are two calls, so this needs an environment where no reorg falls inside *)
(* a pass; in the modes whose anchors come from the logs themselves it     *)
(* does not.                                                               *)
(***************************************************************************)
AnchorsOfOneAnswer == ~ReorgsAnytime \/ ~UsesReorgProtection

MatchPass(p) ==
    /\ p.pc \in {"anchor_heads", "anchor_blocks"} =>
         \A row \in p.logs : row = Canonical(row[1])
    /\ p.pc = "write" =>
         \A row \in p.logs : p.fresh[row[1]] \in {NoFork, row[2]}

MatchInv == RowsMatchAnchors /\ \A r \in Runner : MatchPass(pass[r])

\* Where no reorg falls inside a pass, a pass under way sees one chain.
LEMMA CalmPass ==
    ASSUME SingleRunner, ~ReorgsAnytime, TypeOK, SourceStep, NEW r \in Runner,
           pass[r].pc # "idle"
    PROVE  UNCHANGED chain
BY DEF SingleRunner, SourceStep, NewBlock, AdvanceSafe, AdvanceFinalized

LEMMA MatchQuiet ==
    ASSUME MatchInv, NEW r, Runner = {r}, UNCHANGED <<anchors, rows>>,
           MatchPass(pass[r])'
    PROVE  MatchInv'
BY DEF MatchInv, RowsMatchAnchors

LEMMA MatchReads ==
    ASSUME TypeOK, MatchInv, NEW r, Runner = {r}, QueryLogs(r)
    PROVE  MatchInv'
<1> USE SourceAssumption, RunnerAssumption
<1> DEFINE p == pass[r]
<1>1. PICK end \in p.next..Smaller(RangeEnd(r), ServedUpTo), incomplete \in BOOLEAN :
        Goto(r, [p EXCEPT
                  !.pc = IF UsesReorgProtection THEN "anchor_heads" ELSE "write",
                  !.end = end,
                  !.stop = incomplete \/ end < RangeEnd(r),
                  !.logs = LogsIn(p.next, end),
                  !.fresh = IF UsesReorgProtection THEN NoAnchors
                            ELSE AnchorsFromLogs(LogsIn(p.next, end))])
  BY DEF QueryLogs
<1>2. /\ p \in Pass /\ UNCHANGED <<anchors, rows, chain>>
      /\ p.next \in Nat /\ ServedUpTo \in Height /\ RangeEnd(r) \in Int
  <2>1. p \in Pass /\ UNCHANGED <<anchors, rows, chain>>
    BY DEF TypeOK, QueryLogs, sourceVars, dbVars
  <2> QED BY <2>1, PassBounds
<1>3. end \in Height
  BY <1>1, <1>2 DEF Smaller, Height
<1> DEFINE logs == LogsIn(p.next, end)
           locals == [p EXCEPT
                  !.pc = IF UsesReorgProtection THEN "anchor_heads" ELSE "write",
                  !.end = end,
                  !.stop = incomplete \/ end < RangeEnd(r),
                  !.logs = logs,
                  !.fresh = IF UsesReorgProtection THEN NoAnchors
                            ELSE AnchorsFromLogs(logs)]
<1>4. /\ locals.pc = IF UsesReorgProtection THEN "anchor_heads" ELSE "write"
      /\ locals.logs = logs
      /\ locals.fresh = IF UsesReorgProtection THEN NoAnchors
                        ELSE AnchorsFromLogs(logs)
  BY <1>2 DEF Pass
<1>5. \A row \in logs : row = Canonical(row[1])
  BY DEF LogsIn, Canonical
<1>6. \A row \in logs : AnchorsFromLogs(logs)[row[1]] \in {NoFork, row[2]}
  <2> SUFFICES ASSUME NEW row \in logs, NEW f \in ForkId, <<row[1], f>> \in logs
               PROVE  f = row[2]
    <3>1. logs \subseteq Block
      BY <1>2, <1>3, LogsInBlocks DEF TypeOK
    <3> HIDE DEF logs
    <3> QED BY <3>1 DEF AnchorsFromLogs, Block
  <2> HIDE DEF logs
  <2>1. row = <<row[1], chain[row[1]]>> /\ <<row[1], f>> = <<row[1], chain[row[1]]>>
    BY <1>5 DEF Canonical
  <2> QED BY <2>1
<1>7. pass'[r] = locals
  BY <1>1, Alone
<1>8. MatchPass(pass[r])'
  <2> HIDE DEF locals, logs, p
  <2> QED BY <1>2, <1>4, <1>5, <1>6, <1>7 DEF MatchPass, Canonical
<1> QED BY <1>2, <1>8, MatchQuiet

LEMMA MatchWrites ==
    ASSUME TypeOK, SingleInv, MatchInv, NEW r, Runner = {r}, WriteRange(r)
    PROVE  MatchInv'
<1> USE SourceAssumption, RunnerAssumption
<1> DEFINE p == pass[r]
<1>1. /\ p \in Pass /\ LogsOfRange(p) /\ p.next = checkpoint
      /\ \A b \in Height : p.fresh[b] # NoFork => b \in p.next..p.end
      /\ \A row \in p.logs : p.fresh[row[1]] \in {NoFork, row[2]}
  BY DEF WriteRange, TypeOK, SingleInv, MatchInv, SinglePass, MatchPass, Reading
<1>2. /\ p.next \in Nat /\ p.logs \subseteq Block /\ rows \subseteq Block
      /\ \A row \in Block : row[1] \in Height /\ row[1] \in Nat
  BY <1>1 DEF TypeOK, Pass, Position, Height, Block
<1>3. /\ rows' = rows \cup p.logs
      /\ anchors' = [b \in Height |-> IF p.fresh[b] = NoFork
                                        THEN anchors[b] ELSE p.fresh[b]]
  BY DEF WriteRange
<1>4. RowsMatchAnchors'
  <2> SUFFICES ASSUME NEW row \in rows \cup p.logs
               PROVE  anchors'[row[1]] \in {NoFork, row[2]}
    BY <1>3 DEF RowsMatchAnchors
  <2> HIDE DEF p
  <2>0. row[1] \in Height /\ row[1] \in Nat
    BY <1>2
  <2>1. CASE row \in rows
    <3>1. row[1] < p.next
      BY <1>1, <2>1 DEF SingleInv, RowsBelowCheckpoint
    <3>2. p.fresh[row[1]] = NoFork
      BY <1>1, <1>2, <2>0, <3>1
    <3> QED BY <1>3, <2>0, <2>1, <3>2 DEF MatchInv, RowsMatchAnchors
  <2>2. CASE row \in p.logs
    <3>1. CASE p.fresh[row[1]] # NoFork
      BY <1>1, <1>3, <2>0, <2>2, <3>1
    <3>2. CASE p.fresh[row[1]] = NoFork
      <4>1. p.next <= row[1]
        BY <1>1, <2>2 DEF LogsOfRange
      <4>2. anchors[row[1]] = NoFork
        BY <1>1, <1>2, <2>0, <4>1 DEF SingleInv, AnchorsBelowCheckpoint
      <4> QED BY <1>3, <2>0, <3>2, <4>2
    <3> QED BY <3>1, <3>2
  <2> QED BY <2>1, <2>2
<1> DEFINE more == [Idle EXCEPT !.pc = "logs", !.next = p.end + 1,
                                !.target = p.target, !.verified = p.verified]
<1>5. pass'[r] = Idle \/ pass'[r] = more
  BY Alone DEF WriteRange, EndPass
<1>6. Idle.pc = "idle" /\ more.pc = "logs"
  BY DEF Idle
<1>7. MatchPass(pass[r])'
  <2> HIDE DEF p, more
  <2> QED BY <1>5, <1>6 DEF MatchPass
<1> QED BY <1>4, <1>7 DEF MatchInv

LEMMA MatchStep ==
    ASSUME SingleRunner, AnchorsOfOneAnswer, TypeOK, SingleInv, MatchInv, [Next]_vars
    PROVE  MatchInv'
<1> USE SourceAssumption, RunnerAssumption
<1>1. CASE SourceStep
  <2>1. PICK r : Runner = {r}
    BY DEF SingleRunner
  <2>2. UNCHANGED <<anchors, rows, pass>> /\ MatchPass(pass[r]) /\ SinglePass(pass[r])
    BY <1>1, <2>1 DEF SourceStep, dbVars, MatchInv, SingleInv
  <2>3. pass[r].pc \in {"anchor_heads", "anchor_blocks"} => UNCHANGED chain
    BY <1>1, <2>1, <2>2, CalmPass DEF AnchorsOfOneAnswer, SinglePass
  <2>4. MatchPass(pass[r])'
    BY <2>2, <2>3 DEF MatchPass, Canonical
  <2> QED BY <2>1, <2>2, <2>4, MatchQuiet
<1>2. ASSUME NEW r \in Runner, RunnerStep(r) PROVE MatchInv'
  <2> DEFINE p == pass[r]
  <2>r. Runner = {r}
    BY DEF SingleRunner
  <2>p. p \in Pass /\ SinglePass(p) /\ MatchPass(p)
    BY DEF TypeOK, SingleInv, MatchInv
  \* The program points of which MatchPass says nothing.
  <2>h. ASSUME UNCHANGED <<anchors, rows>>, NEW locals, Goto(r, locals),
               locals.pc \notin Reading
        PROVE  MatchInv'
    <3>1. pass'[r] = locals
      BY <2>h, <2>r, Alone
    <3>2. MatchPass(pass[r])'
      BY <2>h, <3>1 DEF MatchPass, Reading
    <3> QED BY <2>h, <2>r, <3>2, MatchQuiet
  <2>e. ASSUME UNCHANGED <<anchors, rows>>, EndPass(r) PROVE MatchInv'
    BY <2>e, <2>h DEF EndPass, Idle, Reading
  <2>1. CASE ReadOrCreate(r)
    BY <2>1, <2>h DEF ReadOrCreate, Idle, Reading
  <2>2. CASE ReorgHeads(r)
    BY <2>2, <2>p, <2>h DEF ReorgHeads, dbVars, Pass, Reading
  <2>3. CASE ReorgAnchors(r)
    <3>1. PICK stored : Goto(r, [p EXCEPT !.pc = "reorg_blocks", !.stored = stored])
      BY <2>3 DEF ReorgAnchors
    <3>2. [p EXCEPT !.pc = "reorg_blocks", !.stored = stored].pc = "reorg_blocks"
      BY <2>p DEF Pass
    <3> QED BY <2>3, <2>h, <3>1, <3>2 DEF ReorgAnchors, dbVars, Reading
  <2>4. CASE ReorgCheckWaits(r)
    BY <2>4, <2>h DEF ReorgCheckWaits, dbVars, Idle, Reading
  <2>5. CASE ReorgCheckCompares(r)
    <3>1. UNCHANGED <<anchors, rows>>
      BY <2>5 DEF ReorgCheckCompares, dbVars
    <3>2. PICK missing : FindsNothing(r, missing) \/ \E first : Finds(r, missing, first)
      BY <2>5, CompareCases
    <3> QED BY <2>h, <3>1, <3>2, ComparedFields DEF FindsNothing, Finds, Reading
  <2>6. CASE RollbackReorged(r)
    <3> DEFINE first == p.rollback
               locals == [Idle EXCEPT !.pc = "head", !.next = first,
                                      !.verified = p.verified]
    <3>1. /\ rows' = {row \in rows : row[1] < first}
          /\ anchors' = [b \in Height |-> IF b >= first THEN NoFork ELSE anchors[b]]
      BY <2>6 DEF RollbackReorged
    <3>2. \A row \in rows : row[1] \in Height
      BY DEF TypeOK, Block
    <3>3. RowsMatchAnchors'
      BY <3>1, <3>2 DEF MatchInv, RowsMatchAnchors
    <3>4. pass'[r] = locals
      BY <2>6, <2>r, Alone DEF RollbackReorged
    <3>5. locals.pc = "head"
      BY DEF Idle
    <3>6. MatchPass(pass[r])'
      <4> HIDE DEF locals
      <4> QED BY <3>4, <3>5 DEF MatchPass
    <3> QED BY <2>r, <3>3, <3>6 DEF MatchInv
  <2>7. CASE LatestBlock(r)
    <3> DEFINE target == SaturatingSub(HeadHeight, HeadBuffer)
    <3>1. EndPass(r) \/ Goto(r, [p EXCEPT !.pc = "logs", !.target = target])
      BY <2>7 DEF LatestBlock
    <3>2. UNCHANGED <<anchors, rows>>
      BY <2>7 DEF LatestBlock, dbVars
    <3> HIDE DEF target
    <3> QED BY <2>p, <2>e, <2>h, <3>1, <3>2 DEF Pass, Reading
  <2>8. CASE QueryLogsServesNothing(r) \/ AnchorBlocksWait(r) \/ Abort(r)
    BY <2>8, <2>e DEF QueryLogsServesNothing, AnchorBlocksWait, Abort, dbVars
  <2>9. CASE AnchorHeads(r)
    <3>1. p.pc = "anchor_heads" /\ p.fresh = NoAnchors /\ UNCHANGED <<anchors, rows, chain>>
      BY <2>9, <2>p DEF AnchorHeads, sourceVars, dbVars, SinglePass
    <3>2. /\ pass'[r].logs = p.logs /\ pass'[r].fresh = p.fresh
          /\ pass'[r].pc \in {"write", "anchor_blocks"}
      <4> DEFINE from == Larger(p.next, finalized + 1)
      <4>1. \/ Goto(r, [p EXCEPT !.pc = "write"])
            \/ Goto(r, [p EXCEPT !.pc = "anchor_blocks", !.from = from])
        BY <2>9 DEF AnchorHeads
      <4> HIDE DEF from
      <4>2. \/ pass'[r] = [p EXCEPT !.pc = "write"]
            \/ pass'[r] = [p EXCEPT !.pc = "anchor_blocks", !.from = from]
        BY <2>r, <4>1, Alone
      <4> HIDE DEF p
      <4> QED BY <2>p, <4>2 DEF Pass
    <3>3. \A row \in p.logs : row[1] \in Height
      BY <2>p DEF Pass, Block
    <3>4. MatchPass(pass[r])'
      BY <2>p, <3>1, <3>2, <3>3 DEF MatchPass, Canonical, NoAnchors
    <3> QED BY <2>r, <3>1, <3>4, MatchQuiet
  <2>10. CASE AnchorBlocks(r)
    <3> DEFINE fresh == AnchorsFromBlocks(p.from, p.end)
    <3>1. /\ p.pc = "anchor_blocks" /\ UNCHANGED <<anchors, rows, chain>>
          /\ Goto(r, [p EXCEPT !.pc = "write", !.from = 0, !.fresh = fresh])
      BY <2>10 DEF AnchorBlocks, sourceVars, dbVars
    <3>2. \A row \in p.logs : fresh[row[1]] \in {NoFork, row[2]}
      <4> SUFFICES ASSUME NEW row \in p.logs PROVE fresh[row[1]] \in {NoFork, row[2]}
        OBVIOUS
      <4>1. row[1] \in Height
        BY <2>p DEF Pass, Block
      <4>2. row[2] = chain[row[1]]
        BY <2>p, <3>1 DEF MatchPass, Canonical
      <4> QED BY <4>1, <4>2 DEF AnchorsFromBlocks
    <3> HIDE DEF fresh
    <3>3. pass'[r].pc = "write" /\ pass'[r].logs = p.logs /\ pass'[r].fresh = fresh
      <4>1. pass'[r] = [p EXCEPT !.pc = "write", !.from = 0, !.fresh = fresh]
        BY <2>r, <3>1, Alone
      <4> HIDE DEF p
      <4> QED BY <2>p, <4>1 DEF Pass
    <3>4. MatchPass(pass[r])'
      BY <3>2, <3>3 DEF MatchPass
    <3> QED BY <2>r, <3>1, <3>4, MatchQuiet
  <2> QED BY <1>2, <2>r, <2>1, <2>2, <2>3, <2>4, <2>5, <2>6, <2>7, <2>8, <2>9,
             <2>10, MatchReads, MatchWrites DEF RunnerStep
<1>3. CASE UNCHANGED vars
  BY <1>3 DEF vars, sourceVars, dbVars, MatchInv, MatchPass, RowsMatchAnchors, Canonical
<1> QED BY <1>1, <1>2, <1>3 DEF Next

\* With one process an anchor vouches for the rows of its block, in the settled
\* modes always and in the others where no reorg falls between the logs of a
\* range and its headers (src/runner.rs:292-314, 595-604).
THEOREM AnchorsVouch ==
    ASSUME SingleRunner, AnchorsOfOneAnswer PROVE Spec => []RowsMatchAnchors
<1>1. Init => MatchInv
  BY DEF Init, MatchInv, RowsMatchAnchors, MatchPass, Idle
<1>2. TypeOK /\ SingleInv /\ MatchInv /\ [Next]_vars => MatchInv'
  BY MatchStep
<1>3. MatchInv => RowsMatchAnchors
  BY DEF MatchInv
<1> QED BY <1>1, <1>2, <1>3, TypeCorrect, SingleInvariant, PTL DEF Spec

(***************************************************************************)
(* What a completed reorg check promises, where no reorg falls inside a    *)
(* pass.  CheckedInv follows the promise from the comparison of hashes     *)
(* through the rollback to the rows of the batches that come after.        *)
(***************************************************************************)
CanonicalFrom(S, low) == \A row \in S : row[1] >= low => row = Canonical(row[1])

CheckedPass(p) ==
    /\ p.pc \in Reading => \A row \in p.logs : row = Canonical(row[1])
    /\ p.pc \in {"reorg_heads", "reorg_anchors", "reorg_blocks"} =>
         p.verified = Unverified
    /\ p.pc = "reorg_blocks" =>
         \A b \in p.from..(p.next - 1) : p.stored[b] = anchors[b]
    /\ p.pc = "rollback" =>
         CanonicalFrom({row \in rows : row[1] < p.rollback}, p.verified)
    /\ p.pc \notin {"idle", "rollback"} => CanonicalFrom(rows, p.verified)

CheckedInv == \A r \in Runner : CheckedPass(pass[r])

\* A pass that has not compared anything promises nothing.
LEMMA NothingVerified ==
    ASSUME TypeOK
    PROVE  CanonicalFrom(rows, Unverified)
BY SourceAssumption DEF TypeOK, CanonicalFrom, Unverified, Block, Height

LEMMA CheckedCompares ==
    ASSUME TypeOK, SingleInv, RowsMatchAnchors, CheckedInv, NEW r, Runner = {r},
           ReorgCheckCompares(r)
    PROVE  CheckedInv'
<1> USE SourceAssumption, RunnerAssumption
<1> DEFINE p == pass[r]
<1>1. /\ p \in Pass /\ p.pc = "reorg_blocks" /\ p.next = checkpoint
      /\ \A b \in p.from..(p.next - 1) : p.stored[b] = anchors[b]
      /\ UNCHANGED <<chain, anchors, rows>>
  BY DEF TypeOK, SingleInv, SinglePass, CheckedInv, CheckedPass, ReorgCheckCompares,
         sourceVars, dbVars
<1>2. p.from \in Nat /\ p.next \in Nat /\ p.rollback \in Nat
  BY <1>1 DEF Pass, Position, Height
<1>c. PICK missing : FindsNothing(r, missing) \/ \E first : Finds(r, missing, first)
  BY CompareCases
<1> DEFINE differs == Differs(p, missing)
\* A block whose hash agrees has the rows of that hash.
<1>3. ASSUME NEW row \in rows, row[1] >= p.from, row[1] \notin differs
      PROVE  row = Canonical(row[1])
  <2> HIDE DEF p
  <2>1. row \in Block /\ row[1] \in Height /\ row[1] \in Nat
    BY DEF TypeOK, Block, Height
  <2>2. row[1] \in p.from..(p.next - 1)
    BY <1>1, <1>2, <1>3, <2>1 DEF SingleInv, RowsBelowCheckpoint
  <2>3. anchors[row[1]] = chain[row[1]]
    BY <1>1, <1>3, <2>2 DEF p, Differs
  <2>4. chain[row[1]] \in ForkId
    BY <2>1 DEF TypeOK, SourceTypeOK
  <2>5. row[2] = chain[row[1]]
    BY <2>3, <2>4 DEF RowsMatchAnchors, ForkId, NoFork
  <2> QED BY <2>1, <2>5 DEF Canonical, Block
<1>4. CASE FindsNothing(r, missing)
  <2>1. pass'[r] = Clean(p) /\ differs = {}
    BY <1>4, Alone DEF FindsNothing
  <2>2. pass'[r].pc = "head" /\ pass'[r].verified = p.from
    BY <2>1, ComparedFields
  <2>3. CanonicalFrom(rows, p.from)
    BY <1>3, <2>1 DEF CanonicalFrom
  <2>4. CheckedPass(pass[r])'
    <3> HIDE DEF p
    <3> QED BY <1>1, <2>2, <2>3 DEF CheckedPass, CanonicalFrom, Canonical, Reading
  <2> QED BY <2>4 DEF CheckedInv
<1>5. ASSUME NEW first, Finds(r, missing, first) PROVE CheckedInv'
  <2>1. /\ pass'[r] = Back(p, first, first \in missing)
        /\ first \in p.from..(p.next - 1) /\ \A b \in differs : first <= b
    BY <1>5, Alone DEF Finds, Differs
  <2>2. /\ pass'[r].pc = "rollback" /\ pass'[r].rollback = first
        /\ pass'[r].verified = p.from
    BY <2>1, ComparedFields
  <2>3. CanonicalFrom({row \in rows : row[1] < first}, p.from)
    <3>1. \A row \in rows : row[1] \in Nat
      BY DEF TypeOK, Block, Height
    <3>2. first \in Nat
      BY <1>2, <2>1
    <3>3. \A row \in rows : row[1] < first => row[1] \notin differs
      <4> HIDE DEF differs
      <4> QED BY <2>1, <3>1, <3>2
    <3> HIDE DEF differs
    <3> QED BY <1>3, <3>3 DEF CanonicalFrom
  <2>4. CheckedPass(pass[r])'
    <3> HIDE DEF p, differs
    <3> QED BY <1>1, <2>2, <2>3 DEF CheckedPass, CanonicalFrom, Canonical, Reading
  <2> QED BY <2>4 DEF CheckedInv
<1> QED BY <1>c, <1>4, <1>5

LEMMA CheckedStep ==
    ASSUME SingleRunner, ~ReorgsAnytime, TypeOK, SingleInv, RowsMatchAnchors,
           CheckedInv, [Next]_vars
    PROVE  CheckedInv'
<1> USE SourceAssumption, RunnerAssumption
<1>1. CASE SourceStep
  <2>1. PICK r : Runner = {r}
    BY DEF SingleRunner
  <2>2. UNCHANGED <<anchors, rows, pass>> /\ CheckedPass(pass[r])
    BY <1>1, <2>1 DEF SourceStep, dbVars, CheckedInv
  <2>3. pass[r].pc # "idle" => UNCHANGED chain
    BY <1>1, <2>1, CalmPass
  <2>4. CheckedPass(pass[r])'
    <3>1. CASE pass[r].pc = "idle"
      BY <2>2, <3>1 DEF CheckedPass, Reading
    <3>2. CASE pass[r].pc # "idle"
      BY <2>2, <2>3, <3>2 DEF CheckedPass, CanonicalFrom, Canonical
    <3> QED BY <3>1, <3>2
  <2> QED BY <2>1, <2>2, <2>4 DEF CheckedInv
<1>2. ASSUME NEW r \in Runner, RunnerStep(r) PROVE CheckedInv'
  <2> DEFINE p == pass[r]
  <2>r. Runner = {r}
    BY DEF SingleRunner
  <2>p. p \in Pass /\ SinglePass(p) /\ CheckedPass(p)
    BY DEF TypeOK, SingleInv, CheckedInv
  <2>n. CanonicalFrom(rows, Unverified)
    BY NothingVerified
  <2>e. ASSUME EndPass(r) PROVE CheckedInv'
    <3>1. pass'[r] = Idle
      BY <2>e, <2>r, Alone DEF EndPass
    <3>2. CheckedPass(pass[r])'
      BY <3>1 DEF CheckedPass, Idle, Reading
    <3> QED BY <2>r, <3>2 DEF CheckedInv
  \* The program points at which only the promise is remembered.
  <2>h. ASSUME UNCHANGED <<rows, chain>>, NEW locals, Goto(r, locals),
               locals.pc \in {"reorg_heads", "reorg_anchors", "head", "logs"},
               locals.pc \in {"reorg_heads", "reorg_anchors"}
                 => locals.verified = Unverified,
               CanonicalFrom(rows, locals.verified)
        PROVE  CheckedInv'
    <3>1. pass'[r] = locals
      BY <2>h, <2>r, Alone
    <3>2. CheckedPass(pass[r])'
      BY <2>h, <3>1 DEF CheckedPass, CanonicalFrom, Canonical, Reading
    <3> QED BY <2>r, <3>2 DEF CheckedInv
  \* A step between reading the logs and writing them changes neither.
  <2>w. ASSUME UNCHANGED <<rows, chain>>, p.pc \in Reading, pass'[r].pc \in Reading,
               pass'[r].logs = p.logs, pass'[r].verified = p.verified
        PROVE  CheckedInv'
    <3>1. CheckedPass(pass[r])'
      BY <2>p, <2>w DEF CheckedPass, CanonicalFrom, Canonical, Reading
    <3> QED BY <2>r, <3>1 DEF CheckedInv
  <2>1. CASE ReadOrCreate(r)
    <3> DEFINE pc == IF UsesReorgProtection /\ checkpoint' > 0 THEN "reorg_heads" ELSE "head"
               next == checkpoint'
    <3>0. pc \in {"reorg_heads", "head"}
      OBVIOUS
    <3>1. Goto(r, [Idle EXCEPT !.pc = pc, !.next = next])
      BY <2>1 DEF ReadOrCreate
    <3> HIDE DEF pc, next
    <3>2. /\ [Idle EXCEPT !.pc = pc, !.next = next].pc = pc
          /\ [Idle EXCEPT !.pc = pc, !.next = next].verified = Unverified
      BY DEF Idle
    <3>3. UNCHANGED <<rows, chain>>
      BY <2>1 DEF ReadOrCreate, sourceVars
    <3> QED BY <2>h, <2>n, <3>0, <3>1, <3>2, <3>3
  <2>2. CASE ReorgHeads(r)
    <3> DEFINE from == CheckFrom(p.next)
    <3>0. p.pc = "reorg_heads" /\ p.verified = Unverified /\ UNCHANGED <<rows, chain>>
      BY <2>2, <2>p DEF ReorgHeads, CheckedPass, sourceVars, dbVars
    <3>1. CASE from > p.next - 1
      <4>1. from \in Nat /\ p.next \in Nat /\ p.next = checkpoint
        BY <2>p, <3>0 DEF CheckFrom, Larger, SaturatingSub, SinglePass, Pass, Position,
                          Height, TypeOK, SourceTypeOK
      <4> HIDE DEF from
      <4>2. Goto(r, [p EXCEPT !.pc = "head", !.verified = from])
        BY <2>2, <3>1 DEF ReorgHeads, from
      <4>3. \A row \in rows : row[1] \in Nat /\ row[1] < checkpoint
        BY DEF TypeOK, Block, Height, SingleInv, RowsBelowCheckpoint
      <4>4. CanonicalFrom(rows, from)
        BY <3>1, <4>1, <4>3 DEF CanonicalFrom
      <4> QED BY <2>p, <2>h, <3>0, <4>2, <4>4 DEF Pass
    <3>2. CASE ~(from > p.next - 1)
      <4> HIDE DEF from
      <4>1. Goto(r, [p EXCEPT !.pc = "reorg_anchors", !.from = from])
        BY <2>2, <3>2 DEF ReorgHeads, from
      <4> QED BY <2>p, <2>h, <2>n, <3>0, <4>1 DEF Pass
    <3> QED BY <3>1, <3>2
  <2>3. CASE ReorgAnchors(r)
    <3> DEFINE stored == [b \in Height |-> IF b \in p.from..(p.next - 1)
                                             THEN anchors[b] ELSE NoFork]
    <3>0. /\ p.pc = "reorg_anchors" /\ p.verified = Unverified
          /\ UNCHANGED <<rows, chain, anchors>>
          /\ Goto(r, [p EXCEPT !.pc = "reorg_blocks", !.stored = stored])
      BY <2>3, <2>p DEF ReorgAnchors, CheckedPass, sourceVars, dbVars
    <3>1. \A b \in p.from..(p.next - 1) : stored[b] = anchors[b]
      BY <2>p DEF Pass, Position, Height
    <3> HIDE DEF stored
    <3>2. /\ pass'[r].pc = "reorg_blocks" /\ pass'[r].from = p.from
          /\ pass'[r].next = p.next /\ pass'[r].stored = stored
          /\ pass'[r].verified = p.verified
      <4>1. pass'[r] = [p EXCEPT !.pc = "reorg_blocks", !.stored = stored]
        BY <2>r, <3>0, Alone
      <4> HIDE DEF p
      <4> QED BY <2>p, <4>1 DEF Pass
    <3>3. CheckedPass(pass[r])'
      BY <2>n, <3>0, <3>1, <3>2 DEF CheckedPass, CanonicalFrom, Canonical, Reading
    <3> QED BY <2>r, <3>3 DEF CheckedInv
  <2>4. CASE ReorgCheckWaits(r)
    BY <2>4, <2>h, <2>n DEF ReorgCheckWaits, Idle, sourceVars, dbVars
  <2>5. CASE RollbackReorged(r)
    <3> DEFINE first == p.rollback
               locals == [Idle EXCEPT !.pc = "head", !.next = first,
                                      !.verified = p.verified]
    <3>1. /\ rows' = {row \in rows : row[1] < first} /\ UNCHANGED chain
          /\ CanonicalFrom({row \in rows : row[1] < first}, p.verified)
      BY <2>5, <2>p DEF RollbackReorged, sourceVars, CheckedPass
    <3>2. pass'[r] = locals
      BY <2>5, <2>r, Alone DEF RollbackReorged
    <3>3. pass'[r].pc = "head" /\ pass'[r].verified = p.verified
      BY <3>2 DEF Idle
    <3>4. CheckedPass(pass[r])'
      <4> HIDE DEF locals
      <4> QED BY <3>1, <3>3 DEF CheckedPass, CanonicalFrom, Canonical, Reading
    <3> QED BY <2>r, <3>4 DEF CheckedInv
  <2>6. CASE LatestBlock(r)
    <3> DEFINE target == SaturatingSub(HeadHeight, HeadBuffer)
    <3>1. EndPass(r) \/ Goto(r, [p EXCEPT !.pc = "logs", !.target = target])
      BY <2>6 DEF LatestBlock
    <3>2. UNCHANGED <<rows, chain>> /\ CanonicalFrom(rows, p.verified)
      BY <2>6, <2>p DEF LatestBlock, sourceVars, dbVars, CheckedPass
    <3> HIDE DEF target
    <3> QED BY <2>p, <2>e, <2>h, <3>1, <3>2 DEF Pass
  <2>7. CASE QueryLogs(r)
    <3>0. PICK end \in p.next..Smaller(RangeEnd(r), ServedUpTo), incomplete \in BOOLEAN :
            Goto(r, [p EXCEPT
                      !.pc = IF UsesReorgProtection THEN "anchor_heads" ELSE "write",
                      !.end = end,
                      !.stop = incomplete \/ end < RangeEnd(r),
                      !.logs = LogsIn(p.next, end),
                      !.fresh = IF UsesReorgProtection THEN NoAnchors
                                ELSE AnchorsFromLogs(LogsIn(p.next, end))])
      BY <2>7 DEF QueryLogs
    <3> DEFINE logs == LogsIn(p.next, end)
               pc == IF UsesReorgProtection THEN "anchor_heads" ELSE "write"
               stop == incomplete \/ end < RangeEnd(r)
               fresh == IF UsesReorgProtection THEN NoAnchors ELSE AnchorsFromLogs(logs)
    <3>1. /\ pc \in {"anchor_heads", "write"}
          /\ Goto(r, [p EXCEPT !.pc = pc, !.end = end, !.stop = stop,
                               !.logs = logs, !.fresh = fresh])
      BY <3>0
    <3> HIDE DEF pc, stop, fresh
    <3>2. \A row \in logs : row = Canonical(row[1])
      BY DEF LogsIn, Canonical
    <3>3. UNCHANGED <<rows, chain>> /\ CanonicalFrom(rows, p.verified)
      BY <2>7, <2>p DEF QueryLogs, sourceVars, dbVars, CheckedPass
    <3> HIDE DEF logs
    <3>4. /\ pass'[r].pc = pc /\ pass'[r].logs = logs
          /\ pass'[r].verified = p.verified
      <4>1. pass'[r] = [p EXCEPT !.pc = pc, !.end = end, !.stop = stop,
                                 !.logs = logs, !.fresh = fresh]
        BY <2>r, <3>1, Alone
      <4> HIDE DEF p
      <4> QED BY <2>p, <4>1 DEF Pass
    <3>5. CheckedPass(pass[r])'
      BY <3>1, <3>2, <3>3, <3>4 DEF CheckedPass, CanonicalFrom, Canonical
    <3> QED BY <2>r, <3>5 DEF CheckedInv
  <2>8. CASE QueryLogsServesNothing(r) \/ AnchorBlocksWait(r) \/ Abort(r)
    BY <2>8, <2>e DEF QueryLogsServesNothing, AnchorBlocksWait, Abort
  <2>9. CASE AnchorHeads(r)
    <3>1. p.pc \in Reading /\ UNCHANGED <<rows, chain>>
      BY <2>9 DEF AnchorHeads, sourceVars, dbVars, Reading
    <3>2. /\ pass'[r].logs = p.logs /\ pass'[r].verified = p.verified
          /\ pass'[r].pc \in {"write", "anchor_blocks"}
      <4> DEFINE from == Larger(p.next, finalized + 1)
      <4>1. \/ Goto(r, [p EXCEPT !.pc = "write"])
            \/ Goto(r, [p EXCEPT !.pc = "anchor_blocks", !.from = from])
        BY <2>9 DEF AnchorHeads
      <4> HIDE DEF from
      <4>2. \/ pass'[r] = [p EXCEPT !.pc = "write"]
            \/ pass'[r] = [p EXCEPT !.pc = "anchor_blocks", !.from = from]
        BY <2>r, <4>1, Alone
      <4> HIDE DEF p
      <4> QED BY <2>p, <4>2 DEF Pass
    <3> QED BY <2>w, <3>1, <3>2 DEF Reading
  <2>10. CASE AnchorBlocks(r)
    <3> DEFINE fresh == AnchorsFromBlocks(p.from, p.end)
    <3>1. /\ p.pc \in Reading /\ UNCHANGED <<rows, chain>>
          /\ Goto(r, [p EXCEPT !.pc = "write", !.from = 0, !.fresh = fresh])
      BY <2>10 DEF AnchorBlocks, sourceVars, dbVars, Reading
    <3> HIDE DEF fresh
    <3>2. /\ pass'[r].pc = "write" /\ pass'[r].logs = p.logs
          /\ pass'[r].verified = p.verified
      <4>1. pass'[r] = [p EXCEPT !.pc = "write", !.from = 0, !.fresh = fresh]
        BY <2>r, <3>1, Alone
      <4> HIDE DEF p
      <4> QED BY <2>p, <4>1 DEF Pass
    <3> QED BY <2>w, <3>1, <3>2 DEF Reading
  <2>11. CASE WriteRange(r)
    <3> DEFINE more == [Idle EXCEPT !.pc = "logs", !.next = p.end + 1,
                                    !.target = p.target, !.verified = p.verified]
    <3>1. EndPass(r) \/ Goto(r, more)
      BY <2>11 DEF WriteRange
    <3>2. CASE Goto(r, more)
      <4>1. /\ rows' = rows \cup p.logs /\ UNCHANGED chain
            /\ CanonicalFrom(rows, p.verified)
            /\ \A row \in p.logs : row = Canonical(row[1])
        BY <2>11, <2>p DEF WriteRange, sourceVars, CheckedPass, Reading
      <4>2. pass'[r] = more
        BY <2>r, <3>2, Alone
      <4>3. pass'[r].pc = "logs" /\ pass'[r].verified = p.verified
        BY <4>2 DEF Idle
      <4>4. CheckedPass(pass[r])'
        <5> HIDE DEF more
        <5> QED BY <4>1, <4>3 DEF CheckedPass, CanonicalFrom, Canonical, Reading
      <4> QED BY <2>r, <4>4 DEF CheckedInv
    <3> QED BY <2>e, <3>1, <3>2
  <2> QED BY <1>2, <2>r, <2>1, <2>2, <2>3, <2>4, <2>5, <2>6, <2>7, <2>8, <2>9,
             <2>10, <2>11, CheckedCompares DEF RunnerStep
<1>3. CASE UNCHANGED vars
  BY <1>3 DEF vars, sourceVars, dbVars, CheckedInv, CheckedPass, CanonicalFrom, Canonical
<1> QED BY <1>1, <1>2, <1>3 DEF Next

\* With one process and no reorg inside a pass, a completed reorg check leaves no
\* row of an abandoned block in the range it compared, and the rest of its pass
\* adds none (src/runner.rs:536-567).
THEOREM CheckedRows ==
    ASSUME SingleRunner, ~ReorgsAnytime PROVE Spec => []CheckedRowsCanonical
<1>1. Init => CheckedInv
  BY DEF Init, CheckedInv, CheckedPass, Idle, Reading
<1>2. TypeOK /\ SingleInv /\ RowsMatchAnchors /\ CheckedInv /\ [Next]_vars => CheckedInv'
  BY CheckedStep
<1>3. CheckedInv => CheckedRowsCanonical
  BY DEF CheckedInv, CheckedPass, CanonicalFrom, CheckedRowsCanonical
<1>4. AnchorsOfOneAnswer
  BY DEF AnchorsOfOneAnswer
<1> QED BY <1>1, <1>2, <1>3, <1>4, TypeCorrect, SingleInvariant, AnchorsVouch, PTL
        DEF Spec
=============================================================================
