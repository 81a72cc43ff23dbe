-------------------------- MODULE ChainRunnerProofs --------------------------
(***************************************************************************)
(* Theorems about ChainRunner, for every chain, every configuration and    *)
(* every set of runners.                                                   *)
(***************************************************************************)
EXTENDS ChainRunner, TLAPS

(***************************************************************************)
(* Facts about the operators the actions are built from.                   *)
(***************************************************************************)
LEMMA AnchorMapFacts ==
    /\ NoAnchors \in AnchorMap
    /\ \A logs : AnchorsFromLogs(logs) \in AnchorMap
    /\ chain \in [Height -> ForkId] =>
         \A from, to : AnchorsFromBlocks(from, to) \in AnchorMap
BY DEF NoAnchors, AnchorMap, AnchorsFromLogs, AnchorsFromBlocks

LEMMA IdleIsPass == Idle \in Pass
BY AnchorMapFacts, SourceAssumption
DEF Idle, Pass, PassPC, Position, Height, Unverified

LEMMA LogsInBlocks ==
    ASSUME SourceTypeOK, NEW from \in Nat, NEW to \in Height
    PROVE  LogsIn(from, to) \subseteq Block
BY SourceAssumption DEF SourceTypeOK, LogsIn, Canonical, Block, Height

(***************************************************************************)
(* The world moves within its type.                                        *)
(***************************************************************************)
LEMMA SourceStepType ==
    ASSUME SourceTypeOK, SourceNext
    PROVE  SourceTypeOK'
<1> USE SourceAssumption DEF SourceTypeOK, Height, ForkId
<1>1. CASE NewBlock
  BY <1>1 DEF NewBlock
<1>2. CASE AdvanceSafe
  BY <1>2 DEF AdvanceSafe
<1>3. CASE AdvanceFinalized
  BY <1>3 DEF AdvanceFinalized
<1>4. CASE Reorg
  <2>1. PICK h \in (Settled + 1)..latest, top \in Height :
          /\ top >= h - 1 /\ top <= latest
          /\ chain' = [b \in Height |-> IF b >= h THEN fork + 1 ELSE chain[b]]
          /\ latest' = top
          /\ safe' = IF safe >= h THEN h - 1 ELSE safe
    BY <1>4 DEF Reorg
  <2>2. h \in Nat /\ finalized < h
    BY <2>1 DEF Settled
  <2>3. fork' = fork + 1 /\ fork + 1 \in ForkId /\ finalized' = finalized
    BY <1>4 DEF Reorg
  <2>4. chain' \in [Height -> ForkId] /\ \A b \in Height : chain'[b] <= fork'
    BY <2>1, <2>2, <2>3
  <2>5. safe' \in Height /\ finalized' <= safe' /\ safe' <= latest' /\ latest' \in Height
    BY <2>1, <2>2, <2>3
  <2> QED BY <2>3, <2>4, <2>5
<1> QED BY <1>1, <1>2, <1>3, <1>4 DEF SourceNext

LEMMA GotoType ==
    ASSUME pass \in [Runner -> Pass], NEW r \in Runner, NEW locals \in Pass,
           Goto(r, locals)
    PROVE  pass' \in [Runner -> Pass]
BY DEF Goto

(***************************************************************************)
(* The two ends of a reorg check that compares.                            *)
(***************************************************************************)
Compared(p) == [Idle EXCEPT !.next = p.next, !.verified = p.from]

Clean(p)               == [Compared(p) EXCEPT !.pc = "head"]
Back(p, first, absent) == [Compared(p) EXCEPT !.pc = "rollback", !.rollback = first,
                                              !.absent = absent]

FindsNothing(r, missing) == Differs(pass[r], missing) = {} /\ Goto(r, Clean(pass[r]))

Finds(r, missing, first) ==
    /\ first \in Differs(pass[r], missing)
    /\ \A b \in Differs(pass[r], missing) : first <= b
    /\ Goto(r, Back(pass[r], first, first \in missing))

LEMMA CompareCases ==
    ASSUME NEW r, ReorgCheckCompares(r)
    PROVE  \E missing \in SUBSET (pass[r].from..(pass[r].next - 1)) :
             FindsNothing(r, missing) \/ \E first : Finds(r, missing, first)
BY Zenon DEF ReorgCheckCompares, FindsNothing, Finds, Clean, Back, Compared

LEMMA ComparedFields ==
    ASSUME NEW p, NEW first, NEW absent
    PROVE  /\ Clean(p).pc = "head" /\ Clean(p).next = p.next
           /\ Clean(p).verified = p.from /\ Clean(p).fresh = NoAnchors
           /\ Back(p, first, absent).pc = "rollback" /\ Back(p, first, absent).next = p.next
           /\ Back(p, first, absent).rollback = first
           /\ Back(p, first, absent).absent = absent
           /\ Back(p, first, absent).verified = p.from
           /\ Back(p, first, absent).fresh = NoAnchors
BY DEF Clean, Back, Compared, Idle

(***************************************************************************)
(* Type correctness, one step per action.                                  *)
(***************************************************************************)
LEMMA TypeStep ==
    ASSUME TypeOK, [Next]_vars
    PROVE  TypeOK'
<1> USE SourceAssumption, RunnerAssumption DEF TypeOK
<1>1. ASSUME SourceStep PROVE TypeOK'
  BY <1>1, SourceStepType DEF SourceStep, SourceNext, dbVars
<1>2. ASSUME NEW r \in Runner, RunnerStep(r) PROVE TypeOK'
  <2> DEFINE p == pass[r]
  <2>p. p \in Pass
    OBVIOUS
  <2>i. Idle \in Pass
    BY IdleIsPass
  <2>e. ASSUME EndPass(r), UNCHANGED <<sourceVars, dbVars>> PROVE TypeOK'
    BY <2>e, <2>i, GotoType DEF EndPass, sourceVars, dbVars, SourceTypeOK
  <2>g. ASSUME NEW locals \in Pass, Goto(r, locals),
               UNCHANGED <<sourceVars, dbVars>>
        PROVE  TypeOK'
    BY <2>g, GotoType DEF sourceVars, dbVars, SourceTypeOK
  <2>1. CASE ReadOrCreate(r)
    <3>1. checkpoint' \in Position
      BY <2>1 DEF ReadOrCreate, Position, Height, NoCheckpoint
    <3>2. pass' \in [Runner -> Pass]
      BY <2>1, <2>i, <3>1, GotoType DEF ReadOrCreate, Pass, PassPC
    <3> QED BY <2>1, <3>1, <3>2 DEF ReadOrCreate, sourceVars, SourceTypeOK
  <2>2. CASE ReorgHeads(r)
    <3>1. CheckFrom(p.next) \in Position
      BY <2>p DEF CheckFrom, Larger, SaturatingSub, Pass, Position, Height, SourceTypeOK
    <3> QED BY <2>2, <2>p, <2>g, <3>1 DEF ReorgHeads, Pass, PassPC
  <2>3. CASE ReorgAnchors(r)
    <3>1. [b \in Height |-> IF b \in p.from..(p.next - 1) THEN anchors[b] ELSE NoFork]
            \in AnchorMap
      BY DEF AnchorMap
    <3> QED BY <2>3, <2>p, <2>g, <3>1 DEF ReorgAnchors, Pass, PassPC
  <2>4. CASE ReorgCheckWaits(r)
    BY <2>4, <2>p, <2>i, <2>g DEF ReorgCheckWaits, Pass, PassPC
  <2>5. CASE ReorgCheckCompares(r)
    <3>0. UNCHANGED <<sourceVars, dbVars>>
      BY <2>5 DEF ReorgCheckCompares
    <3>1. PICK missing : FindsNothing(r, missing) \/ \E first : Finds(r, missing, first)
      BY <2>5, CompareCases
    <3>2. Compared(p) \in Pass
      BY <2>p, <2>i DEF Compared, Pass
    <3>3. CASE FindsNothing(r, missing)
      <4>1. Clean(p) \in Pass
        BY <3>2 DEF Clean, Pass, PassPC
      <4> QED BY <2>g, <3>0, <3>3, <4>1 DEF FindsNothing
    <3>4. ASSUME NEW first, Finds(r, missing, first) PROVE TypeOK'
      <4>1. first \in Height
        BY <2>p, <3>4 DEF Finds, Differs, Pass, Position, Height
      <4>2. ASSUME NEW absent \in BOOLEAN PROVE Back(p, first, absent) \in Pass
        BY <3>2, <4>1 DEF Back, Pass, PassPC
      <4>3. (first \in missing) \in BOOLEAN
        OBVIOUS
      <4> QED BY <2>g, <3>0, <3>4, <4>2, <4>3 DEF Finds
    <3> QED BY <3>1, <3>3, <3>4
  <2>6. CASE RollbackReorged(r)
    <3>1. p.rollback \in Position
      BY <2>p DEF Pass, Position, Height
    <3>2. checkpoint' \in Position /\ rows' \subseteq Block /\ anchors' \in AnchorMap
      BY <2>6, <3>1 DEF RollbackReorged, AnchorMap
    <3>3. pass' \in [Runner -> Pass]
      BY <2>6, <2>p, <2>i, <3>1, GotoType DEF RollbackReorged, Pass, PassPC
    <3> QED BY <2>6, <3>2, <3>3 DEF RollbackReorged, sourceVars, SourceTypeOK
  <2>7. CASE LatestBlock(r)
    <3>1. SaturatingSub(HeadHeight, HeadBuffer) \in Height
      BY DEF SaturatingSub, HeadHeight, SourceTypeOK, Height
    <3> QED BY <2>7, <2>p, <2>e, <2>g, <3>1 DEF LatestBlock, Pass, PassPC
  <2>8. CASE QueryLogs(r)
    <3>1. PICK end \in p.next..Smaller(RangeEnd(r), ServedUpTo), incomplete \in BOOLEAN :
            Goto(r, [p EXCEPT
                      !.pc = IF UsesReorgProtection THEN "anchor_heads" ELSE "write",
                      !.end = end,
                      !.stop = incomplete \/ end < RangeEnd(r),
                      !.logs = LogsIn(p.next, end),
                      !.fresh = IF UsesReorgProtection THEN NoAnchors
                                ELSE AnchorsFromLogs(LogsIn(p.next, end))])
      BY <2>8 DEF QueryLogs
    <3>2. p.next \in Nat /\ ServedUpTo \in Height /\ RangeEnd(r) \in Int
      BY <2>p DEF Pass, Position, ServedUpTo, SourceTypeOK, RangeEnd, Smaller, Height
    <3>3. end \in Height
      BY <3>1, <3>2 DEF Smaller, Height
    <3>4. LogsIn(p.next, end) \in SUBSET Block
      BY <3>2, <3>3, LogsInBlocks
    <3> HIDE DEF p
    <3>5. [p EXCEPT
             !.pc = IF UsesReorgProtection THEN "anchor_heads" ELSE "write",
             !.end = end,
             !.stop = incomplete \/ end < RangeEnd(r),
             !.logs = LogsIn(p.next, end),
             !.fresh = IF UsesReorgProtection THEN NoAnchors
                       ELSE AnchorsFromLogs(LogsIn(p.next, end))] \in Pass
      BY <2>p, <3>2, <3>3, <3>4, AnchorMapFacts DEF Pass, PassPC
    <3> QED BY <2>8, <3>1, <3>5, <2>g DEF QueryLogs
  <2>9. CASE QueryLogsServesNothing(r)
    BY <2>9, <2>e DEF QueryLogsServesNothing
  <2>10. CASE AnchorHeads(r)
    <3>1. Larger(p.next, finalized + 1) \in Position
      BY <2>p DEF Larger, Pass, Position, Height, SourceTypeOK
    <3> QED BY <2>10, <2>p, <2>g, <3>1 DEF AnchorHeads, Pass, PassPC
  <2>11. CASE AnchorBlocks(r)
    <3>1. AnchorsFromBlocks(p.from, p.end) \in AnchorMap
      BY AnchorMapFacts DEF SourceTypeOK
    <3>2. 0 \in Position
      BY DEF Position
    <3> QED BY <2>11, <2>p, <2>g, <3>1, <3>2 DEF AnchorBlocks, Pass, PassPC
  <2>12. CASE AnchorBlocksWait(r)
    BY <2>12, <2>e DEF AnchorBlocksWait
  <2>13. CASE WriteRange(r)
    <3>1. p.end + 1 \in Position
      BY <2>p DEF Pass, Position, Height
    <3>2. checkpoint' \in Position /\ rows' \subseteq Block /\ anchors' \in AnchorMap
      BY <2>13, <2>p, <3>1 DEF WriteRange, AnchorMap, Pass
    <3>3. pass' \in [Runner -> Pass]
      BY <2>13, <2>p, <2>i, <3>1, GotoType DEF WriteRange, EndPass, Pass, PassPC
    <3> QED BY <2>13, <3>2, <3>3 DEF WriteRange, sourceVars, SourceTypeOK
  <2>14. CASE Abort(r)
    BY <2>14, <2>e DEF Abort
  <2> QED BY <1>2, <2>1, <2>2, <2>3, <2>4, <2>5, <2>6, <2>7, <2>8, <2>9,
             <2>10, <2>11, <2>12, <2>13, <2>14 DEF RunnerStep
<1>3. ASSUME UNCHANGED vars PROVE TypeOK'
  BY <1>3 DEF vars, sourceVars, dbVars, SourceTypeOK
<1> QED BY <1>1, <1>2, <1>3 DEF Next

\* The tables and the locals of a pass keep their types, whatever the world and
\* the other processes do between two awaits (src/runner.rs:188-467).
THEOREM TypeCorrect == Spec => []TypeOK
<1>1. Init => TypeOK
  BY SourceAssumption, IdleIsPass, AnchorMapFacts
  DEF Init, SourceInit, TypeOK, SourceTypeOK, Height, ForkId
<1>2. TypeOK /\ [Next]_vars => TypeOK'
  BY TypeStep
<1> QED BY <1>1, <1>2, PTL DEF Spec

(***************************************************************************)
(* The settled modes: finalized, and durable where safe blocks stay.       *)
(*                                                                         *)
(* SettledInv adds to the two properties what makes them inductive: what a *)
(* pass carries across its awaits still holds when it is written, because  *)
(* all of it is about settled blocks, and those are beyond the reach of a  *)
(* reorg and of every other process.                                       *)
(***************************************************************************)
CompleteBelow(next) ==
    \A b \in StartBlock..(next - 1) :
        b <= Settled /\ Canonical(b) \in rows \cup EmptyBlocks

SettledPass(p) ==
    /\ p.pc \in {"idle", "head", "logs", "write"}
    /\ p.pc # "idle" => StartBlock <= p.next
    /\ CompleteBelow(p.next)
    /\ p.pc \in {"logs", "write"} => p.target <= Settled
    /\ p.pc = "write" => /\ p.next <= p.end /\ p.end <= Settled
                         /\ p.logs = LogsIn(p.next, p.end)

SettledInv ==
    /\ SettledRowsCanonical
    /\ checkpoint = NoCheckpoint \/ StartBlock <= checkpoint
    /\ CompleteBelow(checkpoint)
    /\ \A r \in Runner : SettledPass(pass[r])

LEMMA SettledStable ==
    ASSUME SourceTypeOK, SourceNext
    PROVE  /\ Settled \in Nat /\ Settled' \in Nat /\ Settled <= Settled'
           /\ Settled \in Height
           /\ \A b \in Height : b <= Settled => chain'[b] = chain[b]
<1> USE SourceAssumption DEF SourceTypeOK, Height, ForkId, Settled
<1>1. CASE NewBlock
  BY <1>1 DEF NewBlock
<1>2. CASE AdvanceSafe
  BY <1>2 DEF AdvanceSafe
<1>3. CASE AdvanceFinalized
  BY <1>3 DEF AdvanceFinalized
<1>4. CASE Reorg
  <2>1. PICK h \in (Settled + 1)..latest :
          /\ chain' = [b \in Height |-> IF b >= h THEN fork + 1 ELSE chain[b]]
          /\ safe' = IF safe >= h THEN h - 1 ELSE safe
    BY <1>4 DEF Reorg
  <2>2. finalized' = finalized
    BY <1>4 DEF Reorg
  <2> QED BY <2>1, <2>2
<1> QED BY <1>1, <1>2, <1>3, <1>4 DEF SourceNext

\* What lies below the settled head does not change while the world moves.
LEMMA SettledSourceStep ==
    ASSUME TypeOK, SettledInv, SourceStep
    PROVE  SettledInv'
<1>1. /\ Settled <= Settled' /\ Settled \in Nat /\ Settled' \in Nat /\ Settled \in Height
      /\ \A b \in Height : b <= Settled => chain'[b] = chain[b]
  BY SettledStable DEF SourceStep, SourceNext, TypeOK
<1>2. UNCHANGED <<checkpoint, anchors, rows, pass>>
  BY DEF SourceStep, dbVars
<1>3. \A b \in Height : b <= Settled => Canonical(b)' = Canonical(b)
  BY <1>1 DEF Canonical
<1>4. \A n \in Int : CompleteBelow(n) => CompleteBelow(n)'
  BY <1>1, <1>2, <1>3, SourceAssumption, RunnerAssumption DEF CompleteBelow, Height
<1>5. SettledRowsCanonical'
  <2>1. \A row \in rows : row[1] \in Height
    BY DEF TypeOK, Block
  <2> QED BY <1>1, <1>2, <1>3, <2>1, SourceAssumption DEF SettledInv, SettledRowsCanonical, Height
<1>6. ASSUME NEW r \in Runner PROVE SettledPass(pass[r])'
  <2> DEFINE p == pass[r]
  <2>1. p.next \in Int /\ p.end \in Height /\ p.next \in Nat /\ p.target \in Height /\ p' = p
    BY <1>2, SourceAssumption DEF TypeOK, Pass, Position, Height
  <2>2. SettledPass(p)
    BY DEF SettledInv
  <2>3. p.pc = "write" => LogsIn(p.next, p.end)' = LogsIn(p.next, p.end)
    <3>1. SUFFICES ASSUME p.pc = "write", NEW b \in p.next..p.end
                   PROVE  Canonical(b)' = Canonical(b)
      BY <2>1 DEF LogsIn
    <3> QED BY <1>1, <1>3, <2>1, <2>2, <3>1, SourceAssumption DEF SettledPass, Height
  <2> QED BY <1>1, <1>4, <2>1, <2>2, <2>3, SourceAssumption DEF SettledPass, Height
<1>7. CompleteBelow(checkpoint)'
  BY <1>2, <1>4, SourceAssumption DEF SettledInv, TypeOK, Position, NoCheckpoint
<1> QED BY <1>2, <1>5, <1>6, <1>7 DEF SettledInv

LEMMA SettledHead ==
    ASSUME SettledMode, TypeOK
    PROVE  /\ ~UsesReorgProtection
           /\ HeadHeight <= Settled /\ HeadHeight \in Height /\ Settled \in Height
BY SourceAssumption, RunnerAssumption
DEF SettledMode, UsesReorgProtection, HeadHeight, Settled, TypeOK, SourceTypeOK, Height

\* A pass that moved on without touching the database.
LEMMA SettledGoto ==
    ASSUME TypeOK, SettledInv, NEW r \in Runner, NEW locals,
           SettledPass(locals), Goto(r, locals), UNCHANGED <<sourceVars, dbVars>>
    PROVE  SettledInv'
<1>1. pass' = [pass EXCEPT ![r] = locals]
  BY DEF Goto
<1>2. /\ Settled' = Settled
      /\ \A n : CompleteBelow(n)' = CompleteBelow(n)
      /\ \A from, to : LogsIn(from, to)' = LogsIn(from, to)
      /\ SettledRowsCanonical' = SettledRowsCanonical
  BY DEF sourceVars, dbVars, Settled, CompleteBelow, Canonical, LogsIn, SettledRowsCanonical
<1>3. \A q \in Runner : SettledPass(pass'[q])
  BY <1>1 DEF SettledInv, TypeOK
<1>4. \A q \in Runner : SettledPass(pass[q])'
  BY <1>2, <1>3 DEF SettledPass
<1> QED BY <1>2, <1>4 DEF SettledInv, dbVars

LEMMA SettledIdle == SettledPass(Idle)
BY SourceAssumption, RunnerAssumption DEF SettledPass, Idle, CompleteBelow, Height

\* The written range extends the indexed prefix, even when it repeats what
\* another process wrote meanwhile.
LEMMA SettledWrite ==
    ASSUME SettledMode, TypeOK, SettledInv, NEW r \in Runner, WriteRange(r)
    PROVE  SettledInv'
<1> DEFINE p == pass[r]
<1>1. /\ p \in Pass /\ SettledPass(p) /\ p.pc = "write"
  BY DEF TypeOK, SettledInv, WriteRange
<1>2. /\ p.next \in Nat /\ p.end \in Nat /\ p.end \in Height /\ p.target \in Nat
  BY <1>1, SourceAssumption DEF Pass, Position, Height
<1>3. /\ StartBlock <= p.next /\ p.next <= p.end /\ p.end <= Settled
      /\ p.logs = LogsIn(p.next, p.end) /\ p.target <= Settled /\ CompleteBelow(p.next)
  BY <1>1 DEF SettledPass
<1>4. /\ Settled' = Settled /\ Settled \in Nat
      /\ \A b : Canonical(b)' = Canonical(b)
      /\ \A from, to : LogsIn(from, to)' = LogsIn(from, to)
  BY SettledHead, SourceAssumption DEF WriteRange, sourceVars, Settled, Canonical, LogsIn, Height
<1>5. rows' = rows \cup p.logs /\ checkpoint' = p.end + 1
  BY DEF WriteRange
<1>6. StartBlock \in Nat
  BY RunnerAssumption, SourceAssumption DEF Height
<1>7. CompleteBelow(checkpoint)'
  <2> SUFFICES ASSUME NEW b \in StartBlock..p.end
               PROVE  b <= Settled /\ Canonical(b) \in rows' \cup EmptyBlocks
    BY <1>2, <1>4, <1>5, <1>6 DEF CompleteBelow
  <2>1. CASE b < p.next
    BY <1>2, <1>3, <1>5, <1>6, <2>1 DEF CompleteBelow
  <2>2. CASE b >= p.next
    <3>1. b \in p.next..p.end
      BY <1>2, <1>6, <2>2
    <3> QED BY <1>2, <1>3, <1>4, <1>5, <1>6, <3>1 DEF LogsIn
  <2> QED BY <1>2, <1>6, <2>1, <2>2
<1>8. SettledRowsCanonical'
  <2>1. \A row \in p.logs : row[1] <= Settled /\ row = Canonical(row[1])
    BY <1>2, <1>3, <1>4 DEF LogsIn, Canonical
  <2> QED BY <1>4, <1>5, <2>1 DEF SettledInv, SettledRowsCanonical
<1>9. \A q \in Runner : SettledPass(pass[q])'
  <2>1. \A n : CompleteBelow(n) => CompleteBelow(n)'
    BY <1>4, <1>5 DEF CompleteBelow
  <2>2. ASSUME NEW q \in Runner, q # r PROVE SettledPass(pass[q])'
    <3>1. pass'[q] = pass[q]
      BY <2>2 DEF WriteRange, Goto, EndPass, TypeOK
    <3>2. SettledPass(pass[q])
      BY DEF SettledInv
    <3> QED BY <1>4, <2>1, <3>1, <3>2 DEF SettledPass
  <2>3. CASE p.stop \/ p.end + 1 > p.target
    <3>1. pass'[r] = Idle
      BY <2>3 DEF WriteRange, EndPass, Goto, TypeOK
    <3> QED BY <2>1, <2>2, <3>1, SettledIdle DEF SettledPass, Idle
  <2>4. CASE ~(p.stop \/ p.end + 1 > p.target)
    <3>1. pass'[r] = [Idle EXCEPT !.pc = "logs", !.next = p.end + 1,
                                  !.target = p.target, !.verified = p.verified]
      BY <2>4 DEF WriteRange, Goto, TypeOK
    <3>2. /\ pass'[r].pc = "logs" /\ pass'[r].next = checkpoint'
          /\ pass'[r].target = p.target
      BY <1>5, <3>1 DEF Idle
    <3>3. SettledPass(pass[r])'
      BY <1>2, <1>3, <1>4, <1>5, <1>6, <1>7, <3>2 DEF SettledPass
    <3> QED BY <2>2, <3>3
  <2> QED BY <2>3, <2>4
<1> QED BY <1>2, <1>3, <1>5, <1>6, <1>7, <1>8, <1>9 DEF SettledInv

LEMMA SettledStep ==
    ASSUME SettledMode, TypeOK, SettledInv, [Next]_vars
    PROVE  SettledInv'
<1>1. ASSUME SourceStep PROVE SettledInv'
  BY <1>1, SettledSourceStep
<1>2. ASSUME NEW r \in Runner, RunnerStep(r) PROVE SettledInv'
  <2> DEFINE p == pass[r]
  <2>p. p \in Pass /\ SettledPass(p) /\ p.next \in Nat
    BY SourceAssumption DEF TypeOK, SettledInv, Pass, Position, Height
  <2>u. ~UsesReorgProtection /\ HeadHeight <= Settled /\ HeadHeight \in Nat
        /\ Settled \in Nat /\ Settled \in Height
    BY SettledHead, SourceAssumption DEF Height
  <2>e. ASSUME EndPass(r), UNCHANGED <<sourceVars, dbVars>> PROVE SettledInv'
    BY <2>e, SettledGoto, SettledIdle DEF EndPass
  <2>g. ASSUME NEW locals, SettledPass(locals), Goto(r, locals),
               UNCHANGED <<sourceVars, dbVars>>
        PROVE  SettledInv'
    BY <2>g, SettledGoto
  <2>1. CASE ReadOrCreate(r)
    <3>1. /\ Settled' = Settled
          /\ \A n : CompleteBelow(n)' = CompleteBelow(n)
          /\ \A from, to : LogsIn(from, to)' = LogsIn(from, to)
          /\ SettledRowsCanonical' = SettledRowsCanonical
      BY <2>1 DEF ReadOrCreate, sourceVars, Settled, CompleteBelow, Canonical, LogsIn,
                  SettledRowsCanonical
    <3>2. /\ StartBlock <= checkpoint' /\ StartBlock \in Nat
      BY <2>1, SourceAssumption, RunnerAssumption
      DEF ReadOrCreate, SettledInv, NoCheckpoint, Height
    <3>3. CompleteBelow(checkpoint')
      BY <2>1, <3>2 DEF ReadOrCreate, SettledInv, CompleteBelow
    <3>4. pass' = [pass EXCEPT ![r] = [Idle EXCEPT !.pc = "head", !.next = checkpoint']]
      BY <2>1, <2>u DEF ReadOrCreate, Goto
    <3>5. SettledPass([Idle EXCEPT !.pc = "head", !.next = checkpoint'])
      BY <3>2, <3>3 DEF SettledPass, Idle
    <3>6. \A q \in Runner : SettledPass(pass'[q])
      BY <3>4, <3>5 DEF SettledInv, TypeOK
    <3>7. \A q \in Runner : SettledPass(pass[q])'
      BY <3>1, <3>6 DEF SettledPass
    <3>8. CompleteBelow(checkpoint)'
      BY <2>1, <3>3 DEF ReadOrCreate, CompleteBelow, sourceVars, Settled, Canonical
    <3> QED BY <3>1, <3>2, <3>7, <3>8 DEF SettledInv
  <2>2. CASE LatestBlock(r)
    <3>1. SaturatingSub(HeadHeight, HeadBuffer) <= Settled
      BY <2>u, RunnerAssumption DEF SaturatingSub
    <3>2. SettledPass([p EXCEPT !.pc = "logs",
                                !.target = SaturatingSub(HeadHeight, HeadBuffer)])
      BY <2>2, <2>p, <3>1 DEF LatestBlock, SettledPass, Pass
    <3> QED BY <2>2, <2>e, <2>g, <3>2 DEF LatestBlock
  <2>3. CASE QueryLogs(r)
    <3>1. PICK end \in p.next..Smaller(RangeEnd(r), ServedUpTo), incomplete \in BOOLEAN :
            Goto(r, [p EXCEPT !.pc = "write", !.end = end,
                              !.stop = incomplete \/ end < RangeEnd(r),
                              !.logs = LogsIn(p.next, end),
                              !.fresh = AnchorsFromLogs(LogsIn(p.next, end))])
      BY <2>3, <2>u DEF QueryLogs
    <3>2. p.pc = "logs" /\ p.target <= Settled /\ p.target \in Nat
      BY <2>3, <2>p, SourceAssumption DEF QueryLogs, SettledPass, Pass, Height
    <3>3. ServedUpTo \in Nat
      BY <2>u, SourceAssumption DEF ServedUpTo, TypeOK, SourceTypeOK, Height
    <3>4. end \in Nat /\ p.next <= end /\ end <= Settled
      BY <2>p, <2>u, <3>1, <3>2, <3>3, RunnerAssumption DEF Smaller, RangeEnd
    <3> DEFINE locals == [p EXCEPT !.pc = "write", !.end = end,
                              !.stop = incomplete \/ end < RangeEnd(r),
                              !.logs = LogsIn(p.next, end),
                              !.fresh = AnchorsFromLogs(LogsIn(p.next, end))]
    <3>5. /\ locals.pc = "write" /\ locals.next = p.next /\ locals.target = p.target
          /\ locals.end = end /\ locals.logs = LogsIn(p.next, end)
      BY <2>p DEF Pass
    <3>6. SettledPass(locals)
      <4> HIDE DEF locals
      <4> QED BY <2>p, <3>2, <3>4, <3>5 DEF SettledPass
    <3> QED BY <2>3, <2>g, <3>1, <3>6 DEF QueryLogs
  <2>4. CASE QueryLogsServesNothing(r)
    BY <2>4, <2>e DEF QueryLogsServesNothing
  <2>5. CASE WriteRange(r)
    BY <2>5, SettledWrite
  <2>6. CASE Abort(r)
    BY <2>6, <2>e DEF Abort
  <2>7. p.pc \in {"idle", "head", "logs", "write"}
    BY <2>p DEF SettledPass
  <2>8. \/ ReadOrCreate(r) \/ LatestBlock(r) \/ QueryLogs(r)
        \/ QueryLogsServesNothing(r) \/ WriteRange(r) \/ Abort(r)
    BY <1>2, <2>7 DEF RunnerStep, ReorgHeads, ReorgAnchors, ReorgCheckWaits,
       ReorgCheckCompares, RollbackReorged, AnchorHeads, AnchorBlocks, AnchorBlocksWait
  <2> QED BY <2>1, <2>2, <2>3, <2>4, <2>5, <2>6, <2>8
<1>3. ASSUME UNCHANGED vars PROVE SettledInv'
  <2>1. /\ Settled' = Settled /\ SettledRowsCanonical' = SettledRowsCanonical
        /\ \A n : CompleteBelow(n)' = CompleteBelow(n)
        /\ \A from, to : LogsIn(from, to)' = LogsIn(from, to)
        /\ checkpoint' = checkpoint /\ pass' = pass
    BY <1>3 DEF vars, sourceVars, dbVars, Settled, SettledRowsCanonical, CompleteBelow,
                Canonical, LogsIn
  <2>2. \A q \in Runner : SettledPass(pass[q])'
    BY <2>1 DEF SettledInv, SettledPass
  <2> QED BY <2>1, <2>2 DEF SettledInv
<1> QED BY <1>1, <1>2, <1>3 DEF Next

LEMMA SettledInit ==
    ASSUME Init
    PROVE  SettledInv
BY SettledIdle, SourceAssumption, RunnerAssumption
DEF Init, SourceInit, SettledInv, SettledRowsCanonical, CompleteBelow, NoCheckpoint, Height

THEOREM SettledInvariant == ASSUME SettledMode PROVE Spec => []SettledInv
<1>1. Init => SettledInv
  BY SettledInit
<1>2. TypeOK /\ SettledInv /\ [Next]_vars => SettledInv'
  BY SettledStep
<1> QED BY <1>1, <1>2, TypeCorrect, PTL DEF Spec

\* In a settled mode the tables hold only events of blocks that can no longer
\* change: no reorg, restart or second process puts another row there.
THEOREM SettledRows == ASSUME SettledMode PROVE Spec => []SettledRowsCanonical
<1>1. SettledInv => SettledRowsCanonical
  BY DEF SettledInv
<1> QED BY <1>1, SettledInvariant, PTL

\* ... and below the checkpoint they hold all of them.
THEOREM SettledComplete == ASSUME SettledMode PROVE Spec => []BelowCheckpointComplete
<1>1. SettledInv => BelowCheckpointComplete
  BY DEF SettledInv, CompleteBelow, BelowCheckpointComplete, IndexedBelow
<1> QED BY <1>1, SettledInvariant, PTL

(***************************************************************************)
(* Refinement: in a settled mode the indexer implements IndexedPrefix.     *)
(***************************************************************************)
LEMMA PrefixSettles ==
    ASSUME TypeOK, SourceStep
    PROVE  Prefix!Settle
<1>1. /\ Settled \in Nat /\ Settled' \in Nat /\ Settled <= Settled'
      /\ \A b \in Height : b <= Settled => chain'[b] = chain[b]
  BY SettledStable DEF SourceStep, SourceNext, TypeOK
<1>2. SourceTypeOK'
  BY SourceStepType DEF SourceStep, SourceNext, TypeOK
<1>3. Settled' \in 0..MaxBlock /\ Settled \in 0..MaxBlock
  BY <1>1, <1>2 DEF TypeOK, SourceTypeOK, Settled, Height
<1>4. [b \in 0..Settled' |-> chain'[b]] \in [0..Settled' -> ForkId]
  BY <1>2, <1>3, SourceAssumption DEF SourceTypeOK, Height
<1>5. DOMAIN [b \in 0..Settled |-> chain[b]] \subseteq 0..Settled'
  BY <1>1
<1>6. \A b \in 0..Settled :
         [c \in 0..Settled' |-> chain'[c]][b] = [c \in 0..Settled |-> chain[c]][b]
  BY <1>1, <1>3, SourceAssumption DEF Height
<1>7. UNCHANGED <<checkpoint, rows>>
  BY DEF SourceStep, dbVars
<1> QED BY <1>3, <1>4, <1>5, <1>6, <1>7 DEF Prefix!Settle

LEMMA PrefixIndexes ==
    ASSUME SettledMode, TypeOK, SettledInv, NEW r \in Runner, WriteRange(r)
    PROVE  Prefix!IndexRange
<1> DEFINE p == pass[r]
           L == [b \in 0..Settled |-> chain[b]]
<1>1. /\ p \in Pass /\ SettledPass(p) /\ p.pc = "write"
  BY DEF TypeOK, SettledInv, WriteRange
<1>2. p.next \in Nat /\ p.end \in Nat
  BY <1>1, SourceAssumption DEF Pass, Position, Height
<1>3. /\ StartBlock <= p.next /\ p.next <= p.end /\ p.end <= Settled
      /\ p.logs = LogsIn(p.next, p.end) /\ CompleteBelow(p.next)
  BY <1>1 DEF SettledPass
<1>4. StartBlock \in Nat /\ Settled \in Nat
  BY SettledHead, RunnerAssumption, SourceAssumption DEF Height
<1>5. rows' = rows \cup p.logs /\ checkpoint' = p.end + 1 /\ UNCHANGED <<chain, Settled>>
  BY DEF WriteRange, sourceVars, Settled
<1>6. p.end \in DOMAIN L /\ p.next \in StartBlock..p.end
  BY <1>2, <1>3, <1>4
<1>c. \A b \in 0..Settled : <<b, L[b]>> = Canonical(b)
  BY DEF Canonical
<1>7. {<<b, L[b]>> : b \in StartBlock..(p.next - 1)} \ EmptyBlocks \subseteq rows
  <2>1. \A b \in StartBlock..(p.next - 1) :
           b \in 0..Settled /\ Canonical(b) \in rows \cup EmptyBlocks
    BY <1>2, <1>3, <1>4 DEF CompleteBelow
  <2> HIDE DEF L, p
  <2> QED BY <2>1, <1>c
<1>8. {<<b, L[b]>> : b \in p.next..p.end} \ EmptyBlocks = p.logs
  <2>1. p.next..p.end \subseteq 0..Settled
    BY <1>2, <1>3, <1>4
  <2>2. p.logs = {Canonical(b) : b \in p.next..p.end} \ EmptyBlocks
    BY <1>3 DEF LogsIn
  <2> HIDE DEF L, p
  <2> QED BY <2>1, <2>2, <1>c
<1>9. /\ (IF checkpoint' = NoCheckpoint THEN StartBlock ELSE checkpoint') = p.end + 1
      /\ [b \in 0..Settled' |-> chain'[b]] = L
  BY <1>2, <1>5 DEF NoCheckpoint
<1> QED BY <1>5, <1>6, <1>7, <1>8, <1>9
        DEF Prefix!IndexRange, Prefix!AllIndexed, Prefix!EventsOf

LEMMA PrefixStep ==
    ASSUME SettledMode, TypeOK, SettledInv, [Next]_vars
    PROVE  [Prefix!PrefixNext]_(Prefix!prefixVars)
<1>1. CASE SourceStep
  BY <1>1, PrefixSettles DEF Prefix!PrefixNext
<1>2. ASSUME NEW r \in Runner, RunnerStep(r)
      PROVE  Prefix!PrefixNext \/ UNCHANGED Prefix!prefixVars
  <2>1. CASE WriteRange(r)
    BY <2>1, PrefixIndexes DEF Prefix!PrefixNext
  <2>2. CASE ReadOrCreate(r)
    BY <2>2, RunnerAssumption, SourceAssumption
    DEF ReadOrCreate, Prefix!prefixVars, sourceVars, Settled, NoCheckpoint, Height
  <2>3. ASSUME UNCHANGED <<sourceVars, dbVars>> PROVE UNCHANGED Prefix!prefixVars
    BY <2>3 DEF Prefix!prefixVars, sourceVars, dbVars, Settled
  <2>4. pass[r].pc # "rollback"
    BY DEF SettledInv, SettledPass
  <2> QED BY <1>2, <2>1, <2>2, <2>3, <2>4 DEF RunnerStep, ReorgHeads, ReorgAnchors,
       ReorgCheckWaits, ReorgCheckCompares, RollbackReorged, LatestBlock, QueryLogs,
       QueryLogsServesNothing, AnchorHeads, AnchorBlocks, AnchorBlocksWait, Abort
<1>3. CASE UNCHANGED vars
  BY <1>3 DEF vars, Prefix!prefixVars, sourceVars, dbVars, Settled
<1> QED BY <1>1, <1>2, <1>3 DEF Next

\* In a settled mode every behaviour of the indexing processes is, to a reader
\* of the tables, a behaviour of IndexedPrefix.
THEOREM Refinement == ASSUME SettledMode PROVE Spec => ImplementsPrefix
<1>1. Init => Prefix!PrefixInit
  BY SourceAssumption
  DEF Init, SourceInit, Prefix!PrefixInit, Settled, NoCheckpoint, Height, ForkId
<1>2. TypeOK /\ SettledInv /\ [Next]_vars => [Prefix!PrefixNext]_(Prefix!prefixVars)
  BY PrefixStep
<1> QED BY <1>1, <1>2, TypeCorrect, SettledInvariant, PTL
        DEF Spec, ImplementsPrefix, Prefix!PrefixSpec

(***************************************************************************)
(* Anchors and rows, in every mode and with any number of processes.  The  *)
(* rest of BackedInv is about one pass: the anchors it is about to write   *)
(* stand for blocks whose logs it holds.                                   *)
(***************************************************************************)
Held(logs, b) == \E f \in ForkId : <<b, f>> \in logs \cup EmptyBlocks

BackedPass(p) ==
    /\ p.pc = "anchor_heads" => p.fresh = NoAnchors
    /\ p.pc \in {"anchor_heads", "anchor_blocks"} =>
         \A b \in p.next..p.end : Held(p.logs, b)
    /\ p.pc = "anchor_blocks" => p.next <= p.from
    /\ p.pc = "write" => \A b \in Height : p.fresh[b] # NoFork => Held(p.logs, b)

BackedInv == AnchorsBackedByRows /\ \A r \in Runner : BackedPass(pass[r])

\* BackedInv is about one process at a time.
LEMMA BackedGoto ==
    ASSUME TypeOK, BackedInv, AnchorsBackedByRows', NEW r \in Runner, NEW locals,
           BackedPass(locals), Goto(r, locals)
    PROVE  BackedInv'
<1>1. pass' = [pass EXCEPT ![r] = locals]
  BY DEF Goto
<1>2. \A q \in Runner : BackedPass(pass'[q])
  BY <1>1 DEF BackedInv, TypeOK
<1> QED BY <1>2 DEF BackedInv, BackedPass, Held

LEMMA BackedQuery ==
    ASSUME TypeOK, BackedInv, NEW r \in Runner, QueryLogs(r)
    PROVE  BackedInv'
<1> DEFINE p == pass[r]
<1>1. PICK end \in p.next..Smaller(RangeEnd(r), ServedUpTo), incomplete \in BOOLEAN :
        Goto(r, [p EXCEPT
                  !.pc = IF UsesReorgProtection THEN "anchor_heads" ELSE "write",
                  !.end = end,
                  !.stop = incomplete \/ end < RangeEnd(r),
                  !.logs = LogsIn(p.next, end),
                  !.fresh = IF UsesReorgProtection THEN NoAnchors
                            ELSE AnchorsFromLogs(LogsIn(p.next, end))])
  BY DEF QueryLogs
<1>2. p \in Pass /\ p.next \in Nat /\ ServedUpTo \in Height /\ RangeEnd(r) \in Int
  BY SourceAssumption, RunnerAssumption
  DEF TypeOK, SourceTypeOK, Pass, Position, Height, ServedUpTo, RangeEnd, Smaller
<1>3. end \in Height
  BY <1>1, <1>2, SourceAssumption DEF Smaller, Height
<1>4. \A b \in p.next..end : Held(LogsIn(p.next, end), b)
  <2> SUFFICES ASSUME NEW b \in p.next..end
               PROVE  Held(LogsIn(p.next, end), b)
    OBVIOUS
  <2>1. chain[b] \in ForkId
    BY <1>2, <1>3, SourceAssumption DEF TypeOK, SourceTypeOK, Height
  <2>2. <<b, chain[b]>> \in LogsIn(p.next, end) \cup EmptyBlocks
    BY DEF LogsIn, Canonical
  <2> QED BY <2>1, <2>2 DEF Held
<1>5. \A logs, b : b \in Height /\ AnchorsFromLogs(logs)[b] # NoFork => Held(logs, b)
  BY DEF AnchorsFromLogs, Held
<1> DEFINE locals == [p EXCEPT
                  !.pc = IF UsesReorgProtection THEN "anchor_heads" ELSE "write",
                  !.end = end,
                  !.stop = incomplete \/ end < RangeEnd(r),
                  !.logs = LogsIn(p.next, end),
                  !.fresh = IF UsesReorgProtection THEN NoAnchors
                            ELSE AnchorsFromLogs(LogsIn(p.next, end))]
<1>6. /\ locals.pc = IF UsesReorgProtection THEN "anchor_heads" ELSE "write"
      /\ locals.next = p.next /\ locals.end = end /\ locals.logs = LogsIn(p.next, end)
      /\ locals.fresh = IF UsesReorgProtection THEN NoAnchors
                        ELSE AnchorsFromLogs(LogsIn(p.next, end))
  BY <1>2 DEF Pass
<1>7. BackedPass(locals)
  <2> HIDE DEF locals, p
  <2>1. CASE UsesReorgProtection
    BY <1>4, <1>6, <2>1 DEF BackedPass
  <2>2. CASE ~UsesReorgProtection
    BY <1>5, <1>6, <2>2 DEF BackedPass
  <2> QED BY <2>1, <2>2
<1>8. AnchorsBackedByRows'
  BY DEF QueryLogs, dbVars, BackedInv, AnchorsBackedByRows
<1> QED BY <1>1, <1>7, <1>8, BackedGoto

LEMMA BackedWrite ==
    ASSUME TypeOK, BackedInv, NEW r \in Runner, WriteRange(r)
    PROVE  BackedInv'
<1> DEFINE p == pass[r]
<1>1. /\ \A b \in Height : p.fresh[b] # NoFork => Held(p.logs, b)
      /\ rows' = rows \cup p.logs
      /\ anchors' = [b \in Height |-> IF p.fresh[b] = NoFork THEN anchors[b] ELSE p.fresh[b]]
  BY DEF WriteRange, BackedInv, BackedPass
<1>2. AnchorsBackedByRows'
  <2> SUFFICES ASSUME NEW b \in Height, anchors'[b] # NoFork
               PROVE  \E f \in ForkId : <<b, f>> \in rows' \cup EmptyBlocks
    BY DEF AnchorsBackedByRows
  <2>1. CASE p.fresh[b] = NoFork
    BY <1>1, <2>1 DEF BackedInv, AnchorsBackedByRows
  <2>2. CASE p.fresh[b] # NoFork
    BY <1>1, <2>2 DEF Held
  <2> QED BY <2>1, <2>2
<1> DEFINE more == [Idle EXCEPT !.pc = "logs", !.next = p.end + 1,
                                !.target = p.target, !.verified = p.verified]
<1>3. Goto(r, Idle) \/ Goto(r, more)
  BY DEF WriteRange, EndPass
<1>4. BackedPass(Idle) /\ BackedPass(more)
  BY DEF BackedPass, Idle
<1> QED BY <1>2, <1>3, <1>4, BackedGoto

LEMMA BackedRollback ==
    ASSUME TypeOK, BackedInv, NEW r \in Runner, RollbackReorged(r)
    PROVE  BackedInv'
<1> DEFINE first == pass[r].rollback
<1>1. /\ rows' = {row \in rows : row[1] < first}
      /\ anchors' = [b \in Height |-> IF b >= first THEN NoFork ELSE anchors[b]]
  BY DEF RollbackReorged
<1>2. first \in Int
  BY SourceAssumption DEF TypeOK, Pass, Height
<1>3. AnchorsBackedByRows'
  <2> SUFFICES ASSUME NEW b \in Height, anchors'[b] # NoFork
               PROVE  \E f \in ForkId : <<b, f>> \in rows' \cup EmptyBlocks
    BY DEF AnchorsBackedByRows
  <2>1. b < first /\ anchors[b] # NoFork
    BY <1>1, <1>2, SourceAssumption DEF Height
  <2>2. PICK f \in ForkId : <<b, f>> \in rows \cup EmptyBlocks
    BY <2>1 DEF BackedInv, AnchorsBackedByRows
  <2> QED BY <1>1, <2>1, <2>2
<1> DEFINE locals == [Idle EXCEPT !.pc = "head", !.next = first,
                                  !.verified = pass[r].verified]
<1>4. Goto(r, locals)
  BY DEF RollbackReorged
<1>5. BackedPass(locals)
  BY DEF BackedPass, Idle
<1> QED BY <1>3, <1>4, <1>5, BackedGoto

LEMMA BackedStep ==
    ASSUME TypeOK, BackedInv, [Next]_vars
    PROVE  BackedInv'
<1>1. ASSUME UNCHANGED <<dbVars, pass>> PROVE BackedInv'
  BY <1>1 DEF dbVars, BackedInv, AnchorsBackedByRows, BackedPass, Held
<1>2. ASSUME NEW r \in Runner, RunnerStep(r) PROVE BackedInv'
  <2> DEFINE p == pass[r]
  <2>p. p \in Pass /\ BackedPass(p)
    BY DEF TypeOK, BackedInv
  <2>a. ASSUME UNCHANGED <<anchors, rows>> PROVE AnchorsBackedByRows'
    BY <2>a DEF BackedInv, AnchorsBackedByRows
  \* The program points that BackedPass says nothing about.
  <2>g. ASSUME UNCHANGED <<anchors, rows>>, NEW locals, Goto(r, locals),
               locals.pc \notin {"anchor_heads", "anchor_blocks", "write"}
        PROVE  BackedInv'
    BY <2>a, <2>g, BackedGoto DEF BackedPass
  <2>e. ASSUME UNCHANGED <<anchors, rows>>, EndPass(r) PROVE BackedInv'
    BY <2>e, <2>g DEF EndPass, Idle
  <2>1. CASE ReadOrCreate(r)
    BY <2>1, <2>g DEF ReadOrCreate, Idle
  <2>2. CASE ReorgHeads(r)
    BY <2>2, <2>p, <2>g DEF ReorgHeads, dbVars, Pass
  <2>3. CASE ReorgAnchors(r)
    BY <2>3, <2>p, <2>g DEF ReorgAnchors, dbVars, Pass
  <2>4. CASE ReorgCheckWaits(r)
    BY <2>4, <2>g DEF ReorgCheckWaits, dbVars, Idle
  <2>5. CASE ReorgCheckCompares(r)
    <3>1. UNCHANGED <<anchors, rows>>
      BY <2>5 DEF ReorgCheckCompares, dbVars
    <3>2. PICK missing : FindsNothing(r, missing) \/ \E first : Finds(r, missing, first)
      BY <2>5, CompareCases
    <3> QED BY <2>g, <3>1, <3>2, ComparedFields DEF FindsNothing, Finds
  <2>6. CASE LatestBlock(r)
    BY <2>6, <2>p, <2>e, <2>g DEF LatestBlock, dbVars, Pass
  <2>7. CASE QueryLogsServesNothing(r) \/ AnchorBlocksWait(r) \/ Abort(r)
    BY <2>7, <2>e DEF QueryLogsServesNothing, AnchorBlocksWait, Abort, dbVars
  <2>8. CASE AnchorHeads(r)
    <3> DEFINE from == Larger(p.next, finalized + 1)
    <3>1. p.pc = "anchor_heads" /\ UNCHANGED <<anchors, rows>>
      BY <2>8 DEF AnchorHeads, dbVars
    <3>2. p.next \in Int /\ finalized \in Int
      BY <2>p, SourceAssumption DEF Pass, Position, TypeOK, SourceTypeOK, Height
    <3>3. CASE from > p.end
      <4>1. Goto(r, [p EXCEPT !.pc = "write"])
        BY <2>8, <3>3 DEF AnchorHeads
      <4>2. BackedPass([p EXCEPT !.pc = "write"])
        BY <2>p, <3>1 DEF BackedPass, Pass, NoAnchors
      <4> QED BY <2>a, <3>1, <4>1, <4>2, BackedGoto
    <3>4. CASE ~(from > p.end)
      <4>1. Goto(r, [p EXCEPT !.pc = "anchor_blocks", !.from = from])
        BY <2>8, <3>4 DEF AnchorHeads
      <4>2. p.next <= from
        BY <3>2 DEF Larger
      <4>3. BackedPass([p EXCEPT !.pc = "anchor_blocks", !.from = from])
        BY <2>p, <3>1, <4>2 DEF BackedPass, Pass
      <4> QED BY <2>a, <3>1, <4>1, <4>3, BackedGoto
    <3> QED BY <3>3, <3>4
  <2>9. CASE AnchorBlocks(r)
    <3> DEFINE fresh  == AnchorsFromBlocks(p.from, p.end)
               locals == [p EXCEPT !.pc = "write", !.from = 0, !.fresh = fresh]
    <3>1. /\ p.pc = "anchor_blocks" /\ UNCHANGED <<anchors, rows>> /\ Goto(r, locals)
      BY <2>9 DEF AnchorBlocks, dbVars
    <3>2. p.next \in Int /\ p.from \in Int /\ p.end \in Int
      BY <2>p, SourceAssumption DEF Pass, Position, Height
    <3>3. \A b \in Height : fresh[b] # NoFork => b \in p.next..p.end
      BY <2>p, <3>1, <3>2, SourceAssumption DEF AnchorsFromBlocks, BackedPass, Height
    <3>4. locals.pc = "write" /\ locals.fresh = fresh /\ locals.logs = p.logs
      BY <2>p DEF Pass
    <3>5. BackedPass(locals)
      <4> HIDE DEF locals, fresh
      <4> QED BY <2>p, <3>1, <3>3, <3>4 DEF BackedPass
    <3> QED BY <2>a, <3>1, <3>5, BackedGoto
  <2> QED BY <1>2, <2>1, <2>2, <2>3, <2>4, <2>5, <2>6, <2>7, <2>8, <2>9,
             BackedQuery, BackedWrite, BackedRollback DEF RunnerStep
<1> QED BY <1>1, <1>2 DEF Next, SourceStep, vars

\* In every mode, with any number of processes rolling back and writing across
\* each other, an anchor stands for a block whose events are in the tables.
THEOREM Backed == Spec => []AnchorsBackedByRows
<1>1. Init => BackedInv
  BY SourceAssumption DEF Init, BackedInv, AnchorsBackedByRows, BackedPass, NoAnchors, Idle
<1>2. TypeOK /\ BackedInv /\ [Next]_vars => BackedInv'
  BY BackedStep
<1>3. BackedInv => AnchorsBackedByRows
  BY DEF BackedInv
<1> QED BY <1>1, <1>2, <1>3, TypeCorrect, PTL DEF Spec
=============================================================================
