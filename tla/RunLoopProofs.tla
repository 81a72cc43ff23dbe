----------------------------- MODULE RunLoopProofs -----------------------------
(***************************************************************************)
(* Theorems about RunLoop, for any set of chains, any batch size, head     *)
(* buffer and bounds.                                                      *)
(***************************************************************************)
EXTENDS RunLoop, SetInduction, TLAPS

\* The part of TypeOK that the ranges and the metrics need.
Types ==
    /\ head \in [Chain -> Nat] /\ checkpoint \in [Chain -> Nat]
    /\ pc \in [Chain -> {"start", "check", "head", "fetch", "commit", "committed", "asleep"}]
    /\ pass \in [Chain -> PassState] /\ row \in [Chain -> RowState]
    /\ forward \in [Chain -> Nat] /\ missed \in [Chain -> BOOLEAN]
    /\ drift \in [Chain -> Nat]

(***************************************************************************)
(* What a pass knows of its range and of the checkpoint it goes on from.   *)
(***************************************************************************)
RangeInv(c) ==
    /\ pc[c] \in {"fetch", "commit", "committed"} =>
           pass[c].next <= pass[c].target /\ row[c].target = pass[c].target
    /\ pc[c] \in {"commit", "committed"} =>
           pass[c].next <= pass[c].served /\ pass[c].served <= pass[c].target
    /\ pc[c] \in {"check", "head", "fetch", "commit"} => checkpoint[c] = pass[c].next
    /\ pc[c] = "committed" => checkpoint[c] = pass[c].served + 1

(***************************************************************************)
(* Between a commit and its reply the blocks of one range are not counted  *)
(* yet.  If the reply gets lost they never are.                            *)
(***************************************************************************)
Pending(c) == IF pc[c] = "committed" THEN pass[c].served + 1 - pass[c].next ELSE 0

CountInv(c) ==
    /\ row[c].blocks + Pending(c) <= forward[c]
    /\ ~missed[c] => row[c].blocks + Pending(c) = forward[c]

\* The gauge, from the first time it is set.
GaugeInv(c) ==
    row[c].remaining # None => row[c].target \in Nat /\ Left(c) <= row[c].remaining + drift[c]

Good(c) == RangeInv(c) /\ CountInv(c) /\ GaugeInv(c)

Inv == Types /\ \A c \in Chain : Good(c)

\* What belongs to another chain does not change.
Untouched(d) ==
    /\ checkpoint'[d] = checkpoint[d] /\ pc'[d] = pc[d] /\ pass'[d] = pass[d]
    /\ row'[d] = row[d] /\ forward'[d] = forward[d] /\ missed'[d] = missed[d]
    /\ drift'[d] = drift[d]

LEMMA Frame ==
    ASSUME Inv, Types', NEW c \in Chain, Good(c)',
           \A d \in Chain : d # c => Untouched(d)
    PROVE  Inv'
<1>1. ASSUME NEW d \in Chain, d # c PROVE Good(d)'
  <2>1. Good(d) /\ Untouched(d)
    BY <1>1 DEF Inv
  <2> QED BY <2>1 DEF Good, RangeInv, CountInv, Pending, GaugeInv, Left, Untouched
<1> QED BY <1>1 DEF Inv

LEMMA InitInv == Init => Inv
BY LoopAssumption
   DEF Init, Inv, Types, Good, RangeInv, CountInv, Pending, GaugeInv, Left, FreshPass, FreshRow,
       PassState, RowState

-----------------------------------------------------------------------------
(* A step of the loop of one chain.                                        *)

LEMMA StepInv ==
    ASSUME Inv, NEW c \in Chain, PassStep(c)
    PROVE  Inv'
<1> DEFINE p == pass[c]
<1>t. /\ checkpoint[c] \in Nat /\ head[c] \in Nat /\ forward[c] \in Nat
      /\ missed[c] \in BOOLEAN /\ p \in PassState /\ row[c] \in RowState
      /\ p.next \in Nat /\ p.target \in Nat /\ p.served \in Nat /\ row[c].blocks \in Nat
      /\ drift[c] \in Nat /\ row[c].remaining \in Nat \cup {None}
      /\ row[c].target \in Nat \cup {None}
      /\ BatchSize \in Nat \ {0} /\ HeadBuffer \in Nat /\ None \notin Nat
  BY LoopAssumption DEF Inv, Types, PassState, RowState
<1>g. RangeInv(c) /\ CountInv(c) /\ GaugeInv(c)
  BY DEF Inv, Good
<1>1. CASE Wake(c)
  <2>1. Types' /\ \A d \in Chain : d # c => Untouched(d)
    BY <1>1 DEF Wake, Goto, FreshPass, PassState, Inv, Types, Untouched
  <2>2. /\ pc[c] = "asleep" /\ pc'[c] = "start" /\ pass'[c] = FreshPass
        /\ UNCHANGED <<checkpoint, row, forward, missed, drift>>
    BY <1>1 DEF Wake, Goto, Inv, Types
  <2>3. Good(c)'
    BY <2>2, <1>g, <1>t DEF Good, RangeInv, CountInv, Pending, GaugeInv, Left, FreshPass
  <2> QED BY <2>1, <2>3, Frame
<1>2. CASE ReadCheckpoint(c)
  <2>1. Types' /\ \A d \in Chain : d # c => Untouched(d)
    BY <1>2, <1>t DEF ReadCheckpoint, Goto, PassState, Inv, Types, Untouched
  <2>2. /\ pc[c] = "start" /\ pc'[c] = "check"
        /\ pass'[c] = [p EXCEPT !.next = checkpoint[c]]
        /\ UNCHANGED <<checkpoint, row, forward, missed, drift>>
    BY <1>2 DEF ReadCheckpoint, Goto, Inv, Types
  <2>3. pass'[c].next = checkpoint[c]
    BY <2>2, <1>t DEF PassState
  <2>4. Good(c)'
    BY <2>2, <2>3, <1>g, <1>t DEF Good, RangeInv, CountInv, Pending, GaugeInv, Left
  <2> QED BY <2>1, <2>4, Frame
<1>3. CASE NoReorg(c)
  <2>1. Types' /\ \A d \in Chain : d # c => Untouched(d)
    BY <1>3 DEF NoReorg, Goto, Inv, Types, Untouched
  <2>2. /\ pc[c] = "check" /\ pc'[c] = "head"
        /\ UNCHANGED <<checkpoint, pass, row, forward, missed, drift>>
    BY <1>3 DEF NoReorg, Goto, Inv, Types
  <2>3. Good(c)'
    BY <2>2, <1>g, <1>t DEF Good, RangeInv, CountInv, Pending, GaugeInv, Left
  <2> QED BY <2>1, <2>3, Frame
<1>4. CASE RollBack(c)
  <2>1. PICK b \in 0..(p.next - 1) :
            /\ checkpoint' = [checkpoint EXCEPT ![c] = b]
            /\ pass' = [pass EXCEPT ![c].next = b]
            /\ drift' = [drift EXCEPT ![c] = @ + (p.next - b)]
    BY <1>4 DEF RollBack
  <2>2. b \in Nat /\ b <= p.next /\ drift[c] + (p.next - b) \in Nat
    BY <2>1, <1>t
  <2>3. Types' /\ \A d \in Chain : d # c => Untouched(d)
    BY <1>4, <2>1, <2>2, <1>t DEF RollBack, Goto, PassState, Inv, Types, Untouched
  <2>4. /\ pc[c] = "check" /\ pc'[c] = "head" /\ checkpoint'[c] = b
        /\ pass'[c] = [p EXCEPT !.next = b] /\ drift'[c] = drift[c] + (p.next - b)
        /\ UNCHANGED <<row, forward, missed>>
    BY <1>4, <2>1 DEF RollBack, Goto, Inv, Types
  <2>5. pass'[c].next = b
    BY <2>4, <1>t DEF PassState
  <2>6. RangeInv(c)' /\ CountInv(c)'
    BY <2>4, <2>5, <1>g, <1>t DEF RangeInv, CountInv, Pending
  <2>7. GaugeInv(c)'
    <3>1. checkpoint[c] = p.next
      BY <2>4, <1>g DEF RangeInv
    <3> QED BY <2>2, <2>4, <3>1, <1>g, <1>t DEF GaugeInv, Left, Minus
  <2> QED BY <2>3, <2>6, <2>7, Frame DEF Good
<1>5. CASE ObserveHead(c)
  <2> DEFINE target == Minus(head[c], HeadBuffer)
             seen   == [row[c] EXCEPT !.target = target]
             rise   == IF row[c].target = None THEN 0 ELSE Minus(target, row[c].target)
             q      == [p EXCEPT !.target = target]
  <2>1. target \in Nat /\ rise \in Nat /\ pc[c] = "head" /\ checkpoint[c] = p.next
    BY <1>5, <1>g, <1>t DEF ObserveHead, Minus, RangeInv
  <2>2. /\ seen \in RowState /\ seen.target = target /\ seen.blocks = row[c].blocks
        /\ seen.remaining = row[c].remaining
    BY <2>1, <1>t DEF RowState
  <2>3. q \in PassState /\ q.next = p.next /\ q.target = target
    BY <2>1, <1>t DEF PassState
  <2>4. CASE p.next > target
    <3> DEFINE r == [seen EXCEPT !.remaining = 0]
    <3>1. r \in RowState /\ r.target = target /\ r.remaining = 0 /\ r.blocks = row[c].blocks
      BY <2>2 DEF RowState
    <3>2. /\ pass' = [pass EXCEPT ![c] = q] /\ drift' = [drift EXCEPT ![c] = 0]
          /\ pc' = [pc EXCEPT ![c] = "asleep"] /\ row' = [row EXCEPT ![c] = r]
          /\ UNCHANGED <<head, checkpoint, forward, missed>>
      BY <1>5, <2>1, <2>4, <1>t DEF ObserveHead, PassSucceeds, Goto
    <3>3. Types' /\ \A d \in Chain : d # c => Untouched(d)
      <4> HIDE DEF r, q
      <4> QED BY <3>1, <3>2, <2>3 DEF Inv, Types, Untouched
    <3>4. pc'[c] = "asleep" /\ row'[c] = r
      BY <3>2 DEF Inv, Types
    <3>5. Good(c)'
      <4> HIDE DEF r, target
      <4> QED BY <3>1, <3>2, <3>3, <3>4, <2>1, <2>4, <1>g, <1>t
           DEF Good, RangeInv, CountInv, Pending, GaugeInv, Left, Minus, Types
    <3> QED BY <3>3, <3>5, Frame
  <2>5. CASE p.next <= target
    <3>1. /\ pass' = [pass EXCEPT ![c] = q] /\ drift' = [drift EXCEPT ![c] = @ + rise]
          /\ pc' = [pc EXCEPT ![c] = "fetch"] /\ row' = [row EXCEPT ![c] = seen]
          /\ UNCHANGED <<head, checkpoint, forward, missed>>
      BY <1>5, <2>1, <2>5, <1>t DEF ObserveHead, Goto
    <3>2. drift[c] + rise \in Nat
      BY <2>1, <1>t
    <3>3. Types' /\ \A d \in Chain : d # c => Untouched(d)
      <4> HIDE DEF seen, q, rise
      <4> QED BY <3>1, <3>2, <2>2, <2>3 DEF Inv, Types, Untouched
    <3>4. /\ pc'[c] = "fetch" /\ row'[c] = seen /\ pass'[c] = q /\ drift'[c] = drift[c] + rise
      <4> HIDE DEF seen, q, rise
      <4> QED BY <3>1 DEF Inv, Types
    <3>5. RangeInv(c)' /\ CountInv(c)'
      <4> HIDE DEF seen, q, target
      <4> QED BY <3>1, <3>4, <2>1, <2>2, <2>3, <2>5, <1>g, <1>t DEF RangeInv, CountInv, Pending
    <3>6. GaugeInv(c)'
      <4>1. CASE row[c].remaining = None
        <5> HIDE DEF seen
        <5> QED BY <4>1, <3>4, <2>2 DEF GaugeInv
      <4>2. CASE row[c].remaining # None
        <5>1. row[c].target \in Nat /\ Left(c) <= row[c].remaining + drift[c]
          BY <4>2, <1>g DEF GaugeInv
        <5>2. rise = Minus(target, row[c].target)
          BY <5>1, <1>t
        <5> HIDE DEF seen, target, rise
        <5>3. Minus(target + 1, checkpoint[c]) <= Left(c) + rise
          BY <5>1, <5>2, <2>1, <1>t DEF Left, Minus
        <5>4. Left(c) \in Nat /\ Left(c)' = Minus(target + 1, checkpoint[c])
          BY <5>1, <3>1, <3>4, <2>2, <1>t DEF Left, Minus
        <5>5. Left(c)' \in Nat
          BY <5>4, <2>1, <1>t DEF Minus
        <5> QED BY <5>1, <5>3, <5>4, <5>5, <4>2, <3>4, <2>1, <2>2, <1>t DEF GaugeInv
      <4> QED BY <4>1, <4>2
    <3> QED BY <3>3, <3>5, <3>6, Frame DEF Good
  <2> QED BY <2>4, <2>5, <2>1, <1>t
<1>6. CASE FetchRange(c)
  <2>1. PICK end \in p.next..RangeTo(p.next, p.target), incomplete \in BOOLEAN :
            pass' = [pass EXCEPT ![c].served = end,
                                 ![c].stop = incomplete \/ end < RangeTo(p.next, p.target)]
    BY <1>6 DEF FetchRange
  <2>2. RangeTo(p.next, p.target) \in Nat /\ RangeTo(p.next, p.target) <= p.target
    BY <1>t DEF RangeTo, Smaller
  <2>3. end \in Nat /\ p.next <= end /\ end <= p.target
    BY <2>1, <2>2, <1>t
  <2>4. (incomplete \/ end < RangeTo(p.next, p.target)) \in BOOLEAN
    OBVIOUS
  <2>5. Types' /\ \A d \in Chain : d # c => Untouched(d)
    BY <1>6, <2>1, <2>3, <2>4, <1>t DEF FetchRange, Goto, PassState, Inv, Types, Untouched
  <2>6. /\ pc[c] = "fetch" /\ pc'[c] = "commit"
        /\ pass'[c].served = end /\ pass'[c].next = p.next /\ pass'[c].target = p.target
        /\ UNCHANGED <<checkpoint, row, forward, missed, drift>>
    BY <1>6, <2>1, <1>t DEF FetchRange, Goto, PassState, Inv, Types
  <2>7. Good(c)'
    BY <2>3, <2>6, <1>g, <1>t DEF Good, RangeInv, CountInv, Pending, GaugeInv, Left
  <2> QED BY <2>5, <2>7, Frame
<1>7. CASE ServedNothing(c)
  <2>1. /\ pc[c] = "fetch" /\ pc' = [pc EXCEPT ![c] = "asleep"]
        /\ row' = [row EXCEPT ![c] = row[c]]
        /\ UNCHANGED <<head, checkpoint, pass, forward, missed, drift>>
    BY <1>7 DEF ServedNothing, PassSucceeds, Goto
  <2>2. Types' /\ \A d \in Chain : d # c => Untouched(d)
    BY <2>1, <1>t DEF Inv, Types, Untouched
  <2>3. pc'[c] = "asleep" /\ row'[c] = row[c]
    BY <2>1 DEF Inv, Types
  <2>4. Good(c)'
    BY <2>1, <2>3, <1>g, <1>t DEF Good, RangeInv, CountInv, Pending, GaugeInv, Left
  <2> QED BY <2>2, <2>4, Frame
<1>8. CASE Commit(c)
  <2>1. /\ pc[c] = "commit" /\ pc' = [pc EXCEPT ![c] = "committed"]
        /\ checkpoint' = [checkpoint EXCEPT ![c] = p.served + 1]
        /\ forward' = [forward EXCEPT ![c] = @ + (p.served + 1 - p.next)]
        /\ UNCHANGED <<head, pass, row, missed, drift>>
    BY <1>8 DEF Commit, Goto
  <2>2. p.next <= p.served /\ p.served <= p.target /\ row[c].target = p.target
        /\ checkpoint[c] = p.next
    BY <2>1, <1>g DEF RangeInv
  <2>3. forward[c] + (p.served + 1 - p.next) \in Nat
    BY <2>2, <1>t
  <2>4. Types' /\ \A d \in Chain : d # c => Untouched(d)
    BY <2>1, <2>3, <1>t DEF Inv, Types, Untouched
  <2>5. /\ pc'[c] = "committed" /\ checkpoint'[c] = p.served + 1
        /\ forward'[c] = forward[c] + (p.served + 1 - p.next)
    BY <2>1 DEF Inv, Types
  <2>6. RangeInv(c)' /\ CountInv(c)'
    BY <2>1, <2>2, <2>5, <1>g, <1>t DEF RangeInv, CountInv, Pending
  <2>7. GaugeInv(c)'
    BY <2>1, <2>2, <2>5, <1>g, <1>t DEF GaugeInv, Left, Minus
  <2> QED BY <2>4, <2>6, <2>7, Frame DEF Good
<1>9. CASE RecordRange(c)
  <2> DEFINE next == p.served + 1
             left == RemainingBlocks(next, p.target)
             n    == RangeBlocks(p.next, p.served)
             r    == [row[c] EXCEPT !.remaining = left, !.blocks = @ + n]
  <2>1. /\ pc[c] = "committed" /\ p.next <= p.served /\ p.served <= p.target
        /\ row[c].target = p.target /\ checkpoint[c] = next
    BY <1>9, <1>g DEF RecordRange, RangeInv
  <2>2. left \in Nat /\ left >= Minus(p.target + 1, next)
    BY <1>t DEF RemainingBlocks, Minus
  <2>3. n \in Nat /\ n = next - p.next /\ next \in Nat
    BY <2>1, <1>t DEF RangeBlocks
  <2>4. /\ r \in RowState /\ r.target = p.target /\ r.remaining = left
        /\ r.blocks = row[c].blocks + n
    <3> HIDE DEF left, n
    <3>1. row[c].blocks + n \in Nat
      BY <2>3, <1>t
    <3> QED BY <3>1, <2>1, <2>2, <1>t DEF RowState
  <2>5. /\ pass' = [pass EXCEPT ![c].next = next, ![c].served = 0]
        /\ row' = [row EXCEPT ![c] = r] /\ drift' = [drift EXCEPT ![c] = 0]
        /\ \/ pc' = [pc EXCEPT ![c] = "asleep"]
           \/ pc' = [pc EXCEPT ![c] = "fetch"] /\ next <= p.target
        /\ UNCHANGED <<head, checkpoint, forward, missed>>
    BY <1>9 DEF RecordRange, PassSucceeds, Goto
  <2>6. Types' /\ \A d \in Chain : d # c => Untouched(d)
    <3> HIDE DEF r, next
    <3> QED BY <2>3, <2>4, <2>5, <1>t DEF PassState, Inv, Types, Untouched
  <2>7. /\ row'[c] = r /\ pass'[c].next = next /\ pass'[c].target = p.target
        /\ drift'[c] = 0
        /\ \/ pc'[c] = "asleep"
           \/ pc'[c] = "fetch" /\ next <= p.target
    <3> HIDE DEF r
    <3> QED BY <2>5, <1>t DEF PassState, Inv, Types
  <2>8. Good(c)'
    <3> HIDE DEF r, left, n
    <3> QED BY <2>1, <2>2, <2>3, <2>4, <2>5, <2>7, <1>g, <1>t
         DEF Good, RangeInv, CountInv, Pending, GaugeInv, Left
  <2> QED BY <2>6, <2>8, Frame
<1>10. CASE CallFails(c)
  <2>1. /\ pc[c] # "asleep" /\ pc' = [pc EXCEPT ![c] = "asleep"]
        /\ missed' = [missed EXCEPT ![c] = @ \/ pc[c] = "committed"]
        /\ UNCHANGED <<head, checkpoint, pass, row, forward, drift>>
    BY <1>10 DEF CallFails, PassFails, Goto
  <2>2. Types' /\ \A d \in Chain : d # c => Untouched(d)
    BY <2>1 DEF Inv, Types, Untouched
  <2>3. pc'[c] = "asleep" /\ (missed'[c] <=> missed[c] \/ pc[c] = "committed")
    BY <2>1, <1>t DEF Inv, Types
  <2>4. RangeInv(c)' /\ GaugeInv(c)'
    BY <2>1, <2>3, <1>g DEF RangeInv, GaugeInv, Left
  <2>5. CountInv(c)'
    <3>1. Pending(c) \in Nat /\ (pc[c] # "committed" => Pending(c) = 0)
      BY <1>g, <1>t DEF RangeInv, Pending
    <3>2. Pending(c)' = 0 /\ row' = row /\ forward' = forward
      BY <2>1, <2>3 DEF Pending
    <3>3. row[c].blocks + 0 <= forward[c]
      BY <3>1, <1>g, <1>t DEF CountInv
    <3>4. ~missed'[c] => row[c].blocks + 0 = forward[c]
      BY <2>3, <3>1, <1>g DEF CountInv
    <3> QED BY <3>2, <3>3, <3>4 DEF CountInv
  <2> QED BY <2>2, <2>4, <2>5, Frame DEF Good
<1> QED BY <1>1, <1>2, <1>3, <1>4, <1>5, <1>6, <1>7, <1>8, <1>9, <1>10 DEF PassStep

LEMMA NextInv == Inv /\ [Next]_vars => Inv'
<1> SUFFICES ASSUME Inv, [Next]_vars PROVE Inv'
  OBVIOUS
<1>1. ASSUME NEW c \in Chain, PassStep(c) PROVE Inv'
  BY <1>1, StepInv
<1>2. ASSUME NEW c \in Chain, HeadMoves(c) PROVE Inv'
  BY <1>2 DEF HeadMoves, Inv, Types, Good, RangeInv, CountInv, Pending, GaugeInv, Left
<1>3. CASE Restart
  BY <1>3, LoopAssumption
     DEF Restart, Inv, Types, Good, RangeInv, CountInv, Pending, GaugeInv, Left, FreshPass,
         FreshRow, PassState, RowState
<1>4. CASE UNCHANGED vars
  BY <1>4 DEF vars, Inv, Types, Good, RangeInv, CountInv, Pending, GaugeInv, Left
<1> QED BY <1>1, <1>2, <1>3, <1>4 DEF Next

-----------------------------------------------------------------------------
(* The theorems.                                                           *)

LEMMA InvAlways == Spec => []Inv
BY InitInv, NextInv, PTL DEF Spec

\* Whatever passes fail, are answered short or lose the reply of a commit, what is
\* missing up to the target is at most the gauge and what has come to be missing
\* since it was set.
THEOREM GaugeNotUnderstated == Spec => []RemainingAccounted
<1>1. Inv => RemainingAccounted
  BY DEF Inv, Good, GaugeInv, RemainingAccounted
<1> QED BY <1>1, InvAlways, PTL

\* The counter of blocks is what was committed, but for the ranges whose commit
\* the runner took for a failure.
THEOREM CounterExact == Spec => []BlocksCounted
<1>1. Inv => BlocksCounted
  <2> SUFFICES ASSUME Inv, NEW c \in Chain
               PROVE  /\ row[c].blocks <= forward[c]
                      /\ pc[c] # "committed" /\ ~missed[c] => row[c].blocks = forward[c]
    BY DEF BlocksCounted
  <2>1. /\ row[c].blocks \in Nat /\ forward[c] \in Nat
        /\ pass[c].next \in Nat /\ pass[c].served \in Nat
    BY DEF Inv, Types, RowState, PassState
  <2>2. Pending(c) \in Nat /\ (pc[c] # "committed" => Pending(c) = 0)
    BY <2>1 DEF Inv, Good, RangeInv, Pending
  <2> QED BY <2>1, <2>2 DEF Inv, Good, CountInv
<1> QED BY <1>1, InvAlways, PTL
-----------------------------------------------------------------------------
(* How long a failing loop sleeps.                                         *)

LEMMA PowerOfTwoValues ==
    /\ PowerOfTwo \in [0..MaxDoublings -> Nat]
    /\ PowerOfTwo[0] = 1
    /\ \A n \in 1..MaxDoublings : PowerOfTwo[n] = 2 * PowerOfTwo[n - 1]
<1> DEFINE M == MaxDoublings
           F == [x \in Nat \X (1..M) |-> 2 * x[1]]
           Defines(f) == f = [n \in 0..M |-> IF n = 0 THEN 1 ELSE 2 * f[n - 1]]
<1>1. M \in Nat
  BY LoopAssumption
<1>2. F \in [Nat \X (1..M) -> Nat]
  OBVIOUS
<1>3. PICK f \in [0..M -> Nat] :
             f[0] = 1 /\ \A k \in 1..M : f[k] = F[<<f[k - 1], k>>]
  <2> HIDE DEF F, M
  <2>1. PICK f : Recursion(f, M, Nat, 1, F)
    BY <1>1, <1>2, RecursionExists
  <2> QED BY <2>1 DEF Recursion
<1>4. ASSUME NEW k \in 1..M PROVE f[k] = 2 * f[k - 1]
  <2>1. f[k - 1] \in Nat
    BY <1>1, <1>3
  <2>2. <<f[k - 1], k>> \in Nat \X (1..M)
    BY <2>1
  <2>3. F[<<f[k - 1], k>>] = 2 * f[k - 1]
    BY <2>2
  <2> QED BY <1>3, <2>3
<1>5. \A n \in 0..M : n # 0 => n \in 1..M
  BY <1>1
<1>6. Defines(f)
  BY <1>3, <1>4, <1>5
<1>7. PowerOfTwo = CHOOSE g : Defines(g)
  BY DEF PowerOfTwo
<1>8. Defines(PowerOfTwo)
  <2> HIDE DEF Defines
  <2> QED BY <1>6, <1>7
<1>9. ASSUME NEW n \in 1..M PROVE n \in 0..M /\ n # 0
  BY <1>1
<1>10. /\ PowerOfTwo[0] = 1
       /\ \A n \in 1..M : PowerOfTwo[n] = 2 * PowerOfTwo[n - 1]
  <2> HIDE DEF PowerOfTwo
  <2>1. 0 \in 0..M
    BY <1>1
  <2> QED BY <1>8, <1>9, <2>1
<1>11. \A n \in 0..M : PowerOfTwo[n] \in Nat
  <2> DEFINE T == {n \in 0..M : PowerOfTwo[n] \in Nat}
  <2>1. 0 \in T
    BY <1>1, <1>10
  <2>2. ASSUME NEW n \in 1..M, n - 1 \in T PROVE n \in T
    BY <1>9, <1>10, <2>2
  <2> HIDE DEF T
  <2>3. 0..M \subseteq T
    BY <1>1, <2>1, <2>2, IntervalInduction
  <2> QED BY <2>3 DEF T
<1>12. PowerOfTwo = [n \in 0..M |-> PowerOfTwo[n]]
  <2> HIDE DEF PowerOfTwo
  <2> QED BY <1>8
<1> QED BY <1>10, <1>11, <1>12
LEMMA BackoffGrowth ==
    /\ MaxFailures \in Nat \ {0}
    /\ \A n \in 1..MaxFailures : Backoff(n) \in Nat /\ Backoff(n) <= MaxBackoff
    /\ \A n \in 1..MaxFailures : n + 1 \in 1..MaxFailures => Backoff(n) <= Backoff(n + 1)
    /\ PollInterval <= MaxBackoff => PollInterval <= Backoff(1)
<1> DEFINE Product(k) == Unit * PowerOfTwo[k]
<1>1. /\ MaxDoublings \in Nat /\ MaxBackoff \in Nat /\ PollInterval \in Nat
      /\ Unit \in Nat /\ PollInterval <= Unit
      /\ MaxFailures = MaxDoublings + 1
  BY LoopAssumption DEF Unit, MaxFailures
<1>2. \A u, p \in Nat : u * p \in Nat /\ u * (2 * p) = (u * p) + (u * p) /\ u * 1 = u
  OBVIOUS
<1>3. \A k \in 0..MaxDoublings : Product(k) \in Nat
  <2> SUFFICES ASSUME NEW k \in 0..MaxDoublings PROVE Product(k) \in Nat
    OBVIOUS
  <2>1. PowerOfTwo[k] \in Nat
    BY PowerOfTwoValues
  <2> QED BY <1>1, <1>2, <2>1
<1>4. \A k \in 1..MaxDoublings : Product(k) = Product(k - 1) + Product(k - 1)
  <2> SUFFICES ASSUME NEW k \in 1..MaxDoublings
               PROVE  Product(k) = Product(k - 1) + Product(k - 1)
    OBVIOUS
  <2>1. PowerOfTwo[k - 1] \in Nat /\ PowerOfTwo[k] = 2 * PowerOfTwo[k - 1]
    BY <1>1, PowerOfTwoValues
  <2> QED BY <1>1, <1>2, <2>1
<1>5. Product(0) = Unit
  BY <1>1, <1>2, PowerOfTwoValues
<1>6. \A n \in 1..MaxFailures : Shift(n) = n - 1 /\ n - 1 \in 0..MaxDoublings
  BY <1>1 DEF Shift, Minus, Smaller
<1>7. \A n \in 1..MaxFailures : Backoff(n) = Smaller(Product(n - 1), MaxBackoff)
  BY <1>6 DEF Backoff
<1> HIDE DEF Product
<1>8. \A n \in 1..MaxFailures : Backoff(n) \in Nat /\ Backoff(n) <= MaxBackoff
  BY <1>1, <1>3, <1>6, <1>7 DEF Smaller
<1>9. ASSUME NEW n \in 1..MaxFailures, n + 1 \in 1..MaxFailures
      PROVE  Backoff(n) <= Backoff(n + 1)
  <2>1. /\ n \in 1..MaxDoublings /\ n - 1 \in 0..MaxDoublings /\ n \in 0..MaxDoublings
        /\ (n + 1) - 1 = n
    BY <1>1, <1>9
  <2>2. /\ Product(n) = Product(n - 1) + Product(n - 1)
        /\ Product(n) \in Nat /\ Product(n - 1) \in Nat
    BY <1>3, <1>4, <2>1
  <2>3. /\ Backoff(n) = Smaller(Product(n - 1), MaxBackoff)
        /\ Backoff(n + 1) = Smaller(Product(n), MaxBackoff)
    BY <1>7, <1>9, <2>1
  <2> QED BY <1>1, <2>2, <2>3 DEF Smaller
<1>10. PollInterval <= MaxBackoff => PollInterval <= Backoff(1)
  <2>1. 1 \in 1..MaxFailures /\ 1 - 1 = 0
    BY <1>1
  <2>2. Backoff(1) = Smaller(Unit, MaxBackoff)
    BY <1>5, <1>7, <2>1
  <2> QED BY <1>1, <2>2 DEF Smaller
<1> QED BY <1>1, <1>8, <1>9, <1>10

\* A loop sleeps what its failures call for, and a poll interval (or nothing
\* yet) when it has none.
SleepInv(c) ==
    /\ failures[c] = 0 => sleep[c] \in {0, PollInterval}
    /\ failures[c] # 0 => sleep[c] = Backoff(failures[c])

BackoffInv ==
    /\ failures \in [Chain -> 0..MaxFailures] /\ sleep \in [Chain -> Nat]
    /\ pc \in [Chain -> {"start", "check", "head", "fetch", "commit", "committed", "asleep"}]
    /\ \A c \in Chain : SleepInv(c)

LEMMA InitBackoff == Init => BackoffInv
BY BackoffGrowth DEF Init, BackoffInv, SleepInv

\* What the end of a pass that failed does to the counter and the timer.
LEMMA FailureStep ==
    ASSUME BackoffInv, NEW c \in Chain, PassFails(c)
    PROVE  LET n == Smaller(failures[c] + 1, MaxFailures) IN
           /\ n \in 1..MaxFailures /\ Backoff(n) \in Nat
           /\ failures' = [failures EXCEPT ![c] = n]
           /\ sleep' = [sleep EXCEPT ![c] = Backoff(n)]
           /\ pc' = [pc EXCEPT ![c] = "asleep"]
           /\ n = failures[c] \/ n = failures[c] + 1
<1> DEFINE n == Smaller(failures[c] + 1, MaxFailures)
<1>1. failures[c] \in 0..MaxFailures /\ MaxFailures \in Nat \ {0}
  BY BackoffGrowth DEF BackoffInv
<1>2. n \in 1..MaxFailures /\ (n = failures[c] \/ n = failures[c] + 1)
  BY <1>1 DEF Smaller
<1> QED BY <1>2, BackoffGrowth DEF PassFails, Goto

LEMMA BackoffPreserved ==
    ASSUME BackoffInv, [Next]_vars
    PROVE  BackoffInv'
<1> USE DEF BackoffInv
<1>t. PollInterval \in Nat /\ MaxFailures \in Nat
  BY LoopAssumption, BackoffGrowth
<1>1. ASSUME NEW c \in Chain, PassFails(c) PROVE BackoffInv'
  <2> DEFINE n == Smaller(failures[c] + 1, MaxFailures)
  <2>1. /\ n \in 1..MaxFailures /\ Backoff(n) \in Nat
        /\ failures' = [failures EXCEPT ![c] = n]
        /\ sleep' = [sleep EXCEPT ![c] = Backoff(n)]
        /\ pc' = [pc EXCEPT ![c] = "asleep"]
    BY <1>1, FailureStep
  <2> HIDE DEF n
  <2>2. n # 0 /\ n \in 0..MaxFailures
    BY <2>1, <1>t
  <2>3. ASSUME NEW d \in Chain PROVE SleepInv(d)'
    <3>1. CASE d = c
      <4>1. failures'[d] = n /\ sleep'[d] = Backoff(n)
        BY <2>1, <3>1
      <4> QED BY <4>1, <2>2 DEF SleepInv
    <3>2. CASE d # c
      BY <2>1, <3>2 DEF SleepInv
    <3> QED BY <3>1, <3>2
  <2> QED BY <2>1, <2>2, <2>3
<1>2. ASSUME NEW c \in Chain, NEW r, PassSucceeds(c, r) PROVE BackoffInv'
  BY <1>2, <1>t DEF PassSucceeds, Goto, SleepInv
<1>3. ASSUME NEW c \in Chain, NEW l \in {"start", "check", "head", "fetch", "commit", "committed"},
             Goto(c, l), UNCHANGED <<failures, sleep>>
      PROVE  BackoffInv'
  BY <1>3 DEF Goto, SleepInv
<1>4. ASSUME UNCHANGED <<failures, sleep, pc>> PROVE BackoffInv'
  BY <1>4 DEF SleepInv
<1>5. ASSUME NEW c \in Chain, PassStep(c) PROVE BackoffInv'
  BY <1>1, <1>2, <1>3, <1>5
     DEF PassStep, Wake, ReadCheckpoint, NoReorg, RollBack, ObserveHead, FetchRange,
         ServedNothing, Commit, RecordRange, CallFails
<1>6. CASE Restart
  BY <1>6, <1>t DEF Restart, SleepInv
<1> QED BY <1>4, <1>5, <1>6 DEF Next, HeadMoves, vars

LEMMA BackoffAlways == Spec => []BackoffInv
BY InitBackoff, BackoffPreserved, PTL DEF Spec

\* However many failures follow each other, of whatever calls, the loop of a
\* chain never waits less than before while they last, nor more than the cap.
THEOREM BackoffMonotone == Spec => BackoffGrows
<1> DEFINE Grows(c) ==
             pc[c] # "asleep" /\ pc'[c] = "asleep" /\ failures'[c] > 0
                 => /\ PollInterval <= MaxBackoff => sleep'[c] >= sleep[c]
                    /\ sleep'[c] <= MaxBackoff
<1>1. ASSUME BackoffInv, [Next]_vars, NEW d \in Chain,
             pc[d] # "asleep", pc'[d] = "asleep", failures'[d] > 0
      PROVE  PassFails(d)
  <2>1. failures[d] \in 0..MaxFailures /\ MaxFailures \in Nat
    BY <1>1, BackoffGrowth DEF BackoffInv
  <2>2. ASSUME NEW c \in Chain, NEW l \in {"start", "check", "head", "fetch", "commit", "committed"},
               Goto(c, l)
        PROVE  FALSE
    BY <1>1, <2>2 DEF Goto, BackoffInv
  <2>3. ASSUME NEW c \in Chain, NEW r, PassSucceeds(c, r) PROVE FALSE
    <3>1. c = d
      BY <1>1, <2>3 DEF PassSucceeds, Goto, BackoffInv
    <3> QED BY <1>1, <2>3, <3>1 DEF PassSucceeds, BackoffInv
  <2>4. ASSUME NEW c \in Chain, PassFails(c) PROVE PassFails(d)
    <3>1. c = d
      BY <1>1, <2>4 DEF PassFails, Goto, BackoffInv
    <3> QED BY <2>4, <3>1
  <2>5. ASSUME NEW c \in Chain, PassStep(c) PROVE PassFails(d)
    BY <2>2, <2>3, <2>4, <2>5
       DEF PassStep, Wake, ReadCheckpoint, NoReorg, RollBack, ObserveHead, FetchRange,
           ServedNothing, Commit, RecordRange, CallFails
  <2>6. ~(UNCHANGED pc) /\ ~Restart
    BY <1>1 DEF Restart
  <2> QED BY <1>1, <2>5, <2>6 DEF Next, HeadMoves, vars
<1>2. ASSUME BackoffInv, [Next]_vars, NEW c \in Chain PROVE Grows(c)
  <2> SUFFICES ASSUME pc[c] # "asleep", pc'[c] = "asleep", failures'[c] > 0
               PROVE  /\ PollInterval <= MaxBackoff => sleep'[c] >= sleep[c]
                      /\ sleep'[c] <= MaxBackoff
    OBVIOUS
  <2> DEFINE n == Smaller(failures[c] + 1, MaxFailures)
  <2>1. PassFails(c)
    BY <1>1, <1>2
  <2>2. /\ n \in 1..MaxFailures /\ Backoff(n) \in Nat
        /\ sleep' = [sleep EXCEPT ![c] = Backoff(n)]
        /\ n = failures[c] \/ n = failures[c] + 1
    BY <1>2, <2>1, FailureStep
  <2>3. /\ failures[c] \in 0..MaxFailures /\ sleep[c] \in Nat /\ SleepInv(c)
        /\ sleep'[c] = Backoff(n) /\ PollInterval \in Nat /\ MaxFailures \in Nat
    BY <1>2, <2>2, LoopAssumption, BackoffGrowth DEF BackoffInv
  <2> HIDE DEF n
  <2>4. sleep'[c] <= MaxBackoff
    BY <2>2, <2>3, BackoffGrowth
  <2>5. ASSUME PollInterval <= MaxBackoff PROVE sleep'[c] >= sleep[c]
    <3>1. CASE failures[c] = 0
      <4>1. n = 1
        BY <2>2, <3>1
      <4>2. PollInterval <= Backoff(1) /\ sleep[c] \in {0, PollInterval}
        BY <2>3, <2>5, <3>1, BackoffGrowth DEF SleepInv
      <4> QED BY <2>2, <2>3, <4>1, <4>2
    <3>2. CASE failures[c] # 0
      <4>1. sleep[c] = Backoff(failures[c]) /\ failures[c] \in 1..MaxFailures
        BY <2>3, <3>2 DEF SleepInv
      <4>2. CASE n = failures[c]
        BY <2>3, <4>1, <4>2
      <4>3. CASE n = failures[c] + 1
        BY <2>2, <2>3, <4>1, <4>3, BackoffGrowth
      <4> QED BY <2>2, <4>2, <4>3
    <3> QED BY <3>1, <3>2
  <2> QED BY <2>4, <2>5
<1>3. BackoffInv /\ [Next]_vars => [\A c \in Chain : Grows(c)]_vars
  BY <1>2
<1> QED BY <1>3, BackoffAlways, PTL DEF Spec, BackoffGrows
-----------------------------------------------------------------------------
(* The bounds: no target passes the head, no range its target.             *)

Bounded == \A c \in Chain : InBounds(c)

LEMMA BoundsStep ==
    ASSUME Inv, Inv', Bounded, NEW c \in Chain, PassStep(c)
    PROVE  InBounds(c)'
<1> DEFINE p == pass[c]
<1>t. /\ checkpoint[c] \in Nat /\ head[c] \in Nat /\ MaxHead[c] \in Nat
      /\ p \in PassState /\ p.next \in Nat /\ p.target \in Nat /\ p.served \in Nat
      /\ pass'[c] \in PassState /\ pass'[c].next \in Nat /\ pass'[c].target \in Nat
      /\ pass'[c].served \in Nat /\ checkpoint'[c] \in Nat
      /\ BatchSize \in Nat \ {0} /\ HeadBuffer \in Nat
  BY LoopAssumption DEF Inv, Types, PassState
<1>b. /\ head[c] <= MaxHead[c] /\ checkpoint[c] <= MaxHead[c] + 1
      /\ p.next <= MaxHead[c] + 1 /\ p.target <= MaxHead[c] /\ p.served <= MaxHead[c]
  BY DEF Bounded, InBounds
<1>h. head' = head
  BY DEF PassStep, Wake, ReadCheckpoint, NoReorg, RollBack, ObserveHead, FetchRange,
         ServedNothing, Commit, RecordRange, CallFails
<1>d. pass \in [Chain -> PassState] /\ checkpoint \in [Chain -> Nat]
  BY DEF Inv, Types
<1>q. /\ checkpoint'[c] <= MaxHead[c] + 1 /\ pass'[c].next <= MaxHead[c] + 1
      /\ pass'[c].target <= MaxHead[c] /\ pass'[c].served <= MaxHead[c]
      => InBounds(c)'
  BY <1>b, <1>h DEF InBounds
<1>1. CASE Wake(c)
  <2>1. pass'[c] = FreshPass /\ checkpoint' = checkpoint
    BY <1>1, <1>d DEF Wake
  <2> QED BY <2>1, <1>b, <1>t, <1>q DEF FreshPass
<1>2. CASE ReadCheckpoint(c)
  <2>1. pass'[c] = [p EXCEPT !.next = checkpoint[c]] /\ checkpoint' = checkpoint
    BY <1>2, <1>d DEF ReadCheckpoint
  <2>2. /\ pass'[c].next = checkpoint[c] /\ pass'[c].target = p.target
        /\ pass'[c].served = p.served
    BY <2>1, <1>t DEF PassState
  <2> QED BY <2>1, <2>2, <1>b, <1>q
<1>3. CASE NoReorg(c) \/ ServedNothing(c) \/ CallFails(c)
  <2>1. pass' = pass /\ checkpoint' = checkpoint
    BY <1>3 DEF NoReorg, ServedNothing, CallFails
  <2> QED BY <2>1, <1>b, <1>q
<1>4. CASE RollBack(c)
  <2>1. PICK b \in 0..(p.next - 1) :
            /\ checkpoint' = [checkpoint EXCEPT ![c] = b]
            /\ pass' = [pass EXCEPT ![c].next = b]
    BY <1>4 DEF RollBack
  <2>2. checkpoint'[c] = b /\ pass'[c] = [p EXCEPT !.next = b] /\ b \in Nat /\ b < p.next
    BY <2>1, <1>d, <1>t
  <2>3. pass'[c].next = b /\ pass'[c].target = p.target /\ pass'[c].served = p.served
    BY <2>2, <1>t DEF PassState
  <2> QED BY <2>2, <2>3, <1>b, <1>t, <1>q
<1>5. CASE ObserveHead(c)
  <2> DEFINE target == Minus(head[c], HeadBuffer)
  <2>1. target \in Nat /\ target <= head[c]
    BY <1>t DEF Minus
  <2>2. /\ pass'[c].next = p.next /\ pass'[c].target = target
        /\ pass'[c].served = p.served /\ checkpoint' = checkpoint
    <3>1. pass' = [pass EXCEPT ![c].target = target]
      BY <1>5 DEF ObserveHead
    <3>2. checkpoint' = checkpoint
      BY <1>5 DEF ObserveHead
    <3> HIDE DEF target
    <3> QED BY <3>1, <3>2, <1>d, <1>t DEF PassState
  <2> QED BY <2>1, <2>2, <1>b, <1>t, <1>q
<1>6. CASE FetchRange(c)
  <2>1. PICK end \in p.next..RangeTo(p.next, p.target), incomplete \in BOOLEAN :
            pass' = [pass EXCEPT ![c].served = end,
                                 ![c].stop = incomplete \/ end < RangeTo(p.next, p.target)]
    BY <1>6 DEF FetchRange
  <2>2. end \in Nat /\ end <= p.target
    BY <2>1, <1>t DEF RangeTo, Smaller
  <2>3. /\ pass'[c].next = p.next /\ pass'[c].target = p.target
        /\ pass'[c].served = end
    BY <2>1, <1>d, <1>t DEF PassState
  <2>4. checkpoint' = checkpoint
    BY <1>6 DEF FetchRange
  <2> QED BY <2>2, <2>3, <2>4, <1>b, <1>t, <1>q
<1>7. CASE Commit(c)
  <2>1. pass' = pass /\ checkpoint'[c] = p.served + 1
    BY <1>7, <1>d DEF Commit
  <2> QED BY <2>1, <1>b, <1>t, <1>q
<1>8. CASE RecordRange(c)
  <2> DEFINE next == p.served + 1
  <2>1. /\ pass' = [pass EXCEPT ![c].next = next, ![c].served = 0]
        /\ checkpoint' = checkpoint
    BY <1>8 DEF RecordRange
  <2>2. pass'[c].next = next /\ pass'[c].target = p.target /\ pass'[c].served = 0
    <3> HIDE DEF next
    <3> QED BY <2>1, <1>d, <1>t DEF PassState
  <2> QED BY <2>1, <2>2, <1>b, <1>t, <1>q
<1> QED BY <1>1, <1>2, <1>3, <1>4, <1>5, <1>6, <1>7, <1>8 DEF PassStep

LEMMA BoundedPreserved ==
    ASSUME Inv, Inv', Bounded, [Next]_vars
    PROVE  Bounded'
<1>1. ASSUME NEW c \in Chain, PassStep(c) PROVE Bounded'
  <2>1. InBounds(c)'
    BY <1>1, BoundsStep
  <2>2. ASSUME NEW d \in Chain, d # c PROVE InBounds(d)'
    <3>1. /\ pass' = pass \/ (\E q : pass' = [pass EXCEPT ![c] = q])
          /\ checkpoint' = checkpoint \/ (\E b : checkpoint' = [checkpoint EXCEPT ![c] = b])
          /\ head' = head
      BY <1>1 DEF PassStep, Wake, ReadCheckpoint, NoReorg, RollBack, ObserveHead, FetchRange,
             ServedNothing, Commit, RecordRange, CallFails
    <3>2. pass'[d] = pass[d] /\ checkpoint'[d] = checkpoint[d] /\ head'[d] = head[d]
      BY <2>2, <3>1 DEF Inv, Types
    <3> QED BY <3>2 DEF Bounded, InBounds
  <2> QED BY <2>1, <2>2 DEF Bounded
<1>2. ASSUME NEW c \in Chain, HeadMoves(c) PROVE Bounded'
  <2>1. head'[c] = head[c] + 1 /\ head[c] + 1 <= MaxHead[c]
    <3>1. head[c] \in Nat /\ MaxHead[c] \in Nat
      BY LoopAssumption DEF Inv, Types
    <3>2. head'[c] = head[c] + 1 /\ head[c] < MaxHead[c]
      BY <1>2 DEF HeadMoves, Inv, Types
    <3> QED BY <3>1, <3>2
  <2> QED BY <1>2, <2>1 DEF HeadMoves, Bounded, InBounds, Inv, Types
<1>3. CASE Restart
  BY <1>3, LoopAssumption DEF Restart, Bounded, InBounds, FreshPass
<1>4. CASE UNCHANGED vars
  BY <1>4 DEF vars, Bounded, InBounds
<1> QED BY <1>1, <1>2, <1>3, <1>4 DEF Next

\* The variables keep their types, and what the passes read and write never
\* passes the head: not the target less the buffer, not a range cut at it, not a
\* checkpoint (src/runner.rs, run_chain_once and process_range).
THEOREM TypeCorrect == Spec => []TypeOK
<1>1. Init => Bounded
  <2> SUFFICES ASSUME Init, NEW c \in Chain PROVE InBounds(c)
    BY DEF Bounded
  <2>1. head[c] = 0 /\ checkpoint[c] = 0 /\ pass[c] = FreshPass /\ MaxHead[c] \in Nat
    BY LoopAssumption DEF Init
  <2> QED BY <2>1 DEF InBounds, FreshPass
<1>2. Inv /\ Inv' /\ Bounded /\ [Next]_vars => Bounded'
  BY BoundedPreserved
<1>3. Inv /\ BackoffInv /\ Bounded => TypeOK
  BY DEF Inv, Types, BackoffInv, Bounded, TypeOK
<1> QED BY <1>1, <1>2, <1>3, InvAlways, BackoffAlways, PTL DEF Spec
=============================================================================
