-------------------------- MODULE TronRecoveryProofs --------------------------
(***************************************************************************)
(* Theorems about TronRecovery, for any number of invocations, any chain,  *)
(* every batch size and whatever the retired indexer left.                 *)
(***************************************************************************)
EXTENDS TronRecovery, TLAPS

(***************************************************************************)
(* Types, and the bounds the range arithmetic rests on.                    *)
(***************************************************************************)
Bounds(p) ==
    /\ p.pc \in {"logs", "prepare"} =>
         p.cursor \in Height /\ p.cursor <= p.upto /\ p.upto <= p.end
    /\ p.pc # "prepare" => p.todo = {} /\ p.ready = {}
    /\ p.todo \subseteq LogsIn(p.cursor, p.upto)

TypeInv == TypeOK /\ \A i \in Invocation : Bounds(run[i])

LEMMA LogTyped ==
    ASSUME NEW e \in Logs
    PROVE  /\ e \in Log /\ e.msg \in Msg /\ e.msg \in Nat /\ e.type \in Type
           /\ e.block \in Height /\ e.block \in Nat /\ e.index \in Nat /\ e.local \in Nat
<1>1. e \in Log /\ MaxBlock \in Nat /\ Msg \subseteq Nat
  BY RecoveryAssumption
<1>2. /\ e.msg \in Msg /\ e.block \in Height /\ e.type \in Type
      /\ e.index \in Nat /\ e.local \in Nat
  BY <1>1 DEF Log
<1>3. \A b \in Height : b \in Nat
  BY <1>1 DEF Height
<1> QED BY <1>1, <1>2, <1>3

LEMMA Moves ==
    ASSUME TypeInv, NEW i \in Invocation, NEW p \in Run, Bounds(p), Goto(i, p)
    PROVE  /\ run' \in [Invocation -> Run]
           /\ \A j \in Invocation : Bounds(run'[j])
           /\ run'[i] = p
           /\ \A j \in Invocation : j # i => run'[j] = run[j]
BY DEF TypeInv, TypeOK, Goto

LEMMA IdleTyped == Idle \in Run /\ Bounds(Idle)
<1>1. 0 \in Height /\ 0 \in Position /\ NoEnd \in Height \cup {NoEnd}
  BY RecoveryAssumption DEF Height, Position
<1> QED BY <1>1 DEF Idle, Run, PC, Bounds, LogsIn

LEMMA ExitMoves ==
    ASSUME TypeInv, NEW i \in Invocation, Exit(i)
    PROVE  /\ run' \in [Invocation -> Run]
           /\ \A j \in Invocation : Bounds(run'[j])
           /\ run'[i] = Idle
           /\ \A j \in Invocation : j # i => run'[j] = run[j]
           /\ lock' \in Invocation \cup {Free, Closing}
BY Moves, IdleTyped DEF Exit, TypeInv, TypeOK

\* The locals with which recover asks for the next range.
NextRange(i, cursor) ==
    [run[i] EXCEPT !.pc = "logs", !.from = 0, !.cursor = cursor,
                   !.upto = RangeEnd(cursor, run[i].end), !.todo = {}, !.ready = {}]

LEMMA NextRangeTyped ==
    ASSUME TypeInv, NEW i \in Invocation, NEW cursor \in Position, cursor <= run[i].end
    PROVE  /\ NextRange(i, cursor) \in Run /\ Bounds(NextRange(i, cursor))
           /\ NextRange(i, cursor).pc = "logs" /\ NextRange(i, cursor).cursor = cursor
           /\ NextRange(i, cursor).ready = {}
<1> DEFINE p == NextRange(i, cursor)
<1>1. run[i] \in Run /\ MaxBlock \in Nat /\ BatchSize \in Nat \ {0}
  BY RecoveryAssumption DEF TypeInv, TypeOK
<1>2. run[i].end \in Height
  BY <1>1 DEF Run
<1>3. /\ RangeEnd(cursor, run[i].end) \in Height /\ cursor \in Height
      /\ cursor <= RangeEnd(cursor, run[i].end)
      /\ RangeEnd(cursor, run[i].end) <= run[i].end
  BY <1>1, <1>2 DEF RangeEnd, Smaller, Height, Position
<1>4. 0 \in Height
  BY <1>1 DEF Height
<1>5. p \in Run
  BY <1>1, <1>3, <1>4 DEF Run, NextRange, PC
<1>6. /\ p.pc = "logs" /\ p.cursor = cursor /\ p.upto = RangeEnd(cursor, run[i].end)
      /\ p.end = run[i].end /\ p.todo = {} /\ p.ready = {}
  BY <1>1 DEF Run, NextRange
<1> HIDE DEF p
<1>7. Bounds(p)
  BY <1>3, <1>6 DEF Bounds
<1>8. p \in Run /\ Bounds(p) /\ p.pc = "logs" /\ p.cursor = cursor /\ p.ready = {}
  BY <1>5, <1>6, <1>7 DEF p
<1> QED BY <1>8 DEF p

LEMMA ContinueMoves ==
    ASSUME TypeInv, NEW i \in Invocation, NEW cursor \in Position, Continue(i, cursor)
    PROVE  /\ run' \in [Invocation -> Run]
           /\ \A j \in Invocation : Bounds(run'[j])
           /\ \/ run'[i] = Idle
              \/ run'[i] = NextRange(i, cursor) /\ cursor <= run[i].end
           /\ \A j \in Invocation : j # i => run'[j] = run[j]
           /\ lock' \in Invocation \cup {Free, Closing}
<1>1. CASE cursor > run[i].end
  BY <1>1, ExitMoves DEF Continue
<1>2. CASE ~(cursor > run[i].end)
  <2>1. cursor <= run[i].end
    BY <1>2, RecoveryAssumption DEF TypeInv, TypeOK, Run, Height, Position
  <2>2. Goto(i, NextRange(i, cursor)) /\ UNCHANGED lock
    BY <1>2 DEF Continue, NextRange
  <2> QED BY <2>1, <2>2, NextRangeTyped, Moves DEF TypeInv, TypeOK
<1> QED BY <1>1, <1>2

LEMMA ResumedTyped ==
    ASSUME TypeInv, NEW i \in Invocation
    PROVE  Resumed(run[i].from) \in Position
<1>1. MaxBlock \in Nat /\ run[i].from \in Height
  BY RecoveryAssumption DEF TypeInv, TypeOK, Run
<1> QED BY <1>1 DEF TypeInv, TypeOK, Resumed, Position, Height

LEMMA NextAfterTyped ==
    ASSUME TypeInv, NEW i \in Invocation
    PROVE  NextAfter(i) \in Position
<1>1. MaxBlock \in Nat /\ run[i].upto \in Height
  BY RecoveryAssumption DEF TypeInv, TypeOK, Run
<1> QED BY <1>1 DEF NextAfter, Position, Height

LEMMA RowForTyped ==
    ASSUME TypeInv, NEW e \in Logs
    PROVE  RowFor(e) \in Row
<1>1. e \in Log /\ e.msg \in Nat /\ e.msg \in Msg /\ e.block \in Nat
  BY LogTyped
<1>2. MessageId(e) \in Int \X Nat /\ LogId(e) \in Int \X Nat
  BY <1>1 DEF MessageId, LogId, Log
<1>3. \A id \in Int \X Nat, n \in Nat : RowOf(e, id, n) \in Row
  BY <1>1 DEF RowOf, Row, Log
<1>4. \A r \in AcceptedRows(e.msg) \cup AssignedRows(e.msg) :
         r.index \in Nat /\ r.id \in Int \X Nat
  BY DEF AcceptedRows, AssignedRows, TypeInv, TypeOK, Row
<1>5. CASE e.type = "accepted"
  <2>1. RowFor(e) = RowOf(e, MessageId(e),
                      IF AcceptedRows(e.msg) = {} THEN e.index
                      ELSE (CHOOSE r \in AcceptedRows(e.msg) : TRUE).index)
    BY <1>5 DEF RowFor
  <2>2. AcceptedRows(e.msg) # {} =>
          (CHOOSE r \in AcceptedRows(e.msg) : TRUE) \in AcceptedRows(e.msg)
    OBVIOUS
  <2>3. (IF AcceptedRows(e.msg) = {} THEN e.index
         ELSE (CHOOSE r \in AcceptedRows(e.msg) : TRUE).index) \in Nat
    BY <1>1, <1>4, <2>2 DEF Log
  <2> QED BY <1>2, <1>3, <2>1, <2>3
<1>6. CASE e.type = "assigned"
  <2>1. RowFor(e) = IF AssignedRows(e.msg) = {} THEN RowOf(e, LogId(e), 0)
                    ELSE RowOf(e, (CHOOSE r \in AssignedRows(e.msg) : TRUE).id, 0)
    BY <1>6 DEF RowFor
  <2>2. AssignedRows(e.msg) # {} =>
          (CHOOSE r \in AssignedRows(e.msg) : TRUE) \in AssignedRows(e.msg)
    OBVIOUS
  <2> QED BY <1>2, <1>3, <1>4, <2>1, <2>2
<1>7. CASE e.type = "sent"
  <2>1. RowFor(e) = RowOf(e, LogId(e), e.index)
    BY <1>7 DEF RowFor
  <2> QED BY <1>1, <1>2, <1>3, <2>1 DEF Log
<1> QED BY <1>1, <1>5, <1>6, <1>7 DEF Log, Type

LEMMA InitTyped == Init => TypeInv
<1> SUFFICES ASSUME Init PROVE TypeInv
  OBVIOUS
<1>1. run \in [Invocation -> Run] /\ \A i \in Invocation : Bounds(run[i])
  BY IdleTyped DEF Init
<1>2. kept \in [Msg -> Remains] /\ kept \in Kept
  BY RecoveryAssumption DEF Init
<1>3. ASSUME NEW e \in Logs, NEW r \in RetiredRows(e, kept[e.msg])
      PROVE  r \in Row
  <2>1. e \in Log /\ e.msg \in Nat /\ e.msg \in Msg /\ e.block \in Nat
    BY LogTyped
  <2>2. /\ \A n \in {1, 2} : RetiredId(e, n) \in Int \X Nat
        /\ MessageId(e) \in Int \X Nat /\ <<e.block, e.local>> \in Int \X Nat
    BY <2>1 DEF RetiredId, MessageId, Log
  <2>3. \A id \in Int \X Nat, n \in Nat : RowOf(e, id, n) \in Row
    BY <2>1 DEF RowOf, Row, Log
  <2>4. CASE e.type = "accepted"
    <3>1. r = RetiredMessage(e, kept[e.msg])
      <4> HIDE DEF Init
      <4> QED BY <1>3, <2>4, Zenon DEF RetiredRows
    <3>2. RowOf(e, MessageId(e), e.local) \in Row
      BY <2>1, <2>2, <2>3 DEF Log
    <3> QED BY <3>1, <3>2 DEF Row, RetiredMessage
  <2>5. CASE e.type = "assigned"
    <3>1. PICK n \in {1, 2} : r = RetiredAssignment(e, n, kept[e.msg])
      BY <1>3, <2>5 DEF RetiredRows
    <3>2. RowOf(e, RetiredId(e, n), 0) \in Row
      BY <2>2, <2>3
    <3> QED BY <3>1, <3>2 DEF Row, RetiredAssignment
  <2>6. CASE e.type = "sent"
    <3>1. r = RowOf(e, <<e.block, e.local>>, e.local)
      BY <1>3, <2>6 DEF RetiredRows
    <3> QED BY <2>1, <2>2, <2>3, <3>1 DEF Log
  <2> QED BY <2>1, <2>4, <2>5, <2>6 DEF Log, Type
<1>4. rows \subseteq Row
  BY <1>3 DEF Init
<1>5. 0 \in Height
  BY RecoveryAssumption DEF Height
<1>6. /\ head \in Height /\ imported \subseteq Msg
      /\ checkpoint \in Position \cup {NoCheckpoint}
      /\ origin \in Height \cup {NoCheckpoint}
      /\ lock \in Invocation \cup {Free, Closing} /\ sessionLost \in BOOLEAN
  BY <1>5 DEF Init
<1> QED BY <1>1, <1>2, <1>4, <1>6 DEF TypeInv, TypeOK

LEMMA TypePreserved == TypeInv /\ [Next]_vars => TypeInv'
<1> SUFFICES ASSUME TypeInv, [Next]_vars PROVE TypeInv'
  OBVIOUS
<1> USE DEF history
<1>a. \A i \in Invocation : run[i] \in Run /\ Bounds(run[i])
  BY DEF TypeInv, TypeOK
<1>b. /\ MaxBlock \in Nat /\ From \subseteq Height /\ To \subseteq Height \cup {NoEnd}
      /\ BatchSize \in Nat \ {0}
  BY RecoveryAssumption
<1>1. CASE UNCHANGED vars
  BY <1>1 DEF TypeInv, TypeOK, vars
<1>2. ASSUME NEW i \in Invocation, NEW from \in From, NEW to \in To, Start(i, from, to)
      PROVE  TypeInv'
  <2> DEFINE p == [Idle EXCEPT !.pc = "lock", !.from = from, !.to = to,
                               !.end = IF to = NoEnd THEN head ELSE to]
  <2>1. p \in Run /\ p.pc = "lock" /\ p.todo = {} /\ p.ready = {}
    BY <1>b, IdleTyped DEF TypeInv, TypeOK, Idle, Run, PC
  <2>2. Bounds(p)
    BY <2>1 DEF Bounds
  <2> QED BY <1>2, <2>1, <2>2, Moves DEF Start, TypeInv, TypeOK
<1>3. ASSUME NEW i \in Invocation, Lock(i) PROVE TypeInv'
  <2> DEFINE p == [run[i] EXCEPT !.pc = "preceding"]
  <2>1. /\ p \in Run /\ p.pc = "preceding" /\ p.todo = run[i].todo
        /\ p.ready = run[i].ready /\ run[i].pc = "lock"
    BY <1>a, <1>3 DEF Lock, At, Run, PC
  <2>2. Bounds(p)
    BY <1>a, <2>1 DEF Bounds
  <2> QED BY <1>3, <2>1, <2>2, Moves DEF Lock, TypeInv, TypeOK
<1>4. ASSUME NEW i \in Invocation, Exit(i),
             UNCHANGED <<head, imported, rows, checkpoint, history>>
      PROVE  TypeInv'
  BY <1>4, ExitMoves DEF TypeInv, TypeOK
<1>5. ASSUME NEW i \in Invocation, CheckPreceding(i) PROVE TypeInv'
  <2> DEFINE p == [run[i] EXCEPT !.pc = "checkpoint"]
  <2>1. /\ p \in Run /\ p.pc = "checkpoint" /\ p.todo = run[i].todo
        /\ p.ready = run[i].ready /\ run[i].pc = "preceding"
    BY <1>a, <1>5 DEF CheckPreceding, At, Run, PC
  <2>2. Bounds(p)
    BY <1>a, <2>1 DEF Bounds
  <2> QED BY <1>5, <2>1, <2>2, Moves DEF CheckPreceding, TypeInv, TypeOK
<1>6. ASSUME NEW i \in Invocation, NextBlock(i) PROVE TypeInv'
  <2>1. Resumed(run[i].from) \in Position
    BY ResumedTyped
  <2>2. /\ checkpoint' \in Position \cup {NoCheckpoint}
        /\ origin' \in Height \cup {NoCheckpoint}
    BY <1>a, <1>b, <1>6 DEF NextBlock, TypeInv, TypeOK, Run, Position, Height
  <2> QED BY <1>6, <2>1, <2>2, ContinueMoves DEF NextBlock, TypeInv, TypeOK
<1>7. ASSUME NEW i \in Invocation, FetchLogs(i) PROVE TypeInv'
  <2> DEFINE logs == LogsIn(run[i].cursor, run[i].upto)
             p == [run[i] EXCEPT !.pc = "prepare", !.todo = logs]
  <2>1. logs \subseteq Logs
    BY DEF LogsIn
  <2>2. /\ p \in Run /\ p.pc = "prepare" /\ p.todo = logs
        /\ p.cursor = run[i].cursor /\ p.upto = run[i].upto /\ p.end = run[i].end
        /\ run[i].pc = "logs"
    <3> HIDE DEF logs
    <3> QED BY <1>a, <1>7, <2>1 DEF FetchLogs, At, Run, PC
  <2>3. Bounds(p)
    BY <1>a, <2>2 DEF Bounds
  <2> QED BY <1>7, <2>2, <2>3, Moves DEF FetchLogs, TypeInv, TypeOK
<1>8. ASSUME NEW i \in Invocation, ShrinkRange(i) PROVE TypeInv'
  <2> DEFINE half == Half(run[i].cursor, run[i].upto)
             p == [run[i] EXCEPT !.upto = half]
  <2>1. /\ run[i].cursor \in Height /\ run[i].upto \in Height /\ run[i].end \in Height
        /\ run[i].cursor <= run[i].upto /\ run[i].upto <= run[i].end
        /\ run[i].pc = "logs" /\ run[i].todo = {} /\ run[i].ready = {}
    BY <1>a, <1>8 DEF ShrinkRange, At, Bounds, Run
  <2>2. half \in Height /\ run[i].cursor <= half /\ half <= run[i].end
    BY <1>b, <2>1 DEF Half, Height
  <2>3. /\ p \in Run /\ p.pc = "logs" /\ p.cursor = run[i].cursor /\ p.upto = half
        /\ p.end = run[i].end /\ p.todo = {} /\ p.ready = {}
    <3> HIDE DEF half
    <3> QED BY <1>a, <2>1, <2>2 DEF Run
  <2>4. Bounds(p)
    <3> HIDE DEF p, half
    <3> QED BY <2>1, <2>2, <2>3 DEF Bounds
  <2> QED BY <1>8, <2>3, <2>4, Moves DEF ShrinkRange, TypeInv, TypeOK
<1>9. ASSUME NEW i \in Invocation, Prepare(i) PROVE TypeInv'
  <2>1. PICK e \in Earliest(run[i].todo) :
            Goto(i, [run[i] EXCEPT !.todo = @ \ {e}, !.ready = @ \cup {RowFor(e)}])
    BY <1>9 DEF Prepare
  <2> DEFINE p == [run[i] EXCEPT !.todo = @ \ {e}, !.ready = @ \cup {RowFor(e)}]
  <2>2. e \in Logs
    BY <1>a, <2>1 DEF Earliest, Run
  <2>3. RowFor(e) \in Row
    BY <2>2, RowForTyped
  <2>4. /\ p \in Run /\ p.pc = "prepare" /\ p.todo \subseteq run[i].todo
        /\ p.cursor = run[i].cursor /\ p.upto = run[i].upto /\ p.end = run[i].end
        /\ run[i].pc = "prepare"
    BY <1>a, <1>9, <2>3 DEF Prepare, At, Run
  <2>5. Bounds(p)
    <3> HIDE DEF p
    <3> QED BY <1>a, <2>4 DEF Bounds
  <2> QED BY <1>9, <2>1, <2>4, <2>5, Moves DEF Prepare, TypeInv, TypeOK
<1>10. ASSUME NEW i \in Invocation, Commit(i) PROVE TypeInv'
  <2>1. NextAfter(i) \in Position
    BY NextAfterTyped
  <2>2. rows' \subseteq Row
    BY <1>a, <1>10 DEF Commit, Written, TypeInv, TypeOK, Run
  <2> QED BY <1>10, <2>1, <2>2, ContinueMoves DEF Commit, TypeInv, TypeOK
<1>11. ASSUME Confirm \/ SessionCloses \/ LoseSession \/ \E m \in Msg : Import(m)
       PROVE  TypeInv'
  <2>1. head' \in Height /\ imported' \subseteq Msg
    <3>1. head \in Height /\ imported \subseteq Msg
      BY DEF TypeInv, TypeOK
    <3> QED BY <1>11, <1>b, <3>1 DEF Confirm, SessionCloses, LoseSession, Import, Height
  <2>2. lock' \in Invocation \cup {Free, Closing} /\ sessionLost' \in BOOLEAN
    BY <1>11 DEF Confirm, SessionCloses, LoseSession, Import, TypeInv, TypeOK
  <2>3. UNCHANGED <<rows, checkpoint, run, kept, origin>>
    BY <1>11 DEF Confirm, SessionCloses, LoseSession, Import
  <2> QED BY <2>1, <2>2, <2>3 DEF TypeInv, TypeOK
<1> QED BY <1>1, <1>2, <1>3, <1>4, <1>5, <1>6, <1>7, <1>8, <1>9, <1>10, <1>11
        DEF Next, Step, Proceed, AlreadyRunning, PrecedingMissing, Refuse, Fail

\* The range an invocation asks for, or has asked for, is not empty and ends no
\* later than what it set out to recover, also after any number of halvings.
RangesWithin ==
    \A i \in Invocation : run[i].pc \in {"logs", "prepare"} =>
        run[i].cursor <= run[i].upto /\ run[i].upto <= run[i].end

\* The state is well typed, with any number of invocations, and every range an
\* invocation works on lies within what it set out to recover
\* (src/tron_recovery/scan.rs:27-43).
THEOREM TypeCorrect == Spec => [](TypeOK /\ RangesWithin)
<1>1. TypeInv => TypeOK /\ RangesWithin
  BY DEF TypeInv, Bounds, RangesWithin
<1> QED BY <1>1, InitTyped, TypePreserved, PTL DEF Spec


(***************************************************************************)
(* What the steps have in common: the world leaves the tables and the      *)
(* invocations alone, most steps of an invocation leave the tables alone   *)
(* and hold no rows.                                                       *)
(***************************************************************************)
Others(i) == \A j \in Invocation : j # i => run'[j] = run[j]

Aside(i) ==
    /\ UNCHANGED <<rows, checkpoint, origin, kept>>
    /\ Others(i)
    /\ run'[i].ready = {} /\ run'[i].pc \notin {"logs", "prepare"}

LEMMA Shape ==
    ASSUME TypeInv, [Next]_vars
    PROVE  \/ UNCHANGED <<rows, checkpoint, origin, kept, run>>
           \/ \E i \in Invocation :
                \/ Aside(i) \/ NextBlock(i) \/ FetchLogs(i) \/ ShrinkRange(i)
                \/ Prepare(i) \/ Commit(i)
<1> USE DEF history
<1>a. \A i \in Invocation : run[i] \in Run /\ Bounds(run[i])
  BY DEF TypeInv, TypeOK
<1>1. CASE UNCHANGED vars
  BY <1>1 DEF vars
<1>2. ASSUME NEW i \in Invocation, NEW from \in From, NEW to \in To, Start(i, from, to)
      PROVE  Aside(i)
  BY <1>2 DEF Start, Aside, Others, Goto, Idle, TypeInv, TypeOK
<1>3. ASSUME NEW i \in Invocation, Lock(i) \/ CheckPreceding(i) PROVE Aside(i)
  <2>1. run[i].pc \in {"lock", "preceding"} /\ run[i].ready = {}
    BY <1>3, <1>a DEF Lock, CheckPreceding, At, Bounds
  <2>2. PICK pc \in {"preceding", "checkpoint"} : run' = [run EXCEPT ![i] = [run[i] EXCEPT !.pc = pc]]
    BY <1>3 DEF Lock, CheckPreceding, Goto
  <2>3. run'[i].pc = pc /\ run'[i].ready = {} /\ Others(i)
    BY <1>a, <2>1, <2>2 DEF Others, TypeInv, TypeOK, Run
  <2> QED BY <1>3, <2>3 DEF Lock, CheckPreceding, Aside
<1>4. ASSUME NEW i \in Invocation, Exit(i), UNCHANGED <<rows, checkpoint, history>>
      PROVE  Aside(i)
  BY <1>4, ExitMoves DEF Aside, Others, Idle
<1>5. ASSUME Confirm \/ SessionCloses \/ LoseSession \/ \E m \in Msg : Import(m)
      PROVE  UNCHANGED <<rows, checkpoint, origin, kept, run>>
  BY <1>5 DEF Confirm, SessionCloses, LoseSession, Import
<1> QED BY <1>1, <1>2, <1>3, <1>4, <1>5
        DEF Next, Step, Proceed, AlreadyRunning, PrecedingMissing, Refuse, Fail

(***************************************************************************)
(* The rows.  RowsInv says which row each event has: the one the retired   *)
(* indexer left, or the one this command writes.  An invocation holds no   *)
(* other, whenever it looked: of messages and assignments, a commit writes *)
(* what is there already or what nobody has written yet.                   *)
(***************************************************************************)
StoredAs(e) ==
    IF e.type = "accepted"
      THEN IF kept[e.msg] = "none" THEN RowOf(e, MessageId(e), e.index)
                                   ELSE RetiredMessage(e, kept[e.msg])
      ELSE RowOf(e, IF kept[e.msg] \in {"none", "differs"} THEN LogId(e)
                                                           ELSE RetiredId(e, 1), 0)

\* An id belongs to one message, of sent rows within a block.
Keyed(r) ==
    /\ r.type = "accepted" => r.id = <<r.msg, 0>>
    /\ r.type = "assigned" =>
         \/ r.id[1] < 0 /\ r.id[2] = r.msg
         \/ \E e \in Logs : e.type = "assigned" /\ e.msg = r.msg /\ r.id = LogId(e)
    /\ r.type = "sent" =>
         \E e \in Logs : e.type = "sent" /\ e.msg = r.msg /\ r.id[1] = e.block

Stored(r) ==
    r.type \in {"accepted", "assigned"} =>
        \E e \in Logs : e.type = r.type /\ e.msg = r.msg /\ r = StoredAs(e)

Doubled(r) == r.type = "assigned" /\ kept[r.msg] = "double"

\* A retired assignment that the SELECT does not find.
Differing(r) ==
    /\ kept[r.msg] = "differs"
    /\ \E e \in Logs : /\ e.type = "assigned" /\ e.msg = r.msg
                       /\ r = RetiredAssignment(e, 1, "differs")

ReadyInv(p) ==
    \A r \in p.ready :
        /\ Keyed(r) /\ Stored(r) /\ ~Doubled(r) /\ r.body = "chain"
        /\ r.type = "sent" => r.id[1] \in p.cursor..p.upto

RowsInv ==
    /\ \A r \in rows : Keyed(r) /\ (Doubled(r) \/ Differing(r) \/ Stored(r))
    /\ \A i \in Invocation : ReadyInv(run[i])
    /\ \A e \in Logs : kept[e.msg] # "none" =>
         /\ e.type = "accepted" => StoredAs(e) \in rows
         /\ e.type = "assigned" /\ kept[e.msg] # "differs" =>
              /\ RowOf(e, RetiredId(e, 1), 0) \in rows
              /\ kept[e.msg] = "double" => RowOf(e, RetiredId(e, 2), 0) \in rows

LEMMA KeyDecidesMessage ==
    ASSUME NEW r \in Row, NEW n \in Row, Keyed(r), Keyed(n), r.type = n.type,
           r.type \in {"accepted", "assigned"}, r.id = n.id
    PROVE  r.msg = n.msg
<1>1. CASE r.type = "accepted"
  BY <1>1 DEF Keyed
<1>2. CASE r.type = "assigned"
  <2>1. \A e, f \in Logs : LogId(e) = LogId(f) => e = f
    BY RecoveryAssumption DEF LogId
  <2>2. \A e \in Logs : ~(LogId(e)[1] < 0)
    BY LogTyped DEF LogId
  <2> QED BY <1>2, <2>1, <2>2 DEF Keyed
<1> QED BY <1>1, <1>2

\* What is stored of an assignment never takes the id of a row that differs.
LEMMA DifferingApart ==
    ASSUME NEW r, NEW n, Differing(r), Stored(n), r.type = n.type, r.msg = n.msg
    PROVE  r.id # n.id
<1>1. PICK e \in Logs : /\ e.type = "assigned" /\ e.msg = r.msg
                        /\ r = RetiredAssignment(e, 1, "differs")
  BY DEF Differing
<1>2. r.type = "assigned" /\ r.id = RetiredId(e, 1) /\ kept[r.msg] = "differs"
  BY <1>1 DEF RetiredAssignment, RowOf, Differing
<1>3. PICK f \in Logs : f.type = n.type /\ f.msg = n.msg /\ n = StoredAs(f)
  BY <1>2 DEF Stored
<1>4. n.id = LogId(f)
  BY <1>2, <1>3 DEF StoredAs, RowOf
<1>5. RetiredId(e, 1)[1] = -1 /\ LogId(f)[1] \in Nat
  BY LogTyped DEF RetiredId, LogId
<1> QED BY <1>2, <1>4, <1>5

\* A commit leaves the rows of messages and assignments as they are.
LEMMA Stays ==
    ASSUME TypeInv, RowsInv, NEW i \in Invocation, NEW r \in rows,
           r.type \in {"accepted", "assigned"}
    PROVE  r \in Written(run[i].ready)
<1>1. SUFFICES ASSUME NEW n \in run[i].ready, r.type = n.type, r.id = n.id
               PROVE  n = r
  BY DEF Written
<1>2. n \in Row /\ r \in Row
  BY DEF TypeInv, TypeOK, Run
<1>3. Keyed(r) /\ Keyed(n) /\ Stored(n) /\ ~Doubled(n) /\ (Doubled(r) \/ Differing(r) \/ Stored(r))
  BY DEF RowsInv, ReadyInv
<1>4. r.msg = n.msg
  BY <1>1, <1>2, <1>3, KeyDecidesMessage
<1>5. Stored(r)
  <2>1. ~Doubled(r)
    BY <1>1, <1>3, <1>4 DEF Doubled
  <2>2. ~Differing(r)
    BY <1>1, <1>2, <1>3, <1>4, DifferingApart
  <2> QED BY <1>3, <2>1, <2>2
<1>6. PICK e \in Logs : e.type = r.type /\ e.msg = r.msg /\ r = StoredAs(e)
  BY <1>5 DEF Stored
<1>7. PICK f \in Logs : f.type = n.type /\ f.msg = n.msg /\ n = StoredAs(f)
  BY <1>1, <1>3 DEF Stored
<1>8. e = f
  BY <1>1, <1>4, <1>6, <1>7, RecoveryAssumption
<1> QED BY <1>6, <1>7, <1>8

\* The row an event is prepared as is the one it is stored as.
LEMMA RowForStored ==
    ASSUME TypeInv, RowsInv, NEW e \in Logs, ~Refused(e)
    PROVE  /\ Keyed(RowFor(e)) /\ Stored(RowFor(e)) /\ ~Doubled(RowFor(e))
           /\ RowFor(e).body = "chain" /\ RowFor(e).type = e.type /\ RowFor(e).msg = e.msg
           /\ e.type = "sent" => RowFor(e).id = LogId(e)
<1>1. /\ e.msg \in Nat /\ e.type \in Type /\ e.msg \in Msg
      /\ kept \in [Msg -> Remains]
  BY LogTyped, RecoveryAssumption DEF TypeInv, TypeOK
<1>2. \A id, n : /\ RowOf(e, id, n).type = e.type /\ RowOf(e, id, n).msg = e.msg
                 /\ RowOf(e, id, n).body = "chain" /\ RowOf(e, id, n).id = id
                 /\ RowOf(e, id, n).index = n
  BY DEF RowOf
<1>3. \A r \in rows : r.type \in {"accepted", "assigned"} /\ r.type = e.type
                        /\ r.msg = e.msg /\ ~Doubled(r) /\ ~Differing(r) => r = StoredAs(e)
  BY RecoveryAssumption DEF RowsInv, Stored
<1>d. \A r : Differing(r) => r.type = "assigned" /\ r.body = "other"
  BY DEF Differing, RetiredAssignment, RowOf
<1>4. CASE e.type = "accepted"
  <2> DEFINE old == AcceptedRows(e.msg)
  <2>1. \A r \in old : r = StoredAs(e) /\ r.body = "chain"
    BY <1>3, <1>4, <1>d DEF AcceptedRows, Doubled, Refused
  <2>2. kept[e.msg] # "none" => StoredAs(e) \in old
    <3>1. StoredAs(e).type = "accepted" /\ StoredAs(e).msg = e.msg
      BY <1>2, <1>4 DEF StoredAs, RetiredMessage, RowOf
    <3> QED BY <1>4, <3>1 DEF RowsInv, AcceptedRows
  <2>3. RowFor(e) = RowOf(e, MessageId(e),
                      IF old = {} THEN e.index ELSE (CHOOSE r \in old : TRUE).index)
    BY <1>4 DEF RowFor
  <2>4. RowFor(e) = RowOf(e, MessageId(e), IF old = {} THEN e.index ELSE StoredAs(e).index)
    <3>1. old # {} => (CHOOSE r \in old : TRUE) \in old
      OBVIOUS
    <3> QED BY <2>1, <2>3, <3>1
  <2>5. RowFor(e) = StoredAs(e)
    <3>1. CASE kept[e.msg] = "none"
      <4>1. StoredAs(e) = RowOf(e, MessageId(e), e.index)
        BY <1>4, <3>1 DEF StoredAs
      <4> QED BY <1>2, <2>4, <4>1
    <3>2. CASE kept[e.msg] # "none"
      <4>1. StoredAs(e) \in old /\ StoredAs(e).body = "chain" /\ old # {}
        BY <2>1, <2>2, <3>2
      <4>2. StoredAs(e) = RetiredMessage(e, kept[e.msg])
        BY <1>4, <3>2 DEF StoredAs
      <4>3. kept[e.msg] # "conflict"
        BY <4>1, <4>2 DEF RetiredMessage, RowOf
      <4>4. StoredAs(e) = RowOf(e, MessageId(e), e.local)
        BY <4>2, <4>3 DEF RetiredMessage, RowOf
      <4> QED BY <1>2, <2>4, <4>1, <4>4
    <3> QED BY <3>1, <3>2
  <2> QED BY <1>2, <1>4, <2>4, <2>5 DEF Keyed, Stored, Doubled, MessageId
<1>5. CASE e.type = "assigned"
  <2> DEFINE old == AssignedRows(e.msg)
  <2>1. \A r, s \in old : r = s
    BY <1>5 DEF Refused
  <2>2. kept[e.msg] \notin {"none", "differs"} => RowOf(e, RetiredId(e, 1), 0) \in old
    BY <1>2, <1>5 DEF RowsInv, AssignedRows
  <2>3. kept[e.msg] # "double"
    <3>1. kept[e.msg] = "double" => RowOf(e, RetiredId(e, 2), 0) \in old
      BY <1>2, <1>5 DEF RowsInv, AssignedRows
    <3>2. RowOf(e, RetiredId(e, 1), 0) # RowOf(e, RetiredId(e, 2), 0)
      <4>1. RetiredId(e, 1)[1] = -1 /\ RetiredId(e, 2)[1] = -2
        BY DEF RetiredId
      <4> QED BY <1>2, <4>1
    <3> QED BY <2>1, <2>2, <3>1, <3>2
  <2>4. \A r \in old : r = StoredAs(e)
    BY <1>3, <1>5, <1>d, <2>3 DEF AssignedRows, Doubled
  <2>5. RowFor(e) = IF old = {} THEN RowOf(e, LogId(e), 0)
                    ELSE RowOf(e, (CHOOSE r \in old : TRUE).id, 0)
    BY <1>5 DEF RowFor
  <2>6. RowFor(e) = IF old = {} THEN RowOf(e, LogId(e), 0)
                    ELSE RowOf(e, StoredAs(e).id, 0)
    <3>1. old # {} => (CHOOSE r \in old : TRUE) \in old
      OBVIOUS
    <3> QED BY <2>4, <2>5, <3>1
  <2>7. StoredAs(e) = RowOf(e, IF kept[e.msg] \in {"none", "differs"} THEN LogId(e)
                                                           ELSE RetiredId(e, 1), 0)
    BY <1>5 DEF StoredAs
  <2>8. RowFor(e) = StoredAs(e)
    BY <1>2, <2>2, <2>6, <2>7
  <2>9. RowFor(e).id = LogId(e) \/ (RowFor(e).id[1] < 0 /\ RowFor(e).id[2] = e.msg)
    <3>1. RetiredId(e, 1)[1] < 0 /\ RetiredId(e, 1)[2] = e.msg
      BY DEF RetiredId
    <3> QED BY <1>2, <2>7, <2>8, <3>1
  <2> QED BY <1>2, <1>5, <2>3, <2>7, <2>8, <2>9 DEF Keyed, Stored, Doubled
<1>6. CASE e.type = "sent"
  <2>1. RowFor(e) = RowOf(e, LogId(e), e.index)
    BY <1>6 DEF RowFor
  <2>2. LogId(e)[1] = e.block
    BY DEF LogId
  <2> QED BY <1>2, <1>6, <2>1, <2>2 DEF Keyed, Stored, Doubled
<1> QED BY <1>1, <1>4, <1>5, <1>6 DEF Type

LEMMA RetiredStored ==
    ASSUME kept \in [Msg -> Remains], NEW e \in Logs, NEW r \in RetiredRows(e, kept[e.msg])
    PROVE  Keyed(r) /\ (Doubled(r) \/ Differing(r) \/ Stored(r))
<1>1. /\ e.msg \in Nat /\ e.type \in Type /\ e.msg \in Msg
      /\ kept[e.msg] # "none" /\ kept[e.msg] \in Remains
  BY LogTyped DEF RetiredRows
<1>2. \A id, n : /\ RowOf(e, id, n).type = e.type /\ RowOf(e, id, n).msg = e.msg
                 /\ RowOf(e, id, n).id = id
  BY DEF RowOf
<1>3. CASE e.type = "accepted"
  <2>1. r = RetiredMessage(e, kept[e.msg])
    BY <1>1, <1>3, Zenon DEF RetiredRows
  <2>2. r.type = "accepted" /\ r.msg = e.msg /\ r.id = <<e.msg, 0>> /\ r = StoredAs(e)
    BY <1>1, <1>3, <2>1 DEF RetiredMessage, RowOf, MessageId, StoredAs
  <2> QED BY <1>3, <2>2 DEF Keyed, Stored
<1>4. CASE e.type = "assigned"
  <2>1. PICK n \in {1, 2} : /\ r = RetiredAssignment(e, n, kept[e.msg])
                            /\ kept[e.msg] # "double" => n = 1
    BY <1>1, <1>4 DEF RetiredRows
  <2>2. RetiredId(e, n)[1] < 0 /\ RetiredId(e, n)[2] = e.msg
    BY DEF RetiredId
  <2>3. /\ r.type = "assigned" /\ r.msg = e.msg /\ r.id = RetiredId(e, n)
        /\ kept[e.msg] # "differs" => r = RowOf(e, RetiredId(e, n), 0)
    BY <1>4, <2>1 DEF RetiredAssignment, RowOf
  <2>4. Keyed(r)
    BY <2>2, <2>3 DEF Keyed
  <2>5. CASE kept[e.msg] = "double"
    BY <2>3, <2>4, <2>5 DEF Doubled
  <2>6. CASE kept[e.msg] = "differs"
    BY <1>4, <2>1, <2>3, <2>4, <2>6 DEF Differing
  <2>7. CASE kept[e.msg] \notin {"double", "differs"}
    <3>1. r = StoredAs(e)
      BY <1>1, <1>4, <2>1, <2>3, <2>7 DEF StoredAs
    <3> QED BY <1>4, <2>3, <2>4, <3>1 DEF Stored
  <2> QED BY <2>5, <2>6, <2>7
<1>5. CASE e.type = "sent"
  <2>1. r = RowOf(e, <<e.block, e.local>>, e.local)
    BY <1>1, <1>5 DEF RetiredRows
  <2>2. r.id[1] = e.block
    BY <1>2, <2>1
  <2> QED BY <1>2, <1>5, <2>1, <2>2 DEF Keyed, Stored
<1> QED BY <1>1, <1>3, <1>4, <1>5 DEF Type

LEMMA InitRows == Init => RowsInv
<1> SUFFICES ASSUME Init PROVE RowsInv
  OBVIOUS
<1>1. kept \in [Msg -> Remains]
  BY RecoveryAssumption DEF Init
<1>2. \A r : r \in rows <=> \E e \in Logs : r \in RetiredRows(e, kept[e.msg])
  BY DEF Init
<1>3. \A r \in rows : Keyed(r) /\ (Doubled(r) \/ Differing(r) \/ Stored(r))
  BY <1>1, <1>2, RetiredStored
<1>4. \A i \in Invocation : run[i].ready = {}
  BY DEF Init, Idle
<1>5. ASSUME NEW e \in Logs, kept[e.msg] # "none"
      PROVE  /\ e.type = "accepted" => StoredAs(e) \in rows
             /\ e.type = "assigned" /\ kept[e.msg] # "differs" =>
                  /\ RowOf(e, RetiredId(e, 1), 0) \in rows
                  /\ kept[e.msg] = "double" => RowOf(e, RetiredId(e, 2), 0) \in rows
  <2>1. CASE e.type = "accepted"
    <3>1. RetiredRows(e, kept[e.msg]) = {RetiredMessage(e, kept[e.msg])}
      BY <1>5, <2>1, Zenon DEF RetiredRows
    <3>2. StoredAs(e) = RetiredMessage(e, kept[e.msg])
      BY <1>5, <2>1 DEF StoredAs
    <3> QED BY <1>2, <2>1, <3>1, <3>2
  <2>2. CASE e.type = "assigned"
    <3>1. kept[e.msg] # "differs" =>
            \A n : RetiredAssignment(e, n, kept[e.msg]) = RowOf(e, RetiredId(e, n), 0)
      BY DEF RetiredAssignment, RowOf
    <3>2. /\ RetiredAssignment(e, 1, kept[e.msg]) \in RetiredRows(e, kept[e.msg])
          /\ kept[e.msg] = "double" =>
               RetiredAssignment(e, 2, kept[e.msg]) \in RetiredRows(e, kept[e.msg])
      BY <1>5, <2>2 DEF RetiredRows
    <3> QED BY <1>2, <2>2, <3>1, <3>2
  <2> QED BY <2>1, <2>2
<1> QED BY <1>3, <1>4, <1>5 DEF RowsInv, ReadyInv

LEMMA RowsPreserved == TypeInv /\ RowsInv /\ [Next]_vars => RowsInv'
<1> SUFFICES ASSUME TypeInv, RowsInv, [Next]_vars PROVE RowsInv'
  OBVIOUS
<1>a. \A i \in Invocation : run[i] \in Run /\ Bounds(run[i]) /\ ReadyInv(run[i])
  BY DEF TypeInv, TypeOK, RowsInv
<1>b. ASSUME UNCHANGED <<rows, kept>>, \A i \in Invocation : ReadyInv(run[i])'
      PROVE  RowsInv'
  BY <1>b DEF RowsInv, Keyed, Stored, Doubled, Differing, StoredAs, RetiredMessage
<1>c. ASSUME NEW i \in Invocation, UNCHANGED <<rows, kept>>, Others(i), run'[i].ready = {}
      PROVE  RowsInv'
  <2>1. ReadyInv(run[i])'
    BY <1>c DEF ReadyInv
  <2>2. \A j \in Invocation : j # i => ReadyInv(run[j])'
    BY <1>a, <1>c DEF Others, ReadyInv, Keyed, Stored, Doubled, Differing, StoredAs, RetiredMessage
  <2> QED BY <1>b, <1>c, <2>1, <2>2
<1>1. CASE UNCHANGED <<rows, checkpoint, origin, kept, run>>
  BY <1>1 DEF RowsInv, ReadyInv, Keyed, Stored, Doubled, Differing, StoredAs, RetiredMessage
<1>2. ASSUME NEW i \in Invocation, Aside(i) PROVE RowsInv'
  BY <1>2, <1>c DEF Aside
<1>3. ASSUME NEW i \in Invocation, NextBlock(i) PROVE RowsInv'
  <2>1. Resumed(run[i].from) \in Position
    BY ResumedTyped
  <2>2. /\ Others(i)
        /\ run'[i] = Idle \/ run'[i].ready = {}
    BY <1>3, <2>1, ContinueMoves, NextRangeTyped DEF NextBlock, Others
  <2>3. run'[i].ready = {}
    BY <2>2 DEF Idle
  <2> QED BY <1>3, <1>c, <2>2, <2>3 DEF NextBlock
<1>4. ASSUME NEW i \in Invocation, FetchLogs(i) \/ ShrinkRange(i) PROVE RowsInv'
  <2>1. run[i].ready = {}
    BY <1>4, <1>a DEF FetchLogs, ShrinkRange, At, Bounds
  <2>2. run'[i].ready = {} /\ Others(i)
    BY <1>4, <1>a, <2>1 DEF FetchLogs, ShrinkRange, Goto, Others, TypeInv, TypeOK, Run
  <2> QED BY <1>4, <1>c, <2>2 DEF FetchLogs, ShrinkRange, history
<1>5. ASSUME NEW i \in Invocation, Prepare(i) PROVE RowsInv'
  <2>1. PICK e \in Earliest(run[i].todo) :
            /\ ~Refused(e)
            /\ Goto(i, [run[i] EXCEPT !.todo = @ \ {e}, !.ready = @ \cup {RowFor(e)}])
    BY <1>5 DEF Prepare
  <2>2. e \in Logs /\ e.block \in run[i].cursor..run[i].upto
    BY <1>a, <2>1 DEF Earliest, Bounds, LogsIn
  <2>3. /\ run'[i].ready = run[i].ready \cup {RowFor(e)} /\ Others(i)
        /\ run'[i].cursor = run[i].cursor /\ run'[i].upto = run[i].upto
    BY <1>a, <2>1 DEF Goto, Others, TypeInv, TypeOK, Run
  <2>4. LogId(e)[1] = e.block
    BY DEF LogId
  <2>5. UNCHANGED <<rows, kept>>
    BY <1>5 DEF Prepare, history
  <2>6. ReadyInv(run'[i])
    BY <1>a, <2>1, <2>2, <2>3, <2>4, RowForStored DEF ReadyInv
  <2>7. ReadyInv(run[i])'
    BY <2>5, <2>6 DEF ReadyInv, Keyed, Stored, Doubled, Differing, StoredAs, RetiredMessage
  <2>8. \A j \in Invocation : j # i => ReadyInv(run[j])'
    BY <1>a, <2>3, <2>5 DEF Others, ReadyInv, Keyed, Stored, Doubled, Differing, StoredAs, RetiredMessage
  <2> QED BY <1>b, <2>5, <2>7, <2>8
<1>6. ASSUME NEW i \in Invocation, Commit(i) PROVE RowsInv'
  <2>1. NextAfter(i) \in Position
    BY NextAfterTyped
  <2>2. /\ Others(i)
        /\ run'[i] = Idle \/ run'[i].ready = {}
    BY <1>6, <2>1, ContinueMoves, NextRangeTyped DEF Commit, Others
  <2>3. run'[i].ready = {}
    BY <2>2 DEF Idle
  <2>4. UNCHANGED kept /\ rows' = Written(run[i].ready)
    BY <1>6 DEF Commit, history
  <2>5. \A r \in rows' : Keyed(r) /\ (Doubled(r) \/ Differing(r) \/ Stored(r))
    BY <1>a, <2>4 DEF Written, RowsInv, ReadyInv
  <2>6. \A j \in Invocation : ReadyInv(run[j])'
    BY <1>a, <2>2, <2>3, <2>4
       DEF Others, ReadyInv, Keyed, Stored, Doubled, Differing, StoredAs, RetiredMessage
  <2>7. ASSUME NEW e \in Logs, kept[e.msg] # "none"
        PROVE  /\ e.type = "accepted" => StoredAs(e) \in rows'
               /\ e.type = "assigned" /\ kept[e.msg] # "differs" =>
                    /\ RowOf(e, RetiredId(e, 1), 0) \in rows'
                    /\ kept[e.msg] = "double" => RowOf(e, RetiredId(e, 2), 0) \in rows'
    <3>1. /\ e.type = "accepted" => StoredAs(e).type = "accepted"
          /\ \A id : RowOf(e, id, 0).type = e.type
      BY <2>7 DEF StoredAs, RetiredMessage, RowOf
    <3> QED BY <2>4, <2>7, <3>1, Stays DEF RowsInv
  <2> QED BY <2>4, <2>5, <2>6, <2>7
          DEF RowsInv, Keyed, Stored, Doubled, Differing, StoredAs, RetiredMessage
<1> QED BY <1>1, <1>2, <1>3, <1>4, <1>5, <1>6, Shape

\* No replay and no overlap stores an assignment that is there already, under
\* whatever id the retired indexer stored it: two rows that say the same of a
\* message are two that it left (src/tron_recovery/storage.rs:101-136).
THEOREM AssignmentsUnique == Spec => []AssignmentsNotDuplicated
<1>1. ASSUME RowsInv, NEW r \in rows, NEW s \in rows, r.type = "assigned", s.type = "assigned",
             r.msg = s.msg, r.body = s.body, kept[r.msg] # "double"
      PROVE  r = s
  <2>1. ASSUME NEW q \in rows, q.type = "assigned", kept[q.msg] # "double"
        PROVE  \E e \in Logs : /\ e.type = "assigned" /\ e.msg = q.msg
                               /\ q = IF q.body = "other" THEN RetiredAssignment(e, 1, "differs")
                                                          ELSE StoredAs(e)
    <3>1. CASE Differing(q)
      <4>1. PICK e \in Logs : /\ e.type = "assigned" /\ e.msg = q.msg
                              /\ q = RetiredAssignment(e, 1, "differs")
        BY <3>1 DEF Differing
      <4>2. q.body = "other"
        BY <4>1 DEF RetiredAssignment, RowOf
      <4> QED BY <4>1, <4>2
    <3>2. CASE Stored(q)
      <4>1. PICK e \in Logs : e.type = q.type /\ e.msg = q.msg /\ q = StoredAs(e)
        BY <2>1, <3>2 DEF Stored
      <4>2. q.body = "chain"
        BY <2>1, <4>1 DEF StoredAs, RowOf
      <4> QED BY <2>1, <4>1, <4>2
    <3> QED BY <1>1, <2>1, <3>1, <3>2 DEF RowsInv, Doubled
  <2>2. PICK e \in Logs : /\ e.type = "assigned" /\ e.msg = r.msg
                          /\ r = IF r.body = "other" THEN RetiredAssignment(e, 1, "differs")
                                                     ELSE StoredAs(e)
    BY <1>1, <2>1
  <2>3. PICK f \in Logs : /\ f.type = "assigned" /\ f.msg = s.msg
                          /\ s = IF s.body = "other" THEN RetiredAssignment(f, 1, "differs")
                                                     ELSE StoredAs(f)
    BY <1>1, <2>1
  <2>4. e = f
    BY <1>1, <2>2, <2>3, RecoveryAssumption
  <2> QED BY <1>1, <2>2, <2>3, <2>4
<1>2. RowsInv => AssignmentsNotDuplicated
  BY <1>1 DEF AssignmentsNotDuplicated
<1> QED BY <1>2, InitTyped, TypePreserved, InitRows, RowsPreserved, PTL DEF Spec

\* The row of a message, once stored, is never changed or removed: not by a
\* replay, and not by an invocation that looked before another one wrote
\* (src/tron_recovery/storage.rs:87-100, 152-182).
THEOREM MessagesStay == Spec => MessagesKept
<1>1. TypeInv /\ RowsInv /\ [Next]_vars
        => [\A r \in rows : r.type = "accepted" => r \in rows']_vars
  <2> SUFFICES ASSUME TypeInv, RowsInv, [Next]_vars, NEW r \in rows, r.type = "accepted"
               PROVE  r \in rows'
    OBVIOUS
  <2>1. UNCHANGED rows \/ \E i \in Invocation : Commit(i)
    BY Shape DEF Aside, NextBlock, FetchLogs, ShrinkRange, Prepare
  <2>2. ASSUME NEW i \in Invocation, Commit(i) PROVE r \in rows'
    BY <2>2, Stays DEF Commit
  <2> QED BY <2>1, <2>2
<1> QED BY <1>1, InitTyped, TypePreserved, InitRows, RowsPreserved, PTL DEF Spec, MessagesKept

(***************************************************************************)
(* What has been recovered.  An invocation has everything before its range *)
(* behind it, in the tables, and everything in its range in its hands.  A  *)
(* commit may replace the row of a sent message, by its id, but only one   *)
(* of the blocks of its range, of which it writes every message.           *)
(***************************************************************************)
RecoveredUpTo(cursor) == \A e \in LogsIn(origin, cursor - 1) : Recovered(e)

RowOfEvent(r, e) == r.type = e.type /\ r.msg = e.msg /\ r.body = "chain"

RangeInv(p) ==
    /\ p.pc \in {"logs", "prepare"} => checkpoint # NoCheckpoint /\ RecoveredUpTo(p.cursor)
    /\ p.pc = "prepare" => \A e \in LogsIn(p.cursor, p.upto) :
                              e \in p.todo \/ \E r \in p.ready : RowOfEvent(r, e)

CompleteInv ==
    /\ RecoveredBelowCheckpoint
    /\ \A i \in Invocation : RangeInv(run[i])

LEMMA RecoveredStays ==
    ASSUME TypeInv, RowsInv, CompleteInv, NEW i \in Invocation, Commit(i), NEW e \in Logs,
           Recovered(e) \/ e \in LogsIn(run[i].cursor, run[i].upto)
    PROVE  Recovered(e)'
<1>1. rows' = Written(run[i].ready) /\ run[i].pc = "prepare" /\ run[i].todo = {}
  BY DEF Commit, At
<1>2. CASE e \in LogsIn(run[i].cursor, run[i].upto)
  <2>1. PICK r \in run[i].ready : RowOfEvent(r, e)
    BY <1>1, <1>2 DEF CompleteInv, RangeInv
  <2>2. r \in rows'
    BY <1>1, <2>1 DEF Written
  <2> QED BY <2>1, <2>2 DEF Recovered, RowOfEvent
<1>3. CASE Recovered(e)
  <2>1. PICK r \in rows : RowOfEvent(r, e)
    BY <1>3 DEF Recovered, RowOfEvent
  <2>2. CASE r \in rows'
    BY <2>1, <2>2 DEF Recovered, RowOfEvent
  <2>3. CASE r \notin rows'
    <3>1. r.type = "sent"
      <4>1. r.type \in Type
        BY DEF TypeInv, TypeOK, Row
      <4> QED BY <1>1, <2>3, <4>1, Stays DEF Type
    <3>2. PICK n \in run[i].ready : r.type = n.type /\ r.id = n.id
      BY <1>1, <2>3 DEF Written
    <3>3. n.id[1] \in run[i].cursor..run[i].upto
      BY <3>1, <3>2 DEF RowsInv, ReadyInv
    <3>4. r.id[1] = e.block
      <4>1. Keyed(r)
        BY DEF RowsInv
      <4>2. PICK f \in Logs : f.type = "sent" /\ f.msg = r.msg /\ r.id[1] = f.block
        BY <3>1, <4>1 DEF Keyed
      <4>3. f = e
        BY <2>1, <3>1, <4>2, RecoveryAssumption DEF RowOfEvent
      <4> QED BY <4>2, <4>3
    <3> QED BY <1>2, <3>2, <3>3, <3>4 DEF LogsIn
  <2> QED BY <2>2, <2>3
<1> QED BY <1>2, <1>3

LEMMA CompletePreserved ==
    TypeInv /\ RowsInv /\ CompleteInv /\ [Next]_vars => CompleteInv'
<1> SUFFICES ASSUME TypeInv, RowsInv, CompleteInv, [Next]_vars PROVE CompleteInv'
  OBVIOUS
<1>a. \A i \in Invocation : run[i] \in Run /\ Bounds(run[i]) /\ RangeInv(run[i])
  BY DEF TypeInv, TypeOK, CompleteInv
<1>b. ASSUME UNCHANGED <<rows, checkpoint, origin>>, \A i \in Invocation : RangeInv(run[i])'
      PROVE  CompleteInv'
  BY <1>b DEF CompleteInv, RecoveredBelowCheckpoint, Recovered
<1>c. ASSUME NEW i \in Invocation, UNCHANGED <<rows, checkpoint, origin>>, Others(i)
      PROVE  \A j \in Invocation : j # i => RangeInv(run[j])'
  BY <1>a, <1>c DEF Others, RangeInv, RecoveredUpTo, Recovered
<1>1. CASE UNCHANGED <<rows, checkpoint, origin, kept, run>>
  BY <1>1 DEF CompleteInv, RecoveredBelowCheckpoint, RangeInv, RecoveredUpTo, Recovered
<1>2. ASSUME NEW i \in Invocation, Aside(i) PROVE CompleteInv'
  <2>1. RangeInv(run[i])'
    BY <1>2 DEF Aside, RangeInv
  <2> QED BY <1>b, <1>c, <1>2, <2>1 DEF Aside
<1>3. ASSUME NEW i \in Invocation, NextBlock(i) PROVE CompleteInv'
  <2>1. Resumed(run[i].from) \in Position /\ run[i].from \in Height /\ MaxBlock \in Nat
    BY <1>a, ResumedTyped, RecoveryAssumption DEF Run
  <2>2. /\ Others(i) /\ UNCHANGED rows
        /\ \/ run'[i] = Idle
           \/ run'[i].pc = "logs" /\ run'[i].cursor = Resumed(run[i].from)
    BY <1>3, <2>1, ContinueMoves, NextRangeTyped DEF NextBlock, Others
  <2>3. CASE checkpoint = NoCheckpoint
    <3>1. checkpoint' = run[i].from /\ origin' = run[i].from
      BY <1>3, <2>3 DEF NextBlock
    <3>2. LogsIn(run[i].from, run[i].from - 1) = {}
      BY <2>1, LogTyped DEF LogsIn, Height
    <3>3. /\ RecoveredBelowCheckpoint'
          /\ \A e \in LogsIn(origin', run[i].from - 1) : Recovered(e)'
      BY <3>1, <3>2 DEF RecoveredBelowCheckpoint
    <3>4. checkpoint' # NoCheckpoint /\ Resumed(run[i].from) = run[i].from
      BY <2>1, <2>3, <3>1 DEF NoCheckpoint, Height, Resumed
    <3>5. RangeInv(run[i])'
      BY <2>2, <3>1, <3>3, <3>4 DEF RangeInv, RecoveredUpTo, Idle
    <3>6. \A j \in Invocation : j # i => run'[j].pc \notin {"logs", "prepare"}
      BY <1>a, <2>2, <2>3 DEF Others, RangeInv
    <3>7. \A j \in Invocation : RangeInv(run[j])'
      BY <3>5, <3>6 DEF RangeInv
    <3> QED BY <3>3, <3>7 DEF CompleteInv
  <2>4. CASE checkpoint # NoCheckpoint
    <3>1. UNCHANGED <<rows, checkpoint, origin>> /\ Resumed(run[i].from) = checkpoint
      BY <1>3, <2>4 DEF NextBlock, Resumed
    <3>2. RecoveredUpTo(checkpoint)
      BY <2>4 DEF CompleteInv, RecoveredBelowCheckpoint, RecoveredUpTo
    <3>3. RangeInv(run[i])'
      BY <2>2, <2>4, <3>1, <3>2 DEF RangeInv, RecoveredUpTo, Recovered, Idle
    <3> QED BY <1>b, <1>c, <2>2, <3>1, <3>3
  <2> QED BY <2>3, <2>4
<1>4. ASSUME NEW i \in Invocation, FetchLogs(i) PROVE CompleteInv'
  <2>1. /\ run[i].pc = "logs" /\ run'[i].pc = "prepare" /\ run'[i].cursor = run[i].cursor
        /\ run'[i].upto = run[i].upto /\ run'[i].todo = LogsIn(run[i].cursor, run[i].upto)
        /\ Others(i)
    BY <1>4, <1>a DEF FetchLogs, At, Goto, Others, TypeInv, TypeOK, Run
  <2>2. UNCHANGED <<rows, checkpoint, origin>>
    BY <1>4 DEF FetchLogs, history
  <2>3. RangeInv(run[i])'
    BY <1>a, <2>1, <2>2 DEF RangeInv, RecoveredUpTo, Recovered
  <2> QED BY <1>b, <1>c, <2>1, <2>2, <2>3
<1>5. ASSUME NEW i \in Invocation, ShrinkRange(i) PROVE CompleteInv'
  <2>1. /\ run[i].pc = "logs" /\ run'[i].pc = "logs" /\ run'[i].cursor = run[i].cursor
        /\ Others(i)
    BY <1>5, <1>a DEF ShrinkRange, At, Goto, Others, TypeInv, TypeOK, Run
  <2>2. UNCHANGED <<rows, checkpoint, origin>>
    BY <1>5 DEF ShrinkRange, history
  <2>3. RangeInv(run[i])'
    BY <1>a, <2>1, <2>2 DEF RangeInv, RecoveredUpTo, Recovered
  <2> QED BY <1>b, <1>c, <2>1, <2>2, <2>3
<1>6. ASSUME NEW i \in Invocation, Prepare(i) PROVE CompleteInv'
  <2>1. PICK e \in Earliest(run[i].todo) :
            /\ ~Refused(e)
            /\ Goto(i, [run[i] EXCEPT !.todo = @ \ {e}, !.ready = @ \cup {RowFor(e)}])
    BY <1>6 DEF Prepare
  <2>2. /\ run[i].pc = "prepare" /\ run'[i].pc = "prepare" /\ run'[i].cursor = run[i].cursor
        /\ run'[i].upto = run[i].upto /\ run'[i].todo = run[i].todo \ {e}
        /\ run'[i].ready = run[i].ready \cup {RowFor(e)} /\ Others(i)
    BY <1>6, <1>a, <2>1 DEF Prepare, At, Goto, Others, TypeInv, TypeOK, Run
  <2>3. UNCHANGED <<rows, checkpoint, origin>>
    BY <1>6 DEF Prepare, history
  <2>4. RowOfEvent(RowFor(e), e)
    BY <1>a, <2>1, RowForStored DEF Earliest, Run, RowOfEvent
  <2>5. RecoveredUpTo(run[i].cursor)' /\ checkpoint' # NoCheckpoint
    BY <1>a, <2>2, <2>3 DEF RangeInv, RecoveredUpTo, Recovered
  <2>6. ASSUME NEW f \in LogsIn(run[i].cursor, run[i].upto)
        PROVE  f \in run'[i].todo \/ \E r \in run'[i].ready : RowOfEvent(r, f)
    BY <1>a, <2>2, <2>4 DEF RangeInv
  <2>7. RangeInv(run[i])'
    BY <2>2, <2>5, <2>6 DEF RangeInv, RecoveredUpTo, RowOfEvent
  <2> QED BY <1>b, <1>c, <2>2, <2>3, <2>7
<1>7. ASSUME NEW i \in Invocation, Commit(i) PROVE CompleteInv'
  <2>1. /\ NextAfter(i) \in Position /\ MaxBlock \in Nat /\ run[i].upto \in Height
        /\ run[i].cursor \in Height /\ run[i].pc = "prepare"
    BY <1>7, <1>a, NextAfterTyped, RecoveryAssumption DEF Commit, At, Bounds, Run
  <2>2. /\ Others(i)
        /\ \/ run'[i] = Idle
           \/ run'[i].pc = "logs" /\ run'[i].cursor = NextAfter(i)
    BY <1>7, <2>1, ContinueMoves, NextRangeTyped DEF Commit, Others
  <2>3. checkpoint' = run[i].upto + 1 /\ NextAfter(i) = run[i].upto + 1 /\ UNCHANGED origin
    BY <1>7 DEF Commit, NextAfter, history
  <2>4. checkpoint' # NoCheckpoint /\ checkpoint' - 1 = run[i].upto
    BY <2>1, <2>3 DEF Height, NoCheckpoint
  <2>5. \A e \in Logs : Recovered(e) => Recovered(e)'
    BY <1>7, RecoveredStays
  <2>6. ASSUME NEW e \in LogsIn(origin, run[i].upto) PROVE Recovered(e)'
    <3>1. e \in Logs /\ e.block \in Nat
      BY LogTyped DEF LogsIn
    <3>2. e \in LogsIn(origin, run[i].cursor - 1) \/ e \in LogsIn(run[i].cursor, run[i].upto)
      BY <2>1, <3>1 DEF LogsIn, Height, TypeInv, TypeOK, NoCheckpoint
    <3>3. e \in LogsIn(origin, run[i].cursor - 1) => Recovered(e)
      BY <1>a, <2>1 DEF RangeInv, RecoveredUpTo
    <3> QED BY <1>7, <3>1, <3>2, <3>3, RecoveredStays
  <2>7. \A e \in LogsIn(origin', checkpoint' - 1) : Recovered(e)'
    BY <2>3, <2>4, <2>6
  <2>8. RangeInv(run[i])'
    BY <2>2, <2>3, <2>4, <2>7 DEF RangeInv, RecoveredUpTo, Idle
  <2>9. ASSUME NEW j \in Invocation, j # i PROVE RangeInv(run[j])'
    <3>1. run'[j] = run[j] /\ RangeInv(run[j])
      BY <1>a, <2>2, <2>9 DEF Others
    <3>2. run[j].pc \in {"logs", "prepare"} => \A e \in LogsIn(origin', run'[j].cursor - 1) : Recovered(e)'
      BY <2>3, <2>5, <3>1 DEF RangeInv, RecoveredUpTo, LogsIn
    <3> QED BY <2>4, <3>1, <3>2 DEF RangeInv, RecoveredUpTo
  <2> QED BY <2>7, <2>8, <2>9 DEF CompleteInv, RecoveredBelowCheckpoint
<1> QED BY <1>1, <1>2, <1>3, <1>4, <1>5, <1>6, <1>7, Shape

\* Below the checkpoint every event since the first --from-block is in the
\* tables, whatever ranges were asked for, wherever invocations failed, and
\* even when they overlapped without a lock (src/tron_recovery/scan.rs:30-80,
\* storage.rs:83-150).
THEOREM RecoveredComplete == Spec => []RecoveredBelowCheckpoint
<1>1. Init => CompleteInv
  BY DEF Init, CompleteInv, RecoveredBelowCheckpoint, RangeInv, Idle
<1>2. CompleteInv => RecoveredBelowCheckpoint
  BY DEF CompleteInv
<1> QED BY <1>1, <1>2, InitTyped, TypePreserved, InitRows, RowsPreserved, CompletePreserved,
           PTL DEF Spec

(***************************************************************************)
(* The lock.  Until a session is lost, an invocation that got past it is   *)
(* its holder, and its cursor is the checkpoint.                           *)
(***************************************************************************)
Working(p) == p.pc \notin {"idle", "lock"}

Alone(i) ==
    /\ Working(run[i]) => lock = i
    /\ run[i].pc \in {"logs", "prepare"} => run[i].cursor = checkpoint

LockInv == ~sessionLost => \A i \in Invocation : Alone(i)

LEMMA ContinueHolds ==
    ASSUME TypeInv, NEW i \in Invocation, NEW cursor \in Position, Continue(i, cursor)
    PROVE  \/ run'[i].pc = "idle"
           \/ run'[i].pc = "logs" /\ run'[i].cursor = cursor /\ UNCHANGED lock
<1>1. CASE cursor > run[i].end
  BY <1>1, ExitMoves DEF Continue, Idle
<1>2. CASE ~(cursor > run[i].end)
  <2>1. cursor <= run[i].end
    BY <1>2, RecoveryAssumption DEF TypeInv, TypeOK, Run, Height, Position
  <2>2. Goto(i, NextRange(i, cursor)) /\ UNCHANGED lock
    BY <1>2 DEF Continue, NextRange
  <2> QED BY <2>1, <2>2, NextRangeTyped, Moves
<1> QED BY <1>1, <1>2

LEMMA LockPreserved ==
    TypeInv /\ LockInv /\ [Next]_vars
        => LockInv' /\ (checkpoint' < checkpoint => sessionLost)
<1> SUFFICES ASSUME TypeInv, LockInv, [Next]_vars
             PROVE  LockInv' /\ (checkpoint' < checkpoint => sessionLost)
  OBVIOUS
<1> USE DEF history
<1>a. \A i \in Invocation : run[i] \in Run /\ Bounds(run[i])
  BY DEF TypeInv, TypeOK
<1>b. /\ MaxBlock \in Nat /\ checkpoint \in Position \cup {NoCheckpoint}
      /\ Free \notin Invocation /\ Closing \notin Invocation
  BY RecoveryAssumption DEF TypeInv, TypeOK
<1>c. \A n \in Position \cup {NoCheckpoint} : ~(n < n)
  BY <1>b DEF Position, NoCheckpoint
<1>d. ~(checkpoint < checkpoint)
  BY <1>b, <1>c
\* A step of i that leaves the progress alone and keeps the lock.
<1>e. ASSUME NEW i \in Invocation, Others(i), UNCHANGED <<checkpoint, lock, sessionLost>>,
             Working(run'[i]) => Working(run[i]),
             run'[i].pc \in {"logs", "prepare"} =>
                 run[i].pc \in {"logs", "prepare"} /\ run'[i].cursor = run[i].cursor
      PROVE  LockInv'
  BY <1>e DEF LockInv, Alone, Others, Working
\* A step of i that moves the progress: no other invocation is working.
<1>f. ASSUME NEW i \in Invocation, Others(i), UNCHANGED sessionLost, Working(run[i]),
             \/ run'[i].pc = "idle"
             \/ run'[i].pc = "logs" /\ run'[i].cursor = checkpoint' /\ UNCHANGED lock
      PROVE  LockInv'
  BY <1>f DEF LockInv, Alone, Others, Working
<1>1. CASE UNCHANGED vars
  BY <1>1, <1>d DEF vars, LockInv, Alone, Working
<1>2. ASSUME NEW i \in Invocation, NEW from \in From, NEW to \in To, Start(i, from, to)
      PROVE  LockInv' /\ UNCHANGED checkpoint
  <2>1. Others(i) /\ run'[i].pc = "lock"
    BY <1>2 DEF Start, Others, Goto, Idle, TypeInv, TypeOK
  <2> QED BY <1>2, <1>e, <2>1 DEF Start, Working
<1>3. ASSUME NEW i \in Invocation, Lock(i)
      PROVE  LockInv' /\ UNCHANGED checkpoint
  <2>1. Others(i) /\ run'[i].pc = "preceding"
    BY <1>3, <1>a DEF Lock, Others, Goto, TypeInv, TypeOK, Run
  <2>2. ~sessionLost => \A j \in Invocation : ~Working(run[j])
    BY <1>3, <1>b DEF Lock, LockAvailable, LockInv, Alone
  <2>3. ~sessionLost => \A j \in Invocation : j # i => ~Working(run'[j])
    BY <2>1, <2>2 DEF Others
  <2>4. lock' = i /\ UNCHANGED <<checkpoint, sessionLost>>
    BY <1>3 DEF Lock
  <2> QED BY <2>1, <2>3, <2>4 DEF LockInv, Alone, Working
<1>4. ASSUME NEW i \in Invocation, Exit(i),
             UNCHANGED <<head, imported, rows, checkpoint, history>>
      PROVE  LockInv' /\ UNCHANGED checkpoint
  <2>1. run'[i].pc = "idle" /\ \A j \in Invocation : j # i => run'[j] = run[j]
    BY <1>4, ExitMoves DEF Idle
  <2>2. \A j \in Invocation : j # i /\ lock = j => lock' = lock
    BY <1>4 DEF Exit
  <2> QED BY <1>4, <2>1, <2>2 DEF LockInv, Alone, Working
<1>5. ASSUME NEW i \in Invocation, CheckPreceding(i)
      PROVE  LockInv' /\ UNCHANGED checkpoint
  <2>1. Others(i) /\ run'[i].pc = "checkpoint" /\ run[i].pc = "preceding"
    BY <1>5, <1>a DEF CheckPreceding, At, Others, Goto, TypeInv, TypeOK, Run
  <2> QED BY <1>5, <1>e, <2>1 DEF CheckPreceding, Working
<1>6. ASSUME NEW i \in Invocation, NextBlock(i)
      PROVE  LockInv' /\ (checkpoint' < checkpoint => sessionLost)
  <2>1. Resumed(run[i].from) \in Position /\ run[i].from \in Height
    BY <1>a, ResumedTyped DEF Run
  <2>2. checkpoint' = Resumed(run[i].from)
    BY <1>6 DEF NextBlock, Resumed
  <2>3. /\ Others(i) /\ Working(run[i]) /\ UNCHANGED sessionLost
        /\ \/ run'[i].pc = "idle"
           \/ run'[i].pc = "logs" /\ run'[i].cursor = checkpoint' /\ UNCHANGED lock
    BY <1>6, <2>1, <2>2, ContinueMoves, ContinueHolds
       DEF NextBlock, At, Others, Working
  <2>4. ~(checkpoint' < checkpoint)
    BY <1>b, <1>d, <2>1, <2>2 DEF Resumed, Height, NoCheckpoint
  <2> QED BY <1>f, <2>3, <2>4
<1>7. ASSUME NEW i \in Invocation, FetchLogs(i) \/ ShrinkRange(i) \/ Prepare(i)
      PROVE  LockInv' /\ UNCHANGED checkpoint
  <2>1. UNCHANGED <<checkpoint, lock, sessionLost>> /\ run[i].pc \in {"logs", "prepare"}
    BY <1>7 DEF FetchLogs, ShrinkRange, Prepare, At
  <2>2. Others(i) /\ run'[i].cursor = run[i].cursor
    BY <1>7, <1>a DEF FetchLogs, ShrinkRange, Prepare, Goto, Others, TypeInv, TypeOK, Run
  <2> QED BY <1>e, <2>1, <2>2 DEF Working
<1>8. ASSUME NEW i \in Invocation, Commit(i)
      PROVE  LockInv' /\ (checkpoint' < checkpoint => sessionLost)
  <2>1. /\ NextAfter(i) \in Position /\ run[i].upto \in Height /\ run[i].cursor \in Height
        /\ run[i].cursor <= run[i].upto /\ run[i].pc = "prepare"
    BY <1>8, <1>a, NextAfterTyped DEF Commit, At, Bounds, Run
  <2>2. checkpoint' = NextAfter(i) /\ checkpoint' = run[i].upto + 1
    BY <1>8 DEF Commit, NextAfter
  <2>3. /\ Others(i) /\ Working(run[i]) /\ UNCHANGED sessionLost
        /\ \/ run'[i].pc = "idle"
           \/ run'[i].pc = "logs" /\ run'[i].cursor = checkpoint' /\ UNCHANGED lock
    BY <1>8, <2>1, <2>2, ContinueMoves, ContinueHolds DEF Commit, Others, Working
  <2>4. ~sessionLost => checkpoint = run[i].cursor
    BY <2>1 DEF LockInv, Alone
  <2>5. ~sessionLost => ~(checkpoint' < checkpoint)
    BY <1>b, <2>1, <2>2, <2>4 DEF Height
  <2> QED BY <1>f, <2>3, <2>5
<1>9. ASSUME Confirm \/ SessionCloses \/ LoseSession \/ \E m \in Msg : Import(m)
      PROVE  LockInv' /\ UNCHANGED checkpoint
  <2>1. UNCHANGED <<checkpoint, run>>
    BY <1>9 DEF Confirm, SessionCloses, LoseSession, Import
  <2>2. \/ sessionLost'
        \/ /\ UNCHANGED sessionLost
           /\ \A i \in Invocation : lock = i => lock' = i
    BY <1>9, <1>b DEF Confirm, SessionCloses, LoseSession, Import
  <2> QED BY <2>1, <2>2 DEF LockInv, Alone
<1> QED BY <1>1, <1>2, <1>3, <1>4, <1>5, <1>6, <1>7, <1>8, <1>9, <1>d
        DEF Next, Step, Proceed, AlreadyRunning, PrecedingMissing, Refuse, Fail

\* Until a session is lost under a running invocation, the checkpoint, which
\* every invocation overwrites blindly, never goes back
\* (src/tron_recovery/storage.rs:21-53, src/database.rs:489-513).
THEOREM ProgressForward == Spec => ProgressKept
<1>1. Init => LockInv
  <2>1. Idle.pc = "idle"
    BY DEF Idle
  <2>2. Init => \A i \in Invocation : run[i].pc = "idle"
    BY <2>1 DEF Init
  <2> QED BY <2>2 DEF LockInv, Alone, Working
<1>2. TypeInv /\ LockInv /\ [Next]_vars => LockInv' /\ [checkpoint' < checkpoint => sessionLost]_vars
  BY LockPreserved
<1> QED BY <1>1, <1>2, InitTyped, TypePreserved, PTL DEF Spec, ProgressKept

(***************************************************************************)
(* Confirmed blocks.  The head is sampled when an invocation starts and    *)
(* only grows, so what matters is that no range leaves the bounds set      *)
(* then.                                                                   *)
(***************************************************************************)
ConfirmedRows(S) ==
    \A r \in S, e \in Logs :
        r.type = e.type /\ r.msg = e.msg /\ kept[e.msg] = "none" => e.block <= head

ConfirmedInv ==
    /\ OnlyConfirmed
    /\ \A i \in Invocation : run[i].end <= head /\ ConfirmedRows(run[i].ready)

LEMMA InitConfirmed == Init => ConfirmedInv
<1> SUFFICES ASSUME Init PROVE ConfirmedInv
  OBVIOUS
<1>1. kept \in [Msg -> Remains]
  BY RecoveryAssumption DEF Init
<1>2. ASSUME NEW e \in Logs, NEW r \in RetiredRows(e, kept[e.msg])
      PROVE  r.type = e.type /\ r.msg = e.msg /\ kept[e.msg] # "none"
  <2>1. kept[e.msg] # "none" /\ e.type \in Type
    BY <1>2, LogTyped DEF RetiredRows
  <2>2. CASE e.type = "accepted"
    <3>1. r = RetiredMessage(e, kept[e.msg])
      BY <1>2, <2>1, <2>2, Zenon DEF RetiredRows
    <3> QED BY <2>1, <3>1 DEF RetiredMessage, RowOf
  <2>3. CASE e.type = "assigned"
    <3>1. \E n \in {1, 2} : r = RetiredAssignment(e, n, kept[e.msg])
      BY <1>2, <2>3 DEF RetiredRows
    <3> QED BY <2>1, <3>1 DEF RetiredAssignment, RowOf
  <2>4. CASE e.type = "sent"
    <3>1. r = RowOf(e, <<e.block, e.local>>, e.local)
      BY <1>2, <2>4 DEF RetiredRows
    <3> QED BY <2>1, <3>1 DEF RowOf
  <2> QED BY <2>1, <2>2, <2>3, <2>4 DEF Type
<1>3. \A r \in rows : \E e \in Logs : r \in RetiredRows(e, kept[e.msg])
  BY DEF Init
<1>4. OnlyConfirmed
  BY <1>2, <1>3, RecoveryAssumption DEF OnlyConfirmed
<1>5. \A i \in Invocation : run[i].end <= head /\ run[i].ready = {}
  <2>1. Idle.end = 0 /\ Idle.ready = {} /\ 0 <= 0
    BY DEF Idle
  <2>2. head = 0 /\ \A i \in Invocation : run[i] = Idle
    BY DEF Init
  <2> HIDE DEF Init
  <2> QED BY <2>1, <2>2, Zenon
<1> QED BY <1>4, <1>5 DEF ConfirmedInv, ConfirmedRows

LEMMA ConfirmedPreserved == TypeInv /\ RowsInv /\ ConfirmedInv /\ [Next]_vars => ConfirmedInv'
<1> SUFFICES ASSUME TypeInv, RowsInv, ConfirmedInv, [Next]_vars PROVE ConfirmedInv'
  OBVIOUS
<1> USE DEF history
<1>a. \A i \in Invocation : run[i] \in Run /\ Bounds(run[i]) /\ run[i].end <= head
                              /\ ConfirmedRows(run[i].ready)
  BY DEF TypeInv, TypeOK, ConfirmedInv
<1>b. MaxBlock \in Nat /\ head \in Height /\ head \in Nat
  BY RecoveryAssumption DEF TypeInv, TypeOK, Height
<1>c. 0 <= head /\ Idle.end = 0 /\ Idle.ready = {}
  BY <1>b DEF Idle
\* Most steps of an invocation leave the tables and what the others do alone.
<1>g. ASSUME NEW i \in Invocation, Others(i), UNCHANGED <<head, rows, kept>>,
             run'[i].end <= head, ConfirmedRows(run'[i].ready)
      PROVE  ConfirmedInv'
  BY <1>g, <1>a DEF ConfirmedInv, OnlyConfirmed, ConfirmedRows, Others
<1>1. CASE UNCHANGED vars
  BY <1>1 DEF vars, ConfirmedInv, OnlyConfirmed, ConfirmedRows
<1>2. ASSUME NEW i \in Invocation, NEW from \in From, NEW to \in To, Start(i, from, to)
      PROVE  ConfirmedInv'
  <2> DEFINE end == IF to = NoEnd THEN head ELSE to
  <2>1. end <= head
    BY <1>2, <1>b DEF Start, EndAccepted
  <2>2. Goto(i, [Idle EXCEPT !.pc = "lock", !.from = from, !.to = to, !.end = end])
    BY <1>2 DEF Start
  <2> HIDE DEF end
  <2>3. run'[i].end = end /\ run'[i].ready = {} /\ Others(i)
    BY <2>2 DEF Goto, Idle, Others, TypeInv, TypeOK
  <2>4. ConfirmedRows(run'[i].ready)
    BY <2>3 DEF ConfirmedRows
  <2> QED BY <1>2, <1>g, <2>1, <2>3, <2>4 DEF Start
<1>3. ASSUME NEW i \in Invocation, Lock(i) \/ CheckPreceding(i) PROVE ConfirmedInv'
  <2>1. PICK pc \in PC : run' = [run EXCEPT ![i] = [run[i] EXCEPT !.pc = pc]]
    BY <1>3 DEF Lock, CheckPreceding, Goto, PC
  <2>2. run'[i].end = run[i].end /\ run'[i].ready = run[i].ready /\ Others(i)
    BY <1>a, <2>1 DEF Others, TypeInv, TypeOK, Run
  <2> QED BY <1>3, <1>a, <1>g, <2>2 DEF Lock, CheckPreceding
<1>4. ASSUME NEW i \in Invocation, Exit(i),
             UNCHANGED <<head, imported, rows, checkpoint, history>>
      PROVE  ConfirmedInv'
  <2>1. run'[i] = Idle /\ Others(i)
    BY <1>4, ExitMoves DEF Others
  <2> QED BY <1>4, <1>c, <1>g, <2>1 DEF ConfirmedRows
\* Neither does Continue, which keeps the end and starts with no rows.
<1>n. ASSUME NEW i \in Invocation, NEW cursor \in Position, Continue(i, cursor)
      PROVE  Others(i) /\ run'[i].end <= head /\ run'[i].ready = {}
  <2>1. NextRange(i, cursor).end = run[i].end /\ NextRange(i, cursor).ready = {}
    BY <1>a DEF NextRange, Run
  <2> QED BY <1>n, <1>a, <1>c, <2>1, ContinueMoves DEF Others
<1>5. ASSUME NEW i \in Invocation, NextBlock(i) PROVE ConfirmedInv'
  <2>1. Others(i) /\ run'[i].end <= head /\ run'[i].ready = {}
    BY <1>5, <1>n, ResumedTyped DEF NextBlock
  <2> QED BY <1>5, <1>g, <2>1 DEF NextBlock, ConfirmedRows
<1>6. ASSUME NEW i \in Invocation, FetchLogs(i) \/ ShrinkRange(i) PROVE ConfirmedInv'
  <2>1. /\ run'[i].end = run[i].end /\ run'[i].ready = run[i].ready /\ Others(i)
    BY <1>6, <1>a DEF FetchLogs, ShrinkRange, Goto, Others, TypeInv, TypeOK, Run
  <2> QED BY <1>6, <1>a, <1>g, <2>1 DEF FetchLogs, ShrinkRange
<1>7. ASSUME NEW i \in Invocation, Prepare(i) PROVE ConfirmedInv'
  <2>1. PICK e \in Earliest(run[i].todo) :
            /\ ~Refused(e)
            /\ Goto(i, [run[i] EXCEPT !.todo = @ \ {e}, !.ready = @ \cup {RowFor(e)}])
    BY <1>7 DEF Prepare
  <2>2. /\ e \in Logs /\ e.block \in run[i].cursor..run[i].upto
        /\ run[i].pc = "prepare"
    BY <1>7, <1>a, <2>1 DEF Prepare, At, Earliest, Bounds, LogsIn
  <2>3. e.block <= head
    <3>1. run[i].end \in Nat /\ run[i].upto \in Nat /\ run[i].cursor \in Nat
      BY <1>a, <1>b DEF Run, Height, Position
    <3>2. run[i].upto <= run[i].end
      BY <1>a, <2>2 DEF Bounds
    <3> QED BY <1>a, <1>b, <2>2, <3>1, <3>2
  <2>4. /\ run'[i].end = run[i].end /\ Others(i)
        /\ run'[i].ready = run[i].ready \cup {RowFor(e)}
    BY <1>a, <2>1 DEF Goto, Others, TypeInv, TypeOK, Run
  <2>5. RowFor(e).type = e.type /\ RowFor(e).msg = e.msg
    BY <2>1, <2>2, RowForStored
  <2>6. ConfirmedRows(run'[i].ready)
    <3>1. \A f \in Logs : f.type = RowFor(e).type /\ f.msg = RowFor(e).msg => f = e
      BY <2>2, <2>5, RecoveryAssumption
    <3> QED BY <1>a, <2>3, <2>4, <3>1 DEF ConfirmedRows
  <2> QED BY <1>7, <1>a, <1>g, <2>4, <2>6 DEF Prepare
<1>8. ASSUME NEW i \in Invocation, Commit(i) PROVE ConfirmedInv'
  <2>1. Others(i) /\ run'[i].end <= head /\ run'[i].ready = {}
    BY <1>8, <1>n, NextAfterTyped DEF Commit
  <2>2. UNCHANGED <<head, kept>> /\ rows' \subseteq rows \cup run[i].ready
    BY <1>8 DEF Commit, Written
  <2>3. OnlyConfirmed'
    BY <1>a, <2>2 DEF ConfirmedInv, OnlyConfirmed, ConfirmedRows
  <2> QED BY <1>a, <2>1, <2>2, <2>3 DEF ConfirmedInv, ConfirmedRows, Others
<1>9. ASSUME Confirm \/ SessionCloses \/ LoseSession \/ \E m \in Msg : Import(m)
      PROVE  ConfirmedInv'
  <2>1. UNCHANGED <<rows, kept, run>> /\ head <= head' /\ head' \in Nat
    BY <1>9, <1>b DEF Confirm, SessionCloses, LoseSession, Import
  <2>2. \A e \in Logs : e.block <= head => e.block <= head'
    BY <1>b, <2>1, LogTyped
  <2>3. \A i \in Invocation : run[i].end <= head'
    BY <1>a, <1>b, <2>1 DEF Run, Height
  <2> QED BY <2>1, <2>2, <2>3 DEF ConfirmedInv, OnlyConfirmed, ConfirmedRows
<1> QED BY <1>1, <1>2, <1>3, <1>4, <1>5, <1>6, <1>7, <1>8, <1>9
        DEF Next, Step, Proceed, AlreadyRunning, PrecedingMissing, Refuse, Fail

\* However its ranges shrank and wherever it resumed, an invocation adds no row of a
\* block that is not confirmed by then
\* (src/tron_recovery/command.rs:42-51, src/tron_recovery/scan.rs:27-43).
THEOREM ConfirmedOnly == Spec => []OnlyConfirmed
<1>1. ConfirmedInv => OnlyConfirmed
  BY DEF ConfirmedInv
<1> QED BY <1>1, InitTyped, TypePreserved, InitRows, RowsPreserved, InitConfirmed,
           ConfirmedPreserved, PTL DEF Spec
=============================================================================
