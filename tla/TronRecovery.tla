---------------------------- MODULE TronRecovery ----------------------------
(***************************************************************************)
(* The tron-recovery command (src/tron_recovery/): invocations of a        *)
(* one-shot scan, started every few minutes by a CronJob and now and then  *)
(* by hand, that write the Tron events of confirmed blocks into the tables *)
(* of the retired Tron indexer.  A session lock keeps invocations apart    *)
(* for as long as the session lasts; the writes go through other           *)
(* connections and do not depend on it.                                    *)
(*                                                                         *)
(* Confirmed blocks do not change, so their logs are a constant.  A        *)
(* message is accepted, assigned and sent in one transaction.              *)
(***************************************************************************)
EXTENDS Integers

CONSTANTS
    Invocation,    \* invocations that may run at the same time
    MaxBlock,      \* bound: confirmed heights are 0..MaxBlock
    Msg,           \* the messages by their msg_index, a set of numbers
    Logs,          \* the logs of the chain, a subset of Log
    Kept,          \* what the retired indexer may have left of the messages
    BatchSize,     \* --batch-size
    From,          \* the values given to --from-block
    To             \* the values given to --to-block, NoEnd if it is omitted

Height == 0..MaxBlock
Type   == {"accepted", "assigned", "sent"}
NoEnd  == MaxBlock + 1

\* Of the advisory lock: nobody holds it; its holder is gone, but the server has
\* yet to notice.
Free    == "free"
Closing == "closing"

\* index is the log's position in its block, local the one in its transaction.
Log == [block : Height, index : Nat, local : Nat, type : Type, msg : Msg]

\* Of a message: no rows, rows that say what the chain says, among them a message
\* that contradicts it, the assignment twice, or an assignment that says something
\* else (another fee, other params).
Remains == {"none", "same", "conflict", "double", "differs"}

ASSUME RecoveryAssumption ==
    /\ MaxBlock \in Nat
    /\ Msg \subseteq Nat
    /\ Logs \subseteq Log
    /\ \A e, f \in Logs : e.type = f.type /\ e.msg = f.msg => e = f
    /\ \A e, f \in Logs : e.block = f.block /\ e.index = f.index => e = f
    /\ Kept \subseteq [Msg -> Remains]
    /\ BatchSize \in Nat \ {0}
    /\ From \subseteq Height
    /\ Free \notin Invocation /\ Closing \notin Invocation
    /\ To \subseteq Height \cup {NoEnd}

VARIABLES
    head,         \* the confirmed head
    imported,     \* messages whose root ormp_hash_imported holds for chain 46
    rows,         \* the Tron rows of the three event tables
    checkpoint,   \* next_block of tron.ormp-recovery.v1, or NoCheckpoint
    lock,         \* the holder of the advisory lock, Free or Closing
    run,          \* [Invocation -> the locals of execute]
    kept,         \* history: what the retired indexer left
    origin,       \* history: the block the checkpoint was created at
    sessionLost   \* history: a session has ended under a running invocation

history == <<kept, origin, sessionLost>>
vars    == <<head, imported, rows, checkpoint, lock, run, history>>

NoCheckpoint == -1
Position     == 0..(MaxBlock + 1)

\* A row is identified by its table and id.  body tells whether its columns say
\* what the chain says; index is the log_index column, 0 if the table has none.
Row == [type : Type, id : Int \X Nat, msg : Msg, body : {"chain", "other"}, index : Nat]

MessageId(e)    == <<e.msg, 0>>          \* accepted rows: the message hash
LogId(e)        == <<e.block, e.index>>  \* assigned and sent rows
RetiredId(e, n) == <<-n, e.msg>>         \* another event-id format

RowOf(e, id, index) ==
    [type |-> e.type, id |-> id, msg |-> e.msg, body |-> "chain", index |-> index]

\* The row the retired indexer left of an accepted message.
RetiredMessage(e, state) ==
    [RowOf(e, MessageId(e), e.local) EXCEPT
        !.body = IF state = "conflict" THEN "other" ELSE "chain"]

\* The row it left of an assignment, the n-th if there are several.
RetiredAssignment(e, n, state) ==
    [RowOf(e, RetiredId(e, n), 0) EXCEPT
        !.body = IF state = "differs" THEN "other" ELSE "chain"]

\* The rows it left of a log, with its transaction-local index: the id of a sent
\* row may be the one another log of the block gets here.
RetiredRows(e, state) ==
    IF state = "none" THEN {} ELSE
    CASE e.type = "accepted" -> {RetiredMessage(e, state)}
      [] e.type = "assigned" -> {RetiredAssignment(e, n, state) :
                                    n \in IF state = "double" THEN {1, 2} ELSE {1}}
      [] e.type = "sent"     -> {RowOf(e, <<e.block, e.local>>, e.local)}

PC == {"idle", "lock", "preceding", "checkpoint", "logs", "prepare"}

Run == [pc     : PC,
        from   : Height,                 \* --from-block
        to     : Height \cup {NoEnd},    \* --to-block
        end    : Height,
        cursor : Position,
        upto   : Height,                 \* range_end
        todo   : SUBSET Logs,            \* events commit has yet to look at
        ready  : SUBSET Row]             \* the rows it is going to write

Idle == [pc |-> "idle", from |-> 0, to |-> NoEnd, end |-> 0, cursor |-> 0,
         upto |-> 0, todo |-> {}, ready |-> {}]

Init ==
    /\ head = 0 /\ imported = {}
    /\ kept \in Kept
    /\ rows = UNION {RetiredRows(e, kept[e.msg]) : e \in Logs}
    /\ checkpoint = NoCheckpoint /\ origin = NoCheckpoint
    /\ lock = Free /\ sessionLost = FALSE
    /\ run = [i \in Invocation |-> Idle]

TypeOK ==
    /\ head \in Height /\ imported \subseteq Msg
    /\ rows \subseteq Row
    /\ checkpoint \in Position \cup {NoCheckpoint}
    /\ lock \in Invocation \cup {Free, Closing}
    /\ run \in [Invocation -> Run]
    /\ kept \in Kept
    /\ origin \in Height \cup {NoCheckpoint}
    /\ sessionLost \in BOOLEAN

-----------------------------------------------------------------------------
Smaller(a, b) == IF a <= b THEN a ELSE b

At(i, pc)       == run[i].pc = pc
Goto(i, locals) == run' = [run EXCEPT ![i] = locals]

\* The process ends, well or not; its session ends some time later.
Exit(i) ==
    /\ Goto(i, Idle)
    /\ lock' = IF lock = i THEN Closing ELSE lock

AcceptedRows(m) == {r \in rows : r.type = "accepted" /\ r.msg = m}

\* The SELECT by all columns of the event: a row that differs is not found.
AssignedRows(m) == {r \in rows : r.type = "assigned" /\ r.msg = m /\ r.body = "chain"}

\* check_preceding_message: the latest imported root has no source message.
SourceMissing ==
    \E m \in imported : /\ \A n \in imported : n <= m
                        /\ AcceptedRows(m) = {}

\* Mutant: any end will do.
EndUnchecked(from, to) == to # NoEnd => from <= to
EndAccepted(from, to)  == to # NoEnd => to <= head /\ from <= to

Start(i, from, to) ==
    /\ At(i, "idle")
    /\ EndAccepted(from, to)
    /\ Goto(i, [Idle EXCEPT !.pc = "lock", !.from = from, !.to = to,
                            !.end = IF to = NoEnd THEN head ELSE to])
    /\ UNCHANGED <<head, imported, rows, checkpoint, lock, history>>

\* Mutant: the lock excludes nobody.
LockAvailableAlways == TRUE
\* pg_try_advisory_lock
LockAvailable == lock = Free

Lock(i) ==
    /\ At(i, "lock") /\ LockAvailable
    /\ lock' = i
    /\ Goto(i, [run[i] EXCEPT !.pc = "preceding"])
    /\ UNCHANGED <<head, imported, rows, checkpoint, history>>

AlreadyRunning(i) ==
    /\ At(i, "lock") /\ ~LockAvailable
    /\ Exit(i)
    /\ UNCHANGED <<head, imported, rows, checkpoint, history>>

CheckPreceding(i) ==
    /\ At(i, "preceding") /\ ~SourceMissing
    /\ Goto(i, [run[i] EXCEPT !.pc = "checkpoint"])
    /\ UNCHANGED <<head, imported, rows, checkpoint, lock, history>>

PrecedingMissing(i) ==
    /\ At(i, "preceding") /\ SourceMissing
    /\ Exit(i)
    /\ UNCHANGED <<head, imported, rows, checkpoint, history>>

Resumed(from) == IF checkpoint = NoCheckpoint THEN from ELSE checkpoint

\* Mutant: the last range is not cut at the end.
RangeEndUncut(cursor, end) == cursor + BatchSize - 1
\* The range recover asks for first.
RangeEnd(cursor, end) == Smaller(cursor + BatchSize - 1, end)

\* On to the next range, unless the end has been passed.
Continue(i, cursor) ==
    IF cursor > run[i].end
      THEN Exit(i)
      ELSE /\ Goto(i, [run[i] EXCEPT !.pc = "logs", !.from = 0, !.cursor = cursor,
                                     !.upto = RangeEnd(cursor, run[i].end),
                                     !.todo = {}, !.ready = {}])
           /\ UNCHANGED lock

NextBlock(i) ==
    /\ At(i, "checkpoint")
    /\ IF checkpoint = NoCheckpoint
         THEN checkpoint' = run[i].from /\ origin' = run[i].from
         ELSE UNCHANGED <<checkpoint, origin>>
    /\ Continue(i, Resumed(run[i].from))
    /\ UNCHANGED <<head, imported, rows, kept, sessionLost>>

-----------------------------------------------------------------------------
(* recover: ranges shrink until the provider answers, then commit looks at  *)
(* each event before one transaction writes them all.                      *)

LogsIn(from, to) == {e \in Logs : e.block \in from..to}

FetchLogs(i) ==
    /\ At(i, "logs")
    /\ Goto(i, [run[i] EXCEPT !.pc = "prepare",
                              !.todo = LogsIn(run[i].cursor, run[i].upto)])
    /\ UNCHANGED <<head, imported, rows, checkpoint, lock, history>>

Half(from, to) == from + (to - from) \div 2

\* The provider refuses a range it finds too large, or fails.
ShrinkRange(i) ==
    /\ At(i, "logs") /\ run[i].upto # run[i].cursor
    /\ Goto(i, [run[i] EXCEPT !.upto = Half(run[i].cursor, run[i].upto)])
    /\ UNCHANGED <<head, imported, rows, checkpoint, lock, history>>

\* sort_by_key of the logs: the event whose turn it is.
Earliest(events) ==
    {e \in events : \A f \in events :
        e.block < f.block \/ (e.block = f.block /\ e.index <= f.index)}

\* Mutant: an existing message is not compared.
RefusedNever(e) == FALSE
\* An existing row contradicts the event, or its assignment is there twice.
Refused(e) ==
    \/ e.type = "accepted" /\ \E r \in AcceptedRows(e.msg) : r.body # "chain"
    \/ e.type = "assigned" /\ \E r, s \in AssignedRows(e.msg) : r # s

\* Mutant: the ids of the retired indexer are not looked up.
RowWithNewId(e) ==
    CASE e.type = "accepted" -> RowOf(e, MessageId(e), e.index)
      [] e.type = "assigned" -> RowOf(e, LogId(e), 0)
      [] e.type = "sent"     -> RowOf(e, LogId(e), e.index)

\* Existing metadata of a message and the existing id of an assignment are kept.
RowFor(e) ==
    CASE e.type = "accepted" ->
             LET old == AcceptedRows(e.msg)
             IN  RowOf(e, MessageId(e),
                        IF old = {} THEN e.index ELSE (CHOOSE r \in old : TRUE).index)
      [] e.type = "assigned" ->
             LET old == AssignedRows(e.msg)
             IN  IF old = {} THEN RowOf(e, LogId(e), 0)
                             ELSE RowOf(e, (CHOOSE r \in old : TRUE).id, 0)
      [] e.type = "sent"     -> RowOf(e, LogId(e), e.index)

Prepare(i) ==
    /\ At(i, "prepare")
    /\ \E e \in Earliest(run[i].todo) :
         /\ ~Refused(e)
         /\ Goto(i, [run[i] EXCEPT !.todo = @ \ {e}, !.ready = @ \cup {RowFor(e)}])
    /\ UNCHANGED <<head, imported, rows, checkpoint, lock, history>>

Refuse(i) ==
    /\ At(i, "prepare")
    /\ \E e \in Earliest(run[i].todo) : Refused(e)
    /\ Exit(i)
    /\ UNCHANGED <<head, imported, rows, checkpoint, history>>

\* INSERT ... ON CONFLICT (id) DO UPDATE, for all events of the range.
Written(new) ==
    {r \in rows : \A n \in new : r.type # n.type \/ r.id # n.id} \cup new

\* Mutant: the block after the range first asked for.
NextAfterRequested(i) == RangeEnd(run[i].cursor, run[i].end) + 1
NextAfter(i) == run[i].upto + 1

Commit(i) ==
    /\ At(i, "prepare") /\ run[i].todo = {}
    /\ rows' = Written(run[i].ready)
    /\ checkpoint' = NextAfter(i)
    /\ Continue(i, NextAfter(i))
    /\ UNCHANGED <<head, imported, history>>

\* An error at any call, or the end of the process: the provider fails even for
\* a single block or returns what it should not, a query or the commit fails.
Fail(i) ==
    /\ ~At(i, "idle")
    /\ Exit(i)
    /\ UNCHANGED <<head, imported, rows, checkpoint, history>>

-----------------------------------------------------------------------------
(* The world.                                                              *)

\* The chain confirms a block.
Confirm ==
    /\ head < MaxBlock
    /\ head' = head + 1
    /\ UNCHANGED <<imported, rows, checkpoint, lock, run, history>>

\* The oracle imports the root of a confirmed message on chain 46, and the
\* indexer of that chain stores it.
Import(m) ==
    /\ \E e \in Logs : e.type = "accepted" /\ e.msg = m /\ e.block <= head
    /\ m \notin imported
    /\ imported' = imported \cup {m}
    /\ UNCHANGED <<head, rows, checkpoint, lock, run, history>>

\* The server notices that the holder of the lock is gone.
SessionCloses ==
    /\ lock = Closing
    /\ lock' = Free
    /\ UNCHANGED <<head, imported, rows, checkpoint, run, history>>

\* The session of the lock ends: a restart of the server, an idle timeout, a
\* broken connection.  Nothing tells the invocation.
LoseSession ==
    /\ lock \in Invocation
    /\ lock' = Free /\ sessionLost' = TRUE
    /\ UNCHANGED <<head, imported, rows, checkpoint, run, kept, origin>>

Proceed(i) ==
    \/ Lock(i) \/ AlreadyRunning(i) \/ CheckPreceding(i) \/ PrecedingMissing(i)
    \/ NextBlock(i) \/ ShrinkRange(i) \/ Prepare(i) \/ Refuse(i) \/ Commit(i)

Step(i) == Proceed(i) \/ FetchLogs(i)

Next ==
    \/ \E i \in Invocation :
         \/ \E from \in From, to \in To : Start(i, from, to)
         \/ Step(i) \/ Fail(i)
    \/ Confirm \/ SessionCloses \/ LoseSession
    \/ \E m \in Msg : Import(m)

Spec == Init /\ [][Next]_vars

\* The CronJob keeps starting the command, an invocation does not stop at a
\* call, and a session that has lost its process is cleaned up.  The provider
\* answers for single blocks; it may refuse all larger ranges.
Fairness ==
    /\ WF_vars(SessionCloses)
    /\ \A i \in Invocation : /\ WF_vars(\E from \in From : Start(i, from, NoEnd))
                             /\ WF_vars(\/ Proceed(i)
                                        \/ run[i].upto = run[i].cursor /\ FetchLogs(i))

FairSpec == Spec /\ Fairness
-----------------------------------------------------------------------------
(***************************************************************************)
(* Properties.                                                             *)
(***************************************************************************)
\* A log is in the tables, as the chain has it.
Recovered(e) == \E r \in rows : r.type = e.type /\ r.msg = e.msg /\ r.body = "chain"

\* Ranges that shrink, invocations that fail anywhere, resume, and overlap
\* because a session was lost: below the checkpoint every event since the first
\* --from-block is in the tables, and a message that contradicts the chain is
\* never passed over (src/tron_recovery/scan.rs:30-80, storage.rs:83-182).
RecoveredBelowCheckpoint ==
    checkpoint # NoCheckpoint =>
        \A e \in LogsIn(origin, checkpoint - 1) : Recovered(e)

\* No replay, and no two invocations at once, store an assignment of a message
\* that is there already: an id of the retired format is found and used again.
\* (A retired assignment that differs from the chain's is not: it stays beside the
\* recovered one.)  src/tron_recovery/storage.rs:101-136
AssignmentsNotDuplicated ==
    \A r, s \in rows :
        r.type = "assigned" /\ s.type = "assigned" /\ r.msg = s.msg /\ r.body = s.body /\ r # s =>
            kept[r.msg] = "double"

\* Nothing this command has added is of a block that is not confirmed by now,
\* whatever the ends it was given, the ranges it shrank to and the checkpoint it
\* resumed from (src/tron_recovery/command.rs:42-51, scan.rs:30-43).
OnlyConfirmed ==
    \A r \in rows, e \in Logs :
        r.type = e.type /\ r.msg = e.msg /\ kept[e.msg] = "none" => e.block <= head

\* A message once stored keeps its metadata and its columns, whatever is
\* recovered over it (src/tron_recovery/storage.rs:87-100, 152-182).
MessagesKept ==
    [][\A r \in rows : r.type = "accepted" => r \in rows']_vars

\* Unless a session is lost, the progress never goes back: the lock makes the
\* blind upsert of the checkpoint safe (src/database.rs:489-513).
ProgressKept ==
    [][checkpoint' < checkpoint => sessionLost]_vars

\* No message up to this block is refused.
Recoverable(b) == \A e \in LogsIn(0, b) : kept[e.msg] \in {"none", "same", "differs"}

\* Once calls stop failing every confirmed block is recovered, however small the
\* ranges the provider answers and however often sessions are lost: unless the
\* root of a message not recovered yet is imported, which stops all invocations,
\* or the command is run by hand for ever (README.md:57-66,
\* src/tron_recovery/scan.rs:30-43).
CatchesUp ==
    /\ <>[][\A i \in Invocation : ~Fail(i)]_vars
    /\ <>[](\A i \in Invocation : run[i].to = NoEnd)
    /\ []<>~SourceMissing
    => \A b \in Height : (head >= b /\ Recoverable(b)) ~> checkpoint > b

\* An explicit replay remains idempotent (src/tron_recovery/tests.rs): whatever
\* was indexed before, an event is not stored a second time.
SentNotDuplicated ==
    \A r, s \in rows : r.type = "sent" /\ s.type = "sent" /\ r.msg = s.msg => r = s
=============================================================================
