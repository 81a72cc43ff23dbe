----------------------------- MODULE MetricsCache -----------------------------
(***************************************************************************)
(* The cache behind GET /metrics (src/ops.rs, MetricsCache).  A background *)
(* loop collects a snapshot of the database again and again; a scrape that *)
(* finds no snapshot yet collects one itself.  One mutex lets one of them  *)
(* collect at a time, a timeout ends a collection the database does not    *)
(* answer, and a client that hangs up drops its scrape at any await.       *)
(*                                                                         *)
(* A collection is two SELECTs outside of a transaction, while the indexer *)
(* goes on writing: first the checkpoints, then the number of rows of the  *)
(* tables.  One chain stands for all, and each of its blocks for one row:  *)
(* rows and checkpoint move in one transaction, so that `indexed' is what  *)
(* either SELECT reads.  Time is counted in ticks; a task that has nothing *)
(* to wait for moves before the next tick.                                 *)
(***************************************************************************)
EXTENDS Integers, Sequences

CONSTANTS
    Scrape,     \* requests to /metrics that may be under way at once
    Loop,       \* the refresh loop
    MaxBlock,   \* bound: blocks the indexer may have indexed
    Delay,      \* refresh_delay, in ticks
    Timeout,    \* refresh_timeout, in ticks
    NoSnapshot

Task == Scrape \cup {Loop}

\* Mutant: as long as a refresh with its delay may take.
StaleAfterTwoDelays == 2 * Delay
StaleAfter == 3 * Delay

\* MetricsConfig::from_env_map refuses a delay or a timeout of zero.
ASSUME CacheAssumption ==
    /\ Loop \notin Scrape
    /\ MaxBlock \in Nat /\ Delay \in Nat \ {0} /\ Timeout \in Nat \ {0}
    /\ NoSnapshot \notin [checkpoint : 0..MaxBlock, count : 0..MaxBlock, torn : BOOLEAN]

VARIABLES
    indexed,    \* the database: blocks below the checkpoint, each with its row
    snapshot,   \* state.snapshot
    age,        \* ticks since state.last_success_at, StaleAfter + 1 being more
    success,    \* state.last_refresh_success
    queue,      \* refresh_lock: who waits for it, its holder first
    pc,         \* [Task -> where the task is]
    timer,      \* ticks the loop has left to sleep
    elapsed,    \* ticks since the collection under way began
    read,       \* the checkpoint it has read
    torn,       \* history: a rollback came after that read
    dataAge     \* history: ticks since the collection of `snapshot' began

dbVars      == <<indexed, torn>>
stateVars   == <<snapshot, age, success, dataAge>>
collectVars == <<timer, elapsed, read>>
vars        == <<dbVars, stateVars, collectVars, queue, pc>>

Snapshot == [checkpoint : 0..MaxBlock, count : 0..MaxBlock, torn : BOOLEAN]
Oldest   == StaleAfter + Timeout + 1     \* bound of dataAge
Collecting == {"checkpoints", "counts"}  \* which of its SELECTs is under way

TypeOK ==
    /\ indexed \in 0..MaxBlock /\ torn \in BOOLEAN
    /\ snapshot \in Snapshot \cup {NoSnapshot}
    /\ age \in 0..(StaleAfter + 1) /\ dataAge \in 0..Oldest /\ success \in BOOLEAN
    /\ queue \in Seq(Task)
    /\ pc \in [Task -> {"idle", "queued", "render"} \cup Collecting]
    /\ timer \in 0..Delay /\ elapsed \in 0..Timeout /\ read \in 0..MaxBlock

Init ==
    /\ indexed = 0 /\ torn = FALSE
    /\ snapshot = NoSnapshot /\ age = 0 /\ dataAge = 0 /\ success = TRUE
    /\ pc = [t \in Task |-> "idle"] /\ queue = <<>>
    /\ timer = 0 /\ elapsed = 0 /\ read = 0

-----------------------------------------------------------------------------
(* The indexer, in the same process or another one.                        *)

IndexRange ==
    /\ indexed < MaxBlock
    /\ indexed' = indexed + 1
    /\ UNCHANGED <<torn, stateVars, collectVars, queue, pc>>

RollBack ==
    /\ \E b \in 0..(indexed - 1) : indexed' = b
    /\ torn' = (torn \/ \E t \in Task : pc[t] = "counts")
    /\ UNCHANGED <<stateVars, collectVars, queue, pc>>

-----------------------------------------------------------------------------
(* Waiting for the lock.  tokio's mutex is fair: first come, first served. *)

\* Mutant: the guard is dropped where it is taken (`let _ = ...').
QueuedAtAll(t) == pc[t] = "queued"
Waiting(t) == pc[t] = "queued" /\ Head(queue) = t

\* Mutant: a failure ends the loop.
LoopWakesAfterSuccess ==
    /\ pc[Loop] = "idle" /\ timer = 0 /\ success
    /\ pc' = [pc EXCEPT ![Loop] = "queued"]
    /\ queue' = Append(queue, Loop)
    /\ UNCHANGED <<dbVars, stateVars, collectVars>>
\* The loop has slept: refresh(force = true).
LoopWakes ==
    /\ pc[Loop] = "idle" /\ timer = 0
    /\ pc' = [pc EXCEPT ![Loop] = "queued"]
    /\ queue' = Append(queue, Loop)
    /\ UNCHANGED <<dbVars, stateVars, collectVars>>

\* render: a scrape queues for the lock only when there is no snapshot.
ScrapeStarts(s) ==
    /\ pc[s] = "idle"
    /\ \/ /\ snapshot = NoSnapshot
          /\ pc' = [pc EXCEPT ![s] = "queued"] /\ queue' = Append(queue, s)
       \/ /\ snapshot # NoSnapshot
          /\ pc' = [pc EXCEPT ![s] = "render"] /\ queue' = queue
    /\ UNCHANGED <<dbVars, stateVars, collectVars>>

\* refresh, with the lock: whoever waited behind a refresh that worked has
\* nothing left to do, unless it is the loop.
SkipRefresh(t) ==
    /\ Waiting(t) /\ t # Loop /\ snapshot # NoSnapshot
    /\ pc' = [pc EXCEPT ![t] = "render"]
    /\ queue' = Tail(queue)
    /\ UNCHANGED <<dbVars, stateVars, collectVars>>

BeginCollect(t) ==
    /\ Waiting(t) /\ (t = Loop \/ snapshot = NoSnapshot)
    /\ pc' = [pc EXCEPT ![t] = "checkpoints"]
    /\ elapsed' = 0
    /\ UNCHANGED <<dbVars, stateVars, timer, read, queue>>

-----------------------------------------------------------------------------
(* A collection.                                                           *)

\* collect_db_metrics_snapshot: the checkpoints first.
ReadCheckpoints(t) ==
    /\ pc[t] = "checkpoints"
    /\ read' = indexed /\ torn' = FALSE
    /\ pc' = [pc EXCEPT ![t] = "counts"]
    /\ UNCHANGED <<indexed, stateVars, timer, elapsed, queue>>

\* The guard goes out of scope: the next one gets the lock.  A scrape goes on
\* to render what there is, the loop to sleep.
EndRefresh(t) ==
    /\ queue' = Tail(queue)
    /\ pc' = [pc EXCEPT ![t] = IF t = Loop THEN "idle" ELSE "render"]
    /\ timer' = IF t = Loop THEN Delay ELSE timer
    /\ elapsed' = 0 /\ read' = 0

\* The answers to the two SELECTs.  Mutant: in the other order.
DbSnapshotSwapped(first, second) == [checkpoint |-> second, count |-> first, torn |-> torn]
DbSnapshot(first, second) == [checkpoint |-> first, count |-> second, torn |-> torn]

\* The row counts, and with them the snapshot.
ReadCounts(t) ==
    /\ pc[t] = "counts"
    /\ snapshot' = DbSnapshot(read, indexed)
    /\ age' = 0 /\ success' = TRUE
    /\ dataAge' = elapsed
    /\ torn' = FALSE
    /\ EndRefresh(t)
    /\ UNCHANGED indexed

\* Mutant: last_success_at is set whatever the result.
RecordFailureAsSuccess(t) ==
    /\ success' = FALSE /\ torn' = FALSE /\ age' = 0
    /\ EndRefresh(t)
    /\ UNCHANGED <<indexed, snapshot, dataAge>>
\* record_refresh_failure: the last snapshot stays.
RecordFailure(t) ==
    /\ success' = FALSE /\ torn' = FALSE
    /\ EndRefresh(t)
    /\ UNCHANGED <<indexed, snapshot, age, dataAge>>

CollectFails(t) == pc[t] \in Collecting /\ RecordFailure(t)

\* Mutant: no timeout.
TimesOutNever(t) == FALSE
\* time::timeout drops the collection whatever it waits for.
TimesOut(t) == pc[t] \in Collecting /\ elapsed = Timeout /\ RecordFailure(t)

-----------------------------------------------------------------------------
(* The answer.                                                             *)

\* snapshot(), and the answer made of it: 503 without a snapshot.
Render(s) ==
    /\ pc[s] = "render"
    /\ pc' = [pc EXCEPT ![s] = "idle"]
    /\ UNCHANGED <<dbVars, stateVars, collectVars, queue>>

\* The client hangs up and the handler's future is dropped where it waits,
\* with its place in the queue or the lock it holds.
HangUp(s) ==
    /\ pc[s] # "idle"
    /\ pc' = [pc EXCEPT ![s] = "idle"]
    /\ IF pc[s] = "render" THEN UNCHANGED queue
       ELSE \E i \in 1..Len(queue) :
                /\ queue[i] = s
                /\ queue' = SubSeq(queue, 1, i - 1) \o SubSeq(queue, i + 1, Len(queue))
    /\ IF pc[s] \in Collecting
       THEN elapsed' = 0 /\ read' = 0 /\ torn' = FALSE
       ELSE UNCHANGED <<elapsed, read, torn>>
    /\ UNCHANGED <<indexed, stateVars, timer>>

Stale == snapshot # NoSnapshot => age > StaleAfter

-----------------------------------------------------------------------------
\* Mutant: time goes on while a collection is past its timeout.
OverdueTasks ==
    \/ pc[Loop] = "idle" /\ timer = 0
    \/ \E t \in Task : Waiting(t)
Overdue ==
    \/ pc[Loop] = "idle" /\ timer = 0
    \/ \E t \in Task : Waiting(t)
    \/ elapsed = Timeout /\ \E t \in Task : pc[t] \in Collecting

Tick ==
    /\ ~Overdue
    /\ timer' = IF timer > 0 THEN timer - 1 ELSE 0
    /\ elapsed' = IF \E t \in Task : pc[t] \in Collecting THEN elapsed + 1 ELSE 0
    /\ age' = IF snapshot # NoSnapshot /\ age <= StaleAfter THEN age + 1 ELSE age
    /\ dataAge' = IF snapshot # NoSnapshot /\ dataAge < Oldest THEN dataAge + 1 ELSE dataAge
    /\ UNCHANGED <<dbVars, snapshot, success, read, queue, pc>>

Refresh(t) ==
    \/ BeginCollect(t) \/ SkipRefresh(t)
    \/ ReadCheckpoints(t) \/ ReadCounts(t) \/ CollectFails(t) \/ TimesOut(t)

Next ==
    \/ IndexRange \/ RollBack \/ Tick \/ LoopWakes
    \/ \E t \in Task : Refresh(t)
    \/ \E s \in Scrape : ScrapeStarts(s) \/ Render(s) \/ HangUp(s)

Spec == Init /\ [][Next]_vars

\* Time passes, however many requests come and go, and the runtime polls what is
\* ready.  Nothing is assumed of the database: a SELECT may stay without an
\* answer for ever.
FairSpec ==
    /\ Spec
    /\ SF_vars(Tick) /\ WF_vars(LoopWakes)
    /\ WF_vars(\E t \in Task : BeginCollect(t) \/ SkipRefresh(t))
    /\ WF_vars(\E t \in Task : TimesOut(t))
    /\ \A s \in Scrape : WF_vars(Render(s))

-----------------------------------------------------------------------------
(* Properties                                                              *)

\* The lock keeps collections apart: no two tasks collect at once, however many
\* scrapes arrive before the first snapshot (ops.rs:158).  (The database may still
\* be at work on the query of one that timed out or was dropped.)
OneCollection ==
    \A t, u \in Task : pc[t] \in Collecting /\ pc[u] \in Collecting => t = u

\* A snapshot shows at least the rows of the blocks below the checkpoint it
\* shows, unless a rollback came between its two SELECTs: the counts are read
\* after the checkpoints, and rows are committed with their checkpoint.
SnapshotCoversCheckpoint ==
    snapshot # NoSnapshot /\ ~snapshot.torn => snapshot.count >= snapshot.checkpoint

\* A snapshot that is not called stale was collected recently.  Its age counts
\* from the end of the collection, so that the data may be older than the
\* threshold by what a collection takes, and by no more than its timeout.
FreshMeansRecent == ~Stale => dataAge <= StaleAfter + Timeout

\* A stale snapshot means that refreshes fail, and not that the cache is slow
\* to ask, as long as the timeout is within twice the delay (the defaults, 10
\* and 5 seconds, are just that).
StaleOnlyAfterFailure ==
    Timeout <= 2 * Delay /\ snapshot # NoSnapshot /\ Stale => ~success

\* Every scrape is answered though the database may never answer: whoever
\* holds the lock gives it up within the timeout.
ScrapesAnswered == \A s \in Scrape : pc[s] = "queued" ~> pc[s] = "idle"

\* The loop never stops: failures, timeouts and scrapes that hold the lock
\* delay it, and it tries again.
LoopKeepsTrying == []<>(pc[Loop] = "checkpoints")
=============================================================================
