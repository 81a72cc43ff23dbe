# A verification of the ORMP indexer

This directory holds TLA+ models of the ORMP indexer, the TLC configurations
that check them on small instances, and TLAPS proofs of the results that should
hold for every configuration. File names in the comments of the modules are
relative to the repository (`src/runner.rs:595`); in `PROJECT.json` they carry
the name of the checkout in front (`src/src/runner.rs`).

## 1. The system

The indexer copies ORMP events of several EVM chains from a REST service
(Datalens) into Postgres, where a GraphQL server reads them. One process runs
one loop per chain; each loop polls, and each poll is a *pass*
(`run_chain_once`) of requests and database transactions, one after another.

| Component | State | Operations |
| --- | --- | --- |
| Chain source: Datalens and the chain behind it (external) | blocks, branch, finalized/safe/latest heads | grows, settles, reorgs; answers `GET /v1/heads`, `POST /v1/query` |
| Chain runner (`runner.rs`) | locals of a pass | read checkpoint, reorg check, rollback, plan range, query, read headers, write, end or fail |
| Checkpoint and anchor store (`checkpoint.rs`, `database.rs`) | `next_block`, `block_number -> hash` | read-or-create, read anchors, upsert with the rows, roll back |
| Event writer and tables (`database.rs`, `schema/`) | seven event tables | upsert a row, backfill assignments in both directions, delete and recompute on rollback |
| Datalens client (`datalens/`) | pacer; attempts, cursor, best page of a call | pace, send, follow pages, retry, give up |
| Query planner, configuration (`planner.rs`, `config.rs`) | none | defaults, validation, splitting of ranges |
| Decoder (`decoder/`) | none | log to event, a pure function |
| Operations endpoints (`ops.rs`, `graphql/router.rs`) | cached snapshot, its age, a lock | refresh in a loop and on demand under a timeout, render |
| Metrics (`metrics.rs`) | one row of gauges and counters a chain | set by the runner as it goes, read by a scrape |
| Tron recovery (`tron_recovery/`) | its own checkpoint, an advisory lock | one-shot scan of a range |
| GraphQL (`graphql/`), entry points (`main.rs`, `runtime.rs`) | none | read-only queries; wiring |

**How they interact.** A runner owns nothing between two awaits except its
locals. It meets the others through the database (its own chain's checkpoint
and anchors; the event tables, which *all* chains share), through the client
(one request pacer for all loops), and through answers that are stale as soon
as they arrive. Nothing in the code excludes a second process: a rolling update
has two for a while, and `ON CONFLICT DO UPDATE` on the checkpoint lets the late
one win.

**What makes it hard.**

- Head, logs and headers of one range are three requests; the chain moves
  between any two of them.
- The `finalized` and `durable` modes trust a head never to be reorged; `safe`
  and `latest` compare stored block hashes (*anchors*) with the chain and roll
  back from the first difference.
- Every await can fail; so can the process. The next pass has the database only.
- Datalens may serve part of a range, page by page, and fail half way.
- Events of one message are indexed in any order and rolled back; the columns of
  an accepted message are filled in from another table.
- All chains' loops share one task; one chain's calls may fail or hang for ever.
- A scrape reads what a loop wrote some time ago: the gauges of a pass that has
  moved on, a database snapshot of two SELECTs between which the indexer writes.
- Recovery writes over what another indexer left, under a lock that can be lost
  while it runs, next to the indexer it shares the tables with.

**What makes each part correct.** *Runner and store*: no block below the
checkpoint is missing; no row of an abandoned block stays; nothing is rolled back
for nothing; every block gets indexed in the end. *Tables*: after any sequence of
writes and rollbacks they are what indexing the remaining blocks once would have
made. *Client*: what it says was served was served, a retry loses nothing, the
request interval holds for all loops together, a call ends. *Loops and
metrics*: no chain keeps another from going on, a failing one is asked less and
less often, and gauges and counters do not hide blocks. *Metrics cache*: one
collection at a time, ages that can be believed, an answer for every scrape.
*Recovery*: nothing
skipped, nothing twice and nothing overwritten, also when invocations overlap.
`PROJECT.json` lists the
hazards behind these, each at its line, with the properties that would catch it.

## 2. The modules

| Module | Models |
| --- | --- |
| `ChainSource` | the chain and Datalens' view of it: environment of `ChainRunner` |
| `ChainRunner` | one chain's loop, checkpoint, anchors and indexed blocks, any number of processes |
| `IndexedPrefix` | the abstract specification: what a reader is promised in a settled mode |
| `LegacyStore` | the event tables of all chains, row by row |
| `DatalensClient` | attempts, pages and the shared pacer |
| `RunLoop` | the loops of all chains in a process: failures, backoff, gauges and counters |
| `MetricsCache` | the cache behind `GET /metrics`: refresh loop, scrapes, lock, timeout |
| `TronRecovery` | invocations of the `tron-recovery` command over the tables of the retired indexer |
| `MCChainRunner`, `MCLegacyStore`, `MCDatalensClient`, `MCTronRecovery`, `MCRunLoop`, `MCMetricsCache` | constants for TLC |
| `ChainRunnerProofs`, `DatalensClientProofs`, `TronRecoveryProofs`, `RunLoopProofs`, `MetricsCacheProofs`, `LegacyStoreProofs` | theorems and proofs |
| `SingleRunnerProofs` | those about `ChainRunner` with a single process |
| `SetInduction` | lemmas: induction over numbers and sets, functions defined by recursion, folds |

### ChainRunner

`chain`, `finalized`, `safe`, `latest` (from `ChainSource`) are the world;
`checkpoint`, `anchors` and `rows` are what the database holds for the chain;
`pass[r]` holds the locals of `run_chain_once` in process `r` and the await it is
at. Each await is one action, in the order of the code:

```
ReadOrCreate -> ReorgHeads -> ReorgAnchors -> ReorgCheckCompares -> RollbackReorged
             \                             \-> ReorgCheckWaits                 |
              \------------------------------> LatestBlock <------------------/
LatestBlock -> QueryLogs -> (AnchorHeads -> AnchorBlocks) -> WriteRange -> QueryLogs ...
```

Early returns are actions of their own (`QueryLogsServesNothing`,
`AnchorBlocksWait`, `ReorgCheckWaits`). An answer of the reorg check that covers its
range may lack headers: the code takes such a block for changed
(`runner.rs:540-542`), and so does `Differs`. `Abort` is an error at any await, a
panic, or a restart: the pass is gone and an open transaction rolls back. A
write and a rollback are each one transaction and one step.

A block is a height and a fork number; the fork number is its hash, so a reorg
is a switch to a number not used before, and `rows` is the set of blocks whose
events are in the tables. `pass[r].verified` is a history variable: from where on
this pass's reorg check has compared anchors; `pass[r].absent` says that a rollback
under way is for want of a header.

### IndexedPrefix

A settled chain that only grows, a position, and a set of events. One step
indexes a contiguous range that starts where everything below is there already.
The refinement mapping takes the chain up to the head the mode settles on
(`finalized`, or `safe` where safe blocks stay), the checkpoint and the rows.

### LegacyStore

Each event table is a set of rows with the primary key of the migration, all
chains in one table. `WriteBlock` is the write transaction for a range of one
block: the events in log order, then anchor and checkpoint. `Rollback` is
`rollback_legacy_from`: it looks up the assignments about to go, deletes
signatures through the anchors, deletes by chain id, clears and recomputes the
accepted rows. An assigned row stands for the oracle and relayer it carries, so
the assignment columns of an accepted row hold the id of the row they were
copied from. `indexed` is a history variable, the blocks that were indexed and
not rolled back: the properties compare the tables with it. Here blocks are
written and rolled back at any time; *when* they are is `ChainRunner`'s subject.
All seven tables are there; `imported` has a row per root, so each root is
imported once (a second import is a listed hazard).

### DatalensClient

`call[c]` holds the locals of `post_query` and `query_pages` for the loop `c`;
`pacer` is `last_request_at` as the ticks since then. A request goes out in the
step that takes the slot (the code has no await between the two). Each response
is chosen by the server: an error that can or cannot be retried, a page with a
cursor, a last page with any served range and reason, a cursor it gave before.
Cursors are opaque and their number is not limited: a page may be empty, repeat rows
or go back, as long as a cursor skips no row. `mark` only tells a new cursor from the
one before it. `quiet` and `got` are history variables.

### RunLoop

`pc[c]`, `pass[c]`, `failures[c]` and `sleep[c]` are the locals of
`run_chain_loop` and `run_chain_once` for the chain `c`, `row[c]` the fields of
its `RuntimeMetricsRow` that speak of the database. A pass is coarser than
`ChainRunner`'s: `FetchRange` takes the log request, the decoding and the header
request at once, and a block is a number. What is finer is what the metrics see:
`Commit` (the database) and `RecordRange` (the reply) are two steps, and
`CallFails` between them is a reply that was lost. `Restart` keeps the database
and nothing else. `forward`, `missed` and `drift` (what rollbacks and rises of the
target have added since the gauge was set) are history variables.

### MetricsCache

`pc[t]` is where the refresh loop or a scrape is, `queue` the tokio mutex, the
holder first. A collection is two steps, `ReadCheckpoints` and `ReadCounts`,
between which the indexer goes on; `CollectFails` and `TimesOut` are the two
other ends of it. `HangUp` is a client that closes its connection: the future of
its handler is dropped where it waits, and with it its place in the queue or the
lock. Time is a `Tick`, which waits for tasks that are due (`Overdue`), so
`Timeout` and `Delay` are exact. `torn` and `dataAge` are history variables.

### TronRecovery

`run[i]` holds the locals of `execute` and `recover` for the invocation `i`, one
action for each await: `Lock`, `CheckPreceding`, `NextBlock`, then for each range
`FetchLogs` or `ShrinkRange`, `Prepare` once for each event (the comparison with
what is stored, and the choice of the id), and `Commit`, the transaction.
`Prepare` reads and `Commit` writes, so another invocation may write in between:
that is possible after `LoseSession`, because the lock lives in one connection
and the writes go through others. `Fail` is an error, or the end of the process,
at any of these.

Tron blocks are read once they are confirmed, so the logs of the chain are a
constant. A row is its table, its id, its message and whether its columns say
what the chain says; `kept` chooses what the retired indexer left of a message:
nothing, rows of its own ids with the right content, a message that contradicts the
chain, an assignment that differs from the chain's (which the SELECT of
`storage.rs:113-118` does not find), or an assignment twice. `Written` is the upsert of `database.rs`; the assignment
columns are `LegacyStore`'s subject. `imported` is the table `ormp_hash_imported`
as the indexer of chain 46 fills it.

## 3. What is checked

| Run | Question | Result |
| --- | --- | --- |
| `finalized_two` | Two processes in finalized mode, failures, partial serves, reorgs above the finalized head: are the tables a growing prefix of the finalized chain? | `ImplementsPrefix`, `SettledRowsCanonical`, `BelowCheckpointComplete` hold |
| `latest` | One process in latest mode, reorgs between any two awaits, header answers that lack blocks: do checkpoint, rows and anchors stay in step? | `TypeOK`, `RowsBelowCheckpoint`, `OneForkPerHeight`, `AnchorsCoverUnfinalized`, `RollbackIsJustified` hold |
| `latest_two` | Two processes in latest mode that roll back and write across each other: does every anchor stand for indexed events? | `AnchorsBackedByRows` holds |
| `safe_live` | Safe mode, reorgs between passes only: does a completed check leave no abandoned row in its range, and, under fairness, is every block indexed and every abandoned row removed in the end, unless finality or the window gets there first? | `RowsMatchAnchors`, `CheckedRowsCanonical`, `CatchesUp`, `StaleRowsRemoved` hold |
| `latest_race` | Are abandoned rows removed, with reorgs between any two awaits? | violated: finding 1 |
| `store` | Two chains' events in one set of tables, indexed, written again late, rolled back, in every order | `TypeOK`, `RowsMatchIndexed`, `AcceptedMatchIndexed`, `SignaturesMatchIndexed` hold |
| `store_signatures_two` | ... with signatures that name one of the indexed chains | violated: finding 2 |
| `client` | Two loops through one client, any number of pages: are answers complete and kept, requests spaced, and what can keep a call from ending? | `LogsMatchServed`, `RetriesNeverLose`, `RequestsSpaced`, `CallsEnd` hold |
| `run_loop` | Two chains' loops through failures, lost replies, rollbacks, empty answers, restarts: do gauge and counter account for every block, does a failing loop back off, does a hanging one stop the other? | `TypeOK`, `RemainingAccounted`, `BlocksCounted`, `BackoffGrows`, `ChainsIndependent` hold |
| `metrics_cache` | The refresh loop and two scrapes, a database that answers late or never, clients that hang up | `TypeOK`, `OneCollection`, `SnapshotCoversCheckpoint`, `FreshMeansRecent`, `StaleOnlyAfterFailure`, `ScrapesAnswered`, `LoopKeepsTrying` hold |
| `recovery` | Two invocations, lost sessions, failures, shrinking ranges, rows of a retired indexer | `TypeOK`, `RecoveredBelowCheckpoint`, `AssignmentsNotDuplicated`, `OnlyConfirmed`, `MessagesKept`, `ProgressKept`, `CatchesUp` hold |
| `recovery_sent` | Is an event of any kind stored once? | violated: finding 3 |

**Bounds.** A chain of height 4 or 5 (3 under fairness, 2 where a counterexample is
wanted) with batches of 2 gives passes of two full batches, a partial one, a
batch that ends before, at and after each head, and a checkpoint that is below,
inside and above the check window. Three forks (`latest`) are two reorgs: one that
lands inside the rollback or the rewrite of the other. `ReorgWindow = 2` is less than the
chain, so that now the window and now the finalized head is the lower end of the
check; without its exception for blocks below the window `StaleRowsRemoved` fails.
`latest_two` has two forks and a chain of height 2: one process can be anywhere in its
pass while the other rolls back or writes. `StartBlock` is 0 and 1 because of
`checkpoint.next_block > 0` and `checkpoint - 1`; the head buffer is 1 in
`finalized_two`. Blocks without events occur in `finalized_two`; elsewhere every
block has some, so that no mistake can hide in an empty one. Every reorg switches
to a new branch: a chain that returns to a branch it left is not modelled.

`LegacyStore`: two chains with two blocks of at most two events each let a message
be accepted before, after and between two assignments that count differently, be
imported and dispatched on the other chain, with a rollback at each point; in
`store` a signature names a chain that is not indexed, so that finding 2 does not
stand in the way of the rest, and in `store_signatures_two` one that is. A block
written again after a rollback has the same hash: another hash would only give
rows another id, and the rows of the first are gone by then.

`DatalensClient`: two attempts are what `best` needs to go wrong, an interval of two
ticks a sleeper that wakes while another has the slot. One block is served or not, on
any page and with the last page saying otherwise; longer ranges are left to the
theorems, since with two blocks the run under fairness takes too long (the safety
properties were checked with two). The number of pages has no bound.

`RunLoop`: heads up to 2 and a batch of 2 give a full range, a rest and a chain that
is caught up; two blocks that may be committed after a start let one rollback happen
and be made good. The second chain stays at block 0: it is there to fail, and to
hang. A poll interval of 2 and a cap of 3 (units of 20 s) make the second failure
reach the cap.

`MetricsCache`: the default timeout of twice the delay, so that staleness is as close
to failure as it gets; two scrapes and the loop fill every place of the queue while
one collects.

`TronRecovery`: two blocks and a batch of two give a full range, a shrunk one and a
rest; the first block holds all three events of a message, its assignment before
its acceptance, the second an event that is only
found if nothing is skipped. Two invocations are enough for one to write between
another's look and its commit; each can be started by the CronJob or by hand with
`--to-block`, from block 0 or 1. A session may be lost as often as one is held.

**Fairness.** In `ChainRunner` the loop never stops polling
(`run_chain_loop` has no exit; its sleeps are finite) and every call that is
made again and again succeeds in the end: weak fairness of `ReadOrCreate`
(enabled until it happens) and of the chain's growth, strong fairness of each
further call, because `Abort` keeps disabling them. That Datalens and Postgres do
not fail one kind of call for ever is an assumption about them; without it
nothing gets indexed. The heads are *not* assumed to advance: `CatchesUp` is
about blocks the finalized head has passed. In `DatalensClient` only weak
fairness is assumed: sleeps end, and each request is answered or hits reqwest's
timeout. In `RunLoop` it is assumed
of the chains in `Steady` alone that their calls return, with whatever result; the
other chains may hang. In `MetricsCache` time passes (strong fairness of `Tick`,
because scrapes that come and go keep it waiting) and the runtime polls what is
ready; of the database nothing is assumed, the timeout does it. In `TronRecovery`
too, weak fairness: the CronJob starts the command again, each call
returns, the server closes dead sessions, and the provider answers for single
blocks but may refuse all larger ranges for ever. `CatchesUp` has three premises
that are not fairness: calls stop failing in the end, nobody runs the command by
hand with a low `--to-block` for ever (such a run can hold the lock each time the
CronJob tries), and the root of an unrecovered message is not imported for good
(observation 1). Nothing limits the pages of an answer, and which of two woken loops
gets the pacer's lock first is left open: `CallsEnd` says that a call ends unless the
server hands it new cursors for ever, or it waits for a slot for good while another
loop goes on sending. Errors, retries, incomplete answers and repeated cursors are no
reasons.

## 4. What is proved

Assumptions: `SourceAssumption`, `RunnerAssumption`, `ClientAssumption` (what the
configuration's validation lets through), `LoopAssumption`, `CacheAssumption`,
`RecoveryAssumption`, `StoreAssumption` (a message is sent on one chain and delivered
on one), and the premises stated with a theorem: `SettledMode`, `SingleRunner`,
`~ReorgsAnytime`, `NoOtherNamed`. No bound of the runs appears in them. Every safety
and action property that a passing run checks is also a theorem; where a theorem
has a premise, it is one that the run's configuration meets.

`ChainRunnerProofs`:

- `TypeCorrect`: the state is well typed in every mode, with any number of
  processes.
- `SettledInvariant`, `SettledRows`, `SettledComplete`: in a settled mode no row
  is of a block that can still change, and no block below the checkpoint is
  missing. Neither is inductive: a pass carries a position and logs across awaits
  while other processes move the checkpoint under it. `SettledInv` adds what
  stays true of them: everything below the position of *any* pass in flight is
  indexed, and its logs are the settled chain's between its position and its end.
  Both are about settled blocks, which no reorg reaches (`SettledStable`) and no
  process removes (a settled mode never rolls back).
- `Refinement`: in a settled mode `ChainRunner` implements `IndexedPrefix`. A step
  of the world is `Settle` or a stutter, `WriteRange` is `IndexRange` by
  `SettledInv`, all other steps stutter.
- `Backed`: in *every* mode, with any number of processes, an anchor stands for a
  block whose events are in the tables. `BackedInv` adds that a pass only ever
  carries anchors of blocks whose logs it carries too; a rollback takes both.

`SingleRunnerProofs`, for a deployment with one process (`SingleRunner`): it alone
writes, so while a pass runs, the database is what the pass has seen and done.
`SingleInv` says so: between a pass's read of the checkpoint and its end, its
position is the stored checkpoint, and the logs in its hands are one block for each
height of its range. Anchors are below the checkpoint, and a fork number, once left,
is not used again.

- `CheckpointAboveRows`, `OneFork`, `NoHeightSkipped`: in every mode, with reorgs
  between any two awaits. Rows above the checkpoint would survive as a second block
  of their height when the range is written again.
- `UnfinalizedAnchored`: by `CoverInv`. The lower end of the anchors is chosen with a
  finalized head that has moved when they are written; it only moves up, so what is
  unfinalized at the write was unfinalized at the choice.
- `RollbacksJustified`: an action property. By `CoverInv` a missing anchor is never
  the reason for a rollback; a missing header may be (`pass[r].absent`), and a hash that differed from the chain's when the check
  compared it still does when the rollback runs, because fork numbers are not reused.
- `AnchorsVouch`: by `MatchInv`. Logs and headers are two requests, so outside of the
  settled modes it needs `~ReorgsAnytime`; finding 1 is its counterexample.
- `CheckedRows`: by `CheckedInv`, under the same premise. What the check has compared
  is canonical until the pass ends, and what the pass adds is too.

`LegacyStoreProofs`, for any chains, messages, events of a block, and heights. The
reference is `AllOf(indexed)`, the events indexed now, each with its place.
`StoreInv` says that the database *matches* them (`Matches`), table by table.

- A write is a fold over the events of the block. `WriteRows` and `WriteAcceptedRows`
  say that writing one event `x` takes a database that matches `X` to one that
  matches `X` and `x`; `WriteEventsMatch` is the induction. An assignment may only be
  written if it is the last of its message (`Newest`): of a new block this follows
  from its height, of a block written again from `AssignedOnce`.
- A backfill is a fold of UPDATEs in the order of the assignments. `Backfilled`: it
  leaves in each column the last assignment that counts for it, or what was there
  (`Filled`). The order is total on the assignments of one chain only
  (`EarlierTotal`), and a message's assignments are all on its chain.
- A rollback clears and recomputes the rows of the messages that lose an assignment.
  `RecomputeFills`: the others are right already, because no assignment of theirs
  goes.
- `TypeCorrect`, `TablesAreIndexed`, `AcceptedAreFilled` follow. So does
  `SignaturesAreIndexed`, from the anchors: they are those of the indexed blocks, and
  a rollback finds its signatures by their hashes. Its second DELETE goes by the
  chain in the payload, hence `NoOtherNamed`: if a payload names an indexed chain,
  that is the only one. Finding 2 is what happens otherwise.

`DatalensClientProofs`: `AnswersComplete`, `RetriesKeepBest` and `Spaced` state the
three safety properties of the client for any number of callers, pages and
attempts. `ClientInv` adds what a call knows half way: the pages read so far hold
every block below the cursor, and the best page is served as far as anything got.

`TronRecoveryProofs`, under `RecoveryAssumption`, which leaves the chain, the batch
size, the number of invocations and what the retired indexer left open:

- `AssignmentsUnique`, `MessagesStay`: by `RowsInv`, which says which row each
  event has, the retired one or the one that `RowFor` chooses. What an invocation
  holds between `Prepare` and `Commit` is always that row, whenever it looked. So
  the write of an overlapping invocation is the same write, and an upsert of
  messages and assignments never changes a row (`Stays`).
- `RecoveredComplete`: by `CompleteInv`. An invocation has everything before its
  cursor in the tables and everything in its range in its hands. The checkpoint may
  go back when invocations overlap, so this cannot be said of the checkpoint
  alone. A commit may replace the sent row of another message, whose retired id it
  happens to compute, but only within the blocks of its range, and it writes all
  messages of those (`RecoveredStays`).
- `ProgressForward`: by `LockInv`, until a session is lost only the holder of the
  lock works, and its cursor is the checkpoint.
- `AssignmentsUnique` compares rows of the same content: a retired assignment that
  differs from the chain's keeps apart from the recovered one (`DifferingApart`).
- `TypeCorrect`: with `RangesWithin`, that every range ends within what was asked for.
- `ConfirmedOnly`: every row the command has added is of a block confirmed by now. A
  range never reaches above the head that its invocation read, and
  that head was confirmed.

`RunLoopProofs`, for any set of chains, batch size and bounds. The invariant `Good`
is about one chain at a time, and `Frame` says that what happens to one leaves the
others' alone: `GaugeInv` ties the gauge to the range in flight between the commit
and its reply, `CountInv` the counter to `forward`.

- `GaugeNotUnderstated`: at any time after the gauge is first set, so also after
  passes that fail half way, are served nothing, wait for headers or lose a reply. What
  is missing is at most the gauge and `drift`. It needs `RangeInv`: until the commit the pass's position is the checkpoint, after it
  the end of the range, since only this pass moves it.
- `CounterExact`: what is committed but not yet recorded is just the range in flight.
- `BackoffMonotone`: an action property. The sleep of a loop is a function of its
  failures (`SleepInv`), and a doubled wait under a cap is monotone in them. The power
  of two is a recursive function: `RecursionExists` says that it has a value
  everywhere, `IntervalInduction` that it grows.
- `TypeCorrect`: by `Bounded`, no range and no checkpoint leaves the chain.

`MetricsCacheProofs`, for any number of scrapes, any delay and timeout:

- `OneAtATime`, `TypeCorrect`: by `LockInv`. A task is in the queue once, and just
  while it waits or collects; the one that collects comes first. Clients that hang up
  take their place out of the middle (`RemoveFacts`).
- `SnapshotsCover`: by `CoverInv`. What a collection has read stays covered by the
  rows until a rollback is noted.
- `FreshIsRecent`, `StaleMeansFailure`: by `AgeInv`. The age and the data's age differ
  by what the collection took; once there is a snapshot no scrape collects, so
  nothing delays the loop: while refreshes work, the age is at most a delay and the
  time of the collection under way.

`SetInduction` has what these proofs need of induction. The library's induction
theorems take the formula as a parameter, which the provers cannot instantiate; here
the formula is a *set* (of numbers, or of subsets of a finite set) that holds the
first and with each the next. From that follow the existence of functions defined by
recursion and of folds (`RecursionExists`, `FoldExists`), and induction over a fold
(`FoldInduction`).

**Only model-checked**: everything under fairness (`CatchesUp`, `StaleRowsRemoved`,
`CallsEnd`, `ChainsIndependent`, `ScrapesAnswered`, `LoopKeepsTrying`), since liveness
and `ENABLED` are beyond TLAPS here. **Not proved because it is false**: the
results of `SingleRunnerProofs` for two processes in the latest mode (with a second
element in `Runner`, TLC finds each of `RowsBelowCheckpoint`, `OneForkPerHeight`,
`NoHeightSkipped`, `AnchorsCoverUnfinalized`, `RollbackIsJustified` and
`RowsMatchAnchors` violated: a process that commits late puts back what the other has
rolled back, or a checkpoint that it has passed), and `AnchorsVouch` and `CheckedRows`
with reorgs inside a pass (finding 1).

## 5. Findings

1. **A reorg between two requests of one range** (`latest_race`,
   `runner.rs:595`). Logs are read first, the headers that become anchors in a
   later request. If the chain switches branch in between, old events are stored
   under new hashes, and no later check can see it. Each log carries its block
   hash, which is never compared with the header's.
2. **A rollback reaches into another chain** (`store_signatures_two`,
   `database.rs:179`). Signature rows carry the chain named in their payload.
   Rolling that chain back deletes rows indexed on another chain, whose
   checkpoint does not move: they are not indexed again.
3. **A recovered sent event is stored twice** (`recovery_sent`,
   `tron_recovery/storage.rs:101`). The id of a `msgport_message_sent` row contains
   the log index, which the retired indexer may have counted within a transaction. Replayed
   messages and assignments are matched with what it left, sent events are not:
   they get a second row with the same `msg_id`.

Observations, not findings: the code does what it says, with an effect that is
worth knowing.

1. Every invocation stops while the latest imported root lacks its source message
   (`tron_recovery/storage.rs:63`). An oracle that imports the root of a recent
   message before a CronJob run has recovered it stops all further runs.
2. The advisory lock guards the start, not the writes: an invocation that has lost
   its session writes on next to its successor. The theorems above say why that
   does no harm to the rows; the checkpoint can go back, and work is repeated.
3. An incomplete header answer makes the reorg check return what it returns for
   "nothing reorged" (`runner.rs:528`), although it logs that it is waiting: the
   pass writes the next range above blocks the chain may have abandoned. The next
   complete check rolls both back, unless it comes too late (observation 4).
4. The check starts above the finalized head of the moment and within the window of
   the checkpoint (`runner.rs:478-482`). A block indexed while unfinalized that is
   replaced and finalized before the next complete check, or that the checkpoint has
   left behind by more than the window, is never compared again and its rows stay.
   These are the exceptions of `StaleRowsRemoved`; without either TLC finds the case.
5. A header that an answer lacks although it covers the range counts as a reorg
   (`runner.rs:540-542`): the block and all above it are rolled back and indexed again,
   although nothing has changed. In `block_anchors_for_range` the same answer is an
   error (`runner.rs:676-684`), so a server that goes on leaving the block out has it
   rolled back once and then keeps the chain below it until it is finalized.
6. The remaining-blocks gauge (`ops.rs:496`, "Current remaining blocks") is what was
   left when a range last committed or a pass found nothing to do. A pass that is
   served nothing, or whose anchors wait, counts as a good one and leaves it as it was,
   next to a target it has just set and possibly after a rollback (`runner.rs:325-342`,
   `396-403`): a chain that was caught up goes on showing 0. `RemainingAccounted` says
   how far off it can be.
7. The backoff is capped at 60 s and the poll interval is not: with an interval above
   it a failing chain is asked *more* often than a good one (`runner.rs:777`).
8. A head that goes back and forth counts as advanced each time it goes up
   (`metrics.rs:105` compares with the last head, not with the highest).
9. `run --once` returns at the first chain's error and drops the others' passes. No
   data is harmed (it is `Abort`), but a process run that way again and again beside
   a chain that always fails early may never index the slower ones.
10. GraphQL pages by offset: between two pages the indexer may insert before the
   offset or roll back, and the reader sees a row twice or not at all. An order chosen
   by the caller has no tie-breaker. `totalCount` is a SELECT of its own, so a reader
   that stops at it may stop early (`graphql/query.rs`, `graphql/pagination.rs`).
11. A query has no limit on its pages: as long as each cursor is new, `query_pages`
   follows (`client.rs:113-131`), and the chain's loop stands still meanwhile.
12. An assignment of the retired indexer that differs from the chain's in any column is
   not found by `storage.rs:113-118`: the recovered row is stored beside it.

## 6. Abstractions

- `ChainRunner` takes the answer to a query as one snapshot. `DatalensClient`
  shows what pages and attempts make of it when the served range moves; a reorg
  between two *pages* mixes branches just as finding 1 does between two requests.
- A header answer for the anchors of a range has a header for each block of it; one
  that does not is an error (`runner.rs:676-684`), hence `Abort`. In the reorg check
  the answer may lack headers, and is modelled so.
- `served_start` is the start of the request; anything else is an error, `Abort`.
- Each message has at most one assignment in a block, and a late writer meets
  none that was repeated (`AssignedOnce`): the contract assigns a message once,
  when it accepts it. Repeated assignments in different blocks are modelled,
  since the code is written for them.
- Blocks of two chains do not share the hash prefix that event ids are made of.
- Log positions within a block are ordered as their ids.
- `RunLoop`: durations are in units of which the cap is a multiple; the loops share one
  task, so their steps interleave at awaits only. A hanging call is one that takes no
  step. Requests and records are not counted.
- `MetricsCache`: a block stands for one row, so a count can be compared with a
  checkpoint. The state's read-write lock is never held across an await, so reading
  or writing the state is part of the step next to it. Ticks are as long as the
  smallest duration the properties tell apart.
- Addresses, fees, payloads, decoding, wording of errors and retry delays are
  left out. No property depends on them.
- `TronRecovery`: the comparison with a stored message and the lookup of its
  metadata are one step (nothing changes or removes a stored message,
  `MessagesStay`). A provider answers for a range in full or with an error; the
  errors of decoding and of the metadata checks are `Fail`.

Not modelled, and why:

- The decoder: a pure function of one log, field by field; its unit tests suit it
  better.
- The GraphQL server: reads only, no state of its own. What its pages promise is
  nowhere said (observation 10).
- `plan_evm_log_queries` and `plan_split_query` of `planner.rs`: no caller outside of
  the tests. The runner plans with `plan_next_range`, which is modelled.
- `/status`, `/readyz`, the Prometheus text, the counters of requests and records and
  the timestamps: copied out, related to nothing.
- Entry points and migrations: wiring, DDL. The primary keys are in `LegacyStore`.
- The in-memory checkpoint store and the dry-run writer: tests and previews.

## 7. Plan

Done, in this order: `ChainSource`, `ChainRunner`, `IndexedPrefix`, their proofs,
`LegacyStore`, `DatalensClient` and its proofs, `TronRecovery` and its proofs,
`RunLoop`, `MetricsCache` and their proofs, `SingleRunnerProofs`, `SetInduction`,
`LegacyStoreProofs`. Left, most important first:

1. An abstract specification of `LegacyStore`, "the tables are a function of the
   blocks indexed", with the refinement that `StoreInvariant` nearly is.
2. Restarts with another mode: `FinalityMode` as a variable that changes when no
   pass runs; how much is rolled back for want of anchors.
3. Offset paging (`LegacyQueries`): a client that reads pages of a table while
   `LegacyStore` writes and rolls back; which rows it is sure to see.
4. A composition of `ChainRunner` and `LegacyStore`: the rows of the one are what
   the tables of the other hold.
