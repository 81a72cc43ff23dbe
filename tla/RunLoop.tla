------------------------------- MODULE RunLoop -------------------------------
(***************************************************************************)
(* The loops of an `ormpindexer run' process and the metrics they keep     *)
(* (src/runner.rs, run_loop and run_chain_loop; src/metrics.rs).           *)
(* ChainRunner has one pass in detail; here a pass is only what its loop   *)
(* and its metrics see of it, for several chains whose loops share a task. *)
(*                                                                         *)
(* The rows and the reorg check are left out: a range that commits moves   *)
(* the checkpoint, a rollback moves it back.  Of a metrics row the fields  *)
(* that say something of the database are kept; the counters of requests   *)
(* and the timestamps are not.                                             *)
(***************************************************************************)
EXTENDS Integers

CONSTANTS
    Chain,         \* enabled_chains
    Steady,        \* the chains whose calls always return, with a result or an error
    MaxHead,       \* bound: [Chain -> the highest head]
    MaxForward,    \* bound: [Chain -> a rollback comes before as many blocks]
    BatchSize,     \* batch_size
    HeadBuffer,    \* head_buffer_blocks
    PollInterval,  \* poll_interval
    MaxBackoff,    \* the cap of failure_backoff, 60 s
    MaxDoublings,  \* the cap of its shift, 10
    None

\* Only the batch size is validated; the poll interval may be zero, and above
\* the cap.
ASSUME LoopAssumption ==
    /\ Steady \subseteq Chain
    /\ MaxHead \in [Chain -> Nat] /\ MaxForward \in [Chain -> Nat]
    /\ BatchSize \in Nat \ {0} /\ HeadBuffer \in Nat /\ PollInterval \in Nat
    /\ MaxBackoff \in Nat \ {0} /\ MaxDoublings \in Nat
    /\ None \notin Nat

VARIABLES
    head,        \* [Chain -> the head Datalens reports]
    checkpoint,  \* [Chain -> next_block in the database]
    pc,          \* [Chain -> where the chain's loop is]
    pass,        \* [Chain -> the locals of run_chain_once]
    failures,    \* [Chain -> consecutive_failures]
    sleep,       \* [Chain -> how long the loop sleeps]
    row,         \* [Chain -> its RuntimeMetricsRow]
    forward,     \* history: blocks committed since the process started
    missed,      \* history: a commit went through that the runner took for a failure
    drift        \* history: blocks that came to be missing since `remaining' was set

vars == <<head, checkpoint, pc, pass, failures, sleep, row, forward, missed, drift>>

Smaller(a, b) == IF a < b THEN a ELSE b
Minus(a, b)   == IF a < b THEN 0 ELSE a - b        \* saturating_sub

MaxFailures == MaxDoublings + 1   \* bound: more failures change nothing

FreshPass == [next |-> 0, target |-> 0, served |-> 0, stop |-> FALSE]
FreshRow  == [target |-> None, remaining |-> None, blocks |-> 0]

\* 1 << n
PowerOfTwo[n \in 0..MaxDoublings] == IF n = 0 THEN 1 ELSE 2 * PowerOfTwo[n - 1]

Shift(n) == Smaller(Minus(n, 1), MaxDoublings)
Unit     == IF PollInterval = 0 THEN 1 ELSE PollInterval

\* Mutant: the cap is taken of the poll interval alone.
BackoffUncapped(n) == Smaller(Unit, MaxBackoff) * PowerOfTwo[Shift(n)]
\* failure_backoff, in units of which the cap is a multiple.
Backoff(n) == Smaller(Unit * PowerOfTwo[Shift(n)], MaxBackoff)

PassState == [next : Nat, target : Nat, served : Nat, stop : BOOLEAN]
RowState  == [target : Nat \cup {None}, remaining : Nat \cup {None}, blocks : Nat]

\* No range and no checkpoint leaves the chain.
InBounds(c) ==
    /\ head[c] <= MaxHead[c] /\ checkpoint[c] <= MaxHead[c] + 1
    /\ pass[c].next <= MaxHead[c] + 1
    /\ pass[c].target <= MaxHead[c] /\ pass[c].served <= MaxHead[c]

TypeOK ==
    /\ head \in [Chain -> Nat] /\ checkpoint \in [Chain -> Nat]
    /\ pc \in [Chain -> {"start", "check", "head", "fetch", "commit", "committed", "asleep"}]
    /\ pass \in [Chain -> PassState] /\ row \in [Chain -> RowState]
    /\ failures \in [Chain -> 0..MaxFailures] /\ sleep \in [Chain -> Nat]
    /\ forward \in [Chain -> Nat] /\ missed \in [Chain -> BOOLEAN]
    /\ drift \in [Chain -> Nat]
    /\ \A c \in Chain : InBounds(c)

Init ==
    /\ head = [c \in Chain |-> 0]
    /\ checkpoint = [c \in Chain |-> 0]
    /\ pc = [c \in Chain |-> "start"]
    /\ pass = [c \in Chain |-> FreshPass]
    /\ failures = [c \in Chain |-> 0]
    /\ sleep = [c \in Chain |-> 0]
    /\ row = [c \in Chain |-> FreshRow]
    /\ forward = [c \in Chain |-> 0]
    /\ missed = [c \in Chain |-> FALSE]
    /\ drift = [c \in Chain |-> 0]

Goto(c, l) == pc' = [pc EXCEPT ![c] = l]

-----------------------------------------------------------------------------
(* The end of a pass, in run_chain_loop.                                   *)

\* Ok: whether or not the pass got anywhere, the loop sleeps a poll interval
\* (caught_up is always set).  `r' is the metrics row the pass has left.
PassSucceeds(c, r) ==
    /\ failures' = [failures EXCEPT ![c] = 0]
    /\ row' = [row EXCEPT ![c] = r]
    /\ sleep' = [sleep EXCEPT ![c] = PollInterval]
    /\ Goto(c, "asleep")

\* Mutant: one chain's error ends the loops of all, as it does in run_once.
PassFailsEverywhere(c) ==
    /\ pc' = [d \in Chain |-> "stopped"]
    /\ UNCHANGED <<failures, row, sleep>>
\* Err, from whatever call: the loop backs off and the others do not notice.
PassFails(c) ==
    LET n == Smaller(failures[c] + 1, MaxFailures) IN
    /\ failures' = [failures EXCEPT ![c] = n]
    /\ UNCHANGED row
    /\ sleep' = [sleep EXCEPT ![c] = Backoff(n)]
    /\ Goto(c, "asleep")

Wake(c) ==
    /\ pc[c] = "asleep"
    /\ Goto(c, "start")
    /\ pass' = [pass EXCEPT ![c] = FreshPass]
    /\ UNCHANGED <<head, checkpoint, failures, sleep, row, forward, missed, drift>>

-----------------------------------------------------------------------------
(* A pass, run_chain_once.                                                 *)

ReadCheckpoint(c) ==
    /\ pc[c] = "start"
    /\ pass' = [pass EXCEPT ![c].next = checkpoint[c]]
    /\ Goto(c, "check")
    /\ UNCHANGED <<head, checkpoint, failures, sleep, row, forward, missed, drift>>

\* rollback_reorged_anchors finds nothing, gets an incomplete answer, or is not
\* called in the chain's mode; or it rolls back.
NoReorg(c) ==
    /\ pc[c] = "check"
    /\ Goto(c, "head")
    /\ UNCHANGED <<head, checkpoint, pass, failures, sleep, row, forward, missed, drift>>

RollBack(c) ==
    /\ pc[c] = "check" /\ forward[c] < MaxForward[c]
    /\ \E b \in 0..(pass[c].next - 1) :
        /\ checkpoint' = [checkpoint EXCEPT ![c] = b]
        /\ pass' = [pass EXCEPT ![c].next = b]
        /\ drift' = [drift EXCEPT ![c] = @ + (pass[c].next - b)]
    /\ Goto(c, "head")
    /\ UNCHANGED <<head, failures, sleep, row, forward, missed>>

\* latest_block and record_chain_head; a checkpoint above the target ends the
\* pass with nothing remaining.
ObserveHead(c) ==
    LET target == Minus(head[c], HeadBuffer)
        seen   == [row[c] EXCEPT !.target = target]
        rise   == IF row[c].target = None THEN 0 ELSE Minus(target, row[c].target)
    IN
    /\ pc[c] = "head"
    /\ pass' = [pass EXCEPT ![c].target = target]
    /\ \/ /\ pass[c].next > target
          /\ PassSucceeds(c, [seen EXCEPT !.remaining = 0])
          /\ drift' = [drift EXCEPT ![c] = 0]
       \/ /\ pass[c].next <= target
          /\ row' = [row EXCEPT ![c] = seen]
          /\ drift' = [drift EXCEPT ![c] = @ + rise]
          /\ Goto(c, "fetch")
          /\ UNCHANGED <<failures, sleep>>
    /\ UNCHANGED <<head, checkpoint, forward, missed>>

\* plan_next_range and the cut at the target.  Mutant: not cut.
RangeToUncut(next, target) == next + BatchSize - 1
RangeTo(next, target) == Smaller(next + BatchSize - 1, target)

\* process_range until its write: query_logs, decode, anchors.
\* A prefix of the range is served; the transaction for it begins.  An answer
\* that is short, or that gives a reason why it might be, is the pass's last.
FetchRange(c) ==
    LET to == RangeTo(pass[c].next, pass[c].target) IN
    /\ pc[c] = "fetch"
    /\ \E end \in pass[c].next..to, incomplete \in BOOLEAN :
        pass' = [pass EXCEPT ![c].served = end, ![c].stop = incomplete \/ end < to]
    /\ Goto(c, "commit")
    /\ UNCHANGED <<head, checkpoint, failures, sleep, row, forward, missed, drift>>

\* Nothing is served, or not the headers the anchors need: stop_poll ends the
\* pass, which counts as a good one.
ServedNothing(c) ==
    /\ pc[c] = "fetch"
    /\ PassSucceeds(c, row[c])
    /\ UNCHANGED <<head, checkpoint, pass, forward, missed, drift>>

\* The database commits the rows of the range with its checkpoint.
Commit(c) ==
    /\ pc[c] = "commit"
    /\ checkpoint' = [checkpoint EXCEPT ![c] = pass[c].served + 1]
    /\ forward' = [forward EXCEPT ![c] = @ + (pass[c].served + 1 - pass[c].next)]
    /\ Goto(c, "committed")
    /\ UNCHANGED <<head, pass, failures, sleep, row, missed, drift>>

\* batch_progress: the blocks of a range, and those left after it.
\* Mutants: an exclusive upper bound.
RangeBlocksExclusive(from, to) == to - from
RangeBlocks(from, to) == to - from + 1

RemainingBlocksExclusive(next, target) == Minus(target, next)
RemainingBlocks(next, target) == IF next > target THEN 0 ELSE target - next + 1

\* The reply arrives: record_range_success.  The pass ends above the target, or
\* where it stops polling.
RecordRange(c) ==
    LET next == pass[c].served + 1
        r    == [row[c] EXCEPT !.remaining = RemainingBlocks(next, pass[c].target),
                               !.blocks    = @ + RangeBlocks(pass[c].next, pass[c].served)]
    IN
    /\ pc[c] = "committed"
    /\ pass' = [pass EXCEPT ![c].next = next, ![c].served = 0]
    /\ drift' = [drift EXCEPT ![c] = 0]
    /\ \/ /\ next > pass[c].target \/ pass[c].stop
          /\ PassSucceeds(c, r)
       \/ /\ next <= pass[c].target /\ ~pass[c].stop
          /\ row' = [row EXCEPT ![c] = r]
          /\ Goto(c, "fetch")
          /\ UNCHANGED <<failures, sleep>>
    /\ UNCHANGED <<head, checkpoint, forward, missed>>

\* Any call may fail.  The reply to a commit may get lost after the database
\* has committed.
CallFails(c) ==
    /\ pc[c] \in {"start", "check", "head", "fetch", "commit", "committed"}
    /\ PassFails(c)
    /\ missed' = [missed EXCEPT ![c] = @ \/ pc[c] = "committed"]
    /\ UNCHANGED <<head, checkpoint, pass, forward, drift>>

-----------------------------------------------------------------------------
HeadMoves(c) ==
    /\ head[c] < MaxHead[c]
    /\ head' = [head EXCEPT ![c] = @ + 1]
    /\ UNCHANGED <<checkpoint, pc, pass, failures, sleep, row, forward, missed, drift>>

\* The process dies and is started again: only the database survives.
Restart ==
    /\ pc' = [c \in Chain |-> "start"]
    /\ pass' = [c \in Chain |-> FreshPass]
    /\ failures' = [c \in Chain |-> 0]
    /\ sleep' = [c \in Chain |-> 0]
    /\ row' = [c \in Chain |-> FreshRow]
    /\ forward' = [c \in Chain |-> 0]
    /\ missed' = [c \in Chain |-> FALSE]
    /\ drift' = [c \in Chain |-> 0]
    /\ UNCHANGED <<head, checkpoint>>

PassStep(c) ==
    \/ ReadCheckpoint(c) \/ NoReorg(c) \/ RollBack(c) \/ ObserveHead(c)
    \/ FetchRange(c) \/ ServedNothing(c) \/ Commit(c) \/ RecordRange(c)
    \/ CallFails(c) \/ Wake(c)

Next ==
    \/ \E c \in Chain : PassStep(c) \/ HeadMoves(c)
    \/ Restart

Spec == Init /\ [][Next]_vars

\* The calls of a steady chain return; those of the others may hang for ever.
FairSpec == Spec /\ \A c \in Steady : WF_vars(PassStep(c))

-----------------------------------------------------------------------------
(* Properties                                                              *)

\* What is left to index, going by the row's own target.
Left(c) == Minus(row[c].target + 1, checkpoint[c])

\* The remaining-blocks gauge, which only the end of a range and a chain that is
\* caught up set (src/runner.rs:215, 429), accounts for all that is missing: at any
\* time, after passes that fail, are served nothing, wait for headers or lose the
\* reply of a commit, what the database lacks up to the target of the same row is
\* no more than the gauge and what came to be missing since it was set, by
\* rollbacks and by the rise of the target.
RemainingAccounted ==
    \A c \in Chain : row[c].remaining # None => Left(c) <= row[c].remaining + drift[c]

\* blocks_processed_total counts what was committed and nothing else: never
\* more, and everything but a range whose commit the runner was not told of.
BlocksCounted ==
    \A c \in Chain :
        /\ row[c].blocks <= forward[c]
        /\ pc[c] # "committed" /\ ~missed[c] => row[c].blocks = forward[c]

\* A loop that fails again waits no less than it waited before, be it a poll
\* interval or a shorter backoff, and never more than the cap.  (With a poll
\* interval above the cap a failing chain is asked more often than a good one.)
BackoffGrows ==
    [][\A c \in Chain :
          pc[c] # "asleep" /\ pc'[c] = "asleep" /\ failures'[c] > 0
              => /\ PollInterval <= MaxBackoff => sleep'[c] >= sleep[c]
                 /\ sleep'[c] <= MaxBackoff]_vars

\* A chain whose calls return goes on with pass after pass, though every one may
\* fail, and though the calls of another chain fail or hang for ever.
ChainsIndependent == \A c \in Steady : []<>(pc[c] = "start")
=============================================================================
