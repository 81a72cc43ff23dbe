---------------------------- MODULE DatalensClient ----------------------------
(***************************************************************************)
(* The HTTP client behind the indexing loops (src/datalens/client.rs).     *)
(* ChainRunner takes a query for one step; here it is what the client      *)
(* makes of it: attempts, the pages of an attempt, and the request pacer   *)
(* that the loops of all chains share.                                     *)
(*                                                                         *)
(* A query is for the blocks 1..To; a row stands for the rows of a block.  *)
(* A cursor is opaque to the client, which only looks whether it has seen  *)
(* it before; what matters of it here is whether it is the cursor of the   *)
(* request before and at which block the server continues.  Any number of  *)
(* pages may follow each other, empty or repeating rows; of the server it  *)
(* is only assumed that a cursor skips no row.                             *)
(* Each page is served from what the server has by then, so that `served'  *)
(* may differ between the pages of one answer.                             *)
(***************************************************************************)
EXTENDS Integers

CONSTANTS
    Caller,       \* the loops that share the client
    To,           \* bound: the blocks of a query are 1..To
    MaxAttempts,  \* ORMPINDEXER_DATALENS_QUERY_MAX_ATTEMPTS
    MinInterval   \* min_request_interval, in ticks

ASSUME ClientAssumption ==
    /\ To \in Nat \ {0}
    /\ MaxAttempts \in Nat \ {0}
    /\ MinInterval \in Nat

Block  == 1..To
Served == 0..To    \* served_end; 0 when the server served nothing
Kind   == {"logs", "blocks", "heads"}
Reason == {"none", "immediate", "later"}  \* incomplete_reason, by retries_immediately
Page   == [served : Served, reason : Reason, rows : SUBSET Block]

VARIABLES
    call,   \* [Caller -> the locals of post_query and query_pages]
    pacer,  \* ticks since *last_request_at, MinInterval and above being one
    quiet   \* history: ticks since a request was last sent, likewise

vars == <<call, pacer, quiet>>

Nothing == [served |-> 0, reason |-> "none", rows |-> {}]

Call == [pc      : {"idle", "slot", "asleep", "sent", "backoff", "answered", "failed"},
         kind    : Kind,
         attempt : 1..MaxAttempts,
         cursor  : 1..(To + 1),         \* where the request continues; 1 without a cursor
         mark    : 0..2,                \* of the last cursor; 0: seen_cursors is empty
         rows    : SUBSET Block,        \* rows of the pages so far
         best    : SUBSET Page,         \* empty or one page
         delay   : 0..MinInterval,      \* left to sleep for a slot
         got     : SUBSET Served]       \* history: what the attempts were served

TypeOK ==
    /\ call \in [Caller -> Call]
    /\ \A c \in Caller : \A page, other \in call[c].best : page = other
    /\ pacer \in 0..MinInterval /\ quiet \in 0..MinInterval

Fresh(kind) == [pc |-> "slot", kind |-> kind, attempt |-> 1, cursor |-> 1,
                mark |-> 0, rows |-> {}, best |-> {}, delay |-> 0, got |-> {}]

Init ==
    /\ call = [c \in Caller |-> [Fresh("heads") EXCEPT !.pc = "idle"]]
    /\ pacer = MinInterval /\ quiet = MinInterval

Set(c, locals) == call' = [call EXCEPT ![c] = locals]

-----------------------------------------------------------------------------
(* The pacer.                                                              *)

Begin(c) ==
    /\ call[c].pc \in {"idle", "answered", "failed"}
    /\ \E kind \in Kind : Set(c, Fresh(kind))
    /\ UNCHANGED <<pacer, quiet>>

\* The lock is held from the look at the clock to the new last_request_at, and
\* no await follows before the request goes out.
TakeSlot(c) ==
    /\ call[c].pc = "slot" /\ pacer = MinInterval
    /\ Set(c, [call[c] EXCEPT !.pc = "sent"])
    /\ pacer' = 0 /\ quiet' = 0

SleepForSlot(c) ==
    /\ call[c].pc = "slot" /\ pacer < MinInterval
    /\ Set(c, [call[c] EXCEPT !.pc = "asleep", !.delay = MinInterval - pacer])
    /\ UNCHANGED <<pacer, quiet>>

\* Mutant: the sleeper takes the slot it has slept for.
WakeSends(c) ==
    /\ call[c].pc = "asleep" /\ call[c].delay = 0
    /\ Set(c, [call[c] EXCEPT !.pc = "sent"])
    /\ pacer' = 0 /\ quiet' = 0

\* Another caller may have taken the slot: look again.
Wake(c) ==
    /\ call[c].pc = "asleep" /\ call[c].delay = 0
    /\ Set(c, [call[c] EXCEPT !.pc = "slot"])
    /\ UNCHANGED <<pacer, quiet>>

Advance(ticks) == IF ticks < MinInterval THEN ticks + 1 ELSE ticks

Tick ==
    /\ pacer' = Advance(pacer) /\ quiet' = Advance(quiet)
    /\ call' = [c \in Caller |->
                  [call[c] EXCEPT !.delay = IF @ > 0 THEN @ - 1 ELSE 0]]

-----------------------------------------------------------------------------
(* What becomes of an attempt.                                             *)

\* What query_pages has collected goes with the attempt.
EndAttempt(c, pc, best, got) ==
    Set(c, [call[c] EXCEPT !.pc = pc, !.best = best, !.got = got,
                           !.cursor = 1, !.mark = 0, !.rows = {}])

Finish(c, outcome, best, got) == EndAttempt(c, outcome, best, got)

\* The next attempt starts from the first page.
TryAgain(c, best, got) ==
    call[c].attempt < MaxAttempts /\ EndAttempt(c, "backoff", best, got)

\* Mutant: the latest page is kept, however little it serves.
BetterLatest(best, page) == {page}

\* served_rank(page) > served_rank(best)
Better(best, page) == {b \in best : b.served >= page.served}
                        \cup (IF \E b \in best : b.served >= page.served
                                THEN {} ELSE {page})

\* All pages of the attempt are in.
Answered(c, page) ==
    LET got == call[c].got \cup {page.served} IN
    IF page.reason # "immediate"
      THEN Finish(c, "answered", {page}, got)
      ELSE LET best == Better(call[c].best, page) IN
             \/ TryAgain(c, best, got)
             \/ call[c].attempt = MaxAttempts /\ Finish(c, "answered", best, got)

\* An error: the best page of the earlier attempts, if there is one, stands.
Failed(c, retryable) ==
    \/ retryable /\ TryAgain(c, call[c].best, call[c].got)
    \/ /\ ~retryable \/ call[c].attempt = MaxAttempts
       /\ Finish(c, IF call[c].best = {} THEN "failed" ELSE "answered",
                 call[c].best, call[c].got)

Retry(c) ==
    /\ call[c].pc = "backoff"
    /\ Set(c, [call[c] EXCEPT !.pc = "slot", !.attempt = @ + 1])
    /\ UNCHANGED <<pacer, quiet>>

-----------------------------------------------------------------------------
(* A response.  The server has 1..served, sends the rows from the cursor   *)
(* to the end of the page, and a cursor if there is more.                  *)

HeadsResponse(c) ==
    /\ call[c].pc = "sent" /\ call[c].kind = "heads"
    /\ Finish(c, "answered", {Nothing}, {0})
    /\ UNCHANGED <<pacer, quiet>>

\* Mutant: the rows of the last page only.
LastPageLast(c) ==
    /\ call[c].pc = "sent" /\ call[c].kind # "heads"
    /\ \E served \in Served, reason \in Reason :
         Answered(c, [served |-> served, reason |-> reason,
                      rows |-> call[c].cursor..served])
    /\ UNCHANGED <<pacer, quiet>>

\* The answer has the rows of all pages and `served' of the last one.
LastPage(c) ==
    /\ call[c].pc = "sent" /\ call[c].kind # "heads"
    /\ \E served \in Served, reason \in Reason :
         Answered(c, [served |-> served, reason |-> reason,
                      rows |-> call[c].rows \cup call[c].cursor..served])
    /\ UNCHANGED <<pacer, quiet>>

OtherMark(mark) == IF mark = 1 THEN 2 ELSE 1

\* A cursor not seen before.  The page ends at some block; the next one
\* continues right behind it or goes back.
NextPage(c) ==
    /\ call[c].pc = "sent" /\ call[c].kind # "heads"
    /\ \E end \in (call[c].cursor - 1)..To : \E next \in 1..(end + 1) :
         Set(c, [call[c] EXCEPT !.pc = "slot", !.cursor = next, !.mark = OtherMark(@),
                                !.rows = @ \cup call[c].cursor..end])
    /\ UNCHANGED <<pacer, quiet>>

\* Mutant: the cursor is followed again.
RepeatedCursorFollowed(c) ==
    /\ call[c].pc = "sent" /\ call[c].kind # "heads" /\ call[c].mark > 0
    /\ Set(c, [call[c] EXCEPT !.pc = "slot"])
    /\ UNCHANGED <<pacer, quiet>>

\* A server that hands out a cursor twice would be followed for ever.
RepeatedCursor(c) ==
    /\ call[c].pc = "sent" /\ call[c].kind # "heads" /\ call[c].mark > 0
    /\ Failed(c, FALSE)
    /\ UNCHANGED <<pacer, quiet>>

\* Send and read errors, 429 and 5xx can be retried; other statuses and
\* answers that do not parse cannot.
ErrorResponse(c) ==
    /\ call[c].pc = "sent"
    /\ \E retryable \in BOOLEAN : Failed(c, retryable)
    /\ UNCHANGED <<pacer, quiet>>

CallStep(c) ==
    \/ Begin(c)
    \/ TakeSlot(c) \/ SleepForSlot(c) \/ Wake(c)
    \/ HeadsResponse(c) \/ LastPage(c) \/ NextPage(c)
    \/ RepeatedCursor(c) \/ ErrorResponse(c)
    \/ Retry(c)

Next == Tick \/ \E c \in Caller : CallStep(c)

Spec == Init /\ [][Next]_vars

\* Every request is answered or timed out (reqwest's timeout), sleeps end and
\* the runtime polls the woken.  Nothing says who of two woken callers is
\* polled first.
Response(c) == \/ HeadsResponse(c) \/ LastPage(c) \/ NextPage(c)
               \/ RepeatedCursor(c) \/ ErrorResponse(c)

Fairness ==
    /\ WF_vars(Tick)
    /\ \A c \in Caller :
           /\ WF_vars(TakeSlot(c)) /\ WF_vars(SleepForSlot(c)) /\ WF_vars(Wake(c))
           /\ WF_vars(Response(c))
           /\ WF_vars(Retry(c))

FairSpec == Spec /\ Fairness
-----------------------------------------------------------------------------
\* logs_from_page drops rows above served_end; blocks_from_page does not.
QueryResult(c) ==
    UNION {IF call[c].kind = "logs" THEN page.rows \cap 1..page.served ELSE page.rows :
               page \in call[c].best}

\* The logs handed to the indexer are those of exactly the range it is told was
\* served, though pages come one by one while the server's range moves: the
\* checkpoint goes past that range (src/datalens/client.rs:108-132,
\* src/datalens/query.rs:112-135).
LogsMatchServed ==
    \A c \in Caller : call[c].pc = "answered" /\ call[c].kind = "logs" =>
        \A page \in call[c].best : QueryResult(c) = 1..page.served

\* A retry never costs an answer an earlier attempt had: the call fails only if
\* no attempt was answered, and gives up with the furthest served answer
\* (src/datalens/client.rs:59-106).
RetriesNeverLose ==
    \A c \in Caller :
        /\ call[c].pc = "failed" => call[c].got = {}
        /\ call[c].pc = "answered" => \E page \in call[c].best :
               page.reason = "immediate" => \A s \in call[c].got : s <= page.served

\* The callers together keep the interval between any two requests, also those
\* that slept for the same slot (src/datalens/client.rs:171-203).
RequestsSpaced ==
    [][\A c \in Caller : call[c].pc # "sent" /\ call'[c].pc = "sent"
                            => quiet = MinInterval]_vars

InCall(c) == call[c].pc \notin {"idle", "answered", "failed"}

Sends(c) == call'[c].pc = "sent" /\ call[c].pc # "sent"

\* A call that does not end is one the server feeds new cursors for ever (the
\* code has no limit on pages), or one that waits for the pacer's slot for good
\* while another caller keeps taking it.  Errors, retries, incomplete answers
\* and cursors that come again never do it (src/datalens/client.rs:59-132,
\* 171-203).
CallsEnd ==
    \A c \in Caller :
        \/ InCall(c) ~> ~InCall(c)
        \/ []<><<NextPage(c)>>_vars
        \/ /\ <>[](call[c].pc \in {"slot", "asleep"})
           /\ \E d \in Caller \ {c} : []<><<Sends(d)>>_vars
=============================================================================
