------------------------- MODULE DatalensClientProofs -------------------------
(***************************************************************************)
(* Theorems about DatalensClient, for any number of callers and attempts,  *)
(* every range and every interval.                                         *)
(***************************************************************************)
EXTENDS DatalensClient, TLAPS

(***************************************************************************)
(* ClientInv adds to the properties what a call knows half way: the pages  *)
(* read so far hold every block below the cursor, and the best page is at  *)
(* least as far served as anything the attempts got.                       *)
(***************************************************************************)
BestOf(best, got) == \A s \in got : \E page \in best : s <= page.served

CallInv(p) ==
    /\ \A page, other \in p.best : page = other
    /\ \A page \in p.best : p.kind = "logs" => 1..page.served \subseteq page.rows
    /\ p.pc \in {"slot", "asleep", "sent", "backoff"} =>
         /\ 1..(p.cursor - 1) \subseteq p.rows
         /\ BestOf(p.best, p.got)
    /\ p.pc = "backoff" => p.attempt < MaxAttempts
    /\ p.pc = "failed" => p.got = {}
    /\ p.pc = "answered" => \E page \in p.best :
           page.reason = "immediate" => \A s \in p.got : s <= page.served

ClientInv ==
    /\ call \in [Caller -> Call]
    /\ pacer \in 0..MinInterval /\ quiet = pacer
    /\ \A c \in Caller : CallInv(call[c])

LEMMA CallMoves ==
    ASSUME ClientInv, NEW c \in Caller, NEW p \in Call, CallInv(p), Set(c, p),
           UNCHANGED <<pacer, quiet>>
    PROVE  ClientInv'
<1>1. call' = [call EXCEPT ![c] = p] /\ call' \in [Caller -> Call]
  BY DEF Set, ClientInv
<1>2. \A d \in Caller : CallInv(call'[d])
  BY <1>1 DEF ClientInv
<1> QED BY <1>1, <1>2 DEF ClientInv, CallInv, BestOf

LEMMA FreshCall == \A kind \in Kind : Fresh(kind) \in Call /\ CallInv(Fresh(kind))
BY ClientAssumption DEF Fresh, Call, CallInv, BestOf, Block

\* The end of a call, or of an attempt, with a given best page.
LEMMA FinishMoves ==
    ASSUME ClientInv, NEW c \in Caller, NEW outcome \in {"answered", "failed"},
           NEW best \in SUBSET Page, NEW got \in SUBSET Served,
           \A page, other \in best : page = other,
           \A page \in best : call[c].kind = "logs" => 1..page.served \subseteq page.rows,
           outcome = "failed" => got = {},
           outcome = "answered" => \E page \in best :
               page.reason = "immediate" => \A s \in got : s <= page.served,
           Finish(c, outcome, best, got), UNCHANGED <<pacer, quiet>>
    PROVE  ClientInv'
<1> DEFINE p == [call[c] EXCEPT !.pc = outcome, !.best = best, !.got = got,
                                !.cursor = 1, !.mark = 0, !.rows = {}]
<1>1. call[c] \in Call /\ 1 \in 1..(To + 1) /\ 0 \in 0..2 /\ {} \in SUBSET Block
  BY ClientAssumption DEF ClientInv
<1>2. /\ p \in Call /\ p.pc = outcome /\ p.best = best /\ p.got = got
      /\ p.kind = call[c].kind
  BY <1>1 DEF Call
<1>3. CallInv(p)
  <2> HIDE DEF p
  <2> QED BY <1>2 DEF CallInv
<1> QED BY <1>2, <1>3, CallMoves DEF Finish, EndAttempt

LEMMA TryAgainMoves ==
    ASSUME ClientInv, NEW c \in Caller, NEW best \in SUBSET Page, NEW got \in SUBSET Served,
           \A page, other \in best : page = other,
           \A page \in best : call[c].kind = "logs" => 1..page.served \subseteq page.rows,
           BestOf(best, got),
           TryAgain(c, best, got), UNCHANGED <<pacer, quiet>>
    PROVE  ClientInv'
<1> DEFINE p == [call[c] EXCEPT !.pc = "backoff", !.best = best, !.got = got,
                                !.cursor = 1, !.mark = 0, !.rows = {}]
<1>1. call[c] \in Call /\ 1 \in 1..(To + 1) /\ 0 \in 0..2 /\ {} \in SUBSET Block
  BY ClientAssumption DEF ClientInv
<1>2. /\ p \in Call /\ p.pc = "backoff" /\ p.best = best /\ p.got = got
      /\ p.kind = call[c].kind /\ p.cursor = 1 /\ p.rows = {}
      /\ p.attempt = call[c].attempt /\ p.attempt < MaxAttempts
  BY <1>1 DEF Call, TryAgain
<1>3. CallInv(p)
  <2> HIDE DEF p
  <2> QED BY <1>2 DEF CallInv
<1> QED BY <1>2, <1>3, CallMoves DEF TryAgain, EndAttempt

LEMMA FailedMoves ==
    ASSUME ClientInv, NEW c \in Caller, NEW retryable \in BOOLEAN,
           call[c].pc = "sent", Failed(c, retryable), UNCHANGED <<pacer, quiet>>
    PROVE  ClientInv'
<1> DEFINE p == call[c]
<1>1. p \in Call /\ CallInv(p) /\ BestOf(p.best, p.got)
  BY DEF ClientInv, CallInv
<1>2. /\ p.best \in SUBSET Page /\ p.got \in SUBSET Served
      /\ \A page, other \in p.best : page = other
      /\ \A page \in p.best : p.kind = "logs" => 1..page.served \subseteq page.rows
  BY <1>1 DEF Call, CallInv
<1>3. CASE TryAgain(c, p.best, p.got)
  BY <1>1, <1>2, <1>3, TryAgainMoves
<1>4. CASE p.best = {} /\ Finish(c, "failed", p.best, p.got)
  <2>1. p.got = {}
    BY <1>1, <1>4 DEF BestOf
  <2> QED BY <1>2, <1>4, <2>1, FinishMoves
<1>5. CASE p.best # {} /\ Finish(c, "answered", p.best, p.got)
  <2>1. \E page \in p.best : page.reason = "immediate" => \A s \in p.got : s <= page.served
    BY <1>1, <1>2, <1>5 DEF BestOf
  <2> QED BY <1>2, <1>5, <2>1, FinishMoves
<1> QED BY <1>3, <1>4, <1>5 DEF Failed

LEMMA LastPageMoves ==
    ASSUME ClientInv, NEW c \in Caller, LastPage(c)
    PROVE  ClientInv'
<1> DEFINE p == call[c]
<1>1. PICK served \in Served, reason \in Reason :
        Answered(c, [served |-> served, reason |-> reason,
                     rows |-> p.rows \cup p.cursor..served])
  BY DEF LastPage
<1> DEFINE page == [served |-> served, reason |-> reason,
                    rows |-> p.rows \cup p.cursor..served]
           got  == p.got \cup {served}
<1>2. p \in Call /\ CallInv(p) /\ BestOf(p.best, p.got) /\ 1..(p.cursor - 1) \subseteq p.rows
  BY DEF LastPage, ClientInv, CallInv
<1>3. p.cursor \in 1..(To + 1) /\ p.rows \subseteq Block /\ served \in 0..To /\ To \in Nat
  BY <1>2, ClientAssumption DEF Call, Served
<1>4. page \in Page /\ 1..served \subseteq page.rows /\ got \in SUBSET Served
  <2>1. p.rows \cup p.cursor..served \subseteq Block
    BY <1>3 DEF Block
  <2>2. 1..served \subseteq p.rows \cup p.cursor..served
    BY <1>2, <1>3 DEF Block
  <2> QED BY <1>2, <2>1, <2>2 DEF Page, Call
<1>5. page.served = served /\ page.reason = reason
  OBVIOUS
<1>6. p.best \in SUBSET Page /\ \A b \in p.best : b.served \in Nat
  BY <1>2, ClientAssumption DEF Call, Page, Served
<1>7. UNCHANGED <<pacer, quiet>> /\ Answered(c, page)
  BY <1>1 DEF LastPage
<1> HIDE DEF page
<1>8. CASE reason # "immediate"
  <2>1. Finish(c, "answered", {page}, got)
    BY <1>5, <1>7, <1>8 DEF Answered
  <2>2. /\ {page} \in SUBSET Page
        /\ \A b, other \in {page} : b = other
        /\ \A b \in {page} : p.kind = "logs" => 1..b.served \subseteq b.rows
        /\ \E b \in {page} : b.reason = "immediate" => \A s \in got : s <= b.served
    BY <1>4, <1>5, <1>8
  <2> HIDE DEF got, p
  <2> QED BY <1>4, <1>7, <2>1, <2>2, FinishMoves DEF p
<1>9. CASE reason = "immediate"
  <2> DEFINE best == Better(p.best, page)
  <2>1. \/ TryAgain(c, best, got)
        \/ Finish(c, "answered", best, got)
    BY <1>5, <1>7, <1>9 DEF Answered
  <2>2. \/ best = {page} /\ \A b \in p.best : b.served < served
        \/ best = p.best /\ \E b \in p.best : b.served >= served
    BY <1>2, <1>3, <1>5, <1>6 DEF Better, CallInv
  <2>3. /\ best \in SUBSET Page
        /\ \A b, other \in best : b = other
        /\ \A b \in best : p.kind = "logs" => 1..b.served \subseteq b.rows
    BY <1>2, <1>4, <1>5, <1>6, <2>2 DEF CallInv
  <2>4. BestOf(best, got)
    <3> SUFFICES ASSUME NEW s \in got PROVE \E b \in best : s <= b.served
      BY DEF BestOf
    <3>1. s \in Nat
      BY <1>4, ClientAssumption DEF Served
    <3>2. CASE s = served
      BY <1>3, <1>5, <1>6, <2>2, <3>2
    <3>3. CASE s \in p.got
      <4>1. PICK b \in p.best : s <= b.served
        BY <1>2, <3>3 DEF BestOf
      <4> QED BY <1>3, <1>5, <1>6, <2>2, <3>1, <4>1
    <3> QED BY <3>2, <3>3
  <2>5. \E b \in best : b.reason = "immediate" => \A s \in got : s <= b.served
    <3>1. PICK b \in best : served <= b.served
      BY <2>4 DEF BestOf
    <3> QED BY <2>3, <2>4, <3>1 DEF BestOf
  <2> HIDE DEF best, got, p
  <2>6. CASE TryAgain(c, best, got)
    BY <1>4, <1>7, <2>3, <2>4, <2>6, TryAgainMoves DEF p
  <2>7. CASE Finish(c, "answered", best, got)
    BY <1>4, <1>7, <2>3, <2>5, <2>7, FinishMoves DEF p
  <2> QED BY <2>1, <2>6, <2>7
<1> QED BY <1>8, <1>9

LEMMA NextPageMoves ==
    ASSUME ClientInv, NEW c \in Caller, NextPage(c)
    PROVE  ClientInv'
<1> DEFINE p == call[c]
<1>1. PICK end \in (p.cursor - 1)..To : \E next \in 1..(end + 1) :
        Set(c, [p EXCEPT !.pc = "slot", !.cursor = next, !.mark = OtherMark(p.mark),
                         !.rows = p.rows \cup p.cursor..end])
  BY DEF NextPage
<1>2. PICK next \in 1..(end + 1) :
        Set(c, [p EXCEPT !.pc = "slot", !.cursor = next, !.mark = OtherMark(p.mark),
                         !.rows = p.rows \cup p.cursor..end])
  BY <1>1
<1>3. p \in Call /\ CallInv(p) /\ BestOf(p.best, p.got) /\ 1..(p.cursor - 1) \subseteq p.rows
  BY DEF NextPage, ClientInv, CallInv
<1>4. /\ p.cursor \in 1..(To + 1) /\ end \in 0..To /\ next \in 1..(To + 1)
      /\ next <= end + 1 /\ p.rows \subseteq Block
  BY <1>3, ClientAssumption DEF Call
<1> DEFINE rows == p.rows \cup p.cursor..end
           mark == OtherMark(p.mark)
<1>5. rows \subseteq Block /\ 1..(next - 1) \subseteq rows /\ mark \in 0..2
  BY <1>3, <1>4, ClientAssumption DEF Block, OtherMark
<1> DEFINE q == [p EXCEPT !.pc = "slot", !.cursor = next, !.mark = mark, !.rows = rows]
<1>6. Set(c, q)
  BY <1>2
<1> HIDE DEF rows, mark
<1>7. /\ q \in Call /\ q.pc = "slot" /\ q.rows = rows /\ q.cursor = next
      /\ q.best = p.best /\ q.got = p.got /\ q.kind = p.kind
  BY <1>3, <1>4, <1>5 DEF Call
<1>8. CallInv(q)
  <2> HIDE DEF p, q
  <2> QED BY <1>3, <1>5, <1>7 DEF CallInv
<1> QED BY <1>6, <1>7, <1>8, CallMoves DEF NextPage

\* Moves that only change the program point, the delay or the attempt.
LEMMA WaitMoves ==
    ASSUME ClientInv, NEW c \in Caller,
           SleepForSlot(c) \/ Wake(c) \/ Retry(c)
    PROVE  ClientInv'
<1> DEFINE p == call[c]
<1>1. p \in Call /\ CallInv(p) /\ pacer \in 0..MinInterval
  BY DEF ClientInv
<1>2. p.pc \in {"slot", "asleep", "backoff"} /\ UNCHANGED <<pacer, quiet>>
  BY DEF SleepForSlot, Wake, Retry
<1>3. CASE SleepForSlot(c)
  <2> DEFINE q == [p EXCEPT !.pc = "asleep", !.delay = MinInterval - pacer]
  <2>1. MinInterval - pacer \in 0..MinInterval
    BY <1>1, ClientAssumption
  <2>2. q \in Call /\ CallInv(q)
    BY <1>1, <1>2, <2>1 DEF Call, CallInv
  <2> QED BY <1>2, <1>3, <2>2, CallMoves DEF SleepForSlot
<1>4. CASE Wake(c)
  <2>1. [p EXCEPT !.pc = "slot"] \in Call /\ CallInv([p EXCEPT !.pc = "slot"])
    BY <1>1, <1>2 DEF Call, CallInv
  <2> QED BY <1>2, <1>4, <2>1, CallMoves DEF Wake
<1>5. CASE Retry(c)
  <2> DEFINE q == [p EXCEPT !.pc = "slot", !.attempt = p.attempt + 1]
  <2>1. Set(c, q)
    BY <1>5 DEF Retry
  <2>2. p.attempt + 1 \in 1..MaxAttempts
    BY <1>1, <1>5, ClientAssumption DEF Retry, Call, CallInv
  <2>3. /\ q \in Call /\ q.pc = "slot" /\ q.kind = p.kind /\ q.best = p.best
        /\ q.got = p.got /\ q.rows = p.rows /\ q.cursor = p.cursor
    BY <1>1, <2>2 DEF Call
  <2>4. CallInv(q)
    <3> HIDE DEF q
    <3> QED BY <1>1, <1>5, <2>3 DEF Retry, CallInv
  <2> QED BY <1>2, <2>1, <2>3, <2>4, CallMoves
<1> QED BY <1>3, <1>4, <1>5

LEMMA SlotMoves ==
    ASSUME ClientInv, NEW c \in Caller, TakeSlot(c)
    PROVE  ClientInv'
<1> DEFINE p == call[c]
           q == [p EXCEPT !.pc = "sent"]
<1>1. p \in Call /\ CallInv(p) /\ p.pc = "slot"
  BY DEF ClientInv, TakeSlot
<1>2. q \in Call /\ CallInv(q)
  BY <1>1 DEF Call, CallInv
<1>3. call' = [call EXCEPT ![c] = q]
  BY DEF TakeSlot, Set
<1>4. call' \in [Caller -> Call] /\ \A d \in Caller : CallInv(call'[d])
  BY <1>2, <1>3 DEF ClientInv
<1>5. pacer' \in 0..MinInterval /\ quiet' = pacer'
  BY ClientAssumption DEF TakeSlot
<1> QED BY <1>4, <1>5 DEF ClientInv, CallInv, BestOf

LEMMA TickMoves ==
    ASSUME ClientInv, Tick
    PROVE  ClientInv'
<1>1. pacer' \in 0..MinInterval /\ quiet' = pacer'
  BY ClientAssumption DEF ClientInv, Tick, Advance
<1>2. ASSUME NEW c \in Caller PROVE call'[c] \in Call /\ CallInv(call'[c])
  <2> DEFINE p == call[c]
             delay == IF p.delay > 0 THEN p.delay - 1 ELSE 0
             q == [p EXCEPT !.delay = delay]
  <2>1. p \in Call /\ CallInv(p) /\ call'[c] = q
    BY DEF ClientInv, Tick
  <2>2. delay \in 0..MinInterval
    BY <2>1, ClientAssumption DEF Call
  <2>3. /\ q \in Call /\ q.pc = p.pc /\ q.kind = p.kind /\ q.best = p.best /\ q.got = p.got
        /\ q.rows = p.rows /\ q.cursor = p.cursor /\ q.attempt = p.attempt
    <3> HIDE DEF delay
    <3> QED BY <2>1, <2>2 DEF Call
  <2>4. CallInv(q)
    <3> HIDE DEF q
    <3> QED BY <2>1, <2>3 DEF CallInv
  <2> QED BY <2>1, <2>3, <2>4
<1>3. call' \in [Caller -> Call]
  BY <1>2 DEF Tick
<1> QED BY <1>1, <1>2, <1>3 DEF ClientInv, CallInv, BestOf

LEMMA ClientStep ==
    ASSUME ClientInv, [Next]_vars
    PROVE  ClientInv'
<1>1. ASSUME NEW c \in Caller, CallStep(c) PROVE ClientInv'
  <2>1. CASE Begin(c)
    BY <2>1, FreshCall, CallMoves DEF Begin
  <2>2. CASE TakeSlot(c)
    BY <2>2, SlotMoves
  <2>3. CASE SleepForSlot(c) \/ Wake(c) \/ Retry(c)
    BY <2>3, WaitMoves
  <2>4. CASE HeadsResponse(c)
    <3>1. /\ {Nothing} \in SUBSET Page /\ {0} \in SUBSET Served
          /\ \A page \in {Nothing} : 1..page.served \subseteq page.rows /\ page.reason = "none"
      BY ClientAssumption DEF Nothing, Page, Reason, Served
    <3> QED BY <2>4, <3>1, FinishMoves DEF HeadsResponse
  <2>5. CASE LastPage(c)
    BY <2>5, LastPageMoves
  <2>6. CASE NextPage(c)
    BY <2>6, NextPageMoves
  <2>7. CASE RepeatedCursor(c) \/ ErrorResponse(c)
    BY <2>7, FailedMoves DEF RepeatedCursor, ErrorResponse
  <2> QED BY <1>1, <2>1, <2>2, <2>3, <2>4, <2>5, <2>6, <2>7 DEF CallStep
<1>2. CASE Tick
  BY <1>2, TickMoves
<1>3. CASE UNCHANGED vars
  BY <1>3 DEF vars, ClientInv, CallInv, BestOf
<1> QED BY <1>1, <1>2, <1>3 DEF Next

\* The inductive invariant of the client.
THEOREM ClientInvariant == Spec => []ClientInv
<1>1. Init => ClientInv
  <2> SUFFICES ASSUME Init PROVE ClientInv
    OBVIOUS
  <2>1. \A c \in Caller : call[c] = [Fresh("heads") EXCEPT !.pc = "idle"]
    BY DEF Init
  <2>2. [Fresh("heads") EXCEPT !.pc = "idle"] \in Call
        /\ CallInv([Fresh("heads") EXCEPT !.pc = "idle"])
    <3> DEFINE p == Fresh("heads")
               q == [p EXCEPT !.pc = "idle"]
    <3>1. p \in Call /\ p.best = {}
      BY FreshCall DEF Kind, Fresh
    <3>2. q \in Call /\ q.pc = "idle" /\ q.best = {}
      <4> HIDE DEF p
      <4> QED BY <3>1 DEF Call
    <3>3. CallInv(q)
      <4> HIDE DEF q
      <4> QED BY <3>2 DEF CallInv
    <3> QED BY <3>2, <3>3
  <2> QED BY <2>1, <2>2, ClientAssumption DEF Init, ClientInv
<1>2. ClientInv /\ [Next]_vars => ClientInv'
  BY ClientStep
<1> QED BY <1>1, <1>2, PTL DEF Spec

\* The logs of an answer are those of exactly the served range, for any number
\* of pages and attempts, while the server's range moves between them.
THEOREM AnswersComplete == Spec => []LogsMatchServed
<1>1. ClientInv => LogsMatchServed
  <2> SUFFICES ASSUME ClientInv, NEW c \in Caller, call[c].kind = "logs",
                      NEW page \in call[c].best
               PROVE  QueryResult(c) = 1..page.served
    BY DEF LogsMatchServed
  <2>1. call[c].best = {page} /\ 1..page.served \subseteq page.rows
    BY DEF ClientInv, CallInv
  <2> QED BY <2>1 DEF QueryResult
<1> QED BY <1>1, ClientInvariant, PTL

\* No retry costs the caller an answer it already had.
THEOREM RetriesKeepBest == Spec => []RetriesNeverLose
<1>1. ClientInv => RetriesNeverLose
  BY DEF ClientInv, CallInv, RetriesNeverLose
<1> QED BY <1>1, ClientInvariant, PTL

\* Any two requests of all callers keep the interval.
THEOREM Spaced == Spec => RequestsSpaced
<1>1. ASSUME ClientInv, [Next]_vars, NEW c \in Caller,
             call[c].pc # "sent", call'[c].pc = "sent"
      PROVE  quiet = MinInterval
  <2>1. PICK d \in Caller : CallStep(d)
    BY <1>1 DEF Next, Tick, ClientInv, vars, Call
  <2>2. call \in [Caller -> Call] /\ quiet = pacer
    BY <1>1 DEF ClientInv
  \* Every other move leaves its call elsewhere than in flight.
  <2>3. ASSUME NEW p, p.pc # "sent" PROVE ~Set(d, p)
    BY <1>1, <2>2, <2>3 DEF Set
  <2>4. ~Begin(d)
    BY <2>3 DEF Begin, Fresh
  <2>5. ~SleepForSlot(d) /\ ~Wake(d) /\ ~Retry(d) /\ ~NextPage(d)
    <3>1. call[d] \in Call
      BY <2>2
    <3>2. ~SleepForSlot(d)
      BY <2>3, <3>1 DEF SleepForSlot, Call
    <3>3. ~Wake(d)
      BY <2>3, <3>1 DEF Wake, Call
    <3>4. ~Retry(d)
      BY <2>3, <3>1 DEF Retry, Call
    <3>5. ~NextPage(d)
      BY <2>3, <3>1 DEF NextPage, Call
    <3> QED BY <3>2, <3>3, <3>4, <3>5
  <2>6. ASSUME NEW outcome \in {"answered", "failed"}, NEW best, NEW got
        PROVE  ~Finish(d, outcome, best, got)
    BY <2>2, <2>3 DEF Finish, EndAttempt, Call
  <2>7. ASSUME NEW best, NEW got PROVE ~TryAgain(d, best, got)
    BY <2>2, <2>3 DEF TryAgain, EndAttempt, Call
  <2>8. ~HeadsResponse(d) /\ ~LastPage(d) /\ ~RepeatedCursor(d) /\ ~ErrorResponse(d)
    BY <2>6, <2>7 DEF HeadsResponse, LastPage, Answered, RepeatedCursor, ErrorResponse, Failed
  <2>9. TakeSlot(d)
    BY <2>1, <2>4, <2>5, <2>8 DEF CallStep
  <2> QED BY <2>2, <2>9 DEF TakeSlot
<1>2. ClientInv /\ [Next]_vars =>
        [\A c \in Caller : call[c].pc # "sent" /\ call'[c].pc = "sent"
                              => quiet = MinInterval]_vars
  BY <1>1
<1> QED BY <1>2, ClientInvariant, PTL DEF Spec, RequestsSpaced
=============================================================================
