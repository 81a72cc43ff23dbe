-------------------------- MODULE MetricsCacheProofs --------------------------
(***************************************************************************)
(* Theorems about MetricsCache, for any number of scrapes, any delay and   *)
(* any timeout.                                                            *)
(***************************************************************************)
EXTENDS MetricsCache, TLAPS

InQueue == {"queued"} \cup Collecting

(***************************************************************************)
(* The lock: a task is in its queue just when it waits for it or holds it, *)
(* once, and whoever collects comes first.                                 *)
(***************************************************************************)
LockInv ==
    /\ \A i, j \in 1..Len(queue) : queue[i] = queue[j] => i = j
    /\ \A i \in 1..Len(queue) : pc[queue[i]] \in InQueue
    /\ \A t \in Task : pc[t] \in InQueue => \E i \in 1..Len(queue) : queue[i] = t
    /\ \A t \in Task : pc[t] \in Collecting => Len(queue) > 0 /\ queue[1] = t
    /\ pc[Loop] # "render"

Safe == TypeOK /\ LockInv

-----------------------------------------------------------------------------
(* Sequences.                                                              *)

LEMMA TailFacts ==
    ASSUME NEW S, NEW q \in Seq(S), Len(q) > 0
    PROVE  /\ Tail(q) \in Seq(S) /\ Len(Tail(q)) = Len(q) - 1
           /\ \A i \in 1..(Len(q) - 1) : Tail(q)[i] = q[i + 1]
           /\ Head(q) = q[1]
OBVIOUS

LEMMA AppendFacts ==
    ASSUME NEW S, NEW q \in Seq(S), NEW e \in S
    PROVE  /\ Append(q, e) \in Seq(S) /\ Len(Append(q, e)) = Len(q) + 1
           /\ \A i \in 1..Len(q) : Append(q, e)[i] = q[i]
           /\ Append(q, e)[Len(q) + 1] = e
OBVIOUS

LEMMA ConcatFacts ==
    ASSUME NEW S, NEW q \in Seq(S), NEW r \in Seq(S)
    PROVE  /\ q \o r \in Seq(S) /\ Len(q \o r) = Len(q) + Len(r)
           /\ \A i \in 1..(Len(q) + Len(r)) :
                  (q \o r)[i] = IF i <= Len(q) THEN q[i] ELSE r[i - Len(q)]
OBVIOUS

LEMMA RemoveFacts ==
    ASSUME NEW S, NEW q \in Seq(S), NEW k \in 1..Len(q)
    PROVE  LET r == SubSeq(q, 1, k - 1) \o SubSeq(q, k + 1, Len(q)) IN
             /\ r \in Seq(S) /\ Len(r) = Len(q) - 1
             /\ \A i \in 1..(Len(q) - 1) : r[i] = IF i < k THEN q[i] ELSE q[i + 1]
<1> DEFINE front == SubSeq(q, 1, k - 1)
           back  == SubSeq(q, k + 1, Len(q))
<1>1. front \in Seq(S) /\ Len(front) = k - 1 /\ \A i \in 1..(k - 1) : front[i] = q[i]
  OBVIOUS
<1>2. /\ back \in Seq(S) /\ Len(back) = Len(q) - k
      /\ \A i \in 1..(Len(q) - k) : back[i] = q[i + k]
  OBVIOUS
<1> HIDE DEF front, back
<1>0. Len(q) \in Nat /\ Len(front) + Len(back) = Len(q) - 1
  BY <1>1, <1>2
<1>3. /\ front \o back \in Seq(S) /\ Len(front \o back) = Len(q) - 1
      /\ \A i \in 1..(Len(q) - 1) :
             (front \o back)[i] = IF i <= k - 1 THEN front[i] ELSE back[i - (k - 1)]
  <2>1. /\ front \o back \in Seq(S) /\ Len(front \o back) = Len(front) + Len(back)
        /\ \A i \in 1..(Len(front) + Len(back)) :
               (front \o back)[i] = IF i <= Len(front) THEN front[i] ELSE back[i - Len(front)]
    BY <1>1, <1>2, ConcatFacts
  <2> QED BY <2>1, <1>0, <1>1
<1>4. \A i \in 1..(Len(q) - 1) :
          (front \o back)[i] = IF i < k THEN q[i] ELSE q[i + 1]
  <2> TAKE i \in 1..(Len(q) - 1)
  <2>1. CASE i < k
    BY <2>1, <1>0, <1>1, <1>3
  <2>2. CASE i >= k
    <3>1. i - (k - 1) \in 1..(Len(q) - k) /\ (i - (k - 1)) + k = i + 1
      BY <2>2, <1>0
    <3>2. (front \o back)[i] = back[i - (k - 1)]
      BY <2>2, <1>0, <1>3
    <3>3. back[i - (k - 1)] = q[(i - (k - 1)) + k]
      BY <3>1, <1>2
    <3> QED BY <2>2, <3>1, <3>2, <3>3
  <2> QED BY <2>1, <2>2, <1>0
<1> QED BY <1>3, <1>4 DEF front, back

-----------------------------------------------------------------------------
(* What happens to the queue.                                              *)

LEMMA Joining ==
    ASSUME Safe, NEW t \in Task, pc[t] = "idle",
           pc' = [pc EXCEPT ![t] = "queued"], queue' = Append(queue, t)
    PROVE  LockInv' /\ queue' \in Seq(Task)
<1>1. queue \in Seq(Task) /\ pc \in [Task -> {"idle", "queued", "render"} \cup Collecting]
  BY DEF Safe, TypeOK
<1>2. /\ queue' \in Seq(Task) /\ Len(queue') = Len(queue) + 1
      /\ \A i \in 1..Len(queue) : queue'[i] = queue[i]
      /\ queue'[Len(queue) + 1] = t
  BY <1>1, AppendFacts
<1>3. \A i \in 1..Len(queue) : queue[i] # t /\ queue[i] \in Task
  BY <1>1 DEF Safe, LockInv, InQueue, Collecting
<1>4. \A i, j \in 1..Len(queue') : queue'[i] = queue'[j] => i = j
  BY <1>1, <1>2, <1>3 DEF Safe, LockInv
<1>5. \A i \in 1..Len(queue') : pc'[queue'[i]] \in InQueue
  BY <1>1, <1>2, <1>3 DEF Safe, LockInv, InQueue
<1>6. \A u \in Task : pc'[u] \in InQueue => \E i \in 1..Len(queue') : queue'[i] = u
  <2> SUFFICES ASSUME NEW u \in Task, pc'[u] \in InQueue
               PROVE  \E i \in 1..Len(queue') : queue'[i] = u
    OBVIOUS
  <2>1. CASE u = t
    BY <2>1, <1>1, <1>2
  <2>2. CASE u # t
    <3>1. PICK i \in 1..Len(queue) : queue[i] = u
      BY <2>2, <1>1 DEF Safe, LockInv
    <3> QED BY <3>1, <1>1, <1>2
  <2> QED BY <2>1, <2>2
<1>7. \A u \in Task : pc'[u] \in Collecting => Len(queue') > 0 /\ queue'[1] = u
  BY <1>1, <1>2 DEF Safe, LockInv, Collecting
<1> QED BY <1>1, <1>2, <1>4, <1>5, <1>6, <1>7 DEF LockInv, Safe

\* The holder goes: with EndRefresh, or with nothing to do.
LEMMA Leaving ==
    ASSUME Safe, NEW t \in Task, Len(queue) > 0, queue[1] = t,
           NEW l \in {"idle", "render"}, t = Loop => l = "idle",
           pc' = [pc EXCEPT ![t] = l], queue' = Tail(queue)
    PROVE  LockInv' /\ queue' \in Seq(Task)
<1>1. queue \in Seq(Task) /\ pc \in [Task -> {"idle", "queued", "render"} \cup Collecting]
  BY DEF Safe, TypeOK
<1>2. /\ queue' \in Seq(Task) /\ Len(queue') = Len(queue) - 1
      /\ \A i \in 1..Len(queue') : queue'[i] = queue[i + 1]
  BY <1>1, TailFacts
<1>3. \A i \in 1..Len(queue') : queue[i + 1] # t /\ queue[i + 1] \in Task
  BY <1>1, <1>2 DEF Safe, LockInv
<1>4. \A i, j \in 1..Len(queue') : queue'[i] = queue'[j] => i = j
  BY <1>1, <1>2 DEF Safe, LockInv
<1>5. \A i \in 1..Len(queue') : pc'[queue'[i]] \in InQueue
  BY <1>1, <1>2, <1>3 DEF Safe, LockInv
<1>6. \A u \in Task : pc'[u] \in InQueue => \E i \in 1..Len(queue') : queue'[i] = u
  <2> SUFFICES ASSUME NEW u \in Task, pc'[u] \in InQueue
               PROVE  \E i \in 1..Len(queue') : queue'[i] = u
    OBVIOUS
  <2>1. u # t /\ pc[u] \in InQueue
    BY <1>1 DEF InQueue, Collecting
  <2>2. PICK i \in 1..Len(queue) : queue[i] = u
    BY <2>1 DEF Safe, LockInv
  <2>3. i - 1 \in 1..Len(queue') /\ queue'[i - 1] = u
    BY <2>1, <2>2, <1>1, <1>2
  <2> QED BY <2>3
<1>7. \A u \in Task : pc'[u] \notin Collecting
  BY <1>1 DEF Safe, LockInv, Collecting
<1>8. pc'[Loop] # "render"
  BY <1>1 DEF Safe, LockInv, Task
<1> QED BY <1>2, <1>4, <1>5, <1>6, <1>7, <1>8 DEF LockInv

\* The holder goes on to its next SELECT.
LEMMA Collects ==
    ASSUME Safe, NEW t \in Task, Len(queue) > 0, queue[1] = t, pc[t] \in InQueue,
           NEW l \in Collecting, pc' = [pc EXCEPT ![t] = l], queue' = queue
    PROVE  LockInv'
<1>1. queue \in Seq(Task) /\ pc \in [Task -> {"idle", "queued", "render"} \cup Collecting]
  BY DEF Safe, TypeOK
<1>2. \A u \in Task : pc'[u] = IF u = t THEN l ELSE pc[u]
  BY <1>1
<1>3. \A i \in 1..Len(queue) : queue[i] \in Task
  BY <1>1
<1>4. \A u \in Task : u # t => pc[u] \notin Collecting
  BY DEF Safe, LockInv
<1>5. \A i \in 1..Len(queue') : pc'[queue'[i]] \in InQueue
  BY <1>2, <1>3 DEF Safe, LockInv, InQueue
<1>6. \A u \in Task : pc'[u] \in InQueue => \E i \in 1..Len(queue') : queue'[i] = u
  BY <1>2 DEF Safe, LockInv
<1>7. pc'[Loop] # "render"
  BY <1>2 DEF Safe, LockInv, Task, Collecting
<1> QED BY <1>2, <1>4, <1>5, <1>6, <1>7 DEF LockInv, Safe

\* A task outside of the queue moves outside of it.
LEMMA Outside ==
    ASSUME Safe, NEW s \in Scrape, NEW l \in {"idle", "render"},
           pc[s] \notin InQueue, pc' = [pc EXCEPT ![s] = l], queue' = queue
    PROVE  LockInv'
<1>1. queue \in Seq(Task) /\ pc \in [Task -> {"idle", "queued", "render"} \cup Collecting]
  BY DEF Safe, TypeOK
<1>2. s \in Task /\ s # Loop /\ Loop \in Task
  BY CacheAssumption DEF Task
<1>3. \A u \in Task : pc'[u] = IF u = s THEN l ELSE pc[u]
  BY <1>1, <1>2
<1>4. l \notin InQueue
  BY DEF InQueue, Collecting
<1>5. \A i \in 1..Len(queue) : queue[i] \in Task /\ queue[i] # s
  BY <1>1 DEF Safe, LockInv
<1>6. \A i \in 1..Len(queue') : pc'[queue'[i]] \in InQueue
  BY <1>3, <1>5 DEF Safe, LockInv
<1>7. \A u \in Task : pc'[u] \in InQueue => \E i \in 1..Len(queue') : queue'[i] = u
  BY <1>3, <1>4 DEF Safe, LockInv
<1>8. \A u \in Task : pc'[u] \in Collecting => Len(queue') > 0 /\ queue'[1] = u
  BY <1>3, <1>4 DEF Safe, LockInv, InQueue
<1>9. pc'[Loop] # "render"
  BY <1>2, <1>3 DEF Safe, LockInv
<1> QED BY <1>6, <1>7, <1>8, <1>9 DEF LockInv, Safe

\* A scrape is dropped where it waits, or with the lock.
LEMMA Dropped ==
    ASSUME Safe, NEW s \in Scrape, pc[s] \in InQueue,
           NEW k \in 1..Len(queue), queue[k] = s,
           pc' = [pc EXCEPT ![s] = "idle"],
           queue' \in Seq(Task), Len(queue') = Len(queue) - 1,
           \A i \in 1..(Len(queue) - 1) :
               queue'[i] = IF i < k THEN queue[i] ELSE queue[i + 1]
    PROVE  LockInv'
<1>1. queue \in Seq(Task) /\ pc \in [Task -> {"idle", "queued", "render"} \cup Collecting]
  BY DEF Safe, TypeOK
<1>2. /\ queue' \in Seq(Task) /\ Len(queue') = Len(queue) - 1
      /\ \A i \in 1..Len(queue') : queue'[i] = IF i < k THEN queue[i] ELSE queue[i + 1]
  OBVIOUS
<1>3. s \in Task /\ s # Loop /\ Loop \in Task
  BY CacheAssumption DEF Task
<1>4. \A u \in Task : pc'[u] = IF u = s THEN "idle" ELSE pc[u]
  BY <1>1, <1>3
<1> DEFINE old(i) == IF i < k THEN i ELSE i + 1
<1>a. Len(queue) \in Nat /\ \A i \in 1..Len(queue) : queue[i] \in Task
  BY <1>1
<1>b. \A i, j \in 1..Len(queue) : queue[i] = queue[j] => i = j
  BY DEF Safe, LockInv
<1>c. \A i \in 1..Len(queue') :
          old(i) \in 1..Len(queue) /\ old(i) # k /\ queue'[i] = queue[old(i)]
  BY <1>a, <1>2
<1>d. \A i, j \in 1..Len(queue') : old(i) = old(j) => i = j
  BY <1>a, <1>2
<1> HIDE DEF old
<1>5. \A i \in 1..Len(queue') : queue'[i] # s /\ queue'[i] \in Task
  BY <1>a, <1>b, <1>c
<1>6. \A i, j \in 1..Len(queue') : queue'[i] = queue'[j] => i = j
  BY <1>b, <1>c, <1>d
<1>7. \A i \in 1..Len(queue') : pc'[queue'[i]] \in InQueue
  BY <1>4, <1>5, <1>c DEF Safe, LockInv
<1>8. \A u \in Task : pc'[u] \in InQueue => \E i \in 1..Len(queue') : queue'[i] = u
  <2> SUFFICES ASSUME NEW u \in Task, pc'[u] \in InQueue
               PROVE  \E i \in 1..Len(queue') : queue'[i] = u
    OBVIOUS
  <2>1. u # s /\ pc[u] \in InQueue
    BY <1>4 DEF InQueue, Collecting
  <2>2. PICK i \in 1..Len(queue) : queue[i] = u
    BY <2>1 DEF Safe, LockInv
  <2>3. CASE i < k
    <3>1. i \in 1..Len(queue') /\ queue'[i] = u
      BY <2>2, <2>3, <1>a, <1>2
    <3> QED BY <3>1
  <2>4. CASE i > k
    <3>1. i - 1 \in 1..Len(queue') /\ ~(i - 1 < k) /\ (i - 1) + 1 = i
      BY <2>4, <1>a, <1>2
    <3> QED BY <2>2, <3>1, <1>2
  <2> QED BY <2>1, <2>2, <2>3, <2>4
<1>9. \A u \in Task : pc'[u] \in Collecting => Len(queue') > 0 /\ queue'[1] = u
  <2> SUFFICES ASSUME NEW u \in Task, pc'[u] \in Collecting
               PROVE  Len(queue') > 0 /\ queue'[1] = u
    OBVIOUS
  <2>1. u # s /\ pc[u] \in Collecting
    BY <1>4 DEF Collecting
  <2>2. Len(queue) > 0 /\ queue[1] = u /\ k # 1
    BY <2>1 DEF Safe, LockInv
  <2>3. 1 \in 1..Len(queue') /\ 1 < k
    BY <2>2, <1>a, <1>2
  <2> QED BY <2>2, <2>3, <1>2
<1>10. pc'[Loop] # "render"
  BY <1>3, <1>4 DEF Safe, LockInv
<1> QED BY <1>2, <1>6, <1>7, <1>8, <1>9, <1>10 DEF LockInv

-----------------------------------------------------------------------------
(* The lock holds.                                                         *)

LEMMA SafeInit == Init => Safe
<1> SUFFICES ASSUME Init PROVE Safe
  OBVIOUS
<1>1. Oldest \in Nat /\ StaleAfter + 1 \in Nat
  BY CacheAssumption DEF Oldest, StaleAfter
<1>2. queue = <<>> /\ Len(queue) = 0 /\ queue \in Seq(Task)
  BY DEF Init
<1>3. pc \in [Task -> {"idle"}] /\ Loop \in Task
  BY DEF Init, Task
<1>4. TypeOK
  <2>1. /\ 0 \in 0..MaxBlock /\ 0 \in 0..(StaleAfter + 1) /\ 0 \in 0..Oldest
        /\ 0 \in 0..Delay /\ 0 \in 0..Timeout
    BY <1>1, CacheAssumption
  <2>2. torn \in BOOLEAN /\ success \in BOOLEAN
    BY DEF Init
  <2> QED BY <2>1, <2>2, <1>2, <1>3 DEF Init, TypeOK
<1>5. LockInv
  BY <1>2, <1>3 DEF LockInv, InQueue, Collecting
<1> QED BY <1>4, <1>5 DEF Safe

\* However a refresh ends.
LEMMA Ending ==
    ASSUME Safe, NEW t \in Task, pc[t] \in Collecting, EndRefresh(t)
    PROVE  /\ LockInv' /\ queue' \in Seq(Task)
           /\ pc' \in [Task -> {"idle", "queued", "render"} \cup Collecting]
           /\ timer' \in 0..Delay /\ elapsed' \in 0..Timeout /\ read' \in 0..MaxBlock
<1>1. Len(queue) > 0 /\ queue[1] = t
  BY DEF Safe, LockInv
<1>2. /\ pc \in [Task -> {"idle", "queued", "render"} \cup Collecting]
      /\ timer \in 0..Delay
  BY DEF Safe, TypeOK
<1>3. LockInv' /\ queue' \in Seq(Task)
  <2>1. CASE t = Loop
    BY <2>1, <1>1, Leaving DEF EndRefresh
  <2>2. CASE t # Loop
    BY <2>2, <1>1, Leaving DEF EndRefresh
  <2> QED BY <2>1, <2>2
<1> QED BY <1>2, <1>3, CacheAssumption DEF EndRefresh

LEMMA FailureSafe ==
    ASSUME Safe, NEW t \in Task, pc[t] \in Collecting, RecordFailure(t)
    PROVE  Safe'
BY Ending DEF RecordFailure, Safe, TypeOK

LEMMA SafeNext == Safe /\ [Next]_vars => Safe'
<1> SUFFICES ASSUME Safe, [Next]_vars PROVE Safe'
  OBVIOUS
<1>p. pc \in [Task -> {"idle", "queued", "render"} \cup Collecting] /\ queue \in Seq(Task)
  BY DEF Safe, TypeOK
<1>l. Loop \in Task /\ Scrape \subseteq Task /\ Loop \notin Scrape
  BY CacheAssumption DEF Task
<1>1. CASE IndexRange
  BY <1>1, CacheAssumption DEF IndexRange, Safe, TypeOK, LockInv, stateVars, collectVars
<1>2. CASE RollBack
  BY <1>2, CacheAssumption DEF RollBack, Safe, TypeOK, LockInv, stateVars, collectVars
<1>3. CASE Tick
  <2>1. elapsed' \in 0..Timeout
    BY <1>3, CacheAssumption DEF Tick, Overdue, Safe, TypeOK
  <2>2. age' \in 0..(StaleAfter + 1) /\ dataAge' \in 0..Oldest /\ timer' \in 0..Delay
    BY <1>3, CacheAssumption DEF Tick, Safe, TypeOK, StaleAfter, Oldest
  <2>3. LockInv'
    BY <1>3 DEF Tick, Safe, LockInv
  <2> QED BY <1>3, <2>1, <2>2, <2>3 DEF Tick, Safe, TypeOK, dbVars
<1>4. CASE LoopWakes
  <2>1. LockInv' /\ queue' \in Seq(Task)
    BY <1>4, <1>l, Joining DEF LoopWakes
  <2> QED BY <1>4, <1>l, <1>p, <2>1
       DEF LoopWakes, Safe, TypeOK, dbVars, stateVars, collectVars
<1>5. ASSUME NEW t \in Task, Refresh(t) PROVE Safe'
  <2>1. CASE BeginCollect(t)
    <3>1. Len(queue) > 0 /\ queue[1] = t /\ pc[t] \in InQueue
      <4>1. pc[t] = "queued" /\ Head(queue) = t
        BY <2>1 DEF BeginCollect, Waiting
      <4>2. Len(queue) > 0
        BY <4>1, <1>p DEF Safe, LockInv, InQueue
      <4> QED BY <4>1, <4>2, <1>p, TailFacts DEF InQueue
    <3>2. LockInv'
      BY <3>1, <2>1, Collects DEF BeginCollect, Collecting
    <3> QED BY <2>1, <1>p, <3>2, CacheAssumption
         DEF BeginCollect, Safe, TypeOK, dbVars, stateVars, Collecting
  <2>2. CASE SkipRefresh(t)
    <3>1. Len(queue) > 0 /\ queue[1] = t
      <4>1. pc[t] = "queued" /\ Head(queue) = t
        BY <2>2 DEF SkipRefresh, Waiting
      <4>2. Len(queue) > 0
        BY <4>1, <1>p DEF Safe, LockInv, InQueue
      <4> QED BY <4>1, <4>2, <1>p, TailFacts
    <3>2. LockInv' /\ queue' \in Seq(Task)
      BY <3>1, <2>2, Leaving DEF SkipRefresh
    <3> QED BY <2>2, <1>p, <3>2 DEF SkipRefresh, Safe, TypeOK, dbVars, stateVars, collectVars
  <2>3. CASE ReadCheckpoints(t)
    <3>1. Len(queue) > 0 /\ queue[1] = t /\ pc[t] \in InQueue
      BY <2>3 DEF ReadCheckpoints, Safe, LockInv, InQueue, Collecting
    <3>2. LockInv'
      BY <3>1, <2>3, Collects DEF ReadCheckpoints, Collecting
    <3> QED BY <2>3, <1>p, <3>2 DEF ReadCheckpoints, Safe, TypeOK, stateVars, Collecting
  <2>4. CASE ReadCounts(t)
    <3>1. pc[t] \in Collecting /\ EndRefresh(t)
      BY <2>4 DEF ReadCounts, Collecting
    <3>2. snapshot' \in Snapshot
      BY <2>4 DEF ReadCounts, DbSnapshot, Snapshot, Safe, TypeOK
    <3>3. age' \in 0..(StaleAfter + 1) /\ dataAge' \in 0..Oldest
      BY <2>4, CacheAssumption DEF ReadCounts, Safe, TypeOK, StaleAfter, Oldest
    <3> QED BY <2>4, <3>1, <3>2, <3>3, Ending DEF ReadCounts, Safe, TypeOK
  <2>5. CASE CollectFails(t)
    BY <2>5, FailureSafe DEF CollectFails
  <2>6. CASE TimesOut(t)
    BY <2>6, FailureSafe DEF TimesOut
  <2> QED BY <1>5, <2>1, <2>2, <2>3, <2>4, <2>5, <2>6 DEF Refresh
<1>6. ASSUME NEW s \in Scrape, ScrapeStarts(s) PROVE Safe'
  <2>1. CASE snapshot = NoSnapshot
    <3>1. LockInv' /\ queue' \in Seq(Task)
      BY <1>6, <2>1, <1>l, Joining DEF ScrapeStarts
    <3> QED BY <1>6, <2>1, <1>l, <1>p, <3>1
         DEF ScrapeStarts, Safe, TypeOK, dbVars, stateVars, collectVars
  <2>2. CASE snapshot # NoSnapshot
    <3>1. LockInv'
      BY <1>6, <2>2, <1>l, Outside DEF ScrapeStarts, InQueue, Collecting
    <3> QED BY <1>6, <2>2, <1>l, <1>p, <3>1
         DEF ScrapeStarts, Safe, TypeOK, dbVars, stateVars, collectVars
  <2> QED BY <2>1, <2>2
<1>7. ASSUME NEW s \in Scrape, Render(s) PROVE Safe'
  <2>1. LockInv'
    BY <1>7, Outside DEF Render, InQueue, Collecting
  <2> QED BY <1>7, <1>l, <1>p, <2>1
       DEF Render, Safe, TypeOK, dbVars, stateVars, collectVars
<1>8. ASSUME NEW s \in Scrape, HangUp(s) PROVE Safe'
  <2>1. /\ elapsed' \in 0..Timeout /\ read' \in 0..MaxBlock /\ torn' \in BOOLEAN
        /\ pc' \in [Task -> {"idle", "queued", "render"} \cup Collecting]
    <3>1. CASE pc[s] \in Collecting
      <4>1. elapsed' = 0 /\ read' = 0 /\ torn' = FALSE
        BY <3>1, <1>8 DEF HangUp
      <4>2. 0 \in 0..Timeout /\ 0 \in 0..MaxBlock
        BY CacheAssumption
      <4>3. pc' \in [Task -> {"idle", "queued", "render"} \cup Collecting]
        BY <1>8, <1>p DEF HangUp
      <4> QED BY <4>1, <4>2, <4>3
    <3>2. CASE pc[s] \notin Collecting
      BY <3>2, <1>8, <1>l, <1>p DEF HangUp, Safe, TypeOK
    <3> QED BY <3>1, <3>2
  <2>2. LockInv' /\ queue' \in Seq(Task)
    <3>1. CASE pc[s] = "render"
      BY <3>1, <1>8, <1>p, Outside DEF HangUp, InQueue, Collecting
    <3>2. CASE pc[s] # "render"
      <4>1. pc[s] \in InQueue
        BY <3>2, <1>8, <1>l, <1>p DEF HangUp, InQueue
      <4>2. PICK k \in 1..Len(queue) :
                /\ queue[k] = s
                /\ queue' = SubSeq(queue, 1, k - 1) \o SubSeq(queue, k + 1, Len(queue))
        BY <3>2, <1>8 DEF HangUp
      <4>3. /\ queue' \in Seq(Task) /\ Len(queue') = Len(queue) - 1
            /\ \A i \in 1..(Len(queue) - 1) :
                   queue'[i] = IF i < k THEN queue[i] ELSE queue[i + 1]
        BY <4>2, <1>p, RemoveFacts
      <4>4. pc' = [pc EXCEPT ![s] = "idle"]
        BY <1>8 DEF HangUp
      <4>5. queue[k] = s
        BY <4>2
      <4> QED BY <4>1, <4>3, <4>4, <4>5, Dropped
    <3> QED BY <3>1, <3>2
  <2> QED BY <1>8, <2>1, <2>2 DEF HangUp, Safe, TypeOK, stateVars
<1>9. CASE UNCHANGED vars
  BY <1>9 DEF vars, dbVars, stateVars, collectVars, Safe, TypeOK, LockInv
<1> QED BY <1>1, <1>2, <1>3, <1>4, <1>5, <1>6, <1>7, <1>8, <1>9 DEF Next

-----------------------------------------------------------------------------
(* What a snapshot says.                                                   *)

(***************************************************************************)
(* The checkpoints a collection has read are covered unless a rollback has *)
(* come since.                                                             *)
(***************************************************************************)
ReadInv ==
    (\E t \in Task : pc[t] = "counts") /\ ~torn => read <= indexed

CoverInv == ReadInv /\ SnapshotCoversCheckpoint

LEMMA CoverNext == Safe /\ CoverInv /\ [Next]_vars => CoverInv'
<1> SUFFICES ASSUME Safe, CoverInv, [Next]_vars PROVE CoverInv'
  OBVIOUS
<1>p. /\ pc \in [Task -> {"idle", "queued", "render"} \cup Collecting]
      /\ indexed \in 0..MaxBlock /\ read \in 0..MaxBlock /\ torn \in BOOLEAN
  BY DEF Safe, TypeOK
<1>l. Loop \in Task /\ Scrape \subseteq Task
  BY DEF Task
\* A step that reads nothing keeps to the snapshot it has.
<1>a. ASSUME UNCHANGED <<indexed, snapshot, torn, read>>,
             \A t \in Task : pc'[t] = "counts" => pc[t] = "counts"
      PROVE  CoverInv'
  BY <1>a DEF CoverInv, ReadInv, SnapshotCoversCheckpoint
\* At the end of a refresh nothing is left of what it read.
<1>b. ASSUME UNCHANGED <<indexed, snapshot>>, read' = 0 PROVE CoverInv'
  BY <1>b, <1>p, CacheAssumption DEF CoverInv, ReadInv, SnapshotCoversCheckpoint
<1>1. CASE IndexRange
  BY <1>1, <1>p, CacheAssumption
     DEF IndexRange, CoverInv, ReadInv, SnapshotCoversCheckpoint, stateVars, collectVars
<1>2. CASE RollBack
  BY <1>2, <1>p DEF RollBack, CoverInv, ReadInv, SnapshotCoversCheckpoint, stateVars
<1>3. CASE Tick
  BY <1>3, <1>a DEF Tick, dbVars
<1>4. CASE LoopWakes
  BY <1>4, <1>a, <1>l, <1>p DEF LoopWakes, dbVars, stateVars, collectVars
<1>5. ASSUME NEW t \in Task, Refresh(t) PROVE CoverInv'
  <2>1. CASE BeginCollect(t)
    BY <2>1, <1>a, <1>p DEF BeginCollect, dbVars, stateVars
  <2>2. CASE SkipRefresh(t)
    BY <2>2, <1>a, <1>p DEF SkipRefresh, dbVars, stateVars, collectVars
  <2>3. CASE ReadCheckpoints(t)
    BY <2>3, <1>p DEF ReadCheckpoints, CoverInv, ReadInv, SnapshotCoversCheckpoint, stateVars
  <2>4. CASE ReadCounts(t)
    <3>1. snapshot' = [checkpoint |-> read, count |-> indexed, torn |-> torn]
      BY <2>4 DEF ReadCounts, DbSnapshot
    <3>2. ~torn => read <= indexed
      BY <2>4 DEF ReadCounts, CoverInv, ReadInv
    <3>3. read' = 0 /\ indexed' = indexed
      BY <2>4 DEF ReadCounts, EndRefresh
    <3> QED BY <3>1, <3>2, <3>3, <1>p DEF CoverInv, ReadInv, SnapshotCoversCheckpoint
  <2>5. CASE CollectFails(t)
    BY <2>5, <1>b DEF CollectFails, RecordFailure, EndRefresh
  <2>6. CASE TimesOut(t)
    BY <2>6, <1>b DEF TimesOut, RecordFailure, EndRefresh
  <2> QED BY <1>5, <2>1, <2>2, <2>3, <2>4, <2>5, <2>6 DEF Refresh
<1>6. ASSUME NEW s \in Scrape, ScrapeStarts(s) PROVE CoverInv'
  BY <1>6, <1>a, <1>l, <1>p DEF ScrapeStarts, dbVars, stateVars, collectVars
<1>7. ASSUME NEW s \in Scrape, Render(s) PROVE CoverInv'
  BY <1>7, <1>a, <1>l, <1>p DEF Render, dbVars, stateVars, collectVars
<1>8. ASSUME NEW s \in Scrape, HangUp(s) PROVE CoverInv'
  <2>1. CASE pc[s] \in Collecting
    BY <2>1, <1>8, <1>b DEF HangUp, stateVars
  <2>2. CASE pc[s] \notin Collecting
    BY <2>2, <1>8, <1>a, <1>l, <1>p DEF HangUp, stateVars
  <2> QED BY <2>1, <2>2
<1>9. CASE UNCHANGED vars
  BY <1>9, <1>a DEF vars, dbVars, stateVars, collectVars
<1> QED BY <1>1, <1>2, <1>3, <1>4, <1>5, <1>6, <1>7, <1>8, <1>9 DEF Next

-----------------------------------------------------------------------------
(* How old it is.                                                          *)

(***************************************************************************)
(* The data of a snapshot is older than its age by a collection.  While    *)
(* refreshes work, age and the loop go in step: a delay asleep, no time at *)
(* all waiting for the lock, which no scrape takes once there is a         *)
(* snapshot, and a timeout collecting.                                     *)
(***************************************************************************)
DataInv == snapshot # NoSnapshot => dataAge <= age + Timeout \/ age > StaleAfter

LoopInv ==
    snapshot # NoSnapshot =>
        /\ \A s \in Scrape : pc[s] \notin Collecting
        /\ success => /\ pc[Loop] = "idle" => age + timer <= Delay
                      /\ pc[Loop] = "queued" => age <= Delay
                      /\ pc[Loop] \in Collecting => age <= Delay + elapsed

AgeInv == DataInv /\ LoopInv

LEMMA AgeNext == Safe /\ AgeInv /\ [Next]_vars => AgeInv'
<1> SUFFICES ASSUME Safe, AgeInv, [Next]_vars PROVE AgeInv'
  OBVIOUS
<1>p. /\ pc \in [Task -> {"idle", "queued", "render"} \cup Collecting]
      /\ queue \in Seq(Task)
      /\ age \in Nat /\ dataAge \in Nat /\ timer \in 0..Delay /\ elapsed \in 0..Timeout
  BY CacheAssumption DEF Safe, TypeOK
<1>l. /\ Loop \in Task /\ Scrape \subseteq Task /\ Loop \notin Scrape
      /\ \A t \in Task : t = Loop \/ t \in Scrape
      /\ Delay \in Nat /\ Timeout \in Nat /\ StaleAfter = 3 * Delay
  BY CacheAssumption DEF Task, StaleAfter
\* Nothing about the loop changes, and no scrape begins to collect.
<1>a. ASSUME UNCHANGED <<stateVars, timer>>, pc'[Loop] = pc[Loop],
             pc[Loop] \in Collecting => elapsed' = elapsed,
             snapshot # NoSnapshot =>
                 \A s \in Scrape : pc'[s] \in Collecting => pc[s] \in Collecting
      PROVE  AgeInv'
  BY <1>a DEF AgeInv, DataInv, LoopInv, stateVars
\* A refresh fails.
<1>b. ASSUME UNCHANGED <<snapshot, age, dataAge>>, success' = FALSE,
             \A s \in Scrape : pc'[s] \in Collecting => pc[s] \in Collecting
      PROVE  AgeInv'
  BY <1>b DEF AgeInv, DataInv, LoopInv
<1>1. CASE IndexRange
  BY <1>1, <1>a DEF IndexRange, collectVars
<1>2. CASE RollBack
  BY <1>2, <1>a DEF RollBack, collectVars
<1>3. CASE Tick
  <2>1. CASE snapshot = NoSnapshot
    BY <2>1, <1>3 DEF Tick, AgeInv, DataInv, LoopInv
  <2>2. CASE snapshot # NoSnapshot
    <3>1. DataInv'
      BY <2>2, <1>3, <1>p, <1>l DEF Tick, AgeInv, DataInv
    <3>2. pc[Loop] # "queued"
      <4> SUFFICES ASSUME pc[Loop] = "queued" PROVE FALSE
        OBVIOUS
      <4>1. Len(queue) > 0 /\ queue[1] \in Task /\ pc[queue[1]] \in InQueue
        BY <1>l, <1>p DEF Safe, LockInv, InQueue
      <4>2. pc[queue[1]] \notin Collecting
        BY <2>2, <4>1, <1>l DEF AgeInv, LoopInv, Collecting
      <4>3. Waiting(queue[1])
        BY <4>1, <4>2, <1>p, TailFacts DEF Waiting, InQueue
      <4> QED BY <4>1, <4>3, <1>3 DEF Tick, Overdue
    <3>3. age' \in Nat /\ age' <= age + 1
      BY <1>3, <1>p DEF Tick
    <3>4. pc[Loop] = "idle" => timer' = timer - 1
      BY <1>3, <1>p DEF Tick, Overdue
    <3>5. pc[Loop] \in Collecting => elapsed' = elapsed + 1
      BY <1>3, <1>l DEF Tick
    <3>6. pc' = pc /\ snapshot' = snapshot /\ success' = success
      BY <1>3 DEF Tick
    <3>7. LoopInv'
      BY <2>2, <3>2, <3>3, <3>4, <3>5, <3>6, <1>p, <1>l DEF AgeInv, LoopInv
    <3> QED BY <3>1, <3>7 DEF AgeInv
  <2> QED BY <2>1, <2>2
<1>4. CASE LoopWakes
  <2>1. /\ pc'[Loop] = "queued" /\ pc[Loop] = "idle" /\ timer = 0
        /\ \A s \in Scrape : pc'[s] = pc[s]
        /\ UNCHANGED <<stateVars, collectVars>>
    BY <1>4, <1>l, <1>p DEF LoopWakes
  <2> QED BY <2>1, <1>p, <1>l
       DEF AgeInv, DataInv, LoopInv, stateVars, collectVars, Collecting
<1>5. ASSUME NEW t \in Task, Refresh(t) PROVE AgeInv'
  <2>1. CASE BeginCollect(t)
    <3>1. CASE t = Loop
      <4>1. /\ pc[Loop] = "queued" /\ pc'[Loop] = "checkpoints" /\ elapsed' = 0
            /\ \A s \in Scrape : pc'[s] = pc[s]
            /\ UNCHANGED stateVars
        BY <2>1, <3>1, <1>l, <1>p DEF BeginCollect, Waiting
      <4> QED BY <4>1, <1>p, <1>l DEF AgeInv, DataInv, LoopInv, stateVars, Collecting
    <3>2. CASE t # Loop
      BY <2>1, <3>2 DEF BeginCollect, AgeInv, DataInv, LoopInv, stateVars
    <3> QED BY <3>1, <3>2
  <2>2. CASE SkipRefresh(t)
    BY <2>2, <1>a, <1>l, <1>p DEF SkipRefresh, collectVars, Collecting
  <2>3. CASE ReadCheckpoints(t)
    <3>1. /\ \A u \in Task : pc'[u] \in Collecting <=> pc[u] \in Collecting
          /\ \A u \in Task : pc[u] \notin Collecting => pc'[u] = pc[u]
          /\ UNCHANGED <<stateVars, timer, elapsed>>
      BY <2>3, <1>p DEF ReadCheckpoints, Collecting
    <3>2. pc'[Loop] = "idle" <=> pc[Loop] = "idle"
      BY <3>1, <1>l DEF Collecting
    <3>3. pc'[Loop] = "queued" <=> pc[Loop] = "queued"
      BY <3>1, <1>l DEF Collecting
    <3> QED BY <3>1, <3>2, <3>3, <1>l DEF AgeInv, DataInv, LoopInv, stateVars
  <2>4. CASE ReadCounts(t)
    <3>1. /\ age' = 0 /\ dataAge' = elapsed /\ EndRefresh(t)
          /\ pc[t] \in Collecting
      BY <2>4 DEF ReadCounts, Collecting
    <3>2. \A u \in Task : pc'[u] \notin Collecting
      BY <3>1, <1>p DEF EndRefresh, Safe, LockInv, Collecting
    <3>3. timer' \in 0..Delay
      BY <3>1, <1>p, <1>l DEF EndRefresh
    <3>4. DataInv'
      BY <3>1, <1>p, <1>l DEF DataInv
    <3>5. age' + timer' <= Delay /\ age' <= Delay
      <4>1. \A a, d : a = 0 /\ d \in 0..Delay => a + d <= Delay /\ a <= Delay
        BY <1>l
      <4> QED BY <4>1, <3>1, <3>3, Zenon
    <3>6. LoopInv'
      <4>1. pc'[Loop] \notin Collecting /\ \A s \in Scrape : pc'[s] \notin Collecting
        BY <3>2, <1>l
      <4> QED BY <4>1, <3>5, Zenon DEF LoopInv
    <3> QED BY <3>4, <3>6 DEF AgeInv
  <2>5. CASE CollectFails(t)
    BY <2>5, <1>b, <1>l, <1>p DEF CollectFails, RecordFailure, EndRefresh, Collecting
  <2>6. CASE TimesOut(t)
    BY <2>6, <1>b, <1>l, <1>p DEF TimesOut, RecordFailure, EndRefresh, Collecting
  <2> QED BY <1>5, <2>1, <2>2, <2>3, <2>4, <2>5, <2>6 DEF Refresh
<1>6. ASSUME NEW s \in Scrape, ScrapeStarts(s) PROVE AgeInv'
  BY <1>6, <1>a, <1>l, <1>p DEF ScrapeStarts, collectVars, Collecting
<1>7. ASSUME NEW s \in Scrape, Render(s) PROVE AgeInv'
  BY <1>7, <1>a, <1>l, <1>p DEF Render, collectVars, Collecting
<1>8. ASSUME NEW s \in Scrape, HangUp(s) PROVE AgeInv'
  <2>1. /\ UNCHANGED <<stateVars, timer>> /\ pc'[Loop] = pc[Loop]
        /\ \A u \in Scrape : pc'[u] \in Collecting => pc[u] \in Collecting
    BY <1>8, <1>l, <1>p DEF HangUp, Collecting
  <2>2. pc[Loop] \in Collecting => elapsed' = elapsed
    <3>1. pc[Loop] \in Collecting => pc[s] \notin Collecting
      BY <1>l DEF Safe, LockInv
    <3> QED BY <3>1, <1>8 DEF HangUp
  <2> QED BY <2>1, <2>2, <1>a
<1>9. CASE UNCHANGED vars
  BY <1>9, <1>a DEF vars, collectVars
<1> QED BY <1>1, <1>2, <1>3, <1>4, <1>5, <1>6, <1>7, <1>8, <1>9 DEF Next

-----------------------------------------------------------------------------
(* The theorems.                                                           *)

LEMMA SafeAlways == Spec => []Safe
<1>1. Init => Safe
  BY SafeInit
<1>2. Safe /\ [Next]_vars => Safe'
  BY SafeNext
<1> QED BY <1>1, <1>2, PTL DEF Spec

\* Every state is well typed.
THEOREM TypeCorrect == Spec => []TypeOK
<1>1. Safe => TypeOK
  BY DEF Safe
<1> QED BY <1>1, SafeAlways, PTL

\* The refresh loop and any number of scrapes never query the database at the
\* same time, whatever is cancelled where.
THEOREM OneAtATime == Spec => []OneCollection
<1>1. Safe => OneCollection
  BY DEF Safe, LockInv, OneCollection
<1> QED BY <1>1, SafeAlways, PTL

\* The two SELECTs are not one transaction, but their order keeps a snapshot
\* from showing a checkpoint without the rows below it.
THEOREM SnapshotsCover == Spec => []SnapshotCoversCheckpoint
<1>1. Init => CoverInv
  BY CacheAssumption DEF Init, CoverInv, ReadInv, SnapshotCoversCheckpoint
<1>2. CoverInv => SnapshotCoversCheckpoint
  BY DEF CoverInv
<1> QED BY <1>1, <1>2, SafeAlways, CoverNext, PTL DEF Spec

LEMMA AgeAlways == Spec => [](Safe /\ AgeInv)
<1>1. Init => AgeInv
  BY DEF Init, AgeInv, DataInv, LoopInv
<1> QED BY <1>1, SafeAlways, AgeNext, PTL DEF Spec

\* What is not called stale is no older than the threshold and one timeout.
THEOREM FreshIsRecent == Spec => []FreshMeansRecent
<1>1. Safe /\ AgeInv => FreshMeansRecent
  BY CacheAssumption
     DEF Safe, TypeOK, AgeInv, DataInv, FreshMeansRecent, Stale, StaleAfter, Oldest
<1> QED BY <1>1, AgeAlways, PTL

\* With a timeout of at most two delays, a stale snapshot means that the last
\* refresh failed.
THEOREM StaleMeansFailure == Spec => []StaleOnlyAfterFailure
<1>1. ASSUME Safe, AgeInv PROVE StaleOnlyAfterFailure
  <2> SUFFICES ASSUME Timeout <= 2 * Delay, snapshot # NoSnapshot, success
               PROVE  age <= StaleAfter
    <3>1. age \in Nat /\ StaleAfter \in Nat
      BY <1>1, CacheAssumption DEF Safe, TypeOK, StaleAfter
    <3>2. age <= StaleAfter => ~(age > StaleAfter)
      BY <3>1
    <3> QED BY <3>2, Zenon DEF StaleOnlyAfterFailure, Stale
  <2>1. /\ pc[Loop] \in {"idle", "queued"} \cup Collecting
        /\ timer \in 0..Delay /\ elapsed \in 0..Timeout /\ age \in Nat
    BY <1>1, CacheAssumption DEF Safe, TypeOK, LockInv, Task, StaleAfter
  <2>2. CASE pc[Loop] = "idle"
    BY <1>1, <2>1, <2>2, CacheAssumption DEF AgeInv, LoopInv, StaleAfter
  <2>3. CASE pc[Loop] = "queued"
    BY <1>1, <2>1, <2>3, CacheAssumption DEF AgeInv, LoopInv, StaleAfter
  <2>4. CASE pc[Loop] \in Collecting
    BY <1>1, <2>1, <2>4, CacheAssumption DEF AgeInv, LoopInv, StaleAfter
  <2> QED BY <2>1, <2>2, <2>3, <2>4
<1> QED BY <1>1, AgeAlways, PTL
=============================================================================
