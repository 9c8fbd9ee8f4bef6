---------------------------- MODULE OutboxProofs ----------------------------
(***************************************************************************)
(* Proofs about Outbox.tla, for any number of events and instances, any    *)
(* batch size and any number of attempts.                                  *)
(***************************************************************************)
EXTENDS Outbox, TLAPS

-----------------------------------------------------------------------------
(* A topic has at most two queues.                                         *)
LEMMA RouteFacts ==
  ASSUME NEW k \in Keys
  PROVE  /\ Len(Route(k)) \in 0..2
         /\ DOMAIN Route(k) = 1..Len(Route(k))
         /\ \A x \in 1..Len(Route(k)) : Route(k)[x] \in Queues
         /\ Route(k) = << >> <=> Len(Route(k)) = 0
<1>0. Route(k) \in {<< >>, <<"notification-fanout">>, <<"email">>,
                    <<"notification-fanout", "live-recording">>,
                    <<"notification-fanout", "gamification-outbox">>,
                    <<"gamification-outbox">>, <<"ai-grading">>,
                    <<"telegram">>, <<"push">>}
  BY DEF Route, QueuesOf
<1>1. \/ Route(k) = << >>
      \/ \E a \in Queues : Route(k) = <<a>>
      \/ \E a, b \in Queues : Route(k) = <<a, b>>
  <2>1. Queues = {"notification-fanout", "email", "live-recording",
                  "gamification-outbox", "ai-grading", "telegram", "push"}
    BY DEF Queues
  <2> QED
    BY <1>0, <2>1
<1>2. CASE Route(k) = << >>
  BY <1>2
<1>3. CASE \E a \in Queues : Route(k) = <<a>>
  BY <1>3
<1>4. CASE \E a, b \in Queues : Route(k) = <<a, b>>
  BY <1>4
<1> QED
  BY <1>1, <1>2, <1>3, <1>4

-----------------------------------------------------------------------------
LEMMA TypeInit == Init => TypeOK
BY LimitsAssumption DEF Init, TypeOK, Free, Batch, Work

LEMMA RowTyped ==
  ASSUME TypeOK, NEW n \in Instances, NEW r \in disp[n].todo
  PROVE  r \in Row /\ r.key \in Keys /\ r.attempt \in 0..(MaxAttempts - 1)
BY DEF TypeOK, Work, Row

LEMMA WorkTyped ==
  ASSUME TypeOK, NEW n \in Instances
  PROVE  /\ disp[n] \in Work
         /\ \A c \in Work : [disp EXCEPT ![n] = c] \in [Instances -> Work]
         /\ \A t \in SUBSET Row : Batch(t) \in Work
         /\ \A x \in 0..2 : [disp[n] EXCEPT !.sent = x] \in Work
         /\ [disp[n] EXCEPT !.failing = TRUE] \in Work
<1>1. disp[n] \in Work /\ \A c \in Work : [disp EXCEPT ![n] = c] \in [Instances -> Work]
  BY DEF TypeOK
<1>2. \A t \in SUBSET Row : Batch(t) \in Work
  BY DEF Work, Batch
<1>3. /\ \A x \in 0..2 : [disp[n] EXCEPT !.sent = x] \in Work
      /\ [disp[n] EXCEPT !.failing = TRUE] \in Work
  BY <1>1 DEF Work
<1> QED
  BY <1>1, <1>2, <1>3

LEMMA NextRowTyped ==
  ASSUME TypeOK, NEW n \in Instances, NEW r, NextRow(n, r)
  PROVE  disp' \in [Instances -> Work]
<1>1. disp[n].todo \ {r} \in SUBSET Row
  BY WorkTyped DEF Work
<1> QED
  BY <1>1, WorkTyped DEF NextRow

(* The queue that is tried next, and the number of queues tried then.      *)
LEMMA NextQueueTyped ==
  ASSUME TypeOK, NEW n \in Instances, NEW r \in disp[n].todo,
         disp[n].sent < Len(Route(r.key))
  PROVE  /\ disp[n].sent + 1 \in 0..2
         /\ Route(r.key)[disp[n].sent + 1] \in Queues
         /\ [queued EXCEPT ![r.key] = @ \cup {Route(r.key)[disp[n].sent + 1]}]
               \in [Keys -> SUBSET Queues]
<1>1. disp[n].sent \in 0..2
  BY WorkTyped DEF Work
<1>2. Len(Route(r.key)) \in 0..2 /\ \A x \in 1..Len(Route(r.key)) : Route(r.key)[x] \in Queues
  BY RowTyped, RouteFacts
<1>3. disp[n].sent + 1 \in 1..Len(Route(r.key)) /\ disp[n].sent + 1 \in 0..2
  BY <1>1, <1>2
<1>4. Route(r.key)[disp[n].sent + 1] \in Queues
  BY <1>2, <1>3
<1> QED
  BY <1>3, <1>4, RowTyped DEF TypeOK

LEMMA TypeStep == TypeOK /\ [Next]_vars => TypeOK'
<1> SUFFICES ASSUME TypeOK, [Next]_vars PROVE TypeOK'
  OBVIOUS
<1>1. ASSUME NEW k \in Keys, Create(k) \/ BackoffOver(k) PROVE TypeOK'
  BY <1>1 DEF TypeOK, Create, BackoffOver
<1>2. ASSUME NEW n \in Instances, Poll(n) PROVE TypeOK'
  <2>1. Snapshot \in SUBSET Row
    BY DEF Snapshot, Pending, Row, TypeOK
  <2>2. disp' \in [Instances -> Work]
    BY <1>2, <2>1, WorkTyped DEF Poll
  <2> QED
    BY <1>2, <2>2 DEF Poll, TypeOK
<1>3. ASSUME NEW n \in Instances, PollAborted(n) PROVE TypeOK'
  BY <1>3 DEF TypeOK, PollAborted, Free, Batch, Work
<1>4. ASSUME NEW n \in Instances, NEW r \in disp[n].todo,
             NoRoute(n, r) \/ MarkDispatched(n, r)
      PROVE  TypeOK'
  BY <1>4, RowTyped, NextRowTyped DEF TypeOK, NoRoute, MarkDispatched
<1>5. ASSUME NEW n \in Instances, NEW r \in disp[n].todo, Enqueue(n, r)
      PROVE  TypeOK'
  <2>1. disp' = [disp EXCEPT ![n] = [disp[n] EXCEPT !.sent = disp[n].sent + 1]]
    BY <1>5 DEF Enqueue
  <2>2. disp[n].sent < Len(Route(r.key))
    BY <1>5 DEF Enqueue
  <2>3. queued' \in [Keys -> SUBSET Queues]
    BY <1>5, <2>2, NextQueueTyped DEF Enqueue
  <2>4. disp' \in [Instances -> Work]
    BY <2>1, <2>2, NextQueueTyped, WorkTyped
  <2> QED
    BY <1>5, <2>3, <2>4 DEF Enqueue, TypeOK
<1>6. ASSUME NEW n \in Instances, NEW r \in disp[n].todo, EnqueueFails(n, r)
      PROVE  TypeOK'
  <2>1. disp' = [disp EXCEPT ![n] = [disp[n] EXCEPT !.failing = TRUE]]
    BY <1>6 DEF EnqueueFails
  <2>2. queued' \in [Keys -> SUBSET Queues]
    <3>1. disp[n].sent < Len(Route(r.key))
      BY <1>6 DEF EnqueueFails
    <3>2. CASE UNCHANGED queued
      BY <3>2 DEF TypeOK
    <3>3. CASE queued' = [queued EXCEPT ![r.key] = @ \cup {Route(r.key)[disp[n].sent + 1]}]
      BY <3>1, <3>3, NextQueueTyped
    <3> QED
      BY <1>6, <3>2, <3>3 DEF EnqueueFails
  <2>3. disp' \in [Instances -> Work]
    BY <2>1, WorkTyped
  <2> QED
    BY <1>6, <2>2, <2>3 DEF EnqueueFails, TypeOK
<1>7. ASSUME NEW n \in Instances, NEW r \in disp[n].todo, MarkDispatchedFails(n, r)
      PROVE  TypeOK'
  <2>1. disp' = [disp EXCEPT ![n] = [disp[n] EXCEPT !.failing = TRUE]]
    BY <1>7 DEF MarkDispatchedFails
  <2>2. disp' \in [Instances -> Work]
    BY <2>1, WorkTyped
  <2> QED
    BY <1>7, <2>2, RowTyped DEF MarkDispatchedFails, TypeOK
<1>8. ASSUME NEW n \in Instances, NEW r \in disp[n].todo, RecordFailure(n, r)
      PROVE  TypeOK'
  <2> USE LimitsAssumption
  <2>1. r.key \in Keys /\ r.attempt \in 0..(MaxAttempts - 1)
    BY RowTyped
  <2>2. failures' \in [Keys -> 0..MaxAttempts]
    <3>1. \A x \in 0..MaxAttempts : (IF x < MaxAttempts THEN x + 1 ELSE x) \in 0..MaxAttempts
      OBVIOUS
    <3> QED
      BY <1>8, <2>1, <3>1 DEF RecordFailure, GiveUpAt, TypeOK
  <2>3. attempt' \in [Keys -> 0..(MaxAttempts - 1)]
    <3>1. CASE UNCHANGED attempt
      BY <3>1 DEF TypeOK
    <3>2. CASE /\ attempt' = [attempt EXCEPT ![r.key] = r.attempt + 1]
               /\ ~(r.attempt + 1 >= MaxAttempts)
      <4>1. r.attempt + 1 \in 0..(MaxAttempts - 1)
        BY <2>1, <3>2
      <4> QED
        BY <3>2, <4>1 DEF TypeOK
    <3> QED
      BY <1>8, <3>1, <3>2 DEF RecordFailure, GiveUpAt
  <2>4. disp' \in [Instances -> Work]
    BY <1>8, NextRowTyped DEF RecordFailure, GiveUpAt
  <2> QED
    BY <1>8, <2>1, <2>2, <2>3, <2>4 DEF RecordFailure, GiveUpAt, TypeOK
<1>9. CASE UNCHANGED vars
  BY <1>9 DEF TypeOK, vars
<1> QED
  BY <1>1, <1>2, <1>3, <1>4, <1>5, <1>6, <1>7, <1>8, <1>9 DEF Next

(* The type invariant of the dispatcher holds in every reachable state; an *)
(* attempt number never reaches the limit.                                 *)
THEOREM TypeCorrect == Spec => []TypeOK
BY TypeInit, TypeStep, PTL DEF Spec

-----------------------------------------------------------------------------
(* Counting failures: an attempt number, in a row or in a snapshot, never  *)
(* exceeds the failures there were.                                        *)
FailuresCounted ==
  /\ \A k \in Keys : attempt[k] <= failures[k]
  /\ \A n \in Instances : \A r \in disp[n].todo : r.attempt <= failures[r.key]
  /\ DeadLetterEarned

LEMMA FailuresGrow ==
  ASSUME TypeOK, [Next]_vars, NEW k \in Keys
  PROVE  failures[k] <= failures'[k]
<1>1. failures[k] \in 0..MaxAttempts
  BY DEF TypeOK
<1>2. ASSUME NEW n \in Instances, NEW r \in disp[n].todo, RecordFailure(n, r)
      PROVE  failures[k] <= failures'[k]
  BY <1>1, <1>2, RowTyped DEF RecordFailure, GiveUpAt, TypeOK
<1>3. CASE UNCHANGED failures
  BY <1>1, <1>3
<1> QED
  BY <1>2, <1>3 DEF Next, vars, Create, BackoffOver, Poll, PollAborted, NoRoute,
     Enqueue, EnqueueFails, MarkDispatched, MarkDispatchedFails

(* Where the rows of a snapshot come from.                                 *)
LEMMA TodoChange ==
  ASSUME TypeOK, [Next]_vars, NEW n \in Instances, NEW q \in disp'[n].todo
  PROVE  \/ q \in disp[n].todo
         \/ q.key \in Keys /\ q.attempt = attempt[q.key] /\ status[q.key] = "PENDING"
<1>1. ASSUME NEW m \in Instances, Poll(m)
      PROVE  \/ q \in disp[n].todo
             \/ q.key \in Keys /\ q.attempt = attempt[q.key] /\ status[q.key] = "PENDING"
  <2>1. CASE m = n
    <3>1. q \in Snapshot
      BY <1>1, <2>1 DEF Poll, Batch, TypeOK
    <3> QED
      BY <3>1 DEF Snapshot, Pending, TypeOK
  <2>2. CASE m # n
    BY <1>1, <2>2 DEF Poll, TypeOK
  <2> QED
    BY <2>1, <2>2
<1>2. ASSUME NEW m \in Instances, NEW r, NextRow(m, r) PROVE q \in disp[n].todo
  BY <1>2 DEF NextRow, Batch, TypeOK
<1>3. ASSUME NEW m \in Instances, PollAborted(m) PROVE q \in disp[n].todo
  BY <1>3 DEF PollAborted, Free, Batch, TypeOK
<1>4. ASSUME NEW m \in Instances, NEW r \in disp[m].todo,
             Enqueue(m, r) \/ EnqueueFails(m, r) \/ MarkDispatchedFails(m, r)
      PROVE  q \in disp[n].todo
  <2>1. CASE m # n
    BY <1>4, <2>1 DEF Enqueue, EnqueueFails, MarkDispatchedFails, TypeOK
  <2>2. CASE m = n
    <3>1. \/ disp'[n] = [disp[n] EXCEPT !.sent = @ + 1]
          \/ disp'[n] = [disp[n] EXCEPT !.failing = TRUE]
      BY <1>4, <2>2 DEF Enqueue, EnqueueFails, MarkDispatchedFails, TypeOK
    <3>2. disp'[n].todo = disp[n].todo
      BY <3>1, WorkTyped DEF Work
    <3> QED
      BY <3>2
  <2> QED
    BY <2>1, <2>2
<1>5. CASE UNCHANGED disp
  BY <1>5
<1> QED
  BY <1>1, <1>2, <1>3, <1>4, <1>5
     DEF Next, vars, Create, BackoffOver, NoRoute, MarkDispatched, RecordFailure,
         GiveUpAt

LEMMA FailuresStep == TypeOK /\ FailuresCounted /\ [Next]_vars => FailuresCounted'
<1> SUFFICES ASSUME TypeOK, FailuresCounted, [Next]_vars PROVE FailuresCounted'
  OBVIOUS
<1> USE LimitsAssumption
<1>0. TypeOK'
  BY TypeStep
<1>1. ASSUME NEW k \in Keys
      PROVE  /\ attempt[k] \in Nat /\ failures[k] \in 0..MaxAttempts
             /\ attempt'[k] \in Nat /\ failures'[k] \in 0..MaxAttempts
             /\ failures[k] <= failures'[k]
  BY <1>0, FailuresGrow DEF TypeOK
<1>2. ASSUME NEW n \in Instances, NEW r \in disp[n].todo, RecordFailure(n, r)
      PROVE  /\ r.key \in Keys
             /\ r.attempt + 1 <= failures'[r.key]
             /\ attempt'[r.key] \in {attempt[r.key], r.attempt + 1}
             /\ \A k \in Keys \ {r.key} : attempt'[k] = attempt[k] /\ status'[k] = status[k]
             /\ status'[r.key] = "DEAD_LETTER" /\ status[r.key] # "DEAD_LETTER" =>
                  failures'[r.key] >= MaxAttempts
  <2>1. /\ r.key \in Keys /\ r.attempt \in 0..(MaxAttempts - 1)
        /\ r.attempt <= failures[r.key] /\ failures[r.key] \in 0..MaxAttempts
    BY <1>1, RowTyped DEF FailuresCounted
  <2>2. failures'[r.key] = IF failures[r.key] < MaxAttempts
                           THEN failures[r.key] + 1 ELSE failures[r.key]
    BY <1>2, <2>1 DEF RecordFailure, GiveUpAt, TypeOK
  <2>3. r.attempt + 1 <= failures'[r.key]
    BY <2>1, <2>2
  <2>4. /\ attempt'[r.key] \in {attempt[r.key], r.attempt + 1}
        /\ \A k \in Keys \ {r.key} : attempt'[k] = attempt[k] /\ status'[k] = status[k]
        /\ status'[r.key] # status[r.key] => r.attempt + 1 >= MaxAttempts
    BY <1>2, <2>1 DEF RecordFailure, GiveUpAt, TypeOK
  <2> QED
    BY <1>1, <2>1, <2>3, <2>4
<1>3. ASSUME NEW k \in Keys PROVE attempt'[k] <= failures'[k]
  <2>1. CASE UNCHANGED attempt
    BY <1>1, <2>1 DEF FailuresCounted
  <2>2. ASSUME NEW n \in Instances, NEW r \in disp[n].todo, RecordFailure(n, r)
        PROVE  attempt'[k] <= failures'[k]
    BY <1>1, <1>2, <2>2 DEF FailuresCounted
  <2> QED
    BY <2>1, <2>2 DEF Next, vars, Create, BackoffOver, Poll, PollAborted, NoRoute,
       Enqueue, EnqueueFails, MarkDispatched, MarkDispatchedFails
<1>4. ASSUME NEW n \in Instances, NEW q \in disp'[n].todo
      PROVE  q.attempt <= failures'[q.key]
  <2>1. q.key \in Keys /\ q.attempt \in Nat
    BY <1>0 DEF TypeOK, Work, Row
  <2>2. q.attempt <= failures[q.key]
    BY TodoChange DEF FailuresCounted
  <2> QED
    BY <1>1, <2>1, <2>2
<1>5. DeadLetterEarned'
  <2> SUFFICES ASSUME NEW k \in Keys, status'[k] = "DEAD_LETTER", Route(k) # << >>
               PROVE  failures'[k] >= MaxAttempts
    BY DEF DeadLetterEarned, Route
  <2>1. CASE status[k] = "DEAD_LETTER"
    BY <1>1, <2>1 DEF FailuresCounted, DeadLetterEarned
  <2>2. CASE status[k] # "DEAD_LETTER"
    <3>1. ASSUME NEW n \in Instances, NEW r \in disp[n].todo, NoRoute(n, r) PROVE FALSE
      BY <2>2, <3>1, RowTyped DEF NoRoute, TypeOK
    <3>2. ASSUME NEW n \in Instances, NEW r \in disp[n].todo,
                 MarkDispatched(n, r) \/ MarkDispatchedFails(n, r)
          PROVE  FALSE
      BY <2>2, <3>2, RowTyped DEF MarkDispatched, MarkDispatchedFails, TypeOK
    <3>3. ASSUME NEW n \in Instances, NEW r \in disp[n].todo, RecordFailure(n, r)
          PROVE  failures'[k] >= MaxAttempts
      BY <1>2, <2>2, <3>3
    <3>4. ASSUME NEW j \in Keys, Create(j) PROVE FALSE
      BY <2>2, <3>4 DEF Create, TypeOK
    <3>5. CASE UNCHANGED status
      BY <2>2, <3>5
    <3> QED
      BY <3>1, <3>2, <3>3, <3>4, <3>5
         DEF Next, vars, BackoffOver, Poll, PollAborted, Enqueue, EnqueueFails
  <2> QED
    BY <2>1, <2>2
<1> QED
  BY <1>3, <1>4, <1>5 DEF FailuresCounted

(* An event that has queues is never given up early, however many          *)
(* dispatchers count its failures from however old snapshots.              *)
THEOREM DeadLettersEarned == Spec => []DeadLetterEarned
<1>1. Init => FailuresCounted
  BY DEF Init, FailuresCounted, DeadLetterEarned, Free, Batch
<1>2. FailuresCounted => DeadLetterEarned
  BY DEF FailuresCounted
<1> QED
  BY <1>1, <1>2, FailuresStep, TypeCorrect, PTL DEF Spec

-----------------------------------------------------------------------------
(* The fan-out: the queues an instance counts as sent have the job.        *)
SentTo(n, k) ==
  /\ disp[n].sent <= Len(Route(k))
  /\ \A x \in 1..disp[n].sent : Route(k)[x] \in queued[k]

SentMeansQueued ==
  /\ \A n \in Instances : \A r \in disp[n].todo : At(n, r) => SentTo(n, r.key)
  /\ DispatchedMeansQueued

LEMMA QueuedGrows ==
  ASSUME TypeOK, [Next]_vars, NEW k \in Keys
  PROVE  queued[k] \subseteq queued'[k]
<1>1. ASSUME NEW n \in Instances, NEW r \in disp[n].todo,
             Enqueue(n, r) \/ EnqueueFails(n, r)
      PROVE  queued[k] \subseteq queued'[k]
  BY <1>1, RowTyped DEF Enqueue, EnqueueFails, TypeOK
<1>2. CASE UNCHANGED queued
  BY <1>2
<1> QED
  BY <1>1, <1>2 DEF Next, vars, Create, BackoffOver, Poll, PollAborted, NoRoute,
     MarkDispatched, MarkDispatchedFails, RecordFailure, GiveUpAt

(* How the work of an instance may change.                                 *)
LEMMA WorkChange ==
  ASSUME TypeOK, [Next]_vars, NEW n \in Instances
  PROVE  \/ disp'[n].sent = 0
         \/ disp'[n].sent = disp[n].sent /\ disp'[n].todo = disp[n].todo
         \/ /\ disp'[n].sent = disp[n].sent + 1 /\ disp'[n].todo = disp[n].todo
            /\ \E r \in disp[n].todo : Enqueue(n, r)
<1>1. ASSUME NEW m \in Instances, NEW rows, disp' = [disp EXCEPT ![m] = Batch(rows)]
      PROVE  disp'[n].sent = 0 \/ disp'[n] = disp[n]
  BY <1>1 DEF Batch, TypeOK
<1>2. ASSUME NEW m \in Instances, NEW r \in disp[m].todo, Enqueue(m, r)
      PROVE  \/ disp'[n] = disp[n]
             \/ /\ disp'[n].sent = disp[n].sent + 1 /\ disp'[n].todo = disp[n].todo
                /\ m = n
  <2>1. CASE m # n
    BY <1>2, <2>1 DEF Enqueue, TypeOK
  <2>2. CASE m = n
    <3>1. disp'[n] = [disp[n] EXCEPT !.sent = @ + 1]
      BY <1>2, <2>2 DEF Enqueue, TypeOK
    <3> QED
      BY <2>2, <3>1, WorkTyped DEF Work
  <2> QED
    BY <2>1, <2>2
<1>3. ASSUME NEW m \in Instances, disp' = [disp EXCEPT ![m].failing = TRUE]
      PROVE  disp'[n].sent = disp[n].sent /\ disp'[n].todo = disp[n].todo
  <2>1. CASE m # n
    BY <1>3, <2>1 DEF TypeOK
  <2>2. CASE m = n
    <3>1. disp'[n] = [disp[n] EXCEPT !.failing = TRUE]
      BY <1>3, <2>2 DEF TypeOK
    <3> QED
      BY <3>1, WorkTyped DEF Work
  <2> QED
    BY <2>1, <2>2
<1>4. ASSUME NEW m \in Instances, NEW r \in disp[m].todo,
             EnqueueFails(m, r) \/ MarkDispatchedFails(m, r)
      PROVE  disp'[n].sent = disp[n].sent /\ disp'[n].todo = disp[n].todo
  BY <1>3, <1>4 DEF EnqueueFails, MarkDispatchedFails
<1>5. ASSUME NEW m \in Instances, NEW r \in disp[m].todo,
             NoRoute(m, r) \/ MarkDispatched(m, r) \/ RecordFailure(m, r)
      PROVE  disp'[n].sent = 0 \/ disp'[n] = disp[n]
  BY <1>1, <1>5 DEF NoRoute, MarkDispatched, RecordFailure, GiveUpAt, NextRow
<1>6. ASSUME NEW m \in Instances, Poll(m) \/ PollAborted(m)
      PROVE  disp'[n].sent = 0 \/ disp'[n] = disp[n]
  BY <1>1, <1>6 DEF Poll, PollAborted, Free
<1>7. CASE UNCHANGED disp
  BY <1>7
<1> QED
  BY <1>2, <1>4, <1>5, <1>6, <1>7 DEF Next, vars, Create, BackoffOver

LEMMA SentStep == TypeOK /\ SentMeansQueued /\ [Next]_vars => SentMeansQueued'
<1> SUFFICES ASSUME TypeOK, SentMeansQueued, [Next]_vars PROVE SentMeansQueued'
  OBVIOUS
<1>0. TypeOK'
  BY TypeStep
<1>1. ASSUME NEW n \in Instances, NEW q \in disp'[n].todo, At(n, q)'
      PROVE  SentTo(n, q.key)'
  <2>1. q.key \in Keys /\ disp[n].sent \in 0..2 /\ disp'[n].sent \in 0..2
    BY <1>0 DEF TypeOK, Work, Row
  <2>2. Len(Route(q.key)) \in 0..2
    BY <2>1, RouteFacts
  <2>3. CASE disp'[n].sent = 0
    BY <2>2, <2>3 DEF SentTo, Route
  <2>4. CASE disp'[n].sent = disp[n].sent /\ disp'[n].todo = disp[n].todo
    <3>1. SentTo(n, q.key)
      BY <1>1, <2>4 DEF At, SentMeansQueued
    <3> QED
      BY <2>1, <2>4, <3>1, QueuedGrows DEF SentTo, Route
  <2>5. ASSUME disp'[n].sent = disp[n].sent + 1, disp'[n].todo = disp[n].todo,
               NEW r \in disp[n].todo, Enqueue(n, r)
        PROVE  SentTo(n, q.key)'
    <3>1. At(n, q) /\ At(n, r)
      BY <1>1, <2>5 DEF At, Enqueue, Trying
    <3>2. r.key = q.key
      <4>1. r.key \in Nat /\ q.key \in Nat /\ r.key <= q.key /\ q.key <= r.key
        BY <2>1, <3>1, RowTyped, KeysAssumption DEF At
      <4> QED
        BY <4>1
    <3>3. SentTo(n, q.key)
      BY <2>5, <3>1 DEF SentMeansQueued
    <3>4. /\ disp[n].sent < Len(Route(q.key))
          /\ Route(q.key)[disp[n].sent + 1] \in queued'[q.key]
      BY <2>1, <2>5, <3>2 DEF Enqueue, TypeOK
    <3>5. \A x \in 1..disp'[n].sent : Route(q.key)[x] \in queued'[q.key]
      <4> TAKE x \in 1..disp'[n].sent
      <4>1. x = disp[n].sent + 1 \/ x \in 1..disp[n].sent
        BY <2>1, <2>5
      <4> QED
        BY <2>1, <3>3, <3>4, <4>1, QueuedGrows DEF SentTo
    <3>6. disp'[n].sent <= Len(Route(q.key))
      BY <2>1, <2>2, <2>5, <3>4
    <3> QED
      BY <3>5, <3>6 DEF SentTo, Route
  <2> QED
    BY <2>3, <2>4, <2>5, WorkChange
<1>2. ASSUME NEW k \in Keys, status'[k] = "DISPATCHED"
      PROVE  ToSet(Route(k)) \subseteq queued'[k]
  <2>1. CASE status[k] = "DISPATCHED"
    BY <2>1, QueuedGrows DEF SentMeansQueued, DispatchedMeansQueued
  <2>2. CASE status[k] # "DISPATCHED"
    <3>1. ASSUME NEW n \in Instances, NEW r \in disp[n].todo,
                 MarkDispatched(n, r) \/ MarkDispatchedFails(n, r)
          PROVE  ToSet(Route(k)) \subseteq queued'[k]
      <4>1. r.key = k
        BY <1>2, <2>2, <3>1, RowTyped DEF MarkDispatched, MarkDispatchedFails, TypeOK
      <4>2. disp[n].sent = Len(Route(k)) /\ SentTo(n, k)
        BY <3>1, <4>1 DEF MarkDispatched, MarkDispatchedFails, AllSent, Trying,
                         SentMeansQueued
      <4>3. \A x \in DOMAIN Route(k) : Route(k)[x] \in queued[k]
        BY <4>2, RouteFacts DEF SentTo
      <4> QED
        BY <4>3, QueuedGrows DEF ToSet
    <3>2. ASSUME NEW n \in Instances, NEW r \in disp[n].todo,
                 NoRoute(n, r) \/ RecordFailure(n, r)
          PROVE  FALSE
      BY <1>2, <2>2, <3>2, RowTyped DEF NoRoute, RecordFailure, GiveUpAt, TypeOK
    <3>3. ASSUME NEW j \in Keys, Create(j) PROVE FALSE
      BY <1>2, <2>2, <3>3 DEF Create, TypeOK
    <3>4. ~UNCHANGED status
      BY <1>2, <2>2
    <3> QED
      BY <3>1, <3>2, <3>3, <3>4
         DEF Next, vars, BackoffOver, Poll, PollAborted, Enqueue, EnqueueFails
  <2> QED
    BY <2>1, <2>2
<1>3. DispatchedMeansQueued'
  BY <1>2 DEF DispatchedMeansQueued, Route
<1> QED
  BY <1>1, <1>3 DEF SentMeansQueued

(* An event marked DISPATCHED has reached all its queues, although its     *)
(* fan-out may fail half-way, be repeated and run twice at once.           *)
THEOREM DispatchedQueued == Spec => []DispatchedMeansQueued
<1>1. Init => SentMeansQueued
  BY DEF Init, SentMeansQueued, DispatchedMeansQueued, Free, Batch
<1>2. SentMeansQueued => DispatchedMeansQueued
  BY DEF SentMeansQueued
<1> QED
  BY <1>1, <1>2, SentStep, TypeCorrect, PTL DEF Spec

-----------------------------------------------------------------------------
(* The promise of EventLedger.tla.  Work is only done on rows that were    *)
(* inserted, and only a hand-over, of a row with a route, can fail.        *)
WorkOnInserted ==
  /\ \A n \in Instances : \A r \in disp[n].todo : status[r.key] # "NONE"
  /\ \A n \in Instances : \A r \in disp[n].todo :
       At(n, r) /\ disp[n].failing => Route(r.key) # << >>

LEMMA InsertedStays ==
  ASSUME TypeOK, [Next]_vars, NEW k \in Keys, status[k] # "NONE"
  PROVE  status'[k] # "NONE"
<1>1. ASSUME NEW j \in Keys, Create(j) PROVE status'[k] # "NONE"
  BY <1>1 DEF Create, TypeOK
<1>2. ASSUME NEW n \in Instances, NEW r \in disp[n].todo,
             NoRoute(n, r) \/ MarkDispatched(n, r) \/ MarkDispatchedFails(n, r) \/ RecordFailure(n, r)
      PROVE  status'[k] # "NONE"
  BY <1>2, RowTyped DEF NoRoute, MarkDispatched, MarkDispatchedFails, RecordFailure, GiveUpAt, TypeOK
<1>3. CASE UNCHANGED status
  BY <1>3
<1> QED
  BY <1>1, <1>2, <1>3 DEF Next, vars, BackoffOver, Poll, PollAborted, Enqueue, EnqueueFails

(* An instance in the catch was there before, or its row just failed.      *)
LEMMA FailingChange ==
  ASSUME TypeOK, [Next]_vars, NEW n \in Instances, disp'[n].failing
  PROVE  /\ disp'[n].todo = disp[n].todo
         /\ \/ disp[n].failing
            \/ \E r \in disp[n].todo : At(n, r) /\ Route(r.key) # << >>
<1>1. ASSUME NEW m \in Instances, NEW rows, disp' = [disp EXCEPT ![m] = Batch(rows)]
      PROVE  disp'[n] = disp[n]
  BY <1>1 DEF Batch, TypeOK
<1>2. ASSUME NEW m \in Instances, NEW r \in disp[m].todo, Enqueue(m, r)
      PROVE  disp'[n].todo = disp[n].todo /\ disp'[n].failing = disp[n].failing
  <2>1. CASE m # n
    BY <1>2, <2>1 DEF Enqueue, TypeOK
  <2>2. CASE m = n
    <3>1. disp'[n] = [disp[n] EXCEPT !.sent = @ + 1]
      BY <1>2, <2>2 DEF Enqueue, TypeOK
    <3> QED
      BY <3>1, WorkTyped DEF Work
  <2> QED
    BY <2>1, <2>2
<1>3. ASSUME NEW m \in Instances, NEW r \in disp[m].todo,
             EnqueueFails(m, r) \/ MarkDispatchedFails(m, r)
      PROVE  /\ disp'[n].todo = disp[n].todo
             /\ \/ disp'[n] = disp[n]
                \/ n = m /\ At(n, r) /\ Route(r.key) # << >>
  <2>1. /\ disp' = [disp EXCEPT ![m].failing = TRUE]
        /\ At(m, r)
    BY <1>3 DEF EnqueueFails, MarkDispatchedFails, AllSent, Trying
  <2>2. Route(r.key) # << >>
    <3>1. CASE MarkDispatchedFails(m, r)
      BY <3>1 DEF MarkDispatchedFails, AllSent
    <3>2. CASE EnqueueFails(m, r)
      <4>1. disp[m].sent \in 0..2 /\ disp[m].sent < Len(Route(r.key)) /\ r.key \in Keys
        BY <3>2, WorkTyped, RowTyped DEF EnqueueFails, Work
      <4>2. Len(Route(r.key)) # 0
        BY <4>1, RouteFacts
      <4> QED
        BY <4>1, <4>2, RouteFacts
    <3> QED
      BY <1>3, <3>1, <3>2
  <2>3. CASE m # n
    BY <2>1, <2>3 DEF TypeOK
  <2>4. CASE m = n
    <3>1. disp'[n] = [disp[n] EXCEPT !.failing = TRUE]
      BY <2>1, <2>4 DEF TypeOK
    <3>2. disp'[n].todo = disp[n].todo
      BY <3>1, WorkTyped DEF Work
    <3> QED
      BY <2>1, <2>2, <2>4, <3>2
  <2> QED
    BY <2>3, <2>4
<1>4. ASSUME NEW m \in Instances, NEW r \in disp[m].todo,
             NoRoute(m, r) \/ MarkDispatched(m, r) \/ RecordFailure(m, r)
      PROVE  disp'[n] = disp[n]
  BY <1>1, <1>4 DEF NoRoute, MarkDispatched, RecordFailure, GiveUpAt, NextRow
<1>5. ASSUME NEW m \in Instances, Poll(m) \/ PollAborted(m)
      PROVE  disp'[n] = disp[n]
  BY <1>1, <1>5 DEF Poll, PollAborted, Free
<1>6. CASE UNCHANGED disp
  BY <1>6
<1> QED
  BY <1>2, <1>3, <1>4, <1>5, <1>6 DEF Next, vars, Create, BackoffOver

(* Rows at the head of one snapshot are of the same event.                 *)
LEMMA HeadKey ==
  ASSUME TypeOK, NEW n \in Instances, NEW q, NEW r, At(n, q), At(n, r)
  PROVE  q.key = r.key
<1>1. q \in disp[n].todo /\ r \in disp[n].todo /\ q.key <= r.key /\ r.key <= q.key
  BY DEF At
<1>2. q.key \in Nat /\ r.key \in Nat
  BY <1>1, RowTyped, KeysAssumption
<1> QED
  BY <1>1, <1>2

LEMMA InsertedStep == TypeOK /\ WorkOnInserted /\ [Next]_vars => WorkOnInserted'
<1> SUFFICES ASSUME TypeOK, WorkOnInserted, [Next]_vars PROVE WorkOnInserted'
  OBVIOUS
<1>0. TypeOK'
  BY TypeStep
<1>1. ASSUME NEW n \in Instances, NEW q \in disp'[n].todo PROVE status'[q.key] # "NONE"
  <2>1. q.key \in Keys
    BY <1>0 DEF TypeOK, Work, Row
  <2>2. status[q.key] # "NONE"
    BY TodoChange DEF WorkOnInserted
  <2> QED
    BY <2>1, <2>2, InsertedStays
<1>2. ASSUME NEW n \in Instances, NEW q \in disp'[n].todo, At(n, q)', disp'[n].failing
      PROVE  Route(q.key) # << >>
  <2>1. At(n, q)
    BY <1>2, FailingChange DEF At
  <2>2. CASE disp[n].failing
    BY <2>1, <2>2 DEF WorkOnInserted, At
  <2>3. ASSUME NEW r \in disp[n].todo, At(n, r), Route(r.key) # << >>
        PROVE  Route(q.key) # << >>
    BY <2>1, <2>3, HeadKey
  <2> QED
    BY <1>2, <2>2, <2>3, FailingChange
<1> QED
  BY <1>1, <1>2 DEF WorkOnInserted, Route

(* The queues of an event, as the ledger sees them.                        *)
LEMMA LedgerRoute ==
  ASSUME NEW k \in Keys
  PROVE  /\ [j \in Keys |-> Route(j)][k] = Route(k)
         /\ DOMAIN [j \in Keys |-> Route(j)][k] = 1..Len(Route(k))
         /\ DOMAIN [j \in Keys |-> Route(j)][k] = {} <=> Route(k) = << >>
<1>1. [j \in Keys |-> Route(j)][k] = Route(k)
  OBVIOUS
<1>2. Len(Route(k)) \in Nat
  BY RouteFacts
<1>3. 1..Len(Route(k)) = {} <=> Len(Route(k)) = 0
  BY <1>2
<1> QED
  BY <1>1, <1>3, RouteFacts

EventLedgerStep == Ledger!Next \/ UNCHANGED <<status, queued, failures>>

LEMMA HandsOver ==
  ASSUME TypeOK, SentMeansQueued, WorkOnInserted, NEW n \in Instances, NEW r \in disp[n].todo,
         Trying(n, r), disp[n].sent < Len(Route(r.key)),
         queued' = [queued EXCEPT ![r.key] = @ \cup {Route(r.key)[disp[n].sent + 1]}],
         UNCHANGED <<status, failures>>
  PROVE  EventLedgerStep
<1> DEFINE k == r.key
           x == disp[n].sent + 1
<1>1. k \in Keys /\ disp[n].sent \in 0..2 /\ Len(Route(k)) \in 0..2
  BY RowTyped, WorkTyped, RouteFacts DEF Work
<1>2. x \in 1..Len(Route(k)) /\ x - 1 = disp[n].sent
  BY <1>1
<1>3. SentTo(n, k) /\ status[k] # "NONE"
  BY DEF SentMeansQueued, WorkOnInserted, Trying
<1>4. \A y \in 1..(x - 1) : Ledger!Has(k, y)
  BY <1>1, <1>2, <1>3, LedgerRoute DEF Ledger!Has, SentTo
<1>5. x \in DOMAIN [j \in Keys |-> Route(j)][k]
  BY <1>1, <1>2, LedgerRoute
<1>6. queued' = [queued EXCEPT ![k] = @ \cup {[j \in Keys |-> Route(j)][k][x]}]
  BY <1>1, LedgerRoute
<1> HIDE DEF x, k
<1>7. Ledger!HandOver(k, x)
  BY <1>3, <1>4, <1>6 DEF Ledger!HandOver
<1> QED
  BY <1>1, <1>5, <1>7 DEF EventLedgerStep, Ledger!Next

LEMMA Finishes ==
  ASSUME TypeOK, SentMeansQueued, WorkOnInserted, NEW n \in Instances, NEW r \in disp[n].todo,
         AllSent(n, r),
         status' = [status EXCEPT ![r.key] = "DISPATCHED"],
         UNCHANGED <<queued, failures>>
  PROVE  EventLedgerStep
<1> DEFINE k == r.key
<1>1. k \in Keys
  BY RowTyped
<1>2. SentTo(n, k) /\ status[k] # "NONE" /\ disp[n].sent = Len(Route(k)) /\ Route(k) # << >>
  BY DEF SentMeansQueued, WorkOnInserted, AllSent, Trying
<1>3. \A x \in DOMAIN [j \in Keys |-> Route(j)][k] : Ledger!Has(k, x)
  BY <1>1, <1>2, LedgerRoute DEF Ledger!Has, SentTo
<1>4. DOMAIN [j \in Keys |-> Route(j)][k] # {}
  BY <1>1, <1>2, LedgerRoute
<1> HIDE DEF k
<1>5. Ledger!Done(k)
  BY <1>2, <1>3, <1>4 DEF Ledger!Done, Ledger!Become, k
<1> QED
  BY <1>1, <1>5 DEF EventLedgerStep, Ledger!Next

LEMMA GivesUp ==
  ASSUME TypeOK, FailuresCounted, WorkOnInserted, NEW n \in Instances, NEW r \in disp[n].todo,
         RecordFailure(n, r)
  PROVE  EventLedgerStep
<1> DEFINE k == r.key
<1>1. k \in Keys /\ r.attempt \in 0..(MaxAttempts - 1) /\ failures[k] \in 0..MaxAttempts
  BY RowTyped DEF TypeOK
<1>2. status[k] # "NONE" /\ Route(k) # << >> /\ r.attempt <= failures[k]
  BY DEF WorkOnInserted, FailuresCounted, RecordFailure, GiveUpAt
<1>3. /\ failures' = [failures EXCEPT ![k] = IF @ < MaxAttempts THEN @ + 1 ELSE @]
      /\ UNCHANGED queued
  BY DEF RecordFailure, GiveUpAt
<1>4. failures'[k] = IF failures[k] < MaxAttempts THEN failures[k] + 1 ELSE failures[k]
  BY <1>1, <1>3 DEF TypeOK
<1>5. \/ UNCHANGED status
      \/ failures'[k] >= MaxAttempts /\ status' = [status EXCEPT ![k] = "DEAD_LETTER"]
  <2>1. r.attempt + 1 >= MaxAttempts => failures'[k] >= MaxAttempts
    BY <1>1, <1>2, <1>4, LimitsAssumption
  <2> QED
    BY <2>1 DEF RecordFailure, GiveUpAt
<1>6. DOMAIN [j \in Keys |-> Route(j)][k] # {}
  BY <1>1, <1>2, LedgerRoute
<1> HIDE DEF k
<1>7. Ledger!Mishap(k)
  BY <1>2, <1>3, <1>5, <1>6 DEF Ledger!Mishap, Ledger!Become
<1> QED
  BY <1>1, <1>7 DEF EventLedgerStep, Ledger!Next

LEMMA EventLedgerNext ==
  TypeOK /\ FailuresCounted /\ SentMeansQueued /\ WorkOnInserted /\ [Next]_vars => EventLedgerStep
<1> SUFFICES ASSUME TypeOK, FailuresCounted, SentMeansQueued, WorkOnInserted, [Next]_vars
             PROVE  EventLedgerStep
  OBVIOUS
<1>1. ASSUME NEW k \in Keys, Create(k) PROVE EventLedgerStep
  BY <1>1 DEF Create, EventLedgerStep, Ledger!Next, Ledger!Publish, Ledger!Become
<1>2. ASSUME NEW n \in Instances, NEW r \in disp[n].todo, NoRoute(n, r) PROVE EventLedgerStep
  <2>1. r.key \in Keys /\ status[r.key] # "NONE"
    BY RowTyped DEF WorkOnInserted
  <2>2. DOMAIN [j \in Keys |-> Route(j)][r.key] = {}
    BY <1>2, <2>1, LedgerRoute DEF NoRoute
  <2>3. Ledger!NoRoute(r.key)
    BY <1>2, <2>1, <2>2 DEF NoRoute, Ledger!NoRoute, Ledger!Become
  <2> QED
    BY <2>1, <2>3 DEF EventLedgerStep, Ledger!Next
<1>3. ASSUME NEW n \in Instances, NEW r \in disp[n].todo, Enqueue(n, r) PROVE EventLedgerStep
  BY <1>3, HandsOver DEF Enqueue
<1>4. ASSUME NEW n \in Instances, NEW r \in disp[n].todo, EnqueueFails(n, r) PROVE EventLedgerStep
  <2>1. CASE UNCHANGED queued
    BY <1>4, <2>1 DEF EnqueueFails, EventLedgerStep
  <2>2. CASE ~UNCHANGED queued
    BY <1>4, <2>2, HandsOver DEF EnqueueFails
  <2> QED
    BY <2>1, <2>2
<1>5. ASSUME NEW n \in Instances, NEW r \in disp[n].todo,
             MarkDispatched(n, r) \/ MarkDispatchedFails(n, r)
      PROVE  EventLedgerStep
  <2>1. AllSent(n, r) /\ UNCHANGED <<queued, failures>>
    BY <1>5 DEF MarkDispatched, MarkDispatchedFails
  <2>2. CASE UNCHANGED status
    BY <2>1, <2>2 DEF EventLedgerStep
  <2>3. CASE status' = [status EXCEPT ![r.key] = "DISPATCHED"]
    BY <2>1, <2>3, Finishes
  <2> QED
    BY <1>5, <2>2, <2>3 DEF MarkDispatched, MarkDispatchedFails
<1>6. ASSUME NEW n \in Instances, NEW r \in disp[n].todo, RecordFailure(n, r) PROVE EventLedgerStep
  BY <1>6, GivesUp
<1>7. CASE UNCHANGED <<status, queued, failures>>
  BY <1>7 DEF EventLedgerStep
<1> QED
  BY <1>1, <1>2, <1>3, <1>4, <1>5, <1>6, <1>7 DEF Next, vars, BackoffOver, Poll, PollAborted

(* The outbox implements EventLedger: however many instances work on old   *)
(* snapshots and whatever call fails, an event is handed to its queues in  *)
(* order and only after its insert, is done when all have it, discarded    *)
(* when it may be, and never waits again once it is settled.               *)
THEOREM OutboxImplementsLedger == Spec => ImplementsEventLedger
<1>1. Init => Ledger!Init
  BY DEF Init, Ledger!Init
<1>2. Init => FailuresCounted /\ SentMeansQueued /\ WorkOnInserted
  BY DEF Init, FailuresCounted, DeadLetterEarned, SentMeansQueued, DispatchedMeansQueued,
     WorkOnInserted, Free, Batch
<1>3. TypeOK /\ FailuresCounted /\ SentMeansQueued /\ WorkOnInserted /\ [Next]_vars
      => [Ledger!Next]_Ledger!ledgerVars
  BY EventLedgerNext DEF EventLedgerStep, Ledger!ledgerVars
<1> QED
  BY <1>1, <1>2, <1>3, FailuresStep, SentStep, InsertedStep, TypeCorrect, PTL
     DEF Spec, ImplementsEventLedger, Ledger!Spec

-----------------------------------------------------------------------------
(* What the promise is worth: the invariants follow from EventLedger alone.*)
LedgerRows ==
  /\ status \in [Keys -> {"NONE", "PENDING", "DISPATCHED", "DEAD_LETTER"}]
  /\ failures \in [Keys -> Nat]
  /\ queued = [k \in Keys |-> queued[k]]
  /\ DispatchedMeansQueued
  /\ DeadLetterEarned

LEMMA LedgerRowsNext == LedgerRows /\ [Ledger!Next]_Ledger!ledgerVars => LedgerRows'
<1> SUFFICES ASSUME LedgerRows, [Ledger!Next]_Ledger!ledgerVars PROVE LedgerRows'
  OBVIOUS
<1> USE DEF LedgerRows, DispatchedMeansQueued, DeadLetterEarned, Route
<1>1. ASSUME NEW k \in Keys, Ledger!Publish(k) PROVE LedgerRows'
  BY <1>1 DEF Ledger!Publish, Ledger!Become
<1>2. ASSUME NEW k \in Keys, Ledger!Done(k) PROVE LedgerRows'
  <2>1. ToSet(Route(k)) \subseteq queued[k]
    BY <1>2 DEF Ledger!Done, Ledger!Has, ToSet
  <2> QED
    BY <1>2, <2>1 DEF Ledger!Done, Ledger!Become
<1>3. ASSUME NEW k \in Keys, Ledger!NoRoute(k) PROVE LedgerRows'
  <2>1. Route(k) = << >>
    BY <1>3, RouteFacts DEF Ledger!NoRoute
  <2> QED
    BY <1>3, <2>1 DEF Ledger!NoRoute, Ledger!Become
<1>4. ASSUME NEW k \in Keys, Ledger!Mishap(k) PROVE LedgerRows'
  <2>1. /\ failures' \in [Keys -> Nat]
        /\ \A j \in Keys : failures'[j] >= failures[j]
    BY <1>4, LimitsAssumption DEF Ledger!Mishap
  <2>2. CASE UNCHANGED status
    BY <1>4, <2>1, <2>2, LimitsAssumption DEF Ledger!Mishap
  <2>3. CASE failures'[k] >= MaxAttempts /\ Ledger!Become(k, "DEAD_LETTER")
    BY <1>4, <2>1, <2>3, LimitsAssumption DEF Ledger!Mishap, Ledger!Become
  <2> QED
    BY <1>4, <2>2, <2>3 DEF Ledger!Mishap
<1>5. ASSUME NEW k \in Keys, NEW x, Ledger!HandOver(k, x) PROVE LedgerRows'
  <2>1. \A j \in Keys : queued[j] \subseteq queued'[j]
    BY <1>5 DEF Ledger!HandOver
  <2>2. queued' = [j \in Keys |-> queued'[j]]
    BY <1>5 DEF Ledger!HandOver
  <2> QED
    BY <1>5, <2>1, <2>2 DEF Ledger!HandOver
<1>6. CASE UNCHANGED Ledger!ledgerVars
  BY <1>6 DEF Ledger!ledgerVars
<1> QED
  BY <1>1, <1>2, <1>3, <1>4, <1>5, <1>6 DEF Ledger!Next

(* Whatever keeps to EventLedger dispatches no event that a queue of its   *)
(* topic has not got, and gives up none with a route before its time.      *)
THEOREM LedgerDelivers ==
  ImplementsEventLedger => [](DispatchedMeansQueued /\ DeadLetterEarned)
<1>1. Ledger!Init => LedgerRows
  BY DEF Ledger!Init, LedgerRows, DispatchedMeansQueued, DeadLetterEarned
<1>2. LedgerRows => DispatchedMeansQueued /\ DeadLetterEarned
  BY DEF LedgerRows
<1> QED
  BY <1>1, <1>2, LedgerRowsNext, PTL DEF ImplementsEventLedger, Ledger!Spec
=============================================================================
