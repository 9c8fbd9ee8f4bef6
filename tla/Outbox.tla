------------------------------- MODULE Outbox -------------------------------
(***************************************************************************)
(* The transactional outbox. Producers insert events together with their   *)
(* state change; on every API instance a dispatcher polls a snapshot of    *)
(* the due events, oldest first, and hands each to the queues of its       *)
(* topic, one queue after the other, before it marks the row. Rows are     *)
(* not locked, so instances work on overlapping snapshots, and every       *)
(* update of a row is by id only. Queues and database may fail at any      *)
(* await, and an instance may die between two of them.                     *)
(***************************************************************************)
EXTENDS Naturals, Sequences, SequencesExt, FiniteSets

CONSTANTS
  Keys,           \* idempotency keys, numbered in the order of createdAt
  Topic,          \* the topic of each key
  Instances,      \* API processes that run a dispatcher
  MaxAttempts,    \* MAX_ATTEMPTS
  BatchSize       \* POLL_BATCH_SIZE

(* TOPIC_TO_QUEUE. A topic that is in none of these sets has no queue.     *)
NotificationTopics ==
  {"payment.succeeded", "payment.failed", "subscription.activated",
   "lesson.published", "schedule.changed", "enrollment.requested",
   "enrollment.approved", "live.reminder", "recording.ready",
   "homework.assigned"}
EmailTopics == {"user.registered", "user.email_verified",
                "password.reset.requested", "notification.email"}
RecordedTopics == {"live.started", "live.ended"}
RewardedTopics == {"auth.login", "submission.submitted", "homework.graded"}
OnlyRewardedTopics == {"ai.tutor_used", "lesson.viewed"}

(* Topics the producers emit that have no queue.                           *)
UnroutedTopics ==
  {"subscription.past_due", "subscription.expired", "subscription.canceled",
   "enrollment.rejected", "enrollment.revoked", "group.module.toggled",
   "security.account_unlock_requested", "security.account_locked",
   "security.admin_alert"}

QueuesOf(topic) ==
  CASE topic \in NotificationTopics     -> <<"notification-fanout">>
    [] topic \in EmailTopics            -> <<"email">>
    [] topic \in RecordedTopics         -> <<"notification-fanout", "live-recording">>
    [] topic \in RewardedTopics         -> <<"notification-fanout", "gamification-outbox">>
    [] topic \in OnlyRewardedTopics     -> <<"gamification-outbox">>
    [] topic = "submission.created"     -> <<"ai-grading">>
    [] topic = "notification.telegram"  -> <<"telegram">>
    [] topic = "notification.push"      -> <<"push">>
    [] OTHER                            -> << >>

Topics == NotificationTopics \cup EmailTopics \cup RecordedTopics
          \cup RewardedTopics \cup OnlyRewardedTopics \cup UnroutedTopics
          \cup {"submission.created", "notification.telegram", "notification.push"}
Queues == {"notification-fanout", "email", "live-recording",
           "gamification-outbox", "ai-grading", "telegram", "push"}

ASSUME KeysAssumption == Keys \subseteq Nat
ASSUME TopicAssumption == Topic \in [Keys -> Topics]
ASSUME LimitsAssumption == MaxAttempts \in Nat \ {0} /\ BatchSize \in Nat \ {0}

VARIABLES
  status,     \* [Keys -> ...], "NONE" before the insert
  attempt,    \* attempt column
  due,        \* keys whose nextAttemptAt has passed
  queued,     \* for each key, the queues that hold or held a job for it
  failures,   \* recorded failures, counted up to MaxAttempts beside the code
  disp        \* what the dispatcher of each instance is doing

vars == <<status, attempt, due, queued, failures, disp>>

Route(k) == QueuesOf(Topic[k])

(* todo: the rest of the snapshot, with the attempt numbers read then;     *)
(* sent: queues that accepted its oldest event; failing: in the catch.     *)
Batch(rows) == [todo |-> rows, sent |-> 0, failing |-> FALSE]
Free == Batch({})
Row == [key : Keys, attempt : 0..(MaxAttempts - 1)]
Work == [todo : SUBSET Row, sent : 0..2, failing : BOOLEAN]

TypeOK ==
  /\ status \in [Keys -> {"NONE", "PENDING", "DISPATCHED", "DEAD_LETTER"}]
  /\ attempt \in [Keys -> 0..(MaxAttempts - 1)]
  /\ due \subseteq Keys
  /\ queued \in [Keys -> SUBSET Queues]
  /\ failures \in [Keys -> 0..MaxAttempts]
  /\ disp \in [Instances -> Work]

Init ==
  /\ status = [k \in Keys |-> "NONE"]
  /\ attempt = [k \in Keys |-> 0]
  /\ due = {}
  /\ queued = [k \in Keys |-> {}]
  /\ failures = [k \in Keys |-> 0]
  /\ disp = [n \in Instances |-> Free]

(* The row instance n is at: the oldest one left of its snapshot.          *)
At(n, r) == r \in disp[n].todo /\ \A q \in disp[n].todo : r.key <= q.key
Trying(n, r) == At(n, r) /\ ~disp[n].failing
NextRow(n, r) == disp' = [disp EXCEPT ![n] = Batch(disp[n].todo \ {r})]

-----------------------------------------------------------------------------
(* OutboxService.create, inside the producer's transaction: a key that     *)
(* exists already is not inserted again (ON CONFLICT DO NOTHING). Producers *)
(* need not commit in the order of createdAt.                              *)
Create(k) ==
  /\ status[k] = "NONE"
  /\ status' = [status EXCEPT ![k] = "PENDING"]
  /\ due' = due \cup {k}
  /\ UNCHANGED <<attempt, queued, failures, disp>>

(* poll: the isProcessing flag keeps one snapshot per instance, of the     *)
(* oldest BatchSize rows that are due.                                     *)
Pending == {k \in due : status[k] = "PENDING"}
Older(k) == {j \in Pending : j < k}
Snapshot == {[key |-> k, attempt |-> attempt[k]] :
               k \in {j \in Pending : Cardinality(Older(j)) < BatchSize}}

Poll(n) ==
  /\ disp[n].todo = {}
  /\ Pending # {}
  /\ disp' = [disp EXCEPT ![n] = Batch(Snapshot)]
  /\ UNCHANGED <<status, attempt, due, queued, failures>>

(* A topic without a queue is not tried at all.                            *)
NoRoute(n, r) ==
  /\ Trying(n, r)
  /\ Route(r.key) = << >>
  /\ status' = [status EXCEPT ![r.key] = "DEAD_LETTER"]
  /\ NextRow(n, r)
  /\ UNCHANGED <<attempt, due, queued, failures>>

Enqueue(n, r) ==
  /\ Trying(n, r)
  /\ disp[n].sent < Len(Route(r.key))
  /\ queued' = [queued EXCEPT ![r.key] = @ \cup {Route(r.key)[disp[n].sent + 1]}]
  /\ disp' = [disp EXCEPT ![n].sent = @ + 1]
  /\ UNCHANGED <<status, attempt, due, failures>>

(* queue.add rejects, whether or not the job was stored.                   *)
EnqueueFails(n, r) ==
  /\ Trying(n, r)
  /\ disp[n].sent < Len(Route(r.key))
  /\ \/ queued' = [queued EXCEPT ![r.key] = @ \cup {Route(r.key)[disp[n].sent + 1]}]
     \/ UNCHANGED queued
  /\ disp' = [disp EXCEPT ![n].failing = TRUE]
  /\ UNCHANGED <<status, attempt, due, failures>>

(* Faulty variant: the row is marked when the first queue took the job.    *)
MarkDispatched_FirstQueue(n, r) ==
  /\ Trying(n, r)
  /\ disp[n].sent >= 1
  /\ status' = [status EXCEPT ![r.key] = "DISPATCHED"]
  /\ NextRow(n, r)
  /\ UNCHANGED <<attempt, due, queued, failures>>

AllSent(n, r) ==
  /\ Trying(n, r)
  /\ Route(r.key) # << >>
  /\ disp[n].sent = Len(Route(r.key))

MarkDispatched(n, r) ==
  /\ AllSent(n, r)
  /\ status' = [status EXCEPT ![r.key] = "DISPATCHED"]
  /\ NextRow(n, r)
  /\ UNCHANGED <<attempt, due, queued, failures>>

(* The update rejects, whether or not it was committed: the same catch.    *)
MarkDispatchedFails(n, r) ==
  /\ AllSent(n, r)
  /\ status' = [status EXCEPT ![r.key] = "DISPATCHED"] \/ UNCHANGED status
  /\ disp' = [disp EXCEPT ![n].failing = TRUE]
  /\ UNCHANGED <<attempt, due, queued, failures>>

(* The catch: the attempt number of the snapshot plus one, then the dead   *)
(* letter status or a later nextAttemptAt, whatever the row says by now.   *)
GiveUpAt(limit, n, r) ==
  /\ At(n, r)
  /\ disp[n].failing
  /\ failures' = [failures EXCEPT ![r.key] = IF @ < MaxAttempts THEN @ + 1 ELSE @]
  /\ IF r.attempt + 1 >= limit
     THEN /\ status' = [status EXCEPT ![r.key] = "DEAD_LETTER"]
          /\ UNCHANGED <<attempt, due>>
     ELSE /\ attempt' = [attempt EXCEPT ![r.key] = r.attempt + 1]
          /\ due' = due \ {r.key}
          /\ UNCHANGED status
  /\ NextRow(n, r)
  /\ UNCHANGED queued

(* Faulty variants: one attempt too few, one too many, and no limit as     *)
(* long as the new attempt number is not written.                          *)
RecordFailure_TooSoon(n, r) == GiveUpAt(MaxAttempts - 1, n, r)
RecordFailure_TooLate(n, r) == GiveUpAt(MaxAttempts + 1, n, r)
RecordFailure_NotCounted(n, r) ==
  /\ At(n, r)
  /\ disp[n].failing
  /\ due' = due \ {r.key}
  /\ NextRow(n, r)
  /\ UNCHANGED <<status, attempt, queued, failures>>

(* Faulty variant: the row that waits for another try is PENDING again.    *)
RecordFailure_Reopens(n, r) ==
  /\ At(n, r)
  /\ disp[n].failing
  /\ failures' = [failures EXCEPT ![r.key] = IF @ < MaxAttempts THEN @ + 1 ELSE @]
  /\ attempt' = [attempt EXCEPT ![r.key] = IF r.attempt + 1 >= MaxAttempts THEN @ ELSE r.attempt + 1]
  /\ status' = [status EXCEPT ![r.key] =
                  IF r.attempt + 1 >= MaxAttempts THEN "DEAD_LETTER" ELSE "PENDING"]
  /\ due' = due \ {r.key}
  /\ NextRow(n, r)
  /\ UNCHANGED queued

RecordFailure(n, r) == GiveUpAt(MaxAttempts, n, r)

(* A database error in markDeadLetter or in the catch ends the whole poll, *)
(* and so does the death of the instance; the flag is free again.          *)
PollAborted(n) ==
  /\ disp[n].todo # {}
  /\ disp' = [disp EXCEPT ![n] = Free]
  /\ UNCHANGED <<status, attempt, due, queued, failures>>

(* nextAttemptAt passes.                                                   *)
BackoffOver(k) ==
  /\ status[k] # "NONE"
  /\ k \notin due
  /\ due' = due \cup {k}
  /\ UNCHANGED <<status, attempt, queued, failures, disp>>

-----------------------------------------------------------------------------
Next ==
  \/ \E k \in Keys : Create(k) \/ BackoffOver(k)
  \/ \E n \in Instances :
       \/ Poll(n) \/ PollAborted(n)
       \/ \E r \in disp[n].todo :
            \/ NoRoute(n, r) \/ Enqueue(n, r) \/ EnqueueFails(n, r)
            \/ MarkDispatched(n, r) \/ MarkDispatchedFails(n, r)
            \/ RecordFailure(n, r)

Spec == Init /\ [][Next]_vars

(* The 2 s timer fires on every instance and backoffs run out. Queues and  *)
(* updates may fail every time; only the death of instances does not       *)
(* always strike at the same point of the work.                            *)
Sends(n, x) == \E r \in disp[n].todo : disp[n].sent = x /\ (Enqueue(n, r) \/ EnqueueFails(n, r))
Marks(n) == \E r \in disp[n].todo : MarkDispatched(n, r) \/ MarkDispatchedFails(n, r)
FairSpec ==
  /\ Spec
  /\ \A k \in Keys : WF_vars(BackoffOver(k))
  /\ \A n \in Instances :
       /\ WF_vars(Poll(n))
       /\ SF_vars(\E r \in disp[n].todo : NoRoute(n, r))
       /\ \A x \in 0..1 : SF_vars(Sends(n, x))
       /\ SF_vars(Marks(n))
       /\ SF_vars(\E r \in disp[n].todo : RecordFailure(n, r))

-----------------------------------------------------------------------------
(* An event marked DISPATCHED has reached every queue of its topic, though *)
(* the fan-out may fail half-way, start again and run twice at once.       *)
DispatchedMeansQueued ==
  \A k \in Keys :
    status[k] = "DISPATCHED" => ToSet(Route(k)) \subseteq queued[k]

(* An event that has queues is given up only after MaxAttempts failures,   *)
(* however many instances count them.                                      *)
DeadLetterEarned ==
  \A k \in Keys :
    status[k] = "DEAD_LETTER" /\ Route(k) # << >> => failures[k] >= MaxAttempts

(* The outbox keeps the promise of EventLedger.tla: whatever instances do  *)
(* with old snapshots, an event that is settled never waits again, and its *)
(* queues are served in order, after its insert and none but them.         *)
Ledger == INSTANCE EventLedger WITH
            Events <- Keys, RouteOf <- [k \in Keys |-> Route(k)], Patience <- MaxAttempts,
            event <- status, given <- queued, mishaps <- failures
ImplementsEventLedger == Ledger!Spec

(* No event is lost: each is handed to all its queues or ends as a dead    *)
(* letter, even if every call may fail and instances die in mid-batch.     *)
EventsResolve ==
  \A k \in Keys : status[k] = "PENDING" ~> status[k] # "PENDING"
=============================================================================
