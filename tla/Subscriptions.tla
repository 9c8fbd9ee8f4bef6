--------------------------- MODULE Subscriptions ---------------------------
(***************************************************************************)
(* The billing service's subscription lifecycle: the API calls that read a *)
(* subscription and later move it, the publish gate, the provisioning of   *)
(* trials, and the hourly jobs that expire rows from a snapshot they took  *)
(* earlier. Each await of the code ends a step, so every call of every     *)
(* instance interleaves with every other one; a database transaction is    *)
(* one step, taken at its commit.                                          *)
(***************************************************************************)
EXTENDS SubscriptionStates, Naturals, FiniteSetsExt

CONSTANTS Subs, Teachers, Owner,  \* rows, teachers, the teacher of a row
          Callers,                \* concurrent API requests
          Instances,              \* API processes, each with its own cron
          BatchSize               \* rows a cron run takes at most

ASSUME OwnerAssumption == Owner \in [Subs -> Teachers]
ASSUME BatchAssumption == BatchSize \in Nat \ {0}

VARIABLES
  subs,      \* status column of each row, "NONE" before its insert
  lapsed,    \* rows whose deadline passed: trialEndsAt while a row is TRIAL,
             \* updatedAt + 7 days while it is PAST_DUE
  outbox,    \* idempotency keys <<row, from, to>> of the events written
  gateOff,   \* the admin setting billing.requireSubscription is false
  call,      \* what each caller is doing, and its last answer
  batch      \* per instance and job: the rows its snapshot still holds

vars == <<subs, lapsed, outbox, gateOff, call, batch>>

Jobs == {"TRIAL", "PAST_DUE"}   \* expireTrialsCron and expirePastDueCron

NoSub == "no sub"
Steps == {"idle", "move", "trial.insert", "trial.reread", "gate.setting"}
Answers == {"NONE", "OK", "INVALID_TRANSITION", "GRANTED",
            "SUBSCRIPTION_MISSING", "SUBSCRIPTION_EXPIRED", "ERROR"}

CallType == [at : Steps, teacher : Teachers, sub : Subs \cup {NoSub},
             from : NonTerminal \cup {"NONE"},
             to : {"ACTIVE", "CANCELED", "NONE"},
             inTx : BOOLEAN, answer : Answers]

TypeOK ==
  /\ subs \in [Subs -> Statuses \cup {"NONE"}]
  /\ lapsed \subseteq Subs
  /\ outbox \subseteq Subs \X Statuses \X Statuses
  /\ gateOff \in BOOLEAN
  /\ call \in [Callers -> CallType]
  /\ \A c \in Callers : call[c].at = "move" => call[c].sub \in Subs
  /\ batch \in [Instances -> [Jobs -> SUBSET Subs]]

LiveSubs(t) == {s \in Subs : Owner[s] = t /\ subs[s] \in NonTerminal}

Idle(t, ans) == [at |-> "idle", teacher |-> t, sub |-> NoSub, from |-> "NONE",
                 to |-> "NONE", inTx |-> FALSE, answer |-> ans]

Init ==
  /\ subs = [s \in Subs |-> "NONE"]
  /\ lapsed = {}
  /\ outbox = {}
  /\ gateOff = FALSE
  /\ \E t \in Teachers : call = [c \in Callers |-> Idle(t, "NONE")]
  /\ batch = [n \in Instances |-> [j \in Jobs |-> {}]]

Become(c, state) == call' = [call EXCEPT ![c] = state]
Return(c, ans) == Become(c, Idle(call[c].teacher, ans))

-----------------------------------------------------------------------------
(* Faulty variants, used to test the properties: no row-level precondition, *)
(* no event, and a conflict that stops the caller for good.                *)
Transition_NoPrecondition(s, from, to) ==
  /\ CanTransition(from, to)
  /\ subs[s] # "NONE"
  /\ subs' = [subs EXCEPT ![s] = to]
  /\ lapsed' = lapsed \ {s}
  /\ outbox' = outbox \cup {<<s, from, to>>}

Transition_NoEvent(s, from, to) ==
  /\ CanTransition(from, to)
  /\ subs[s] = from
  /\ subs' = [subs EXCEPT ![s] = to]
  /\ lapsed' = lapsed \ {s}
  /\ UNCHANGED outbox

TransitionConflict_Stops(s, from) ==
  /\ subs[s] \in NonTerminal \ {from}
  /\ UNCHANGED <<subs, lapsed, outbox>>

(* UPDATE ... WHERE id = s AND status = from, the event, one transaction.  *)
(* The write refreshes updatedAt, so the row's next deadline lies ahead.   *)
Transition(s, from, to) ==
  /\ CanTransition(from, to)
  /\ subs[s] = from
  /\ subs' = [subs EXCEPT ![s] = to]
  /\ lapsed' = lapsed \ {s}
  /\ outbox' = outbox \cup {<<s, from, to>>}

(* No row had the expected status: the transaction rolls back.             *)
TransitionConflict(s, from) ==
  /\ subs[s] # from
  /\ UNCHANGED <<subs, lapsed, outbox>>

(* Faulty variant: a terminal row is not refused.                          *)
StartMove_AnyStatus(c, s, to) ==
  /\ call[c].at = "idle"
  /\ subs[s] \in Statuses \ {to}
  /\ Become(c, [Idle(Owner[s], "NONE") EXCEPT
                  !.at = "move", !.sub = s, !.from = subs[s], !.to = to])
  /\ UNCHANGED <<subs, lapsed, outbox, gateOff, batch>>

(* activate() and cancel() read the row and pick the edge they will ask    *)
(* for; what they refuse (unknown, terminal, already there) changes        *)
(* nothing.                                                                *)
StartMove(c, s, to) ==
  /\ call[c].at = "idle"
  /\ CASE to = "ACTIVE"   -> subs[s] \in {"TRIAL", "PAST_DUE"}
       [] to = "CANCELED" -> subs[s] \in NonTerminal
  /\ Become(c, [Idle(Owner[s], "NONE") EXCEPT
                  !.at = "move", !.sub = s, !.from = subs[s], !.to = to])
  /\ UNCHANGED <<subs, lapsed, outbox, gateOff, batch>>

FinishMove(c) ==
  /\ call[c].at = "move"
  /\ LET m == call[c] IN
       \/ Transition(m.sub, m.from, m.to) /\ Return(c, "OK")
       \/ TransitionConflict(m.sub, m.from) /\ Return(c, "INVALID_TRANSITION")
  /\ UNCHANGED <<gateOff, batch>>

(* markPastDue() reads nothing first.                                      *)
MarkPastDue(c, s) ==
  /\ call[c].at = "idle"
  /\ Transition(s, "ACTIVE", "PAST_DUE")
  /\ Become(c, Idle(Owner[s], "OK"))
  /\ UNCHANGED <<gateOff, batch>>

(* PerformTransaction moves the row through the repository, not through    *)
(* transition(): no subscription event is written on that path.            *)
PaymentActivates(s) ==
  /\ subs[s] \in {"TRIAL", "PAST_DUE"}
  /\ subs' = [subs EXCEPT ![s] = "ACTIVE"]
  /\ lapsed' = lapsed \ {s}
  /\ UNCHANGED <<outbox, gateOff, call, batch>>

-----------------------------------------------------------------------------
(* startTrial: look for an open row, insert one if there is none. Inside a *)
(* caller's transaction (verify-email, register, login) a unique violation *)
(* aborts the whole transaction, so the re-read of the winner fails.       *)
StartTrial(c, t, inTx) ==
  /\ call[c].at = "idle"
  /\ \/ LiveSubs(t) # {} /\ Become(c, Idle(t, "OK"))
     \/ /\ LiveSubs(t) = {}
        /\ Become(c, [Idle(t, "NONE") EXCEPT
                        !.at = "trial.insert", !.inTx = inTx])
  /\ UNCHANGED <<subs, lapsed, outbox, gateOff, batch>>

(* Faulty variant: no partial unique index.                                *)
InsertTrial_NoIndex(c) ==
  /\ call[c].at = "trial.insert"
  /\ \E s \in Subs :
       /\ Owner[s] = call[c].teacher
       /\ subs[s] = "NONE"
       /\ subs' = [subs EXCEPT ![s] = "TRIAL"]
  /\ Return(c, "OK")
  /\ UNCHANGED <<lapsed, outbox, gateOff, batch>>

InsertTrial(c) ==
  /\ call[c].at = "trial.insert"
  /\ LET t == call[c].teacher IN
       \/ /\ LiveSubs(t) = {}
          /\ \E s \in Subs :
               /\ Owner[s] = t
               /\ subs[s] = "NONE"
               /\ subs' = [subs EXCEPT ![s] = "TRIAL"]
          /\ Return(c, "OK")
       \/ /\ LiveSubs(t) # {}
          /\ IF call[c].inTx THEN Return(c, "ERROR")
             ELSE Become(c, [call[c] EXCEPT !.at = "trial.reread"])
          /\ UNCHANGED subs
  /\ UNCHANGED <<lapsed, outbox, gateOff, batch>>

RereadTrial(c) ==
  /\ call[c].at = "trial.reread"
  /\ Return(c, IF LiveSubs(call[c].teacher) # {} THEN "OK" ELSE "ERROR")
  /\ UNCHANGED <<subs, lapsed, outbox, gateOff, batch>>

-----------------------------------------------------------------------------
(* requireActiveSubscription, the gate the catalog asks before it lets a   *)
(* teacher publish: read the open row, then the setting.                   *)
CheckGate(c, t) ==
  /\ call[c].at = "idle"
  /\ \/ /\ \E s \in LiveSubs(t) : IsActive(subs[s])
        /\ Become(c, Idle(t, "GRANTED"))
     \/ /\ \A s \in LiveSubs(t) : ~IsActive(subs[s])
        /\ \E seen \in IF LiveSubs(t) = {} THEN {NoSub} ELSE LiveSubs(t) :
             Become(c, [Idle(t, "NONE") EXCEPT
                          !.at = "gate.setting", !.sub = seen])
  /\ UNCHANGED <<subs, lapsed, outbox, gateOff, batch>>

(* The setting lifts the gate only if it can be read.                      *)
ReadGateSetting(c) ==
  /\ call[c].at = "gate.setting"
  /\ LET t == call[c].teacher
         unseen == call[c].sub = NoSub IN
       \/ gateOff /\ ~unseen /\ Return(c, "GRANTED")
       \/ /\ gateOff /\ unseen       \* demo mode: startTrial(t)
          /\ IF LiveSubs(t) # {} THEN Return(c, "GRANTED")
             ELSE Become(c, [Idle(t, "NONE") EXCEPT !.at = "trial.insert"])
       \/ unseen /\ Return(c, "SUBSCRIPTION_MISSING")   \* off, or not to be read
       \/ ~unseen /\ Return(c, "SUBSCRIPTION_EXPIRED")
  /\ UNCHANGED <<subs, lapsed, outbox, gateOff, batch>>

AdminSetsGate ==
  /\ gateOff' = ~gateOff
  /\ UNCHANGED <<subs, lapsed, outbox, call, batch>>

-----------------------------------------------------------------------------
(* Time passes: a trial reaches trialEndsAt, or a row has been PAST_DUE    *)
(* for seven days.                                                         *)
Lapse(s) ==
  /\ subs[s] \in Jobs
  /\ s \notin lapsed
  /\ lapsed' = lapsed \cup {s}
  /\ UNCHANGED <<subs, outbox, gateOff, call, batch>>

(* Faulty variant: the query forgets the deadline column.                  *)
Due_AnyAge(j) == {s \in Subs : subs[s] = j}

Due(j) == {s \in lapsed : subs[s] = j}

(* A job starts: it reads at most BatchSize due rows and then works from   *)
(* that list.                                                              *)
CronStart(n, j) ==
  /\ batch[n][j] = {}
  /\ Due(j) # {}
  /\ \E rows \in kSubset(Min({BatchSize, Cardinality(Due(j))}), Due(j)) :
       batch' = [batch EXCEPT ![n][j] = rows]
  /\ UNCHANGED <<subs, lapsed, outbox, gateOff, call>>

(* One row of the list: expireTrial or expirePastDue. A conflict is logged *)
(* and does not stop the batch, and neither does any other failure.        *)
CronRow(n, j) ==
  /\ \E s \in batch[n][j] :
       /\ Transition(s, j, "EXPIRED") \/ TransitionConflict(s, j)
       /\ batch' = [batch EXCEPT ![n][j] = @ \ {s}]
  /\ UNCHANGED <<gateOff, call>>

CronRowFails(n, j) ==
  /\ \E s \in batch[n][j] : batch' = [batch EXCEPT ![n][j] = @ \ {s}]
  /\ UNCHANGED <<subs, lapsed, outbox, gateOff, call>>

(* An instance restarts: the requests and the batches it held are lost,    *)
(* and no transaction of theirs was open between two steps.                *)
Restart(n) ==
  /\ \E j \in Jobs : batch[n][j] # {}
  /\ batch' = [batch EXCEPT ![n] = [j \in Jobs |-> {}]]
  /\ UNCHANGED <<subs, lapsed, outbox, gateOff, call>>

CallFails(c) ==
  /\ call[c].at # "idle"
  /\ Return(c, "ERROR")
  /\ UNCHANGED <<subs, lapsed, outbox, gateOff, batch>>

CallerStep(c) ==
  \/ \E s \in Subs : \/ \E to \in {"ACTIVE", "CANCELED"} : StartMove(c, s, to)
                     \/ MarkPastDue(c, s)
  \/ FinishMove(c)
  \/ \E t \in Teachers : \/ \E inTx \in BOOLEAN : StartTrial(c, t, inTx)
                         \/ CheckGate(c, t)
  \/ InsertTrial(c)
  \/ RereadTrial(c)
  \/ ReadGateSetting(c)
  \/ CallFails(c)

CronStep(n, j) == CronStart(n, j) \/ CronRow(n, j) \/ CronRowFails(n, j)

Next ==
  \/ \E c \in Callers : CallerStep(c)
  \/ \E n \in Instances : Restart(n) \/ \E j \in Jobs : CronStep(n, j)
  \/ \E s \in Subs : PaymentActivates(s) \/ Lapse(s)
  \/ AdminSetsGate

Spec == Init /\ [][Next]_vars

(* The hourly schedule keeps firing on every instance. A restart may cut a *)
(* batch short and the update of a row may fail, but not each and every    *)
(* time.                                                                   *)
FairSpec == Spec /\ \A n \in Instances, j \in Jobs :
              WF_vars(CronStart(n, j)) /\ SF_vars(CronRow(n, j))

-----------------------------------------------------------------------------
(* A teacher never has two open rows, although startTrial checks first and *)
(* inserts later: two concurrent provisionings end in one row.             *)
OneLivePerTeacher ==
  \A s, r \in Subs :
    /\ Owner[s] = Owner[r]
    /\ subs[s] \in NonTerminal
    /\ subs[r] \in NonTerminal
    => s = r

(* Every write of the service, its cron and the payment path follows an    *)
(* edge of the state machine, whatever was read before it.                 *)
Ledger == INSTANCE SubscriptionLedger
ImplementsLedger == Ledger!Spec

(* A trial is expired only once trialEndsAt has passed, although the cron  *)
(* acts on a snapshot.                                                     *)
TrialRunsItsCourse ==
  [][\A s \in Subs :
       subs[s] = "TRIAL" /\ subs'[s] = "EXPIRED" => s \in lapsed]_vars

(* The outbox agrees with the rows: an event out of TRIAL or into a final  *)
(* status was really carried out, and every row in a final status has the  *)
(* event that says so. Conflicts and rollbacks leave no trace.             *)
EventsTellTheTruth ==
  /\ \A e \in outbox :
       /\ e[2] = "TRIAL" => subs[e[1]] # "TRIAL"
       /\ IsTerminal(e[3]) => subs[e[1]] = e[3]
  /\ \A s \in Subs :
       IsTerminal(subs[s]) => \E from \in NonTerminal : <<s, from, subs[s]>> \in outbox

(* A trial whose time is over does not stay open: a conflict on one row or *)
(* a restart in mid-batch cannot keep the hourly job from the others.      *)
LapsedTrialsExpire ==
  \A s \in Subs : (subs[s] = "TRIAL" /\ s \in lapsed) ~> (subs[s] # "TRIAL")
=============================================================================
