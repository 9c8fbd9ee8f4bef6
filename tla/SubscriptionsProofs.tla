------------------------ MODULE SubscriptionsProofs ------------------------
(***************************************************************************)
(* Proofs about SubscriptionLedger.tla and Subscriptions.tla, for any      *)
(* number of rows, teachers, requests and instances.                       *)
(***************************************************************************)
EXTENDS Subscriptions, TLAPS

-----------------------------------------------------------------------------
(* The type invariant, rows and requests apart.                            *)
TypesOfRows ==
  /\ subs \in [Subs -> Statuses \cup {"NONE"}]
  /\ lapsed \subseteq Subs
  /\ outbox \subseteq Subs \X Statuses \X Statuses
  /\ gateOff \in BOOLEAN
  /\ batch \in [Instances -> [Jobs -> SUBSET Subs]]

WellFormed(r) == r \in CallType /\ (r.at = "move" => r.sub \in Subs)
CallsTyped == call \in [Callers -> CallType] /\ \A c \in Callers : WellFormed(call[c])

LEMMA TypeSplit == TypeOK <=> TypesOfRows /\ CallsTyped
BY DEF TypeOK, TypesOfRows, CallsTyped, WellFormed

LEMMA TransitionTyped ==
  ASSUME TypesOfRows, NEW s \in Subs, NEW from, NEW to, Transition(s, from, to),
         UNCHANGED gateOff, batch' \in [Instances -> [Jobs -> SUBSET Subs]]
  PROVE  TypesOfRows'
<1>1. from \in Statuses /\ to \in Statuses
  BY DEF Transition, CanTransition, Transitions, Statuses
<1> QED
  BY <1>1 DEF TypesOfRows, Transition

LEMMA IdleTyped ==
  ASSUME NEW t \in Teachers, NEW ans \in Answers
  PROVE  WellFormed(Idle(t, ans))
BY DEF WellFormed, Idle, CallType, Steps

LEMMA BecomeTyped ==
  ASSUME CallsTyped, NEW c \in Callers, NEW r, WellFormed(r), Become(c, r)
  PROVE  CallsTyped'
BY DEF CallsTyped, WellFormed, Become

LEMMA ReturnTyped ==
  ASSUME CallsTyped, NEW c \in Callers, NEW ans \in Answers, Return(c, ans)
  PROVE  CallsTyped'
<1>1. call[c].teacher \in Teachers
  BY DEF CallsTyped, CallType
<1> QED
  BY <1>1, IdleTyped, BecomeTyped DEF Return

LEMMA TypeInit == Init => TypeOK
<1> SUFFICES ASSUME Init PROVE TypeOK
  OBVIOUS
<1>1. PICK t \in Teachers : call = [c \in Callers |-> Idle(t, "NONE")]
  BY DEF Init
<1>2. WellFormed(Idle(t, "NONE"))
  BY IdleTyped DEF Answers
<1>3. CallsTyped
  BY <1>1, <1>2 DEF CallsTyped, WellFormed
<1>4. batch \in [Instances -> [Jobs -> SUBSET Subs]]
  BY DEF Init
<1>5. TypesOfRows
  BY <1>4 DEF Init, TypesOfRows
<1> QED
  BY <1>3, <1>5, TypeSplit

LEMMA TypeStep == TypeOK /\ [Next]_vars => TypeOK'
<1> SUFFICES ASSUME TypesOfRows, CallsTyped, [Next]_vars
             PROVE  TypesOfRows' /\ CallsTyped'
  BY DEF TypeOK, TypesOfRows, CallsTyped, WellFormed
<1> USE OwnerAssumption
<1>0. ASSUME UNCHANGED <<subs, lapsed, outbox, gateOff, batch>> PROVE TypesOfRows'
  BY <1>0 DEF TypesOfRows
<1>1. ASSUME NEW c \in Callers, NEW s \in Subs, NEW to \in {"ACTIVE", "CANCELED"},
             StartMove(c, s, to)
      PROVE  TypesOfRows' /\ CallsTyped'
  <2> DEFINE r == [Idle(Owner[s], "NONE") EXCEPT
                    !.at = "move", !.sub = s, !.from = subs[s], !.to = to]
  <2>1. subs[s] \in NonTerminal
    BY <1>1 DEF StartMove, NonTerminal
  <2>2. WellFormed(r)
    BY <2>1 DEF WellFormed, Idle, CallType, Steps, Answers
  <2>3. Become(c, r) /\ UNCHANGED <<subs, lapsed, outbox, gateOff, batch>>
    BY <1>1 DEF StartMove
  <2> HIDE DEF r
  <2> QED
    BY <1>0, <2>2, <2>3, BecomeTyped
<1>2. ASSUME NEW c \in Callers, FinishMove(c) PROVE TypesOfRows' /\ CallsTyped'
  <2>1. call[c].sub \in Subs
    BY <1>2 DEF FinishMove, CallsTyped, WellFormed
  <2>2. CASE TransitionConflict(call[c].sub, call[c].from) /\ Return(c, "INVALID_TRANSITION")
    BY <1>0, <1>2, <2>2, ReturnTyped DEF FinishMove, TransitionConflict, Answers
  <2>3. CASE Transition(call[c].sub, call[c].from, call[c].to) /\ Return(c, "OK")
    BY <1>2, <2>1, <2>3, TransitionTyped, ReturnTyped DEF FinishMove, TypesOfRows, Answers
  <2> QED
    BY <1>2, <2>2, <2>3 DEF FinishMove
<1>3. ASSUME NEW c \in Callers, NEW s \in Subs, MarkPastDue(c, s)
      PROVE  TypesOfRows' /\ CallsTyped'
  <2>1. WellFormed(Idle(Owner[s], "OK"))
    BY IdleTyped DEF Answers
  <2> QED
    BY <1>3, <2>1, TransitionTyped, BecomeTyped DEF MarkPastDue, TypesOfRows
<1>4. ASSUME NEW c \in Callers, NEW t \in Teachers, NEW inTx \in BOOLEAN,
             StartTrial(c, t, inTx)
      PROVE  TypesOfRows' /\ CallsTyped'
  <2> DEFINE r == [Idle(t, "NONE") EXCEPT !.at = "trial.insert", !.inTx = inTx]
  <2>1. WellFormed(r) /\ WellFormed(Idle(t, "OK"))
    BY DEF WellFormed, Idle, CallType, Steps, Answers
  <2>2. Become(c, r) \/ Become(c, Idle(t, "OK"))
    BY <1>4 DEF StartTrial
  <2> HIDE DEF r
  <2> QED
    BY <1>0, <1>4, <2>1, <2>2, BecomeTyped DEF StartTrial
<1>5. ASSUME NEW c \in Callers, InsertTrial(c) PROVE TypesOfRows' /\ CallsTyped'
  <2>1. TypesOfRows'
    BY <1>5 DEF InsertTrial, TypesOfRows, Statuses
  <2>2. WellFormed([call[c] EXCEPT !.at = "trial.reread"])
    BY DEF CallsTyped, WellFormed, CallType, Steps
  <2> QED
    BY <1>5, <2>1, <2>2, BecomeTyped, ReturnTyped DEF InsertTrial, Answers
<1>6. ASSUME NEW c \in Callers, RereadTrial(c) \/ CallFails(c)
      PROVE  TypesOfRows' /\ CallsTyped'
  BY <1>0, <1>6, ReturnTyped DEF RereadTrial, CallFails, Answers
<1>7. ASSUME NEW c \in Callers, NEW t \in Teachers, CheckGate(c, t)
      PROVE  TypesOfRows' /\ CallsTyped'
  <2>1. WellFormed(Idle(t, "GRANTED"))
    BY IdleTyped DEF Answers
  <2>2. ASSUME NEW seen \in Subs \cup {NoSub}
        PROVE WellFormed([Idle(t, "NONE") EXCEPT !.at = "gate.setting", !.sub = seen])
    BY DEF WellFormed, Idle, CallType, Steps, Answers
  <2>3. LiveSubs(t) \subseteq Subs
    BY DEF LiveSubs
  <2>4. CASE Become(c, Idle(t, "GRANTED"))
    BY <1>0, <1>7, <2>1, <2>4, BecomeTyped DEF CheckGate
  <2>5. CASE \E seen \in Subs \cup {NoSub} :
          Become(c, [Idle(t, "NONE") EXCEPT !.at = "gate.setting", !.sub = seen])
    BY <1>0, <1>7, <2>2, <2>5, BecomeTyped DEF CheckGate
  <2> QED
    BY <1>7, <2>3, <2>4, <2>5 DEF CheckGate
<1>8. ASSUME NEW c \in Callers, ReadGateSetting(c) PROVE TypesOfRows' /\ CallsTyped'
  <2>1. WellFormed([Idle(call[c].teacher, "NONE") EXCEPT !.at = "trial.insert"])
    BY DEF CallsTyped, WellFormed, CallType, Idle, Steps, Answers
  <2> QED
    BY <1>0, <1>8, <2>1, BecomeTyped, ReturnTyped DEF ReadGateSetting, Answers
<1>9. ASSUME NEW s \in Subs, PaymentActivates(s) \/ Lapse(s)
      PROVE  TypesOfRows' /\ CallsTyped'
  BY <1>9 DEF PaymentActivates, Lapse, TypesOfRows, CallsTyped, Statuses
<1>10. ASSUME AdminSetsGate PROVE TypesOfRows' /\ CallsTyped'
  BY <1>10 DEF AdminSetsGate, TypesOfRows, CallsTyped
<1>11. ASSUME NEW n \in Instances, NEW j \in Jobs, CronStart(n, j)
       PROVE  TypesOfRows' /\ CallsTyped'
  <2>1. PICK rows \in SUBSET Due(j) : batch' = [batch EXCEPT ![n][j] = rows]
    BY <1>11 DEF CronStart, kSubset
  <2>2. rows \in SUBSET Subs
    BY DEF Due, TypesOfRows
  <2> QED
    BY <1>11, <2>1, <2>2 DEF CronStart, TypesOfRows, CallsTyped
<1>12. ASSUME NEW n \in Instances, NEW j \in Jobs, CronRow(n, j)
       PROVE  TypesOfRows' /\ CallsTyped'
  <2>1. PICK s \in batch[n][j] :
          /\ Transition(s, j, "EXPIRED") \/ TransitionConflict(s, j)
          /\ batch' = [batch EXCEPT ![n][j] = @ \ {s}]
    BY <1>12 DEF CronRow
  <2>2. s \in Subs /\ batch' \in [Instances -> [Jobs -> SUBSET Subs]]
    BY <2>1 DEF TypesOfRows
  <2>3. TypesOfRows'
    BY <1>12, <2>1, <2>2, TransitionTyped DEF CronRow, TransitionConflict, TypesOfRows
  <2> QED
    BY <1>12, <2>3 DEF CronRow, CallsTyped
<1>13. ASSUME NEW n \in Instances, Restart(n) PROVE TypesOfRows' /\ CallsTyped'
  BY <1>13 DEF Restart, TypesOfRows, CallsTyped
<1>14. ASSUME NEW n \in Instances, NEW j \in Jobs, CronRowFails(n, j)
       PROVE  TypesOfRows' /\ CallsTyped'
  BY <1>14 DEF CronRowFails, TypesOfRows, CallsTyped
<1>15. CASE UNCHANGED vars
  BY <1>15 DEF vars, TypesOfRows, CallsTyped
<1> QED
  BY <1>1, <1>2, <1>3, <1>4, <1>5, <1>6, <1>7, <1>8, <1>9, <1>10, <1>11, <1>12,
     <1>13, <1>14, <1>15 DEF Next, CallerStep, CronStep

(* The type invariant of the billing service holds in every reachable      *)
(* state.                                                                  *)
THEOREM TypeCorrect == Spec => []TypeOK
BY TypeInit, TypeStep, PTL DEF Spec

-----------------------------------------------------------------------------
(* Every step of the billing service is a step of the subscription ledger. *)
LEMMA TransitionIsMove ==
  ASSUME NEW s \in Subs, NEW from, NEW to, Transition(s, from, to)
  PROVE  Ledger!Next
<1>1. Ledger!Move(s, to) /\ to \in Ledger!Statuses
  BY DEF Transition, CanTransition, Transitions, Statuses, Ledger!Move,
     Ledger!CanTransition, Ledger!Transitions, Ledger!Statuses
<1> QED
  BY <1>1 DEF Ledger!Next

LEMMA LedgerStep == TypeOK /\ [Next]_vars => [Ledger!Next]_subs
<1> SUFFICES ASSUME TypeOK, [Next]_vars PROVE [Ledger!Next]_subs
  OBVIOUS
<1>1. ASSUME NEW c \in Callers, FinishMove(c) PROVE [Ledger!Next]_subs
  BY <1>1, TransitionIsMove DEF FinishMove, TransitionConflict, TypeOK
<1>2. ASSUME NEW c \in Callers, NEW s \in Subs, MarkPastDue(c, s)
      PROVE  [Ledger!Next]_subs
  BY <1>2, TransitionIsMove DEF MarkPastDue
<1>3. ASSUME NEW c \in Callers, InsertTrial(c) PROVE [Ledger!Next]_subs
  <2>1. CASE UNCHANGED subs
    BY <2>1
  <2>2. ASSUME NEW s \in Subs, Owner[s] = call[c].teacher, subs[s] = "NONE",
               LiveSubs(call[c].teacher) = {}, subs' = [subs EXCEPT ![s] = "TRIAL"]
        PROVE  [Ledger!Next]_subs
    BY <2>2 DEF Ledger!Next, Ledger!Open, Ledger!LiveSubs, Ledger!NonTerminal,
                LiveSubs, NonTerminal
  <2> QED
    BY <1>3, <2>1, <2>2 DEF InsertTrial
<1>4. ASSUME NEW s \in Subs, PaymentActivates(s) PROVE [Ledger!Next]_subs
  <2>1. Ledger!CanTransition("TRIAL", "ACTIVE") /\ Ledger!CanTransition("PAST_DUE", "ACTIVE")
    BY DEF Ledger!CanTransition, Ledger!Transitions, Ledger!Statuses
  <2>2. Ledger!Move(s, "ACTIVE")
    BY <1>4, <2>1 DEF PaymentActivates, Ledger!Move
  <2> QED
    BY <2>2 DEF Ledger!Next, Ledger!Statuses
<1>5. ASSUME NEW n \in Instances, NEW j \in Jobs, CronRow(n, j)
      PROVE  [Ledger!Next]_subs
  BY <1>5, TransitionIsMove DEF CronRow, TransitionConflict, TypeOK
<1>6. CASE UNCHANGED subs
  BY <1>6
<1> QED
  BY <1>1, <1>2, <1>3, <1>4, <1>5, <1>6
     DEF Next, CallerStep, CronStep, vars, StartMove, StartTrial, RereadTrial,
         CallFails, CheckGate, ReadGateSetting, Lapse, AdminSetsGate, CronStart,
         CronRowFails, Restart

(* The billing service and its cron implement SubscriptionLedger, whatever *)
(* each of them read before it wrote.                                      *)
THEOREM ServiceImplementsLedger == Spec => ImplementsLedger
<1>1. Init => Ledger!Init
  BY DEF Init, Ledger!Init
<1> QED
  BY <1>1, LedgerStep, TypeCorrect, PTL DEF Spec, ImplementsLedger, Ledger!Spec

(* The rule of the partial unique index follows from the ledger alone.     *)
LEMMA OneLiveStep ==
  TypeOK /\ OneLivePerTeacher /\ [Ledger!Next]_subs => OneLivePerTeacher'
<1> SUFFICES ASSUME TypeOK, OneLivePerTeacher, Ledger!Next PROVE OneLivePerTeacher'
  BY DEF OneLivePerTeacher
<1>1. PICK s \in Subs : Ledger!Open(s) \/ \E to \in Ledger!Statuses : Ledger!Move(s, to)
  BY DEF Ledger!Next
<1>2. \A r \in Subs \ {s} : subs'[r] = subs[r]
  BY <1>1 DEF Ledger!Open, Ledger!Move, TypeOK
<1>3. CASE Ledger!Open(s)
  <2>1. \A r \in Subs : Owner[r] = Owner[s] => subs[r] \notin NonTerminal
    BY <1>3 DEF Ledger!Open, Ledger!LiveSubs, Ledger!NonTerminal, NonTerminal
  <2> QED
    BY <1>2, <2>1 DEF OneLivePerTeacher
<1>4. CASE \E to \in Ledger!Statuses : Ledger!Move(s, to)
  <2>1. subs[s] \in NonTerminal
    BY <1>4 DEF Ledger!Move, Ledger!CanTransition, Ledger!Transitions,
       Ledger!Statuses, NonTerminal
  <2> QED
    BY <1>2, <2>1 DEF OneLivePerTeacher
<1> QED
  BY <1>1, <1>3, <1>4

(* A teacher never has two open subscriptions.                             *)
THEOREM OneLive == Spec => []OneLivePerTeacher
<1>1. Init => OneLivePerTeacher
  BY DEF Init, OneLivePerTeacher, NonTerminal
<1>2. TypeOK /\ OneLivePerTeacher /\ [Next]_vars => OneLivePerTeacher'
  BY LedgerStep, OneLiveStep
<1> QED
  BY <1>1, <1>2, TypeCorrect, PTL DEF Spec

-----------------------------------------------------------------------------
(* What the cron's snapshot may rely on: a row it holds as a lapsed trial  *)
(* either still is one or has left TRIAL for good.                         *)
BatchLapsed ==
  \A n \in Instances, s \in Subs :
    s \in batch[n]["TRIAL"] => subs[s] # "NONE" /\ (subs[s] = "TRIAL" => s \in lapsed)

(* How a step may change the rows.                                         *)
LEMMA RowChange ==
  ASSUME TypeOK, [Next]_vars
  PROVE  \/ UNCHANGED <<subs, outbox>> /\ lapsed \subseteq lapsed'
         \/ \E s \in Subs :
              /\ subs[s] = "NONE" /\ subs' = [subs EXCEPT ![s] = "TRIAL"]
              /\ UNCHANGED <<lapsed, outbox>>
         \/ \E s \in Subs, to \in Statuses : Transition(s, subs[s], to)
         \/ \E s \in Subs : PaymentActivates(s)
<1>1. ASSUME NEW s \in Subs, NEW from, NEW to, Transition(s, from, to)
      PROVE  \E r \in Subs, x \in Statuses : Transition(r, subs[r], x)
  <2>1. to \in Statuses /\ from = subs[s]
    BY <1>1 DEF Transition, CanTransition, Transitions, Statuses
  <2> QED
    BY <1>1, <2>1
<1>2. \A c \in Callers : call[c].at = "move" => call[c].sub \in Subs
  BY DEF TypeOK
<1>3. \A n \in Instances, j \in Jobs : batch[n][j] \subseteq Subs
  BY DEF TypeOK
<1>4. CASE \E c \in Callers : FinishMove(c)
  BY <1>1, <1>2, <1>4 DEF FinishMove, TransitionConflict
<1>5. CASE \E c \in Callers, s \in Subs : MarkPastDue(c, s)
  BY <1>1, <1>5 DEF MarkPastDue
<1>6. CASE \E c \in Callers : InsertTrial(c)
  BY <1>6 DEF InsertTrial
<1>7. CASE \E n \in Instances, j \in Jobs : CronRow(n, j)
  BY <1>1, <1>3, <1>7 DEF CronRow, TransitionConflict
<1>8. CASE UNCHANGED <<subs, outbox>> /\ lapsed \subseteq lapsed'
  BY <1>8
<1>9. CASE \E s \in Subs : Lapse(s)
  BY <1>9 DEF Lapse
<1> QED
  BY <1>4, <1>5, <1>6, <1>7, <1>8, <1>9
     DEF Next, CallerStep, CronStep, vars, StartMove, StartTrial, RereadTrial,
         CallFails, CheckGate, ReadGateSetting, AdminSetsGate, CronStart, CronRowFails,
         Restart

(* Statuses move on: no row goes back to TRIAL or leaves a final status.   *)
LEMMA RowsMoveOn ==
  ASSUME TypeOK, [Next]_vars, NEW s \in Subs
  PROVE  /\ subs[s] # "NONE" => subs'[s] # "NONE"
         /\ subs[s] # "NONE" /\ subs'[s] = "TRIAL" => subs[s] = "TRIAL"
         /\ subs[s] = "TRIAL" /\ subs'[s] = "TRIAL" /\ s \in lapsed => s \in lapsed'
         /\ IsTerminal(subs[s]) => subs'[s] = subs[s]
<1>1. ASSUME NEW r \in Subs, NEW to \in Statuses, Transition(r, subs[r], to)
      PROVE  /\ ~IsTerminal(subs[r]) /\ to # "TRIAL" /\ subs[r] # "NONE"
             /\ subs'[r] = to /\ \A q \in Subs \ {r} : subs'[q] = subs[q]
             /\ lapsed' = lapsed \ {r}
  BY <1>1 DEF Transition, CanTransition, Transitions, Statuses, IsTerminal, TypeOK
<1>2. CASE \E r \in Subs, to \in Statuses : Transition(r, subs[r], to)
  BY <1>1, <1>2 DEF Statuses
<1>3. CASE \E r \in Subs : PaymentActivates(r)
  BY <1>3 DEF PaymentActivates, IsTerminal, TypeOK
<1>4. CASE \E r \in Subs :
             /\ subs[r] = "NONE" /\ subs' = [subs EXCEPT ![r] = "TRIAL"]
             /\ UNCHANGED <<lapsed, outbox>>
  BY <1>4 DEF IsTerminal, TypeOK
<1>5. CASE UNCHANGED subs /\ lapsed \subseteq lapsed'
  BY <1>5
<1> QED
  BY <1>2, <1>3, <1>4, <1>5, RowChange

(* A new batch holds lapsed trials only; other batches only shrink.        *)
LEMMA BatchChange ==
  ASSUME TypeOK, [Next]_vars, NEW n \in Instances, NEW s \in Subs,
         s \in batch'[n]["TRIAL"]
  PROVE  \/ s \in batch[n]["TRIAL"]
         \/ subs[s] = "TRIAL" /\ s \in lapsed /\ UNCHANGED <<subs, lapsed>>
<1>1. CASE UNCHANGED batch
  BY <1>1
<1>2. ASSUME NEW m \in Instances, NEW j \in Jobs, CronStart(m, j)
      PROVE  \/ s \in batch[n]["TRIAL"]
             \/ subs[s] = "TRIAL" /\ s \in lapsed /\ UNCHANGED <<subs, lapsed>>
  <2>1. PICK rows \in SUBSET Due(j) : batch' = [batch EXCEPT ![m][j] = rows]
    BY <1>2 DEF CronStart, kSubset
  <2> QED
    BY <1>2, <2>1 DEF CronStart, Due, TypeOK, Jobs
<1>3. ASSUME NEW m \in Instances, NEW j \in Jobs, CronRow(m, j)
      PROVE  s \in batch[n]["TRIAL"]
  <2>1. PICK r \in batch[m][j] : batch' = [batch EXCEPT ![m][j] = @ \ {r}]
    BY <1>3 DEF CronRow
  <2> QED
    BY <2>1 DEF TypeOK, Jobs
<1>4. ASSUME NEW m \in Instances, Restart(m) PROVE s \in batch[n]["TRIAL"]
  BY <1>4 DEF Restart, TypeOK, Jobs
<1>5. ASSUME NEW m \in Instances, NEW j \in Jobs, CronRowFails(m, j)
      PROVE  s \in batch[n]["TRIAL"]
  BY <1>5 DEF CronRowFails, TypeOK, Jobs
<1> QED
  BY <1>1, <1>2, <1>3, <1>4, <1>5
     DEF Next, CallerStep, CronStep, vars, StartMove, FinishMove, MarkPastDue,
         StartTrial, InsertTrial, RereadTrial, CallFails, CheckGate,
         ReadGateSetting, AdminSetsGate, PaymentActivates, Lapse

LEMMA BatchStep == TypeOK /\ BatchLapsed /\ [Next]_vars => BatchLapsed'
BY RowsMoveOn, BatchChange DEF BatchLapsed

LEMMA TrialStep ==
  ASSUME TypeOK, BatchLapsed, [Next]_vars, NEW s \in Subs,
         subs[s] = "TRIAL", subs'[s] = "EXPIRED"
  PROVE  s \in lapsed
<1>1. ASSUME NEW r, NEW from, NEW to, Transition(r, from, to)
      PROVE  r = s /\ from = "TRIAL" /\ to = "EXPIRED"
  BY <1>1 DEF Transition, TypeOK
<1>2. ASSUME NEW c \in Callers, FinishMove(c) PROVE FALSE
  <2>1. call[c].to # "EXPIRED"
    BY DEF TypeOK, CallType
  <2> QED
    BY <1>1, <1>2, <2>1 DEF FinishMove, TransitionConflict
<1>3. ASSUME NEW c \in Callers, NEW r \in Subs, MarkPastDue(c, r) PROVE FALSE
  BY <1>1, <1>3 DEF MarkPastDue
<1>4. ASSUME NEW c \in Callers, InsertTrial(c) PROVE FALSE
  BY <1>4 DEF InsertTrial, TypeOK
<1>5. ASSUME NEW r \in Subs, PaymentActivates(r) PROVE FALSE
  BY <1>5 DEF PaymentActivates, TypeOK
<1>6. ASSUME NEW n \in Instances, NEW j \in Jobs, CronRow(n, j) PROVE s \in lapsed
  <2>1. PICK r \in batch[n][j] : Transition(r, j, "EXPIRED") \/ TransitionConflict(r, j)
    BY <1>6 DEF CronRow
  <2>2. r = s /\ j = "TRIAL"
    BY <1>1, <2>1 DEF TransitionConflict
  <2> QED
    BY <2>1, <2>2 DEF BatchLapsed
<1>7. ~UNCHANGED subs
  OBVIOUS
<1> QED
  BY <1>2, <1>3, <1>4, <1>5, <1>6, <1>7
     DEF Next, CallerStep, CronStep, vars, StartMove, StartTrial, RereadTrial,
         CallFails, CheckGate, ReadGateSetting, AdminSetsGate, CronStart, CronRowFails,
         Restart,
         Lapse

(* A trial is expired only when its time is over, however old the cron's   *)
(* snapshot is.                                                            *)
THEOREM TrialsRunTheirCourse == Spec => TrialRunsItsCourse
<1>1. Init => BatchLapsed
  BY DEF Init, BatchLapsed, Jobs
<1>2. Spec => []BatchLapsed
  BY <1>1, BatchStep, TypeCorrect, PTL DEF Spec
<1>3. TypeOK /\ BatchLapsed /\ [Next]_vars =>
        [\A s \in Subs : subs[s] = "TRIAL" /\ subs'[s] = "EXPIRED" => s \in lapsed]_vars
  BY TrialStep
<1> QED
  BY <1>2, <1>3, TypeCorrect, PTL DEF Spec, TrialRunsItsCourse

-----------------------------------------------------------------------------
(* The inductive invariant of the events: as they are checked, and each of *)
(* them is about a row that has been opened, so that opening a row cannot  *)
(* contradict an event.                                                    *)
EventsInv ==
  /\ EventsTellTheTruth
  /\ \A e \in outbox : subs[e[1]] # "NONE"

LEMMA EventsStep == TypeOK /\ EventsInv /\ [Next]_vars => EventsInv'
<1> SUFFICES ASSUME TypeOK, EventsInv, [Next]_vars PROVE EventsInv'
  OBVIOUS
<1>1. CASE UNCHANGED <<subs, outbox>>
  BY <1>1 DEF EventsInv, EventsTellTheTruth
<1>2. ASSUME NEW s \in Subs, UNCHANGED outbox,
             \/ subs[s] = "NONE" /\ subs' = [subs EXCEPT ![s] = "TRIAL"]
             \/ PaymentActivates(s)
      PROVE  EventsInv'
  <2>1. /\ subs'[s] \in {"TRIAL", "ACTIVE"}
        /\ \A r \in Subs \ {s} : subs'[r] = subs[r]
        /\ subs'[s] = "TRIAL" => subs[s] = "NONE"
        /\ ~IsTerminal(subs[s])
    BY <1>2 DEF PaymentActivates, TypeOK, IsTerminal
  <2>2. \A e \in outbox : e[1] \in Subs
    BY DEF TypeOK
  <2> QED
    BY <1>2, <2>1, <2>2 DEF EventsInv, EventsTellTheTruth, IsTerminal
<1>3. ASSUME NEW s \in Subs, NEW to \in Statuses, Transition(s, subs[s], to)
      PROVE  EventsInv'
  <2>1. /\ subs[s] \in NonTerminal /\ to \notin {"TRIAL", "NONE"} /\ subs'[s] = to
        /\ \A r \in Subs \ {s} : subs'[r] = subs[r]
        /\ outbox' = outbox \cup {<<s, subs[s], to>>}
    BY <1>3 DEF Transition, CanTransition, Transitions, Statuses, NonTerminal, TypeOK
  <2>2. \A e \in outbox : e[1] \in Subs
    BY DEF TypeOK
  <2>3. ASSUME NEW e \in outbox'
        PROVE  /\ e[2] = "TRIAL" => subs'[e[1]] # "TRIAL"
               /\ IsTerminal(e[3]) => subs'[e[1]] = e[3]
               /\ subs'[e[1]] # "NONE"
    <3>1. CASE e = <<s, subs[s], to>>
      BY <2>1, <3>1
    <3>2. CASE e \in outbox
      BY <2>1, <2>2, <3>2 DEF EventsInv, EventsTellTheTruth, IsTerminal, NonTerminal
    <3> QED
      BY <2>1, <2>3, <3>1, <3>2
  <2>4. ASSUME NEW r \in Subs, IsTerminal(subs'[r])
        PROVE  \E from \in NonTerminal : <<r, from, subs'[r]>> \in outbox'
    <3>1. CASE r = s
      BY <2>1, <3>1
    <3>2. CASE r # s
      BY <2>1, <2>4, <3>2 DEF EventsInv, EventsTellTheTruth
    <3> QED
      BY <3>1, <3>2
  <2> QED
    BY <2>3, <2>4 DEF EventsInv, EventsTellTheTruth
<1> QED
  BY <1>1, <1>2, <1>3, RowChange DEF PaymentActivates

(* The outbox and the rows agree.                                          *)
THEOREM EventsCorrect == Spec => []EventsTellTheTruth
<1>1. Init => EventsInv
  BY DEF Init, EventsInv, EventsTellTheTruth, IsTerminal
<1>2. EventsInv => EventsTellTheTruth
  BY DEF EventsInv
<1> QED
  BY <1>1, <1>2, EventsStep, TypeCorrect, PTL DEF Spec
=============================================================================
