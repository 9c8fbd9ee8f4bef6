--------------------------- MODULE HomeworkProofs ---------------------------
(***************************************************************************)
(* Proofs about Homework.tla, for any number of calls, workers, versions   *)
(* of the answers and tries.                                               *)
(***************************************************************************)
EXTENDS Homework, TLAPS

-----------------------------------------------------------------------------
(* A job that is not over has a try left, and only such a job is locked.   *)
JobInv ==
  /\ job.state = "queued" => job.tries < Attempts
  /\ job.lock # None => job.state = "queued"

Typed == TypeOK /\ JobInv

LEMMA CallMoves ==
  ASSUME TypeOK, NEW c \in Callers
  PROVE  /\ Finish(c) => call' \in [Callers -> Calls]
         /\ \A step \in Steps, v \in Versions \cup {None}, own \in BOOLEAN :
              Goto(c, step, v, own) => call' \in [Callers -> Calls]
<1>1. IdleCall \in Calls
  BY DEF IdleCall, Calls
<1>2. ASSUME NEW step \in Steps, NEW v \in Versions \cup {None}, NEW own \in BOOLEAN
      PROVE  [at |-> step, v |-> v, own |-> own] \in Calls
  BY DEF Calls
<1> QED
  BY <1>1, <1>2 DEF TypeOK, Finish, Goto

LEMMA WorkMoves ==
  ASSUME TypeOK, NEW w \in Workers, NEW v \in Versions \cup {None},
         NEW step \in {"idle", "judge", "insert", "ack"}, Rest(w, step, v)
  PROVE  work' \in [Workers -> Works]
BY DEF TypeOK, Works, Rest

(* What a call or a worker carries.                                        *)
LEMMA Carried ==
  ASSUME TypeOK
  PROVE  /\ \A c \in Callers : call[c].v \in Versions \cup {None}
         /\ \A w \in Workers : work[w].v \in Versions \cup {None}
BY DEF TypeOK, Calls, Works

LEMMA FreshJob ==
  /\ NoJob \in Jobs /\ NoJob.tries < Attempts /\ NoJob.lock = None
  /\ [NoJob EXCEPT !.state = "queued"] \in Jobs
<1>1. 0 \in 0..Attempts /\ 0 < Attempts
  BY AttemptsAssumption
<1>2. NoJob \in Jobs
  BY <1>1 DEF NoJob, Jobs
<1>3. [NoJob EXCEPT !.state = "queued"] \in Jobs
  BY <1>2 DEF Jobs
<1> QED
  BY <1>1, <1>2, <1>3 DEF NoJob

LEMMA TypeInit == Init => Typed
<1>1. NoJob \in Jobs /\ NoJob.tries < Attempts /\ NoJob.lock = None
  BY FreshJob
<1>2. IdleCall \in Calls /\ IdleWork \in Works
  BY DEF IdleCall, Calls, IdleWork, Works
<1>3. Init => JobInv
  BY <1>1 DEF Init, JobInv
<1>4. Init => call \in [Callers -> Calls] /\ work \in [Workers -> Works]
  BY <1>2 DEF Init
<1>5. Init => submittedAt \in BOOLEAN /\ scored \in BOOLEAN /\ job \in Jobs
  BY <1>1, Zenon DEF Init
<1>6. Init => /\ status \in Statuses /\ answers \in Versions \cup {None}
              /\ signal \in Versions \cup {None} /\ feedback \in Nat
              /\ outbox \subseteq {"submission.submitted", "homework.graded"}
  BY DEF Init, Statuses
<1>7. Init => TypeOK
  BY <1>4, <1>5, <1>6, Zenon DEF TypeOK
<1> QED
  BY <1>3, <1>7 DEF Typed

LEMMA CallTypes ==
  ASSUME Typed, NEW c \in Callers, CallStep(c)
  PROVE  Typed'
<1> USE DEF Typed, JobInv, row, Statuses, Emit
<1>1. ASSUME NEW v \in Versions, EditRead(c, v) PROVE Typed'
  BY <1>1, CallMoves DEF TypeOK, EditRead, Steps
<1>2. ASSUME NEW v \in Versions, SubmitRead(c, v) PROVE Typed'
  <2>1. call' \in [Callers -> Calls]
    BY <1>2, CallMoves DEF TypeOK, SubmitRead, Steps
  <2> QED
    BY <1>2, <2>1 DEF TypeOK, SubmitRead
<1>3. CASE EditCommit(c)
  BY <1>3, CallMoves, Carried DEF TypeOK, EditCommit
<1>4. CASE SubmitCommit(c)
  <2>1. call' \in [Callers -> Calls]
    BY <1>4, CallMoves DEF SubmitCommit, Steps
  <2>2. answers' \in Versions \cup {None} /\ signal' \in Versions \cup {None}
    BY <1>4, Carried DEF TypeOK, SubmitCommit, Stamp
  <2> QED
    BY <1>4, <2>1, <2>2 DEF TypeOK, SubmitCommit
<1>5. CASE Enqueue(c)
  <2>1. call' \in [Callers -> Calls]
    BY <1>5, CallMoves DEF Enqueue
  <2>2. job' \in Jobs /\ JobInv'
    <3>1. CASE job.state = "none"
      BY <1>5, <3>1, FreshJob, AttemptsAssumption DEF Enqueue, NoJob
    <3>2. CASE job.state # "none"
      BY <1>5, <3>2 DEF Enqueue, TypeOK
    <3> QED
      BY <3>1, <3>2
  <2> QED
    BY <1>5, <2>1, <2>2 DEF TypeOK, Enqueue
<1>6. CASE DecideRead(c)
  BY <1>6, CallMoves DEF TypeOK, DecideRead, Steps
<1>7. CASE GradeCommit(c)
  BY <1>7, CallMoves DEF TypeOK, GradeCommit
<1>8. CASE ReturnCommit(c)
  BY <1>8, CallMoves DEF TypeOK, ReturnCommit
<1>9. CASE GiveUp(c)
  BY <1>9, CallMoves DEF TypeOK, GiveUp
<1> QED
  BY <1>1, <1>2, <1>3, <1>4, <1>5, <1>6, <1>7, <1>8, <1>9 DEF CallStep

LEMMA WorkTypes ==
  ASSUME Typed, NEW w \in Workers, PrecheckBegin(w) \/ Run(w) \/ JobFails(w)
  PROVE  Typed'
<1> USE DEF Typed, JobInv, row, Statuses
<1>1. CASE PrecheckBegin(w)
  <2>1. work' \in [Workers -> Works]
    BY <1>1, WorkMoves DEF TypeOK, PrecheckBegin
  <2> QED
    BY <1>1, <2>1 DEF TypeOK, PrecheckBegin, Jobs
<1>2. CASE PrecheckRecheck(w)
  <2>1. work' \in [Workers -> Works]
    BY <1>2, WorkMoves, Carried DEF PrecheckRecheck
  <2> QED
    BY <1>2, <2>1 DEF TypeOK, PrecheckRecheck
<1>3. CASE PrecheckCommit(w)
  <2>1. work' \in [Workers -> Works]
    BY <1>3, WorkMoves DEF PrecheckCommit
  <2> QED
    BY <1>3, <2>1, Carried DEF TypeOK, PrecheckCommit
<1>4. CASE JobDone(w)
  <2>1. work' \in [Workers -> Works]
    BY <1>4, WorkMoves DEF JobDone
  <2> QED
    BY <1>4, <2>1 DEF TypeOK, JobDone, Jobs
<1>5. CASE JobFails(w)
  <2>1. work' \in [Workers -> Works]
    BY <1>5, WorkMoves DEF JobFails
  <2>2. job.lock = w => w # None /\ job.tries \in Nat /\ job.tries + 1 \in 0..Attempts
    BY NoneAssumption, AttemptsAssumption DEF TypeOK, Jobs
  <2>3. job' \in Jobs /\ JobInv'
    <3>1. CASE job.lock # w
      BY <1>5, <3>1 DEF JobFails, TypeOK
    <3>2. CASE job.lock = w
      <4> DEFINE next == IF job.tries + 1 = Attempts THEN "failed" ELSE "queued"
      <4>1. job' = [job EXCEPT !.state = next, !.tries = job.tries + 1, !.lock = None]
        BY <1>5, <3>2 DEF JobFails
      <4>2. job' \in Jobs /\ job'.state = next /\ job'.tries = job.tries + 1 /\ job'.lock = None
        BY <2>2, <3>2, <4>1 DEF TypeOK, Jobs
      <4>3. job.tries + 1 # Attempts => job.tries + 1 < Attempts
        BY <2>2, <3>2, AttemptsAssumption
      <4> QED
        BY <4>2, <4>3
    <3> QED
      BY <3>1, <3>2
  <2> QED
    BY <1>5, <2>1, <2>3 DEF TypeOK, JobFails
<1> QED
  BY <1>1, <1>2, <1>3, <1>4, <1>5 DEF Run

LEMMA TypeStep == Typed /\ [Next]_vars => Typed'
<1> SUFFICES ASSUME Typed, [Next]_vars PROVE Typed'
  OBVIOUS
<1> USE DEF row, Statuses
<1>1. ASSUME NEW v \in Versions, CreateDraft(v) PROVE Typed'
  BY <1>1 DEF Typed, JobInv, TypeOK, CreateDraft
<1>2. CASE JobStalls
  BY <1>2 DEF Typed, JobInv, TypeOK, JobStalls, Jobs
<1>3. CASE JobForgotten
  BY <1>3, AttemptsAssumption DEF Typed, JobInv, TypeOK, JobForgotten, Jobs, NoJob
<1>4. CASE UNCHANGED vars
  BY <1>4 DEF Typed, JobInv, TypeOK, vars
<1> QED
  BY CallTypes, WorkTypes, <1>1, <1>2, <1>3, <1>4 DEF Next

LEMMA AlwaysTyped == Spec => []Typed
BY TypeInit, TypeStep, PTL DEF Spec

(* Every variable keeps its type, and no job is tried too often.           *)
THEOREM TypeCorrect == Spec => []TypeOK
BY AlwaysTyped, PTL DEF Typed

-----------------------------------------------------------------------------
(* What RowsAgree rests on: who is under way has answers in hand, and a    *)
(* precheck that goes on began after the submission was announced.         *)
HandsInv ==
  /\ status # "NONE" => answers # None
  /\ \A c \in Callers : call[c].at \in {"edit", "submit"} => call[c].v # None
  /\ \A w \in Workers : work[w].at \in {"judge", "insert"} =>
       work[w].v # None /\ "submission.submitted" \in outbox

Invariant == TypeOK /\ RowsAgree /\ HandsInv

LEMMA InvariantInit == Init => Invariant
BY TypeInit DEF Init, Invariant, Typed, RowsAgree, HandsInv, IdleCall, IdleWork

LEMMA CallsKeep ==
  ASSUME Invariant, NEW c \in Callers, CallStep(c)
  PROVE  RowsAgree' /\ HandsInv'
<1> USE DEF Invariant, RowsAgree, HandsInv, row, Emit, Editable
<1>1. ASSUME NEW v \in Versions, EditRead(c, v) \/ SubmitRead(c, v)
      PROVE  RowsAgree' /\ HandsInv'
  BY <1>1, NoneAssumption DEF EditRead, SubmitRead, Goto, TypeOK
<1>2. CASE EditCommit(c)
  BY <1>2 DEF EditCommit, Finish, IdleCall, TypeOK
<1>3. CASE SubmitCommit(c)
  <2>1. call[c].v # None /\ answers # None
    BY <1>3 DEF SubmitCommit
  <2>2. answers' # None /\ HandsInv'
    BY <1>3, <2>1 DEF SubmitCommit, Goto, TypeOK
  <2>3. RowsAgree'
    BY <1>3 DEF SubmitCommit, TypeOK
  <2> QED
    BY <2>2, <2>3
<1>4. CASE Enqueue(c) \/ GiveUp(c)
  BY <1>4 DEF Enqueue, GiveUp, Finish, IdleCall, TypeOK
<1>5. CASE DecideRead(c)
  BY <1>5 DEF DecideRead, Goto, TypeOK
<1>6. CASE GradeCommit(c)
  BY <1>6 DEF GradeCommit, Finish, IdleCall, Gradable, TypeOK
<1>7. CASE ReturnCommit(c)
  BY <1>7 DEF ReturnCommit, Finish, IdleCall, Returnable, TypeOK
<1> QED
  BY <1>1, <1>2, <1>3, <1>4, <1>5, <1>6, <1>7 DEF CallStep

LEMMA WorkersKeep ==
  ASSUME Invariant, NEW w \in Workers, PrecheckBegin(w) \/ Run(w) \/ JobFails(w)
  PROVE  RowsAgree' /\ HandsInv'
<1> USE DEF Invariant, RowsAgree, HandsInv, row, Rest
<1>1. CASE PrecheckBegin(w)
  BY <1>1 DEF PrecheckBegin, TypeOK
<1>2. CASE PrecheckRecheck(w)
  BY <1>2 DEF PrecheckRecheck, TypeOK
<1>3. CASE PrecheckCommit(w)
  <2>1. feedback' > 0 /\ work[w].v # None /\ "submission.submitted" \in outbox
    BY <1>3 DEF PrecheckCommit, TypeOK
  <2>2. RowsAgree'
    BY <1>3, <2>1 DEF PrecheckCommit
  <2>3. HandsInv'
    BY <1>3 DEF PrecheckCommit, TypeOK
  <2> QED
    BY <2>2, <2>3
<1>4. CASE JobDone(w) \/ JobFails(w)
  BY <1>4 DEF JobDone, JobFails, TypeOK
<1> QED
  BY <1>1, <1>2, <1>3, <1>4 DEF Run

LEMMA InvariantStep == Typed /\ Typed' /\ Invariant /\ [Next]_vars => Invariant'
<1> SUFFICES ASSUME Typed', Invariant, [Next]_vars PROVE RowsAgree' /\ HandsInv'
  BY DEF Invariant, Typed
<1>1. ASSUME NEW v \in Versions, CreateDraft(v) PROVE RowsAgree' /\ HandsInv'
  BY <1>1, NoneAssumption DEF CreateDraft, Invariant, RowsAgree, HandsInv
<1>2. CASE JobStalls \/ JobForgotten
  BY <1>2 DEF JobStalls, JobForgotten, Invariant, RowsAgree, HandsInv, row
<1>3. CASE UNCHANGED vars
  BY <1>3 DEF Invariant, RowsAgree, HandsInv, vars, row
<1> QED
  BY CallsKeep, WorkersKeep, <1>1, <1>2, <1>3 DEF Next

LEMMA InvariantHolds == Spec => []Invariant
BY InvariantInit, InvariantStep, AlwaysTyped, PTL DEF Spec

(* Row, feedback and events tell one story.                                *)
THEOREM RowsAlwaysAgree == Spec => []RowsAgree
BY InvariantHolds, PTL DEF Invariant

-----------------------------------------------------------------------------
(* While no run was taken for dead, whoever works on the job holds its     *)
(* lock, so that what the second look has found is true at the insert.     *)
Alone ==
  /\ \A w \in Workers : work[w].at # "idle" => job.lock = w
  /\ \A w \in Workers : work[w].at = "insert" => feedback = 0
  /\ feedback <= 1

LEMMA RunsKeepAlone ==
  ASSUME Typed, Alone, NEW w \in Workers, PrecheckBegin(w) \/ Run(w) \/ JobFails(w)
  PROVE  Alone'
<1> USE DEF Typed, TypeOK, Alone, Rest
<1>1. w # None
  BY NoneAssumption
<1>2. CASE PrecheckBegin(w)
  <2>1. \A v \in Workers : work[v].at = "idle"
    <3>1. job.lock = None
      BY <1>2 DEF PrecheckBegin
    <3> QED
      BY <3>1, NoneAssumption
  <2>2. job'.lock = w /\ feedback' = feedback
    BY <1>2 DEF PrecheckBegin, Jobs
  <2>3. \A v \in Workers : work'[v].at # "idle" => v = w
    BY <1>2, <2>1 DEF PrecheckBegin
  <2>4. work'[w].at # "insert"
    BY <1>2 DEF PrecheckBegin
  <2> QED
    BY <2>2, <2>3, <2>4
<1>3. CASE PrecheckRecheck(w)
  BY <1>3 DEF PrecheckRecheck
<1>4. CASE PrecheckCommit(w)
  <2>1. job.lock = w /\ feedback = 0 /\ feedback' = 1
    BY <1>4 DEF PrecheckCommit
  <2>2. \A v \in Workers : v # w => work'[v] = work[v] /\ work[v].at = "idle"
    BY <1>4, <2>1 DEF PrecheckCommit
  <2> QED
    BY <1>4, <2>1, <2>2 DEF PrecheckCommit
<1>5. CASE JobDone(w) \/ JobFails(w)
  <2>1. job.lock = w
    BY <1>5 DEF JobDone, JobFails
  <2>2. \A v \in Workers : work'[v].at = "idle"
    BY <1>5, <2>1 DEF JobDone, JobFails
  <2> QED
    BY <1>5, <2>2 DEF JobDone, JobFails
<1> QED
  BY <1>2, <1>3, <1>4, <1>5 DEF Run

Trusted == ~job.stalled

LEMMA AloneStep == Typed /\ Alone /\ Trusted /\ Trusted' /\ [Next]_vars => Alone'
<1> SUFFICES ASSUME Typed, Alone, Trusted, Trusted', [Next]_vars PROVE Alone'
  OBVIOUS
<1>1. ASSUME NEW c \in Callers, CallStep(c) PROVE Alone'
  <2>1. UNCHANGED <<feedback, work>>
    BY <1>1 DEF CallStep, EditRead, SubmitRead, EditCommit, SubmitCommit, Enqueue,
                DecideRead, GradeCommit, ReturnCommit, GiveUp
  <2>2. job' = job \/ Enqueue(c)
    BY <1>1 DEF CallStep, EditRead, SubmitRead, EditCommit, SubmitCommit,
                DecideRead, GradeCommit, ReturnCommit, GiveUp
  <2>3. Enqueue(c) => job'.lock = job.lock
    BY NoneAssumption DEF Enqueue, Typed, TypeOK, JobInv, Jobs, NoJob
  <2> QED
    BY <2>1, <2>2, <2>3 DEF Alone
<1>2. ASSUME NEW v \in Versions, CreateDraft(v) PROVE Alone'
  BY <1>2 DEF CreateDraft, Alone
<1>3. CASE JobStalls
  <2>1. FALSE
    BY <1>3 DEF JobStalls, Typed, TypeOK, JobInv, Jobs, Trusted
  <2> QED
    BY <2>1
<1>4. CASE JobForgotten
  <2>1. job.lock = None
    BY <1>4 DEF JobForgotten, Typed, JobInv
  <2>2. \A w \in Workers : work[w].at = "idle"
    BY <2>1, NoneAssumption DEF Alone
  <2> QED
    BY <1>4, <2>2 DEF JobForgotten, Alone
<1>5. CASE UNCHANGED vars
  BY <1>5 DEF vars, Alone
<1> QED
  BY RunsKeepAlone, <1>1, <1>2, <1>3, <1>4, <1>5 DEF Next

(* One submission gets one feedback of the AI, for any number of workers,  *)
(* tries and submissions, as long as no run is taken for dead.             *)
THEOREM FeedbackOnce == Spec => OneFeedback
<1>1. Init => Alone
  BY NoneAssumption DEF Init, Alone, IdleWork
<1>2. Alone => feedback <= 1
  BY DEF Alone
<1>3. ~job.stalled <=> Trusted
  BY DEF Trusted
<1>4. Spec /\ []Trusted => []Alone
  BY <1>1, AloneStep, AlwaysTyped, PTL DEF Spec
<1> QED
  BY <1>2, <1>3, <1>4, PTL DEF OneFeedback

-----------------------------------------------------------------------------
LEMMA LedgerStep ==
  ASSUME Invariant, Next
  PROVE  [Ledger!Next]_(Ledger!ledgerVars)
<1> USE DEF Ledger!ledgerVars, row
<1>1. ASSUME NEW v \in Versions, CreateDraft(v) PROVE Ledger!Next
  BY <1>1 DEF CreateDraft, Ledger!Next, Ledger!Open, Ledger!Move
<1>2. ASSUME NEW c \in Callers, SubmitCommit(c) PROVE Ledger!Next
  BY <1>2 DEF SubmitCommit, Editable, Ledger!Next, Ledger!Submit, Ledger!Move
<1>3. ASSUME NEW c \in Callers, GradeCommit(c) PROVE Ledger!Next
  BY <1>3 DEF GradeCommit, Gradable, Ledger!Next, Ledger!Grade, Ledger!Move
<1>4. ASSUME NEW c \in Callers, ReturnCommit(c) PROVE Ledger!Next
  BY <1>4 DEF ReturnCommit, Returnable, Ledger!Next, Ledger!Return, Ledger!Move
<1>5. ASSUME NEW w \in Workers, PrecheckCommit(w) PROVE Ledger!Next
  <2>1. feedback' > 0
    BY <1>5 DEF PrecheckCommit, Invariant, TypeOK
  <2>2. status \in {"SUBMITTED", "IN_REVIEW", "GRADED", "RETURNED"}
    BY <1>5 DEF PrecheckCommit, Invariant, HandsInv, RowsAgree, TypeOK, Statuses
  <2> QED
    BY <1>5, <2>1, <2>2 DEF PrecheckCommit, Ledger!Next, Ledger!Precheck, Ledger!Move
<1>6. ASSUME NEW c \in Callers,
             \/ \E v \in Versions : EditRead(c, v) \/ SubmitRead(c, v)
             \/ EditCommit(c) \/ Enqueue(c) \/ DecideRead(c) \/ GiveUp(c)
      PROVE  UNCHANGED Ledger!ledgerVars
  BY <1>6 DEF EditRead, SubmitRead, EditCommit, Enqueue, DecideRead, GiveUp
<1>7. ASSUME NEW w \in Workers,
             PrecheckBegin(w) \/ PrecheckRecheck(w) \/ JobDone(w) \/ JobFails(w)
      PROVE  UNCHANGED Ledger!ledgerVars
  BY <1>7 DEF PrecheckBegin, PrecheckRecheck, JobDone, JobFails
<1>8. CASE JobStalls \/ JobForgotten
  BY <1>8 DEF JobStalls, JobForgotten
<1>9. ASSUME NEW c \in Callers, CallStep(c) PROVE [Ledger!Next]_(Ledger!ledgerVars)
  BY <1>2, <1>3, <1>4, <1>6, <1>9 DEF CallStep
<1>10. ASSUME NEW w \in Workers, PrecheckBegin(w) \/ Run(w) \/ JobFails(w)
       PROVE  [Ledger!Next]_(Ledger!ledgerVars)
  BY <1>5, <1>7, <1>10 DEF Run
<1> QED
  BY <1>1, <1>8, <1>9, <1>10 DEF Next

(* The module implements SubmissionLedger.                                 *)
THEOREM HomeworkImplementsLedger == Spec => ImplementsSubmissionLedger
<1>1. Init => Ledger!Init
  BY DEF Init, Ledger!Init
<1>2. Invariant /\ [Next]_vars => [Ledger!Next]_(Ledger!ledgerVars)
  BY LedgerStep DEF vars, row, Ledger!ledgerVars
<1> QED
  BY <1>1, <1>2, InvariantHolds, PTL DEF Spec, ImplementsSubmissionLedger, Ledger!Spec
=============================================================================
