------------------------------ MODULE Homework ------------------------------
(***************************************************************************)
(* One submission: a student saves answers and submits them, the teacher   *)
(* grades it or sends it back, and a queue job lets the AI look at it in   *)
(* between. Each request reads the row, awaits, and commits; the row may   *)
(* have moved. The job may run twice at a time, since a run that has lost  *)
(* its lock is given to another worker and goes on nevertheless.           *)
(***************************************************************************)
EXTENDS Naturals, FiniteSets

CONSTANTS
  Callers,    \* API calls in flight
  Workers,    \* workers of the queue ai-grading
  Versions,   \* of the answers
  Attempts,   \* tries of a job
  None        \* no answers, no worker

ASSUME NoneAssumption == None \notin Versions \cup Workers
ASSUME AttemptsAssumption == Attempts \in Nat \ {0}

VARIABLES
  status,       \* status of the Submission, "NONE" without a row
  answers,      \* answersJson
  submittedAt,  \* submittedAt is set
  scored,       \* score is set
  signal,       \* answers that aiLikelihood and aiFlagged were computed from
  feedback,     \* number of Feedback rows with authorType "AI"
  outbox,       \* events of the submission
  job,          \* the job "ai-precheck:<submission>": state, tries, lock,
                \* and whether a run of it was taken for dead
  call,         \* what each call is doing
  work          \* what each worker is doing

row == <<status, answers, submittedAt, scored>>
vars == <<row, signal, feedback, outbox, job, call, work>>

Statuses == {"NONE", "DRAFT", "SUBMITTED", "IN_REVIEW", "GRADED", "RETURNED"}
Editable == {"DRAFT", "RETURNED"}
Gradable == {"SUBMITTED", "IN_REVIEW", "GRADED"}
Returnable == {"IN_REVIEW", "GRADED"}

(* v: the answers the call carries; own: they came with the request, and   *)
(* were not read from the row.                                             *)
Steps == {"edit", "submit", "enqueue", "grade", "return"}
IdleCall == [at |-> "idle", v |-> None, own |-> FALSE]
Calls == [at : Steps \cup {"idle"}, v : Versions \cup {None}, own : BOOLEAN]

IdleWork == [at |-> "idle", v |-> None]
Works == [at : {"idle", "judge", "insert", "ack"}, v : Versions \cup {None}]

NoJob == [state |-> "none", tries |-> 0, lock |-> None, stalled |-> FALSE]
Jobs == [state : {"none", "queued", "done", "failed"}, tries : 0..Attempts,
         lock : Workers \cup {None}, stalled : BOOLEAN]

TypeOK ==
  /\ status \in Statuses
  /\ answers \in Versions \cup {None}
  /\ submittedAt \in BOOLEAN
  /\ scored \in BOOLEAN
  /\ signal \in Versions \cup {None}
  /\ feedback \in Nat
  /\ outbox \subseteq {"submission.submitted", "homework.graded"}
  /\ job \in Jobs
  /\ call \in [Callers -> Calls]
  /\ work \in [Workers -> Works]

Init ==
  /\ status = "NONE"
  /\ answers = None
  /\ submittedAt = FALSE
  /\ scored = FALSE
  /\ signal = None
  /\ feedback = 0
  /\ outbox = {}
  /\ job = NoJob
  /\ call = [c \in Callers |-> IdleCall]
  /\ work = [w \in Workers |-> IdleWork]

Goto(c, step, v, own) == call' = [call EXCEPT ![c] = [at |-> step, v |-> v, own |-> own]]
Finish(c) == call' = [call EXCEPT ![c] = IdleCall]
Emit(topic) == outbox' = outbox \cup {topic}

-----------------------------------------------------------------------------
(* The student.                                                            *)

(* createDraft: the unique index lets one insert through; whoever loses,   *)
(* or finds a row, is given that row.                                      *)
CreateDraft(v) ==
  /\ status = "NONE"
  /\ status' = "DRAFT"
  /\ answers' = v
  /\ UNCHANGED <<submittedAt, scored, signal, feedback, outbox, job, call, work>>

(* updateAnswers checks the status it read and updates by id.              *)
EditRead(c, v) ==
  /\ call[c].at = "idle"
  /\ status \in Editable
  /\ Goto(c, "edit", v, TRUE)
  /\ UNCHANGED <<row, signal, feedback, outbox, job, work>>

EditCommit(c) ==
  /\ call[c].at = "edit"
  /\ answers' = call[c].v
  /\ Finish(c)
  /\ UNCHANGED <<status, submittedAt, scored, signal, feedback, outbox, job, work>>

(* submit: with answers of its own or those of the row.                    *)
SubmitRead(c, v) ==
  /\ call[c].at = "idle"
  /\ status \in Editable
  /\ Goto(c, "submit", v, TRUE) \/ Goto(c, "submit", answers, FALSE)
  /\ UNCHANGED <<row, signal, feedback, outbox, job, work>>

(* The detector has looked at the answers of the call before; if it failed *)
(* the row keeps the signal it has.                                        *)
Stamp(v) == signal' \in {v, signal}

(* Faulty variant: the event is written for a first submission only if the *)
(* detector has answered.                                                  *)
SubmitCommit_NoEvent(c) ==
  /\ call[c].at = "submit"
  /\ status \in Editable
  /\ status' = "SUBMITTED"
  /\ submittedAt' = TRUE
  /\ answers' = IF call[c].own THEN call[c].v ELSE answers
  /\ \/ signal' = call[c].v /\ Emit("submission.submitted")
     \/ UNCHANGED <<signal, outbox>>
  /\ Goto(c, "enqueue", None, FALSE)
  /\ UNCHANGED <<scored, feedback, job, work>>

SubmitCommit(c) ==
  /\ call[c].at = "submit"
  /\ status \in Editable
  /\ status' = "SUBMITTED"
  /\ submittedAt' = TRUE
  /\ answers' = IF call[c].own THEN call[c].v ELSE answers
  /\ Stamp(call[c].v)
  /\ Emit("submission.submitted")
  /\ Goto(c, "enqueue", None, FALSE)
  /\ UNCHANGED <<scored, feedback, job, work>>

(* After the commit: the queue ignores an id it knows, also of a job that  *)
(* is over and still kept.                                                 *)
Enqueue(c) ==
  /\ call[c].at = "enqueue"
  /\ job' = IF job.state = "none" THEN [NoJob EXCEPT !.state = "queued"] ELSE job
  /\ Finish(c)
  /\ UNCHANGED <<row, signal, feedback, outbox, work>>

-----------------------------------------------------------------------------
(* The teacher.                                                            *)
DecideRead(c) ==
  /\ call[c].at = "idle"
  /\ \/ status \in Gradable /\ Goto(c, "grade", None, FALSE)
     \/ status \in Returnable /\ Goto(c, "return", None, FALSE)
  /\ UNCHANGED <<row, signal, feedback, outbox, job, work>>

GradeCommit(c) ==
  /\ call[c].at = "grade"
  /\ status \in Gradable
  /\ status' = "GRADED"
  /\ scored' = TRUE
  /\ Emit("homework.graded")
  /\ Finish(c)
  /\ UNCHANGED <<answers, submittedAt, signal, feedback, job, work>>

(* Faulty variant: the status is not asked again at the update.            *)
ReturnCommit_NoPrecondition(c) ==
  /\ call[c].at = "return"
  /\ status' = "RETURNED"
  /\ submittedAt' = FALSE
  /\ Finish(c)
  /\ UNCHANGED <<answers, scored, signal, feedback, outbox, job, work>>

ReturnCommit(c) ==
  /\ call[c].at = "return"
  /\ status \in Returnable
  /\ status' = "RETURNED"
  /\ submittedAt' = FALSE
  /\ Finish(c)
  /\ UNCHANGED <<answers, scored, signal, feedback, outbox, job, work>>

(* 409, an error, or a restart: the call ends without a commit. A submit   *)
(* that has committed loses its job.                                       *)
GiveUp(c) ==
  /\ call[c].at # "idle"
  /\ Finish(c)
  /\ UNCHANGED <<row, signal, feedback, outbox, job, work>>

-----------------------------------------------------------------------------
(* The precheck.                                                           *)
Rest(w, step, v) == work' = [work EXCEPT ![w] = [at |-> step, v |-> v]]

(* A worker takes the job. It goes on only if nobody has left feedback and *)
(* the row is SUBMITTED.                                                   *)
PrecheckBegin(w) ==
  /\ work[w].at = "idle"
  /\ job.state = "queued" /\ job.lock = None
  /\ job' = [job EXCEPT !.lock = w]
  /\ IF feedback = 0 /\ status = "SUBMITTED" THEN Rest(w, "judge", answers)
                                             ELSE Rest(w, "ack", None)
  /\ UNCHANGED <<row, signal, feedback, outbox, call>>

(* The models have answered or failed, either will do: a signal names the  *)
(* answers it was made for, and not its likelihood, 0 when the detector    *)
(* failed. The transaction asks for feedback again, and inserts in a       *)
(* statement of its own.                                                   *)
PrecheckRecheck(w) ==
  /\ work[w].at = "judge"
  /\ IF feedback = 0 THEN Rest(w, "insert", work[w].v) ELSE Rest(w, "ack", None)
  /\ UNCHANGED <<row, signal, feedback, outbox, job, call>>

PrecheckCommit(w) ==
  /\ work[w].at = "insert"
  /\ feedback' = feedback + 1
  /\ IF status = "SUBMITTED" THEN status' = "IN_REVIEW" /\ signal' = work[w].v
                             ELSE UNCHANGED <<status, signal>>
  /\ Rest(w, "ack", None)
  /\ UNCHANGED <<answers, submittedAt, scored, outbox, job, call>>

(* Only the worker that holds the lock can finish the job.                 *)
JobDone(w) ==
  /\ work[w].at = "ack"
  /\ job' = IF job.lock = w THEN [job EXCEPT !.state = "done", !.lock = None] ELSE job
  /\ Rest(w, "idle", None)
  /\ UNCHANGED <<row, signal, feedback, outbox, call>>

(* Faulty variant: an error of a run ends the job.                         *)
JobFails_Swallowed(w) ==
  /\ work[w].at # "idle"
  /\ job' = IF job.lock = w THEN [job EXCEPT !.state = "done", !.lock = None] ELSE job
  /\ Rest(w, "idle", None)
  /\ UNCHANGED <<row, signal, feedback, outbox, call>>

(* Faulty variant: one try more than the queue is set to.                  *)
JobFails_OneMore(w) ==
  /\ work[w].at # "idle"
  /\ job' = IF job.lock # w THEN job
            ELSE [job EXCEPT !.state = IF job.tries = Attempts THEN "failed" ELSE "queued",
                             !.tries = job.tries + 1, !.lock = None]
  /\ Rest(w, "idle", None)
  /\ UNCHANGED <<row, signal, feedback, outbox, call>>

(* Faulty variant: the job goes back to the queue and its run goes on.     *)
JobFails_RunGoesOn(w) ==
  /\ work[w].at # "idle"
  /\ job' = IF job.lock # w THEN job
            ELSE [job EXCEPT !.state = IF job.tries + 1 = Attempts THEN "failed" ELSE "queued",
                             !.tries = job.tries + 1, !.lock = None]
  /\ UNCHANGED <<work, row, signal, feedback, outbox, call>>

(* An error uses up a try.  A process that has died leaves its lock to     *)
(* JobStalls, and its run ends here without it.                            *)
JobFails(w) ==
  /\ work[w].at # "idle"
  /\ job' = IF job.lock # w THEN job
            ELSE [job EXCEPT !.state = IF job.tries + 1 = Attempts THEN "failed" ELSE "queued",
                             !.tries = job.tries + 1, !.lock = None]
  /\ Rest(w, "idle", None)
  /\ UNCHANGED <<row, signal, feedback, outbox, call>>

(* The queue takes a slow run for dead: the job is given to another worker *)
(* once, and has failed the second time.                                   *)
JobStalls ==
  /\ job.lock # None
  /\ job' = IF job.stalled THEN [job EXCEPT !.state = "failed", !.lock = None]
            ELSE [job EXCEPT !.stalled = TRUE, !.lock = None]
  /\ UNCHANGED <<row, signal, feedback, outbox, call, work>>

(* The queue keeps the last thousand jobs that are over.                   *)
JobForgotten ==
  /\ job.state \in {"done", "failed"}
  /\ job' = NoJob
  /\ UNCHANGED <<row, signal, feedback, outbox, call, work>>

-----------------------------------------------------------------------------
CallStep(c) ==
  \/ \E v \in Versions : EditRead(c, v) \/ SubmitRead(c, v)
  \/ EditCommit(c) \/ SubmitCommit(c) \/ Enqueue(c)
  \/ DecideRead(c) \/ GradeCommit(c) \/ ReturnCommit(c) \/ GiveUp(c)

Run(w) == PrecheckRecheck(w) \/ PrecheckCommit(w) \/ JobDone(w)

Next ==
  \/ \E v \in Versions : CreateDraft(v)
  \/ \E c \in Callers : CallStep(c)
  \/ \E w \in Workers : PrecheckBegin(w) \/ Run(w) \/ JobFails(w)
  \/ JobStalls \/ JobForgotten

Spec == Init /\ [][Next]_vars

(* A worker that is up takes the job, and gets on with the run or fails.   *)
FairSpec ==
  /\ Spec
  /\ \A w \in Workers : WF_vars(PrecheckBegin(w)) /\ WF_vars(Run(w) \/ JobFails(w))

-----------------------------------------------------------------------------
(* The columns of the row, its feedback and its events tell one story for  *)
(* all overlaps of saving, submitting, grading, returning and prechecking: *)
(* it has a date while the teacher has it; it was announced once it left   *)
(* the student, graded once it has a score; it is in review only with a    *)
(* signal and with feedback, and the AI looks at nothing but what was      *)
(* submitted.                                                              *)
RowsAgree ==
  /\ submittedAt <=> status \in {"SUBMITTED", "IN_REVIEW", "GRADED"}
  /\ "submission.submitted" \in outbox <=> status \notin {"NONE", "DRAFT"}
  /\ "homework.graded" \in outbox <=> scored
  /\ status = "GRADED" => scored
  /\ status = "IN_REVIEW" => feedback > 0 /\ signal # None
  /\ feedback > 0 \/ signal # None => "submission.submitted" \in outbox

(* A job that waits while the submission is SUBMITTED ends with feedback,  *)
(* unless the teacher is faster or the job runs out of tries.              *)
PrecheckHappens ==
  (job.state = "queued" /\ job.lock = None /\ status = "SUBMITTED")
    ~> (feedback > 0 \/ status # "SUBMITTED" \/ job.state = "failed")

(* However often the job runs, the AI leaves one feedback, also when tries *)
(* fail after it was written and when the student submits again: as long   *)
(* as the queue takes no run for dead.                                     *)
OneFeedback == []~job.stalled => [](feedback <= 1)

(* The module keeps the promise of SubmissionLedger.tla.                   *)
Ledger == INSTANCE SubmissionLedger WITH prechecked <- feedback > 0
ImplementsSubmissionLedger == Ledger!Spec
=============================================================================
