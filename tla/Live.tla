-------------------------------- MODULE Live --------------------------------
(***************************************************************************)
(* The live sessions of one lesson and their recordings. API calls start,  *)
(* end and join sessions; the outbox hands live.started and live.ended to  *)
(* the recording workers, more than once and in any order; LiveKit runs    *)
(* the egresses that record the lesson's room. Every call and every job    *)
(* takes one step per await. The room itself is left out: that it is gone  *)
(* shows in egresses that stop or do not start, which may happen any time. *)
(* So is the status STARTING, which is never written.                      *)
(***************************************************************************)
EXTENDS Integers, FiniteSets

CONSTANTS
  Callers,       \* API calls the service handles at the same time
  Workers,       \* recording jobs that run at the same time
  MaxSessions,   \* bound: sessions of the lesson
  MaxEgresses,   \* bound: recorders LiveKit is asked for
  Attempts       \* tries of a live.ended job, those of its duplicates included

ASSUME BoundsAssumption ==
  MaxSessions \in Nat /\ MaxEgresses \in Nat /\ Attempts \in Nat

Sessions == 1..MaxSessions     \* in the order of their creation
Egresses == 1..MaxEgresses
None == 0

VARIABLES
  status, shouldRecord, recorderRef,   \* LiveSession rows
  recording,                           \* Recording.status of a session
  outbox,                              \* idempotency keys <<topic, session>>
  transcoding,                         \* sessions whose asset has a transcode job
  egress,                              \* LiveKit's egresses
  tries,                               \* failed tries of a live.ended job
  call, work                           \* what API calls and workers are doing

rows == <<status, shouldRecord, recorderRef, recording, outbox, transcoding>>
vars == <<status, shouldRecord, recorderRef, recording, outbox, transcoding,
          egress, tries, call, work>>

Statuses == {"NONE", "SCHEDULED", "LIVE", "ENDED", "RECORDING_FAILED"}
Terminal == {"ENDED", "RECORDING_FAILED"}
Topics == {"live.started", "live.ended", "recording.ready"}

WithSession == {"start.promote", "start.answer", "end.commit", "end.close"}
WithoutSession == {"idle", "start.insert", "start.winner", "join.insert"}
Spawning == {"rec.list", "rec.spawn", "rec.save"}
Finalizing == {"fin.stop", "fin.ready", "fin.failed"}

CallType == [at : WithSession \cup WithoutSession,
             s  : Sessions \cup {None}]
WorkType == [at : {"idle", "fin.transcode"} \cup Spawning \cup Finalizing,
             s  : Sessions \cup {None},
             e  : Egresses \cup {None}]
EgressType == [state : {"none", "running", "complete", "failed"},
               of    : Sessions \cup {None}]

TypeOK ==
  /\ status \in [Sessions -> Statuses]
  /\ shouldRecord \in [Sessions -> BOOLEAN]
  /\ recorderRef \in [Sessions -> Egresses \cup {None}]
  /\ recording \in [Sessions -> {"NONE", "READY", "FAILED"}]
  /\ outbox \subseteq Topics \X Sessions
  /\ transcoding \subseteq Sessions
  /\ egress \in [Egresses -> EgressType]
  /\ tries \in [Sessions -> 0..Attempts]
  /\ call \in [Callers -> CallType]
  /\ work \in [Workers -> WorkType]
  /\ \A c \in Callers : call[c].at \in WithSession <=> call[c].s # None
  /\ \A w \in Workers : work[w].at # "idle" <=> work[w].s # None

IdleCall == [at |-> "idle", s |-> None]
IdleWork == [at |-> "idle", s |-> None, e |-> None]

Init ==
  /\ status = [s \in Sessions |-> "NONE"]
  /\ shouldRecord = [s \in Sessions |-> TRUE]
  /\ recorderRef = [s \in Sessions |-> None]
  /\ recording = [s \in Sessions |-> "NONE"]
  /\ outbox = {}
  /\ transcoding = {}
  /\ egress = [e \in Egresses |-> [state |-> "none", of |-> None]]
  /\ tries = [s \in Sessions |-> 0]
  /\ call = [c \in Callers |-> IdleCall]
  /\ work = [w \in Workers |-> IdleWork]

-----------------------------------------------------------------------------
Goto(c, step, s) ==
  /\ call' = [call EXCEPT ![c] = [at |-> step, s |-> s]]
  /\ UNCHANGED <<tries, work>>
Done(c) ==
  /\ call' = [call EXCEPT ![c] = IdleCall]
  /\ UNCHANGED <<tries, work>>

Emit(topic, s) == outbox' = outbox \cup {<<topic, s>>}

Active == {s \in Sessions : status[s] \in {"SCHEDULED", "LIVE"}}
Newest(s) == status[s] # "NONE" /\ \A t \in Sessions : t > s => status[t] = "NONE"
Fresh(s) == status[s] = "NONE" /\ \A t \in Sessions : t < s => status[t] # "NONE"

(* LiveKit: an egress that stops leaves a file or fails.                   *)
Stopped(e, final) == [egress EXCEPT ![e].state = final]
Running == {e \in Egresses : egress[e].state = "running"}

-----------------------------------------------------------------------------
(* startSession: the session that is open, if any, is promoted out of      *)
(* SCHEDULED or returned; otherwise a new one is created.                  *)
StartFind(c) ==
  /\ call[c].at = "idle"
  /\ \/ \E s \in Active :
          IF status[s] = "SCHEDULED" THEN Goto(c, "start.promote", s)
                                     ELSE Goto(c, "start.answer", s)
     \/ Active = {} /\ Goto(c, "start.insert", None)
  /\ UNCHANGED <<rows, egress>>

(* The session goes live with the teacher's choice to record; the row and  *)
(* its event are committed together.                                       *)
GoLive(s) ==
  /\ status' = [status EXCEPT ![s] = "LIVE"]
  /\ \E rec \in BOOLEAN : shouldRecord' = [shouldRecord EXCEPT ![s] = rec]
  /\ Emit("live.started", s)
  /\ UNCHANGED <<recorderRef, recording, transcoding>>

(* Faulty variant: transitionToLive without its status precondition.       *)
StartPromote_Always(c) ==
  /\ call[c].at = "start.promote"
  /\ GoLive(call[c].s)
  /\ Goto(c, "start.answer", call[c].s)
  /\ UNCHANGED egress

StartPromote(c) ==
  /\ call[c].at = "start.promote"
  /\ IF status[call[c].s] = "SCHEDULED" THEN GoLive(call[c].s) ELSE UNCHANGED rows
  /\ Goto(c, "start.answer", call[c].s)
  /\ UNCHANGED egress

(* The partial unique index on roomId lets one row be active.              *)
StartInsert(c) ==
  /\ call[c].at = "start.insert"
  /\ \/ /\ Active = {}
        /\ \E s \in Sessions : Fresh(s) /\ GoLive(s) /\ Goto(c, "start.answer", s)
     \/ /\ Active # {}                      \* P2002
        /\ Goto(c, "start.winner", None)
        /\ UNCHANGED rows
  /\ UNCHANGED egress

StartWinner(c) ==
  /\ call[c].at = "start.winner"
  /\ \/ \E s \in Active : Goto(c, "start.answer", s)
     \/ Active = {} /\ Done(c)
  /\ UNCHANGED <<rows, egress>>

-----------------------------------------------------------------------------
(* endSession: the newest session unless it is over, then the room. Only a *)
(* LIVE session ends; the room is closed whatever the update did.          *)
EndFind(c) ==
  /\ call[c].at = "idle"
  /\ \E s \in Sessions :
       Newest(s) /\ status[s] \notin Terminal /\ Goto(c, "end.commit", s)
  /\ UNCHANGED <<rows, egress>>

EndCommit(c) ==
  /\ call[c].at = "end.commit"
  /\ LET s == call[c].s IN
       /\ IF status[s] = "LIVE"
          THEN /\ status' = [status EXCEPT ![s] = "ENDED"]
               /\ Emit("live.ended", s)
          ELSE UNCHANGED <<status, outbox>>
       /\ Goto(c, "end.close", s)
  /\ UNCHANGED <<shouldRecord, recorderRef, recording, transcoding, egress>>

(* The egresses stop with the room; an error of LiveKit is only a warning. *)
EndClose(c) ==
  /\ call[c].at = "end.close"
  /\ \/ \E final \in [Running -> {"complete", "failed"}] :
          egress' = [e \in Egresses |->
                       IF e \in Running THEN [egress[e] EXCEPT !.state = final[e]]
                                        ELSE egress[e]]
     \/ UNCHANGED egress
  /\ Done(c)
  /\ UNCHANGED rows

-----------------------------------------------------------------------------
(* joinSession of a student: without an open session, and from 15 minutes  *)
(* before the lesson on, a waiting room. A lost insert reads the winner.   *)
JoinFind(c) ==
  /\ call[c].at = "idle"
  /\ Active = {}
  /\ Goto(c, "join.insert", None)
  /\ UNCHANGED <<rows, egress>>

JoinInsert(c) ==
  /\ call[c].at = "join.insert"
  /\ IF Active = {}
     THEN \E s \in Sessions : Fresh(s) /\ status' = [status EXCEPT ![s] = "SCHEDULED"]
     ELSE UNCHANGED status
  /\ Done(c)
  /\ UNCHANGED <<shouldRecord, recorderRef, recording, outbox, transcoding, egress>>

(* The answer of startSession arrives, or a call is cut off on its way.    *)
CallOver(c) ==
  /\ call[c].at # "idle"
  /\ Done(c)
  /\ UNCHANGED <<rows, egress>>

-----------------------------------------------------------------------------
Step(w, step) == work' = [work EXCEPT ![w].at = step] /\ UNCHANGED <<tries, call>>
Begin(w, step, s, e) ==
  /\ work' = [work EXCEPT ![w] = [at |-> step, s |-> s, e |-> e]]
  /\ UNCHANGED <<tries, call>>

(* A job is done. Faulty variant: the worker keeps hold of its session.    *)
Finish_KeepsSession(w) == Step(w, "idle")
Finish(w) == work' = [work EXCEPT ![w] = IdleWork] /\ UNCHANGED <<tries, call>>

(* startRecording. A session that is over, has a recorder or opted out is  *)
(* skipped. Faulty variant: the teacher's choice is not looked at.         *)
RecordBegin_IgnoreChoice(w, s) ==
  /\ work[w].at = "idle"
  /\ <<"live.started", s>> \in outbox
  /\ status[s] \notin Terminal
  /\ recorderRef[s] = None
  /\ Begin(w, "rec.list", s, None)
  /\ UNCHANGED <<rows, egress>>

RecordBegin(w, s) ==
  /\ work[w].at = "idle"
  /\ <<"live.started", s>> \in outbox
  /\ status[s] \notin Terminal
  /\ recorderRef[s] = None
  /\ shouldRecord[s]
  /\ Begin(w, "rec.list", s, None)
  /\ UNCHANGED <<rows, egress>>

(* The adapter reuses an egress that runs in the room of this name.        *)
RecordList(w) ==
  /\ work[w].at = "rec.list"
  /\ \/ \E e \in Running : Begin(w, "rec.save", work[w].s, e)
     \/ Running = {} /\ Step(w, "rec.spawn")
  /\ UNCHANGED <<rows, egress>>

RecordSpawn(w) ==
  /\ work[w].at = "rec.spawn"
  /\ \E e \in Egresses :
       /\ egress[e].state = "none"
       /\ \A d \in Egresses : d < e => egress[d].state # "none"
       /\ egress' = [egress EXCEPT ![e] = [state |-> "running", of |-> work[w].s]]
       /\ Begin(w, "rec.save", work[w].s, e)
  /\ UNCHANGED rows

(* Faulty variant: the reference is written over an earlier one.           *)
RecordSave_Overwrite(w) ==
  /\ work[w].at = "rec.save"
  /\ recorderRef' = [recorderRef EXCEPT ![work[w].s] = work[w].e]
  /\ Finish(w)
  /\ UNCHANGED <<status, shouldRecord, recording, outbox, transcoding, egress>>

RecordSave(w) ==
  /\ work[w].at = "rec.save"
  /\ recorderRef' = [recorderRef EXCEPT ![work[w].s] = IF @ = None THEN work[w].e ELSE @]
  /\ Finish(w)
  /\ UNCHANGED <<status, shouldRecord, recording, outbox, transcoding, egress>>

-----------------------------------------------------------------------------
(* finalizeRecording. What has a Recording or opted out is skipped, what   *)
(* has no recorder has failed. (The session and its Recording are read one *)
(* after the other; a Recording, once there, stays, so what is decided is  *)
(* what one of the two moments allows.) Faulty variant: a session without  *)
(* a recorder is skipped as well.                                          *)
FinalizeBegin_OnlyRecorded(w, s) ==
  /\ work[w].at = "idle"
  /\ <<"live.ended", s>> \in outbox
  /\ tries[s] < Attempts
  /\ recording[s] = "NONE"
  /\ recorderRef[s] # None
  /\ Begin(w, "fin.stop", s, recorderRef[s])
  /\ UNCHANGED <<rows, egress>>

FinalizeBegin(w, s) ==
  /\ work[w].at = "idle"
  /\ <<"live.ended", s>> \in outbox
  /\ tries[s] < Attempts
  /\ recording[s] = "NONE"
  /\ \/ recorderRef[s] # None /\ Begin(w, "fin.stop", s, recorderRef[s])
     \/ recorderRef[s] = None /\ shouldRecord[s] /\ Begin(w, "fin.failed", s, None)
  /\ UNCHANGED <<rows, egress>>

(* recorder.finalizeRecording stops the egress and waits for it: a file, a *)
(* failure, or no end within 30 s; its own errors count as failures.       *)
FinalizeStop(w) ==
  /\ work[w].at = "fin.stop"
  /\ LET e == work[w].e IN
       \/ /\ e \in Running
          /\ \E final \in {"complete", "failed"} : egress' = Stopped(e, final)
       \/ UNCHANGED egress
  /\ \/ egress'[work[w].e].state = "complete" /\ Step(w, "fin.ready")
     \/ Step(w, "fin.failed")
  /\ UNCHANGED rows

(* Recording(READY), asset, attachment and event in one transaction, which *)
(* the unique sessionId lets happen once; then, at best, a transcode job.  *)
ApplySuccess(w) ==
  /\ work[w].at = "fin.ready"
  /\ LET s == work[w].s IN
       IF recording[s] = "NONE"
       THEN /\ recording' = [recording EXCEPT ![s] = "READY"]
            /\ Emit("recording.ready", s)
            /\ Step(w, "fin.transcode")
       ELSE Finish(w) /\ UNCHANGED <<recording, outbox>>       \* P2002
  /\ UNCHANGED <<status, shouldRecord, recorderRef, transcoding, egress>>

EnqueueTranscode(w) ==
  /\ work[w].at = "fin.transcode"
  /\ \/ transcoding' = transcoding \cup {work[w].s}
     \/ UNCHANGED transcoding
  /\ Finish(w)
  /\ UNCHANGED <<status, shouldRecord, recorderRef, recording, outbox, egress>>

(* Faulty variant: the status is written outside the transaction, so that  *)
(* a lost race still marks the session.                                    *)
ApplyFailure_NoRollback(w) ==
  /\ work[w].at = "fin.failed"
  /\ LET s == work[w].s IN
       /\ recording' = [recording EXCEPT ![s] = IF @ = "NONE" THEN "FAILED" ELSE @]
       /\ status' = [status EXCEPT ![s] = "RECORDING_FAILED"]
  /\ Finish(w)
  /\ UNCHANGED <<shouldRecord, recorderRef, outbox, transcoding, egress>>

(* Recording(FAILED) and RECORDING_FAILED, over ENDED too, or neither.     *)
ApplyFailure(w) ==
  /\ work[w].at = "fin.failed"
  /\ LET s == work[w].s IN
       IF recording[s] = "NONE"
       THEN /\ recording' = [recording EXCEPT ![s] = "FAILED"]
            /\ status' = [status EXCEPT ![s] =
                            IF @ \in {"LIVE", "ENDED"} THEN "RECORDING_FAILED" ELSE @]
       ELSE UNCHANGED <<recording, status>>       \* P2002
  /\ Finish(w)
  /\ UNCHANGED <<shouldRecord, recorderRef, outbox, transcoding, egress>>

(* A job throws, or its worker dies: the queue tries it again.             *)
JobFails(w) ==
  /\ work[w].at # "idle"
  /\ work' = [work EXCEPT ![w] = IdleWork]
  /\ tries' = IF work[w].at \in Finalizing /\ tries[work[w].s] < Attempts
              THEN [tries EXCEPT ![work[w].s] = @ + 1] ELSE tries
  /\ UNCHANGED <<rows, egress, call>>

(* An egress ends by itself, or because its room is gone.                  *)
EgressEnds ==
  /\ \E e \in Running, final \in {"complete", "failed"} : egress' = Stopped(e, final)
  /\ UNCHANGED <<rows, tries, call, work>>

-----------------------------------------------------------------------------
CallStep(c) ==
  \/ StartFind(c) \/ StartPromote(c) \/ StartInsert(c) \/ StartWinner(c)
  \/ EndFind(c) \/ EndCommit(c) \/ EndClose(c)
  \/ JoinFind(c) \/ JoinInsert(c)
  \/ CallOver(c)

JobStep(w) ==
  \/ RecordList(w) \/ RecordSpawn(w) \/ RecordSave(w)
  \/ FinalizeStop(w) \/ ApplySuccess(w) \/ EnqueueTranscode(w) \/ ApplyFailure(w)
  \/ JobFails(w)

Next ==
  \/ \E c \in Callers : CallStep(c)
  \/ \E w \in Workers :
       \/ \E s \in Sessions : RecordBegin(w, s) \/ FinalizeBegin(w, s)
       \/ JobStep(w)
  \/ EgressEnds

Spec == Init /\ [][Next]_vars

(* A worker that is up takes its job a step further or fails, and the      *)
(* queue, which is first in first out, gives every job its turn.           *)
FairSpec ==
  /\ Spec
  /\ \A w \in Workers : WF_vars(JobStep(w))
  /\ \A s \in Sessions : SF_vars(\E w \in Workers : FinalizeBegin(w, s))

-----------------------------------------------------------------------------
(* A session and its recording never contradict each other, although       *)
(* finalize runs more than once, with different outcomes, and overwrites   *)
(* ENDED: a failed recording marks the session, a ready one belongs to a   *)
(* session that ended and has the file of a recorder that finished, and    *)
(* only a ready one is transcoded.                                         *)
RecordingMatchesSession ==
  \A s \in Sessions :
    /\ recording[s] = "FAILED" <=> status[s] = "RECORDING_FAILED"
    /\ recording[s] = "READY" =>
         /\ status[s] = "ENDED"
         /\ recorderRef[s] # None
         /\ egress[recorderRef[s]].state = "complete"
    /\ s \in transcoding => recording[s] = "READY"

(* A session whose teacher opted out has no recorder, no recording and is  *)
(* never marked as failed, however early the jobs run and whoever opened   *)
(* its row.                                                                *)
OptOutRespected ==
  \A s \in Sessions :
    ~shouldRecord[s] => /\ recorderRef[s] = None
                        /\ recording[s] = "NONE"
                        /\ \A e \in Egresses : egress[e].of # s

(* The events of a session are those of the way it went: started if and    *)
(* only if it was live, ended if and only if it is over, ready if and only *)
(* if its recording is.                                                    *)
EventsMatchSessions ==
  \A s \in Sessions :
    /\ <<"live.started", s>> \in outbox <=> status[s] \in {"LIVE"} \cup Terminal
    /\ <<"live.ended", s>> \in outbox <=> status[s] \in Terminal
    /\ <<"recording.ready", s>> \in outbox <=> recording[s] = "READY"

(* No recording is dropped silently: a session that ended gets one, ready  *)
(* or failed, unless its teacher opted out or every try of its job failed. *)
EndedIsRecorded ==
  \A s \in Sessions :
    status[s] = "ENDED" /\ shouldRecord[s] ~> recording[s] # "NONE" \/ tries[s] = Attempts

(* The module keeps the promise of SessionLedger.tla.                      *)
Phase == [s \in Sessions |-> IF recording[s] = "READY" THEN "RECORDED" ELSE status[s]]

Ledger == INSTANCE SessionLedger WITH
            Recorders <- Egresses, phase <- Phase, recorder <- recorderRef
ImplementsSessionLedger == Ledger!Spec
=============================================================================
