---------------------------- MODULE MediaProofs ----------------------------
(***************************************************************************)
(* Proofs about Media.tla, for any number of calls, workers and tries.     *)
(***************************************************************************)
EXTENDS Media, TLAPS

-----------------------------------------------------------------------------
(* A job that is not over has a try left, and only one that waits or runs  *)
(* is locked.                                                              *)
JobInv ==
  /\ job.state \in {"none", "queued"} => job.tries < Attempts
  /\ job.lock # None => job.state = "queued"

Typed == TypeOK /\ JobInv

LEMMA FreshJob == NoJob \in Jobs
<1>1. 0 \in 0..Attempts
  BY AttemptsAssumption
<1> QED
  BY <1>1 DEF NoJob, Jobs

LEMMA TypeInit == Init => Typed
<1> SUFFICES ASSUME Init PROVE Typed
  OBVIOUS
<1>1. job \in Jobs /\ JobInv
  BY FreshJob, AttemptsAssumption DEF Init, JobInv, NoJob
<1>2. call \in [Callers -> CallSteps] /\ work \in [Workers -> Works]
  BY DEF Init, CallSteps, IdleWork, Works, WorkSteps
<1>3. kind \in Kinds /\ status \in Statuses /\ upload \in Uploads
  BY DEF Init, Statuses, Uploads
<1>4. manifest \in BOOLEAN /\ hls \in BOOLEAN
  BY Zenon DEF Init
<1> QED
  BY <1>1, <1>2, <1>3, <1>4, Zenon DEF Typed, TypeOK

LEMMA CallTypes ==
  ASSUME Typed, NEW c \in Callers, CallStep(c)
  PROVE  Typed'
<1> USE DEF Typed, TypeOK, JobInv, Goto, TransitionStatus, CallSteps, Statuses, Uploads
<1>1. CASE RecordingSaved(c)
  BY <1>1 DEF RecordingSaved
<1>2. CASE CallRead(c)
  BY <1>2 DEF CallRead, asset
<1>3. CASE CompleteMultipart(c)
  BY <1>3 DEF CompleteMultipart, asset
<1>4. CASE CompleteSave(c)
  BY <1>4 DEF CompleteSave
<1>5. CASE EnqueueTranscodingJob(c)
  <2>1. job' \in Jobs /\ job'.tries = job.tries /\ job'.lock = job.lock
    BY <1>5 DEF EnqueueTranscodingJob, Jobs
  <2>2. JobInv'
    BY <1>5, <2>1 DEF EnqueueTranscodingJob, Jobs
  <2> QED
    BY <1>5, <2>1, <2>2 DEF EnqueueTranscodingJob, asset
<1>6. CASE AbortMultipart(c)
  BY <1>6 DEF AbortMultipart, asset
<1>7. CASE AbortSave(c)
  BY <1>7 DEF AbortSave
<1>8. CASE CallOver(c)
  BY <1>8 DEF CallOver, asset
<1> QED
  BY <1>1, <1>2, <1>3, <1>4, <1>5, <1>6, <1>7, <1>8 DEF CallStep

LEMMA WorkMoves ==
  ASSUME TypeOK, NEW w \in Workers, NEW step \in WorkSteps, Rest(w, step)
  PROVE  work' \in [Workers -> Works]
BY DEF TypeOK, Works, Rest

(* A run that fails with the lock uses up one of the tries.                *)
LEMMA FailedJob ==
  ASSUME Typed, NEW w \in Workers, JobFails(w), job.lock = w
  PROVE  /\ job' \in Jobs /\ JobInv'
         /\ job'.tries = job.tries + 1 /\ job'.lock = None /\ job'.stalled = job.stalled
         /\ job'.state = IF job.tries + 1 = Attempts THEN "failed" ELSE "queued"
<1>1. w # None /\ job.state = "queued" /\ job.tries \in Nat /\ job.tries < Attempts
  BY NoneAssumption, AttemptsAssumption DEF Typed, TypeOK, JobInv, Jobs
<1>2. job.tries + 1 \in 0..Attempts
  BY <1>1, AttemptsAssumption
<1> DEFINE next == IF job.tries + 1 = Attempts THEN "failed" ELSE "queued"
<1>3. job' = [job EXCEPT !.state = next, !.tries = job.tries + 1, !.lock = None]
  BY DEF JobFails
<1>4. /\ job' \in Jobs /\ job'.state = next /\ job'.tries = job.tries + 1
      /\ job'.lock = None /\ job'.stalled = job.stalled
  BY <1>2, <1>3 DEF Typed, TypeOK, Jobs
<1>5. job.tries + 1 # Attempts => job.tries + 1 < Attempts
  BY <1>1, AttemptsAssumption
<1> QED
  BY <1>4, <1>5 DEF JobInv

LEMMA WorkTypes ==
  ASSUME Typed, NEW w \in Workers, ProcessBegin(w) \/ Run(w)
  PROVE  Typed'
<1> USE DEF Typed, asset, TransitionStatus, WorkSteps
<1>1. CASE ProcessBegin(w)
  <2>1. NextStep(status) \in WorkSteps /\ LastTry(job.tries) \in BOOLEAN
    BY DEF NextStep, LastTry
  <2>2. work' \in [Workers -> Works]
    BY <1>1, <2>1 DEF TypeOK, ProcessBegin, Works
  <2>3. job' \in Jobs /\ JobInv'
    BY <1>1 DEF TypeOK, ProcessBegin, Jobs, JobInv
  <2> QED
    BY <1>1, <2>2, <2>3 DEF TypeOK, ProcessBegin
<1>2. CASE ProcessClaim(w)
  <2>1. work' \in [Workers -> Works]
    BY <1>2, WorkMoves DEF ProcessClaim
  <2> QED
    BY <1>2, <2>1 DEF TypeOK, ProcessClaim, JobInv, Statuses
<1>3. CASE ProcessEncode(w)
  <2>1. work' \in [Workers -> Works]
    BY <1>3, WorkMoves DEF ProcessEncode
  <2> QED
    BY <1>3, <2>1 DEF TypeOK, ProcessEncode, JobInv
<1>4. CASE ProcessSave(w)
  <2>1. work' \in [Workers -> Works]
    BY <1>4, WorkMoves DEF ProcessSave
  <2> QED
    BY <1>4, <2>1 DEF TypeOK, ProcessSave, JobInv, Statuses
<1>5. CASE ProcessMarkFailed(w)
  <2>1. work' \in [Workers -> Works]
    BY <1>5, WorkMoves DEF ProcessMarkFailed
  <2> QED
    BY <1>5, <2>1 DEF TypeOK, ProcessMarkFailed, JobInv, Statuses
<1>6. CASE JobDone(w)
  <2>1. work' \in [Workers -> Works]
    BY <1>6, WorkMoves DEF JobDone
  <2>2. job' \in Jobs /\ JobInv'
    BY <1>6 DEF TypeOK, JobDone, Jobs, JobInv
  <2> QED
    BY <1>6, <2>1, <2>2 DEF TypeOK, JobDone
<1>7. CASE JobFails(w)
  <2>1. work' \in [Workers -> Works]
    BY <1>7, WorkMoves DEF JobFails
  <2>2. job' \in Jobs /\ JobInv'
    <3>1. CASE job.lock # w
      BY <1>7, <3>1 DEF JobFails, TypeOK, JobInv
    <3>2. CASE job.lock = w
      BY <1>7, <3>2, FailedJob
    <3> QED
      BY <3>1, <3>2
  <2> QED
    BY <1>7, <2>1, <2>2 DEF TypeOK, JobFails
<1> QED
  BY <1>1, <1>2, <1>3, <1>4, <1>5, <1>6, <1>7 DEF Run

LEMMA TypeStep == Typed /\ [Next]_vars => Typed'
<1> SUFFICES ASSUME Typed, [Next]_vars PROVE Typed'
  OBVIOUS
<1>1. CASE InitiateUpload
  BY <1>1 DEF Typed, JobInv, TypeOK, InitiateUpload, TransitionStatus, Statuses, Uploads
<1>2. CASE JobStalls
  BY <1>2 DEF Typed, JobInv, TypeOK, JobStalls, Jobs, asset
<1>3. CASE UNCHANGED vars
  BY <1>3 DEF Typed, JobInv, TypeOK, vars, asset
<1> QED
  BY CallTypes, WorkTypes, <1>1, <1>2, <1>3 DEF Next

LEMMA AlwaysTyped == Spec => []Typed
BY TypeInit, TypeStep, PTL DEF Spec

(* Every variable keeps its type, and no job is tried too often.           *)
THEOREM TypeCorrect == Spec => []TypeOK
BY AlwaysTyped, PTL DEF Typed

-----------------------------------------------------------------------------
(* What StorageAgrees rests on: what calls and runs under way have found.  *)
UnderWay ==
  /\ status = "NONE" <=> upload = "none"
  /\ \A c \in Callers :
       /\ call[c] = "save" => upload \in {"stored", "oversize"}
       /\ call[c] = "enqueue" =>
            /\ kind = "VIDEO" /\ upload = "stored" /\ status # "UPLOADING"
            /\ job.state = "none" => status = "UPLOADED"
  /\ \A w \in Workers : work[w].at # "idle" => job.state # "none"
  /\ \A w \in Workers : work[w].at = "save" => hls

Stored == StorageAgrees /\ UnderWay

LEMMA CallsStore ==
  ASSUME Typed, Typed', Stored, NEW c \in Callers, CallStep(c)
  PROVE  Stored'
<1> USE DEF Typed, TypeOK, Stored, UnderWay, Goto, TransitionStatus
<1>1. ASSUME NEW step \in CallSteps, Goto(c, step)
      PROVE  /\ call'[c] = step
             /\ \A d \in Callers \ {c} : call'[d] = call[d]
  BY <1>1
<1>2. CASE RecordingSaved(c)
  BY <1>2 DEF RecordingSaved, StorageAgrees, Published
<1>3. CASE CallRead(c)
  BY <1>3 DEF CallRead, asset, StorageAgrees
<1>4. CASE CompleteMultipart(c)
  <2>1. CASE upload = "open"
    <3>1. status \notin Published /\ status # "NONE" /\ job.state = "none"
      BY <2>1 DEF StorageAgrees
    <3>2. /\ UNCHANGED <<kind, status, manifest, hls, job, work>>
          /\ upload' \in {"stored", "oversize"} /\ call' = [call EXCEPT ![c] = "save"]
      BY <1>4, <2>1 DEF CompleteMultipart, asset
    <3>3. StorageAgrees'
      BY <3>1, <3>2 DEF StorageAgrees, Published
    <3>4. \A d \in Callers : call'[d] # "enqueue"
      BY <2>1, <3>2
    <3> QED
      BY <3>1, <3>2, <3>3, <3>4
  <2>2. CASE upload # "open"
    BY <1>4, <2>2 DEF CompleteMultipart, asset, StorageAgrees
  <2> QED
    BY <2>1, <2>2
<1>5. CASE CompleteSave(c)
  BY <1>5 DEF CompleteSave, StorageAgrees, Published
<1>6. CASE EnqueueTranscodingJob(c)
  <2>1. job'.state # "none" /\ upload = "stored" /\ kind = "VIDEO" /\ status # "UPLOADING"
    BY <1>6 DEF EnqueueTranscodingJob, Jobs
  <2>2. /\ UNCHANGED <<kind, status, manifest, upload, hls, work>>
        /\ call' = [call EXCEPT ![c] = "idle"]
    BY <1>6 DEF EnqueueTranscodingJob, asset
  <2>3. StorageAgrees'
    BY <2>1, <2>2 DEF StorageAgrees
  <2>4. UnderWay'
    BY <2>1, <2>2
  <2> QED
    BY <2>3, <2>4
<1>7. CASE AbortMultipart(c)
  BY <1>7 DEF AbortMultipart, asset, StorageAgrees, Published
<1>8. CASE AbortSave(c)
  <2>1. /\ status = "UPLOADING" /\ status' = "FAILED" /\ call' = [call EXCEPT ![c] = "idle"]
        /\ UNCHANGED <<kind, manifest, upload, hls, job, work>>
    BY <1>8 DEF AbortSave
  <2>2. StorageAgrees'
    BY <2>1 DEF StorageAgrees, Published
  <2>3. \A d \in Callers : call'[d] # "enqueue"
    BY <2>1
  <2> QED
    BY <2>1, <2>2, <2>3
<1>9. CASE CallOver(c)
  BY <1>9 DEF CallOver, asset, StorageAgrees
<1> QED
  BY <1>2, <1>3, <1>4, <1>5, <1>6, <1>7, <1>8, <1>9 DEF CallStep

(* No step of a worker or of the queue takes a job back.                   *)
LEMMA JobStays ==
  ASSUME Typed, job.state # "none",
         (\E w \in Workers : ProcessBegin(w) \/ Run(w)) \/ JobStalls
  PROVE  job'.state # "none"
<1> USE DEF Typed, TypeOK, Jobs
<1>1. ASSUME NEW w \in Workers, JobFails(w) PROVE job'.state # "none"
  BY <1>1, FailedJob DEF JobFails
<1>2. ASSUME NEW w \in Workers, ProcessBegin(w) \/ JobDone(w) PROVE job'.state # "none"
  BY <1>2 DEF ProcessBegin, JobDone
<1>3. CASE JobStalls
  BY <1>3 DEF JobStalls
<1> QED
  BY <1>1, <1>2, <1>3 DEF Run, ProcessClaim, ProcessEncode, ProcessSave, ProcessMarkFailed

LEMMA WorkersStore ==
  ASSUME Typed, Typed', Stored, NEW w \in Workers, ProcessBegin(w) \/ Run(w)
  PROVE  Stored'
<1> USE DEF Typed, TypeOK, Stored, StorageAgrees, UnderWay, Rest, TransitionStatus, Published, Works
<1>1. work[w].at # "idle" \/ job.state = "queued" => job.state # "none" /\ job'.state # "none"
  BY JobStays
<1>2. CASE ProcessBegin(w)
  <2>1. NextStep(status) # "save"
    BY DEF NextStep
  <2> QED
    BY <1>1, <1>2, <2>1 DEF ProcessBegin, asset
<1>3. CASE ProcessClaim(w)
  BY <1>1, <1>3 DEF ProcessClaim
<1>4. CASE ProcessEncode(w)
  BY <1>1, <1>4 DEF ProcessEncode, asset
<1>5. CASE ProcessSave(w)
  BY <1>1, <1>5 DEF ProcessSave
<1>6. CASE ProcessMarkFailed(w)
  BY <1>1, <1>6 DEF ProcessMarkFailed
<1>7. CASE JobDone(w) \/ JobFails(w)
  BY <1>1, <1>7 DEF JobDone, JobFails, asset
<1> QED
  BY <1>2, <1>3, <1>4, <1>5, <1>6, <1>7 DEF Run

LEMMA StoredHolds == Spec => []Stored
<1>1. Init => Stored
  BY DEF Init, NoJob, IdleWork, Stored, StorageAgrees, UnderWay, Published
<1>2. Typed /\ Typed' /\ Stored /\ [Next]_vars => Stored'
  <2> SUFFICES ASSUME Typed, Typed', Stored, [Next]_vars PROVE Stored'
    OBVIOUS
  <2>1. CASE InitiateUpload
    BY <2>1 DEF InitiateUpload, TransitionStatus, Stored, StorageAgrees, UnderWay, Published
  <2>2. CASE JobStalls
    <3>1. job.state = "queued" /\ job'.state # "none"
      BY <2>2, JobStays DEF JobStalls, Typed, JobInv
    <3> QED
      BY <2>2, <3>1 DEF JobStalls, Stored, StorageAgrees, UnderWay, asset
  <2>3. CASE UNCHANGED vars
    BY <2>3 DEF vars, asset, Stored, StorageAgrees, UnderWay
  <2> QED
    BY CallsStore, WorkersStore, <2>1, <2>2, <2>3 DEF Next
<1> QED
  BY <1>1, <1>2, AlwaysTyped, PTL DEF Spec

(* Row, storage and queue agree.                                           *)
THEOREM StorageAlwaysAgrees == Spec => []StorageAgrees
BY StoredHolds, PTL DEF Stored

-----------------------------------------------------------------------------
(* What EncodingEarned rests on: whoever is on its last try is, also when  *)
(* it has lost the job; and as long as no run was taken for dead there is  *)
(* one, which holds the lock and knows the status.                         *)
Found(step) ==
  CASE step = "claim" -> "UPLOADED"
    [] step \in {"encode", "save"} -> "TRANSCODING"
    [] step = "throw" -> "FAILED"
    [] OTHER -> "READY"

LastInv == \A w \in Workers : work[w].at # "idle" /\ work[w].last => job.tries + 1 >= Attempts

SoloInv ==
  ~job.stalled =>
    /\ \A w \in Workers : work[w].at # "idle" =>
         /\ job.state = "queued" /\ job.lock = w
         /\ status = Found(work[w].at)
         /\ work[w].at = "throw" => work[w].last
    /\ job.state = "queued" /\ job.lock = None => status # "FAILED"

Earned == EncodingEarned /\ LastInv /\ SoloInv

LEMMA CallsEarn ==
  ASSUME Typed, Typed', Stored, Earned, NEW c \in Callers, CallStep(c)
  PROVE  Earned'
<1> USE DEF Earned, EncodingEarned, LastInv, SoloInv
<1>1. CASE EnqueueTranscodingJob(c)
  <2>1. CASE job.state = "none"
    <3>1. status' = status /\ work' = work
      BY <1>1 DEF EnqueueTranscodingJob, asset
    <3>4. status = "UPLOADED"
      BY <1>1, <2>1 DEF EnqueueTranscodingJob, Stored, UnderWay
    <3>2. \A w \in Workers : work[w].at = "idle"
      BY <2>1 DEF Stored, UnderWay
    <3>3. job'.state = "queued"
      BY <1>1, <2>1 DEF EnqueueTranscodingJob, Typed, TypeOK, Jobs
    <3> QED
      BY <3>1, <3>2, <3>3, <3>4
  <2>2. CASE job.state # "none"
    BY <1>1, <2>2 DEF EnqueueTranscodingJob, asset
  <2> QED
    BY <2>1, <2>2
<1>2. CASE UNCHANGED <<status, job, work>>
  BY <1>2
<1>3. CASE status \in {"NONE", "UPLOADING"} /\ UNCHANGED <<job, work>>
  <2>1. job.state = "none"
    BY <1>3 DEF Stored, StorageAgrees, UnderWay
  <2>2. \A w \in Workers : work[w].at = "idle"
    BY <2>1 DEF Stored, UnderWay
  <2> QED
    BY <1>3, <2>1, <2>2
<1> QED
  BY <1>1, <1>2, <1>3 DEF CallStep, RecordingSaved, CallRead, CompleteMultipart, CompleteSave,
     AbortMultipart, AbortSave, CallOver, TransitionStatus, asset

LEMMA WorkersEarn ==
  ASSUME Typed, Typed', Stored, Earned, NEW w \in Workers, ProcessBegin(w) \/ Run(w)
  PROVE  Earned'
<1> USE DEF Earned, EncodingEarned, LastInv, SoloInv, Typed, TypeOK, Rest, Works, Found
<1>1. job.tries \in Nat
  BY AttemptsAssumption DEF Jobs
<1>2. CASE ProcessBegin(w)
  <2>1. /\ job'.lock = w /\ job'.state = "queued" /\ job'.tries = job.tries
        /\ job'.stalled = job.stalled /\ status' = status
    BY <1>2 DEF ProcessBegin, Jobs, asset
  <2>2. /\ work'[w].at = NextStep(status)
        /\ work'[w].last => job.tries + 1 >= Attempts
        /\ \A v \in Workers \ {w} : work'[v] = work[v]
    BY <1>2 DEF ProcessBegin, LastTry
  <2>3. ~job.stalled => \A v \in Workers : work[v].at = "idle"
    BY <1>2, NoneAssumption DEF ProcessBegin
  <2>4. ~job.stalled => status = Found(NextStep(status)) /\ NextStep(status) # "throw"
    <3>1. status # "UPLOADING" /\ status # "NONE"
      BY <1>2 DEF ProcessBegin, Stored, StorageAgrees, UnderWay
    <3> QED
      BY <1>2, <3>1 DEF ProcessBegin, NextStep, Statuses
  <2>5. w # None
    BY NoneAssumption
  <2>6. job.state = "queued"
    BY <1>2 DEF ProcessBegin
  <2>7. EncodingEarned'
    BY <1>1, <2>1, <2>6
  <2>8. LastInv'
    BY <1>1, <2>1, <2>2
  <2>9. ASSUME ~job.stalled, NEW v \in Workers, work'[v].at # "idle"
        PROVE  /\ job'.lock = v /\ status' = Found(work'[v].at)
               /\ work'[v].at = "throw" => work'[v].last
    <3>1. v = w
      BY <2>2, <2>3, <2>9
    <3> QED
      BY <2>1, <2>2, <2>4, <2>9, <3>1 DEF ProcessBegin
  <2>10. SoloInv'
    BY <2>1, <2>5, <2>9
  <2> QED
    BY <2>7, <2>8, <2>10
<1>3. CASE ProcessClaim(w)
  BY <1>3 DEF ProcessClaim, TransitionStatus
<1>4. CASE ProcessEncode(w)
  BY <1>4 DEF ProcessEncode, asset
<1>5. CASE ProcessSave(w)
  BY <1>5 DEF ProcessSave, TransitionStatus
<1>6. CASE ProcessMarkFailed(w)
  BY <1>6, NoneAssumption DEF ProcessMarkFailed
<1>7. CASE JobDone(w)
  <2>1. CASE job.lock # w
    BY <1>7, <2>1 DEF JobDone, asset
  <2>2. CASE job.lock = w
    <3>1. /\ job'.state = "done" /\ job'.tries = job.tries /\ job'.stalled = job.stalled
          /\ status' = status
      BY <1>7, <2>2 DEF JobDone, Jobs, asset
    <3>2. ~job.stalled => status = "READY"
      BY <1>7 DEF JobDone
    <3>3. job.state = "queued"
      BY <2>2, NoneAssumption DEF JobInv
    <3>4. ~job.stalled => \A v \in Workers : work'[v].at = "idle"
      BY <1>7, <2>2 DEF JobDone
    <3>5. \A v \in Workers : work'[v].at # "idle" => work'[v] = work[v]
      BY <1>7 DEF JobDone
    <3> QED
      BY <1>1, <3>1, <3>2, <3>3, <3>4, <3>5
  <2> QED
    BY <2>1, <2>2
<1>8. CASE JobFails(w)
  <2>1. \A v \in Workers : work'[v].at # "idle" => work'[v] = work[v]
    BY <1>8 DEF JobFails
  <2>2. status' = status /\ work'[w].at = "idle"
    BY <1>8 DEF JobFails, asset
  <2>3. CASE job.lock # w
    BY <1>8, <2>1, <2>2, <2>3 DEF JobFails
  <2>4. CASE job.lock = w
    <3>1. /\ job'.tries = job.tries + 1 /\ job'.lock = None /\ job'.stalled = job.stalled
          /\ job'.state = IF job.tries + 1 = Attempts THEN "failed" ELSE "queued"
      BY <1>8, <2>4, FailedJob
    <3>2. job.state = "queued" /\ job.tries < Attempts
      BY <2>4, NoneAssumption DEF JobInv
    <3>3. ~job.stalled => \A v \in Workers : work'[v].at = "idle"
      BY <2>1, <2>2, <2>4
    <3>4. ~job.stalled /\ job'.state = "queued" => status # "FAILED"
      BY <1>1, <1>8, <3>1, <3>2, AttemptsAssumption DEF JobFails
    <3>5. LastInv'
      BY <1>1, <2>1, <3>1, AttemptsAssumption
    <3>6. EncodingEarned'
      BY <1>1, <2>2, <3>1, <3>2, AttemptsAssumption
    <3> QED
      BY <2>2, <3>1, <3>3, <3>4, <3>5, <3>6
  <2> QED
    BY <2>3, <2>4
<1> QED
  BY <1>2, <1>3, <1>4, <1>5, <1>6, <1>7, <1>8 DEF Run

LEMMA EarnedHolds == Spec => []Earned
<1>1. Init => Earned
  BY DEF Init, NoJob, IdleWork, Earned, EncodingEarned, LastInv, SoloInv
<1>2. Typed /\ Typed' /\ Stored /\ Earned /\ [Next]_vars => Earned'
  <2> SUFFICES ASSUME Typed, Typed', Stored, Earned, [Next]_vars PROVE Earned'
    OBVIOUS
  <2>1. CASE InitiateUpload
    <3>1. job.state = "none"
      BY <2>1 DEF InitiateUpload, TransitionStatus, Stored, StorageAgrees, UnderWay
    <3> QED
      BY <2>1, <3>1 DEF InitiateUpload, Stored, UnderWay, Earned, EncodingEarned, LastInv, SoloInv
  <2>2. CASE JobStalls
    <3>1. job.state = "queued" /\ job'.tries = job.tries /\ job'.state # "none" /\ job'.stalled
      BY <2>2, JobStays DEF JobStalls, Typed, JobInv, TypeOK, Jobs
    <3> QED
      BY <2>2, <3>1 DEF JobStalls, asset, Earned, EncodingEarned, LastInv, SoloInv
  <2>3. CASE UNCHANGED vars
    BY <2>3 DEF vars, asset, Earned, EncodingEarned, LastInv, SoloInv
  <2> QED
    BY CallsEarn, WorkersEarn, <2>1, <2>2, <2>3 DEF Next
<1> QED
  BY <1>1, <1>2, AlwaysTyped, StoredHolds, PTL DEF Spec

(* No video is given up early, and none is forgotten by a job that is done *)
(* and was never taken for dead.                                           *)
THEOREM EncodingsEarned == Spec => []EncodingEarned
BY EarnedHolds, PTL DEF Earned

-----------------------------------------------------------------------------
LEMMA LedgerStep ==
  ASSUME Typed, Stored, Next
  PROVE  [Ledger!Next]_(Ledger!ledgerVars)
<1> USE DEF Ledger!ledgerVars, Ledger!Next, Ledger!Move, TransitionStatus, asset
<1>1. CASE InitiateUpload
  BY <1>1 DEF InitiateUpload, Ledger!Open
<1>2. ASSUME NEW c \in Callers, CallStep(c) PROVE [Ledger!Next]_(Ledger!ledgerVars)
  BY <1>2 DEF CallStep, RecordingSaved, CallRead, CompleteMultipart, CompleteSave,
     EnqueueTranscodingJob, AbortMultipart, AbortSave, CallOver,
     Ledger!Record, Ledger!Store, Ledger!Drop
<1>3. ASSUME NEW w \in Workers, ProcessClaim(w) PROVE [Ledger!Next]_(Ledger!ledgerVars)
  <2>1. kind = "VIDEO"
    BY <1>3 DEF ProcessClaim, Stored, StorageAgrees, UnderWay
  <2> QED
    BY <1>3, <2>1 DEF ProcessClaim, Ledger!Encode
<1>4. ASSUME NEW w \in Workers, ProcessSave(w) PROVE [Ledger!Next]_(Ledger!ledgerVars)
  BY <1>4 DEF ProcessSave, Ledger!Publish
<1>5. ASSUME NEW w \in Workers, ProcessMarkFailed(w) PROVE [Ledger!Next]_(Ledger!ledgerVars)
  BY <1>5 DEF ProcessMarkFailed, Ledger!GiveUp
<1>6. ASSUME NEW w \in Workers,
             ProcessBegin(w) \/ ProcessEncode(w) \/ JobDone(w) \/ JobFails(w)
      PROVE  UNCHANGED Ledger!ledgerVars
  BY <1>6 DEF ProcessBegin, ProcessEncode, JobDone, JobFails
<1>7. CASE JobStalls
  BY <1>7 DEF JobStalls
<1> QED
  BY <1>1, <1>2, <1>3, <1>4, <1>5, <1>6, <1>7 DEF Next, Run

(* The module implements AssetLedger.                                      *)
THEOREM MediaImplementsLedger == Spec => ImplementsAssetLedger
<1>1. Init => Ledger!Init
  BY DEF Init, Ledger!Init, Kinds
<1>2. Typed /\ Stored /\ [Next]_vars => [Ledger!Next]_(Ledger!ledgerVars)
  BY LedgerStep DEF vars, asset, Ledger!ledgerVars
<1> QED
  BY <1>1, <1>2, AlwaysTyped, StoredHolds, PTL DEF Spec, ImplementsAssetLedger, Ledger!Spec
=============================================================================
