------------------------------- MODULE Media -------------------------------
(***************************************************************************)
(* One media asset: its owner's calls complete or abort a multipart upload *)
(* that object storage and the row both know about, and a queue job        *)
(* encodes a video. A call reads the row, speaks to storage, and commits;  *)
(* a run of the job reads the row, encodes for minutes, and commits; the   *)
(* queue may take it for dead meanwhile and start another.                 *)
(***************************************************************************)
EXTENDS Naturals

CONSTANTS
  Callers,    \* API calls in flight
  Workers,    \* workers of the queue transcoding
  Attempts,   \* VIDEO_TRANSCODE_MAX_ATTEMPTS
  None        \* no worker

ASSUME NoneAssumption == None \notin Workers
ASSUME AttemptsAssumption == Attempts \in Nat \ {0}

VARIABLES
  kind,       \* kind of the MediaAsset
  status,     \* its status, "NONE" without a row
  manifest,   \* hlsManifestKey is set
  upload,     \* the object in storage: its parts, or the whole of it,
              \* "oversize" above MEDIA_MAX_SIZE_BYTES
  hls,        \* the HLS tree is stored
  job,        \* the job of the asset: state, tries, lock,
              \* and whether a run of it was taken for dead
  call,       \* what each call is doing
  work        \* what each worker is doing

asset == <<kind, status, manifest>>
vars == <<asset, upload, hls, job, call, work>>

Kinds == {"VIDEO", "OTHER"}
Statuses == {"NONE", "UPLOADING", "UPLOADED", "TRANSCODING", "READY", "FAILED"}
Published == {"UPLOADED", "TRANSCODING", "READY"}
Uploads == {"none", "open", "stored", "oversize", "aborted"}

CallSteps == {"idle", "complete", "save", "enqueue", "abort", "drop"}

(* last: the run was given its job for the last time.                      *)
WorkSteps == {"idle", "claim", "encode", "save", "throw", "ack"}
IdleWork == [at |-> "idle", last |-> FALSE]
Works == [at : WorkSteps, last : BOOLEAN]

NoJob == [state |-> "none", tries |-> 0, lock |-> None, stalled |-> FALSE]
Jobs == [state : {"none", "queued", "done", "failed"}, tries : 0..Attempts,
         lock : Workers \cup {None}, stalled : BOOLEAN]

TypeOK ==
  /\ kind \in Kinds
  /\ status \in Statuses
  /\ manifest \in BOOLEAN
  /\ upload \in Uploads
  /\ hls \in BOOLEAN
  /\ job \in Jobs
  /\ call \in [Callers -> CallSteps]
  /\ work \in [Workers -> Works]

Init ==
  /\ kind \in Kinds
  /\ status = "NONE"
  /\ manifest = FALSE
  /\ upload = "none"
  /\ hls = FALSE
  /\ job = NoJob
  /\ call = [c \in Callers |-> "idle"]
  /\ work = [w \in Workers |-> IdleWork]

(* An update that asks for the status it expects, and finds it or not.     *)
TransitionStatus(from, to) == status = from /\ status' = to
Goto(c, step) == call' = [call EXCEPT ![c] = step]

-----------------------------------------------------------------------------
(* The upload.                                                             *)

(* Storage opens a multipart upload, then the row is inserted.             *)
InitiateUpload ==
  /\ upload = "none"
  /\ TransitionStatus("NONE", "UPLOADING")
  /\ upload' = "open"
  /\ UNCHANGED <<kind, manifest, hls, job, call, work>>

(* The live module brings an object of its own, and goes on as a call that *)
(* has completed its upload.                                               *)
RecordingSaved(c) ==
  /\ call[c] = "idle"
  /\ kind = "VIDEO"
  /\ TransitionStatus("NONE", "UPLOADED")
  /\ upload' = "stored"
  /\ Goto(c, "enqueue")
  /\ UNCHANGED <<kind, manifest, hls, job, work>>

(* A call is answered at once unless it finds the row UPLOADING.           *)
CallRead(c) ==
  /\ call[c] = "idle"
  /\ status = "UPLOADING"
  /\ Goto(c, "complete") \/ Goto(c, "abort")
  /\ UNCHANGED <<asset, upload, hls, job, work>>

(* Storage puts the parts together; asked again it may find that it has,   *)
(* or refuse. How long they were nobody knew.                              *)
CompleteMultipart(c) ==
  /\ call[c] = "complete"
  /\ \/ upload = "open" /\ upload' \in {"stored", "oversize"}
     \/ upload \in {"stored", "oversize"} /\ UNCHANGED upload
  /\ Goto(c, "save")
  /\ UNCHANGED <<asset, hls, job, work>>

(* Faulty variant: the size is that of the request.                        *)
CompleteSave_DeclaredSize(c) ==
  /\ call[c] = "save"
  /\ TransitionStatus("UPLOADING", "UPLOADED")
  /\ Goto(c, IF kind = "VIDEO" THEN "enqueue" ELSE "idle")
  /\ UNCHANGED <<kind, manifest, upload, hls, job, work>>

CompleteSave(c) ==
  /\ call[c] = "save"
  /\ \/ /\ upload = "oversize"
        /\ TransitionStatus("UPLOADING", "FAILED")
        /\ Goto(c, "idle")
     \/ /\ upload # "oversize"
        /\ TransitionStatus("UPLOADING", "UPLOADED")
        /\ Goto(c, IF kind = "VIDEO" THEN "enqueue" ELSE "idle")
  /\ UNCHANGED <<kind, manifest, upload, hls, job, work>>

EnqueueTranscodingJob(c) ==
  /\ call[c] = "enqueue"
  /\ job' = IF job.state = "none" THEN [job EXCEPT !.state = "queued"] ELSE job
  /\ Goto(c, "idle")
  /\ UNCHANGED <<asset, upload, hls, work>>

(* An upload that storage does not know any more is fine.                  *)
AbortMultipart(c) ==
  /\ call[c] = "abort"
  /\ upload' = IF upload = "open" THEN "aborted" ELSE upload
  /\ Goto(c, "drop")
  /\ UNCHANGED <<asset, hls, job, work>>

(* Faulty variant: the row has failed whatever it is now.                  *)
AbortSave_NoPrecondition(c) ==
  /\ call[c] = "drop"
  /\ status' = "FAILED"
  /\ Goto(c, "idle")
  /\ UNCHANGED <<kind, manifest, upload, hls, job, work>>

AbortSave(c) ==
  /\ call[c] = "drop"
  /\ TransitionStatus("UPLOADING", "FAILED")
  /\ Goto(c, "idle")
  /\ UNCHANGED <<kind, manifest, upload, hls, job, work>>

(* 409, an error of storage, queue or database, or a restart. A video      *)
(* that is stored loses its job.                                           *)
CallOver(c) ==
  /\ call[c] # "idle"
  /\ Goto(c, "idle")
  /\ UNCHANGED <<asset, upload, hls, job, work>>

-----------------------------------------------------------------------------
(* The encoding.                                                           *)
Rest(w, step) == work' = [work EXCEPT ![w].at = step]

(* Faulty variant: a row that is TRANSCODING is somebody else's.           *)
NextStep_NoReentry(found) ==
  IF found = "UPLOADED" THEN "claim" ELSE "ack"

(* What a run does about the status it finds.                              *)
NextStep(found) ==
  CASE found = "UPLOADED"    -> "claim"
    [] found = "TRANSCODING" -> "encode"
    [] OTHER                 -> "ack"

(* Faulty variant: tries are counted from one.                             *)
LastTry_OneEarly(tries) == tries + 2 >= Attempts

LastTry(tries) == tries + 1 >= Attempts

(* The job is that of a VIDEO, which has its originalKey from the insert.  *)
ProcessBegin(w) ==
  /\ work[w].at = "idle"
  /\ job.state = "queued" /\ job.lock = None
  /\ job' = [job EXCEPT !.lock = w]
  /\ work' = [work EXCEPT ![w] = [at |-> NextStep(status), last |-> LastTry(job.tries)]]
  /\ UNCHANGED <<asset, upload, hls, call>>

(* The update that loses ends the run.                                     *)
ProcessClaim(w) ==
  /\ work[w].at = "claim"
  /\ \/ TransitionStatus("UPLOADED", "TRANSCODING") /\ Rest(w, "encode")
     \/ status # "UPLOADED" /\ UNCHANGED status /\ Rest(w, "ack")
  /\ UNCHANGED <<kind, manifest, upload, hls, job, call>>

(* run ends with the tree in storage, under keys fixed for the asset.      *)
ProcessEncode(w) ==
  /\ work[w].at = "encode"
  /\ hls' = TRUE
  /\ Rest(w, "save")
  /\ UNCHANGED <<asset, upload, job, call>>

ProcessSave(w) ==
  /\ work[w].at = "save"
  /\ \/ TransitionStatus("TRANSCODING", "READY") /\ manifest' = TRUE
     \/ status # "TRANSCODING" /\ UNCHANGED <<status, manifest>>
  /\ Rest(w, "ack")
  /\ UNCHANGED <<kind, upload, hls, job, call>>

(* An error of the last try is written to the row, and thrown again.       *)
ProcessMarkFailed(w) ==
  /\ work[w].at \in {"encode", "save"}
  /\ work[w].last
  /\ status' = IF status = "TRANSCODING" THEN "FAILED" ELSE status
  /\ Rest(w, "throw")
  /\ UNCHANGED <<kind, manifest, upload, hls, job, call>>

(* Only the worker that holds the lock can finish the job.                 *)
JobDone(w) ==
  /\ work[w].at = "ack"
  /\ job' = IF job.lock = w THEN [job EXCEPT !.state = "done", !.lock = None] ELSE job
  /\ Rest(w, "idle")
  /\ UNCHANGED <<asset, upload, hls, call>>

(* Faulty variant: one try more than the queue is set to.                  *)
JobFails_OneMore(w) ==
  /\ work[w].at # "idle"
  /\ job' = IF job.lock # w THEN job
            ELSE [job EXCEPT !.state = IF job.tries = Attempts THEN "failed" ELSE "queued",
                             !.tries = job.tries + 1, !.lock = None]
  /\ Rest(w, "idle")
  /\ UNCHANGED <<asset, upload, hls, call>>

(* An error uses up a try. A process that has died leaves its lock to      *)
(* JobStalls, and its run ends here without it.                            *)
JobFails(w) ==
  /\ work[w].at # "idle"
  /\ job' = IF job.lock # w THEN job
            ELSE [job EXCEPT !.state = IF job.tries + 1 = Attempts THEN "failed" ELSE "queued",
                             !.tries = job.tries + 1, !.lock = None]
  /\ Rest(w, "idle")
  /\ UNCHANGED <<asset, upload, hls, call>>

(* The queue takes a slow or dead run for dead: the job is given to        *)
(* another worker once, and has failed the second time.                    *)
JobStalls ==
  /\ job.lock # None
  /\ job' = IF job.stalled THEN [job EXCEPT !.state = "failed", !.lock = None]
            ELSE [job EXCEPT !.stalled = TRUE, !.lock = None]
  /\ UNCHANGED <<asset, upload, hls, call, work>>

-----------------------------------------------------------------------------
CallStep(c) ==
  \/ RecordingSaved(c) \/ CallRead(c)
  \/ CompleteMultipart(c) \/ CompleteSave(c) \/ EnqueueTranscodingJob(c)
  \/ AbortMultipart(c) \/ AbortSave(c) \/ CallOver(c)

Run(w) ==
  \/ ProcessClaim(w) \/ ProcessEncode(w) \/ ProcessSave(w)
  \/ ProcessMarkFailed(w) \/ JobDone(w) \/ JobFails(w)

Next ==
  \/ InitiateUpload
  \/ \E c \in Callers : CallStep(c)
  \/ \E w \in Workers : ProcessBegin(w) \/ Run(w)
  \/ JobStalls

Spec == Init /\ [][Next]_vars

(* A worker that is up takes the job, and gets on with the run or fails.   *)
FairSpec == Spec /\ \A w \in Workers : WF_vars(ProcessBegin(w)) /\ WF_vars(Run(w))

-----------------------------------------------------------------------------
(* Row, storage and queue agree although storage is asked before the row   *)
(* is written: what is published is stored and within the cap, whatever    *)
(* abort it overlaps; READY comes with a manifest whose tree is there; a   *)
(* job exists for a stored video only.                                     *)
StorageAgrees ==
  /\ status \in Published => upload = "stored"
  /\ manifest <=> status = "READY"
  /\ manifest => hls
  /\ job.state # "none" => kind = "VIDEO" /\ upload = "stored" /\ status # "UPLOADING"
  /\ status \in {"TRANSCODING", "READY"} => job.state # "none"

(* A video is given up only when its job has no try left, also when runs   *)
(* of it overlap; and a job that was never taken for dead is done only     *)
(* with the video READY.                                                   *)
EncodingEarned ==
  /\ job.state # "none" /\ status = "FAILED" => job.tries + 1 >= Attempts
  /\ job.state = "done" /\ ~job.stalled => status = "READY"

(* A video whose job is in the queue becomes READY or FAILED in the end,   *)
(* unless the job runs out of tries, or the queue once took a run of it    *)
(* for dead.                                                               *)
EncodingEnds ==
  (job.state = "queued") ~> (status \in {"READY", "FAILED"} \/ job.state = "failed" \/ job.stalled)

(* The module keeps the promise of AssetLedger.tla.                        *)
Ledger == INSTANCE AssetLedger
ImplementsAssetLedger == Ledger!Spec
=============================================================================
