----------------------------- MODULE LiveProofs -----------------------------
(***************************************************************************)
(* Proofs about Live.tla, for any number of sessions, egresses, calls and  *)
(* workers.                                                                *)
(***************************************************************************)
EXTENDS Live, TLAPS

-----------------------------------------------------------------------------
(* The type invariant in parts.                                            *)
RowsTyped ==
  /\ status \in [Sessions -> Statuses]
  /\ shouldRecord \in [Sessions -> BOOLEAN]
  /\ recorderRef \in [Sessions -> Egresses \cup {None}]
  /\ recording \in [Sessions -> {"NONE", "READY", "FAILED"}]
  /\ outbox \subseteq Topics \X Sessions
  /\ transcoding \subseteq Sessions
EgressTyped == egress \in [Egresses -> EgressType]
CallTyped(r) == r \in CallType /\ (r.at \in WithSession <=> r.s # None)
CallsTyped == call \in [Callers -> CallType] /\ \A c \in Callers : CallTyped(call[c])
JobTyped(j) == j \in WorkType /\ (j.at # "idle" <=> j.s # None)
JobsTyped == work \in [Workers -> WorkType] /\ \A w \in Workers : JobTyped(work[w])
TriesTyped == tries \in [Sessions -> 0..Attempts]

LEMMA TypeSplit ==
  TypeOK <=> RowsTyped /\ EgressTyped /\ CallsTyped /\ JobsTyped /\ TriesTyped
BY DEF TypeOK, RowsTyped, EgressTyped, CallsTyped, CallTyped, JobsTyped, JobTyped, TriesTyped

-----------------------------------------------------------------------------
(* The inductive invariant.                                                *)
OpenStatuses == {"SCHEDULED", "LIVE"}
Begun(s) == status[s] \in {"LIVE"} \cup Terminal

(* The partial unique index: two sessions are never open at once.          *)
OneOpen ==
  \A s, t \in Sessions : s # t => ~(status[s] \in OpenStatuses /\ status[t] \in OpenStatuses)

(* Recorders and recordings belong to sessions that were live and whose    *)
(* teacher did not opt out.                                                *)
Recordable(s) == s \in Sessions /\ Begun(s) /\ shouldRecord[s]

RecordedInv ==
  \A s \in Sessions : recorderRef[s] # None \/ recording[s] # "NONE" => Recordable(s)
EgressInv == \A e \in Egresses : egress[e].of # None => Recordable(egress[e].of)

(* What a job has read stays true until it commits: its session is begun   *)
(* and recordable; when it finalizes, the session is over and the recorder *)
(* is the session's for good; what it is about to attach is complete.      *)
JobInv(j) ==
  /\ j.at \in Spawning => Recordable(j.s)
  /\ j.at = "rec.save" => j.e \in Egresses
  /\ j.at \in Finalizing => Recordable(j.s) /\ status[j.s] \in Terminal
  /\ j.at \in {"fin.stop", "fin.ready"} => j.e # None /\ j.e = recorderRef[j.s]
  /\ j.at = "fin.ready" => egress[j.e].state = "complete"
  /\ j.at = "fin.transcode" => recording[j.s] = "READY"
JobsInv == \A w \in Workers : JobInv(work[w])

RowsInv ==
  /\ RowsTyped /\ EgressTyped
  /\ OneOpen /\ RecordedInv /\ EgressInv
  /\ EventsMatchSessions
  /\ RecordingMatchesSession

Invariant == RowsInv /\ CallsTyped /\ JobsTyped /\ TriesTyped /\ JobsInv

-----------------------------------------------------------------------------
(* No step takes back what a job relies on.                                *)
Kept ==
  /\ \A s \in Sessions : Recordable(s) => Recordable(s)'
  /\ \A s \in Sessions : status[s] \in Terminal => status'[s] \in Terminal
  /\ \A s \in Sessions : recorderRef[s] # None => recorderRef'[s] = recorderRef[s]
  /\ \A e \in Egresses : egress[e].state = "complete" => egress'[e].state = "complete"
  /\ \A s \in Sessions : recording[s] = "READY" => recording'[s] = "READY"

LEMMA KeptJob ==
  ASSUME RowsTyped, Kept, NEW j \in WorkType, JobTyped(j), JobInv(j)
  PROVE  /\ j.at \in Spawning => Recordable(j.s)'
         /\ j.at = "rec.save" => j.e \in Egresses
         /\ j.at \in Finalizing => Recordable(j.s)' /\ status'[j.s] \in Terminal
         /\ j.at \in {"fin.stop", "fin.ready"} => j.e # None /\ j.e = recorderRef'[j.s]
         /\ j.at = "fin.ready" => egress'[j.e].state = "complete"
         /\ j.at = "fin.transcode" => recording'[j.s] = "READY"
<1>1. j.s \in Sessions \/ j.at = "idle"
  BY DEF JobTyped, WorkType
<1>2. j.e \in Egresses \cup {None}
  BY DEF WorkType
<1>3. j.at \in {"fin.stop", "fin.ready"} =>
        j.s \in Sessions /\ recorderRef[j.s] # None /\ j.e \in Egresses
  BY <1>1, <1>2 DEF JobInv
<1> QED
  BY <1>1, <1>2, <1>3 DEF JobInv, Kept, Spawning, Finalizing

LEMMA KeptJobs ==
  ASSUME RowsTyped, JobsTyped, JobsInv, Kept, UNCHANGED work
  PROVE  JobsInv'
<1> SUFFICES ASSUME NEW w \in Workers PROVE JobInv(work[w])'
  BY DEF JobsInv
<1>1. work[w] \in WorkType /\ JobTyped(work[w]) /\ JobInv(work[w])
  BY DEF JobsTyped, JobsInv
<1> QED
  BY <1>1, KeptJob DEF JobInv

(* A worker takes a step to a job j' for which the invariant holds.        *)
LEMMA NextJob ==
  ASSUME RowsTyped, JobsTyped, JobsInv, Kept, NEW w \in Workers, NEW j \in WorkType,
         JobTyped(j), work' = [work EXCEPT ![w] = j], JobInv(j)'
  PROVE  JobsTyped' /\ JobsInv'
<1>1. JobsTyped'
  BY DEF JobsTyped, JobTyped
<1>2. ASSUME NEW v \in Workers, v # w PROVE JobInv(work[v])'
  <2>1. work[v] \in WorkType /\ JobTyped(work[v]) /\ JobInv(work[v]) /\ work'[v] = work[v]
    BY <1>2 DEF JobsTyped, JobsInv
  <2> QED
    BY <2>1, KeptJob DEF JobInv
<1>3. JobInv(work[w])'
  BY DEF JobInv, JobsTyped
<1> QED
  BY <1>1, <1>2, <1>3 DEF JobsInv

LEMMA IdleJob == IdleWork \in WorkType /\ JobTyped(IdleWork) /\ JobInv(IdleWork)'
BY DEF IdleWork, WorkType, JobTyped, JobInv, Spawning, Finalizing

LEMMA SameRows ==
  ASSUME RowsInv, UNCHANGED rows, UNCHANGED egress
  PROVE  RowsInv' /\ Kept
BY DEF RowsInv, rows, RowsTyped, EgressTyped, OneOpen, RecordedInv, EgressInv, Recordable,
       Begun, EventsMatchSessions, RecordingMatchesSession, Kept

LEMMA NextCall ==
  ASSUME CallsTyped, NEW c \in Callers, NEW step, NEW s, Goto(c, step, s),
         [at |-> step, s |-> s] \in CallType, step \in WithSession <=> s # None
  PROVE  CallsTyped'
BY DEF CallsTyped, CallTyped, Goto

LEMMA CallDone ==
  ASSUME CallsTyped, NEW c \in Callers, Done(c)
  PROVE  CallsTyped'
BY DEF CallsTyped, CallTyped, Done, IdleCall, CallType, WithSession, WithoutSession

-----------------------------------------------------------------------------
(* The steps that change rows.                                             *)
LEMMA GoLiveRows ==
  ASSUME RowsInv, NEW s \in Sessions, status[s] \in {"NONE", "SCHEDULED"},
         \A t \in Sessions : t # s => status[t] \notin OpenStatuses,
         GoLive(s), UNCHANGED egress
  PROVE  RowsInv' /\ Kept
<1> USE DEF RowsInv
<1>1. PICK rec \in BOOLEAN : shouldRecord' = [shouldRecord EXCEPT ![s] = rec]
  BY DEF GoLive
<1>2. status' = [status EXCEPT ![s] = "LIVE"]
  BY DEF GoLive
<1>3. UNCHANGED <<recorderRef, recording, transcoding>>
  BY DEF GoLive
<1>4. outbox' = outbox \cup {<<"live.started", s>>}
  BY DEF GoLive, Emit
<1>5. RowsTyped' /\ EgressTyped'
  BY <1>1, <1>2, <1>3, <1>4 DEF RowsTyped, EgressTyped, Statuses, Topics
<1>6. ~Recordable(s)
  BY DEF Recordable, Begun, Terminal
<1>7. \A t \in Sessions : Recordable(t) => Recordable(t)'
  BY <1>1, <1>2, <1>6 DEF RowsTyped, Recordable, Begun
<1>8. OneOpen'
  BY <1>2 DEF OneOpen, RowsTyped, OpenStatuses
<1>9. RecordedInv'
  BY <1>3, <1>7 DEF RecordedInv
<1>10. EgressInv'
  BY <1>7 DEF EgressInv, EgressTyped, EgressType
<1>11. \A t \in Sessions : status[t] \in Terminal => t # s /\ status'[t] = status[t]
  BY <1>2 DEF RowsTyped, Terminal
<1>12. EventsMatchSessions'
  <2> SUFFICES ASSUME NEW t \in Sessions
               PROVE  /\ <<"live.started", t>> \in outbox' <=> status'[t] \in {"LIVE"} \cup Terminal
                      /\ <<"live.ended", t>> \in outbox' <=> status'[t] \in Terminal
                      /\ <<"recording.ready", t>> \in outbox' <=> recording'[t] = "READY"
    BY DEF EventsMatchSessions
  <2>1. CASE t = s
    BY <2>1, <1>2, <1>3, <1>4 DEF EventsMatchSessions, RowsTyped, Terminal
  <2>2. CASE t # s
    BY <2>2, <1>2, <1>3, <1>4 DEF EventsMatchSessions, RowsTyped, Terminal
  <2> QED
    BY <2>1, <2>2
<1>13. RecordingMatchesSession'
  BY <1>2, <1>3 DEF RecordingMatchesSession, RowsTyped
<1>14. Kept
  BY <1>3, <1>7, <1>11 DEF Kept
<1> QED
  BY <1>5, <1>8, <1>9, <1>10, <1>12, <1>13, <1>14

LEMMA WaitRows ==
  ASSUME RowsInv, NEW s \in Sessions, status[s] = "NONE", Active = {},
         status' = [status EXCEPT ![s] = "SCHEDULED"],
         UNCHANGED <<shouldRecord, recorderRef, recording, outbox, transcoding, egress>>
  PROVE  RowsInv' /\ Kept
<1> USE DEF RowsInv
<1>1. RowsTyped' /\ EgressTyped'
  BY DEF RowsTyped, EgressTyped, Statuses
<1>2. ~Recordable(s)
  BY DEF Recordable, Begun, Terminal
<1>3. \A t \in Sessions : Recordable(t) => Recordable(t)'
  BY <1>2 DEF RowsTyped, Recordable, Begun
<1>4. OneOpen'
  BY DEF OneOpen, RowsTyped, OpenStatuses, Active
<1>5. RecordedInv' /\ EgressInv'
  BY <1>3 DEF RecordedInv, EgressInv, EgressTyped, EgressType
<1>6. EventsMatchSessions' /\ RecordingMatchesSession'
  BY DEF EventsMatchSessions, RecordingMatchesSession, RowsTyped, Terminal
<1>7. Kept
  BY <1>3 DEF Kept, RowsTyped, Terminal
<1> QED
  BY <1>1, <1>4, <1>5, <1>6, <1>7

LEMMA EndRows ==
  ASSUME RowsInv, NEW s \in Sessions, status[s] = "LIVE",
         status' = [status EXCEPT ![s] = "ENDED"], Emit("live.ended", s),
         UNCHANGED <<shouldRecord, recorderRef, recording, transcoding, egress>>
  PROVE  RowsInv' /\ Kept
<1> USE DEF RowsInv
<1>1. outbox' = outbox \cup {<<"live.ended", s>>}
  BY DEF Emit
<1>2. RowsTyped' /\ EgressTyped'
  BY <1>1 DEF RowsTyped, EgressTyped, Statuses, Topics
<1>3. \A t \in Sessions : Recordable(t) => Recordable(t)'
  BY DEF RowsTyped, Recordable, Begun, Terminal
<1>4. OneOpen'
  BY DEF OneOpen, RowsTyped, OpenStatuses
<1>5. RecordedInv' /\ EgressInv'
  BY <1>3 DEF RecordedInv, EgressInv, EgressTyped, EgressType
<1>6. EventsMatchSessions'
  BY <1>1 DEF EventsMatchSessions, RowsTyped, Terminal
<1>7. RecordingMatchesSession'
  BY DEF RecordingMatchesSession, RowsTyped
<1>8. Kept
  BY <1>3 DEF Kept, RowsTyped, Terminal
<1> QED
  BY <1>2, <1>4, <1>5, <1>6, <1>7, <1>8

(* LiveKit's own steps: an egress starts for a recordable session, and one *)
(* that runs may stop.                                                     *)
LEMMA EgressRows ==
  ASSUME RowsInv, UNCHANGED rows, egress' \in [Egresses -> EgressType],
         \A e \in Egresses : egress[e].state = "complete" => egress'[e] = egress[e],
         \A e \in Egresses : egress'[e].of # egress[e].of => Recordable(egress'[e].of)
  PROVE  RowsInv' /\ Kept
<1> USE DEF RowsInv, rows
<1>1. RowsTyped' /\ EgressTyped' /\ OneOpen' /\ EventsMatchSessions'
  BY DEF RowsTyped, EgressTyped, OneOpen, EventsMatchSessions
<1>2. \A t : Recordable(t) <=> Recordable(t)'
  BY DEF Recordable, Begun
<1>3. RecordedInv'
  BY <1>2 DEF RecordedInv
<1>4. EgressInv'
  <2> SUFFICES ASSUME NEW e \in Egresses, egress'[e].of # None
               PROVE  Recordable(egress[e].of)'
    BY DEF EgressInv
  <2>1. PICK t : t = egress'[e].of
    OBVIOUS
  <2>2. Recordable(t)
    BY <2>1 DEF EgressInv
  <2> QED
    BY <2>1, <2>2 DEF Recordable, Begun
<1>5. RecordingMatchesSession'
  <2> SUFFICES ASSUME NEW t \in Sessions, recording[t] = "READY"
               PROVE  egress'[recorderRef[t]].state = "complete"
    BY DEF RecordingMatchesSession
  <2>1. recorderRef[t] \in Egresses /\ egress[recorderRef[t]].state = "complete"
    BY DEF RecordingMatchesSession, RowsTyped
  <2> QED
    BY <2>1
<1>6. Kept
  BY <1>2 DEF Kept
<1> QED
  BY <1>1, <1>3, <1>4, <1>5, <1>6

LEMMA SaveRows ==
  ASSUME RowsInv, NEW s \in Sessions, NEW e \in Egresses, Recordable(s),
         recorderRef' = [recorderRef EXCEPT ![s] = IF @ = None THEN e ELSE @],
         UNCHANGED <<status, shouldRecord, recording, outbox, transcoding, egress>>
  PROVE  RowsInv' /\ Kept
<1> USE DEF RowsInv
<1>1. RowsTyped' /\ EgressTyped' /\ OneOpen' /\ EventsMatchSessions'
  BY DEF RowsTyped, EgressTyped, OneOpen, EventsMatchSessions
<1>2. \A t : Recordable(t) <=> Recordable(t)'
  BY DEF Recordable, Begun
<1>3. \A t \in Sessions : recorderRef[t] # None => recorderRef'[t] = recorderRef[t]
  BY DEF RowsTyped
<1>4. RecordedInv' /\ EgressInv'
  BY <1>2 DEF RecordedInv, EgressInv, RowsTyped, Recordable, Begun
<1>5. RecordingMatchesSession'
  BY <1>3 DEF RecordingMatchesSession
<1>6. Kept
  BY <1>2, <1>3 DEF Kept
<1> QED
  BY <1>1, <1>4, <1>5, <1>6

LEMMA SuccessRows ==
  ASSUME RowsInv, NEW s \in Sessions, Recordable(s), status[s] \in Terminal,
         recorderRef[s] # None, egress[recorderRef[s]].state = "complete",
         recording[s] = "NONE", recording' = [recording EXCEPT ![s] = "READY"],
         Emit("recording.ready", s),
         UNCHANGED <<status, shouldRecord, recorderRef, transcoding, egress>>
  PROVE  RowsInv' /\ Kept
<1> USE DEF RowsInv
<1>1. outbox' = outbox \cup {<<"recording.ready", s>>}
  BY DEF Emit
<1>2. RowsTyped' /\ EgressTyped' /\ OneOpen'
  BY <1>1 DEF RowsTyped, EgressTyped, OneOpen, Topics
<1>3. \A t : Recordable(t) <=> Recordable(t)'
  BY DEF Recordable, Begun
<1>4. RecordedInv' /\ EgressInv'
  BY <1>3 DEF RecordedInv, EgressInv, RowsTyped, Recordable, Begun
<1>5. EventsMatchSessions'
  BY <1>1 DEF EventsMatchSessions, RowsTyped
<1>6. status[s] = "ENDED"
  BY DEF RecordingMatchesSession, Terminal
<1>7. RecordingMatchesSession'
  BY <1>6 DEF RecordingMatchesSession, RowsTyped
<1>8. Kept
  BY <1>3 DEF Kept, RowsTyped
<1> QED
  BY <1>2, <1>4, <1>5, <1>7, <1>8

LEMMA FailureRows ==
  ASSUME RowsInv, NEW s \in Sessions, Recordable(s), status[s] \in Terminal,
         recording[s] = "NONE", recording' = [recording EXCEPT ![s] = "FAILED"],
         status' = [status EXCEPT ![s] =
                      IF @ \in {"LIVE", "ENDED"} THEN "RECORDING_FAILED" ELSE @],
         UNCHANGED <<shouldRecord, recorderRef, outbox, transcoding, egress>>
  PROVE  RowsInv' /\ Kept
<1> USE DEF RowsInv
<1>1. status' = [status EXCEPT ![s] = "RECORDING_FAILED"]
  BY DEF Terminal, RowsTyped
<1>2. RowsTyped' /\ EgressTyped'
  BY <1>1 DEF RowsTyped, EgressTyped, Statuses
<1>3. OneOpen'
  BY <1>1 DEF OneOpen, RowsTyped, OpenStatuses
<1>4. \A t \in Sessions : Recordable(t) => Recordable(t)'
  BY <1>1 DEF RowsTyped, Recordable, Begun, Terminal
<1>5. RecordedInv'
  BY <1>4 DEF RecordedInv, RowsTyped
<1>6. EgressInv'
  BY <1>4 DEF EgressInv, EgressTyped, EgressType
<1>7. EventsMatchSessions'
  BY <1>1 DEF EventsMatchSessions, RowsTyped, Terminal
<1>8. RecordingMatchesSession'
  BY <1>1 DEF RecordingMatchesSession, RowsTyped
<1>9. Kept
  BY <1>1, <1>4 DEF Kept, RowsTyped, Terminal
<1> QED
  BY <1>2, <1>3, <1>5, <1>6, <1>7, <1>8, <1>9

LEMMA TranscodeRows ==
  ASSUME RowsInv, NEW s \in Sessions, recording[s] = "READY",
         transcoding' \in {transcoding, transcoding \cup {s}},
         UNCHANGED <<status, shouldRecord, recorderRef, recording, outbox, egress>>
  PROVE  RowsInv' /\ Kept
BY DEF RowsInv, RowsTyped, EgressTyped, OneOpen, RecordedInv, EgressInv, Recordable,
       Begun, EventsMatchSessions, RecordingMatchesSession, Kept

-----------------------------------------------------------------------------
(* The same steps as steps of SessionLedger.tla.                           *)
LedgerStep == Ledger!Next \/ UNCHANGED <<Phase, recorderRef>>

LEMMA LedgerBecomes ==
  ASSUME RowsTyped, NEW s \in Sessions, NEW p,
         \A t \in Sessions \ {s} : status'[t] = status[t] /\ recording'[t] = recording[t],
         p = IF recording'[s] = "READY" THEN "RECORDED" ELSE status'[s],
         UNCHANGED recorderRef
  PROVE  Ledger!Become(s, p)
BY DEF Ledger!Become, Phase

LEMMA LedgerNobody ==
  ASSUME NEW s \in Sessions, \A t \in Sessions : t # s => status[t] \notin OpenStatuses
  PROVE  Ledger!NobodyElse(s)
BY DEF Ledger!NobodyElse, Ledger!Open, Phase, OpenStatuses

LEMMA LedgerStart ==
  ASSUME RowsInv, NEW s \in Sessions, status[s] \in {"NONE", "SCHEDULED"},
         \A t \in Sessions : t # s => status[t] \notin OpenStatuses, GoLive(s)
  PROVE  LedgerStep
<1>1. recording[s] # "READY"
  BY DEF RowsInv, RecordingMatchesSession
<1>2. Phase[s] \in {"NONE", "SCHEDULED"}
  BY <1>1 DEF Phase
<1>3. Ledger!Become(s, "LIVE")
  BY <1>1, LedgerBecomes DEF RowsInv, RowsTyped, GoLive
<1> QED
  BY <1>2, <1>3, LedgerNobody DEF LedgerStep, Ledger!Next, Ledger!Start

LEMMA LedgerWait ==
  ASSUME RowsInv, NEW s \in Sessions, status[s] = "NONE", Active = {},
         status' = [status EXCEPT ![s] = "SCHEDULED"],
         UNCHANGED <<recorderRef, recording>>
  PROVE  LedgerStep
<1>1. recording[s] # "READY"
  BY DEF RowsInv, RecordingMatchesSession
<1>2. Phase[s] = "NONE"
  BY <1>1 DEF Phase
<1>3. Ledger!Become(s, "SCHEDULED")
  BY <1>1, LedgerBecomes DEF RowsInv, RowsTyped
<1>4. Ledger!NobodyElse(s)
  BY LedgerNobody DEF Active, OpenStatuses
<1> QED
  BY <1>2, <1>3, <1>4 DEF LedgerStep, Ledger!Next, Ledger!Wait

LEMMA LedgerEnd ==
  ASSUME RowsInv, NEW s \in Sessions, status[s] = "LIVE",
         status' = [status EXCEPT ![s] = "ENDED"],
         UNCHANGED <<recorderRef, recording>>
  PROVE  LedgerStep
<1>1. recording[s] # "READY"
  BY DEF RowsInv, RecordingMatchesSession
<1>2. Phase[s] = "LIVE"
  BY <1>1 DEF Phase
<1>3. Ledger!Become(s, "ENDED")
  BY <1>1, LedgerBecomes DEF RowsInv, RowsTyped
<1> QED
  BY <1>2, <1>3 DEF LedgerStep, Ledger!Next, Ledger!End

LEMMA LedgerSave ==
  ASSUME RowsInv, NEW s \in Sessions, NEW e \in Egresses, Recordable(s),
         recorderRef' = [recorderRef EXCEPT ![s] = IF @ = None THEN e ELSE @],
         UNCHANGED <<status, recording>>
  PROVE  LedgerStep
<1>1. UNCHANGED Phase
  BY DEF Phase
<1>2. CASE recorderRef[s] = None
  <2>1. recorderRef' = [recorderRef EXCEPT ![s] = e]
    BY <1>2
  <2>2. Phase[s] \in {"LIVE"} \cup Ledger!Over
    BY DEF Phase, Recordable, Begun, Terminal, Ledger!Over
  <2> QED
    BY <1>1, <1>2, <2>1, <2>2 DEF LedgerStep, Ledger!Next, Ledger!Assign
<1>3. CASE recorderRef[s] # None
  BY <1>1, <1>3 DEF LedgerStep, RowsInv, RowsTyped
<1> QED
  BY <1>2, <1>3

LEMMA LedgerAttach ==
  ASSUME RowsInv, NEW s \in Sessions, status[s] \in Terminal, recorderRef[s] # None,
         recording[s] = "NONE", recording' = [recording EXCEPT ![s] = "READY"],
         UNCHANGED <<status, recorderRef>>
  PROVE  LedgerStep
<1>1. Phase[s] = "ENDED"
  BY DEF RowsInv, RecordingMatchesSession, Terminal, Phase
<1>2. Ledger!Become(s, "RECORDED")
  BY LedgerBecomes DEF RowsInv, RowsTyped
<1> QED
  BY <1>1, <1>2 DEF LedgerStep, Ledger!Next, Ledger!Attach

LEMMA LedgerFail ==
  ASSUME RowsInv, NEW s \in Sessions, status[s] \in Terminal,
         recording[s] = "NONE", recording' = [recording EXCEPT ![s] = "FAILED"],
         status' = [status EXCEPT ![s] =
                      IF @ \in {"LIVE", "ENDED"} THEN "RECORDING_FAILED" ELSE @],
         UNCHANGED recorderRef
  PROVE  LedgerStep
<1>1. Phase[s] = "ENDED" /\ status[s] = "ENDED"
  BY DEF RowsInv, RecordingMatchesSession, Terminal, Phase
<1>2. Ledger!Become(s, "RECORDING_FAILED")
  BY <1>1, LedgerBecomes DEF RowsInv, RowsTyped
<1> QED
  BY <1>1, <1>2 DEF LedgerStep, Ledger!Next, Ledger!Fail

LEMMA LedgerStays ==
  ASSUME UNCHANGED <<status, recorderRef, recording>>
  PROVE  LedgerStep
BY DEF LedgerStep, Phase

-----------------------------------------------------------------------------
(* Every step keeps the invariant and is a step of the ledger or none.     *)
Good == Invariant' /\ LedgerStep

(* A call changed rows in a way that jobs do not notice.                   *)
LEMMA CallGood ==
  ASSUME Invariant, RowsInv', Kept, LedgerStep, CallsTyped', UNCHANGED <<tries, work>>
  PROVE  Good
<1>1. JobsTyped' /\ TriesTyped'
  BY DEF Invariant, JobsTyped, TriesTyped
<1>2. JobsInv'
  BY KeptJobs DEF Invariant, RowsInv
<1> QED
  BY <1>1, <1>2 DEF Good, Invariant

LEMMA CallReads ==
  ASSUME Invariant, CallsTyped', UNCHANGED <<rows, egress, tries, work>>
  PROVE  Good
<1>1. RowsInv' /\ Kept
  BY SameRows DEF Invariant
<1>2. LedgerStep
  BY LedgerStays DEF rows
<1> QED
  BY <1>1, <1>2, CallGood

LEMMA StepStart ==
  ASSUME Invariant, NEW c \in Callers,
         StartFind(c) \/ StartPromote(c) \/ StartInsert(c) \/ StartWinner(c)
  PROVE  Good
<1> USE DEF Invariant
<1>1. ASSUME StartFind(c) PROVE Good
  <2>1. CallsTyped'
    BY <1>1, NextCall DEF StartFind, CallType, WithSession, WithoutSession, Active, None, Sessions
  <2> QED
    BY <1>1, <2>1, CallReads DEF StartFind, Goto
<1>2. ASSUME StartWinner(c) PROVE Good
  <2>1. CallsTyped'
    BY <1>2, NextCall, CallDone
       DEF StartWinner, CallType, WithSession, WithoutSession, Active, None, Sessions
  <2> QED
    BY <1>2, <2>1, CallReads DEF StartWinner, Goto, Done
<1>3. ASSUME StartPromote(c) PROVE Good
  <2>1. PICK s \in Sessions : s = call[c].s
    BY <1>3 DEF StartPromote, CallsTyped, CallTyped, CallType, WithSession
  <2>2. CallsTyped'
    BY <1>3, <2>1, NextCall DEF StartPromote, CallType, WithSession, None, Sessions
  <2>3. CASE status[s] = "SCHEDULED"
    <3>1. GoLive(s) /\ UNCHANGED egress
      BY <1>3, <2>1, <2>3 DEF StartPromote
    <3>2. \A t \in Sessions : t # s => status[t] \notin OpenStatuses
      BY <2>3 DEF RowsInv, OneOpen, OpenStatuses
    <3>3. RowsInv' /\ Kept /\ LedgerStep
      BY <2>3, <3>1, <3>2, GoLiveRows, LedgerStart
    <3> QED
      BY <1>3, <2>2, <3>3, CallGood DEF StartPromote, Goto
  <2>4. CASE status[s] # "SCHEDULED"
    BY <1>3, <2>1, <2>2, <2>4, CallReads DEF StartPromote, Goto
  <2> QED
    BY <2>3, <2>4
<1>4. ASSUME StartInsert(c) PROVE Good
  <2>1. CASE Active = {}
    <3>1. PICK s \in Sessions : Fresh(s) /\ GoLive(s) /\ Goto(c, "start.answer", s)
      BY <1>4, <2>1 DEF StartInsert
    <3>2. status[s] = "NONE" /\ \A t \in Sessions : t # s => status[t] \notin OpenStatuses
      BY <2>1, <3>1 DEF Fresh, Active, OpenStatuses
    <3>3. RowsInv' /\ Kept /\ LedgerStep
      BY <1>4, <3>1, <3>2, GoLiveRows, LedgerStart DEF StartInsert
    <3>4. CallsTyped'
      BY <3>1, NextCall DEF CallType, WithSession, None, Sessions
    <3> QED
      BY <3>1, <3>3, <3>4, CallGood DEF Goto
  <2>2. CASE Active # {}
    <3>1. CallsTyped'
      BY <1>4, <2>2, NextCall DEF StartInsert, CallType, WithSession, WithoutSession
    <3> QED
      BY <1>4, <2>2, <3>1, CallReads DEF StartInsert, Goto
  <2> QED
    BY <2>1, <2>2
<1> QED
  BY <1>1, <1>2, <1>3, <1>4

LEMMA StepEnd ==
  ASSUME Invariant, NEW c \in Callers, EndFind(c) \/ EndCommit(c) \/ EndClose(c)
  PROVE  Good
<1> USE DEF Invariant
<1>1. ASSUME EndFind(c) PROVE Good
  <2>1. CallsTyped'
    BY <1>1, NextCall DEF EndFind, CallType, WithSession, None, Sessions
  <2> QED
    BY <1>1, <2>1, CallReads DEF EndFind, Goto
<1>2. ASSUME EndCommit(c) PROVE Good
  <2>1. PICK s \in Sessions : s = call[c].s
    BY <1>2 DEF EndCommit, CallsTyped, CallTyped, CallType, WithSession
  <2>2. CallsTyped'
    BY <1>2, <2>1, NextCall DEF EndCommit, CallType, WithSession, None, Sessions
  <2>3. CASE status[s] = "LIVE"
    <3>1. RowsInv' /\ Kept /\ LedgerStep
      BY <1>2, <2>1, <2>3, EndRows, LedgerEnd DEF EndCommit
    <3> QED
      BY <1>2, <2>2, <3>1, CallGood DEF EndCommit, Goto
  <2>4. CASE status[s] # "LIVE"
    BY <1>2, <2>1, <2>2, <2>4, CallReads DEF EndCommit, Goto, rows
  <2> QED
    BY <2>3, <2>4
<1>3. ASSUME EndClose(c) PROVE Good
  <2>1. CallsTyped'
    BY <1>3, CallDone DEF EndClose
  <2>2. CASE UNCHANGED egress
    BY <1>3, <2>1, <2>2, CallReads DEF EndClose, Done
  <2>3. CASE \E final \in [Running -> {"complete", "failed"}] :
               egress' = [e \in Egresses |->
                            IF e \in Running THEN [egress[e] EXCEPT !.state = final[e]]
                                             ELSE egress[e]]
    <3>1. PICK final \in [Running -> {"complete", "failed"}] :
               egress' = [e \in Egresses |->
                            IF e \in Running THEN [egress[e] EXCEPT !.state = final[e]]
                                             ELSE egress[e]]
      BY <2>3
    <3>2. \A e \in Egresses : /\ egress'[e] \in EgressType
                              /\ egress'[e].of = egress[e].of
                              /\ egress[e].state = "complete" => egress'[e] = egress[e]
      BY <3>1 DEF RowsInv, EgressTyped, EgressType, Running
    <3>3. egress' \in [Egresses -> EgressType]
      BY <3>1, <3>2
    <3>4. UNCHANGED rows
      BY <1>3 DEF EndClose
    <3>5. RowsInv' /\ Kept
      BY <3>2, <3>3, <3>4, EgressRows
    <3>6. LedgerStep
      BY <3>4, LedgerStays DEF rows
    <3> QED
      BY <1>3, <2>1, <3>5, <3>6, CallGood DEF EndClose, Done
  <2> QED
    BY <1>3, <2>2, <2>3 DEF EndClose
<1> QED
  BY <1>1, <1>2, <1>3

LEMMA StepJoin ==
  ASSUME Invariant, NEW c \in Callers, JoinFind(c) \/ JoinInsert(c) \/ CallOver(c)
  PROVE  Good
<1> USE DEF Invariant
<1>1. ASSUME JoinFind(c) PROVE Good
  <2>1. CallsTyped'
    BY <1>1, NextCall DEF JoinFind, CallType, WithSession, WithoutSession
  <2> QED
    BY <1>1, <2>1, CallReads DEF JoinFind, Goto
<1>2. ASSUME JoinInsert(c) PROVE Good
  <2>1. CallsTyped'
    BY <1>2, CallDone DEF JoinInsert
  <2>2. CASE Active = {}
    <3>1. PICK s \in Sessions : Fresh(s) /\ status' = [status EXCEPT ![s] = "SCHEDULED"]
      BY <1>2, <2>2 DEF JoinInsert
    <3>2. RowsInv' /\ Kept /\ LedgerStep
      BY <1>2, <2>2, <3>1, WaitRows, LedgerWait DEF JoinInsert, Fresh
    <3> QED
      BY <1>2, <2>1, <3>2, CallGood DEF JoinInsert, Done
  <2>3. CASE Active # {}
    BY <1>2, <2>1, <2>3, CallReads DEF JoinInsert, Done, rows
  <2> QED
    BY <2>2, <2>3
<1>3. ASSUME CallOver(c) PROVE Good
  BY <1>3, CallDone, CallReads DEF CallOver, Done
<1> QED
  BY <1>1, <1>2, <1>3

-----------------------------------------------------------------------------
(* A worker goes on to job j, for which the invariant holds afterwards.    *)
LEMMA JobGood ==
  ASSUME Invariant, RowsInv', Kept, LedgerStep, UNCHANGED call, TriesTyped',
         NEW w \in Workers, NEW j \in WorkType, JobTyped(j), JobInv(j)',
         work' = [work EXCEPT ![w] = j]
  PROVE  Good
<1>1. JobsTyped' /\ JobsInv'
  BY NextJob DEF Invariant, RowsInv
<1>2. CallsTyped'
  BY DEF Invariant, CallsTyped
<1> QED
  BY <1>1, <1>2 DEF Good, Invariant

LEMMA FinishGood ==
  ASSUME Invariant, RowsInv', Kept, LedgerStep, NEW w \in Workers, Finish(w)
  PROVE  Good
<1>1. work' = [work EXCEPT ![w] = IdleWork] /\ UNCHANGED call
  BY DEF Finish
<1>2. TriesTyped'
  BY DEF Invariant, TriesTyped, Finish
<1> QED
  BY <1>1, <1>2, IdleJob, JobGood

(* The session and the recorder a busy worker is about.                    *)
LEMMA JobOf ==
  ASSUME Invariant, NEW w \in Workers, work[w].at # "idle"
  PROVE  /\ work[w].s \in Sessions
         /\ work[w].e \in Egresses \cup {None}
         /\ JobInv(work[w])
         /\ \A step : [work EXCEPT ![w].at = step] =
              [work EXCEPT ![w] = [at |-> step, s |-> work[w].s, e |-> work[w].e]]
<1>1. work[w] \in WorkType /\ JobTyped(work[w]) /\ JobInv(work[w])
  BY DEF Invariant, JobsTyped, JobsInv
<1>2. work[w] = [at |-> work[w].at, s |-> work[w].s, e |-> work[w].e]
  BY <1>1 DEF WorkType
<1> QED
  BY <1>1, <1>2 DEF JobTyped, WorkType, Invariant, JobsTyped

LEMMA BeginGood ==
  ASSUME Invariant, UNCHANGED <<rows, egress>>, NEW w \in Workers,
         NEW step, NEW s \in Sessions, NEW e \in Egresses \cup {None},
         step \in Spawning \cup Finalizing, Begin(w, step, s, e),
         JobInv([at |-> step, s |-> s, e |-> e])
  PROVE  Good
<1> DEFINE j == [at |-> step, s |-> s, e |-> e]
<1>1. j \in WorkType /\ JobTyped(j)
  BY DEF WorkType, JobTyped, Spawning, Finalizing, None, Sessions
<1>2. RowsInv' /\ Kept
  BY SameRows DEF Invariant
<1>3. JobInv(j)'
  <2>1. RowsTyped
    BY DEF Invariant, RowsInv
  <2> HIDE DEF j
  <2> QED
    BY <1>1, <1>2, <2>1, KeptJob DEF JobInv, j
<1>4. LedgerStep
  BY LedgerStays DEF rows
<1>5. TriesTyped' /\ UNCHANGED call /\ work' = [work EXCEPT ![w] = j]
  BY DEF Invariant, TriesTyped, Begin
<1> HIDE DEF j
<1> QED
  BY <1>1, <1>2, <1>3, <1>4, <1>5, JobGood

LEMMA StepBegin ==
  ASSUME Invariant, NEW w \in Workers, NEW s \in Sessions,
         RecordBegin(w, s) \/ FinalizeBegin(w, s)
  PROVE  Good
<1> USE DEF Invariant, RowsInv
<1>1. ASSUME RecordBegin(w, s) PROVE Good
  <2>1. Recordable(s)
    BY <1>1 DEF RecordBegin, Recordable, Begun, EventsMatchSessions
  <2>2. JobInv([at |-> "rec.list", s |-> s, e |-> None])
    BY <2>1 DEF JobInv, Spawning, Finalizing
  <2>3. UNCHANGED <<rows, egress>> /\ Begin(w, "rec.list", s, None)
    BY <1>1 DEF RecordBegin
  <2> QED
    BY <2>2, <2>3, BeginGood DEF Spawning
<1>2. ASSUME FinalizeBegin(w, s) PROVE Good
  <2>1. status[s] \in Terminal /\ UNCHANGED <<rows, egress>>
    BY <1>2 DEF FinalizeBegin, EventsMatchSessions
  <2>2. CASE recorderRef[s] # None
    <3>1. PICK e \in Egresses : e = recorderRef[s]
      BY <2>2 DEF RowsTyped
    <3>2. Begin(w, "fin.stop", s, e)
      BY <1>2, <2>2, <3>1 DEF FinalizeBegin
    <3>3. Recordable(s)
      BY <2>2 DEF RecordedInv
    <3>4. JobInv([at |-> "fin.stop", s |-> s, e |-> e])
      BY <2>1, <2>2, <3>1, <3>3 DEF JobInv, Spawning, Finalizing
    <3> QED
      BY <2>1, <3>2, <3>4, BeginGood DEF Finalizing
  <2>3. CASE recorderRef[s] = None
    <3>1. shouldRecord[s] /\ Begin(w, "fin.failed", s, None)
      BY <1>2, <2>3 DEF FinalizeBegin
    <3>2. JobInv([at |-> "fin.failed", s |-> s, e |-> None])
      BY <2>1, <3>1 DEF JobInv, Spawning, Finalizing, Recordable, Begun
    <3> QED
      BY <2>1, <3>1, <3>2, BeginGood DEF Finalizing
  <2> QED
    BY <2>2, <2>3
<1> QED
  BY <1>1, <1>2

LEMMA StepRecord ==
  ASSUME Invariant, NEW w \in Workers, RecordList(w) \/ RecordSpawn(w) \/ RecordSave(w)
  PROVE  Good
<1> USE DEF Invariant
<1>1. work[w].at \in Spawning /\ work[w].at # "idle"
  BY DEF RecordList, RecordSpawn, RecordSave, Spawning
<1>2. PICK s \in Sessions : s = work[w].s
  BY <1>1, JobOf
<1>3. Recordable(s)
  BY <1>1, <1>2, JobOf DEF JobInv
<1>4. ASSUME RecordList(w) PROVE Good
  <2>1. UNCHANGED <<rows, egress>>
    BY <1>4 DEF RecordList
  <2>2. CASE Running = {}
    <3>1. PICK e \in Egresses \cup {None} : e = work[w].e
      BY <1>1, JobOf
    <3>2. Begin(w, "rec.spawn", s, e)
      BY <1>1, <1>2, <1>4, <2>2, <3>1, JobOf DEF RecordList, Step, Begin
    <3>3. JobInv([at |-> "rec.spawn", s |-> s, e |-> e])
      BY <1>3 DEF JobInv, Finalizing
    <3> QED
      BY <2>1, <3>2, <3>3, BeginGood DEF Spawning
  <2>3. CASE \E e \in Running : Begin(w, "rec.save", s, e)
    <3>1. PICK e \in Egresses : Begin(w, "rec.save", s, e)
      BY <2>3 DEF Running
    <3>2. JobInv([at |-> "rec.save", s |-> s, e |-> e])
      BY <1>3 DEF JobInv, Finalizing
    <3> QED
      BY <2>1, <3>1, <3>2, BeginGood DEF Spawning
  <2> QED
    BY <1>2, <1>4, <2>2, <2>3 DEF RecordList
<1>5. ASSUME RecordSpawn(w) PROVE Good
  <2>1. PICK e \in Egresses :
          /\ egress[e].state = "none"
          /\ egress' = [egress EXCEPT ![e] = [state |-> "running", of |-> s]]
          /\ Begin(w, "rec.save", s, e)
    BY <1>2, <1>5 DEF RecordSpawn
  <2>2. UNCHANGED rows
    BY <1>5 DEF RecordSpawn
  <2>3. egress' \in [Egresses -> EgressType]
    BY <2>1 DEF RowsInv, EgressTyped, EgressType
  <2>4. RowsInv' /\ Kept
    BY <1>3, <2>1, <2>2, <2>3, EgressRows DEF RowsInv, EgressTyped
  <2>5. LedgerStep
    BY <2>2, LedgerStays DEF rows
  <2> DEFINE j == [at |-> "rec.save", s |-> s, e |-> e]
  <2>6. j \in WorkType /\ JobTyped(j)
    BY DEF WorkType, JobTyped, Spawning, None, Sessions
  <2>7. JobInv(j)'
    BY <1>3, <2>2 DEF JobInv, Finalizing, Recordable, Begun, rows
  <2>8. TriesTyped' /\ UNCHANGED call /\ work' = [work EXCEPT ![w] = j]
    BY <2>1 DEF TriesTyped, Begin
  <2> HIDE DEF j
  <2> QED
    BY <2>4, <2>5, <2>6, <2>7, <2>8, JobGood
<1>6. ASSUME RecordSave(w) PROVE Good
  <2>1. PICK e \in Egresses : e = work[w].e
    BY <1>1, <1>6, JobOf DEF RecordSave, JobInv
  <2>2. recorderRef' = [recorderRef EXCEPT ![s] = IF @ = None THEN e ELSE @]
    BY <1>2, <1>6, <2>1 DEF RecordSave
  <2>3. RowsInv' /\ Kept /\ LedgerStep
    BY <1>3, <1>6, <2>2, SaveRows, LedgerSave DEF RecordSave
  <2> QED
    BY <1>6, <2>3, FinishGood DEF RecordSave
<1> QED
  BY <1>4, <1>5, <1>6

LEMMA StepStop ==
  ASSUME Invariant, NEW w \in Workers, FinalizeStop(w)
  PROVE  Good
<1> USE DEF Invariant
<1>1. work[w].at = "fin.stop"
  BY DEF FinalizeStop
<1>2. PICK s \in Sessions : s = work[w].s
  BY <1>1, JobOf
<1>3. /\ Recordable(s) /\ status[s] \in Terminal
      /\ recorderRef[s] # None /\ work[w].e = recorderRef[s]
  BY <1>1, <1>2, JobOf DEF JobInv, Finalizing
<1>4. PICK e \in Egresses : e = recorderRef[s]
  BY <1>3 DEF RowsInv, RowsTyped
<1>5. UNCHANGED rows
  BY DEF FinalizeStop
<1>6. /\ egress' \in [Egresses -> EgressType]
      /\ \A d \in Egresses : /\ egress[d].state = "complete" => egress'[d] = egress[d]
                             /\ egress'[d].of = egress[d].of
  <2>1. CASE UNCHANGED egress
    BY <2>1 DEF RowsInv, EgressTyped
  <2>2. CASE e \in Running /\ \E final \in {"complete", "failed"} : egress' = Stopped(e, final)
    BY <2>2 DEF RowsInv, EgressTyped, EgressType, Stopped, Running
  <2> QED
    BY <1>3, <1>4, <2>1, <2>2 DEF FinalizeStop
<1>7. RowsInv' /\ Kept
  BY <1>5, <1>6, EgressRows
<1>8. LedgerStep
  BY <1>5, LedgerStays DEF rows
<1>9. PICK step \in {"fin.ready", "fin.failed"} :
        Step(w, step) /\ (step = "fin.ready" => egress'[e].state = "complete")
  BY <1>3, <1>4 DEF FinalizeStop
<1> DEFINE j == [at |-> step, s |-> s, e |-> e]
<1>10. j \in WorkType /\ JobTyped(j)
  BY DEF WorkType, JobTyped, Finalizing, None, Sessions
<1>11. JobInv(j)'
  BY <1>3, <1>4, <1>5, <1>9 DEF JobInv, Spawning, Recordable, Begun, rows
<1>12. TriesTyped' /\ UNCHANGED call /\ work' = [work EXCEPT ![w].at = step]
  BY <1>9 DEF TriesTyped, Step
<1>13. work' = [work EXCEPT ![w] = j]
  <2>1. work[w].at # "idle" /\ work[w].s = s /\ work[w].e = e
    BY <1>1, <1>2, <1>3, <1>4
  <2>2. [work EXCEPT ![w].at = step] =
          [work EXCEPT ![w] = [at |-> step, s |-> work[w].s, e |-> work[w].e]]
    BY <2>1, JobOf
  <2> QED
    BY <1>12, <2>1, <2>2
<1> HIDE DEF j
<1> QED
  BY <1>7, <1>8, <1>10, <1>11, <1>12, <1>13, JobGood

LEMMA StepApply ==
  ASSUME Invariant, NEW w \in Workers,
         ApplySuccess(w) \/ EnqueueTranscode(w) \/ ApplyFailure(w)
  PROVE  Good
<1> USE DEF Invariant
<1>1. work[w].at \in {"fin.ready", "fin.transcode", "fin.failed"}
  BY DEF ApplySuccess, EnqueueTranscode, ApplyFailure
<1>2. PICK s \in Sessions : s = work[w].s
  BY <1>1, JobOf
<1>3. JobInv(work[w])
  BY <1>1, JobOf
<1>4. ASSUME ApplySuccess(w) PROVE Good
  <2>1. /\ Recordable(s) /\ status[s] \in Terminal /\ recorderRef[s] # None
        /\ egress[recorderRef[s]].state = "complete"
    BY <1>2, <1>3, <1>4 DEF ApplySuccess, JobInv, Finalizing
  <2>2. CASE recording[s] = "NONE"
    <3>1. /\ recording' = [recording EXCEPT ![s] = "READY"]
          /\ Emit("recording.ready", s) /\ Step(w, "fin.transcode")
          /\ UNCHANGED <<status, shouldRecord, recorderRef, transcoding, egress>>
      BY <1>2, <1>4, <2>2 DEF ApplySuccess
    <3>2. RowsInv' /\ Kept /\ LedgerStep
      BY <2>1, <2>2, <3>1, SuccessRows, LedgerAttach
    <3>3. PICK e \in Egresses \cup {None} : e = work[w].e
      BY <1>1, JobOf
    <3> DEFINE j == [at |-> "fin.transcode", s |-> s, e |-> e]
    <3>4. j \in WorkType /\ JobTyped(j)
      BY DEF WorkType, JobTyped, None, Sessions
    <3>5. JobInv(j)'
      BY <3>1 DEF JobInv, Spawning, Finalizing, RowsInv, RowsTyped
    <3>6. TriesTyped' /\ UNCHANGED call /\ work' = [work EXCEPT ![w] = j]
      BY <1>1, <1>2, <3>1, <3>3, JobOf DEF TriesTyped, Step
    <3> HIDE DEF j
    <3> QED
      BY <3>2, <3>4, <3>5, <3>6, JobGood
  <2>3. CASE recording[s] # "NONE"
    <3>1. Finish(w) /\ UNCHANGED rows /\ UNCHANGED egress
      BY <1>2, <1>4, <2>3 DEF ApplySuccess, rows
    <3> QED
      BY <3>1, SameRows, LedgerStays, FinishGood DEF rows
  <2> QED
    BY <2>2, <2>3
<1>5. ASSUME EnqueueTranscode(w) PROVE Good
  <2>1. recording[s] = "READY"
    BY <1>2, <1>3, <1>5 DEF EnqueueTranscode, JobInv
  <2>2. RowsInv' /\ Kept
    BY <1>2, <1>5, <2>1, TranscodeRows DEF EnqueueTranscode
  <2> QED
    BY <1>5, <2>2, LedgerStays, FinishGood DEF EnqueueTranscode
<1>6. ASSUME ApplyFailure(w) PROVE Good
  <2>1. Recordable(s) /\ status[s] \in Terminal
    BY <1>2, <1>3, <1>6 DEF ApplyFailure, JobInv, Finalizing
  <2>2. CASE recording[s] = "NONE"
    <3>1. RowsInv' /\ Kept /\ LedgerStep
      BY <1>2, <1>6, <2>1, <2>2, FailureRows, LedgerFail DEF ApplyFailure
    <3> QED
      BY <1>6, <3>1, FinishGood DEF ApplyFailure
  <2>3. CASE recording[s] # "NONE"
    <3>1. Finish(w) /\ UNCHANGED rows /\ UNCHANGED egress
      BY <1>2, <1>6, <2>3 DEF ApplyFailure, rows
    <3> QED
      BY <3>1, SameRows, LedgerStays, FinishGood DEF rows
  <2> QED
    BY <2>2, <2>3
<1> QED
  BY <1>4, <1>5, <1>6

LEMMA StepFails ==
  ASSUME Invariant, NEW w \in Workers, JobFails(w)
  PROVE  Good
<1> USE DEF Invariant, BoundsAssumption
<1>1. RowsInv' /\ Kept /\ LedgerStep
  BY SameRows, LedgerStays DEF JobFails, rows
<1>2. TriesTyped'
  <2>1. work[w].s \in Sessions
    BY JobOf DEF JobFails
  <2> QED
    BY <2>1, BoundsAssumption DEF JobFails, TriesTyped
<1> QED
  BY <1>1, <1>2, IdleJob, JobGood DEF JobFails

LEMMA StepEgress == ASSUME Invariant, EgressEnds PROVE Good
<1> USE DEF Invariant
<1>1. PICK e \in Running, final \in {"complete", "failed"} : egress' = Stopped(e, final)
  BY DEF EgressEnds
<1>2. /\ egress' \in [Egresses -> EgressType]
      /\ \A d \in Egresses : /\ egress[d].state = "complete" => egress'[d] = egress[d]
                             /\ egress'[d].of = egress[d].of
  BY <1>1 DEF RowsInv, EgressTyped, EgressType, Stopped, Running
<1>3. RowsInv' /\ Kept
  BY <1>2, EgressRows DEF EgressEnds
<1>4. CallsTyped' /\ LedgerStep
  BY LedgerStays DEF EgressEnds, CallsTyped, rows
<1> QED
  BY <1>3, <1>4, CallGood DEF EgressEnds

-----------------------------------------------------------------------------
LEMMA InvariantInit == Init => Invariant
<1> SUFFICES ASSUME Init PROVE Invariant
  OBVIOUS
<1> USE DEF Init
<1>1. RowsTyped /\ EgressTyped /\ TriesTyped
  BY BoundsAssumption
     DEF RowsTyped, EgressTyped, TriesTyped, Statuses, EgressType, None
<1>2. CallsTyped /\ JobsTyped
  BY DEF CallsTyped, CallTyped, JobsTyped, JobTyped, IdleCall, IdleWork, CallType,
         WorkType, WithSession, WithoutSession
<1>3. OneOpen /\ RecordedInv /\ EgressInv
  BY DEF OneOpen, RecordedInv, EgressInv, OpenStatuses
<1>4. EventsMatchSessions /\ RecordingMatchesSession
  BY DEF EventsMatchSessions, RecordingMatchesSession, Terminal
<1>5. JobsInv
  BY DEF JobsInv, JobInv, IdleWork, Spawning, Finalizing
<1> QED
  BY <1>1, <1>2, <1>3, <1>4, <1>5 DEF Invariant, RowsInv

LEMMA InvariantStep == Invariant /\ [Next]_vars => Good
<1> SUFFICES ASSUME Invariant, [Next]_vars PROVE Good
  OBVIOUS
<1>1. ASSUME NEW c \in Callers, CallStep(c) PROVE Good
  BY <1>1, StepStart, StepEnd, StepJoin DEF CallStep
<1>2. ASSUME NEW w \in Workers, JobStep(w) PROVE Good
  BY <1>2, StepRecord, StepStop, StepApply, StepFails DEF JobStep
<1>3. ASSUME NEW w \in Workers, NEW s \in Sessions, RecordBegin(w, s) \/ FinalizeBegin(w, s)
      PROVE  Good
  BY <1>3, StepBegin
<1>4. CASE EgressEnds
  BY <1>4, StepEgress
<1>5. CASE UNCHANGED vars
  <2>1. CallsTyped' /\ UNCHANGED <<rows, egress, tries, work>>
    BY <1>5 DEF vars, rows, Invariant, CallsTyped
  <2> QED
    BY <2>1, CallReads
<1> QED
  BY <1>1, <1>2, <1>3, <1>4, <1>5 DEF Next

(* However calls and jobs overlap, fail and repeat, the invariant holds.   *)
THEOREM InvariantHolds == Spec => []Invariant
BY InvariantInit, InvariantStep, PTL DEF Spec, Good

(* Type correctness of Live.tla.                                           *)
THEOREM TypeCorrect == Spec => []TypeOK
<1>1. Invariant => TypeOK
  BY TypeSplit DEF Invariant, RowsInv
<1> QED
  BY <1>1, InvariantHolds, PTL

(* A session and its recording never contradict each other.                *)
THEOREM RecordingsMatchSessions == Spec => []RecordingMatchesSession
<1>1. Invariant => RecordingMatchesSession
  BY DEF Invariant, RowsInv
<1> QED
  BY <1>1, InvariantHolds, PTL

(* The events of a session are those of the way it went.                   *)
THEOREM EventsAreTrue == Spec => []EventsMatchSessions
<1>1. Invariant => EventsMatchSessions
  BY DEF Invariant, RowsInv
<1> QED
  BY <1>1, InvariantHolds, PTL

(* A session whose teacher opted out is never recorded.                    *)
THEOREM OptOutHolds == Spec => []OptOutRespected
<1>1. Invariant => OptOutRespected
  <2> SUFFICES ASSUME RowsInv PROVE OptOutRespected
    BY DEF Invariant
  <2>1. ASSUME NEW s \in Sessions, ~shouldRecord[s]
        PROVE  /\ recorderRef[s] = None /\ recording[s] = "NONE"
               /\ \A e \in Egresses : egress[e].of # s
    BY <2>1 DEF RowsInv, RecordedInv, EgressInv, Recordable, None, Sessions
  <2> QED
    BY <2>1 DEF OptOutRespected
<1> QED
  BY <1>1, InvariantHolds, PTL

(* Two sessions of a lesson are never open at once, for any number of      *)
(* them, of starts, ends and early joins that overlap.                     *)
THEOREM OneSessionOpen == Spec => []OneOpen
<1>1. Invariant => OneOpen
  BY DEF Invariant, RowsInv
<1> QED
  BY <1>1, InvariantHolds, PTL

(* Live.tla implements SessionLedger.tla: one open session at a time, each *)
(* followed to its one and only outcome, with the recorder it was given.   *)
THEOREM LiveImplementsLedger == Spec => ImplementsSessionLedger
<1>1. Init => Ledger!Init
  BY DEF Init, Ledger!Init, Phase
<1>2. Invariant /\ [Next]_vars => [Ledger!Next]_(Ledger!ledgerVars)
  BY InvariantStep DEF Good, LedgerStep, Ledger!ledgerVars
<1> QED
  BY <1>1, <1>2, InvariantHolds, PTL DEF Spec, ImplementsSessionLedger, Ledger!Spec
=============================================================================
