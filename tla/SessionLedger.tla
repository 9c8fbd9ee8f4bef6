---------------------------- MODULE SessionLedger ----------------------------
(***************************************************************************)
(* What the live module promises for one lesson: its sessions follow each  *)
(* other, at most one of them open; each is waited for, held, ended and    *)
(* then recorded or marked as failed, once and for good; and the recorder  *)
(* a session was given is never exchanged.                                 *)
(***************************************************************************)
CONSTANTS Sessions, Recorders, None

VARIABLES phase, recorder

ledgerVars == <<phase, recorder>>

Open == {"SCHEDULED", "LIVE"}
Over == {"ENDED", "RECORDED", "RECORDING_FAILED"}

Init ==
  /\ phase = [s \in Sessions |-> "NONE"]
  /\ recorder = [s \in Sessions |-> None]

NobodyElse(s) == \A t \in Sessions \ {s} : phase[t] \notin Open

Become(s, p) == phase' = [phase EXCEPT ![s] = p] /\ UNCHANGED recorder

Wait(s)   == phase[s] = "NONE" /\ NobodyElse(s) /\ Become(s, "SCHEDULED")
Start(s)  == phase[s] \in {"NONE", "SCHEDULED"} /\ NobodyElse(s) /\ Become(s, "LIVE")
End(s)    == phase[s] = "LIVE" /\ Become(s, "ENDED")
Attach(s) == phase[s] = "ENDED" /\ recorder[s] # None /\ Become(s, "RECORDED")
Fail(s)   == phase[s] = "ENDED" /\ Become(s, "RECORDING_FAILED")

Assign(s) ==
  /\ phase[s] \in {"LIVE"} \cup Over
  /\ recorder[s] = None
  /\ \E r \in Recorders : recorder' = [recorder EXCEPT ![s] = r]
  /\ UNCHANGED phase

Next ==
  \E s \in Sessions :
    Wait(s) \/ Start(s) \/ End(s) \/ Attach(s) \/ Fail(s) \/ Assign(s)

Spec == Init /\ [][Next]_ledgerVars
=============================================================================
