-------------------------- MODULE EnrollmentLedger --------------------------
(***************************************************************************)
(* What the enrollment module promises for a student's place in a group:   *)
(* an application is decided once, either way; only an approval creates    *)
(* the enrollment, and only the first one does; an enrollment that was     *)
(* taken back stays so, and neither a rejection nor a new application      *)
(* touches it.                                                             *)
(***************************************************************************)
CONSTANT Places

VARIABLES request, enrollment

ledgerVars == <<request, enrollment>>

Init ==
  /\ request = [p \in Places |-> "NONE"]
  /\ enrollment = [p \in Places |-> "NONE"]

Ask(p, answer) == request' = [request EXCEPT ![p] = answer]
Hold(p, state) == enrollment' = [enrollment EXCEPT ![p] = state]

Apply(p)  == Ask(p, "PENDING") /\ UNCHANGED enrollment
Reject(p) == request[p] = "PENDING" /\ Ask(p, "REJECTED") /\ UNCHANGED enrollment
Revoke(p) == enrollment[p] = "APPROVED" /\ Hold(p, "REVOKED") /\ UNCHANGED request

Approve(p) ==
  /\ request[p] = "PENDING"
  /\ Ask(p, "APPROVED")
  /\ \/ enrollment[p] = "NONE" /\ Hold(p, "APPROVED")
     \/ enrollment[p] # "NONE" /\ UNCHANGED enrollment

Next == \E p \in Places : Apply(p) \/ Approve(p) \/ Reject(p) \/ Revoke(p)

Spec == Init /\ [][Next]_ledgerVars
=============================================================================
