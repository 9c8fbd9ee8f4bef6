-------------------------- MODULE SubmissionLedger --------------------------
(***************************************************************************)
(* What the homework module promises about one submission: it goes from    *)
(* the draft to the teacher and back on the edges of its lifecycle only,   *)
(* a score comes with a grade and is never taken away, and it goes into    *)
(* review only by a precheck that left its feedback.                       *)
(***************************************************************************)
VARIABLES status, scored, prechecked

ledgerVars == <<status, scored, prechecked>>

Init == status = "NONE" /\ ~scored /\ ~prechecked

Move(sources, target) == status \in sources /\ status' = target

Open   == Move({"NONE"}, "DRAFT") /\ UNCHANGED <<scored, prechecked>>
Submit == Move({"DRAFT", "RETURNED"}, "SUBMITTED") /\ UNCHANGED <<scored, prechecked>>
Return == Move({"IN_REVIEW", "GRADED"}, "RETURNED") /\ UNCHANGED <<scored, prechecked>>

Grade ==
  /\ Move({"SUBMITTED", "IN_REVIEW", "GRADED"}, "GRADED")
  /\ scored'
  /\ UNCHANGED prechecked

(* A precheck that comes too late leaves its feedback and moves nothing.   *)
Precheck ==
  /\ \/ Move({"SUBMITTED"}, "IN_REVIEW")
     \/ status \in {"IN_REVIEW", "GRADED", "RETURNED"} /\ UNCHANGED status
  /\ prechecked'
  /\ UNCHANGED scored

Next == Open \/ Submit \/ Grade \/ Return \/ Precheck

Spec == Init /\ [][Next]_ledgerVars
=============================================================================
