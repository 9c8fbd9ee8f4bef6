------------------------- MODULE SubscriptionLedger -------------------------
(***************************************************************************)
(* What the subscriptions table promises, whoever writes it: rows are      *)
(* opened as trials, each later change of a row follows one edge of the    *)
(* state machine, and a teacher never has two rows that are still open.    *)
(* Subscriptions.tla (the billing service and its cron) and Payme.tla (the *)
(* payment webhook) are both shown to implement this module.               *)
(***************************************************************************)
EXTENDS SubscriptionStates

CONSTANTS Subs,      \* identities of subscription rows
          Teachers,
          Owner      \* [Subs -> Teachers], the teacher a row belongs to

VARIABLE subs        \* the status of each row, "NONE" before its insert

LiveSubs(t) == {s \in Subs : Owner[s] = t /\ subs[s] \in NonTerminal}

Init == subs = [s \in Subs |-> "NONE"]

(* Insert of a trial row. The partial unique index over the open statuses  *)
(* refuses it while the teacher has another open row.                      *)
Open(s) ==
  /\ subs[s] = "NONE"
  /\ LiveSubs(Owner[s]) = {}
  /\ subs' = [subs EXCEPT ![s] = "TRIAL"]

Move(s, to) ==
  /\ CanTransition(subs[s], to)
  /\ subs' = [subs EXCEPT ![s] = to]

Next == \E s \in Subs : Open(s) \/ \E to \in Statuses : Move(s, to)

Spec == Init /\ [][Next]_subs

-----------------------------------------------------------------------------
TypeOK == subs \in [Subs -> Statuses \cup {"NONE"}]

(* At most one open subscription per teacher, the rule of the partial      *)
(* unique index subscriptions_teacher_active_uniq.                         *)
OneLivePerTeacher ==
  \A s, r \in Subs :
    /\ Owner[s] = Owner[r]
    /\ subs[s] \in NonTerminal
    /\ subs[r] \in NonTerminal
    => s = r
=============================================================================
