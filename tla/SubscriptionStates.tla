------------------------- MODULE SubscriptionStates -------------------------
(***************************************************************************)
(* The pure state machine of a teacher's subscription: which status may    *)
(* follow which, which statuses are final, which ones still count as the   *)
(* teacher's current subscription, and which ones open the publish gate.   *)
(* "NONE" stands for a row that has not been inserted yet.                 *)
(***************************************************************************)

Statuses == {"TRIAL", "ACTIVE", "PAST_DUE", "CANCELED", "EXPIRED"}

Transitions ==
  [TRIAL    |-> {"ACTIVE", "EXPIRED", "CANCELED"},
   ACTIVE   |-> {"PAST_DUE", "CANCELED"},
   PAST_DUE |-> {"ACTIVE", "EXPIRED", "CANCELED"},
   EXPIRED  |-> {},
   CANCELED |-> {}]

CanTransition(from, to) == from \in Statuses /\ to \in Transitions[from]

NonTerminal == {"TRIAL", "ACTIVE", "PAST_DUE"}
IsTerminal(st) == st \in {"EXPIRED", "CANCELED"}

(* Access to publishing: a trial counts, the grace period does not.        *)
IsActive(st) == st \in {"TRIAL", "ACTIVE"}
=============================================================================
