--------------------------- MODULE PaymentLedger ---------------------------
(***************************************************************************)
(* What the Payme webhook promises about one payment, whatever calls are   *)
(* repeated, raced or cut off: it is opened once, then either settled or   *)
(* dropped, never both; a settled payment has exactly one payment.succeeded*)
(* event and a dropped one exactly one payment.failed event, written in    *)
(* the same instant; and a caller is only ever told the state the payment  *)
(* really has or has gone through.                                         *)
(***************************************************************************)
CONSTANTS Payments

VARIABLES
  state,      \* [Payments -> PaymentStates]
  succeeded,  \* payments with a payment.succeeded event
  failed,     \* payments with a payment.failed event
  claims      \* answers <<payment, state>> under way to a caller

vars == <<state, succeeded, failed, claims>>

PaymentStates == {"NONE", "CREATED", "PAID", "CANCELED", "CANCELED_AFTER_PAY"}

(* The states a payment in a given state has been in.                      *)
Past == [st \in PaymentStates |->
  {s \in PaymentStates \ {"NONE"} :
     \/ s = st
     \/ s = "CREATED" /\ st # "NONE"
     \/ s = "PAID" /\ st = "CANCELED_AFTER_PAY"}]

Init ==
  /\ state = [p \in Payments |-> "NONE"]
  /\ succeeded = {} /\ failed = {} /\ claims = {}

(* A step of the ledger may also start or end any number of truthful       *)
(* answers; the books themselves move one payment at a time.               *)
Answers == \A c \in claims' : c[1] \in Payments /\ c[2] \in Past[state'[c[1]]]

Step(p, from, to) == state[p] = from /\ state' = [state EXCEPT ![p] = to]

Open(p)   == Step(p, "NONE", "CREATED") /\ UNCHANGED <<succeeded, failed>>
Settle(p) == /\ Step(p, "CREATED", "PAID")
             /\ succeeded' = succeeded \cup {p}
             /\ UNCHANGED failed
Drop(p)   == /\ Step(p, "CREATED", "CANCELED")
             /\ failed' = failed \cup {p}
             /\ UNCHANGED succeeded
Refund(p) == Step(p, "PAID", "CANCELED_AFTER_PAY") /\ UNCHANGED <<succeeded, failed>>
Talk      == UNCHANGED <<state, succeeded, failed>>

Next == Answers /\ (Talk \/ \E p \in Payments : Open(p) \/ Settle(p) \/ Drop(p) \/ Refund(p))

Spec == Init /\ [][Next]_vars
=============================================================================
