------------------------------ MODULE MCOutbox ------------------------------
(* An instance of Outbox for TLC: one event that fans out to two queues and *)
(* one that has no queue.                                                   *)
EXTENDS Outbox, TLC

FanOutAndUnlock ==
  [k \in Keys |-> IF k = 1 THEN "live.ended" ELSE "security.account_unlock_requested"]
=============================================================================
