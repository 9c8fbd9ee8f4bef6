----------------------------- MODULE EventLedger -----------------------------
(***************************************************************************)
(* What the outbox promises for an event.  Once published it is handed to  *)
(* the queues of its route, from the first to the last and perhaps many    *)
(* times, never to another.  It is done when all of them have it; it may   *)
(* be discarded when it has no route or after so many mishaps; and what is *)
(* done or discarded never waits again, though a slow dispatcher may turn  *)
(* the one into the other.                                                 *)
(***************************************************************************)
EXTENDS Naturals

CONSTANTS Events,
          RouteOf,    \* of each event: the sequence of its queues
          Patience    \* mishaps before an event that has a route is discarded

VARIABLES event, given, mishaps

ledgerVars == <<event, given, mishaps>>

Init ==
  /\ event = [k \in Events |-> "NONE"]
  /\ given = [k \in Events |-> {}]
  /\ mishaps = [k \in Events |-> 0]

Has(k, x) == RouteOf[k][x] \in given[k]
Become(k, s) == event' = [event EXCEPT ![k] = s]

Publish(k) ==
  /\ event[k] = "NONE"
  /\ Become(k, "PENDING")
  /\ UNCHANGED <<given, mishaps>>

HandOver(k, x) ==
  /\ event[k] # "NONE"
  /\ \A y \in 1..(x - 1) : Has(k, y)
  /\ given' = [given EXCEPT ![k] = @ \cup {RouteOf[k][x]}]
  /\ UNCHANGED <<event, mishaps>>

Done(k) ==
  /\ event[k] # "NONE"
  /\ DOMAIN RouteOf[k] # {}
  /\ \A x \in DOMAIN RouteOf[k] : Has(k, x)
  /\ Become(k, "DISPATCHED")
  /\ UNCHANGED <<given, mishaps>>

NoRoute(k) ==
  /\ event[k] # "NONE"
  /\ DOMAIN RouteOf[k] = {}
  /\ Become(k, "DEAD_LETTER")
  /\ UNCHANGED <<given, mishaps>>

Mishap(k) ==
  /\ event[k] # "NONE"
  /\ DOMAIN RouteOf[k] # {}
  /\ mishaps' = [mishaps EXCEPT ![k] = IF @ < Patience THEN @ + 1 ELSE @]
  /\ \/ UNCHANGED event
     \/ mishaps'[k] >= Patience /\ Become(k, "DEAD_LETTER")
  /\ UNCHANGED given

Next ==
  \E k \in Events :
    \/ Publish(k) \/ Done(k) \/ NoRoute(k) \/ Mishap(k)
    \/ \E x \in DOMAIN RouteOf[k] : HandOver(k, x)

Spec == Init /\ [][Next]_ledgerVars
=============================================================================
