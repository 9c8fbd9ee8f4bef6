-------------------------- MODULE EnrollmentProofs --------------------------
(***************************************************************************)
(* Proofs about Enrollment.tla, for any number of places and calls.        *)
(***************************************************************************)
EXTENDS Enrollment, TLAPS

-----------------------------------------------------------------------------
(* A call holds a place unless it is idle.                                 *)
LEMMA CallTypes ==
  ASSUME TypeOK, NEW c \in Callers
  PROVE  /\ call[c] \in Calls
         /\ call[c].at # "idle" =>
              /\ call[c].at \in Steps
              /\ call[c].p \in Places
              /\ call[c].inv \in BOOLEAN
BY DEF TypeOK, Calls, Idle, Steps

LEMMA CallMoves ==
  ASSUME TypeOK, NEW c \in Callers
  PROVE  /\ Done(c) => call' \in [Callers -> Calls]
         /\ \A step \in Steps, p \in Places, inv \in BOOLEAN :
              Goto(c, step, p, inv) => call' \in [Callers -> Calls]
BY DEF TypeOK, Calls, Done, Goto

LEMMA TypeInit == Init => TypeOK
BY DEF Init, TypeOK, Requests, Enrollments, Roles, Calls

LEMMA TypeStep == TypeOK /\ [Next]_vars => TypeOK'
<1> SUFFICES ASSUME TypeOK, [Next]_vars PROVE TypeOK'
  OBVIOUS
<1> USE DEF rows, chat, Requests, Enrollments, Roles, Topics, SetRequest, Emit
<1>1. ASSUME NEW c \in Callers, NEW p \in Places, CreateRead(c, p) PROVE TypeOK'
  BY <1>1, CallMoves DEF TypeOK, CreateRead, Steps
<1>2. ASSUME NEW c \in Callers, NEW p \in Places, DecideRead(c, p) PROVE TypeOK'
  <2>1. PICK step \in {"approve", "reject"} : Goto(c, step, p, p \in invoiced)
    BY <1>2 DEF DecideRead
  <2>2. step \in Steps /\ (p \in invoiced) \in BOOLEAN
    BY DEF Steps
  <2>3. call' \in [Callers -> Calls]
    BY <2>1, <2>2, CallMoves
  <2> QED
    BY <1>2, <2>3 DEF TypeOK, DecideRead
<1>3. ASSUME NEW c \in Callers, CreateCommit(c) PROVE TypeOK'
  BY <1>3, CallMoves, CallTypes DEF TypeOK, CreateCommit
<1>4. ASSUME NEW c \in Callers, ApproveCommit(c) PROVE TypeOK'
  <2>1. call[c].p \in Places /\ call' \in [Callers -> Calls]
    BY <1>4, CallMoves, CallTypes DEF ApproveCommit
  <2>2. enrollment' \in [Places -> Enrollments] /\ linked' \subseteq Places
    BY <1>4, <2>1 DEF TypeOK, ApproveCommit, Enroll
  <2>3. role' \in [Places -> Roles] /\ present' \subseteq Places
    BY <1>4, <2>1 DEF TypeOK, ApproveCommit, Seat
  <2>4. request' \in [Places -> Requests] /\ outbox' \subseteq Topics \X Places
    BY <1>4, <2>1 DEF TypeOK, ApproveCommit
  <2>5. invoiced' \subseteq Places
    BY <1>4 DEF TypeOK, ApproveCommit
  <2> QED
    BY <2>1, <2>2, <2>3, <2>4, <2>5 DEF TypeOK
<1>5. ASSUME NEW c \in Callers, RejectCommit(c) PROVE TypeOK'
  BY <1>5, CallMoves, CallTypes DEF TypeOK, RejectCommit
<1>6. ASSUME NEW c \in Callers, GiveUp(c) PROVE TypeOK'
  BY <1>6, CallMoves DEF TypeOK, GiveUp
<1>7. ASSUME NEW p \in Places, PlaceStep(p) PROVE TypeOK'
  BY <1>7 DEF TypeOK, PlaceStep, PaymentLands, Revoke, ChatAdd, ChatRemove, ChatSetRole,
              Seat, Unseat
<1>8. CASE UNCHANGED vars
  BY <1>8 DEF TypeOK, vars
<1> QED
  BY <1>1, <1>2, <1>3, <1>4, <1>5, <1>6, <1>7, <1>8 DEF Next, CallStep

(* Every variable keeps its type.                                          *)
THEOREM TypeCorrect == Spec => []TypeOK
BY TypeInit, TypeStep, PTL DEF Spec

-----------------------------------------------------------------------------
(* Rows, seats and events are inductive with two more facts: a call that   *)
(* read an invoice read one that stays linked to the request, and a call   *)
(* that decides has a request to decide about.                             *)
CallsInv == \A c \in Callers : call[c].inv => call[c].p \in invoiced

Invariant == TypeOK /\ RowsAgree /\ CallsInv

(* What RowsAgree says of one place.                                       *)
Agrees(p) ==
  /\ p \in invoiced \/ <<"requested", p>> \in outbox <=> request[p] # "NONE"
  /\ request[p] = "REJECTED" => <<"rejected", p>> \in outbox
  /\ request[p] = "APPROVED" => enrollment[p] # "NONE"
  /\ <<"approved", p>> \in outbox <=> enrollment[p] # "NONE"
  /\ <<"revoked", p>> \in outbox <=> enrollment[p] = "REVOKED"
  /\ enrollment[p] # "NONE" => role[p] # "NONE"
  /\ p \in linked => p \in invoiced /\ enrollment[p] # "NONE"

LEMMA AgreesAll == RowsAgree <=> \A p \in Places : Agrees(p)
BY DEF RowsAgree, Agrees

LEMMA InvariantInit == Init => Invariant
BY TypeInit, AgreesAll DEF Init, Invariant, Agrees, RowsAgree, CallsInv, Idle

(* Invoices are only added, and calls only take what is there.             *)
LEMMA CallsStep ==
  ASSUME TypeOK, CallsInv, Next
  PROVE  CallsInv'
<1> USE DEF rows, chat
<1>1. invoiced \subseteq invoiced'
  BY DEF Next, CallStep, PlaceStep, CreateRead, DecideRead, CreateCommit, ApproveCommit,
         RejectCommit, GiveUp, PaymentLands, Revoke, ChatAdd, ChatRemove, ChatSetRole
<1>2. ASSUME NEW c \in Callers, Done(c) PROVE CallsInv'
  BY <1>1, <1>2 DEF CallsInv, Done, Idle, TypeOK
<1>3. ASSUME NEW c \in Callers, NEW p \in Places, NEW step, NEW inv,
             Goto(c, step, p, inv), inv => p \in invoiced
      PROVE  CallsInv'
  BY <1>1, <1>3 DEF CallsInv, Goto, TypeOK
<1>4. ASSUME NEW c \in Callers, CallStep(c) PROVE CallsInv'
  BY <1>2, <1>4 DEF CallStep, CreateCommit, ApproveCommit, RejectCommit, GiveUp
<1>5. ASSUME NEW c \in Callers, NEW p \in Places, CreateRead(c, p) \/ DecideRead(c, p)
      PROVE  CallsInv'
  <2>1. CASE CreateRead(c, p)
    BY <1>3, <2>1 DEF CreateRead
  <2>2. CASE DecideRead(c, p)
    <3>1. PICK step \in {"approve", "reject"} : Goto(c, step, p, p \in invoiced)
      BY <2>2 DEF DecideRead
    <3>2. \A d \in Callers : call'[d].inv => call'[d].p \in invoiced'
      <4> SUFFICES ASSUME NEW d \in Callers, call'[d].inv PROVE call'[d].p \in invoiced'
        OBVIOUS
      <4>1. CASE d = c
        BY <1>1, <3>1, <4>1 DEF Goto, TypeOK
      <4>2. CASE d # c
        BY <1>1, <3>1, <4>2 DEF CallsInv, Goto, TypeOK
      <4> QED
        BY <4>1, <4>2
    <3> QED
      BY <3>2 DEF CallsInv
  <2> QED
    BY <1>5, <2>1, <2>2
<1>6. ASSUME NEW p \in Places, PlaceStep(p) PROVE CallsInv'
  BY <1>1, <1>6 DEF CallsInv, PlaceStep, PaymentLands, Revoke, ChatAdd, ChatRemove, ChatSetRole
<1> QED
  BY <1>4, <1>5, <1>6 DEF Next

LEMMA AgreeStep ==
  ASSUME Invariant, Next
  PROVE  RowsAgree'
<1> SUFFICES ASSUME NEW q \in Places PROVE Agrees(q)'
  BY AgreesAll DEF Agrees, RowsAgree
<1> USE DEF Agrees, rows, chat, SetRequest, Emit
<1>0. TypeOK /\ Agrees(q)
  BY AgreesAll DEF Invariant
<1>1. ASSUME NEW c \in Callers, NEW p \in Places, CreateRead(c, p) \/ DecideRead(c, p)
      PROVE  Agrees(q)'
  BY <1>0, <1>1 DEF CreateRead, DecideRead
<1>2. ASSUME NEW c \in Callers, CreateCommit(c) PROVE Agrees(q)'
  <2>1. call[c].p \in Places
    BY <1>0, <1>2, CallTypes DEF CreateCommit
  <2> QED
    BY <1>0, <1>2, <2>1 DEF CreateCommit, TypeOK
<1>3. ASSUME NEW c \in Callers, ApproveCommit(c) PROVE Agrees(q)'
  <2>1. call[c].p \in Places /\ (call[c].inv => call[c].p \in invoiced)
    BY <1>0, <1>3, CallTypes DEF ApproveCommit, Invariant, CallsInv
  <2>2. CASE q = call[c].p
    <3>1. Agrees(call[c].p) /\ request[call[c].p] = "PENDING"
      BY <1>0, <1>3, <2>2 DEF ApproveCommit
    <3>2. /\ request'[q] = "APPROVED"
          /\ enrollment'[q] # "NONE"
          /\ enrollment'[q] = "REVOKED" <=> enrollment[q] = "REVOKED"
          /\ role'[q] # "NONE"
      BY <1>0, <1>3, <2>1, <2>2 DEF ApproveCommit, Enroll, Seat, TypeOK
    <3>3. /\ outbox' = outbox \cup {<<"approved", q>>}
          /\ invoiced' = invoiced
          /\ q \in linked' => q \in linked \/ q \in invoiced
      BY <1>3, <2>1, <2>2 DEF ApproveCommit, Enroll
    <3>4. /\ <<"approved", q>> \in outbox'
          /\ \A topic : topic # "approved" => (<<topic, q>> \in outbox' <=> <<topic, q>> \in outbox)
      BY <3>3
    <3>5. /\ q \in invoiced \/ <<"requested", q>> \in outbox
          /\ <<"revoked", q>> \in outbox <=> enrollment[q] = "REVOKED"
          /\ q \in linked => q \in invoiced
      BY <1>0, <2>2, <3>1
    <3> QED
      BY <3>2, <3>3, <3>4, <3>5
  <2>3. CASE q # call[c].p
    <3>1. /\ request'[q] = request[q] /\ enrollment'[q] = enrollment[q] /\ role'[q] = role[q]
          /\ q \in linked' <=> q \in linked
          /\ invoiced' = invoiced
      BY <1>0, <1>3, <2>1, <2>3 DEF ApproveCommit, Enroll, Seat, TypeOK
    <3>2. \A topic : <<topic, q>> \in outbox' <=> <<topic, q>> \in outbox
      BY <1>3, <2>3 DEF ApproveCommit
    <3> QED
      BY <1>0, <3>1, <3>2
  <2> QED
    BY <2>2, <2>3
<1>4. ASSUME NEW c \in Callers, RejectCommit(c) PROVE Agrees(q)'
  <2>1. call[c].p \in Places
    BY <1>0, <1>4, CallTypes DEF RejectCommit
  <2> QED
    BY <1>0, <1>4, <2>1 DEF RejectCommit, TypeOK
<1>5. ASSUME NEW c \in Callers, GiveUp(c) PROVE Agrees(q)'
  BY <1>0, <1>5 DEF GiveUp
<1>6. ASSUME NEW p \in Places, PlaceStep(p) PROVE Agrees(q)'
  <2>1. CASE PaymentLands(p)
    BY <1>0, <2>1 DEF PaymentLands, TypeOK
  <2>2. CASE Revoke(p)
    BY <1>0, <2>2 DEF Revoke, Unseat, TypeOK
  <2>3. CASE ChatAdd(p) \/ ChatRemove(p) \/ ChatSetRole(p)
    BY <1>0, <2>3 DEF ChatAdd, ChatRemove, ChatSetRole, Seat, Unseat, TypeOK
  <2> QED
    BY <1>6, <2>1, <2>2, <2>3 DEF PlaceStep
<1> QED
  BY <1>1, <1>2, <1>3, <1>4, <1>5, <1>6 DEF Next, CallStep

LEMMA InvariantStep == Invariant /\ [Next]_vars => Invariant'
<1> SUFFICES ASSUME Invariant, [Next]_vars PROVE Invariant'
  OBVIOUS
<1>1. CASE Next
  BY <1>1, TypeStep, CallsStep, AgreeStep DEF Invariant
<1>2. CASE UNCHANGED vars
  BY <1>2, TypeStep DEF Invariant, RowsAgree, CallsInv, vars, rows, chat
<1> QED
  BY <1>1, <1>2

LEMMA InvariantHolds == Spec => []Invariant
BY InvariantInit, InvariantStep, PTL DEF Spec

(* Requests, enrollments, invoices, seats and events tell one story.       *)
THEOREM RowsAlwaysAgree == Spec => []RowsAgree
BY InvariantHolds, PTL DEF Invariant

-----------------------------------------------------------------------------
LEMMA LedgerStep ==
  ASSUME TypeOK, Next
  PROVE  [Ledger!Next]_(Ledger!ledgerVars)
<1> USE DEF rows, chat, SetRequest, Ledger!ledgerVars
<1>1. ASSUME NEW c \in Callers, CreateCommit(c) PROVE Ledger!Next
  <2>1. call[c].p \in Places /\ Ledger!Apply(call[c].p)
    BY <1>1, CallTypes DEF CreateCommit, Ledger!Apply, Ledger!Ask
  <2> QED
    BY <2>1 DEF Ledger!Next
<1>2. ASSUME NEW c \in Callers, ApproveCommit(c) PROVE Ledger!Next
  <2>1. call[c].p \in Places
    BY <1>2, CallTypes DEF ApproveCommit
  <2>2. enrollment[call[c].p] # "NONE" => UNCHANGED enrollment
    BY <1>2, <2>1 DEF ApproveCommit, Enroll, TypeOK
  <2>3. enrollment[call[c].p] = "NONE" => Ledger!Hold(call[c].p, "APPROVED")
    BY <1>2, <2>1 DEF ApproveCommit, Enroll, Ledger!Hold, TypeOK
  <2>4. Ledger!Approve(call[c].p)
    BY <1>2, <2>1, <2>2, <2>3 DEF ApproveCommit, Ledger!Approve, Ledger!Ask
  <2> QED
    BY <2>1, <2>4 DEF Ledger!Next
<1>3. ASSUME NEW c \in Callers, RejectCommit(c) PROVE Ledger!Next
  <2>1. call[c].p \in Places /\ Ledger!Reject(call[c].p)
    BY <1>3, CallTypes DEF RejectCommit, Ledger!Reject, Ledger!Ask
  <2> QED
    BY <2>1 DEF Ledger!Next
<1>4. ASSUME NEW p \in Places, PaymentLands(p) PROVE [Ledger!Next]_(Ledger!ledgerVars)
  <2>1. CASE request[p] = "NONE"
    BY <1>4, <2>1 DEF PaymentLands, Ledger!Next, Ledger!Apply, Ledger!Ask
  <2>2. CASE request[p] # "NONE"
    BY <1>4, <2>2 DEF PaymentLands, TypeOK
  <2> QED
    BY <2>1, <2>2
<1>5. ASSUME NEW p \in Places, Revoke(p) PROVE Ledger!Next
  BY <1>5 DEF Revoke, Ledger!Next, Ledger!Revoke, Ledger!Hold
<1>6. ASSUME NEW c \in Callers, GiveUp(c) PROVE UNCHANGED Ledger!ledgerVars
  BY <1>6 DEF GiveUp
<1>7. ASSUME NEW c \in Callers, NEW p \in Places, CreateRead(c, p) \/ DecideRead(c, p)
      PROVE  UNCHANGED Ledger!ledgerVars
  BY <1>7 DEF CreateRead, DecideRead
<1>8. ASSUME NEW p \in Places, ChatAdd(p) \/ ChatRemove(p) \/ ChatSetRole(p)
      PROVE  UNCHANGED Ledger!ledgerVars
  BY <1>8 DEF ChatAdd, ChatRemove, ChatSetRole
<1> QED
  BY <1>1, <1>2, <1>3, <1>4, <1>5, <1>6, <1>7, <1>8 DEF Next, CallStep, PlaceStep

(* The module implements EnrollmentLedger.                                 *)
THEOREM EnrollmentImplementsLedger == Spec => ImplementsEnrollmentLedger
<1>1. Init => Ledger!Init
  BY DEF Init, Ledger!Init
<1>2. TypeOK /\ [Next]_vars => [Ledger!Next]_(Ledger!ledgerVars)
  BY LedgerStep DEF vars, rows, Ledger!ledgerVars
<1> QED
  BY <1>1, <1>2, TypeCorrect, PTL DEF Spec, ImplementsEnrollmentLedger, Ledger!Spec
=============================================================================
