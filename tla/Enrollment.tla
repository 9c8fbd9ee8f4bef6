----------------------------- MODULE Enrollment -----------------------------
(***************************************************************************)
(* A place is a student and a group. Per place there is one request row,   *)
(* one enrollment row and one seat in the chat of the group. Students      *)
(* apply or pay, teachers approve, reject and revoke, and the chat has     *)
(* handlers of its own that add and remove its members. A handler checks   *)
(* what it read before its transaction; other calls come in between.       *)
(***************************************************************************)
CONSTANTS
  Places,     \* pairs of a student and a group
  Callers,    \* API calls in flight
  None        \* no place

ASSUME NoneAssumption == None \notin Places

VARIABLES
  request,      \* status of the EnrollmentRequest, "PENDING" for PENDING_APPROVAL
  invoiced,     \* places whose request has an invoiceId
  enrollment,   \* status of the Enrollment
  linked,       \* places whose enrollment has an invoiceId
  role,         \* role column of the GroupChatMember, "NONE" without a row
  present,      \* places whose member row has removedAt = null
  outbox,       \* events, by topic and place
  call          \* what each call is doing

rows == <<request, invoiced, enrollment, linked>>
chat == <<role, present>>
vars == <<rows, chat, outbox, call>>

Requests == {"NONE", "PENDING", "APPROVED", "REJECTED"}
Enrollments == {"NONE", "APPROVED", "REVOKED"}
Roles == {"NONE", "MEMBER", "ADMIN"}
Topics == {"requested", "approved", "rejected", "revoked"}

(* at: where the call stands; inv: the invoice it read with the request.   *)
Idle == [at |-> "idle", p |-> None, inv |-> FALSE]
Steps == {"apply", "approve", "reject"}
Calls == {Idle} \cup [at : Steps, p : Places, inv : BOOLEAN]

TypeOK ==
  /\ request \in [Places -> Requests]
  /\ enrollment \in [Places -> Enrollments]
  /\ invoiced \subseteq Places
  /\ linked \subseteq Places
  /\ role \in [Places -> Roles]
  /\ present \subseteq Places
  /\ outbox \subseteq Topics \X Places
  /\ call \in [Callers -> Calls]

Init ==
  /\ request = [p \in Places |-> "NONE"]
  /\ enrollment = [p \in Places |-> "NONE"]
  /\ invoiced = {}
  /\ linked = {}
  /\ role = [p \in Places |-> "NONE"]
  /\ present = {}
  /\ outbox = {}
  /\ call = [c \in Callers |-> Idle]

Goto(c, step, p, inv) == call' = [call EXCEPT ![c] = [at |-> step, p |-> p, inv |-> inv]]

(* Faulty variant: the call stays where it is when it is over.             *)
Done_Forgets(c) == call' = [call EXCEPT ![c].p = None]
Done(c) == call' = [call EXCEPT ![c] = Idle]

(* The key of an event is its topic and the request, so that a repeated    *)
(* one is not inserted again; a revocation, keyed by its time, happens to  *)
(* a place once.                                                           *)
Emit(topic, p) == outbox' = outbox \cup {<<topic, p>>}

SetRequest(p, status) == request' = [request EXCEPT ![p] = status]

(* upsertMember: a row that exists keeps its role and is only re-opened.   *)
Seat(p) ==
  /\ role' = [role EXCEPT ![p] = IF @ = "NONE" THEN "MEMBER" ELSE @]
  /\ present' = present \cup {p}
Unseat(p) == present' = present \ {p} /\ UNCHANGED role

-----------------------------------------------------------------------------
(* createRequest: a student who holds the place is turned away. The row of *)
(* an earlier application, whatever became of it, is reset.                *)
CreateRead(c, p) ==
  /\ call[c].at = "idle"
  /\ enrollment[p] # "APPROVED"
  /\ Goto(c, "apply", p, FALSE)
  /\ UNCHANGED <<rows, chat, outbox>>

CreateCommit(c) ==
  /\ call[c].at = "apply"
  /\ SetRequest(call[c].p, "PENDING")
  /\ Emit("requested", call[c].p)
  /\ Done(c)
  /\ UNCHANGED <<invoiced, enrollment, linked, chat>>

(* The payment webhook links its invoice; it creates the request only if   *)
(* there is none.                                                          *)
PaymentLands(p) ==
  /\ SetRequest(p, IF request[p] = "NONE" THEN "PENDING" ELSE request[p])
  /\ invoiced' = invoiced \cup {p}
  /\ UNCHANGED <<enrollment, linked, chat, outbox, call>>

-----------------------------------------------------------------------------
(* approveRequest and rejectRequest load the request and look at its owner *)
(* only; its status is the precondition of the update.                     *)
DecideRead(c, p) ==
  /\ call[c].at = "idle"
  /\ request[p] # "NONE"
  /\ \E step \in {"approve", "reject"} : Goto(c, step, p, p \in invoiced)
  /\ UNCHANGED <<rows, chat, outbox>>

(* An enrollment that exists keeps its status; it may get the invoice.     *)
Enroll(p, inv) ==
  /\ enrollment' = [enrollment EXCEPT ![p] = IF @ = "NONE" THEN "APPROVED" ELSE @]
  /\ linked' = IF inv THEN linked \cup {p} ELSE linked

(* Faulty variant: the decision is not bound to a pending request.         *)
ApproveCommit_NoPrecondition(c) ==
  /\ call[c].at = "approve"
  /\ SetRequest(call[c].p, "APPROVED")
  /\ Enroll(call[c].p, call[c].inv)
  /\ Emit("approved", call[c].p)
  /\ Seat(call[c].p)
  /\ Done(c)
  /\ UNCHANGED invoiced

ApproveCommit(c) ==
  /\ call[c].at = "approve"
  /\ request[call[c].p] = "PENDING"
  /\ SetRequest(call[c].p, "APPROVED")
  /\ Enroll(call[c].p, call[c].inv)
  /\ Emit("approved", call[c].p)
  /\ Seat(call[c].p)
  /\ Done(c)
  /\ UNCHANGED invoiced

RejectCommit(c) ==
  /\ call[c].at = "reject"
  /\ request[call[c].p] = "PENDING"
  /\ SetRequest(call[c].p, "REJECTED")
  /\ Emit("rejected", call[c].p)
  /\ Done(c)
  /\ UNCHANGED <<invoiced, enrollment, linked, chat>>

(* 409: somebody else decided; or the call is cut off before its commit.   *)
GiveUp(c) ==
  /\ call[c].at # "idle"
  /\ Done(c)
  /\ UNCHANGED <<rows, chat, outbox>>

(* Faulty variant: the enrollment is set to REVOKED whatever it was.       *)
Revoke_AnyStatus(p) ==
  /\ enrollment' = [enrollment EXCEPT ![p] = "REVOKED"]
  /\ Unseat(p)
  /\ Emit("revoked", p)
  /\ UNCHANGED <<request, invoiced, linked, call>>

(* revokeEnrollment: one transaction, 404 unless the place is held. The    *)
(* request keeps its status.                                               *)
Revoke(p) ==
  /\ enrollment[p] = "APPROVED"
  /\ enrollment' = [enrollment EXCEPT ![p] = "REVOKED"]
  /\ Unseat(p)
  /\ Emit("revoked", p)
  /\ UNCHANGED <<request, invoiced, linked, call>>

-----------------------------------------------------------------------------
(* The chat: a member is added by an admin, removed or leaves, and gets    *)
(* another role. Nothing of this looks at the enrollment. The students are *)
(* never the group's OWNER.                                                *)
ChatAdd(p) == Seat(p) /\ UNCHANGED <<rows, outbox, call>>
ChatRemove(p) == p \in present /\ Unseat(p) /\ UNCHANGED <<rows, outbox, call>>

ChatSetRole(p) ==
  /\ p \in present
  /\ \E r \in {"MEMBER", "ADMIN"} : role' = [role EXCEPT ![p] = r]
  /\ UNCHANGED <<rows, present, outbox, call>>

-----------------------------------------------------------------------------
CallStep(c) == CreateCommit(c) \/ ApproveCommit(c) \/ RejectCommit(c) \/ GiveUp(c)

PlaceStep(p) ==
  PaymentLands(p) \/ Revoke(p) \/ ChatAdd(p) \/ ChatRemove(p) \/ ChatSetRole(p)

Next ==
  \/ \E c \in Callers : CallStep(c) \/ \E p \in Places : CreateRead(c, p) \/ DecideRead(c, p)
  \/ \E p \in Places : PlaceStep(p)

Spec == Init /\ [][Next]_vars

-----------------------------------------------------------------------------
(* Requests, enrollments, invoices, seats and events tell one story, for   *)
(* all races of decisions, applications, payments and revocations: who has *)
(* paid has a request; a status that was reached by a decision has its     *)
(* event and the other way round; an approved request has an enrollment,   *)
(* which was given a seat and shows an invoice only if its request does.    *)
RowsAgree ==
  \A p \in Places :
    /\ p \in invoiced \/ <<"requested", p>> \in outbox <=> request[p] # "NONE"
    /\ request[p] = "REJECTED" => <<"rejected", p>> \in outbox
    /\ request[p] = "APPROVED" => enrollment[p] # "NONE"
    /\ <<"approved", p>> \in outbox <=> enrollment[p] # "NONE"
    /\ <<"revoked", p>> \in outbox <=> enrollment[p] = "REVOKED"
    /\ enrollment[p] # "NONE" => role[p] # "NONE"
    /\ p \in linked => p \in invoiced /\ enrollment[p] # "NONE"

(* The module keeps the promise of EnrollmentLedger.tla.                   *)
Ledger == INSTANCE EnrollmentLedger
ImplementsEnrollmentLedger == Ledger!Spec

-----------------------------------------------------------------------------
(* What comments say and the code does not do.                             *)

(* approveRequest, by its comment, upserts an APPROVED enrollment. The     *)
(* update branch of the upsert leaves the status alone: a student who was  *)
(* revoked, applied again and is approved stays REVOKED.                   *)
ApprovalEnrolls ==
  [][\A p \in Places :
       request[p] = "PENDING" /\ request'[p] = "APPROVED" => enrollment'[p] = "APPROVED"]_vars
=============================================================================
