------------------------------- MODULE Payme -------------------------------
(***************************************************************************)
(* The Payme webhook and the rows it keeps in step: payment transactions,  *)
(* invoices, enrollment requests, subscriptions and the outbox. Payme may  *)
(* repeat, reorder and overlap its calls; each call runs in a worker, one  *)
(* step per await, and a database transaction takes effect at its commit   *)
(* (READ COMMITTED: what a transaction read earlier may be stale by then,  *)
(* only a conditional update is certain). The other writers of the shared  *)
(* rows, the billing service and the enrollment module, interleave freely. *)
(***************************************************************************)
EXTENDS SubscriptionStates

CONSTANTS
  Workers,           \* webhook calls the API serves at the same time
  Payments,          \* paymeId values
  Invoices,          \* invoice identities
  Groups, Students,  \* a course place is a group and a student
  Subs, Teachers, Owner,
  About              \* what each invoice charges for: a place or a subscription

Places == Groups \X Students

ASSUME OwnerAssumption == Owner \in [Subs -> Teachers]
ASSUME AboutAssumption == About \in [Invoices -> Places \cup Subs]
ASSUME KindsAssumption == Places \cap Subs = {}

None == "none"
ASSUME NoneAssumption == None \notin Payments \cup Invoices \cup Workers

VARIABLES
  payState, payInvoice,         \* PaymeTransaction: state, account.invoiceId
  performedBy, canceledBy,      \* who wrote performTime and cancelTime
  invStatus, invTx,             \* Invoice: status, paymeTxId
  reqStatus,                    \* EnrollmentRequest of a place
  profiles,                     \* students that have a StudentProfile row
  subs,                         \* Subscription status
  outbox,                       \* idempotency keys <<topic, payment>>
  call                          \* what each worker is doing

rows == <<payState, payInvoice, performedBy, canceledBy, invStatus, invTx,
          reqStatus, profiles, subs, outbox>>
vars == <<payState, payInvoice, performedBy, canceledBy, invStatus, invTx,
          reqStatus, profiles, subs, outbox, call>>

Ledger == INSTANCE SubscriptionLedger

(* Nothing writes the state PENDING of a payment, or REFUNDED of an invoice. *)
PayStates == {"NONE", "CREATED", "PAID", "CANCELED", "CANCELED_AFTER_PAY"}
InvoiceStates == {"NONE", "PENDING", "PAID", "CANCELED"}
RequestStates == {"NONE", "PENDING_APPROVAL", "APPROVED", "REJECTED"}
Topics == {"payment.succeeded", "payment.failed"}

Working == {"create.lookup", "create.insert", "create.winner",
            "perform.sub", "perform.commit", "perform.reread",
            "cancel.commit", "cancel.reread"}
Answering == {"create.answer", "perform.answer", "cancel.answer"}

(* seen: the state a worker read or, once it is answering, the state it    *)
(* puts in the answer; by: whose performTime or cancelTime the answer has. *)
CallType == [at   : {"idle"} \cup Working \cup Answering,
             pay  : Payments \cup {None},
             inv  : Invoices \cup {None},
             seen : PayStates \cup Statuses,
             by   : Workers \cup {None}]

TypeOK ==
  /\ payState \in [Payments -> PayStates]
  /\ payInvoice \in [Payments -> Invoices \cup {None}]
  /\ performedBy \in [Payments -> Workers \cup {None}]
  /\ canceledBy \in [Payments -> Workers \cup {None}]
  /\ invStatus \in [Invoices -> InvoiceStates]
  /\ invTx \in [Invoices -> Payments \cup {None}]
  /\ reqStatus \in [Places -> RequestStates]
  /\ profiles \subseteq Students
  /\ subs \in [Subs -> Statuses \cup {"NONE"}]
  /\ outbox \subseteq Topics \X Payments
  /\ call \in [Workers -> CallType]
  /\ \A w \in Workers : call[w].at = "idle" <=> call[w].pay = None

Idle == [at |-> "idle", pay |-> None, inv |-> None, seen |-> "NONE", by |-> None]

Init ==
  /\ payState = [p \in Payments |-> "NONE"]
  /\ payInvoice = [p \in Payments |-> None]
  /\ performedBy = [p \in Payments |-> None]
  /\ canceledBy = [p \in Payments |-> None]
  /\ invStatus = [i \in Invoices |-> "NONE"]
  /\ invTx = [i \in Invoices |-> None]
  /\ reqStatus = [s \in Places |-> "NONE"]
  /\ profiles = {}
  /\ subs = [s \in Subs |-> "NONE"]
  /\ outbox = {}
  /\ call = [w \in Workers |-> Idle]

-----------------------------------------------------------------------------
Become(w, state) == call' = [call EXCEPT ![w] = state]
Goto(w, step) == Become(w, [call[w] EXCEPT !.at = step])

(* A call ends; an error answer tells Payme no state. Faulty variant: what *)
(* the call was about is kept.                                             *)
Finish_KeepsCall(w) == Goto(w, "idle")
Finish(w) == Become(w, Idle)

Answer(w, step, p, st, by) ==
  Become(w, [at |-> step, pay |-> p, inv |-> None, seen |-> st, by |-> by])

Emit(topic, p) == outbox' = outbox \cup {<<topic, p>>}

Charges(p) == About[payInvoice[p]]

(* checkout: a new PENDING invoice, for a course any time, for a           *)
(* subscription only while it is open. Nothing looks for an earlier one.   *)
Checkout(i) ==
  /\ invStatus[i] = "NONE"
  /\ About[i] \in Subs => subs[About[i]] \in NonTerminal
  /\ invStatus' = [invStatus EXCEPT ![i] = "PENDING"]
  /\ UNCHANGED <<payState, payInvoice, performedBy, canceledBy, invTx,
                 reqStatus, profiles, subs, outbox, call>>

(* The checks of CheckPerformTransaction, which CreateTransaction repeats. *)
Payable(i) == invStatus[i] \notin {"NONE", "PAID", "CANCELED"}

-----------------------------------------------------------------------------
(* CreateTransaction: invoice, then an existing transaction, then insert.  *)
CreateRead(w, p, i) ==
  /\ call[w].at = "idle"
  /\ Payable(i)
  /\ Become(w, [Idle EXCEPT !.at = "create.lookup", !.pay = p, !.inv = i])
  /\ UNCHANGED rows

CreateLookup(w) ==
  /\ call[w].at = "create.lookup"
  /\ LET p == call[w].pay IN
       \/ payState[p] = "NONE" /\ Goto(w, "create.insert")
       \/ /\ payState[p] \in {"CREATED", "PAID"}
          /\ payInvoice[p] = call[w].inv
          /\ Answer(w, "create.answer", p, payState[p], None)
       \/ /\ payState[p] # "NONE"
          /\ payInvoice[p] # call[w].inv
               \/ payState[p] \in {"CANCELED", "CANCELED_AFTER_PAY"}
          /\ Finish(w)
  /\ UNCHANGED rows

(* The insert and the link to the invoice commit together. The invoice was *)
(* checked before the transaction and is not checked again.                *)
CreateInsert(w) ==
  /\ call[w].at = "create.insert"
  /\ LET p == call[w].pay
         i == call[w].inv IN
       \/ /\ payState[p] = "NONE"
          /\ payState' = [payState EXCEPT ![p] = "CREATED"]
          /\ payInvoice' = [payInvoice EXCEPT ![p] = i]
          /\ invTx' = [invTx EXCEPT ![i] = p]
          /\ Answer(w, "create.answer", p, "CREATED", None)
       \/ /\ payState[p] # "NONE"          \* P2002 on paymeId
          /\ Goto(w, "create.winner")
          /\ UNCHANGED <<payState, payInvoice, invTx>>
  /\ UNCHANGED <<performedBy, canceledBy, invStatus, reqStatus, profiles,
                 subs, outbox>>

CreateWinner(w) ==
  /\ call[w].at = "create.winner"
  /\ LET p == call[w].pay IN Answer(w, "create.answer", p, payState[p], None)
  /\ UNCHANGED rows

-----------------------------------------------------------------------------
(* PerformTransaction.                                                     *)
PerformRead(w, p) ==
  /\ call[w].at = "idle"
  /\ \/ /\ payState[p] = "PAID"
        /\ Answer(w, "perform.answer", p, "PAID", performedBy[p])
     \/ /\ payState[p] = "CREATED"
        /\ Become(w, [Idle EXCEPT !.pay = p,
             !.at = IF Charges(p) \in Subs THEN "perform.sub" ELSE "perform.commit"])
  /\ UNCHANGED rows

(* Inside the transaction: the subscription as it is committed now.        *)
PerformReadSub(w) ==
  /\ call[w].at = "perform.sub"
  /\ Become(w, [call[w] EXCEPT !.at = "perform.commit",
                               !.seen = subs[Charges(call[w].pay)]])
  /\ UNCHANGED rows

(* Faulty variants, used to test the properties: the invoice is left alone *)
(* or has to be PENDING, the subscription is written without looking at it *)
(* again, a failed update of it is ignored, or a missing profile drops the *)
(* request.                                                                *)
MarkPaid_Forgotten(i, p) == UNCHANGED <<invStatus, invTx>>

MarkPaid_Strict(i, p) ==
  /\ invStatus[i] = "PENDING"
  /\ invStatus' = [invStatus EXCEPT ![i] = "PAID"]
  /\ invTx' = [invTx EXCEPT ![i] = p]

ActivateSub_Stale(s, seen) ==
  /\ subs' = IF CanTransition(seen, "ACTIVE") THEN [subs EXCEPT ![s] = "ACTIVE"] ELSE subs
  /\ UNCHANGED reqStatus

ActivateSub_IgnoreConflict(s, seen) ==
  /\ subs' = IF CanTransition(seen, "ACTIVE") /\ subs[s] = seen
             THEN [subs EXCEPT ![s] = "ACTIVE"] ELSE subs
  /\ UNCHANGED reqStatus

UpsertRequest_SkipsMissingProfile(place) ==
  /\ reqStatus' = IF reqStatus[place] = "NONE" /\ place[2] \in profiles
                  THEN [reqStatus EXCEPT ![place] = "PENDING_APPROVAL"]
                  ELSE reqStatus
  /\ UNCHANGED subs

(* invoiceRepository.markPaid: a conditional update whose miss is a warning. *)
MarkPaid(i, p) ==
  IF invStatus[i] = "PENDING"
  THEN /\ invStatus' = [invStatus EXCEPT ![i] = "PAID"]
       /\ invTx' = [invTx EXCEPT ![i] = p]
  ELSE UNCHANGED <<invStatus, invTx>>

(* The enrollmentRequest upsert: a new row waits for approval, an old one  *)
(* keeps its status. The row needs the student's profile (foreign key).    *)
UpsertRequest(place) ==
  /\ reqStatus[place] = "NONE" => place[2] \in profiles
  /\ reqStatus' = IF reqStatus[place] = "NONE"
                  THEN [reqStatus EXCEPT ![place] = "PENDING_APPROVAL"]
                  ELSE reqStatus
  /\ UNCHANGED subs

(* Activation of the subscription, conditional on the status just read.    *)
ActivateSub(s, seen) ==
  /\ IF CanTransition(seen, "ACTIVE")
     THEN subs[s] = seen /\ subs' = [subs EXCEPT ![s] = "ACTIVE"]
     ELSE UNCHANGED subs
  /\ UNCHANGED reqStatus

(* Faulty variant: the payment row is updated whatever its state is now.   *)
PerformCommit_NoPrecondition(w) ==
  /\ call[w].at = "perform.commit"
  /\ LET p == call[w].pay IN
       /\ payState' = [payState EXCEPT ![p] = "PAID"]
       /\ performedBy' = [performedBy EXCEPT ![p] = w]
       /\ MarkPaid(payInvoice[p], p)
       /\ IF Charges(p) \in Subs THEN ActivateSub(Charges(p), call[w].seen)
                                 ELSE UpsertRequest(Charges(p))
       /\ Emit("payment.succeeded", p)
       /\ Answer(w, "perform.answer", p, "PAID", w)
  /\ UNCHANGED <<payInvoice, canceledBy, profiles>>

(* The transaction commits: payment, invoice, effect and event together.   *)
PerformCommit(w) ==
  /\ call[w].at = "perform.commit"
  /\ LET p == call[w].pay IN
       /\ payState[p] = "CREATED"
       /\ payState' = [payState EXCEPT ![p] = "PAID"]
       /\ performedBy' = [performedBy EXCEPT ![p] = w]
       /\ MarkPaid(payInvoice[p], p)
       /\ IF Charges(p) \in Subs THEN ActivateSub(Charges(p), call[w].seen)
                                 ELSE UpsertRequest(Charges(p))
       /\ Emit("payment.succeeded", p)
       /\ Answer(w, "perform.answer", p, "PAID", w)
  /\ UNCHANGED <<payInvoice, canceledBy, profiles>>

(* RaceLostError: the payment left CREATED since it was read.              *)
PerformRaceLost(w) ==
  /\ call[w].at = "perform.commit"
  /\ payState[call[w].pay] # "CREATED"
  /\ Goto(w, "perform.reread")
  /\ UNCHANGED rows

(* Any other failure inside the transaction rolls all of it back: the      *)
(* subscription moved since it was read, or the student has no profile.    *)
PerformRollback(w) ==
  /\ call[w].at = "perform.commit"
  /\ LET p == call[w].pay IN
       /\ payState[p] = "CREATED"
       /\ IF Charges(p) \in Subs
          THEN CanTransition(call[w].seen, "ACTIVE") /\ subs[Charges(p)] # call[w].seen
          ELSE reqStatus[Charges(p)] = "NONE" /\ Charges(p)[2] \notin profiles
  /\ Finish(w)
  /\ UNCHANGED rows

PerformReread(w) ==
  /\ call[w].at = "perform.reread"
  /\ LET p == call[w].pay IN
       IF payState[p] = "PAID"
       THEN Answer(w, "perform.answer", p, "PAID", performedBy[p])
       ELSE Finish(w)
  /\ UNCHANGED rows

-----------------------------------------------------------------------------
(* CancelTransaction.                                                      *)
CancelRead(w, p) ==
  /\ call[w].at = "idle"
  /\ \/ /\ payState[p] \in {"CANCELED", "CANCELED_AFTER_PAY"}
        /\ Answer(w, "cancel.answer", p, payState[p], canceledBy[p])
     \/ /\ payState[p] \in {"CREATED", "PAID"}
        /\ Become(w, [Idle EXCEPT !.at = "cancel.commit", !.pay = p,
                                  !.seen = payState[p]])
  /\ UNCHANGED rows

(* Before payment the invoice is canceled too and payment.failed emitted;  *)
(* after payment nothing but the transaction row changes.                  *)
CancelCommit(w) ==
  /\ call[w].at = "cancel.commit"
  /\ LET p == call[w].pay
         i == payInvoice[p]
         next == IF call[w].seen = "CREATED" THEN "CANCELED" ELSE "CANCELED_AFTER_PAY" IN
       /\ payState[p] = call[w].seen
       /\ payState' = [payState EXCEPT ![p] = next]
       /\ canceledBy' = [canceledBy EXCEPT ![p] = w]
       /\ IF next = "CANCELED"
          THEN /\ invStatus' = [invStatus EXCEPT ![i] = IF @ = "PENDING" THEN "CANCELED" ELSE @]
               /\ Emit("payment.failed", p)
          ELSE UNCHANGED <<invStatus, outbox>>
       /\ Answer(w, "cancel.answer", p, next, w)
  /\ UNCHANGED <<payInvoice, performedBy, invTx, reqStatus, profiles, subs>>

CancelRaceLost(w) ==
  /\ call[w].at = "cancel.commit"
  /\ payState[call[w].pay] # call[w].seen
  /\ Goto(w, "cancel.reread")
  /\ UNCHANGED rows

CancelReread(w) ==
  /\ call[w].at = "cancel.reread"
  /\ LET p == call[w].pay IN
       IF payState[p] \in {"CANCELED", "CANCELED_AFTER_PAY"}
       THEN Answer(w, "cancel.answer", p, payState[p], canceledBy[p])
       ELSE Finish(w)
  /\ UNCHANGED rows

-----------------------------------------------------------------------------
(* The answer arrives, or is lost; a call is cut off by a database error,  *)
(* a timeout or a restart, its open transaction with it. Payme then calls  *)
(* again, which any idle worker may serve.                                 *)
Deliver(w) ==
  /\ call[w].at \in Answering
  /\ Finish(w)
  /\ UNCHANGED rows

CutOff(w) ==
  /\ call[w].at \in Working
  /\ Finish(w)
  /\ UNCHANGED rows

-----------------------------------------------------------------------------
(* The other writers of the shared rows.                                   *)

(* startTrial, transition() and the cron, see Subscriptions.tla.           *)
SubscriptionWriters ==
  /\ Ledger!Next
  /\ UNCHANGED <<payState, payInvoice, performedBy, canceledBy, invStatus,
                 invTx, reqStatus, profiles, outbox, call>>

(* createRequest (re)opens a request and makes sure the profile exists;    *)
(* the teacher approves or rejects a waiting one.                          *)
RequestWriters(place) ==
  /\ \/ /\ reqStatus' = [reqStatus EXCEPT ![place] = "PENDING_APPROVAL"]
        /\ profiles' = profiles \cup {place[2]}
     \/ /\ reqStatus[place] = "PENDING_APPROVAL"
        /\ \E d \in {"APPROVED", "REJECTED"} :
             reqStatus' = [reqStatus EXCEPT ![place] = d]
        /\ UNCHANGED profiles
  /\ UNCHANGED <<payState, payInvoice, performedBy, canceledBy, invStatus,
                 invTx, subs, outbox, call>>

(* updateProfile of a student.                                             *)
SaveProfile(st) ==
  /\ profiles' = profiles \cup {st}
  /\ UNCHANGED <<payState, payInvoice, performedBy, canceledBy, invStatus,
                 invTx, reqStatus, subs, outbox, call>>

-----------------------------------------------------------------------------
WorkerStep(w) ==
  \/ CreateLookup(w) \/ CreateInsert(w) \/ CreateWinner(w)
  \/ PerformReadSub(w) \/ PerformCommit(w) \/ PerformRaceLost(w)
  \/ PerformRollback(w) \/ PerformReread(w)
  \/ CancelCommit(w) \/ CancelRaceLost(w) \/ CancelReread(w)
  \/ Deliver(w) \/ CutOff(w)

Next ==
  \/ \E w \in Workers, p \in Payments :
       \/ \E i \in Invoices : CreateRead(w, p, i)
       \/ PerformRead(w, p)
       \/ CancelRead(w, p)
  \/ \E w \in Workers : WorkerStep(w)
  \/ \E i \in Invoices : Checkout(i)
  \/ SubscriptionWriters
  \/ \E place \in Places : RequestWriters(place)
  \/ \E st \in Students : SaveProfile(st)

Spec == Init /\ [][Next]_vars

(* Payme repeats a PerformTransaction that was not answered, an instance   *)
(* that is up finishes or loses what it started, and not every repeat of   *)
(* the same call is cut off, or finds the subscription moved, right before *)
(* its commit.                                                             *)
FairSpec ==
  /\ Spec
  /\ \A p \in Payments : /\ SF_vars(\E w \in Workers : PerformRead(w, p))
                         /\ SF_vars(\E w \in Workers : call[w].pay = p /\ PerformReadSub(w))
                         /\ SF_vars(\E w \in Workers : call[w].pay = p /\ PerformCommit(w))
  /\ \A w \in Workers : WF_vars(WorkerStep(w))

-----------------------------------------------------------------------------
Settled == {"PAID", "CANCELED_AFTER_PAY"}

PaymentsOf(i) == {p \in Payments : payState[p] # "NONE" /\ payInvoice[p] = i}

(* An invoice and the payments made on it tell one story: while it is      *)
(* PENDING none of them is settled or canceled; once it is PAID one of     *)
(* them brought the money; if it is CANCELED one of them was canceled.     *)
InvoiceMatchesPayments ==
  \A i \in Invoices :
    /\ invStatus[i] = "NONE" => PaymentsOf(i) = {}
    /\ invStatus[i] = "PENDING" => \A p \in PaymentsOf(i) : payState[p] = "CREATED"
    /\ invStatus[i] = "PAID" => \E p \in PaymentsOf(i) : payState[p] \in Settled
    /\ invStatus[i] = "CANCELED" => \E p \in PaymentsOf(i) : payState[p] = "CANCELED"

(* The events agree with the payments: payment.succeeded if and only if    *)
(* the money came, payment.failed if and only if it never will.            *)
EventsMatchPayments ==
  \A p \in Payments :
    /\ <<"payment.succeeded", p>> \in outbox <=> payState[p] \in Settled
    /\ <<"payment.failed", p>> \in outbox <=> payState[p] = "CANCELED"

(* Requirement 4.4: a repeated or concurrent call for the same paymeId is  *)
(* given the first call's result. An answer that is under way carries the  *)
(* perform_time or cancel_time of the row, however late it is delivered.   *)
AgreesWithRow(c) ==
  /\ c.at = "perform.answer" =>
       payState[c.pay] \in Settled /\ c.by = performedBy[c.pay]
  /\ c.at = "cancel.answer" =>
       payState[c.pay] = c.seen /\ c.by = canceledBy[c.pay]
RepeatsAgree == \A w \in Workers : AgreesWithRow(call[w])

(* Taking the money has its effect in the same commit, although the        *)
(* subscription was read before it: a trial or a grace period that the     *)
(* worker read is over, and a place has its request. Only a subscription   *)
(* that fell behind after it was read as ACTIVE may be left PAST_DUE.      *)
PaymentTakesEffect ==
  [][\A w \in Workers :
       LET p == call[w].pay
           s == Charges(p) IN
         /\ call[w].at = "perform.commit"
         /\ payState[p] = "CREATED" /\ payState'[p] = "PAID" /\ performedBy'[p] = w
         => IF s \in Subs
           THEN \/ subs'[s] \notin {"TRIAL", "PAST_DUE"}
                \/ call[w].seen = "ACTIVE" /\ subs'[s] = "PAST_DUE"
           ELSE reqStatus'[s] # "NONE"]_vars

(* And only the money has this effect: of all the steps a call takes, only *)
(* the commit that settles a payment moves a subscription or a request, of *)
(* what this payment is for, and as those modules expect of a payment: a   *)
(* trial or a grace period becomes ACTIVE, a missing request is created.   *)
JustPaid(x) ==
  \E p \in Payments : payState[p] = "CREATED" /\ payState'[p] = "PAID" /\ Charges(p) = x

EffectIsPaid ==
  [][call' # call =>
       /\ \A s \in Subs : subs'[s] # subs[s] =>
            subs[s] \in {"TRIAL", "PAST_DUE"} /\ subs'[s] = "ACTIVE" /\ JustPaid(s)
       /\ \A place \in Places : reqStatus'[place] # reqStatus[place] =>
            reqStatus[place] = "NONE" /\ reqStatus'[place] = "PENDING_APPROVAL" /\ JustPaid(place)]_vars

(* A transaction Payme keeps performing does not hang: once the student    *)
(* has a profile it is settled or canceled, even if the invoice is gone,   *)
(* even if calls are cut off and the subscription keeps moving.            *)
PaymentsSettle ==
  \A p \in Payments :
    /\ payState[p] = "CREATED"
    /\ Charges(p) \in Places => Charges(p)[2] \in profiles
    ~> payState[p] # "CREATED"

(* The webhook moves subscriptions along the edges of the state machine    *)
(* only: a late payment never reopens a subscription that ended.           *)
ImplementsSubscriptionLedger == Ledger!Spec

(* The webhook keeps the promise of PaymentLedger.tla.                     *)
Claims == {<<call[w].pay, call[w].seen>> : w \in {x \in Workers : call[x].at \in Answering}}
EventsOn(topic) == {p \in Payments : <<topic, p>> \in outbox}

Book == INSTANCE PaymentLedger WITH
          state <- payState, claims <- Claims,
          succeeded <- EventsOn("payment.succeeded"),
          failed <- EventsOn("payment.failed")
ImplementsPaymentLedger == Book!Spec

-----------------------------------------------------------------------------
(* What the requirements, the design and comments say and the code does    *)
(* not do.                                                                 *)

(* Requirement 4.2: PerformTransaction sets PaymeTransaction = PAID and    *)
(* Invoice = PAID in one transaction. Of two transactions on one invoice   *)
(* the second finds it PAID or CANCELED, warns, and takes the money.       *)
PerformMarksInvoice ==
  [][\A p \in Payments :
       payState[p] = "CREATED" /\ payState'[p] = "PAID" =>
         LET i == payInvoice[p] IN invStatus[i] = "PENDING" /\ invStatus'[i] = "PAID"]_vars
=============================================================================
