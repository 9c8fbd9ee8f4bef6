---------------------------- MODULE PaymeProofs ----------------------------
(***************************************************************************)
(* Proofs about Payme.tla, for any number of workers, payments, invoices,  *)
(* places and subscriptions.                                               *)
(***************************************************************************)
EXTENDS Payme, TLAPS

-----------------------------------------------------------------------------
(* Every variable keeps its type in every reachable state. A call record   *)
(* is well-formed if it has a payment exactly while it is not idle.        *)
WellFormed(c) == c \in CallType /\ (c.at = "idle" <=> c.pay = None)

LEMMA TypeInit == Init => TypeOK
BY DEF Init, TypeOK, Idle, CallType, PayStates, InvoiceStates, RequestStates,
       Statuses

(* The records the actions build are well-formed.                          *)
LEMMA IdleWellFormed == WellFormed(Idle)
BY DEF WellFormed, Idle, CallType, PayStates

LEMMA AnswerWellFormed ==
  ASSUME NEW p \in Payments, NEW at \in Answering, NEW st \in PayStates,
         NEW by \in Workers \cup {None}
  PROVE  WellFormed([at |-> at, pay |-> p, inv |-> None, seen |-> st, by |-> by])
BY NoneAssumption DEF WellFormed, CallType, Answering

LEMMA GotoWellFormed ==
  ASSUME NEW c, WellFormed(c), c.at # "idle", NEW at \in Working
  PROVE  WellFormed([c EXCEPT !.at = at])
BY DEF WellFormed, CallType, Working

LEMMA CallsWellFormed ==
  ASSUME TypeOK, NEW w \in Workers
  PROVE  /\ WellFormed(call[w])
         /\ call[w].at \in Working \cup Answering => call[w].pay \in Payments
BY DEF TypeOK, WellFormed, CallType, Working, Answering

(* A step that puts a well-formed record in a worker and keeps the types   *)
(* of the rows keeps the type invariant.                                   *)
RowTypes ==
  /\ payState \in [Payments -> PayStates]
  /\ payInvoice \in [Payments -> Invoices \cup {None}]
  /\ performedBy \in [Payments -> Workers \cup {None}]
  /\ canceledBy \in [Payments -> Workers \cup {None}]
  /\ invStatus \in [Invoices -> InvoiceStates]
  /\ invTx \in [Invoices -> Payments \cup {None}]
  /\ reqStatus \in [Places -> RequestStates]
  /\ profiles \subseteq Students
  /\ subs \in [Subs -> Statuses \cup {"NONE"}]
  /\ outbox \subseteq Topics \X Payments

LEMMA RowsTyped == TypeOK => RowTypes
BY DEF TypeOK, RowTypes

LEMMA RowsStay == RowTypes /\ UNCHANGED rows => RowTypes'
BY DEF RowTypes, rows

LEMMA BecomeKeepsTypes ==
  ASSUME TypeOK, RowTypes', NEW w \in Workers, NEW c, WellFormed(c), Become(w, c)
  PROVE  TypeOK'
BY DEF TypeOK, RowTypes, WellFormed, Become

(* What a call that is under way may rely on: rows that do not go away,    *)
(* and states that are not taken back.                                     *)
Reading == {"create.winner", "perform.sub", "perform.commit", "perform.reread",
            "cancel.commit", "cancel.reread"}
CallMatchesRows(c) ==
  /\ c.at \in {"create.lookup", "create.insert", "create.winner"} =>
       c.inv \in Invoices /\ invStatus[c.inv] # "NONE"
  /\ c.at \in Reading => payState[c.pay] # "NONE"
  /\ c.at = "perform.sub" => Charges(c.pay) \in Subs
  /\ c.at = "cancel.commit" => c.seen \in {"CREATED", "PAID"}
  /\ c.at \in Answering => c.seen \in Book!Past[payState[c.pay]]
  /\ c.at = "cancel.answer" => c.seen \in {"CANCELED", "CANCELED_AFTER_PAY"}
CallsMatchRows == \A w \in Workers : CallMatchesRows(call[w])

LEMMA TypeStep == TypeOK /\ CallsMatchRows /\ [Next]_vars => TypeOK'
<1> SUFFICES ASSUME TypeOK, CallsMatchRows, [Next]_vars PROVE TypeOK'
  OBVIOUS
<1> USE NoneAssumption
<1> RowTypes
  BY RowsTyped
<1>1. ASSUME NEW w \in Workers, NEW p \in Payments, NEW i \in Invoices,
             CreateRead(w, p, i)
      PROVE  TypeOK'
  <2>1. WellFormed([Idle EXCEPT !.at = "create.lookup", !.pay = p, !.inv = i])
    BY DEF WellFormed, Idle, CallType, Working, PayStates
  <2> QED
    BY <1>1, <2>1, RowsStay, BecomeKeepsTypes DEF CreateRead
<1>2. ASSUME NEW w \in Workers, NEW p \in Payments, PerformRead(w, p)
      PROVE  TypeOK'
  <2>1. CASE payState[p] = "PAID"
    <3>1. WellFormed([at |-> "perform.answer", pay |-> p, inv |-> None,
                      seen |-> "PAID", by |-> performedBy[p]])
      BY AnswerWellFormed DEF RowTypes, Answering, PayStates
    <3> QED
      BY <1>2, <2>1, <3>1, RowsStay, BecomeKeepsTypes DEF PerformRead, Answer
  <2>2. CASE payState[p] # "PAID"
    <3> DEFINE c == [Idle EXCEPT !.pay = p,
             !.at = IF Charges(p) \in Subs THEN "perform.sub" ELSE "perform.commit"]
    <3>1. WellFormed(c)
      BY DEF WellFormed, Idle, CallType, Working, PayStates
    <3>2. Become(w, c) /\ UNCHANGED rows
      BY <1>2, <2>2 DEF PerformRead
    <3> HIDE DEF c
    <3> QED
      BY <3>1, <3>2, RowsStay, BecomeKeepsTypes
  <2> QED
    BY <2>1, <2>2
<1>3. ASSUME NEW w \in Workers, NEW p \in Payments, CancelRead(w, p)
      PROVE  TypeOK'
  <2>1. CASE payState[p] \in {"CANCELED", "CANCELED_AFTER_PAY"}
    <3>1. WellFormed([at |-> "cancel.answer", pay |-> p, inv |-> None,
                      seen |-> payState[p], by |-> canceledBy[p]])
      BY AnswerWellFormed DEF RowTypes, Answering
    <3> QED
      BY <1>3, <2>1, <3>1, RowsStay, BecomeKeepsTypes DEF CancelRead, Answer
  <2>2. CASE payState[p] \notin {"CANCELED", "CANCELED_AFTER_PAY"}
    <3>1. WellFormed([Idle EXCEPT !.at = "cancel.commit", !.pay = p,
                                  !.seen = payState[p]])
      BY DEF WellFormed, Idle, CallType, Working, RowTypes
    <3> QED
      BY <1>3, <2>2, <3>1, RowsStay, BecomeKeepsTypes DEF CancelRead
  <2> QED
    BY <2>1, <2>2
<1>4. ASSUME NEW w \in Workers, NEW at \in Working,
             call[w].at # "idle", Goto(w, at), RowTypes'
      PROVE  TypeOK'
  BY <1>4, CallsWellFormed, GotoWellFormed, BecomeKeepsTypes DEF Goto
<1>5. ASSUME NEW w \in Workers, Finish(w), UNCHANGED rows PROVE TypeOK'
  BY <1>5, IdleWellFormed, RowsStay, BecomeKeepsTypes DEF Finish
<1>6. ASSUME NEW w \in Workers, NEW p \in Payments, NEW at \in Answering,
             NEW st \in PayStates, NEW by \in Workers \cup {None},
             Answer(w, at, p, st, by), RowTypes'
      PROVE  TypeOK'
  BY <1>6, AnswerWellFormed, BecomeKeepsTypes DEF Answer
<1>7. ASSUME NEW w \in Workers, CreateLookup(w) PROVE TypeOK'
  <2>1. call[w].at = "create.lookup" /\ call[w].pay \in Payments /\ RowTypes'
    BY <1>7, CallsWellFormed, RowsStay DEF CreateLookup, Working
  <2>2. payState[call[w].pay] \in PayStates
    BY <2>1 DEF RowTypes
  <2> QED
    BY <1>4, <1>5, <1>6, <1>7, <2>1, <2>2 DEF CreateLookup, Working, Answering
<1>8. ASSUME NEW w \in Workers, CreateInsert(w) PROVE TypeOK'
  <2>1. call[w].at = "create.insert" /\ call[w].pay \in Payments
    BY <1>8, CallsWellFormed DEF CreateInsert, Working
  <2>2. call[w].inv \in Invoices \cup {None}
    BY CallsWellFormed DEF WellFormed, CallType
  <2>3. RowTypes'
    BY <1>8, <2>1, <2>2 DEF CreateInsert, RowTypes, PayStates
  <2> QED
    BY <1>4, <1>6, <1>8, <2>1, <2>3 DEF CreateInsert, Working, Answering, PayStates
<1>9. ASSUME NEW w \in Workers, CreateWinner(w) PROVE TypeOK'
  <2>1. call[w].pay \in Payments /\ RowTypes'
    BY <1>9, CallsWellFormed, RowsStay DEF CreateWinner, Working
  <2> QED
    BY <1>6, <1>9, <2>1 DEF CreateWinner, Answering, RowTypes
<1>10. ASSUME NEW w \in Workers, PerformReadSub(w) PROVE TypeOK'
  <2> DEFINE c == [call[w] EXCEPT !.at = "perform.commit",
                                  !.seen = subs[Charges(call[w].pay)]]
  <2>1. call[w].at = "perform.sub" /\ Become(w, c) /\ RowTypes'
    BY <1>10, RowsStay DEF PerformReadSub
  <2>2. PICK p \in Payments : p = call[w].pay
    BY <2>1, CallsWellFormed DEF Working
  <2>3. Charges(p) \in Subs
    BY <2>1, <2>2 DEF CallsMatchRows, CallMatchesRows
  <2>4. subs[Charges(p)] \in PayStates \cup Statuses
    BY <2>3 DEF RowTypes, PayStates
  <2>5. WellFormed(c)
    BY <2>1, <2>2, <2>4, CallsWellFormed DEF WellFormed, CallType, Working
  <2> HIDE DEF c
  <2> QED
    BY <2>1, <2>5, BecomeKeepsTypes
<1>11. ASSUME NEW w \in Workers, PerformCommit(w) PROVE TypeOK'
  <2>1. PICK p \in Payments : p = call[w].pay
    BY <1>11, CallsWellFormed DEF PerformCommit, Working
  <2>2. RowTypes'
    <3>1. /\ payState' \in [Payments -> PayStates]
          /\ performedBy' \in [Payments -> Workers \cup {None}]
          /\ outbox' \subseteq Topics \X Payments
      BY <1>11, <2>1 DEF PerformCommit, RowTypes, PayStates, Emit, Topics
    <3>2. /\ invStatus' \in [Invoices -> InvoiceStates]
          /\ invTx' \in [Invoices -> Payments \cup {None}]
      BY <1>11, <2>1 DEF PerformCommit, RowTypes, MarkPaid, InvoiceStates
    <3>3. /\ reqStatus' \in [Places -> RequestStates]
          /\ subs' \in [Subs -> Statuses \cup {"NONE"}]
      BY <1>11, <2>1 DEF PerformCommit, RowTypes, ActivateSub, UpsertRequest,
                         RequestStates, Statuses
    <3> QED
      BY <1>11, <3>1, <3>2, <3>3 DEF PerformCommit, RowTypes
  <2> QED
    BY <1>6, <1>11, <2>1, <2>2 DEF PerformCommit, Answering, PayStates
<1>12. ASSUME NEW w \in Workers, PerformRaceLost(w) \/ CancelRaceLost(w) PROVE TypeOK'
  BY <1>4, <1>12, RowsStay DEF PerformRaceLost, CancelRaceLost, Working
<1>13. ASSUME NEW w \in Workers,
              PerformRollback(w) \/ Deliver(w) \/ CutOff(w)
       PROVE  TypeOK'
  BY <1>5, <1>13 DEF PerformRollback, Deliver, CutOff
<1>14. ASSUME NEW w \in Workers, PerformReread(w) \/ CancelReread(w) PROVE TypeOK'
  <2>1. PICK p \in Payments : p = call[w].pay
    BY <1>14, CallsWellFormed DEF PerformReread, CancelReread, Working
  <2>2. RowTypes' /\ payState[p] \in PayStates
        /\ performedBy[p] \in Workers \cup {None} /\ canceledBy[p] \in Workers \cup {None}
    BY <1>14, RowsStay DEF PerformReread, CancelReread, RowTypes
  <2> QED
    BY <1>5, <1>6, <1>14, <2>1, <2>2 DEF PerformReread, CancelReread, Answering, PayStates
<1>15. ASSUME NEW w \in Workers, CancelCommit(w) PROVE TypeOK'
  <2>1. PICK p \in Payments : p = call[w].pay
    BY <1>15, CallsWellFormed DEF CancelCommit, Working
  <2> DEFINE next == IF call[w].seen = "CREATED" THEN "CANCELED" ELSE "CANCELED_AFTER_PAY"
  <2>2. RowTypes'
    BY <1>15, <2>1 DEF CancelCommit, RowTypes, PayStates, InvoiceStates, Emit, Topics
  <2>3. next \in PayStates /\ Answer(w, "cancel.answer", p, next, w)
    BY <1>15, <2>1 DEF CancelCommit, PayStates
  <2> QED
    BY <1>6, <2>2, <2>3 DEF Answering
<1>16. ASSUME RowTypes', UNCHANGED call PROVE TypeOK'
  BY <1>16 DEF TypeOK, RowTypes
<1>17. ASSUME NEW i \in Invoices, Checkout(i) PROVE TypeOK'
  BY <1>16, <1>17 DEF Checkout, RowTypes, InvoiceStates
<1>18. ASSUME SubscriptionWriters PROVE TypeOK'
  <2>1. subs' \in [Subs -> Statuses \cup {"NONE"}]
    BY <1>18 DEF SubscriptionWriters, RowTypes, Ledger!Next, Ledger!Open,
                 Ledger!Move, Statuses, Ledger!Statuses
  <2> QED
    BY <1>16, <1>18, <2>1 DEF SubscriptionWriters, RowTypes
<1>19. ASSUME NEW place \in Places, RequestWriters(place) PROVE TypeOK'
  BY <1>16, <1>19 DEF RequestWriters, RowTypes, RequestStates, Places
<1>20. ASSUME NEW st \in Students, SaveProfile(st) PROVE TypeOK'
  BY <1>16, <1>20 DEF SaveProfile, RowTypes
<1>21. CASE UNCHANGED vars
  BY <1>16, <1>21, RowsStay DEF vars, rows
<1> QED
  BY <1>1, <1>2, <1>3, <1>7, <1>8, <1>9, <1>10, <1>11, <1>12, <1>13, <1>14,
     <1>15, <1>17, <1>18, <1>19, <1>20, <1>21 DEF Next, WorkerStep
-----------------------------------------------------------------------------
(* The rows about payments, and the steps that change them.                *)
PayRows == <<payState, payInvoice, performedBy, canceledBy, invStatus, outbox>>

LEMMA PayRowSteps ==
  [Next]_vars =>
    \/ UNCHANGED PayRows
    \/ \E i \in Invoices : Checkout(i)
    \/ \E w \in Workers : CreateInsert(w) \/ PerformCommit(w) \/ CancelCommit(w)
BY DEF Next, WorkerStep, vars, rows, PayRows, CreateRead, PerformRead, CancelRead,
       CreateLookup, CreateWinner, PerformReadSub, PerformRaceLost,
       PerformRollback, PerformReread, CancelRaceLost, CancelReread, Deliver,
       CutOff, SubscriptionWriters, RequestWriters, SaveProfile

PaymentsHaveInvoices ==
  \A p \in Payments : payState[p] = "NONE" <=> payInvoice[p] = None

RowInv == PaymentsHaveInvoices /\ EventsMatchPayments /\ InvoiceMatchesPayments

(* What no step takes back.                                                *)
Monotone ==
  /\ \A i \in Invoices : invStatus[i] # "NONE" => invStatus'[i] # "NONE"
  /\ \A p \in Payments :
       /\ payState[p] # "NONE" =>
            payState'[p] # "NONE" /\ payInvoice'[p] = payInvoice[p]
       /\ Book!Past[payState[p]] \subseteq Book!Past[payState'[p]]
       /\ payState[p] \in Settled =>
            payState'[p] \in Settled /\ performedBy'[p] = performedBy[p]
       /\ payState[p] \in {"CANCELED", "CANCELED_AFTER_PAY"} =>
            payState'[p] = payState[p] /\ canceledBy'[p] = canceledBy[p]

LEMMA PastFacts ==
  /\ Book!Past["NONE"] = {}
  /\ Book!Past["CREATED"] = {"CREATED"}
  /\ Book!Past["PAID"] = {"CREATED", "PAID"}
  /\ Book!Past["CANCELED"] = {"CREATED", "CANCELED"}
  /\ Book!Past["CANCELED_AFTER_PAY"] = {"CREATED", "PAID", "CANCELED_AFTER_PAY"}
BY DEF Book!Past, Book!PaymentStates

(* CreateInsert adds a CREATED payment to an invoice that exists.          *)
LEMMA InsertKeepsRows ==
  ASSUME TypeOK, CallsMatchRows, RowInv, NEW w \in Workers, CreateInsert(w)
  PROVE  RowInv' /\ Monotone
<1> DEFINE p == call[w].pay
           i == call[w].inv
<1>1. /\ p \in Payments /\ i \in Invoices /\ invStatus[i] # "NONE"
      /\ UNCHANGED <<performedBy, canceledBy, invStatus, outbox>>
  BY CallsWellFormed DEF CreateInsert, Working, CallsMatchRows, CallMatchesRows
<1>2. CASE UNCHANGED PayRows
  BY <1>2 DEF PayRows, RowInv, PaymentsHaveInvoices, EventsMatchPayments,
     InvoiceMatchesPayments, PaymentsOf, Monotone
<1>3. CASE /\ payState[p] = "NONE"
           /\ payState' = [payState EXCEPT ![p] = "CREATED"]
           /\ payInvoice' = [payInvoice EXCEPT ![p] = i]
  <2> HIDE DEF p, i
  <2>1. PaymentsHaveInvoices'
    BY <1>1, <1>3, NoneAssumption DEF RowInv, PaymentsHaveInvoices, TypeOK
  <2>2. EventsMatchPayments'
    BY <1>1, <1>3 DEF RowInv, EventsMatchPayments, TypeOK, Settled
  <2>3. InvoiceMatchesPayments'
    <3> SUFFICES ASSUME NEW j \in Invoices
                 PROVE /\ invStatus[j] = "NONE" => PaymentsOf(j)' = {}
                       /\ invStatus[j] = "PENDING" =>
                            \A q \in PaymentsOf(j)' : payState'[q] = "CREATED"
                       /\ invStatus[j] = "PAID" =>
                            \E q \in PaymentsOf(j)' : payState'[q] \in Settled
                       /\ invStatus[j] = "CANCELED" =>
                            \E q \in PaymentsOf(j)' : payState'[q] = "CANCELED"
      BY <1>1 DEF InvoiceMatchesPayments
    <3>1. \A q \in Payments \ {p} : payState'[q] = payState[q] /\ payInvoice'[q] = payInvoice[q]
      BY <1>3 DEF TypeOK
    <3>2. payState'[p] = "CREATED" /\ payInvoice'[p] = i
      BY <1>1, <1>3 DEF TypeOK
    <3> QED
      BY <1>1, <1>3, <3>1, <3>2 DEF RowInv, InvoiceMatchesPayments, PaymentsOf, Settled
  <2>4. Monotone
    BY <1>1, <1>3, PastFacts DEF Monotone, TypeOK, Settled
  <2> QED
    BY <2>1, <2>2, <2>3, <2>4 DEF RowInv
<1> QED
  BY <1>1, <1>2, <1>3 DEF CreateInsert, PayRows

(* PerformCommit takes a CREATED payment to PAID, and its invoice if it is *)
(* still PENDING.                                                          *)
LEMMA CommitKeepsRows ==
  ASSUME TypeOK, CallsMatchRows, RowInv, NEW w \in Workers, PerformCommit(w)
  PROVE  RowInv' /\ Monotone
<1>1. PICK p \in Payments : p = call[w].pay
  BY CallsWellFormed DEF PerformCommit, Working
<1> DEFINE i == payInvoice[p]
<1>2. /\ payState[p] = "CREATED"
      /\ payState' = [payState EXCEPT ![p] = "PAID"]
      /\ performedBy' = [performedBy EXCEPT ![p] = w]
      /\ outbox' = outbox \cup {<<"payment.succeeded", p>>}
      /\ UNCHANGED <<payInvoice, canceledBy>>
      /\ invStatus' = IF invStatus[i] = "PENDING"
                      THEN [invStatus EXCEPT ![i] = "PAID"] ELSE invStatus
  BY <1>1 DEF PerformCommit, Emit, MarkPaid
<1>3. i \in Invoices /\ invStatus[i] # "NONE" /\ p \in PaymentsOf(i)
  BY <1>2, NoneAssumption DEF RowInv, PaymentsHaveInvoices, InvoiceMatchesPayments,
     PaymentsOf, TypeOK
<1>4. /\ payState'[p] = "PAID"
      /\ \A q \in Payments \ {p} : payState'[q] = payState[q]
      /\ \A q \in Payments \ {p} : performedBy'[q] = performedBy[q]
      /\ \A j \in Invoices \ {i} : invStatus'[j] = invStatus[j]
      /\ invStatus'[i] = IF invStatus[i] = "PENDING" THEN "PAID" ELSE invStatus[i]
  BY <1>2, <1>3 DEF TypeOK
<1> HIDE DEF i
<1>5. PaymentsHaveInvoices'
  BY <1>2, <1>4 DEF RowInv, PaymentsHaveInvoices
<1>6. EventsMatchPayments'
  BY <1>2, <1>4 DEF RowInv, EventsMatchPayments, Settled
<1>7. InvoiceMatchesPayments'
  <2> SUFFICES ASSUME NEW j \in Invoices
               PROVE /\ invStatus'[j] = "NONE" => PaymentsOf(j)' = {}
                     /\ invStatus'[j] = "PENDING" =>
                          \A q \in PaymentsOf(j)' : payState'[q] = "CREATED"
                     /\ invStatus'[j] = "PAID" =>
                          \E q \in PaymentsOf(j)' : payState'[q] \in Settled
                     /\ invStatus'[j] = "CANCELED" =>
                          \E q \in PaymentsOf(j)' : payState'[q] = "CANCELED"
    BY DEF InvoiceMatchesPayments
  <2>1. PaymentsOf(j)' = PaymentsOf(j)
    BY <1>2, <1>4 DEF PaymentsOf
  <2>2. CASE j = i
    BY <1>2, <1>3, <1>4, <2>1, <2>2 DEF RowInv, InvoiceMatchesPayments, Settled, PaymentsOf
  <2>3. CASE j # i
    <3>1. p \notin PaymentsOf(j)
      BY <2>3 DEF PaymentsOf, i
    <3> QED
      BY <1>4, <2>1, <2>3, <3>1 DEF RowInv, InvoiceMatchesPayments, PaymentsOf
  <2> QED
    BY <2>2, <2>3
<1>8. Monotone
  BY <1>2, <1>4, PastFacts DEF Monotone, Settled
<1> QED
  BY <1>5, <1>6, <1>7, <1>8 DEF RowInv

(* CancelCommit drops a CREATED payment with its PENDING invoice, or marks *)
(* a PAID one as returned.                                                 *)
LEMMA CancelKeepsRows ==
  ASSUME TypeOK, CallsMatchRows, RowInv, NEW w \in Workers, CancelCommit(w)
  PROVE  RowInv' /\ Monotone
<1>1. PICK p \in Payments : p = call[w].pay
  BY CallsWellFormed DEF CancelCommit, Working
<1> DEFINE i == payInvoice[p]
           to == IF call[w].seen = "CREATED" THEN "CANCELED" ELSE "CANCELED_AFTER_PAY"
<1>2. /\ payState[p] = call[w].seen
      /\ call[w].seen \in {"CREATED", "PAID"}
      /\ payState' = [payState EXCEPT ![p] = to]
      /\ canceledBy' = [canceledBy EXCEPT ![p] = w]
      /\ UNCHANGED <<payInvoice, performedBy>>
      /\ IF to = "CANCELED"
         THEN /\ invStatus' = [invStatus EXCEPT ![i] = IF @ = "PENDING" THEN "CANCELED" ELSE @]
              /\ outbox' = outbox \cup {<<"payment.failed", p>>}
         ELSE UNCHANGED <<invStatus, outbox>>
  BY <1>1 DEF CancelCommit, Emit, CallsMatchRows, CallMatchesRows
<1>3. i \in Invoices /\ invStatus[i] # "NONE" /\ p \in PaymentsOf(i)
  <2>1. payState[p] # "NONE"
    BY <1>2
  <2> QED
    BY <2>1, NoneAssumption DEF RowInv, PaymentsHaveInvoices, InvoiceMatchesPayments,
       PaymentsOf, TypeOK
<1>4. /\ payState'[p] = to
      /\ \A q \in Payments \ {p} : payState'[q] = payState[q]
      /\ \A q \in Payments \ {p} : canceledBy'[q] = canceledBy[q]
      /\ \A j \in Invoices \ {i} : invStatus'[j] = invStatus[j]
      /\ invStatus'[i] = IF to = "CANCELED" /\ invStatus[i] = "PENDING"
                         THEN "CANCELED" ELSE invStatus[i]
  BY <1>2, <1>3 DEF TypeOK
<1>5. \/ payState[p] = "CREATED" /\ to = "CANCELED"
      \/ payState[p] = "PAID" /\ to = "CANCELED_AFTER_PAY"
  BY <1>2
<1> HIDE DEF i, to
<1>6. PaymentsHaveInvoices'
  BY <1>2, <1>4, <1>5 DEF RowInv, PaymentsHaveInvoices
<1>7. EventsMatchPayments'
  <2>1. CASE payState[p] = "CREATED" /\ to = "CANCELED"
    <3>1. outbox' = outbox \cup {<<"payment.failed", p>>} /\ payState'[p] = "CANCELED"
      BY <1>2, <1>4, <2>1
    <3> QED
      BY <1>4, <2>1, <3>1 DEF RowInv, EventsMatchPayments, Settled
  <2>2. CASE payState[p] = "PAID" /\ to = "CANCELED_AFTER_PAY"
    <3>1. outbox' = outbox /\ payState'[p] = "CANCELED_AFTER_PAY"
      BY <1>2, <1>4, <2>2
    <3> QED
      BY <1>4, <2>2, <3>1 DEF RowInv, EventsMatchPayments, Settled
  <2> QED
    BY <1>5, <2>1, <2>2
<1>8. InvoiceMatchesPayments'
  <2> SUFFICES ASSUME NEW j \in Invoices
               PROVE /\ invStatus'[j] = "NONE" => PaymentsOf(j)' = {}
                     /\ invStatus'[j] = "PENDING" =>
                          \A q \in PaymentsOf(j)' : payState'[q] = "CREATED"
                     /\ invStatus'[j] = "PAID" =>
                          \E q \in PaymentsOf(j)' : payState'[q] \in Settled
                     /\ invStatus'[j] = "CANCELED" =>
                          \E q \in PaymentsOf(j)' : payState'[q] = "CANCELED"
    BY DEF InvoiceMatchesPayments
  <2>1. PaymentsOf(j)' = PaymentsOf(j)
    BY <1>2, <1>4, <1>5 DEF PaymentsOf
  <2>2. CASE j = i
    BY <1>2, <1>3, <1>4, <1>5, <2>1, <2>2
       DEF RowInv, InvoiceMatchesPayments, Settled, PaymentsOf
  <2>3. CASE j # i
    <3>1. p \notin PaymentsOf(j)
      BY <2>3 DEF PaymentsOf, i
    <3> QED
      BY <1>4, <2>1, <2>3, <3>1 DEF RowInv, InvoiceMatchesPayments, PaymentsOf
  <2> QED
    BY <2>2, <2>3
<1>9. Monotone
  BY <1>2, <1>4, <1>5, PastFacts DEF Monotone, Settled
<1> QED
  BY <1>6, <1>7, <1>8, <1>9 DEF RowInv

(* Every step keeps the relations between rows and takes nothing back.     *)
LEMMA RowStep ==
  TypeOK /\ CallsMatchRows /\ RowInv /\ [Next]_vars => RowInv' /\ Monotone
<1> SUFFICES ASSUME TypeOK, CallsMatchRows, RowInv, [Next]_vars
             PROVE  RowInv' /\ Monotone
  OBVIOUS
<1>1. CASE UNCHANGED PayRows
  BY <1>1 DEF PayRows, RowInv, PaymentsHaveInvoices, EventsMatchPayments,
     InvoiceMatchesPayments, PaymentsOf, Monotone
<1>2. ASSUME NEW i \in Invoices, Checkout(i) PROVE RowInv' /\ Monotone
  <2>1. /\ UNCHANGED <<payState, payInvoice, performedBy, canceledBy, outbox>>
        /\ PaymentsOf(i) = {}
        /\ invStatus'[i] = "PENDING"
        /\ \A j \in Invoices \ {i} : invStatus'[j] = invStatus[j]
    BY <1>2 DEF Checkout, RowInv, InvoiceMatchesPayments, TypeOK
  <2>2. InvoiceMatchesPayments'
    BY <2>1 DEF RowInv, InvoiceMatchesPayments, PaymentsOf
  <2>3. Monotone
    BY <2>1 DEF Monotone
  <2> QED
    BY <2>1, <2>2, <2>3 DEF RowInv, PaymentsHaveInvoices, EventsMatchPayments
<1> QED
  BY <1>1, <1>2, PayRowSteps, InsertKeepsRows, CommitKeepsRows, CancelKeepsRows

-----------------------------------------------------------------------------
(* The calls. What is sound for a call record stays sound while the rows   *)
(* move on, so a step only has to be looked at for the worker that takes   *)
(* it.                                                                     *)
Sound(c) == CallMatchesRows(c) /\ AgreesWithRow(c)
CallsSound == \A w \in Workers : Sound(call[w])

LEMMA SoundStays ==
  ASSUME TypeOK, CallsSound, Monotone, NEW v \in Workers, call'[v] = call[v]
  PROVE  Sound(call[v])'
<1> DEFINE c == call[v]
<1>1. c.at \in Reading \cup Answering => c.pay \in Payments
  BY CallsWellFormed DEF Reading, Working, Answering
<1>2. Sound(c)
  BY DEF CallsSound
<1> HIDE DEF c
<1>3. c.inv \in Invoices /\ invStatus[c.inv] # "NONE" => invStatus'[c.inv] # "NONE"
  BY DEF Monotone
<1>4. c.at \in Reading => /\ payState'[c.pay] # "NONE"
                          /\ payInvoice'[c.pay] = payInvoice[c.pay]
  BY <1>1, <1>2 DEF Monotone, Sound, CallMatchesRows
<1>5. c.at \in Answering => c.seen \in Book!Past[payState'[c.pay]]
  BY <1>1, <1>2 DEF Monotone, Sound, CallMatchesRows
<1>6. /\ c.at = "perform.answer" =>
           payState'[c.pay] \in Settled /\ c.by = performedBy'[c.pay]
      /\ c.at = "cancel.answer" =>
           payState'[c.pay] = c.seen /\ c.by = canceledBy'[c.pay]
  BY <1>1, <1>2 DEF Monotone, Sound, CallMatchesRows, AgreesWithRow, Answering
<1>7. c.at = "perform.sub" => About[payInvoice'[c.pay]] \in Subs
  BY <1>2, <1>4 DEF Sound, CallMatchesRows, Charges, Reading
<1>8. call'[v] = c
  BY DEF c
<1> QED
  BY <1>2, <1>3, <1>4, <1>5, <1>6, <1>7, <1>8
     DEF Sound, CallMatchesRows, AgreesWithRow, Charges

LEMMA OneCallMoves ==
  ASSUME TypeOK, CallsSound, Monotone, NEW w \in Workers, NEW c, Become(w, c),
         Sound(call[w])'
  PROVE  CallsSound'
<1>1. \A v \in Workers \ {w} : call'[v] = call[v]
  BY DEF Become, TypeOK
<1> QED
  BY <1>1, SoundStays DEF CallsSound

LEMMA CallStays ==
  ASSUME TypeOK, CallsSound, Monotone, UNCHANGED call
  PROVE  CallsSound'
BY SoundStays DEF CallsSound

LEMMA FinishIsSound ==
  ASSUME TypeOK, NEW w \in Workers, Finish(w)
  PROVE  Sound(call[w])'
<1>1. call'[w] = Idle
  BY DEF Finish, Become, TypeOK
<1> QED
  BY <1>1 DEF Sound, CallMatchesRows, AgreesWithRow, Idle, Reading, Answering

(* An answer is sound if it tells what the row says at that moment.        *)
LEMMA AnswerIsSound ==
  ASSUME TypeOK, NEW w \in Workers, NEW p \in Payments, NEW at \in Answering,
         NEW st, NEW by, Answer(w, at, p, st, by),
         st \in Book!Past[payState'[p]],
         at = "perform.answer" => payState'[p] \in Settled /\ by = performedBy'[p],
         at = "cancel.answer" => /\ st \in {"CANCELED", "CANCELED_AFTER_PAY"}
                                 /\ payState'[p] = st /\ by = canceledBy'[p]
  PROVE  Sound(call[w])'
<1>1. call'[w] = [at |-> at, pay |-> p, inv |-> None, seen |-> st, by |-> by]
  BY DEF Answer, Become, TypeOK
<1> QED
  BY <1>1 DEF Sound, CallMatchesRows, AgreesWithRow, Reading, Answering

LEMMA OwnPast == \A st \in PayStates \ {"NONE"} : st \in Book!Past[st]
BY DEF Book!Past, Book!PaymentStates, PayStates

LEMMA CallStep ==
  TypeOK /\ CallsSound /\ RowInv /\ Monotone /\ [Next]_vars => CallsSound'
<1> SUFFICES ASSUME TypeOK, CallsSound, RowInv, Monotone, [Next]_vars
             PROVE  CallsSound'
  OBVIOUS
<1>1. ASSUME NEW w \in Workers, Sound(call[w])', NEW c, Become(w, c)
      PROVE  CallsSound'
  BY <1>1, OneCallMoves
<1>2. ASSUME NEW w \in Workers, Finish(w) PROVE CallsSound'
  BY <1>1, <1>2, FinishIsSound DEF Finish
<1>3. ASSUME NEW w \in Workers, Sound(call[w])', NEW at, Goto(w, at) PROVE CallsSound'
  BY <1>1, <1>3 DEF Goto
<1>4. ASSUME NEW w \in Workers, Sound(call[w])', NEW at, NEW p, NEW st, NEW by,
             Answer(w, at, p, st, by)
      PROVE  CallsSound'
  BY <1>1, <1>4 DEF Answer
<1>5. \A w \in Workers : WellFormed(call[w]) /\ Sound(call[w])
  BY CallsWellFormed DEF CallsSound
<1>6. ASSUME NEW w \in Workers, NEW p \in Payments, NEW i \in Invoices,
             CreateRead(w, p, i)
      PROVE  CallsSound'
  <2> DEFINE c == [Idle EXCEPT !.at = "create.lookup", !.pay = p, !.inv = i]
  <2>1. Become(w, c) /\ invStatus'[i] # "NONE"
    BY <1>6 DEF CreateRead, Payable, rows
  <2>2. c.at = "create.lookup" /\ c.pay = p /\ c.inv = i
    BY DEF Idle
  <2> HIDE DEF c
  <2>3. call'[w] = c
    BY <2>1 DEF Become, TypeOK
  <2>4. Sound(call[w])'
    BY <2>1, <2>2, <2>3 DEF Sound, CallMatchesRows, AgreesWithRow, Reading, Answering
  <2> QED
    BY <1>1, <2>1, <2>4
<1>7. ASSUME NEW w \in Workers, NEW p \in Payments, PerformRead(w, p)
      PROVE  CallsSound'
  <2>1. CASE payState[p] = "PAID"
    <3>1. Answer(w, "perform.answer", p, "PAID", performedBy[p]) /\ UNCHANGED rows
      BY <1>7, <2>1 DEF PerformRead
    <3>2. Sound(call[w])'
      BY <2>1, <3>1, AnswerIsSound, PastFacts DEF rows, Settled, Answering
    <3> QED
      BY <1>4, <3>1, <3>2
  <2>2. CASE payState[p] # "PAID"
    <3> DEFINE c == [Idle EXCEPT !.pay = p,
             !.at = IF Charges(p) \in Subs THEN "perform.sub" ELSE "perform.commit"]
    <3>1. Become(w, c) /\ UNCHANGED rows /\ payState[p] = "CREATED"
      BY <1>7, <2>2 DEF PerformRead
    <3>2. /\ c.pay = p
          /\ c.at \in {"perform.sub", "perform.commit"}
          /\ c.at = "perform.sub" => Charges(p) \in Subs
      BY DEF Idle
    <3> HIDE DEF c
    <3>3. call'[w] = c
      BY <3>1 DEF Become, TypeOK
    <3>4. Sound(call[w])'
      BY <3>1, <3>2, <3>3 DEF Sound, CallMatchesRows, AgreesWithRow, Answering,
         Charges, rows
    <3> QED
      BY <1>1, <3>1, <3>4
  <2> QED
    BY <2>1, <2>2
<1>8. ASSUME NEW w \in Workers, NEW p \in Payments, CancelRead(w, p)
      PROVE  CallsSound'
  <2>1. CASE payState[p] \in {"CANCELED", "CANCELED_AFTER_PAY"}
    <3>1. Answer(w, "cancel.answer", p, payState[p], canceledBy[p]) /\ UNCHANGED rows
      BY <1>8, <2>1 DEF CancelRead
    <3>2. Sound(call[w])'
      BY <2>1, <3>1, AnswerIsSound, PastFacts DEF rows, Answering
    <3> QED
      BY <1>4, <3>1, <3>2
  <2>2. CASE payState[p] \notin {"CANCELED", "CANCELED_AFTER_PAY"}
    <3> DEFINE c == [Idle EXCEPT !.at = "cancel.commit", !.pay = p, !.seen = payState[p]]
    <3>1. Become(w, c) /\ UNCHANGED rows /\ payState[p] \in {"CREATED", "PAID"}
      BY <1>8, <2>2 DEF CancelRead
    <3>2. c.pay = p /\ c.at = "cancel.commit" /\ c.seen = payState[p]
      BY DEF Idle
    <3> HIDE DEF c
    <3>3. call'[w] = c
      BY <3>1 DEF Become, TypeOK
    <3>4. Sound(call[w])'
      BY <3>1, <3>2, <3>3 DEF Sound, CallMatchesRows, AgreesWithRow, Answering, rows
    <3> QED
      BY <1>1, <3>1, <3>4
  <2> QED
    BY <2>1, <2>2
<1>9. ASSUME NEW w \in Workers, CreateLookup(w) PROVE CallsSound'
  <2> DEFINE p == call[w].pay
  <2>1. /\ call[w].at = "create.lookup" /\ p \in Payments /\ UNCHANGED rows
        /\ call[w].inv \in Invoices /\ invStatus[call[w].inv] # "NONE"
    BY <1>5, <1>9, CallsWellFormed DEF CreateLookup, Working, Sound, CallMatchesRows
  <2>2. CASE Goto(w, "create.insert")
    <3>1. call'[w] = [call[w] EXCEPT !.at = "create.insert"]
      BY <2>2 DEF Goto, Become, TypeOK
    <3>2. call'[w].at = "create.insert" /\ call'[w].inv = call[w].inv
      BY <3>1, <1>5 DEF WellFormed, CallType
    <3>3. Sound(call[w])'
      BY <2>1, <3>2 DEF Sound, CallMatchesRows, AgreesWithRow, Reading, Answering, rows
    <3> QED
      BY <1>3, <2>2, <3>3
  <2>3. CASE payState[p] \in {"CREATED", "PAID"}
             /\ Answer(w, "create.answer", p, payState[p], None)
    <3>1. Sound(call[w])'
      BY <2>1, <2>3, AnswerIsSound, PastFacts DEF rows, Answering
    <3> QED
      BY <1>4, <2>3, <3>1
  <2> QED
    BY <1>2, <1>9, <2>2, <2>3 DEF CreateLookup
<1>10. ASSUME NEW w \in Workers, CreateInsert(w) PROVE CallsSound'
  <2> DEFINE p == call[w].pay
  <2>1. /\ call[w].at = "create.insert" /\ p \in Payments
        /\ call[w].inv \in Invoices /\ invStatus[call[w].inv] # "NONE"
    BY <1>5, <1>10, CallsWellFormed DEF CreateInsert, Working, Sound, CallMatchesRows
  <2>2. CASE payState[p] = "NONE"
    <3>1. payState'[p] = "CREATED" /\ Answer(w, "create.answer", p, "CREATED", None)
      BY <1>10, <2>1, <2>2 DEF CreateInsert, TypeOK
    <3>2. Sound(call[w])'
      BY <2>1, <3>1, AnswerIsSound, PastFacts DEF Answering
    <3> QED
      BY <1>4, <3>1, <3>2
  <2>3. CASE payState[p] # "NONE"
    <3>1. Goto(w, "create.winner") /\ UNCHANGED <<payState, invStatus>>
      BY <1>10, <2>3 DEF CreateInsert
    <3>2. call'[w] = [call[w] EXCEPT !.at = "create.winner"]
      BY <3>1 DEF Goto, Become, TypeOK
    <3>3. call'[w].at = "create.winner" /\ call'[w].inv = call[w].inv /\ call'[w].pay = p
      BY <3>2, <1>5 DEF WellFormed, CallType
    <3>4. Sound(call[w])'
      BY <2>1, <2>3, <3>1, <3>3 DEF Sound, CallMatchesRows, AgreesWithRow, Answering
    <3> QED
      BY <1>3, <3>1, <3>4
  <2> QED
    BY <2>2, <2>3
<1>11. ASSUME NEW w \in Workers, CreateWinner(w) PROVE CallsSound'
  <2> DEFINE p == call[w].pay
  <2>1. /\ p \in Payments /\ payState[p] \in PayStates \ {"NONE"} /\ UNCHANGED rows
        /\ Answer(w, "create.answer", p, payState[p], None)
    BY <1>5, <1>11, CallsWellFormed, RowsTyped
       DEF CreateWinner, Working, Sound, CallMatchesRows, Reading, RowTypes
  <2>2. Sound(call[w])'
    BY <2>1, AnswerIsSound, OwnPast DEF rows, Answering
  <2> QED
    BY <1>4, <2>1, <2>2
<1>12. ASSUME NEW w \in Workers, PerformReadSub(w) PROVE CallsSound'
  <2> DEFINE c == [call[w] EXCEPT !.at = "perform.commit",
                                  !.seen = subs[Charges(call[w].pay)]]
  <2>1. call[w].at = "perform.sub" /\ Become(w, c) /\ UNCHANGED rows
    BY <1>12 DEF PerformReadSub
  <2>2. c.at = "perform.commit" /\ c.pay = call[w].pay
    BY <1>5 DEF WellFormed, CallType
  <2>3. payState[call[w].pay] # "NONE"
    BY <1>5, <2>1 DEF Sound, CallMatchesRows, Reading
  <2> HIDE DEF c
  <2>4. call'[w] = c
    BY <2>1 DEF Become, TypeOK
  <2>5. Sound(call[w])'
    BY <2>1, <2>2, <2>3, <2>4 DEF Sound, CallMatchesRows, AgreesWithRow, Answering, rows
  <2> QED
    BY <1>1, <2>1, <2>5
<1>13. ASSUME NEW w \in Workers, PerformCommit(w) PROVE CallsSound'
  <2> DEFINE p == call[w].pay
  <2>1. /\ p \in Payments
        /\ payState' = [payState EXCEPT ![p] = "PAID"]
        /\ performedBy' = [performedBy EXCEPT ![p] = w]
        /\ Answer(w, "perform.answer", p, "PAID", w)
    BY <1>13, CallsWellFormed DEF PerformCommit, Working
  <2>2. payState'[p] = "PAID" /\ performedBy'[p] = w
    BY <2>1 DEF TypeOK
  <2>3. Sound(call[w])'
    BY <2>1, <2>2, AnswerIsSound, PastFacts DEF Answering, Settled
  <2> QED
    BY <1>4, <2>1, <2>3
<1>14. ASSUME NEW w \in Workers, PerformRaceLost(w) \/ CancelRaceLost(w)
       PROVE  CallsSound'
  <2>1. PICK at \in {"perform.reread", "cancel.reread"} : Goto(w, at)
    BY <1>14 DEF PerformRaceLost, CancelRaceLost
  <2>2. call[w].at \in Reading /\ payState[call[w].pay] # "NONE" /\ UNCHANGED rows
    BY <1>5, <1>14 DEF PerformRaceLost, CancelRaceLost, Sound, CallMatchesRows, Reading
  <2>3. call'[w] = [call[w] EXCEPT !.at = at]
    BY <2>1 DEF Goto, Become, TypeOK
  <2>4. call'[w].at = at /\ call'[w].pay = call[w].pay
    BY <1>5, <2>3 DEF WellFormed, CallType
  <2>5. Sound(call[w])'
    BY <2>1, <2>2, <2>4 DEF Sound, CallMatchesRows, AgreesWithRow, Answering, rows
  <2> QED
    BY <1>3, <2>1, <2>5
<1>15. ASSUME NEW w \in Workers, PerformRollback(w) \/ Deliver(w) \/ CutOff(w)
       PROVE  CallsSound'
  BY <1>2, <1>15 DEF PerformRollback, Deliver, CutOff
<1>16. ASSUME NEW w \in Workers, PerformReread(w) PROVE CallsSound'
  <2> DEFINE p == call[w].pay
  <2>1. p \in Payments /\ UNCHANGED rows
    BY <1>16, CallsWellFormed DEF PerformReread, Working
  <2>2. CASE payState[p] = "PAID"
    <3>1. Answer(w, "perform.answer", p, "PAID", performedBy[p])
      BY <1>16, <2>2 DEF PerformReread
    <3>2. Sound(call[w])'
      BY <2>1, <2>2, <3>1, AnswerIsSound, PastFacts DEF rows, Answering, Settled
    <3> QED
      BY <1>4, <3>1, <3>2
  <2>3. CASE payState[p] # "PAID"
    BY <1>2, <1>16, <2>3 DEF PerformReread
  <2> QED
    BY <2>2, <2>3
<1>17. ASSUME NEW w \in Workers, CancelCommit(w) PROVE CallsSound'
  <2> DEFINE p == call[w].pay
             to == IF call[w].seen = "CREATED" THEN "CANCELED" ELSE "CANCELED_AFTER_PAY"
  <2>1. /\ p \in Payments
        /\ payState' = [payState EXCEPT ![p] = to]
        /\ canceledBy' = [canceledBy EXCEPT ![p] = w]
        /\ Answer(w, "cancel.answer", p, to, w)
    BY <1>17, CallsWellFormed DEF CancelCommit, Working
  <2>2. to \in {"CANCELED", "CANCELED_AFTER_PAY"}
    OBVIOUS
  <2> HIDE DEF to
  <2>3. payState'[p] = to /\ canceledBy'[p] = w
    BY <2>1 DEF TypeOK
  <2>4. Sound(call[w])'
    BY <2>1, <2>2, <2>3, AnswerIsSound, PastFacts DEF Answering
  <2> QED
    BY <1>4, <2>1, <2>4
<1>18. ASSUME NEW w \in Workers, CancelReread(w) PROVE CallsSound'
  <2> DEFINE p == call[w].pay
  <2>1. p \in Payments /\ UNCHANGED rows
    BY <1>18, CallsWellFormed DEF CancelReread, Working
  <2>2. CASE payState[p] \in {"CANCELED", "CANCELED_AFTER_PAY"}
    <3>1. Answer(w, "cancel.answer", p, payState[p], canceledBy[p])
      BY <1>18, <2>2 DEF CancelReread
    <3>2. Sound(call[w])'
      BY <2>1, <2>2, <3>1, AnswerIsSound, PastFacts DEF rows, Answering
    <3> QED
      BY <1>4, <3>1, <3>2
  <2>3. CASE payState[p] \notin {"CANCELED", "CANCELED_AFTER_PAY"}
    BY <1>2, <1>18, <2>3 DEF CancelReread
  <2> QED
    BY <2>2, <2>3
<1>19. CASE UNCHANGED call
  BY <1>19, CallStays
<1>20. CASE \E i \in Invoices : Checkout(i)
  BY <1>19, <1>20 DEF Checkout
<1>21. CASE SubscriptionWriters
  BY <1>19, <1>21 DEF SubscriptionWriters
<1>22. CASE \/ \E place \in Places : RequestWriters(place)
            \/ \E st \in Students : SaveProfile(st)
  BY <1>19, <1>22 DEF RequestWriters, SaveProfile
<1>23. CASE UNCHANGED vars
  BY <1>19, <1>23 DEF vars
<1> QED
  BY <1>6, <1>7, <1>8, <1>9, <1>10, <1>11, <1>12, <1>13, <1>14, <1>15, <1>16,
     <1>17, <1>18, <1>20, <1>21, <1>22, <1>23 DEF Next, WorkerStep

-----------------------------------------------------------------------------
(* The inductive invariant: types, the relations between rows, and what    *)
(* calls under way rely on.                                                *)
Inv == TypeOK /\ RowInv /\ CallsSound

LEMMA InvInit == Init => Inv
<1> SUFFICES ASSUME Init PROVE Inv
  OBVIOUS
<1>1. RowInv
  BY DEF Init, RowInv, PaymentsHaveInvoices, EventsMatchPayments,
     InvoiceMatchesPayments, PaymentsOf, Settled
<1>2. CallsSound
  BY DEF Init, CallsSound, Sound, CallMatchesRows, AgreesWithRow, Idle, Reading,
     Answering
<1> QED
  BY <1>1, <1>2, TypeInit DEF Inv

LEMMA InvStep == Inv /\ [Next]_vars => Inv'
<1> SUFFICES ASSUME Inv, [Next]_vars PROVE Inv'
  OBVIOUS
<1>1. CallsMatchRows
  BY DEF Inv, CallsSound, Sound, CallsMatchRows
<1> QED
  BY <1>1, TypeStep, RowStep, CallStep DEF Inv

(* The inductive invariant of the webhook holds in every reachable state.  *)
THEOREM Invariant == Spec => []Inv
BY InvInit, InvStep, PTL DEF Spec

(* The type invariant of the webhook holds in every reachable state.       *)
THEOREM TypeCorrect == Spec => []TypeOK
BY Invariant, PTL DEF Inv

(* Invoices and the payments made on them tell one story.                  *)
THEOREM InvoicesCorrect == Spec => []InvoiceMatchesPayments
<1>1. Inv => InvoiceMatchesPayments
  BY DEF Inv, RowInv
<1> QED
  BY <1>1, Invariant, PTL

(* The outbox has exactly the events the payments call for.                *)
THEOREM EventsCorrect == Spec => []EventsMatchPayments
<1>1. Inv => EventsMatchPayments
  BY DEF Inv, RowInv
<1> QED
  BY <1>1, Invariant, PTL

(* Repeated and concurrent calls are answered alike.                       *)
THEOREM AnswersCorrect == Spec => []RepeatsAgree
<1>1. Inv => RepeatsAgree
  BY DEF Inv, CallsSound, Sound, RepeatsAgree
<1> QED
  BY <1>1, Invariant, PTL

-----------------------------------------------------------------------------
(* Every step of the webhook is a step of the payment ledger.              *)
LEMMA ClaimsAreTrue == TypeOK' /\ CallsSound' => Book!Answers
<1> SUFFICES ASSUME TypeOK', CallsSound', NEW c \in Claims'
             PROVE  c[1] \in Payments /\ c[2] \in Book!Past[payState'[c[1]]]
  BY DEF Book!Answers
<1>1. PICK w \in Workers : call'[w].at \in Answering /\ c = <<call'[w].pay, call'[w].seen>>
  BY DEF Claims
<1>2. call'[w].pay \in Payments
  BY <1>1 DEF TypeOK, CallType, Answering
<1>3. call'[w].seen \in Book!Past[payState'[call'[w].pay]]
  BY <1>1 DEF CallsSound, Sound, CallMatchesRows
<1> QED
  BY <1>1, <1>2, <1>3

LEMMA LedgerStep == Inv /\ Inv' /\ [Next]_vars => Book!Next
<1> SUFFICES ASSUME Inv, Inv', [Next]_vars PROVE Book!Next
  OBVIOUS
<1>1. Book!Answers
  BY ClaimsAreTrue DEF Inv
<1>2. ASSUME UNCHANGED <<payState, outbox>> PROVE Book!Next
  BY <1>1, <1>2 DEF Book!Next, Book!Talk, EventsOn
<1>3. ASSUME NEW w \in Workers, CreateInsert(w) PROVE Book!Next
  <2>1. call[w].pay \in Payments /\ UNCHANGED outbox
    BY <1>3, CallsWellFormed DEF CreateInsert, Working, Inv
  <2>2. payState[call[w].pay] = "NONE" => Book!Open(call[w].pay)
    BY <1>3, <2>1 DEF CreateInsert, Book!Open, Book!Step, EventsOn
  <2> QED
    BY <1>1, <1>2, <1>3, <2>1, <2>2 DEF CreateInsert, Book!Next
<1>4. ASSUME NEW w \in Workers, PerformCommit(w) PROVE Book!Next
  <2>1. PICK p \in Payments : p = call[w].pay
    BY <1>4, CallsWellFormed DEF PerformCommit, Working, Inv
  <2>2. outbox' = outbox \cup {<<"payment.succeeded", p>>}
    BY <1>4, <2>1 DEF PerformCommit, Emit
  <2>3. /\ EventsOn("payment.succeeded")' = EventsOn("payment.succeeded") \cup {p}
        /\ EventsOn("payment.failed")' = EventsOn("payment.failed")
    BY <2>2 DEF EventsOn
  <2>4. Book!Settle(p)
    BY <1>4, <2>1, <2>3 DEF PerformCommit, Book!Settle, Book!Step
  <2> QED
    BY <1>1, <2>4 DEF Book!Next
<1>5. ASSUME NEW w \in Workers, CancelCommit(w) PROVE Book!Next
  <2>1. PICK p \in Payments : p = call[w].pay
    BY <1>5, CallsWellFormed DEF CancelCommit, Working, Inv
  <2>2. call[w].seen \in {"CREATED", "PAID"} /\ payState[p] = call[w].seen
    BY <1>5, <2>1 DEF CancelCommit, Inv, CallsSound, Sound, CallMatchesRows
  <2>3. CASE payState[p] = "CREATED"
    <3>1. /\ payState' = [payState EXCEPT ![p] = "CANCELED"]
          /\ outbox' = outbox \cup {<<"payment.failed", p>>}
      BY <1>5, <2>1, <2>2, <2>3 DEF CancelCommit, Emit
    <3>2. /\ EventsOn("payment.failed")' = EventsOn("payment.failed") \cup {p}
          /\ EventsOn("payment.succeeded")' = EventsOn("payment.succeeded")
      BY <3>1 DEF EventsOn
    <3> QED
      BY <1>1, <2>3, <3>1, <3>2 DEF Book!Next, Book!Drop, Book!Step
  <2>4. CASE payState[p] = "PAID"
    <3>1. payState' = [payState EXCEPT ![p] = "CANCELED_AFTER_PAY"] /\ outbox' = outbox
      BY <1>5, <2>1, <2>2, <2>4 DEF CancelCommit
    <3> QED
      BY <1>1, <2>4, <3>1 DEF Book!Next, Book!Refund, Book!Step, EventsOn
  <2> QED
    BY <2>2, <2>3, <2>4
<1> QED
  BY <1>2, <1>3, <1>4, <1>5, PayRowSteps DEF PayRows, Checkout

LEMMA LedgerInit == Init => Book!Init
BY DEF Init, Book!Init, EventsOn, Claims, Idle, Answering

(* The webhook implements PaymentLedger: whatever Payme repeats, reorders  *)
(* or overlaps, a payment is settled or dropped once, with its one event,  *)
(* and only truthful answers are under way.                                *)
THEOREM PaymentsImplementLedger == Spec => ImplementsPaymentLedger
<1>1. Inv /\ Inv' /\ [Next]_vars => [Book!Next]_(Book!vars)
  BY LedgerStep
<1> QED
  BY <1>1, LedgerInit, Invariant, PTL DEF Spec, ImplementsPaymentLedger, Book!Spec

(* What the promise is worth: the events follow from PaymentLedger alone.  *)
BookRows == payState \in [Payments -> PayStates] /\ EventsMatchPayments

LEMMA BookRowsNext == BookRows /\ [Book!Next]_(Book!vars) => BookRows'
<1> SUFFICES ASSUME BookRows, [Book!Next]_(Book!vars) PROVE BookRows'
  OBVIOUS
<1> USE DEF BookRows
<1>1. EventsMatchPayments <=>
        /\ EventsOn("payment.succeeded") = {p \in Payments : payState[p] \in Settled}
        /\ EventsOn("payment.failed") = {p \in Payments : payState[p] = "CANCELED"}
  BY DEF EventsMatchPayments, EventsOn
<1>2. EventsMatchPayments' <=>
        /\ EventsOn("payment.succeeded")' = {p \in Payments : payState'[p] \in Settled}
        /\ EventsOn("payment.failed")' = {p \in Payments : payState'[p] = "CANCELED"}
  BY DEF EventsMatchPayments, EventsOn
<1>3. CASE payState' = payState /\ EventsOn("payment.succeeded")' = EventsOn("payment.succeeded")
           /\ EventsOn("payment.failed")' = EventsOn("payment.failed")
  BY <1>1, <1>2, <1>3
<1>4. ASSUME NEW p \in Payments, Book!Open(p) \/ Book!Refund(p) \/ Book!Settle(p) \/ Book!Drop(p)
      PROVE  BookRows'
  BY <1>1, <1>2, <1>4 DEF Book!Open, Book!Refund, Book!Settle, Book!Drop, Book!Step, Settled, PayStates
<1> QED
  BY <1>3, <1>4 DEF Book!Next, Book!Talk, Book!vars

(* Whatever keeps to PaymentLedger writes payment.succeeded exactly for    *)
(* settled payments and payment.failed exactly for canceled ones.          *)
THEOREM LedgerTellsEvents == ImplementsPaymentLedger => []EventsMatchPayments
<1>1. Book!Init => BookRows
  BY DEF Book!Init, BookRows, EventsMatchPayments, EventsOn, Settled, PayStates
<1>2. BookRows => EventsMatchPayments
  BY DEF BookRows
<1> QED
  BY <1>1, <1>2, BookRowsNext, PTL DEF ImplementsPaymentLedger, Book!Spec

-----------------------------------------------------------------------------
(* The webhook moves subscriptions along the edges of their state machine. *)
LEMMA SubscriptionStep == [Next]_vars => [Ledger!Next]_subs
<1> SUFFICES ASSUME [Next]_vars PROVE [Ledger!Next]_subs
  OBVIOUS
<1>1. ASSUME NEW w \in Workers, PerformCommit(w) PROVE [Ledger!Next]_subs
  <2> DEFINE s == Charges(call[w].pay)
             seen == call[w].seen
  <2>1. CASE s \in Subs /\ CanTransition(seen, "ACTIVE")
    <3>1. /\ subs[s] = seen
          /\ subs' = [subs EXCEPT ![s] = "ACTIVE"]
      BY <1>1, <2>1 DEF PerformCommit, ActivateSub
    <3>2. Ledger!CanTransition(subs[s], "ACTIVE") /\ "ACTIVE" \in Ledger!Statuses
      BY <2>1, <3>1 DEF CanTransition, Ledger!CanTransition, Statuses,
         Ledger!Statuses, Transitions, Ledger!Transitions
    <3> QED
      BY <2>1, <3>1, <3>2 DEF Ledger!Next, Ledger!Move
  <2>2. CASE ~(s \in Subs /\ CanTransition(seen, "ACTIVE"))
    BY <1>1, <2>2 DEF PerformCommit, ActivateSub, UpsertRequest
  <2> QED
    BY <2>1, <2>2
<1>2. CASE SubscriptionWriters
  BY <1>2 DEF SubscriptionWriters
<1>3. CASE UNCHANGED subs
  BY <1>3
<1> QED
  BY <1>1, <1>2, <1>3
     DEF Next, WorkerStep, vars, rows, CreateRead, PerformRead, CancelRead,
         CreateLookup, CreateInsert, CreateWinner, PerformReadSub, PerformRaceLost,
         PerformRollback, PerformReread, CancelCommit, CancelRaceLost, CancelReread,
         Deliver, CutOff, Checkout, RequestWriters, SaveProfile

(* The webhook implements SubscriptionLedger: no payment, however late or  *)
(* repeated, moves a subscription off the edges of the state machine.      *)
THEOREM PaymentsKeepSubscriptions == Spec => ImplementsSubscriptionLedger
<1>1. Init => Ledger!Init
  BY DEF Init, Ledger!Init
<1> QED
  BY <1>1, SubscriptionStep, PTL DEF Spec, ImplementsSubscriptionLedger, Ledger!Spec

-----------------------------------------------------------------------------
(* What a payment may rely on about the subscription it read: statuses are *)
(* only left along the edges of the state machine, so a status that was    *)
(* read once bounds the status of now.                                     *)
Later(seen) ==
  CASE seen = "TRIAL"                  -> Statuses
    [] seen \in {"ACTIVE", "PAST_DUE"} -> Statuses \ {"TRIAL"}
    [] OTHER                           -> {seen}

SubSeen(c) ==
  c.at = "perform.commit" /\ Charges(c.pay) \in Subs =>
    c.seen \in Statuses /\ subs[Charges(c.pay)] \in Later(c.seen)

InvoicedSubsExist ==
  \A i \in Invoices :
    invStatus[i] # "NONE" /\ About[i] \in Subs => subs[About[i]] \in Statuses

SubsSeen == InvoicedSubsExist /\ \A w \in Workers : SubSeen(call[w])

LEMMA StatusesMove ==
  ASSUME TypeOK, [Next]_vars, NEW s \in Subs, subs[s] \in Statuses
  PROVE  /\ subs'[s] \in Statuses
         /\ \A seen \in Statuses : subs[s] \in Later(seen) => subs'[s] \in Later(seen)
<1>1. CASE subs'[s] = subs[s]
  BY <1>1
<1>2. CASE subs'[s] # subs[s]
  <2>1. subs'[s] \in Transitions[subs[s]]
    <3>1. PICK r \in Subs : Ledger!Open(r) \/ \E to \in Ledger!Statuses : Ledger!Move(r, to)
      BY <1>2, SubscriptionStep DEF Ledger!Next
    <3>2. r = s
      BY <1>2, <3>1 DEF Ledger!Open, Ledger!Move, TypeOK
    <3>3. ~Ledger!Open(s)
      BY DEF Ledger!Open, Statuses
    <3>4. PICK to \in Ledger!Statuses : Ledger!Move(s, to)
      BY <3>1, <3>2, <3>3
    <3>5. subs'[s] = to
      BY <3>4 DEF Ledger!Move, TypeOK
    <3> QED
      BY <3>4, <3>5 DEF Ledger!Move, Ledger!CanTransition, Ledger!Transitions, Transitions
  <2>2. \/ subs[s] = "TRIAL" /\ subs'[s] \in {"ACTIVE", "EXPIRED", "CANCELED"}
        \/ subs[s] = "ACTIVE" /\ subs'[s] \in {"PAST_DUE", "CANCELED"}
        \/ subs[s] = "PAST_DUE" /\ subs'[s] \in {"ACTIVE", "EXPIRED", "CANCELED"}
    BY <2>1 DEF Transitions, Statuses
  <2> QED
    BY <2>2 DEF Statuses, Later
<1> QED
  BY <1>1, <1>2

LEMMA InvoicedSubsStay ==
  Inv /\ InvoicedSubsExist /\ [Next]_vars => InvoicedSubsExist'
<1> SUFFICES ASSUME Inv, InvoicedSubsExist, [Next]_vars,
                    NEW i \in Invoices, invStatus'[i] # "NONE", About[i] \in Subs
             PROVE  subs'[About[i]] \in Statuses
  BY DEF InvoicedSubsExist
<1>1. invStatus[i] # "NONE" \/ subs[About[i]] \in NonTerminal
  <2>1. CASE UNCHANGED invStatus
    BY <2>1
  <2>2. ASSUME NEW j \in Invoices, Checkout(j)
        PROVE  invStatus[i] # "NONE" \/ subs[About[i]] \in NonTerminal
    BY <2>2 DEF Checkout, Inv, TypeOK
  <2>3. ASSUME NEW w \in Workers, PerformCommit(w) \/ CancelCommit(w)
        PROVE  invStatus[i] # "NONE"
    BY <2>3 DEF PerformCommit, MarkPaid, CancelCommit, Inv, TypeOK
  <2> QED
    BY <2>1, <2>2, <2>3, PayRowSteps DEF PayRows, CreateInsert
<1>2. subs[About[i]] \in Statuses
  BY <1>1 DEF InvoicedSubsExist, NonTerminal, Statuses
<1> QED
  BY <1>2, StatusesMove DEF Inv

(* Only the first steps of PerformTransaction lead to its commit.          *)
LEMMA EnteringCommit ==
  ASSUME TypeOK, [Next]_vars, NEW w \in Workers, call'[w] # call[w],
         call'[w].at = "perform.commit"
  PROVE  \/ PerformReadSub(w)
         \/ \E p \in Payments : /\ PerformRead(w, p)
                                /\ call'[w].pay = p
                                /\ Charges(p) \notin Subs
<1>1. ASSUME NEW v \in Workers, NEW c, Become(v, c), c.at # "perform.commit" PROVE FALSE
  BY <1>1 DEF Become, TypeOK
<1>2. ASSUME NEW v \in Workers, Finish(v) PROVE FALSE
  BY <1>1, <1>2 DEF Finish, Idle
<1>3. ASSUME NEW v \in Workers, NEW at, at # "perform.commit", Goto(v, at) PROVE FALSE
  BY <1>1, <1>3, CallsWellFormed DEF Goto, WellFormed, CallType
<1>4. ASSUME NEW v \in Workers, NEW at \in Answering, NEW p, NEW st, NEW by,
             Answer(v, at, p, st, by)
      PROVE  FALSE
  BY <1>1, <1>4 DEF Answer, Answering
<1>5. ASSUME NEW v \in Workers, NEW p \in Payments, PerformRead(v, p)
      PROVE  v = w /\ call'[w].pay = p /\ Charges(p) \notin Subs
  <2>1. payState[p] # "PAID"
    BY <1>4, <1>5 DEF PerformRead, Answering
  <2> DEFINE c == [Idle EXCEPT !.pay = p,
             !.at = IF Charges(p) \in Subs THEN "perform.sub" ELSE "perform.commit"]
  <2>2. Become(v, c)
    BY <1>5, <2>1 DEF PerformRead
  <2>3. c.pay = p /\ c.at = IF Charges(p) \in Subs THEN "perform.sub" ELSE "perform.commit"
    BY DEF Idle
  <2> HIDE DEF c
  <2> QED
    BY <2>2, <2>3 DEF Become, TypeOK
<1>6. ASSUME NEW v \in Workers, PerformReadSub(v) PROVE v = w
  BY <1>6 DEF PerformReadSub, Become, TypeOK
<1>7. ASSUME NEW v \in Workers, NEW p \in Payments, NEW i \in Invoices,
             CreateRead(v, p, i)
      PROVE  FALSE
  BY <1>1, <1>7 DEF CreateRead, Idle
<1>8. ASSUME NEW v \in Workers, NEW p \in Payments, CancelRead(v, p) PROVE FALSE
  BY <1>1, <1>4, <1>8 DEF CancelRead, Idle, Answering
<1>9. ASSUME NEW v \in Workers, CreateLookup(v) \/ CreateInsert(v) \/ CreateWinner(v)
      PROVE  FALSE
  BY <1>2, <1>3, <1>4, <1>9 DEF CreateLookup, CreateInsert, CreateWinner, Answering
<1>10. ASSUME NEW v \in Workers, PerformCommit(v) \/ CancelCommit(v) PROVE FALSE
  BY <1>4, <1>10 DEF PerformCommit, CancelCommit, Answering
<1>11. ASSUME NEW v \in Workers,
              \/ PerformRaceLost(v) \/ PerformRollback(v) \/ PerformReread(v)
              \/ CancelRaceLost(v) \/ CancelReread(v) \/ Deliver(v) \/ CutOff(v)
       PROVE  FALSE
  BY <1>2, <1>3, <1>4, <1>11 DEF PerformRaceLost, PerformRollback, PerformReread,
     CancelRaceLost, CancelReread, Deliver, CutOff, Answering
<1>12. ASSUME NEW v \in Workers, WorkerStep(v) PROVE PerformReadSub(w)
  BY <1>6, <1>9, <1>10, <1>11, <1>12 DEF WorkerStep
<1>13. CASE UNCHANGED call
  BY <1>13
<1> QED
  BY <1>5, <1>7, <1>8, <1>12, <1>13
     DEF Next, vars, Checkout, SubscriptionWriters, RequestWriters, SaveProfile

LEMMA SubsSeenStep == Inv /\ SubsSeen /\ [Next]_vars => SubsSeen'
<1> SUFFICES ASSUME Inv, SubsSeen, [Next]_vars, NEW w \in Workers
             PROVE  SubSeen(call[w])'
  BY InvoicedSubsStay DEF SubsSeen
<1> DEFINE c == call'[w]
<1> SUFFICES ASSUME c.at = "perform.commit", About[payInvoice'[c.pay]] \in Subs
             PROVE  /\ c.seen \in Statuses
                    /\ subs'[About[payInvoice'[c.pay]]] \in Later(c.seen)
  BY DEF SubSeen, Charges
<1>0. TypeOK /\ TypeOK' /\ Monotone
  BY TypeStep, RowStep DEF Inv, CallsSound, Sound, CallsMatchRows
<1>1. CASE call'[w] = call[w]
  <2>1. c.pay \in Payments /\ payInvoice'[c.pay] = payInvoice[c.pay]
    BY <1>0, <1>1, CallsWellFormed
       DEF Monotone, Working, Inv, CallsSound, Sound, CallMatchesRows, Reading
  <2>2. c.seen \in Statuses /\ subs[Charges(c.pay)] \in Later(c.seen)
    BY <1>1, <2>1 DEF SubsSeen, SubSeen, Charges
  <2>3. subs[Charges(c.pay)] \in Statuses
    BY <2>2 DEF Later, Statuses
  <2> QED
    BY <1>0, <2>1, <2>2, <2>3, StatusesMove DEF Charges
<1>2. CASE call'[w] # call[w]
  <2>1. ASSUME NEW p \in Payments, PerformRead(w, p), c.pay = p, Charges(p) \notin Subs
        PROVE  FALSE
    BY <2>1 DEF PerformRead, rows, Charges
  <2>2. PerformReadSub(w)
    BY <1>0, <1>2, <2>1, EnteringCommit
  <2> DEFINE p == call[w].pay
             s == Charges(p)
  <2>3. /\ call[w].at = "perform.sub" /\ UNCHANGED rows
        /\ c = [call[w] EXCEPT !.at = "perform.commit", !.seen = subs[s]]
    BY <2>2, <1>0 DEF PerformReadSub, Become, TypeOK
  <2>4. c.pay = p /\ c.seen = subs[s]
    BY <2>3, <1>0, CallsWellFormed DEF WellFormed, CallType
  <2>5. p \in Payments /\ payState[p] # "NONE" /\ s \in Subs
    BY <2>3, <1>0, CallsWellFormed
       DEF Working, Inv, CallsSound, Sound, CallMatchesRows, Reading
  <2>6. payInvoice[p] \in Invoices /\ invStatus[payInvoice[p]] # "NONE"
    BY <2>5, <1>0 DEF Inv, RowInv, PaymentsHaveInvoices, InvoiceMatchesPayments,
       PaymentsOf, TypeOK
  <2>7. subs[s] \in Statuses
    BY <2>5, <2>6 DEF SubsSeen, InvoicedSubsExist, Charges
  <2> QED
    BY <2>3, <2>4, <2>7 DEF rows, Charges, Later, Statuses
<1> QED
  BY <1>1, <1>2

(* The effect of a payment.                                                *)
LEMMA CommitTakesEffect ==
  ASSUME Inv, SubsSeen, [Next]_vars, NEW w \in Workers,
         call[w].at = "perform.commit",
         payState[call[w].pay] = "CREATED", payState'[call[w].pay] = "PAID",
         performedBy'[call[w].pay] = w
  PROVE  LET s == Charges(call[w].pay) IN
         IF s \in Subs
         THEN \/ subs'[s] \notin {"TRIAL", "PAST_DUE"}
              \/ call[w].seen = "ACTIVE" /\ subs'[s] = "PAST_DUE"
         ELSE reqStatus'[s] # "NONE"
<1> DEFINE p == call[w].pay
           s == Charges(p)
<1>0. TypeOK /\ p \in Payments
  BY CallsWellFormed DEF Inv, Working
<1>1. PerformCommit(w)
  <2>1. ~UNCHANGED payState
    OBVIOUS
  <2>2. PICK v \in Workers : CreateInsert(v) \/ PerformCommit(v) \/ CancelCommit(v)
    BY <2>1, PayRowSteps DEF PayRows, Checkout
  <2>3. ~CreateInsert(v)
    BY <1>0 DEF CreateInsert, TypeOK
  <2>4. ~CancelCommit(v)
    BY <1>0 DEF CancelCommit, TypeOK
  <2>5. call[v].pay = p /\ performedBy'[p] = v
    BY <1>0, <2>2, <2>3, <2>4 DEF PerformCommit, TypeOK
  <2> QED
    BY <2>2, <2>3, <2>4, <2>5
<1>2. CASE s \in Subs
  <2>1. call[w].seen \in Statuses /\ subs[s] \in Later(call[w].seen)
    BY <1>2 DEF SubsSeen, SubSeen
  <2>2. ActivateSub(s, call[w].seen)
    BY <1>1, <1>2 DEF PerformCommit
  <2>3. CASE CanTransition(call[w].seen, "ACTIVE")
    BY <1>0, <1>2, <2>2, <2>3 DEF ActivateSub, TypeOK
  <2>4. CASE ~CanTransition(call[w].seen, "ACTIVE")
    <3>1. subs' = subs /\ call[w].seen \in {"ACTIVE", "EXPIRED", "CANCELED"}
      BY <2>1, <2>2, <2>4 DEF ActivateSub, CanTransition, Transitions, Statuses
    <3> QED
      BY <1>2, <2>1, <3>1 DEF Later, Statuses
  <2> QED
    BY <1>2, <2>3, <2>4
<1>3. CASE s \notin Subs
  <2>1. UpsertRequest(s) /\ s \in Places
    BY <1>0, <1>1, <1>3, AboutAssumption, NoneAssumption
       DEF PerformCommit, Charges, Inv, RowInv, PaymentsHaveInvoices, TypeOK
  <2> QED
    BY <1>0, <1>3, <2>1 DEF UpsertRequest, TypeOK
<1> QED
  BY <1>2, <1>3

(* The money always has its effect, whatever the subscription did between  *)
(* the read of its status and the commit.                                  *)
THEOREM PaymentsTakeEffect == Spec => PaymentTakesEffect
<1>1. Init => SubsSeen
  BY DEF Init, SubsSeen, InvoicedSubsExist, SubSeen, Idle
<1>2. Spec => []SubsSeen
  BY <1>1, Invariant, SubsSeenStep, PTL DEF Spec
<1>3. Inv /\ SubsSeen /\ [Next]_vars =>
        [\A w \in Workers :
           LET p == call[w].pay
               s == Charges(p) IN
             /\ call[w].at = "perform.commit"
             /\ payState[p] = "CREATED" /\ payState'[p] = "PAID" /\ performedBy'[p] = w
             => IF s \in Subs
               THEN \/ subs'[s] \notin {"TRIAL", "PAST_DUE"}
                    \/ call[w].seen = "ACTIVE" /\ subs'[s] = "PAST_DUE"
               ELSE reqStatus'[s] # "NONE"]_vars
  BY CommitTakesEffect
<1> QED
  BY <1>2, <1>3, Invariant, PTL DEF Spec, PaymentTakesEffect

-----------------------------------------------------------------------------
(* What the steps of calls do to the rows that others own.                 *)
LEMMA CallsTouchLittle ==
  ASSUME [Next]_vars, call' # call
  PROVE  UNCHANGED <<subs, reqStatus>> \/ \E w \in Workers : PerformCommit(w)
BY DEF Next, WorkerStep, vars, rows, CreateRead, PerformRead, CancelRead,
       CreateLookup, CreateInsert, CreateWinner, PerformReadSub, PerformRaceLost,
       PerformRollback, PerformReread, CancelCommit, CancelRaceLost, CancelReread,
       Deliver, CutOff, Checkout, SubscriptionWriters, RequestWriters, SaveProfile

LEMMA CommitTouches ==
  ASSUME TypeOK, NEW w \in Workers, PerformCommit(w)
  PROVE  /\ \A s \in Subs : subs'[s] # subs[s] =>
              subs[s] \in {"TRIAL", "PAST_DUE"} /\ subs'[s] = "ACTIVE" /\ JustPaid(s)
         /\ \A place \in Places : reqStatus'[place] # reqStatus[place] =>
              reqStatus[place] = "NONE" /\ reqStatus'[place] = "PENDING_APPROVAL" /\ JustPaid(place)
<1> DEFINE p == call[w].pay
           x == Charges(p)
<1>1. p \in Payments /\ payState[p] = "CREATED" /\ payState'[p] = "PAID"
  BY CallsWellFormed DEF Working, PerformCommit, TypeOK
<1>2. JustPaid(x)
  BY <1>1 DEF JustPaid
<1>3. CASE x \in Subs
  <2>1. ActivateSub(x, call[w].seen)
    BY <1>3 DEF PerformCommit
  <2>2. CASE UNCHANGED subs
    BY <2>1, <2>2 DEF ActivateSub
  <2>3. CASE /\ CanTransition(call[w].seen, "ACTIVE") /\ subs[x] = call[w].seen
             /\ subs' = [subs EXCEPT ![x] = "ACTIVE"]
    <3>1. subs[x] \in {"TRIAL", "PAST_DUE"}
      BY <2>3 DEF CanTransition, Statuses, Transitions
    <3>2. \A s \in Subs : subs'[s] # subs[s] => s = x /\ subs'[s] = "ACTIVE"
      BY <2>3 DEF TypeOK
    <3>3. UNCHANGED reqStatus
      BY <2>1 DEF ActivateSub
    <3> HIDE DEF x
    <3> QED
      BY <1>2, <3>1, <3>2, <3>3
  <2> QED
    BY <2>1, <2>2, <2>3 DEF ActivateSub
<1>4. CASE x \notin Subs
  <2>1. UpsertRequest(x)
    BY <1>4 DEF PerformCommit
  <2>2. UNCHANGED subs
    BY <2>1 DEF UpsertRequest
  <2>3. \A place \in Places : reqStatus'[place] # reqStatus[place] =>
          place = x /\ reqStatus[place] = "NONE" /\ reqStatus'[place] = "PENDING_APPROVAL"
    BY <2>1 DEF UpsertRequest, TypeOK
  <2> HIDE DEF x
  <2> QED
    BY <1>2, <2>2, <2>3
<1> QED
  BY <1>3, <1>4

(* A call moves what others own only with the money for it, and only the   *)
(* way Subscriptions.tla and Enrollment.tla expect of a payment.           *)
THEOREM EffectsArePaid == Spec => EffectIsPaid
<1>1. Inv /\ [Next]_vars =>
        [call' # call =>
           /\ \A s \in Subs : subs'[s] # subs[s] =>
                subs[s] \in {"TRIAL", "PAST_DUE"} /\ subs'[s] = "ACTIVE" /\ JustPaid(s)
           /\ \A place \in Places : reqStatus'[place] # reqStatus[place] =>
                reqStatus[place] = "NONE" /\ reqStatus'[place] = "PENDING_APPROVAL" /\ JustPaid(place)]_vars
  <2> SUFFICES ASSUME Inv, [Next]_vars, call' # call
      PROVE  /\ \A s \in Subs : subs'[s] # subs[s] =>
                  subs[s] \in {"TRIAL", "PAST_DUE"} /\ subs'[s] = "ACTIVE" /\ JustPaid(s)
             /\ \A place \in Places : reqStatus'[place] # reqStatus[place] =>
                  reqStatus[place] = "NONE" /\ reqStatus'[place] = "PENDING_APPROVAL" /\ JustPaid(place)
    OBVIOUS
  <2>1. CASE UNCHANGED <<subs, reqStatus>>
    BY <2>1
  <2>2. ASSUME NEW w \in Workers, PerformCommit(w)
        PROVE  /\ \A s \in Subs : subs'[s] # subs[s] =>
                    subs[s] \in {"TRIAL", "PAST_DUE"} /\ subs'[s] = "ACTIVE" /\ JustPaid(s)
               /\ \A place \in Places : reqStatus'[place] # reqStatus[place] =>
                    reqStatus[place] = "NONE" /\ reqStatus'[place] = "PENDING_APPROVAL" /\ JustPaid(place)
    BY <2>2, CommitTouches DEF Inv
  <2> QED
    BY <2>1, <2>2, CallsTouchLittle
<1> QED
  BY <1>1, Invariant, PTL DEF Spec, EffectIsPaid
=============================================================================
