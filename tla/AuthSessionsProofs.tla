------------------------- MODULE AuthSessionsProofs -------------------------
(***************************************************************************)
(* Proofs about AuthSessions.tla, for any number of phones, requests, rows *)
(* and faults.                                                             *)
(***************************************************************************)
EXTENDS AuthSessions, TLAPS

-----------------------------------------------------------------------------
(* Tokens name rows that exist, and a request waits for a refresh that is  *)
(* under way.                                                              *)
Active(d, k) == call[d][k].at # "free"

Known ==
  /\ \A s \in Rows :
       /\ s <= used => origin[s] \in 1..used
       /\ s > used => origin[s] = 0 /\ state[s] = "none"
  /\ \A d \in Phones : stored[d] <= used
  /\ \A d \in Phones, k \in Requests :
       Active(d, k) => call[d][k].tok \in 1..used /\ call[d][k].new <= used
  /\ \A d \in Phones, r \in Requests :
       req[d][r].at \in Waits =>
         req[d][r].slot \in Requests /\ Active(d, req[d][r].slot)

Typed == TypeOK /\ Known

LEMMA IdleTypes ==
  /\ IdleReq \in Reqs /\ IdleReq.at = "idle"
  /\ NoCall \in Calls /\ NoCall.at = "free"
  /\ [IdleReq EXCEPT !.at = "again", !.try = 2] \in Reqs
<1>1. 0 \in Tokens
  BY BoundAssumption DEF Tokens
<1> QED
  BY <1>1 DEF IdleReq, Reqs, NoCall, Calls, Steps, Waits, Access

LEMMA NewTypes ==
  /\ \A n \in {1, 2}, a \in Access : Sent(n, a) \in Reqs
  /\ \A w \in Waits, n \in {1, 2}, k \in Requests : Waiting(w, n, k) \in Reqs
  /\ \A t \in Tokens : Posted(t) \in Calls
  /\ \A c \in Calls, t \in Tokens, a \in Access : Answered(c, t, a) \in Calls
<1>1. 0 \in Tokens
  BY BoundAssumption DEF Tokens
<1> QED
  BY <1>1 DEF Sent, Waiting, Reqs, Posted, Answered, NoCall, Calls, Steps, Waits, Access

LEMMA TypeInit == Init => Typed
<1> SUFFICES ASSUME Init PROVE Typed
  OBVIOUS
<1>1. 0 \in Tokens /\ 0 \in 0..MaxRows /\ 0 \in 0..MaxCutOffs /\ 0 \in 0..MaxKills
  BY BoundAssumption DEF Tokens
<1>2. req \in [Phones -> [Requests -> Reqs]] /\ call \in [Phones -> [Requests -> Calls]]
  BY IdleTypes DEF Init
<1>3. TypeOK
  BY <1>1, <1>2 DEF Init, TypeOK, Access
<1>4. Known
  BY <1>1, IdleTypes DEF Init, Known, Active, Waits, Rows
<1> QED
  BY <1>3, <1>4 DEF Typed

-----------------------------------------------------------------------------
(* What the steps do to the refreshes and the requests of a phone.         *)

(* A refresh that goes on keeps its tokens; one that a request waits for   *)
(* was waited for before, and goes on.                                     *)
Weaker(e) ==
  /\ \A k \in Requests :
       Active(e, k)' =>
         /\ Active(e, k)
         /\ call'[e][k].tok = call[e][k].tok
         /\ call'[e][k].new \in {call[e][k].new, 0}
         /\ call[e][k].at = "answered" => call'[e][k].at = "answered"
  /\ \A r \in Requests : req'[e][r].at \in Waits =>
       req'[e][r].slot \in Awaited(e) /\ call'[e][req'[e][r].slot].at # "free"

(* Most steps do no more than that: no row is created, and a phone drops   *)
(* its tokens, or keeps them and waits for what it waited for.             *)
Calm ==
  /\ UNCHANGED <<used, agent, origin, torn>>
  /\ \A s \in Rows : state'[s] \in {state[s], "revoked"} /\ (state[s] = "none" => state'[s] = "none")
  /\ \A e \in Phones :
       /\ Weaker(e)
       /\ stored'[e] = 0 \/ (stored'[e] = stored[e] /\ Awaited(e)' = Awaited(e))

Shapes == req' \in [Phones -> [Requests -> Reqs]] /\ call' \in [Phones -> [Requests -> Calls]]

LEMMA WaitersFacts ==
  ASSUME Typed, NEW e \in Phones
  PROVE  /\ \A r \in Requests : req[e][r].at \in Waits => req[e][r].slot \in Awaited(e)
         /\ Awaited(e) \subseteq Requests
         /\ \A k \in Awaited(e) : Active(e, k)
BY DEF Typed, Known, Awaited, Waiters

LEMMA Untouched ==
  ASSUME Typed, NEW e \in Phones, req'[e] = req[e], call'[e] = call[e]
  PROVE  Weaker(e) /\ Awaited(e)' = Awaited(e)
<1>1. \A k \in Requests : Active(e, k)' <=> Active(e, k)
  BY DEF Active
<1>2. \A k \in Requests : Waiters(e, k)' = Waiters(e, k)
  BY DEF Waiters
<1>3. Awaited(e)' = Awaited(e)
  BY <1>2 DEF Awaited
<1>4. \A r \in Requests : req[e][r].at \in Waits =>
        req[e][r].slot \in Awaited(e) /\ Active(e, req[e][r].slot)
  BY WaitersFacts
<1>5. \A r \in Requests : req'[e][r].at \in Waits =>
        req'[e][r].slot \in Awaited(e) /\ call'[e][req'[e][r].slot].at # "free"
  BY <1>4 DEF Active
<1> QED
  BY <1>1, <1>3, <1>5 DEF Weaker

LEMMA CalmKnown == Typed /\ Calm => Known'
<1> SUFFICES ASSUME Typed, Calm PROVE Known'
  OBVIOUS
<1> USE DEF Typed, TypeOK, Known, Calm, Active
<1>1. used' = used /\ origin' = origin /\ used \in Nat
  OBVIOUS
<1>2. \A s \in Rows : (s <= used => origin'[s] \in 1..used) /\ (s > used => origin'[s] = 0 /\ state'[s] = "none")
  BY <1>1
<1>3. \A d \in Phones : stored'[d] <= used
  BY <1>1
<1>4. \A d \in Phones, k \in Requests :
        call'[d][k].at # "free" => call'[d][k].tok \in 1..used /\ call'[d][k].new <= used
  <2> SUFFICES ASSUME NEW d \in Phones, NEW k \in Requests, call'[d][k].at # "free"
      PROVE  call'[d][k].tok \in 1..used /\ call'[d][k].new <= used
    OBVIOUS
  <2>1. /\ Active(d, k) /\ call'[d][k].tok = call[d][k].tok
        /\ call'[d][k].new \in {call[d][k].new, 0}
    BY DEF Weaker
  <2> QED
    BY <1>1, <2>1
<1>5. \A d \in Phones, r \in Requests :
        req'[d][r].at \in Waits => req'[d][r].slot \in Requests /\ call'[d][req'[d][r].slot].at # "free"
  BY WaitersFacts DEF Weaker
<1> QED
  BY <1>1, <1>2, <1>3, <1>4, <1>5

LEMMA AnswerEffect ==
  ASSUME Typed, NEW d \in Phones, NEW k \in Requests, NEW t \in Tokens, NEW a \in Access
  PROVE  /\ Answer(d, k, t, a) \in [Phones -> [Requests -> Calls]]
         /\ \A e \in Phones : e # d => Answer(d, k, t, a)[e] = call[e]
         /\ \A j \in Requests : j # k => Answer(d, k, t, a)[d][j] = call[d][j]
         /\ Answer(d, k, t, a)[d][k] =
              IF Waiters(d, k) = {} THEN NoCall ELSE Answered(call[d][k], t, a)
<1>1. call \in [Phones -> [Requests -> Calls]] /\ call[d][k] \in Calls
  BY DEF Typed, TypeOK
<1>2. Answered(call[d][k], t, a) \in Calls /\ NoCall \in Calls
  BY <1>1, IdleTypes, NewTypes
<1> QED
  BY <1>1, <1>2 DEF Answer

(* The waiting requests wait on, and their refreshes go on.                *)
LEMMA SameWaits ==
  ASSUME Typed, NEW e \in Phones,
         \A r \in Requests :
           /\ req'[e][r].at \in Waits <=> req[e][r].at \in Waits
           /\ req[e][r].at \in Waits => req'[e][r].slot = req[e][r].slot,
         \A k \in Awaited(e) : call'[e][k].at # "free",
         \A k \in Requests : call'[e][k].at # "free" =>
           /\ call[e][k].at # "free"
           /\ call'[e][k].tok = call[e][k].tok
           /\ call'[e][k].new \in {call[e][k].new, 0}
           /\ call[e][k].at = "answered" => call'[e][k].at = "answered"
  PROVE  Weaker(e) /\ Awaited(e)' = Awaited(e)
<1>1. \A k \in Requests : Waiters(e, k)' = Waiters(e, k)
  BY DEF Waiters
<1>2. Awaited(e)' = Awaited(e)
  BY <1>1 DEF Awaited
<1>3. \A r \in Requests : req'[e][r].at \in Waits =>
        req'[e][r].slot \in Awaited(e) /\ call'[e][req'[e][r].slot].at # "free"
  BY WaitersFacts
<1> QED
  BY <1>2, <1>3 DEF Weaker, Active

(* A request that was not waiting goes on to do q, and does not wait.      *)
LEMMA RequestMoves ==
  ASSUME Typed, NEW d \in Phones, NEW r \in Requests, NEW q \in Reqs,
         req[d][r].at \notin Waits, q.at \notin Waits,
         req' = [req EXCEPT ![d][r] = q], UNCHANGED call
  PROVE  Shapes /\ \A e \in Phones : Weaker(e) /\ Awaited(e)' = Awaited(e)
<1>1. Shapes
  BY DEF Typed, TypeOK, Shapes
<1> SUFFICES ASSUME NEW e \in Phones PROVE Weaker(e) /\ Awaited(e)' = Awaited(e)
  BY <1>1
<1>2. \A x \in Requests : req'[e][x] = IF e = d /\ x = r THEN q ELSE req[e][x]
  BY DEF Typed, TypeOK
<1>3. \A k \in Awaited(e) : call'[e][k].at # "free"
  BY WaitersFacts DEF Active
<1> QED
  BY <1>2, <1>3, SameWaits

(* A request of d begins the refresh k, the only one it waits for.         *)
Posts(d, k) ==
  /\ k \in Requests /\ ~Active(d, k)
  /\ stored[d] # 0
  /\ Awaited(d) = {} /\ Awaited(d)' = {k}
  /\ \A x \in Requests : req'[d][x].at \in Waits => req'[d][x].slot = k
  /\ \A j \in Requests : call'[d][j] = IF j = k THEN Posted(stored[d]) ELSE call[d][j]
  /\ \A e \in Phones : e # d => call'[e] = call[e] /\ req'[e] = req[e]

LEMMA Asks ==
  ASSUME Typed, NEW d \in Phones, NEW r \in Requests, NEW w \in Waits, NEW n \in {1, 2},
         req[d][r].at \notin Waits, RefreshAccessToken(d, r, w, n)
  PROVE  /\ Shapes
         /\ \/ \A e \in Phones : Weaker(e) /\ Awaited(e)' = Awaited(e)
            \/ \E k \in Requests : Posts(d, k)
<1> USE DEF Typed, TypeOK
<1>1. CASE \E k \in Awaited(d) : req' = [req EXCEPT ![d][r] = Waiting(w, n, k)] /\ UNCHANGED call
  <2>1. PICK k \in Awaited(d) : req' = [req EXCEPT ![d][r] = Waiting(w, n, k)] /\ UNCHANGED call
    BY <1>1
  <2>2. k \in Requests /\ Waiting(w, n, k) \in Reqs /\ Active(d, k)
    BY NewTypes, WaitersFacts
  <2>3. Waiting(w, n, k).at = w /\ Waiting(w, n, k).slot = k
    BY DEF Waiting
  <2>4. Shapes
    BY <2>1, <2>2 DEF Shapes
  <2>5. ASSUME NEW e \in Phones PROVE Weaker(e) /\ Awaited(e)' = Awaited(e)
    <3>1. CASE e # d
      <4>1. req'[e] = req[e] /\ call'[e] = call[e]
        BY <2>1, <3>1
      <4> QED
        BY <4>1, Untouched
    <3>2. CASE e = d
      <4>1. \A x \in Requests : req'[e][x] = IF x = r THEN Waiting(w, n, k) ELSE req[e][x]
        BY <2>1, <3>2
      <4>2. Awaited(e)' = Awaited(e)
        <5>1. ASSUME NEW j \in Requests, j # k PROVE Waiters(e, j)' = Waiters(e, j)
          <6>1. \A x \in Requests : (req'[e][x].at \in Waits /\ req'[e][x].slot = j)
                                   <=> (req[e][x].at \in Waits /\ req[e][x].slot = j)
            BY <2>3, <3>2, <4>1, <5>1
          <6> QED
            BY <6>1 DEF Waiters
        <5>2. Waiters(e, k) \subseteq Waiters(e, k)'
          BY <2>3, <3>2, <4>1 DEF Waiters
        <5>3. Waiters(e, k) # {}
          BY <2>1, <3>2 DEF Awaited
        <5> QED
          BY <2>2, <5>1, <5>2, <5>3 DEF Awaited
      <4>3. \A x \in Requests : req'[e][x].at \in Waits =>
              req'[e][x].slot \in Awaited(e) /\ call'[e][req'[e][x].slot].at # "free"
        BY <2>1, <2>2, <2>3, <3>2, <4>1, WaitersFacts DEF Active
      <4> QED
        BY <2>1, <4>2, <4>3 DEF Weaker, Active
    <3> QED
      BY <3>1, <3>2
  <2> QED
    BY <2>4, <2>5
<1>2. CASE /\ Awaited(d) = {} /\ stored[d] # 0 /\ FreeSlots(d) # {}
           /\ req' = [req EXCEPT ![d][r] = Waiting(w, n, FreeSlot(d))]
           /\ call' = [call EXCEPT ![d][FreeSlot(d)] = Posted(stored[d])]
  <2> DEFINE k == FreeSlot(d)
  <2>1. k \in FreeSlots(d)
    BY <1>2 DEF FreeSlot
  <2>2. k \in Requests /\ ~Active(d, k)
    BY <2>1 DEF FreeSlots, Active
  <2>3. /\ Waiting(w, n, k) \in Reqs /\ Posted(stored[d]) \in Calls
        /\ Waiting(w, n, k).at = w /\ Waiting(w, n, k).slot = k
    BY <2>2, NewTypes DEF Waiting
  <2> HIDE DEF k
  <2>a. /\ req' = [req EXCEPT ![d][r] = Waiting(w, n, k)]
        /\ call' = [call EXCEPT ![d][k] = Posted(stored[d])]
    BY <1>2 DEF k
  <2>4. Shapes
    BY <2>a, <2>2, <2>3 DEF Shapes
  <2>5. \A x \in Requests : req'[d][x] = IF x = r THEN Waiting(w, n, k) ELSE req[d][x]
    BY <2>a
  <2>b. \A x \in Requests : req[d][x].at \notin Waits
    BY <1>2, WaitersFacts
  <2>c. \A x \in Requests : req'[d][x].at \in Waits => req'[d][x].slot = k
    BY <2>3, <2>5, <2>b
  <2>6. \A j \in Requests : Waiters(d, j)' = IF j = k THEN {r} ELSE {}
    BY <2>3, <2>5, <2>b DEF Waiters
  <2>7. Awaited(d)' = {k}
    BY <2>2, <2>6 DEF Awaited
  <2>8. \A j \in Requests : call'[d][j] = IF j = k THEN Posted(stored[d]) ELSE call[d][j]
    BY <2>a, <2>2
  <2>9. \A e \in Phones : e # d => call'[e] = call[e] /\ req'[e] = req[e]
    BY <2>a
  <2> QED
    BY <1>2, <2>2, <2>4, <2>7, <2>8, <2>9, <2>c DEF Posts
<1> QED
  BY <1>1, <1>2 DEF RefreshAccessToken

-----------------------------------------------------------------------------
(* The steps that are calm.                                                *)
LEMMA RevokeFacts ==
  ASSUME Typed, NEW c \in [Phones -> [Requests -> Calls]], RevokeAll(c)
  PROVE  /\ Shapes
         /\ state' \in [Rows -> {"none", "live", "revoked"}]
         /\ access' \in [Phones -> Access]
         /\ \A s \in Rows : state'[s] \in {state[s], "revoked"} /\ (state[s] = "none" => state'[s] = "none")
         /\ \A e \in Phones, r \in Requests : req'[e][r].at = req[e][r].at /\ req'[e][r].slot = req[e][r].slot
         /\ \A e \in Phones, k \in Requests :
              /\ call'[e][k].tok = c[e][k].tok /\ call'[e][k].new = c[e][k].new
              /\ call'[e][k].at = "free" <=> c[e][k].at = "free"
              /\ c[e][k].at = "answered" => call'[e][k].at = "answered"
<1> USE DEF Typed, TypeOK, RevokeAll
<1>1. \A a \in Access : Revoked(a) \in Access
  BY DEF Revoked, Access
<1>2. \A e \in Phones, r \in Requests : req[e][r] \in Reqs
  OBVIOUS
<1>3. \A q \in Reqs : q.tok \in Access
  BY DEF Reqs
<1>4. \A q \in Reqs : LET p == [q EXCEPT !.tok = Revoked(q.tok)]
                      IN p \in Reqs /\ p.at = q.at /\ p.slot = q.slot
  BY <1>1, <1>3 DEF Reqs
<1>5. \A v \in Calls :
        LET w == [v EXCEPT !.at = IF v.at = "found" THEN "overtaken" ELSE v.at,
                           !.access = Revoked(v.access)]
        IN /\ w \in Calls /\ w.tok = v.tok /\ w.new = v.new
           /\ w.at = "free" <=> v.at = "free"
           /\ v.at = "answered" => w.at = "answered"
  BY <1>1 DEF Calls
<1>6. \A e \in Phones, k \in Requests : c[e][k] \in Calls
  OBVIOUS
<1>7. req' \in [Phones -> [Requests -> Reqs]]
  BY <1>2, <1>4
<1>8. call' \in [Phones -> [Requests -> Calls]]
  BY <1>5, <1>6
<1>9. \A e \in Phones, r \in Requests : req'[e][r].at = req[e][r].at /\ req'[e][r].slot = req[e][r].slot
  BY <1>2, <1>4
<1>10. \A e \in Phones, k \in Requests :
              /\ call'[e][k].tok = c[e][k].tok /\ call'[e][k].new = c[e][k].new
              /\ call'[e][k].at = "free" <=> c[e][k].at = "free"
              /\ c[e][k].at = "answered" => call'[e][k].at = "answered"
  BY <1>5, <1>6
<1>11. access' \in [Phones -> Access]
  BY <1>1
<1>12. /\ state' \in [Rows -> {"none", "live", "revoked"}]
       /\ \A s \in Rows : state'[s] \in {state[s], "revoked"} /\ (state[s] = "none" => state'[s] = "none")
  OBVIOUS
<1> QED
  BY <1>7, <1>8, <1>9, <1>10, <1>11, <1>12 DEF Shapes

(* A refresh of d that is not waited for is freed, or one goes on.         *)
LEMMA AnswerCalm ==
  ASSUME Typed, NEW d \in Phones, NEW k \in Requests, NEW a \in Access, Active(d, k),
         NEW e \in Phones, NEW j \in Requests
  PROVE  LET c == Answer(d, k, 0, a)
         IN /\ j \in Awaited(e) => c[e][j].at # "free"
            /\ c[e][j].at # "free" =>
                 /\ call[e][j].at # "free"
                 /\ c[e][j].tok = call[e][j].tok
                 /\ c[e][j].new \in {call[e][j].new, 0}
                 /\ call[e][j].at = "answered" => c[e][j].at = "answered"
<1>1. 0 \in Tokens
  BY BoundAssumption DEF Tokens
<1>2. CASE e = d /\ j = k
  <2>1. CASE Waiters(d, k) = {}
    BY <1>1, <1>2, <2>1, AnswerEffect, IdleTypes DEF Awaited
  <2>2. CASE Waiters(d, k) # {}
    <3>1. Answer(d, k, 0, a)[d][k] = Answered(call[d][k], 0, a)
      BY <1>1, <2>2, AnswerEffect
    <3>2. LET v == Answered(call[d][k], 0, a)
          IN v.at = "answered" /\ v.tok = call[d][k].tok /\ v.new = 0
      BY DEF Answered
    <3> QED
      BY <1>2, <3>1, <3>2 DEF Active
  <2> QED
    BY <2>1, <2>2
<1>3. CASE ~(e = d /\ j = k)
  BY <1>1, <1>3, AnswerEffect, WaitersFacts DEF Active
<1> QED
  BY <1>2, <1>3

(* Calm steps that leave the waiting requests where they are.              *)
LEMMA CutOffCalm ==
  ASSUME Typed, CutOff, RevokeAll(call) \/ RevokeRows(call), active' \in BOOLEAN
  PROVE  TypeOK' /\ Calm
<1> USE DEF Typed, TypeOK
<1>1. \A e \in Phones : Weaker(e) /\ Awaited(e)' = Awaited(e)
  <2> TAKE e \in Phones
  <2>1. \A k \in Awaited(e) : call[e][k].at # "free" /\ k \in Requests
    BY WaitersFacts DEF Active
  <2>2. CASE RevokeAll(call)
    BY <2>1, <2>2, RevokeFacts, SameWaits
  <2>3. CASE RevokeRows(call)
    <3>1. req' = req /\ call' = call
      BY <2>3 DEF RevokeRows
    <3> QED
      BY <2>1, <3>1, SameWaits
  <2> QED
    BY <2>2, <2>3
<1>2. UNCHANGED <<used, agent, origin, stored, torn, kills>>
  BY DEF CutOff, RevokeAll, RevokeRows, kept
<1>3. cutoffs' \in 0..MaxCutOffs
  <2>1. cutoffs \in 0..MaxCutOffs /\ cutoffs < MaxCutOffs /\ cutoffs' = cutoffs + 1
    BY DEF CutOff
  <2> QED
    BY <2>1, BoundAssumption
<1>4. CASE RevokeAll(call)
  <2>1. TypeOK'
    BY <1>2, <1>3, <1>4, RevokeFacts DEF Shapes
  <2> QED
    BY <1>1, <1>2, <1>4, <2>1, RevokeFacts DEF Calm
<1>5. CASE RevokeRows(call)
  <2>1. UNCHANGED <<access, req, call>>
    BY <1>5 DEF RevokeRows, kept
  <2>2. /\ state' \in [Rows -> {"none", "live", "revoked"}]
        /\ \A s \in Rows : state'[s] \in {state[s], "revoked"} /\ (state[s] = "none" => state'[s] = "none")
    BY <1>5 DEF RevokeRows
  <2>3. TypeOK'
    BY <1>2, <1>3, <2>1, <2>2
  <2> QED
    BY <1>1, <1>2, <2>2, <2>3 DEF Calm
<1> QED
  BY <1>4, <1>5

LEMMA UpdateUserStatusCalm == Typed /\ UpdateUserStatus => TypeOK' /\ Calm
<1> SUFFICES ASSUME Typed, UpdateUserStatus PROVE TypeOK' /\ Calm
  OBVIOUS
<1>1. CASE CutOff /\ RevokeAll(call) /\ active' = FALSE
  BY <1>1, CutOffCalm
<1>2. CASE active' = TRUE /\ UNCHANGED <<table, kept, req, call, torn, cutoffs, kills>>
  <2>1. UNCHANGED <<used, state, agent, origin, stored, access, req, call, torn, cutoffs, kills>>
    BY <1>2 DEF table, kept
  <2>2. \A e \in Phones : Weaker(e) /\ Awaited(e)' = Awaited(e)
    <3> TAKE e \in Phones
    <3>1. \A k \in Awaited(e) : call[e][k].at # "free" /\ k \in Requests
      BY WaitersFacts DEF Active
    <3> QED
      BY <2>1, <3>1, SameWaits
  <2> QED
    BY <1>2, <2>1, <2>2 DEF Calm, Typed, TypeOK
<1> QED
  BY <1>1, <1>2 DEF UpdateUserStatus

LEMMA RefreshFindCalm ==
  ASSUME Typed, NEW d \in Phones, NEW k \in Requests, RefreshFind(d, k)
  PROVE  TypeOK' /\ Calm
<1> USE DEF Typed, TypeOK
<1>1. 0 \in Tokens /\ "none" \in Access /\ Active(d, k)
  BY BoundAssumption DEF Tokens, Access, RefreshFind, Active
<1>2. CASE call' = [call EXCEPT ![d][k].at = "found"] /\ UNCHANGED <<table, kept, req>>
  <2>0. call[d][k] \in Calls /\ call[d][k].at = "sent"
    BY DEF RefreshFind
  <2>1. [call[d][k] EXCEPT !.at = "found"] \in Calls
    BY <2>0 DEF Calls
  <2>2. Shapes
    BY <1>2, <2>1 DEF Shapes
  <2>3. \A e \in Phones, j \in Requests :
          /\ call'[e][j].at # "free" <=> call[e][j].at # "free"
          /\ call'[e][j].tok = call[e][j].tok /\ call'[e][j].new = call[e][j].new
          /\ call[e][j].at = "answered" => call'[e][j].at = "answered"
    <3> TAKE e \in Phones, j \in Requests
    <3>1. CASE e = d /\ j = k
      <4>1. call'[e][j] = [call[d][k] EXCEPT !.at = "found"]
        BY <1>2, <3>1
      <4> QED
        BY <2>0, <3>1, <4>1 DEF Calls
    <3>2. CASE ~(e = d /\ j = k)
      <4>1. call'[e][j] = call[e][j]
        BY <1>2, <3>2
      <4> QED
        BY <4>1
    <3> QED
      BY <3>1, <3>2
  <2>4. \A e \in Phones : Weaker(e) /\ Awaited(e)' = Awaited(e)
    <3> TAKE e \in Phones
    <3>1. \A j \in Awaited(e) : call[e][j].at # "free" /\ j \in Requests
      BY WaitersFacts DEF Active
    <3>2. req' = req
      BY <1>2
    <3> QED
      BY <2>3, <3>1, <3>2, SameWaits
  <2>5. UNCHANGED <<table, kept, account>>
    BY <1>2 DEF RefreshFind
  <2> QED
    BY <2>2, <2>4, <2>5 DEF Calm, table, kept, account, Shapes
<1>3. CASE RevokeAll(Answer(d, k, 0, "none"))
  <2>1. Answer(d, k, 0, "none") \in [Phones -> [Requests -> Calls]]
    BY <1>1, AnswerEffect
  <2>2. \A e \in Phones : Weaker(e) /\ Awaited(e)' = Awaited(e)
    <3> TAKE e \in Phones
    <3> DEFINE c == Answer(d, k, 0, "none")
    <3>1. \A r \in Requests : req'[e][r].at = req[e][r].at /\ req'[e][r].slot = req[e][r].slot
      BY <1>3, <2>1, RevokeFacts
    <3>2. \A j \in Requests :
            /\ call'[e][j].tok = c[e][j].tok /\ call'[e][j].new = c[e][j].new
            /\ call'[e][j].at = "free" <=> c[e][j].at = "free"
            /\ c[e][j].at = "answered" => call'[e][j].at = "answered"
      BY <1>3, <2>1, RevokeFacts
    <3>3. \A j \in Requests :
            /\ j \in Awaited(e) => c[e][j].at # "free"
            /\ c[e][j].at # "free" =>
                 /\ call[e][j].at # "free"
                 /\ c[e][j].tok = call[e][j].tok
                 /\ c[e][j].new \in {call[e][j].new, 0}
                 /\ call[e][j].at = "answered" => c[e][j].at = "answered"
      BY <1>1, AnswerCalm
    <3> HIDE DEF c
    <3>4. Awaited(e) \subseteq Requests
      BY WaitersFacts
    <3>5. \A j \in Awaited(e) : call'[e][j].at # "free"
      BY <3>2, <3>3, <3>4
    <3>6. \A j \in Requests : call'[e][j].at # "free" =>
            /\ call[e][j].at # "free"
            /\ call'[e][j].tok = call[e][j].tok
            /\ call'[e][j].new \in {call[e][j].new, 0}
            /\ call[e][j].at = "answered" => call'[e][j].at = "answered"
      BY <3>2, <3>3
    <3> QED
      BY <3>1, <3>5, <3>6, SameWaits
  <2>3. UNCHANGED <<used, agent, origin, stored, account>>
    BY <1>3 DEF RevokeAll, RefreshFind
  <2>4. TypeOK'
    BY <1>3, <2>1, <2>3, RevokeFacts DEF Shapes, account
  <2> QED
    BY <1>3, <2>1, <2>2, <2>3, <2>4, RevokeFacts DEF Calm, account
<1>4. CASE RevokeRows(Answer(d, k, 0, "none"))
  <2>1. Answer(d, k, 0, "none") \in [Phones -> [Requests -> Calls]]
    BY <1>1, AnswerEffect
  <2>2. \A e \in Phones : Weaker(e) /\ Awaited(e)' = Awaited(e)
    <3> TAKE e \in Phones
    <3>1. \A j \in Awaited(e) : j \in Requests
      BY WaitersFacts
    <3> DEFINE c == Answer(d, k, 0, "none")
    <3>2. \A j \in Requests :
            /\ j \in Awaited(e) => c[e][j].at # "free"
            /\ c[e][j].at # "free" =>
                 /\ call[e][j].at # "free"
                 /\ c[e][j].tok = call[e][j].tok
                 /\ c[e][j].new \in {call[e][j].new, 0}
                 /\ call[e][j].at = "answered" => c[e][j].at = "answered"
      BY <1>1, AnswerCalm
    <3>3. req' = req /\ call' = c
      BY <1>4 DEF RevokeRows
    <3> HIDE DEF c
    <3> QED
      BY <3>1, <3>2, <3>3, SameWaits
  <2>3. UNCHANGED <<used, agent, origin, stored, access, req, account>>
    BY <1>4 DEF RevokeRows, RefreshFind, kept
  <2>4. /\ state' \in [Rows -> {"none", "live", "revoked"}]
        /\ \A s \in Rows : state'[s] \in {state[s], "revoked"} /\ (state[s] = "none" => state'[s] = "none")
    BY <1>4 DEF RevokeRows
  <2>5. TypeOK'
    BY <1>4, <2>1, <2>3, <2>4 DEF RevokeRows, account
  <2> QED
    BY <2>2, <2>3, <2>4, <2>5 DEF Calm, account
<1> QED
  BY <1>2, <1>3, <1>4 DEF RefreshFind

LEMMA RefreshFailsCalm ==
  ASSUME Typed, NEW d \in Phones, NEW k \in Requests, RefreshFails(d, k)
  PROVE  TypeOK' /\ Calm
<1>1. 0 \in Tokens /\ "none" \in Access /\ Active(d, k) /\ call' = Answer(d, k, 0, "none")
  BY BoundAssumption DEF Tokens, Access, RefreshFails, Active
<1>2. UNCHANGED <<table, kept, req, account>>
  BY DEF RefreshFails
<1>3. call' \in [Phones -> [Requests -> Calls]]
  BY <1>1, AnswerEffect
<1>4. \A e \in Phones : Weaker(e) /\ Awaited(e)' = Awaited(e)
  <2> TAKE e \in Phones
  <2>1. \A j \in Awaited(e) : j \in Requests
    BY WaitersFacts
  <2>2. req' = req
    BY <1>2
  <2> QED
    BY <1>1, <2>1, <2>2, AnswerCalm, SameWaits
<1> QED
  BY <1>2, <1>3, <1>4 DEF Typed, TypeOK, Calm, table, kept, account

LEMMA RefreshDroppedCalm ==
  ASSUME Typed, NEW d \in Phones, NEW k \in Requests, RefreshDropped(d, k)
  PROVE  TypeOK' /\ Calm
<1>1. UNCHANGED <<table, kept, req, account>>
  BY DEF RefreshDropped
<1>2. /\ \A e \in Phones, j \in Requests :
           call'[e][j] = IF e = d /\ j = k THEN NoCall ELSE call[e][j]
      /\ call' \in [Phones -> [Requests -> Calls]]
  BY IdleTypes DEF RefreshDropped, Typed, TypeOK
<1>3. k \notin Awaited(d)
  BY DEF RefreshDropped, Awaited
<1>4. \A e \in Phones : Weaker(e) /\ Awaited(e)' = Awaited(e)
  <2> TAKE e \in Phones
  <2>1. \A j \in Awaited(e) : j \in Requests /\ call[e][j].at # "free"
    BY WaitersFacts DEF Active
  <2>2. req' = req
    BY <1>1
  <2> QED
    BY <1>2, <1>3, <2>1, <2>2, IdleTypes, SameWaits
<1> QED
  BY <1>1, <1>2, <1>4 DEF Typed, TypeOK, Calm, table, kept, account

LEMMA AccessExpiresCalm ==
  ASSUME Typed, NEW d \in Phones, AccessExpires(d)
  PROVE  TypeOK' /\ Calm
<1> USE DEF Typed, TypeOK
<1>1. UNCHANGED <<table, stored, call, account>>
  BY DEF AccessExpires
<1>2. \A q \in Reqs : LET p == [q EXCEPT !.tok = Expired(q.tok)]
                      IN p \in Reqs /\ p.at = q.at /\ p.slot = q.slot
  BY DEF Reqs, Access, Expired
<1>3. \A e \in Phones, r \in Requests :
        req'[e][r] = IF e = d THEN [req[e][r] EXCEPT !.tok = Expired(req[e][r].tok)]
                     ELSE req[e][r]
  BY DEF AccessExpires
<1>4. \A e \in Phones, r \in Requests : req[e][r] \in Reqs
  OBVIOUS
<1>5. \A e \in Phones, r \in Requests : req'[e][r].at = req[e][r].at /\ req'[e][r].slot = req[e][r].slot
  BY <1>2, <1>3, <1>4
<1>6. req' \in [Phones -> [Requests -> Reqs]]
  BY <1>2, <1>4 DEF AccessExpires
<1>7. \A e \in Phones : Weaker(e) /\ Awaited(e)' = Awaited(e)
  <2> TAKE e \in Phones
  <2>1. \A j \in Awaited(e) : j \in Requests /\ call[e][j].at # "free"
    BY WaitersFacts DEF Active
  <2> QED
    BY <1>1, <1>5, <2>1, SameWaits
<1>8. access' \in [Phones -> Access]
  BY DEF AccessExpires, Access, Expired
<1> QED
  BY <1>1, <1>6, <1>7, <1>8 DEF Calm, table, account

LEMMA LogOutCalm ==
  ASSUME Typed, NEW d \in Phones, LogOut(d)
  PROVE  TypeOK' /\ Calm
<1>1. UNCHANGED <<table, req, call, account>> /\ Keep(d, 0, "none")
  BY DEF LogOut
<1>2. stored' \in [Phones -> Tokens] /\ access' \in [Phones -> Access]
  BY <1>1, BoundAssumption DEF Keep, Typed, TypeOK, Tokens, Access
<1>3. \A e \in Phones : stored'[e] = 0 \/ stored'[e] = stored[e]
  BY <1>1 DEF Keep, Typed, TypeOK
<1>4. \A e \in Phones : Weaker(e) /\ Awaited(e)' = Awaited(e)
  BY <1>1, Untouched
<1> QED
  BY <1>1, <1>2, <1>3, <1>4 DEF Typed, TypeOK, Calm, table, account

LEMMA AcceptedCalm ==
  ASSUME Typed, NEW d \in Phones, NEW r \in Requests, Accepted(d, r) \/ Failed(d, r)
  PROVE  TypeOK' /\ Calm
<1>1. /\ UNCHANGED <<table, kept, call, account>> /\ req[d][r].at = "sent"
      /\ req' = [req EXCEPT ![d][r] = IdleReq]
  BY DEF Accepted, Failed
<1>2. Shapes /\ \A e \in Phones : Weaker(e) /\ Awaited(e)' = Awaited(e)
  BY <1>1, IdleTypes, RequestMoves DEF Waits
<1> QED
  BY <1>1, <1>2 DEF Typed, TypeOK, Calm, Shapes, table, kept, account

-----------------------------------------------------------------------------
(* The steps that may begin a refresh.                                     *)
Begins == UNCHANGED <<table, kept, account>> /\ \E d \in Phones, k \in Requests : Posts(d, k)

LEMMA RequestCalm ==
  ASSUME Typed, NEW d \in Phones, NEW r \in Requests, Request(d, r)
  PROVE  TypeOK' /\ (Calm \/ Begins)
<1>1. UNCHANGED <<table, kept, account>> /\ req[d][r].at \notin Waits
  BY DEF Request, Waits
<1>2. PICK n \in {1, 2} : ExecuteRequest(d, r, n)
  BY DEF Request
<1>3. CASE access[d] # "expired" /\ req' = [req EXCEPT ![d][r] = Sent(n, access[d])] /\ UNCHANGED call
  <2>1. Sent(n, access[d]) \in Reqs /\ Sent(n, access[d]).at \notin Waits
    BY NewTypes DEF Sent, Waits, Typed, TypeOK
  <2>2. Shapes /\ \A e \in Phones : Weaker(e) /\ Awaited(e)' = Awaited(e)
    BY <1>1, <1>3, <2>1, RequestMoves
  <2> QED
    BY <1>1, <2>2 DEF Typed, TypeOK, Shapes, Calm, table, kept, account
<1>4. CASE RefreshAccessToken(d, r, "head", n)
  <2>1. "head" \in Waits
    BY DEF Waits
  <2>2. /\ Shapes
        /\ \/ \A e \in Phones : Weaker(e) /\ Awaited(e)' = Awaited(e)
           \/ \E k \in Requests : Posts(d, k)
    BY <1>1, <1>4, <2>1, Asks
  <2> QED
    BY <1>1, <2>2 DEF Typed, TypeOK, Shapes, Calm, Begins, table, kept, account
<1> QED
  BY <1>2, <1>3, <1>4 DEF ExecuteRequest

LEMMA UnauthorizedCalm ==
  ASSUME Typed, NEW d \in Phones, NEW r \in Requests, Unauthorized(d, r)
  PROVE  TypeOK' /\ (Calm \/ Begins)
<1>1. UNCHANGED <<table, account>> /\ req[d][r].at \notin Waits
  BY DEF Unauthorized, Rejected, Waits
<1>2. CASE RefreshAccessToken(d, r, "ref", 1) /\ UNCHANGED kept
  <2>1. "ref" \in Waits
    BY DEF Waits
  <2>2. /\ Shapes
        /\ \/ \A e \in Phones : Weaker(e) /\ Awaited(e)' = Awaited(e)
           \/ \E k \in Requests : Posts(d, k)
    BY <1>1, <1>2, <2>1, Asks
  <2> QED
    BY <1>1, <1>2, <2>2 DEF Typed, TypeOK, Shapes, Calm, Begins, table, kept, account
<1>3. CASE Keep(d, 0, "none") /\ req' = [req EXCEPT ![d][r] = IdleReq] /\ UNCHANGED call
  <2>1. Shapes /\ \A e \in Phones : Weaker(e) /\ Awaited(e)' = Awaited(e)
    BY <1>1, <1>3, IdleTypes, RequestMoves DEF Waits
  <2>2. stored' \in [Phones -> Tokens] /\ access' \in [Phones -> Access]
    BY <1>3, BoundAssumption DEF Keep, Typed, TypeOK, Tokens, Access
  <2>3. \A e \in Phones : stored'[e] = 0 \/ stored'[e] = stored[e]
    BY <1>3 DEF Keep, Typed, TypeOK
  <2> QED
    BY <1>1, <2>1, <2>2, <2>3 DEF Typed, TypeOK, Shapes, Calm, table, account
<1> QED
  BY <1>2, <1>3 DEF Unauthorized

-----------------------------------------------------------------------------
(* The steps that end a refresh, or give it up.                            *)

(* The requests that waited for refresh k of d no longer wait.             *)
LEMMA ResumeFacts ==
  ASSUME Typed, NEW d \in Phones, NEW k \in Requests, NEW t \in Tokens, NEW a \in Access,
         Resume(d, k, t, a)
  PROVE  /\ req' \in [Phones -> [Requests -> Reqs]]
         /\ stored' = [stored EXCEPT ![d] = t]
         /\ stored' \in [Phones -> Tokens] /\ access' \in [Phones -> Access]
         /\ \A e \in Phones : e # d => req'[e] = req[e]
         /\ \A r \in Requests : req'[d][r].at \in Waits => r \notin Waiters(d, k) /\ req'[d][r] = req[d][r]
<1> USE DEF Typed, TypeOK
<1>1. \A q \in Reqs : Resumed(q, a) \in Reqs /\ Resumed(q, a).at \notin Waits
  <2> TAKE q \in Reqs
  <2>1. q.try \in {1, 2}
    BY DEF Reqs
  <2>2. Sent(q.try, a) \in Reqs /\ Sent(q.try, a).at \notin Waits
    BY <2>1, NewTypes DEF Sent, Waits
  <2>3. LET p == [IdleReq EXCEPT !.at = "again", !.try = 2]
        IN p \in Reqs /\ p.at \notin Waits
    BY IdleTypes DEF IdleReq, Waits
  <2>4. IdleReq \in Reqs /\ IdleReq.at \notin Waits
    BY IdleTypes DEF Waits
  <2> QED
    BY <2>2, <2>3, <2>4 DEF Resumed
<1>2. \A r \in Requests : req[d][r] \in Reqs
  OBVIOUS
<1>3. /\ \A r \in Requests : req'[d][r] = IF r \in Waiters(d, k) THEN Resumed(req[d][r], a) ELSE req[d][r]
      /\ \A e \in Phones : e # d => req'[e] = req[e]
  BY DEF Resume
<1>4. req' \in [Phones -> [Requests -> Reqs]]
  BY <1>1, <1>2 DEF Resume
<1>5. stored' = [stored EXCEPT ![d] = t] /\ stored' \in [Phones -> Tokens] /\ access' \in [Phones -> Access]
  BY DEF Resume, Keep
<1> QED
  BY <1>1, <1>2, <1>3, <1>4, <1>5

(* Refreshes of d were freed, all others are as they were; the requests    *)
(* that still wait are not waiting for one of these.                       *)
LEMMA Freed ==
  ASSUME Typed, NEW d \in Phones,
         \A e \in Phones : e # d => req'[e] = req[e] /\ call'[e] = call[e],
         \A j \in Requests : call'[d][j] \in {call[d][j], NoCall},
         \A r \in Requests : req'[d][r].at \in Waits =>
           req'[d][r] = req[d][r] /\ call'[d][req[d][r].slot] = call[d][req[d][r].slot]
  PROVE  \A e \in Phones : Weaker(e) /\ (e # d => Awaited(e)' = Awaited(e))
<1>1. Weaker(d)
  <2>1. \A r \in Requests : req'[d][r].at \in Waits =>
          req'[d][r].slot \in Awaited(d) /\ call'[d][req'[d][r].slot].at # "free"
    BY WaitersFacts DEF Active
  <2>2. \A j \in Requests : call'[d][j].at # "free" => call'[d][j] = call[d][j]
    BY IdleTypes
  <2> QED
    BY <2>1, <2>2 DEF Weaker, Active
<1>2. \A e \in Phones : e # d => Weaker(e) /\ Awaited(e)' = Awaited(e)
  BY Untouched
<1> QED
  BY <1>1, <1>2

LEMMA RefreshLostCalm ==
  ASSUME Typed, NEW d \in Phones, NEW k \in Requests, RefreshLost(d, k)
  PROVE  TypeOK' /\ Calm
<1>1. 0 \in Tokens /\ "none" \in Access
  BY BoundAssumption DEF Tokens, Access
<1>2. UNCHANGED <<table, account>> /\ Resume(d, k, 0, "none") /\ call' = Abandon(d, {k})
  BY DEF RefreshLost
<1>3. /\ call' \in [Phones -> [Requests -> Calls]]
      /\ \A e \in Phones : e # d => call'[e] = call[e]
      /\ \A j \in Requests : call'[d][j] \in {call[d][j], NoCall}
      /\ \A j \in Requests : j # k => call'[d][j] = call[d][j]
  BY <1>2, IdleTypes DEF Abandon, Typed, TypeOK
<1>4. \A r \in Requests : req'[d][r].at \in Waits =>
        req'[d][r] = req[d][r] /\ req[d][r].slot \in Requests /\ req[d][r].slot # k
  <2> SUFFICES ASSUME NEW r \in Requests, req'[d][r].at \in Waits
      PROVE  req'[d][r] = req[d][r] /\ req[d][r].slot \in Requests /\ req[d][r].slot # k
    OBVIOUS
  <2>1. r \notin Waiters(d, k) /\ req'[d][r] = req[d][r]
    BY <1>1, <1>2, ResumeFacts
  <2> QED
    BY <2>1, WaitersFacts DEF Waiters
<1>5. \A e \in Phones : Weaker(e) /\ (e # d => Awaited(e)' = Awaited(e))
  <2>1. \A e \in Phones : e # d => req'[e] = req[e]
    BY <1>1, <1>2, ResumeFacts
  <2> QED
    BY <1>3, <1>4, <2>1, Freed
<1>6. \A e \in Phones : stored'[e] = IF e = d THEN 0 ELSE stored[e]
  BY <1>1, <1>2, ResumeFacts DEF Typed, TypeOK
<1>7. TypeOK'
  BY <1>1, <1>2, <1>3, ResumeFacts DEF Typed, TypeOK, table, account
<1> QED
  BY <1>2, <1>5, <1>6, <1>7 DEF Calm, Typed, TypeOK, table, account

(* The new tokens are kept: the refresh k of d is over.                    *)
Takes(d, k) ==
  /\ UNCHANGED <<table, account>>
  /\ k \in Awaited(d)
  /\ call[d][k].at = "answered"
  /\ stored' = [stored EXCEPT ![d] = call[d][k].new]
  /\ ~Active(d, k)'
  /\ \A e \in Phones : Weaker(e) /\ (e # d => Awaited(e)' = Awaited(e))
  /\ k \notin Awaited(d)'

LEMMA RefreshDoneTakes ==
  ASSUME Typed, NEW d \in Phones, NEW k \in Requests, RefreshDone(d, k)
  PROVE  TypeOK' /\ Takes(d, k)
<1> DEFINE t == call[d][k].new
           a == call[d][k].access
<1>1. t \in Tokens /\ a \in Access
  <2>1. call[d][k] \in Calls
    BY DEF Typed, TypeOK
  <2> QED
    BY <2>1 DEF Calls
<1>2. UNCHANGED <<table, account>> /\ Resume(d, k, t, a) /\ call' = [call EXCEPT ![d][k] = NoCall]
  BY DEF RefreshDone
<1> HIDE DEF a
<1>3. /\ call' \in [Phones -> [Requests -> Calls]]
      /\ \A e \in Phones : e # d => call'[e] = call[e]
      /\ \A j \in Requests : call'[d][j] = IF j = k THEN NoCall ELSE call[d][j]
  BY <1>2, IdleTypes DEF Typed, TypeOK
<1>4. \A r \in Requests : req'[d][r].at \in Waits =>
        req'[d][r] = req[d][r] /\ req[d][r].slot \in Requests /\ req[d][r].slot # k
  <2> SUFFICES ASSUME NEW r \in Requests, req'[d][r].at \in Waits
      PROVE  req'[d][r] = req[d][r] /\ req[d][r].slot \in Requests /\ req[d][r].slot # k
    OBVIOUS
  <2>1. r \notin Waiters(d, k) /\ req'[d][r] = req[d][r]
    BY <1>1, <1>2, ResumeFacts
  <2> QED
    BY <2>1, WaitersFacts DEF Waiters
<1>5. \A e \in Phones : Weaker(e) /\ (e # d => Awaited(e)' = Awaited(e))
  <2>1. \A e \in Phones : e # d => req'[e] = req[e]
    BY <1>1, <1>2, ResumeFacts
  <2> QED
    BY <1>3, <1>4, <2>1, Freed
<1>6. k \notin Awaited(d)'
  BY <1>4 DEF Awaited, Waiters
<1>7. TypeOK'
  BY <1>1, <1>2, <1>3, ResumeFacts DEF Typed, TypeOK, table, account
<1>8. stored' = [stored EXCEPT ![d] = call[d][k].new]
  BY <1>1, <1>2, ResumeFacts
<1>9. k \in Awaited(d) /\ call[d][k].at = "answered" /\ ~Active(d, k)'
  BY <1>3, IdleTypes DEF RefreshDone, Awaited, Active
<1> QED
  BY <1>2, <1>5, <1>6, <1>7, <1>8, <1>9 DEF Takes

(* The app of d died.                                                      *)
Dies(d) ==
  /\ UNCHANGED <<table, kept>>
  /\ torn' = torn \cup {origin[call[d][k].tok] : k \in Awaited(d)}
  /\ Awaited(d)' = {}
  /\ \A e \in Phones : Weaker(e) /\ (e # d => Awaited(e)' = Awaited(e))

LEMMA KillDies ==
  ASSUME Typed, NEW d \in Phones, Kill(d)
  PROVE  TypeOK' /\ Dies(d)
<1>1. /\ UNCHANGED <<table, kept, active, cutoffs>> /\ call' = Abandon(d, Awaited(d))
      /\ req' = [req EXCEPT ![d] = [r \in Requests |-> IdleReq]]
      /\ torn' = torn \cup {origin[call[d][k].tok] : k \in Awaited(d)}
  BY DEF Kill
<1>2. /\ call' \in [Phones -> [Requests -> Calls]]
      /\ \A e \in Phones : e # d => call'[e] = call[e]
      /\ \A j \in Requests : call'[d][j] \in {call[d][j], NoCall}
  BY <1>1, IdleTypes DEF Abandon, Typed, TypeOK
<1>3. /\ req' \in [Phones -> [Requests -> Reqs]]
      /\ \A e \in Phones : e # d => req'[e] = req[e]
      /\ \A r \in Requests : req'[d][r].at \notin Waits
  BY <1>1, IdleTypes DEF Waits, Typed, TypeOK
<1>4. Awaited(d)' = {}
  BY <1>3 DEF Awaited, Waiters
<1>5. \A e \in Phones : Weaker(e) /\ (e # d => Awaited(e)' = Awaited(e))
  BY <1>2, <1>3, Freed
<1>6. torn' \subseteq Rows
  <2>1. \A k \in Awaited(d) : origin[call[d][k].tok] \in Rows
    <3> TAKE k \in Awaited(d)
    <3>1. k \in Requests /\ Active(d, k)
      BY WaitersFacts
    <3>2. call[d][k].tok \in 1..used /\ used \in 0..MaxRows
      BY <3>1 DEF Typed, Known, TypeOK
    <3>3. call[d][k].tok \in Rows /\ call[d][k].tok <= used
      BY <3>2, BoundAssumption DEF Rows
    <3>4. origin[call[d][k].tok] \in 1..used
      BY <3>3 DEF Typed, Known
    <3> QED
      BY <3>2, <3>4, BoundAssumption DEF Rows
  <2> QED
    BY <1>1, <2>1 DEF Typed, TypeOK
<1>7. kills' \in 0..MaxKills
  <2>1. kills \in 0..MaxKills /\ kills < MaxKills /\ kills' = kills + 1
    BY DEF Kill, Typed, TypeOK
  <2> QED
    BY <2>1, BoundAssumption
<1> QED
  BY <1>1, <1>2, <1>3, <1>4, <1>5, <1>6, <1>7 DEF Dies, Typed, TypeOK, table, kept

(* What is the same of the rows after the step.                            *)
LEMMA CreateFacts ==
  ASSUME Typed, NEW d \in Phones, NEW o \in 1..(used + 1), CreateRow(d, o)
  PROVE  /\ used + 1 \in Rows /\ used' = used + 1 /\ used \in Nat
         /\ used' \in 0..MaxRows
         /\ agent' \in [Rows -> Phones \cup {NoPhone}] /\ agent'[used + 1] = d
         /\ origin' \in [Rows -> Tokens] /\ origin'[used + 1] = o
         /\ \A s \in Rows : s # used + 1 => agent'[s] = agent[s] /\ origin'[s] = origin[s]
<1>1. used \in 0..MaxRows /\ used < MaxRows /\ used' = used + 1
  BY DEF Typed, TypeOK, CreateRow
<1>2. used + 1 \in Rows /\ used' \in 0..MaxRows /\ used \in Nat
  BY <1>1, BoundAssumption DEF Rows
<1>3. o \in Tokens
  BY <1>1, <1>2, BoundAssumption DEF Rows, Tokens
<1> QED
  BY <1>1, <1>2, <1>3 DEF Typed, TypeOK, CreateRow

(* Refresh k of d creates its row.                                         *)
Rotates(d, k) ==
  LET t == call[d][k].tok
  IN /\ CreateRow(d, origin[t])
     /\ state' = [state EXCEPT ![t] = "revoked", ![used + 1] = "live"]
     /\ UNCHANGED <<stored, req, torn>>
     /\ call[d][k].at \in {"found", "overtaken"}
     /\ \A e \in Phones : Awaited(e)' = Awaited(e)
     /\ \A e \in Phones, j \in Requests : ~(e = d /\ j = k) => call'[e][j] = call[e][j]
     /\ IF k \in Awaited(d)
        THEN call'[d][k].at = "answered" /\ call'[d][k].tok = t /\ call'[d][k].new = used + 1
        ELSE call'[d][k].at = "free"

LEMMA TokenFacts ==
  ASSUME Typed
  PROVE  /\ used \in Nat /\ used <= MaxRows /\ 1..used \subseteq Rows
         /\ \A d \in Phones : stored[d] # 0 => stored[d] \in 1..used
         /\ \A d \in Phones, k \in Requests : Active(d, k) =>
              /\ call[d][k].tok \in 1..used
              /\ call[d][k].new # 0 => call[d][k].new \in 1..used
         /\ \A s \in 1..used : origin[s] \in 1..used
<1>1. used \in Nat /\ used <= MaxRows /\ 1..used \subseteq Rows
  BY BoundAssumption DEF Typed, TypeOK, Rows
<1>2. \A d \in Phones : stored[d] \in Nat /\ stored[d] <= used
  <2>1. Tokens \subseteq Nat
    BY BoundAssumption DEF Tokens
  <2>2. stored \in [Phones -> Tokens]
    BY DEF Typed, TypeOK
  <2> QED
    BY <2>1, <2>2 DEF Typed, Known
<1>3. \A d \in Phones, k \in Requests : call[d][k].new \in Nat
  <2>1. \A c \in Calls : c.new \in Nat
    BY BoundAssumption DEF Calls, Tokens
  <2> QED
    BY <2>1 DEF Typed, TypeOK
<1>4. \A d \in Phones, k \in Requests :
        Active(d, k) => call[d][k].tok \in 1..used /\ call[d][k].new <= used
  BY DEF Typed, Known
<1>5. \A s \in 1..used : origin[s] \in 1..used
  BY <1>1 DEF Typed, Known
<1> QED
  BY <1>1, <1>2, <1>3, <1>4, <1>5

LEMMA RefreshRotates ==
  ASSUME Typed, NEW d \in Phones, NEW k \in Requests, RefreshRotate(d, k)
  PROVE  TypeOK' /\ Rotates(d, k)
<1> DEFINE t == call[d][k].tok
           a == IF call[d][k].at = "found" THEN "good" ELSE "revoked"
<1>1. /\ call[d][k].at \in {"found", "overtaken"}
      /\ CreateRow(d, origin[t])
      /\ state' = [state EXCEPT ![t] = "revoked", ![used + 1] = "live"]
      /\ call' = Answer(d, k, used + 1, a)
      /\ UNCHANGED <<kept, req, account>>
  BY DEF RefreshRotate
<1>2. t \in 1..used /\ origin[t] \in 1..(used + 1)
  <2>1. Active(d, k)
    BY <1>1 DEF Active
  <2> QED
    BY <2>1, TokenFacts
<1>3. used + 1 \in Tokens /\ a \in Access
  <2>1. used + 1 \in Rows
    BY <1>1, <1>2, CreateFacts
  <2> QED
    BY <2>1, BoundAssumption DEF Rows, Tokens, Access
<1> HIDE DEF t, a
<1>4. /\ call' \in [Phones -> [Requests -> Calls]]
      /\ \A e \in Phones, j \in Requests : ~(e = d /\ j = k) => call'[e][j] = call[e][j]
      /\ call'[d][k] = IF Waiters(d, k) = {} THEN NoCall ELSE Answered(call[d][k], used + 1, a)
  BY <1>1, <1>3, AnswerEffect
<1>5. \A e \in Phones : Awaited(e)' = Awaited(e)
  BY <1>1 DEF Awaited, Waiters
<1>6. IF k \in Awaited(d)
      THEN call'[d][k].at = "answered" /\ call'[d][k].tok = t /\ call'[d][k].new = used + 1
      ELSE call'[d][k].at = "free"
  <2>1. CASE Waiters(d, k) = {}
    BY <1>4, <2>1, IdleTypes DEF Awaited
  <2>2. CASE Waiters(d, k) # {}
    BY <1>4, <2>2 DEF Awaited, Answered, t
  <2> QED
    BY <2>1, <2>2
<1>7. state' \in [Rows -> {"none", "live", "revoked"}]
  BY <1>1 DEF Typed, TypeOK
<1>8. TypeOK'
  BY <1>1, <1>2, <1>4, <1>7, CreateFacts DEF Typed, TypeOK, kept, account
<1> QED
  BY <1>1, <1>4, <1>5, <1>6, <1>8 DEF Rotates, t, kept, account

LEMMA SignInTypes ==
  ASSUME Typed, NEW d \in Phones, SignIn(d)
  PROVE  TypeOK'
<1>1. CreateRow(d, used + 1) /\ UNCHANGED <<req, call, account>>
  BY DEF SignIn
<1>2. used + 1 \in 1..(used + 1)
  BY TokenFacts
<1>3. used + 1 \in Tokens
  BY <1>1, <1>2, CreateFacts, BoundAssumption DEF Rows, Tokens
<1>4. /\ state' \in [Rows -> {"none", "live", "revoked"}]
      /\ stored' \in [Phones -> Tokens] /\ access' \in [Phones -> Access]
  BY <1>3 DEF SignIn, Typed, TypeOK, Access
<1> QED
  BY <1>1, <1>2, <1>4, CreateFacts DEF Typed, TypeOK, account

-----------------------------------------------------------------------------
(* Which token is where: the inductive invariant.                          *)
Clean(s) == origin[s] \notin torn

(* All that comes from one sign-in is on one phone.                        *)
SameOwner == \A s, t \in 1..used : origin[s] = origin[t] => agent[s] = agent[t]
OwnTokens == \A d \in Phones : stored[d] # 0 => agent[stored[d]] = d
OwnCalls ==
  \A d \in Phones, k \in Requests : Active(d, k) =>
    /\ agent[call[d][k].tok] = d
    /\ call[d][k].new # 0 => origin[call[d][k].new] = origin[call[d][k].tok]

(* A phone waits for one refresh, and a sign-in is refreshed once.         *)
OneAwaited ==
  \A d \in Phones, j, k \in Requests : j \in Awaited(d) /\ k \in Awaited(d) => j = k
OneRefresh ==
  \A d \in Phones, j, k \in Requests :
    Active(d, j) /\ Active(d, k) /\ j # k /\ Clean(call[d][j].tok) =>
      origin[call[d][j].tok] # origin[call[d][k].tok]

(* The kept token is the newest, unless the awaited refresh exchanges it;  *)
(* no refresh that is not awaited can.                                     *)
KeptAwaited ==
  \A d \in Phones, k \in Requests :
    /\ stored[d] # 0 /\ Clean(stored[d])
    /\ Active(d, k) /\ origin[call[d][k].tok] = origin[stored[d]]
    => k \in Awaited(d) /\ call[d][k].tok = stored[d]
KeptNewest ==
  \A d \in Phones :
    /\ stored[d] # 0 /\ Clean(stored[d])
    /\ \A k \in Awaited(d) : call[d][k].tok # stored[d]
    => Newest(stored[d])

(* A refresh exchanges the newest token, and its answer brings the newest. *)
Carried ==
  \A d \in Phones, k \in Requests : Active(d, k) /\ Clean(call[d][k].tok) =>
    /\ call[d][k].at # "answered" => Newest(call[d][k].tok)
    /\ call[d][k].new # 0 => Newest(call[d][k].new)

Inv ==
  /\ Typed
  /\ SameOwner /\ OwnTokens /\ OwnCalls
  /\ OneAwaited /\ OneRefresh
  /\ KeptAwaited /\ KeptNewest
  /\ Carried /\ OneSession

LEMMA InvInit == Init => Inv
<1> SUFFICES ASSUME Init PROVE Inv
  OBVIOUS
<1>1. Typed
  BY TypeInit
<1>2. /\ used = 0
      /\ \A d \in Phones : stored[d] = 0
      /\ \A d \in Phones, k \in Requests : ~Active(d, k)
      /\ \A d \in Phones : Awaited(d) = {}
  BY IdleTypes DEF Init, Active, Awaited, Waiters, Waits
<1>3. \A s \in Rows : ~(s <= used)
  BY <1>2 DEF Rows
<1> QED
  BY <1>1, <1>2, <1>3 DEF Inv, SameOwner, OwnTokens, OwnCalls, OneAwaited, OneRefresh, KeptAwaited,
                          KeptNewest, Carried, OneSession

-----------------------------------------------------------------------------
(* The steps that create no row and begin no refresh.                      *)
Still ==
  /\ UNCHANGED <<used, agent, origin>>
  /\ torn \subseteq torn'
  /\ \A s \in Rows : state'[s] \in {state[s], "revoked"}
  /\ \A e \in Phones : Weaker(e)

LEMMA WeakerAwaited ==
  ASSUME NEW e \in Phones, Weaker(e)
  PROVE  Awaited(e)' \subseteq Awaited(e)
BY DEF Weaker, Awaited, Waiters

LEMMA StillKeeps ==
  ASSUME Inv, Still
  PROVE  (SameOwner /\ OwnCalls /\ OneAwaited /\ OneRefresh /\ Carried /\ OneSession)'
<1>1. used' = used /\ agent' = agent /\ origin' = origin /\ torn \subseteq torn'
  BY DEF Still
<1>2. \A e \in Phones, j \in Requests : Active(e, j)' =>
        /\ Active(e, j)
        /\ call'[e][j].tok = call[e][j].tok
        /\ call'[e][j].new \in {call[e][j].new, 0}
        /\ call[e][j].at = "answered" => call'[e][j].at = "answered"
  BY DEF Still, Weaker
<1>3. SameOwner'
  BY <1>1 DEF Inv, SameOwner
<1>4. OwnCalls'
  BY <1>1, <1>2 DEF Inv, OwnCalls
<1>5. OneAwaited'
  BY WeakerAwaited DEF Inv, Still, OneAwaited
<1>6. OneRefresh'
  <2> SUFFICES ASSUME NEW d \in Phones, NEW j \in Requests, NEW k \in Requests,
                      Active(d, j)', Active(d, k)', j # k, Clean(call[d][j].tok)'
               PROVE  origin'[call'[d][j].tok] # origin'[call'[d][k].tok]
    BY DEF OneRefresh
  <2>1. Active(d, j) /\ Active(d, k) /\ call'[d][j].tok = call[d][j].tok /\ call'[d][k].tok = call[d][k].tok
    BY <1>2
  <2>2. Clean(call[d][j].tok)
    BY <1>1, <2>1 DEF Clean
  <2> QED
    BY <1>1, <2>1, <2>2 DEF Inv, OneRefresh
<1>7. Carried'
  <2> SUFFICES ASSUME NEW d \in Phones, NEW k \in Requests, Active(d, k)', Clean(call[d][k].tok)'
               PROVE  /\ call'[d][k].at # "answered" => Newest(call[d][k].tok)'
                      /\ call'[d][k].new # 0 => Newest(call[d][k].new)'
    BY DEF Carried
  <2>1. /\ Active(d, k) /\ call'[d][k].tok = call[d][k].tok
        /\ call'[d][k].new \in {call[d][k].new, 0}
        /\ call[d][k].at = "answered" => call'[d][k].at = "answered"
    BY <1>2
  <2>2. Clean(call[d][k].tok)
    BY <1>1, <2>1 DEF Clean
  <2> QED
    BY <1>1, <2>1, <2>2 DEF Inv, Carried, Newest
<1>8. OneSession'
  BY <1>1 DEF Inv, OneSession, Still, Newest
<1> QED
  BY <1>3, <1>4, <1>5, <1>6, <1>7, <1>8

LEMMA StillKnown ==
  ASSUME Typed, Still, \A s \in Rows : state[s] = "none" => state'[s] = "none",
         \A e \in Phones : stored'[e] <= used
  PROVE  Known'
<1>1. used' = used /\ origin' = origin
  BY DEF Still
<1>2. \A s \in Rows : (s <= used => origin'[s] \in 1..used) /\ (s > used => origin'[s] = 0 /\ state'[s] = "none")
  BY <1>1 DEF Typed, Known
<1>3. \A d \in Phones, k \in Requests :
        call'[d][k].at # "free" => call'[d][k].tok \in 1..used /\ call'[d][k].new <= used
  <2> SUFFICES ASSUME NEW d \in Phones, NEW k \in Requests, call'[d][k].at # "free"
      PROVE  call'[d][k].tok \in 1..used /\ call'[d][k].new <= used
    OBVIOUS
  <2>1. /\ Active(d, k) /\ call'[d][k].tok = call[d][k].tok
        /\ call'[d][k].new \in {call[d][k].new, 0}
    BY DEF Still, Weaker, Active
  <2> QED
    BY <2>1, TokenFacts DEF Typed, Known
<1>4. \A d \in Phones, r \in Requests :
        req'[d][r].at \in Waits => req'[d][r].slot \in Requests /\ call'[d][req'[d][r].slot].at # "free"
  BY WaitersFacts DEF Still, Weaker
<1> QED
  BY <1>1, <1>2, <1>3, <1>4 DEF Known, Active

(* A phone whose tokens and awaited refresh stay.                          *)
LEMMA SameHeld ==
  ASSUME Inv, Still, NEW d \in Phones, stored'[d] = stored[d], Awaited(d)' = Awaited(d),
         stored'[d] # 0, Clean(stored[d])'
  PROVE  /\ agent'[stored'[d]] = d
         /\ \A k \in Requests : Active(d, k)' /\ origin'[call'[d][k].tok] = origin'[stored'[d]] =>
              k \in Awaited(d)' /\ call'[d][k].tok = stored'[d]
         /\ (\A k \in Awaited(d)' : call'[d][k].tok # stored'[d]) => Newest(stored[d])'
<1>1. used' = used /\ agent' = agent /\ origin' = origin /\ torn \subseteq torn'
  BY DEF Still
<1>2. stored[d] # 0 /\ Clean(stored[d])
  BY <1>1 DEF Clean
<1>3. \A k \in Requests : Active(d, k)' =>
        Active(d, k) /\ call'[d][k].tok = call[d][k].tok
  BY DEF Still, Weaker
<1>4. \A k \in Awaited(d) : k \in Requests /\ Active(d, k)'
  BY WaitersFacts DEF Awaited, Waiters, Active, Still, Weaker
<1>5. (\A k \in Awaited(d)' : call'[d][k].tok # stored'[d]) => Newest(stored[d])
  <2> SUFFICES ASSUME \A k \in Awaited(d)' : call'[d][k].tok # stored'[d]
      PROVE  Newest(stored[d])
    OBVIOUS
  <2>1. \A k \in Awaited(d) : call[d][k].tok # stored[d]
    BY <1>3, <1>4
  <2> QED
    BY <1>2, <2>1 DEF Inv, KeptNewest
<1>6. Newest(stored[d])' <=> Newest(stored[d])
  BY <1>1 DEF Newest
<1>7. agent'[stored'[d]] = d
  BY <1>1, <1>2 DEF Inv, OwnTokens
<1>8. \A k \in Requests : Active(d, k)' /\ origin'[call'[d][k].tok] = origin'[stored'[d]] =>
              k \in Awaited(d)' /\ call'[d][k].tok = stored'[d]
  BY <1>1, <1>2, <1>3 DEF Inv, KeptAwaited
<1> QED
  BY <1>5, <1>6, <1>7, <1>8

(* The three parts about what the phones keep, phone by phone.             *)
Held(d) ==
  stored[d] # 0 =>
    /\ agent[stored[d]] = d
    /\ Clean(stored[d]) =>
         /\ \A k \in Requests : Active(d, k) /\ origin[call[d][k].tok] = origin[stored[d]] =>
              k \in Awaited(d) /\ call[d][k].tok = stored[d]
         /\ (\A k \in Awaited(d) : call[d][k].tok # stored[d]) => Newest(stored[d])

LEMMA HeldNext ==
  ASSUME \A d \in Phones : Held(d)'
  PROVE  (OwnTokens /\ KeptAwaited /\ KeptNewest)'
BY DEF OwnTokens, KeptAwaited, KeptNewest, Held

LEMMA SameHolds ==
  ASSUME Inv, Still, NEW d \in Phones, stored'[d] = stored[d], Awaited(d)' = Awaited(d)
  PROVE  Held(d)'
<1>1. agent'[stored'[d]] = d \/ stored'[d] = 0
  BY DEF Inv, OwnTokens, Still
<1>2. Held(d)' <=>
        (stored'[d] # 0 =>
          /\ agent'[stored'[d]] = d
          /\ Clean(stored[d])' =>
               /\ \A k \in Requests : Active(d, k)' /\ origin'[call'[d][k].tok] = origin'[stored'[d]] =>
                    k \in Awaited(d)' /\ call'[d][k].tok = stored'[d]
               /\ (\A k \in Awaited(d)' : call'[d][k].tok # stored'[d]) => Newest(stored[d])')
  BY DEF Held
<1> QED
  BY <1>1, <1>2, SameHeld

LEMMA CalmInv == Inv /\ TypeOK' /\ Calm => Inv'
<1> SUFFICES ASSUME Inv, TypeOK', Calm PROVE Inv'
  OBVIOUS
<1>1. Still
  BY DEF Calm, Still
<1>2. Typed'
  BY CalmKnown DEF Inv, Typed
<1>3. ASSUME NEW d \in Phones PROVE Held(d)'
  <2>1. CASE stored'[d] = 0
    BY <2>1 DEF Held
  <2>2. CASE stored'[d] = stored[d] /\ Awaited(d)' = Awaited(d)
    BY <1>1, <2>2, SameHolds
  <2> QED
    BY <2>1, <2>2 DEF Calm
<1> QED
  BY <1>1, <1>2, <1>3, HeldNext, StillKeeps DEF Inv

LEMMA TakesInv ==
  ASSUME Inv, TypeOK', NEW d \in Phones, NEW k \in Requests, Takes(d, k)
  PROVE  Inv'
<1> DEFINE n == call[d][k].new
           t == call[d][k].tok
<1>1. /\ UNCHANGED <<table, account>> /\ Still
      /\ used' = used /\ agent' = agent /\ origin' = origin /\ torn' = torn /\ state' = state
  BY DEF Takes, table, account, Still, Inv, Typed, TypeOK
<1>2. Active(d, k) /\ t \in 1..used /\ (n # 0 => n \in 1..used)
  BY TokenFacts DEF Takes, Active, Inv
<1>3. stored' = [stored EXCEPT ![d] = n] /\ stored'[d] = n
  BY DEF Takes, Inv, Typed, TypeOK
<1>4. \A e \in Phones : stored'[e] <= used
  <2>1. n <= used
    BY <1>2 DEF Inv, Typed, Known
  <2> QED
    BY <1>3, <2>1 DEF Inv, Typed, TypeOK, Known
<1>5. Typed'
  BY <1>1, <1>4, StillKnown DEF Inv, Typed
<1>6. ASSUME NEW e \in Phones, e # d PROVE Held(e)'
  <2>1. stored'[e] = stored[e] /\ Awaited(e)' = Awaited(e)
    BY <1>3, <1>6 DEF Takes, Inv, Typed, TypeOK
  <2> QED
    BY <1>1, <2>1, SameHolds
<1>7. Held(d)'
  <2> SUFFICES ASSUME n # 0 PROVE Held(d)'
    BY <1>3 DEF Held
  <2>1. origin[n] = origin[t] /\ agent[t] = d
    BY <1>2 DEF Inv, OwnCalls
  <2>2. agent[n] = d
    BY <1>2, <2>1 DEF Inv, SameOwner
  <2>3. ASSUME Clean(n) PROVE Newest(n) /\ Clean(t)
    BY <1>2, <2>1, <2>3 DEF Clean, Inv, Carried
  <2>4. ASSUME Clean(n), NEW j \in Requests, Active(d, j)' PROVE origin[call'[d][j].tok] # origin[n]
    <3>1. j # k /\ Active(d, j) /\ call'[d][j].tok = call[d][j].tok
      BY <2>4 DEF Takes, Weaker
    <3> QED
      BY <1>2, <2>1, <2>3, <2>4, <3>1 DEF Inv, OneRefresh
  <2> HIDE DEF n
  <2> QED
    BY <1>1, <1>3, <2>2, <2>3, <2>4 DEF Held, Clean, Newest
<1> QED
  BY <1>1, <1>5, <1>6, <1>7, HeldNext, StillKeeps DEF Inv

LEMMA DiesInv ==
  ASSUME Inv, TypeOK', NEW d \in Phones, Dies(d)
  PROVE  Inv'
<1>1. /\ Still /\ stored' = stored
      /\ used' = used /\ agent' = agent /\ origin' = origin /\ state' = state
  BY DEF Dies, table, kept, Still, Inv, Typed, TypeOK
<1>2. Typed'
  BY <1>1, StillKnown DEF Inv, Typed, Known
<1>3. ASSUME NEW e \in Phones, e # d PROVE Held(e)'
  BY <1>1, <1>3, SameHolds DEF Dies
<1>4. Held(d)'
  <2> SUFFICES ASSUME stored[d] # 0, origin[stored[d]] \notin torn'
      PROVE  /\ \A k \in Requests : Active(d, k)' => origin[call'[d][k].tok] # origin[stored[d]]
             /\ Newest(stored[d])
    BY <1>1 DEF Held, Clean, Newest, Inv, OwnTokens
  <2>1. Clean(stored[d]) /\ \A k \in Awaited(d) : origin[call[d][k].tok] # origin[stored[d]]
    BY DEF Dies, Clean
  <2>2. \A k \in Requests : Active(d, k) => origin[call[d][k].tok] # origin[stored[d]]
    BY <2>1 DEF Inv, KeptAwaited
  <2>3. Newest(stored[d])
    BY <2>1 DEF Inv, KeptNewest
  <2> QED
    BY <2>2, <2>3 DEF Dies, Weaker
<1> QED
  BY <1>1, <1>2, <1>3, <1>4, HeldNext, StillKeeps DEF Inv

-----------------------------------------------------------------------------
(* The step that begins a refresh.                                         *)
LEMMA BeginsInv ==
  ASSUME Inv, TypeOK', UNCHANGED <<table, kept, account>>,
         NEW d \in Phones, NEW k \in Requests, Posts(d, k)
  PROVE  Inv'
<1> DEFINE t == stored[d]
<1>1. used' = used /\ state' = state /\ agent' = agent /\ origin' = origin /\ stored' = stored /\ torn' = torn
  BY DEF table, kept, account
<1>2. t # 0 /\ t \in 1..used /\ agent[t] = d
  BY TokenFacts DEF Posts, Inv, OwnTokens
<1>3. /\ call'[d][k].at = "sent" /\ call'[d][k].tok = t /\ call'[d][k].new = 0
      /\ \A e \in Phones, j \in Requests : ~(e = d /\ j = k) => call'[e][j] = call[e][j]
      /\ ~Active(d, k)
      /\ \A e \in Phones : e # d => Awaited(e)' = Awaited(e)
      /\ Awaited(d) = {} /\ Awaited(d)' = {k}
  <2>1. Posted(t).at = "sent" /\ Posted(t).tok = t /\ Posted(t).new = 0
    BY DEF Posted, NoCall
  <2>2. \A e \in Phones : e # d => call'[e] = call[e] /\ req'[e] = req[e]
    BY DEF Posts
  <2>3. \A e \in Phones : e # d => Awaited(e)' = Awaited(e)
    BY <2>2, Untouched DEF Inv
  <2> QED
    BY <2>1, <2>2, <2>3 DEF Posts
<1> HIDE DEF t
<1>4. ASSUME Clean(t)
      PROVE  Newest(t) /\ \A j \in Requests : Active(d, j) => origin[call[d][j].tok] # origin[t]
  BY <1>2, <1>3, <1>4 DEF Inv, KeptNewest, KeptAwaited, t
<1>5. Typed'
  <2>1. \A s \in Rows : (s <= used => origin[s] \in 1..used) /\ (s > used => origin[s] = 0 /\ state[s] = "none")
    BY DEF Inv, Typed, Known
  <2>2. \A e \in Phones : stored[e] <= used
    BY DEF Inv, Typed, Known
  <2>3. \A e \in Phones, j \in Requests :
          call'[e][j].at # "free" => call'[e][j].tok \in 1..used /\ call'[e][j].new <= used
    BY <1>2, <1>3, TokenFacts DEF Inv, Typed, Known, Active
  <2>4. \A e \in Phones, r \in Requests :
          req'[e][r].at \in Waits => req'[e][r].slot \in Requests /\ call'[e][req'[e][r].slot].at # "free"
    <3> TAKE e \in Phones, r \in Requests
    <3>1. CASE e = d
      BY <1>3, <3>1 DEF Posts
    <3>2. CASE e # d
      BY <3>2 DEF Posts, Inv, Typed, Known, Active
    <3> QED
      BY <3>1, <3>2
  <2> QED
    BY <1>1, <2>1, <2>2, <2>3, <2>4 DEF Typed, Known, Active
<1>6. SameOwner' /\ OneSession'
  BY <1>1 DEF Inv, SameOwner, OneSession, Newest
<1>7. OwnTokens' /\ OwnCalls'
  BY <1>1, <1>2, <1>3 DEF Inv, OwnTokens, OwnCalls, Active
<1>8. OneAwaited'
  BY <1>3 DEF Inv, OneAwaited
<1>9. OneRefresh'
  <2> SUFFICES ASSUME NEW e \in Phones, NEW i \in Requests, NEW j \in Requests,
                      Active(e, i)', Active(e, j)', i # j, Clean(call[e][i].tok)',
                      origin'[call'[e][i].tok] = origin'[call'[e][j].tok]
               PROVE  FALSE
    BY DEF OneRefresh
  <2>1. Clean(call[e][i].tok)' <=> origin[call'[e][i].tok] \notin torn
    BY <1>1 DEF Clean
  <2>2. CASE e = d /\ i = k
    BY <1>1, <1>3, <1>4, <2>1, <2>2 DEF Clean, Active
  <2>3. CASE e = d /\ j = k
    BY <1>1, <1>3, <1>4, <2>1, <2>3 DEF Clean, Active
  <2>4. CASE ~(e = d /\ i = k) /\ ~(e = d /\ j = k)
    BY <1>1, <1>3, <2>1, <2>4 DEF Inv, OneRefresh, Clean, Active
  <2> QED
    BY <2>2, <2>3, <2>4
<1>10. KeptAwaited'
  <2> SUFFICES ASSUME NEW e \in Phones, NEW j \in Requests, stored'[e] # 0, Clean(stored[e])',
                      Active(e, j)', origin'[call'[e][j].tok] = origin'[stored'[e]]
               PROVE  j \in Awaited(e)' /\ call'[e][j].tok = stored'[e]
    BY DEF KeptAwaited
  <2>1. Clean(stored[e])
    BY <1>1 DEF Clean
  <2>2. CASE e = d /\ j = k
    BY <1>1, <1>3, <2>2 DEF t
  <2>3. CASE e = d /\ j # k
    BY <1>1, <1>3, <1>4, <2>1, <2>3 DEF t, Active
  <2>4. CASE e # d
    BY <1>1, <1>3, <2>1, <2>4 DEF Inv, KeptAwaited, Active
  <2> QED
    BY <2>2, <2>3, <2>4
<1>11. KeptNewest'
  <2> SUFFICES ASSUME NEW e \in Phones, stored'[e] # 0, Clean(stored[e])',
                      \A j \in Awaited(e)' : call'[e][j].tok # stored'[e]
               PROVE  Newest(stored[e])'
    BY DEF KeptNewest
  <2>1. e # d /\ Clean(stored[e])
    BY <1>1, <1>3 DEF Clean, t
  <2>2. \A j \in Awaited(e) : call[e][j].tok # stored[e]
    BY <1>1, <1>3, <2>1, WaitersFacts DEF Inv
  <2>3. Newest(stored[e])
    BY <1>1, <2>1, <2>2 DEF Inv, KeptNewest
  <2> QED
    BY <1>1, <2>3 DEF Newest
<1>12. Carried'
  <2> SUFFICES ASSUME NEW e \in Phones, NEW j \in Requests, Active(e, j)', Clean(call[e][j].tok)'
               PROVE  /\ call'[e][j].at # "answered" => Newest(call[e][j].tok)'
                      /\ call'[e][j].new # 0 => Newest(call[e][j].new)'
    BY DEF Carried
  <2>1. CASE e = d /\ j = k
    BY <1>1, <1>3, <1>4, <2>1 DEF Clean, Newest
  <2>2. CASE ~(e = d /\ j = k)
    BY <1>1, <1>3, <2>2 DEF Inv, Carried, Clean, Newest, Active
  <2> QED
    BY <2>1, <2>2
<1> QED
  BY <1>5, <1>6, <1>7, <1>8, <1>9, <1>10, <1>11, <1>12 DEF Inv

-----------------------------------------------------------------------------
(* The steps that create a row.                                            *)

(* The row is the newest of its sign-in, and changes nothing for others.   *)
LEMMA NewRow ==
  ASSUME Typed, NEW d \in Phones, NEW o \in 1..(used + 1), CreateRow(d, o)
  PROVE  /\ used' = used + 1 /\ used + 1 \in Rows /\ used \in Nat
         /\ agent'[used + 1] = d /\ origin'[used + 1] = o
         /\ \A s \in 1..used : s \in Rows /\ s # used + 1 /\ agent'[s] = agent[s] /\ origin'[s] = origin[s]
         /\ \A s \in 1..used : origin[s] # o => (Newest(s)' <=> Newest(s))
         /\ \A u \in Rows : origin'[u] = o => u <= used + 1
<1>1. /\ used' = used + 1 /\ used + 1 \in Rows /\ used \in Nat
      /\ agent'[used + 1] = d /\ origin'[used + 1] = o
      /\ \A s \in Rows : s # used + 1 => agent'[s] = agent[s] /\ origin'[s] = origin[s]
  BY CreateFacts
<1>2. \A s \in 1..used : s \in Rows /\ s # used + 1
  BY <1>1, TokenFacts
<1>3. \A s \in Rows : s > used => origin[s] = 0
  BY DEF Typed, Known
<1>4. \A s \in 1..used : origin[s] \in 1..used
  BY TokenFacts
<1>5. ASSUME NEW s \in 1..used, origin[s] # o PROVE Newest(s)' <=> Newest(s)
  <2>1. origin'[s] = origin[s] /\ origin[s] # 0 /\ s \in Rows
    BY <1>1, <1>2, <1>4
  <2>2. Newest(s)' <=> \A u \in Rows : origin'[u] = origin[s] => u <= s
    BY <2>1 DEF Newest
  <2>3. origin[used + 1] = 0 /\ origin'[used + 1] # origin[s]
    BY <1>1, <1>3, <1>5
  <2>4. \A u \in Rows : origin'[u] = origin[s] <=> origin[u] = origin[s]
    BY <1>1, <2>1, <2>3
  <2> QED
    BY <2>2, <2>4 DEF Newest
<1>6. ASSUME NEW u \in Rows, origin'[u] = o, ~(u <= used + 1) PROVE FALSE
  <2>1. u \in Nat
    BY BoundAssumption DEF Rows
  <2>2. u > used /\ u # used + 1
    BY <1>1, <1>6, <2>1
  <2>3. origin'[u] = 0
    BY <1>1, <1>3, <2>2
  <2> QED
    BY <1>6, <2>3
<1> QED
  BY <1>1, <1>2, <1>5, <1>6

LEMMA RotatesInv ==
  ASSUME Inv, TypeOK', NEW d \in Phones, NEW k \in Requests, Rotates(d, k)
  PROVE  Inv'
<1> DEFINE t == call[d][k].tok
           o == origin[t]
           n == used + 1
<1>1. /\ Active(d, k) /\ call[d][k].at # "answered"
      /\ t \in 1..used /\ t \in Rows /\ agent[t] = d /\ o \in 1..used
  <2>1. Active(d, k) /\ call[d][k].at # "answered"
    BY DEF Rotates, Active
  <2> QED
    BY <2>1, TokenFacts DEF Inv, OwnCalls
<1>2. /\ used' = n /\ n \in Rows /\ used \in Nat
      /\ agent'[n] = d /\ origin'[n] = o
      /\ \A s \in 1..used : s \in Rows /\ s # n /\ agent'[s] = agent[s] /\ origin'[s] = origin[s]
      /\ \A s \in 1..used : origin[s] # o => (Newest(s)' <=> Newest(s))
      /\ \A u \in Rows : origin'[u] = o => u <= n
  <2>1. o \in 1..(used + 1)
    BY <1>1, TokenFacts DEF Inv
  <2> QED
    BY <2>1, NewRow DEF Inv, Rotates
<1>3. /\ state' = [state EXCEPT ![t] = "revoked", ![n] = "live"]
      /\ stored' = stored /\ req' = req /\ torn' = torn
      /\ \A e \in Phones : Awaited(e)' = Awaited(e)
      /\ \A e \in Phones, j \in Requests : ~(e = d /\ j = k) => call'[e][j] = call[e][j]
      /\ Active(d, k)' => k \in Awaited(d)
      /\ k \in Awaited(d) => call'[d][k].at = "answered" /\ call'[d][k].tok = t /\ call'[d][k].new = n
  BY DEF Rotates, Active
<1> HIDE DEF t, o, n
<1>4. \A e \in Phones, j \in Requests : Active(e, j)' => Active(e, j) /\ call'[e][j].tok = call[e][j].tok
  BY <1>1, <1>3 DEF Active, t
<1>5. \A e \in Phones, j \in Requests : Active(e, j) =>
        /\ call[e][j].tok \in 1..used /\ agent[call[e][j].tok] = e
        /\ call[e][j].new # 0 => call[e][j].new \in 1..used /\ origin[call[e][j].new] = origin[call[e][j].tok]
  BY TokenFacts DEF Inv, OwnCalls
<1>6. \A e \in Phones : stored[e] # 0 => stored[e] \in 1..used /\ agent[stored[e]] = e
  BY TokenFacts DEF Inv, OwnTokens
<1>7. \A s \in 1..used : origin[s] = o => agent[s] = d
  BY <1>1 DEF Inv, SameOwner, o
<1>8. Typed'
  <2>1. \A s \in Rows : (s <= n => origin'[s] \in 1..n) /\ (s > n => origin'[s] = 0 /\ state'[s] = "none")
    <3> TAKE s \in Rows
    <3>1. s \in Nat
      BY BoundAssumption DEF Rows
    <3>2. CASE s = n
      BY <1>1, <1>2, <3>2 DEF n
    <3>3. CASE s < n
      <4>1. s \in 1..used
        BY <1>2, <3>1, <3>3 DEF n, Rows
      <4>2. origin[s] \in 1..used
        BY <4>1, TokenFacts DEF Inv
      <4> QED
        BY <1>2, <3>3, <4>1, <4>2 DEF n
    <3>4. CASE s > n
      <4>1. s > used /\ s # t /\ s # n
        BY <1>1, <1>2, <3>1, <3>4 DEF n
      <4>2. origin[s] = 0 /\ state[s] = "none"
        BY <4>1 DEF Inv, Typed, Known
      <4>3. origin'[s] = origin[s]
        BY <4>1, <1>1 DEF Rotates, CreateRow, n, Inv, Typed, TypeOK
      <4>4. state'[s] = state[s]
        BY <1>3, <4>1 DEF Inv, Typed, TypeOK
      <4> QED
        BY <1>2, <3>1, <3>4, <4>2, <4>3, <4>4 DEF n
    <3> QED
      BY <1>2, <3>1, <3>2, <3>3, <3>4 DEF n
  <2>2. \A e \in Phones : stored'[e] <= n
    BY <1>2, <1>3, <1>6 DEF n
  <2>3. \A e \in Phones, j \in Requests :
          Active(e, j)' => call'[e][j].tok \in 1..n /\ call'[e][j].new <= n
    <3> SUFFICES ASSUME NEW e \in Phones, NEW j \in Requests, Active(e, j)'
        PROVE  call'[e][j].tok \in 1..n /\ call'[e][j].new <= n
      OBVIOUS
    <3>1. call'[e][j].tok \in 1..n
      BY <1>2, <1>4, <1>5 DEF n
    <3>2. CASE e = d /\ j = k
      BY <1>2, <1>3, <3>1, <3>2 DEF n
    <3>3. CASE ~(e = d /\ j = k)
      BY <1>2, <1>3, <1>4, <1>5, <3>1, <3>3 DEF n
    <3> QED
      BY <3>2, <3>3
  <2>4. \A e \in Phones, r \in Requests :
          req'[e][r].at \in Waits => req'[e][r].slot \in Requests /\ call'[e][req'[e][r].slot].at # "free"
    <3> SUFFICES ASSUME NEW e \in Phones, NEW r \in Requests, req[e][r].at \in Waits
        PROVE  req[e][r].slot \in Requests /\ call'[e][req[e][r].slot].at # "free"
      BY <1>3
    <3>1. req[e][r].slot \in Requests /\ req[e][r].slot \in Awaited(e) /\ Active(e, req[e][r].slot)
      BY WaitersFacts DEF Inv
    <3> QED
      BY <1>3, <3>1 DEF Active
  <2> QED
    BY <1>2, <2>1, <2>2, <2>3, <2>4 DEF Typed, Known, Active
<1>9. SameOwner'
  <2> SUFFICES ASSUME NEW s \in 1..n, NEW u \in 1..n, origin'[s] = origin'[u]
      PROVE  agent'[s] = agent'[u]
    BY <1>2 DEF SameOwner
  <2>1. (s = n \/ s \in 1..used) /\ (u = n \/ u \in 1..used)
    BY <1>2 DEF n
  <2> QED
    BY <1>2, <1>7, <2>1 DEF Inv, SameOwner
<1>10. OwnTokens'
  BY <1>2, <1>3, <1>6 DEF OwnTokens
<1>11. OwnCalls'
  <2> SUFFICES ASSUME NEW e \in Phones, NEW j \in Requests, Active(e, j)'
      PROVE  /\ agent'[call'[e][j].tok] = e
             /\ call'[e][j].new # 0 => origin'[call'[e][j].new] = origin'[call'[e][j].tok]
    BY DEF OwnCalls
  <2>1. agent'[call'[e][j].tok] = e
    BY <1>2, <1>4, <1>5
  <2>2. CASE e = d /\ j = k
    BY <1>1, <1>2, <1>3, <2>1, <2>2 DEF o
  <2>3. CASE ~(e = d /\ j = k)
    BY <1>2, <1>3, <1>4, <1>5, <2>1, <2>3
  <2> QED
    BY <2>2, <2>3
<1>12. OneAwaited'
  BY <1>3 DEF Inv, OneAwaited
<1>13. OneRefresh'
  BY <1>2, <1>3, <1>4, <1>5 DEF Inv, OneRefresh, Clean
<1>14. KeptAwaited'
  BY <1>2, <1>3, <1>4, <1>5, <1>6 DEF Inv, KeptAwaited, Clean
<1>15. KeptNewest'
  <2> SUFFICES ASSUME NEW e \in Phones, stored'[e] # 0, Clean(stored[e])',
                      \A j \in Awaited(e)' : call'[e][j].tok # stored'[e]
               PROVE  Newest(stored[e])'
    BY DEF KeptNewest
  <2>1. stored[e] \in 1..used /\ agent[stored[e]] = e /\ Clean(stored[e])
    BY <1>2, <1>3, <1>6 DEF Clean
  <2>2. \A j \in Awaited(e) : call[e][j].tok # stored[e]
    <3> TAKE j \in Awaited(e)
    <3>1. j \in Requests
      BY WaitersFacts DEF Inv
    <3>2. CASE e = d /\ j = k
      BY <1>3, <3>2 DEF t
    <3>3. CASE ~(e = d /\ j = k)
      BY <1>3, <3>1, <3>3
    <3> QED
      BY <3>2, <3>3
  <2>3. Newest(stored[e])
    BY <1>3, <2>1, <2>2 DEF Inv, KeptNewest
  <2>4. origin[stored[e]] # o
    <3> SUFFICES ASSUME origin[stored[e]] = o PROVE FALSE
      OBVIOUS
    <3>1. e = d
      BY <1>7, <2>1
    <3>2. k \in Awaited(d) /\ call[d][k].tok = stored[d]
      BY <1>1, <1>3, <2>1, <3>1 DEF Inv, KeptAwaited, o, t
    <3> QED
      BY <2>2, <3>1, <3>2
  <2>5. Newest(stored[e])' <=> \A u \in Rows : origin'[u] = origin'[stored[e]] => u <= stored[e]
    BY <1>3 DEF Newest
  <2> QED
    BY <1>2, <2>1, <2>3, <2>4, <2>5 DEF Newest
<1>16. Carried'
  <2> SUFFICES ASSUME NEW e \in Phones, NEW j \in Requests, Active(e, j)', Clean(call[e][j].tok)'
               PROVE  /\ call'[e][j].at # "answered" => Newest(call[e][j].tok)'
                      /\ call'[e][j].new # 0 => Newest(call[e][j].new)'
    BY DEF Carried
  <2>1. CASE e = d /\ j = k
    BY <1>2, <1>3, <2>1 DEF Newest
  <2>2. CASE ~(e = d /\ j = k)
    <3>1. Active(e, j) /\ call'[e][j] = call[e][j] /\ Clean(call[e][j].tok)
      BY <1>2, <1>3, <1>4, <1>5, <2>2 DEF Clean
    <3>2. origin[call[e][j].tok] # o
      <4> SUFFICES ASSUME origin[call[e][j].tok] = o PROVE FALSE
        OBVIOUS
      <4>1. e = d /\ j # k
        BY <1>5, <1>7, <2>2, <3>1
      <4> QED
        BY <1>1, <3>1, <4>1 DEF Inv, OneRefresh, o, t
    <3>3. /\ call[e][j].at # "answered" => Newest(call[e][j].tok)
          /\ call[e][j].new # 0 => Newest(call[e][j].new)
      BY <3>1 DEF Inv, Carried
    <3>4. /\ call[e][j].tok \in 1..used
          /\ call[e][j].new # 0 => call[e][j].new \in 1..used /\ origin[call[e][j].new] # o
      BY <1>5, <3>1, <3>2
    <3> QED
      BY <1>2, <3>1, <3>2, <3>3, <3>4 DEF Newest
  <2> QED
    BY <2>1, <2>2
<1>17. OneSession'
  <2> SUFFICES ASSUME NEW s \in Rows, s <= n, origin'[s] \notin torn, ~Newest(s)'
               PROVE  state'[s] = "revoked"
    BY <1>2, <1>3 DEF OneSession
  <2>1. s \in 1..used /\ s # n /\ origin'[s] = origin[s]
    <3>1. s # n
      BY <1>2 DEF Newest
    <3> QED
      BY <1>2, <3>1, BoundAssumption DEF n, Rows
  <2>2. CASE s = t
    BY <1>1, <1>2, <1>3, <2>1, <2>2 DEF Inv, Typed, TypeOK
  <2>3. CASE s # t
    <3>1. ~Newest(s)
      <4>1. CASE origin[s] # o
        BY <1>2, <2>1, <4>1
      <4>2. CASE origin[s] = o
        <5>1. Newest(t)
          BY <1>1, <2>1, <4>2 DEF Inv, Carried, Clean, o, t
        <5>2. s <= t /\ s # t /\ origin[t] = origin[s]
          BY <1>1, <2>3, <4>2, <5>1 DEF Newest, o
        <5> QED
          BY <1>1, <2>1, <5>2 DEF Newest
      <4> QED
        BY <4>1, <4>2
    <3>2. state[s] = "revoked"
      BY <2>1, <3>1 DEF Inv, OneSession
    <3> QED
      BY <1>3, <2>1, <2>3, <3>2 DEF Inv, Typed, TypeOK
  <2> QED
    BY <2>2, <2>3
<1> QED
  BY <1>8, <1>9, <1>10, <1>11, <1>12, <1>13, <1>14, <1>15, <1>16, <1>17 DEF Inv

LEMMA SignInInv ==
  ASSUME Inv, TypeOK', NEW d \in Phones, SignIn(d)
  PROVE  Inv'
<1> DEFINE n == used + 1
<1>1. /\ used' = n /\ n \in Rows /\ used \in Nat
      /\ agent'[n] = d /\ origin'[n] = n
      /\ \A s \in 1..used : s \in Rows /\ s # n /\ agent'[s] = agent[s] /\ origin'[s] = origin[s]
      /\ \A s \in 1..used : origin[s] # n => (Newest(s)' <=> Newest(s))
      /\ \A u \in Rows : origin'[u] = n => u <= n
  <2>1. n \in 1..(used + 1)
    BY TokenFacts DEF Inv
  <2> QED
    BY <2>1, NewRow DEF Inv, SignIn
<1>2. /\ state' = [state EXCEPT ![n] = "live"] /\ stored' = [stored EXCEPT ![d] = n]
      /\ req' = req /\ call' = call /\ torn' = torn
  BY DEF SignIn, account
<1> HIDE DEF n
<1>3. \A s \in 1..used : origin[s] \in 1..used /\ origin[s] # n /\ (Newest(s)' <=> Newest(s))
  <2>1. \A s \in 1..used : origin[s] \in 1..used
    BY TokenFacts DEF Inv
  <2>2. n \notin 1..used
    BY <1>1 DEF n
  <2> QED
    BY <1>1, <2>1, <2>2
<1>4. \A e \in Phones, j \in Requests :
        /\ Active(e, j)' <=> Active(e, j)
        /\ Active(e, j) =>
             /\ call[e][j].tok \in 1..used /\ agent[call[e][j].tok] = e
             /\ call[e][j].new # 0 => call[e][j].new \in 1..used /\ origin[call[e][j].new] = origin[call[e][j].tok]
  BY <1>2, TokenFacts DEF Inv, OwnCalls, Active
<1>5. /\ stored'[d] = n
      /\ \A e \in Phones : e # d /\ stored[e] # 0 => stored[e] \in 1..used /\ agent[stored[e]] = e
      /\ \A e \in Phones : e # d => stored'[e] = stored[e]
  BY <1>2, TokenFacts DEF Inv, OwnTokens, Typed, TypeOK
<1>6. \A e \in Phones : Awaited(e)' = Awaited(e)
  BY <1>2 DEF Awaited, Waiters
<1>7. Typed'
  <2>1. \A s \in Rows : (s <= n => origin'[s] \in 1..n) /\ (s > n => origin'[s] = 0 /\ state'[s] = "none")
    <3> TAKE s \in Rows
    <3>1. s \in Nat
      BY BoundAssumption DEF Rows
    <3>2. CASE s = n
      BY <1>1, <3>2 DEF n
    <3>3. CASE s < n
      <4>1. s \in 1..used
        BY <1>1, <3>1, <3>3 DEF n, Rows
      <4> QED
        BY <1>1, <1>3, <3>3, <4>1 DEF n
    <3>4. CASE s > n
      <4>1. s > used /\ s # n
        BY <1>1, <3>1, <3>4 DEF n
      <4>2. origin[s] = 0 /\ state[s] = "none"
        BY <4>1 DEF Inv, Typed, Known
      <4>3. origin'[s] = origin[s]
        BY <4>1 DEF SignIn, CreateRow, n, Inv, Typed, TypeOK
      <4>4. state'[s] = state[s]
        BY <1>2, <4>1 DEF Inv, Typed, TypeOK
      <4> QED
        BY <1>1, <3>1, <3>4, <4>2, <4>3, <4>4 DEF n
    <3> QED
      BY <1>1, <3>1, <3>2, <3>3, <3>4 DEF n
  <2>2. \A e \in Phones : stored'[e] <= n
    <3> TAKE e \in Phones
    <3>1. CASE e = d
      BY <1>1, <1>5, <3>1 DEF n
    <3>2. CASE e # d
      BY <1>1, <1>5, <3>2 DEF n
    <3> QED
      BY <3>1, <3>2
  <2>3. \A e \in Phones, j \in Requests :
          Active(e, j)' => call'[e][j].tok \in 1..n /\ call'[e][j].new <= n
    BY <1>1, <1>2, <1>4 DEF n
  <2>4. \A e \in Phones, r \in Requests :
          req[e][r].at \in Waits => req[e][r].slot \in Requests /\ call[e][req[e][r].slot].at # "free"
    BY DEF Inv, Typed, Known, Active
  <2> QED
    BY <1>1, <1>2, <2>1, <2>2, <2>3, <2>4 DEF Typed, Known, Active
<1>8. SameOwner'
  <2> SUFFICES ASSUME NEW s \in 1..n, NEW u \in 1..n, origin'[s] = origin'[u]
      PROVE  agent'[s] = agent'[u]
    BY <1>1 DEF SameOwner
  <2>1. (s = n \/ s \in 1..used) /\ (u = n \/ u \in 1..used)
    BY <1>1 DEF n
  <2> QED
    BY <1>1, <1>3, <2>1 DEF Inv, SameOwner
<1>9. OwnTokens'
  BY <1>1, <1>5 DEF OwnTokens
<1>10. OwnCalls'
  BY <1>1, <1>2, <1>4 DEF OwnCalls
<1>11. OneAwaited' /\ OneRefresh'
  BY <1>1, <1>2, <1>4, <1>6 DEF Inv, OneAwaited, OneRefresh, Clean
<1>12. KeptAwaited'
  <2> SUFFICES ASSUME NEW e \in Phones, NEW j \in Requests, stored'[e] # 0, Clean(stored[e])',
                      Active(e, j)', origin'[call'[e][j].tok] = origin'[stored'[e]]
               PROVE  j \in Awaited(e)' /\ call'[e][j].tok = stored'[e]
    BY DEF KeptAwaited
  <2>1. origin'[call'[e][j].tok] = origin[call[e][j].tok] /\ origin[call[e][j].tok] # n
    BY <1>1, <1>2, <1>3, <1>4
  <2>2. CASE e = d
    BY <1>1, <1>5, <2>1, <2>2
  <2>3. CASE e # d
    BY <1>1, <1>2, <1>4, <1>5, <1>6, <2>1, <2>3 DEF Inv, KeptAwaited, Clean
  <2> QED
    BY <2>2, <2>3
<1>13. KeptNewest'
  <2> SUFFICES ASSUME NEW e \in Phones, stored'[e] # 0, Clean(stored[e])',
                      \A j \in Awaited(e)' : call'[e][j].tok # stored'[e]
               PROVE  \A u \in Rows : origin'[u] = origin'[stored'[e]] => u <= stored'[e]
    BY DEF KeptNewest, Newest
  <2>1. CASE e = d
    BY <1>1, <1>5, <2>1
  <2>2. CASE e # d
    <3>1. stored'[e] = stored[e] /\ stored[e] \in 1..used /\ Clean(stored[e])
      BY <1>1, <1>2, <1>5, <2>2 DEF Clean
    <3>2. Newest(stored[e])
      BY <1>2, <1>6, <3>1 DEF Inv, KeptNewest
    <3> QED
      BY <1>3, <3>1, <3>2 DEF Newest
  <2> QED
    BY <2>1, <2>2
<1>14. Carried'
  <2> SUFFICES ASSUME NEW e \in Phones, NEW j \in Requests, Active(e, j)', Clean(call[e][j].tok)'
               PROVE  /\ call'[e][j].at # "answered" => Newest(call[e][j].tok)'
                      /\ call'[e][j].new # 0 => Newest(call[e][j].new)'
    BY DEF Carried
  <2>1. Clean(call[e][j].tok) /\ Active(e, j)
    BY <1>1, <1>2, <1>4 DEF Clean
  <2> QED
    BY <1>2, <1>3, <1>4, <2>1 DEF Inv, Carried, Newest
<1>15. OneSession'
  <2> SUFFICES ASSUME NEW s \in Rows, s <= n, origin'[s] \notin torn, ~Newest(s)'
               PROVE  state'[s] = "revoked"
    BY <1>1, <1>2 DEF OneSession
  <2>1. s # n
    BY <1>1 DEF Newest
  <2>2. s \in 1..used
    BY <1>1, <2>1, BoundAssumption DEF n, Rows
  <2> QED
    BY <1>1, <1>2, <1>3, <2>1, <2>2 DEF Inv, OneSession, Typed, TypeOK
<1> QED
  BY <1>7, <1>8, <1>9, <1>10, <1>11, <1>12, <1>13, <1>14, <1>15 DEF Inv

-----------------------------------------------------------------------------
LEMMA InvNext == Inv /\ [Next]_vars => Inv'
<1> SUFFICES ASSUME Inv, [Next]_vars PROVE Inv'
  OBVIOUS
<1>1. Typed
  BY DEF Inv
<1>2. CASE ChangePassword \/ UpdateUserStatus \/ BrowserReplays
  <2>1. CASE ChangePassword \/ BrowserReplays
    <3>1. CutOff /\ (RevokeAll(call) \/ RevokeRows(call)) /\ active' \in BOOLEAN
      BY <1>1, <2>1 DEF ChangePassword, BrowserReplays, Typed, TypeOK
    <3> QED
      BY <1>1, <3>1, CutOffCalm, CalmInv
  <2>2. CASE UpdateUserStatus
    BY <1>1, <2>2, UpdateUserStatusCalm, CalmInv
  <2> QED
    BY <1>2, <2>1, <2>2
<1>3. ASSUME NEW d \in Phones, SignIn(d) PROVE Inv'
  BY <1>1, <1>3, SignInTypes, SignInInv
<1>4. ASSUME NEW d \in Phones, LogOut(d) PROVE Inv'
  BY <1>1, <1>4, LogOutCalm, CalmInv
<1>5. ASSUME NEW d \in Phones, Kill(d) PROVE Inv'
  BY <1>1, <1>5, KillDies, DiesInv
<1>6. ASSUME NEW d \in Phones, AccessExpires(d) PROVE Inv'
  BY <1>1, <1>6, AccessExpiresCalm, CalmInv
<1>7. ASSUME NEW d \in Phones, NEW r \in Requests, Request(d, r) PROVE Inv'
  BY <1>1, <1>7, RequestCalm, CalmInv, BeginsInv DEF Begins
<1>8. ASSUME NEW d \in Phones, NEW r \in Requests, RequestOver(d, r) PROVE Inv'
  <2>1. CASE Accepted(d, r) \/ Failed(d, r)
    BY <1>1, <2>1, AcceptedCalm, CalmInv
  <2>2. CASE Unauthorized(d, r)
    BY <1>1, <2>2, UnauthorizedCalm, CalmInv, BeginsInv DEF Begins
  <2> QED
    BY <1>8, <2>1, <2>2 DEF RequestOver
<1>9. ASSUME NEW d \in Phones, NEW k \in Requests, RefreshStep(d, k) PROVE Inv'
  <2>1. CASE RefreshFind(d, k)
    BY <1>1, <2>1, RefreshFindCalm, CalmInv
  <2>2. CASE RefreshRotate(d, k)
    BY <1>1, <2>2, RefreshRotates, RotatesInv
  <2>3. CASE RefreshFails(d, k)
    BY <1>1, <2>3, RefreshFailsCalm, CalmInv
  <2> QED
    BY <1>9, <2>1, <2>2, <2>3 DEF RefreshStep
<1>10. ASSUME NEW d \in Phones, NEW k \in Requests, RefreshDropped(d, k) PROVE Inv'
  BY <1>1, <1>10, RefreshDroppedCalm, CalmInv
<1>11. ASSUME NEW d \in Phones, NEW k \in Requests, RefreshDone(d, k) PROVE Inv'
  BY <1>1, <1>11, RefreshDoneTakes, TakesInv
<1>12. ASSUME NEW d \in Phones, NEW k \in Requests, RefreshLost(d, k) PROVE Inv'
  BY <1>1, <1>12, RefreshLostCalm, CalmInv
<1>13. CASE UNCHANGED vars
  <2>1. UNCHANGED <<used, state, agent, origin, stored, access, req, call, active, torn, cutoffs, kills>>
    BY <1>13 DEF vars, table, kept, account
  <2>2. TypeOK'
    BY <1>1, <2>1 DEF Typed, TypeOK
  <2>3. \A e \in Phones : Weaker(e) /\ Awaited(e)' = Awaited(e)
    BY <1>1, <2>1, Untouched
  <2>4. Calm
    BY <2>1, <2>3 DEF Calm
  <2> QED
    BY <2>2, <2>4, CalmInv
<1> QED
  BY <1>2, <1>3, <1>4, <1>5, <1>6, <1>7, <1>8, <1>9, <1>10, <1>11, <1>12, <1>13 DEF Next

LEMMA InvAlways == Spec => []Inv
<1> QED
  BY InvInit, InvNext, PTL DEF Spec

(* The state of the API and of the phones has its type.                    *)
THEOREM TypeCorrect == Spec => []TypeOK
<1>1. Inv => TypeOK
  BY DEF Inv, Typed
<1> QED
  BY <1>1, InvAlways, PTL

(* However the requests of a phone overlap with its refreshes, and         *)
(* whatever answer is lost, it never keeps a token it has exchanged.       *)
THEOREM NeverReplays == Spec => []PhoneNeverReplays
<1>1. Inv => PhoneNeverReplays
  BY DEF Inv, KeptNewest, Clean, PhoneNeverReplays
<1> QED
  BY <1>1, InvAlways, PTL

(* At most the newest row of a sign-in is not revoked.                     *)
THEOREM OneSessionEach == Spec => []OneSession
<1>1. Inv => OneSession
  BY DEF Inv
<1> QED
  BY <1>1, InvAlways, PTL

-----------------------------------------------------------------------------
(* Reuse detection.  What the newest row of each sign-in is worth depends  *)
(* on what never strikes, so this is an induction of its own on top of Inv. *)
Undisturbed == cutoffs = 0 /\ torn = {}

NewestLive == Undisturbed => \A s \in 1..used : Newest(s) => state[s] = "live"

(* A token at the API is the newest of its sign-in, hence not revoked.     *)
LEMMA SentIsLive ==
  ASSUME Inv, NewestLive, Undisturbed, NEW d \in Phones, NEW k \in Requests, call[d][k].at = "sent"
  PROVE  state[call[d][k].tok] = "live"
<1>1. Active(d, k) /\ call[d][k].tok \in 1..used
  BY TokenFacts DEF Inv, Active
<1>2. Newest(call[d][k].tok)
  BY <1>1 DEF Inv, Carried, Clean, Undisturbed
<1> QED
  BY <1>1, <1>2 DEF NewestLive

(* The steps that leave the table of sessions alone.                       *)
TableKept == UNCHANGED <<used, state, origin>> /\ cutoffs' = cutoffs /\ torn \subseteq torn'

LEMMA MostKeepTheTable ==
  ASSUME NEW d \in Phones, NEW r \in Requests,
         \/ LogOut(d) \/ Kill(d) \/ AccessExpires(d) \/ Request(d, r) \/ RequestOver(d, r)
         \/ RefreshFails(d, r) \/ RefreshDropped(d, r) \/ RefreshDone(d, r) \/ RefreshLost(d, r)
  PROVE  TableKept
<1>1. CASE LogOut(d) \/ AccessExpires(d) \/ Request(d, r)
  BY <1>1 DEF LogOut, AccessExpires, Request, TableKept, table, account
<1>2. CASE Kill(d)
  BY <1>2 DEF Kill, TableKept, table
<1>3. CASE RequestOver(d, r)
  BY <1>3 DEF RequestOver, Accepted, Unauthorized, Failed, TableKept, table, account
<1>4. CASE RefreshFails(d, r) \/ RefreshDropped(d, r) \/ RefreshDone(d, r) \/ RefreshLost(d, r)
  BY <1>4 DEF RefreshFails, RefreshDropped, RefreshDone, RefreshLost, TableKept, table, account
<1> QED
  BY <1>1, <1>2, <1>3, <1>4

LEMMA KeptTableLive == Inv /\ NewestLive /\ TableKept => NewestLive'
<1> SUFFICES ASSUME Inv, NewestLive, TableKept, Undisturbed'
             PROVE  \A s \in 1..used' : Newest(s)' => state'[s] = "live"
  BY DEF NewestLive
<1>1. Undisturbed
  BY DEF TableKept, Undisturbed
<1> QED
  BY <1>1 DEF TableKept, NewestLive, Newest

(* A lookup finds the row live: the alarm is not given.                    *)
LEMMA FindKeepsTable ==
  ASSUME Inv, NewestLive, Undisturbed, NEW d \in Phones, NEW k \in Requests, RefreshFind(d, k)
  PROVE  TableKept
<1>1. call[d][k].at = "sent" /\ state[call[d][k].tok] = "live"
  BY SentIsLive DEF RefreshFind
<1> QED
  BY <1>1 DEF RefreshFind, TableKept, table, account

(* A new row takes the place of the newest of its sign-in.                 *)
LEMMA NewRowLive ==
  ASSUME Inv, NewestLive, Undisturbed, NEW d \in Phones, NEW o \in 1..(used + 1), CreateRow(d, o),
         state'[used + 1] = "live",
         \A s \in 1..used : origin[s] # o => state'[s] = state[s]
  PROVE  \A s \in 1..used' : Newest(s)' => state'[s] = "live"
<1>1. /\ used' = used + 1 /\ used + 1 \in Rows /\ used \in Nat /\ origin'[used + 1] = o
      /\ \A s \in 1..used : s \in Rows /\ s # used + 1 /\ origin'[s] = origin[s]
      /\ \A s \in 1..used : origin[s] # o => (Newest(s)' <=> Newest(s))
  BY NewRow DEF Inv
<1> SUFFICES ASSUME NEW s \in 1..used', Newest(s)' PROVE state'[s] = "live"
  OBVIOUS
<1>2. CASE s = used + 1
  BY <1>2
<1>3. CASE s # used + 1
  <2>1. s \in 1..used
    BY <1>1, <1>3
  <2>2. origin[s] # o
    BY <1>1, <2>1 DEF Newest
  <2> QED
    BY <1>1, <2>1, <2>2 DEF NewestLive
<1> QED
  BY <1>2, <1>3

LEMMA NewestLiveNext == Inv /\ NewestLive /\ [Next]_vars => NewestLive'
<1> SUFFICES ASSUME Inv, NewestLive, [Next]_vars PROVE NewestLive'
  OBVIOUS
<1>1. CASE ChangePassword \/ UpdateUserStatus \/ BrowserReplays
  <2>1. CASE CutOff
    <3>1. cutoffs' # 0
      BY <2>1, BoundAssumption DEF CutOff, Inv, Typed, TypeOK
    <3> QED
      BY <3>1 DEF NewestLive, Undisturbed
  <2>2. CASE UNCHANGED <<table, kept, req, call, torn, cutoffs, kills>>
    <3>1. TableKept
      BY <2>2 DEF table, TableKept
    <3> QED
      BY <3>1, KeptTableLive
  <2> QED
    BY <1>1, <2>1, <2>2 DEF ChangePassword, UpdateUserStatus, BrowserReplays
<1>2. ASSUME NEW d \in Phones, SignIn(d) PROVE NewestLive'
  <2> SUFFICES ASSUME Undisturbed' PROVE \A s \in 1..used' : Newest(s)' => state'[s] = "live"
    BY DEF NewestLive
  <2>1. Undisturbed /\ CreateRow(d, used + 1) /\ state' = [state EXCEPT ![used + 1] = "live"]
    BY <1>2 DEF SignIn, Undisturbed, account
  <2>2. used \in Nat /\ used + 1 \in 1..(used + 1) /\ used + 1 \in Rows
    BY <2>1, CreateFacts, TokenFacts DEF Inv
  <2>3. \A s \in 1..used : s # used + 1 /\ s \in Rows
    BY <2>2, TokenFacts DEF Inv
  <2>4. state'[used + 1] = "live" /\ \A s \in 1..used : state'[s] = state[s]
    BY <2>1, <2>2, <2>3 DEF Inv, Typed, TypeOK
  <2> QED
    BY <2>1, <2>2, <2>4, NewRowLive
<1>3. ASSUME NEW d \in Phones, LogOut(d) \/ Kill(d) \/ AccessExpires(d) PROVE NewestLive'
  <2>1. TableKept
    BY <1>3 DEF LogOut, Kill, AccessExpires, TableKept, table, account
  <2> QED
    BY <2>1, KeptTableLive
<1>4. ASSUME NEW d \in Phones, NEW r \in Requests, Request(d, r) \/ RequestOver(d, r) PROVE NewestLive'
  BY <1>4, MostKeepTheTable, KeptTableLive
<1>5. ASSUME NEW d \in Phones, NEW k \in Requests, RefreshStep(d, k) PROVE NewestLive'
  <2>1. CASE RefreshFind(d, k)
    <3> SUFFICES ASSUME Undisturbed' PROVE NewestLive'
      BY DEF NewestLive
    <3>1. Undisturbed
      BY <2>1 DEF RefreshFind, Undisturbed, account
    <3> QED
      BY <2>1, <3>1, FindKeepsTable, KeptTableLive
  <2>2. CASE RefreshRotate(d, k)
    <3> DEFINE t == call[d][k].tok
    <3> SUFFICES ASSUME Undisturbed' PROVE \A s \in 1..used' : Newest(s)' => state'[s] = "live"
      BY DEF NewestLive
    <3>1. /\ Undisturbed /\ CreateRow(d, origin[t])
          /\ state' = [state EXCEPT ![t] = "revoked", ![used + 1] = "live"]
      BY <2>2 DEF RefreshRotate, Undisturbed, account
    <3>2. t \in 1..used /\ origin[t] \in 1..(used + 1)
      BY <2>2, TokenFacts DEF RefreshRotate, Active, Inv
    <3>3. used \in Nat /\ used + 1 \in Rows /\ \A s \in 1..used : s # used + 1 /\ s \in Rows
      BY <3>1, <3>2, CreateFacts, TokenFacts DEF Inv
    <3> HIDE DEF t
    <3>4. /\ state'[used + 1] = "live"
          /\ \A s \in 1..used : origin[s] # origin[t] => state'[s] = state[s]
      BY <3>1, <3>2, <3>3 DEF Inv, Typed, TypeOK
    <3> QED
      BY <3>1, <3>2, <3>4, NewRowLive
  <2>3. CASE RefreshFails(d, k)
    BY <2>3, MostKeepTheTable, KeptTableLive
  <2> QED
    BY <1>5, <2>1, <2>2, <2>3 DEF RefreshStep
<1>6. ASSUME NEW d \in Phones, NEW k \in Requests,
             RefreshDropped(d, k) \/ RefreshDone(d, k) \/ RefreshLost(d, k)
      PROVE  NewestLive'
  BY <1>6, MostKeepTheTable, KeptTableLive
<1>7. CASE UNCHANGED vars
  <2>1. TableKept
    BY <1>7 DEF vars, table, account, TableKept
  <2> QED
    BY <2>1, KeptTableLive
<1> QED
  BY <1>1, <1>2, <1>3, <1>4, <1>5, <1>6, <1>7 DEF Next

(* Phones do not set reuse detection off by themselves, however many of    *)
(* them and of their requests overlap and whatever answers are lost: it    *)
(* takes a cut-off (a change of the password, an admin, the user's browser)*)
(* or an app killed during a refresh.                                      *)
THEOREM AlarmsAreReal == Spec => []NoFalseAlarm
<1>1. Init => NewestLive
  BY DEF Init, NewestLive
<1>2. Inv /\ NewestLive => NoFalseAlarm
  BY SentIsLive DEF NoFalseAlarm, Undisturbed
<1> QED
  BY <1>1, <1>2, InvAlways, NewestLiveNext, PTL DEF Spec
=============================================================================
