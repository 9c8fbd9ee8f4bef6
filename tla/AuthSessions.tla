---------------------------- MODULE AuthSessions ----------------------------
(***************************************************************************)
(* The Session rows of one user and the phones that hold their tokens.     *)
(* A refresh exchanges a row for a new one; a token whose row is revoked   *)
(* is taken for stolen, and every row of the user is revoked.  ApiClient,  *)
(* on the phone, therefore lets its requests share one refresh and drops   *)
(* its tokens when the refresh fails.  It has a timer for a request, none  *)
(* for a refresh.  A refresh token is named by its row; of an access token *)
(* only its validity matters.                                              *)
(***************************************************************************)
EXTENDS Naturals

CONSTANTS
  Phones,      \* the user's phones
  Requests,    \* requests a phone has under way, also its refreshes
  MaxRows,     \* bound: Session rows
  MaxCutOffs,  \* bound: cut-offs, see CutOff
  MaxKills,    \* bound: kills of an app
  NoPhone      \* no phone

ASSUME PhoneAssumption == NoPhone \notin Phones
ASSUME RequestAssumption == Requests \subseteq Nat \ {0}
ASSUME BoundAssumption == MaxRows \in Nat /\ MaxCutOffs \in Nat /\ MaxKills \in Nat

VARIABLES
  used,     \* rows so far
  state,    \* of a row: revokedAt
  agent,    \* its userAgent: the phone
  origin,   \* history: the row its sign-in began with
  stored,   \* the refresh token a phone keeps, or 0
  access,   \* its access token: exp, and iat against User.sessionsRevokedAt
  req,      \* what each request is doing
  call,     \* the POST /auth/refresh of a phone
  active,   \* User.status: neither SUSPENDED nor DELETED
  torn,     \* history: sign-ins whose app was killed during a refresh
  cutoffs, kills

table == <<used, state, agent, origin>>
kept == <<stored, access>>
account == <<active, torn, cutoffs, kills>>
vars == <<table, kept, req, call, account>>

Rows == 1..MaxRows
Tokens == 0..MaxRows   \* 0: none
Access == {"none", "good", "expired", "revoked"}

(* head: waits for the refresh before it is sent; sent: at the API; ref:   *)
(* waits for the refresh after a 401; again: is to be tried again.         *)
Waits == {"head", "ref"}
Steps == Waits \cup {"idle", "sent", "again"}
Reqs == [at : Steps, try : {1, 2}, tok : Access, slot : Requests \cup {0}]
IdleReq == [at |-> "idle", try |-> 1, tok |-> "none", slot |-> 0]
Sent(n, a) == [at |-> "sent", try |-> n, tok |-> a, slot |-> 0]
Waiting(w, n, k) == [at |-> w, try |-> n, tok |-> "none", slot |-> k]

(* found: its row was valid when read; overtaken: and every row was        *)
(* revoked since.                                                          *)
Calls == [at : {"free", "sent", "found", "overtaken", "answered"},
          tok : Tokens, new : Tokens, access : Access]
NoCall == [at |-> "free", tok |-> 0, new |-> 0, access |-> "none"]
Posted(t) == [NoCall EXCEPT !.at = "sent", !.tok = t]
Answered(c, t, a) == [at |-> "answered", tok |-> c.tok, new |-> t, access |-> a]

TypeOK ==
  /\ used \in 0..MaxRows
  /\ state \in [Rows -> {"none", "live", "revoked"}]
  /\ agent \in [Rows -> Phones \cup {NoPhone}]
  /\ origin \in [Rows -> Tokens]
  /\ stored \in [Phones -> Tokens]
  /\ access \in [Phones -> Access]
  /\ req \in [Phones -> [Requests -> Reqs]]
  /\ call \in [Phones -> [Requests -> Calls]]
  /\ active \in BOOLEAN
  /\ torn \subseteq Rows
  /\ cutoffs \in 0..MaxCutOffs
  /\ kills \in 0..MaxKills

Init ==
  /\ used = 0
  /\ state = [s \in Rows |-> "none"]
  /\ agent = [s \in Rows |-> NoPhone]
  /\ origin = [s \in Rows |-> 0]
  /\ stored = [d \in Phones |-> 0]
  /\ access = [d \in Phones |-> "none"]
  /\ req = [d \in Phones |-> [r \in Requests |-> IdleReq]]
  /\ call = [d \in Phones |-> [k \in Requests |-> NoCall]]
  /\ active = TRUE
  /\ torn = {}
  /\ cutoffs = 0
  /\ kills = 0

(* The requests of d that wait for its refresh k.                          *)
Waiters(d, k) == {r \in Requests : req[d][r].at \in Waits /\ req[d][r].slot = k}
Awaited(d) == {k \in Requests : Waiters(d, k) # {}}
FreeSlots(d) == {k \in Requests : call[d][k].at = "free"}
FreeSlot(d) == CHOOSE k \in FreeSlots(d) : TRUE   \* which one does not matter

(* The API answers 401: the request came without a token, with one that    *)
(* has expired or was revoked, or the user is suspended or deleted.        *)
Rejected(q) == q.at = "sent" /\ (q.tok # "good" \/ ~active)

-----------------------------------------------------------------------------
(* The API.                                                                *)

(* session.create: a row of phone d, whose sign-in began with row o.       *)
CreateRow(d, o) ==
  /\ used < MaxRows
  /\ used' = used + 1
  /\ agent' = [agent EXCEPT ![used + 1] = d]
  /\ origin' = [origin EXCEPT ![used + 1] = o]

(* An access token once all were revoked.                                  *)
Revoked(a) == IF a = "good" THEN "revoked" ELSE a

(* session.updateMany; c are the calls as the step leaves them.            *)
RevokeRows(c) ==
  /\ state' = [s \in Rows |-> IF state[s] = "live" THEN "revoked" ELSE state[s]]
  /\ call' = c
  /\ UNCHANGED <<used, agent, origin, kept, req>>

(* The same with sessionsRevokedAt; c are the calls but for that.          *)
RevokeAll(c) ==
  /\ state' = [s \in Rows |-> IF state[s] = "live" THEN "revoked" ELSE state[s]]
  /\ access' = [d \in Phones |-> Revoked(access[d])]
  /\ req' = [d \in Phones |-> [r \in Requests |->
              [req[d][r] EXCEPT !.tok = Revoked(req[d][r].tok)]]]
  /\ call' = [d \in Phones |-> [k \in Requests |->
               [c[d][k] EXCEPT !.at = IF c[d][k].at = "found" THEN "overtaken" ELSE c[d][k].at,
                               !.access = Revoked(c[d][k].access)]]]
  /\ UNCHANGED <<used, agent, origin, stored>>

(* login, through finalizeLogin, and the phone keeps the tokens, whatever  *)
(* it kept: it shows its login screen also when it starts with an expired  *)
(* access token and a refresh token.  The status was read before the       *)
(* second factor, and may have changed since.                              *)
SignIn(d) ==
  /\ CreateRow(d, used + 1)
  /\ state' = [state EXCEPT ![used + 1] = "live"]
  /\ stored' = [stored EXCEPT ![d] = used + 1]
  /\ access' = [access EXCEPT ![d] = "good"]
  /\ UNCHANGED <<req, call, account>>

(* A cut-off: every row is revoked, by other than a refresh of a phone.    *)
CutOff ==
  /\ cutoffs < MaxCutOffs
  /\ cutoffs' = cutoffs + 1
  /\ UNCHANGED <<torn, kills>>

(* changePassword, passwordResetConfirm.                                   *)
ChangePassword ==
  /\ CutOff
  /\ RevokeAll(call)
  /\ UNCHANGED active

(* updateUserStatus to SUSPENDED or DELETED; and back to ACTIVE.           *)
UpdateUserStatus ==
  \/ /\ CutOff
     /\ RevokeAll(call)
     /\ active' = FALSE
  \/ /\ ~active
     /\ active' = TRUE
     /\ UNCHANGED <<table, kept, req, call, torn, cutoffs, kills>>

(* The user's browser, whose requests each refresh on their own, sends a   *)
(* token a second time: refresh takes it for stolen, as in RefreshFind.    *)
(* Its own rows are not in the table.                                      *)
BrowserReplays ==
  /\ CutOff
  /\ RevokeRows(call) \/ RevokeAll(call)
  /\ UNCHANGED active

(* The refresh is answered with token t, or 0; nobody waits for some.      *)
Answer(d, k, t, a) ==
  [call EXCEPT ![d][k] = IF Waiters(d, k) = {} THEN NoCall ELSE Answered(@, t, a)]

(* refresh looks for a valid row; if there is a revoked one instead, every *)
(* row of the user is revoked, and then the access tokens, unless that     *)
(* second write fails.                                                     *)
RefreshFind(d, k) ==
  LET t == call[d][k].tok
  IN /\ call[d][k].at = "sent"
     /\ \/ /\ state[t] = "live"
           /\ call' = [call EXCEPT ![d][k].at = "found"]
           /\ UNCHANGED <<table, kept, req>>
        \/ /\ state[t] = "revoked"
           /\ LET c == Answer(d, k, 0, "none") IN RevokeRows(c) \/ RevokeAll(c)
     /\ UNCHANGED account

(* Its transaction: the row that was found is revoked, whatever it is by   *)
(* now, and a new one created; the access token was made before.           *)
RefreshRotate(d, k) ==
  LET t == call[d][k].tok
  IN /\ call[d][k].at \in {"found", "overtaken"}
     /\ CreateRow(d, origin[t])
     /\ state' = [state EXCEPT ![t] = "revoked", ![used + 1] = "live"]
     /\ call' = Answer(d, k, used + 1,
                       IF call[d][k].at = "found" THEN "good" ELSE "revoked")
     /\ UNCHANGED <<kept, req, account>>

(* An answer other than 200: the row is past its thirty days, the database *)
(* fails, the rate limit is met.                                           *)
RefreshFails(d, k) ==
  /\ call[d][k].at \in {"sent", "found", "overtaken"}
  /\ call' = Answer(d, k, 0, "none")
  /\ UNCHANGED <<table, kept, req, account>>

(* A refresh nobody waits for any more may not have arrived.               *)
RefreshDropped(d, k) ==
  /\ call[d][k].at = "sent"
  /\ Waiters(d, k) = {}
  /\ call' = [call EXCEPT ![d][k] = NoCall]
  /\ UNCHANGED <<table, kept, req, account>>

(* An access token after fifteen minutes.                                  *)
Expired(a) == IF a = "none" THEN "none" ELSE "expired"

AccessExpires(d) ==
  /\ access[d] \in {"good", "revoked"}
  /\ access' = [access EXCEPT ![d] = Expired(@)]
  /\ req' = [req EXCEPT ![d] = [r \in Requests |->
              [req[d][r] EXCEPT !.tok = Expired(req[d][r].tok)]]]
  /\ UNCHANGED <<table, stored, call, account>>

-----------------------------------------------------------------------------
(* A phone: ApiClient.                                                     *)

(* Faulty variant: every request refreshes on its own.                     *)
RefreshAccessToken_Alone(d, r, w, n) ==
  /\ stored[d] # 0
  /\ FreeSlots(d) # {}
  /\ req' = [req EXCEPT ![d][r] = Waiting(w, n, FreeSlot(d))]
  /\ call' = [call EXCEPT ![d][FreeSlot(d)] = Posted(stored[d])]

(* refreshAccessToken, then wait at w: joins the refresh under way, or     *)
(* begins one.                                                             *)
RefreshAccessToken(d, r, w, n) ==
  \/ \E k \in Awaited(d) :
       /\ req' = [req EXCEPT ![d][r] = Waiting(w, n, k)]
       /\ UNCHANGED call
  \/ /\ Awaited(d) = {}
     /\ stored[d] # 0
     /\ FreeSlots(d) # {}
     /\ req' = [req EXCEPT ![d][r] = Waiting(w, n, FreeSlot(d))]
     /\ call' = [call EXCEPT ![d][FreeSlot(d)] = Posted(stored[d])]

(* executeRequest, for the n-th time, with buildAuthHeader: a token about  *)
(* to expire is refreshed first.                                           *)
ExecuteRequest(d, r, n) ==
  \/ /\ access[d] # "expired"
     /\ req' = [req EXCEPT ![d][r] = Sent(n, access[d])]
     /\ UNCHANGED call
  \/ /\ access[d] = "expired"
     /\ RefreshAccessToken(d, r, "head", n)

Request(d, r) ==
  /\ \/ req[d][r].at = "idle" /\ ExecuteRequest(d, r, 1)
     \/ req[d][r].at = "again" /\ ExecuteRequest(d, r, 2)
  /\ UNCHANGED <<table, kept, account>>

(* setTokens, clearTokens.                                                 *)
Keep(d, t, a) ==
  /\ stored' = [stored EXCEPT ![d] = t]
  /\ access' = [access EXCEPT ![d] = a]

(* Faulty variant: the retry may be retried.                               *)
Unauthorized_NoLimit(d, r) ==
  /\ Rejected(req[d][r])
  /\ RefreshAccessToken(d, r, "ref", req[d][r].try + 1)
  /\ UNCHANGED <<table, kept, account>>

(* Faulty variant: the retry is repeated as it is.                         *)
Unauthorized_Repeats(d, r) ==
  /\ Rejected(req[d][r])
  /\ IF req[d][r].try = 1
     THEN RefreshAccessToken(d, r, "ref", 1)
     ELSE req' = [req EXCEPT ![d][r].at = "again"] /\ UNCHANGED call
  /\ UNCHANGED <<table, kept, account>>

(* A 401: refresh and retry, once; without a token, or after the retry,    *)
(* the tokens are dropped.                                                 *)
Unauthorized(d, r) ==
  /\ Rejected(req[d][r])
  /\ IF req[d][r].try = 1 /\ (stored[d] # 0 \/ Awaited(d) # {})
     THEN /\ RefreshAccessToken(d, r, "ref", 1)
          /\ UNCHANGED kept
     ELSE /\ Keep(d, 0, "none")
          /\ req' = [req EXCEPT ![d][r] = IdleReq]
          /\ UNCHANGED call
  /\ UNCHANGED <<table, account>>

(* What a request does once its refresh brought an access token, or none.  *)
Resumed(q, a) ==
  CASE q.at = "head" -> Sent(q.try, a)
    [] q.at = "ref" /\ a # "none" -> [IdleReq EXCEPT !.at = "again", !.try = 2]
    [] OTHER -> IdleReq

Resume(d, k, t, a) ==
  /\ Keep(d, t, a)
  /\ req' = [req EXCEPT ![d] = [r \in Requests |->
               IF r \in Waiters(d, k) THEN Resumed(req[d][r], a) ELSE req[d][r]]]

(* performRefresh keeps the new tokens, or drops the old ones.             *)
RefreshDone(d, k) ==
  /\ Waiters(d, k) # {}
  /\ call[d][k].at = "answered"
  /\ Resume(d, k, call[d][k].new, call[d][k].access)
  /\ call' = [call EXCEPT ![d][k] = NoCall]
  /\ UNCHANGED <<table, account>>

(* Nobody waits for the refreshes K of d any more.                         *)
Abandon(d, K) ==
  [call EXCEPT ![d] = [k \in Requests |->
    IF k \in K /\ @[k].at = "answered" THEN NoCall ELSE @[k]]]

(* Faulty variant: the old tokens are kept for another try.                *)
RefreshLost_TokensKept(d, k) ==
  /\ Waiters(d, k) # {}
  /\ FreeSlots(d) # {}
  /\ Resume(d, k, stored[d], access[d])
  /\ call' = Abandon(d, {k})
  /\ UNCHANGED <<table, account>>

(* The fetch of the refresh rejects, because the connection fails, and the *)
(* tokens are dropped; the API may not know.  No timer makes it reject.    *)
RefreshLost(d, k) ==
  /\ Waiters(d, k) # {}
  /\ FreeSlots(d) # {}   \* bound: so many refreshes nobody waits for
  /\ Resume(d, k, 0, "none")
  /\ call' = Abandon(d, {k})
  /\ UNCHANGED <<table, account>>

(* The app dies, and finds its tokens when it starts again.                *)
Kill(d) ==
  /\ kills < MaxKills
  /\ FreeSlots(d) # {}
  /\ \E r \in Requests : req[d][r] # IdleReq
  /\ req' = [req EXCEPT ![d] = [r \in Requests |-> IdleReq]]
  /\ call' = Abandon(d, Awaited(d))
  /\ torn' = torn \cup {origin[call[d][k].tok] : k \in Awaited(d)}
  /\ kills' = kills + 1
  /\ UNCHANGED <<table, kept, active, cutoffs>>

(* The request is accepted; the cached principal of the last 30 seconds    *)
(* may not know yet that the token was revoked, or the user suspended.     *)
Accepted(d, r) ==
  /\ req[d][r].at = "sent"
  /\ req[d][r].tok \in {"good", "revoked"}
  /\ req' = [req EXCEPT ![d][r] = IdleReq]
  /\ UNCHANGED <<table, kept, call, account>>

(* The network fails, or 30 seconds go by without the answer's headers.    *)
Failed(d, r) ==
  /\ req[d][r].at = "sent"
  /\ req' = [req EXCEPT ![d][r] = IdleReq]
  /\ UNCHANGED <<table, kept, call, account>>

LogOut(d) ==
  /\ stored[d] # 0
  /\ Keep(d, 0, "none")
  /\ UNCHANGED <<table, req, call, account>>

-----------------------------------------------------------------------------
RefreshStep(d, k) == RefreshFails(d, k) \/ RefreshFind(d, k) \/ RefreshRotate(d, k)

RequestOver(d, r) == Failed(d, r) \/ Accepted(d, r) \/ Unauthorized(d, r)

Next ==
  \/ ChangePassword \/ UpdateUserStatus \/ BrowserReplays
  \/ \E d \in Phones : SignIn(d) \/ LogOut(d) \/ Kill(d) \/ AccessExpires(d)
  \/ \E d \in Phones, r \in Requests : Request(d, r) \/ RequestOver(d, r)
  \/ \E d \in Phones, k \in Requests :
       \/ RefreshStep(d, k) \/ RefreshDropped(d, k)
       \/ RefreshDone(d, k) \/ RefreshLost(d, k)

Spec == Init /\ [][Next]_vars

(* A request that was sent ends or meets a 401, at the latest by its timer *)
(* (the body of an answer whose headers came is taken to come as well);    *)
(* one that is to be tried again is.  Nothing is assumed of a refresh:     *)
(* neither that it is answered, nor that its fetch rejects when it is not. *)
RequestGoesOn(d, r) == RequestOver(d, r) \/ (req[d][r].at = "again" /\ Request(d, r))

FairSpec == Spec /\ \A d \in Phones, r \in Requests : WF_vars(RequestGoesOn(d, r))

-----------------------------------------------------------------------------
(* No later row comes from the sign-in of row s.                           *)
Newest(s) == \A t \in Rows : origin[t] = origin[s] => t <= s

(* Rotation with reuse detection is safe for a phone: whatever its         *)
(* requests overlap with, and whatever answer is lost, it never keeps a    *)
(* token that it has exchanged, which would sign the user out everywhere;  *)
(* but for a sign-in whose app was killed during a refresh.                *)
PhoneNeverReplays ==
  \A d \in Phones :
    stored[d] # 0 /\ Awaited(d) = {} /\ origin[stored[d]] \notin torn => Newest(stored[d])

(* A sign-in has at most one row that is not revoked, also with a refresh  *)
(* at the API that its phone has given up; but for the same case.          *)
OneSession ==
  \A s \in Rows :
    s <= used /\ origin[s] \notin torn /\ ~Newest(s) => state[s] = "revoked"

(* No false alarm: the refreshes of phones, however they overlap and       *)
(* whatever answer is lost, do not set reuse detection off by themselves.  *)
(* A phone's token at the API, also one it has given up, is of a row that  *)
(* is not revoked, unless a change of the password, an admin or a browser  *)
(* cut the user off, or an app was killed during a refresh.                *)
NoFalseAlarm ==
  cutoffs = 0 /\ torn = {} =>
    \A d \in Phones, k \in Requests : call[d][k].at = "sent" => state[call[d][k].tok] = "live"

(* Every request ends, also when it waits for a refresh another one began, *)
(* unless that refresh never comes back to the phone.  A request that does *)
(* not end never goes round in retries: it waits for one refresh for ever, *)
(* the same for all the requests of its phone that do not end.             *)
RequestsEnd ==
  \A d \in Phones : \E k \in Requests : \A r \in Requests :
    []<>(req[d][r].at = "idle") \/ <>[](r \in Waiters(d, k) /\ call[d][k].at # "free")
=============================================================================
