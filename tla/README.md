# EduBridge (bilgim): formal models, checks and proofs

This directory holds TLA+ models of the platform's API (`src/apps/api`) and of
the client that talks to it (`src/packages/api-client`), the TLC configurations
that check them on small instances, and theorems about them that TLAPS proves
for every value of the constants. The models are translated from the code;
where a document or a comment says something else, section 5 says so, and for
two such places a run shows the difference.

## 1. The system and its parts

EduBridge is a teaching platform: teachers with a paid subscription publish
courses and hold live lessons, students buy or request places in groups, hand
in homework and are graded. A NestJS API runs in several replicas
(`design.md:371`: three) over Postgres, Redis and BullMQ queues. There is no
shared memory between replicas; everything that must agree meets in rows of
the database, in conditional updates and unique indexes, in object storage, and
in the transactional outbox.

| Part | State | Operations | What makes it correct |
|---|---|---|---|
| Subscription lifecycle (`modules/billing`) | `Subscription.status`, `trialEndsAt`, `updatedAt` | startTrial, activate, markPastDue, cancel, publish gate, two hourly jobs | rows follow the state machine whatever was read before; one open row per teacher; a trial runs its course; events tell the truth |
| Payme webhook (`billing/payme`) | `PaymeTransaction`, `Invoice`, and the rows a payment changes | checkout, Check/Create/Perform/Cancel/CheckTransaction, GetStatement | a payment is settled or dropped once, with one event; invoice and payment agree; a repeated call is answered alike; money has its effect |
| Transactional outbox (`infra/outbox`) | `OutboxEvent.status`, `attempt`, `nextAttemptAt` | create, poll, dispatch, dead letter | a dispatched event reached all its queues; none is given up early; a settled one never waits again; none is forgotten |
| Enrollment (`modules/enrollment`, seats of `modules/group-chat`) | `EnrollmentRequest`, `Enrollment`, `GroupChatMember` | request, pay, approve, reject, revoke, add, remove, promote | an application is decided once; request, enrollment, invoice, seat and events agree |
| Live sessions, recording (`modules/live`) | `LiveSession`, `Recording`, recorder | start, early join, end, recorder start and finalize from queue jobs | one open session per lesson; session, recording and events tell one story; no recording is dropped silently; a teacher who opted out is not recorded |
| Homework (`modules/homework`) | `Submission`, `Feedback`, AI signals, precheck job | draft, save, submit, grade, return, precheck | only edges of the lifecycle; a date, a score, an event and a signal appear with the status they belong to; the precheck happens, and once |
| Media (`modules/media`) | `MediaAsset`, object storage, transcode job | initiate, complete, abort, encode | what is published is stored and within the cap; a video is encoded once, given up only on the last try |
| Sessions (`modules/auth`, `packages/api-client`) | `Session`, `sessionsRevokedAt`; on the phone: tokens and the shared refresh | sign-in, refresh with rotation and reuse detection, revocation by the user, an admin, a browser; request, retry, log out | the phone never replays a token it has exchanged; one open session per sign-in; phones set off no false alarm; a request ends, or waits for a refresh that never comes back |
| Schedule, catalog, notifications, gamification, chat, and the rest | see PROJECT.json | | |

How they interact. The authentication service provisions a trial when a
teacher verifies an address or signs in. The catalog asks the billing service
whether the teacher may publish. Payme calls the webhook, which in one
transaction moves the payment, the invoice, and the course request or the
subscription, and writes an outbox event; approving the request creates the
enrollment and the seat in the group chat. The dispatcher of every replica polls
the outbox and hands events to queues, whose workers drive notifications,
recording and rewards. Two queues are fed directly after a commit: the precheck
of a submission and the encoding of a video, also of a recording. Clients refresh
their tokens behind every request.

What is hard. Every `await` of a handler lets all other requests of all
replicas run. Handlers check, then act; only a conditional update
(`updateMany where status = ...`) or a unique index decides in the end. Payme
repeats and overlaps its calls. Cron jobs and dispatchers work on snapshots. A
job that lost its lock runs twice at once. A refresh token may be presented
after it was exchanged. A replica may die between any two awaits; queues, object
storage and database may fail at each. PROJECT.json lists these places under
`hazards`, line by line.

## 2. Modules

| Module | Models | Lines of code it stands for |
|---|---|---|
| `SubscriptionStates` | the pure state machine | `subscription-state-machine.ts` |
| `SubscriptionLedger` | abstract: what the subscriptions table promises | `subscription.repository.ts` createTrial, transitionStatus, the partial unique index |
| `Subscriptions` | billing service and cron | `billing.service.ts`, `billing.cron.ts` |
| `PaymentLedger` | abstract: what the webhook promises about a payment | state enum, the committing updates |
| `Payme` | checkout and webhook, with the other writers of the rows it shares | `payme.service.ts`, `invoice.repository.ts`, `billing.service.ts` checkout |
| `EventLedger` | abstract: what the outbox promises about an event | the insert, the hand-over, the updates of the row |
| `Outbox` | insert, dispatchers, routing table | `outbox.service.ts`, `outbox.dispatcher.ts` |
| `EnrollmentLedger` | abstract: an application is decided once | the conditional updates of requests and enrollments |
| `Enrollment` | applications, decisions, revocation, chat seats | `enrollment.service.ts`, `enrollment.repository.ts`, `group-chat.repository.ts` |
| `SessionLedger` | abstract: what the live module promises for one lesson | the partial unique index on active rooms, the conditional updates |
| `Live` | live sessions and their recording | `live.service.ts`, `live-session.repository.ts`, `recording.service.ts`, `recording.processor.ts`, `livekit-egress-recorder.adapter.ts` |
| `SubmissionLedger` | abstract: the lifecycle of a submission | the conditional updates of `submission.repository.ts` |
| `Homework` | a submission and its precheck | `submission.service.ts`, `ai-grading.service.ts`, `ai-grading.processor.ts` |
| `AssetLedger` | abstract: the life of an asset | the conditional updates of `media.service.ts`, `transcode.processor.ts` |
| `Media` | upload and encoding of an asset | `media.service.ts`, `transcode.processor.ts`, `transcoding.service.ts` |
| `AuthSessions` | session rows, and phones that refresh them | `auth.service.ts`, `session-validator.service.ts`, `admin.service.ts` (`updateUserStatus`), `client.ts`, `jwt.ts` |
| `SubscriptionsProofs`, `PaymeProofs`, `OutboxProofs`, `EnrollmentProofs`, `LiveProofs`, `HomeworkProofs`, `MediaProofs`, `AuthSessionsProofs` | theorems and proofs | |
| `MC...` | small instances for TLC | |

Conventions. An action is one step between two awaits. A database transaction
is one action, taken at its commit, since a rolled-back transaction changes
nothing; where the code reads inside a transaction and updates later (READ
COMMITTED), the read is an action of its own and may be stale at the commit
(`PerformReadSub`, `PrecheckRecheck`, `RefreshFind`). `call` (`disp`, `batch`,
`work`, `req`) holds what a request, a dispatcher, a cron run or a worker
remembers between its steps. Identifiers are model values, time is whether a
deadline has passed (`lapsed`, `due`, an access token that is `expired`),
amounts, payloads, authentication of API calls and logging are left out. Each
ledger is the abstract specification of its component, and each component is
shown to implement it.

### Subscriptions

`subs` is the status column, `lapsed` the rows whose `trialEndsAt` or
`updatedAt + 7 days` has passed. `Transition` is `BillingService.transition`:
the conditional update and its event in one transaction; `TransitionConflict`
its rollback. `StartMove`/`FinishMove` are `activate` and `cancel` (read, then
move), `MarkPastDue` reads nothing. `StartTrial`, `InsertTrial`,
`RereadTrial` are `startTrial`; inside a caller's transaction a unique
violation aborts that transaction, so the re-read cannot succeed. `CheckGate`
and `ReadGateSetting` are `requireActiveSubscription`. `CronStart`, `CronRow`,
`CronRowFails` are the hourly jobs of each instance, `Restart` loses a batch,
`CallFails` a request. `PaymentActivates` is the one write of the webhook.

### Payme

`payState`, `payInvoice` are the transaction row and its `account`;
`performedBy`, `canceledBy` stand for `performTime` and `cancelTime` (which
call wrote them is all an answer can tell apart). A worker that has committed
is `answering` until `Deliver`, which may as well be a lost answer; `CutOff`
is a database error, a timeout or a restart in the middle of a call.
`SubscriptionWriters` is every step of `SubscriptionLedger`, so the webhook
runs against anything the billing service may do; `RequestWriters` and
`SaveProfile` are the enrollment and profile services.

### Outbox

`disp[n].todo` is the rest of the snapshot of instance n, with the attempt
numbers it read; `sent` counts the queues that took the oldest event. The
instances do not lock rows, and every update is by id. `queued` is what the
queues were given, `failures` counts recorded failures beside the code, so that
the attempt column can be compared with what happened. `QueuesOf` is the
routing table; a topic without a queue becomes a dead letter at once.

### Enrollment

A place is a student and a group. `CreateRead`/`CreateCommit` are
`createRequest`, whose upsert resets the row of an earlier application whatever
became of it; `PaymentLands` is the upsert of the webhook. `DecideRead` loads
the request and remembers its invoice, `ApproveCommit` and `RejectCommit` are
the transactions, each on the condition that the request is pending; `Enroll`
creates the enrollment or, if there is one, at most sets its invoice. `Revoke`
is one transaction. `Seat`, `Unseat` are `upsertMember` and `removeMember`,
which the chat's own handlers (`ChatAdd`, `ChatRemove`, `ChatSetRole`) also
call without a look at the enrollment. Events are kept by their keys: one per
topic and request, so a second one of a kind changes nothing.

### Live

One lesson, whose sessions are numbered in the order of their creation.
`StartFind`, `StartPromote`, `StartInsert`, `StartWinner` are `startSession`:
find the open session, promote a waiting room, insert a live row, or read the
winner of a lost insert. `EndFind`, `EndCommit`, `EndClose` are `endSession`,
`JoinFind`, `JoinInsert` the waiting room of an early student. `outbox` holds
the idempotency keys; a worker may begin a job of a key as often as it likes,
which is how duplicates, retries and any order of `live.started` and
`live.ended` appear. `RecordBegin`, `RecordSave` are `startRecording` with the
adapter's `RecordList` (reuse what runs in the room) and `RecordSpawn` between
them; `FinalizeBegin`, `FinalizeStop`, `ApplySuccess`, `EnqueueTranscode`,
`ApplyFailure` are `finalizeRecording`. An egress may stop, with or without a
file, at any time (`EgressEnds`): that covers the room being closed or deleted,
so the room itself is not in the state. `tries` counts the failures of a
`live.ended` job. The status STARTING is in the enum and no code writes it.

The session and its Recording are read one after the other in
`finalizeRecording`, and the model reads them in one step: between the two
reads the reference may only be set and the Recording only appear, so each
decision is one that a single moment allows.

### Homework

One submission. Answers are versions; `signal` is the version that
`aiLikelihood` and `aiFlagged` were computed from. `EditRead`/`EditCommit` are
`updateAnswers` (status checked on what was read, update by id), `SubmitRead`/
`SubmitCommit` are `submit` with the detector in between (`Stamp`: it answered
or it failed), `Enqueue` the job after the commit, which `GiveUp` may lose.
`DecideRead`, `GradeCommit`, `ReturnCommit` are the teacher's decisions.
`PrecheckBegin`, `PrecheckRecheck`, `PrecheckCommit` are `precheck`: the first
read, the second look inside the transaction, the insert with the conditional
update. The models themselves answer or fail; both lead on to feedback.

### Media

One asset. `upload` is what object storage holds, `hls` whether the HLS tree is
there; `upload = "oversize"` stands for an object above `MEDIA_MAX_SIZE_BYTES`,
which only a look at storage after completion reveals. `CallRead`,
`CompleteMultipart`, `CompleteSave`, `EnqueueTranscodingJob` are
`completeUpload`, `AbortMultipart` and `AbortSave` the second half of
`abortUpload`; storage is asked first and the row is moved after it, by an
update on `UPLOADING`. A look at the size of an object that has just been
completed finds it. `RecordingSaved` is the asset that `applySuccess` of the
live module inserts. `ProcessBegin`, `ProcessClaim`, `ProcessEncode`,
`ProcessSave`, `ProcessMarkFailed` are the processor.

### AuthSessions

A refresh token is named by its row, `origin` is the row its sign-in began
with. `SignIn` inserts a row; `RefreshFind` looks for the row of a token and
revokes everything if it finds a revoked one; `RefreshRotate` revokes that row
and inserts the next. Three actions revoke every row of the user without a
refresh of a phone, together called cut-offs: `ChangePassword`, the suspension
or deletion by an admin in `UpdateUserStatus` (`admin.service.ts:203-219`), and
`BrowserReplays`. The last one is the user's browser: its requests refresh one by
one (`middleware.ts`, the proxy route), so two of them may present one token, and
reuse detection then revokes the rows of the phones too. Its own rows are not in
the table; what it does to the others is. `active` is the user's status: a
request of a suspended user is rejected, a refresh does not look at it, and
`SignIn` does not either, since login reads it before the second factor, and
`mfaChallenge` goes on to `finalizeLogin` without another look.

On the phone `ExecuteRequest` sends a request or waits at "head" for a
refresh; `Unauthorized` is a 401, after which a request waits at "ref" and is
tried once more; `RefreshAccessToken` joins the refresh under way or begins
one. A slot of `call` is one POST to `/auth/refresh`; the one that requests wait
for is `Awaited`, others may still be on their way to the API. `RefreshLost` is
a refresh whose `fetch` rejects; one that neither rejects nor is answered leaves
its waiters where they are. `Kill` is the death of the app, after which it finds
the tokens it had. `torn` collects sign-ins whose app was killed during a refresh:
what was exchanged there the phone cannot know.

Some sequences of the code are one step here: storing two tokens
(`setTokens`), a sign-in, the writes of a password change or a suspension, which
are one transaction each. Those of reuse detection are not (`auth.service.ts:705` and 712):
the rows may be revoked (`RevokeRows`) and the user's `sessionsRevokedAt` not, or
both (`RevokeAll`). A row that is past
its thirty days is one of the reasons of `RefreshFails`. That the validator may
serve a principal from its cache for thirty seconds is the choice in `Accepted`.

### The queues

`Homework` and `Media` describe their jobs alike, as BullMQ is used here: an id
makes a second `add` of a job that is still kept a no-op; a worker takes a job
and its lock; an error uses up one of `Attempts` tries; a run whose lock is not
renewed counts as stalled, the job is given to another worker once and fails the
second time, while the slow run goes on and its result is ignored. A job that is
over is kept for a while (`JobForgotten` in `Homework`, where the next submission
may use the id again). In `Outbox` a queue accepts a job or rejects it, and in
`Live` a job may run as often as it likes, which covers all of the above. Ids
that hold a colon (`ai-precheck:<id>`) are refused by some releases of BullMQ;
the library is not part of the repository, and a refusal there is the `GiveUp` of
a call that is at `enqueue`.

## 3. Runs

| Run | Question | Instance | States |
|---|---|---|---|
| `Subscriptions` | do rows keep to the ledger, one open row, honest trials and events under all interleavings | 2 rows of one teacher, 2 requests, 1 instance with both jobs | 680k |
| `SubscriptionsLive` | does every lapsed trial end | 2 rows, 1 request, batch of 1 | 74k |
| `Payme` | invoices, payments, requests, subscriptions, events and answers; has money its effect, and nothing but money | 2 workers, 2 payments, 2 invoices, 1 place, 1 subscription | 511k |
| `PaymeLive` | does a payment Payme keeps performing settle | 1 worker, 2 payments, a place and a subscription | 23k |
| `Outbox` | delivery, dead letters, progress and the ledger under overlapping dispatchers | 2 events (two queues, none), 2 instances, 2 attempts, batch of 1 | 2.4k |
| `Enrollment` | requests, enrollments, invoices, seats, events; each application decided once | 2 places, 2 requests | 586k |
| `Live` | do session, recording, events and the teacher's choice agree, and is each session recorded or marked | 1 session, 2 requests, 2 workers, 2 recorders, 2 tries | 227k |
| `Homework` | do row, feedback and events agree, does the precheck happen, and once | 2 requests, 2 workers, 1 version, 2 tries | 133k |
| `Media` | do row, storage and queue agree, and does encoding end | 3 requests, 2 workers, 3 tries | 63k |
| `AuthSessions` | does the phone ever replay a token, is there one session, do phones set off reuse detection, do requests end | 1 phone, 2 requests, 3 rows, 1 cut-off, 1 kill | 483k |
| `PaymeDoublePay` (violation) | a second transaction on an invoice takes the money and marks no invoice | | |
| `EnrollmentRevoked` (violation) | an approval leaves a revoked enrollment revoked | | |

Why the bounds are enough to be interesting.

* `Subscriptions`: two rows of one teacher compete for the one open place; two
  requests are needed for a lost race and are enough for each pairwise race; one
  instance already has two jobs with independent snapshots, and requests supply
  the other writers.
* `Payme`: two payments that may meet on one invoice are the smallest double
  payment, and a place beside a subscription gives both kinds of effect.
  `PaymeLive` has one worker because a worker that overtakes another one ends
  the waiting it could delay: a lost race means the payment has left CREATED.
* `Outbox`: two dispatchers make overlapping snapshots; two attempts make the
  last one differ from the first; an event with two queues can be handed over by
  halves, and with a batch of one it competes with the other event, which has no
  queue at all, for its turn.
* `Enrollment`: two calls that overlap on one place are each pairwise race of
  deciding, applying and paying; a second place shows that they do not touch it.
* `Live`: two workers are enough for start against finalize and for two finalize
  jobs with different outcomes, two recorders for one that was spawned in vain.
  The theorems hold for any number of sessions.
* `Homework`: one version, since the invariants ask whether there are answers
  and a signal, and not which; two workers are a slow run and its successor.
* `Media`: three requests are two completions against an abort; three tries are
  those of the code, and two workers a slow run and its successor.
* `AuthSessions`: two requests meet one 401 or two; three rows are a sign-in and
  two rotations, or a second sign-in; a cut-off of each kind and a kill may fall
  anywhere, also a suspension that is taken back. `FreeSlots(d) # {}` in `RefreshLost` and `Kill` limits the refreshes
  nobody waits for.

Each bound is a constant of the configuration, and the theorems hold without
them. `CHECK_DEADLOCK FALSE` stands where the system may come to rest: `Outbox`
when all events are handled, `Media` when the asset is READY or FAILED and its
job is over, `AuthSessions` when the bounded rows, cut-offs and kills are used up.

Every property of every passing run has a mutant in PROJECT.json: an operator
such as `InsertTrial_NoIndex` or `RefreshLost_TokensKept` that changes the model
as a plausible mistake in the code would, and under which the run fails.

### Fairness

* `Subscriptions!FairSpec`: the hourly schedule fires on every instance (weak
  fairness of `CronStart`), and the update of a row is not lost to a restart or
  an error every time (strong fairness of `CronRow`). Requests need no fairness.
* `Payme!FairSpec`: Payme repeats PerformTransaction until it is answered
  (strong fairness of `PerformRead`, the only idle moments being between calls),
  calls that have started end (weak fairness of each worker), and not every
  repetition is cut off, or finds the subscription moved, just before its commit
  (strong fairness of the two steps of the commit). Checkout, profiles,
  approvals and the other writers are not fair.
* `Outbox!FairSpec`: the two-second timer (weak fairness of `Poll`), the end of
  a backoff (weak), and each kind of step of a dispatcher is not lost to a crash
  every time (strong). A queue may reject every job: `Sends` and `Marks` are
  fair as "succeeds or fails".
* `Live!FairSpec`: a worker that is up takes its job a step further or fails
  (weak fairness of `JobStep`), and the queue, first in first out, gives every
  session's `live.ended` job its turn (strong fairness, since workers may be
  busy with others in between). Steps may fail: `EndedIsRecorded` holds up to
  `Attempts` failed tries (`bullmq.module.ts:33`). Requests need no fairness.
* `Homework!FairSpec`, `Media!FairSpec`: an idle worker takes a waiting job, and
  a worker that has one gets on with it or fails (weak fairness of each). Nothing
  is assumed of calls, and a run may be taken for dead at any time.
* `AuthSessions!FairSpec`: a request at the API is answered, refused, or aborted
  by its timer (30 seconds, `client.ts:229-231`), and one that is to be tried again
  is (weak fairness of `RequestGoesOn`). The timer is cleared when the headers
  come (`client.ts:252`); that the body follows is assumed. A refresh has no fairness: its
  `fetch` (`client.ts:321-331`) has neither timer nor signal, so nothing in the
  code makes it come back. `RequestsEnd` says what holds without: a request ends,
  or waits for one refresh for ever, the same for all stuck requests of the phone.
  The user, the admin, the clock and the operating system are not fair either.

## 4. Theorems

All proofs are checked by tlapm with SMT, Zenon and LS4. Assumptions: the named
ASSUMEs of the modules, which say that owners, subjects of invoices and topics
are functions of the right type, that `None` and `NoPhone` are no identifiers,
that limits are positive and that counts and bounds are natural numbers. Nothing
is assumed about how many workers, rows, events, phones or instances there are.

**Subscriptions.** `TypeCorrect` is inductive after it is split into the types
of rows and of calls. `ServiceImplementsLedger` maps each step to an edge of
the state machine, an insert or a stutter: the conditional update supplies the
edge. `OneLive` follows from it, because the ledger's guarded insert keeps
`OneLivePerTeacher`. `TrialsRunTheirCourse` needs `BatchLapsed`: a TRIAL row in
a snapshot is lapsed, which holds because a row never returns to TRIAL and
`lapsed` only loses rows that leave it. `EventsCorrect` needs that an event is
about an opened row.

**Payme.** The inductive invariant `Inv` joins the types, what a row says of
itself and of the rows it refers to, and what each call may still believe:
`CallsSound` says that a worker at a step has read a state that is in the past
of the row. Every action is shown to keep the three parts separately
(`TypeStep`, `RowStep`, `CallStep`). `InvoicesCorrect`, `EventsCorrect` and
`AnswersCorrect` are consequences; `PaymentsImplementLedger` and
`PaymentsKeepSubscriptions` are step simulations under `Inv`;
`PaymentsTakeEffect` and `EffectsArePaid` are action properties under it: the
first says that money has its effect, the second that nothing else a call does
has one, and that it is what the modules of the billing and enrollment services
expect. That closes a circle of what each module assumes of the others:
`Payme` runs against every step of `SubscriptionLedger` and against requests
that are opened, approved and rejected in any order; the billing service keeps
to that ledger (`ServiceImplementsLedger`), the enrollment service moves requests
as `EnrollmentLedger` says (`EnrollmentImplementsLedger`), which is less than
`RequestWriters` does; and these two run against `PaymentActivates` and
`PaymentLands`, which is all that `EffectsArePaid` leaves a payment.

**Outbox.** `DeadLettersEarned` needs that the attempt column, and every
attempt number in a snapshot, is at most the number of recorded failures.
`DispatchedQueued` needs that the queues a dispatcher has counted as sent hold
the event. `OutboxImplementsLedger` is a step simulation under both and one more
fact, `WorkOnInserted`: whatever is in a snapshot, however old, has been inserted
and is never un-inserted, so a late update by id may turn one settled state into
the other and can never make an event wait again.

**Enrollment.** `RowsAlwaysAgree` needs `CallsInv`: a decision that read an
invoice finds it linked at its commit, since no step takes an invoice away.
`EnrollmentImplementsLedger` maps each commit to its step of the ledger.

**Live.** The inductive `Invariant` joins the types, the checked invariants and
what they need: `OneOpen` (two sessions are never open at once), `RecordedInv`
and `EgressInv` (recorders and recordings belong to sessions that were live and
did not opt out), and `JobInv`: what a job has read stays true until it commits,
that is, the recorder it finalizes is the session's for good and the file it is
about to attach is complete. `Kept` names what no step takes back; each action
is shown to keep it once, and `KeptJob` carries it to every job under way.
`LiveImplementsLedger` is a step simulation under `Invariant`; `OneSessionOpen`
states `OneOpen` by itself, since the run has one session only.

**Homework.** `TypeCorrect` needs `JobInv`: a queued job has a try left, and
only a queued job is locked. `RowsAlwaysAgree` needs `HandsInv`: what a call or
a run holds in its hands is an existing version, and a run that is about to
insert works on something that was submitted. `HomeworkImplementsLedger` uses
both: a late precheck finds the row where the ledger allows it to leave feedback.
`FeedbackOnce` is about behaviours in which the queue takes no run for dead: then
whoever works on the job holds its lock (`Alone`), and what the second look has
found is still true at the insert. Without that condition it is false, section 5.

**Media.** `StorageAlwaysAgrees` needs `UnderWay`: a call that is about to save
has a completed object in storage (an abort can no longer take it away), one
that is about to enqueue has a published video, a run about to save has its
tree. `EncodingsEarned` needs two facts about runs: `LastInv`, a run that was
told it is the last has no try behind it, and `SoloInv`, that while the job was
never taken for dead a run is alone, holds the lock, and finds the status it
left. `MediaImplementsLedger` is a step simulation under the storage invariant.

**AuthSessions.** `OneSession` and `PhoneNeverReplays` are one induction. Per
phone at most one refresh is awaited (`OneAwaited`), and per sign-in at most one
is anywhere (`OneRefresh`), because whoever gives up waiting drops the token in
the same step. The token kept is the newest of its sign-in (`KeptNewest`), or is
the one the awaited refresh exchanges (`KeptAwaited`), and an answer on its way
carries the newest (`Carried`); rows, tokens and calls of a sign-in belong to
one phone (`SameOwner`, `OwnTokens`, `OwnCalls`). Actions are first sorted into
six classes by what they do to these (`Calm`, `Begins`, `Takes`, `Dies`,
`Rotates`, `SignIn`), and each class is then shown to keep each part. Sign-ins in
`torn` are excepted: for them both statements are false, see section 5.
`AlarmsAreReal` is a second induction on top of the first: before any cut-off
and while no app was killed during a refresh, the newest row of a sign-in is live
(`NewestLive`), since only a rotation revokes a row and it creates the next in the
same step; and a token on its way to the API is the newest, so the API finds it live.
The theorem is about phones that run `ApiClient` with its shared refresh; browsers
come in only as the cut-offs they cause, and it says nothing of their own tokens.

Model-checked only: the liveness properties (`LapsedTrialsExpire`,
`PaymentsSettle`, `EventsResolve`, `EndedIsRecorded`, `PrecheckHappens`,
`EncodingEnds`, `RequestsEnd`), whose proofs need fairness and ENABLED, which
tlapm 1.4.5 does not reason about. Every other property of a passing run is the
statement of a theorem. Some invariants are proved and have no run of their own,
because a property of a run implies them: `DispatchedMeansQueued` and
`DeadLetterEarned` follow from `EventLedger` (`LedgerDelivers`),
`EventsMatchPayments` from `PaymentLedger` (`LedgerTellsEvents`), and
`ImplementsSubscriptionLedger` from `EffectIsPaid`, since all other steps on
subscriptions are the ledger's own there. Nothing in these modules is recursive.

## 5. Where code and documents differ

Shown by runs.

* `PaymeDoublePay`: nothing limits an invoice to one transaction, and a missed
  `markPaid` is a warning (`payme.service.ts:309`, `requirements.md:98`).
* `EnrollmentRevoked`: the update branch of the upsert leaves the status alone
  (`enrollment.repository.ts:224`), so a student who was revoked, applies again
  and is approved stays REVOKED, with a seat in the chat and an event that says
  approved (comment `enrollment.service.ts:256-257`).

Seen while modelling, without a run of their own.

* Billing: `expirePastDue` updates on the status only, so a row that was paid
  after the snapshot and fell behind again loses its seven days
  (`subscription.repository.ts:157`, comment at 125-128, `requirements.md:87`);
  in this commit only tests call `markPastDue`. The event key of `transition()`
  has no timestamp, so a row that goes PAST_DUE twice is announced once
  (`billing.service.ts:490-495`); a teacher whose trial expired is told
  SUBSCRIPTION_MISSING (`billing.service.ts:397-414`).
* Payme: the upsert of the request leaves an existing status alone, so a
  rejected student who pays stays rejected (`payme.service.ts:321`,
  `requirements.md:101`); PerformTransaction does not call
  `ensureStudentProfile` (comment `enrollment.repository.ts:99-103`), and
  `PaymentsSettle` therefore assumes that the profile comes to exist; the
  invoice is not locked while CreateTransaction links it (`design.md:2267`); the
  winner of a create race is answered with whatever state it has
  (`design.md:2263`); a subscription that ended before its payment stays closed
  (`requirements.md:102`).
* Outbox: `markDeadLetter` and the retry update by id only, so the last failure
  of a slow instance turns a dispatched event into a dead letter
  (`outbox.dispatcher.ts:335-340`); `TOPIC_TO_QUEUE` has no entry for several
  topics that are emitted (`UnroutedTopics`), and an entry for
  `submission.created`, which nothing emits; overlapping dispatchers count one
  attempt for two failures.
* Enrollment: a member who rejoins keeps the role ADMIN (comment
  `enrollment.service.ts:307-310`); the events of a second application have the
  keys of the first and are not written; an application that overlaps an approval
  leaves a pending request beside an approved enrollment; the chat adds members
  without a look at the enrollment.
* Live: a start that loses its insert to a student's waiting room answers with
  that row and starts nothing (`live.service.ts:129`, comment 66-68,
  `requirements.md:167`); the adapter asks what runs in the room, which all
  sessions of a lesson share, so a session may be given the recorder of the one
  before (`livekit-egress-recorder.adapter.ts:78`, contract
  `recorder.port.ts:21-23`); when every try of `live.ended` fails, the session
  stays ENDED without a Recording (comment `recording.service.ts:80-83`); a
  recorder that starts after finalize runs until the room is gone; `endSession`
  closes the room also when it ended nothing, and possibly after the next session
  began in it (`live.service.ts:176`); an opted-out session has no Recording,
  which Property 6 of the design does not foresee (`design.md:3331`).
* Homework: an `updateAnswers` that read a draft writes over answers that were
  submitted or graded since (`submission.repository.ts:260-275`); two runs may
  both leave AI feedback, as each looks before either commits (comment
  `ai-grading.service.ts:567-571`; `feedback` is therefore a number); a precheck
  whose enqueue fails is not made up for by the outbox (comment
  `submission.service.ts:385-390`, `submission.submitted` is not routed to that
  queue); a resubmission is not prechecked again, since feedback exists, and its
  event has the key of the first; a late precheck describes older answers; the
  threshold is 0.7 where `requirements.md` 13.8 says 0.75.
* Media: nothing looks for uploads or videos that were left behind, though
  comments rely on it (`media.service.ts:147-148`, 342-345,
  `recording.service.ts:412`, `requirements.md:158`), so a video whose enqueue
  failed stays UPLOADED; a run that lost its claim ends the job (comments
  `transcode.processor.ts:36-41`, 48-50), so if the winner then dies the row
  stays TRANSCODING, which is why `EncodingEnds` excepts jobs that were once
  taken for dead; a run that finds TRANSCODING encodes beside the first; a second
  stall, or an error before the guarded part of the handler, fails the job
  without a word to the row; `abortUpload` answers FAILED also when the row is
  UPLOADED.
* Sessions: a row that a password change or an admin revoked counts as stolen when
  presented again, and everything is revoked once more (`auth.service.ts:697-726`, comment
  669-673); two refreshes with one token may both rotate, as `RefreshRotate`
  updates by id, so the one-session property rests on the client; a refresh that
  read its row before a password change or a suspension creates a session after it
  (comments at 1278 and `admin.service.ts:201-202`), and a refresh does not look at
  the status, so a suspended user keeps that session for when the account is active
  again; the server has no `/auth/logout`, though the client's comment describes
  it (`api-client/src/endpoints/auth.ts:111`), so a signed-out session lives on;
  a refresh that is answered after the phone signed out brings its tokens back
  (`client.ts:337`, which stores whatever is answered);
  a refresh has no timeout, though `client.ts:12` and the package's README speak of
  one per request: while its `fetch` hangs, `refreshPromise` stays set
  (`client.ts:306-314`), and every request that meets a 401 or an expired token
  waits with it, until the app is killed; `sdk.auth.refresh`
  (`api-client/src/endpoints/auth.ts:173-181`, wrapped in
  `apps/mobile/lib/api/auth.ts:182`) shares nothing with that refresh and keeps
  the old tokens when it fails, so a caller would break `PhoneNeverReplays`, but no
  screen calls it;
  any failed refresh, also for a server error, signs the phone out; an app killed
  during a refresh may present the exchanged token when it starts again; the web
  middleware and route handler refresh per request and share nothing (comments
  `apps/web/app/api/proxy/[...path]/route.ts:23-26`, `apps/web/lib/api-client.ts:116-119`).
* Consumers of the outbox: the fan-out of notifications inserts by key, so a
  repeated job creates none twice; but it writes QUEUED after it has enqueued a
  delivery, possibly over a SENT, and a delivery it could not enqueue is only
  logged (`notification-fanout.processor.ts`); awards of points have no key, so a
  repeated job awards twice (`gamification.service.ts:26-34`).

## 6. Not modelled

PROJECT.json lists every part with the reason. Read-only operations
(CheckTransaction, GetStatement, lists, playback URLs) change nothing. BullMQ,
Postgres, LiveKit, object storage and Payme are external and appear as what the
code relies on: a queue accepts or rejects, an update is atomic and conditional, a
unique index refuses, calls repeat. Of authentication only the sessions are
modelled: registration, codes, MFA and lockout counters are not. Invite links have
no operation but their insert. Schedules are versioned by transactions that rest
on no earlier read. The user interfaces, the infrastructure adapters, reports and
administration hold no protocol, but for the suspension of a user, which is
`UpdateUserStatus`. Of the gate's setting only its effect is modelled, an error when it
is read being the same as a gate that is on (`billing.service.ts:437-444`); of a
transcode job only that of a video with its original key; of the AI detector not
the likelihood, which is 0 when it fails.

What would come next: the delivery of notifications and the awards of
gamification as consumers of `Outbox`, where the divergences of section 5 lie; the
publish gate inside the catalog; a session row whose revocation has a reason.
Composed with `Outbox` at its present bounds, the fan-out alone has 157,539 states
for one worker and one job and half a million with a second job; that is within
reach for invariants, and for liveness only with one dispatcher.
