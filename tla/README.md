# A verified model of kmmzavod

kmmzavod turns a product into short videos and publishes them: an API takes the orders and
reserves credits, an orchestrator runs some twenty BullMQ workers against paid providers, a
device agent drives a farm of phones, and everything meets in one PostgreSQL database and
one Redis. This directory holds TLA+ models of the parts where these processes race, fail and
are restarted, what TLC checks about them on small instances, and what TLAPS proves about them
for every instance. Paths below are relative to `src/`.

## 1. Inventory

| component | state it keeps | operations | hard behaviour | correct means |
|---|---|---|---|---|
| **Credit account** `orchestrator/src/lib/credits.ts`, `api/src/lib/video-job.ts` | `Tenant.credits`, `CreditTransaction` rows (`reserve`, `charge`, `refund`), `Job.creditsUsed` | reserve (with the job's creation), `chargeCredits`, `releaseReserveOnce`, `settleCredits`, `refundCredits`, `releaseJobReserve` | five paths may release the same reserve at once; charges and releases lock the same two rows in opposite order; a refused decrement throws after the provider was paid | no credit lost or given away, one release, nobody waits for ever |
| **Video pipeline workers** `orchestrator/src/workers`, `pipeline/coordinator.ts`, `index.ts` | `Job`, `Video`, `Scene` rows, queue jobs | one handler per stage, one `failed` event handler per queue | twenty handlers of one job at a time, at-least-once delivery, retries after partial success, cancels between two awaits | nothing charged or bought twice, the stage barrier is crossed, a job ends, the reserve comes back |
| **Video job API** `video-job.ts`, `routes/videos.routes.ts`, `routes/admin.routes.ts` | the same rows, from another process | create, cancel, delete, admin retry, recompose | acts on what it read one or more statements ago; the API may die after a commit and before the enqueue | a retry redoes only what is missing, a cancel frees the reserve |
| **Queue helper** `packages/queue` | Redis | `addOrReplace`, job ids, attempts | an add with a used id is silently dropped | a retry is really run |
| **Publishing** `publish.worker.ts`, `distribute.worker.ts`, `services/device-agent.ts` | `PublishJob`, distribution items and counters, Redis lock per phone | dispatch, publish, settle, cancel | an upload whose outcome is unknown; a lock that expires under its owner; a crash between two writes | posted at most once, every item counted once, one user per phone |
| **Uniquification** `uniquify-*.worker.ts`, `uniquify.routes.ts`, reconciler in `scheduler.worker.ts` | job, variants, counters | analyse, fan-out of renders, fan-in, cancel, reconcile | concurrent recounts, a reconciler that acts on what it read | a job ends with the right status, a cancel stays |
| **Scheduler, warmup** `scheduler.worker.ts`, `account-warmup.worker.ts`, `api/src/lib/farm-scheduler.ts` | presets, schedules, `nextRunAt`, daily counters | one tick a minute | a crash between the run and its bookkeeping, overlapping ticks | one run per due time |
| **Autopilot** `orchestrator/src/autopilot` | batch status, failure count, publish windows, journal | tick, produce, select, publish, activate, pause | a state machine advanced by polling what other workers do; a tick that breaks off in a window; a user who presses buttons meanwhile | every batch ends, no copy or montage sent twice, one alarm |
| **Smart editor** `editor-*.worker.ts`, `services/editor.ts`, `editor.routes.ts` | edit job | analyse, render | as uniquification | as uniquification |
| **Device agent: tasks** `device-agent/src/lib/device-mutex.ts`, `proxy-manager.ts`, `index.ts` | FIFO mutex per phone, shared-proxy lease, proxy mode | acquire with timeout, lease, switch of mode and phone | waiters that give up, an upload that goes on after its request, switches while a task holds the lease | FIFO, one task on a phone, the lease is counted, the address does not change under an upload |
| **Device agent: scripts, ADB** | sessions, shells | login, publish, warmup flows | screens of third-party apps | - |
| **Sessions** `auth.routes.ts` | `RefreshToken` rows | login, refresh, logout | two tabs refresh at once | a token is used once |
| **Progress streams** `sse-subscriber.ts`, `progress.ts` | Redis subscription counted by stream | open, close, publish | close racing open | a listener is subscribed |
| Provider clients, AI helpers, storage, metrics, Kling worker, CRUD routes, Python services, web interface, infrastructure | none that is shared, or one row each | | | |

How they interact: the API and the orchestrator never call each other. They share rows (every
status column is written by both) and queues; an orchestrator handler tells the next one by
`queue.add`, and a handler that fails for good is heard by an `on('failed')` listener in
`orchestrator/src/index.ts`, which runs concurrently with everything else. The publish worker
calls the device agent over HTTP and keeps its own lock per phone in Redis.

`PROJECT.json` lists every component with its status, every hazard at the line where it bites,
and for every definition of a model the lines it stands for.

## 2. Modules

| module | what it is |
|---|---|
| `CreditLedger` | abstract: what the credit code promises for one job - reserve, charge, release |
| `CreditTransactions` | the database transactions behind it, with their row locks, run by any number of callers; refines `CreditLedger` |
| `CreditTransactionsProofs` | its proofs |
| `JobQueue` | operators for what the workers rely on from BullMQ, and the enqueue helper |
| `VideoPipeline` | one video job: API, seven queues, failure handlers, admin requests, crashes; refines `CreditLedger` |
| `VideoPipelineProofs` | its proofs |
| `Publishing` | one distribution: dispatch, publish worker, settlement, Redis locks; uses `JobQueue` |
| `PublishingProofs` | its proofs: types, the farm's lock, the published row |
| `PublishingCountProofs` | its proofs: no second post, the counters, the end of a distribution |
| `JobQueueProofs` | what every operator of `JobQueue` returns and bounds; used by the proofs about `Publishing` and `Autopilot` |
| `FifoMutex` | abstract: a first-come-first-served mutex per phone whose waiters may give up |
| `DeviceTasks` | the agent's tasks, promise chains, proxy lease and operator; refines `FifoMutex` |
| `DeviceTasksProofs` | its proofs |
| `Uniquify` | one uniquification job: analysis, renders, state worker, reconciler, cancel, retry; uses `JobQueue` |
| `UniquifyProofs` | its proofs |
| `Autopilot` | one autopilot: tick, batches, produce worker, editor workers, publish windows, user; uses `JobQueue` |
| `AutopilotProofs` | its proofs |
| `MCCreditTransactions`, `MCVideoPipeline`, `MCPublishing`, `MCDeviceTasks`, `MCUniquify`, `MCAutopilot` | instances for TLC |

The modules meet where the code does: an item of `Autopilot` is what `Publishing` distributes, its
copies are what a job of `Uniquify` makes, and the upload of `Publishing` is one task (a POST
/publish) of `DeviceTasks`. They are not composed into one specification: each sees of the
next one only its outcomes, all of which it allows at any time (`ItemEnds`, `UniquifyEnds`; the
call of the publish worker), and the product of the state spaces would show nothing more.

Two models of the credit code exist because two questions need different grains. In
`CreditTransactions` a transaction is several steps and rows are locked; in `VideoPipeline` a
whole transaction is one step. That the second is a sound reading of the first is what the
refinement proof of `CreditTransactions` shows: every commit is exactly one step of
`CreditLedger`, every other step changes no money - and `VideoPipeline` implements the same
`CreditLedger`. The `MarkCancelled` step (admin cancel of a failed job) and `DeleteVideo` move
no money in the code, nor here. What the coarse model does not show is a release that the
database aborts; it is the subject of run `exactly_once`.

### CreditTransactions and the code

* `LockJob`, `AlreadyReleased` / `NotReleasedYet`, `LockTenant`, `CommitRelease` are the four
  statements of `releaseReserveOnce` (credits.ts:66-97; `releaseJobReserve` in video-job.ts:178
  is the same function for the API).
* `Debit`, `CommitCharge` are the two statements of `chargeCredits`; `AddCreditsUsed` is the
  separate `job.update` every caller makes next. `DebitRefused` is the check constraint
  `tenants_credits_non_negative`.
* Inserting a `charge` row takes a key-share lock on the job it references (the foreign key of
  `credit_transactions.job_id`), which `FOR UPDATE` excludes. With it a release (job, then
  tenant) and a charge (tenant, then job) can wait for each other; `DeadlockVictim` is
  PostgreSQL aborting one of them.
* `Breaks` is a lost connection or a transaction timeout: rollback, the caller gets an error.

### VideoPipeline and the code

One job of one tenant. `job`, `video`, `scene`, `avatarKey` are the columns that control the
workers; `tasks` the BullMQ jobs; `failures` the `failed` listeners under way; `creating`,
`cancelling`, `request` where the API's handlers are and what they have read. A worker is one
action per await that another process can observe or disturb: the value of `pc` names it. What
an action reads before its await is stored if the code acts on it later (the state worker's
decision, the admin retry's snapshot, a resumed provider task).

* `Pipeline*` coordinator.ts; `Gpt*` gpt-script.worker.ts (idea, hook, script, scenes, ready,
  fan-out); `Image*` image-gen.worker.ts; `Render*` runway-clip.worker.ts and
  heygen-render.worker.ts, which have the same control (create once, store the id, poll, save,
  charge, notify) and differ in which scenes they render and in `HeygenPayload`; `State*`
  pipeline-state.worker.ts; `Compose*` video-compose.worker.ts; `Handler*` the listeners of
  index.ts.
* `CreateVideoJob`..`ReleaseNotEnqueued`, `Cancel*`, `DeleteVideo`, `Retry*`, `Recompose*` are
  the API.
* `AttemptFails`: any await may throw. `OrchestratorDies`: active queue jobs stall and are given
  out once more, or fail; listeners under way are gone. `ApiDies`: what a request still had to
  do is not done.

Abstractions: prompts, scripts, titles, captions, files, job events and progress messages are
left out; a price is a constant per stage; backoff is dropped, so a waiting job may start at any
time (more behaviours than the code has); the admin's two reads (payload, scenes) are one step;
`addOrReplace` (get, remove, add) is one step; when a provider reports a resumed task as gone,
clearing its id always succeeds; the script worker's event and progress message after its last
`queue.add` do not throw; the clean-up of a job that could not be enqueued does not fail halfway (an
API that dies there does the same); the several `queue.add` of an admin's retry, the statements of a
DELETE, and a state worker's update of its scene with its read of all of them are one step each.
`discard()` on the API's own copy of an active queue job has no
effect in the code, hence none here.

### Publishing and the code

One distribution of `N` items. `dist`, `item`, `post`, `published`, `failed` are the rows and
counters; `distTask` and `tasks` the BullMQ jobs; `loop` the copy of the items the dispatch works
on; `listeners` the `failed` events under way; `phoneLock` and `farmLock` the two Redis locks.
`posts` counts what really went onto the platform, which the code cannot see.

* `Dist*` distribute.worker.ts, one action per write of its loop; `Cancel*` uniquify.routes.ts;
  `Publish*`, `Lock*`, `Call*`, `Unlock*` publish.worker.ts; `Claim`, `CountUp` are the two
  statements of `settleDistributeItem`, `RecordFailure` the first of `finalizePublishFailure`,
  used by the worker and by `ListenerStep`.
* `Path` tells the three branches of the worker apart by what they do with an attempt that may have
  posted (`InDoubt`): without an answer it is final (`UnrecoverableError`) on the private and the
  device path, and retried on the official one. An error *answer* of the private publisher is
  retried as well, and it may come after the upload: apps/publisher/app/api/publish.py:59-61 turns
  every exception into a 502. Only the device path takes locks.
* Where an error goes depends on where it is thrown: out of the handler (before the `try`, or in
  `finalizePublishFailure`), into the `catch` block (before the post), or into its `posted`
  branch (after it); and updates with `.catch(() => {})` are ignored. `PublishThrowsOut`,
  `PublishThrowsIn`, `PublishThrowsAfter` and `PublishIgnores` are these four.
* `outcome` stands for the local `posted` and the kind of error.

Abstractions: an item has one `PublishJob` row - the row of a dispatch that was cut short before
it linked it is never published and is left out; what the guards of the dispatch look at is the
choice of `DistSkip` for the items of `MaySkip`; times, captions, sessions, tokens, health scores
and notifications are left out; the worker's concurrency of two is not a limit here, delays and
backoff are dropped (more behaviours); a release of a lock that Redis refuses is ignored by the code and
has no step of its own (a lock that outlives its attempt is there anyhow); the locks of an agent that answers "busy" are released
just before, not just after, the job is delayed by 90 seconds; a worker loses its hold on a BullMQ
job only by dying; publish jobs without a distribution are left out.

### DeviceTasks and the code

The agent is one Node process, so what happens between two awaits is one action. A task is one
request that takes a phone (`/publish`, `/account-login`, `/view-target`, ...), from `acquire()` to
its `finally`.

* `Acquire`, `Enter`, `GiveUp`, `Unlock` are `DeviceMutex.acquire` and the function it returns. The
  chain of promises of a phone is the order of `place`; a promise counts as resolved when its
  task is in `settled`; `Reached` is the resolution of `prev.then(() => mine)`: every promise
  before it in the chain.
* `Lease*`, `Wired`, `WiringFails`, `RotateOrRun`, `Rotated`, `ReleaseLease` are
  `acquireTaskLease` with the wiring (`applyDevice`) and the rotation (`freshIpForTask`) it
  awaits; `leased` is the set of release functions that were not called.
* `PublishHolds`, `HoldEnds`: POST /publish answers and frees the phone while the app may still
  be uploading, and keeps the lease for `PUBLISH_PROXY_HOLD_MS`.
* `SetProxy` .. `RotateIp` are the operator's requests. Those that await ADB between what they
  look at and what they do are two actions. `RotateIp` is POST /proxy/rotate-ip, which asks nobody.
* `cut` is what the last step did to the phones' connections through the gateway: `setActive` drops
  those of the phone that loses the proxy and of the one that gets it (`Handed`), a change of a
  phone's proxy its own, a change of the mode everybody's; a rotation gives whoever uses the shared
  proxy another address.

Abstractions: the proxies themselves, forwarders, measured addresses and persistence are left
out; whether a rotation is due is a choice; only one request of the operator is under way at a
time; a proxy test or a busy answer changes nothing and is left out; timers may fire at any time,
except that a waiter whose turn has come enters.

### Uniquify and the code

One job from POST /uniquify-jobs on. `job` and `variant` are its row and those of its variants,
`tasks` the BullMQ jobs of the analysis and of the renders (each retry makes new ones),
`events` the state jobs that wait, `counted` and `reconciler` what a state worker's transaction and
the scheduler's reconciler have read and not yet written.

* `Analyze*` uniquify-analyze.worker.ts, the rows created one by one; `Render*`
  uniquify-render.worker.ts; `StateCount`, `StateCommit` the transaction of
  uniquify-state.worker.ts, whose reads and update are two steps because read-committed
  transactions see each other's rows; `Reconcile*` scheduler.worker.ts:281-308; `Cancel*`,
  `Retry*` uniquify.routes.ts.
* Where an attempt throws decides who hears of it: before the `try` (`AnalyzeThrows`, `RenderThrows`)
  and when the update of the `catch` block fails, nobody does. The other failures write `failed`.
* `stranded` is a history variable: the rows (0 for the analysis) a handler has left to nobody on
  purpose (their render found the job cancelled), or by the gaps of section 6: a last attempt that
  failed without a word, a retry that resets a row it does not queue, an analysis that drops one a
  retry has just reset, a render that has stalled for good.
* A row that was dropped while a render of it waits makes that render throw (`RenderOrphan`).

Abstractions: the source video's status, clips, scripts, voices and files; the two counts and the
status a state worker reads are one step; the API's death between the steps of a retry.

### Autopilot and the code

One autopilot. `ap` and `batch` are its rows, `project` the status of the montage a batch is linked
to, `copies` the status of its uniquification and the variants fit to post, `item` the posts of a
copy by an account, `tick` where the scheduler's tick is and what it has read. Whether a stage
has timed out is the flag `old`, set by time (`Ages`), cleared when a stage begins, and read by the
tick at its start, as `now` and `stageStartedAt` are.

* `TickStart` .. `TickStop` are `advanceBatches` with `failBatch`: the list is read once, the state of
  the project or of the copies is read batch by batch. `Supply*` is `topUpSupply`; `NoWindow`,
  `PlanWindow`, `Book`, `Send`, `EndWindow` are the publish window.
* `Produce*` is autopilot-produce.worker.ts; `Edits` stands for both editor workers; `CountFailure`
  and `Stop` are the two statements of `failBatch` that the tick and the produce worker share.
* `TickFails` and `Crash` end the tick anywhere; the next one starts from the rows.

Abstractions: one day (an account's quota does not come back); the eligible accounts are any set, read
anew by each tick; whether the project has a source left is a choice; the three reads a window
plans from are one step; the shuffled greedy loop is any assignment that cannot be extended; the creation
of a project and the link to it are one step; sources, scripts, captions, journal and notifications.

## 3. What each run checks

| run | instance | checks |
|---|---|---|
| `races` | three releasers, two chargers asking for more than is left, three unreliable connections | `TypeOK`, `ReleasedAtMostOnce`, `ReturnMeansReleased`, `Conserved`, `LedgerSpec`, `EveryCallEnds` (1.7k states) |
| `exactly_once` | one releaser, two chargers, nothing breaks by itself | violates `ReleasedExactlyOnce` |
| `faults` | avatar, clip and text scenes, two failures, a cancel | `TypeOK`, `NotLeftRunning`, `BilledAtMostOnce` (856k states) |
| `crashes` | a clip scene, an account that cannot pay for everything, two process deaths, a failure, a cancel; under fairness | `PaidOnce`, `ReserveReturned`, `Conserved`, `LedgerSpec`, `CancelWinsTheClaim`, `Settles` (212k states) |
| `retry` | avatar and clip scenes, two failures, one retry or recompose | `CompletedHasAssets`, `BilledAtMostOnce` (397k states) |
| `farm` | two items on two phones behind one proxy, one may be skipped, a failure, a cancel; under fairness | `OneFarmCall`, `CompletedIsDone`, `PublishEnds` (65k states) |
| `redelivery` | one item on a phone, two failures, two process deaths, a cancel | `TypeOK`, `PostedOnce`, `CountedOnce`, `PublishedStays` (450k states) |
| `official` | one item on an official client, one failure | violates `NeverTwice` |
| `phones` | four tasks on two phones, three of them on one, one a publish; one request of the operator | `TypeOK`, `OneTaskPerPhone`, `LeaseCounted`, `LeftAlone`, `FifoSpec`, `ProxyStays`, `EverythingComesBack` (338k states) |
| `uniquify` | two variants, one render at a time, two recounts at a time, two failures of which one may be a crash, two attempts each, a request; under fairness | `TypeOK`, `NoOrphans`, `NobodyForgotten`, `Ends` (1M states) |
| `supply` | two batches at a time, an event (failure, crash, activate or pause), stages that time out; under fairness | `TypeOK`, `NotifiedOnce`, `BatchEnds` (786k states) |
| `windows` | two accounts, a ready montage and a new one with two copies each, three windows, an event (failure, crash, publish-now or produce-now) | `OneFile`, `NeverDoubleBooked` (4M states) |

The properties, and what would break them:

* `ReleasedAtMostOnce`, `ReturnMeansReleased`: a caller that looks for the `refund` row without
  locking the job, or that trusts a row that is rolled back.
* `Conserved`, `LedgerSpec`: any release or charge that moves more, less or twice.
* `EveryCallEnds`: a lock cycle nobody breaks.
* `BilledAtMostOnce`: a worker that is delivered again charges for what it finds done.
* `PaidOnce`: a worker that is delivered again buys a second task although the first is known.
* `NotLeftRunning`: the last scenes finish at the same time and none of their state jobs sees
  all of them done, or a stage skips its work without telling the next. `HandedOut` excepts the
  scripts whose job is left running in the code (section 6).
* `ReserveReturned`: everything has come to rest on a final status and the reserve is still held.
  A pipeline-state job that was lost is no excuse; a listener or a request that was cut short is.
* `CancelWinsTheClaim`: a cancel between the coordinator's read and its claim.
* `CompletedHasAssets`: a job completed with a scene that is neither done nor given up. It speaks
  of at most one request of an admin, since a second one breaks it (section 6).
* `Settles`: a started job stays in an intermediate status for ever.
* `PostedOnce`: a redelivered run posts what an earlier run may have posted. The property is about
  the items that go through a phone, since the other two paths retry an error that may have come
  after the post (section 6), and allows for one gap the code has: an attempt that recorded `failed` and was cut short before BullMQ was
  told (history variable `cut`) is run again, and neither `uploading` nor `published` stops it.
* `CountedOnce`: worker, redelivered worker and listener settle one item twice.
* `PublishedStays`: a `failed` event, late or after a second stall, overwrites `published`.
* `CompletedIsDone`: a distribution is called completed while an item may still be published.
* `OneFarmCall`: a lock that expires under its owner, or that another attempt deletes.
* `PublishEnds`: a lock left behind (the farm's lock failed after the phone's was taken) keeps
  every later job of the phone waiting for ever.
* `OneTaskPerPhone`, `FifoSpec`: a waiter that gives up resolves its promise and lets the next one
  in while an earlier task is still on the phone, or a task overtakes.
* `LeaseCounted`: the release of a trailing publish ends the lease of a later task, or is called
  twice.
* `LeftAlone`: a task of another phone, or work of the operator on one, drops the connections of a
  phone that is uploading, or changes its address. `AskedFor` names the requests that say they do
  so, none of which the agent refuses (section 6).
* `ProxyStays`: anything but the four steps named in `Overrules` moves the proxy from a running task.
* `EverythingComesBack`: a waiter or a holder that fails keeps its place or its lease.
* `NoOrphans`: a retried analysis keeps the rows of an earlier attempt beside its own.
* `NobodyForgotten`: a row is open and nobody will ever render it: a retry whose new queue job is
  dropped for its id, a failure that leaves `rendering` behind. Excepted are the rows `stranded`
  names, which the code does leave behind (section 6).
* `Ends`: reports that are lost, and a reconciler that does not find the job. Excepted are a job with
  something stranded or whose analysis has stalled for good (section 6).
* `OneFile`: a failed post makes its montage look as if it was never received.
* `NeverDoubleBooked`: a window that was broken off is repeated, and what it had booked does not count.
* `NotifiedOnce`: two batches that fail at the same time both stop the autopilot, or one of them stops
  an autopilot that a user has just paused.
* `BatchEnds`: a lost job or a dead editor, and a stage without a time limit.

### Bounds, and why they are enough

* Attempts: 1 or 2, where the code has 3 (pipeline, gpt, image), 5 (runway, heygen), 2 (compose)
  and 1 (pipeline-state, the same). What matters is that there is an attempt that is retried and
  one that is the last; a third repeats the second. `MaxFaults` = 1 or 2, so that one failure may
  hit a retry of another.
* Scenes: two working scenes are the smallest number with a race at the stage barrier; a text
  scene has no worker and must not hold it up. The avatar scenes share one render. The
  properties that concern a single scene's worker are checked with one scene and more crashes.
* `MaxCrashes` = 2 because a queue job may stall once and fails when it stalls again.
* `Publishing`: an item meets another one only at the farm's lock and in the counters, for which
  two are enough; what redelivery can do to an item concerns its own job only, so that one item
  with two deaths and two failures is the harder instance. A published job taken back needs both
  deaths; a job whose attempts are used up needs both failures. An item on the private path has the
  steps of one on the official path and no locks; it is in the proofs, not in a run.
* `MaxSlots` bounds the image and heygen jobs without deterministic id: 1 without admin
  requests, 3 with one. `RetryEnqueue` and `GptFanOut` are disabled when none is left; the runs
  have one more than they use.
* One admin request at a time. With two, both read `failed` before either resets it, both add
  image jobs and an asset may be charged twice; and a retry during a recompose resets a scene
  the composition already left out - the latter also when the second request comes after the first.
  Both are listed among the hazards; neither property is claimed beyond one request.
* Credits: 10 where the account can pay, 5 (of which 3 are reserved) where it cannot pay for all.

* `DeviceTasks`: three tasks on one phone are the smallest queue in which one in the middle can give
  up; a fourth on the other phone contends for the lease. A second publish meets the first only
  in the count of the lease, where a later task of the same phone does the same.
* `Uniquify`: with two variants there is a last one and one before it. The second run of
  the analysis begins with whatever the first had done, and finds the renders of a fan-out whose
  reply was lost. `MaxRows` leaves room for two fan-outs; rows that were dropped before any render
  knew of them give their names back. One request is a cancel or a retry: what the two do to each
  other needs a second one and is among the gaps of section 6.
* `Autopilot`: `MaxFailures` is 1 where the code has 3: every failure then is one that stops the
  autopilot, and a second one that fails at the same time meets the stop. One event in
  `supply` beside the time-outs, which are free; in `windows` a window that breaks off needs one, the
  repetition of it is a window of its own. Montage 1 of `windows` is ready from the start so that the
  first window has something to post.

`CHECK_DEADLOCK FALSE` in all but the credit runs: a job, a distribution or a set of requests that
is over, with its bounds used up, has no next step.

`dropped` is a history variable: a failed listener whose database call fails is logged and
forgotten, an API that dies leaves the rest of its request undone. The code has nothing that
finds such a job, so `ReserveReturned`, `NotLeftRunning` and `Settles` except it, as they except
`StateLost`, a failed pipeline-state job (one attempt, no listener).

### Fairness

`FairSpec` is weakly fair to every worker on every queue job, to the failure listeners and to
API requests that have begun: BullMQ workers poll as long as the process lives, and listeners and
requests are promises whose awaits return. Nothing is assumed of new requests, failures or
crashes. `Publishing!FairSpec` is fair to the workers, the listeners, a cancel that has begun and
to Redis, which drops a key whose time to live is over; the time to live (20 minutes and a
margin) is longer than the timeout of the call it protects (device-agent.ts
`DEVICE_PUBLISH_TIMEOUT_MS`), so only the lock of an attempt that is gone expires.
`DeviceTasks!FairSpec` is fair to each request that is under way: timers fire, ADB calls and flows have timeouts
(`execAdb`, the handlers of index.ts). That a request is made at all is not assumed. `Uniquify!FairSpec` asks only that something goes on while
something can: each worker, request and the reconciler has a bounded number of steps to do.
`Autopilot!FairSpec` assumes the tick and the passing of time and nothing of the workers. In `CreditTransactions` callers are scheduled fairly and PostgreSQL breaks deadlocks
(`deadlock_timeout`).

## 4. What is proved

For every number of callers, every price and amount, every script, every number of attempts and
every bound, under the named assumptions `TransactionsAssumption`, `PipelineAssumption`,
`PublishingAssumption`, `DeviceTasksAssumption`, `UniquifyAssumption` and `AutopilotAssumption` (types of the constants; a positive estimate; the state queue has one
attempt; `Free` is no item).

`CreditTransactionsProofs` (335 obligations): `TypeCorrect`, `AtMostOnce`, `ReturnedIsReleased`,
`MoneyConserved`, and `ImplementsLedger` (`Spec => Ledger!Spec`). None of the four invariants is
inductive alone. `IInv` adds `LocksHeld` - a releaser between its lock and its commit holds the
job row, whoever is in the middle of a balance update holds the tenant row - and
`ReadsStillHold` - what a transaction read before is still true when it commits: no refund
row exists for a releaser past its check, the balance covers the price of a charger past its
debit. With these each step is a case of a few lines.

`VideoPipelineProofs` (6276 obligations): `MoneyConserved`, `ImplementsLedger`, `CancelWins`, `TypeCorrect`,
`BilledOnceWithoutRequests`, `PaidOnceWithoutRequests`, `ReserveComesBack`, `CompletedIsComplete`,
`NeverLeftRunning`. Most
of the seventy actions do not touch the account; the argument is that each is a `MoneyStep` - it
leaves the account alone, charges what the balance covers, or releases. The one global fact it
needs is `NotCreated`: before `createVideoJob` has committed there is no queue job, scene,
request or listener, so that nothing can charge a job without a reserve. `IInv` carries it.
`CancelWins` follows from the actions alone: of those that set `running`, `PipelineClaim` looks
at the status in the same statement, `RetryReset` is an admin's wish.

`BilledOnceWithoutRequests` and `PaidOnceWithoutRequests` say that redelivery, failed attempts and process deaths never reach a second charge,
nor a second provider task but for one whose id was lost, as long as no admin has asked for a retry or
recomposition (`requests = 0`; a request uses rows again and adds second queue jobs, and there the two
invariants are model-checked only). `OnceInv` says, for each queue job of an asset, where it may stand
against what is stored: it is charged only after the asset was written, a worker before its charge has not
charged, who creates a provider task has found none stored, and a task whose id is neither stored nor in
hand is one that was lost. That needs two facts about the rest: every asset has one queue job, the first slot,
and the scenes it stands on are created once, before the fan-out (`FanOutInv`), so that nothing resets a stored
id or asset. A step of a worker moves its own job within `MediaInv` and leaves the others `Spared`; an API
call, a listener or another queue's worker is an `OutsideStep`; a death of the process turns what was in hand
into `lost`.

`ReserveComesBack`: "at rest" says nothing about how a job got its final status, so `ReserveInv` follows
whoever gave it. The requests of the tenant, and compose, still have the release before them when
they write it (`Returning`). A state job fails a job only because some scene is marked failed, and who
marks a scene - the listener of its worker - returns the reserve itself, which is why a state job that is lost
between its two writes does no harm: once a scene is marked the reserve is back, a listener is under way, or
one was cut short (`Returned`). It holds for any number of requests of admins.

`CompletedIsComplete`: compose refuses to start while an asset is missing, but what it has seen may change
before it finishes. Where `AllUrls` holds it holds for good. Otherwise (`AssetsInv`) nobody is about to start
compose but the one request of the admin, and if that composes it resets no scene; then every
scene is still on its first run (`FirstRun`): a scene that is marked failed has a queue job that failed for
good, no second job of that scene will come, so that what compose has accepted as given up stays so.

`NeverLeftRunning`: `BatonInv` follows the job from hand to hand. While it is on its way to compose
(`Underway`) there is the create request or the coordinator's queue job before the script is queued
(`StartInv`); a script job that is done has handed each scene to its first worker (`FannedOut`); a worker of an
asset that is done has handed the scene on (`HandedOn`) or its failure waits to be recorded (`Told`); and not
all state jobs are done: a state job is added when its scene has its asset and marks the scene before
it reads the others (`UrlInv`), so that one that finds a scene undone leaves another state job behind it.
At rest
these leave no state job that could be missing.

`PublishingProofs` (990 obligations): `TypeCorrect`, `OneUpload`, `PublishedForGood`, for any
number of items, phones, attempts, faults, crashes and cancels. `OneFarmCall` is not inductive:
two uploads exclude each other because each owns the lock (`FarmHeld`), which survives expiry
only because nobody's lock expires under an upload. `PublishedStays` rests on `Recorded`: the
dispatch works on a copy of the items, and would overwrite a published row if that copy still
said `pending`; it does not, because an item it has enqueued is no longer pending in the row
before the job exists, and every later copy is read from the rows. And an attempt that may still
write another status has seen the row unpublished and is the only one that could publish it.

`PublishingCountProofs` (1580 obligations): `NeverPostedAgain`, `SettledOnce`, `DoneWhenCompleted`,
for the same. `PostedOnce` (of the items on phones) needs `Aware`: a post that may be live is known of - the queue job is over,
or the row says `uploading` or `published` so that the next attempt will not post, or the attempt
under way remembers it; an attempt that has written `failed` over the row and dies knows it last,
which is what `cut` counts. For the counters every step of the system is one of three (`CountersStep`): nobody settles
an item, one worker or listener settles one that was open, or whoever settled it counts it. So
no item is counted twice (`Counters`), worker and listener of an item are never both about to count
it (`Late`: a listener runs for a job that has failed for good), and the increment that reaches the total finds
every item settled (`AllCounted`). The dispatch's shortcut is right because what it passed as skipped stays
skipped (`PassedSkips`).

`DeviceTasksProofs` (733 obligations): `TypeCorrect`, `OneAtATime`, `ImplementsFifo`, `LeaseIsCounted`,
`UploadsAreLeftAlone`, `ProxyStaysPut`, for any tasks and phones. `InLine` says how the chain and the
requests belong together: places of a phone are different and within its length, a task that is inside has only
settled promises before it, and a promise is settled exactly when its task has left. Two tasks inside
would each have the other before it. The same invariant gives the order that `Fifo!Enter` asks for. For
the lease, `Holders` adds that a task past its own wiring is a holder, or needs no lease; who
rotates was counted first, so that its phone is its own, and a second holder would have to be inside
as well. So a rotation for a task meets no upload, and a task is only wired when nobody of another phone
holds the lease; what is left that cuts an upload is what `AskedFor` names.

`AutopilotProofs` (691 obligations): `TypeCorrect`, `NoFileTwice`, `OnePostAtATime`, `OneAlarm`, for any
numbers of accounts, batches, copies and events. A plan is made from what the rows say and carried out in
several steps, so `PlanHolds` says that the part of it that is still to be booked stays right: its
copies are nobody's, its accounts (`FreeFor`) have nothing in flight and have not received the montage,
whatever happens meanwhile - only the tick books. What a broken-off plan has left needs no invariant: the next
plan reads the rows.

`UniquifyProofs` (1360 obligations): `TypeCorrect`, `NoOrphanRows`, `NobodyIsForgotten`. The count of rows
without a render is bounded because
those of earlier runs have one, or are dropped before the present run creates the first of its own:
`Known` (a row of no run has no render), `Touched` (only rows with a render leave `pending`), `First`
and `Again` (between the drop and the fan-out the rows that wait are those of this run). That nobody is
forgotten is `Minded`: each row that is not done that is not stranded is pursued by a render that has not written its end, or is
to be handed out by the present run of the analysis, or was reset by a retry that will queue it. The retry's
`queue.add` is not dropped because the id it uses was never used (`Fresh`).

Only model-checked: `EveryCallEnds`, `Settles`, `PublishEnds`, `EverythingComesBack`, `Ends` and `BatchEnds`
(liveness is out of the prover's reach); `BilledAtMostOnce` once an admin has asked for something. Every other
property of a run that passes is a theorem.

## 5. Not modelled

The components with status `not_modelled` in `PROJECT.json`, each with its reason. In short: UI
scripts, provider clients, language-model helpers, the Python services, the web interface and
infrastructure keep no shared state, or their hard part is in what an external program shows. The web
interface and the routes are most of the repository's lines and hold none of its control.

* Presets, schedules and campaigns of the scheduler: one loop over due rows in one process, with a write
  at its end. The hazards are a crash between the run and that write (it is run twice) and a search for the
  next date that looks seven days ahead only; nothing in the code counters either, so that there is no
  property to hold.
* Warmup: one job per account and day by its id. A session that is delayed past midnight is followed by the
  next day's within minutes, although the comment at scheduler.worker.ts:315 speaks of some 22 hours.
* Refresh tokens: one conditional delete decides between two tabs. Progress streams: a subscription that
  fails is never tried again.
* What is external to each module (providers, phones, BullMQ, Redis) is marked so in the map.

## 6. Where the code and its documents disagree

* `exactly_once`: the reserve is released *at most* once. PostgreSQL may abort the only release
  as a deadlock victim, and its caller logs the error.
* `official`: an official client whose answer is lost after the post went through is retried, and
  posts again. The private path has a gap like it: the publisher answers 502 to every exception, one
  after the upload included (apps/publisher/app/api/publish.py:59-61, 74-76; instagram.py:104-106 dumps
  the session after `clip_upload`), and `isOutcomeUnknown(err, false)` (publish.worker.ts:356) takes an
  error answer for nothing posted: the job is retried.

Also without a run of their own: four status updates of the pipeline
(gpt-script.worker.ts:597, pipeline-state.worker.ts:117, video-compose.worker.ts:498,
index.ts:286) and two of the distribution (distribute.worker.ts:60, publish.worker.ts:139) are
unconditional and overwrite a cancel just before them; a distribution with a skipped item beside
a published one is never completed, since skipped items are in the total only; a crash between
distribute.worker.ts:235 and :254 leaves an item no retry looks at.

And, described by `DebitRefused` and `Charge`: the comment at credits.ts:19 allows a negative
balance, the schema's check constraint does not, so a charge that is not covered throws after the
asset was saved, and the retry, finding the asset, never charges it.

Met while modelling, each with the lines that show it:

* Pipeline. pipeline-state.worker.ts:2 calls its jobs "idempotent via BullMQ jobId dedup"; the update at
  line 117 is unconditional, so that a scene's notification that is redelivered after the composition has
  finished sets the completed job back to `composing`, where it stays. docs/architecture.md:560 says
  "incomplete jobs never enter compose stage"; an admin retry (admin.routes.ts:571-577) of a job cancelled in
  the middle of its scenes finds no failed scene and goes straight to composing. The same line says "Stale
  jobs (no update > 30min) -> cron marks failed"; there is no such job, and a script of text scenes only, or
  a scene without its optional prompt (gpt-script.worker.ts:624-655), is handed to nobody: the job stays
  `scenes_ready`. Two requests one after the other - a retry of a cancelled job, which composes, and a retry
  after one of its scenes has failed meanwhile - complete a job with a scene that has no asset: the second
  resets a scene that the composition of the first has accepted as failed.
* Device agent. proxy-manager.ts:152 says that a running task "owns the shared proxy until it finishes",
  :785 that a switch is refused meanwhile. `switchActiveDevice` and `setMode` look before an await and act
  after it, and `clearProxy` does not look; each takes the proxy from a task that has got the lease
  (`Overrules`). proxy-manager.ts:858 says that "the IP is changed only BETWEEN tasks, never mid-upload";
  POST /proxy/rotate-ip (index.ts:220) changes it without looking at the lease, and assigning a proxy to
  the phone that holds it drops that phone's connections (`setProxy`, `batchSetProxy`): `AskedFor`.
* Uniquification. A cancel is overwritten by an analysis that goes on (uniquify-analyze.worker.ts:148, 342),
  by the reconciler and by a state transaction that has read the job before. retry-failed resets what has
  failed by the time of its update (uniquify.routes.ts:689) and queues what had failed when it looked. Two
  recounts may commit in the wrong order and leave old counters ("Recompute counters from the actual variant
  rows", uniquify-state.worker.ts:78); a decrement by a stale number can make `failedCount` negative. A
  database error before the `try` (uniquify-analyze.worker.ts:133-149, uniquify-render.worker.ts:71-84), or in
  the update of the `catch` block (:442-445, :180-183), of the last attempt leaves an analysis `pending` or
  `analyzing`, or a row `pending` or `rendering`, for good: the queues have no `failed` listener, and the
  reconciler waits for rows that are done (`stranded`). A lost reply of the fan-out leaves
  rows of the first one rendering beside those of the second. No listener
  hears of an analysis or a render that stalls twice: the job of such an analysis stays open, and the
  reconciler, "All expected variants exist" (scheduler.worker.ts:292), waits for rows that never come. A retry
  that is pressed while the analysis runs again resets rows which that analysis then drops.
* Autopilot. A crash between the transaction of a window and its queue job (loop.ts:530, 553) leaves items
  `pending` for good, and their accounts in flight. The produce worker's updates (autopilot-produce.worker.ts:
  102, 288, 324) are unconditional: a batch that the tick has failed comes back to life, beside the one that
  replaced it. A failure between the creation of a project and the link to it makes a second project
  ("must not create a second one", :97). A failed enqueue after the link is retried as a no-op (:99) and ends
  by the clock. A publish-now that is pressed during a window is overwritten at the window's end.
* Campaigns and distributions by hand look neither at posts in flight nor at montages received.

## 7. Plan

1. Done: the modules of section 2 and the proofs of section 4.
2. Standalone publish jobs in `Publishing`, and an abstract specification of an item's life (open,
   posted, settled) which the worker and the listener implement.
3. Proofs: `BilledAtMostOnce` and `PaidOnce` under an admin's retry; the refinement of item 2.
4. The user's side of the editor and the deletion of uniquification jobs and autopilots under running
   workers.
