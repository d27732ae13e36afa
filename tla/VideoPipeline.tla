--------------------------- MODULE VideoPipeline ---------------------------
(***************************************************************************)
(* One video job of one tenant, from POST /videos to its last queue job:   *)
(* the API that creates, cancels and retries it, the BullMQ workers of the *)
(* orchestrator that run its stages, the rows they share and the tenant's  *)
(* credits.                                                                *)
(*                                                                         *)
(*   pipeline -> gpt -> image -> runway --.                                *)
(*                  `-> image -----------+-> state -> compose              *)
(*                  `-> heygen ----------'                                 *)
(*                                                                         *)
(* Every worker is split where it awaits something another actor can       *)
(* change; an attempt may throw at any await, the orchestrator may die     *)
(* between any two.  Job events, progress messages and titles are left out.*)
(***************************************************************************)
EXTENDS JobQueue, Integers, Sequences, FiniteSets

CONSTANTS
  SceneType,       \* sequence: the type of each scene of the script, by scene index
  Unprompted,      \* scenes the model wrote without script or bRollPrompt
  InitialCredits,  \* Tenant.credits
  Estimate,        \* credits reserved for the job
  Price,           \* credits charged by a stage
  Attempts,        \* defaultJobOptions.attempts of each queue
  Admins,          \* admin requests that may be under way at the same time
  MaxSlots,        \* bound: image and heygen queue jobs per scene over the whole run
  MaxFaults,       \* bound: attempts, events and saves that fail by themselves
  MaxCrashes,      \* bound: deaths of the orchestrator process
  MaxCancels,      \* bound: cancel requests
  MaxRequests,     \* bound: retry and recompose requests
  MayRecompose     \* whether the admin uses recompose

Scenes == DOMAIN SceneType
Job == 0    \* the "scene" of a queue job that is about the whole job

QueueNames == {"pipeline", "gpt", "image", "runway", "heygen", "state", "compose"}

ASSUME PipelineAssumption ==
  /\ SceneType \in Seq({"avatar", "clip", "image", "text"})
  /\ Unprompted \subseteq Scenes
  /\ InitialCredits \in Nat /\ Estimate \in Nat \ {0}
  /\ Price \in [{"gpt", "image", "runway", "heygen"} -> Nat]
  /\ Attempts \in [QueueNames -> Nat \ {0}]
  /\ Attempts["state"] = 1
  /\ {MaxSlots, MaxFaults, MaxCrashes, MaxCancels, MaxRequests} \subseteq Nat
  /\ MayRecompose \in BOOLEAN

VARIABLES
  job,         \* Job.status, "none" before the row exists
  video,       \* Video.status
  scene,       \* the Scene rows
  avatarKey,   \* Job.payload.combinedAvatarUrl is set
  tasks,       \* the BullMQ jobs
  failures,    \* 'failed' event handlers under way
  creating,    \* where createVideoJob is
  cancelling,  \* where the cancel request is
  request,     \* where each admin retry or recompose request is, and what it has read
  balance,     \* Tenant.credits
  reserve,     \* the job's soft reserve: "none", "held", "released"
  charged,     \* sum of the job's 'charge' transactions
  creditsUsed, \* Job.creditsUsed
  billed,      \* history: how often each asset was charged
  paid,        \* history: provider tasks created for each asset
  lost,        \* history: those whose id was never stored, or that the provider dropped
  dropped,     \* history: a 'failed' handler or an API request was cut short
  faults, crashes, cancels, requests   \* how much of each bound is used

rows    == <<job, video, scene, avatarKey>>
queue   == <<tasks, failures>>
api     == <<creating, cancelling, request>>
account == <<balance, reserve, charged, creditsUsed, billed>>
history == <<paid, lost, dropped>>
used    == <<faults, crashes, cancels, requests>>
vars    == <<rows, queue, api, account, history, used>>

-----------------------------------------------------------------------------
(* Queue jobs.  pipeline, gpt, runway, state and compose have deterministic *)
(* ids; image and heygen are added without one, n tells them apart.         *)

Task(q, s, n) == [q |-> q, s |-> s, n |-> n]
Pipeline == Task("pipeline", Job, 0)
Gpt      == Task("gpt", Job, 0)
Compose  == Task("compose", Job, 0)
Runway(s) == Task("runway", s, 0)
State(s)  == Task("state", s, 0)

OfType(type) == {s \in Scenes : SceneType[s] = type}
Prompted     == Scenes \ Unprompted
Avatars      == OfType("avatar") \cap Prompted
Primary      == CHOOSE s \in Avatars : \A x \in Avatars : s <= x
Media        == Scenes \ OfType("text")

TaskIds ==
  {Pipeline, Gpt, Compose}
    \cup {State(s) : s \in Media}
    \cup {Runway(s) : s \in OfType("clip")}
    \cup {Task("image", s, n) : s \in OfType("clip") \cup OfType("image"), n \in 1..MaxSlots}
    \cup {Task("heygen", Job, n) : n \in IF Avatars = {} THEN {} ELSE 1..MaxSlots}

TasksOf(q) == {t \in TaskIds : t.q = q}

(* The job ids the next add without a jobId may use: one for each scene.    *)
NextSlots(q, S) ==
  {t \in TasksOf(q) : /\ t.s \in S
                      /\ tasks[t].st = "absent"
                      /\ \A n \in 1..(t.n - 1) : tasks[[t EXCEPT !.n = n]].st # "absent"}

SlotsLeft(q, S) == \A s \in S : \E t \in NextSlots(q, S) : t.s = s

TaskPC == {"start", "claim", "video", "enqueue", "ideaUsed", "hook", "hookUsed", "script",
           "scriptUsed", "scenes", "ready", "fanout", "call", "create", "saveId",
           "poll", "save", "payload", "charge", "used", "notify", "fail", "refund",
           "compose", "add", "finish", "settle"}

JobStatus   == {"none", "pending", "running", "scenes_ready", "processing",
                "composing", "completed", "failed", "cancelled"}
VideoStatus == {"none", "pending", "processing", "composing", "completed",
                "failed", "cancelled"}
SceneStatus == {"none", "pending", "processing", "completed", "failed"}

ActiveJobStatuses == {"pending", "running", "scenes_ready", "processing", "composing"}

(* url and done: the asset column and the done flag of the scene's type;    *)
(* frame: frameUrl; ext: runwayTaskId or heygenVideoId.                     *)
SceneRow == [status : SceneStatus, url : BOOLEAN, done : BOOLEAN,
             frame : BOOLEAN, ext : BOOLEAN]
NoScene  == [status |-> "none", url |-> FALSE, done |-> FALSE,
             frame |-> FALSE, ext |-> FALSE]

Assets == {[q |-> t.q, s |-> t.s] : t \in TasksOf("image") \cup TasksOf("runway") \cup TasksOf("heygen")}
AssetOf(t) == [q |-> t.q, s |-> t.s]

RequestPC == {"idle", "retryReset", "retryEnqueue", "recomposeReset", "recomposeEnqueue"}
NoRequest == [at |-> "idle", scene |-> [s \in Scenes |-> NoScene], avatar |-> FALSE]

TypeOK ==
  /\ job \in JobStatus /\ video \in VideoStatus
  /\ scene \in [Scenes -> SceneRow] /\ avatarKey \in BOOLEAN
  /\ DOMAIN tasks = TaskIds
  /\ \A t \in TaskIds : tasks[t] \in QueueJob(TaskPC, Attempts[t.q])
  /\ failures \subseteq [t : TaskIds, at : {"mark", "refund"}]
  /\ creating \in {"idle", "enqueue", "markFailed", "release", "done"}
  /\ cancelling \in {"idle", "video", "queue", "release", "mark"}
  /\ request \in [Admins -> [at : RequestPC, scene : [Scenes -> SceneRow], avatar : BOOLEAN]]
  /\ balance \in Nat /\ charged \in Nat /\ creditsUsed \in Nat
  /\ reserve \in {"none", "held", "released"}
  /\ billed \in [Assets -> Nat] /\ paid \in [Assets -> Nat] /\ lost \in [Assets -> Nat]
  /\ dropped \in BOOLEAN
  /\ faults \in 0..MaxFaults /\ crashes \in 0..MaxCrashes
  /\ cancels \in 0..MaxCancels /\ requests \in 0..MaxRequests

Init ==
  /\ job = "none" /\ video = "none"
  /\ scene = [s \in Scenes |-> NoScene]
  /\ avatarKey = FALSE
  /\ tasks = [t \in TaskIds |-> NoJob]
  /\ failures = {}
  /\ creating = "idle" /\ cancelling = "idle"
  /\ request = [a \in Admins |-> NoRequest]
  /\ balance = InitialCredits /\ reserve = "none" /\ charged = 0 /\ creditsUsed = 0
  /\ billed = [a \in Assets |-> 0]
  /\ paid = [a \in Assets |-> 0] /\ lost = [a \in Assets |-> 0] /\ dropped = FALSE
  /\ faults = 0 /\ crashes = 0 /\ cancels = 0 /\ requests = 0

-----------------------------------------------------------------------------
(* Shared pieces of the workers *)

Waiting(t) == tasks[t].st = "waiting"
At(t, pc)  == tasks[t].st = "active" /\ tasks[t].pc = pc

(* isParentJobDead *)
Dead == job \in {"failed", "cancelled"}

Fault == faults < MaxFaults /\ faults' = faults + 1 /\ UNCHANGED <<crashes, cancels, requests>>

(* Mutant: nobody listens to the gpt-script worker. *)
HasHandlerMutant(t) == t.q \notin {"state", "gpt"}

HasHandler(t) == t.q # "state"

(* The attempt of t throws; a failure for good fires the 'failed' event.    *)
Throw(t) ==
  /\ tasks' = FailAttempt(tasks, t, Attempts[t.q])
  /\ failures' = IF IsLastAttempt(tasks[t], Attempts[t.q]) /\ HasHandler(t)
                 THEN failures \cup {[t |-> t, at |-> "mark"]} ELSE failures

Step(t, pc) == tasks' = Goto(tasks, t, pc) /\ UNCHANGED failures

Return(t) == tasks' = Complete(tasks, t) /\ UNCHANGED failures

(* t adds the jobs of ids (queue.add) and returns. *)
ReturnAdding(t, ids) == tasks' = Complete(Add(tasks, ids), t) /\ UNCHANGED failures

(* chargeCredits, at one await of t.  tenants_credits_non_negative makes it *)
(* throw when the balance does not cover the price.                         *)
Charge(t) ==
  /\ At(t, "charge")
  /\ \/ /\ balance >= Price[t.q]
        /\ balance' = balance - Price[t.q]
        /\ charged' = charged + Price[t.q]
        /\ billed' = [billed EXCEPT ![AssetOf(t)] = @ + 1]
        /\ Step(t, "used")
        /\ UNCHANGED <<reserve, creditsUsed>>
     \/ /\ balance < Price[t.q]
        /\ Throw(t)
        /\ UNCHANGED account
  /\ UNCHANGED <<rows, api, history, used>>

AddCreditsUsed(t) ==
  /\ At(t, "used")
  /\ creditsUsed' = creditsUsed + Price[t.q]
  /\ Step(t, "notify")
  /\ UNCHANGED <<rows, api, balance, reserve, charged, billed, history, used>>

(* Mutant: not guarded by an existing refund. *)
ReleaseReserveMutant ==
  /\ balance' = balance + Estimate
  /\ reserve' = "released"
  /\ UNCHANGED <<charged, creditsUsed, billed>>

(* releaseReserveOnce, one transaction (see CreditTransactions). *)
ReleaseReserve ==
  /\ balance' = IF reserve = "held" THEN balance + Estimate ELSE balance
  /\ reserve' = IF reserve = "held" THEN "released" ELSE reserve
  /\ UNCHANGED <<charged, creditsUsed, billed>>

-----------------------------------------------------------------------------
(* API: createVideoJob *)

(* One transaction: conditional decrement, Video, Job and 'reserve' row.    *)
CreateVideoJob ==
  /\ creating = "idle"
  /\ balance >= Estimate
  /\ balance' = balance - Estimate
  /\ reserve' = "held"
  /\ job' = "pending" /\ video' = "pending"
  /\ creating' = "enqueue"
  /\ UNCHANGED <<scene, avatarKey, queue, cancelling, request, charged, creditsUsed,
                 billed, history, used>>

EnqueuePipeline ==
  /\ creating = "enqueue"
  /\ tasks' = Add(tasks, {Pipeline})
  /\ creating' = "done"
  /\ UNCHANGED <<rows, failures, cancelling, request, account, history, used>>

EnqueueFails ==
  /\ creating = "enqueue"
  /\ Fault
  /\ creating' = "markFailed"
  /\ UNCHANGED <<rows, queue, cancelling, request, account, history>>

MarkNotEnqueued ==
  /\ creating = "markFailed"
  /\ job' = "failed" /\ video' = "failed"
  /\ creating' = "release"
  /\ UNCHANGED <<scene, avatarKey, queue, cancelling, request, account, history, used>>

ReleaseNotEnqueued ==
  /\ creating = "release"
  /\ ReleaseReserve
  /\ creating' = "done"
  /\ UNCHANGED <<rows, queue, cancelling, request, history, used>>

CreateStep ==
  \/ EnqueuePipeline \/ MarkNotEnqueued \/ ReleaseNotEnqueued

-----------------------------------------------------------------------------
(* API: cancelJobAndRelease, and the admin cancel of a failed job *)

CancelActive ==
  /\ cancelling = "idle" /\ cancels < MaxCancels
  /\ job \in ActiveJobStatuses
  /\ job' = "cancelled"
  /\ cancelling' = "video"
  /\ cancels' = cancels + 1
  /\ UNCHANGED <<video, scene, avatarKey, queue, creating, request, account, history,
                 faults, crashes, requests>>

CancelVideo ==
  /\ cancelling = "video"
  /\ video' = "cancelled"
  /\ cancelling' = "queue"
  /\ UNCHANGED <<job, scene, avatarKey, queue, creating, request, account, history, used>>

(* removeQueuedPipelineJob: a waiting job is removed; discard() of an active *)
(* one only marks the API's own copy of the BullMQ job.                      *)
CancelQueued ==
  /\ cancelling = "queue"
  /\ tasks' = IF Waiting(Pipeline) THEN Remove(tasks, Pipeline) ELSE tasks
  /\ cancelling' = "release"
  /\ UNCHANGED <<rows, failures, creating, request, account, history, used>>

(* Mutant: the API releases without looking for an earlier refund. *)
CancelReleaseMutant ==
  /\ cancelling = "release"
  /\ ReleaseReserveMutant
  /\ cancelling' = "idle"
  /\ UNCHANGED <<rows, queue, creating, request, history, used>>

CancelRelease ==
  /\ cancelling = "release"
  /\ ReleaseReserve
  /\ cancelling' = "idle"
  /\ UNCHANGED <<rows, queue, creating, request, history, used>>

CancelFailed ==
  /\ cancelling = "idle" /\ cancels < MaxCancels
  /\ job = "failed"
  /\ cancelling' = "mark"
  /\ cancels' = cancels + 1
  /\ UNCHANGED <<rows, queue, creating, request, account, history, faults, crashes, requests>>

MarkCancelled ==
  /\ cancelling = "mark"
  /\ job' = "cancelled" /\ video' = "cancelled"
  /\ cancelling' = "idle"
  /\ UNCHANGED <<scene, avatarKey, queue, creating, request, account, history, used>>

(* DELETE /videos/:id when no job is active: the video is soft-deleted.     *)
DeleteVideo ==
  /\ cancelling = "idle" /\ cancels < MaxCancels
  /\ job \notin ActiveJobStatuses
  /\ video \notin {"none", "processing", "composing"}
  /\ video' = "cancelled"
  /\ cancels' = cancels + 1
  /\ UNCHANGED <<job, scene, avatarKey, queue, api, account, history, faults, crashes, requests>>

CancelStep == CancelVideo \/ CancelQueued \/ CancelRelease \/ MarkCancelled

-----------------------------------------------------------------------------
(* coordinator.ts: startPipeline *)

(* Both statuses are read first: cancelled means nothing to do. *)
PipelineSkip ==
  /\ Waiting(Pipeline)
  /\ job = "cancelled" \/ video = "cancelled"
  /\ Return(Pipeline)
  /\ UNCHANGED <<rows, api, account, history, used>>

PipelineStart ==
  /\ Waiting(Pipeline)
  /\ job # "cancelled" /\ video # "cancelled"
  /\ Step(Pipeline, "claim")
  /\ UNCHANGED <<rows, api, account, history, used>>

(* Mutant: the claim is an unconditional update. *)
PipelineClaimMutant ==
  /\ At(Pipeline, "claim")
  /\ job' = "running"
  /\ Step(Pipeline, "video")
  /\ UNCHANGED <<video, scene, avatarKey, api, account, history, used>>

(* updateMany where status is not cancelled: any other status is claimed.   *)
PipelineClaim ==
  /\ At(Pipeline, "claim")
  /\ \/ /\ job = "cancelled"
        /\ Return(Pipeline)
        /\ UNCHANGED job
     \/ /\ job # "cancelled"
        /\ job' = "running"
        /\ Step(Pipeline, "video")
  /\ UNCHANGED <<video, scene, avatarKey, api, account, history, used>>

PipelineVideo ==
  /\ At(Pipeline, "video")
  /\ video' = IF video = "cancelled" THEN video ELSE "processing"
  /\ Step(Pipeline, "enqueue")
  /\ UNCHANGED <<job, scene, avatarKey, api, account, history, used>>

PipelineEnqueue ==
  /\ At(Pipeline, "enqueue")
  /\ tasks' = Complete(AddOrReplace(tasks, {Gpt}), Pipeline)
  /\ UNCHANGED <<rows, failures, api, account, history, used>>

PipelineStep == PipelineSkip \/ PipelineStart \/ PipelineClaim \/ PipelineVideo \/ PipelineEnqueue

-----------------------------------------------------------------------------
(* gpt-script.worker.ts: idea, hook, script, scenes, fan-out *)

(* The worker's charges, in order: where each one is made, and where the     *)
(* handler goes on after the charge and after creditsUsed.                   *)
GptCharge(from, to) ==
  /\ \/ /\ balance >= Price["gpt"]
        /\ balance' = balance - Price["gpt"]
        /\ charged' = charged + Price["gpt"]
        /\ Step(Gpt, to)
        /\ UNCHANGED <<reserve, creditsUsed, billed>>
     \/ /\ balance < Price["gpt"]
        /\ from # "hook"              \* hook evaluation swallows its errors
        /\ Throw(Gpt)
        /\ UNCHANGED account
  /\ UNCHANGED <<rows, api, history, used>>

GptUsed(from, to) ==
  /\ At(Gpt, from)
  /\ creditsUsed' = creditsUsed + Price["gpt"]
  /\ Step(Gpt, to)
  /\ UNCHANGED <<rows, api, balance, reserve, charged, billed, history, used>>

(* An idea was found; note that nobody asks whether the job is dead.         *)
GptIdea == Waiting(Gpt) /\ GptCharge("start", "ideaUsed")

GptHook ==
  \/ At(Gpt, "hook") /\ GptCharge("hook", "hookUsed")
  \/ /\ At(Gpt, "hook")    \* no hook scene, a good hook, or an error: not charged
     /\ Step(Gpt, "script")
     /\ UNCHANGED <<rows, api, account, history, used>>
  \/ /\ At(Gpt, "hookUsed")
     /\ Fault
     /\ Step(Gpt, "script")
     /\ UNCHANGED <<rows, api, account, history>>

GptScript == At(Gpt, "script") /\ GptCharge("script", "scriptUsed")

(* One transaction creates every scene; scenes(job_id, scene_index) is      *)
(* unique, so a second attempt that gets here throws.                       *)
GptScenes ==
  /\ At(Gpt, "scenes")
  /\ IF \A s \in Scenes : scene[s].status = "none"
     THEN /\ scene' = [s \in Scenes |-> [NoScene EXCEPT !.status = "pending"]]
          /\ Step(Gpt, "ready")
     ELSE /\ Throw(Gpt)
          /\ UNCHANGED scene
  /\ UNCHANGED <<job, video, avatarKey, api, account, history, used>>

GptReady ==
  /\ At(Gpt, "ready")
  /\ job' = "scenes_ready"
  /\ Step(Gpt, "fanout")
  /\ UNCHANGED <<video, scene, avatarKey, api, account, history, used>>

ImageScenes == (OfType("clip") \cup OfType("image")) \cap Prompted

FanOut(S) == NextSlots("image", S)

GptFanOut ==
  /\ At(Gpt, "fanout")
  /\ SlotsLeft("image", ImageScenes)
  /\ Avatars # {} => SlotsLeft("heygen", {Job})
  /\ ReturnAdding(Gpt, FanOut(ImageScenes) \cup NextSlots("heygen", {Job}))
  /\ UNCHANGED <<rows, api, account, history, used>>

(* Redis fails midway: some image jobs are out, the attempt throws.         *)
GptFanOutBreaks ==
  /\ At(Gpt, "fanout")
  /\ SlotsLeft("image", ImageScenes)
  /\ Fault
  /\ \E S \in SUBSET ImageScenes :
       LET added == Add(tasks, FanOut(S)) IN
       /\ tasks' = FailAttempt(added, Gpt, Attempts["gpt"])
       /\ failures' = IF IsLastAttempt(tasks[Gpt], Attempts["gpt"])
                      THEN failures \cup {[t |-> Gpt, at |-> "mark"]} ELSE failures
  /\ UNCHANGED <<rows, api, account, history>>

GptStep ==
  \/ GptIdea \/ GptUsed("ideaUsed", "hook")
  \/ GptHook \/ GptUsed("hookUsed", "script")
  \/ GptScript \/ GptUsed("scriptUsed", "scenes")
  \/ GptScenes \/ GptReady \/ GptFanOut

-----------------------------------------------------------------------------
(* image-gen.worker.ts: the image of an image scene, the frame of a clip    *)

IsFrame(t) == SceneType[t.s] = "clip"

(* Mutants: no idempotency check; what exists is skipped without a word.    *)
ImageStartUnchecked(t) ==
  /\ Waiting(t)
  /\ \/ Dead /\ Return(t) /\ UNCHANGED scene
     \/ ~Dead /\ Step(t, "call") /\ scene' = [scene EXCEPT ![t.s].status = "processing"]
  /\ UNCHANGED <<job, video, avatarKey, api, account, history, used>>

ImageStartSilent(t) ==
  LET exists == scene[t.s].url \/ (IsFrame(t) /\ scene[t.s].frame) IN
  /\ Waiting(t)
  /\ \/ (Dead \/ exists) /\ Return(t) /\ UNCHANGED scene
     \/ ~Dead /\ ~exists /\ Step(t, "call") /\ scene' = [scene EXCEPT ![t.s].status = "processing"]
  /\ UNCHANGED <<job, video, avatarKey, api, account, history, used>>

(* The first await and the idempotency check: what already exists is not    *)
(* generated again, the next stage is told about it.                        *)
ImageStart(t) ==
  LET row == scene[t.s] IN
  /\ Waiting(t)
  /\ \/ /\ Dead
        /\ Return(t)
        /\ UNCHANGED scene
     \/ /\ ~Dead /\ row.url /\ row.done
        /\ ReturnAdding(t, {State(t.s)})
        /\ UNCHANGED scene
     \/ /\ ~Dead /\ ~(row.url /\ row.done) /\ IsFrame(t) /\ row.frame
        /\ ReturnAdding(t, {Runway(t.s)})
        /\ UNCHANGED scene
     \/ /\ ~Dead /\ ~(row.url /\ row.done) /\ ~(IsFrame(t) /\ row.frame)
        /\ scene' = [scene EXCEPT ![t.s].status = "processing"]
        /\ Step(t, "call")
  /\ UNCHANGED <<job, video, avatarKey, api, account, history, used>>

(* The status is read again right before the paid call. *)
ImageCall(t) ==
  /\ At(t, "call")
  /\ \/ Dead /\ Return(t) /\ UNCHANGED paid
     \/ ~Dead /\ Step(t, "save") /\ paid' = [paid EXCEPT ![AssetOf(t)] = @ + 1]
  /\ UNCHANGED <<rows, api, account, lost, dropped, used>>

ImageSave(t) ==
  /\ At(t, "save")
  /\ scene' = [scene EXCEPT ![t.s] =
                 IF IsFrame(t) THEN [@ EXCEPT !.frame = TRUE]
                 ELSE [@ EXCEPT !.url = TRUE, !.done = TRUE, !.status = "completed"]]
  /\ Step(t, "charge")
  /\ UNCHANGED <<job, video, avatarKey, api, account, history, used>>

ImageNotify(t) ==
  /\ At(t, "notify")
  /\ ReturnAdding(t, {IF IsFrame(t) THEN Runway(t.s) ELSE State(t.s)})
  /\ UNCHANGED <<rows, api, account, history, used>>

ImageStep(t) ==
  \/ ImageStart(t) \/ ImageCall(t) \/ ImageSave(t)
  \/ Charge(t) \/ AddCreditsUsed(t) \/ ImageNotify(t)

-----------------------------------------------------------------------------
(* runway-clip.worker.ts and heygen-render.worker.ts: a paid task at the    *)
(* provider, created once, its id stored, then polled.  The one HeyGen task *)
(* of a job renders all its avatar scenes.                                  *)

RenderScenes(t) == IF t.q = "heygen" THEN Avatars ELSE {t.s}
StoredOn(t)     == IF t.q = "heygen" THEN Primary ELSE t.s

(* The finished asset of an earlier run: the clip of the scene, or the      *)
(* combined avatar in the job's payload.                                    *)
Rendered(t) == IF t.q = "heygen" THEN avatarKey ELSE scene[t.s].url /\ scene[t.s].done

(* Mutant: an attempt never resumes the task of the one before. *)
RenderStartMutant(t) ==
  /\ Waiting(t)
  /\ \/ Dead /\ Return(t) /\ UNCHANGED scene
     \/ /\ ~Dead /\ Rendered(t)
        /\ ReturnAdding(t, {State(s) : s \in RenderScenes(t)})
        /\ UNCHANGED scene
     \/ ~Dead /\ ~Rendered(t) /\ Step(t, "create") /\ UNCHANGED scene
  /\ UNCHANGED <<job, video, avatarKey, api, account, history, used>>

RenderStart(t) ==
  /\ Waiting(t)
  /\ \/ /\ Dead
        /\ Return(t)
        /\ UNCHANGED scene
     \/ /\ ~Dead /\ Rendered(t)
        /\ scene' = [s \in Scenes |->
                       IF s \in RenderScenes(t) /\ ~scene[s].done
                       THEN [scene[s] EXCEPT !.url = TRUE, !.done = TRUE, !.status = "completed"]
                       ELSE scene[s]]
        /\ ReturnAdding(t, {State(s) : s \in RenderScenes(t)})
     \/ /\ ~Dead /\ ~Rendered(t) /\ scene[StoredOn(t)].ext
        /\ tasks' = [Goto(tasks, t, "poll") EXCEPT ![t].resumed = TRUE]
        /\ UNCHANGED <<scene, failures>>
     \/ /\ ~Dead /\ ~Rendered(t) /\ ~scene[StoredOn(t)].ext
        /\ Step(t, "create")
        /\ UNCHANGED scene
  /\ UNCHANGED <<job, video, avatarKey, api, account, history, used>>

RenderCreate(t) ==
  /\ At(t, "create")
  /\ \/ Dead /\ Return(t) /\ UNCHANGED paid
     \/ ~Dead /\ Step(t, "saveId") /\ paid' = [paid EXCEPT ![AssetOf(t)] = @ + 1]
  /\ UNCHANGED <<rows, api, account, lost, dropped, used>>

(* createTaskOrUnrecoverable: a permanent rejection burns no more attempts. *)
CreateRejected(t) ==
  /\ At(t, "create")
  /\ Fault
  /\ tasks' = FailForGood(tasks, t)
  /\ failures' = failures \cup {[t |-> t, at |-> "mark"]}
  /\ UNCHANGED <<rows, api, account, history>>

SaveTaskId(t) ==
  /\ At(t, "saveId")
  /\ scene' = [s \in Scenes |->
                 IF s \notin RenderScenes(t) THEN scene[s]
                 ELSE [scene[s] EXCEPT !.ext = TRUE,
                         !.status = IF t.q = "runway" THEN "processing" ELSE @]]
  /\ Step(t, "poll")
  /\ UNCHANGED <<job, video, avatarKey, api, account, history, used>>

(* The save fails: logged, the attempt goes on with the id it has in hand.  *)
SaveTaskIdFails(t) ==
  /\ At(t, "saveId")
  /\ Fault
  /\ Step(t, "poll")
  /\ lost' = [lost EXCEPT ![AssetOf(t)] = @ + 1]
  /\ UNCHANGED <<rows, api, account, paid, dropped>>

PollDone(t) ==
  /\ At(t, "poll")
  /\ Step(t, "save")
  /\ UNCHANGED <<rows, api, account, history, used>>

(* A resumed task is gone at the provider: its id is cleared and a new one   *)
(* is created.                                                               *)
PollGone(t) ==
  /\ At(t, "poll") /\ tasks[t].resumed
  /\ Fault
  /\ scene' = [s \in Scenes |-> IF s \in RenderScenes(t) THEN [scene[s] EXCEPT !.ext = FALSE]
                                ELSE scene[s]]
  /\ tasks' = [Goto(tasks, t, "create") EXCEPT ![t].resumed = FALSE]
  /\ lost' = [lost EXCEPT ![AssetOf(t)] = @ + 1]
  /\ UNCHANGED <<job, video, avatarKey, failures, api, account, paid, dropped>>

RenderSave(t) ==
  /\ At(t, "save")
  /\ scene' = [s \in Scenes |->
                 IF s \in RenderScenes(t)
                 THEN [scene[s] EXCEPT !.url = TRUE, !.done = TRUE, !.status = "completed"]
                 ELSE scene[s]]
  /\ Step(t, IF t.q = "heygen" THEN "payload" ELSE "charge")
  /\ UNCHANGED <<job, video, avatarKey, api, account, history, used>>

(* job.payload is read, extended and written back. *)
HeygenPayload(t) ==
  /\ At(t, "payload")
  /\ avatarKey' = TRUE
  /\ Step(t, "charge")
  /\ UNCHANGED <<job, video, scene, api, account, history, used>>

RenderNotify(t) ==
  /\ At(t, "notify")
  /\ ReturnAdding(t, {State(s) : s \in RenderScenes(t)})
  /\ UNCHANGED <<rows, api, account, history, used>>

RenderStep(t) ==
  \/ RenderStart(t) \/ RenderCreate(t) \/ SaveTaskId(t) \/ PollDone(t)
  \/ RenderSave(t) \/ HeygenPayload(t)
  \/ Charge(t) \/ AddCreditsUsed(t) \/ RenderNotify(t)

RenderFault(t) == CreateRejected(t) \/ SaveTaskIdFails(t) \/ PollGone(t)

-----------------------------------------------------------------------------
(* pipeline-state.worker.ts *)

SceneFailed(s) == scene[s].status = "failed"

SceneDone(row, s) ==
  \/ SceneType[s] = "text"
  \/ row.done /\ row.url
  \/ row.status = "failed"

(* Marks the stage done, reads all the scenes of the job and decides; what  *)
(* it decided is carried out later, whatever happens in between.            *)
StateCheck(t) ==
  LET marked == [scene EXCEPT ![t.s].done = TRUE] IN
  /\ Waiting(t)
  /\ scene' = marked
  /\ \/ /\ \E s \in Scenes : ~SceneDone(marked[s], s)
        /\ Return(t)
     \/ /\ \A s \in Scenes : SceneDone(marked[s], s)
        /\ Step(t, IF \E s \in Scenes : SceneFailed(s) THEN "fail" ELSE "compose")
  /\ UNCHANGED <<job, video, avatarKey, api, account, history, used>>

StateFail(t) ==
  /\ At(t, "fail")
  /\ job' = "failed" /\ video' = "failed"
  /\ Step(t, "refund")
  /\ UNCHANGED <<scene, avatarKey, api, account, history, used>>

StateRefund(t) ==
  /\ At(t, "refund")
  /\ ReleaseReserve
  /\ Return(t)
  /\ UNCHANGED <<rows, api, history, used>>

StateCompose(t) ==
  /\ At(t, "compose")
  /\ job' = "composing" /\ video' = "composing"
  /\ Step(t, "add")
  /\ UNCHANGED <<scene, avatarKey, api, account, history, used>>

StateAdd(t) ==
  /\ At(t, "add")
  /\ ReturnAdding(t, {Compose})
  /\ UNCHANGED <<rows, api, account, history, used>>

StateStep(t) == StateCheck(t) \/ StateFail(t) \/ StateRefund(t) \/ StateCompose(t) \/ StateAdd(t)

-----------------------------------------------------------------------------
(* video-compose.worker.ts *)

(* Scenes that are not failed and have no asset: compose refuses to start.  *)
MissingAssets(rows_) == {s \in Media : rows_[s].status # "failed" /\ ~rows_[s].url}

(* Mutant: assets are not checked. *)
ComposeStartUnchecked ==
  /\ Waiting(Compose)
  /\ Step(Compose, "finish")
  /\ UNCHANGED <<rows, api, account, history, used>>

ComposeStart ==
  /\ Waiting(Compose)
  /\ IF MissingAssets(scene) = {} THEN Step(Compose, "finish") ELSE Throw(Compose)
  /\ UNCHANGED <<rows, api, account, history, used>>

(* At least one variant was rendered. *)
ComposeFinish ==
  /\ At(Compose, "finish")
  /\ job' = "completed" /\ video' = "completed"
  /\ Step(Compose, "settle")
  /\ UNCHANGED <<scene, avatarKey, api, account, history, used>>

(* settleCredits *)
ComposeSettle ==
  /\ At(Compose, "settle")
  /\ ReleaseReserve
  /\ Return(Compose)
  /\ UNCHANGED <<rows, api, history, used>>

ComposeStep == ComposeStart \/ ComposeFinish \/ ComposeSettle

-----------------------------------------------------------------------------
(* index.ts: handleJobFailure and handleSceneFailure *)

FailedScene(t) == IF t.q = "heygen" THEN Primary ELSE t.s

HandlerMark(f) ==
  /\ f.at = "mark"
  /\ job' = "failed" /\ video' = "failed"
  /\ scene' = [s \in Scenes |->
                 IF f.t.q \in {"image", "runway", "heygen"} /\ s = FailedScene(f.t)
                 THEN [scene[s] EXCEPT !.status = "failed"] ELSE scene[s]]
  /\ failures' = (failures \ {f}) \cup {[f EXCEPT !.at = "refund"]}
  /\ UNCHANGED <<avatarKey, tasks, api, account, history, used>>

(* Mutant: refund only what is still marked failed. *)
HandlerRefundMutant(f) ==
  /\ f.at = "refund"
  /\ IF job = "failed" THEN ReleaseReserve ELSE UNCHANGED account
  /\ failures' = failures \ {f}
  /\ UNCHANGED <<rows, tasks, api, history, used>>

HandlerRefund(f) ==
  /\ f.at = "refund"
  /\ ReleaseReserve
  /\ failures' = failures \ {f}
  /\ UNCHANGED <<rows, tasks, api, history, used>>

(* A database error in a handler is logged and the event is gone. *)
HandlerFails(f) ==
  /\ Fault
  /\ failures' = failures \ {f}
  /\ dropped' = TRUE
  /\ UNCHANGED <<rows, tasks, api, account, paid, lost>>

HandlerStep == \E f \in failures : HandlerMark(f) \/ HandlerRefund(f)

-----------------------------------------------------------------------------
(* admin.routes.ts: retry and recompose *)

NoScenesYet(rows_) == \A s \in Scenes : rows_[s].status = "none"
FailedOnes(rows_)  == {s \in Scenes : rows_[s].status = "failed"}

Read(a, at) ==
  /\ request[a].at = "idle" /\ requests < MaxRequests
  /\ requests' = requests + 1
  /\ request' = [request EXCEPT ![a] = [at |-> at, scene |-> scene, avatar |-> avatarKey]]
  /\ UNCHANGED <<rows, queue, creating, cancelling, account, history, faults, crashes, cancels>>

RetryRead(a) ==
  /\ job \in {"failed", "cancelled"}
  /\ Read(a, "retryReset")

(* The rows are reset in one transaction, by what the request has read:     *)
(* no scenes - start over; none failed - compose again; else the failed     *)
(* scenes only.                                                             *)
RetryReset(a) ==
  LET read == request[a].scene IN
  /\ request[a].at = "retryReset"
  /\ \/ /\ NoScenesYet(read)
        /\ job' = "pending" /\ video' = "pending"
        /\ UNCHANGED scene
     \/ /\ ~NoScenesYet(read) /\ FailedOnes(read) = {}
        /\ job' = "composing" /\ video' = "composing"
        /\ UNCHANGED scene
     \/ /\ FailedOnes(read) # {}
        /\ job' = "running" /\ video' = "processing"
        /\ scene' = [s \in Scenes |-> IF s \in FailedOnes(read)
                                      THEN [scene[s] EXCEPT !.status = "pending"] ELSE scene[s]]
  /\ request' = [request EXCEPT ![a].at = "retryEnqueue"]
  /\ UNCHANGED <<avatarKey, queue, creating, cancelling, account, history, used>>

(* What a retry of failed scenes finds already done, and what is left to do. *)
ReuseAvatars(a) == IF request[a].avatar THEN FailedOnes(request[a].scene) \cap Avatars ELSE {}
RedoAvatars(a)  == ~request[a].avatar /\ FailedOnes(request[a].scene) \cap Avatars # {}
HaveAsset(a)    == {s \in FailedOnes(request[a].scene) \cap ImageScenes :
                      request[a].scene[s].url /\ request[a].scene[s].done}
HaveFrame(a)    == {s \in FailedOnes(request[a].scene) \cap ImageScenes \cap OfType("clip") :
                      request[a].scene[s].frame} \ HaveAsset(a)
RedoImages(a)   == (FailedOnes(request[a].scene) \cap ImageScenes) \ (HaveAsset(a) \cup HaveFrame(a))

RetryEnqueue(a) ==
  LET read == request[a].scene IN
  /\ request[a].at = "retryEnqueue"
  /\ SlotsLeft("image", RedoImages(a))
  /\ RedoAvatars(a) => SlotsLeft("heygen", {Job})
  /\ tasks' = IF NoScenesYet(read) THEN AddOrReplace(tasks, {Pipeline})
              ELSE IF FailedOnes(read) = {} THEN AddOrReplace(tasks, {Compose})
              ELSE AddOrReplace(
                     Add(tasks, NextSlots("image", RedoImages(a))
                                  \cup IF RedoAvatars(a) THEN NextSlots("heygen", {Job}) ELSE {}),
                     {State(s) : s \in ReuseAvatars(a) \cup HaveAsset(a)}
                       \cup {Runway(s) : s \in HaveFrame(a)})
  /\ scene' = [s \in Scenes |->
                 IF s \in ReuseAvatars(a)
                 THEN [scene[s] EXCEPT !.url = TRUE, !.done = TRUE, !.status = "completed"]
                 ELSE IF s \in HaveAsset(a) THEN [scene[s] EXCEPT !.status = "completed"]
                 ELSE scene[s]]
  /\ request' = [request EXCEPT ![a] = NoRequest]
  /\ UNCHANGED <<job, video, avatarKey, failures, creating, cancelling, account, history, used>>

(* Allowed in any status as long as no scene that is not failed lacks its   *)
(* asset.                                                                   *)
RecomposeRead(a) ==
  /\ MayRecompose
  /\ ~NoScenesYet(scene)
  /\ MissingAssets(scene) = {}
  /\ Read(a, "recomposeReset")

RecomposeReset(a) ==
  /\ request[a].at = "recomposeReset"
  /\ job' = "composing" /\ video' = "composing"
  /\ request' = [request EXCEPT ![a].at = "recomposeEnqueue"]
  /\ UNCHANGED <<scene, avatarKey, queue, creating, cancelling, account, history, used>>

RecomposeEnqueue(a) ==
  /\ request[a].at = "recomposeEnqueue"
  /\ tasks' = AddOrReplace(tasks, {Compose})
  /\ request' = [request EXCEPT ![a] = NoRequest]
  /\ UNCHANGED <<rows, failures, creating, cancelling, account, history, used>>

RequestStep(a) == RetryReset(a) \/ RetryEnqueue(a) \/ RecomposeReset(a) \/ RecomposeEnqueue(a)

-----------------------------------------------------------------------------
(* What fails by itself *)

(* Any await of an attempt may throw, the provider's answer included.  The  *)
(* id of a created task is never lost this way, hook errors are swallowed.  *)
AttemptFails(t) ==
  /\ IsOpen(tasks[t])
  /\ tasks[t].pc \notin {"saveId", "hook", "hookUsed"}
  /\ Fault
  /\ Throw(t)
  /\ UNCHANGED <<rows, api, account, history>>

(* The orchestrator dies: its active jobs stall and are given out again, or *)
(* fail for good; its event handlers are gone.                              *)
OrchestratorDies ==
  /\ crashes < MaxCrashes
  /\ crashes' = crashes + 1
  /\ \E t \in TaskIds : tasks[t].st = "active"
  /\ tasks' = Stall(tasks)
  /\ failures' = {[t |-> t, at |-> "mark"] :
                    t \in {u \in TaskIds : StallAgain(tasks[u]) /\ HasHandler(u)}}
  /\ lost' = [a \in Assets |-> lost[a] +
                Cardinality({t \in TaskIds : At(t, "saveId") /\ AssetOf(t) = a})]
  /\ dropped' = (dropped \/ failures # {})
  /\ UNCHANGED <<rows, api, account, paid, faults, cancels, requests>>

(* The API process dies: what its requests still had to do is not done.     *)
ApiDies ==
  /\ crashes < MaxCrashes
  /\ crashes' = crashes + 1
  /\ \/ creating \notin {"idle", "done"}
     \/ cancelling # "idle"
     \/ \E a \in Admins : request[a] # NoRequest
  /\ creating' = IF creating = "idle" THEN "idle" ELSE "done"
  /\ cancelling' = "idle"
  /\ request' = [a \in Admins |-> NoRequest]
  /\ dropped' = TRUE
  /\ UNCHANGED <<rows, queue, account, paid, lost, faults, cancels, requests>>

-----------------------------------------------------------------------------
WorkerStep(t) ==
  \/ t = Pipeline /\ PipelineStep
  \/ t = Gpt /\ GptStep
  \/ t.q = "image" /\ ImageStep(t)
  \/ t.q \in {"runway", "heygen"} /\ RenderStep(t)
  \/ t.q = "state" /\ StateStep(t)
  \/ t = Compose /\ ComposeStep

Next ==
  \/ CreateVideoJob \/ CreateStep \/ EnqueueFails
  \/ CancelActive \/ CancelFailed \/ DeleteVideo \/ CancelStep
  \/ \E a \in Admins : RetryRead(a) \/ RecomposeRead(a) \/ RequestStep(a)
  \/ \E t \in TaskIds : WorkerStep(t) \/ AttemptFails(t)
  \/ \E t \in TasksOf("runway") \cup TasksOf("heygen") : RenderFault(t)
  \/ GptFanOutBreaks
  \/ HandlerStep \/ \E f \in failures : HandlerFails(f)
  \/ OrchestratorDies \/ ApiDies

(* Workers keep polling their queues, handlers and requests run to their    *)
(* end; nothing fails, crashes or is asked for by obligation.               *)
Fairness ==
  /\ WF_vars(CreateStep) /\ WF_vars(CancelStep) /\ WF_vars(HandlerStep)
  /\ \A a \in Admins : WF_vars(RequestStep(a))
  /\ \A t \in TaskIds : WF_vars(WorkerStep(t))

Spec == Init /\ [][Next]_vars
FairSpec == Spec /\ Fairness

-----------------------------------------------------------------------------
(* Properties *)

Terminal == {"completed", "failed", "cancelled"}

(* Nothing of this job is under way any more, in any process. *)
Quiet ==
  /\ creating = "done" /\ cancelling = "idle" /\ failures = {}
  /\ \A a \in Admins : request[a].at = "idle"
  /\ \A t \in TaskIds : ~IsOpen(tasks[t])

(* pipeline-state jobs have one attempt and no 'failed' handler: when one   *)
(* fails, nobody is told.                                                   *)
StateLost == \E t \in TasksOf("state") : tasks[t].st = "failed"

Ledger == INSTANCE CreditLedger WITH Prices <- {Price[q] : q \in DOMAIN Price}

(* Whatever the workers, the API and the crashes do to a job, its money     *)
(* moves as CreditLedger says: reserved once, charged only what the balance *)
(* covers, released once (credits.ts, video-job.ts).                        *)
LedgerSpec == Ledger!Spec

(* No credit is lost or given away between the reserve, the charges of four *)
(* workers and the release on any of five paths.                            *)
Conserved == Ledger!Conserved

(* An asset is charged at most once however often its worker is retried or  *)
(* redelivered after a crash: the asset is written before the charge, and   *)
(* an attempt that finds it charges nothing (idempotency checks of          *)
(* image-gen, runway-clip and heygen-render).                               *)
BilledAtMostOnce == \A a \in Assets : billed[a] <= 1

(* A provider task that costs money is created again only when the id of    *)
(* the one before was never stored or the provider dropped it: an attempt   *)
(* resumes the stored task (runwayTaskId, heygenVideoId).                   *)
PaidOnce == \A a \in Assets : a.q # "image" => paid[a] <= 1 + lost[a]

(* A completed job has the asset of every scene it did not give up: neither *)
(* the race of the scene workers nor a cancel or a retry lets compose       *)
(* finish with one missing.  (A second retry may: it resets a failed scene  *)
(* that the compose the first one has started has accepted as given up.)    *)
CompletedHasAssets ==
  job = "completed" /\ requests <= 1 =>
    \A s \in Media : scene[s].url \/ scene[s].status = "failed"

(* When everything has come to rest on a final status, the reserve is back  *)
(* with the tenant - unless the process that was to return it died or the   *)
(* database refused it - also when a pipeline-state job is lost on its way. *)
ReserveReturned ==
  Quiet /\ job \in Terminal /\ ~dropped => reserve = "released"

(* The script has scenes to render, and each of them has what its worker    *)
(* needs: a script of text only, or a scene without prompt, is handed to    *)
(* nobody, and nobody looks at the job again.                               *)
HandedOut == Media # {} /\ Media \subseteq Prompted

(* At rest a job is never left on its way to compose, as long as every      *)
(* notification got through and nobody asked for it to be run again: the    *)
(* last scene worker to finish is always seen by some pipeline-state job    *)
(* that finds all scenes done, or a failure is recorded.                    *)
NotLeftRunning ==
  HandedOut /\ Quiet /\ job \in {"pending", "running", "scenes_ready"} /\ requests = 0 =>
    dropped \/ StateLost

(* The coordinator never starts a job that was cancelled: it claims it only *)
(* while its status is another one, so a cancel that lands between the read *)
(* and the claim wins (coordinator.ts: "closes the race with a cancel       *)
(* landing right now").                                                     *)
CancelWinsTheClaim ==
  [][job = "cancelled" /\ job' = "running" => \E a \in Admins : request[a].at = "retryReset"]_vars

(* A job that has started comes to a final status: every path through the   *)
(* workers ends in compose or in a failure that somebody records.           *)
Settles ==
  HandedOut /\ job \in {"pending", "running", "scenes_ready"} ~>
    (job \in Terminal \/ dropped \/ StateLost)
=============================================================================
