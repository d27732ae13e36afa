------------------------ MODULE VideoPipelineProofs ------------------------
(***************************************************************************)
(* A video job, for any script, any number of attempts, faults, crashes,   *)
(* cancels and admin requests.                                             *)
(*                                                                         *)
(* The money: the pipeline implements CreditLedger, so that no credit is   *)
(* lost or given away.  A worker may only charge a job whose reserve was   *)
(* taken.  That needs a fact about the whole state: until createVideoJob   *)
(* has committed there is nothing any process could act on (NotCreated).   *)
(*                                                                         *)
(* The types: TypeOK is inductive as it stands.                            *)
(*                                                                         *)
(* Once only: no asset is charged twice, none is paid for twice at a       *)
(* provider, as long as no admin asks for a retry (OnceInv).               *)
(*                                                                         *)
(* The reserve: whoever ends a job returns its estimate (ReserveInv).      *)
(*                                                                         *)
(* The assets: while one is missing nobody is about to compose, or every   *)
(* scene is still on its first run and a failure accounts for each gap     *)
(* (AssetsInv).                                                            *)
(*                                                                         *)
(* The hand-over: from the request of the tenant to the last state job     *)
(* there is always somebody who has the job in hand (BatonInv).            *)
(***************************************************************************)
EXTENDS VideoPipeline, JobQueueProofs, WellFoundedInduction, FiniteSetTheorems

NotCreated ==
  /\ job = "none" /\ video = "none" /\ reserve = "none"
  /\ \A s \in Scenes : scene[s].status = "none"
  /\ \A t \in TaskIds : tasks[t].st = "absent"
  /\ failures = {} /\ cancelling = "idle"
  /\ request = [a \in Admins |-> NoRequest]

IInv ==
  /\ balance \in Nat /\ charged \in Nat
  /\ reserve \in {"none", "held", "released"}
  /\ Conserved
  /\ creating = "idle" => NotCreated
  /\ creating # "idle" => reserve # "none"

(* What any step after the creation may do to the money, and to creating.   *)
MoneyStep ==
  /\ creating' # "idle"
  /\ \/ UNCHANGED <<balance, reserve, charged>>
     \/ Ledger!Charge
     \/ Ledger!Release

-----------------------------------------------------------------------------
(* The shared pieces *)

LEMMA ReleaseIsMoneyStep ==
  ASSUME ReleaseReserve, creating' # "idle"
  PROVE  MoneyStep
BY DEF ReleaseReserve, MoneyStep, Ledger!Release

LEMMA ChargeIsMoneyStep ==
  ASSUME NEW q \in {"gpt", "image", "runway", "heygen"}, reserve # "none",
         balance >= Price[q], balance' = balance - Price[q],
         charged' = charged + Price[q], UNCHANGED reserve, creating' # "idle"
  PROVE  MoneyStep
<1>1. q \in DOMAIN Price
  BY PipelineAssumption
<1> QED BY <1>1 DEF MoneyStep, Ledger!Charge

(* Before the creation, createVideoJob is the only step there is.           *)
LEMMA OnlyCreation ==
  ASSUME creating = "idle", NotCreated, Next
  PROVE  CreateVideoJob
<1> USE DEF NotCreated
<1>1. ~CreateStep /\ ~EnqueueFails
  BY DEF CreateStep, EnqueueFails, EnqueuePipeline, MarkNotEnqueued, ReleaseNotEnqueued
<1>2. ~CancelActive /\ ~CancelFailed /\ ~DeleteVideo /\ ~CancelStep
  BY DEF CancelActive, CancelFailed, DeleteVideo, CancelStep, CancelVideo, CancelQueued,
         CancelRelease, MarkCancelled, ActiveJobStatuses
<1>3. ASSUME NEW a \in Admins PROVE ~(RetryRead(a) \/ RecomposeRead(a) \/ RequestStep(a))
  <2>1. request[a].at = "idle"
    BY DEF NoRequest
  <2>2. NoScenesYet(scene)
    BY DEF NoScenesYet
  <2> QED BY <2>1, <2>2 DEF RetryRead, RecomposeRead, RequestStep, RetryReset, RetryEnqueue,
                            RecomposeReset, RecomposeEnqueue
<1>4. ASSUME NEW t \in TaskIds
      PROVE  /\ ~Waiting(t) /\ tasks[t].st # "active" /\ ~IsOpen(tasks[t])
             /\ \A pc \in TaskPC : ~At(t, pc)
  BY <1>4 DEF Waiting, IsOpen, At
<1>5. Pipeline \in TaskIds /\ Gpt \in TaskIds /\ Compose \in TaskIds
  BY DEF TaskIds
<1>6. ~PipelineStep /\ ~GptStep /\ ~ComposeStep /\ ~GptFanOutBreaks
  BY <1>4, <1>5 DEF PipelineStep, PipelineSkip, PipelineStart, PipelineClaim, PipelineVideo,
     PipelineEnqueue, GptStep, GptIdea, GptUsed, GptHook, GptScript, GptScenes, GptReady,
     GptFanOut, GptFanOutBreaks, ComposeStep, ComposeStart, ComposeFinish, ComposeSettle,
     At, TaskPC
<1>7. ASSUME NEW t \in TaskIds PROVE ~(WorkerStep(t) \/ AttemptFails(t))
  <2>1. ~ImageStep(t) /\ ~RenderStep(t) /\ ~StateStep(t)
    BY <1>4 DEF ImageStep, ImageStart, ImageCall, ImageSave, Charge, AddCreditsUsed,
       ImageNotify, RenderStep, RenderStart, RenderCreate, SaveTaskId, PollDone, RenderSave,
       HeygenPayload, RenderNotify, StateStep, StateCheck, StateFail, StateRefund,
       StateCompose, StateAdd, At, TaskPC
  <2> QED BY <2>1, <1>4, <1>6 DEF WorkerStep, AttemptFails
<1>8. ASSUME NEW t \in TasksOf("runway") \cup TasksOf("heygen") PROVE ~RenderFault(t)
  <2>1. t \in TaskIds
    BY DEF TasksOf
  <2> QED BY <2>1, <1>4 DEF RenderFault, CreateRejected, SaveTaskIdFails, PollGone, At, TaskPC
<1>9. ~HandlerStep /\ ~(\E f \in failures : HandlerFails(f)) /\ ~OrchestratorDies
  BY <1>4 DEF HandlerStep, OrchestratorDies
<1>10. ~ApiDies
  BY DEF ApiDies
<1> QED BY <1>1, <1>2, <1>3, <1>6, <1>7, <1>8, <1>9, <1>10 DEF Next

-----------------------------------------------------------------------------
(* After the creation, component by component *)

LEMMA ApiMoney ==
  ASSUME creating # "idle",
         \/ CreateStep \/ EnqueueFails
         \/ CancelActive \/ CancelFailed \/ DeleteVideo \/ CancelStep \/ ApiDies
         \/ \E a \in Admins : RetryRead(a) \/ RecomposeRead(a) \/ RequestStep(a)
  PROVE  MoneyStep
<1>1. CASE ReleaseNotEnqueued
  BY <1>1, ReleaseIsMoneyStep DEF ReleaseNotEnqueued
<1>2. CASE CancelRelease
  BY <1>2, ReleaseIsMoneyStep DEF CancelRelease
<1>3. CASE EnqueuePipeline \/ MarkNotEnqueued \/ EnqueueFails
  BY <1>3 DEF EnqueuePipeline, MarkNotEnqueued, EnqueueFails, MoneyStep, account
<1>4. CASE CancelActive \/ CancelFailed \/ DeleteVideo
  BY <1>4 DEF CancelActive, CancelFailed, DeleteVideo, MoneyStep, account, api
<1>5. CASE CancelVideo \/ CancelQueued \/ MarkCancelled
  BY <1>5 DEF CancelVideo, CancelQueued, MarkCancelled, MoneyStep, account
<1>6. CASE ApiDies
  BY <1>6 DEF ApiDies, MoneyStep, account
<1>7. ASSUME NEW a \in Admins, RetryRead(a) \/ RecomposeRead(a) PROVE MoneyStep
  BY <1>7 DEF RetryRead, RecomposeRead, Read, MoneyStep, account
<1>8. ASSUME NEW a \in Admins, RequestStep(a) PROVE MoneyStep
  BY <1>8 DEF RequestStep, RetryReset, RetryEnqueue, RecomposeReset, RecomposeEnqueue,
              MoneyStep, account
<1> QED BY <1>1, <1>2, <1>3, <1>4, <1>5, <1>6, <1>7, <1>8 DEF CreateStep, CancelStep

LEMMA GptMoney ==
  ASSUME creating # "idle", reserve # "none", GptStep \/ GptFanOutBreaks
  PROVE  MoneyStep
<1>1. ASSUME NEW from, NEW to, GptCharge(from, to) PROVE MoneyStep
  <2>1. creating' # "idle"
    BY <1>1 DEF GptCharge, api
  <2>2. CASE balance >= Price["gpt"] /\ balance' = balance - Price["gpt"]
             /\ charged' = charged + Price["gpt"] /\ UNCHANGED reserve
    BY <2>1, <2>2, ChargeIsMoneyStep
  <2>3. CASE UNCHANGED account
    BY <2>1, <2>3 DEF MoneyStep, account
  <2> QED BY <1>1, <2>2, <2>3 DEF GptCharge
<1>2. ASSUME NEW from, NEW to, GptUsed(from, to) PROVE MoneyStep
  BY <1>2 DEF GptUsed, MoneyStep, api
<1>3. CASE GptIdea \/ GptScript
  BY <1>1, <1>3 DEF GptIdea, GptScript
<1>4. CASE GptHook
  BY <1>1, <1>4 DEF GptHook, MoneyStep, account, api
<1>5. CASE GptScenes \/ GptReady \/ GptFanOut \/ GptFanOutBreaks
  BY <1>5 DEF GptScenes, GptReady, GptFanOut, GptFanOutBreaks, MoneyStep, account, api
<1> QED BY <1>2, <1>3, <1>4, <1>5 DEF GptStep

LEMMA ProviderMoney ==
  ASSUME creating # "idle", reserve # "none",
         NEW t, t.q \in {"image", "runway", "heygen"},
         ImageStep(t) \/ RenderStep(t) \/ RenderFault(t)
  PROVE  MoneyStep
<1>1. CASE Charge(t)
  <2>1. creating' # "idle"
    BY <1>1 DEF Charge, api
  <2>2. CASE balance >= Price[t.q] /\ balance' = balance - Price[t.q]
             /\ charged' = charged + Price[t.q] /\ UNCHANGED reserve
    BY <2>1, <2>2, ChargeIsMoneyStep
  <2>3. CASE UNCHANGED account
    BY <2>1, <2>3 DEF MoneyStep, account
  <2> QED BY <1>1, <2>2, <2>3 DEF Charge
<1>2. CASE AddCreditsUsed(t)
  BY <1>2 DEF AddCreditsUsed, MoneyStep, api
<1>3. CASE ImageStart(t) \/ ImageCall(t) \/ ImageSave(t) \/ ImageNotify(t)
  BY <1>3 DEF ImageStart, ImageCall, ImageSave, ImageNotify, MoneyStep, account, api
<1>4. CASE RenderStart(t) \/ RenderCreate(t) \/ SaveTaskId(t) \/ PollDone(t)
  BY <1>4 DEF RenderStart, RenderCreate, SaveTaskId, PollDone, MoneyStep, account, api
<1>5. CASE RenderSave(t) \/ HeygenPayload(t) \/ RenderNotify(t)
  BY <1>5 DEF RenderSave, HeygenPayload, RenderNotify, MoneyStep, account, api
<1>6. CASE RenderFault(t)
  BY <1>6 DEF RenderFault, CreateRejected, SaveTaskIdFails, PollGone, MoneyStep, account, api
<1> QED BY <1>1, <1>2, <1>3, <1>4, <1>5, <1>6 DEF ImageStep, RenderStep

LEMMA OtherWorkersMoney ==
  ASSUME creating # "idle", NEW t,
         PipelineStep \/ StateStep(t) \/ ComposeStep \/ AttemptFails(t)
         \/ HandlerStep \/ (\E f \in failures : HandlerFails(f)) \/ OrchestratorDies
  PROVE  MoneyStep
<1>1. CASE PipelineStep
  BY <1>1 DEF PipelineStep, PipelineSkip, PipelineStart, PipelineClaim, PipelineVideo,
              PipelineEnqueue, MoneyStep, account, api
<1>2. CASE StateRefund(t)
  BY <1>2, ReleaseIsMoneyStep DEF StateRefund, api
<1>3. CASE StateCheck(t) \/ StateFail(t) \/ StateCompose(t) \/ StateAdd(t)
  BY <1>3 DEF StateCheck, StateFail, StateCompose, StateAdd, MoneyStep, account, api
<1>4. CASE ComposeSettle
  BY <1>4, ReleaseIsMoneyStep DEF ComposeSettle, api
<1>5. CASE ComposeStart \/ ComposeFinish
  BY <1>5 DEF ComposeStart, ComposeFinish, MoneyStep, account, api
<1>6. ASSUME NEW f \in failures, HandlerRefund(f) PROVE MoneyStep
  BY <1>6, ReleaseIsMoneyStep DEF HandlerRefund, api
<1>7. ASSUME NEW f \in failures, HandlerMark(f) \/ HandlerFails(f) PROVE MoneyStep
  BY <1>7 DEF HandlerMark, HandlerFails, MoneyStep, account, api
<1>8. CASE AttemptFails(t) \/ OrchestratorDies
  BY <1>8 DEF AttemptFails, OrchestratorDies, MoneyStep, account, api
<1> QED BY <1>1, <1>2, <1>3, <1>4, <1>5, <1>6, <1>7, <1>8 DEF StateStep, ComposeStep, HandlerStep

LEMMA AfterCreation ==
  ASSUME creating # "idle", reserve # "none", Next
  PROVE  MoneyStep
<1>1. ~CreateVideoJob
  BY DEF CreateVideoJob
<1>2. ASSUME NEW t \in TaskIds, WorkerStep(t) \/ AttemptFails(t) PROVE MoneyStep
  BY <1>2, GptMoney, ProviderMoney, OtherWorkersMoney DEF WorkerStep
<1>3. ASSUME NEW t \in TasksOf("runway") \cup TasksOf("heygen"), RenderFault(t) PROVE MoneyStep
  <2>1. t.q \in {"image", "runway", "heygen"}
    BY DEF TasksOf
  <2> QED BY <1>3, <2>1, ProviderMoney
<1>4. CASE GptFanOutBreaks
  BY <1>4, GptMoney
<1>5. CASE HandlerStep \/ (\E f \in failures : HandlerFails(f)) \/ OrchestratorDies
  BY <1>5, OtherWorkersMoney
<1> QED BY <1>1, <1>2, <1>3, <1>4, <1>5, ApiMoney DEF Next

-----------------------------------------------------------------------------
LEMMA InitIInv == Init => IInv
<1> SUFFICES ASSUME Init PROVE IInv
  OBVIOUS
<1>1. NotCreated
  BY DEF Init, NotCreated, NoScene, NoJob
<1> QED BY <1>1, PipelineAssumption DEF Init, IInv, Conserved, Ledger!Conserved, Ledger!OnHold

LEMMA NextIInv == IInv /\ [Next]_vars => IInv' /\ [Ledger!Next]_(Ledger!vars)
<1> SUFFICES ASSUME IInv, [Next]_vars PROVE IInv' /\ [Ledger!Next]_(Ledger!vars)
  OBVIOUS
<1> USE DEF Ledger!vars, Conserved, Ledger!Conserved, Ledger!OnHold
<1>1. CASE Next /\ creating = "idle"
  <2>1. CreateVideoJob
    BY <1>1, OnlyCreation DEF IInv
  <2>2. reserve = "none"
    BY <1>1 DEF IInv, NotCreated
  <2> QED BY <2>1, <2>2, PipelineAssumption DEF CreateVideoJob, IInv, Ledger!Next, Ledger!Reserve
<1>2. CASE Next /\ creating # "idle"
  <2>1. MoneyStep
    BY <1>2, AfterCreation DEF IInv
  <2>2. CASE UNCHANGED <<balance, reserve, charged>>
    BY <1>2, <2>1, <2>2 DEF IInv, MoneyStep
  <2>3. CASE Ledger!Charge
    <3>1. PICK q \in DOMAIN Price :
            /\ balance >= Price[q] /\ balance' = balance - Price[q]
            /\ charged' = charged + Price[q] /\ reserve' = reserve
      BY <2>3 DEF Ledger!Charge
    <3>2. Price[q] \in Nat
      BY PipelineAssumption
    <3> QED BY <1>2, <2>1, <2>3, <3>1, <3>2 DEF IInv, MoneyStep, Ledger!Next
  <2>4. CASE Ledger!Release
    BY <1>2, <2>1, <2>4, PipelineAssumption DEF IInv, MoneyStep, Ledger!Next, Ledger!Release
  <2> QED BY <2>1, <2>2, <2>3, <2>4 DEF MoneyStep
<1>3. CASE UNCHANGED vars
  BY <1>3 DEF vars, rows, queue, api, account, history, used, IInv, NotCreated
<1> QED BY <1>1, <1>2, <1>3

(* The inductive invariant holds in every reachable state.                  *)
THEOREM Invariance == Spec => []IInv
<1>1. IInv /\ [Next]_vars => IInv'
  BY NextIInv
<1> QED BY InitIInv, <1>1, PTL DEF Spec

(* No credit is lost or given away, whatever the script, the attempts, the  *)
(* faults, the crashes and the requests.                                    *)
THEOREM MoneyConserved == Spec => []Conserved
<1>1. IInv => Conserved
  BY DEF IInv
<1> QED BY <1>1, Invariance, PTL

(* The whole pipeline implements the abstract credit ledger.                *)
THEOREM ImplementsLedger == Spec => LedgerSpec
<1>1. Init => Ledger!Init
  BY DEF Init, Ledger!Init
<1>2. IInv /\ [Next]_vars => [Ledger!Next]_(Ledger!vars)
  BY NextIInv
<1> QED BY <1>1, <1>2, Invariance, PTL DEF Spec, LedgerSpec, Ledger!Spec

-----------------------------------------------------------------------------
(* A cancelled job is set running by nobody but an admin's retry.           *)
THEOREM CancelWins == Spec => CancelWinsTheClaim
<1> DEFINE Retried == \E a \in Admins : request[a].at = "retryReset"
<1>1. ASSUME Next, job = "cancelled", job' = "running" PROVE Retried
  <2>1. CASE CreateVideoJob \/ CreateStep \/ EnqueueFails
    BY <1>1, <2>1 DEF CreateVideoJob, CreateStep, EnqueueFails, EnqueuePipeline,
                      MarkNotEnqueued, ReleaseNotEnqueued, rows
  <2>2. CASE CancelActive \/ CancelFailed \/ DeleteVideo \/ CancelStep \/ ApiDies
    BY <1>1, <2>2 DEF CancelActive, CancelFailed, DeleteVideo, CancelStep, CancelVideo,
                      CancelQueued, CancelRelease, MarkCancelled, ApiDies, rows
  <2>3. ASSUME NEW a \in Admins, RetryRead(a) \/ RecomposeRead(a) \/ RequestStep(a) PROVE Retried
    BY <1>1, <2>3 DEF RetryRead, RecomposeRead, Read, RequestStep, RetryReset, RetryEnqueue,
                      RecomposeReset, RecomposeEnqueue, rows
  <2>4. CASE PipelineStep
    BY <1>1, <2>4 DEF PipelineStep, PipelineSkip, PipelineStart, PipelineClaim, PipelineVideo,
                      PipelineEnqueue, rows
  <2>5. CASE GptStep \/ GptFanOutBreaks
    BY <1>1, <2>5 DEF GptStep, GptIdea, GptCharge, GptUsed, GptHook, GptScript, GptScenes,
                      GptReady, GptFanOut, GptFanOutBreaks, rows
  <2>6. ASSUME NEW t, ImageStep(t) \/ RenderStep(t) \/ RenderFault(t) PROVE FALSE
    BY <1>1, <2>6 DEF ImageStep, ImageStart, ImageCall, ImageSave, Charge, AddCreditsUsed,
       ImageNotify, RenderStep, RenderStart, RenderCreate, SaveTaskId, PollDone, RenderSave,
       HeygenPayload, RenderNotify, RenderFault, CreateRejected, SaveTaskIdFails, PollGone, rows
  <2>7. ASSUME NEW t, StateStep(t) \/ ComposeStep \/ AttemptFails(t) PROVE FALSE
    BY <1>1, <2>7 DEF StateStep, StateCheck, StateFail, StateRefund, StateCompose, StateAdd,
       ComposeStep, ComposeStart, ComposeFinish, ComposeSettle, AttemptFails, rows
  <2>8. CASE HandlerStep \/ (\E f \in failures : HandlerFails(f)) \/ OrchestratorDies
    BY <1>1, <2>8 DEF HandlerStep, HandlerMark, HandlerRefund, HandlerFails, OrchestratorDies, rows
  <2> QED BY <1>1, <2>1, <2>2, <2>3, <2>4, <2>5, <2>6, <2>7, <2>8 DEF Next, WorkerStep
<1>2. [Next]_vars => [job = "cancelled" /\ job' = "running" => Retried]_vars
  BY <1>1
<1> QED BY <1>2, PTL DEF Spec, CancelWinsTheClaim

-----------------------------------------------------------------------------
(* Queue jobs of different queues have different numbers of attempts, so    *)
(* that the type of the queue is one of each job.                           *)

QueueTyped(jobs) ==
  DOMAIN jobs = TaskIds /\ \A t \in TaskIds : jobs[t] \in QueueJob(TaskPC, Attempts[t.q])

MediaQueues == {"image", "runway", "heygen"}

LEMMA TaskShape ==
  ASSUME NEW t \in TaskIds
  PROVE  /\ t.q \in QueueNames /\ Attempts[t.q] \in Nat \ {0}
         /\ t = Task(t.q, t.s, t.n)
         /\ t.q \in {"image", "runway", "state"} => t.s \in Scenes
         /\ t.q = "image" => SceneType[t.s] \in {"clip", "image"} /\ t.n \in 1..MaxSlots
         /\ t.q = "runway" => SceneType[t.s] = "clip" /\ t.n = 0
         /\ t.q = "heygen" => t.s = Job /\ t.n \in 1..MaxSlots /\ Avatars # {}
         /\ t.q \in MediaQueues => AssetOf(t) \in Assets
         /\ t.q = "pipeline" => t = Pipeline
         /\ t.q = "gpt" => t = Gpt
         /\ t.q = "compose" => t = Compose
<1>1. /\ t.q \in QueueNames /\ t = Task(t.q, t.s, t.n)
      /\ t.q \in {"image", "runway", "state"} => t.s \in Scenes
      /\ t.q = "image" => SceneType[t.s] \in {"clip", "image"} /\ t.n \in 1..MaxSlots
      /\ t.q = "runway" => SceneType[t.s] = "clip" /\ t.n = 0
      /\ t.q = "heygen" => t.s = Job /\ t.n \in 1..MaxSlots /\ Avatars # {}
      /\ t.q = "pipeline" => t = Pipeline
      /\ t.q = "gpt" => t = Gpt
      /\ t.q = "compose" => t = Compose
  BY DEF TaskIds, QueueNames, Task, Pipeline, Gpt, Compose, State, Runway, OfType, Media, Job
<1>2. t.q \in MediaQueues => AssetOf(t) \in Assets
  BY DEF Assets, AssetOf, TasksOf, MediaQueues
<1> QED BY <1>1, <1>2, PipelineAssumption

LEMMA SingleTasks == {Pipeline, Gpt, Compose} \subseteq TaskIds /\ "start" \in TaskPC
BY DEF TaskIds, TaskPC

LEMMA GotoTyped ==
  ASSUME NEW jobs, QueueTyped(jobs), NEW t \in TaskIds, NEW pc \in TaskPC
  PROVE  /\ QueueTyped(Goto(jobs, t, pc))
         /\ Goto(jobs, t, pc)[t].st = "active" /\ Goto(jobs, t, pc)[t].pc = pc
         /\ \A x \in TaskIds : x # t => Goto(jobs, t, pc)[x] = jobs[x]
BY DEF QueueTyped, QueueJob, Goto, States

LEMMA GotoResumedTyped ==
  ASSUME NEW jobs, QueueTyped(jobs), NEW t \in TaskIds, NEW pc \in TaskPC, NEW new,
         \/ new = [Goto(jobs, t, pc) EXCEPT ![t].resumed = TRUE]
         \/ new = [Goto(jobs, t, pc) EXCEPT ![t].resumed = FALSE]
  PROVE  /\ QueueTyped(new)
         /\ new[t].st = "active" /\ new[t].pc = pc
         /\ \A x \in TaskIds : x # t => new[x] = jobs[x]
<1> DEFINE G == Goto(jobs, t, pc)
<1>1. /\ QueueTyped(G) /\ G[t].st = "active" /\ G[t].pc = pc
      /\ \A x \in TaskIds : x # t => G[x] = jobs[x]
  BY GotoTyped
<1> HIDE DEF G
<1>2. PICK j : /\ j = [G[t] EXCEPT !.resumed = TRUE] \/ j = [G[t] EXCEPT !.resumed = FALSE]
               /\ new = [G EXCEPT ![t] = j]
  BY DEF G
<1>3. j \in QueueJob(TaskPC, Attempts[t.q]) /\ j.st = "active" /\ j.pc = pc
  BY <1>1, <1>2 DEF QueueTyped, QueueJob
<1> QED BY <1>1, <1>2, <1>3 DEF QueueTyped

LEMMA CompleteTyped ==
  ASSUME NEW jobs, QueueTyped(jobs), NEW t \in TaskIds
  PROVE  /\ QueueTyped(Complete(jobs, t))
         /\ Complete(jobs, t)[t].st = "completed"
         /\ \A x \in TaskIds : x # t => Complete(jobs, t)[x] = jobs[x]
BY SingleTasks DEF QueueTyped, QueueJob, Complete, States

LEMMA FailForGoodTyped ==
  ASSUME NEW jobs, QueueTyped(jobs), NEW t \in TaskIds
  PROVE  /\ QueueTyped(FailForGood(jobs, t))
         /\ FailForGood(jobs, t)[t].st = "failed"
         /\ \A x \in TaskIds : x # t => FailForGood(jobs, t)[x] = jobs[x]
BY SingleTasks DEF QueueTyped, QueueJob, FailForGood, States

LEMMA FailAttemptTyped ==
  ASSUME NEW jobs, QueueTyped(jobs), NEW t \in TaskIds
  PROVE  LET new == FailAttempt(jobs, t, Attempts[t.q]) IN
         /\ QueueTyped(new)
         /\ new[t].st \in {"waiting", "failed"}
         /\ \A x \in TaskIds : x # t => new[x] = jobs[x]
<1> DEFINE A == Attempts[t.q]
<1>1. CASE IsLastAttempt(jobs[t], A)
  BY <1>1, FailForGoodTyped DEF FailAttempt
<1>2. CASE ~IsLastAttempt(jobs[t], A)
  <2> DEFINE new == [jobs[t] EXCEPT !.st = "waiting", !.att = jobs[t].att + 1, !.pc = "start",
                                    !.resumed = FALSE]
  <2>1. jobs[t] \in QueueJob(TaskPC, A) /\ A \in Nat \ {0}
    BY TaskShape DEF QueueTyped
  <2> HIDE DEF A
  <2>2. jobs[t].att + 1 \in 0..(A - 1)
    BY <2>1, <1>2 DEF QueueJob, IsLastAttempt
  <2>3. new \in QueueJob(TaskPC, A) /\ new.st = "waiting"
    BY <2>1, <2>2, SingleTasks DEF QueueJob, States
  <2>4. FailAttempt(jobs, t, A) = [jobs EXCEPT ![t] = new]
    BY <1>2 DEF FailAttempt
  <2> HIDE DEF new
  <2>5. \A x \in TaskIds : x # t => [jobs EXCEPT ![t] = new][x] = jobs[x]
    BY DEF QueueTyped
  <2>6. [jobs EXCEPT ![t] = new][t] = new /\ QueueTyped([jobs EXCEPT ![t] = new])
    BY <2>3 DEF QueueTyped, A
  <2> QED BY <2>3, <2>4, <2>5, <2>6 DEF A
<1> QED BY <1>1, <1>2

LEMMA AddTyped ==
  ASSUME NEW jobs, QueueTyped(jobs), NEW ids
  PROVE  /\ QueueTyped(Add(jobs, ids))
         /\ \A x \in TaskIds :
              \/ Add(jobs, ids)[x] = jobs[x]
              \/ x \in ids /\ jobs[x].st = "absent" /\ Add(jobs, ids)[x].st = "waiting"
<1>1. \A x \in TaskIds : NewJob \in QueueJob(TaskPC, Attempts[x.q]) /\ NewJob.st = "waiting"
  BY TaskShape, SingleTasks, NewJobs
<1> QED BY <1>1 DEF QueueTyped, Add

LEMMA AddOrReplaceTyped ==
  ASSUME NEW jobs, QueueTyped(jobs), NEW ids
  PROVE  /\ QueueTyped(AddOrReplace(jobs, ids))
         /\ \A x \in TaskIds :
              \/ AddOrReplace(jobs, ids)[x] = jobs[x]
              \/ x \in ids /\ ~IsOpen(jobs[x]) /\ AddOrReplace(jobs, ids)[x].st = "waiting"
<1>1. \A x \in TaskIds : NewJob \in QueueJob(TaskPC, Attempts[x.q]) /\ NewJob.st = "waiting"
  BY TaskShape, SingleTasks, NewJobs
<1> QED BY <1>1 DEF QueueTyped, AddOrReplace

LEMMA RemoveTyped ==
  ASSUME NEW jobs, QueueTyped(jobs), NEW t \in TaskIds
  PROVE  /\ QueueTyped(Remove(jobs, t))
         /\ \A x \in TaskIds : x # t => Remove(jobs, t)[x] = jobs[x]
<1>1. NoJob \in QueueJob(TaskPC, Attempts[t.q])
  BY TaskShape, SingleTasks, NewJobs
<1> QED BY <1>1 DEF QueueTyped, Remove

LEMMA StallTyped ==
  ASSUME NEW jobs, QueueTyped(jobs)
  PROVE  /\ QueueTyped(Stall(jobs))
         /\ \A x \in TaskIds :
              \/ Stall(jobs)[x] = jobs[x] /\ jobs[x].st # "active"
              \/ jobs[x].st = "active" /\ Stall(jobs)[x].st \in {"waiting", "failed"}
<1> DEFINE new(x) == [jobs[x] EXCEPT !.st = IF StallAgain(jobs[x]) THEN "failed" ELSE "waiting",
                                     !.stalls = 1, !.pc = "start", !.resumed = FALSE]
<1>1. ASSUME NEW x \in TaskIds
      PROVE  /\ jobs[x] \in QueueJob(TaskPC, Attempts[x.q])
             /\ new(x) \in QueueJob(TaskPC, Attempts[x.q]) /\ new(x).st \in {"failed", "waiting"}
  <2>1. jobs[x] \in QueueJob(TaskPC, Attempts[x.q])
    BY DEF QueueTyped
  <2>2. 1 \in 0..1 /\ FALSE \in BOOLEAN
    OBVIOUS
  <2> QED BY <2>1, <2>2, SingleTasks DEF QueueJob, States
<1>2. Stall(jobs) = [x \in TaskIds |-> IF jobs[x].st # "active" THEN jobs[x] ELSE new(x)]
  BY DEF Stall, QueueTyped
<1> HIDE DEF new
<1> QED BY <1>1, <1>2 DEF QueueTyped

-----------------------------------------------------------------------------
(* TypeOK, in the groups of variables that the actions leave alone together *)

FailureEvents == [t : TaskIds, at : {"mark", "refund"}]

RowsTyped ==
  /\ job \in JobStatus /\ video \in VideoStatus
  /\ scene \in [Scenes -> SceneRow] /\ avatarKey \in BOOLEAN

TasksTyped == QueueTyped(tasks) /\ failures \subseteq FailureEvents

ApiTyped ==
  /\ creating \in {"idle", "enqueue", "markFailed", "release", "done"}
  /\ cancelling \in {"idle", "video", "queue", "release", "mark"}
  /\ request \in [Admins -> [at : RequestPC, scene : [Scenes -> SceneRow], avatar : BOOLEAN]]

AccountTyped ==
  /\ balance \in Nat /\ charged \in Nat /\ creditsUsed \in Nat
  /\ reserve \in {"none", "held", "released"}
  /\ billed \in [Assets -> Nat]

HistoryTyped ==
  paid \in [Assets -> Nat] /\ lost \in [Assets -> Nat] /\ dropped \in BOOLEAN

UsedTyped ==
  /\ faults \in 0..MaxFaults /\ crashes \in 0..MaxCrashes
  /\ cancels \in 0..MaxCancels /\ requests \in 0..MaxRequests

LEMMA TypeParts ==
  /\ TypeOK <=> RowsTyped /\ TasksTyped /\ ApiTyped /\ AccountTyped /\ HistoryTyped /\ UsedTyped
  /\ TypeOK' <=> RowsTyped' /\ TasksTyped' /\ ApiTyped' /\ AccountTyped' /\ HistoryTyped' /\ UsedTyped'
<1> USE DEF RowsTyped, TasksTyped, ApiTyped, AccountTyped, HistoryTyped, UsedTyped, QueueTyped,
            FailureEvents
<1>1. TypeOK <=> RowsTyped /\ TasksTyped /\ ApiTyped /\ AccountTyped /\ HistoryTyped /\ UsedTyped
  BY DEF TypeOK
<1>2. TypeOK' <=> RowsTyped' /\ TasksTyped' /\ ApiTyped' /\ AccountTyped' /\ HistoryTyped' /\ UsedTyped'
  BY DEF TypeOK
<1> QED BY <1>1, <1>2

LEMMA KeepsTyped ==
  /\ RowsTyped /\ UNCHANGED rows => RowsTyped'
  /\ TasksTyped /\ UNCHANGED queue => TasksTyped'
  /\ ApiTyped /\ UNCHANGED api => ApiTyped'
  /\ AccountTyped /\ UNCHANGED account => AccountTyped'
  /\ HistoryTyped /\ UNCHANGED history => HistoryTyped'
  /\ UsedTyped /\ UNCHANGED used => UsedTyped'
BY DEF RowsTyped, TasksTyped, ApiTyped, AccountTyped, HistoryTyped, UsedTyped, QueueTyped,
       rows, queue, api, account, history, used

LEMMA QueueSteps ==
  ASSUME TasksTyped, NEW t \in TaskIds
  PROVE  /\ \A pc \in TaskPC : Step(t, pc) => TasksTyped'
         /\ Return(t) => TasksTyped'
         /\ \A ids : ReturnAdding(t, ids) => TasksTyped'
         /\ Throw(t) => TasksTyped'
<1> USE DEF TasksTyped
<1>1. \A pc \in TaskPC : Step(t, pc) => TasksTyped'
  BY GotoTyped DEF Step
<1>2. Return(t) => TasksTyped'
  BY CompleteTyped DEF Return
<1>3. ASSUME NEW ids, ReturnAdding(t, ids) PROVE TasksTyped'
  BY <1>3, AddTyped, CompleteTyped DEF ReturnAdding
<1>4. ASSUME Throw(t) PROVE TasksTyped'
  <2>1. QueueTyped(tasks')
    BY <1>4, FailAttemptTyped DEF Throw
  <2>2. failures' \subseteq FailureEvents
    BY <1>4 DEF Throw, FailureEvents
  <2> QED BY <2>1, <2>2
<1> QED BY <1>1, <1>2, <1>3, <1>4

LEMMA ReleaseTyped ==
  ASSUME AccountTyped, ReleaseReserve
  PROVE  AccountTyped'
BY PipelineAssumption DEF AccountTyped, ReleaseReserve

LEMMA FaultTyped ==
  ASSUME UsedTyped, Fault
  PROVE  UsedTyped'
<1>1. {MaxFaults, MaxCrashes, MaxCancels, MaxRequests} \subseteq Nat
  BY PipelineAssumption
<1> QED BY <1>1 DEF UsedTyped, Fault

LEMMA InitTypeOK == Init => TypeOK
<1> SUFFICES ASSUME Init PROVE TypeOK
  OBVIOUS
<1>1. NoScene \in SceneRow
  BY DEF NoScene, SceneRow, SceneStatus
<1>2. RowsTyped /\ ApiTyped /\ AccountTyped /\ HistoryTyped
  BY <1>1, PipelineAssumption DEF Init, RowsTyped, ApiTyped, AccountTyped, HistoryTyped,
     JobStatus, VideoStatus, NoRequest, RequestPC
<1>3. UsedTyped
  <2>1. {MaxFaults, MaxCrashes, MaxCancels, MaxRequests} \subseteq Nat
    BY PipelineAssumption
  <2> QED BY <2>1 DEF Init, UsedTyped
<1>4. TasksTyped
  <2>1. \A t \in TaskIds : NoJob \in QueueJob(TaskPC, Attempts[t.q])
    BY TaskShape, SingleTasks, NewJobs
  <2> QED BY <2>1 DEF Init, TasksTyped, QueueTyped, FailureEvents
<1> QED BY <1>2, <1>3, <1>4, TypeParts

-----------------------------------------------------------------------------
(* Every step keeps the type, component by component *)

LEMMA ApiTypeOK ==
  ASSUME TypeOK,
         CreateVideoJob \/ CreateStep \/ EnqueueFails
         \/ CancelActive \/ CancelFailed \/ DeleteVideo \/ CancelStep \/ ApiDies
  PROVE  TypeOK'
<1> USE TypeParts, KeepsTyped
<1>1. {MaxCrashes, MaxCancels} \subseteq Nat /\ Estimate \in Nat
  BY PipelineAssumption
<1>2. CASE CreateVideoJob
  <2>1. RowsTyped' /\ ApiTyped' /\ AccountTyped'
    BY <1>1, <1>2 DEF CreateVideoJob, RowsTyped, ApiTyped, AccountTyped, JobStatus, VideoStatus
  <2> QED BY <1>2, <2>1 DEF CreateVideoJob
<1>3. CASE EnqueuePipeline
  <2>1. TasksTyped' /\ ApiTyped'
    BY <1>3, AddTyped DEF EnqueuePipeline, TasksTyped, ApiTyped
  <2> QED BY <1>3, <2>1 DEF EnqueuePipeline
<1>4. CASE EnqueueFails
  <2>1. ApiTyped' /\ UsedTyped'
    BY <1>4, FaultTyped DEF EnqueueFails, ApiTyped
  <2> QED BY <1>4, <2>1 DEF EnqueueFails
<1>5. CASE MarkNotEnqueued
  <2>1. RowsTyped' /\ ApiTyped'
    BY <1>5 DEF MarkNotEnqueued, RowsTyped, ApiTyped, JobStatus, VideoStatus
  <2> QED BY <1>5, <2>1 DEF MarkNotEnqueued
<1>6. CASE ReleaseNotEnqueued
  <2>1. AccountTyped' /\ ApiTyped'
    BY <1>6, ReleaseTyped DEF ReleaseNotEnqueued, ApiTyped
  <2> QED BY <1>6, <2>1 DEF ReleaseNotEnqueued
<1>7. CASE CancelActive
  <2>1. RowsTyped' /\ ApiTyped' /\ UsedTyped'
    BY <1>7, <1>1 DEF CancelActive, RowsTyped, ApiTyped, UsedTyped, JobStatus
  <2> QED BY <1>7, <2>1 DEF CancelActive
<1>8. CASE CancelFailed
  <2>1. ApiTyped' /\ UsedTyped'
    BY <1>8, <1>1 DEF CancelFailed, ApiTyped, UsedTyped
  <2> QED BY <1>8, <2>1 DEF CancelFailed
<1>9. CASE DeleteVideo
  <2>1. RowsTyped' /\ UsedTyped'
    BY <1>9, <1>1 DEF DeleteVideo, RowsTyped, UsedTyped, VideoStatus
  <2> QED BY <1>9, <2>1 DEF DeleteVideo
<1>10. CASE CancelVideo \/ MarkCancelled
  <2>1. RowsTyped' /\ ApiTyped'
    BY <1>10 DEF CancelVideo, MarkCancelled, RowsTyped, ApiTyped, JobStatus, VideoStatus
  <2> QED BY <1>10, <2>1 DEF CancelVideo, MarkCancelled
<1>11. CASE CancelQueued
  <2>1. TasksTyped' /\ ApiTyped'
    BY <1>11, RemoveTyped, SingleTasks DEF CancelQueued, TasksTyped, ApiTyped
  <2> QED BY <1>11, <2>1 DEF CancelQueued
<1>12. CASE CancelRelease
  <2>1. AccountTyped' /\ ApiTyped'
    BY <1>12, ReleaseTyped DEF CancelRelease, ApiTyped
  <2> QED BY <1>12, <2>1 DEF CancelRelease
<1>13. CASE ApiDies
  <2>1. NoRequest \in [at : RequestPC, scene : [Scenes -> SceneRow], avatar : BOOLEAN]
    BY DEF NoRequest, RequestPC, NoScene, SceneRow, SceneStatus
  <2>2. ApiTyped' /\ UsedTyped' /\ HistoryTyped'
    BY <1>13, <1>1, <2>1 DEF ApiDies, ApiTyped, UsedTyped, HistoryTyped
  <2> QED BY <1>13, <2>2 DEF ApiDies
<1> QED BY <1>2, <1>3, <1>4, <1>5, <1>6, <1>7, <1>8, <1>9, <1>10, <1>11, <1>12, <1>13
        DEF CreateStep, CancelStep

LEMMA RequestTypeOK ==
  ASSUME TypeOK, NEW a \in Admins, RetryRead(a) \/ RecomposeRead(a) \/ RequestStep(a)
  PROVE  TypeOK'
<1> USE TypeParts, KeepsTyped
<1>1. MaxRequests \in Nat
  BY PipelineAssumption
<1>2. NoRequest \in [at : RequestPC, scene : [Scenes -> SceneRow], avatar : BOOLEAN]
  BY DEF NoRequest, RequestPC, NoScene, SceneRow, SceneStatus
<1>3. ASSUME NEW at \in RequestPC, Read(a, at) PROVE TypeOK'
  <2>1. ApiTyped' /\ UsedTyped'
    BY <1>3, <1>1 DEF Read, ApiTyped, UsedTyped, RowsTyped
  <2>2. RowsTyped' /\ TasksTyped' /\ AccountTyped' /\ HistoryTyped'
    BY <1>3 DEF Read
  <2> QED BY <2>1, <2>2
<1>4. CASE RetryReset(a)
  <2>1. RowsTyped'
    BY <1>4 DEF RetryReset, RowsTyped, JobStatus, VideoStatus, SceneRow, SceneStatus
  <2>2. ApiTyped'
    BY <1>4 DEF RetryReset, ApiTyped, RequestPC
  <2> QED BY <1>4, <2>1, <2>2 DEF RetryReset
<1>5. CASE RetryEnqueue(a)
  <2>1. RowsTyped'
    BY <1>5 DEF RetryEnqueue, RowsTyped, SceneRow, SceneStatus
  <2>2. ApiTyped'
    BY <1>5, <1>2 DEF RetryEnqueue, ApiTyped
  <2>3. TasksTyped'
    BY <1>5, AddTyped, AddOrReplaceTyped DEF RetryEnqueue, TasksTyped
  <2> QED BY <1>5, <2>1, <2>2, <2>3 DEF RetryEnqueue
<1>6. CASE RecomposeReset(a)
  <2>1. RowsTyped' /\ ApiTyped'
    BY <1>6 DEF RecomposeReset, RowsTyped, ApiTyped, JobStatus, VideoStatus, RequestPC
  <2> QED BY <1>6, <2>1 DEF RecomposeReset
<1>7. CASE RecomposeEnqueue(a)
  <2>1. TasksTyped' /\ ApiTyped'
    BY <1>7, <1>2, AddOrReplaceTyped DEF RecomposeEnqueue, TasksTyped, ApiTyped
  <2> QED BY <1>7, <2>1 DEF RecomposeEnqueue
<1>8. {"retryReset", "recomposeReset"} \subseteq RequestPC
  BY DEF RequestPC
<1> QED BY <1>3, <1>4, <1>5, <1>6, <1>7, <1>8 DEF RetryRead, RecomposeRead, RequestStep

LEMMA PipelineTypeOK ==
  ASSUME TypeOK, PipelineStep
  PROVE  TypeOK'
<1> USE TypeParts, KeepsTyped, QueueSteps, SingleTasks
<1>1. {"claim", "video", "enqueue"} \subseteq TaskPC
  BY DEF TaskPC
<1>2. CASE PipelineSkip \/ PipelineStart
  BY <1>1, <1>2 DEF PipelineSkip, PipelineStart
<1>3. CASE PipelineClaim
  <2>1. RowsTyped' /\ TasksTyped'
    BY <1>1, <1>3 DEF PipelineClaim, RowsTyped, JobStatus
  <2> QED BY <1>3, <2>1 DEF PipelineClaim
<1>4. CASE PipelineVideo
  <2>1. RowsTyped' /\ TasksTyped'
    BY <1>1, <1>4 DEF PipelineVideo, RowsTyped, VideoStatus
  <2> QED BY <1>4, <2>1 DEF PipelineVideo
<1>5. CASE PipelineEnqueue
  <2>1. TasksTyped'
    BY <1>5, AddOrReplaceTyped, CompleteTyped DEF PipelineEnqueue, TasksTyped
  <2> QED BY <1>5, <2>1 DEF PipelineEnqueue
<1> QED BY <1>2, <1>3, <1>4, <1>5 DEF PipelineStep

LEMMA GptTypeOK ==
  ASSUME TypeOK, GptStep \/ GptFanOutBreaks
  PROVE  TypeOK'
<1> USE TypeParts, KeepsTyped, QueueSteps, SingleTasks
<1>1. {"ideaUsed", "hook", "hookUsed", "script", "scriptUsed", "scenes", "ready", "fanout"}
        \subseteq TaskPC /\ Price["gpt"] \in Nat
  BY PipelineAssumption DEF TaskPC
<1>2. ASSUME NEW from, NEW to \in TaskPC, GptCharge(from, to) PROVE TypeOK'
  <2>1. AccountTyped'
    BY <1>1, <1>2 DEF GptCharge, AccountTyped, account
  <2>2. TasksTyped'
    BY <1>2 DEF GptCharge
  <2> QED BY <1>2, <2>1, <2>2 DEF GptCharge
<1>3. ASSUME NEW from, NEW to \in TaskPC, GptUsed(from, to) PROVE TypeOK'
  <2>1. AccountTyped'
    BY <1>1, <1>3 DEF GptUsed, AccountTyped
  <2> QED BY <1>3, <2>1 DEF GptUsed
<1>4. CASE GptHook
  <2>1. CASE At(Gpt, "hookUsed")
    BY <1>1, <1>4, <2>1, FaultTyped DEF GptHook, At
  <2>2. CASE At(Gpt, "hook")
    <3>1. CASE GptCharge("hook", "hookUsed")
      BY <1>1, <1>2, <3>1
    <3>2. CASE ~GptCharge("hook", "hookUsed")
      <4>1. Step(Gpt, "script") /\ UNCHANGED <<rows, api, account, history, used>>
        BY <1>4, <2>2, <3>2 DEF GptHook, At
      <4> QED BY <1>1, <4>1
    <3> QED BY <3>1, <3>2
  <2> QED BY <1>4, <2>1, <2>2 DEF GptHook
<1>5. CASE GptScenes
  <2>1. RowsTyped'
    <3>1. [NoScene EXCEPT !.status = "pending"] \in SceneRow
      BY DEF NoScene, SceneRow, SceneStatus
    <3>2. scene' = [s \in Scenes |-> [NoScene EXCEPT !.status = "pending"]] \/ scene' = scene
      BY <1>5 DEF GptScenes
    <3>3. scene' \in [Scenes -> SceneRow]
      BY <3>1, <3>2 DEF RowsTyped
    <3> QED BY <1>5, <3>3 DEF GptScenes, RowsTyped
  <2>2. TasksTyped'
    BY <1>1, <1>5 DEF GptScenes
  <2> QED BY <1>5, <2>1, <2>2 DEF GptScenes
<1>6. CASE GptReady
  <2>1. RowsTyped' /\ TasksTyped'
    BY <1>1, <1>6 DEF GptReady, RowsTyped, JobStatus
  <2> QED BY <1>6, <2>1 DEF GptReady
<1>7. CASE GptFanOut
  BY <1>7 DEF GptFanOut
<1>8. CASE GptFanOutBreaks
  <2>1. PICK S \in SUBSET ImageScenes :
          tasks' = FailAttempt(Add(tasks, FanOut(S)), Gpt, Attempts["gpt"])
    BY <1>8 DEF GptFanOutBreaks
  <2>2. QueueTyped(tasks')
    <3>1. Gpt.q = "gpt"
      BY DEF Gpt, Task
    <3> QED BY <2>1, <3>1, AddTyped, FailAttemptTyped DEF TasksTyped
  <2>3. failures' \subseteq FailureEvents
    BY <1>8 DEF GptFanOutBreaks, TasksTyped, FailureEvents
  <2> QED BY <1>8, <2>2, <2>3, FaultTyped DEF GptFanOutBreaks, TasksTyped
<1> QED BY <1>1, <1>2, <1>3, <1>4, <1>5, <1>6, <1>7, <1>8 DEF GptStep, GptIdea, GptScript

(* The queue jobs that make one asset are told apart by n alone.            *)
LEMMA AssetTasksFinite ==
  ASSUME NEW a, NEW T, T \subseteq {t \in TaskIds : AssetOf(t) = a}
  PROVE  IsFiniteSet(T) /\ Cardinality(T) \in Nat
<1> DEFINE f == [t \in T |-> t.n]
<1>1. MaxSlots \in Nat
  BY PipelineAssumption
<1>2. ASSUME NEW t \in T PROVE t.n \in 0..MaxSlots
  BY <1>1 DEF TaskIds, Task, Pipeline, Gpt, Compose, State, Runway
<1>3. ASSUME NEW t \in T, NEW u \in T, t.n = u.n PROVE t = u
  <2>1. t = Task(t.q, t.s, t.n) /\ u = Task(u.q, u.s, u.n)
    BY TaskShape
  <2>2. t.q = u.q /\ t.s = u.s
    BY DEF AssetOf
  <2> QED BY <1>3, <2>1, <2>2
<1>4. f \in Injection(T, 0..MaxSlots)
  BY <1>2, <1>3 DEF Injection, IsInjective
<1>5. IsFiniteSet(0..MaxSlots)
  BY <1>1, FS_Interval
<1>6. IsFiniteSet(T)
  BY <1>4, <1>5, FS_Injection
<1> QED BY <1>6, FS_CardinalityType

LEMMA ChargeTypeOK ==
  ASSUME TypeOK, NEW t \in TaskIds, t.q \in MediaQueues, Charge(t) \/ AddCreditsUsed(t)
  PROVE  TypeOK'
<1> USE TypeParts, KeepsTyped, QueueSteps
<1>1. {"used", "notify"} \subseteq TaskPC /\ Price[t.q] \in Nat /\ AssetOf(t) \in Assets
  BY PipelineAssumption, TaskShape DEF TaskPC, MediaQueues
<1>2. CASE Charge(t)
  <2>1. AccountTyped'
    BY <1>1, <1>2 DEF Charge, AccountTyped, account
  <2>2. TasksTyped'
    BY <1>1, <1>2 DEF Charge
  <2> QED BY <1>2, <2>1, <2>2 DEF Charge
<1>3. CASE AddCreditsUsed(t)
  <2>1. AccountTyped'
    BY <1>1, <1>3 DEF AddCreditsUsed, AccountTyped
  <2> QED BY <1>1, <1>3, <2>1 DEF AddCreditsUsed
<1> QED BY <1>2, <1>3

LEMMA ImageTypeOK ==
  ASSUME TypeOK, NEW t \in TaskIds, t.q = "image", ImageStep(t)
  PROVE  TypeOK'
<1> USE TypeParts, KeepsTyped, QueueSteps
<1>1. {"call", "save", "charge"} \subseteq TaskPC /\ AssetOf(t) \in Assets /\ t.q \in MediaQueues
      /\ t.s \in Scenes
  BY TaskShape DEF TaskPC, MediaQueues
<1>2. CASE ImageStart(t)
  <2>1. RowsTyped'
    BY <1>1, <1>2 DEF ImageStart, RowsTyped, SceneRow, SceneStatus
  <2>2. TasksTyped'
    BY <1>1, <1>2 DEF ImageStart
  <2> QED BY <1>2, <2>1, <2>2 DEF ImageStart
<1>3. CASE ImageCall(t)
  <2>1. HistoryTyped'
    BY <1>1, <1>3 DEF ImageCall, HistoryTyped
  <2>2. TasksTyped'
    BY <1>1, <1>3 DEF ImageCall
  <2> QED BY <1>3, <2>1, <2>2 DEF ImageCall
<1>4. CASE ImageSave(t)
  <2>1. RowsTyped'
    BY <1>1, <1>4 DEF ImageSave, RowsTyped, SceneRow, SceneStatus
  <2>2. TasksTyped'
    BY <1>1, <1>4 DEF ImageSave
  <2> QED BY <1>4, <2>1, <2>2 DEF ImageSave
<1>5. CASE ImageNotify(t)
  BY <1>5 DEF ImageNotify
<1> QED BY <1>1, <1>2, <1>3, <1>4, <1>5, ChargeTypeOK DEF ImageStep

LEMMA RenderTypeOK ==
  ASSUME TypeOK, NEW t \in TaskIds, t.q \in {"runway", "heygen"}, RenderStep(t) \/ RenderFault(t)
  PROVE  TypeOK'
<1> USE TypeParts, KeepsTyped, QueueSteps
<1>1. {"create", "saveId", "poll", "save", "payload", "charge"} \subseteq TaskPC
      /\ AssetOf(t) \in Assets /\ t.q \in MediaQueues
  BY TaskShape DEF TaskPC, MediaQueues
<1>2. CASE RenderStart(t)
  <2>1. \/ scene' = scene
        \/ scene' = [s \in Scenes |->
                       IF s \in RenderScenes(t) /\ ~scene[s].done
                       THEN [scene[s] EXCEPT !.url = TRUE, !.done = TRUE, !.status = "completed"]
                       ELSE scene[s]]
    BY <1>2 DEF RenderStart
  <2>2. scene' \in [Scenes -> SceneRow]
    <3>1. \A r \in SceneRow :
            [r EXCEPT !.url = TRUE, !.done = TRUE, !.status = "completed"] \in SceneRow
      BY DEF SceneRow, SceneStatus
    <3>2. scene \in [Scenes -> SceneRow]
      BY DEF RowsTyped
    <3> QED BY <2>1, <3>1, <3>2
  <2>3. RowsTyped'
    BY <1>2, <2>2 DEF RenderStart, RowsTyped
  <2>4. ASSUME tasks' = [Goto(tasks, t, "poll") EXCEPT ![t].resumed = TRUE], UNCHANGED failures
        PROVE  TasksTyped'
    <3>1. QueueTyped(tasks) /\ failures' \subseteq FailureEvents
      BY <2>4 DEF TasksTyped
    <3>2. QueueTyped(tasks')
      BY <1>1, <2>4, <3>1, GotoResumedTyped
    <3> QED BY <3>1, <3>2 DEF TasksTyped
  <2>5. TasksTyped'
    BY <1>1, <1>2, <2>4 DEF RenderStart
  <2> QED BY <1>2, <2>3, <2>5 DEF RenderStart
<1>3. CASE RenderCreate(t)
  <2>1. HistoryTyped'
    BY <1>1, <1>3 DEF RenderCreate, HistoryTyped
  <2>2. TasksTyped'
    BY <1>1, <1>3 DEF RenderCreate
  <2> QED BY <1>3, <2>1, <2>2 DEF RenderCreate
<1>4. CASE CreateRejected(t)
  <2>1. TasksTyped'
    BY <1>4, FailForGoodTyped DEF CreateRejected, TasksTyped, FailureEvents
  <2> QED BY <1>4, <2>1, FaultTyped DEF CreateRejected
<1>5. CASE SaveTaskId(t)
  <2>1. RowsTyped'
    BY <1>5 DEF SaveTaskId, RowsTyped, SceneRow, SceneStatus
  <2>2. TasksTyped'
    BY <1>1, <1>5 DEF SaveTaskId
  <2> QED BY <1>5, <2>1, <2>2 DEF SaveTaskId
<1>6. CASE SaveTaskIdFails(t)
  <2>1. HistoryTyped'
    BY <1>1, <1>6 DEF SaveTaskIdFails, HistoryTyped
  <2>2. TasksTyped'
    BY <1>1, <1>6 DEF SaveTaskIdFails
  <2> QED BY <1>6, <2>1, <2>2, FaultTyped DEF SaveTaskIdFails
<1>7. CASE PollDone(t) \/ RenderNotify(t)
  BY <1>1, <1>7 DEF PollDone, RenderNotify
<1>8. CASE PollGone(t)
  <2>1. RowsTyped'
    BY <1>8 DEF PollGone, RowsTyped, SceneRow, SceneStatus
  <2>2. HistoryTyped'
    BY <1>1, <1>8 DEF PollGone, HistoryTyped
  <2>3. TasksTyped'
    BY <1>1, <1>8, GotoResumedTyped DEF PollGone, TasksTyped
  <2> QED BY <1>8, <2>1, <2>2, <2>3, FaultTyped DEF PollGone
<1>9. CASE RenderSave(t)
  <2>1. RowsTyped'
    BY <1>9 DEF RenderSave, RowsTyped, SceneRow, SceneStatus
  <2>2. TasksTyped'
    BY <1>1, <1>9 DEF RenderSave
  <2> QED BY <1>9, <2>1, <2>2 DEF RenderSave
<1>10. CASE HeygenPayload(t)
  <2>1. RowsTyped' /\ TasksTyped'
    BY <1>1, <1>10 DEF HeygenPayload, RowsTyped
  <2> QED BY <1>10, <2>1 DEF HeygenPayload
<1> QED BY <1>1, <1>2, <1>3, <1>4, <1>5, <1>6, <1>7, <1>8, <1>9, <1>10, ChargeTypeOK
        DEF RenderStep, RenderFault

LEMMA StateTypeOK ==
  ASSUME TypeOK, NEW t \in TaskIds, t.q = "state", StateStep(t)
  PROVE  TypeOK'
<1> USE TypeParts, KeepsTyped, QueueSteps
<1>1. {"fail", "compose", "refund", "add"} \subseteq TaskPC /\ t.s \in Scenes
  BY TaskShape DEF TaskPC
<1>2. CASE StateCheck(t)
  <2>1. RowsTyped'
    BY <1>1, <1>2 DEF StateCheck, RowsTyped, SceneRow
  <2>2. TasksTyped'
    BY <1>1, <1>2 DEF StateCheck
  <2> QED BY <1>2, <2>1, <2>2 DEF StateCheck
<1>3. CASE StateFail(t) \/ StateCompose(t)
  <2>1. RowsTyped' /\ TasksTyped'
    BY <1>1, <1>3 DEF StateFail, StateCompose, RowsTyped, JobStatus, VideoStatus
  <2> QED BY <1>3, <2>1 DEF StateFail, StateCompose
<1>4. CASE StateRefund(t)
  BY <1>4, ReleaseTyped DEF StateRefund
<1>5. CASE StateAdd(t)
  BY <1>5 DEF StateAdd
<1> QED BY <1>2, <1>3, <1>4, <1>5 DEF StateStep

LEMMA ComposeTypeOK ==
  ASSUME TypeOK, ComposeStep
  PROVE  TypeOK'
<1> USE TypeParts, KeepsTyped, QueueSteps, SingleTasks
<1>1. {"finish", "settle"} \subseteq TaskPC
  BY DEF TaskPC
<1>2. CASE ComposeStart
  BY <1>1, <1>2 DEF ComposeStart
<1>3. CASE ComposeFinish
  <2>1. RowsTyped' /\ TasksTyped'
    BY <1>1, <1>3 DEF ComposeFinish, RowsTyped, JobStatus, VideoStatus
  <2> QED BY <1>3, <2>1 DEF ComposeFinish
<1>4. CASE ComposeSettle
  BY <1>4, ReleaseTyped DEF ComposeSettle
<1> QED BY <1>2, <1>3, <1>4 DEF ComposeStep

LEMMA FailureTypeOK ==
  ASSUME TypeOK,
         \/ HandlerStep \/ (\E f \in failures : HandlerFails(f)) \/ OrchestratorDies
         \/ \E t \in TaskIds : AttemptFails(t)
  PROVE  TypeOK'
<1> USE TypeParts, KeepsTyped
<1>1. ASSUME NEW f \in failures, HandlerMark(f) PROVE TypeOK'
  <2>1. RowsTyped'
    BY <1>1 DEF HandlerMark, RowsTyped, JobStatus, VideoStatus, SceneRow, SceneStatus
  <2>2. TasksTyped'
    BY <1>1 DEF HandlerMark, TasksTyped, FailureEvents
  <2> QED BY <1>1, <2>1, <2>2 DEF HandlerMark
<1>2. ASSUME NEW f \in failures, HandlerRefund(f) PROVE TypeOK'
  <2>1. TasksTyped'
    BY <1>2 DEF HandlerRefund, TasksTyped
  <2> QED BY <1>2, <2>1, ReleaseTyped DEF HandlerRefund
<1>3. ASSUME NEW f \in failures, HandlerFails(f) PROVE TypeOK'
  <2>1. TasksTyped' /\ HistoryTyped'
    BY <1>3 DEF HandlerFails, TasksTyped, HistoryTyped
  <2> QED BY <1>3, <2>1, FaultTyped DEF HandlerFails
<1>4. ASSUME NEW t \in TaskIds, AttemptFails(t) PROVE TypeOK'
  BY <1>4, QueueSteps, FaultTyped DEF AttemptFails
<1>5. CASE OrchestratorDies
  <2>1. UsedTyped'
    <3>1. MaxCrashes \in Nat
      BY PipelineAssumption
    <3> QED BY <1>5, <3>1 DEF OrchestratorDies, UsedTyped
  <2>2. QueueTyped(tasks')
    BY <1>5, StallTyped DEF OrchestratorDies, TasksTyped
  <2>3. failures' \subseteq FailureEvents
    BY <1>5 DEF OrchestratorDies, FailureEvents
  <2>4. ASSUME NEW a \in Assets
        PROVE  Cardinality({t \in TaskIds : At(t, "saveId") /\ AssetOf(t) = a}) \in Nat
    BY AssetTasksFinite
  <2>5. HistoryTyped'
    BY <1>5, <2>4 DEF OrchestratorDies, HistoryTyped
  <2> QED BY <1>5, <2>1, <2>2, <2>3, <2>5 DEF OrchestratorDies, TasksTyped
<1> QED BY <1>1, <1>2, <1>3, <1>4, <1>5 DEF HandlerStep

LEMMA NextTypeOK == TypeOK /\ [Next]_vars => TypeOK'
<1> SUFFICES ASSUME TypeOK, [Next]_vars PROVE TypeOK'
  OBVIOUS
<1>1. ASSUME NEW t \in TaskIds, WorkerStep(t) PROVE TypeOK'
  BY <1>1, PipelineTypeOK, GptTypeOK, ImageTypeOK, RenderTypeOK, StateTypeOK, ComposeTypeOK
     DEF WorkerStep
<1>2. ASSUME NEW t \in TasksOf("runway") \cup TasksOf("heygen"), RenderFault(t) PROVE TypeOK'
  BY <1>2, RenderTypeOK DEF TasksOf
<1>3. CASE UNCHANGED vars
  BY <1>3, TypeParts, KeepsTyped DEF vars
<1> QED BY <1>1, <1>2, <1>3, ApiTypeOK, RequestTypeOK, GptTypeOK, FailureTypeOK DEF Next

(* Every variable keeps its type, for any script, attempts and faults: no   *)
(* worker, request or crash leaves a row or a queue job half written.       *)
THEOREM TypeCorrect == Spec => []TypeOK
BY InitTypeOK, NextTypeOK, PTL DEF Spec

-----------------------------------------------------------------------------
(* One charge and one provider task for each asset, as long as no admin has *)
(* asked for anything.                                                      *)

MediaTasks == {t \in TaskIds : t.q \in MediaQueues}

Present(t) == tasks[t].st # "absent"

(* The asset of t is stored: an attempt that starts now finds it.           *)
Written(t) ==
  CASE t.q = "heygen" -> avatarKey
    [] t.q = "image" /\ IsFrame(t) -> scene[t.s].frame
    [] OTHER -> scene[t.s].url /\ scene[t.s].done

(* The id of the provider task is stored: an attempt that starts resumes it. *)
Stored(t) == scene[StoredOn(t)].ext

Unbilled == {"call", "create", "saveId", "poll", "save", "payload", "charge"}

(* For one queue job of an asset, where it stands against what is stored:   *)
(* charged only after the asset was written, and never again from there on; *)
(* a provider task that is neither stored nor in hand has been lost.        *)
MediaInv(t) ==
  LET a == AssetOf(t) IN
  /\ t.n > 1 => ~Present(t)
  /\ t.n <= 1 =>
       /\ ~Present(t) => billed[a] = 0 /\ paid[a] = 0
       /\ billed[a] <= 1
       /\ ~Written(t) => billed[a] = 0
       /\ \A pc \in Unbilled : At(t, pc) => billed[a] = 0
       /\ At(t, "charge") => Written(t)
       /\ At(t, "payload") => t.q = "heygen"
       /\ t.q # "image" =>
            /\ paid[a] <= lost[a] + 1
            /\ ~Stored(t) /\ ~At(t, "saveId") => paid[a] <= lost[a]
            /\ At(t, "create") => ~Stored(t)

(* The scenes are created once, before the first of their queue jobs.       *)
GptFansOut == At(Gpt, "ready") \/ At(Gpt, "fanout")

FanOutInv ==
  /\ GptFansOut => \A t \in MediaTasks : ~Present(t)
  /\ GptFansOut \/ (\E t \in MediaTasks : Present(t)) =>
       \A s \in Scenes : scene[s].status # "none"

NoRequests == requests = 0 /\ \A a \in Admins : request[a].at = "idle"

(* A request reads the rows and resets them or adds second queue jobs: all  *)
(* of this is said of a job that no admin has touched.                      *)
Once == NoRequests /\ FanOutInv /\ \A t \in MediaTasks : MediaInv(t)

OnceInv == requests = 0 => Once

-----------------------------------------------------------------------------
(* What a step leaves of MediaInv for a queue job that is not its own *)

Spared(t) ==
  /\ \/ tasks'[t] = tasks[t]
     \/ /\ tasks'[t].st \in {"waiting", "completed", "failed"}
        /\ ~At(t, "saveId")
        /\ Present(t) \/ t.n <= 1
  /\ Written(t) => Written(t)'
  /\ t.n <= 1 => /\ t.q # "image" => (Stored(t)' <=> Stored(t))
                 /\ billed'[AssetOf(t)] = billed[AssetOf(t)]
                 /\ paid'[AssetOf(t)] = paid[AssetOf(t)]
                 /\ lost'[AssetOf(t)] = lost[AssetOf(t)]

LEMMA SparedKeeps ==
  ASSUME NEW t \in MediaTasks, MediaInv(t), Spared(t)
  PROVE  MediaInv(t)'
<1> USE DEF Present, At
<1>0. t.n \in Nat
  BY PipelineAssumption DEF MediaTasks, TaskIds, Task, Pipeline, Gpt, Compose, State, Runway
<1>1. CASE t.n > 1
  BY <1>0, <1>1 DEF MediaInv, Spared
<1>2. CASE ~(t.n > 1)
  <2>1. CASE tasks'[t] = tasks[t]
    BY <1>0, <1>2, <2>1 DEF MediaInv, Spared
  <2>2. CASE tasks'[t] # tasks[t]
    BY <1>0, <1>2, <2>2 DEF MediaInv, Spared
  <2> QED BY <2>1, <2>2
<1> QED BY <1>1, <1>2

(* Nothing that is stored is taken back.                                    *)
RowsGrow ==
  /\ avatarKey => avatarKey'
  /\ \A s \in Scenes : /\ scene[s].url => scene'[s].url
                       /\ scene[s].done => scene'[s].done
                       /\ scene[s].frame => scene'[s].frame
                       /\ scene[s].status # "none" => scene'[s].status # "none"

LEMMA WrittenGrows ==
  ASSUME NEW t \in MediaTasks, RowsGrow
  PROVE  Written(t) => Written(t)'
<1>1. t.q = "heygen" \/ t.s \in Scenes
  BY TaskShape DEF MediaTasks, MediaQueues
<1> QED BY <1>1 DEF Written, RowsGrow, IsFrame

LEMMA AssetsDiffer ==
  ASSUME NEW t \in MediaTasks, NEW u \in MediaTasks, t.n <= 1, u.n <= 1, AssetOf(t) = AssetOf(u)
  PROVE  t = u
<1>1. t \in TaskIds /\ u \in TaskIds /\ t.q \in MediaQueues
  BY DEF MediaTasks
<1>2. t.q = u.q /\ t.s = u.s
  BY DEF AssetOf
<1>3. t = Task(t.q, t.s, t.n) /\ u = Task(u.q, u.s, u.n)
  BY <1>1, TaskShape
<1>4. MaxSlots \in Nat
  BY PipelineAssumption
<1>5. CASE t.q = "runway"
  <2>1. t.n = 0 /\ u.n = 0
    BY <1>1, <1>2, <1>5, TaskShape
  <2> QED BY <1>2, <1>3, <2>1
<1>6. CASE t.q \in {"image", "heygen"}
  <2>1. t.n \in 1..MaxSlots /\ u.n \in 1..MaxSlots
    BY <1>1, <1>2, <1>6, TaskShape
  <2>2. t.n = 1 /\ u.n = 1
    BY <1>4, <2>1
  <2> QED BY <1>2, <1>3, <2>2
<1> QED BY <1>1, <1>5, <1>6 DEF MediaQueues

LEMMA PrimaryIsAvatar ==
  ASSUME Avatars # {}
  PROVE  Primary \in Avatars /\ Primary \in Scenes /\ SceneType[Primary] = "avatar"
<1>1. Scenes \subseteq Nat
  BY PipelineAssumption DEF Scenes
<1>2. Avatars \subseteq Scenes
  BY DEF Avatars, OfType
<1>3. PICK s \in Avatars : \A x \in Avatars : ~(<<x, s>> \in OpToRel(<, Nat))
  BY <1>1, <1>2, NatLessThanWellFounded, WFMin
<1>4. ASSUME NEW x \in Avatars PROVE s <= x
  <2>1. s \in Nat /\ x \in Nat
    BY <1>1, <1>2
  <2>2. <<x, s>> \in OpToRel(<, Nat) <=> x < s
    BY <2>1 DEF OpToRel
  <2>3. ~(x < s)
    BY <1>3, <2>2, Zenon
  <2> QED BY <2>1, <2>3
<1>5. Primary \in Avatars
  BY <1>4 DEF Primary
<1> QED BY <1>2, <1>5 DEF Avatars, OfType

-----------------------------------------------------------------------------
(* Steps that are about no queue job of an asset *)

GptElsewhere == tasks'[Gpt] = tasks[Gpt] \/ ~GptFansOut'

MediaKept == \A t \in MediaTasks : tasks'[t] = tasks[t]

OutsideStep ==
  /\ MediaKept /\ GptElsewhere
  /\ UNCHANGED <<billed, paid, lost>>
  /\ RowsGrow
  /\ \A s \in Scenes : scene'[s].ext = scene[s].ext

LEMMA StoredKept ==
  ASSUME NEW t \in MediaTasks, t.q # "image", \A s \in Scenes : scene'[s].ext = scene[s].ext
  PROVE  Stored(t)' <=> Stored(t)
<1>1. StoredOn(t) \in Scenes
  BY TaskShape, PrimaryIsAvatar DEF MediaTasks, MediaQueues, StoredOn
<1> QED BY <1>1 DEF Stored

LEMMA OutsideKeeps ==
  ASSUME Once, OutsideStep, NoRequests'
  PROVE  Once'
<1>1. ASSUME NEW t \in MediaTasks PROVE MediaInv(t)'
  <2>1. Spared(t)
    BY WrittenGrows, StoredKept DEF OutsideStep, MediaKept, Spared
  <2> QED BY <2>1, SparedKeeps DEF Once
<1>2. FanOutInv'
  <2>1. \A t \in MediaTasks : Present(t)' <=> Present(t)
    BY DEF OutsideStep, MediaKept, Present
  <2>2. GptFansOut' => GptFansOut
    BY DEF OutsideStep, GptElsewhere, GptFansOut, At
  <2> QED BY <2>1, <2>2 DEF Once, FanOutInv, OutsideStep, RowsGrow
<1> QED BY <1>1, <1>2 DEF Once

LEMMA UnchangedRowsGrow ==
  /\ UNCHANGED <<scene, avatarKey>> => RowsGrow /\ \A s \in Scenes : scene'[s].ext = scene[s].ext
BY DEF RowsGrow

LEMMA QueueOutside ==
  ASSUME TypeOK, NEW t \in TaskIds, t.q \notin MediaQueues
  PROVE  /\ \A pc \in TaskPC : Step(t, pc) =>
              MediaKept /\ (t # Gpt \/ pc \notin {"ready", "fanout"} => GptElsewhere)
         /\ Return(t) \/ Throw(t) => MediaKept /\ GptElsewhere
         /\ \A ids \in SUBSET (TaskIds \ MediaTasks) :
              ReturnAdding(t, ids) => MediaKept /\ (Gpt \notin ids => GptElsewhere)
<1> USE DEF MediaKept, GptElsewhere, GptFansOut, At
<1>1. QueueTyped(tasks) /\ Gpt \in TaskIds /\ MediaTasks \subseteq TaskIds /\ t \notin MediaTasks
  BY TypeParts, SingleTasks DEF TasksTyped, MediaTasks
<1>2. ASSUME NEW pc \in TaskPC, Step(t, pc)
      PROVE  MediaKept /\ (t # Gpt \/ pc \notin {"ready", "fanout"} => GptElsewhere)
  BY <1>1, <1>2, GotoTyped DEF Step
<1>3. ASSUME Return(t) PROVE MediaKept /\ GptElsewhere
  BY <1>1, <1>3, CompleteTyped DEF Return
<1>4. ASSUME Throw(t) PROVE MediaKept /\ GptElsewhere
  BY <1>1, <1>4, FailAttemptTyped DEF Throw
<1>5. ASSUME NEW ids \in SUBSET (TaskIds \ MediaTasks), ReturnAdding(t, ids)
      PROVE  MediaKept /\ (Gpt \notin ids => GptElsewhere)
  <2>1. QueueTyped(Add(tasks, ids))
        /\ \A x \in TaskIds : x \notin ids => Add(tasks, ids)[x] = tasks[x]
    BY <1>1, AddTyped
  <2>2. tasks'[t].st = "completed" /\ \A x \in TaskIds : x # t => tasks'[x] = Add(tasks, ids)[x]
    BY <1>5, <2>1, CompleteTyped DEF ReturnAdding
  <2> QED BY <1>1, <2>1, <2>2
<1> QED BY <1>2, <1>3, <1>4, <1>5

LEMMA KeptQueueOutside == UNCHANGED tasks => MediaKept /\ GptElsewhere
BY DEF MediaKept, GptElsewhere

LEMMA SingleTasksOutside ==
  /\ {Pipeline.q, Gpt.q, Compose.q} \cap MediaQueues = {}
  /\ {Pipeline, Gpt, Compose} \subseteq TaskIds \ MediaTasks
  /\ Gpt \notin {Pipeline, Compose}
<1>1. Pipeline.q = "pipeline" /\ Gpt.q = "gpt" /\ Compose.q = "compose"
  BY DEF Pipeline, Gpt, Compose, Task
<1> QED BY <1>1, SingleTasks DEF MediaQueues, MediaTasks

LEMMA UntouchedOutside ==
  UNCHANGED <<tasks, scene, avatarKey, billed, paid, lost>> => OutsideStep
BY UnchangedRowsGrow, KeptQueueOutside DEF OutsideStep

LEMMA ApiOutside ==
  ASSUME TypeOK,
         CreateVideoJob \/ CreateStep \/ EnqueueFails
         \/ CancelActive \/ CancelFailed \/ DeleteVideo \/ CancelStep \/ ApiDies
  PROVE  OutsideStep
<1>1. QueueTyped(tasks) /\ MediaTasks \subseteq TaskIds /\ Pipeline \in TaskIds /\ Gpt \in TaskIds
      /\ Pipeline \notin MediaTasks /\ Gpt # Pipeline
  BY TypeParts, SingleTasksOutside DEF TasksTyped, MediaTasks
<1>2. CASE CreateVideoJob
  BY <1>2, UntouchedOutside DEF CreateVideoJob, queue, history
<1>3. CASE EnqueuePipeline
  <2>1. MediaKept /\ GptElsewhere
    BY <1>1, <1>3, AddTyped DEF EnqueuePipeline, MediaKept, GptElsewhere
  <2> QED BY <1>3, <2>1, UnchangedRowsGrow DEF OutsideStep, EnqueuePipeline, rows, account, history
<1>4. CASE EnqueueFails \/ MarkNotEnqueued \/ ReleaseNotEnqueued
  BY <1>4, UntouchedOutside DEF EnqueueFails, MarkNotEnqueued, ReleaseNotEnqueued, ReleaseReserve,
              rows, queue, account, history
<1>5. CASE CancelActive \/ CancelFailed \/ DeleteVideo
  BY <1>5, UntouchedOutside DEF CancelActive, CancelFailed, DeleteVideo, rows, queue, account, history
<1>6. CASE CancelVideo \/ CancelRelease \/ MarkCancelled
  BY <1>6, UntouchedOutside DEF CancelVideo, CancelRelease, MarkCancelled, ReleaseReserve, rows, queue,
                               account, history
<1>7. CASE CancelQueued
  <2>1. MediaKept /\ GptElsewhere
    BY <1>1, <1>7, RemoveTyped DEF CancelQueued, MediaKept, GptElsewhere
  <2> QED BY <1>7, <2>1, UnchangedRowsGrow DEF OutsideStep, CancelQueued, rows, account, history
<1>8. CASE ApiDies
  BY <1>8, UntouchedOutside DEF ApiDies, rows, queue, account
<1> QED BY <1>2, <1>3, <1>4, <1>5, <1>6, <1>7, <1>8 DEF CreateStep, CancelStep

LEMMA PipelineOutside ==
  ASSUME TypeOK, PipelineStep
  PROVE  OutsideStep
<1> USE UnchangedRowsGrow, QueueOutside, SingleTasksOutside DEF OutsideStep
<1>1. {"claim", "video", "enqueue"} \subseteq TaskPC
  BY DEF TaskPC
<1>2. CASE PipelineSkip \/ PipelineStart
  BY <1>1, <1>2 DEF PipelineSkip, PipelineStart, rows, account, history
<1>3. CASE PipelineClaim \/ PipelineVideo
  BY <1>1, <1>3 DEF PipelineClaim, PipelineVideo, account, history
<1>4. CASE PipelineEnqueue
  <2>1. QueueTyped(tasks) /\ MediaTasks \subseteq TaskIds
    BY TypeParts DEF TasksTyped, MediaTasks
  <2>2. QueueTyped(AddOrReplace(tasks, {Gpt}))
        /\ \A x \in TaskIds : x # Gpt => AddOrReplace(tasks, {Gpt})[x] = tasks[x]
    BY <2>1, AddOrReplaceTyped
  <2>3. \/ AddOrReplace(tasks, {Gpt})[Gpt] = tasks[Gpt]
        \/ AddOrReplace(tasks, {Gpt})[Gpt].st = "waiting"
    BY <2>1, AddOrReplaceTyped
  <2>4. \A x \in TaskIds : x # Pipeline => tasks'[x] = AddOrReplace(tasks, {Gpt})[x]
    BY <1>4, <2>2, CompleteTyped DEF PipelineEnqueue
  <2>5. MediaKept /\ GptElsewhere
    BY <2>1, <2>2, <2>3, <2>4 DEF MediaKept, GptElsewhere, GptFansOut, At
  <2> QED BY <1>4, <2>5 DEF PipelineEnqueue, rows, account, history
<1> QED BY <1>2, <1>3, <1>4 DEF PipelineStep

LEMMA StateOutside ==
  ASSUME TypeOK, NEW t \in TaskIds, t.q = "state", StateStep(t)
  PROVE  OutsideStep
<1> USE UnchangedRowsGrow, QueueOutside, SingleTasksOutside DEF OutsideStep
<1>1. {"fail", "compose", "refund", "add"} \subseteq TaskPC /\ t.s \in Scenes /\ t # Gpt
      /\ t.q \notin MediaQueues
  BY TaskShape DEF TaskPC, MediaQueues, Gpt, Task
<1>2. CASE StateCheck(t)
  <2>1. MediaKept /\ GptElsewhere
    BY <1>1, <1>2 DEF StateCheck
  <2>2. scene' = [scene EXCEPT ![t.s].done = TRUE] /\ UNCHANGED <<avatarKey, billed, paid, lost>>
    BY <1>2 DEF StateCheck, account, history
  <2>3. scene \in [Scenes -> SceneRow]
    BY TypeParts DEF RowsTyped
  <2>4. RowsGrow /\ \A s \in Scenes : scene'[s].ext = scene[s].ext
    BY <1>1, <2>2, <2>3 DEF RowsGrow, SceneRow
  <2> QED BY <2>1, <2>2, <2>4
<1>3. CASE StateFail(t) \/ StateCompose(t)
  BY <1>1, <1>3 DEF StateFail, StateCompose, account, history
<1>4. CASE StateRefund(t)
  BY <1>1, <1>4 DEF StateRefund, ReleaseReserve, rows, history
<1>5. CASE StateAdd(t)
  BY <1>1, <1>5 DEF StateAdd, rows, account, history
<1> QED BY <1>2, <1>3, <1>4, <1>5 DEF StateStep

LEMMA ComposeOutside ==
  ASSUME TypeOK, ComposeStep
  PROVE  OutsideStep
<1> USE UnchangedRowsGrow, QueueOutside, SingleTasksOutside DEF OutsideStep
<1>1. {"finish", "settle"} \subseteq TaskPC
  BY DEF TaskPC
<1>2. CASE ComposeStart
  BY <1>1, <1>2 DEF ComposeStart, rows, account, history
<1>3. CASE ComposeFinish
  BY <1>1, <1>3 DEF ComposeFinish, account, history
<1>4. CASE ComposeSettle
  BY <1>1, <1>4 DEF ComposeSettle, ReleaseReserve, rows, history
<1> QED BY <1>2, <1>3, <1>4 DEF ComposeStep

LEMMA HandlerOutside ==
  ASSUME TypeOK, HandlerStep \/ \E f \in failures : HandlerFails(f)
  PROVE  OutsideStep
<1> USE KeptQueueOutside DEF OutsideStep
<1>1. ASSUME NEW f \in failures, HandlerMark(f) PROVE OutsideStep
  <2>1. scene \in [Scenes -> SceneRow]
    BY TypeParts DEF RowsTyped
  <2>2. \A s \in Scenes : scene'[s] = scene[s] \/ scene'[s] = [scene[s] EXCEPT !.status = "failed"]
    BY <1>1 DEF HandlerMark
  <2>3. RowsGrow /\ \A s \in Scenes : scene'[s].ext = scene[s].ext
    BY <1>1, <2>1, <2>2 DEF HandlerMark, RowsGrow, SceneRow
  <2> QED BY <1>1, <2>3 DEF HandlerMark, account, history
<1>2. ASSUME NEW f \in failures, HandlerRefund(f) PROVE OutsideStep
  BY <1>2, UnchangedRowsGrow DEF HandlerRefund, ReleaseReserve, rows, history
<1>3. ASSUME NEW f \in failures, HandlerFails(f) PROVE OutsideStep
  BY <1>3, UnchangedRowsGrow DEF HandlerFails, rows, account
<1> QED BY <1>1, <1>2, <1>3 DEF HandlerStep

(* No admin request starts without being counted, none goes on once idle.   *)
LEMMA StillNoRequests ==
  ASSUME TypeOK, NoRequests, requests' = 0, [Next]_vars
  PROVE  NoRequests'
<1>1. CASE UNCHANGED request
  BY <1>1 DEF NoRequests
<1>2. ASSUME NEW a \in Admins, RetryRead(a) \/ RecomposeRead(a) \/ RequestStep(a) PROVE FALSE
  <2>1. ~RequestStep(a)
    BY DEF NoRequests, RequestStep, RetryReset, RetryEnqueue, RecomposeReset, RecomposeEnqueue
  <2>2. requests' = 1
    BY <1>2, <2>1 DEF NoRequests, RetryRead, RecomposeRead, Read
  <2> QED BY <2>2
<1>3. CASE ApiDies
  BY <1>3 DEF ApiDies, NoRequests, NoRequest
<1>4. CASE CreateVideoJob \/ CreateStep \/ EnqueueFails \/ CancelActive \/ CancelFailed
           \/ DeleteVideo \/ CancelStep
  <2>1. UNCHANGED request
    BY <1>4 DEF CreateVideoJob, CreateStep, EnqueuePipeline, EnqueueFails, MarkNotEnqueued,
       ReleaseNotEnqueued, CancelActive, CancelFailed, DeleteVideo, CancelStep, CancelVideo,
       CancelQueued, CancelRelease, MarkCancelled, api
  <2> QED BY <1>1, <2>1
<1>5. CASE HandlerStep \/ (\E f \in failures : HandlerFails(f)) \/ OrchestratorDies
  <2>1. UNCHANGED request
    BY <1>5 DEF HandlerStep, HandlerMark, HandlerRefund, HandlerFails, OrchestratorDies, api
  <2> QED BY <1>1, <2>1
<1>6. CASE GptFanOutBreaks \/ PipelineStep \/ GptStep \/ ComposeStep
  <2>1. UNCHANGED request
    BY <1>6 DEF GptFanOutBreaks, PipelineStep, PipelineSkip, PipelineStart, PipelineClaim,
       PipelineVideo, PipelineEnqueue, GptStep, GptIdea, GptCharge, GptUsed, GptHook, GptScript,
       GptScenes, GptReady, GptFanOut, ComposeStep, ComposeStart, ComposeFinish, ComposeSettle, api
  <2> QED BY <1>1, <2>1
<1>7. ASSUME NEW t, ImageStep(t) \/ RenderStep(t) \/ StateStep(t) \/ RenderFault(t) \/ AttemptFails(t)
      PROVE  UNCHANGED request
  BY <1>7 DEF ImageStep, ImageStart, ImageCall, ImageSave, Charge, AddCreditsUsed,
       ImageNotify, RenderStep, RenderStart, RenderCreate, SaveTaskId, PollDone, RenderSave,
       HeygenPayload, RenderNotify, RenderFault, CreateRejected, SaveTaskIdFails, PollGone,
       StateStep, StateCheck, StateFail, StateRefund, StateCompose, StateAdd, AttemptFails, api
<1>8. CASE UNCHANGED vars
  BY <1>1, <1>8 DEF vars, api
<1> QED BY <1>1, <1>2, <1>3, <1>4, <1>5, <1>6, <1>7, <1>8 DEF Next, WorkerStep

-----------------------------------------------------------------------------
(* Steps of a queue job of an asset *)

OthersKept(t) ==
  /\ tasks'[Gpt] = tasks[Gpt]
  /\ \A u \in MediaTasks \ {t} :
       \/ tasks'[u] = tasks[u]
       \/ tasks[u].st = "absent" /\ tasks'[u].st = "waiting" /\ u.n <= 1

LEMMA QueueOwn ==
  ASSUME TypeOK, NEW t \in MediaTasks
  PROVE  /\ \A pc \in TaskPC : Step(t, pc) => OthersKept(t) /\ At(t, pc)'
         /\ Return(t) => OthersKept(t) /\ tasks'[t].st = "completed"
         /\ Throw(t) => OthersKept(t) /\ tasks'[t].st \in {"waiting", "failed"}
         /\ \A ids :
              ReturnAdding(t, ids) /\ (\A u \in ids : u # Gpt /\ u.n <= 1)
                => OthersKept(t) /\ tasks'[t].st = "completed"
<1> USE DEF OthersKept, At
<1>1. QueueTyped(tasks) /\ MediaTasks \subseteq TaskIds /\ Gpt \in TaskIds /\ t \in TaskIds /\ Gpt # t
  BY TypeParts, SingleTasksOutside DEF TasksTyped, MediaTasks
<1>2. ASSUME NEW pc \in TaskPC, Step(t, pc) PROVE OthersKept(t) /\ At(t, pc)'
  BY <1>1, <1>2, GotoTyped DEF Step
<1>3. ASSUME Return(t) PROVE OthersKept(t) /\ tasks'[t].st = "completed"
  BY <1>1, <1>3, CompleteTyped DEF Return
<1>4. ASSUME Throw(t) PROVE OthersKept(t) /\ tasks'[t].st \in {"waiting", "failed"}
  BY <1>1, <1>4, FailAttemptTyped DEF Throw
<1>5. ASSUME NEW ids, ReturnAdding(t, ids), \A u \in ids : u # Gpt /\ u.n <= 1
      PROVE  OthersKept(t) /\ tasks'[t].st = "completed"
  <2>1. QueueTyped(Add(tasks, ids))
        /\ \A x \in TaskIds :
             \/ Add(tasks, ids)[x] = tasks[x]
             \/ x \in ids /\ tasks[x].st = "absent" /\ Add(tasks, ids)[x].st = "waiting"
    BY <1>1, AddTyped
  <2>2. tasks'[t].st = "completed" /\ \A x \in TaskIds : x # t => tasks'[x] = Add(tasks, ids)[x]
    BY <1>1, <1>5, <2>1, CompleteTyped DEF ReturnAdding
  <2> QED BY <1>1, <1>5, <2>1, <2>2
<1> QED BY <1>2, <1>3, <1>4, <1>5

(* RenderStart and PollGone also note whether the task at the provider is   *)
(* an earlier attempt's.                                                    *)
LEMMA ResumedOwn ==
  ASSUME TypeOK, NEW t \in MediaTasks, NEW pc \in TaskPC,
         \/ tasks' = [Goto(tasks, t, pc) EXCEPT ![t].resumed = TRUE]
         \/ tasks' = [Goto(tasks, t, pc) EXCEPT ![t].resumed = FALSE]
  PROVE  OthersKept(t) /\ At(t, pc)'
<1>1. QueueTyped(tasks) /\ MediaTasks \subseteq TaskIds /\ Gpt \in TaskIds /\ t \in TaskIds /\ Gpt # t
  BY TypeParts, SingleTasksOutside DEF TasksTyped, MediaTasks
<1> DEFINE G == Goto(tasks, t, pc)
<1>2. /\ QueueTyped(G) /\ G[t].st = "active" /\ G[t].pc = pc
      /\ \A x \in TaskIds : x # t => G[x] = tasks[x]
  BY <1>1, GotoTyped
<1>3. PICK j : /\ j = [G[t] EXCEPT !.resumed = TRUE] \/ j = [G[t] EXCEPT !.resumed = FALSE]
               /\ tasks' = [G EXCEPT ![t] = j]
  OBVIOUS
<1> HIDE DEF G
<1>4. j.st = "active" /\ j.pc = pc
  BY <1>1, <1>2, <1>3 DEF QueueTyped, QueueJob
<1>5. tasks'[t] = j /\ \A x \in TaskIds : x # t => tasks'[x] = tasks[x]
  BY <1>1, <1>2, <1>3 DEF QueueTyped
<1> QED BY <1>1, <1>4, <1>5 DEF At, OthersKept

(* What t did to the others: their rows, their money, their provider tasks. *)
OwnStep(t) ==
  /\ OthersKept(t) /\ RowsGrow
  /\ \A u \in MediaTasks \ {t} : u.n <= 1 /\ u.q # "image" => (Stored(u)' <=> Stored(u))
  /\ \A a \in Assets : a # AssetOf(t) =>
       billed'[a] = billed[a] /\ paid'[a] = paid[a] /\ lost'[a] = lost[a]

LEMMA OwnKeeps ==
  ASSUME Once, NEW t \in MediaTasks, Present(t), OwnStep(t), MediaInv(t)', NoRequests'
  PROVE  Once'
<1>1. t.n \in Nat /\ t.n <= 1
  <2>1. t.n \in Nat
    BY PipelineAssumption DEF MediaTasks, TaskIds, Task, Pipeline, Gpt, Compose, State, Runway
  <2> QED BY <2>1 DEF Once, MediaInv
<1>2. ASSUME NEW u \in MediaTasks, u # t PROVE MediaInv(u)'
  <2>1. u.n <= 1 => AssetOf(u) # AssetOf(t) /\ AssetOf(u) \in Assets
    BY <1>1, <1>2, AssetsDiffer, TaskShape DEF MediaTasks
  <2>2. \/ tasks'[u] = tasks[u]
        \/ tasks[u].st = "absent" /\ tasks'[u].st = "waiting" /\ u.n <= 1
    BY <1>2 DEF OwnStep, OthersKept
  <2>3. Spared(u)
    BY <1>2, <2>1, <2>2, WrittenGrows DEF OwnStep, Spared, At
  <2> QED BY <2>3, SparedKeeps DEF Once
<1>3. FanOutInv'
  <2>1. ~GptFansOut /\ \A s \in Scenes : scene[s].status # "none"
    BY DEF Once, FanOutInv
  <2>2. ~GptFansOut'
    BY <2>1 DEF OwnStep, OthersKept, GptFansOut, At
  <2> QED BY <2>1, <2>2 DEF FanOutInv, OwnStep, RowsGrow
<1> QED BY <1>2, <1>3 DEF Once

(* A step of t that ends its attempt and touches neither rows nor money.    *)
LEMMA OwnEnds ==
  ASSUME Once, NEW t \in MediaTasks, Present(t), ~At(t, "saveId"), OthersKept(t), RowsGrow,
         tasks'[t].st \in {"waiting", "completed", "failed"},
         UNCHANGED <<billed, paid, lost>>,
         \A s \in Scenes : scene'[s].ext = scene[s].ext, NoRequests'
  PROVE  Once'
<1>1. \A u \in MediaTasks : u.q # "image" => (Stored(u)' <=> Stored(u))
  BY StoredKept
<1>2. Spared(t)
  BY <1>1, WrittenGrows DEF Spared
<1>3. MediaInv(t)'
  BY <1>2, SparedKeeps DEF Once
<1>4. OwnStep(t)
  BY <1>1 DEF OwnStep
<1> QED BY <1>3, <1>4, OwnKeeps

(* A step of t that stays in its attempt: what is to be shown of it.        *)
LEMMA OwnMoves ==
  ASSUME NEW t \in MediaTasks, t.n <= 1, NEW pc, At(t, pc)',
         billed'[AssetOf(t)] <= 1,
         ~Written(t)' => billed'[AssetOf(t)] = 0,
         pc \in Unbilled => billed'[AssetOf(t)] = 0,
         pc = "charge" => Written(t)', pc = "payload" => t.q = "heygen",
         t.q # "image" => /\ paid'[AssetOf(t)] <= lost'[AssetOf(t)] + 1
                          /\ ~Stored(t)' /\ pc # "saveId" => paid'[AssetOf(t)] <= lost'[AssetOf(t)]
                          /\ pc = "create" => ~Stored(t)'
  PROVE  MediaInv(t)'
<1>1. t.n \in Nat
  BY PipelineAssumption DEF MediaTasks, TaskIds, Task, Pipeline, Gpt, Compose, State, Runway
<1> QED BY <1>1 DEF MediaInv, At, Present

LEMMA NotifiedJobs ==
  ASSUME NEW s
  PROVE  State(s) # Gpt /\ State(s).n <= 1 /\ Runway(s) # Gpt /\ Runway(s).n <= 1
BY DEF State, Runway, Gpt, Task

LEMMA OwnFacts ==
  ASSUME TypeOK, Once, NEW t \in MediaTasks, Present(t)
  PROVE  LET a == AssetOf(t) IN
         /\ t \in TaskIds /\ t.n <= 1 /\ a \in Assets
         /\ billed \in [Assets -> Nat] /\ paid \in [Assets -> Nat] /\ lost \in [Assets -> Nat]
         /\ scene \in [Scenes -> SceneRow]
         /\ billed[a] <= 1
         /\ ~Written(t) => billed[a] = 0
         /\ \A pc \in Unbilled : At(t, pc) => billed[a] = 0
         /\ At(t, "charge") => Written(t)
         /\ At(t, "payload") => t.q = "heygen"
         /\ t.q # "image" =>
              /\ paid[a] <= lost[a] + 1
              /\ ~Stored(t) /\ ~At(t, "saveId") => paid[a] <= lost[a]
              /\ At(t, "create") => ~Stored(t)
<1>1. t \in TaskIds /\ AssetOf(t) \in Assets /\ t.n \in Nat
  BY TaskShape, PipelineAssumption
     DEF MediaTasks, TaskIds, Task, Pipeline, Gpt, Compose, State, Runway
<1>2. MediaInv(t) /\ t.n <= 1
  BY <1>1 DEF Once, MediaInv
<1>3. /\ billed \in [Assets -> Nat] /\ paid \in [Assets -> Nat] /\ lost \in [Assets -> Nat]
      /\ scene \in [Scenes -> SceneRow]
  BY TypeParts DEF RowsTyped, AccountTyped, HistoryTyped
<1> QED BY <1>1, <1>2, <1>3 DEF MediaInv

LEMMA ChargeOnce ==
  ASSUME TypeOK, Once, NoRequests', NEW t \in MediaTasks, Charge(t) \/ AddCreditsUsed(t)
  PROVE  Once'
<1>1. /\ Present(t) /\ ~At(t, "saveId")
      /\ {"used", "notify"} \subseteq TaskPC \ Unbilled
  BY DEF Charge, AddCreditsUsed, At, Present, TaskPC, Unbilled
<1>2. UNCHANGED <<scene, avatarKey, paid, lost>> /\ RowsGrow
  BY DEF Charge, AddCreditsUsed, rows, history, RowsGrow
<1>3. (Written(t)' <=> Written(t)) /\ \A u \in MediaTasks : (Stored(u)' <=> Stored(u))
  BY <1>2 DEF Written, Stored
<1>4. ASSUME NEW pc \in {"used", "notify"}, Step(t, pc), billed'[AssetOf(t)] <= 1,
             ~Written(t) => billed'[AssetOf(t)] = 0,
             \A a \in Assets : a # AssetOf(t) => billed'[a] = billed[a]
      PROVE  Once'
  <2>1. OthersKept(t) /\ At(t, pc)'
    BY <1>1, <1>4, QueueOwn
  <2>2. OwnStep(t)
    BY <1>2, <1>3, <1>4, <2>1 DEF OwnStep
  <2>3. MediaInv(t)'
    BY <1>1, <1>2, <1>3, <1>4, <2>1, OwnFacts, OwnMoves
  <2> QED BY <1>1, <2>2, <2>3, OwnKeeps
<1>5. CASE Charge(t) /\ Step(t, "used")
  <2>1. Written(t) /\ billed[AssetOf(t)] = 0 /\ AssetOf(t) \in Assets /\ billed \in [Assets -> Nat]
    BY <1>1, <1>5, OwnFacts DEF Charge, Unbilled
  <2>2. billed' = [billed EXCEPT ![AssetOf(t)] = @ + 1] \/ billed' = billed
    BY <1>5 DEF Charge, account
  <2> QED BY <1>4, <1>5, <2>1, <2>2
<1>6. CASE AddCreditsUsed(t)
  <2>1. billed' = billed /\ Step(t, "notify")
    BY <1>6 DEF AddCreditsUsed
  <2> QED BY <1>1, <1>4, <2>1, OwnFacts
<1>7. CASE Charge(t) /\ ~Step(t, "used")
  <2>1. Throw(t) /\ UNCHANGED billed
    BY <1>7 DEF Charge, account
  <2>2. OthersKept(t) /\ tasks'[t].st \in {"waiting", "failed"}
    BY <2>1, QueueOwn
  <2> QED BY <1>1, <1>2, <2>1, <2>2, OwnEnds
<1> QED BY <1>5, <1>6, <1>7

LEMMA ImageOnce ==
  ASSUME TypeOK, Once, NoRequests', NEW t \in MediaTasks, t.q = "image", ImageStep(t)
  PROVE  Once'
<1>1. {"call", "save", "charge"} \subseteq TaskPC /\ t.s \in Scenes
  BY TaskShape DEF TaskPC, MediaTasks
<1>2. \A s : State(s) # Gpt /\ State(s).n <= 1 /\ Runway(s) # Gpt /\ Runway(s).n <= 1
  BY NotifiedJobs
<1>3. CASE ImageStart(t)
  <2>1. Present(t) /\ ~At(t, "saveId") /\ UNCHANGED <<avatarKey, billed, paid, lost>>
    BY <1>3 DEF ImageStart, Waiting, Present, At, account, history
  <2>2. CASE Return(t) /\ UNCHANGED scene
    <3>1. OthersKept(t) /\ tasks'[t].st = "completed"
      BY <2>2, QueueOwn
    <3> QED BY <2>1, <2>2, <3>1, UnchangedRowsGrow, OwnEnds
  <2>3. CASE (ReturnAdding(t, {State(t.s)}) \/ ReturnAdding(t, {Runway(t.s)})) /\ UNCHANGED scene
    <3>1. OthersKept(t) /\ tasks'[t].st = "completed"
      BY <1>2, <2>3, QueueOwn
    <3> QED BY <2>1, <2>3, <3>1, UnchangedRowsGrow, OwnEnds
  <2>4. CASE /\ ~(scene[t.s].url /\ scene[t.s].done) /\ ~(IsFrame(t) /\ scene[t.s].frame)
             /\ scene' = [scene EXCEPT ![t.s].status = "processing"] /\ Step(t, "call")
    <3>1. ~Written(t) /\ billed[AssetOf(t)] = 0
      BY <1>3, <2>1, <2>4, OwnFacts DEF Written
    <3>2. scene \in [Scenes -> SceneRow]
      BY <2>1, OwnFacts
    <3>3. RowsGrow /\ \A s \in Scenes : scene'[s].ext = scene[s].ext
      BY <1>1, <2>1, <2>4, <3>2 DEF RowsGrow, SceneRow
    <3>4. OthersKept(t) /\ At(t, "call")'
      BY <1>1, <2>4, QueueOwn
    <3>5. OwnStep(t)
      BY <2>1, <3>3, <3>4, StoredKept DEF OwnStep
    <3>6. t.n <= 1
      BY <2>1, OwnFacts
    <3>7. MediaInv(t)'
      BY <2>1, <3>1, <3>4, <3>6, OwnMoves
    <3> QED BY <2>1, <3>5, <3>7, OwnKeeps
  <2> QED BY <1>3, <2>2, <2>3, <2>4 DEF ImageStart
<1>4. CASE ImageCall(t)
  <2>1. Present(t) /\ ~At(t, "saveId") /\ UNCHANGED <<scene, avatarKey, billed, lost>> /\ At(t, "call")
    BY <1>4 DEF ImageCall, Present, At, rows, account
  <2>2. CASE Return(t) /\ UNCHANGED paid
    <3>1. OthersKept(t) /\ tasks'[t].st = "completed"
      BY <2>2, QueueOwn
    <3> QED BY <2>1, <2>2, <3>1, UnchangedRowsGrow, OwnEnds
  <2>3. CASE Step(t, "save") /\ paid' = [paid EXCEPT ![AssetOf(t)] = @ + 1]
    <3>1. OthersKept(t) /\ At(t, "save")'
      BY <1>1, <2>3, QueueOwn
    <3>2. OwnStep(t)
      BY <2>1, <2>3, <3>1, StoredKept, UnchangedRowsGrow, OwnFacts DEF OwnStep
    <3>3. t.n <= 1 /\ billed[AssetOf(t)] = 0
      BY <2>1, OwnFacts DEF Unbilled
    <3>4. MediaInv(t)'
      BY <2>1, <3>1, <3>3, OwnMoves
    <3> QED BY <2>1, <3>2, <3>4, OwnKeeps
  <2> QED BY <1>4, <2>2, <2>3 DEF ImageCall
<1>5. CASE ImageSave(t)
  <2>1. Present(t) /\ At(t, "save") /\ UNCHANGED <<avatarKey, billed, paid, lost>> /\ Step(t, "charge")
    BY <1>5 DEF ImageSave, Present, At, account, history
  <2>2. scene \in [Scenes -> SceneRow] /\ t.n <= 1 /\ billed[AssetOf(t)] = 0
    BY <2>1, OwnFacts DEF Unbilled
  <2>3. RowsGrow /\ \A s \in Scenes : scene'[s].ext = scene[s].ext
    BY <1>1, <1>5, <2>1, <2>2 DEF ImageSave, RowsGrow, SceneRow
  <2>4. Written(t)'
    BY <1>1, <1>5, <2>2 DEF ImageSave, Written, SceneRow, IsFrame
  <2>5. OthersKept(t) /\ At(t, "charge")'
    BY <1>1, <2>1, QueueOwn
  <2>6. OwnStep(t)
    BY <2>1, <2>3, <2>5, StoredKept DEF OwnStep
  <2>7. MediaInv(t)'
    BY <1>5, <2>1, <2>2, <2>4, <2>5, OwnMoves
  <2> QED BY <2>1, <2>6, <2>7, OwnKeeps
<1>6. CASE ImageNotify(t)
  <2>1. Present(t) /\ ~At(t, "saveId") /\ UNCHANGED <<scene, avatarKey, billed, paid, lost>>
    BY <1>6 DEF ImageNotify, Present, At, rows, account, history
  <2>2. OthersKept(t) /\ tasks'[t].st = "completed"
    BY <1>2, <1>6, QueueOwn DEF ImageNotify
  <2> QED BY <2>1, <2>2, UnchangedRowsGrow, OwnEnds
<1> QED BY <1>3, <1>4, <1>5, <1>6, ChargeOnce DEF ImageStep

(* The rows a render job writes: its scene, or the avatar scenes; StoredOn  *)
(* is one of them, and no other render job's.                               *)
LEMMA RenderRows ==
  ASSUME NEW t \in MediaTasks, t.q \in {"runway", "heygen"}, t.n <= 1
  PROVE  /\ StoredOn(t) \in RenderScenes(t) /\ RenderScenes(t) \subseteq Scenes
         /\ \A u \in MediaTasks \ {t} :
              u.n <= 1 /\ u.q # "image" => StoredOn(u) \in Scenes \ RenderScenes(t)
<1>1. t \in TaskIds
  BY DEF MediaTasks
<1>2. Avatars \subseteq Scenes /\ \A s \in Avatars : SceneType[s] = "avatar"
  BY DEF Avatars, OfType
<1>3. StoredOn(t) \in RenderScenes(t) /\ RenderScenes(t) \subseteq Scenes
  BY <1>1, <1>2, TaskShape, PrimaryIsAvatar DEF StoredOn, RenderScenes
<1>4. ASSUME NEW u \in MediaTasks, u # t, u.n <= 1, u.q # "image"
      PROVE  StoredOn(u) \in Scenes \ RenderScenes(t)
  <2>1. u \in TaskIds /\ u.q \in {"runway", "heygen"}
    BY <1>4 DEF MediaTasks, MediaQueues
  <2>2. AssetOf(u) # AssetOf(t)
    BY <1>4, AssetsDiffer
  <2>3. CASE u.q = "runway" /\ t.q = "runway"
    <3>1. u.s # t.s
      BY <2>2, <2>3 DEF AssetOf
    <3> QED BY <2>1, <2>3, <3>1, TaskShape DEF StoredOn, RenderScenes
  <2>4. CASE u.q = "runway" /\ t.q = "heygen"
    BY <1>2, <2>1, <2>4, TaskShape DEF StoredOn, RenderScenes
  <2>5. CASE u.q = "heygen" /\ t.q = "runway"
    <3>1. Avatars # {}
      BY <2>1, <2>5, TaskShape
    <3> QED BY <1>1, <2>5, <3>1, TaskShape, PrimaryIsAvatar DEF StoredOn, RenderScenes
  <2>6. CASE u.q = "heygen" /\ t.q = "heygen"
    BY <1>1, <2>1, <2>2, <2>6, TaskShape DEF AssetOf
  <2> QED BY <2>1, <2>3, <2>4, <2>5, <2>6
<1> QED BY <1>3, <1>4

(* The ids of the others stay when only the rows of t are written.          *)
LEMMA OthersStored ==
  ASSUME NEW t \in MediaTasks, t.q \in {"runway", "heygen"}, t.n <= 1,
         \A s \in Scenes \ RenderScenes(t) : scene'[s] = scene[s]
  PROVE  \A u \in MediaTasks \ {t} : u.n <= 1 /\ u.q # "image" => (Stored(u)' <=> Stored(u))
BY RenderRows DEF Stored

(* A render job goes on within its attempt.                                 *)
LEMMA RenderMoves ==
  ASSUME TypeOK, Once, NoRequests', NEW t \in MediaTasks, t.q \in {"runway", "heygen"}, Present(t),
         OthersKept(t), NEW pc \in Unbilled, At(t, pc)', RowsGrow,
         \A s \in Scenes \ RenderScenes(t) : scene'[s] = scene[s],
         UNCHANGED billed, billed[AssetOf(t)] = 0,
         \A a \in Assets : a # AssetOf(t) => paid'[a] = paid[a] /\ lost'[a] = lost[a],
         pc = "charge" => Written(t)', pc = "payload" => t.q = "heygen",
         paid'[AssetOf(t)] <= lost'[AssetOf(t)] + 1,
         ~Stored(t)' /\ pc # "saveId" => paid'[AssetOf(t)] <= lost'[AssetOf(t)],
         pc = "create" => ~Stored(t)'
  PROVE  Once'
<1>1. t.n <= 1
  BY OwnFacts
<1>2. MediaInv(t)'
  BY <1>1, OwnMoves
<1>3. OwnStep(t)
  BY <1>1, OthersStored DEF OwnStep
<1> QED BY <1>2, <1>3, OwnKeeps

LEMMA RenderStartOnce ==
  ASSUME TypeOK, Once, NoRequests', NEW t \in MediaTasks, t.q \in {"runway", "heygen"}, RenderStart(t)
  PROVE  Once'
<1>1. {"poll", "create"} \subseteq TaskPC \cap Unbilled
  BY DEF TaskPC, Unbilled
<1>2. Present(t) /\ ~At(t, "saveId") /\ UNCHANGED <<avatarKey, billed, paid, lost>>
  BY DEF RenderStart, Waiting, Present, At, account, history
<1>3. CASE Return(t) /\ UNCHANGED scene
  <2>1. OthersKept(t) /\ tasks'[t].st = "completed"
    BY <1>3, QueueOwn
  <2> QED BY <1>2, <1>3, <2>1, UnchangedRowsGrow, OwnEnds
<1>4. CASE /\ scene' = [s \in Scenes |->
                          IF s \in RenderScenes(t) /\ ~scene[s].done
                          THEN [scene[s] EXCEPT !.url = TRUE, !.done = TRUE, !.status = "completed"]
                          ELSE scene[s]]
           /\ ReturnAdding(t, {State(s) : s \in RenderScenes(t)})
  <2>1. OthersKept(t) /\ tasks'[t].st = "completed"
    <3>1. \A u \in {State(s) : s \in RenderScenes(t)} : u # Gpt /\ u.n <= 1
      BY NotifiedJobs
    <3> QED BY <1>4, <3>1, QueueOwn
  <2>2. scene \in [Scenes -> SceneRow]
    BY <1>2, OwnFacts
  <2>3. ASSUME NEW s \in Scenes
        PROVE  /\ scene[s].url => scene'[s].url
               /\ scene[s].done => scene'[s].done
               /\ scene[s].frame => scene'[s].frame
               /\ scene[s].status # "none" => scene'[s].status # "none"
               /\ scene'[s].ext = scene[s].ext
    <3>1. scene[s] \in SceneRow
      BY <2>2
    <3> QED BY <1>4, <3>1 DEF SceneRow
  <2>4. RowsGrow /\ \A s \in Scenes : scene'[s].ext = scene[s].ext
    BY <1>2, <2>3 DEF RowsGrow
  <2> QED BY <1>2, <2>1, <2>4, OwnEnds
<1>5. ASSUME UNCHANGED scene, ~Rendered(t), NEW pc \in {"poll", "create"}, OthersKept(t),
             At(t, pc)', Stored(t) <=> pc = "poll"
      PROVE  Once'
  <2>1. ~Written(t)
    BY <1>5 DEF Rendered, Written
  <2>2. RowsGrow /\ (Stored(t)' <=> Stored(t))
    BY <1>2, <1>5, UnchangedRowsGrow DEF Stored
  <2>3. /\ billed[AssetOf(t)] = 0 /\ paid[AssetOf(t)] <= lost[AssetOf(t)] + 1
        /\ ~Stored(t) => paid[AssetOf(t)] <= lost[AssetOf(t)]
    BY <1>2, <2>1, OwnFacts
  <2>4. pc \in Unbilled /\ pc \notin {"charge", "payload", "saveId"}
    BY <1>1, <1>5
  <2>5. pc = "create" => ~Stored(t)'
    BY <1>5, <2>2
  <2>6. /\ paid'[AssetOf(t)] <= lost'[AssetOf(t)] + 1
        /\ ~Stored(t)' => paid'[AssetOf(t)] <= lost'[AssetOf(t)]
        /\ \A a \in Assets : paid'[a] = paid[a] /\ lost'[a] = lost[a]
        /\ \A s \in Scenes \ RenderScenes(t) : scene'[s] = scene[s]
    BY <1>2, <1>5, <2>2, <2>3
  <2> QED BY <1>2, <1>5, <2>2, <2>3, <2>4, <2>5, <2>6, RenderMoves
<1>6. CASE /\ ~Rendered(t) /\ scene[StoredOn(t)].ext
           /\ tasks' = [Goto(tasks, t, "poll") EXCEPT ![t].resumed = TRUE]
           /\ UNCHANGED <<scene, failures>>
  <2>1. "poll" \in TaskPC /\ tasks' = [Goto(tasks, t, "poll") EXCEPT ![t].resumed = TRUE]
    BY <1>1, <1>6
  <2>2. At(t, "poll")' /\ OthersKept(t)
    BY <2>1, ResumedOwn
  <2> QED BY <1>5, <1>6, <2>2 DEF Stored
<1>7. CASE ~Rendered(t) /\ ~scene[StoredOn(t)].ext /\ Step(t, "create") /\ UNCHANGED scene
  <2>1. At(t, "create")' /\ OthersKept(t)
    BY <1>1, <1>7, QueueOwn
  <2> QED BY <1>5, <1>7, <2>1 DEF Stored
<1> QED BY <1>3, <1>4, <1>6, <1>7 DEF RenderStart

LEMMA RenderCreateOnce ==
  ASSUME TypeOK, Once, NoRequests', NEW t \in MediaTasks, t.q \in {"runway", "heygen"},
         RenderCreate(t) \/ CreateRejected(t)
  PROVE  Once'
<1>1. /\ Present(t) /\ At(t, "create") /\ ~At(t, "saveId")
      /\ UNCHANGED <<scene, avatarKey, billed, lost>>
      /\ {"create", "saveId"} \subseteq Unbilled /\ "saveId" \in TaskPC
  BY DEF RenderCreate, CreateRejected, At, Present, rows, account, history, Unbilled, TaskPC
<1>2. CASE Return(t) /\ UNCHANGED paid
  <2>1. OthersKept(t) /\ tasks'[t].st = "completed"
    BY <1>2, QueueOwn
  <2> QED BY <1>1, <1>2, <2>1, UnchangedRowsGrow, OwnEnds
<1>3. CASE Step(t, "saveId") /\ paid' = [paid EXCEPT ![AssetOf(t)] = @ + 1]
  <2>1. OthersKept(t) /\ At(t, "saveId")'
    BY <1>1, <1>3, QueueOwn
  <2>2. /\ AssetOf(t) \in Assets /\ paid \in [Assets -> Nat] /\ lost \in [Assets -> Nat]
        /\ billed[AssetOf(t)] = 0 /\ paid[AssetOf(t)] <= lost[AssetOf(t)]
    BY <1>1, OwnFacts
  <2>3. /\ paid'[AssetOf(t)] <= lost'[AssetOf(t)] + 1
        /\ \A a \in Assets : a # AssetOf(t) => paid'[a] = paid[a] /\ lost'[a] = lost[a]
        /\ \A s \in Scenes \ RenderScenes(t) : scene'[s] = scene[s]
    BY <1>1, <1>3, <2>2
  <2>4. RowsGrow
    BY <1>1, UnchangedRowsGrow
  <2> QED BY <1>1, <2>1, <2>2, <2>3, <2>4, RenderMoves
<1>4. CASE CreateRejected(t)
  <2>1. QueueTyped(tasks) /\ MediaTasks \subseteq TaskIds /\ Gpt \in TaskIds /\ t \in TaskIds /\ Gpt # t
    BY TypeParts, SingleTasksOutside DEF TasksTyped, MediaTasks
  <2>2. OthersKept(t) /\ tasks'[t].st = "failed"
    BY <1>4, <2>1, FailForGoodTyped DEF CreateRejected, OthersKept
  <2>3. UNCHANGED paid
    BY <1>4 DEF CreateRejected, history
  <2> QED BY <1>1, <2>2, <2>3, UnchangedRowsGrow, OwnEnds
<1> QED BY <1>2, <1>3, <1>4 DEF RenderCreate

LEMMA SaveTaskIdOnce ==
  ASSUME TypeOK, Once, NoRequests', NEW t \in MediaTasks, t.q \in {"runway", "heygen"},
         SaveTaskId(t) \/ SaveTaskIdFails(t)
  PROVE  Once'
<1>1. /\ Present(t) /\ At(t, "saveId") /\ Step(t, "poll")
      /\ UNCHANGED <<avatarKey, billed, paid>>
      /\ "poll" \in TaskPC \cap Unbilled /\ "saveId" \in Unbilled
  BY DEF SaveTaskId, SaveTaskIdFails, At, Present, rows, account, history, Unbilled, TaskPC
<1>2. OthersKept(t) /\ At(t, "poll")'
  BY <1>1, QueueOwn
<1>3. /\ AssetOf(t) \in Assets /\ paid \in [Assets -> Nat] /\ lost \in [Assets -> Nat] /\ t.n <= 1
      /\ billed[AssetOf(t)] = 0 /\ paid[AssetOf(t)] <= lost[AssetOf(t)] + 1
      /\ scene \in [Scenes -> SceneRow]
  BY <1>1, OwnFacts
<1>4. CASE SaveTaskId(t)
  <2>1. \A s \in Scenes : scene'[s] = IF s \notin RenderScenes(t) THEN scene[s]
                                      ELSE [scene[s] EXCEPT !.ext = TRUE,
                                              !.status = IF t.q = "runway" THEN "processing" ELSE @]
    BY <1>4 DEF SaveTaskId
  <2>2. \A s \in Scenes : /\ scene[s].url => scene'[s].url
                          /\ scene[s].done => scene'[s].done
                          /\ scene[s].frame => scene'[s].frame
                          /\ scene[s].status # "none" => scene'[s].status # "none"
                          /\ s \in RenderScenes(t) => scene'[s].ext
    BY <1>3, <2>1 DEF SceneRow
  <2>3. RowsGrow /\ Stored(t)'
    BY <1>1, <1>3, <2>2, RenderRows DEF RowsGrow, Stored
  <2>4. \A s \in Scenes \ RenderScenes(t) : scene'[s] = scene[s]
    BY <2>1
  <2>5. lost' = lost
    BY <1>4 DEF SaveTaskId, history
  <2> QED BY <1>1, <1>2, <1>3, <2>3, <2>4, <2>5, RenderMoves
<1>5. CASE SaveTaskIdFails(t)
  <2>1. lost' = [lost EXCEPT ![AssetOf(t)] = @ + 1] /\ scene' = scene
    BY <1>5 DEF SaveTaskIdFails, rows
  <2>2. /\ lost'[AssetOf(t)] = lost[AssetOf(t)] + 1
        /\ \A a \in Assets : a # AssetOf(t) => paid'[a] = paid[a] /\ lost'[a] = lost[a]
        /\ \A s \in Scenes \ RenderScenes(t) : scene'[s] = scene[s]
    BY <1>1, <1>3, <2>1
  <2>3. /\ paid'[AssetOf(t)] <= lost'[AssetOf(t)]
        /\ paid'[AssetOf(t)] <= lost'[AssetOf(t)] + 1
    BY <1>1, <1>3, <2>2
  <2>4. RowsGrow
    BY <1>1, <2>1, UnchangedRowsGrow
  <2> QED BY <1>1, <1>2, <1>3, <2>2, <2>3, <2>4, RenderMoves
<1> QED BY <1>4, <1>5

LEMMA PollOnce ==
  ASSUME TypeOK, Once, NoRequests', NEW t \in MediaTasks, t.q \in {"runway", "heygen"},
         PollDone(t) \/ PollGone(t)
  PROVE  Once'
<1>1. /\ Present(t) /\ At(t, "poll") /\ ~At(t, "saveId")
      /\ UNCHANGED <<avatarKey, billed, paid>>
      /\ {"poll", "save", "create"} \subseteq TaskPC \cap Unbilled
  BY DEF PollDone, PollGone, At, Present, rows, account, history, Unbilled, TaskPC
<1>2. /\ AssetOf(t) \in Assets /\ paid \in [Assets -> Nat] /\ lost \in [Assets -> Nat] /\ t.n <= 1
      /\ billed[AssetOf(t)] = 0 /\ paid[AssetOf(t)] <= lost[AssetOf(t)] + 1
      /\ ~Stored(t) => paid[AssetOf(t)] <= lost[AssetOf(t)]
      /\ scene \in [Scenes -> SceneRow]
  BY <1>1, OwnFacts
<1>3. CASE PollDone(t)
  <2>1. scene' = scene /\ lost' = lost /\ Step(t, "save")
    BY <1>3 DEF PollDone, rows, history
  <2>2. OthersKept(t) /\ At(t, "save")'
    BY <1>1, <2>1, QueueOwn
  <2>3. RowsGrow /\ (Stored(t)' <=> Stored(t))
    BY <1>1, <2>1, UnchangedRowsGrow DEF Stored
  <2> QED BY <1>1, <1>2, <2>1, <2>2, <2>3, RenderMoves
<1>4. CASE PollGone(t)
  <2>1. /\ lost' = [lost EXCEPT ![AssetOf(t)] = @ + 1]
        /\ tasks' = [Goto(tasks, t, "create") EXCEPT ![t].resumed = FALSE]
        /\ \A s \in Scenes : scene'[s] = IF s \in RenderScenes(t) THEN [scene[s] EXCEPT !.ext = FALSE]
                                         ELSE scene[s]
    BY <1>4 DEF PollGone
  <2>2. OthersKept(t) /\ At(t, "create")'
    BY <1>1, <2>1, ResumedOwn
  <2>3. \A s \in Scenes : /\ scene[s].url => scene'[s].url
                          /\ scene[s].done => scene'[s].done
                          /\ scene[s].frame => scene'[s].frame
                          /\ scene[s].status # "none" => scene'[s].status # "none"
                          /\ s \in RenderScenes(t) => ~scene'[s].ext
    BY <1>2, <2>1 DEF SceneRow
  <2>4. RowsGrow /\ ~Stored(t)'
    BY <1>1, <1>2, <2>3, RenderRows DEF RowsGrow, Stored
  <2>5. /\ lost'[AssetOf(t)] = lost[AssetOf(t)] + 1
        /\ \A a \in Assets : a # AssetOf(t) => paid'[a] = paid[a] /\ lost'[a] = lost[a]
        /\ \A s \in Scenes \ RenderScenes(t) : scene'[s] = scene[s]
    BY <1>1, <1>2, <2>1
  <2>6. /\ paid'[AssetOf(t)] <= lost'[AssetOf(t)]
        /\ paid'[AssetOf(t)] <= lost'[AssetOf(t)] + 1
    BY <1>1, <1>2, <2>5
  <2> QED BY <1>1, <1>2, <2>2, <2>4, <2>5, <2>6, RenderMoves
<1> QED BY <1>3, <1>4

LEMMA RenderSaveOnce ==
  ASSUME TypeOK, Once, NoRequests', NEW t \in MediaTasks, t.q \in {"runway", "heygen"},
         RenderSave(t) \/ HeygenPayload(t)
  PROVE  Once'
<1>1. /\ Present(t) /\ ~At(t, "saveId") /\ UNCHANGED <<billed, paid, lost>>
      /\ At(t, "save") \/ At(t, "payload")
      /\ {"save", "payload", "charge"} \subseteq TaskPC \cap Unbilled
  BY DEF RenderSave, HeygenPayload, At, Present, rows, account, history, Unbilled, TaskPC
<1>2. /\ AssetOf(t) \in Assets /\ t.n <= 1 /\ billed[AssetOf(t)] = 0
      /\ paid[AssetOf(t)] <= lost[AssetOf(t)] + 1
      /\ ~Stored(t) => paid[AssetOf(t)] <= lost[AssetOf(t)]
      /\ At(t, "payload") => t.q = "heygen"
      /\ scene \in [Scenes -> SceneRow] /\ t \in TaskIds
  BY <1>1, OwnFacts
<1>3. CASE RenderSave(t)
  <2>1. /\ UNCHANGED avatarKey /\ Step(t, IF t.q = "heygen" THEN "payload" ELSE "charge")
        /\ \A s \in Scenes : scene'[s] = IF s \in RenderScenes(t)
                                THEN [scene[s] EXCEPT !.url = TRUE, !.done = TRUE, !.status = "completed"]
                                ELSE scene[s]
    BY <1>3 DEF RenderSave
  <2>2. \A s \in Scenes : /\ scene[s].url => scene'[s].url
                          /\ scene[s].done => scene'[s].done
                          /\ scene[s].frame => scene'[s].frame
                          /\ scene[s].status # "none" => scene'[s].status # "none"
                          /\ scene'[s].ext = scene[s].ext
                          /\ s \in RenderScenes(t) => scene'[s].url /\ scene'[s].done
    BY <1>2, <2>1 DEF SceneRow
  <2>3. RowsGrow /\ (Stored(t)' <=> Stored(t))
    BY <2>1, <2>2, StoredKept DEF RowsGrow
  <2>4. \A s \in Scenes \ RenderScenes(t) : scene'[s] = scene[s]
    BY <2>1
  <2>5. CASE t.q = "heygen"
    <3>1. OthersKept(t) /\ At(t, "payload")'
      BY <1>1, <2>1, <2>5, QueueOwn
    <3> QED BY <1>1, <1>2, <2>3, <2>4, <2>5, <3>1, RenderMoves
  <2>6. CASE t.q = "runway"
    <3>1. OthersKept(t) /\ At(t, "charge")'
      BY <1>1, <2>1, <2>6, QueueOwn
    <3>2. Written(t)'
      BY <1>2, <2>2, <2>6, TaskShape DEF Written, RenderScenes
    <3> QED BY <1>1, <1>2, <2>3, <2>4, <3>1, <3>2, RenderMoves
  <2> QED BY <2>5, <2>6
<1>4. CASE HeygenPayload(t)
  <2>1. avatarKey' = TRUE /\ scene' = scene /\ Step(t, "charge") /\ t.q = "heygen"
    BY <1>2, <1>4 DEF HeygenPayload
  <2>2. OthersKept(t) /\ At(t, "charge")'
    BY <1>1, <2>1, QueueOwn
  <2>3. Written(t)' /\ RowsGrow /\ (Stored(t)' <=> Stored(t))
    BY <2>1 DEF Written, RowsGrow, Stored
  <2> QED BY <1>1, <1>2, <2>1, <2>2, <2>3, RenderMoves
<1> QED BY <1>3, <1>4

LEMMA RenderOnce ==
  ASSUME TypeOK, Once, NoRequests', NEW t \in MediaTasks, t.q \in {"runway", "heygen"},
         RenderStep(t) \/ RenderFault(t)
  PROVE  Once'
<1>1. CASE RenderNotify(t)
  <2>1. Present(t) /\ ~At(t, "saveId") /\ UNCHANGED <<scene, avatarKey, billed, paid, lost>>
    BY <1>1 DEF RenderNotify, Present, At, rows, account, history
  <2>2. \A u \in {State(s) : s \in RenderScenes(t)} : u # Gpt /\ u.n <= 1
    BY NotifiedJobs
  <2>3. OthersKept(t) /\ tasks'[t].st = "completed"
    BY <1>1, <2>2, QueueOwn DEF RenderNotify
  <2> QED BY <2>1, <2>3, UnchangedRowsGrow, OwnEnds
<1> QED BY <1>1, RenderStartOnce, RenderCreateOnce, SaveTaskIdOnce, PollOnce, RenderSaveOnce,
           ChargeOnce DEF RenderStep, RenderFault

-----------------------------------------------------------------------------
(* The script worker: the scenes and the fan-out *)

(* While no image or heygen job has been added, the next ones are the first. *)
LEMMA FirstSlots ==
  ASSUME \A t \in MediaTasks : ~Present(t), NEW q \in {"image", "heygen"}, NEW S,
         NEW t \in NextSlots(q, S)
  PROVE  t \in MediaTasks /\ t.n <= 1 /\ t # Gpt
<1>1. t \in TaskIds /\ t.q = q /\ MaxSlots \in Nat
  BY PipelineAssumption DEF NextSlots, TasksOf
<1>2. t.n \in 1..MaxSlots /\ t = Task(q, t.s, t.n) /\ t \in MediaTasks
  BY <1>1, TaskShape DEF MediaTasks, MediaQueues
<1>3. CASE t.n > 1
  <2>1. [t EXCEPT !.n = 1] = Task(q, t.s, 1)
    BY <1>2 DEF Task
  <2>2. Task(q, t.s, 1) \in TaskIds
    <3>1. 1 \in 1..MaxSlots
      BY <1>1, <1>2, <1>3
    <3>2. CASE q = "image"
      <4>1. t.s \in OfType("clip") \cup OfType("image")
        BY <1>1, <3>2, TaskShape DEF OfType
      <4> QED BY <3>1, <3>2, <4>1 DEF TaskIds
    <3>3. CASE q = "heygen"
      <4>1. t.s = Job /\ Avatars # {}
        BY <1>1, <3>3, TaskShape
      <4> QED BY <3>1, <3>3, <4>1 DEF TaskIds
    <3> QED BY <3>2, <3>3
  <2>3. Task(q, t.s, 1).q = q
    BY DEF Task
  <2>4. Task(q, t.s, 1) \in MediaTasks
    BY <2>2, <2>3 DEF MediaTasks, MediaQueues
  <2>5. tasks[Task(q, t.s, 1)].st # "absent"
    <3>1. 1 \in 1..(t.n - 1)
      BY <1>1, <1>2, <1>3
    <3> QED BY <2>1, <3>1 DEF NextSlots
  <2> QED BY <2>4, <2>5 DEF Present
<1>4. t # Gpt
  BY <1>2, SingleTasksOutside
<1> QED BY <1>1, <1>2, <1>3, <1>4

(* Nothing is known of an asset before its first queue job.                 *)
LEMMA FanOutKeeps ==
  ASSUME TypeOK, Once, NoRequests', GptFansOut, ~GptFansOut',
         \A t \in MediaTasks : tasks'[t] = tasks[t] \/ (tasks'[t].st = "waiting" /\ t.n <= 1),
         UNCHANGED <<scene, avatarKey, billed, paid, lost>>
  PROVE  Once'
<1>1. (\A t \in MediaTasks : ~Present(t)) /\ \A s \in Scenes : scene[s].status # "none"
  BY DEF Once, FanOutInv
<1>2. ASSUME NEW t \in MediaTasks PROVE MediaInv(t)'
  <2>1. ~At(t, "saveId")
    BY <1>1 DEF Present, At
  <2>2. (Written(t)' <=> Written(t)) /\ (Stored(t)' <=> Stored(t))
    BY DEF Written, Stored
  <2>3. Spared(t)
    BY <2>1, <2>2 DEF Spared
  <2> QED BY <2>3, SparedKeeps DEF Once
<1>3. FanOutInv'
  BY <1>1 DEF FanOutInv
<1> QED BY <1>2, <1>3 DEF Once

LEMMA GptFanOutOnce ==
  ASSUME TypeOK, Once, NoRequests', GptFanOut \/ GptFanOutBreaks
  PROVE  Once'
<1>1. /\ QueueTyped(tasks) /\ Gpt \in TaskIds \ MediaTasks /\ MediaTasks \subseteq TaskIds
      /\ Gpt.q = "gpt"
  BY TypeParts, SingleTasksOutside DEF TasksTyped, MediaTasks, Gpt, Task
<1>2. GptFansOut /\ \A t \in MediaTasks : ~Present(t)
  BY DEF GptFanOut, GptFanOutBreaks, GptFansOut, Once, FanOutInv
<1>3. UNCHANGED <<scene, avatarKey, billed, paid, lost>>
  BY DEF GptFanOut, GptFanOutBreaks, rows, account, history
<1>4. PICK ids : /\ \A t \in ids : t \in MediaTasks /\ t.n <= 1 /\ t # Gpt
                 /\ \/ tasks' = Complete(Add(tasks, ids), Gpt)
                    \/ tasks' = FailAttempt(Add(tasks, ids), Gpt, Attempts["gpt"])
  <2>1. CASE GptFanOut
    <3>1. tasks' = Complete(Add(tasks, FanOut(ImageScenes) \cup NextSlots("heygen", {Job})), Gpt)
      BY <2>1 DEF GptFanOut, ReturnAdding
    <3>2. \A t \in FanOut(ImageScenes) \cup NextSlots("heygen", {Job}) :
            t \in MediaTasks /\ t.n <= 1 /\ t # Gpt
      BY <1>2, FirstSlots DEF FanOut
    <3> QED BY <3>1, <3>2
  <2>2. CASE GptFanOutBreaks
    <3>1. PICK S \in SUBSET ImageScenes :
            tasks' = FailAttempt(Add(tasks, FanOut(S)), Gpt, Attempts["gpt"])
      BY <2>2 DEF GptFanOutBreaks
    <3>2. \A t \in FanOut(S) : t \in MediaTasks /\ t.n <= 1 /\ t # Gpt
      BY <1>2, FirstSlots DEF FanOut
    <3> QED BY <3>1, <3>2
  <2> QED BY <2>1, <2>2
<1>5. /\ QueueTyped(Add(tasks, ids))
      /\ \A x \in TaskIds : \/ Add(tasks, ids)[x] = tasks[x]
                            \/ x \in ids /\ Add(tasks, ids)[x].st = "waiting"
  BY <1>1, AddTyped
<1>6. /\ tasks'[Gpt].st # "active"
      /\ \A x \in TaskIds : x # Gpt => tasks'[x] = Add(tasks, ids)[x]
  <2>1. CASE tasks' = Complete(Add(tasks, ids), Gpt)
    BY <1>1, <1>5, <2>1, CompleteTyped
  <2>2. CASE tasks' = FailAttempt(Add(tasks, ids), Gpt, Attempts["gpt"])
    BY <1>1, <1>5, <2>2, FailAttemptTyped
  <2> QED BY <1>4, <2>1, <2>2
<1>7. ~GptFansOut'
  BY <1>6 DEF GptFansOut, At
<1>8. \A t \in MediaTasks : tasks'[t] = tasks[t] \/ (tasks'[t].st = "waiting" /\ t.n <= 1)
  BY <1>1, <1>4, <1>5, <1>6
<1> QED BY <1>2, <1>3, <1>7, <1>8, FanOutKeeps

LEMMA GptScenesOnce ==
  ASSUME TypeOK, Once, NoRequests', GptScenes
  PROVE  Once'
<1>1. "ready" \in TaskPC /\ Gpt \in TaskIds /\ Gpt.q \notin MediaQueues
  BY SingleTasksOutside DEF TaskPC
<1>2. CASE Throw(Gpt) /\ UNCHANGED scene
  <2>1. OutsideStep
    BY <1>1, <1>2, QueueOutside, UnchangedRowsGrow DEF GptScenes, OutsideStep, account, history
  <2> QED BY <2>1, OutsideKeeps
<1>3. CASE /\ \A s \in Scenes : scene[s].status = "none"
           /\ scene' = [s \in Scenes |-> [NoScene EXCEPT !.status = "pending"]]
           /\ Step(Gpt, "ready")
  <2>1. Scenes # {} => \A t \in MediaTasks : ~Present(t)
    BY <1>3 DEF Once, FanOutInv
  <2>2. MediaTasks # {} => Scenes # {}
    <3>1. Avatars \subseteq Scenes
      BY DEF Avatars, OfType
    <3> QED BY <3>1, TaskShape DEF MediaTasks, MediaQueues
  <2>3. MediaKept /\ UNCHANGED <<billed, paid, lost>>
    BY <1>1, <1>3, QueueOutside DEF GptScenes, account, history
  <2>4. \A t \in MediaTasks : ~Present(t) /\ ~Present(t)'
    BY <2>1, <2>2, <2>3 DEF MediaKept, Present
  <2>5. ASSUME NEW t \in MediaTasks PROVE MediaInv(t)'
    <3>1. AssetOf(t) \in Assets /\ lost \in [Assets -> Nat] /\ t.n \in Nat
      BY TypeParts, TaskShape, PipelineAssumption
         DEF MediaTasks, HistoryTyped, TaskIds, Task, Pipeline, Gpt, Compose, State, Runway
    <3>2. ~Present(t) /\ ~Present(t)' /\ MediaInv(t)
      BY <2>4 DEF Once
    <3>3. \A pc : ~At(t, pc)'
      BY <3>2 DEF At, Present
    <3>4. t.n <= 1 => billed'[AssetOf(t)] = 0 /\ paid'[AssetOf(t)] = 0 /\ lost'[AssetOf(t)] \in Nat
      BY <2>3, <3>1, <3>2 DEF MediaInv
    <3> QED BY <3>1, <3>2, <3>3, <3>4 DEF MediaInv
  <2>6. \A s \in Scenes : scene'[s].status # "none"
    BY <1>3 DEF NoScene
  <2>7. FanOutInv'
    BY <2>4, <2>6 DEF FanOutInv
  <2> QED BY <2>5, <2>7 DEF Once
<1> QED BY <1>2, <1>3 DEF GptScenes

LEMMA GptReadyOnce ==
  ASSUME TypeOK, Once, NoRequests', GptReady
  PROVE  Once'
<1>1. "fanout" \in TaskPC /\ Gpt \in TaskIds /\ Gpt.q \notin MediaQueues
  BY SingleTasksOutside DEF TaskPC
<1>2. MediaKept /\ UNCHANGED <<scene, avatarKey, billed, paid, lost>>
  BY <1>1, QueueOutside DEF GptReady, account, history
<1>3. ASSUME NEW t \in MediaTasks PROVE MediaInv(t)'
  <2>1. (Written(t)' <=> Written(t)) /\ (Stored(t)' <=> Stored(t)) /\ tasks'[t] = tasks[t]
    BY <1>2 DEF Written, Stored, MediaKept
  <2>2. Spared(t)
    BY <1>2, <2>1 DEF Spared
  <2> QED BY <2>2, SparedKeeps DEF Once
<1>4. GptFansOut
  BY DEF GptReady, GptFansOut
<1>5. FanOutInv'
  BY <1>2, <1>4 DEF Once, FanOutInv, MediaKept, Present
<1> QED BY <1>3, <1>5 DEF Once

LEMMA GptOnce ==
  ASSUME TypeOK, Once, NoRequests', GptStep \/ GptFanOutBreaks
  PROVE  Once'
<1>1. Gpt \in TaskIds /\ Gpt.q \notin MediaQueues
  BY SingleTasksOutside
<1>2. {"ideaUsed", "hook", "hookUsed", "script", "scriptUsed", "scenes"}
        \subseteq TaskPC \ {"ready", "fanout"}
  BY DEF TaskPC
<1>3. ASSUME NEW from, NEW to \in TaskPC \ {"ready", "fanout"}, GptCharge(from, to) \/ GptUsed(from, to)
      PROVE  Once'
  <2>1. MediaKept /\ GptElsewhere
    BY <1>1, <1>3, QueueOutside DEF GptCharge, GptUsed
  <2>2. UNCHANGED <<scene, avatarKey, billed, paid, lost>>
    BY <1>3 DEF GptCharge, GptUsed, rows, account, history
  <2>3. OutsideStep
    BY <2>1, <2>2, UnchangedRowsGrow DEF OutsideStep
  <2> QED BY <2>3, OutsideKeeps
<1>4. CASE Step(Gpt, "script") /\ UNCHANGED <<rows, account, history>>
  <2>1. MediaKept /\ GptElsewhere
    BY <1>1, <1>2, <1>4, QueueOutside
  <2>2. OutsideStep
    BY <1>4, <2>1, UnchangedRowsGrow DEF OutsideStep, rows, account, history
  <2> QED BY <2>2, OutsideKeeps
<1>5. CASE GptHook
  <2>1. GptCharge("hook", "hookUsed") \/ (Step(Gpt, "script") /\ UNCHANGED <<rows, account, history>>)
    BY <1>5 DEF GptHook
  <2> QED BY <1>2, <1>3, <1>4, <2>1
<1>6. CASE GptIdea \/ GptScript
  <2>1. GptCharge("start", "ideaUsed") \/ GptCharge("script", "scriptUsed")
    BY <1>6 DEF GptIdea, GptScript
  <2> QED BY <1>2, <1>3, <2>1
<1>7. CASE \/ GptUsed("ideaUsed", "hook")
           \/ GptUsed("hookUsed", "script")
           \/ GptUsed("scriptUsed", "scenes")
  BY <1>2, <1>3, <1>7
<1> QED BY <1>5, <1>6, <1>7, GptScenesOnce, GptReadyOnce, GptFanOutOnce DEF GptStep

-----------------------------------------------------------------------------
(* Attempts that throw, and the death of the orchestrator *)

LEMMA MediaTaskShape ==
  ASSUME NEW t \in MediaTasks
  PROVE  t \in TaskIds /\ AssetOf(t) \in Assets /\ t.n \in Nat
<1>1. t \in TaskIds /\ AssetOf(t) \in Assets
  BY TaskShape DEF MediaTasks
<1>2. t.n \in Nat
  BY PipelineAssumption DEF MediaTasks, TaskIds, Task, Pipeline, Gpt, Compose, State, Runway
<1> QED BY <1>1, <1>2

LEMMA AttemptFailsOnce ==
  ASSUME TypeOK, Once, NoRequests', NEW t \in TaskIds, AttemptFails(t)
  PROVE  Once'
<1>1. UNCHANGED <<scene, avatarKey, billed, paid, lost>> /\ Throw(t)
  BY DEF AttemptFails, rows, account, history
<1>2. CASE t \in MediaTasks
  <2>1. Present(t) /\ ~At(t, "saveId")
    BY DEF AttemptFails, IsOpen, Present, At
  <2>2. OthersKept(t) /\ tasks'[t].st \in {"waiting", "failed"}
    BY <1>1, <1>2, QueueOwn
  <2> QED BY <1>1, <1>2, <2>1, <2>2, UnchangedRowsGrow, OwnEnds
<1>3. CASE t \notin MediaTasks
  <2>1. OutsideStep
    BY <1>1, <1>3, QueueOutside, UnchangedRowsGrow DEF OutsideStep, MediaTasks
  <2> QED BY <2>1, OutsideKeeps
<1> QED BY <1>2, <1>3

(* A task created but not stored is counted as lost when its attempt dies.  *)
LEMMA OrchestratorDiesOnce ==
  ASSUME TypeOK, Once, NoRequests', OrchestratorDies
  PROVE  Once'
<1> DEFINE unsaved(a) == {t \in TaskIds : At(t, "saveId") /\ AssetOf(t) = a}
<1>1. /\ QueueTyped(tasks) /\ Gpt \in TaskIds /\ MediaTasks \subseteq TaskIds /\ tasks' = Stall(tasks)
      /\ lost' = [a \in Assets |-> lost[a] + Cardinality(unsaved(a))]
      /\ UNCHANGED <<scene, avatarKey, billed, paid>>
  BY TypeParts, SingleTasks DEF OrchestratorDies, TasksTyped, MediaTasks, rows, account
<1>2. \A x \in TaskIds : \/ tasks'[x] = tasks[x] /\ tasks[x].st # "active"
                         \/ tasks[x].st = "active" /\ tasks'[x].st \in {"waiting", "failed"}
  BY <1>1, StallTyped
<1>3. ASSUME NEW a
      PROVE  Cardinality(unsaved(a)) \in Nat /\ (unsaved(a) # {} => Cardinality(unsaved(a)) # 0)
  <2>1. IsFiniteSet(unsaved(a)) /\ Cardinality(unsaved(a)) \in Nat
    BY AssetTasksFinite
  <2> HIDE DEF unsaved
  <2> QED BY <2>1, FS_EmptySet
<1>4. ASSUME NEW t \in MediaTasks PROVE MediaInv(t)'
  <2> DEFINE a == AssetOf(t)
  <2>1. /\ a \in Assets /\ t.n \in Nat /\ t \in TaskIds /\ MediaInv(t)
        /\ lost \in [Assets -> Nat] /\ paid \in [Assets -> Nat] /\ billed \in [Assets -> Nat]
    <3>1. t \in TaskIds /\ a \in Assets /\ t.n \in Nat
      BY MediaTaskShape
    <3>2. MediaInv(t)
      BY DEF Once
    <3>3. AccountTyped /\ HistoryTyped
      BY TypeParts
    <3>4. lost \in [Assets -> Nat] /\ paid \in [Assets -> Nat] /\ billed \in [Assets -> Nat]
      BY <3>3 DEF AccountTyped, HistoryTyped
    <3> QED BY <3>1, <3>2, <3>4
  <2>2. At(t, "saveId") => unsaved(a) # {}
    BY <2>1
  <2>3. lost'[a] = lost[a] + Cardinality(unsaved(a))
    BY <1>1, <2>1
  <2>4. /\ Cardinality(unsaved(a)) \in Nat
        /\ At(t, "saveId") => Cardinality(unsaved(a)) # 0
    BY <1>3, <2>2
  <2> HIDE DEF unsaved, a
  <2>5. lost[a] \in Nat /\ paid[a] \in Nat
    BY <2>1
  <2>6. lost'[a] >= lost[a] /\ (At(t, "saveId") => lost'[a] >= lost[a] + 1) /\ lost'[a] \in Nat
    BY <2>3, <2>4, <2>5
  <2>7. (Present(t)' <=> Present(t)) /\ \A pc : ~At(t, pc)'
    BY <1>2, <2>1 DEF Present, At
  <2>8. (Written(t)' <=> Written(t)) /\ (Stored(t)' <=> Stored(t)) /\ billed' = billed /\ paid' = paid
    BY <1>1 DEF Written, Stored
  <2>9. CASE t.n > 1
    BY <2>1, <2>7, <2>9 DEF MediaInv
  <2>10. CASE t.n <= 1
    <3>1. /\ ~Present(t) => billed[a] = 0 /\ paid[a] = 0
          /\ billed[a] <= 1
          /\ ~Written(t) => billed[a] = 0
          /\ t.q # "image" =>
               /\ paid[a] <= lost[a] + 1
               /\ ~Stored(t) /\ ~At(t, "saveId") => paid[a] <= lost[a]
      BY <2>1, <2>10 DEF MediaInv, a
    <3>2. t.q # "image" => /\ paid'[a] <= lost'[a] + 1
                           /\ ~Stored(t)' => paid'[a] <= lost'[a]
      BY <2>5, <2>6, <2>8, <3>1
    <3> QED BY <2>1, <2>7, <2>8, <2>10, <3>1, <3>2 DEF MediaInv, a
  <2> QED BY <2>1, <2>9, <2>10
<1>5. FanOutInv'
  <2>1. ~GptFansOut'
    BY <1>1, <1>2 DEF GptFansOut, At
  <2>2. \A t \in MediaTasks : Present(t)' <=> Present(t)
    BY <1>1, <1>2 DEF Present
  <2> QED BY <1>1, <2>1, <2>2 DEF Once, FanOutInv
<1> QED BY <1>4, <1>5 DEF Once

-----------------------------------------------------------------------------
LEMMA NoRequestsBefore ==
  ASSUME TypeOK, [Next]_vars, requests' = 0
  PROVE  requests = 0
<1>1. requests \in Nat
  BY PipelineAssumption DEF TypeOK
<1>2. requests' \in {requests, requests + 1}
  <2>1. CASE UNCHANGED requests
    BY <2>1
  <2>2. ASSUME NEW a \in Admins, RetryRead(a) \/ RecomposeRead(a)
        PROVE  requests' = requests + 1
    BY <2>2 DEF RetryRead, RecomposeRead, Read
  <2>3. ASSUME NEW a \in Admins, RequestStep(a) PROVE UNCHANGED requests
    BY <2>3 DEF RequestStep, RetryReset, RetryEnqueue, RecomposeReset, RecomposeEnqueue, used
  <2>4. CASE CreateVideoJob \/ CreateStep \/ EnqueueFails \/ CancelActive \/ CancelFailed
             \/ DeleteVideo \/ CancelStep \/ ApiDies
    <3>1. UNCHANGED requests
      BY <2>4 DEF CreateVideoJob, CreateStep, EnqueuePipeline, EnqueueFails, MarkNotEnqueued,
         ReleaseNotEnqueued, CancelActive, CancelFailed, DeleteVideo, CancelStep, CancelVideo,
         CancelQueued, CancelRelease, MarkCancelled, ApiDies, Fault, used
    <3> QED BY <3>1
  <2>5. CASE HandlerStep \/ (\E f \in failures : HandlerFails(f)) \/ OrchestratorDies
    <3>1. UNCHANGED requests
      BY <2>5 DEF HandlerStep, HandlerMark, HandlerRefund, HandlerFails, OrchestratorDies, Fault, used
    <3> QED BY <3>1
  <2>6. CASE GptFanOutBreaks \/ PipelineStep \/ GptStep \/ ComposeStep
    <3>1. UNCHANGED requests
      BY <2>6 DEF GptFanOutBreaks, PipelineStep, PipelineSkip, PipelineStart, PipelineClaim,
         PipelineVideo, PipelineEnqueue, GptStep, GptIdea, GptCharge, GptUsed, GptHook, GptScript,
         GptScenes, GptReady, GptFanOut, ComposeStep, ComposeStart, ComposeFinish, ComposeSettle,
         Fault, used
    <3> QED BY <3>1
  <2>7. ASSUME NEW t, ImageStep(t) \/ RenderStep(t) \/ StateStep(t) \/ RenderFault(t) \/ AttemptFails(t)
        PROVE  UNCHANGED requests
    BY <2>7 DEF ImageStep, ImageStart, ImageCall, ImageSave, Charge, AddCreditsUsed,
         ImageNotify, RenderStep, RenderStart, RenderCreate, SaveTaskId, PollDone, RenderSave,
         HeygenPayload, RenderNotify, RenderFault, CreateRejected, SaveTaskIdFails, PollGone,
         StateStep, StateCheck, StateFail, StateRefund, StateCompose, StateAdd, AttemptFails,
         Fault, used
  <2>8. CASE UNCHANGED vars
    BY <2>8 DEF vars, used
  <2> QED BY <2>1, <2>2, <2>3, <2>4, <2>5, <2>6, <2>7, <2>8 DEF Next, WorkerStep
<1> QED BY <1>1, <1>2

LEMMA NextOnce == TypeOK /\ OnceInv /\ [Next]_vars => OnceInv'
<1> SUFFICES ASSUME TypeOK, OnceInv, [Next]_vars, requests' = 0 PROVE Once'
  BY DEF OnceInv
<1>1. requests = 0
  BY NoRequestsBefore
<1>2. Once /\ NoRequests'
  BY <1>1, StillNoRequests DEF OnceInv, Once
<1>3. ASSUME OutsideStep PROVE Once'
  BY <1>2, <1>3, OutsideKeeps
<1>4. CASE CreateVideoJob \/ CreateStep \/ EnqueueFails
           \/ CancelActive \/ CancelFailed \/ DeleteVideo \/ CancelStep \/ ApiDies
  BY <1>3, <1>4, ApiOutside
<1>5. ASSUME NEW a \in Admins, RetryRead(a) \/ RecomposeRead(a) \/ RequestStep(a) PROVE FALSE
  <2>1. ~RequestStep(a)
    BY <1>2 DEF Once, NoRequests, RequestStep, RetryReset, RetryEnqueue, RecomposeReset, RecomposeEnqueue
  <2>2. requests' = 1
    BY <1>1, <1>5, <2>1 DEF RetryRead, RecomposeRead, Read
  <2> QED BY <2>2
<1>6. ASSUME NEW t \in TaskIds, WorkerStep(t) PROVE Once'
  <2>1. CASE t \in MediaTasks
    <3>1. \/ t.q = "image" /\ ImageStep(t)
          \/ t.q \in {"runway", "heygen"} /\ RenderStep(t)
      BY <1>6, <2>1, SingleTasksOutside DEF WorkerStep, MediaTasks, MediaQueues
    <3> QED BY <1>2, <2>1, <3>1, ImageOnce, RenderOnce
  <2>2. CASE t \notin MediaTasks
    <3>1. PipelineStep \/ GptStep \/ ComposeStep \/ (t.q = "state" /\ StateStep(t))
      BY <1>6, <2>2 DEF WorkerStep, MediaTasks, MediaQueues
    <3> QED BY <1>2, <1>3, <3>1, PipelineOutside, GptOnce, ComposeOutside, StateOutside
  <2> QED BY <2>1, <2>2
<1>7. ASSUME NEW t \in TaskIds, AttemptFails(t) PROVE Once'
  BY <1>2, <1>7, AttemptFailsOnce
<1>8. ASSUME NEW t \in TasksOf("runway") \cup TasksOf("heygen"), RenderFault(t) PROVE Once'
  BY <1>2, <1>8, RenderOnce DEF TasksOf, MediaTasks, MediaQueues
<1>9. CASE GptFanOutBreaks
  BY <1>2, <1>9, GptOnce
<1>10. CASE HandlerStep \/ \E f \in failures : HandlerFails(f)
  BY <1>3, <1>10, HandlerOutside
<1>11. CASE OrchestratorDies
  BY <1>2, <1>11, OrchestratorDiesOnce
<1>12. CASE UNCHANGED vars
  <2>1. UNCHANGED <<tasks, scene, avatarKey, billed, paid, lost>>
    BY <1>12 DEF vars, rows, queue, account, history
  <2> QED BY <1>3, <2>1, UntouchedOutside
<1> QED BY <1>4, <1>5, <1>6, <1>7, <1>8, <1>9, <1>10, <1>11, <1>12 DEF Next

LEMMA InitOnce == Init => OnceInv
<1> SUFFICES ASSUME Init PROVE Once
  BY DEF OnceInv
<1>1. NoRequests
  BY DEF Init, NoRequests, NoRequest
<1>2. \A t \in MediaTasks : ~Present(t) /\ \A pc : ~At(t, pc)
  BY DEF Init, MediaTasks, NoJob, Present, At
<1>3. ~GptFansOut
  BY SingleTasks DEF Init, NoJob, GptFansOut, At
<1>4. ASSUME NEW t \in MediaTasks PROVE MediaInv(t)
  <2>1. AssetOf(t) \in Assets /\ t.n \in Nat
    BY MediaTaskShape
  <2> QED BY <1>2, <2>1 DEF Init, MediaInv
<1> QED BY <1>1, <1>2, <1>3, <1>4 DEF Once, FanOutInv

(* OnceInv holds in every reachable state.                                  *)
THEOREM OnceInvariant == Spec => []OnceInv
<1>1. (Init => TypeOK /\ OnceInv) /\ (TypeOK /\ OnceInv /\ [Next]_vars => TypeOK' /\ OnceInv')
  BY InitTypeOK, NextTypeOK, InitOnce, NextOnce
<1> QED BY <1>1, PTL DEF Spec

LEMMA OnceImplies == TypeOK /\ OnceInv => (requests = 0 => BilledAtMostOnce /\ PaidOnce)
<1> SUFFICES ASSUME TypeOK, Once PROVE BilledAtMostOnce /\ PaidOnce
  BY DEF OnceInv
<1>1. ASSUME NEW a \in Assets
      PROVE  billed[a] <= 1 /\ (a.q # "image" => paid[a] <= 1 + lost[a])
  <2>0. paid[a] \in Nat /\ lost[a] \in Nat
    BY TypeParts DEF HistoryTyped
  <2>1. PICK u \in TasksOf("image") \cup TasksOf("runway") \cup TasksOf("heygen") :
          a = [q |-> u.q, s |-> u.s]
    BY DEF Assets
  <2>2. u \in TaskIds /\ u.q \in MediaQueues /\ MaxSlots \in Nat
    BY <2>1, PipelineAssumption DEF TasksOf, MediaQueues
  <2>3. PICK t \in MediaTasks : a = AssetOf(t) /\ t.n <= 1 /\ a.q = t.q
    <3>1. CASE u.q = "runway"
      <4>1. u.n = 0
        BY <2>2, <3>1, TaskShape
      <4> QED BY <2>1, <2>2, <4>1 DEF AssetOf, MediaTasks
    <3>2. CASE u.q = "image"
      <4>1. 1 \in 1..MaxSlots /\ u.s \in OfType("clip") \cup OfType("image")
        BY <2>2, <3>2, TaskShape DEF OfType
      <4>2. Task("image", u.s, 1) \in TaskIds
        BY <4>1 DEF TaskIds
      <4> QED BY <2>1, <3>2, <4>2 DEF AssetOf, MediaTasks, MediaQueues, Task
    <3>3. CASE u.q = "heygen"
      <4>1. 1 \in 1..MaxSlots /\ u.s = Job /\ Avatars # {}
        BY <2>2, <3>3, TaskShape
      <4>2. Task("heygen", Job, 1) \in TaskIds
        BY <4>1 DEF TaskIds
      <4> QED BY <2>1, <3>3, <4>1, <4>2 DEF AssetOf, MediaTasks, MediaQueues, Task
    <3> QED BY <2>2, <3>1, <3>2, <3>3 DEF MediaQueues
  <2>4. MediaInv(t)
    BY DEF Once
  <2> QED BY <2>0, <2>3, <2>4 DEF MediaInv
<1> QED BY <1>1 DEF BilledAtMostOnce, PaidOnce

(* No asset is charged twice, for any script, attempts, faults and crashes: *)
(* redelivery and retries of the queue never reach a second charge, as long *)
(* as no admin retries or recomposes the job.                               *)
THEOREM BilledOnceWithoutRequests == Spec => [](requests = 0 => BilledAtMostOnce)
<1>1. TypeOK /\ OnceInv => (requests = 0 => BilledAtMostOnce)
  BY OnceImplies
<1> QED BY <1>1, TypeCorrect, OnceInvariant, PTL

(* No second task is created at a provider while the id of the first is     *)
(* stored or in hand, in whatever step an attempt throws, the save of the   *)
(* id fails or the process dies - as long as no admin asks for anything.    *)
THEOREM PaidOnceWithoutRequests == Spec => [](requests = 0 => PaidOnce)
<1>1. TypeOK /\ OnceInv => (requests = 0 => PaidOnce)
  BY OnceImplies
<1> QED BY <1>1, TypeCorrect, OnceInvariant, PTL

-----------------------------------------------------------------------------
(* What a worker does to the queue: its own job moves, the jobs it adds are *)
(* new, the others stay as they are.                                        *)

Beside(t, ids) ==
  \A x \in TaskIds \ {t} :
    tasks'[x] = IF x \in ids /\ tasks[x].st = "absent" THEN NewJob ELSE tasks[x]

LEMMA QueueMoves ==
  ASSUME TypeOK, NEW t \in TaskIds
  PROVE  /\ \A pc \in TaskPC : Step(t, pc) => Beside(t, {}) /\ At(t, pc)' /\ UNCHANGED failures
         /\ Return(t) => Beside(t, {}) /\ tasks'[t].st = "completed" /\ UNCHANGED failures
         /\ \A ids : ReturnAdding(t, ids) =>
              Beside(t, ids) /\ tasks'[t].st = "completed" /\ UNCHANGED failures
         /\ Throw(t) => /\ Beside(t, {})
                        /\ \/ tasks'[t].st = "waiting" /\ UNCHANGED failures
                           \/ /\ tasks'[t].st = "failed"
                              /\ failures' = IF HasHandler(t)
                                             THEN failures \cup {[t |-> t, at |-> "mark"]}
                                             ELSE failures
<1> USE DEF Beside
<1>1. QueueTyped(tasks)
  BY TypeParts DEF TasksTyped
<1>2. ASSUME NEW pc \in TaskPC, Step(t, pc) PROVE Beside(t, {}) /\ At(t, pc)' /\ UNCHANGED failures
  BY <1>1, <1>2, GotoTyped DEF Step, At
<1>3. ASSUME Return(t) PROVE Beside(t, {}) /\ tasks'[t].st = "completed" /\ UNCHANGED failures
  BY <1>1, <1>3, CompleteTyped DEF Return
<1>4. ASSUME NEW ids, ReturnAdding(t, ids)
      PROVE  Beside(t, ids) /\ tasks'[t].st = "completed" /\ UNCHANGED failures
  <2>1. QueueTyped(Add(tasks, ids))
    BY <1>1, AddTyped
  <2>2. tasks'[t].st = "completed" /\ \A x \in TaskIds : x # t => tasks'[x] = Add(tasks, ids)[x]
    BY <1>4, <2>1, CompleteTyped DEF ReturnAdding
  <2>3. \A x \in TaskIds :
          Add(tasks, ids)[x] = IF x \in ids /\ tasks[x].st = "absent" THEN NewJob ELSE tasks[x]
    BY <1>1 DEF Add, QueueTyped
  <2> QED BY <1>4, <2>2, <2>3 DEF ReturnAdding
<1>5. ASSUME Throw(t)
      PROVE  /\ Beside(t, {})
             /\ \/ tasks'[t].st = "waiting" /\ UNCHANGED failures
                \/ /\ tasks'[t].st = "failed"
                   /\ failures' = IF HasHandler(t) THEN failures \cup {[t |-> t, at |-> "mark"]}
                                  ELSE failures
  <2>1. Beside(t, {})
    BY <1>1, <1>5, FailAttemptTyped DEF Throw
  <2>2. CASE IsLastAttempt(tasks[t], Attempts[t.q])
    <3>1. tasks'[t].st = "failed"
      BY <1>1, <1>5, <2>2, FailForGoodTyped DEF Throw, FailAttempt
    <3> QED BY <1>5, <2>1, <2>2, <3>1 DEF Throw
  <2>3. CASE ~IsLastAttempt(tasks[t], Attempts[t.q])
    <3>1. tasks'[t].st = "waiting"
      BY <1>1, <1>5, <2>3 DEF Throw, FailAttempt, QueueTyped, QueueJob
    <3> QED BY <1>5, <2>1, <2>3, <3>1 DEF Throw
  <2> QED BY <2>2, <2>3
<1> QED BY <1>2, <1>3, <1>4, <1>5

-----------------------------------------------------------------------------
(* The reserve comes back *)

(* It is back, or a handler is about to return it, or was kept from it.     *)
Returned == reserve = "released" \/ dropped \/ failures # {}

(* Somebody else is about to return it.                                     *)
Returning ==
  creating = "release" \/ cancelling \in {"video", "queue", "release"} \/ IsOpen(tasks[Compose])

FailsJob(t) == At(t, "fail") \/ At(t, "refund")

Settled == job \in Terminal \/ cancelling = "mark"

ReserveInv ==
  /\ (\E s \in Scenes : SceneFailed(s)) => Returned
  /\ (\E t \in TasksOf("state") : FailsJob(t)) => Returned
  /\ Settled => Returned \/ Returning

LEMMA ReserveKeeps ==
  ASSUME ReserveInv,
         Returned => Returned',
         \A s \in Scenes : SceneFailed(s)' => SceneFailed(s) \/ Returned',
         \A t \in TasksOf("state") : FailsJob(t)' => FailsJob(t) \/ Returned \/ Returned',
         Settled' => Settled \/ Returned' \/ Returning',
         Returning => Returning' \/ Returned'
  PROVE  ReserveInv'
BY DEF ReserveInv

LEMMA ReturnedKept ==
  /\ UNCHANGED <<reserve, dropped>> /\ failures \subseteq failures' => (Returned => Returned')
  /\ UNCHANGED <<reserve, dropped, failures>> => (Returned => Returned')
BY DEF Returned

LEMMA ReleaseReturns ==
  ASSUME TypeOK, IInv, creating # "idle", ReleaseReserve PROVE reserve' = "released" /\ Returned'
<1>1. reserve \in {"held", "released"}
  BY TypeParts DEF AccountTyped, IInv
<1> QED BY <1>1 DEF ReleaseReserve, Returned

(* A step that leaves alone the rows, the requests and the reserve, and of  *)
(* the queue moves t only.                                                  *)
LEMMA ReserveQuiet ==
  ASSUME TypeOK, ReserveInv, NEW t \in TaskIds, NEW ids, Beside(t, ids),
         Returned => Returned',
         \A s \in Scenes : SceneFailed(s)' => SceneFailed(s) \/ Returned',
         job' = job \/ job' \notin Terminal \/ Returned' \/ Returning',
         UNCHANGED <<creating, cancelling>>,
         t.q = "state" /\ FailsJob(t)' => FailsJob(t) \/ Returned \/ Returned',
         t = Compose => IsOpen(tasks'[t]) \/ Returned'
  PROVE  ReserveInv'
<1>1. NewJob.st = "waiting" /\ Compose \in TaskIds /\ TasksOf("state") \subseteq TaskIds
      /\ \A x \in TasksOf("state") : x.q = "state"
  BY SingleTasks DEF NewJob, NoJob, TasksOf
<1>2. \A x \in TaskIds \ {t} : tasks'[x] = tasks[x] \/ tasks'[x].st = "waiting"
  BY <1>1 DEF Beside
<1>3. \A x \in TasksOf("state") : FailsJob(x)' => FailsJob(x) \/ Returned \/ Returned'
  BY <1>1, <1>2 DEF FailsJob, At
<1>4. IsOpen(tasks[Compose]) => IsOpen(tasks'[Compose]) \/ Returned'
  BY <1>1, <1>2 DEF IsOpen
<1>5. Returning => Returning' \/ Returned'
  BY <1>4 DEF Returning
<1>6. Settled' => Settled \/ Returned' \/ Returning'
  BY DEF Settled
<1> QED BY <1>3, <1>5, <1>6, ReserveKeeps

\* Some queue jobs of t's step, whichever way its attempt goes on.
Aside(t) == \E ids : Beside(t, ids)

LEMMA Asides ==
  ASSUME TypeOK, NEW t \in TaskIds
  PROVE  /\ \A pc \in TaskPC : Step(t, pc) => Aside(t) /\ At(t, pc)' /\ UNCHANGED failures
         /\ Return(t) \/ (\E ids : ReturnAdding(t, ids)) =>
              Aside(t) /\ tasks'[t].st = "completed" /\ UNCHANGED failures
         /\ Throw(t) => /\ Aside(t) /\ failures \subseteq failures'
                        /\ tasks'[t].st \in {"waiting", "failed"}
                        /\ tasks'[t].st = "failed" /\ HasHandler(t) => failures' # {}
BY QueueMoves DEF Aside

LEMMA ReserveAside ==
  ASSUME TypeOK, ReserveInv, NEW t \in TaskIds, Aside(t), t.q # "state", t # Compose,
         UNCHANGED <<reserve, dropped, creating, cancelling>>, failures \subseteq failures',
         \A s \in Scenes : SceneFailed(s)' => SceneFailed(s),
         job' = job \/ job' \notin Terminal
  PROVE  ReserveInv'
BY ReserveQuiet, ReturnedKept DEF Aside

LEMMA MediaReserve ==
  ASSUME TypeOK, ReserveInv, NEW t \in MediaTasks,
         ImageStep(t) \/ RenderStep(t) \/ RenderFault(t)
  PROVE  ReserveInv'
<1> USE DEF SceneFailed
<1>0. /\ t \in TaskIds /\ t.q # "state" /\ t # Compose /\ (t.s \in Scenes \/ t.q = "heygen")
      /\ scene \in [Scenes -> SceneRow] /\ {"call", "save", "charge", "used", "notify", "create", "poll",
                                            "saveId", "payload"} \subseteq TaskPC
      /\ QueueTyped(tasks)
  BY TaskShape, SingleTasksOutside, TypeParts DEF MediaTasks, MediaQueues, RowsTyped, TasksTyped, TaskPC
<1>1. CASE UNCHANGED scene /\ Aside(t) /\ failures \subseteq failures'
           /\ UNCHANGED <<job, reserve, dropped, creating, cancelling>>
  BY <1>0, <1>1, ReserveAside
<1>2. CASE Charge(t) \/ AddCreditsUsed(t)
  BY <1>0, <1>1, <1>2, Asides DEF Charge, AddCreditsUsed, rows, api, history, account
<1>3. CASE ImageCall(t) \/ ImageNotify(t)
  <2>1. Aside(t) /\ UNCHANGED failures
    BY <1>0, <1>3, Asides DEF ImageCall, ImageNotify
  <2> QED BY <1>1, <1>3, <2>1 DEF ImageCall, ImageNotify, rows, api, account, history
<1>4. CASE RenderCreate(t) \/ PollDone(t) \/ HeygenPayload(t) \/ RenderNotify(t)
  BY <1>0, <1>1, <1>4, Asides DEF RenderCreate, PollDone, HeygenPayload, RenderNotify, rows, api,
     account, history
<1>5. ASSUME UNCHANGED <<job, creating, cancelling, reserve, dropped>>, Aside(t), failures \subseteq failures',
             \A s \in Scenes : scene'[s].status = "failed" => scene[s].status = "failed"
      PROVE  ReserveInv'
  BY <1>0, <1>5, ReserveAside
<1>6. CASE ImageStart(t)
  <2>1. Aside(t) /\ UNCHANGED failures
    BY <1>0, <1>6, Asides DEF ImageStart
  <2>2. scene' = scene \/ scene' = [scene EXCEPT ![t.s].status = "processing"]
    BY <1>6 DEF ImageStart
  <2> QED BY <1>0, <1>5, <1>6, <2>1, <2>2 DEF ImageStart, api, account, history, SceneRow
<1>7. CASE ImageSave(t)
  <2>1. Aside(t) /\ UNCHANGED failures
    BY <1>0, <1>7, Asides DEF ImageSave
  <2>2. \A s \in Scenes : scene'[s].status = "failed" => scene[s].status = "failed"
    BY <1>0, <1>7 DEF ImageSave, SceneRow
  <2> QED BY <1>0, <1>5, <1>7, <2>1, <2>2 DEF ImageSave, api, account, history
<1>8. CASE RenderStart(t)
  <2>1. Aside(t) /\ UNCHANGED failures
    <3>1. CASE tasks' = [Goto(tasks, t, "poll") EXCEPT ![t].resumed = TRUE] /\ UNCHANGED failures
      <4>0. QueueTyped(tasks) /\ t \in TaskIds /\ "poll" \in TaskPC
        BY <1>0
      <4>1. \A x \in TaskIds : x # t => tasks'[x] = tasks[x]
        BY <3>1, <4>0 DEF Goto, QueueTyped
      <4>2. Beside(t, {})
        BY <4>1 DEF Beside
      <4> QED BY <3>1, <4>2 DEF Aside
    <3> QED BY <1>0, <1>8, <3>1, Asides DEF RenderStart
  <2>2. \A s \in Scenes : scene'[s].status = "failed" => scene[s].status = "failed"
    BY <1>0, <1>8 DEF RenderStart, SceneRow
  <2> QED BY <1>0, <1>5, <1>8, <2>1, <2>2 DEF RenderStart, api, account, history
<1>9. CASE SaveTaskId(t)
  <2>1. Aside(t) /\ UNCHANGED failures
    BY <1>0, <1>9, Asides DEF SaveTaskId
  <2>2. \A s \in Scenes : scene'[s].status = "failed" => scene[s].status = "failed"
    BY <1>0, <1>9 DEF SaveTaskId, SceneRow
  <2> QED BY <1>0, <1>5, <1>9, <2>1, <2>2 DEF SaveTaskId, api, account, history
<1>10. CASE RenderSave(t)
  <2>1. Aside(t) /\ UNCHANGED failures
    BY <1>0, <1>10, Asides DEF RenderSave
  <2>2. \A s \in Scenes : scene'[s].status = "failed" => scene[s].status = "failed"
    BY <1>0, <1>10 DEF RenderSave, SceneRow
  <2> QED BY <1>0, <1>5, <1>10, <2>1, <2>2 DEF RenderSave, api, account, history
<1>11. CASE CreateRejected(t)
  <2>1. \A x \in TaskIds : x # t => tasks'[x] = tasks[x]
    BY <1>0, <1>11, FailForGoodTyped DEF CreateRejected
  <2>2. Aside(t)
    BY <2>1 DEF Aside, Beside
  <2> QED BY <1>1, <1>11, <2>2 DEF CreateRejected, rows, api, account, history
<1>12. CASE SaveTaskIdFails(t)
  BY <1>0, <1>1, <1>12, Asides DEF SaveTaskIdFails, rows, api, account
<1>13. CASE PollGone(t)
  <2>0. QueueTyped(tasks) /\ t \in TaskIds /\ "create" \in TaskPC
        /\ tasks' = [Goto(tasks, t, "create") EXCEPT ![t].resumed = FALSE]
    BY <1>0, <1>13 DEF PollGone
  <2>1. \A x \in TaskIds : x # t => tasks'[x] = tasks[x]
    BY <2>0 DEF Goto, QueueTyped
  <2>2. Aside(t)
    BY <2>1 DEF Aside, Beside
  <2>3. \A s \in Scenes : scene'[s].status = "failed" => scene[s].status = "failed"
    BY <1>0, <1>13 DEF PollGone, SceneRow
  <2> QED BY <1>5, <1>13, <2>2, <2>3 DEF PollGone, api, account
<1> QED BY <1>2, <1>3, <1>4, <1>6, <1>7, <1>8, <1>9, <1>10, <1>11, <1>12, <1>13
        DEF ImageStep, RenderStep, RenderFault

LEMMA ScriptReserve ==
  ASSUME TypeOK, ReserveInv, PipelineStep \/ GptStep \/ GptFanOutBreaks
  PROVE  ReserveInv'
<1> USE DEF SceneFailed
<1>0. /\ {Pipeline, Gpt} \subseteq TaskIds /\ Pipeline.q = "pipeline" /\ Gpt.q = "gpt"
      /\ Pipeline # Compose /\ Gpt # Compose /\ QueueTyped(tasks) /\ TaskPC = TaskPC
      /\ {"claim", "video", "enqueue", "ideaUsed", "hook", "hookUsed", "script", "scriptUsed",
          "scenes", "ready", "fanout"} \subseteq TaskPC
  BY SingleTasks, TypeParts DEF TasksTyped, TaskPC, Pipeline, Gpt, Compose, Task
<1>1. ASSUME NEW t \in {Pipeline, Gpt}, Aside(t), failures \subseteq failures',
             UNCHANGED <<reserve, dropped, creating, cancelling>>,
             \A s \in Scenes : scene'[s].status = "failed" => scene[s].status = "failed",
             job' = job \/ job' \notin Terminal
      PROVE  ReserveInv'
  BY <1>0, <1>1, ReserveAside
<1>2. CASE PipelineSkip \/ PipelineStart \/ PipelineVideo
  BY <1>0, <1>1, <1>2, Asides DEF PipelineSkip, PipelineStart, PipelineVideo, rows, api, account, history
<1>3. CASE PipelineClaim
  BY <1>0, <1>1, <1>3, Asides DEF PipelineClaim, api, account, history, Terminal
<1>4. CASE PipelineEnqueue
  <2>1. QueueTyped(AddOrReplace(tasks, {Gpt}))
        /\ \A x \in TaskIds : x # Gpt => AddOrReplace(tasks, {Gpt})[x] = tasks[x]
    BY <1>0, AddOrReplaceTyped
  <2>2. \A x \in TaskIds : x # Pipeline => tasks'[x] = AddOrReplace(tasks, {Gpt})[x]
    BY <1>0, <1>4, <2>1, CompleteTyped DEF PipelineEnqueue
  <2>3. UNCHANGED <<scene, job, creating, cancelling, reserve, dropped, failures>>
    BY <1>4 DEF PipelineEnqueue, rows, api, account, history
  <2>4. \A x \in TasksOf("state") \cup {Compose} : tasks'[x] = tasks[x]
    BY <1>0, <2>1, <2>2, SingleTasks DEF TasksOf
  <2>5. (Returned => Returned') /\ (Settled' <=> Settled) /\ (Returning => Returning')
    BY <2>3, <2>4 DEF Returned, Settled, Returning
  <2>6. \A x \in TasksOf("state") : FailsJob(x)' => FailsJob(x)
    BY <2>4 DEF FailsJob, At
  <2> QED BY <2>3, <2>5, <2>6, ReserveKeeps
<1>5. ASSUME NEW from, NEW to \in TaskPC, GptCharge(from, to) PROVE ReserveInv'
  BY <1>0, <1>1, <1>5, Asides DEF GptCharge, rows, api, account, history
<1>6. ASSUME NEW from, NEW to \in TaskPC, GptUsed(from, to) PROVE ReserveInv'
  BY <1>0, <1>1, <1>6, Asides DEF GptUsed, rows, api, history
<1>7. CASE GptHook
  BY <1>0, <1>1, <1>5, <1>7, Asides DEF GptHook, rows, api, account, history
<1>8. CASE GptScenes
  <2>1. Aside(Gpt) /\ failures \subseteq failures'
    BY <1>0, <1>8, Asides DEF GptScenes
  <2>2. \A s \in Scenes : scene'[s].status = "failed" => scene[s].status = "failed"
    BY <1>8 DEF GptScenes, NoScene
  <2> QED BY <1>1, <1>8, <2>1, <2>2 DEF GptScenes, api, account, history
<1>9. CASE GptReady
  BY <1>0, <1>1, <1>9, Asides DEF GptReady, api, account, history, Terminal
<1>10. CASE GptFanOut
  BY <1>0, <1>1, <1>10, Asides DEF GptFanOut, rows, api, account, history
<1>11. CASE GptFanOutBreaks
  <2>1. PICK S \in SUBSET ImageScenes : tasks' = FailAttempt(Add(tasks, FanOut(S)), Gpt, Attempts[Gpt.q])
    BY <1>0, <1>11 DEF GptFanOutBreaks
  <2>2. QueueTyped(Add(tasks, FanOut(S)))
    BY <1>0, AddTyped
  <2>3. \A x \in TaskIds : x # Gpt => tasks'[x] = Add(tasks, FanOut(S))[x]
    BY <1>0, <2>1, <2>2, FailAttemptTyped
  <2>4. Beside(Gpt, FanOut(S))
    BY <1>0, <2>3 DEF Beside, Add, QueueTyped
  <2>5. failures \subseteq failures'
    BY <1>11 DEF GptFanOutBreaks
  <2> QED BY <1>1, <1>11, <2>4, <2>5 DEF Aside, GptFanOutBreaks, rows, api, account, history
<1>12. CASE GptIdea \/ GptScript
  BY <1>0, <1>5, <1>12 DEF GptIdea, GptScript
<1>13. CASE GptUsed("ideaUsed", "hook") \/ GptUsed("hookUsed", "script") \/ GptUsed("scriptUsed", "scenes")
  BY <1>0, <1>6, <1>13
<1> QED BY <1>2, <1>3, <1>4, <1>7, <1>8, <1>9, <1>10, <1>11, <1>12, <1>13 DEF PipelineStep, GptStep

LEMMA ReturnedEnough == Returned' => ReserveInv'
BY DEF ReserveInv

LEMMA StateReserve ==
  ASSUME TypeOK, IInv, creating # "idle", ReserveInv, NEW t \in TasksOf("state"), StateStep(t)
  PROVE  ReserveInv'
<1> USE DEF SceneFailed
<1>0. /\ t \in TaskIds /\ t.q = "state" /\ t # Compose /\ t.s \in Scenes /\ scene \in [Scenes -> SceneRow]
      /\ {"fail", "refund", "compose", "add"} \subseteq TaskPC
  BY TaskShape, TypeParts DEF TasksOf, RowsTyped, TaskPC, Compose, Task
<1>1. CASE StateCheck(t)
  <2>1. /\ UNCHANGED <<job, creating, cancelling, reserve, dropped>>
        /\ \A s \in Scenes : SceneFailed(s)' => SceneFailed(s)
    BY <1>0, <1>1 DEF StateCheck, api, account, history, SceneRow
  <2>2. \/ Return(t) \/ Step(t, "compose")
        \/ Step(t, "fail") /\ \E s \in Scenes : SceneFailed(s)
    BY <1>1 DEF StateCheck
  <2>3. Aside(t) /\ UNCHANGED failures /\ (FailsJob(t)' => Returned)
    <3>1. CASE Return(t)
      BY <1>0, <3>1, Asides DEF FailsJob, At
    <3>2. CASE Step(t, "compose")
      BY <1>0, <3>2, Asides DEF FailsJob, At
    <3>3. CASE Step(t, "fail") /\ \E s \in Scenes : SceneFailed(s)
      BY <1>0, <3>3, Asides DEF ReserveInv
    <3> QED BY <2>2, <3>1, <3>2, <3>3
  <2> QED BY <1>0, <2>1, <2>3, ReserveQuiet, ReturnedKept DEF Aside
<1>2. CASE StateFail(t)
  <2>1. Returned
    BY <1>0, <1>2 DEF StateFail, ReserveInv, FailsJob
  <2>2. UNCHANGED <<reserve, dropped, failures>>
    BY <1>0, <1>2, Asides DEF StateFail, account, history
  <2> QED BY <2>1, <2>2, ReturnedKept, ReturnedEnough
<1>3. CASE StateRefund(t)
  BY <1>3, ReleaseReturns, ReturnedEnough DEF StateRefund
<1>4. CASE StateCompose(t)
  <2>1. /\ UNCHANGED <<scene, creating, cancelling, reserve, dropped>>
        /\ job' = "composing" /\ Step(t, "add")
    BY <1>4 DEF StateCompose, api, account, history
  <2>2. Aside(t) /\ UNCHANGED failures /\ ~FailsJob(t)'
    BY <1>0, <2>1, Asides DEF FailsJob, At
  <2> QED BY <1>0, <2>1, <2>2, ReserveQuiet, ReturnedKept DEF Aside, Terminal
<1>5. CASE StateAdd(t)
  <2>1. UNCHANGED <<scene, job, creating, cancelling, reserve, dropped>> /\ ReturnAdding(t, {Compose})
    BY <1>5 DEF StateAdd, rows, api, account, history
  <2>2. Aside(t) /\ UNCHANGED failures /\ ~FailsJob(t)'
    BY <1>0, <2>1, Asides DEF FailsJob, At
  <2> QED BY <1>0, <2>1, <2>2, ReserveQuiet, ReturnedKept DEF Aside
<1> QED BY <1>1, <1>2, <1>3, <1>4, <1>5 DEF StateStep

LEMMA ComposeReserve ==
  ASSUME TypeOK, IInv, creating # "idle", ReserveInv, ComposeStep
  PROVE  ReserveInv'
<1> USE DEF SceneFailed
<1>0. Compose \in TaskIds /\ Compose.q = "compose" /\ HasHandler(Compose) /\ {"finish", "settle"} \subseteq TaskPC
  BY SingleTasks DEF Compose, Task, HasHandler, TaskPC
<1>1. CASE ComposeStart
  <2>1. UNCHANGED <<job, scene, creating, cancelling, reserve, dropped>>
        /\ (Step(Compose, "finish") \/ Throw(Compose))
    BY <1>1 DEF ComposeStart, rows, api, account, history
  <2>2. CASE Step(Compose, "finish")
    <3>1. Aside(Compose) /\ At(Compose, "finish")' /\ UNCHANGED failures
      BY <1>0, <2>2, Asides
    <3> QED BY <1>0, <2>1, <3>1, ReserveQuiet, ReturnedKept DEF Aside, At, IsOpen
  <2>3. CASE Throw(Compose)
    <3>1. /\ Aside(Compose) /\ failures \subseteq failures'
          /\ tasks'[Compose].st = "waiting" \/ failures' # {}
      BY <1>0, <2>3, Asides
    <3>2. IsOpen(tasks'[Compose]) \/ Returned'
      BY <3>1 DEF IsOpen, Returned
    <3> QED BY <1>0, <2>1, <3>1, <3>2, ReserveQuiet, ReturnedKept DEF Aside
  <2> QED BY <2>1, <2>2, <2>3
<1>2. CASE ComposeFinish
  <2>1. UNCHANGED <<scene, creating, cancelling, reserve, dropped>> /\ Step(Compose, "settle")
    BY <1>2 DEF ComposeFinish, api, account, history
  <2>2. Aside(Compose) /\ At(Compose, "settle")' /\ UNCHANGED failures
    BY <1>0, <2>1, Asides
  <2>3. IsOpen(tasks'[Compose]) /\ Returning'
    BY <2>2 DEF At, IsOpen, Returning
  <2> QED BY <1>0, <2>1, <2>2, <2>3, ReserveQuiet, ReturnedKept DEF Aside
<1>3. CASE ComposeSettle
  BY <1>3, ReleaseReturns, ReturnedEnough DEF ComposeSettle
<1> QED BY <1>1, <1>2, <1>3 DEF ComposeStep

LEMMA FailureReserve ==
  ASSUME TypeOK, IInv, creating # "idle", ReserveInv,
         \/ HandlerStep \/ (\E f \in failures : HandlerFails(f)) \/ OrchestratorDies
         \/ \E t \in TaskIds : AttemptFails(t)
  PROVE  ReserveInv'
<1> USE DEF SceneFailed
<1>0. Compose \in TaskIds /\ HasHandler(Compose)
  BY SingleTasks DEF Compose, Task, HasHandler
<1>1. ASSUME NEW f \in failures, HandlerMark(f) \/ HandlerRefund(f) \/ HandlerFails(f)
      PROVE  Returned'
  BY <1>1, ReleaseReturns DEF HandlerMark, HandlerRefund, HandlerFails, Returned
<1>2. CASE OrchestratorDies
  <2>1. /\ UNCHANGED <<job, scene, creating, cancelling, reserve>> /\ tasks' = Stall(tasks)
        /\ dropped' = (dropped \/ failures # {})
        /\ failures' = {[t |-> t, at |-> "mark"] :
                          t \in {u \in TaskIds : StallAgain(tasks[u]) /\ HasHandler(u)}}
    BY <1>2 DEF OrchestratorDies, rows, api, account
  <2>2. QueueTyped(tasks)
    BY TypeParts DEF TasksTyped
  <2>3. Returned => Returned'
    BY <2>1 DEF Returned
  <2>4. \A t \in TasksOf("state") : ~FailsJob(t)'
    BY <2>1, <2>2, StallTyped DEF FailsJob, At, TasksOf
  <2>5. IsOpen(tasks[Compose]) => IsOpen(tasks'[Compose]) \/ Returned'
    <3>1. CASE StallAgain(tasks[Compose])
      BY <1>0, <2>1, <3>1 DEF Returned
    <3>2. CASE ~StallAgain(tasks[Compose])
      <4>1. /\ Compose \in DOMAIN tasks
            /\ tasks'[Compose] =
                 IF tasks[Compose].st # "active" THEN tasks[Compose]
                 ELSE [tasks[Compose] EXCEPT !.st = "waiting", !.stalls = 1, !.pc = "start",
                                             !.resumed = FALSE]
        BY <1>0, <2>1, <2>2, <3>2 DEF Stall, QueueTyped
      <4>2. tasks[Compose] \in QueueJob(TaskPC, Attempts[Compose.q])
        BY <1>0, <2>2 DEF QueueTyped
      <4>3. tasks'[Compose].st = "waiting" \/ tasks'[Compose] = tasks[Compose]
        BY <4>1, <4>2 DEF QueueJob
      <4> QED BY <4>3 DEF IsOpen
    <3> QED BY <3>1, <3>2
  <2> QED BY <2>1, <2>3, <2>4, <2>5, ReserveKeeps DEF Settled, Returning
<1>3. ASSUME NEW t \in TaskIds, AttemptFails(t) PROVE ReserveInv'
  <2>1. UNCHANGED <<job, scene, creating, cancelling, reserve, dropped>> /\ Throw(t)
    BY <1>3 DEF AttemptFails, rows, api, account, history
  <2>2. /\ Aside(t) /\ failures \subseteq failures' /\ tasks'[t].st \in {"waiting", "failed"}
        /\ t = Compose => tasks'[t].st = "waiting" \/ failures' # {}
    BY <1>0, <2>1, Asides
  <2>3. t = Compose => IsOpen(tasks'[t]) \/ Returned'
    BY <2>2 DEF IsOpen, Returned
  <2>4. ~FailsJob(t)'
    BY <2>2 DEF FailsJob, At
  <2> QED BY <2>1, <2>2, <2>3, <2>4, ReserveQuiet, ReturnedKept DEF Aside
<1> QED BY <1>1, <1>2, <1>3, ReturnedEnough DEF HandlerStep

(* Requests of the API add jobs, start finished ones anew and may take the  *)
(* pipeline job out of the queue; they fail no scene.                       *)
LEMMA ReserveElsewhere ==
  ASSUME ReserveInv, UNCHANGED <<reserve, dropped, failures>>,
         \A x \in TaskIds \ {Pipeline} :
           tasks'[x] = tasks[x] \/ (~IsOpen(tasks[x]) /\ tasks'[x].st = "waiting"),
         \A s \in Scenes : SceneFailed(s)' => SceneFailed(s),
         Settled' => Settled \/ Returning',
         creating = "release" => creating' = "release",
         cancelling \in {"video", "queue", "release"} => cancelling' \in {"video", "queue", "release"}
  PROVE  ReserveInv'
<1>1. Compose \in TaskIds \ {Pipeline} /\ TasksOf("state") \subseteq TaskIds \ {Pipeline}
  BY SingleTasks DEF TasksOf, Pipeline, Compose, Task
<1>2. \A t \in TasksOf("state") : FailsJob(t)' => FailsJob(t)
  BY <1>1 DEF FailsJob, At
<1>3. Returning => Returning'
  BY <1>1 DEF Returning, IsOpen
<1> QED BY <1>2, <1>3, ReserveKeeps, ReturnedKept

LEMMA ApiReserve ==
  ASSUME TypeOK, IInv, creating # "idle", ReserveInv,
         CreateStep \/ EnqueueFails \/ CancelActive \/ CancelFailed \/ DeleteVideo \/ CancelStep \/ ApiDies
  PROVE  ReserveInv'
<1> USE DEF SceneFailed
<1>0. Pipeline \in TaskIds /\ QueueTyped(tasks)
  BY SingleTasks, TypeParts DEF TasksTyped
<1>1. CASE EnqueuePipeline
  <2>1. \A x \in TaskIds \ {Pipeline} : tasks'[x] = tasks[x]
    BY <1>0, <1>1 DEF EnqueuePipeline, Add, QueueTyped
  <2> QED BY <1>1, <2>1, ReserveElsewhere DEF EnqueuePipeline, rows, account, history, Settled
<1>2. CASE EnqueueFails
  BY <1>2, ReserveElsewhere DEF EnqueueFails, rows, queue, account, history, Settled
<1>3. CASE MarkNotEnqueued
  BY <1>3, ReserveElsewhere DEF MarkNotEnqueued, queue, account, history, Returning
<1>4. CASE ReleaseNotEnqueued \/ CancelRelease \/ ApiDies
  <2>1. Returned'
    BY <1>4, ReleaseReturns DEF ReleaseNotEnqueued, CancelRelease, ApiDies, Returned
  <2> QED BY <2>1, ReturnedEnough
<1>5. CASE CancelActive
  BY <1>5, ReserveElsewhere DEF CancelActive, queue, account, history, Returning
<1>6. CASE CancelVideo
  BY <1>6, ReserveElsewhere DEF CancelVideo, queue, account, history, Settled
<1>7. CASE CancelQueued
  <2>1. \A x \in TaskIds \ {Pipeline} : tasks'[x] = tasks[x]
    BY <1>0, <1>7, RemoveTyped DEF CancelQueued
  <2> QED BY <1>7, <2>1, ReserveElsewhere DEF CancelQueued, rows, account, history, Settled
<1>8. CASE CancelFailed
  BY <1>8, ReserveElsewhere DEF CancelFailed, rows, queue, account, history, Settled, Terminal
<1>9. CASE MarkCancelled
  BY <1>9, ReserveElsewhere DEF MarkCancelled, queue, account, history, Settled
<1>10. CASE DeleteVideo
  BY <1>10, ReserveElsewhere DEF DeleteVideo, queue, api, account, history, Settled
<1> QED BY <1>1, <1>2, <1>3, <1>4, <1>5, <1>6, <1>7, <1>8, <1>9, <1>10 DEF CreateStep, CancelStep

LEMMA RequestReserve ==
  ASSUME TypeOK, ReserveInv, NEW a \in Admins, RetryRead(a) \/ RecomposeRead(a) \/ RequestStep(a)
  PROVE  ReserveInv'
<1> USE DEF SceneFailed
<1>0. QueueTyped(tasks) /\ scene \in [Scenes -> SceneRow]
  BY TypeParts DEF TasksTyped, RowsTyped
<1>1. CASE RetryRead(a) \/ RecomposeRead(a)
  BY <1>1, ReserveElsewhere DEF RetryRead, RecomposeRead, Read, rows, queue, account, history, Settled
<1>2. CASE RetryReset(a)
  <2>1. job' \notin Terminal /\ UNCHANGED <<queue, creating, cancelling, account, history>>
    BY <1>2 DEF RetryReset, Terminal
  <2>2. \A s \in Scenes : SceneFailed(s)' => SceneFailed(s)
    BY <1>0, <1>2 DEF RetryReset, SceneRow
  <2> QED BY <2>1, <2>2, ReserveElsewhere DEF queue, account, history, Settled
<1>3. CASE RetryEnqueue(a)
  <2>1. UNCHANGED <<job, failures, creating, cancelling, account, history>>
    BY <1>3 DEF RetryEnqueue
  <2>2. \A s \in Scenes : SceneFailed(s)' => SceneFailed(s)
    BY <1>0, <1>3 DEF RetryEnqueue, SceneRow
  <2>3. PICK ids, again : tasks' = AddOrReplace(Add(tasks, ids), again) \/ tasks' = AddOrReplace(tasks, again)
    BY <1>3 DEF RetryEnqueue
  <2>4. \A x \in TaskIds : tasks'[x] = tasks[x] \/ (~IsOpen(tasks[x]) /\ tasks'[x].st = "waiting")
    <3>1. QueueTyped(Add(tasks, ids))
          /\ \A x \in TaskIds : Add(tasks, ids)[x] = tasks[x]
                \/ (~IsOpen(tasks[x]) /\ Add(tasks, ids)[x].st = "waiting")
      BY <1>0, AddTyped DEF IsOpen
    <3>2. CASE tasks' = AddOrReplace(tasks, again)
      BY <1>0, <3>2, AddOrReplaceTyped
    <3>3. CASE tasks' = AddOrReplace(Add(tasks, ids), again)
      <4>1. \A x \in TaskIds : tasks'[x] = Add(tasks, ids)[x]
              \/ (~IsOpen(Add(tasks, ids)[x]) /\ tasks'[x].st = "waiting")
        BY <3>1, <3>3, AddOrReplaceTyped
      <4> QED BY <3>1, <4>1 DEF IsOpen
    <3> QED BY <2>3, <3>2, <3>3
  <2> QED BY <2>1, <2>2, <2>4, ReserveElsewhere DEF account, history, Settled
<1>4. CASE RecomposeReset(a)
  BY <1>4, ReserveElsewhere DEF RecomposeReset, queue, account, history, Settled, Terminal
<1>5. CASE RecomposeEnqueue(a)
  <2>1. \A x \in TaskIds : tasks'[x] = tasks[x] \/ (~IsOpen(tasks[x]) /\ tasks'[x].st = "waiting")
    BY <1>0, <1>5, AddOrReplaceTyped DEF RecomposeEnqueue
  <2> QED BY <1>5, <2>1, ReserveElsewhere DEF RecomposeEnqueue, rows, account, history, Settled
<1> QED BY <1>1, <1>2, <1>3, <1>4, <1>5 DEF RequestStep

LEMMA InitReserve == Init => ReserveInv
<1> SUFFICES ASSUME Init PROVE ReserveInv
  OBVIOUS
<1>1. \A s \in Scenes : ~SceneFailed(s)
  BY DEF Init, NoScene, SceneFailed
<1>2. \A t \in TasksOf("state") : ~FailsJob(t)
  BY DEF Init, NoJob, TasksOf, FailsJob, At
<1> QED BY <1>1, <1>2 DEF Init, ReserveInv, Settled, Terminal

LEMMA NextReserve == TypeOK /\ IInv /\ ReserveInv /\ [Next]_vars => ReserveInv'
<1> SUFFICES ASSUME TypeOK, IInv, ReserveInv, [Next]_vars PROVE ReserveInv'
  OBVIOUS
<1>1. CASE Next /\ creating = "idle"
  <2>1. CreateVideoJob /\ NotCreated
    BY <1>1, OnlyCreation DEF IInv
  <2>2. \A s \in Scenes : ~SceneFailed(s)'
    BY <2>1 DEF CreateVideoJob, NotCreated, SceneFailed
  <2>3. \A t \in TasksOf("state") : ~FailsJob(t)'
    BY <2>1 DEF CreateVideoJob, NotCreated, queue, TasksOf, FailsJob, At
  <2>4. ~Settled'
    BY <2>1 DEF CreateVideoJob, NotCreated, Settled, Terminal
  <2> QED BY <2>2, <2>3, <2>4 DEF ReserveInv
<1>2. CASE Next /\ creating # "idle"
  <2>1. ~CreateVideoJob
    BY <1>2 DEF CreateVideoJob
  <2>2. ASSUME NEW t \in TaskIds, WorkerStep(t) PROVE ReserveInv'
    <3>1. \/ PipelineStep \/ GptStep \/ ComposeStep
          \/ t \in MediaTasks /\ (ImageStep(t) \/ RenderStep(t))
          \/ t \in TasksOf("state") /\ StateStep(t)
      BY <2>2 DEF WorkerStep, MediaTasks, MediaQueues, TasksOf
    <3> QED BY <1>2, <3>1, ScriptReserve, ComposeReserve, MediaReserve, StateReserve
  <2>3. ASSUME NEW t \in TasksOf("runway") \cup TasksOf("heygen"), RenderFault(t) PROVE ReserveInv'
    <3>1. t \in MediaTasks
      BY DEF MediaTasks, MediaQueues, TasksOf
    <3> QED BY <2>3, <3>1, MediaReserve
  <2> QED BY <1>2, <2>1, <2>2, <2>3, ScriptReserve, FailureReserve, ApiReserve, RequestReserve DEF Next
<1>3. CASE UNCHANGED vars
  BY <1>3 DEF vars, rows, queue, api, account, history, ReserveInv, Returned, Returning, Settled,
              FailsJob, SceneFailed, At
<1> QED BY <1>1, <1>2, <1>3

(* ReserveInv holds in every reachable state.                               *)
THEOREM ReserveInvariant == Spec => []ReserveInv
<1>1. Init => TypeOK /\ IInv /\ ReserveInv
  BY InitTypeOK, InitIInv, InitReserve
<1>2. TypeOK /\ IInv /\ ReserveInv /\ [Next]_vars => TypeOK' /\ IInv' /\ ReserveInv'
  BY NextTypeOK, NextIInv, NextReserve
<1> QED BY <1>1, <1>2, PTL DEF Spec

(* The estimate of a job that has come to rest on a final status is back    *)
(* with the tenant, whichever of the workers, handlers and requests ended   *)
(* it, unless the process or the database took the return of it away.       *)
THEOREM ReserveComesBack == Spec => []ReserveReturned
<1>1. ReserveInv => ReserveReturned
  BY SingleTasks DEF ReserveInv, ReserveReturned, Returned, Returning, Settled, Quiet
<1> QED BY <1>1, ReserveInvariant, PTL

-----------------------------------------------------------------------------
(* A completed job has its assets *)

AllUrls == \A s \in Media : scene[s].url

Covered == MissingAssets(scene) = {}

Blank == \A s \in Scenes : scene[s].status = "none" => ~scene[s].url

(* The request only composes again: it resets no scene.                     *)
Composes(a) ==
  \/ request[a].at \in {"recomposeReset", "recomposeEnqueue"}
  \/ /\ request[a].at \in {"retryReset", "retryEnqueue"}
     /\ ~NoScenesYet(request[a].scene) /\ FailedOnes(request[a].scene) = {}

GaveUp(s) == \E t \in TasksOf("image") \cup TasksOf("runway") : t.s = s /\ tasks[t].st = "failed"

(* No scene has been handed out a second time: who gave a scene up is gone, *)
(* and no other queue job of that scene is to come.                         *)
FirstRun ==
  /\ FanOutInv
  /\ \A t \in MediaTasks : Present(t) => t.n <= 1
  /\ \A t \in TasksOf("image") :
       t.n <= 1 /\ IsFrame(t) /\ Present(Runway(t.s)) => tasks[t].st = "completed"
  /\ \A f \in failures : f.t \in MediaTasks => tasks[f.t].st = "failed"
  /\ \A s \in Scenes : SceneFailed(s) /\ SceneType[s] # "avatar" => GaveUp(s)

(* While an asset is missing, only a request that composes again can have   *)
(* brought the job to compose, and all scenes are still on their first run. *)
AssetsInv ==
  /\ Blank
  /\ requests <= 1 /\ ~AllUrls =>
       /\ requests = 0 => \A a \in Admins : request[a].at = "idle"
       /\ \A a, b \in Admins : request[a].at # "idle" /\ request[b].at # "idle" => a = b
       /\ \A t \in TasksOf("state") : ~At(t, "compose") /\ ~At(t, "add")
       /\ Present(Compose) => requests = 1 /\ \A a \in Admins : request[a].at = "idle" \/ Composes(a)
       /\ requests = 0 \/ Present(Compose) \/ (\E a \in Admins : Composes(a)) => FirstRun
       /\ job = "completed" => Present(Compose)
       /\ job = "completed" \/ At(Compose, "finish") => Covered

(* A queue job that is still open belongs to a scene nobody gave up.        *)
LEMMA OpenNotFailed ==
  ASSUME FirstRun, NEW t \in MediaTasks, t.q # "heygen", IsOpen(tasks[t])
  PROVE  ~SceneFailed(t.s)
<1> SUFFICES ASSUME SceneFailed(t.s) PROVE FALSE
  OBVIOUS
<1>1. t \in TaskIds /\ t.q \in {"image", "runway"} /\ t.s \in Scenes /\ t = Task(t.q, t.s, t.n)
      /\ SceneType[t.s] # "avatar" /\ Present(t) /\ t.n <= 1
  BY TaskShape DEF MediaTasks, MediaQueues, Present, IsOpen, FirstRun
<1>2. PICK u \in TasksOf("image") \cup TasksOf("runway") : u.s = t.s /\ tasks[u].st = "failed"
  BY <1>1 DEF FirstRun, GaveUp
<1>3. /\ u \in MediaTasks /\ u \in TaskIds /\ u.q \in {"image", "runway"} /\ u = Task(u.q, u.s, u.n)
      /\ Present(u) /\ u.n <= 1 /\ u # t
  BY <1>2, TaskShape DEF TasksOf, MediaTasks, MediaQueues, Present, IsOpen, FirstRun
<1>4. t.q = u.q => t = u
  BY <1>1, <1>2, <1>3, AssetsDiffer DEF AssetOf
<1>5. ASSUME t.q = "runway", u.q = "image" PROVE FALSE
  <2>1. t = Runway(u.s) /\ IsFrame(u) /\ u \in TasksOf("image")
    BY <1>1, <1>2, <1>3, <1>5, TaskShape DEF Runway, IsFrame, TasksOf
  <2> QED BY <1>1, <1>2, <1>3, <2>1 DEF FirstRun
<1>6. ASSUME t.q = "image", u.q = "runway" PROVE FALSE
  <2>1. u = Runway(t.s) /\ IsFrame(t) /\ t \in TasksOf("image")
    BY <1>1, <1>2, <1>3, <1>6, TaskShape DEF Runway, IsFrame, TasksOf
  <2> QED BY <1>1, <1>3, <2>1 DEF FirstRun, IsOpen
<1> QED BY <1>1, <1>3, <1>4, <1>5, <1>6

(* What a step of t does to the queue: other jobs stay, a clip is added by   *)
(* the image job that is done with its frame.                               *)
Hands(t) ==
  \E ids : /\ Beside(t, ids)
           /\ \A u \in ids : \/ u.q = "state"
                             \/ u = Runway(t.s) /\ t.q = "image" /\ tasks'[t].st = "completed"

LEMMA OwnFirstRun ==
  ASSUME TypeOK, FirstRun, NEW t \in MediaTasks, IsOpen(tasks[t]), Hands(t), Present(t)',
         \A f \in failures' : f \in failures \/ (f.t = t /\ tasks'[t].st = "failed"),
         \A s \in Scenes : /\ scene[s].status # "none" => scene'[s].status # "none"
                           /\ SceneFailed(s)' => SceneFailed(s)
  PROVE  FirstRun'
<1>0. /\ t \in TaskIds /\ t.q \in MediaQueues /\ Present(t) /\ MediaTasks \subseteq TaskIds
      /\ Gpt \in TaskIds /\ Gpt # t /\ NewJob.st = "waiting" /\ t.n <= 1
  BY SingleTasksOutside DEF MediaTasks, Present, IsOpen, NewJob, NoJob, FirstRun
<1>1. PICK ids : /\ Beside(t, ids)
                 /\ \A u \in ids : \/ u.q = "state"
                                   \/ u = Runway(t.s) /\ t.q = "image" /\ tasks'[t].st = "completed"
  BY DEF Hands
<1>2. ASSUME NEW x \in TaskIds, x # t
      PROVE  /\ Present(x) => tasks'[x] = tasks[x]
             /\ ~Present(x) /\ Present(x)' => x \in ids /\ tasks'[x].st = "waiting"
             /\ tasks'[x].st = "active" => tasks'[x] = tasks[x]
  BY <1>0, <1>1, <1>2 DEF Beside, Present
<1>3. FanOutInv'
  <2>1. ~GptFansOut /\ \A s \in Scenes : scene[s].status # "none"
    BY <1>0 DEF FirstRun, FanOutInv
  <2>2. ~GptFansOut'
    BY <1>0, <1>2, <2>1 DEF GptFansOut, At
  <2> QED BY <2>1, <2>2 DEF FanOutInv
<1>4. ASSUME NEW x \in MediaTasks, ~Present(x), Present(x)'
      PROVE  x = Runway(t.s) /\ t.q = "image" /\ tasks'[t].st = "completed"
  <2>1. x \in TaskIds /\ x # t /\ x.q # "state"
    BY <1>0, <1>4 DEF MediaTasks, MediaQueues
  <2> QED BY <1>1, <1>2, <1>4, <2>1
<1>5. \A x \in MediaTasks : Present(x)' => x.n <= 1
  <2>1. Runway(t.s).n = 0
    BY DEF Runway, Task
  <2> QED BY <1>4, <2>1 DEF FirstRun
<1>6. ASSUME NEW x \in TasksOf("image"), x.n <= 1, IsFrame(x), Present(Runway(x.s))'
      PROVE  tasks'[x].st = "completed"
  <2>1. x \in TaskIds /\ x \in MediaTasks /\ x.q = "image" /\ x.s \in Scenes
    BY TaskShape DEF TasksOf, MediaTasks, MediaQueues
  <2>2. Runway(x.s) \in TaskIds /\ Runway(x.s) \in MediaTasks
    BY <1>6, <2>1 DEF IsFrame, OfType, TaskIds, MediaTasks, MediaQueues, Runway, Task
  <2>3. CASE Present(Runway(x.s))
    <3>1. tasks[x].st = "completed"
      BY <1>6, <2>3 DEF FirstRun
    <3> QED BY <1>2, <2>1, <3>1 DEF IsOpen, Present
  <2>4. CASE ~Present(Runway(x.s))
    <3>1. Runway(x.s) = Runway(t.s) /\ t.q = "image" /\ tasks'[t].st = "completed"
      BY <1>4, <1>6, <2>2, <2>4
    <3>2. x.s = t.s
      BY <3>1 DEF Runway, Task
    <3>3. x = t
      BY <1>0, <1>6, <2>1, <3>1, <3>2, AssetsDiffer DEF AssetOf
    <3> QED BY <3>1, <3>3
  <2> QED BY <2>3, <2>4
<1>7. ASSUME NEW f \in failures', f.t \in MediaTasks PROVE tasks'[f.t].st = "failed"
  <2>1. CASE f \in failures
    <3>1. tasks[f.t].st = "failed"
      BY <1>7, <2>1 DEF FirstRun
    <3> QED BY <1>0, <1>2, <1>7, <3>1 DEF Present, IsOpen
  <2> QED BY <1>7, <2>1
<1>8. ASSUME NEW s \in Scenes, SceneFailed(s)', SceneType[s] # "avatar" PROVE GaveUp(s)'
  <2>1. PICK u \in TasksOf("image") \cup TasksOf("runway") : u.s = s /\ tasks[u].st = "failed"
    BY <1>8 DEF FirstRun, GaveUp
  <2>2. tasks'[u] = tasks[u]
    BY <1>2, <2>1 DEF TasksOf, Present, IsOpen
  <2> QED BY <2>1, <2>2 DEF GaveUp
<1> QED BY <1>3, <1>5, <1>6, <1>7, <1>8 DEF FirstRun, IsFrame

-----------------------------------------------------------------------------
(* What a worker of an asset does, the provider's refusals included. *)
MediaStep(t) ==
  \/ t.q = "image" /\ ImageStep(t)
  \/ t.q \in {"runway", "heygen"} /\ (RenderStep(t) \/ RenderFault(t))

LEMMA MediaQueue ==
  ASSUME TypeOK, NEW t \in MediaTasks, MediaStep(t)
  PROVE  /\ IsOpen(tasks[t]) /\ Hands(t) /\ Present(t)'
         /\ \A f \in failures' : f \in failures \/ (f.t = t /\ tasks'[t].st = "failed")
         /\ UNCHANGED <<job, request, requests>>
<1> DEFINE Goal == /\ IsOpen(tasks[t]) /\ Hands(t) /\ Present(t)'
                   /\ \A f \in failures' : f \in failures \/ (f.t = t /\ tasks'[t].st = "failed")
                   /\ UNCHANGED <<job, request, requests>>
<1>0. /\ t \in TaskIds /\ t.q \in MediaQueues
      /\ {"call", "save", "charge", "used", "notify", "create", "poll", "saveId", "payload"} \subseteq TaskPC
      /\ QueueTyped(tasks) /\ (Waiting(t) => IsOpen(tasks[t])) /\ \A pc : At(t, pc) => IsOpen(tasks[t])
      /\ \A s : State(s).q = "state"
  BY TypeParts DEF TasksTyped, TaskPC, MediaTasks, IsOpen, Waiting, At, State, Task
<1>1. ASSUME NEW pc \in TaskPC, Step(t, pc) PROVE Hands(t) /\ Present(t)' /\ UNCHANGED failures
  BY <1>0, <1>1, QueueMoves DEF Hands, Present, At
<1>2. ASSUME Return(t) PROVE Hands(t) /\ Present(t)' /\ UNCHANGED failures
  BY <1>0, <1>2, QueueMoves DEF Hands, Present
<1>3. ASSUME NEW ids, ReturnAdding(t, ids),
             \A u \in ids : u.q = "state" \/ (u = Runway(t.s) /\ t.q = "image")
      PROVE  Hands(t) /\ Present(t)' /\ UNCHANGED failures
  BY <1>0, <1>3, QueueMoves DEF Hands, Present
<1>4. ASSUME Throw(t)
      PROVE  /\ Hands(t) /\ Present(t)'
             /\ \A f \in failures' : f \in failures \/ (f.t = t /\ tasks'[t].st = "failed")
  <2>1. /\ Beside(t, {})
        /\ \/ tasks'[t].st = "waiting" /\ UNCHANGED failures
           \/ /\ tasks'[t].st = "failed"
              /\ failures' = IF HasHandler(t) THEN failures \cup {[t |-> t, at |-> "mark"]}
                             ELSE failures
    BY <1>0, <1>4, QueueMoves
  <2>2. Hands(t) /\ Present(t)'
    BY <2>1 DEF Hands, Present
  <2>3. ASSUME NEW f \in failures' PROVE f \in failures \/ (f.t = t /\ tasks'[t].st = "failed")
    BY <2>1
  <2> QED BY <2>2, <2>3
<1>5. ASSUME NEW new, \/ new = [Goto(tasks, t, "poll") EXCEPT ![t].resumed = TRUE]
                      \/ new = [Goto(tasks, t, "create") EXCEPT ![t].resumed = FALSE],
             tasks' = new, UNCHANGED failures
      PROVE  Hands(t) /\ Present(t)' /\ UNCHANGED failures
  <2>1. /\ \A x \in TaskIds : x # t => new[x] = tasks[x]
        /\ new[t].st = "active"
    BY <1>0, <1>5, GotoResumedTyped
  <2>2. Beside(t, {})
    BY <1>5, <2>1 DEF Beside
  <2> QED BY <1>5, <2>1, <2>2 DEF Hands, Present
<1>6. CASE Charge(t) \/ AddCreditsUsed(t)
  BY <1>0, <1>1, <1>4, <1>6 DEF Charge, AddCreditsUsed, rows, api, used
<1>7. CASE ImageStart(t) /\ t.q = "image"
  <2>1. Return(t) \/ ReturnAdding(t, {State(t.s)}) \/ ReturnAdding(t, {Runway(t.s)}) \/ Step(t, "call")
    BY <1>7 DEF ImageStart
  <2>2. IsOpen(tasks[t]) /\ UNCHANGED <<job, request, requests>>
    BY <1>0, <1>7 DEF ImageStart, api, used
  <2> QED BY <1>0, <1>1, <1>2, <1>3, <1>7, <2>1, <2>2
<1>8. CASE ImageCall(t) \/ ImageSave(t)
  BY <1>0, <1>1, <1>2, <1>8 DEF ImageCall, ImageSave, rows, api, used
<1>9. CASE ImageNotify(t) /\ t.q = "image"
  <2>1. ReturnAdding(t, {IF IsFrame(t) THEN Runway(t.s) ELSE State(t.s)})
        /\ IsOpen(tasks[t]) /\ UNCHANGED <<job, request, requests>>
    BY <1>0, <1>9 DEF ImageNotify, rows, api, used
  <2> QED BY <1>0, <1>3, <1>9, <2>1
<1>10. CASE RenderStart(t)
  <2>1. \/ Return(t) \/ ReturnAdding(t, {State(s) : s \in RenderScenes(t)}) \/ Step(t, "create")
        \/ tasks' = [Goto(tasks, t, "poll") EXCEPT ![t].resumed = TRUE] /\ UNCHANGED failures
    BY <1>10 DEF RenderStart
  <2>2. IsOpen(tasks[t]) /\ UNCHANGED <<job, request, requests>>
    BY <1>0, <1>10 DEF RenderStart, api, used
  <2> QED BY <1>0, <1>1, <1>2, <1>3, <1>5, <2>1, <2>2
<1>11. CASE RenderCreate(t) \/ SaveTaskId(t) \/ PollDone(t) \/ HeygenPayload(t)
  BY <1>0, <1>1, <1>2, <1>11 DEF RenderCreate, SaveTaskId, PollDone, HeygenPayload, rows, api, used
<1>12. CASE RenderSave(t)
  BY <1>0, <1>1, <1>12 DEF RenderSave, api, used
<1>13. CASE RenderNotify(t)
  BY <1>0, <1>3, <1>13 DEF RenderNotify, rows, api, used
<1>14. CASE CreateRejected(t)
  <2>1. tasks'[t].st = "failed" /\ \A x \in TaskIds : x # t => tasks'[x] = tasks[x]
    BY <1>0, <1>14, FailForGoodTyped DEF CreateRejected
  <2>2. Beside(t, {})
    BY <2>1 DEF Beside
  <2>3. Hands(t) /\ Present(t)'
    BY <2>1, <2>2 DEF Hands, Present
  <2>4. \A f \in failures' : f \in failures \/ f.t = t
    BY <1>14 DEF CreateRejected
  <2> QED BY <1>0, <1>14, <2>1, <2>3, <2>4 DEF CreateRejected, rows, api, Fault
<1>15. CASE SaveTaskIdFails(t)
  BY <1>0, <1>1, <1>15 DEF SaveTaskIdFails, rows, api, Fault
<1>16. CASE PollGone(t)
  BY <1>0, <1>5, <1>16 DEF PollGone, api, Fault
<1> QED BY <1>6, <1>7, <1>8, <1>9, <1>10, <1>11, <1>12, <1>13, <1>14, <1>15, <1>16
        DEF MediaStep, ImageStep, RenderStep, RenderFault

(* Only a queue job that starts on a scene, or stores its provider task,    *)
(* takes a failure back without bringing the asset.                         *)
LEMMA MediaRows ==
  ASSUME TypeOK, NEW t \in MediaTasks, MediaStep(t), NEW s \in Scenes
  PROVE  /\ scene[s].status # "none" => scene'[s].status # "none"
         /\ scene[s].url => scene'[s].url
         /\ scene'[s].status = "none" => scene'[s].url = scene[s].url
         /\ SceneFailed(s)' => SceneFailed(s)
         /\ SceneFailed(s) => SceneFailed(s)' \/ scene'[s].url \/ (s = t.s /\ t.q # "heygen")
<1> USE DEF SceneFailed
<1>0. /\ scene[s] \in SceneRow /\ scene \in [Scenes -> SceneRow] /\ t.q \in MediaQueues
      /\ t.q # "heygen" => t.s \in Scenes
  BY TaskShape, TypeParts DEF MediaTasks, MediaQueues, RowsTyped
<1>1. CASE UNCHANGED scene
  BY <1>1
<1>2. CASE ImageStart(t) /\ t.q = "image"
  <2>1. scene' = scene \/ scene' = [scene EXCEPT ![t.s].status = "processing"]
    BY <1>2 DEF ImageStart
  <2> QED BY <1>0, <1>2, <2>1 DEF SceneRow
<1>3. CASE ImageSave(t)
  BY <1>0, <1>3 DEF ImageSave, SceneRow
<1>4. CASE RenderStart(t) \/ RenderSave(t)
  <2>1. scene'[s] = scene[s]
        \/ scene'[s] = [scene[s] EXCEPT !.url = TRUE, !.done = TRUE, !.status = "completed"]
    BY <1>4 DEF RenderStart, RenderSave
  <2> QED BY <1>0, <2>1 DEF SceneRow
<1>5. CASE SaveTaskId(t)
  <2>1. CASE s \in RenderScenes(t) /\ t.q = "runway"
    <3>1. s = t.s /\ scene'[s] = [scene[s] EXCEPT !.ext = TRUE, !.status = "processing"]
      BY <1>5, <2>1 DEF SaveTaskId, RenderScenes
    <3> QED BY <1>0, <2>1, <3>1 DEF SceneRow
  <2>2. CASE s \in RenderScenes(t) /\ t.q # "runway"
    <3>1. scene'[s] = [scene[s] EXCEPT !.ext = TRUE, !.status = @]
      BY <1>5, <2>2 DEF SaveTaskId
    <3> QED BY <1>0, <3>1 DEF SceneRow
  <2>3. CASE s \notin RenderScenes(t)
    BY <1>5, <2>3 DEF SaveTaskId
  <2> QED BY <2>1, <2>2, <2>3
<1>6. CASE PollGone(t)
  <2>1. scene'[s] = scene[s] \/ scene'[s] = [scene[s] EXCEPT !.ext = FALSE]
    BY <1>6 DEF PollGone
  <2> QED BY <1>0, <2>1 DEF SceneRow
<1>7. CASE Charge(t) \/ AddCreditsUsed(t) \/ ImageCall(t) \/ ImageNotify(t) \/ RenderCreate(t)
           \/ PollDone(t) \/ HeygenPayload(t) \/ RenderNotify(t) \/ CreateRejected(t) \/ SaveTaskIdFails(t)
  <2>1. UNCHANGED scene
    BY <1>7 DEF Charge, AddCreditsUsed, ImageCall, ImageNotify, RenderCreate, PollDone, HeygenPayload,
       RenderNotify, CreateRejected, SaveTaskIdFails, rows
  <2> QED BY <1>1, <2>1
<1> QED BY <1>2, <1>3, <1>4, <1>5, <1>6, <1>7 DEF MediaStep, ImageStep, RenderStep, RenderFault

LEMMA MediaFirstRun ==
  ASSUME TypeOK, FirstRun, NEW t \in MediaTasks, MediaStep(t)
  PROVE  /\ FirstRun'
         /\ \A s \in Scenes : SceneFailed(s) => SceneFailed(s)' \/ scene'[s].url
<1>1. /\ IsOpen(tasks[t]) /\ Hands(t) /\ Present(t)'
      /\ \A f \in failures' : f \in failures \/ (f.t = t /\ tasks'[t].st = "failed")
  BY MediaQueue
<1>2. FirstRun'
  BY <1>1, MediaRows, OwnFirstRun
<1>3. t.q # "heygen" => ~SceneFailed(t.s)
  BY <1>1, OpenNotFailed
<1> QED BY <1>2, <1>3, MediaRows

-----------------------------------------------------------------------------
(* Steps away from the jobs of the assets *)

LEMMA ElsewhereKeeps == GptElsewhere => (GptFansOut' => GptFansOut)
BY DEF GptElsewhere, GptFansOut, At

LEMMA OutsideFirstRun ==
  ASSUME FirstRun, MediaKept, GptFansOut' => GptFansOut,
         \A s \in Scenes : scene[s].status # "none" => scene'[s].status # "none",
         \A f \in failures' : f.t \in MediaTasks => \E g \in failures : g.t = f.t,
         \A s \in Scenes : SceneFailed(s)' => SceneFailed(s) \/ SceneType[s] = "avatar" \/ GaveUp(s)
  PROVE  FirstRun'
<1>0. \A t \in MediaTasks : tasks'[t] = tasks[t] /\ (Present(t)' <=> Present(t))
  BY DEF MediaKept, Present
<1>1. FanOutInv'
  BY <1>0 DEF FirstRun, FanOutInv
<1>2. ASSUME NEW x \in TasksOf("image"), x.n <= 1, IsFrame(x), Present(Runway(x.s))'
      PROVE  tasks'[x].st = "completed"
  <2>1. x \in TaskIds /\ x \in MediaTasks /\ x.q = "image" /\ x.s \in Scenes
    BY TaskShape DEF TasksOf, MediaTasks, MediaQueues
  <2>2. Runway(x.s) \in MediaTasks
    BY <1>2, <2>1 DEF IsFrame, OfType, TaskIds, MediaTasks, MediaQueues, Runway, Task
  <2> QED BY <1>0, <1>2, <2>1, <2>2 DEF FirstRun
<1>3. \A s \in Scenes : GaveUp(s) => GaveUp(s)'
  BY <1>0 DEF GaveUp, TasksOf, MediaTasks, MediaQueues
<1>4. \A s \in Scenes : SceneFailed(s)' /\ SceneType[s] # "avatar" => GaveUp(s)'
  BY <1>3 DEF FirstRun
<1>5. \A f \in failures' : f.t \in MediaTasks => tasks'[f.t].st = "failed"
  BY <1>0 DEF FirstRun
<1> QED BY <1>0, <1>1, <1>2, <1>4, <1>5 DEF FirstRun, IsFrame

-----------------------------------------------------------------------------
(* Of the queue a step changes nothing that leads to compose.               *)
StagesKept ==
  /\ \A t \in TasksOf("state") : tasks'[t] = tasks[t] \/ (~At(t, "compose")' /\ ~At(t, "add")')
  /\ Present(Compose)' <=> Present(Compose)
  /\ At(Compose, "finish")' => At(Compose, "finish")

UrlsGrow ==
  \A s \in Scenes :
    /\ scene[s].url => scene'[s].url
    /\ scene'[s].status = "none" => scene[s].status = "none" /\ scene'[s].url = scene[s].url

FailuresKept == \A s \in Scenes : SceneFailed(s) => SceneFailed(s)' \/ scene'[s].url

LEMMA CoveredKept == UrlsGrow /\ FailuresKept => (Covered => Covered') /\ (AllUrls => AllUrls')
<1>1. Media \subseteq Scenes
  BY DEF Media
<1> QED BY <1>1 DEF UrlsGrow, FailuresKept, Covered, AllUrls, MissingAssets, SceneFailed

LEMMA AllUrlsKept == UrlsGrow /\ AssetsInv => Blank' /\ (AllUrls => AssetsInv')
<1>1. Media \subseteq Scenes
  BY DEF Media
<1> QED BY <1>1 DEF UrlsGrow, Blank, AllUrls, AssetsInv

LEMMA AssetsStep ==
  ASSUME AssetsInv, UNCHANGED <<request, requests>>, StagesKept, UrlsGrow,
         job' = "completed" => job = "completed",
         FirstRun => FirstRun' /\ FailuresKept
  PROVE  AssetsInv'
<1>0. Blank'
  BY AllUrlsKept
<1> SUFFICES ASSUME requests <= 1, ~AllUrls' PROVE AssetsInv'
  BY <1>0 DEF AssetsInv
<1>1. ~AllUrls
  BY DEF UrlsGrow, AllUrls, Media
<1>2. /\ requests = 0 => \A a \in Admins : request[a].at = "idle"
      /\ \A a, b \in Admins : request[a].at # "idle" /\ request[b].at # "idle" => a = b
      /\ \A t \in TasksOf("state") : ~At(t, "compose") /\ ~At(t, "add")
      /\ Present(Compose) => requests = 1 /\ \A a \in Admins : request[a].at = "idle" \/ Composes(a)
      /\ requests = 0 \/ Present(Compose) \/ (\E a \in Admins : Composes(a)) => FirstRun
      /\ job = "completed" => Present(Compose)
      /\ job = "completed" \/ At(Compose, "finish") => Covered
  BY <1>1 DEF AssetsInv
<1>3. \A a : Composes(a)' <=> Composes(a)
  BY DEF Composes
<1>4. \A t \in TasksOf("state") : ~At(t, "compose")' /\ ~At(t, "add")'
  BY <1>2 DEF StagesKept, At
<1>5. At(Compose, "finish") => Present(Compose)
  BY DEF At, Present
<1>6. job' = "completed" \/ At(Compose, "finish")' => Covered'
  BY <1>2, <1>5, CoveredKept DEF StagesKept
<1>7. /\ Present(Compose)' => requests' = 1 /\ \A a \in Admins : request'[a].at = "idle" \/ Composes(a)'
      /\ requests' = 0 \/ Present(Compose)' \/ (\E a \in Admins : Composes(a)') => FirstRun'
      /\ job' = "completed" => Present(Compose)'
  BY <1>2, <1>3 DEF StagesKept
<1> QED BY <1>0, <1>2, <1>4, <1>6, <1>7 DEF AssetsInv

(* The steps that are about no asset.                                       *)
LEMMA OutsideAssets ==
  ASSUME AssetsInv, UNCHANGED <<request, requests>>, StagesKept, MediaKept, GptFansOut' => GptFansOut,
         UrlsGrow, FailuresKept, job' = "completed" => job = "completed",
         \A f \in failures' : f.t \in MediaTasks => \E g \in failures : g.t = f.t,
         FirstRun => \A s \in Scenes :
           SceneFailed(s)' => SceneFailed(s) \/ SceneType[s] = "avatar" \/ GaveUp(s)
  PROVE  AssetsInv'
<1>1. \A s \in Scenes : scene[s].status # "none" => scene'[s].status # "none"
  BY DEF UrlsGrow
<1> QED BY <1>1, OutsideFirstRun, AssetsStep

LEMMA QuietAssets ==
  ASSUME AssetsInv, UNCHANGED <<request, requests, scene>>, StagesKept, MediaKept, GptFansOut' => GptFansOut,
         job' = "completed" => job = "completed",
         \A f \in failures' : f.t \in MediaTasks => \E g \in failures : g.t = f.t
  PROVE  AssetsInv'
<1>1. FailuresKept /\ UrlsGrow /\ \A s \in Scenes : SceneFailed(s)' => SceneFailed(s)
  BY DEF FailuresKept, UrlsGrow, SceneFailed
<1> QED BY <1>1, OutsideFirstRun, AssetsStep

LEMMA StagesBeside ==
  ASSUME NEW t \in TaskIds, NEW ids, Beside(t, ids), Compose \notin ids, t # Compose,
         t.q = "state" => ~At(t, "compose")' /\ ~At(t, "add")'
  PROVE  StagesKept
<1>1. Compose \in TaskIds /\ NewJob.st = "waiting"
  BY SingleTasks DEF NewJob, NoJob
<1>2. tasks'[Compose] = tasks[Compose]
  BY <1>1 DEF Beside
<1>3. \A x \in TasksOf("state") : tasks'[x] = tasks[x] \/ (~At(x, "compose")' /\ ~At(x, "add")')
  BY <1>1 DEF Beside, TasksOf, At
<1> QED BY <1>2, <1>3 DEF StagesKept, Present, At

LEMMA MediaAssets ==
  ASSUME TypeOK, AssetsInv, NEW t \in MediaTasks, MediaStep(t)
  PROVE  AssetsInv'
<1>1. /\ Hands(t) /\ UNCHANGED <<job, request, requests>>
  BY MediaQueue
<1>2. UrlsGrow
  BY MediaRows DEF UrlsGrow
<1>3. FirstRun => FirstRun' /\ FailuresKept
  BY MediaFirstRun DEF FailuresKept
<1>4. StagesKept
  <2>1. PICK ids : Beside(t, ids) /\ \A u \in ids : u.q = "state" \/ u = Runway(t.s)
    BY <1>1 DEF Hands
  <2>2. Compose \notin ids
    BY <2>1 DEF Compose, Runway, Task
  <2>3. t \in TaskIds /\ t # Compose /\ t.q # "state"
    BY SingleTasksOutside DEF MediaTasks, MediaQueues
  <2> QED BY <2>1, <2>2, <2>3, StagesBeside
<1> QED BY <1>1, <1>2, <1>3, <1>4, AssetsStep

LEMMA ApiAssets ==
  ASSUME TypeOK, AssetsInv, CreateVideoJob \/ CreateStep \/ EnqueueFails
         \/ CancelActive \/ CancelFailed \/ DeleteVideo \/ CancelStep
  PROVE  AssetsInv'
<1>1. OutsideStep
  BY ApiOutside
<1>2. UNCHANGED <<request, requests, scene, failures>> /\ (job' = "completed" => job = "completed")
      /\ (UNCHANGED tasks \/ tasks' = Add(tasks, {Pipeline}) \/ tasks' = Remove(tasks, Pipeline))
  BY DEF CreateVideoJob, CreateStep, EnqueuePipeline, EnqueueFails, MarkNotEnqueued,
     ReleaseNotEnqueued, CancelActive, CancelFailed, DeleteVideo, CancelStep, CancelVideo,
     CancelQueued, CancelRelease, MarkCancelled, api, rows, queue, used, Fault
<1>3. QueueTyped(tasks) /\ Pipeline \in TaskIds /\ Compose \in TaskIds \ {Pipeline}
      /\ TasksOf("state") \subseteq TaskIds \ {Pipeline}
  BY SingleTasks, TypeParts DEF TasksTyped, TasksOf, Pipeline, Compose, Task
<1>4. \A x \in TaskIds \ {Pipeline} : tasks'[x] = tasks[x]
  BY <1>2, <1>3, RemoveTyped DEF Add, QueueTyped
<1>5. StagesKept
  BY <1>3, <1>4 DEF StagesKept, Present, At
<1> QED BY <1>1, <1>2, <1>5, QuietAssets, ElsewhereKeeps DEF OutsideStep

LEMMA PipelineAssets ==
  ASSUME TypeOK, AssetsInv, PipelineStep
  PROVE  AssetsInv'
<1>1. OutsideStep
  BY PipelineOutside
<1>2. UNCHANGED <<request, requests, scene, failures>> /\ (job' = "completed" => job = "completed")
  BY DEF PipelineStep, PipelineSkip, PipelineStart, PipelineClaim, PipelineVideo, PipelineEnqueue,
     Return, Step, api, rows, used
<1>3. QueueTyped(tasks) /\ Pipeline \in TaskIds /\ Gpt \in TaskIds /\ Compose \in TaskIds \ {Pipeline, Gpt}
      /\ TasksOf("state") \subseteq TaskIds \ {Pipeline, Gpt} /\ {"claim", "video", "enqueue"} \subseteq TaskPC
  BY SingleTasks, TypeParts DEF TasksTyped, TasksOf, Pipeline, Gpt, Compose, Task, TaskPC
<1>4. \A x \in TaskIds \ {Pipeline, Gpt} : tasks'[x] = tasks[x]
  <2>1. CASE PipelineEnqueue
    <3>1. /\ QueueTyped(AddOrReplace(tasks, {Gpt}))
          /\ \A x \in TaskIds : x # Gpt => AddOrReplace(tasks, {Gpt})[x] = tasks[x]
      BY <1>3, AddOrReplaceTyped
    <3> QED BY <1>3, <2>1, <3>1, CompleteTyped DEF PipelineEnqueue
  <2>2. CASE PipelineSkip \/ PipelineStart \/ PipelineClaim \/ PipelineVideo
    <3>1. Beside(Pipeline, {})
      BY <1>3, <2>2, QueueMoves DEF PipelineSkip, PipelineStart, PipelineClaim, PipelineVideo
    <3> QED BY <3>1 DEF Beside
  <2> QED BY <2>1, <2>2 DEF PipelineStep
<1>5. StagesKept
  BY <1>3, <1>4 DEF StagesKept, Present, At
<1> QED BY <1>1, <1>2, <1>5, QuietAssets, ElsewhereKeeps DEF OutsideStep

LEMMA HandlerAssets ==
  ASSUME TypeOK, AssetsInv, HandlerStep \/ \E f \in failures : HandlerFails(f)
  PROVE  AssetsInv'
<1>1. OutsideStep
  BY HandlerOutside
<1>2. ASSUME NEW f \in failures, HandlerMark(f) PROVE AssetsInv'
  <2>0. [f EXCEPT !.at = "refund"].t = f.t
    BY TypeParts DEF TasksTyped, FailureEvents
  <2>1. /\ UNCHANGED <<request, requests, tasks>> /\ job' = "failed"
        /\ \A g \in failures' : g \in failures \/ g.t = f.t
    BY <1>2, <2>0 DEF HandlerMark, api, used
  <2>2. /\ scene \in [Scenes -> SceneRow] /\ f \in FailureEvents
    BY TypeParts DEF RowsTyped, TasksTyped
  <2>3. StagesKept
    BY <2>1 DEF StagesKept, Present, At
  <2>4. FailuresKept /\ UrlsGrow
    BY <1>2, <2>2 DEF FailuresKept, UrlsGrow, SceneFailed, HandlerMark, SceneRow
  <2>5. ASSUME FirstRun, NEW s \in Scenes, SceneFailed(s)'
        PROVE  SceneFailed(s) \/ SceneType[s] = "avatar" \/ GaveUp(s)
    <3>1. SceneFailed(s) \/ (f.t.q \in {"image", "runway", "heygen"} /\ s = FailedScene(f.t))
      BY <1>2, <2>5 DEF HandlerMark, SceneFailed
    <3>2. f.t \in TaskIds
      BY <2>2 DEF FailureEvents
    <3>3. CASE f.t.q = "heygen" /\ s = FailedScene(f.t)
      BY <3>2, <3>3, TaskShape, PrimaryIsAvatar DEF FailedScene
    <3>4. CASE f.t.q \in {"image", "runway"} /\ s = FailedScene(f.t)
      <4>1. f.t \in MediaTasks /\ s = f.t.s /\ tasks[f.t].st = "failed"
        BY <2>5, <3>2, <3>4 DEF FailedScene, MediaTasks, MediaQueues, FirstRun
      <4> QED BY <3>2, <3>4, <4>1 DEF GaveUp, TasksOf
    <3> QED BY <3>1, <3>3, <3>4
  <2> QED BY <1>1, <2>1, <2>3, <2>4, <2>5, OutsideAssets, ElsewhereKeeps DEF OutsideStep
<1>3. ASSUME NEW f \in failures, HandlerRefund(f) \/ HandlerFails(f) PROVE AssetsInv'
  <2>1. UNCHANGED <<request, requests, tasks, scene, job>> /\ failures' \subseteq failures
    BY <1>3 DEF HandlerRefund, HandlerFails, rows, api, used, Fault
  <2>2. StagesKept
    BY <2>1 DEF StagesKept, Present, At
  <2> QED BY <1>1, <2>1, <2>2, QuietAssets, ElsewhereKeeps DEF OutsideStep
<1> QED BY <1>2, <1>3 DEF HandlerStep

-----------------------------------------------------------------------------
(* A step before the first queue job of a scene, or the one that adds it.   *)
LEMMA FanOutFirstRun ==
  ASSUME FirstRun, FanOutInv', \A t \in MediaTasks : ~Present(t),
         \A t \in MediaTasks : Present(t)' => t.n <= 1 /\ t.q # "runway",
         \A f \in failures' : f.t \in MediaTasks => f \in failures,
         \A s \in Scenes : SceneFailed(s)' => SceneFailed(s)
  PROVE  FirstRun'
<1>1. \A s \in Scenes : ~GaveUp(s)
  BY DEF GaveUp, TasksOf, MediaTasks, MediaQueues, Present
<1>2. \A f \in failures' : f.t \notin MediaTasks
  BY DEF FirstRun, Present
<1>3. \A s \in Scenes : SceneFailed(s)' => SceneType[s] = "avatar"
  BY <1>1 DEF FirstRun
<1>4. ASSUME NEW x \in TasksOf("image"), IsFrame(x) PROVE ~Present(Runway(x.s))'
  <2>1. x \in TaskIds /\ x.q = "image" /\ x.s \in Scenes
    BY TaskShape DEF TasksOf
  <2>2. Runway(x.s) \in MediaTasks /\ Runway(x.s).q = "runway"
    BY <1>4, <2>1 DEF IsFrame, OfType, TaskIds, MediaTasks, MediaQueues, Runway, Task
  <2> QED BY <2>2
<1> QED BY <1>2, <1>3, <1>4 DEF FirstRun, IsFrame

LEMMA FanOutMoves ==
  ASSUME TypeOK, GptFanOut \/ GptFanOutBreaks
  PROVE  /\ ~GptFansOut'
         /\ \A x \in TaskIds \ MediaTasks : x # Gpt => tasks'[x] = tasks[x]
         /\ (\A t \in MediaTasks : ~Present(t)) =>
              \A t \in MediaTasks :
                tasks'[t] = tasks[t] \/ (tasks'[t].st = "waiting" /\ t.n <= 1 /\ t.q # "runway")
<1>1. /\ QueueTyped(tasks) /\ Gpt \in TaskIds \ MediaTasks /\ MediaTasks \subseteq TaskIds
      /\ Gpt.q = "gpt"
  BY TypeParts, SingleTasksOutside DEF TasksTyped, MediaTasks, Gpt, Task
<1>2. PICK S \in SUBSET ImageScenes, T \in {{}, {Job}} :
        LET ids == NextSlots("image", S) \cup NextSlots("heygen", T) IN
        \/ tasks' = Complete(Add(tasks, ids), Gpt)
        \/ tasks' = FailAttempt(Add(tasks, ids), Gpt, Attempts["gpt"])
  <2>1. CASE GptFanOut
    BY <2>1 DEF GptFanOut, ReturnAdding, FanOut
  <2>2. CASE GptFanOutBreaks
    <3>1. PICK S \in SUBSET ImageScenes :
            tasks' = FailAttempt(Add(tasks, FanOut(S)), Gpt, Attempts["gpt"])
      BY <2>2 DEF GptFanOutBreaks
    <3>2. NextSlots("heygen", {}) = {}
      BY DEF NextSlots
    <3> QED BY <3>1, <3>2 DEF FanOut
  <2> QED BY <2>1, <2>2
<1> DEFINE ids == NextSlots("image", S) \cup NextSlots("heygen", T)
<1>3. \A t \in ids : t \in MediaTasks /\ t.q # "runway" /\ t # Gpt
  BY <1>1 DEF NextSlots, TasksOf, MediaTasks, MediaQueues
<1>4. (\A t \in MediaTasks : ~Present(t)) => \A t \in ids : t.n <= 1
  BY FirstSlots
<1>5. tasks' = Complete(Add(tasks, ids), Gpt) \/ tasks' = FailAttempt(Add(tasks, ids), Gpt, Attempts["gpt"])
  BY <1>2
<1> HIDE DEF ids
<1>6. /\ QueueTyped(Add(tasks, ids))
      /\ \A x \in TaskIds : \/ Add(tasks, ids)[x] = tasks[x]
                            \/ x \in ids /\ Add(tasks, ids)[x].st = "waiting"
  BY <1>1, AddTyped
<1>7. /\ tasks'[Gpt].st # "active"
      /\ \A x \in TaskIds : x # Gpt => tasks'[x] = Add(tasks, ids)[x]
  <2>1. CASE tasks' = Complete(Add(tasks, ids), Gpt)
    BY <1>1, <1>6, <2>1, CompleteTyped
  <2>2. CASE tasks' = FailAttempt(Add(tasks, ids), Gpt, Attempts["gpt"])
    BY <1>1, <1>6, <2>2, FailAttemptTyped
  <2> QED BY <1>5, <2>1, <2>2
<1>8. ~GptFansOut'
  BY <1>7 DEF GptFansOut, At
<1>9. \A x \in TaskIds \ MediaTasks : x # Gpt => tasks'[x] = tasks[x]
  BY <1>3, <1>6, <1>7
<1>10. ASSUME \A t \in MediaTasks : ~Present(t), NEW t \in MediaTasks
       PROVE  tasks'[t] = tasks[t] \/ (tasks'[t].st = "waiting" /\ t.n <= 1 /\ t.q # "runway")
  BY <1>1, <1>3, <1>4, <1>6, <1>7, <1>10
<1> QED BY <1>8, <1>9, <1>10

LEMMA GptAssets ==
  ASSUME TypeOK, AssetsInv, GptStep \/ GptFanOutBreaks
  PROVE  AssetsInv'
<1>0. /\ Gpt \in TaskIds \ MediaTasks /\ Gpt.q = "gpt" /\ Gpt.q \notin MediaQueues /\ Gpt # Compose
      /\ Compose \in TaskIds \ MediaTasks
      /\ {"ideaUsed", "hook", "hookUsed", "script", "scriptUsed", "scenes", "ready", "fanout"} \subseteq TaskPC
      /\ QueueTyped(tasks) /\ MediaTasks \subseteq TaskIds
  BY SingleTasksOutside, TypeParts DEF TaskPC, Gpt, Compose, Task, TasksTyped, MediaTasks
<1>1. ASSUME NEW pc \in TaskPC, Step(Gpt, pc)
      PROVE  StagesKept /\ UNCHANGED failures /\ MediaKept /\ (pc \notin {"ready", "fanout"} => GptElsewhere)
  <2>1. Beside(Gpt, {}) /\ UNCHANGED failures
    BY <1>0, <1>1, QueueMoves
  <2>2. MediaKept /\ (pc \notin {"ready", "fanout"} => GptElsewhere)
    BY <1>0, <1>1, QueueOutside
  <2> QED BY <1>0, <2>1, <2>2, StagesBeside
<1>2. ASSUME Throw(Gpt)
      PROVE  /\ StagesKept /\ MediaKept /\ GptElsewhere
             /\ \A f \in failures' : f.t \in MediaTasks => f \in failures
  <2>1. Beside(Gpt, {}) /\ \A f \in failures' : f \in failures \/ f.t = Gpt
    BY <1>2, <1>0, QueueMoves
  <2>2. MediaKept /\ GptElsewhere
    BY <1>0, <1>2, QueueOutside
  <2> QED BY <1>0, <2>1, <2>2, StagesBeside
<1>3. ASSUME NEW pc \in TaskPC \ {"ready", "fanout"}, Step(Gpt, pc) \/ Throw(Gpt),
             UNCHANGED <<request, requests, scene>>, job' = job
      PROVE  AssetsInv'
  BY <1>1, <1>2, <1>3, QuietAssets, ElsewhereKeeps
<1>4. ASSUME NEW from, NEW to \in TaskPC \ {"ready", "fanout"}, GptCharge(from, to) \/ GptUsed(from, to)
      PROVE  AssetsInv'
  BY <1>3, <1>4 DEF GptCharge, GptUsed, rows, api, used
<1>5. CASE GptHook
  <2>1. GptCharge("hook", "hookUsed")
        \/ (Step(Gpt, "script") /\ UNCHANGED <<request, requests, scene, job>>)
    BY <1>5 DEF GptHook, rows, api, used, Fault
  <2> QED BY <1>0, <1>3, <1>4, <2>1
<1>6. CASE GptIdea \/ GptScript
  <2>1. GptCharge("start", "ideaUsed") \/ GptCharge("script", "scriptUsed")
    BY <1>6 DEF GptIdea, GptScript
  <2> QED BY <1>0, <1>4, <2>1
<1>7. CASE GptUsed("ideaUsed", "hook") \/ GptUsed("hookUsed", "script") \/ GptUsed("scriptUsed", "scenes")
  BY <1>0, <1>4, <1>7
<1>8. CASE GptScenes
  <2>1. UNCHANGED <<request, requests, job>>
    BY <1>8 DEF GptScenes, api, used
  <2>2. CASE Throw(Gpt) /\ UNCHANGED scene
    BY <1>0, <1>3, <2>1, <2>2
  <2>3. CASE /\ \A s \in Scenes : scene[s].status = "none"
             /\ scene' = [s \in Scenes |-> [NoScene EXCEPT !.status = "pending"]]
             /\ Step(Gpt, "ready")
    <3>1. StagesKept /\ UNCHANGED failures /\ MediaKept
      BY <1>0, <1>1, <2>3
    <3>2. MediaTasks # {} => Scenes # {}
      <4>1. Avatars \subseteq Scenes
        BY DEF Avatars, OfType
      <4> QED BY <4>1, TaskShape DEF MediaTasks, MediaQueues
    <3>3. ASSUME FirstRun PROVE FirstRun'
      <4>1. \A t \in MediaTasks : ~Present(t) /\ ~Present(t)'
        BY <2>3, <3>1, <3>2, <3>3 DEF FirstRun, FanOutInv, MediaKept, Present
      <4>2. \A s \in Scenes : scene'[s].status = "pending"
        BY <2>3 DEF NoScene
      <4>3. FanOutInv'
        BY <4>1, <4>2 DEF FanOutInv
      <4> QED BY <3>1, <3>3, <4>1, <4>2, <4>3, FanOutFirstRun DEF SceneFailed
    <3>4. UrlsGrow
      BY <2>3 DEF UrlsGrow, AssetsInv, Blank, NoScene
    <3>5. FailuresKept
      BY <2>3 DEF FailuresKept, SceneFailed
    <3> QED BY <2>1, <3>1, <3>3, <3>4, <3>5, AssetsStep
  <2> QED BY <1>8, <2>2, <2>3 DEF GptScenes
<1>9. CASE GptReady
  <2>1. Step(Gpt, "fanout") /\ UNCHANGED <<request, requests, scene>> /\ job' = "scenes_ready" /\ GptFansOut
    BY <1>9 DEF GptReady, api, used, GptFansOut
  <2> QED BY <1>0, <1>1, <2>1, QuietAssets
<1>10. CASE GptFanOut \/ GptFanOutBreaks
  <2>1. /\ UNCHANGED <<request, requests, scene, job>>
        /\ \A f \in failures' : f \in failures \/ f.t = Gpt
        /\ GptFansOut
    BY <1>10 DEF GptFanOut, GptFanOutBreaks, ReturnAdding, rows, api, used, Fault, GptFansOut
  <2>2. StagesKept
    BY <1>0, <1>10, FanOutMoves DEF StagesKept, Present, At, TasksOf, MediaTasks, MediaQueues
  <2>3. ASSUME FirstRun PROVE FirstRun'
    <3>1. \A t \in MediaTasks : ~Present(t)
      BY <2>1, <2>3 DEF FirstRun, FanOutInv
    <3>2. ~GptFansOut' /\ \A t \in MediaTasks : Present(t)' => t.n <= 1 /\ t.q # "runway"
      BY <1>10, <3>1, FanOutMoves DEF Present
    <3>3. FanOutInv'
      BY <2>1, <2>3, <3>2 DEF FirstRun, FanOutInv
    <3>4. \A f \in failures' : f.t \in MediaTasks => f \in failures
      BY <1>0, <2>1
    <3>5. \A s \in Scenes : SceneFailed(s)' => SceneFailed(s)
      BY <2>1 DEF SceneFailed
    <3> QED BY <2>3, <3>1, <3>2, <3>3, <3>4, <3>5, FanOutFirstRun
  <2>4. UrlsGrow /\ FailuresKept
    BY <2>1 DEF UrlsGrow, FailuresKept, SceneFailed
  <2> QED BY <2>1, <2>2, <2>3, <2>4, AssetsStep
<1> QED BY <1>5, <1>6, <1>7, <1>8, <1>9, <1>10 DEF GptStep

LEMMA StateAssets ==
  ASSUME TypeOK, AssetsInv, NEW t \in TasksOf("state"), StateStep(t)
  PROVE  AssetsInv'
<1>0. /\ t \in TaskIds /\ t.q = "state" /\ t.q \notin MediaQueues /\ t # Compose /\ t # Gpt /\ t.s \in Scenes
      /\ scene \in [Scenes -> SceneRow] /\ {"fail", "refund", "compose", "add"} \subseteq TaskPC
  BY TaskShape, TypeParts DEF TasksOf, RowsTyped, TaskPC, Compose, Gpt, Task, MediaQueues
<1>1. ASSUME NEW pc \in TaskPC, Step(t, pc)
      PROVE  MediaKept /\ GptElsewhere /\ UNCHANGED failures
             /\ (pc \notin {"compose", "add"} => StagesKept)
  <2>1. Beside(t, {}) /\ At(t, pc)' /\ UNCHANGED failures
    BY <1>0, <1>1, QueueMoves
  <2>2. pc \notin {"compose", "add"} => StagesKept
    BY <1>0, <2>1, StagesBeside DEF At
  <2> QED BY <1>0, <1>1, <2>1, <2>2, QueueOutside
<1>2. ASSUME Return(t) PROVE MediaKept /\ GptElsewhere /\ UNCHANGED failures /\ StagesKept
  <2>1. Beside(t, {}) /\ tasks'[t].st = "completed" /\ UNCHANGED failures
    BY <1>0, <1>2, QueueMoves
  <2>2. StagesKept
    BY <1>0, <2>1, StagesBeside DEF At
  <2> QED BY <1>0, <1>2, <2>1, <2>2, QueueOutside
<1>3. CASE StateCheck(t)
  <2>1. UNCHANGED <<request, requests, job>> /\ scene' = [scene EXCEPT ![t.s].done = TRUE]
    BY <1>3 DEF StateCheck, api, used
  <2>2. UrlsGrow /\ FailuresKept /\ \A s \in Scenes : SceneFailed(s)' => SceneFailed(s)
    BY <1>0, <2>1 DEF UrlsGrow, FailuresKept, SceneFailed, SceneRow
  <2>3. CASE Return(t) \/ Step(t, "fail")
    BY <1>0, <1>1, <1>2, <2>1, <2>2, <2>3, OutsideAssets, ElsewhereKeeps
  <2>4. CASE /\ \A s \in Scenes : SceneDone([scene EXCEPT ![t.s].done = TRUE][s], s)
             /\ \A s \in Scenes : ~SceneFailed(s)
    <3>1. AllUrls
      BY <1>0, <2>4 DEF AllUrls, Media, OfType, SceneDone, SceneFailed, SceneRow
    <3> QED BY <2>2, <3>1, AllUrlsKept
  <2> QED BY <1>3, <2>3, <2>4 DEF StateCheck
<1>4. CASE StateFail(t)
  <2>1. UNCHANGED <<request, requests, scene>> /\ job' = "failed" /\ Step(t, "refund")
    BY <1>4 DEF StateFail, api, used
  <2> QED BY <1>0, <1>1, <2>1, QuietAssets, ElsewhereKeeps
<1>5. CASE StateRefund(t)
  <2>1. UNCHANGED <<request, requests, scene, job>> /\ Return(t)
    BY <1>5 DEF StateRefund, rows, api, used
  <2> QED BY <1>2, <2>1, QuietAssets, ElsewhereKeeps
<1>6. CASE StateCompose(t) \/ StateAdd(t)
  <2>1. UNCHANGED <<requests, scene>> /\ (At(t, "compose") \/ At(t, "add"))
    BY <1>6 DEF StateCompose, StateAdd, rows, used
  <2> QED BY <2>1 DEF AssetsInv, AllUrls, Blank
<1> QED BY <1>3, <1>4, <1>5, <1>6 DEF StateStep

LEMMA ComposeAssets ==
  ASSUME TypeOK, AssetsInv, ComposeStep
  PROVE  AssetsInv'
<1>0. /\ Compose \in TaskIds /\ Compose.q = "compose" /\ Compose.q \notin MediaQueues /\ Compose # Gpt
      /\ {"finish", "settle"} \subseteq TaskPC /\ Present(Compose)
      /\ TasksOf("state") \subseteq TaskIds \ {Compose} /\ Compose \notin MediaTasks
  BY SingleTasksOutside DEF ComposeStep, ComposeStart, ComposeFinish, ComposeSettle, Waiting, At, Present,
     Compose, Gpt, Task, TaskPC, MediaQueues, TasksOf, MediaTasks
<1>1. ASSUME NEW ids, Beside(Compose, ids), ids = {}
      PROVE  \A x \in TasksOf("state") : tasks'[x] = tasks[x]
  BY <1>0, <1>1 DEF Beside
<1>2. ASSUME NEW pc \in TaskPC, Step(Compose, pc)
      PROVE  MediaKept /\ GptElsewhere /\ UNCHANGED failures /\ At(Compose, pc)'
             /\ \A x \in TasksOf("state") : tasks'[x] = tasks[x]
  <2>1. Beside(Compose, {}) /\ At(Compose, pc)' /\ UNCHANGED failures
    BY <1>0, <1>2, QueueMoves
  <2> QED BY <1>0, <1>1, <1>2, <2>1, QueueOutside
<1>3. CASE ComposeStart
  <2>1. UNCHANGED <<request, requests, scene, job>>
    BY <1>3 DEF ComposeStart, rows, api, used
  <2>2. CASE Throw(Compose)
    <3>1. Beside(Compose, {}) /\ tasks'[Compose].st \in {"waiting", "failed"}
          /\ \A f \in failures' : f \in failures \/ f.t = Compose
      BY <1>0, <2>2, QueueMoves
    <3>2. StagesKept
      BY <1>0, <1>1, <3>1 DEF StagesKept, Present, At
    <3>3. MediaKept /\ GptElsewhere
      BY <1>0, <2>2, QueueOutside
    <3> QED BY <1>0, <2>1, <3>1, <3>2, <3>3, QuietAssets, ElsewhereKeeps
  <2>3. CASE Step(Compose, "finish") /\ Covered
    <3>1. /\ MediaKept /\ GptElsewhere /\ UNCHANGED failures /\ At(Compose, "finish")'
          /\ \A x \in TasksOf("state") : tasks'[x] = tasks[x]
      BY <1>0, <1>2, <2>3
    <3>2. FirstRun => FirstRun'
      BY <2>1, <3>1, OutsideFirstRun, ElsewhereKeeps DEF SceneFailed
    <3> QED BY <1>0, <2>1, <2>3, <3>1, <3>2
            DEF AssetsInv, Blank, AllUrls, Covered, Present, At, Composes, MissingAssets
  <2> QED BY <1>3, <2>2, <2>3 DEF ComposeStart, Covered
<1>4. CASE ComposeFinish
  <2>1. UNCHANGED <<request, requests, scene>> /\ Step(Compose, "settle") /\ At(Compose, "finish")
    BY <1>4 DEF ComposeFinish, api, used
  <2>2. /\ MediaKept /\ GptElsewhere /\ UNCHANGED failures /\ At(Compose, "settle")'
        /\ \A x \in TasksOf("state") : tasks'[x] = tasks[x]
    BY <1>0, <1>2, <2>1
  <2>3. FirstRun => FirstRun'
    BY <2>1, <2>2, OutsideFirstRun, ElsewhereKeeps DEF SceneFailed
  <2> QED BY <1>0, <2>1, <2>2, <2>3
          DEF AssetsInv, Blank, AllUrls, Covered, Present, At, Composes, MissingAssets
<1>5. CASE ComposeSettle
  <2>1. UNCHANGED <<request, requests, scene, job>> /\ Return(Compose)
    BY <1>5 DEF ComposeSettle, rows, api, used
  <2>2. Beside(Compose, {}) /\ tasks'[Compose].st = "completed" /\ UNCHANGED failures
    BY <1>0, <2>1, QueueMoves
  <2>3. StagesKept
    BY <1>0, <1>1, <2>2 DEF StagesKept, Present, At
  <2>4. MediaKept /\ GptElsewhere
    BY <1>0, <2>1, QueueOutside
  <2> QED BY <2>1, <2>2, <2>3, <2>4, QuietAssets, ElsewhereKeeps
<1> QED BY <1>3, <1>4, <1>5 DEF ComposeStep

-----------------------------------------------------------------------------
(* Attempts that throw, the death of the orchestrator *)

LEMMA FailureAssets ==
  ASSUME TypeOK, AssetsInv, NEW t \in TaskIds, AttemptFails(t)
  PROVE  AssetsInv'
<1>1. UNCHANGED <<request, requests, scene, job>> /\ Throw(t) /\ IsOpen(tasks[t])
  <2>1. UNCHANGED <<request, scene, job>> /\ Throw(t) /\ IsOpen(tasks[t])
    BY DEF AttemptFails, rows, api
  <2> QED BY <2>1 DEF AttemptFails, Fault
<1>2. /\ Beside(t, {}) /\ tasks'[t].st \in {"waiting", "failed"}
      /\ \A f \in failures' : f \in failures \/ (f.t = t /\ tasks'[t].st = "failed")
  BY <1>1, QueueMoves
<1>3. StagesKept
  <2>1. \A x \in TaskIds : \/ tasks'[x] = tasks[x]
                           \/ x = t /\ IsOpen(tasks[x]) /\ tasks'[x].st \in {"waiting", "failed"}
    BY <1>1, <1>2 DEF Beside
  <2> QED BY <2>1, SingleTasks DEF StagesKept, Present, At, IsOpen, TasksOf
<1>4. CASE t \in MediaTasks
  <2>1. Hands(t) /\ Present(t)'
    BY <1>2 DEF Hands, Present
  <2>2. FirstRun => FirstRun'
    BY <1>1, <1>2, <1>4, <2>1, OwnFirstRun DEF SceneFailed
  <2>3. UrlsGrow /\ FailuresKept
    BY <1>1 DEF UrlsGrow, FailuresKept, SceneFailed
  <2> QED BY <1>1, <1>3, <2>2, <2>3, AssetsStep
<1>5. CASE t \notin MediaTasks
  <2>1. MediaKept /\ GptElsewhere
    BY <1>1, <1>5, QueueOutside DEF MediaTasks
  <2>2. \A f \in failures' : f.t \in MediaTasks => f \in failures
    BY <1>2, <1>5
  <2> QED BY <1>1, <1>3, <2>1, <2>2, QuietAssets, ElsewhereKeeps
<1> QED BY <1>4, <1>5

LEMMA OrchestratorDiesAssets ==
  ASSUME TypeOK, AssetsInv, OrchestratorDies
  PROVE  AssetsInv'
<1>1. /\ UNCHANGED <<request, requests, scene, job>> /\ tasks' = Stall(tasks)
      /\ failures' = {[t |-> t, at |-> "mark"] :
                        t \in {u \in TaskIds : StallAgain(tasks[u]) /\ HasHandler(u)}}
      /\ QueueTyped(tasks) /\ MediaTasks \subseteq TaskIds /\ {Gpt, Compose} \subseteq TaskIds
  BY TypeParts, SingleTasks DEF OrchestratorDies, rows, api, TasksTyped, MediaTasks
<1>2. \A x \in TaskIds : \/ tasks'[x] = tasks[x] /\ tasks[x].st # "active"
                         \/ tasks[x].st = "active" /\ tasks'[x].st \in {"waiting", "failed"}
  BY <1>1, StallTyped
<1>3. \A x \in TaskIds : (Present(x)' <=> Present(x)) /\ \A pc : ~At(x, pc)'
  BY <1>2 DEF Present, At
<1>4. StagesKept
  BY <1>1, <1>3 DEF StagesKept, TasksOf
<1>5. ASSUME NEW x \in TaskIds, StallAgain(tasks[x]) PROVE tasks'[x].st = "failed"
  <2>1. tasks[x] \in QueueJob(TaskPC, Attempts[x.q]) /\ x \in DOMAIN tasks
    BY <1>1 DEF QueueTyped
  <2>2. tasks'[x] = [tasks[x] EXCEPT !.st = "failed", !.stalls = 1, !.pc = "start", !.resumed = FALSE]
    BY <1>1, <1>5, <2>1 DEF Stall, StallAgain
  <2> QED BY <2>1, <2>2 DEF QueueJob
<1>6. ASSUME FirstRun PROVE FirstRun'
  <2>1. FanOutInv'
    BY <1>1, <1>3, <1>6 DEF FirstRun, FanOutInv, GptFansOut
  <2>2. ASSUME NEW x \in TasksOf("image"), x.n <= 1, IsFrame(x), Present(Runway(x.s))'
        PROVE  tasks'[x].st = "completed"
    <3>1. x \in TaskIds /\ x.q = "image" /\ x.s \in Scenes
      BY TaskShape DEF TasksOf
    <3>2. Runway(x.s) \in TaskIds
      BY <2>2, <3>1 DEF IsFrame, OfType, TaskIds
    <3> QED BY <1>2, <1>3, <1>6, <2>2, <3>1, <3>2 DEF FirstRun
  <2>3. \A f \in failures' : f.t \in MediaTasks => tasks'[f.t].st = "failed"
    BY <1>1, <1>5
  <2>4. \A s \in Scenes : GaveUp(s) => GaveUp(s)'
    BY <1>2 DEF GaveUp, TasksOf
  <2>5. \A s \in Scenes : SceneFailed(s)' /\ SceneType[s] # "avatar" => GaveUp(s)'
    BY <1>1, <1>6, <2>4 DEF FirstRun, SceneFailed
  <2> QED BY <1>1, <1>3, <1>6, <2>1, <2>2, <2>3, <2>5 DEF FirstRun, IsFrame
<1>7. UrlsGrow /\ FailuresKept
  BY <1>1 DEF UrlsGrow, FailuresKept, SceneFailed
<1> QED BY <1>1, <1>4, <1>6, <1>7, AssetsStep

-----------------------------------------------------------------------------
(* Requests of the admin, and the death of the API that takes them along    *)

(* FirstRun of a step that leaves the scenes and the jobs of their assets.  *)
LEMMA SameFirstRun ==
  ASSUME FirstRun, UNCHANGED <<scene, failures>>, MediaKept, GptElsewhere
  PROVE  FirstRun'
BY OutsideFirstRun, ElsewhereKeeps DEF SceneFailed

LEMMA ReadAssets ==
  ASSUME TypeOK, AssetsInv, NEW a \in Admins, RetryRead(a) \/ RecomposeRead(a)
  PROVE  AssetsInv'
<1>1. /\ requests' = requests + 1 /\ requests \in Nat /\ UNCHANGED <<job, scene, tasks, failures>>
      /\ \A b \in Admins : b # a => request'[b] = request[b]
  BY PipelineAssumption, TypeParts DEF RetryRead, RecomposeRead, Read, rows, queue, UsedTyped, ApiTyped
<1>2. Blank'
  BY <1>1 DEF AssetsInv, Blank
<1> SUFFICES ASSUME requests' <= 1, ~AllUrls' PROVE AssetsInv'
  BY <1>2 DEF AssetsInv
<1>3. requests = 0 /\ requests' = 1 /\ ~AllUrls
  BY <1>1 DEF AllUrls
<1>4. /\ \A b \in Admins : request[b].at = "idle"
      /\ FirstRun /\ ~Present(Compose) /\ job # "completed"
      /\ \A t \in TasksOf("state") : ~At(t, "compose") /\ ~At(t, "add")
  BY <1>3 DEF AssetsInv
<1>5. FirstRun'
  BY <1>1, <1>4, SameFirstRun, KeptQueueOutside
<1>6. ~Present(Compose)' /\ ~At(Compose, "finish")' /\ job' # "completed"
      /\ \A t \in TasksOf("state") : ~At(t, "compose")' /\ ~At(t, "add")'
  BY <1>1, <1>4 DEF Present, At
<1>7. \A b, c \in Admins : request'[b].at # "idle" /\ request'[c].at # "idle" => b = c
  BY <1>1, <1>4
<1> QED BY <1>2, <1>3, <1>5, <1>6, <1>7 DEF AssetsInv

(* A request that redoes scenes, or all of them, comes before compose; from *)
(* then on it is not known who works on a scene.                            *)
LEMMA RedoAssets ==
  ASSUME TypeOK, AssetsInv, NEW a \in Admins, request[a].at # "idle", ~Composes(a),
         UNCHANGED requests, UrlsGrow, job' # "completed" \/ job' = job,
         \A b \in Admins : b # a => request'[b] = request[b],
         request'[a].at = "idle" \/ ~Composes(a)',
         StagesKept
  PROVE  AssetsInv'
<1>1. Blank'
  BY AllUrlsKept
<1> SUFFICES ASSUME requests <= 1, ~AllUrls' PROVE AssetsInv'
  BY <1>1 DEF AssetsInv
<1>2. ~AllUrls
  BY DEF UrlsGrow, AllUrls, Media
<1>3. /\ requests # 0 /\ \A b \in Admins : request[b].at # "idle" => a = b
      /\ \A t \in TasksOf("state") : ~At(t, "compose") /\ ~At(t, "add")
      /\ ~Present(Compose) /\ job # "completed"
  BY <1>2 DEF AssetsInv
<1>4. \A b \in Admins : b # a => request'[b].at = "idle" /\ ~Composes(b)'
  BY <1>3 DEF Composes
<1>5. ~Present(Compose)' /\ ~At(Compose, "finish")' /\ job' # "completed"
      /\ \A t \in TasksOf("state") : ~At(t, "compose")' /\ ~At(t, "add")'
  BY <1>3 DEF StagesKept, Present, At
<1>6. ~Composes(a)'
  BY DEF Composes
<1> QED BY <1>1, <1>3, <1>4, <1>5, <1>6 DEF AssetsInv

(* A request that composes again leaves the scenes as they are.             *)
LEMMA ComposeAgainAssets ==
  ASSUME TypeOK, AssetsInv, NEW a \in Admins, Composes(a),
         UNCHANGED <<requests, scene, failures>>, job' # "completed" \/ job' = job,
         \A b \in Admins : b # a => request'[b] = request[b],
         \/ request'[a].at = "idle"
         \/ Composes(a)' /\ UNCHANGED tasks,
         \A x \in TaskIds : x # Compose => tasks'[x] = tasks[x],
         tasks'[Compose] = tasks[Compose] \/ tasks'[Compose].st = "waiting"
  PROVE  AssetsInv'
<1>0. Compose \in TaskIds \ MediaTasks /\ Gpt \in TaskIds /\ Gpt # Compose /\ MediaTasks \subseteq TaskIds
      /\ TasksOf("state") \subseteq TaskIds \ {Compose}
  BY SingleTasksOutside DEF MediaTasks, TasksOf, Compose, Task
<1>1. Blank'
  BY DEF AssetsInv, Blank
<1> SUFFICES ASSUME requests <= 1, ~AllUrls PROVE AssetsInv'
  BY <1>1 DEF AssetsInv, AllUrls
<1>2. request[a].at # "idle"
  BY DEF Composes
<1>3. /\ requests # 0 /\ requests <= 1 /\ \A b \in Admins : request[b].at # "idle" => a = b
      /\ \A t \in TasksOf("state") : ~At(t, "compose") /\ ~At(t, "add")
      /\ FirstRun
      /\ job = "completed" => Present(Compose)
      /\ job = "completed" \/ At(Compose, "finish") => Covered
  BY <1>2 DEF AssetsInv
<1>4. requests = 1
  BY <1>3, TypeParts, PipelineAssumption DEF UsedTyped
<1>5. FirstRun'
  BY <1>0, <1>3, SameFirstRun DEF MediaKept, GptElsewhere
<1>6. /\ \A t \in TasksOf("state") : ~At(t, "compose")' /\ ~At(t, "add")'
      /\ Present(Compose) => Present(Compose)'
      /\ At(Compose, "finish")' => At(Compose, "finish")
  BY <1>0, <1>3 DEF At, Present
<1>7. \A b \in Admins : request'[b].at = "idle" \/ (b = a /\ Composes(a)')
  BY <1>3
<1>8. Covered => Covered'
  BY DEF Covered, MissingAssets
<1> QED BY <1>1, <1>3, <1>4, <1>5, <1>6, <1>7, <1>8 DEF AssetsInv

-----------------------------------------------------------------------------
(* ... what a request writes, and what it enqueues *)

LEMMA ResetAssets ==
  ASSUME TypeOK, AssetsInv, NEW a \in Admins, RetryReset(a) \/ RecomposeReset(a)
  PROVE  AssetsInv'
<1>1. /\ UNCHANGED <<requests, tasks, failures>> /\ job' # "completed"
      /\ request \in [Admins -> [at : RequestPC, scene : [Scenes -> SceneRow], avatar : BOOLEAN]]
      /\ scene \in [Scenes -> SceneRow]
  BY TypeParts DEF RetryReset, RecomposeReset, queue, used, ApiTyped, RowsTyped
<1>2. /\ request'[a].at \in {"retryEnqueue", "recomposeEnqueue"} /\ request'[a].scene = request[a].scene
      /\ request'[a].at = "retryEnqueue" <=> request[a].at = "retryReset"
      /\ request'[a].at = "recomposeEnqueue" <=> request[a].at = "recomposeReset"
      /\ request[a].at \in {"retryReset", "recomposeReset"}
      /\ \A b \in Admins : b # a => request'[b] = request[b]
  BY <1>1 DEF RetryReset, RecomposeReset
<1>3. (Composes(a)' <=> Composes(a)) /\ request[a].at # "idle"
  BY <1>2 DEF Composes
<1>4. CASE Composes(a)
  <2>1. UNCHANGED scene
    BY <1>4 DEF Composes, RetryReset, RecomposeReset
  <2> QED BY <1>1, <1>2, <1>3, <1>4, <2>1, ComposeAgainAssets
<1>5. CASE ~Composes(a)
  <2>1. UrlsGrow
    <3>1. \A s \in Scenes : scene'[s] = scene[s] \/ scene'[s] = [scene[s] EXCEPT !.status = "pending"]
      BY DEF RetryReset, RecomposeReset
    <3> QED BY <1>1, <3>1 DEF UrlsGrow, SceneRow
  <2>2. StagesKept
    BY <1>1 DEF StagesKept, Present, At
  <2> QED BY <1>1, <1>2, <1>3, <1>5, <2>1, <2>2, RedoAssets
<1> QED BY <1>4, <1>5

LEMMA EnqueueAssets ==
  ASSUME TypeOK, AssetsInv, NEW a \in Admins, RetryEnqueue(a) \/ RecomposeEnqueue(a)
  PROVE  AssetsInv'
<1>0. /\ Compose \in TaskIds /\ Pipeline \in TaskIds /\ Pipeline # Compose /\ QueueTyped(tasks)
      /\ TasksOf("state") \subseteq TaskIds \ {Pipeline, Compose}
  BY SingleTasks, TypeParts DEF TasksTyped, Pipeline, Compose, Task, TasksOf
<1>1. /\ UNCHANGED <<requests, failures, job>> /\ request[a].at \in {"retryEnqueue", "recomposeEnqueue"}
      /\ request' = [request EXCEPT ![a] = NoRequest] /\ NoRequest.at = "idle"
      /\ request \in [Admins -> [at : RequestPC, scene : [Scenes -> SceneRow], avatar : BOOLEAN]]
      /\ scene \in [Scenes -> SceneRow]
  BY TypeParts DEF RetryEnqueue, RecomposeEnqueue, rows, used, ApiTyped, RowsTyped, NoRequest
<1>2. request'[a].at = "idle" /\ \A b \in Admins : b # a => request'[b] = request[b]
  BY <1>1
<1>3. CASE Composes(a)
  <2>1. tasks' = AddOrReplace(tasks, {Compose})
    BY <1>3 DEF Composes, RetryEnqueue, RecomposeEnqueue
  <2>2. UNCHANGED scene
    <3>1. CASE RecomposeEnqueue(a)
      BY <3>1 DEF RecomposeEnqueue, rows
    <3>2. CASE RetryEnqueue(a)
      <4>1. FailedOnes(request[a].scene) = {}
        BY <1>3, <3>2 DEF Composes, RetryEnqueue
      <4>2. ReuseAvatars(a) = {} /\ HaveAsset(a) = {}
        BY <4>1 DEF ReuseAvatars, HaveAsset
      <4>3. scene' = [s \in Scenes |-> scene[s]]
        BY <3>2, <4>2 DEF RetryEnqueue
      <4> QED BY <1>1, <4>3
    <3> QED BY <3>1, <3>2
  <2>3. \A x \in TaskIds : tasks'[x] = tasks[x] \/ (x = Compose /\ tasks'[x].st = "waiting")
    BY <1>0, <2>1, AddOrReplaceTyped
  <2> QED BY <1>0, <1>1, <1>2, <1>3, <2>2, <2>3, ComposeAgainAssets
<1>4. CASE ~Composes(a)
  <2>1. RetryEnqueue(a) /\ ~(~NoScenesYet(request[a].scene) /\ FailedOnes(request[a].scene) = {})
    BY <1>1, <1>4 DEF Composes, RecomposeEnqueue
  <2>2. UrlsGrow
    <3>1. \A s \in Scenes :
            \/ scene'[s] = scene[s]
            \/ scene'[s] = [scene[s] EXCEPT !.url = TRUE, !.done = TRUE, !.status = "completed"]
            \/ scene'[s] = [scene[s] EXCEPT !.status = "completed"]
      BY <2>1 DEF RetryEnqueue
    <3>2. \A s \in Scenes :
            /\ scene[s].url => scene'[s].url
            /\ scene'[s].status = "none" => scene[s].status = "none" /\ scene'[s].url = scene[s].url
      <4> SUFFICES ASSUME NEW s \in Scenes
                   PROVE  /\ scene[s].url => scene'[s].url
                          /\ scene'[s].status = "none"
                               => scene[s].status = "none" /\ scene'[s].url = scene[s].url
        OBVIOUS
      <4>1. scene[s] \in SceneRow
        BY <1>1
      <4>2. /\ [scene[s] EXCEPT !.url = TRUE, !.done = TRUE, !.status = "completed"].url
            /\ [scene[s] EXCEPT !.url = TRUE, !.done = TRUE, !.status = "completed"].status = "completed"
            /\ [scene[s] EXCEPT !.status = "completed"].url = scene[s].url
            /\ [scene[s] EXCEPT !.status = "completed"].status = "completed"
        BY <4>1 DEF SceneRow
      <4> QED BY <3>1, <4>2
    <3> QED BY <3>2 DEF UrlsGrow
  <2>3. StagesKept
    <3>1. CASE NoScenesYet(request[a].scene)
      <4>1. tasks' = AddOrReplace(tasks, {Pipeline})
        BY <2>1, <3>1 DEF RetryEnqueue
      <4>2. \A x \in TaskIds : x # Pipeline => tasks'[x] = tasks[x]
        BY <1>0, <4>1, AddOrReplaceTyped
      <4> QED BY <1>0, <4>2 DEF StagesKept, Present, At
    <3>2. CASE ~NoScenesYet(request[a].scene)
      <4>1. PICK ids, again :
              /\ tasks' = AddOrReplace(Add(tasks, ids), again)
              /\ ids = NextSlots("image", RedoImages(a))
                         \cup IF RedoAvatars(a) THEN NextSlots("heygen", {Job}) ELSE {}
              /\ again = {State(s) : s \in ReuseAvatars(a) \cup HaveAsset(a)}
                           \cup {Runway(s) : s \in HaveFrame(a)}
        BY <2>1, <3>2 DEF RetryEnqueue
      <4>2. \A x \in ids : x.q \in {"image", "heygen"}
        BY <4>1 DEF NextSlots, TasksOf
      <4>3. Compose \notin again /\ Compose \notin ids
        BY <4>1, <4>2 DEF Compose, State, Runway, Task
      <4>4. QueueTyped(Add(tasks, ids))
            /\ \A x \in TaskIds : Add(tasks, ids)[x] = tasks[x]
                                  \/ (x \in ids /\ Add(tasks, ids)[x].st = "waiting")
        BY <1>0, AddTyped
      <4>5. \A x \in TaskIds : tasks'[x] = Add(tasks, ids)[x] \/ (x \in again /\ tasks'[x].st = "waiting")
        BY <4>1, <4>4, AddOrReplaceTyped
      <4>6. tasks'[Compose] = tasks[Compose]
            /\ \A x \in TasksOf("state") : tasks'[x] = tasks[x] \/ tasks'[x].st = "waiting"
        BY <1>0, <4>3, <4>4, <4>5
      <4> QED BY <4>6 DEF StagesKept, Present, At
    <3> QED BY <3>1, <3>2
  <2> QED BY <1>1, <1>2, <1>4, <2>2, <2>3, RedoAssets
<1> QED BY <1>3, <1>4

LEMMA ApiDiesAssets ==
  ASSUME TypeOK, AssetsInv, ApiDies
  PROVE  AssetsInv'
<1>1. UNCHANGED <<scene, tasks, failures, job, requests>> /\ \A a \in Admins : request'[a].at = "idle"
  BY DEF ApiDies, rows, queue, NoRequest
<1>2. /\ (AllUrls' <=> AllUrls) /\ (Covered' <=> Covered) /\ (Present(Compose)' <=> Present(Compose))
      /\ \A t, pc : At(t, pc)' <=> At(t, pc)
  BY <1>1 DEF AllUrls, Covered, MissingAssets, Present, At
<1>3. Blank'
  BY <1>1 DEF AssetsInv, Blank
<1>4. FirstRun => FirstRun'
  BY <1>1, SameFirstRun, KeptQueueOutside
<1>5. \A a \in Admins : ~Composes(a)'
  BY <1>1 DEF Composes
<1> QED BY <1>1, <1>2, <1>3, <1>4, <1>5 DEF AssetsInv

-----------------------------------------------------------------------------
(* AssetsInv is inductive *)

LEMMA InitAssets == Init => AssetsInv
<1> SUFFICES ASSUME Init PROVE AssetsInv
  OBVIOUS
<1>1. Blank /\ \A s \in Scenes : ~SceneFailed(s)
  BY DEF Init, Blank, NoScene, SceneFailed
<1>2. \A t \in TaskIds : ~Present(t) /\ \A pc : ~At(t, pc)
  BY DEF Init, NoJob, Present, At
<1>3. FanOutInv
  BY <1>2, SingleTasks DEF FanOutInv, GptFansOut, MediaTasks
<1>4. ASSUME NEW x \in TasksOf("image"), IsFrame(x) PROVE ~Present(Runway(x.s))
  <2>1. x \in TaskIds /\ x.q = "image" /\ x.s \in Scenes
    BY TaskShape DEF TasksOf
  <2>2. Runway(x.s) \in TaskIds
    BY <1>4, <2>1 DEF IsFrame, OfType, TaskIds
  <2> QED BY <1>2, <2>2
<1>5. FirstRun
  BY <1>1, <1>2, <1>3, <1>4 DEF Init, FirstRun, MediaTasks
<1>6. \A a \in Admins : request[a].at = "idle"
  BY DEF Init, NoRequest
<1> QED BY <1>1, <1>2, <1>5, <1>6, SingleTasks DEF Init, AssetsInv, TasksOf

LEMMA NextAssets == TypeOK /\ AssetsInv /\ [Next]_vars => AssetsInv'
<1> SUFFICES ASSUME TypeOK, AssetsInv, [Next]_vars PROVE AssetsInv'
  OBVIOUS
<1>1. ASSUME NEW t \in TaskIds, WorkerStep(t) PROVE AssetsInv'
  <2>1. \/ PipelineStep \/ GptStep \/ ComposeStep
        \/ t \in MediaTasks /\ MediaStep(t)
        \/ t \in TasksOf("state") /\ StateStep(t)
    BY <1>1 DEF WorkerStep, MediaTasks, MediaQueues, MediaStep, TasksOf
  <2> QED BY <2>1, PipelineAssets, GptAssets, ComposeAssets, MediaAssets, StateAssets
<1>2. ASSUME NEW t \in TasksOf("runway") \cup TasksOf("heygen"), RenderFault(t) PROVE AssetsInv'
  <2>1. t \in MediaTasks /\ MediaStep(t)
    BY <1>2 DEF MediaTasks, MediaQueues, MediaStep, TasksOf
  <2> QED BY <2>1, MediaAssets
<1>3. ASSUME NEW a \in Admins, RetryRead(a) \/ RecomposeRead(a) \/ RequestStep(a) PROVE AssetsInv'
  BY <1>3, ReadAssets, ResetAssets, EnqueueAssets DEF RequestStep
<1>4. CASE UNCHANGED vars
  <2>1. UNCHANGED <<request, requests, scene, tasks, failures, job>>
    BY <1>4 DEF vars, rows, queue, api, used
  <2>2. StagesKept
    BY <2>1 DEF StagesKept, Present, At
  <2> QED BY <2>1, <2>2, QuietAssets, KeptQueueOutside, ElsewhereKeeps
<1> QED BY <1>1, <1>2, <1>3, <1>4, GptAssets, HandlerAssets, FailureAssets, OrchestratorDiesAssets,
           ApiDiesAssets, ApiAssets DEF Next

(* AssetsInv holds in every reachable state.                                *)
THEOREM AssetsInvariant == Spec => []AssetsInv
<1>1. Init => TypeOK /\ AssetsInv
  BY InitTypeOK, InitAssets
<1>2. TypeOK /\ AssetsInv /\ [Next]_vars => TypeOK' /\ AssetsInv'
  BY NextTypeOK, NextAssets
<1> QED BY <1>1, <1>2, PTL DEF Spec

(* Compose never finishes a job with an asset missing, whatever the workers *)
(* race, the faults, the crashes, the cancels and one request of an admin.  *)
THEOREM CompletedIsComplete == Spec => []CompletedHasAssets
<1>1. AssetsInv => CompletedHasAssets
  BY DEF AssetsInv, CompletedHasAssets, AllUrls, Covered, MissingAssets
<1> QED BY <1>1, AssetsInvariant, PTL

-----------------------------------------------------------------------------
(* No job is left running *)

(* On its way to compose.                                                   *)
Underway == job \in {"pending", "running", "scenes_ready"}

(* The failure of t is about to be recorded.                                *)
Told(t) == [t |-> t, at |-> "mark"] \in failures

(* Nothing has run yet but, at most, the coordinator.                       *)
Early == creating = "enqueue" \/ IsOpen(tasks[Pipeline])

(* What the last awaits of an asset's attempt can rely on.                  *)
Delivered(t) ==
  (t.q = "image" /\ IsFrame(t)) \/ \A s \in RenderScenes(t) : scene[s].url

(* A queue job of an asset that has completed told the next stage.          *)
HandedOn(t) ==
  \/ \A s \in RenderScenes(t) : Present(State(s))
  \/ t.q = "image" /\ IsFrame(t) /\ Present(Runway(t.s))

StartInv ==
  /\ creating \in {"enqueue", "markFailed"} => ~Present(Pipeline)
  /\ Early => failures = {} /\ job \in {"pending", "running", "cancelled"}
  /\ Early /\ (video = "cancelled" \/ cancelling # "idle") => job = "cancelled"
  /\ Present(Gpt) => tasks[Pipeline].st = "completed"
  /\ (\E t \in MediaTasks : Present(t)) \/ Present(Compose) => Present(Gpt)
  /\ (\E t \in TasksOf("state") : Present(t)) => \E t \in MediaTasks : Present(t)

UrlInv ==
  /\ \A s \in Scenes : scene[s].done => scene[s].url
  /\ \A t \in TasksOf("state") :
       /\ Present(t) => scene[t.s].url
       /\ tasks[t].st \in {"active", "completed"} => scene[t.s].done
  /\ \A t \in MediaTasks, pc \in {"payload", "charge", "used", "notify"} : At(t, pc) => Delivered(t)

(* Every scene has been handed to its first worker.                         *)
FannedOut ==
  /\ \A s \in ImageScenes : \E t \in TasksOf("image") : t.s = s /\ Present(t)
  /\ Avatars # {} => \E t \in TasksOf("heygen") : Present(t)

ChainInv ==
  /\ tasks[Gpt].st = "completed" => FannedOut
  /\ \A t \in TasksOf("state") : At(t, "refund") \/ At(t, "add") => ~Underway
  /\ Underway =>
       /\ Present(Gpt) \/ creating \in {"enqueue", "markFailed"} \/ IsOpen(tasks[Pipeline])
            \/ Told(Pipeline) \/ dropped
       /\ \A t \in MediaTasks \cup {Gpt} : tasks[t].st = "failed" => Told(t) \/ dropped
       /\ \A t \in MediaTasks : tasks[t].st = "completed" => HandedOn(t)
       /\ Media # {} => \E s \in Media : tasks[State(s)].st # "completed"

(* Until an admin asks for anything, a job that has not come to its end is  *)
(* in somebody's hands.                                                     *)
Baton == StartInv /\ UrlInv /\ ChainInv

BatonInv == requests = 0 => Baton

-----------------------------------------------------------------------------
(* What a worker of an asset does to the rows *)

UrlsFollow ==
  \A s \in Scenes : /\ scene[s].url => scene'[s].url
                    /\ scene[s].done => scene'[s].done
                    /\ scene'[s].done => scene'[s].url

LEMMA MediaUrls ==
  ASSUME TypeOK, UrlInv, NEW t \in MediaTasks, MediaStep(t)
  PROVE  UrlsFollow
<1>0. SUFFICES ASSUME NEW s \in Scenes
               PROVE  /\ scene[s].url => scene'[s].url
                      /\ scene[s].done => scene'[s].done
                      /\ scene'[s].done => scene'[s].url
  BY DEF UrlsFollow
<1>1. /\ scene[s] \in SceneRow /\ scene \in [Scenes -> SceneRow] /\ t.q \in MediaQueues
      /\ t.q # "heygen" => t.s \in Scenes
      /\ scene[s].done => scene[s].url
  BY TaskShape, TypeParts DEF MediaTasks, MediaQueues, RowsTyped, UrlInv
<1>2. CASE scene'[s].url = scene[s].url /\ scene'[s].done = scene[s].done
  BY <1>1, <1>2
<1>3. CASE ImageStart(t) /\ t.q = "image"
  <2>1. scene' = scene \/ scene' = [scene EXCEPT ![t.s].status = "processing"]
    BY <1>3 DEF ImageStart
  <2> QED BY <1>1, <1>3, <2>1 DEF SceneRow
<1>4. CASE ImageSave(t)
  BY <1>1, <1>4 DEF ImageSave, SceneRow
<1>5. CASE RenderStart(t) \/ RenderSave(t)
  <2>1. scene'[s] = scene[s]
        \/ scene'[s] = [scene[s] EXCEPT !.url = TRUE, !.done = TRUE, !.status = "completed"]
    BY <1>5 DEF RenderStart, RenderSave
  <2> QED BY <1>1, <2>1 DEF SceneRow
<1>6. CASE SaveTaskId(t)
  <2>1. \/ scene'[s] = scene[s]
        \/ scene'[s] = [scene[s] EXCEPT !.ext = TRUE, !.status = "processing"]
        \/ scene'[s] = [scene[s] EXCEPT !.ext = TRUE, !.status = @]
    BY <1>6 DEF SaveTaskId
  <2> QED BY <1>1, <1>2, <2>1 DEF SceneRow
<1>7. CASE PollGone(t)
  <2>1. scene'[s] = scene[s] \/ scene'[s] = [scene[s] EXCEPT !.ext = FALSE]
    BY <1>7 DEF PollGone
  <2> QED BY <1>1, <1>2, <2>1 DEF SceneRow
<1>8. CASE Charge(t) \/ AddCreditsUsed(t) \/ ImageCall(t) \/ ImageNotify(t) \/ RenderCreate(t)
           \/ PollDone(t) \/ HeygenPayload(t) \/ RenderNotify(t) \/ CreateRejected(t) \/ SaveTaskIdFails(t)
  <2>1. UNCHANGED scene
    BY <1>8 DEF Charge, AddCreditsUsed, ImageCall, ImageNotify, RenderCreate, PollDone, HeygenPayload,
       RenderNotify, CreateRejected, SaveTaskIdFails, rows
  <2> QED BY <1>2, <2>1
<1> QED BY <1>3, <1>4, <1>5, <1>6, <1>7, <1>8 DEF MediaStep, ImageStep, RenderStep, RenderFault

-----------------------------------------------------------------------------
(* What it does to the queue *)

(* The state jobs it adds are of scenes that have their asset; it completes *)
(* when the next stage is there, or when the job is over.                   *)
Passes(t) ==
  /\ \E ids : /\ Beside(t, ids)
              /\ \A u \in ids \cap TaskIds : u.q = "runway" \/ (u.q = "state" /\ scene'[u.s].url)
  /\ tasks'[t].st = "completed" /\ Underway' => HandedOn(t)'
  /\ Present(t)' /\ failures \subseteq failures'
  /\ tasks'[t].st = "failed" => Told(t)'
  /\ \A pc \in {"payload", "charge", "used", "notify"} : At(t, pc)' => Delivered(t)'

LEMMA MediaPasses ==
  ASSUME TypeOK, UrlInv, NEW t \in MediaTasks, MediaStep(t)
  PROVE  Passes(t) /\ UNCHANGED <<job, creating, dropped>>
<1>0. /\ t \in TaskIds /\ t.q \in MediaQueues /\ HasHandler(t) /\ scene \in [Scenes -> SceneRow]
      /\ {"call", "save", "charge", "used", "notify", "create", "poll", "saveId", "payload"} \subseteq TaskPC
      /\ QueueTyped(tasks) /\ NewJob.st = "waiting"
      /\ RenderScenes(t) \subseteq Scenes
      /\ t.q # "heygen" => RenderScenes(t) = {t.s} /\ t.s \in Scenes
      /\ \A s \in Scenes : scene[s].done => scene[s].url
  BY TypeParts, TaskShape DEF TasksTyped, RowsTyped, TaskPC, MediaTasks, MediaQueues, HasHandler,
     NewJob, NoJob, RenderScenes, Avatars, OfType, UrlInv
<1>1. \A s \in RenderScenes(t) : State(s) \in TaskIds /\ State(s) # t /\ State(s).q = "state" /\ State(s).s = s
  <2>1. \A s \in RenderScenes(t) : s \in Media
    BY <1>0, TaskShape DEF RenderScenes, Avatars, OfType, Media, MediaQueues
  <2> QED BY <1>0, <2>1 DEF TaskIds, State, Task, MediaQueues
<1>2. t.q = "image" /\ IsFrame(t) =>
        Runway(t.s) \in TaskIds /\ Runway(t.s) # t /\ Runway(t.s).q = "runway"
  BY <1>0 DEF IsFrame, OfType, TaskIds, Runway, Task
<1>3. ASSUME NEW pc \in TaskPC, Step(t, pc),
             pc \in {"payload", "charge", "used", "notify"} => Delivered(t)'
      PROVE  Passes(t)
  <2>1. Beside(t, {}) /\ At(t, pc)' /\ UNCHANGED failures
    BY <1>0, <1>3, QueueMoves
  <2> QED BY <1>3, <2>1 DEF Passes, At, Present
<1>4. ASSUME Return(t), ~Underway' PROVE Passes(t)
  <2>1. Beside(t, {}) /\ tasks'[t].st = "completed" /\ UNCHANGED failures
    BY <1>0, <1>4, QueueMoves
  <2> QED BY <1>4, <2>1 DEF Passes, At, Present
<1>5. ASSUME NEW ids, ReturnAdding(t, ids), NEW S,
             \/ ids = {State(s) : s \in S} /\ S = RenderScenes(t) /\ \A s \in S : scene'[s].url
             \/ ids = {Runway(t.s)} /\ t.q = "image" /\ IsFrame(t)
      PROVE  Passes(t)
  <2>1. Beside(t, ids) /\ tasks'[t].st = "completed" /\ UNCHANGED failures
    BY <1>0, <1>5, QueueMoves
  <2>2. \A u \in ids \cap TaskIds : u.q = "runway" \/ (u.q = "state" /\ scene'[u.s].url)
    BY <1>1, <1>2, <1>5
  <2>3. \A u \in ids : u \in TaskIds /\ u # t
    BY <1>1, <1>2, <1>5
  <2>4. \A u \in ids : Present(u)'
    BY <1>0, <2>1, <2>3 DEF Beside, Present
  <2>5. HandedOn(t)'
    BY <1>5, <2>4 DEF HandedOn
  <2> QED BY <2>1, <2>2, <2>5 DEF Passes, At, Present
<1>6. ASSUME Throw(t) PROVE Passes(t)
  <2>1. /\ Beside(t, {})
        /\ \/ tasks'[t].st = "waiting" /\ UNCHANGED failures
           \/ tasks'[t].st = "failed" /\ failures' = failures \cup {[t |-> t, at |-> "mark"]}
    BY <1>0, <1>6, QueueMoves
  <2> QED BY <2>1 DEF Passes, At, Present, Told
<1>7. ASSUME NEW pc \in {"poll", "create"},
             \/ tasks' = [Goto(tasks, t, pc) EXCEPT ![t].resumed = TRUE]
             \/ tasks' = [Goto(tasks, t, pc) EXCEPT ![t].resumed = FALSE],
             UNCHANGED failures
      PROVE  Passes(t)
  <2>1. /\ \A x \in TaskIds : x # t => tasks'[x] = tasks[x]
        /\ tasks'[t].st = "active" /\ tasks'[t].pc = pc
    BY <1>0, <1>7, GotoResumedTyped
  <2>2. Beside(t, {})
    BY <2>1 DEF Beside
  <2> QED BY <1>7, <2>1, <2>2 DEF Passes, At, Present
<1>8. \A pc \in {"payload", "charge", "used", "notify"} : At(t, pc) => Delivered(t)
  BY DEF UrlInv
<1>9. Dead => ~Underway
  BY DEF Dead, Underway
<1>10. CASE Charge(t) \/ AddCreditsUsed(t)
  <2>1. UNCHANGED <<job, scene, creating, dropped>> /\ (Step(t, "used") \/ Step(t, "notify") \/ Throw(t))
        /\ Delivered(t)
    BY <1>8, <1>10 DEF Charge, AddCreditsUsed, rows, api, history
  <2>2. Delivered(t)'
    BY <2>1 DEF Delivered
  <2> QED BY <1>0, <1>3, <1>6, <2>1, <2>2
<1>11. CASE ImageStart(t) /\ t.q = "image"
  <2>1. UNCHANGED <<job, creating, dropped>>
    BY <1>11 DEF ImageStart, api, history
  <2>2. \/ Return(t) /\ Dead
        \/ ReturnAdding(t, {State(t.s)}) /\ scene[t.s].url /\ UNCHANGED scene
        \/ ReturnAdding(t, {Runway(t.s)}) /\ IsFrame(t)
        \/ Step(t, "call")
    BY <1>11 DEF ImageStart
  <2>3. CASE Return(t) /\ Dead
    BY <1>4, <1>9, <2>1, <2>3 DEF Underway
  <2>4. CASE ReturnAdding(t, {State(t.s)}) /\ scene[t.s].url /\ UNCHANGED scene
    <3>1. RenderScenes(t) = {t.s} /\ {State(t.s)} = {State(s) : s \in RenderScenes(t)}
      BY <1>0, <1>11
    <3> QED BY <1>5, <2>1, <2>4, <3>1
  <2>5. CASE ReturnAdding(t, {Runway(t.s)}) /\ IsFrame(t)
    BY <1>5, <1>11, <2>1, <2>5
  <2>6. CASE Step(t, "call")
    BY <1>0, <1>3, <2>1, <2>6
  <2> QED BY <2>2, <2>3, <2>4, <2>5, <2>6
<1>12. CASE ImageCall(t) \/ RenderCreate(t)
  <2>1. UNCHANGED <<job, creating, dropped>>
        /\ ((Return(t) /\ Dead) \/ Step(t, "save") \/ Step(t, "saveId"))
    BY <1>12 DEF ImageCall, RenderCreate, rows, api
  <2>2. Dead => ~Underway'
    BY <1>9, <2>1 DEF Underway
  <2> QED BY <1>0, <1>3, <1>4, <2>1, <2>2
<1>13. CASE ImageSave(t) /\ t.q = "image"
  <2>1. UNCHANGED <<job, creating, dropped>> /\ Step(t, "charge")
    BY <1>13 DEF ImageSave, api, history
  <2>2. IsFrame(t) \/ scene'[t.s].url
    BY <1>0, <1>13 DEF ImageSave, SceneRow
  <2>3. Delivered(t)'
    BY <1>0, <1>13, <2>2 DEF Delivered
  <2> QED BY <1>0, <1>3, <2>1, <2>3
<1>14. CASE ImageNotify(t) /\ t.q = "image"
  <2>1. UNCHANGED <<job, creating, dropped, scene>> /\ Delivered(t)
        /\ ReturnAdding(t, {IF IsFrame(t) THEN Runway(t.s) ELSE State(t.s)})
    BY <1>8, <1>14 DEF ImageNotify, rows, api, history
  <2>2. CASE IsFrame(t)
    BY <1>5, <1>14, <2>1, <2>2
  <2>3. CASE ~IsFrame(t)
    <3>1. RenderScenes(t) = {t.s} /\ {State(t.s)} = {State(s) : s \in RenderScenes(t)}
          /\ \A s \in RenderScenes(t) : scene'[s].url
      BY <1>0, <1>14, <2>1, <2>3 DEF Delivered
    <3> QED BY <1>5, <2>1, <2>3, <3>1
  <2> QED BY <2>2, <2>3
<1>15. CASE RenderStart(t)
  <2>1. UNCHANGED <<job, creating, dropped>>
    BY <1>15 DEF RenderStart, api, history
  <2>2. \/ Return(t) /\ Dead
        \/ /\ ReturnAdding(t, {State(s) : s \in RenderScenes(t)})
           /\ scene' = [s \in Scenes |->
                         IF s \in RenderScenes(t) /\ ~scene[s].done
                         THEN [scene[s] EXCEPT !.url = TRUE, !.done = TRUE, !.status = "completed"]
                         ELSE scene[s]]
        \/ tasks' = [Goto(tasks, t, "poll") EXCEPT ![t].resumed = TRUE] /\ UNCHANGED failures
        \/ Step(t, "create")
    BY <1>15 DEF RenderStart
  <2>3. CASE Return(t) /\ Dead
    BY <1>4, <1>9, <2>1, <2>3 DEF Underway
  <2>4. CASE /\ ReturnAdding(t, {State(s) : s \in RenderScenes(t)})
             /\ scene' = [s \in Scenes |->
                           IF s \in RenderScenes(t) /\ ~scene[s].done
                           THEN [scene[s] EXCEPT !.url = TRUE, !.done = TRUE, !.status = "completed"]
                           ELSE scene[s]]
    <3>1. \A s \in RenderScenes(t) : scene'[s].url
      BY <1>0, <2>4 DEF SceneRow
    <3> QED BY <1>5, <2>1, <2>4, <3>1
  <2>5. CASE tasks' = [Goto(tasks, t, "poll") EXCEPT ![t].resumed = TRUE] /\ UNCHANGED failures
    BY <1>7, <2>1, <2>5
  <2>6. CASE Step(t, "create")
    BY <1>0, <1>3, <2>1, <2>6
  <2> QED BY <2>2, <2>3, <2>4, <2>5, <2>6
<1>16. CASE SaveTaskId(t) \/ PollDone(t) \/ SaveTaskIdFails(t)
  <2>1. UNCHANGED <<job, creating, dropped>> /\ (Step(t, "poll") \/ Step(t, "save"))
    BY <1>16 DEF SaveTaskId, PollDone, SaveTaskIdFails, rows, api, history
  <2> QED BY <1>0, <1>3, <2>1
<1>17. CASE RenderSave(t) \/ HeygenPayload(t)
  <2>1. UNCHANGED <<job, creating, dropped>> /\ (Step(t, "payload") \/ Step(t, "charge"))
    BY <1>17 DEF RenderSave, HeygenPayload, api, history
  <2>2. Delivered(t)'
    <3>1. CASE RenderSave(t)
      <4>1. \A s \in RenderScenes(t) : scene'[s].url
        BY <1>0, <3>1 DEF RenderSave, SceneRow
      <4> QED BY <4>1 DEF Delivered
    <3>2. CASE HeygenPayload(t)
      <4>1. Delivered(t) /\ UNCHANGED scene
        BY <1>8, <3>2 DEF HeygenPayload
      <4> QED BY <4>1 DEF Delivered
    <3> QED BY <1>17, <3>1, <3>2
  <2> QED BY <1>0, <1>3, <2>1, <2>2
<1>18. CASE RenderNotify(t) /\ t.q # "image"
  <2>1. UNCHANGED <<job, creating, dropped, scene>> /\ Delivered(t)
        /\ ReturnAdding(t, {State(s) : s \in RenderScenes(t)})
    BY <1>8, <1>18 DEF RenderNotify, rows, api, history
  <2>2. \A s \in RenderScenes(t) : scene'[s].url
    BY <1>18, <2>1 DEF Delivered
  <2> QED BY <1>5, <2>1, <2>2
<1>19. CASE CreateRejected(t)
  <2>1. tasks'[t].st = "failed" /\ \A x \in TaskIds : x # t => tasks'[x] = tasks[x]
    BY <1>0, <1>19, FailForGoodTyped DEF CreateRejected
  <2>2. Beside(t, {})
    BY <2>1 DEF Beside
  <2>3. UNCHANGED <<job, creating, dropped>> /\ failures' = failures \cup {[t |-> t, at |-> "mark"]}
    BY <1>19 DEF CreateRejected, rows, api, history
  <2> QED BY <2>1, <2>2, <2>3 DEF Passes, At, Present, Told
<1>20. CASE PollGone(t)
  <2>1. UNCHANGED <<job, creating, dropped, failures>>
        /\ tasks' = [Goto(tasks, t, "create") EXCEPT ![t].resumed = FALSE]
    BY <1>20 DEF PollGone, api
  <2> QED BY <1>7, <2>1
<1> QED BY <1>10, <1>11, <1>12, <1>13, <1>14, <1>15, <1>16, <1>17, <1>18, <1>19, <1>20
        DEF MediaStep, ImageStep, RenderStep, RenderFault

-----------------------------------------------------------------------------
(* Nobody's rows or queue jobs are taken away *)

LEMMA UrlKeeps ==
  ASSUME UrlInv, UrlsFollow,
         \A x \in TasksOf("state") :
           /\ Present(x)' => Present(x) \/ scene'[x.s].url
           /\ tasks'[x].st \in {"active", "completed"} =>
                tasks[x].st \in {"active", "completed"} \/ scene'[x.s].done,
         \A x \in MediaTasks, pc \in {"payload", "charge", "used", "notify"} :
           At(x, pc)' => At(x, pc) \/ Delivered(x)'
  PROVE  UrlInv'
<1>1. \A x \in TasksOf("state") : x.s \in Scenes
  BY TaskShape DEF TasksOf
<1>2. \A x \in MediaTasks : Delivered(x) => Delivered(x)'
  <2>1. \A x \in MediaTasks : RenderScenes(x) \subseteq Scenes
    BY TaskShape DEF MediaTasks, MediaQueues, RenderScenes, Avatars, OfType
  <2> QED BY <2>1 DEF Delivered, UrlsFollow
<1> QED BY <1>1, <1>2 DEF UrlInv, UrlsFollow

(* The state jobs and the jobs of the assets stay as they are, or their     *)
(* attempt is over.                                                         *)
LEMMA UrlQuiet ==
  ASSUME UrlInv, UrlsFollow,
         \A x \in TasksOf("state") \cup MediaTasks :
           tasks'[x] = tasks[x] \/ (Present(x) /\ tasks'[x].st \in {"waiting", "failed"})
  PROVE  UrlInv'
<1>1. \A x \in TasksOf("state") :
        /\ Present(x)' => Present(x)
        /\ tasks'[x].st \in {"active", "completed"} => tasks[x].st \in {"active", "completed"}
  BY DEF Present
<1>2. \A x \in MediaTasks, pc \in {"payload", "charge", "used", "notify"} : At(x, pc)' => At(x, pc)
  BY DEF At
<1> QED BY <1>1, <1>2, UrlKeeps

LEMMA UrlsStay ==
  ASSUME UrlInv, UNCHANGED scene \/ \A s \in Scenes : /\ scene'[s].url = scene[s].url
                                                      /\ scene'[s].done = scene[s].done
  PROVE  UrlsFollow
BY DEF UrlInv, UrlsFollow

(* Once the script is there, the coordinator is done for good.              *)
LEMMA StartAfterScript ==
  ASSUME StartInv, Present(Gpt), Present(Gpt)', tasks'[Pipeline] = tasks[Pipeline],
         creating' \in {"enqueue", "markFailed"} => creating \in {"enqueue", "markFailed"},
         \A x \in MediaTasks : Present(x) => Present(x)',
         \A x \in TasksOf("state") : Present(x)' => Present(x) \/ \E y \in MediaTasks : Present(y)'
  PROVE  StartInv'
<1>1. tasks'[Pipeline].st = "completed" /\ creating' \notin {"enqueue", "markFailed"}
  BY DEF StartInv, Present
<1> QED BY <1>1 DEF StartInv, Early, IsOpen

(* Before that there is no other queue job.                                 *)
LEMMA NoScript ==
  ASSUME StartInv, ~Present(Gpt), NEW x \in TaskIds, x # Pipeline
  PROVE  ~Present(x)
<1>1. x.q \in QueueNames /\ (x.q = "gpt" => x = Gpt) /\ (x.q = "compose" => x = Compose)
      /\ (x.q = "pipeline" => x = Pipeline)
  BY TaskShape
<1>2. CASE x.q \in MediaQueues
  BY <1>2 DEF StartInv, MediaTasks
<1>3. CASE x.q = "state"
  BY <1>3 DEF StartInv, TasksOf
<1> QED BY <1>1, <1>2, <1>3 DEF QueueNames, MediaQueues, StartInv

LEMMA ChainKeeps ==
  ASSUME ChainInv, Underway' => Underway, dropped => dropped',
         \A x \in TaskIds \ {Pipeline} : Present(x) => Present(x)',
         tasks'[Gpt].st = "completed" => tasks[Gpt].st = "completed" \/ FannedOut',
         \A x \in TasksOf("state") : At(x, "refund")' \/ At(x, "add")' =>
           At(x, "refund") \/ At(x, "add") \/ ~Underway',
         Underway' /\ ~Present(Gpt) =>
           Present(Gpt)' \/ creating' \in {"enqueue", "markFailed"} \/ IsOpen(tasks'[Pipeline])
             \/ Told(Pipeline)' \/ dropped',
         Underway' => \A x \in MediaTasks \cup {Gpt} :
           /\ tasks'[x].st = "failed" => tasks[x].st = "failed" \/ Told(x)' \/ dropped'
           /\ Told(x) => Told(x)' \/ dropped',
         Underway' => \A x \in MediaTasks :
           tasks'[x].st = "completed" => tasks[x].st = "completed" \/ HandedOn(x)',
         Underway' => \A x \in TasksOf("state") :
           tasks'[x].st = "completed" =>
             tasks[x].st = "completed" \/ \E s \in Media : tasks'[State(s)].st # "completed"
  PROVE  ChainInv'
<1>1. /\ Gpt \in TaskIds \ {Pipeline} /\ MediaTasks \subseteq TaskIds \ {Pipeline}
      /\ \A q \in {"image", "heygen"} : TasksOf(q) \subseteq TaskIds \ {Pipeline}
      /\ \A s \in Media : State(s) \in TasksOf("state")
      /\ TasksOf("state") \subseteq TaskIds \ {Pipeline}
  <2>1. Pipeline.q = "pipeline" /\ Gpt.q = "gpt" /\ \A s : State(s).q = "state"
    BY DEF Pipeline, Gpt, State, Task
  <2>2. \A s \in Media : State(s) \in TaskIds
    BY DEF TaskIds
  <2> QED BY <2>1, <2>2, SingleTasks DEF MediaTasks, MediaQueues, TasksOf
<1>2. tasks'[Gpt].st = "completed" => FannedOut'
  <2>1. FannedOut => FannedOut'
    BY <1>1 DEF FannedOut
  <2> QED BY <2>1 DEF ChainInv
<1>3. \A x \in TasksOf("state") : At(x, "refund")' \/ At(x, "add")' => ~Underway'
  BY DEF ChainInv
<1>4. ASSUME Underway'
      PROVE  Present(Gpt)' \/ creating' \in {"enqueue", "markFailed"} \/ IsOpen(tasks'[Pipeline])
               \/ Told(Pipeline)' \/ dropped'
  BY <1>1, <1>4
<1>5. ASSUME Underway', NEW x \in MediaTasks \cup {Gpt}, tasks'[x].st = "failed"
      PROVE  Told(x)' \/ dropped'
  BY <1>5 DEF ChainInv
<1>6. ASSUME Underway', NEW x \in MediaTasks, tasks'[x].st = "completed" PROVE HandedOn(x)'
  <2>1. HandedOn(x) => HandedOn(x)'
    <3>1. \A s \in RenderScenes(x) : State(s) \in TaskIds \ {Pipeline}
      <4>1. \A s \in RenderScenes(x) : s \in Media
        BY TaskShape DEF MediaTasks, MediaQueues, RenderScenes, Avatars, OfType, Media
      <4> QED BY <1>1, <4>1
    <3>2. x.q = "image" /\ IsFrame(x) => Runway(x.s) \in TaskIds \ {Pipeline}
      BY TaskShape DEF MediaTasks, IsFrame, OfType, TaskIds, Runway, Pipeline, Task
    <3> QED BY <3>1, <3>2 DEF HandedOn
  <2> QED BY <1>6, <2>1 DEF ChainInv
<1>7. ASSUME Underway', Media # {} PROVE \E s \in Media : tasks'[State(s)].st # "completed"
  <2>1. PICK s \in Media : tasks[State(s)].st # "completed"
    BY <1>7 DEF ChainInv
  <2> QED BY <1>1, <1>7, <2>1
<1> QED BY <1>2, <1>3, <1>4, <1>5, <1>6, <1>7 DEF ChainInv

-----------------------------------------------------------------------------
(* A step of a worker other than the coordinator *)

LEMMA WorkerBaton ==
  ASSUME TypeOK, Baton, NEW t \in TaskIds \ {Pipeline}, NEW ids, Beside(t, ids), IsOpen(tasks[t]),
         Present(t)', UNCHANGED <<creating, dropped>>, failures \subseteq failures',
         Underway' => Underway, UrlsFollow,
         \A u \in ids \cap TaskIds : u.q = "state" => t \in MediaTasks /\ scene'[u.s].url,
         t \in MediaTasks => Passes(t),
         t = Gpt => (tasks'[t].st = "completed" => FannedOut') /\ (tasks'[t].st = "failed" => Told(t)'),
         t.q = "state" =>
           /\ tasks'[t].st \in {"active", "completed"} => scene'[t.s].done
           /\ Underway' => ~At(t, "refund")' /\ ~At(t, "add")'
           /\ Underway' /\ tasks'[t].st = "completed" =>
                \E s \in Media : tasks'[State(s)].st # "completed"
  PROVE  Baton'
<1>1. /\ Present(t) /\ NewJob.st = "waiting" /\ {Pipeline, Gpt, Compose} \subseteq TaskIds
      /\ MediaTasks \subseteq TaskIds /\ TasksOf("state") \subseteq TaskIds
      /\ \A x \in TasksOf("state") : x.q = "state" /\ x \notin MediaTasks
      /\ \A x \in MediaTasks : x # Gpt
  BY SingleTasks DEF Present, IsOpen, NewJob, NoJob, MediaTasks, MediaQueues, TasksOf, Gpt, Task
<1>2. \A x \in TaskIds \ {t} :
        \/ tasks'[x] = tasks[x]
        \/ x \in ids /\ ~Present(x) /\ tasks'[x].st = "waiting"
  BY <1>1 DEF Beside, Present
<1>3. Present(Gpt)
  BY <1>1, NoScript DEF Baton
<1>4. \A x \in TaskIds : Present(x) => Present(x)'
  BY <1>1, <1>2 DEF Present
<1>5. StartInv'
  <2>1. tasks'[Pipeline] = tasks[Pipeline]
    BY <1>1, <1>2, <1>3 DEF Baton, StartInv, Present
  <2>2. ASSUME NEW x \in TasksOf("state"), Present(x)'
        PROVE  Present(x) \/ \E y \in MediaTasks : Present(y)'
    <3>1. CASE x = t
      BY <1>1, <3>1
    <3>2. CASE x # t
      BY <1>1, <1>2, <2>2, <3>2 DEF Present
    <3> QED BY <3>1, <3>2
  <2> QED BY <1>1, <1>3, <1>4, <2>1, <2>2, StartAfterScript DEF Baton
<1>6. UrlInv'
  <2>1. ASSUME NEW x \in TasksOf("state")
        PROVE  /\ Present(x)' => Present(x) \/ scene'[x.s].url
               /\ tasks'[x].st \in {"active", "completed"} =>
                    tasks[x].st \in {"active", "completed"} \/ scene'[x.s].done
    <3>1. CASE x = t
      BY <1>1, <3>1
    <3>2. CASE x # t
      BY <1>1, <1>2, <3>2 DEF Present
    <3> QED BY <3>1, <3>2
  <2>2. ASSUME NEW x \in MediaTasks, NEW pc \in {"payload", "charge", "used", "notify"}, At(x, pc)'
        PROVE  At(x, pc) \/ Delivered(x)'
    <3>1. CASE x = t
      BY <2>2, <3>1 DEF Passes
    <3>2. CASE x # t
      BY <1>1, <1>2, <2>2, <3>2 DEF At
    <3> QED BY <3>1, <3>2
  <2> QED BY <2>1, <2>2, UrlKeeps DEF Baton
<1>7. ChainInv'
  <2>1. \A x \in TaskIds : Told(x) => Told(x)'
    BY DEF Told
  <2>2. tasks'[Gpt].st = "completed" => tasks[Gpt].st = "completed" \/ FannedOut'
    BY <1>1, <1>2
  <2>3. ASSUME NEW x \in TasksOf("state"), At(x, "refund")' \/ At(x, "add")'
        PROVE  At(x, "refund") \/ At(x, "add") \/ ~Underway'
    <3>1. CASE x = t
      BY <1>1, <2>3, <3>1
    <3>2. CASE x # t
      BY <1>1, <1>2, <2>3, <3>2 DEF At
    <3> QED BY <3>1, <3>2
  <2>4. ASSUME NEW x \in MediaTasks \cup {Gpt}, tasks'[x].st = "failed"
        PROVE  tasks[x].st = "failed" \/ Told(x)'
    <3>1. CASE x = t
      BY <2>4, <3>1 DEF Passes
    <3>2. CASE x # t
      BY <1>1, <1>2, <2>4, <3>2
    <3> QED BY <3>1, <3>2
  <2>5. ASSUME Underway', NEW x \in MediaTasks, tasks'[x].st = "completed"
        PROVE  tasks[x].st = "completed" \/ HandedOn(x)'
    <3>1. CASE x = t
      BY <2>5, <3>1 DEF Passes
    <3>2. CASE x # t
      BY <1>1, <1>2, <2>5, <3>2
    <3> QED BY <3>1, <3>2
  <2>6. ASSUME Underway', NEW x \in TasksOf("state"), tasks'[x].st = "completed"
        PROVE  tasks[x].st = "completed" \/ \E s \in Media : tasks'[State(s)].st # "completed"
    <3>1. CASE x = t
      BY <1>1, <2>6, <3>1
    <3>2. CASE x # t
      BY <1>1, <1>2, <2>6, <3>2
    <3> QED BY <3>1, <3>2
  <2>7. ChainInv /\ (dropped => dropped') /\ \A x \in MediaTasks \cup {Gpt} : x \in TaskIds
    BY <1>1 DEF Baton
  <2> QED BY <1>3, <1>4, <2>1, <2>2, <2>3, <2>4, <2>5, <2>6, <2>7, ChainKeeps
<1> QED BY <1>5, <1>6, <1>7 DEF Baton

LEMMA MediaBaton ==
  ASSUME TypeOK, Baton, NEW t \in MediaTasks, MediaStep(t)
  PROVE  Baton'
<1>1. /\ t \in TaskIds \ {Pipeline} /\ t # Gpt /\ t.q # "state"
  BY SingleTasksOutside DEF MediaTasks, MediaQueues
<1>2. UrlsFollow /\ Passes(t) /\ UNCHANGED <<job, creating, dropped>>
  BY MediaUrls, MediaPasses DEF Baton
<1>3. IsOpen(tasks[t])
  BY MediaQueue
<1>4. PICK ids : /\ Beside(t, ids)
                 /\ \A u \in ids \cap TaskIds : u.q = "runway" \/ (u.q = "state" /\ scene'[u.s].url)
  BY <1>2 DEF Passes
<1>5. (Underway' => Underway) /\ Present(t)' /\ failures \subseteq failures'
  BY <1>2 DEF Underway, Passes
<1> QED BY <1>1, <1>2, <1>3, <1>4, <1>5, WorkerBaton

-----------------------------------------------------------------------------
(* The script worker *)

LEMMA GptBatonStep ==
  ASSUME TypeOK, Baton, NEW ids, Beside(Gpt, ids), IsOpen(tasks[Gpt]), Present(Gpt)',
         UNCHANGED <<creating, dropped>>, failures \subseteq failures',
         Underway' => Underway, UrlsFollow, \A u \in ids : u.q # "state",
         tasks'[Gpt].st = "completed" => FannedOut', tasks'[Gpt].st = "failed" => Told(Gpt)'
  PROVE  Baton'
<1>1. Gpt \in TaskIds \ {Pipeline} /\ Gpt \notin MediaTasks /\ Gpt.q # "state"
  BY SingleTasksOutside DEF Gpt, Pipeline, Task
<1> QED BY <1>1, WorkerBaton

LEMMA GptMoves ==
  ASSUME TypeOK, Baton, IsOpen(tasks[Gpt]), UNCHANGED <<job, creating, dropped>>, UrlsFollow,
         (\E pc \in TaskPC : Step(Gpt, pc)) \/ Throw(Gpt)
  PROVE  Baton'
<1>1. Gpt \in TaskIds /\ HasHandler(Gpt)
  BY SingleTasks DEF HasHandler, Gpt, Task
<1>2. /\ Beside(Gpt, {}) /\ Present(Gpt)' /\ failures \subseteq failures'
      /\ tasks'[Gpt].st # "completed" /\ (tasks'[Gpt].st = "failed" => Told(Gpt)')
  <2>1. CASE \E pc \in TaskPC : Step(Gpt, pc)
    BY <1>1, <2>1, QueueMoves DEF At, Present
  <2>2. CASE Throw(Gpt)
    <3>1. /\ Beside(Gpt, {})
          /\ \/ tasks'[Gpt].st = "waiting" /\ UNCHANGED failures
             \/ tasks'[Gpt].st = "failed" /\ failures' = failures \cup {[t |-> Gpt, at |-> "mark"]}
      BY <1>1, <2>2, QueueMoves
    <3> QED BY <3>1 DEF Present, Told
  <2> QED BY <2>1, <2>2
<1> QED BY <1>2, GptBatonStep DEF Underway

LEMMA GptBaton ==
  ASSUME TypeOK, Blank, Once, Baton, GptStep \/ GptFanOutBreaks
  PROVE  Baton'
<1>0. /\ Gpt \in TaskIds \ {Pipeline} /\ Gpt \notin MediaTasks /\ QueueTyped(tasks) /\ HasHandler(Gpt)
      /\ {"ideaUsed", "hook", "hookUsed", "script", "scriptUsed", "scenes", "ready", "fanout"} \subseteq TaskPC
      /\ (Waiting(Gpt) => IsOpen(tasks[Gpt])) /\ \A pc : At(Gpt, pc) => IsOpen(tasks[Gpt])
      /\ Gpt.q = "gpt"
  BY SingleTasksOutside, TypeParts DEF TasksTyped, TaskPC, Waiting, At, IsOpen, HasHandler, Gpt,
     Pipeline, Task
<1>1. ASSUME IsOpen(tasks[Gpt]), UNCHANGED <<job, scene, creating, dropped>>,
             (\E pc \in TaskPC : Step(Gpt, pc)) \/ Throw(Gpt)
      PROVE  Baton'
  <2>1. UrlsFollow
    BY <1>1, UrlsStay DEF Baton
  <2> QED BY <1>1, <2>1, GptMoves
<1>2. ASSUME NEW from, NEW to \in TaskPC, IsOpen(tasks[Gpt]), GptCharge(from, to) PROVE Baton'
  BY <1>1, <1>2 DEF GptCharge, rows, api, history
<1>3. ASSUME NEW from, NEW to \in TaskPC, GptUsed(from, to) PROVE Baton'
  BY <1>0, <1>1, <1>3 DEF GptUsed, rows, api, history
<1>4. CASE GptIdea \/ GptScript
  BY <1>0, <1>2, <1>4 DEF GptIdea, GptScript
<1>5. CASE GptHook
  <2>1. CASE At(Gpt, "hook") /\ GptCharge("hook", "hookUsed")
    BY <1>0, <1>2, <2>1
  <2>2. CASE ~(At(Gpt, "hook") /\ GptCharge("hook", "hookUsed"))
    BY <1>0, <1>1, <1>5, <2>2 DEF GptHook, rows, api, history
  <2> QED BY <2>1, <2>2
<1>6. CASE GptUsed("ideaUsed", "hook") \/ GptUsed("hookUsed", "script") \/ GptUsed("scriptUsed", "scenes")
  BY <1>0, <1>3, <1>6
<1>7. CASE GptScenes
  <2>1. UNCHANGED <<job, creating, dropped>> /\ IsOpen(tasks[Gpt])
    BY <1>0, <1>7 DEF GptScenes, api, history
  <2>2. CASE Throw(Gpt) /\ UNCHANGED scene
    BY <1>1, <2>1, <2>2
  <2>3. CASE /\ \A s \in Scenes : scene[s].status = "none"
             /\ scene' = [s \in Scenes |-> [NoScene EXCEPT !.status = "pending"]]
             /\ Step(Gpt, "ready")
    <3>1. \A s \in Scenes : ~scene[s].url /\ ~scene[s].done /\ ~scene'[s].url /\ ~scene'[s].done
      BY <2>3 DEF Baton, UrlInv, Blank, NoScene
    <3>2. UrlsFollow
      BY <3>1 DEF UrlsFollow
    <3> QED BY <1>0, <2>1, <2>3, <3>2, GptMoves
  <2> QED BY <1>7, <2>2, <2>3 DEF GptScenes
<1>8. CASE GptReady
  <2>1. /\ UNCHANGED <<scene, creating, dropped>> /\ Step(Gpt, "fanout") /\ At(Gpt, "ready")
        /\ job' = "scenes_ready"
    BY <1>8 DEF GptReady, api, history
  <2>2. Beside(Gpt, {}) /\ At(Gpt, "fanout")' /\ UNCHANGED failures
    BY <1>0, <2>1, QueueMoves
  <2>3. /\ \A x \in TaskIds \ {Gpt} : tasks'[x] = tasks[x]
        /\ Present(Gpt) /\ Present(Gpt)'
    BY <2>1, <2>2 DEF Beside, At, Present
  <2>4. /\ \A x \in MediaTasks : ~Present(x) /\ tasks'[x] = tasks[x]
        /\ \A x \in TasksOf("state") : ~Present(x) /\ tasks'[x] = tasks[x]
        /\ Pipeline \in TaskIds \ {Gpt} /\ \A s \in Media : State(s) \in TasksOf("state")
    <3>1. \A x \in MediaTasks : ~Present(x)
      BY <2>1 DEF Once, FanOutInv, GptFansOut
    <3>2. \A x \in TasksOf("state") : ~Present(x)
      BY <3>1 DEF Baton, StartInv
    <3>3. \A x \in TasksOf("state") : x \in TaskIds \ {Gpt}
      BY <1>0 DEF TasksOf
    <3>4. \A s \in Media : State(s) \in TaskIds /\ State(s).q = "state"
      BY DEF TaskIds, State, Task
    <3>5. \A x \in MediaTasks : x \in TaskIds \ {Gpt}
      BY <1>0 DEF MediaTasks
    <3> QED BY <1>0, <2>3, <3>1, <3>2, <3>3, <3>4, <3>5, SingleTasks DEF TasksOf
  <2>5. StartInv'
    BY <2>1, <2>3, <2>4, StartAfterScript DEF Baton, Present
  <2>6. UrlInv'
    BY <2>1, <2>4, UrlsStay, UrlQuiet DEF Baton
  <2>7. ChainInv'
    <3>1. \A x \in TasksOf("state") : tasks'[x].st = "absent"
      BY <2>4 DEF Present
    <3>2. \A x \in MediaTasks : tasks'[x].st = "absent"
      BY <2>4 DEF Present
    <3>3. tasks'[Gpt].st = "active"
      BY <2>2 DEF At
    <3> QED BY <2>3, <2>4, <3>1, <3>2, <3>3 DEF ChainInv, At
  <2> QED BY <2>5, <2>6, <2>7 DEF Baton
<1>9. CASE GptFanOut
  <2> DEFINE ids == FanOut(ImageScenes) \cup NextSlots("heygen", {Job})
  <2>1. /\ ReturnAdding(Gpt, ids) /\ UNCHANGED <<job, scene, creating, dropped>> /\ IsOpen(tasks[Gpt])
        /\ SlotsLeft("image", ImageScenes) /\ (Avatars # {} => SlotsLeft("heygen", {Job}))
    BY <1>0, <1>9 DEF GptFanOut, rows, api, history
  <2>2. /\ \A u \in ids : u \in TaskIds /\ u # Gpt /\ u.q \in {"image", "heygen"} /\ tasks[u].st = "absent"
        /\ \A s \in ImageScenes : \E u \in ids \cap TasksOf("image") : u.s = s
        /\ Avatars # {} => \E u \in ids \cap TasksOf("heygen") : TRUE
    BY <1>0, <2>1 DEF SlotsLeft, FanOut, NextSlots, TasksOf
  <2> HIDE DEF ids
  <2>3. Beside(Gpt, ids) /\ tasks'[Gpt].st = "completed" /\ UNCHANGED failures
    BY <1>0, <2>1, QueueMoves
  <2>4. \A u \in ids : Present(u)'
    BY <2>2, <2>3 DEF Beside, Present, NewJob, NoJob
  <2>5. FannedOut'
    BY <2>2, <2>4 DEF FannedOut
  <2> QED BY <2>1, <2>2, <2>3, <2>5, GptBatonStep, UrlsStay DEF Baton, Present, Underway
<1>10. CASE GptFanOutBreaks
  <2>1. PICK S \in SUBSET ImageScenes :
          /\ tasks' = FailAttempt(Add(tasks, FanOut(S)), Gpt, Attempts[Gpt.q])
          /\ failures' = IF IsLastAttempt(tasks[Gpt], Attempts[Gpt.q])
                         THEN failures \cup {[t |-> Gpt, at |-> "mark"]} ELSE failures
    BY <1>0, <1>10 DEF GptFanOutBreaks
  <2>2. QueueTyped(Add(tasks, FanOut(S)))
    BY <1>0, AddTyped
  <2>3. /\ tasks'[Gpt].st \in {"waiting", "failed"}
        /\ \A x \in TaskIds : x # Gpt => tasks'[x] = Add(tasks, FanOut(S))[x]
    BY <1>0, <2>1, <2>2, FailAttemptTyped
  <2>4. Beside(Gpt, FanOut(S))
    BY <1>0, <2>3 DEF Beside, Add, QueueTyped
  <2>5. /\ UNCHANGED <<job, scene, creating, dropped>> /\ IsOpen(tasks[Gpt]) /\ At(Gpt, "fanout")
    BY <1>0, <1>10 DEF GptFanOutBreaks, rows, api, history
  <2>6. tasks'[Gpt].st = "failed" => Told(Gpt)'
    <3>1. Add(tasks, FanOut(S))[Gpt] = tasks[Gpt]
      BY <1>0, <2>5 DEF Add, QueueTyped, At
    <3>2. CASE IsLastAttempt(tasks[Gpt], Attempts[Gpt.q])
      BY <2>1, <3>2 DEF Told
    <3>3. CASE ~IsLastAttempt(tasks[Gpt], Attempts[Gpt.q])
      <4>1. tasks'[Gpt].st = "waiting"
        BY <1>0, <2>1, <2>2, <3>1, <3>3 DEF FailAttempt, QueueTyped, QueueJob
      <4> QED BY <4>1
    <3> QED BY <3>2, <3>3
  <2>7. \A u \in FanOut(S) : u.q # "state"
    BY DEF FanOut, NextSlots, TasksOf
  <2> QED BY <2>1, <2>3, <2>4, <2>5, <2>6, <2>7, GptBatonStep, UrlsStay DEF Baton, Present, Underway
<1> QED BY <1>4, <1>5, <1>6, <1>7, <1>8, <1>9, <1>10 DEF GptStep

-----------------------------------------------------------------------------
(* The state and compose workers, and attempts that throw *)

LEMMA StateBaton ==
  ASSUME TypeOK, Baton, NEW t \in TasksOf("state"), StateStep(t)
  PROVE  Baton'
<1>0. /\ t \in TaskIds \ {Pipeline} /\ t.q = "state" /\ t \notin MediaTasks /\ t # Gpt /\ t.s \in Scenes
      /\ scene \in [Scenes -> SceneRow] /\ {"fail", "refund", "compose", "add"} \subseteq TaskPC
      /\ \A s \in Media : State(s) \in TasksOf("state") /\ State(s).s = s
      /\ t = State(t.s) /\ TasksOf("state") \subseteq TaskIds
  <2>1. \A s \in Media : State(s) \in TaskIds /\ State(s).q = "state" /\ State(s).s = s
    BY DEF TaskIds, State, Task
  <2>2. t.q = "state" /\ t \in TaskIds
    BY DEF TasksOf
  <2>3. t = State(t.s)
    BY <2>2 DEF TaskIds, State, Task, Pipeline, Gpt, Compose, Runway
  <2> QED BY <2>1, <2>2, <2>3, TaskShape, TypeParts DEF TasksOf, RowsTyped, TaskPC, MediaTasks, MediaQueues,
             Pipeline, Gpt, Task
<1>1. ASSUME NEW ids, Beside(t, ids), IsOpen(tasks[t]), Present(t)', UNCHANGED <<creating, dropped, failures>>,
             Underway' => Underway, UrlsFollow, \A u \in ids : u.q # "state",
             scene'[t.s].done,
             Underway' => ~At(t, "refund")' /\ ~At(t, "add")',
             Underway' /\ tasks'[t].st = "completed" =>
               \E s \in Media : tasks'[State(s)].st # "completed"
      PROVE  Baton'
  BY <1>0, <1>1, WorkerBaton
<1>2. Present(t) => scene[t.s].url
  BY DEF Baton, UrlInv
<1>3. \A pc : At(t, pc) => scene[t.s].done /\ IsOpen(tasks[t])
  BY DEF Baton, UrlInv, At, IsOpen
<1>4. (At(t, "refund") \/ At(t, "add")) => ~Underway
  BY DEF Baton, ChainInv
<1>5. CASE StateCheck(t)
  <2> DEFINE marked == [scene EXCEPT ![t.s].done = TRUE]
  <2>1. /\ UNCHANGED <<job, creating, dropped>> /\ Waiting(t) /\ scene' = marked
        /\ \/ (\E s \in Scenes : ~SceneDone(marked[s], s)) /\ Return(t)
           \/ Step(t, "fail") \/ Step(t, "compose")
    BY <1>5 DEF StateCheck, api, history
  <2>2. Present(t) /\ IsOpen(tasks[t])
    BY <2>1 DEF Waiting, Present, IsOpen
  <2>3. \A s \in Scenes : marked[s] = IF s = t.s THEN [scene[s] EXCEPT !.done = TRUE] ELSE scene[s]
    BY <1>0
  <2>4. \A s \in Scenes : scene[s] \in SceneRow
    BY <1>0
  <2>5. /\ \A s \in Scenes : scene'[s].url = scene[s].url /\ (s # t.s => scene'[s].done = scene[s].done)
        /\ scene'[t.s].done
    BY <1>0, <2>1, <2>3, <2>4 DEF SceneRow
  <2>6. UrlsFollow
    BY <1>2, <2>2, <2>5 DEF UrlsFollow, Baton, UrlInv
  <2>7. CASE (\E s \in Scenes : ~SceneDone(marked[s], s)) /\ Return(t)
    <3>1. Beside(t, {}) /\ tasks'[t].st = "completed" /\ UNCHANGED failures
      BY <1>0, <2>7, QueueMoves
    <3>2. PICK s \in Scenes : ~SceneDone(scene'[s], s)
      BY <2>1, <2>7
    <3>3. SceneType[s] # "text" /\ ~(scene'[s].done /\ scene'[s].url)
      BY <3>2 DEF SceneDone
    <3>4. s \in Media /\ s # t.s
      BY <1>2, <2>2, <2>5, <3>3 DEF Media, OfType
    <3>5. ~scene[s].done
      BY <2>5, <3>3, <3>4 DEF Baton, UrlInv
    <3>6. State(s) # t /\ tasks[State(s)].st # "completed"
      BY <1>0, <3>4, <3>5 DEF Baton, UrlInv
    <3>7. tasks'[State(s)].st # "completed"
      BY <1>0, <3>1, <3>4, <3>6 DEF Beside
    <3> QED BY <1>1, <2>1, <2>2, <2>5, <2>6, <3>1, <3>4, <3>7 DEF Present, At, Underway
  <2>8. CASE Step(t, "fail") \/ Step(t, "compose")
    <3>1. Beside(t, {}) /\ (At(t, "fail")' \/ At(t, "compose")') /\ UNCHANGED failures
      BY <1>0, <2>8, QueueMoves
    <3> QED BY <1>1, <2>1, <2>2, <2>5, <2>6, <3>1 DEF Present, At, Underway
  <2> QED BY <2>1, <2>7, <2>8
<1>6. ASSUME UNCHANGED <<scene, creating, dropped>>, ~Underway', NEW pc, At(t, pc),
             \/ \E to \in TaskPC : Step(t, to)
             \/ Return(t) \/ ReturnAdding(t, {Compose})
      PROVE  Baton'
  <2>1. UrlsFollow /\ scene'[t.s].done
    BY <1>3, <1>6, UrlsStay DEF Baton
  <2>2. Compose.q # "state"
    BY DEF Compose, Task
  <2>3. PICK ids : Beside(t, ids) /\ Present(t)' /\ UNCHANGED failures /\ \A u \in ids : u.q # "state"
    <3>1. CASE \E to \in TaskPC : Step(t, to)
      <4>1. Beside(t, {}) /\ Present(t)' /\ UNCHANGED failures
        BY <1>0, <3>1, QueueMoves DEF At, Present
      <4> QED BY <4>1
    <3>2. CASE Return(t)
      <4>1. Beside(t, {}) /\ Present(t)' /\ UNCHANGED failures
        BY <1>0, <3>2, QueueMoves DEF Present
      <4> QED BY <4>1
    <3>3. CASE ReturnAdding(t, {Compose})
      <4>1. Beside(t, {Compose}) /\ Present(t)' /\ UNCHANGED failures
        BY <1>0, <3>3, QueueMoves DEF Present
      <4> QED BY <2>2, <4>1
    <3> QED BY <1>6, <3>1, <3>2, <3>3
  <2> QED BY <1>1, <1>3, <1>6, <2>1, <2>3
<1>7. CASE StateFail(t)
  <2>1. ~Underway'
    BY <1>7 DEF StateFail, Underway
  <2> QED BY <1>0, <1>6, <1>7, <2>1 DEF StateFail, api, history
<1>8. CASE StateCompose(t)
  <2>1. ~Underway'
    BY <1>8 DEF StateCompose, Underway
  <2> QED BY <1>0, <1>6, <1>8, <2>1 DEF StateCompose, api, history
<1>9. CASE StateRefund(t) \/ StateAdd(t)
  <2>1. ~Underway'
    BY <1>4, <1>9 DEF StateRefund, StateAdd, rows, Underway
  <2> QED BY <1>0, <1>6, <1>9, <2>1 DEF StateRefund, StateAdd, rows, api, history
<1> QED BY <1>5, <1>7, <1>8, <1>9 DEF StateStep

LEMMA ComposeBaton ==
  ASSUME TypeOK, Baton, ComposeStep
  PROVE  Baton'
<1>0. /\ Compose \in TaskIds \ {Pipeline} /\ Compose # Gpt /\ Compose.q = "compose" /\ Compose \notin MediaTasks
      /\ {"finish", "settle"} \subseteq TaskPC
  BY SingleTasksOutside DEF Compose, Gpt, Pipeline, Task, TaskPC
<1>1. /\ UNCHANGED <<scene, creating, dropped>> /\ IsOpen(tasks[Compose]) /\ (Underway' => Underway)
      /\ (\E pc \in TaskPC : Step(Compose, pc)) \/ Return(Compose) \/ Throw(Compose)
  BY <1>0 DEF ComposeStep, ComposeStart, ComposeFinish, ComposeSettle, Underway, rows, api, history,
     Waiting, At, IsOpen
<1>2. Beside(Compose, {}) /\ Present(Compose)' /\ failures \subseteq failures'
  <2>1. CASE \E pc \in TaskPC : Step(Compose, pc)
    BY <1>0, <2>1, QueueMoves DEF At, Present
  <2>2. CASE Return(Compose)
    BY <1>0, <2>2, QueueMoves DEF Present
  <2>3. CASE Throw(Compose)
    BY <1>0, <2>3, Asides, QueueMoves DEF Present
  <2> QED BY <1>1, <2>1, <2>2, <2>3
<1>3. UrlsFollow
  BY <1>1, UrlsStay DEF Baton
<1> QED BY <1>0, <1>1, <1>2, <1>3, WorkerBaton

LEMMA ThrowBaton ==
  ASSUME TypeOK, Baton, NEW t \in TaskIds \ {Pipeline}, AttemptFails(t)
  PROVE  Baton'
<1>1. UNCHANGED <<job, scene, creating, dropped>> /\ IsOpen(tasks[t]) /\ Throw(t)
  BY DEF AttemptFails, rows, api, history
<1>2. /\ Beside(t, {}) /\ failures \subseteq failures' /\ tasks'[t].st \in {"waiting", "failed"}
      /\ HasHandler(t) /\ tasks'[t].st = "failed" => Told(t)'
  <2>1. /\ Beside(t, {})
        /\ \/ tasks'[t].st = "waiting" /\ UNCHANGED failures
           \/ /\ tasks'[t].st = "failed"
              /\ failures' = IF HasHandler(t) THEN failures \cup {[t |-> t, at |-> "mark"]} ELSE failures
    BY <1>1, QueueMoves
  <2> QED BY <2>1 DEF Told
<1>3. UrlsFollow
  BY <1>1, UrlsStay DEF Baton
<1>4. t \in MediaTasks => Passes(t)
  BY <1>2 DEF Passes, HasHandler, MediaTasks, MediaQueues, Present, At
<1>5. t = Gpt => HasHandler(t)
  BY DEF HasHandler, Gpt, Task
<1>6. Present(t)' /\ \A pc : ~At(t, pc)'
  BY <1>2 DEF Present, At
<1> QED BY <1>1, <1>2, <1>3, <1>4, <1>5, <1>6, WorkerBaton DEF Underway

-----------------------------------------------------------------------------
(* Before the script: the coordinator, and the API that starts or stops it  *)

LEMMA OnlyPipeline ==
  ASSUME tasks'[Gpt].st \in {"absent", "waiting"}, \A x \in TaskIds \ {Pipeline, Gpt} : ~Present(x)',
         \A s \in Scenes : scene'[s].done => scene'[s].url,
         creating' \in {"enqueue", "markFailed"} => ~Present(Pipeline)',
         Early' => /\ failures' = {} /\ job' \in {"pending", "running", "cancelled"}
                   /\ video' = "cancelled" \/ cancelling' # "idle" => job' = "cancelled",
         Present(Gpt)' => tasks'[Pipeline].st = "completed",
         Underway' => \/ Present(Gpt)' \/ creating' \in {"enqueue", "markFailed"}
                      \/ IsOpen(tasks'[Pipeline]) \/ Told(Pipeline)' \/ dropped'
  PROVE  Baton'
<1>1. /\ \A x \in MediaTasks : tasks'[x].st = "absent"
      /\ \A x \in TasksOf("state") : tasks'[x].st = "absent"
      /\ tasks'[Compose].st = "absent"
      /\ \A s \in Media : State(s) \in TasksOf("state")
  <2>1. \A s \in Media : State(s) \in TaskIds /\ State(s).q = "state"
    BY DEF TaskIds, State, Task
  <2>2. Compose \in TaskIds \ {Pipeline, Gpt}
    BY SingleTasks DEF Compose, Pipeline, Gpt, Task
  <2>3. MediaTasks \subseteq TaskIds \ {Pipeline, Gpt} /\ TasksOf("state") \subseteq TaskIds \ {Pipeline, Gpt}
    BY DEF MediaTasks, MediaQueues, TasksOf, Pipeline, Gpt, Task
  <2> QED BY <2>1, <2>2, <2>3 DEF Present, TasksOf
<1>2. StartInv'
  <2>1. (\A x \in MediaTasks : ~Present(x)') /\ (\A x \in TasksOf("state") : ~Present(x)') /\ ~Present(Compose)'
    BY <1>1 DEF Present
  <2> QED BY <2>1 DEF StartInv
<1>3. UrlInv'
  BY <1>1 DEF UrlInv, Present, At
<1>4. ChainInv'
  BY <1>1 DEF ChainInv, At
<1> QED BY <1>2, <1>3, <1>4 DEF Baton

LEMMA PipelineBaton ==
  ASSUME TypeOK, Baton, PipelineStep \/ AttemptFails(Pipeline)
  PROVE  Baton'
<1>0. /\ Pipeline \in TaskIds /\ Gpt \in TaskIds /\ Pipeline # Gpt /\ HasHandler(Pipeline)
      /\ {"claim", "video", "enqueue"} \subseteq TaskPC /\ QueueTyped(tasks)
      /\ NewJob.st = "waiting"
  BY SingleTasks, TypeParts DEF TasksTyped, TaskPC, HasHandler, Pipeline, Gpt, Task, NewJob, NoJob
<1>1. IsOpen(tasks[Pipeline])
  BY DEF PipelineStep, PipelineSkip, PipelineStart, PipelineClaim, PipelineVideo, PipelineEnqueue,
     AttemptFails, Waiting, At, IsOpen
<1>2. /\ ~Present(Gpt) /\ Present(Pipeline) /\ creating \notin {"enqueue", "markFailed"}
      /\ failures = {} /\ job \in {"pending", "running", "cancelled"}
      /\ video = "cancelled" \/ cancelling # "idle" => job = "cancelled"
      /\ \A s \in Scenes : scene[s].done => scene[s].url
  BY <1>1 DEF Baton, StartInv, UrlInv, Early, IsOpen, Present
<1>3. \A x \in TaskIds \ {Pipeline} : ~Present(x)
  BY <1>2, NoScript DEF Baton
<1>4. ASSUME Beside(Pipeline, {}), UNCHANGED <<scene, creating, cancelling, dropped>>,
             \/ IsOpen(tasks'[Pipeline]) /\ UNCHANGED failures
             \/ tasks'[Pipeline].st = "completed" /\ ~Underway'
             \/ tasks'[Pipeline].st = "failed" /\ Told(Pipeline)',
             job' \in {"pending", "running", "cancelled"},
             video' = "cancelled" \/ cancelling' # "idle" => job' = "cancelled"
      PROVE  Baton'
  <2>1. \A x \in TaskIds \ {Pipeline} : tasks'[x].st = "absent"
    BY <1>3, <1>4 DEF Beside, Present
  <2>2. Early' => UNCHANGED failures
    BY <1>2, <1>4 DEF Early, IsOpen
  <2> QED BY <1>0, <1>2, <1>4, <2>1, <2>2, OnlyPipeline DEF Present
<1>5. CASE PipelineSkip
  <2>1. /\ job = "cancelled" /\ UNCHANGED <<job, video, scene, creating, cancelling, dropped>>
        /\ Return(Pipeline)
    BY <1>2, <1>5 DEF PipelineSkip, rows, api, history
  <2>2. Beside(Pipeline, {}) /\ tasks'[Pipeline].st = "completed"
    BY <1>0, <2>1, QueueMoves
  <2> QED BY <1>2, <1>4, <2>1, <2>2 DEF Underway
<1>6. ASSUME NEW pc \in TaskPC, Step(Pipeline, pc)
      PROVE  Beside(Pipeline, {}) /\ IsOpen(tasks'[Pipeline]) /\ UNCHANGED failures
  BY <1>0, <1>6, QueueMoves DEF At, IsOpen
<1>7. CASE PipelineStart
  <2>1. UNCHANGED <<job, video, scene, creating, cancelling, dropped>> /\ Step(Pipeline, "claim")
    BY <1>7 DEF PipelineStart, rows, api, history
  <2> QED BY <1>0, <1>2, <1>4, <1>6, <2>1
<1>8. CASE PipelineClaim
  <2>1. UNCHANGED <<video, scene, creating, cancelling, dropped>>
    BY <1>8 DEF PipelineClaim, api, history
  <2>2. CASE job = "cancelled" /\ Return(Pipeline) /\ UNCHANGED job
    <3>1. Beside(Pipeline, {}) /\ tasks'[Pipeline].st = "completed"
      BY <1>0, <2>2, QueueMoves
    <3> QED BY <1>4, <2>1, <2>2, <3>1 DEF Underway
  <2>3. CASE job # "cancelled" /\ job' = "running" /\ Step(Pipeline, "video")
    BY <1>0, <1>2, <1>4, <1>6, <2>1, <2>3
  <2> QED BY <1>8, <2>2, <2>3 DEF PipelineClaim
<1>9. CASE PipelineVideo
  <2>1. UNCHANGED <<job, scene, creating, cancelling, dropped>> /\ Step(Pipeline, "enqueue")
        /\ video' = IF video = "cancelled" THEN video ELSE "processing"
    BY <1>9 DEF PipelineVideo, api, history
  <2>2. video' = "cancelled" => video = "cancelled"
    BY <2>1
  <2>3. Beside(Pipeline, {}) /\ IsOpen(tasks'[Pipeline]) /\ UNCHANGED failures
    BY <1>0, <1>6, <2>1
  <2> QED BY <1>2, <1>4, <2>1, <2>2, <2>3
<1>10. CASE PipelineEnqueue
  <2>1. UNCHANGED <<job, video, scene, creating, cancelling, dropped, failures>>
        /\ tasks' = Complete(AddOrReplace(tasks, {Gpt}), Pipeline)
    BY <1>10 DEF PipelineEnqueue, rows, api, history
  <2>2. /\ QueueTyped(AddOrReplace(tasks, {Gpt}))
        /\ \A x \in TaskIds : x # Gpt => AddOrReplace(tasks, {Gpt})[x] = tasks[x]
    BY <1>0, AddOrReplaceTyped
  <2>3. AddOrReplace(tasks, {Gpt})[Gpt].st = "waiting"
    BY <1>0, <1>2 DEF AddOrReplace, QueueTyped, IsOpen, Present
  <2>4. /\ tasks'[Pipeline].st = "completed" /\ tasks'[Gpt].st = "waiting"
        /\ \A x \in TaskIds \ {Pipeline, Gpt} : tasks'[x] = tasks[x]
    BY <1>0, <2>1, <2>2, <2>3, CompleteTyped
  <2>5. ~Early' /\ Present(Gpt)'
    BY <1>2, <2>1, <2>4 DEF Early, IsOpen, Present
  <2>6. \A x \in TaskIds \ {Pipeline, Gpt} : ~Present(x)'
    BY <1>3, <2>4 DEF Present
  <2>7. creating' \notin {"enqueue", "markFailed"} /\ \A s \in Scenes : scene'[s].done => scene'[s].url
    BY <1>2, <2>1
  <2> QED BY <2>4, <2>5, <2>6, <2>7, OnlyPipeline
<1>11. CASE AttemptFails(Pipeline)
  <2>1. UNCHANGED <<job, video, scene, creating, cancelling, dropped>> /\ Throw(Pipeline)
    BY <1>11 DEF AttemptFails, rows, api, history
  <2>2. /\ Beside(Pipeline, {})
        /\ \/ IsOpen(tasks'[Pipeline]) /\ UNCHANGED failures
           \/ tasks'[Pipeline].st = "failed" /\ Told(Pipeline)'
    <3>1. /\ Beside(Pipeline, {})
          /\ \/ tasks'[Pipeline].st = "waiting" /\ UNCHANGED failures
             \/ /\ tasks'[Pipeline].st = "failed"
                /\ failures' = failures \cup {[t |-> Pipeline, at |-> "mark"]}
      BY <1>0, <2>1, QueueMoves
    <3> QED BY <3>1 DEF IsOpen, Told
  <2> QED BY <1>2, <1>4, <2>1, <2>2
<1> QED BY <1>5, <1>7, <1>8, <1>9, <1>10, <1>11 DEF PipelineStep

-----------------------------------------------------------------------------
(* The failure handlers, the API, and the death of a process *)

(* Steps that leave every queue job as it is.                               *)
LEMMA RestBaton ==
  ASSUME Baton, UNCHANGED tasks, Underway' => Underway, dropped => dropped', UrlsFollow,
         creating' \in {"enqueue", "markFailed"} => creating \in {"enqueue", "markFailed"},
         Present(Gpt) \/ (Underway' /\ creating \in {"enqueue", "markFailed"} =>
                            creating' \in {"enqueue", "markFailed"} \/ dropped'),
         Underway' => \A x \in TaskIds : Told(x) => Told(x)' \/ dropped',
         Early' => /\ failures' = {} /\ job' \in {"pending", "running", "cancelled"}
                   /\ video' = "cancelled" \/ cancelling' # "idle" => job' = "cancelled"
  PROVE  Baton'
<1>1. /\ {Pipeline, Gpt} \subseteq TaskIds /\ MediaTasks \subseteq TaskIds
      /\ \A x \in TaskIds : Present(x)' <=> Present(x)
  BY SingleTasks DEF MediaTasks, Present
<1>2. StartInv'
  BY <1>1 DEF Baton, StartInv, MediaTasks, TasksOf, Compose, TaskIds
<1>3. UrlInv'
  BY UrlQuiet DEF Baton
<1>4. ChainInv'
  <2>1. ChainInv /\ \A x \in TaskIds : (\A pc : At(x, pc)' <=> At(x, pc)) /\ (IsOpen(tasks'[x]) <=> IsOpen(tasks[x]))
    BY DEF Baton, At
  <2>2. Underway' /\ ~Present(Gpt) =>
           Present(Gpt)' \/ creating' \in {"enqueue", "markFailed"} \/ IsOpen(tasks'[Pipeline])
             \/ Told(Pipeline)' \/ dropped'
    BY <1>1, <2>1 DEF ChainInv
  <2>3. \A x \in TasksOf("state") : At(x, "refund")' \/ At(x, "add")' => At(x, "refund") \/ At(x, "add")
    BY DEF At
  <2>4. Underway' => \A x \in MediaTasks \cup {Gpt} : Told(x) => Told(x)' \/ dropped'
    BY <1>1
  <2> QED BY <1>1, <2>1, <2>2, <2>3, <2>4, ChainKeeps
<1> QED BY <1>2, <1>3, <1>4 DEF Baton

LEMMA HandlerBaton ==
  ASSUME TypeOK, Baton, HandlerStep \/ \E f \in failures : HandlerFails(f)
  PROVE  Baton'
<1>1. PICK f \in failures : HandlerMark(f) \/ HandlerRefund(f) \/ HandlerFails(f)
  BY DEF HandlerStep
<1>2. UNCHANGED <<tasks, creating, cancelling>> /\ (dropped => dropped')
  BY <1>1 DEF HandlerMark, HandlerRefund, HandlerFails, rows, api, history
<1>3. UrlsFollow
  <2>1. \A s \in Scenes : scene'[s].url = scene[s].url /\ scene'[s].done = scene[s].done
    <3>1. CASE HandlerMark(f)
      <4>1. scene \in [Scenes -> SceneRow]
        BY TypeParts DEF RowsTyped
      <4>2. \A s \in Scenes : scene'[s] = scene[s] \/ scene'[s] = [scene[s] EXCEPT !.status = "failed"]
        BY <3>1 DEF HandlerMark
      <4> QED BY <4>1, <4>2 DEF SceneRow
    <3>2. CASE ~HandlerMark(f)
      BY <1>1, <3>2 DEF HandlerRefund, HandlerFails, rows
    <3> QED BY <3>1, <3>2
  <2> QED BY <2>1, UrlsStay DEF Baton
<1>4. ~Early'
  BY <1>2 DEF Baton, StartInv, Early
<1>5. Underway' => Underway /\ (dropped' \/ (f.at = "refund" /\ failures' = failures \ {f}))
  BY <1>1 DEF HandlerMark, HandlerRefund, HandlerFails, rows, Underway
<1>6. Underway' => \A x \in TaskIds : Told(x) => Told(x)' \/ dropped'
  BY <1>5 DEF Told
<1> QED BY <1>2, <1>3, <1>4, <1>5, <1>6, RestBaton

LEMMA OrchestratorDiesBaton ==
  ASSUME TypeOK, Baton, OrchestratorDies
  PROVE  Baton'
<1>1. /\ UNCHANGED <<job, video, scene, creating, cancelling>> /\ tasks' = Stall(tasks)
      /\ failures' = {[t |-> t, at |-> "mark"] :
                        t \in {u \in TaskIds : StallAgain(tasks[u]) /\ HasHandler(u)}}
      /\ dropped' = (dropped \/ failures # {})
      /\ QueueTyped(tasks) /\ MediaTasks \subseteq TaskIds /\ {Pipeline, Gpt} \subseteq TaskIds
      /\ \E x \in TaskIds : tasks[x].st = "active"
  BY TypeParts, SingleTasks DEF OrchestratorDies, rows, api, TasksTyped, MediaTasks
<1>2. \A x \in TaskIds : \/ tasks'[x] = tasks[x] /\ tasks[x].st # "active"
                         \/ tasks[x].st = "active" /\ tasks'[x].st \in {"waiting", "failed"}
  BY <1>1, StallTyped
<1>3. ASSUME NEW x \in TaskIds, HasHandler(x), tasks'[x].st = "failed", tasks[x].st # "failed"
      PROVE  Told(x)'
  <2>1. tasks[x] \in QueueJob(TaskPC, Attempts[x.q]) /\ x \in DOMAIN tasks /\ tasks[x].st = "active"
    BY <1>1, <1>2, <1>3 DEF QueueTyped
  <2>2. CASE StallAgain(tasks[x])
    BY <1>1, <1>3, <2>2 DEF Told
  <2>3. CASE ~StallAgain(tasks[x])
    <3>1. tasks'[x] = [tasks[x] EXCEPT !.st = "waiting", !.stalls = 1, !.pc = "start", !.resumed = FALSE]
      BY <1>1, <2>1, <2>3 DEF Stall
    <3> QED BY <1>3, <2>1, <3>1 DEF QueueJob
  <2> QED BY <2>2, <2>3
<1>4. (\A x \in TaskIds : Told(x) => dropped') /\ (dropped => dropped') /\ (Underway' => Underway)
  BY <1>1 DEF Told, Underway
<1>5. UrlsFollow
  BY <1>1, UrlsStay DEF Baton
<1>6. \A x \in TaskIds : (Present(x)' <=> Present(x)) /\ \A pc : ~At(x, pc)'
  BY <1>2 DEF Present, At
<1>7. \A x \in MediaTasks \cup {Pipeline, Gpt} : HasHandler(x)
  BY DEF HasHandler, MediaTasks, MediaQueues, Pipeline, Gpt, Task
<1>8. CASE Present(Gpt)
  <2>1. tasks'[Pipeline] = tasks[Pipeline]
    BY <1>1, <1>2, <1>8 DEF Baton, StartInv
  <2>2. StartInv'
    <3>1. \A x \in TasksOf("state") : Present(x)' => Present(x)
      BY <1>6 DEF TasksOf
    <3> QED BY <1>1, <1>6, <1>8, <2>1, <3>1, StartAfterScript DEF Baton
  <2>3. UrlInv'
    <3>1. \A x \in TasksOf("state") \cup MediaTasks :
            tasks'[x] = tasks[x] \/ (Present(x) /\ tasks'[x].st \in {"waiting", "failed"})
      BY <1>1, <1>2 DEF TasksOf, Present
    <3> QED BY <1>5, <3>1, UrlQuiet DEF Baton
  <2>4. ChainInv'
    <3>1. \A x \in TaskIds : tasks'[x].st = "completed" => tasks[x].st = "completed"
      BY <1>2
    <3>2. \A x \in TasksOf("state") : ~At(x, "refund")' /\ ~At(x, "add")'
      BY <1>6 DEF TasksOf
    <3>3. \A x \in MediaTasks \cup {Gpt} :
            /\ tasks'[x].st = "failed" => tasks[x].st = "failed" \/ Told(x)'
            /\ Told(x) => dropped'
      BY <1>1, <1>3, <1>4, <1>7
    <3>4. \A x \in TasksOf("state") \cup MediaTasks : tasks'[x].st = "completed" => tasks[x].st = "completed"
      BY <1>1, <3>1 DEF TasksOf
    <3> QED BY <1>1, <1>4, <1>6, <1>8, <3>1, <3>2, <3>3, <3>4, ChainKeeps DEF Baton
  <2> QED BY <2>2, <2>3, <2>4 DEF Baton
<1>9. CASE ~Present(Gpt)
  <2>1. \A x \in TaskIds \ {Pipeline} : ~Present(x) /\ ~Present(x)'
    BY <1>6, <1>9, NoScript DEF Baton
  <2>2. tasks[Pipeline].st = "active" /\ tasks'[Pipeline].st \in {"waiting", "failed"}
    BY <1>1, <1>2, <2>1 DEF Present
  <2>3. tasks'[Pipeline].st = "failed" => Told(Pipeline)'
    BY <1>1, <1>3, <1>7, <2>2
  <2>4. tasks'[Pipeline].st = "waiting" => failures' = {}
    <3>1. \A x \in TaskIds : StallAgain(tasks[x]) => x = Pipeline
      BY <2>1 DEF StallAgain, Present
    <3>2. StallAgain(tasks[Pipeline]) => tasks'[Pipeline].st = "failed"
      <4>1. tasks[Pipeline] \in QueueJob(TaskPC, Attempts[Pipeline.q]) /\ Pipeline \in DOMAIN tasks
        BY <1>1 DEF QueueTyped
      <4>2. StallAgain(tasks[Pipeline]) =>
              tasks'[Pipeline] = [tasks[Pipeline] EXCEPT !.st = "failed", !.stalls = 1, !.pc = "start",
                                                         !.resumed = FALSE]
        BY <1>1, <4>1 DEF Stall, StallAgain
      <4> QED BY <4>1, <4>2 DEF QueueJob
    <3> QED BY <1>1, <3>1, <3>2
  <2>5. Early /\ creating \notin {"enqueue", "markFailed"}
    BY <2>2 DEF Early, IsOpen, Baton, StartInv, Present
  <2>6. /\ job \in {"pending", "running", "cancelled"}
        /\ video = "cancelled" \/ cancelling # "idle" => job = "cancelled"
        /\ \A s \in Scenes : scene[s].done => scene[s].url
    BY <2>5 DEF Baton, StartInv, UrlInv
  <2>7. Early' => tasks'[Pipeline].st = "waiting"
    BY <1>1, <2>2, <2>5 DEF Early, IsOpen
  <2>8. tasks'[Gpt].st = "absent" /\ ~Present(Gpt)'
    BY <1>1, <1>6, <1>9 DEF Present
  <2>9. IsOpen(tasks'[Pipeline]) \/ Told(Pipeline)'
    BY <2>2, <2>3 DEF IsOpen
  <2> QED BY <1>1, <2>1, <2>4, <2>5, <2>6, <2>7, <2>8, <2>9, OnlyPipeline
<1> QED BY <1>8, <1>9

-----------------------------------------------------------------------------
(* The requests of the tenant *)

LEMMA CreateBaton ==
  ASSUME TypeOK, IInv, Baton, CreateVideoJob
  PROVE  Baton'
<1>1. /\ NotCreated /\ UNCHANGED <<scene, tasks, failures, cancelling>>
      /\ job' = "pending" /\ video' = "pending" /\ creating' = "enqueue"
      /\ \A s \in Scenes : scene[s].done => scene[s].url
  BY DEF CreateVideoJob, IInv, queue, Baton, UrlInv
<1>2. \A x \in TaskIds : tasks'[x].st = "absent" /\ ~Present(x)'
  BY <1>1 DEF NotCreated, Present
<1> QED BY <1>1, <1>2, SingleTasks, OnlyPipeline DEF NotCreated

LEMMA EnqueueBaton ==
  ASSUME TypeOK, Baton, EnqueuePipeline
  PROVE  Baton'
<1>1. /\ creating = "enqueue" /\ UNCHANGED <<job, video, scene, failures, cancelling>>
      /\ tasks' = Add(tasks, {Pipeline}) /\ creating' = "done"
      /\ QueueTyped(tasks) /\ {Pipeline, Gpt} \subseteq TaskIds /\ Pipeline # Gpt
  BY TypeParts, SingleTasks DEF EnqueuePipeline, rows, TasksTyped, Pipeline, Gpt, Task
<1>2. /\ ~Present(Pipeline) /\ ~Present(Gpt) /\ failures = {} /\ job \in {"pending", "running", "cancelled"}
      /\ video = "cancelled" \/ cancelling # "idle" => job = "cancelled"
      /\ \A s \in Scenes : scene[s].done => scene[s].url
  BY <1>1 DEF Baton, StartInv, UrlInv, Early, Present
<1>3. \A x \in TaskIds \ {Pipeline} : tasks'[x] = tasks[x] /\ ~Present(x)
  <2>1. \A x \in TaskIds \ {Pipeline} : tasks'[x] = tasks[x]
    BY <1>1, AddTyped
  <2> QED BY <1>2, <2>1, NoScript DEF Baton
<1>4. tasks'[Pipeline].st = "waiting"
  BY <1>1, <1>2 DEF Add, NewJob, NoJob, Present, QueueTyped
<1>5. tasks'[Gpt].st = "absent" /\ \A x \in TaskIds \ {Pipeline} : ~Present(x)'
  BY <1>1, <1>3 DEF Present
<1>6. IsOpen(tasks'[Pipeline])
  BY <1>4 DEF IsOpen
<1> QED BY <1>1, <1>2, <1>5, <1>6, OnlyPipeline

(* removeQueuedPipelineJob takes the coordinator's job out of a queue that  *)
(* holds nothing else.                                                      *)
LEMMA RemoveBaton ==
  ASSUME TypeOK, Baton, CancelQueued, Waiting(Pipeline)
  PROVE  Baton'
<1>1. /\ UNCHANGED <<job, scene, creating>> /\ cancelling = "queue" /\ tasks' = Remove(tasks, Pipeline)
      /\ QueueTyped(tasks) /\ {Pipeline, Gpt} \subseteq TaskIds /\ Pipeline # Gpt
  BY TypeParts, SingleTasks DEF CancelQueued, rows, TasksTyped, Pipeline, Gpt, Task
<1>2. Early /\ Present(Pipeline) /\ tasks[Pipeline].st # "completed"
  BY DEF Waiting, Early, IsOpen, Present
<1>3. /\ job = "cancelled" /\ ~Present(Gpt) /\ creating \notin {"enqueue", "markFailed"}
      /\ \A s \in Scenes : scene[s].done => scene[s].url
  BY <1>1, <1>2 DEF Baton, StartInv, UrlInv
<1>4. \A x \in TaskIds \ {Pipeline} : tasks'[x] = tasks[x] /\ ~Present(x)
  <2>1. \A x \in TaskIds \ {Pipeline} : tasks'[x] = tasks[x]
    BY <1>1, RemoveTyped
  <2> QED BY <1>3, <2>1, NoScript DEF Baton
<1>5. tasks'[Pipeline].st = "absent"
  BY <1>1 DEF Remove, NoJob, QueueTyped
<1>6. tasks'[Gpt].st = "absent" /\ \A x \in TaskIds \ {Pipeline} : ~Present(x)'
  BY <1>1, <1>4 DEF Present
<1>7. ~Early' /\ ~Underway'
  BY <1>1, <1>3, <1>5 DEF Early, IsOpen, Underway
<1> QED BY <1>1, <1>3, <1>6, <1>7, OnlyPipeline DEF Present

LEMMA ApiBaton ==
  ASSUME TypeOK, IInv, Baton,
         CreateVideoJob \/ CreateStep \/ EnqueueFails \/ CancelActive \/ CancelFailed
           \/ DeleteVideo \/ CancelStep \/ ApiDies
  PROVE  Baton'
<1>1. CASE CreateVideoJob
  BY <1>1, CreateBaton
<1>2. CASE EnqueuePipeline
  BY <1>2, EnqueueBaton
<1>3. CASE CancelQueued /\ Waiting(Pipeline)
  BY <1>3, RemoveBaton
<1>4. /\ creating \in {"enqueue", "markFailed"} => ~IsOpen(tasks[Pipeline])
      /\ Early => /\ failures = {} /\ job \in {"pending", "running", "cancelled"}
                  /\ video = "cancelled" \/ cancelling # "idle" => job = "cancelled"
  BY DEF Baton, StartInv, Present, IsOpen
<1>5. ASSUME UNCHANGED <<scene, tasks, failures>>, dropped => dropped', Underway' => Underway,
             creating' = "enqueue" => creating = "enqueue",
             creating' = "markFailed" => creating \in {"enqueue", "markFailed"},
             Underway' /\ creating \in {"enqueue", "markFailed"} =>
               creating' \in {"enqueue", "markFailed"} \/ dropped',
             Early' => /\ job' \in {"pending", "running", "cancelled"}
                       /\ video' = "cancelled" \/ cancelling' # "idle" => job' = "cancelled"
      PROVE  Baton'
  <2>1. UrlsFollow
    BY <1>5, UrlsStay DEF Baton
  <2>2. Early' => Early
    BY <1>5 DEF Early
  <2>3. \A x \in TaskIds : Told(x) => Told(x)'
    BY <1>5 DEF Told
  <2> QED BY <1>4, <1>5, <2>1, <2>2, <2>3, RestBaton
<1>6. CASE EnqueueFails
  <2>1. /\ creating = "enqueue" /\ creating' = "markFailed"
        /\ UNCHANGED <<job, video, scene, tasks, failures, cancelling, dropped>>
    BY <1>6 DEF EnqueueFails, rows, queue, history
  <2> QED BY <1>4, <1>5, <2>1 DEF Early, Underway
<1>7. CASE MarkNotEnqueued
  <2>1. /\ creating = "markFailed" /\ creating' = "release" /\ job' = "failed"
        /\ UNCHANGED <<scene, tasks, failures, dropped>>
    BY <1>7 DEF MarkNotEnqueued, queue, history
  <2> QED BY <1>4, <1>5, <2>1 DEF Early, Underway
<1>8. CASE ReleaseNotEnqueued
  <2>1. /\ creating = "release" /\ creating' = "done"
        /\ UNCHANGED <<job, video, scene, tasks, failures, cancelling, dropped>>
    BY <1>8 DEF ReleaseNotEnqueued, rows, queue, history
  <2> QED BY <1>4, <1>5, <2>1 DEF Early, Underway
<1>9. CASE CancelActive \/ CancelFailed \/ DeleteVideo \/ CancelVideo \/ CancelRelease \/ MarkCancelled
           \/ (CancelQueued /\ ~Waiting(Pipeline))
  <2>1. UNCHANGED <<scene, tasks, failures, creating, dropped>>
    BY <1>9 DEF CancelActive, CancelFailed, DeleteVideo, CancelVideo, CancelRelease, MarkCancelled,
       CancelQueued, rows, queue, api, history
  <2>2. \/ job' = "cancelled"
        \/ UNCHANGED job /\ job = "failed"
        \/ UNCHANGED <<job, cancelling>> /\ job \notin ActiveJobStatuses
        \/ UNCHANGED job /\ cancelling # "idle"
    BY <1>9 DEF CancelActive, CancelFailed, DeleteVideo, CancelVideo, CancelRelease, MarkCancelled,
       CancelQueued, rows, api
  <2>3. (Early' <=> Early) /\ (Underway' => Underway)
    BY <2>1, <2>2 DEF Early, Underway
  <2>4. Early' => job' = "cancelled"
    BY <1>4, <2>2, <2>3 DEF ActiveJobStatuses
  <2> QED BY <1>5, <2>1, <2>3, <2>4
<1>10. CASE ApiDies
  <2>1. /\ creating' = (IF creating = "idle" THEN "idle" ELSE "done") /\ cancelling' = "idle" /\ dropped'
        /\ UNCHANGED <<job, video, scene, tasks, failures>>
    BY <1>10 DEF ApiDies, rows, queue
  <2> QED BY <1>4, <1>5, <2>1 DEF Early, Underway
<1> QED BY <1>1, <1>2, <1>3, <1>6, <1>7, <1>8, <1>9, <1>10 DEF CreateStep, CancelStep

-----------------------------------------------------------------------------
(* BatonInv is inductive *)

LEMMA InitBaton == Init => BatonInv
<1> SUFFICES ASSUME Init PROVE Baton
  BY DEF BatonInv
<1>1. /\ \A t \in TaskIds : ~Present(t) /\ tasks[t].st = "absent"
      /\ \A s \in Scenes : ~scene[s].done
      /\ job = "none" /\ creating = "idle" /\ failures = {}
  BY DEF Init, NoJob, NoScene, Present
<1>2. ~Early /\ ~Underway
  BY <1>1, SingleTasks DEF Early, Underway, IsOpen
<1>3. StartInv
  BY <1>1, <1>2, SingleTasks DEF StartInv, MediaTasks, TasksOf
<1>4. UrlInv
  BY <1>1 DEF UrlInv, MediaTasks, TasksOf, At
<1>5. ChainInv
  BY <1>1, <1>2, SingleTasks DEF ChainInv, TasksOf, At
<1> QED BY <1>3, <1>4, <1>5 DEF Baton

LEMMA NextBaton ==
  TypeOK /\ IInv /\ OnceInv /\ AssetsInv /\ BatonInv /\ [Next]_vars => BatonInv'
<1> SUFFICES ASSUME TypeOK, IInv, OnceInv, AssetsInv, BatonInv, [Next]_vars, requests' = 0
             PROVE  Baton'
  BY DEF BatonInv
<1>1. requests = 0 /\ Once /\ Baton /\ Blank
  BY NoRequestsBefore DEF OnceInv, BatonInv, AssetsInv
<1>2. ASSUME NEW a \in Admins, RetryRead(a) \/ RecomposeRead(a) \/ RequestStep(a) PROVE FALSE
  <2>1. ~RequestStep(a)
    BY <1>1 DEF Once, NoRequests, RequestStep, RetryReset, RetryEnqueue, RecomposeReset, RecomposeEnqueue
  <2>2. requests' = 1
    BY <1>1, <1>2, <2>1 DEF RetryRead, RecomposeRead, Read
  <2> QED BY <2>2
<1>3. ASSUME NEW t \in TaskIds, WorkerStep(t) PROVE Baton'
  <2>1. \/ PipelineStep \/ GptStep \/ ComposeStep
        \/ t \in MediaTasks /\ MediaStep(t)
        \/ t \in TasksOf("state") /\ StateStep(t)
    BY <1>3 DEF WorkerStep, MediaTasks, MediaQueues, MediaStep, TasksOf
  <2> QED BY <1>1, <2>1, PipelineBaton, GptBaton, ComposeBaton, MediaBaton, StateBaton
<1>4. ASSUME NEW t \in TaskIds, AttemptFails(t) PROVE Baton'
  BY <1>1, <1>4, PipelineBaton, ThrowBaton
<1>5. ASSUME NEW t \in TasksOf("runway") \cup TasksOf("heygen"), RenderFault(t) PROVE Baton'
  <2>1. t \in MediaTasks /\ MediaStep(t)
    BY <1>5 DEF MediaTasks, MediaQueues, MediaStep, TasksOf
  <2> QED BY <1>1, <2>1, MediaBaton
<1>6. CASE UNCHANGED vars
  <2>1. UNCHANGED <<job, video, scene, tasks, failures, creating, cancelling, dropped>>
    BY <1>6 DEF vars, rows, queue, api, history
  <2>2. UrlsFollow
    BY <1>1, <2>1, UrlsStay DEF Baton
  <2>3. (Early' <=> Early) /\ (Underway' <=> Underway) /\ \A x \in TaskIds : Told(x)' <=> Told(x)
    BY <2>1 DEF Early, Underway, Told
  <2> QED BY <1>1, <2>1, <2>2, <2>3, RestBaton DEF Baton, StartInv
<1> QED BY <1>1, <1>2, <1>3, <1>4, <1>5, <1>6, GptBaton, ApiBaton, HandlerBaton, OrchestratorDiesBaton
        DEF Next

(* BatonInv holds in every reachable state.                                 *)
THEOREM BatonInvariant == Spec => []BatonInv
<1>1. Init => TypeOK /\ IInv /\ OnceInv /\ AssetsInv /\ BatonInv
  BY InitTypeOK, InitIInv, InitOnce, InitAssets, InitBaton
<1>2. TypeOK /\ IInv /\ OnceInv /\ AssetsInv /\ BatonInv /\ [Next]_vars =>
        TypeOK' /\ IInv' /\ OnceInv' /\ AssetsInv' /\ BatonInv'
  BY NextTypeOK, NextIInv, NextOnce, NextAssets, NextBaton
<1> QED BY <1>1, <1>2, PTL DEF Spec

(* At rest, the chain of hand-overs from the coordinator to the last        *)
(* pipeline-state job is complete, or a failure has been recorded.          *)
LEMMA BatonEnds == TypeOK /\ BatonInv => NotLeftRunning
<1> SUFFICES ASSUME TypeOK, BatonInv, HandedOut, Quiet, requests = 0, Underway, ~dropped, ~StateLost
             PROVE  FALSE
  BY DEF NotLeftRunning, Underway
<1>0. /\ \A t \in TaskIds : tasks[t] \in QueueJob(TaskPC, Attempts[t.q]) /\ ~IsOpen(tasks[t])
      /\ failures = {} /\ creating = "done" /\ {Pipeline, Gpt} \subseteq TaskIds
  BY SingleTasks DEF TypeOK, Quiet
<1>1. /\ \A t \in TaskIds : Present(t) => tasks[t].st \in {"completed", "failed"}
      /\ \A t : ~Told(t)
  BY <1>0 DEF IsOpen, Present, QueueJob, States, Told
<1>2. Baton
  BY DEF BatonInv
<1>3. tasks[Gpt].st = "completed" /\ FannedOut
  BY <1>0, <1>1, <1>2 DEF Baton, ChainInv
<1>4. ASSUME NEW t \in MediaTasks, Present(t)
      PROVE  HandedOn(t)
  BY <1>1, <1>2, <1>4 DEF Baton, ChainInv, MediaTasks
<1>5. PICK s \in Media : tasks[State(s)].st # "completed"
  BY <1>2 DEF Baton, ChainInv, HandedOut
<1>6. State(s) \in TasksOf("state") /\ s \in Scenes /\ s \in Prompted
      /\ SceneType[s] \in {"avatar", "clip", "image"}
  BY <1>5, PipelineAssumption DEF TasksOf, TaskIds, State, Task, Media, HandedOut, OfType, Scenes
<1>7. ~Present(State(s))
  BY <1>1, <1>5, <1>6 DEF StateLost, TasksOf
<1>8. CASE SceneType[s] = "avatar"
  <2>1. s \in Avatars
    BY <1>6, <1>8 DEF Avatars, OfType
  <2>2. PICK t \in TasksOf("heygen") : Present(t)
    BY <1>3, <2>1 DEF FannedOut
  <2>3. t \in MediaTasks /\ t.q = "heygen" /\ HandedOn(t) /\ RenderScenes(t) = Avatars
    BY <1>4, <2>2 DEF TasksOf, MediaTasks, MediaQueues, RenderScenes
  <2> QED BY <1>7, <2>1, <2>3 DEF HandedOn
<1>9. CASE SceneType[s] \in {"clip", "image"}
  <2>1. s \in ImageScenes
    BY <1>6, <1>9 DEF ImageScenes, OfType
  <2>2. PICK t \in TasksOf("image") : t.s = s /\ Present(t)
    BY <1>3, <2>1 DEF FannedOut
  <2>3. t \in MediaTasks /\ t.q = "image" /\ HandedOn(t) /\ RenderScenes(t) = {s}
    BY <1>4, <2>2 DEF TasksOf, MediaTasks, MediaQueues, RenderScenes
  <2>4. IsFrame(t) /\ Present(Runway(s))
    BY <1>7, <2>2, <2>3 DEF HandedOn
  <2>5. Runway(s) \in MediaTasks /\ Runway(s).q = "runway" /\ RenderScenes(Runway(s)) = {s}
    BY <1>6, <2>2, <2>4 DEF IsFrame, MediaTasks, MediaQueues, TaskIds, OfType, Runway, Task, RenderScenes
  <2>6. HandedOn(Runway(s))
    BY <1>4, <2>4, <2>5
  <2> QED BY <1>7, <2>5, <2>6 DEF HandedOn
<1> QED BY <1>6, <1>8, <1>9

(* No job is left on its way to compose: every worker hands the scene on    *)
(* before it is done with it, or its failure is recorded, whatever the      *)
(* races, the faults, the crashes and the cancels - for every script whose  *)
(* scenes are all handed to a worker.                                       *)
THEOREM NeverLeftRunning == Spec => []NotLeftRunning
<1>1. Spec => []TypeOK /\ []BatonInv
  BY TypeCorrect, BatonInvariant
<1> QED BY <1>1, BatonEnds, PTL
=============================================================================
