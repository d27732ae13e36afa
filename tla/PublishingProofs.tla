-------------------------- MODULE PublishingProofs --------------------------
(***************************************************************************)
(* For any number of items, phones, attempts, faults, crashes and cancels: *)
(* one upload at a time through the farm's proxy, and no published job     *)
(* taken back.                                                             *)
(***************************************************************************)
EXTENDS Publishing, JobQueueProofs

(* Whoever is in the middle of an upload from a phone owns the farm's lock. *)
FarmHeld ==
  \A i \in Items : Path[i] = "device" /\ HoldsFarm(i) => farmLock = i

(* Where a publish attempt may still write another status over the row.     *)
Unrecorded == {"mark", "load", "abort", "lock", "farm", "call", "busy", "unlockFarm",
               "unlockPhone", "catch", "throw"}

(* A published job has been enqueued, its item is no longer pending, and    *)
(* neither the dispatch nor an attempt that came to it later holds a stale  *)
(* idea of it.                                                              *)
Recorded ==
  /\ \A i \in Items : tasks[i].st = "absent" => post[i] # "published"
  /\ \A i \in Items : item[i] = "pending" => tasks[i].st = "absent"
  /\ distTask.st = "active" =>
       \A i \in Items : loop.seen[i] = "pending" /\ i >= loop.at => tasks[i].st = "absent"
  /\ DistAt("link") => loop.at \in Items /\ Current = "pending"
  /\ DistAt("enqueue") => loop.at \in Items /\ item[loop.at] # "pending"
  /\ \A i \in Items : tasks[i].st = "active" /\ tasks[i].pc \in Unrecorded => post[i] # "published"

IInv == TypeOK /\ FarmHeld /\ Recorded

-----------------------------------------------------------------------------
(* What a worker's step does to the queue *)

(* Only the queue job of i has changed, and it is one.                      *)
OnlyTask(i) ==
  /\ tasks' \in Jobs(Items, PublishPC, PublishAttempts)
  /\ \A j \in Items : j # i => tasks'[j] = tasks[j]
  /\ tasks'[i].st # "absent"

LEMMA Constants ==
  /\ DistAttempts \in Nat \ {0} /\ PublishAttempts \in Nat \ {0} /\ N \in Nat \ {0}
  /\ Free \notin Items
  /\ "start" \in PublishPC /\ "start" \in DistPC
  /\ \A i \in Items : Phone[i] \in Phones
BY PublishingAssumption DEF PublishPC, DistPC

LEMMA StepTask ==
  ASSUME TypeOK, NEW i \in Items, NEW pc \in PublishPC, Step(i, pc)
  PROVE  OnlyTask(i) /\ tasks'[i].st = "active" /\ tasks'[i].pc = pc /\ UNCHANGED listeners
<1>1. tasks \in Jobs(Items, PublishPC, PublishAttempts)
  BY DEF TypeOK, Jobs
<1> QED BY <1>1, Constants, GotoJob DEF Step, OnlyTask

LEMMA ReturnTask ==
  ASSUME TypeOK, NEW i \in Items, Return(i)
  PROVE  /\ OnlyTask(i) /\ tasks'[i].st = "completed" /\ UNCHANGED listeners
         /\ outcome' \in [Items -> Outcome]
<1>1. tasks \in Jobs(Items, PublishPC, PublishAttempts)
  BY DEF TypeOK, Jobs
<1>2. OnlyTask(i) /\ tasks'[i].st = "completed"
  BY <1>1, Constants, CompleteJob DEF Return, OnlyTask
<1> QED BY <1>2 DEF Return, TypeOK, Outcome

LEMMA ThrowTask ==
  ASSUME TypeOK, NEW i \in Items, Throw(i)
  PROVE  /\ OnlyTask(i) /\ tasks'[i].st \in {"waiting", "failed"}
         /\ listeners' \subseteq [i : Items, at : SettlePC]
         /\ outcome' \in [Items -> Outcome]
<1>1. tasks \in Jobs(Items, PublishPC, PublishAttempts)
  BY DEF TypeOK, Jobs
<1>2. OnlyTask(i) /\ tasks'[i].st \in {"waiting", "failed"}
  BY <1>1, Constants, FailAttemptJob DEF Throw, OnlyTask
<1> QED BY <1>2 DEF Throw, Listen, TypeOK, Outcome, SettlePC

-----------------------------------------------------------------------------
(* Type correctness *)

LEMMA InitType == Init => TypeOK
<1>1. NoJob \in QueueJob(PublishPC, PublishAttempts) /\ NoJob \in QueueJob(DistPC, DistAttempts)
  BY Constants, NewJobs
<1>2. 1 \in 1..(N + 1) /\ 0 \in 0..MaxFaults /\ 0 \in 0..MaxCrashes /\ 0 \in 0..MaxCancels
  BY PublishingAssumption
<1> QED BY <1>1, <1>2 DEF Init, TypeOK, ItemStatus, ItemOpen, Outcome, NoLoop

LEMMA ApiType ==
  ASSUME TypeOK, EnqueueDistribution \/ CancelRead \/ CancelStep
  PROVE  TypeOK'
<1> USE DEF TypeOK, vars, rows, worker, locks, history, used
<1>1. CASE EnqueueDistribution
  <2>1. NewJob \in QueueJob(DistPC, DistAttempts)
    BY Constants, NewJobs
  <2> QED BY <1>1, <2>1 DEF EnqueueDistribution
<1>2. CASE CancelRead
  <2>1. cancels' \in 0..MaxCancels
    BY <1>2, PublishingAssumption DEF CancelRead
  <2> QED BY <1>2, <2>1 DEF CancelRead
<1>3. CASE CancelDist
  BY <1>3 DEF CancelDist
<1>4. CASE CancelItems
  BY <1>4 DEF CancelItems, ItemStatus, ItemOpen
<1> QED BY <1>1, <1>2, <1>3, <1>4 DEF CancelStep

LEMMA DistType ==
  ASSUME TypeOK, Recorded, DistStep \/ DistFails
  PROVE  TypeOK'
<1> USE DEF TypeOK, vars, rows, worker, locks, history, used
<1>1. ASSUME NEW pc \in DistPC, DistGoto(pc) PROVE distTask' \in QueueJob(DistPC, DistAttempts)
  BY <1>1 DEF DistGoto, QueueJob, States
<1>2. {"mark", "item", "link", "enqueue"} \subseteq DistPC
  BY DEF DistPC
<1>3. loop.at <= N => loop.at \in Items /\ loop.at + 1 \in 1..(N + 1)
  BY Constants DEF Items
<1>4. CASE DistStart
  <2>1. NoLoop \in [seen : [Items -> ItemStatus], at : 1..(N + 1), skipped : Nat, newly : BOOLEAN]
    BY Constants DEF NoLoop, ItemStatus, ItemOpen
  <2>2. [NoLoop EXCEPT !.seen = item]
          \in [seen : [Items -> ItemStatus], at : 1..(N + 1), skipped : Nat, newly : BOOLEAN]
    BY <2>1
  <2>3. [distTask EXCEPT !.st = "completed"] \in QueueJob(DistPC, DistAttempts)
    BY DEF QueueJob, States
  <2> QED BY <1>1, <1>2, <1>4, <2>2, <2>3 DEF DistStart
<1>5. CASE DistMark
  BY <1>1, <1>2, <1>5 DEF DistMark
<1>6. CASE DistPass
  <2>1. loop.at + 1 \in 1..(N + 1) /\ loop.skipped + 1 \in Nat
    BY <1>3, <1>6 DEF DistPass
  <2>2. loop' \in [seen : [Items -> ItemStatus], at : 1..(N + 1), skipped : Nat, newly : BOOLEAN]
    BY <1>6, <2>1 DEF DistPass
  <2> QED BY <1>6, <2>2 DEF DistPass
<1>7. CASE DistSkip
  <2>1. loop.at \in Items /\ loop.at + 1 \in 1..(N + 1) /\ loop.skipped + 1 \in Nat
    BY <1>3, <1>7 DEF DistSkip
  <2>2. loop' \in [seen : [Items -> ItemStatus], at : 1..(N + 1), skipped : Nat, newly : BOOLEAN]
    BY <1>7, <2>1 DEF DistSkip
  <2> QED BY <1>7, <2>1, <2>2 DEF DistSkip, ItemStatus
<1>8. CASE DistCreate
  BY <1>1, <1>2, <1>8 DEF DistCreate
<1>9. CASE DistLink
  BY <1>1, <1>2, <1>9 DEF DistLink, ItemStatus, ItemOpen
<1>10. CASE DistFinish
  <2>1. [distTask EXCEPT !.st = "completed"] \in QueueJob(DistPC, DistAttempts)
    BY DEF QueueJob, States
  <2> QED BY <1>10, <2>1 DEF DistFinish
<1>11. CASE DistFails
  <2> DEFINE jobs == [d \in {0} |-> distTask]
  <2>1. jobs \in Jobs({0}, DistPC, DistAttempts)
    BY DEF Jobs
  <2> HIDE DEF jobs
  <2>2. FailAttempt(jobs, 0, DistAttempts) \in Jobs({0}, DistPC, DistAttempts)
    BY <2>1, Constants, FailAttemptJob
  <2>3. distTask' \in QueueJob(DistPC, DistAttempts)
    BY <1>11, <2>2 DEF DistFails, Jobs, jobs
  <2>4. faults' \in 0..MaxFaults
    BY <1>11, PublishingAssumption DEF DistFails, Fault
  <2> QED BY <1>11, <2>3, <2>4 DEF DistFails, Fault
<1>12. CASE DistEnqueue
  <2>1. tasks \in Jobs(Items, PublishPC, PublishAttempts)
    BY DEF Jobs
  <2>2. tasks' \in Jobs(Items, PublishPC, PublishAttempts)
    BY <1>12, <2>1, Constants, AddJob DEF DistEnqueue
  <2>3. loop.at + 1 \in 1..(N + 1)
    BY <1>12, Constants DEF Recorded, DistEnqueue, Items
  <2>4. loop' \in [seen : [Items -> ItemStatus], at : 1..(N + 1), skipped : Nat, newly : BOOLEAN]
    BY <1>12, <2>3 DEF DistEnqueue
  <2> QED BY <1>1, <1>2, <1>12, <2>2, <2>4 DEF DistEnqueue, Jobs
<1> QED BY <1>4, <1>5, <1>6, <1>7, <1>8, <1>9, <1>10, <1>11, <1>12 DEF DistStep

LEMMA Outcomes ==
  ASSUME TypeOK, NEW i \in Items, NEW o \in Outcome
  PROVE  [outcome EXCEPT ![i] = o] \in [Items -> Outcome]
BY DEF TypeOK

LEMMA Posts ==
  ASSUME TypeOK, NEW i \in Items,
         NEW s \in {"none", "scheduled", "pending", "uploading", "published", "failed"}
  PROVE  [post EXCEPT ![i] = s]
           \in [Items -> {"none", "scheduled", "pending", "uploading", "published", "failed"}]
BY DEF TypeOK

(* The rows a worker's step leaves well-typed; the rest is unchanged.       *)
LEMMA WorkerStepType ==
  ASSUME TypeOK, NEW i \in Items, PublishStep(i)
  PROVE  TypeOK' /\ OnlyTask(i)
<1> USE DEF TypeOK, vars, rows, worker, locks, history, used
<1> DEFINE Steps == {"mark", "load", "abort", "lock", "farm", "call", "busy", "unlockFarm",
                     "unlockPhone", "record", "account", "catch", "throw", "giveUp", "claim",
                     "count", "complete", "finish"}
<1>1. Steps \subseteq PublishPC
  BY DEF PublishPC, SettlePC
<1>2. {"none", "posted", "retry", "final", "busy", "found", "swallowed"} = Outcome
  BY DEF Outcome
<1>3. ASSUME NEW pc \in Steps, Step(i, pc)
      PROVE  OnlyTask(i) /\ tasks' \in [Items -> QueueJob(PublishPC, PublishAttempts)] /\ UNCHANGED listeners
  BY <1>1, <1>3, StepTask DEF OnlyTask, Jobs
<1>4. ASSUME Return(i)
      PROVE  /\ OnlyTask(i) /\ tasks' \in [Items -> QueueJob(PublishPC, PublishAttempts)]
             /\ UNCHANGED listeners /\ outcome' \in [Items -> Outcome]
  BY <1>4, ReturnTask DEF OnlyTask, Jobs
<1>5. CASE PublishStart(i)
  BY <1>2, <1>3, <1>4, <1>5, Outcomes DEF PublishStart
<1>6. CASE PublishMark(i)
  BY <1>2, <1>3, <1>4, <1>6, Posts DEF PublishMark
<1>7. CASE PublishLoad(i)
  BY <1>2, <1>3, <1>4, <1>7 DEF PublishLoad
<1>8. CASE PublishAbort(i)
  BY <1>2, <1>3, <1>4, <1>8, Posts DEF PublishAbort
<1>9. CASE LockPhone(i)
  BY <1>2, <1>3, <1>4, <1>9 DEF LockPhone
<1>10. CASE LockFarm(i)
  BY <1>2, <1>3, <1>4, <1>10, Outcomes DEF LockFarm
<1>11. CASE CallPosted(i)
  BY <1>2, <1>3, <1>4, <1>11, Outcomes DEF CallPosted, Answered
<1>12. CASE UnlockFarm(i)
  BY <1>2, <1>3, <1>4, <1>12 DEF UnlockFarm
<1>13. CASE UnlockPhone(i)
  BY <1>2, <1>3, <1>4, <1>13, Constants DEF UnlockPhone
<1>14. CASE PublishRecord(i)
  BY <1>2, <1>3, <1>4, <1>14, Posts DEF PublishRecord
<1>15. CASE PublishAccount(i)
  BY <1>2, <1>3, <1>4, <1>15 DEF PublishAccount
<1>16. CASE PublishSwallow(i)
  BY <1>2, <1>3, <1>4, <1>16, Posts DEF PublishSwallow
<1>17. CASE PublishCatch(i)
  BY <1>2, <1>3, <1>4, <1>17, Posts, Outcomes DEF PublishCatch
<1>18. CASE PublishGiveUp(i)
  BY <1>2, <1>3, <1>4, <1>18 DEF PublishGiveUp, RecordFailure
<1>19. CASE PublishBusy(i)
  <2>1. [tasks[i] EXCEPT !.st = "waiting", !.pc = "start"] \in QueueJob(PublishPC, PublishAttempts)
    BY Constants DEF QueueJob, States
  <2>2. OnlyTask(i) /\ tasks' \in [Items -> QueueJob(PublishPC, PublishAttempts)]
    BY <1>19, <2>1 DEF PublishBusy, OnlyTask, Jobs
  <2> QED BY <1>2, <1>19, <2>2, Posts, Outcomes DEF PublishBusy
<1>20. CASE PublishThrow(i)
  BY <1>20, ThrowTask DEF PublishThrow, OnlyTask, Jobs
<1>21. CASE PublishSettle(i)
  <2>1. SettledAs(i) \in ItemStatus
    BY DEF SettledAs, ItemStatus
  <2>2. OnlyTask(i) /\ tasks' \in [Items -> QueueJob(PublishPC, PublishAttempts)] /\ UNCHANGED listeners
    BY <1>3, <1>21 DEF PublishSettle
  <2>3. item' \in [Items -> ItemStatus] /\ published' \in Nat /\ failed' \in Nat
    BY <1>21, <2>1 DEF PublishSettle, Claim, CountUp
  <2> QED BY <1>21, <2>2, <2>3 DEF PublishSettle
<1>22. CASE PublishFinish(i)
  <2>1. CASE outcome[i] = "final"
    <3>1. OnlyTask(i)
      <4>1. tasks \in Jobs(Items, PublishPC, PublishAttempts)
        BY DEF Jobs
      <4> QED BY <1>22, <2>1, <4>1, Constants, FailForGoodJob DEF PublishFinish, OnlyTask
    <3>2. listeners' \subseteq [i : Items, at : SettlePC]
      BY <1>22, <2>1 DEF PublishFinish, Listen, SettlePC
    <3>3. tasks' \in [Items -> QueueJob(PublishPC, PublishAttempts)]
      BY <3>1 DEF OnlyTask, Jobs
    <3>4. outcome' \in [Items -> Outcome]
      BY <1>2, <1>22, <2>1, Outcomes DEF PublishFinish
    <3> QED BY <1>22, <3>1, <3>2, <3>3, <3>4 DEF PublishFinish
  <2>2. CASE outcome[i] # "final"
    BY <1>4, <1>22, <2>2 DEF PublishFinish
  <2> QED BY <2>1, <2>2
<1> QED BY <1>5, <1>6, <1>7, <1>8, <1>9, <1>10, <1>11, <1>12, <1>13, <1>14, <1>15, <1>16, <1>17, <1>18, <1>19, <1>20, <1>21, <1>22 DEF PublishStep

LEMMA WorkerFaultType ==
  ASSUME TypeOK, NEW i \in Items, PublishFault(i)
  PROVE  TypeOK' /\ OnlyTask(i)
<1> USE DEF TypeOK, vars, rows, worker, locks, history, used
<1>1. {"catch", "unlockFarm", "record", "swallow", "claim", "throw"} \subseteq PublishPC
  BY DEF PublishPC, SettlePC
<1>2. {"none", "posted", "retry", "final", "busy", "found", "swallowed"} = Outcome
  BY DEF Outcome
<1>3. ASSUME NEW pc \in {"catch", "unlockFarm", "record", "swallow", "claim", "throw"}, Step(i, pc)
      PROVE  /\ OnlyTask(i) /\ tasks' \in [Items -> QueueJob(PublishPC, PublishAttempts)]
             /\ UNCHANGED listeners
  BY <1>1, <1>3, StepTask DEF OnlyTask, Jobs
<1>4. faults' \in 0..MaxFaults /\ UNCHANGED <<crashes, cancels>>
  <2>1. Fault
    BY DEF PublishFault, CallRefused, CallUnknown, PublishThrowsOut, PublishThrowsIn,
           PublishThrowsAfter, PublishIgnores
  <2> QED BY <2>1, PublishingAssumption DEF Fault
<1>5. CASE CallRefused(i)
  BY <1>2, <1>3, <1>4, <1>5, Outcomes DEF CallRefused, Answered
<1>6. CASE CallUnknown(i)
  <2>1. posts' \in [Items -> Nat]
    BY <1>6 DEF CallUnknown
  <2>2. PICK how \in {"final", "retry"} : Answered(i, how)
    <3>1. Path[i] \in {"private", "device", "official"}
      BY PublishingAssumption
    <3>2. InDoubt[Path[i]] \subseteq {"final", "retry"}
      BY <3>1 DEF InDoubt
    <3> QED BY <1>6, <3>2 DEF CallUnknown
  <2>3. PICK pc \in {"unlockFarm", "catch"} : Step(i, pc)
    BY <2>2 DEF Answered
  <2>4. outcome' \in [Items -> Outcome] /\ UNCHANGED cut
    BY <1>2, <2>2, Outcomes DEF Answered
  <2> QED BY <1>3, <1>4, <2>1, <2>2, <2>3, <2>4 DEF Answered
<1>7. CASE PublishThrowsOut(i)
  <2>1. cut' \in [Items -> Nat]
    BY <1>7 DEF PublishThrowsOut
  <2>2. OnlyTask(i) /\ tasks' \in [Items -> QueueJob(PublishPC, PublishAttempts)]
    BY <1>7, ThrowTask DEF PublishThrowsOut, OnlyTask, Jobs
  <2> QED BY <1>4, <1>7, <2>1, <2>2, ThrowTask DEF PublishThrowsOut
<1>8. CASE PublishThrowsIn(i)
  BY <1>2, <1>3, <1>4, <1>8, Outcomes DEF PublishThrowsIn
<1>9. CASE PublishThrowsAfter(i)
  BY <1>2, <1>3, <1>4, <1>9, Outcomes DEF PublishThrowsAfter
<1>10. CASE PublishIgnores(i)
  <2>1. CASE Return(i)
    BY <1>4, <1>10, <2>1, ReturnTask DEF PublishIgnores, OnlyTask, Jobs
  <2>2. CASE ~Return(i)
    BY <1>3, <1>4, <1>10, <2>2 DEF PublishIgnores
  <2> QED BY <2>1, <2>2
<1> QED BY <1>5, <1>6, <1>7, <1>8, <1>9, <1>10 DEF PublishFault

LEMMA RestType ==
  ASSUME TypeOK, ListenerStep \/ ListenerFails \/ LockExpires \/ OrchestratorDies
  PROVE  TypeOK'
<1> USE DEF TypeOK, vars, rows, worker, locks, history, used
<1>1. CASE ListenerStep
  <2>1. PICK l \in listeners : ListenerStep!(l)
    BY <1>1 DEF ListenerStep
  <2>2. l.i \in Items /\ l \in [i : Items, at : SettlePC]
    OBVIOUS
  <2>3. \A pc \in SettlePC : [l EXCEPT !.at = pc] \in [i : Items, at : SettlePC]
    BY <2>2
  <2>4. listeners' \subseteq [i : Items, at : SettlePC]
    BY <2>1, <2>3 DEF SettlePC
  <2>5. /\ item' \in [Items -> ItemStatus] /\ published' \in Nat /\ failed' \in Nat
        /\ post' \in [Items -> {"none", "scheduled", "pending", "uploading", "published", "failed"}]
        /\ dist' \in {"pending", "distributing", "completed", "cancelled"}
    BY <2>1, <2>2 DEF Claim, CountUp, RecordFailure, ItemStatus
  <2> QED BY <2>1, <2>4, <2>5
<1>2. CASE ListenerFails
  <2>1. faults' \in 0..MaxFaults
    BY <1>2, PublishingAssumption DEF ListenerFails, Fault
  <2> QED BY <1>2, <2>1 DEF ListenerFails, Fault
<1>3. CASE LockExpires
  BY <1>3 DEF LockExpires
<1>4. CASE OrchestratorDies
  <2>1. tasks \in Jobs(Items, PublishPC, PublishAttempts)
    BY DEF Jobs
  <2>2. tasks' \in [Items -> QueueJob(PublishPC, PublishAttempts)]
    BY <1>4, <2>1, Constants, StallJobs DEF OrchestratorDies, Jobs
  <2>3. distTask' \in QueueJob(DistPC, DistAttempts)
    <3> DEFINE jobs == [d \in {0} |-> distTask]
    <3>1. jobs \in Jobs({0}, DistPC, DistAttempts)
      BY DEF Jobs
    <3> HIDE DEF jobs
    <3>2. Stall(jobs) \in Jobs({0}, DistPC, DistAttempts)
      BY <3>1, Constants, StallJobs
    <3> QED BY <1>4, <3>2 DEF OrchestratorDies, Jobs, jobs
  <2>4. listeners' \subseteq [i : Items, at : SettlePC]
    BY <1>4 DEF OrchestratorDies, SettlePC
  <2>5. posts' \in [Items -> Nat] /\ cut' \in [Items -> Nat]
    BY <1>4 DEF OrchestratorDies
  <2>6. crashes' \in 0..MaxCrashes
    BY <1>4, PublishingAssumption DEF OrchestratorDies
  <2>7. outcome' \in [Items -> Outcome]
    BY <1>4 DEF OrchestratorDies, Outcome
  <2> QED BY <1>4, <2>2, <2>3, <2>4, <2>5, <2>6, <2>7 DEF OrchestratorDies
<1> QED BY <1>1, <1>2, <1>3, <1>4

-----------------------------------------------------------------------------
(* The bookkeeping of published jobs *)

(* What a worker's step on i leaves alone, and what it may write.           *)
KeepsRecord(i) ==
  /\ UNCHANGED <<distTask, loop>>
  /\ \A j \in Items : item'[j] = "pending" => item[j] = "pending"
  /\ \A j \in Items : j # i => post'[j] = post[j]
  /\ tasks'[i].st = "active" /\ tasks'[i].pc \in Unrecorded => post'[i] # "published"
  /\ post[i] = "published" => post'[i] = "published"

LEMMA StepKeeps ==
  ASSUME TypeOK, Recorded, NEW i \in Items, PublishStep(i)
  PROVE  KeepsRecord(i)
<1> USE DEF rows, worker, locks, history, used
<1>1. \A pc \in PublishPC : Step(i, pc) => tasks'[i].st = "active" /\ tasks'[i].pc = pc
  BY StepTask
<1>2. Return(i) => tasks'[i].st = "completed"
  BY ReturnTask
<1>3. \A pc \in Unrecorded : At(i, pc) => post[i] # "published"
  BY DEF Recorded, At
<1>4. /\ {"mark", "load", "abort", "lock", "farm", "call", "busy", "unlockFarm", "unlockPhone",
           "catch", "throw"} = Unrecorded
      /\ {"record", "account", "giveUp", "claim", "count", "complete", "finish"}
           \cap Unrecorded = {}
      /\ Unrecorded \subseteq PublishPC
      /\ {"record", "account", "giveUp", "claim", "count", "complete", "finish"} \subseteq PublishPC
  BY DEF Unrecorded, PublishPC, SettlePC
<1>5. post \in [Items -> {"none", "scheduled", "pending", "uploading", "published", "failed"}]
  BY DEF TypeOK
<1>6. CASE PublishStart(i)
  BY <1>1, <1>2, <1>3, <1>4, <1>5, <1>6 DEF PublishStart, KeepsRecord
<1>7. CASE PublishMark(i)
  BY <1>1, <1>2, <1>3, <1>4, <1>5, <1>7 DEF PublishMark, KeepsRecord
<1>8. CASE PublishLoad(i)
  BY <1>1, <1>2, <1>3, <1>4, <1>5, <1>8 DEF PublishLoad, KeepsRecord
<1>9. CASE PublishAbort(i)
  BY <1>1, <1>2, <1>3, <1>4, <1>5, <1>9 DEF PublishAbort, KeepsRecord
<1>10. CASE LockPhone(i)
  BY <1>1, <1>2, <1>3, <1>4, <1>5, <1>10 DEF LockPhone, KeepsRecord
<1>11. CASE LockFarm(i)
  BY <1>1, <1>2, <1>3, <1>4, <1>5, <1>11 DEF LockFarm, KeepsRecord
<1>12. CASE CallPosted(i)
  BY <1>1, <1>2, <1>3, <1>4, <1>5, <1>12 DEF CallPosted, Answered, KeepsRecord
<1>13. CASE UnlockFarm(i)
  BY <1>1, <1>2, <1>3, <1>4, <1>5, <1>13 DEF UnlockFarm, KeepsRecord
<1>14. CASE UnlockPhone(i)
  BY <1>1, <1>2, <1>3, <1>4, <1>5, <1>14 DEF UnlockPhone, KeepsRecord
<1>15. CASE PublishRecord(i)
  BY <1>1, <1>2, <1>3, <1>4, <1>5, <1>15 DEF PublishRecord, KeepsRecord
<1>16. CASE PublishAccount(i)
  BY <1>1, <1>2, <1>3, <1>4, <1>5, <1>16 DEF PublishAccount, KeepsRecord
<1>17. CASE PublishSwallow(i)
  BY <1>1, <1>2, <1>3, <1>4, <1>5, <1>17 DEF PublishSwallow, KeepsRecord
<1>18. CASE PublishCatch(i)
  BY <1>1, <1>2, <1>3, <1>4, <1>5, <1>18 DEF PublishCatch, KeepsRecord
<1>19. CASE PublishGiveUp(i)
  BY <1>1, <1>2, <1>3, <1>4, <1>5, <1>19 DEF PublishGiveUp, RecordFailure, KeepsRecord
<1>20. CASE PublishBusy(i)
  BY <1>3, <1>4, <1>5, <1>20 DEF PublishBusy, KeepsRecord, TypeOK, QueueJob
<1>21. CASE PublishThrow(i)
  BY <1>21, ThrowTask DEF PublishThrow, KeepsRecord
<1>22. CASE PublishSettle(i)
  <2>1. tasks'[i].pc \notin Unrecorded /\ UNCHANGED <<post, distTask, loop>>
    BY <1>1, <1>4, <1>22 DEF PublishSettle
  <2>2. \A j \in Items : item'[j] = "pending" => item[j] = "pending"
    BY <1>22 DEF PublishSettle, Claim, SettledAs, TypeOK
  <2> QED BY <2>1, <2>2 DEF KeepsRecord
<1>23. CASE PublishFinish(i)
  <2>1. tasks \in Jobs(Items, PublishPC, PublishAttempts)
    BY DEF TypeOK, Jobs
  <2>2. tasks'[i].st \in {"completed", "failed"}
    BY <1>2, <1>23, <2>1, Constants, FailForGoodJob DEF PublishFinish
  <2> QED BY <1>23, <2>2 DEF PublishFinish, KeepsRecord
<1> QED BY <1>6, <1>7, <1>8, <1>9, <1>10, <1>11, <1>12, <1>13, <1>14, <1>15, <1>16, <1>17, <1>18, <1>19, <1>20, <1>21, <1>22, <1>23 DEF PublishStep

LEMMA FaultKeeps ==
  ASSUME TypeOK, Recorded, NEW i \in Items, PublishFault(i)
  PROVE  KeepsRecord(i)
<1> USE DEF rows, worker, locks, history, used
<1>1. \A pc \in PublishPC : Step(i, pc) => tasks'[i].st = "active" /\ tasks'[i].pc = pc
  BY StepTask
<1>2. \A pc \in Unrecorded : At(i, pc) => post[i] # "published"
  BY DEF Recorded, At
<1>3. /\ {"load", "abort", "lock", "farm", "call", "busy", "unlockFarm", "catch", "throw"}
           \subseteq Unrecorded
      /\ {"record", "swallow", "claim"} \cap Unrecorded = {}
      /\ {"record", "swallow", "claim"} \subseteq PublishPC /\ Unrecorded \subseteq PublishPC
  BY DEF Unrecorded, PublishPC, SettlePC
<1>4. CASE CallRefused(i) \/ CallUnknown(i)
  BY <1>1, <1>2, <1>3, <1>4 DEF CallRefused, CallUnknown, Answered, KeepsRecord
<1>5. CASE PublishThrowsOut(i)
  BY <1>5, ThrowTask DEF PublishThrowsOut, KeepsRecord
<1>6. CASE PublishThrowsIn(i)
  BY <1>1, <1>2, <1>3, <1>6 DEF PublishThrowsIn, KeepsRecord
<1>7. CASE PublishThrowsAfter(i)
  BY <1>1, <1>3, <1>7 DEF PublishThrowsAfter, KeepsRecord
<1>8. CASE PublishIgnores(i)
  BY <1>1, <1>2, <1>3, <1>8, ReturnTask DEF PublishIgnores, KeepsRecord
<1> QED BY <1>4, <1>5, <1>6, <1>7, <1>8 DEF PublishFault

LEMMA WorkerRecorded ==
  ASSUME TypeOK, Recorded, NEW i \in Items, PublishStep(i) \/ PublishFault(i)
  PROVE  Recorded'
<1>1. KeepsRecord(i) /\ OnlyTask(i)
  BY StepKeeps, FaultKeeps, WorkerStepType, WorkerFaultType
<1>2. tasks[i].st # "absent"
  <2>1. CASE PublishStep(i)
    BY <2>1 DEF PublishStep, PublishStart, PublishMark, PublishLoad, PublishAbort, LockPhone,
       LockFarm, PublishBusy, CallPosted, UnlockFarm, UnlockPhone, PublishRecord, PublishAccount,
       PublishSwallow, PublishCatch, PublishThrow, PublishGiveUp, PublishSettle, PublishFinish,
       Waiting, At
  <2>2. CASE PublishFault(i)
    BY <2>2 DEF PublishFault, CallRefused, CallUnknown, PublishThrowsOut, PublishThrowsIn,
       PublishThrowsAfter, PublishIgnores, ThrowsOut, Waiting, At
  <2> QED BY <2>1, <2>2
<1>3. \A j \in Items : tasks'[j].st = "absent" <=> tasks[j].st = "absent"
  BY <1>1, <1>2 DEF OnlyTask
<1> QED BY <1>1, <1>2, <1>3 DEF Recorded, KeepsRecord, OnlyTask, DistAt, Current

LEMMA DispatchRecorded ==
  ASSUME TypeOK, Recorded, DistStep \/ DistFails
  PROVE  Recorded' /\ \A i \in Items : post[i] = "published" => post'[i] = "published"
<1> USE DEF rows, worker, locks, history, used
<1>1. ASSUME NEW pc \in DistPC, DistGoto(pc)
      PROVE  distTask'.st = "active" /\ distTask'.pc = pc
  BY <1>1 DEF DistGoto, TypeOK, QueueJob
<1>2. {"mark", "item", "link", "enqueue"} \subseteq DistPC
  BY DEF DistPC
<1>3. loop.at <= N => loop.at \in Items
  BY Constants DEF TypeOK, Items
<1>4. loop.at \in Nat /\ Items \subseteq Nat
  BY Constants DEF TypeOK, Items
<1>5. [distTask EXCEPT !.st = "completed"].st = "completed"
  BY DEF TypeOK, QueueJob
<1>6. CASE DistStart
  <2>1. loop' = [NoLoop EXCEPT !.seen = item] => loop'.seen = item
    BY DEF NoLoop
  <2> QED BY <1>1, <1>2, <1>5, <1>6, <2>1 DEF DistStart, Recorded, DistAt
<1>7. CASE DistMark
  BY <1>1, <1>2, <1>7 DEF DistMark, DistAt, Recorded
<1>8. CASE DistPass \/ DistSkip
  <2>1. loop'.seen = loop.seen /\ loop'.at = loop.at + 1
    BY <1>8 DEF DistPass, DistSkip, TypeOK
  <2>2. \A i \in Items : item'[i] = "pending" => item[i] = "pending"
    BY <1>3, <1>8 DEF DistPass, DistSkip, TypeOK
  <2> QED BY <1>4, <1>8, <2>1, <2>2 DEF DistPass, DistSkip, DistAt, Recorded
<1>9. CASE DistCreate
  <2>1. loop.at \in Items /\ tasks[loop.at].st = "absent"
    BY <1>3, <1>4, <1>9 DEF DistCreate, DistAt, Current, Recorded
  <2>2. /\ \A i \in Items : i # loop.at => post'[i] = post[i]
        /\ post'[loop.at] # "published"
    BY <1>9, <2>1 DEF DistCreate, TypeOK
  <2> QED BY <1>1, <1>2, <1>9, <2>1, <2>2 DEF DistCreate, DistAt, Current, Recorded
<1>10. CASE DistLink
  <2>1. loop.at \in Items /\ item'[loop.at] # "pending"
    BY <1>10 DEF DistLink, Recorded, TypeOK
  <2>2. \A i \in Items : item'[i] = "pending" => item[i] = "pending"
    BY <1>10 DEF DistLink, TypeOK
  <2> QED BY <1>1, <1>2, <1>10, <2>1, <2>2 DEF DistLink, DistAt, Recorded
<1>11. CASE DistEnqueue
  <2>1. loop.at \in Items /\ item[loop.at] # "pending"
    BY <1>11 DEF DistEnqueue, Recorded
  <2>2. loop'.seen = loop.seen /\ loop'.at = loop.at + 1
    BY <1>11 DEF DistEnqueue, TypeOK
  <2>3. \A i \in Items : /\ i # loop.at => tasks'[i] = tasks[i]
                         /\ tasks[i].st # "absent" => tasks'[i] = tasks[i]
                         /\ tasks'[i].st = "active" => tasks'[i] = tasks[i]
    <3>1. tasks \in Jobs(Items, PublishPC, PublishAttempts)
      BY DEF TypeOK, Jobs
    <3>2. \A i \in Items :
            /\ i # loop.at => Add(tasks, {loop.at})[i] = tasks[i]
            /\ tasks[i].st # "absent" => Add(tasks, {loop.at})[i] = tasks[i]
            /\ Add(tasks, {loop.at})[i].st = "active" => Add(tasks, {loop.at})[i] = tasks[i]
      BY <3>1, Constants, AddJob
    <3> QED BY <1>11, <3>2 DEF DistEnqueue
  <2>4. UNCHANGED <<item, post>> /\ distTask'.st = "active" /\ distTask'.pc = "item"
    BY <1>1, <1>2, <1>11 DEF DistEnqueue
  <2>5. \A i \in Items : loop.seen[i] = "pending" /\ i >= loop.at => tasks[i].st = "absent"
    BY <1>11 DEF DistEnqueue, DistAt, Recorded
  <2>6. \A i \in Items : loop'.seen[i] = "pending" /\ i >= loop'.at => tasks'[i].st = "absent"
    BY <1>4, <2>2, <2>3, <2>5
  <2>7. \A i \in Items : /\ tasks'[i].st = "absent" => tasks[i].st = "absent"
                         /\ item[i] = "pending" => tasks'[i].st = "absent"
    BY <2>1, <2>3 DEF Recorded
  <2> QED BY <2>3, <2>4, <2>6, <2>7 DEF DistAt, Recorded
<1>12. CASE DistFinish
  BY <1>5, <1>12 DEF DistFinish, DistAt, Recorded
<1>13. CASE DistFails
  <2> DEFINE jobs == [d \in {0} |-> distTask]
  <2>1. jobs \in Jobs({0}, DistPC, DistAttempts)
    BY DEF Jobs, TypeOK
  <2> HIDE DEF jobs
  <2>2. FailAttempt(jobs, 0, DistAttempts)[0].st # "active"
    BY <2>1, Constants, FailAttemptJob
  <2>3. distTask'.st # "active"
    BY <1>13, <2>2 DEF DistFails, jobs
  <2> QED BY <1>13, <2>3 DEF DistFails, DistAt, Recorded
<1> QED BY <1>6, <1>7, <1>8, <1>9, <1>10, <1>11, <1>12, <1>13 DEF DistStep

LEMMA RestRecorded ==
  ASSUME TypeOK, Recorded,
         \/ EnqueueDistribution \/ CancelRead \/ CancelStep
         \/ ListenerStep \/ ListenerFails \/ LockExpires \/ OrchestratorDies
  PROVE  Recorded' /\ \A i \in Items : post[i] = "published" => post'[i] = "published"
<1> USE DEF rows, worker, locks, history, used
<1>1. CASE EnqueueDistribution
  BY <1>1, NewJobs, Constants DEF EnqueueDistribution, Recorded, DistAt
<1>2. CASE CancelRead \/ CancelStep \/ ListenerFails \/ LockExpires
  <2>1. UNCHANGED <<post, tasks, distTask, loop>>
    BY <1>2 DEF CancelRead, CancelStep, CancelDist, CancelItems, ListenerFails, LockExpires
  <2>2. \A i \in Items : item'[i] = "pending" => item[i] = "pending"
    BY <1>2 DEF CancelRead, CancelStep, CancelDist, CancelItems, ListenerFails, LockExpires
  <2> QED BY <2>1, <2>2 DEF Recorded, DistAt, Current
<1>3. CASE ListenerStep
  <2>1. PICK l \in listeners : ListenerStep!(l)
    BY <1>3 DEF ListenerStep
  <2>2. UNCHANGED <<tasks, distTask, loop>>
    BY <2>1
  <2>3. \A i \in Items : /\ item'[i] = "pending" => item[i] = "pending"
                         /\ post[i] = "published" <=> post'[i] = "published"
    BY <2>1 DEF Claim, CountUp, RecordFailure, TypeOK
  <2> QED BY <2>2, <2>3 DEF Recorded, DistAt, Current
<1>4. CASE OrchestratorDies
  <2>1. \A i \in Items : tasks'[i].st # "active" /\ (tasks'[i].st = "absent" <=> tasks[i].st = "absent")
    <3>1. tasks \in Jobs(Items, PublishPC, PublishAttempts)
      BY DEF TypeOK, Jobs
    <3> QED BY <1>4, <3>1, Constants, StallJobs DEF OrchestratorDies
  <2> DEFINE jobs == [d \in {0} |-> distTask]
  <2>2. jobs \in Jobs({0}, DistPC, DistAttempts)
    BY DEF Jobs, TypeOK
  <2> HIDE DEF jobs
  <2>3. Stall(jobs)[0].st # "active"
    BY <2>2, Constants, StallJobs
  <2>4. distTask'.st # "active"
    BY <1>4, <2>3 DEF OrchestratorDies, jobs
  <2> QED BY <1>4, <2>1, <2>4 DEF OrchestratorDies, DistAt, Recorded
<1> QED BY <1>1, <1>2, <1>3, <1>4

-----------------------------------------------------------------------------
(* The farm's lock *)

LEMMA WorkerFarm ==
  ASSUME TypeOK, FarmHeld, NEW i \in Items, PublishStep(i) \/ PublishFault(i)
  PROVE  FarmHeld'
<1> USE DEF rows, worker, locks, history, used
<1>1. OnlyTask(i)
  BY WorkerStepType, WorkerFaultType
<1>2. \A j \in Items : j # i => (HoldsFarm(j)' <=> HoldsFarm(j))
  BY <1>1 DEF OnlyTask, HoldsFarm, At
<1>3. \A pc \in PublishPC : Step(i, pc) => (HoldsFarm(i)' <=> pc \in {"call", "unlockFarm"})
  BY StepTask DEF HoldsFarm, At
<1>4. Return(i) \/ Throw(i) => ~HoldsFarm(i)'
  BY ReturnTask, ThrowTask DEF HoldsFarm, At
<1>5. {"mark", "load", "abort", "lock", "farm", "call", "busy", "unlockFarm", "unlockPhone",
       "record", "account", "swallow", "catch", "throw", "giveUp", "claim", "count", "complete",
       "finish"} \subseteq PublishPC
  BY DEF PublishPC, SettlePC
(* Most steps neither touch the lock nor bring i to the upload. *)
<1>6. ASSUME UNCHANGED farmLock, Path[i] = "device" /\ HoldsFarm(i)' => HoldsFarm(i)
      PROVE  FarmHeld'
  BY <1>2, <1>6 DEF FarmHeld
<1>7. CASE LockFarm(i)
  <2>1. CASE farmLock = Free
    <3>1. \A j \in Items : ~(Path[j] = "device" /\ HoldsFarm(j))
      BY <2>1, Constants DEF FarmHeld
    <3> QED BY <1>2, <1>7, <2>1, <3>1 DEF LockFarm, FarmHeld
  <2>2. CASE farmLock # Free
    BY <1>3, <1>5, <1>6, <1>7, <2>2 DEF LockFarm
  <2> QED BY <2>1, <2>2
<1>8. CASE UnlockFarm(i)
  BY <1>2, <1>3, <1>5, <1>8 DEF UnlockFarm, FarmHeld
<1>9. CASE CallPosted(i) \/ CallRefused(i) \/ CallUnknown(i)
  <2>1. HoldsFarm(i) /\ UNCHANGED farmLock
    BY <1>9 DEF CallPosted, CallRefused, CallUnknown, Answered, HoldsFarm, At
  <2> QED BY <1>6, <2>1
<1>10. CASE PublishStart(i) \/ PublishMark(i) \/ PublishAbort(i) \/ LockPhone(i) \/ UnlockPhone(i)
  BY <1>3, <1>4, <1>5, <1>6, <1>10 DEF PublishStart, PublishMark, PublishAbort, LockPhone, UnlockPhone
<1>11. CASE PublishLoad(i)
  BY <1>3, <1>5, <1>6, <1>11 DEF PublishLoad
<1>12. CASE PublishBusy(i)
  <2>1. tasks'[i].st = "waiting"
    BY <1>12 DEF PublishBusy, TypeOK, QueueJob
  <2> QED BY <1>6, <1>12, <2>1 DEF PublishBusy, HoldsFarm, At
<1>13. CASE PublishRecord(i) \/ PublishAccount(i) \/ PublishSwallow(i) \/ PublishCatch(i)
            \/ PublishThrow(i) \/ PublishGiveUp(i)
  BY <1>3, <1>4, <1>5, <1>6, <1>13 DEF PublishRecord, PublishAccount, PublishSwallow, PublishCatch,
     PublishThrow, PublishGiveUp
<1>14. CASE PublishSettle(i)
  BY <1>3, <1>5, <1>6, <1>14 DEF PublishSettle
<1>15. CASE PublishFinish(i)
  <2>1. tasks \in Jobs(Items, PublishPC, PublishAttempts)
    BY DEF TypeOK, Jobs
  <2>2. ~HoldsFarm(i)'
    BY <1>4, <1>15, <2>1, Constants, FailForGoodJob DEF PublishFinish, HoldsFarm, At
  <2> QED BY <1>6, <1>15, <2>2 DEF PublishFinish
<1>16. CASE PublishThrowsOut(i) \/ PublishThrowsIn(i) \/ PublishThrowsAfter(i) \/ PublishIgnores(i)
  BY <1>3, <1>4, <1>5, <1>6, <1>16 DEF PublishThrowsOut, PublishThrowsIn, PublishThrowsAfter,
     PublishIgnores
<1> QED BY <1>7, <1>8, <1>9, <1>10, <1>11, <1>12, <1>13, <1>14, <1>15, <1>16
        DEF PublishStep, PublishFault

LEMMA RestFarm ==
  ASSUME TypeOK, FarmHeld,
         \/ EnqueueDistribution \/ CancelRead \/ CancelStep \/ DistStep \/ DistFails
         \/ ListenerStep \/ ListenerFails \/ LockExpires \/ OrchestratorDies
  PROVE  FarmHeld'
<1> USE DEF rows, worker, locks, history, used
<1>1. CASE LockExpires
  BY <1>1 DEF LockExpires, FarmHeld, HoldsFarm, At
<1>2. CASE ~LockExpires
  <2>1. UNCHANGED farmLock
    BY <1>2 DEF EnqueueDistribution, CancelRead, CancelStep, CancelDist, CancelItems, DistStep,
       DistStart, DistMark, DistPass, DistSkip, DistCreate, DistLink, DistEnqueue, DistFinish,
       DistFails, ListenerStep, ListenerFails, OrchestratorDies
  <2>2. tasks \in Jobs(Items, PublishPC, PublishAttempts)
    BY DEF TypeOK, Jobs
  <2>3. \A j \in Items : tasks'[j].st = "active" => tasks'[j] = tasks[j]
    <3>1. CASE DistEnqueue
      BY <2>2, <3>1, Constants, AddJob DEF DistEnqueue
    <3>2. CASE OrchestratorDies
      BY <2>2, <3>2, Constants, StallJobs DEF OrchestratorDies
    <3>3. CASE ~DistEnqueue /\ ~OrchestratorDies
      BY <1>2, <3>3 DEF EnqueueDistribution, CancelRead, CancelStep, CancelDist, CancelItems, DistStep,
         DistStart, DistMark, DistPass, DistSkip, DistCreate, DistLink, DistFinish,
         DistFails, ListenerStep, ListenerFails
    <3> QED BY <3>1, <3>2, <3>3
  <2> QED BY <2>1, <2>3 DEF FarmHeld, HoldsFarm, At
<1> QED BY <1>1, <1>2

-----------------------------------------------------------------------------
(* The invariant is inductive *)

LEMMA InitInv == ASSUME Init PROVE IInv
<1>1. TypeOK
  BY InitType
<1>2. FarmHeld
  BY DEF Init, FarmHeld, HoldsFarm, At, NoJob
<1>3. Recorded
  BY DEF Init, Recorded, DistAt, NoJob
<1> QED BY <1>1, <1>2, <1>3 DEF IInv

LEMMA NextInv ==
  ASSUME IInv, [Next]_vars
  PROVE  IInv' /\ \A i \in Items : post[i] = "published" => post'[i] = "published"
<1> USE DEF IInv
<1>1. CASE UNCHANGED vars
  BY <1>1 DEF vars, rows, worker, locks, history, used, TypeOK, FarmHeld, HoldsFarm, At, Recorded,
     DistAt, Current
<1>2. CASE \E i \in Items : PublishStep(i) \/ PublishFault(i)
  <2>1. PICK i \in Items : PublishStep(i) \/ PublishFault(i)
    BY <1>2
  <2>2. \A j \in Items : post[j] = "published" => post'[j] = "published"
    BY <2>1, StepKeeps, FaultKeeps DEF KeepsRecord
  <2> QED BY <2>1, <2>2, WorkerStepType, WorkerFaultType, WorkerFarm, WorkerRecorded
<1>3. CASE DistStep \/ DistFails
  BY <1>3, DistType, RestFarm, DispatchRecorded
<1>4. CASE EnqueueDistribution \/ CancelRead \/ CancelStep
  BY <1>4, ApiType, RestFarm, RestRecorded
<1>5. CASE ListenerStep \/ ListenerFails \/ LockExpires \/ OrchestratorDies
  BY <1>5, RestType, RestFarm, RestRecorded
<1> QED BY <1>1, <1>2, <1>3, <1>4, <1>5 DEF Next

LEMMA Invariant == Spec => []IInv
BY InitInv, NextInv, PTL DEF Spec

(* Every variable has its type, the counters of attempts included: neither  *)
(* redelivery nor a stall runs a job more often than its attempts allow.    *)
THEOREM TypeCorrect == Spec => []TypeOK
<1>1. IInv => TypeOK
  BY DEF IInv
<1> QED BY <1>1, Invariant, PTL

(* However many items share the farm's proxy, and whatever lock expires or  *)
(* is left behind, one upload at a time goes through it.                    *)
THEOREM OneUpload == Spec => []OneFarmCall
<1>1. IInv => OneFarmCall
  BY DEF IInv, FarmHeld, OneFarmCall
<1> QED BY <1>1, Invariant, PTL

(* No step of the dispatch, of a redelivered worker, of a late 'failed'     *)
(* listener or of a cancel takes back that a job was published.             *)
THEOREM PublishedForGood == Spec => PublishedStays
<1>1. IInv /\ [Next]_vars => [\A i \in Items : post[i] = "published" => post'[i] = "published"]_vars
  BY NextInv
<1> QED BY <1>1, Invariant, PTL DEF Spec, PublishedStays
=============================================================================
