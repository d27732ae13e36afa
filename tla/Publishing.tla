----------------------------- MODULE Publishing -----------------------------
(***************************************************************************)
(* One distribution of finished videos to social accounts: the API that    *)
(* creates and cancels it, the distribute worker that turns its items into *)
(* publish jobs, the publish worker that posts each of them, its 'failed'  *)
(* listener, and the Redis locks around the phone farm.                    *)
(*                                                                         *)
(* Posting cannot be undone and its answer may get lost.  The worker marks *)
(* the PublishJob 'uploading' before it posts, so that a redelivered job   *)
(* can tell that an earlier run got that far.                              *)
(***************************************************************************)
EXTENDS JobQueue, FiniteSets

CONSTANTS
  N,               \* DistributeJob.totalItems
  Path,            \* authMethod of each item's account: "private", "device", "official"
  Phones,
  Phone,           \* phone of each item on the device path
  MaySkip,         \* items whose account or variant the guards may refuse
  DistAttempts,    \* defaultJobOptions.attempts of uniquify-distribute
  PublishAttempts, \* defaultJobOptions.attempts of publish
  Free,            \* value of a lock nobody holds
  MaxFaults,       \* bound: awaits that throw, lost answers, refused posts
  MaxCrashes,      \* bound: deaths of the orchestrator process
  MaxCancels       \* bound: cancel requests

Items == 1..N

ASSUME PublishingAssumption ==
  /\ N \in Nat \ {0}
  /\ Path \in [Items -> {"private", "device", "official"}]
  /\ Phone \in [Items -> Phones]
  /\ MaySkip \subseteq Items
  /\ DistAttempts \in Nat \ {0} /\ PublishAttempts \in Nat \ {0}
  /\ Free \notin Items
  /\ {MaxFaults, MaxCrashes, MaxCancels} \subseteq Nat

VARIABLES
  dist,       \* DistributeJob.status
  item,       \* DistributeItem.status
  post,       \* PublishJob.status, "none" before the row exists
  published,  \* DistributeJob.publishedCount
  failed,     \* DistributeJob.failedCount
  distTask,   \* the BullMQ job of the distribution
  loop,       \* locals of the distribute worker: what it has read, where it is
  tasks,      \* the BullMQ jobs of the items
  outcome,    \* local of a publish attempt: how it goes
  listeners,  \* 'failed' listeners under way
  cancelling, \* where the cancel request is
  phoneLock, farmLock,  \* lock:device:<id>, lock:device:farm:shared-proxy
  posts,      \* history: how often the item was put on the platform
  cut,        \* history: attempts that recorded 'failed' and then were cut short
  faults, crashes, cancels

rows    == <<dist, item, post, published, failed>>
worker  == <<tasks, outcome, listeners>>
locks   == <<phoneLock, farmLock>>
history == <<posts, cut>>
used    == <<faults, crashes, cancels>>
vars    == <<rows, distTask, loop, worker, cancelling, locks, history, used>>

ItemOpen   == {"pending", "scheduled", "publishing"}
ItemStatus == ItemOpen \cup {"published", "failed", "skipped"}

DistPC    == {"start", "mark", "item", "link", "enqueue"}
SettlePC  == {"giveUp", "claim", "count", "complete"}
PublishPC == SettlePC \cup {"start", "mark", "load", "abort", "lock", "farm", "call", "busy",
                            "unlockFarm", "unlockPhone", "record", "account", "swallow",
                            "catch", "throw", "finish"}

(* "found": the post of an earlier run was found unfinished; "swallowed":   *)
(* posted, but the bookkeeping failed.                                      *)
Outcome == {"none", "posted", "retry", "final", "busy", "found", "swallowed"}

NoLoop == [seen |-> [i \in Items |-> "pending"], at |-> 1, skipped |-> 0, newly |-> FALSE]

TypeOK ==
  /\ dist \in {"pending", "distributing", "completed", "cancelled"}
  /\ item \in [Items -> ItemStatus]
  /\ post \in [Items -> {"none", "scheduled", "pending", "uploading", "published", "failed"}]
  /\ published \in Nat /\ failed \in Nat
  /\ distTask \in QueueJob(DistPC, DistAttempts)
  /\ loop \in [seen : [Items -> ItemStatus], at : 1..(N + 1), skipped : Nat, newly : BOOLEAN]
  /\ tasks \in [Items -> QueueJob(PublishPC, PublishAttempts)]
  /\ outcome \in [Items -> Outcome]
  /\ listeners \subseteq [i : Items, at : SettlePC]
  /\ cancelling \in {"idle", "dist", "items"}
  /\ phoneLock \in [Phones -> Items \cup {Free}] /\ farmLock \in Items \cup {Free}
  /\ posts \in [Items -> Nat] /\ cut \in [Items -> Nat]
  /\ faults \in 0..MaxFaults /\ crashes \in 0..MaxCrashes /\ cancels \in 0..MaxCancels

(* POST /uniquify-jobs/:id/distribute has created the job and its items.    *)
Init ==
  /\ dist = "pending"
  /\ item = [i \in Items |-> "pending"]
  /\ post = [i \in Items |-> "none"]
  /\ published = 0 /\ failed = 0
  /\ distTask = NoJob /\ loop = NoLoop
  /\ tasks = [i \in Items |-> NoJob]
  /\ outcome = [i \in Items |-> "none"]
  /\ listeners = {} /\ cancelling = "idle"
  /\ phoneLock = [p \in Phones |-> Free] /\ farmLock = Free
  /\ posts = [i \in Items |-> 0] /\ cut = [i \in Items |-> 0]
  /\ faults = 0 /\ crashes = 0 /\ cancels = 0

Fault == faults < MaxFaults /\ faults' = faults + 1 /\ UNCHANGED <<crashes, cancels>>

-----------------------------------------------------------------------------
(* API: the end of distribute, and cancel *)

EnqueueDistribution ==
  /\ distTask.st = "absent"
  /\ distTask' = NewJob
  /\ UNCHANGED <<rows, loop, worker, cancelling, locks, history, used>>

CancelRead ==
  /\ cancelling = "idle" /\ cancels < MaxCancels
  /\ dist \in {"pending", "distributing"}
  /\ cancelling' = "dist"
  /\ cancels' = cancels + 1
  /\ UNCHANGED <<rows, distTask, loop, worker, locks, history, faults, crashes>>

CancelDist ==
  /\ cancelling = "dist"
  /\ dist' = "cancelled"
  /\ cancelling' = "items"
  /\ UNCHANGED <<item, post, published, failed, distTask, loop, worker, locks, history, used>>

CancelItems ==
  /\ cancelling = "items"
  /\ item' = [i \in Items |-> IF item[i] = "pending" THEN "skipped" ELSE item[i]]
  /\ cancelling' = "idle"
  /\ UNCHANGED <<dist, post, published, failed, distTask, loop, worker, locks, history, used>>

CancelStep == CancelDist \/ CancelItems

-----------------------------------------------------------------------------
(* distribute.worker.ts *)

DistAt(pc) == distTask.st = "active" /\ distTask.pc = pc

DistGoto(pc) == distTask' = [distTask EXCEPT !.st = "active", !.pc = pc]

(* The job and its items are read once, the loop works on the copy. *)
DistStart ==
  /\ distTask.st = "waiting"
  /\ IF dist = "cancelled"
     THEN distTask' = [distTask EXCEPT !.st = "completed"] /\ UNCHANGED loop
     ELSE DistGoto("mark") /\ loop' = [NoLoop EXCEPT !.seen = item]
  /\ UNCHANGED <<rows, worker, cancelling, locks, history, used>>

DistMark ==
  /\ DistAt("mark")
  /\ dist' = "distributing"
  /\ DistGoto("item")
  /\ UNCHANGED <<item, post, published, failed, loop, worker, cancelling, locks, history, used>>

Current == loop.seen[loop.at]

DistPass ==
  /\ DistAt("item") /\ loop.at <= N
  /\ Current # "pending"
  /\ loop' = [loop EXCEPT !.at = @ + 1, !.skipped = IF Current = "skipped" THEN @ + 1 ELSE @]
  /\ UNCHANGED <<rows, distTask, worker, cancelling, locks, history, used>>

DistSkip ==
  /\ DistAt("item") /\ loop.at <= N
  /\ Current = "pending" /\ loop.at \in MaySkip
  /\ item' = [item EXCEPT ![loop.at] = "skipped"]
  /\ loop' = [loop EXCEPT !.at = @ + 1, !.skipped = @ + 1]
  /\ UNCHANGED <<dist, post, published, failed, distTask, worker, cancelling, locks, history, used>>

DistCreate ==
  /\ DistAt("item") /\ loop.at <= N
  /\ Current = "pending"
  /\ post' = [post EXCEPT ![loop.at] = "scheduled"]
  /\ DistGoto("link")
  /\ UNCHANGED <<dist, item, published, failed, loop, worker, cancelling, locks, history, used>>

DistLink ==
  /\ DistAt("link")
  /\ item' = [item EXCEPT ![loop.at] = "scheduled"]
  /\ DistGoto("enqueue")
  /\ UNCHANGED <<dist, post, published, failed, loop, worker, cancelling, locks, history, used>>

DistEnqueue ==
  /\ DistAt("enqueue")
  /\ tasks' = Add(tasks, {loop.at})
  /\ loop' = [loop EXCEPT !.at = @ + 1, !.newly = TRUE]
  /\ DistGoto("item")
  /\ UNCHANGED <<rows, outcome, listeners, cancelling, locks, history, used>>

(* Mutant: nothing new to publish is taken for nothing to publish. *)
DistFinishMutant ==
  /\ DistAt("item") /\ loop.at = N + 1
  /\ dist' = IF ~loop.newly THEN "completed" ELSE dist
  /\ distTask' = [distTask EXCEPT !.st = "completed"]
  /\ UNCHANGED <<item, post, published, failed, loop, worker, cancelling, locks, history, used>>

DistFinish ==
  /\ DistAt("item") /\ loop.at = N + 1
  /\ dist' = IF loop.skipped = N /\ ~loop.newly THEN "completed" ELSE dist
  /\ distTask' = [distTask EXCEPT !.st = "completed"]
  /\ UNCHANGED <<item, post, published, failed, loop, worker, cancelling, locks, history, used>>

DistStep == DistStart \/ DistMark \/ DistPass \/ DistSkip \/ DistCreate
              \/ DistLink \/ DistEnqueue \/ DistFinish

(* Any await throws. *)
DistFails ==
  /\ IsOpen(distTask)
  /\ Fault
  /\ distTask' = FailAttempt([d \in {0} |-> distTask], 0, DistAttempts)[0]
  /\ UNCHANGED <<rows, loop, worker, cancelling, locks, history>>

-----------------------------------------------------------------------------
(* settleDistributeItem and finalizePublishFailure, run by the worker and   *)
(* by the 'failed' listener                                                 *)

(* Mutant: without the condition on the status. *)
ClaimMutant(i, as, claimed) ==
  /\ claimed
  /\ item' = [item EXCEPT ![i] = as]

(* updateMany where the item is open; whoever finds it settled is through.  *)
Claim(i, as, claimed) ==
  /\ claimed = (item[i] \in ItemOpen)
  /\ item' = IF claimed THEN [item EXCEPT ![i] = as] ELSE item

(* The increment returns both counters. *)
CountUp(as, reached) ==
  /\ published' = IF as = "published" THEN published + 1 ELSE published
  /\ failed' = IF as = "failed" THEN failed + 1 ELSE failed
  /\ reached = (published' + failed' >= N)

(* Mutant: recorded as failed whatever it was. *)
RecordFailureMutant(i) == post' = [post EXCEPT ![i] = "failed"]

RecordFailure(i) == post' = [post EXCEPT ![i] = IF @ = "published" THEN @ ELSE "failed"]

-----------------------------------------------------------------------------
(* publish.worker.ts *)

Waiting(i) == tasks[i].st = "waiting"
At(i, pc)  == tasks[i].st = "active" /\ tasks[i].pc = pc

Step(i, pc) == tasks' = Goto(tasks, i, pc) /\ UNCHANGED listeners

Return(i) == /\ tasks' = Complete(tasks, i)
             /\ outcome' = [outcome EXCEPT ![i] = "none"]
             /\ UNCHANGED listeners

Listen(i) == listeners \cup {[i |-> i, at |-> "giveUp"]}

Throw(i) ==
  /\ tasks' = FailAttempt(tasks, i, PublishAttempts)
  /\ outcome' = [outcome EXCEPT ![i] = "none"]
  /\ listeners' = IF IsLastAttempt(tasks[i], PublishAttempts) THEN Listen(i) ELSE listeners

(* Mutant: an upload found unfinished is simply tried again. *)
PublishStartMutant(i) ==
  /\ Waiting(i)
  /\ IF post[i] = "published" THEN Return(i) ELSE Step(i, "mark") /\ UNCHANGED outcome
  /\ UNCHANGED <<rows, distTask, loop, cancelling, locks, history, used>>

PublishStart(i) ==
  /\ Waiting(i)
  /\ \/ post[i] = "published" /\ Return(i)
     \/ post[i] = "uploading" /\ Step(i, "giveUp") /\ outcome' = [outcome EXCEPT ![i] = "found"]
     \/ post[i] \notin {"published", "uploading"} /\ Step(i, "mark") /\ UNCHANGED outcome
  /\ UNCHANGED <<rows, distTask, loop, cancelling, locks, history, used>>

PublishMark(i) ==
  /\ At(i, "mark")
  /\ post' = [post EXCEPT ![i] = "uploading"]
  /\ Step(i, "load")
  /\ UNCHANGED <<dist, item, published, failed, distTask, loop, outcome, cancelling, locks, history, used>>

PublishLoad(i) ==
  /\ At(i, "load")
  /\ Step(i, IF dist = "cancelled" THEN "abort" ELSE IF Path[i] = "device" THEN "lock" ELSE "call")
  /\ UNCHANGED <<rows, distTask, loop, outcome, cancelling, locks, history, used>>

PublishAbort(i) ==
  /\ At(i, "abort")
  /\ post' = [post EXCEPT ![i] = "failed"]
  /\ Return(i)
  /\ UNCHANGED <<dist, item, published, failed, distTask, loop, cancelling, locks, history, used>>

(* acquireDeviceLock: SET NX EX with a token of its own for every call. *)
LockPhone(i) ==
  /\ At(i, "lock")
  /\ IF phoneLock[Phone[i]] = Free
     THEN phoneLock' = [phoneLock EXCEPT ![Phone[i]] = i] /\ Step(i, "farm")
     ELSE Step(i, "busy") /\ UNCHANGED phoneLock
  /\ UNCHANGED <<rows, distTask, loop, outcome, cancelling, farmLock, history, used>>

LockFarm(i) ==
  /\ At(i, "farm")
  /\ IF farmLock = Free
     THEN farmLock' = i /\ Step(i, "call") /\ UNCHANGED outcome
     ELSE /\ Step(i, "unlockPhone")
          /\ outcome' = [outcome EXCEPT ![i] = "busy"]
          /\ UNCHANGED farmLock
  /\ UNCHANGED <<rows, distTask, loop, cancelling, phoneLock, history, used>>

(* Without an attempt being used: 'pending', then moveToDelayed.  (After a  *)
(* busy agent the locks are released behind it, long before the job is due.) *)
PublishBusy(i) ==
  /\ At(i, "busy")
  /\ post' = [post EXCEPT ![i] = "pending"]
  /\ tasks' = [tasks EXCEPT ![i] = [@ EXCEPT !.st = "waiting", !.pc = "start"]]
  /\ outcome' = [outcome EXCEPT ![i] = "none"]
  /\ UNCHANGED <<dist, item, published, failed, distTask, loop, listeners, cancelling, locks, history, used>>

(* The platform or the phone answers, or nobody does. *)
Answered(i, how) ==
  /\ Step(i, IF Path[i] = "device" THEN "unlockFarm" ELSE IF how = "posted" THEN "record" ELSE "catch")
  /\ outcome' = [outcome EXCEPT ![i] = how]
  /\ UNCHANGED <<rows, distTask, loop, cancelling, locks, cut>>

CallPosted(i) ==
  /\ At(i, "call")
  /\ posts' = [posts EXCEPT ![i] = @ + 1]
  /\ Answered(i, "posted")
  /\ UNCHANGED used

(* An error that tells that nothing was posted; the device agent also says  *)
(* what is not worth a retry, and that it is busy.                          *)
CallRefused(i) ==
  /\ At(i, "call")
  /\ Fault
  /\ \E how \in {"retry"} \cup IF Path[i] = "device" THEN {"final", "busy"} ELSE {} :
       Answered(i, how)
  /\ UNCHANGED posts

(* What becomes of an attempt that may have posted: no answer, or 'unknown' *)
(* of the phone, is final.  The private publisher answers 502 to every      *)
(* exception, one after the upload included, and that is retried; so is     *)
(* every error of the official clients.                                     *)
InDoubt == [device |-> {"final"}, private |-> {"final", "retry"}, official |-> {"retry"}]

CallUnknown(i) ==
  /\ At(i, "call")
  /\ Fault
  /\ \E n \in {0, 1} : posts' = [posts EXCEPT ![i] = @ + n]
  /\ \E how \in InDoubt[Path[i]] : Answered(i, how)

(* releaseDeviceLock deletes the lock only when it still holds the token of *)
(* this attempt.                                                            *)
UnlockFarm(i) ==
  /\ At(i, "unlockFarm")
  /\ farmLock' = IF farmLock = i THEN Free ELSE farmLock
  /\ Step(i, "unlockPhone")
  /\ UNCHANGED <<rows, distTask, loop, outcome, cancelling, phoneLock, history, used>>

UnlockPhone(i) ==
  /\ At(i, "unlockPhone")
  /\ phoneLock' = [phoneLock EXCEPT ![Phone[i]] = IF @ = i THEN Free ELSE @]
  /\ Step(i, CASE outcome[i] = "posted" -> "record"
               [] outcome[i] = "busy" -> "busy"
               [] OTHER -> "catch")
  /\ UNCHANGED <<rows, distTask, loop, outcome, cancelling, farmLock, history, used>>

PublishRecord(i) ==
  /\ At(i, "record")
  /\ post' = [post EXCEPT ![i] = "published"]
  /\ Step(i, "account")
  /\ UNCHANGED <<dist, item, published, failed, distTask, loop, outcome, cancelling, locks, history, used>>

(* dailyPostCount, lastPostAt, healthScore *)
PublishAccount(i) ==
  /\ At(i, "account")
  /\ Step(i, "claim")
  /\ UNCHANGED <<rows, distTask, loop, outcome, cancelling, locks, history, used>>

(* catch: posted and something failed after it *)
PublishSwallow(i) ==
  /\ At(i, "swallow")
  /\ post' = [post EXCEPT ![i] = "published"]
  /\ Step(i, "claim")
  /\ UNCHANGED <<dist, item, published, failed, distTask, loop, outcome, cancelling, locks, history, used>>

(* catch: not posted *)
IsFinal(i) == outcome[i] = "final" \/ IsLastAttempt(tasks[i], PublishAttempts)

PublishCatch(i) ==
  /\ At(i, "catch")
  /\ IF IsFinal(i)
     THEN Step(i, "giveUp") /\ outcome' = [outcome EXCEPT ![i] = "final"] /\ UNCHANGED post
     ELSE Step(i, "throw") /\ post' = [post EXCEPT ![i] = "pending"] /\ UNCHANGED outcome
  /\ UNCHANGED <<dist, item, published, failed, distTask, loop, cancelling, locks, history, used>>

PublishThrow(i) ==
  /\ At(i, "throw")
  /\ Throw(i)
  /\ UNCHANGED <<rows, distTask, loop, cancelling, locks, history, used>>

PublishGiveUp(i) ==
  /\ At(i, "giveUp")
  /\ RecordFailure(i)
  /\ Step(i, "claim")
  /\ UNCHANGED <<dist, item, published, failed, distTask, loop, outcome, cancelling, locks, history, used>>

SettledAs(i) == IF outcome[i] \in {"posted", "swallowed"} THEN "published" ELSE "failed"

PublishSettle(i) ==
  /\ \/ \E claimed \in BOOLEAN :
          /\ At(i, "claim")
          /\ Claim(i, SettledAs(i), claimed)
          /\ Step(i, IF claimed THEN "count" ELSE "finish")
          /\ UNCHANGED <<dist, published, failed>>
     \/ \E reached \in BOOLEAN :
          /\ At(i, "count")
          /\ CountUp(SettledAs(i), reached)
          /\ Step(i, IF reached THEN "complete" ELSE "finish")
          /\ UNCHANGED <<dist, item>>
     \/ /\ At(i, "complete")
        /\ dist' = "completed"
        /\ Step(i, "finish")
        /\ UNCHANGED <<item, published, failed>>
  /\ UNCHANGED <<post, distTask, loop, outcome, cancelling, locks, history, used>>

(* The rest of the handler: the next queue, the penalty, the notification.  *)
PublishFinish(i) ==
  /\ At(i, "finish")
  /\ IF outcome[i] = "final"
     THEN /\ tasks' = FailForGood(tasks, i)
          /\ outcome' = [outcome EXCEPT ![i] = "none"]
          /\ listeners' = Listen(i)
     ELSE Return(i)
  /\ UNCHANGED <<rows, distTask, loop, cancelling, locks, history, used>>

PublishStep(i) ==
  \/ PublishStart(i) \/ PublishMark(i) \/ PublishLoad(i) \/ PublishAbort(i)
  \/ LockPhone(i) \/ LockFarm(i) \/ PublishBusy(i) \/ CallPosted(i)
  \/ UnlockFarm(i) \/ UnlockPhone(i)
  \/ PublishRecord(i) \/ PublishAccount(i) \/ PublishSwallow(i)
  \/ PublishCatch(i) \/ PublishThrow(i) \/ PublishGiveUp(i)
  \/ PublishSettle(i) \/ PublishFinish(i)

-----------------------------------------------------------------------------
(* What fails by itself *)

(* Before the try block, and in finalizePublishFailure, an error leaves the *)
(* handler as it is: BullMQ counts one attempt.                             *)
ThrowsOut(i) ==
  \/ Waiting(i) \/ At(i, "mark")
  \/ outcome[i] \in {"final", "found"} /\ \E pc \in SettlePC : At(i, pc)
  \/ outcome[i] = "final" /\ At(i, "finish")

(* The job is recorded as failed and BullMQ has not been told so. *)
CutShort(i) ==
  /\ outcome[i] \in {"final", "found"} /\ post[i] = "failed"
  /\ \E pc \in {"claim", "count", "complete", "finish"} : At(i, pc)

PublishThrowsOut(i) ==
  /\ ThrowsOut(i)
  /\ Fault
  /\ Throw(i)
  /\ cut' = IF CutShort(i) THEN [cut EXCEPT ![i] = @ + 1] ELSE cut
  /\ UNCHANGED <<rows, distTask, loop, cancelling, locks, posts>>

(* Inside it, before the post: the catch block. *)
PublishThrowsIn(i) ==
  /\ \E pc \in {"load", "abort", "lock", "farm", "busy"} : At(i, pc)
  /\ Fault
  /\ Step(i, "catch")
  /\ outcome' = [outcome EXCEPT ![i] = "retry"]
  /\ UNCHANGED <<rows, distTask, loop, cancelling, locks, history>>

(* After the post: the bookkeeping is tried once more, its errors ignored.  *)
PublishThrowsAfter(i) ==
  /\ outcome[i] = "posted"
  /\ \E pc \in {"record", "account", "claim", "count", "complete", "finish"} : At(i, pc)
  /\ Fault
  /\ Step(i, "swallow")
  /\ outcome' = [outcome EXCEPT ![i] = "swallowed"]
  /\ UNCHANGED <<rows, distTask, loop, cancelling, locks, history>>

(* Updates with .catch(() => {}): the record of a post that failed to be    *)
(* recorded, its settlement, and the 'pending' of an attempt.               *)
PublishIgnores(i) ==
  /\ Fault
  /\ \/ At(i, "swallow") /\ Step(i, "claim") /\ UNCHANGED outcome
     \/ /\ outcome[i] = "swallowed"
        /\ \E pc \in {"claim", "count", "complete"} : At(i, pc)
        /\ Return(i)
     \/ At(i, "catch") /\ ~IsFinal(i) /\ Step(i, "throw") /\ UNCHANGED outcome
  /\ UNCHANGED <<rows, distTask, loop, cancelling, locks, history>>

PublishFault(i) ==
  \/ CallRefused(i) \/ CallUnknown(i) \/ PublishThrowsOut(i) \/ PublishThrowsIn(i)
  \/ PublishThrowsAfter(i) \/ PublishIgnores(i)

(* The 'failed' listener: finalizePublishFailure once more. *)
ListenerStep ==
  \E l \in listeners :
    LET done == listeners \ {l}
        to(pc) == listeners' = done \cup {[l EXCEPT !.at = pc]} IN
    /\ \/ l.at = "giveUp" /\ RecordFailure(l.i) /\ to("claim")
          /\ UNCHANGED <<dist, item, published, failed>>
       \/ \E claimed \in BOOLEAN :
            /\ l.at = "claim"
            /\ Claim(l.i, "failed", claimed)
            /\ IF claimed THEN to("count") ELSE listeners' = done
            /\ UNCHANGED <<dist, post, published, failed>>
       \/ \E reached \in BOOLEAN :
            /\ l.at = "count"
            /\ CountUp("failed", reached)
            /\ IF reached THEN to("complete") ELSE listeners' = done
            /\ UNCHANGED <<dist, item, post>>
       \/ /\ l.at = "complete"
          /\ dist' = "completed"
          /\ listeners' = done
          /\ UNCHANGED <<item, post, published, failed>>
    /\ UNCHANGED <<distTask, loop, tasks, outcome, cancelling, locks, history, used>>

(* Its errors are logged. *)
ListenerFails ==
  \E l \in listeners :
    /\ Fault
    /\ listeners' = listeners \ {l}
    /\ UNCHANGED <<rows, distTask, loop, tasks, outcome, cancelling, locks, history>>

(* The attempt that took a lock is still between taking and releasing it.   *)
HoldsPhone(i) == \E pc \in {"farm", "call", "unlockFarm", "unlockPhone"} : At(i, pc)
HoldsFarm(i)  == \E pc \in {"call", "unlockFarm"} : At(i, pc)

(* Mutant: the time to live is shorter than the call. *)
LockExpiresMutant ==
  \/ /\ farmLock # Free
     /\ farmLock' = Free
     /\ UNCHANGED <<phoneLock, rows, distTask, loop, worker, cancelling, history, used>>
  \/ \E p \in Phones :
       /\ phoneLock[p] # Free
       /\ phoneLock' = [phoneLock EXCEPT ![p] = Free]
       /\ UNCHANGED <<farmLock, rows, distTask, loop, worker, cancelling, history, used>>

(* Mutant: the locks have no time to live. *)
LockStaysMutant == FALSE

(* The time to live is longer than the call's own timeout: only the lock of *)
(* an attempt that is gone expires.                                         *)
LockExpires ==
  \/ /\ farmLock # Free /\ ~HoldsFarm(farmLock)
     /\ farmLock' = Free
     /\ UNCHANGED <<phoneLock, rows, distTask, loop, worker, cancelling, history, used>>
  \/ \E p \in Phones :
       /\ phoneLock[p] # Free /\ ~HoldsPhone(phoneLock[p])
       /\ phoneLock' = [phoneLock EXCEPT ![p] = Free]
       /\ UNCHANGED <<farmLock, rows, distTask, loop, worker, cancelling, history, used>>

(* The orchestrator dies; what it was uploading may arrive or not. *)
OrchestratorDies ==
  /\ crashes < MaxCrashes
  /\ crashes' = crashes + 1
  /\ distTask.st = "active" \/ \E i \in Items : tasks[i].st = "active"
  /\ distTask' = Stall([d \in {0} |-> distTask])[0]
  /\ tasks' = Stall(tasks)
  /\ outcome' = [i \in Items |-> "none"]
  /\ listeners' = {[i |-> i, at |-> "giveUp"] : i \in {j \in Items : StallAgain(tasks[j])}}
  /\ \E arrived \in SUBSET {i \in Items : At(i, "call")} :
       posts' = [i \in Items |-> IF i \in arrived THEN posts[i] + 1 ELSE posts[i]]
  /\ cut' = [i \in Items |-> IF CutShort(i) THEN cut[i] + 1 ELSE cut[i]]
  /\ UNCHANGED <<rows, loop, cancelling, locks, faults, cancels>>

-----------------------------------------------------------------------------
Next ==
  \/ EnqueueDistribution \/ CancelRead \/ CancelStep
  \/ DistStep \/ DistFails
  \/ \E i \in Items : PublishStep(i) \/ PublishFault(i)
  \/ ListenerStep \/ ListenerFails
  \/ LockExpires \/ OrchestratorDies

(* Workers poll, listeners and requests that have begun run on, Redis drops *)
(* what has expired.                                                        *)
Fairness ==
  /\ WF_vars(DistStep) /\ WF_vars(CancelStep) /\ WF_vars(ListenerStep) /\ WF_vars(LockExpires)
  /\ \A i \in Items : WF_vars(PublishStep(i))

Spec == Init /\ [][Next]_vars
FairSpec == Spec /\ Fairness

-----------------------------------------------------------------------------
(* Properties *)

OnPhones == {i \in Items : Path[i] = "device"}

(* Through the phones nothing is posted a second time, whatever the crash,  *)
(* the lost answer or the failed update - except after an attempt that      *)
(* recorded 'failed' and was cut short before BullMQ knew                   *)
(* (publish.worker.ts: the 'uploading' check, UnrecoverableError, posted).  *)
(* The other paths retry an error that may have come after the post.        *)
PostedOnce == \A i \in OnPhones : posts[i] <= 1 + cut[i]

(* Worker, redelivered worker and 'failed' listener settle an item between  *)
(* them at most once: the counters never run ahead of the items.            *)
CountedOnce ==
  /\ published <= Cardinality({i \in Items : item[i] = "published"})
  /\ failed <= Cardinality({i \in Items : item[i] = "failed"})

(* A completed distribution has no item that may still be published:        *)
(* neither the count nor the distribute worker's own shortcut completes it  *)
(* early (schema.prisma: completed - all items are processed).              *)
CompletedIsDone ==
  dist = "completed" => \A i \in Items : item[i] \notin ItemOpen

(* Once recorded as published a job stays published: neither a redelivery   *)
(* nor a late 'failed' event takes it back.                                 *)
PublishedStays == [][\A i \in Items : post[i] = "published" => post'[i] = "published"]_vars

(* The shared farm proxy serves one upload at a time, across crashes and    *)
(* expiring locks (acquireDeviceLock, releaseDeviceLock).                   *)
OneFarmCall ==
  \A i, j \in Items : HoldsFarm(i) /\ HoldsFarm(j) /\ Path[i] = "device" /\ Path[j] = "device" => i = j

(* A publish job that was enqueued comes to its end: a busy phone or a lock *)
(* left behind by a dead worker delays it, but not for ever.                *)
PublishEnds == \A i \in Items : IsOpen(tasks[i]) ~> ~IsOpen(tasks[i])

(* publish.worker.ts:178: "a retry (or a duplicate enqueue) must never post *)
(* the same job twice", whatever the path.  Not so for the official clients: *)
(* an error without an answer is retried as if nothing had been posted.  (So *)
(* is an error answer of the private publisher.)                            *)
NeverTwice == \A i \in Items : posts[i] <= 1
=============================================================================
