----------------------- MODULE PublishingCountProofs -----------------------
(***************************************************************************)
(* For any number of items, faults, crashes and cancels: an item that was  *)
(* posted is not posted again unless its attempt was cut short, and the    *)
(* counters of a distribution never run ahead of its items, so that it is  *)
(* completed only when no item is open.                                    *)
(***************************************************************************)
EXTENDS PublishingProofs, FiniteSetTheorems

(* A 'failed' listener runs for a job that has failed for good.             *)
Late == \A l \in listeners : tasks[l.i].st = "failed"

(* Between the mark and the answer nobody else writes the row.              *)
Uploading ==
  \A i \in Items :
    tasks[i].st = "active"
      /\ tasks[i].pc \in {"load", "abort", "lock", "farm", "call", "unlockFarm", "unlockPhone"}
    => post[i] = "uploading"

(* A post that may be live is known of: by the end of the queue job, by the *)
(* row that the next attempt will find, or by the attempt that is under way.*)
Aware(i) ==
  \/ tasks[i].st \in {"completed", "failed"}
  \/ tasks[i].st = "waiting" /\ post[i] \in {"uploading", "published"}
  \/ /\ tasks[i].st = "active"
     /\ \/ /\ tasks[i].pc \in {"unlockFarm", "unlockPhone"}
           /\ outcome[i] \in {"posted", "final"}
        \/ /\ tasks[i].pc \in {"catch", "giveUp"}
           /\ outcome[i] \in {"final", "found"} /\ post[i] = "uploading"
           /\ tasks[i].pc = "catch" => outcome[i] = "final"
        \/ /\ tasks[i].pc \in {"record", "account", "swallow", "claim", "count", "complete", "finish"}
           /\ outcome[i] \in {"posted", "swallowed"} /\ post[i] \in {"uploading", "published"}
        \/ /\ tasks[i].pc \in {"claim", "count", "complete", "finish"}
           /\ outcome[i] \in {"final", "found"} /\ post[i] \in {"failed", "published"}

Told == \A i \in OnPhones : posts[i] <= cut[i] + 1 /\ (posts[i] > cut[i] => Aware(i))


Once == Late /\ Uploading /\ Told

-----------------------------------------------------------------------------
(* What a worker's step leaves alone *)

Unfinished(i) == tasks[i].st \in {"waiting", "active"}

LEMMA ThrowListens ==
  ASSUME TypeOK, NEW i \in Items, Throw(i)
  PROVE  listeners' = listeners \/ (listeners' = Listen(i) /\ tasks'[i].st = "failed")
<1>1. tasks \in Jobs(Items, PublishPC, PublishAttempts)
  BY DEF TypeOK, Jobs
<1>2. IsLastAttempt(tasks[i], PublishAttempts) => tasks'[i].st = "failed"
  BY <1>1, Constants, FailForGoodJob DEF Throw, FailAttempt
<1> QED BY <1>2 DEF Throw

Others(i) ==
  \A j \in Items : j # i => /\ outcome'[j] = outcome[j] /\ post'[j] = post[j] /\ item'[j] = item[j]
                            /\ posts'[j] = posts[j] /\ cut'[j] = cut[j]

Listening(i) == listeners' = listeners \/ (listeners' = Listen(i) /\ tasks'[i].st = "failed")

LEMMA StepFrame ==
  ASSUME TypeOK, NEW i \in Items, PublishStep(i)
  PROVE  Unfinished(i) /\ Others(i) /\ Listening(i) /\ UNCHANGED <<distTask, loop, cut>>
<1> USE DEF rows, worker, locks, history, used
<1>1. Unfinished(i)
  BY DEF PublishStep, PublishStart, PublishMark, PublishLoad, PublishAbort, LockPhone, LockFarm,
     PublishBusy, CallPosted, UnlockFarm, UnlockPhone, PublishRecord, PublishAccount, PublishSwallow,
     PublishCatch, PublishThrow, PublishGiveUp, PublishSettle, PublishFinish, Waiting, At, Unfinished
<1>2. CASE PublishStart(i) \/ PublishMark(i) \/ PublishLoad(i) \/ PublishAbort(i) \/ LockPhone(i)
           \/ LockFarm(i)
  BY <1>1, <1>2 DEF PublishStart, PublishMark, PublishLoad, PublishAbort, LockPhone, LockFarm,
     Step, Return, Others, Listening, TypeOK
<1>3. CASE PublishBusy(i) \/ CallPosted(i) \/ UnlockFarm(i) \/ UnlockPhone(i)
  BY <1>1, <1>3 DEF PublishBusy, CallPosted, Answered, UnlockFarm, UnlockPhone, Step, Others,
     Listening, TypeOK
<1>4. CASE PublishRecord(i) \/ PublishAccount(i) \/ PublishSwallow(i) \/ PublishCatch(i)
           \/ PublishGiveUp(i)
  BY <1>1, <1>4 DEF PublishRecord, PublishAccount, PublishSwallow, PublishCatch, PublishGiveUp,
     RecordFailure, Step, Others, Listening, TypeOK
<1>5. CASE PublishThrow(i)
  BY <1>1, <1>5, ThrowListens DEF PublishThrow, Throw, Others, Listening, TypeOK
<1>6. CASE PublishSettle(i)
  BY <1>1, <1>6 DEF PublishSettle, Claim, Step, Others, Listening, TypeOK
<1>7. CASE PublishFinish(i)
  <2>1. tasks \in Jobs(Items, PublishPC, PublishAttempts)
    BY DEF TypeOK, Jobs
  <2>2. FailForGood(tasks, i)[i].st = "failed"
    BY <2>1, Constants, FailForGoodJob
  <2> QED BY <1>1, <1>7, <2>2 DEF PublishFinish, Return, Others, Listening, TypeOK
<1> QED BY <1>2, <1>3, <1>4, <1>5, <1>6, <1>7 DEF PublishStep

LEMMA FaultFrame ==
  ASSUME TypeOK, NEW i \in Items, PublishFault(i)
  PROVE  Unfinished(i) /\ Others(i) /\ Listening(i) /\ UNCHANGED <<distTask, loop, item, dist>>
<1> USE DEF rows, worker, locks, history, used
<1>1. Unfinished(i)
  BY DEF PublishFault, CallRefused, CallUnknown, PublishThrowsOut, PublishThrowsIn,
     PublishThrowsAfter, PublishIgnores, ThrowsOut, Waiting, At, Unfinished
<1>2. CASE CallRefused(i) \/ CallUnknown(i)
  BY <1>1, <1>2 DEF CallRefused, CallUnknown, Answered, Step, Others, Listening, TypeOK
<1>3. CASE PublishThrowsOut(i)
  BY <1>1, <1>3, ThrowListens DEF PublishThrowsOut, Throw, Others, Listening, TypeOK
<1>4. CASE PublishThrowsIn(i) \/ PublishThrowsAfter(i) \/ PublishIgnores(i)
  BY <1>1, <1>4 DEF PublishThrowsIn, PublishThrowsAfter, PublishIgnores, Step, Return, Others,
     Listening, TypeOK
<1> QED BY <1>2, <1>3, <1>4 DEF PublishFault

LEMMA WorkerLate ==
  ASSUME TypeOK, Late, NEW i \in Items, PublishStep(i) \/ PublishFault(i)
  PROVE  Late'
<1>1. Unfinished(i) /\ Listening(i) /\ OnlyTask(i)
  BY StepFrame, FaultFrame, WorkerStepType, WorkerFaultType
<1>2. \A l \in listeners : l.i \in Items /\ l.i # i
  BY <1>1 DEF Late, Unfinished, TypeOK
<1>3. CASE listeners' = listeners
  BY <1>1, <1>2, <1>3 DEF Late, OnlyTask
<1>4. CASE listeners' = Listen(i) /\ tasks'[i].st = "failed"
  BY <1>1, <1>2, <1>4 DEF Late, OnlyTask, Listen
<1> QED BY <1>1, <1>3, <1>4 DEF Listening

-----------------------------------------------------------------------------
(* The row while an upload is under way *)

Uploads == {"load", "abort", "lock", "farm", "call", "unlockFarm", "unlockPhone"}

LEMMA WorkerUploading ==
  ASSUME TypeOK, Uploading, NEW i \in Items, PublishStep(i) \/ PublishFault(i)
  PROVE  Uploading'
<1> USE DEF rows, worker, locks, history, used
<1>1. OnlyTask(i) /\ Others(i)
  BY StepFrame, FaultFrame, WorkerStepType, WorkerFaultType
<1>2. SUFFICES tasks'[i].st = "active" /\ tasks'[i].pc \in Uploads => post'[i] = "uploading"
  BY <1>1 DEF OnlyTask, Others, Uploading, Uploads
<1>3. \A pc \in Uploads : At(i, pc) => post[i] = "uploading"
  BY DEF Uploading, Uploads, At
<1>4. \A pc \in PublishPC : Step(i, pc) => tasks'[i].st = "active" /\ tasks'[i].pc = pc
  BY StepTask
<1>5. {"mark", "load", "abort", "lock", "farm", "call", "busy", "unlockFarm", "unlockPhone",
       "record", "account", "swallow", "catch", "throw", "giveUp", "claim", "count", "complete",
       "finish"} \subseteq PublishPC
  BY DEF PublishPC, SettlePC
<1>6. (Return(i) \/ Throw(i)) => tasks'[i].st # "active"
  BY ReturnTask, ThrowTask
<1>7. CASE PublishStart(i) \/ PublishMark(i) \/ PublishLoad(i) \/ PublishAbort(i) \/ LockPhone(i)
           \/ LockFarm(i) \/ CallPosted(i) \/ UnlockFarm(i)
  BY <1>3, <1>4, <1>5, <1>6, <1>7 DEF PublishStart, PublishMark, PublishLoad, PublishAbort, LockPhone,
     LockFarm, CallPosted, Answered, UnlockFarm, Uploads, TypeOK
<1>8. CASE PublishBusy(i) \/ PublishFinish(i)
  <2>1. tasks \in Jobs(Items, PublishPC, PublishAttempts)
    BY DEF TypeOK, Jobs
  <2>2. FailForGood(tasks, i)[i].st = "failed"
    BY <2>1, Constants, FailForGoodJob
  <2>3. CASE PublishBusy(i)
    <3>1. tasks'[i].st = "waiting"
      BY <2>3 DEF PublishBusy, TypeOK, QueueJob
    <3> QED BY <3>1
  <2>4. CASE PublishFinish(i)
    <3>1. tasks'[i].st # "active"
      BY <1>6, <2>2, <2>4 DEF PublishFinish
    <3> QED BY <3>1
  <2> QED BY <1>8, <2>3, <2>4
<1>9. CASE UnlockPhone(i)
  <2>1. \E pc \in {"record", "busy", "catch"} : Step(i, pc)
    BY <1>9, Constants DEF UnlockPhone
  <2> QED BY <1>4, <1>5, <2>1 DEF Uploads
<1>10. CASE PublishRecord(i) \/ PublishAccount(i) \/ PublishSwallow(i) \/ PublishCatch(i)
            \/ PublishThrow(i) \/ PublishGiveUp(i)
  BY <1>4, <1>5, <1>6, <1>10 DEF PublishRecord, PublishAccount, PublishSwallow, PublishCatch,
     PublishThrow, PublishGiveUp, Uploads
<1>11. CASE PublishSettle(i)
  BY <1>4, <1>5, <1>11 DEF PublishSettle, Uploads
<1>12. CASE CallRefused(i) \/ CallUnknown(i)
  BY <1>3, <1>4, <1>5, <1>12 DEF CallRefused, CallUnknown, Answered, Uploads
<1>13. CASE PublishThrowsOut(i) \/ PublishThrowsIn(i) \/ PublishThrowsAfter(i) \/ PublishIgnores(i)
  BY <1>4, <1>5, <1>6, <1>13 DEF PublishThrowsOut, PublishThrowsIn, PublishThrowsAfter,
     PublishIgnores, Uploads
<1> QED BY <1>7, <1>8, <1>9, <1>10, <1>11, <1>12, <1>13 DEF PublishStep, PublishFault

-----------------------------------------------------------------------------
(* What may be live is known of *)

(* An attempt that has not got to the call, or was told that nothing was    *)
(* posted, moves freely.                                                    *)
LEMMA NotPosted ==
  ASSUME TypeOK, NEW i \in OnPhones, posts[i] <= cut[i], posts'[i] = posts[i],
         cut'[i] \in Nat, cut'[i] >= cut[i]
  PROVE  posts'[i] <= cut'[i] + 1 /\ ~(posts'[i] > cut'[i])
<1>1. posts[i] \in Nat /\ cut[i] \in Nat
  BY DEF TypeOK, OnPhones
<1> QED BY <1>1

TellingStep(i) == posts'[i] <= cut'[i] + 1 /\ (posts'[i] > cut'[i] => Aware(i)')

LEMMA StepTells ==
  ASSUME TypeOK, Uploading, Told, NEW i \in OnPhones, PublishStep(i)
  PROVE  TellingStep(i)
<1> USE DEF rows, worker, locks, history, used
<1>0. /\ i \in Items /\ Path[i] = "device" /\ posts[i] \in Nat /\ cut[i] \in Nat
      /\ posts[i] <= cut[i] + 1
      /\ posts[i] > cut[i] => Aware(i)
      /\ cut'[i] = cut[i]
  BY StepFrame DEF Told, TypeOK, OnPhones
<1>1. \A pc \in PublishPC : Step(i, pc) => tasks'[i].st = "active" /\ tasks'[i].pc = pc
  BY <1>0, StepTask
<1>2. {"mark", "load", "abort", "lock", "farm", "call", "busy", "unlockFarm", "unlockPhone",
       "record", "account", "swallow", "catch", "throw", "giveUp", "claim", "count", "complete",
       "finish"} \subseteq PublishPC
  BY DEF PublishPC, SettlePC
<1>3. CASE CallPosted(i)
  <2>1. tasks[i].st = "active" /\ tasks[i].pc = "call"
    BY <1>3 DEF CallPosted, At
  <2>2. posts[i] <= cut[i] /\ post[i] = "uploading"
    BY <1>0, <2>1 DEF Aware, Uploading
  <2>3. posts'[i] = posts[i] + 1 /\ post'[i] = "uploading" /\ outcome'[i] = "posted"
    BY <1>0, <1>3, <2>2 DEF CallPosted, Answered, TypeOK
  <2>4. tasks'[i].st = "active" /\ tasks'[i].pc \in {"unlockFarm", "record"}
    BY <1>1, <1>2, <1>3 DEF CallPosted, Answered
  <2> QED BY <1>0, <2>2, <2>3, <2>4 DEF TellingStep, Aware
<1>4. ASSUME ~CallPosted(i) PROVE posts'[i] = posts[i]
  BY <1>4 DEF PublishStep, PublishStart, PublishMark, PublishLoad, PublishAbort, LockPhone, LockFarm,
     PublishBusy, UnlockFarm, UnlockPhone, PublishRecord, PublishAccount, PublishSwallow,
     PublishCatch, PublishThrow, PublishGiveUp, PublishSettle, PublishFinish
<1>5. CASE ~CallPosted(i) /\ posts[i] <= cut[i]
  BY <1>0, <1>4, <1>5, NotPosted DEF TellingStep
<1>6. CASE ~CallPosted(i) /\ ~(posts[i] <= cut[i])
  <2>1. Aware(i)
    BY <1>0, <1>6
  <2>2. SUFFICES Aware(i)'
    BY <1>0, <1>4, <1>6 DEF TellingStep
  <2>3. Return(i) => Aware(i)'
    BY <1>0, ReturnTask DEF Aware
  <2>4. CASE PublishStart(i)
    <3>1. tasks[i].st = "waiting" /\ post[i] \in {"uploading", "published"}
      BY <2>1, <2>4 DEF Aware, PublishStart, Waiting
    <3>2. CASE post[i] = "published"
      BY <2>3, <2>4, <3>2 DEF PublishStart
    <3>3. CASE post[i] = "uploading"
      <4>1. Step(i, "giveUp") /\ outcome'[i] = "found" /\ post'[i] = "uploading"
        BY <1>0, <2>4, <3>3 DEF PublishStart, TypeOK
      <4> QED BY <1>1, <1>2, <4>1 DEF Aware
    <3> QED BY <3>1, <3>2, <3>3
  <2>5. CASE PublishMark(i) \/ PublishLoad(i) \/ PublishAbort(i) \/ LockPhone(i) \/ LockFarm(i)
             \/ PublishBusy(i) \/ PublishThrow(i)
    BY <2>1, <2>5 DEF Aware, At, PublishMark, PublishLoad, PublishAbort, LockPhone, LockFarm,
       PublishBusy, PublishThrow
  <2>6. CASE UnlockFarm(i)
    BY <1>1, <1>2, <2>1, <2>6 DEF UnlockFarm, Aware, At
  <2>7. CASE UnlockPhone(i)
    <3>1. At(i, "unlockPhone") /\ outcome[i] \in {"posted", "final"} /\ post[i] = "uploading"
      BY <1>0, <2>1, <2>7 DEF UnlockPhone, Aware, At, Uploading
    <3>2. Step(i, IF outcome[i] = "posted" THEN "record" ELSE "catch")
      BY <2>7, <3>1 DEF UnlockPhone
    <3>3. UNCHANGED <<post, outcome>>
      BY <2>7 DEF UnlockPhone
    <3> QED BY <1>1, <1>2, <3>1, <3>2, <3>3 DEF Aware
  <2>8. CASE PublishRecord(i) \/ PublishAccount(i) \/ PublishSwallow(i)
    BY <1>0, <1>1, <1>2, <2>1, <2>8 DEF PublishRecord, PublishAccount, PublishSwallow, Aware, At, TypeOK
  <2>9. CASE PublishCatch(i)
    <3>1. outcome[i] = "final" /\ post[i] = "uploading"
      BY <2>1, <2>9 DEF PublishCatch, Aware, At
    <3>2. Step(i, "giveUp") /\ outcome'[i] = "final" /\ post'[i] = "uploading"
      BY <1>0, <2>9, <3>1 DEF PublishCatch, IsFinal, TypeOK
    <3> QED BY <1>1, <1>2, <3>2 DEF Aware
  <2>10. CASE PublishGiveUp(i)
    <3>1. outcome[i] \in {"final", "found"} /\ post[i] = "uploading"
      BY <2>1, <2>10 DEF PublishGiveUp, Aware, At
    <3>2. Step(i, "claim") /\ outcome'[i] = outcome[i] /\ post'[i] = "failed"
      BY <1>0, <2>10, <3>1 DEF PublishGiveUp, RecordFailure, TypeOK
    <3> QED BY <1>1, <1>2, <3>1, <3>2 DEF Aware
  <2>11. CASE PublishSettle(i)
    <3>1. UNCHANGED <<post, outcome>> /\ tasks[i].st = "active"
          /\ tasks[i].pc \in {"claim", "count", "complete"}
      BY <2>11 DEF PublishSettle, At
    <3>2. \E pc \in {"count", "complete", "finish"} : Step(i, pc)
      BY <2>11 DEF PublishSettle
    <3>3. tasks'[i].st = "active" /\ tasks'[i].pc \in {"count", "complete", "finish"}
      BY <1>1, <1>2, <3>2
    <3> QED BY <2>1, <3>1, <3>3 DEF Aware
  <2>12. CASE PublishFinish(i)
    <3>1. tasks \in Jobs(Items, PublishPC, PublishAttempts)
      BY DEF TypeOK, Jobs
    <3>2. FailForGood(tasks, i)[i].st = "failed"
      BY <1>0, <3>1, Constants, FailForGoodJob
    <3> QED BY <2>3, <2>12, <3>2 DEF PublishFinish, Aware
  <2> QED BY <1>6, <2>4, <2>5, <2>6, <2>7, <2>8, <2>9, <2>10, <2>11, <2>12 DEF PublishStep
<1> QED BY <1>3, <1>5, <1>6

LEMMA FaultTells ==
  ASSUME TypeOK, Uploading, Told, NEW i \in OnPhones, PublishFault(i)
  PROVE  TellingStep(i)
<1> USE DEF rows, worker, locks, history, used
<1>0. /\ i \in Items /\ Path[i] = "device" /\ posts[i] \in Nat /\ cut[i] \in Nat
      /\ posts[i] <= cut[i] + 1
      /\ posts[i] > cut[i] => Aware(i)
  BY DEF Told, TypeOK, OnPhones
<1>1. \A pc \in PublishPC : Step(i, pc) => tasks'[i].st = "active" /\ tasks'[i].pc = pc
  BY <1>0, StepTask
<1>2. {"unlockFarm", "swallow", "catch", "claim", "throw"} \subseteq PublishPC
  BY DEF PublishPC, SettlePC
<1>3. CASE CallUnknown(i)
  <2>1. tasks[i].st = "active" /\ tasks[i].pc = "call"
    BY <1>3 DEF CallUnknown, At
  <2>2. posts[i] <= cut[i] /\ post[i] = "uploading"
    BY <1>0, <2>1 DEF Aware, Uploading
  <2>3. /\ posts'[i] \in {posts[i], posts[i] + 1} /\ cut'[i] = cut[i]
        /\ post'[i] = "uploading" /\ outcome'[i] = "final"
    BY <1>0, <1>3, <2>2 DEF CallUnknown, InDoubt, Answered, TypeOK
  <2>4. tasks'[i].st = "active" /\ tasks'[i].pc \in {"unlockFarm", "catch"}
    BY <1>0, <1>1, <1>2, <1>3 DEF CallUnknown, Answered
  <2> QED BY <1>0, <2>2, <2>3, <2>4 DEF TellingStep, Aware
<1>4. ASSUME ~CallUnknown(i)
      PROVE  posts'[i] = posts[i] /\ cut'[i] \in {cut[i], cut[i] + 1}
  BY <1>0, <1>4 DEF PublishFault, CallRefused, Answered, PublishThrowsOut, PublishThrowsIn,
     PublishThrowsAfter, PublishIgnores, TypeOK
<1>5. CASE ~CallUnknown(i) /\ posts[i] <= cut[i]
  BY <1>0, <1>4, <1>5, NotPosted DEF TellingStep
<1>6. CASE ~CallUnknown(i) /\ ~(posts[i] <= cut[i])
  <2>1. Aware(i)
    BY <1>0, <1>6
  <2>2. Aware(i)' => TellingStep(i)
    BY <1>0, <1>4, <1>6 DEF TellingStep
  <2>3. CASE CallRefused(i) \/ PublishThrowsIn(i)
    BY <2>1, <2>3 DEF CallRefused, PublishThrowsIn, Aware, At
  <2>4. CASE PublishThrowsOut(i)
    <3>1. tasks'[i].st \in {"waiting", "failed"} /\ post'[i] = post[i]
      BY <1>0, <2>4, ThrowTask DEF PublishThrowsOut
    <3>2. CASE post[i] \in {"uploading", "published"}
      BY <2>2, <3>1, <3>2 DEF Aware
    <3>3. CASE post[i] \notin {"uploading", "published"}
      <4>1. CutShort(i)
        BY <2>1, <2>4, <3>3 DEF PublishThrowsOut, ThrowsOut, Waiting, At, Aware, SettlePC, CutShort
      <4>2. cut'[i] = cut[i] + 1
        BY <1>0, <2>4, <4>1 DEF PublishThrowsOut, TypeOK
      <4> QED BY <1>0, <1>4, <1>6, <4>2 DEF TellingStep
    <3> QED BY <3>2, <3>3
  <2>5. CASE PublishThrowsAfter(i)
    <3>1. outcome'[i] = "swallowed" /\ post'[i] = post[i] /\ Step(i, "swallow")
      BY <1>0, <2>5 DEF PublishThrowsAfter, TypeOK
    <3>2. post[i] \in {"uploading", "published"}
      BY <2>1, <2>5 DEF PublishThrowsAfter, Aware, At
    <3> QED BY <1>1, <1>2, <2>2, <3>1, <3>2 DEF Aware
  <2>6. CASE PublishIgnores(i)
    <3>1. CASE Return(i)
      BY <1>0, <2>2, <3>1, ReturnTask DEF Aware
    <3>2. CASE At(i, "swallow") /\ Step(i, "claim") /\ UNCHANGED outcome
      BY <1>1, <1>2, <2>1, <2>2, <2>6, <3>2 DEF PublishIgnores, Aware, At
    <3>3. ~(At(i, "catch") /\ ~IsFinal(i))
      BY <2>1 DEF Aware, At, IsFinal
    <3> QED BY <2>6, <3>1, <3>2, <3>3 DEF PublishIgnores
  <2> QED BY <1>6, <2>3, <2>4, <2>5, <2>6 DEF PublishFault
<1> QED BY <1>3, <1>5, <1>6

-----------------------------------------------------------------------------
(* The dispatch, the listeners and a crash *)

(* The dispatch works on items that have no queue job yet.                  *)
DispatchFrame ==
  /\ UNCHANGED <<outcome, listeners, posts, cut, published, failed>>
  /\ \A i \in Items : tasks[i].st # "absent" => /\ tasks'[i] = tasks[i]
                                                /\ post'[i] = post[i] /\ item'[i] = item[i]
  /\ \A i \in Items : /\ tasks'[i].st \in {"absent", "waiting", tasks[i].st}
                      /\ item'[i] \in {item[i], "scheduled", "skipped"}

LEMMA DispatchKeeps ==
  ASSUME TypeOK, Recorded, DistStep \/ DistFails PROVE DispatchFrame
<1> USE DEF rows, worker, locks, history, used
<1>1. loop.at <= N => loop.at \in Items
  BY Constants DEF TypeOK, Items
<1>2. loop.at \in Nat /\ Items \subseteq Nat
  BY Constants DEF TypeOK, Items
<1>3. CASE DistEnqueue
  <2>1. tasks \in Jobs(Items, PublishPC, PublishAttempts)
    BY DEF TypeOK, Jobs
  <2>2. \A i \in Items : tasks[i].st # "absent" => tasks'[i] = tasks[i]
    BY <1>3, <2>1, Constants, AddJob DEF DistEnqueue
  <2>3. \A i \in Items : tasks'[i].st \in {"absent", "waiting", tasks[i].st}
    BY <1>3, <2>1, Constants, NewJobs DEF DistEnqueue, Add, Jobs
  <2> QED BY <1>3, <2>2, <2>3 DEF DistEnqueue, DispatchFrame
<1>4. CASE DistSkip \/ DistCreate \/ DistLink
  <2>1. loop.at \in Items /\ tasks[loop.at].st = "absent"
    BY <1>1, <1>2, <1>4 DEF DistSkip, DistCreate, DistLink, DistAt, Current, Recorded
  <2> QED BY <1>4, <2>1 DEF DistSkip, DistCreate, DistLink, DispatchFrame, TypeOK
<1>5. CASE DistStart \/ DistMark \/ DistPass \/ DistFinish \/ DistFails
  BY <1>5 DEF DistStart, DistMark, DistPass, DistFinish, DistFails, DispatchFrame
<1> QED BY <1>3, <1>4, <1>5 DEF DistStep

LEMMA DispatchOnce ==
  ASSUME TypeOK, Once, DispatchFrame PROVE Once'
<1>1. Late'
  BY DEF Once, Late, DispatchFrame, TypeOK
<1>2. Uploading'
  BY DEF Once, Uploading, DispatchFrame
<1>3. Told'
  <2> SUFFICES ASSUME NEW i \in OnPhones PROVE posts[i] <= cut[i] + 1 /\ (posts[i] > cut[i] => Aware(i)')
    BY DEF Told, DispatchFrame
  <2>1. i \in Items
    BY DEF OnPhones
  <2>2. Aware(i) => tasks[i].st # "absent"
    BY DEF Aware
  <2> QED BY <2>1, <2>2 DEF Once, Told, Aware, DispatchFrame
<1> QED BY <1>1, <1>2, <1>3 DEF Once

LEMMA RestOnce ==
  ASSUME TypeOK, Once,
         \/ EnqueueDistribution \/ CancelRead \/ CancelStep
         \/ ListenerStep \/ ListenerFails \/ LockExpires \/ OrchestratorDies \/ UNCHANGED vars
  PROVE  Once'
<1> USE DEF rows, worker, locks, history, used
<1>1. ASSUME UNCHANGED <<tasks, outcome, posts, cut>>, 
             \A l \in listeners' : \E k \in listeners : l.i = k.i,
             \A i \in Items : post'[i] # post[i] => tasks[i].st = "failed"
      PROVE  Once'
  <2>1. Late'
    BY <1>1 DEF Once, Late
  <2>2. Uploading'
    BY <1>1 DEF Once, Uploading
  <2>3. Told'
    <3> SUFFICES ASSUME NEW i \in OnPhones
                 PROVE  posts[i] <= cut[i] + 1 /\ (posts[i] > cut[i] => Aware(i)')
      BY <1>1 DEF Told
    <3>1. i \in Items
      BY DEF OnPhones
    <3>2. Aware(i) => Aware(i)'
      BY <1>1, <3>1 DEF Aware
    <3> QED BY <3>2 DEF Once, Told
  <2> QED BY <2>1, <2>2, <2>3 DEF Once
<1>2. CASE EnqueueDistribution \/ CancelRead \/ CancelStep \/ ListenerFails \/ LockExpires \/ UNCHANGED vars
  <2>1. UNCHANGED <<tasks, outcome, posts, cut, post>> /\ listeners' \subseteq listeners
    BY <1>2 DEF EnqueueDistribution, CancelRead, CancelStep, CancelDist, CancelItems, ListenerFails,
       LockExpires, vars
  <2> QED BY <1>1, <2>1
<1>3. CASE ListenerStep
  <2>1. PICK l \in listeners : ListenerStep!(l)
    BY <1>3 DEF ListenerStep
  <2>2. l.i \in Items /\ tasks[l.i].st = "failed"
    BY DEF TypeOK, Once, Late
  <2>3. UNCHANGED <<tasks, outcome, posts, cut>>
    BY <2>1
  <2>4. \A k \in listeners' : k \in listeners \/ k.i = l.i
    <3>1. l \in [i : Items, at : SettlePC]
      BY DEF TypeOK
    <3> DEFINE moved(pc) == [l EXCEPT !.at = pc]
    <3>2. \A pc \in SettlePC : moved(pc).i = l.i
      BY <3>1
    <3>3. \/ listeners' = listeners \ {l}
          \/ \E pc \in SettlePC : listeners' = (listeners \ {l}) \cup {moved(pc)}
      BY <2>1 DEF SettlePC
    <3> HIDE DEF moved
    <3> QED BY <3>2, <3>3
  <2>5. \A i \in Items : i # l.i => post'[i] = post[i]
    BY <2>1 DEF RecordFailure, TypeOK
  <2> QED BY <1>1, <2>2, <2>3, <2>4, <2>5
<1>4. CASE OrchestratorDies
  <2>1. tasks \in Jobs(Items, PublishPC, PublishAttempts)
    BY DEF TypeOK, Jobs
  <2>2. \A i \in Items : tasks'[i].st # "active"
    BY <1>4, <2>1, Constants, StallJobs DEF OrchestratorDies
  <2>3. \A i \in Items : /\ tasks[i].st # "active" => tasks'[i] = tasks[i]
                         /\ tasks[i].st = "active" => tasks'[i].st \in {"failed", "waiting"}
                         /\ StallAgain(tasks[i]) => tasks'[i].st = "failed"
    BY <1>4, <2>1 DEF OrchestratorDies, Stall, StallAgain, Jobs, QueueJob
  <2>4. Late'
    BY <1>4, <2>3 DEF OrchestratorDies, Late
  <2>5. Uploading'
    BY <2>2 DEF Uploading
  <2>6. Told'
    <3> SUFFICES ASSUME NEW i \in OnPhones
                 PROVE  posts'[i] <= cut'[i] + 1 /\ (posts'[i] > cut'[i] => Aware(i)')
      BY <1>4 DEF Told, OrchestratorDies
    <3>1. i \in Items /\ posts[i] \in Nat /\ cut[i] \in Nat
      BY DEF OnPhones, TypeOK
    <3>2. posts[i] <= cut[i] + 1 /\ (posts[i] > cut[i] => Aware(i))
      BY DEF Once, Told
    <3>3. UNCHANGED post /\ cut'[i] = IF CutShort(i) THEN cut[i] + 1 ELSE cut[i]
      BY <1>4, <3>1 DEF OrchestratorDies
    <3>4. CASE At(i, "call")
      <4>1. posts[i] <= cut[i] /\ post[i] = "uploading"
        BY <3>1, <3>2, <3>4 DEF At, Aware, Once, Uploading
      <4>2. posts'[i] \in {posts[i], posts[i] + 1}
        BY <1>4, <3>1 DEF OrchestratorDies
      <4>3. Aware(i)'
        BY <2>3, <3>1, <3>3, <3>4, <4>1 DEF At, Aware
      <4> QED BY <3>1, <3>3, <4>1, <4>2, <4>3
    <3>5. CASE ~At(i, "call")
      <4>1. posts'[i] = posts[i]
        BY <1>4, <3>1, <3>5 DEF OrchestratorDies
      <4>2. CASE posts[i] <= cut[i]
        BY <3>1, <3>3, <4>1, <4>2
      <4>3. CASE ~(posts[i] <= cut[i])
        <5>1. Aware(i)
          BY <3>1, <3>2, <4>3
        <5>2. CASE tasks[i].st # "active"
          BY <2>3, <3>1, <3>2, <3>3, <4>1, <5>1, <5>2 DEF Aware
        <5>3. CASE tasks[i].st = "active" /\ post[i] \in {"uploading", "published"}
          BY <2>3, <3>1, <3>2, <3>3, <4>1, <5>3 DEF Aware
        <5>4. CASE tasks[i].st = "active" /\ post[i] \notin {"uploading", "published"}
          <6>1. CutShort(i)
            BY <3>1, <5>1, <5>4 DEF Aware, CutShort, At, Once, Uploading
          <6> QED BY <3>1, <3>2, <3>3, <4>1, <6>1
        <5> QED BY <5>2, <5>3, <5>4
      <4> QED BY <4>2, <4>3
    <3> QED BY <3>4, <3>5
  <2> QED BY <2>4, <2>5, <2>6 DEF Once
<1> QED BY <1>2, <1>3, <1>4

LEMMA WorkerOnce ==
  ASSUME TypeOK, Once, NEW i \in Items, PublishStep(i) \/ PublishFault(i)
  PROVE  Once'
<1>1. Late' /\ Uploading'
  BY WorkerLate, WorkerUploading DEF Once
<1>2. OnlyTask(i) /\ Others(i)
  BY StepFrame, FaultFrame, WorkerStepType, WorkerFaultType
<1>3. i \in OnPhones => TellingStep(i)
  BY StepTells, FaultTells DEF Once
<1>4. ASSUME NEW j \in OnPhones, j # i PROVE TellingStep(j)
  <2>1. j \in Items
    BY DEF OnPhones
  <2>2. Aware(j) => Aware(j)'
    BY <1>2, <1>4, <2>1 DEF OnlyTask, Others, Aware
  <2> QED BY <1>2, <1>4, <2>1, <2>2 DEF OnlyTask, Others, Once, Told, TellingStep
<1>5. Told'
  BY <1>3, <1>4 DEF Told, TellingStep, OnPhones
<1> QED BY <1>1, <1>5 DEF Once

LEMMA NextOnce == IInv /\ Once /\ [Next]_vars => Once'
<1> SUFFICES ASSUME IInv, Once, [Next]_vars PROVE Once'
  OBVIOUS
<1> USE DEF IInv
<1>1. CASE \E i \in Items : PublishStep(i) \/ PublishFault(i)
  BY <1>1, WorkerOnce
<1>2. CASE DistStep \/ DistFails
  BY <1>2, DispatchKeeps, DispatchOnce
<1> QED BY <1>1, <1>2, RestOnce DEF Next

LEMMA InitOnce == Init => Once
BY DEF Init, Once, Late, Uploading, Told, NoJob, OnPhones

LEMMA OnceAlways == Spec => []Once
BY InitOnce, NextOnce, Invariant, PTL DEF Spec

(* Whatever the crash, the lost answer or the failed update, a phone posts  *)
(* an item once, and once more at most for every attempt that was cut short *)
(* after it had recorded a failure.                                         *)
THEOREM NeverPostedAgain == Spec => []PostedOnce
<1>1. TypeOK /\ Once => PostedOnce
  BY DEF TypeOK, Once, Told, PostedOnce, OnPhones
<1> QED BY <1>1, TypeCorrect, OnceAlways, PTL

-----------------------------------------------------------------------------
(* Settled items and the counters *)

Closed == {"published", "failed"}

Settled(S) == \A i \in Items : item[i] \in S

ListenerAt(i, pc) == [i |-> i, at |-> pc] \in listeners

(* Who has settled an item and not yet counted it: a worker, or a listener. *)
Counting(i) == At(i, "count") \/ ListenerAt(i, "count")

Counted(s) == {i \in Items : item[i] = s /\ ~Counting(i)}

Labelled ==
  \A i \in Items : /\ tasks[i].st = "absent" => item[i] \notin Closed
                   /\ At(i, "count") => item[i] = SettledAs(i)
                   /\ ListenerAt(i, "count") => item[i] = "failed"

(* The counters never run ahead of the items that were settled and counted. *)
Counters ==
  /\ Labelled
  /\ published <= Cardinality(Counted("published"))
  /\ failed <= Cardinality(Counted("failed"))

(* What every step is for an item: nobody settles it, ... *)
Quiet(i) ==
  /\ item'[i] = item[i] \/ (item[i] \notin Closed /\ item'[i] \notin Closed)
  /\ tasks'[i].st = "absent" => tasks[i].st = "absent"
  /\ At(i, "count")' => At(i, "count") /\ outcome'[i] = outcome[i]
  /\ ListenerAt(i, "count")' => ListenerAt(i, "count")

QuietStep == UNCHANGED <<published, failed>> /\ \A i \in Items : Quiet(i)

(* ... one worker or one listener settles it, ... *)
ClaimStep(i) ==
  /\ UNCHANGED <<published, failed>>
  /\ \A j \in Items : j # i => Quiet(j)
  /\ item[i] \in ItemOpen /\ item'[i] \in Closed
  /\ tasks'[i].st # "absent"
  /\ Counting(i)'
  /\ At(i, "count")' => item'[i] = SettledAs(i)'
  /\ ListenerAt(i, "count")' => item'[i] = "failed"

(* ... or whoever settled it counts it. *)
CountStep(i, as) ==
  /\ CountUp(as, published' + failed' >= N)
  /\ \A j \in Items : Quiet(j)
  /\ Counting(i) /\ ~Counting(i)'
  /\ as \in Closed /\ item[i] = as

CountersStep == QuietStep \/ \E i \in Items : ClaimStep(i) \/ \E as \in Closed : CountStep(i, as)

LEMMA FiniteItems == IsFiniteSet(Items) /\ Cardinality(Items) = N
<1>1. N \in Nat \ {0} /\ 1 \in Int /\ N \in Int
  BY Constants
<1> QED BY <1>1, FS_Interval DEF Items

LEMMA ItemSubset ==
  ASSUME NEW S \in SUBSET Items, NEW T \in SUBSET S
  PROVE  /\ IsFiniteSet(S) /\ IsFiniteSet(T) /\ Cardinality(S) \in Nat /\ Cardinality(T) \in Nat
         /\ Cardinality(T) <= Cardinality(S)
<1>1. IsFiniteSet(S)
  BY FiniteItems, FS_Subset
<1>2. IsFiniteSet(T) /\ Cardinality(T) <= Cardinality(S)
  BY <1>1, FS_Subset
<1> QED BY <1>1, <1>2, FS_CardinalityType

(* An item that was counted stays as it is and is not counted again.        *)
LEMMA StepKeepsCounted ==
  ASSUME CountersStep
  PROVE  /\ \A s \in Closed : Counted(s) \subseteq Counted(s)'
         /\ \A i \in Items : item[i] \in Closed => item'[i] = item[i]
<1>1. CASE QuietStep
  BY <1>1 DEF QuietStep, Quiet, Counted, Counting
<1>2. ASSUME NEW i \in Items, ClaimStep(i)
      PROVE  /\ \A s \in Closed : Counted(s) \subseteq Counted(s)'
             /\ \A j \in Items : item[j] \in Closed => item'[j] = item[j]
  BY <1>2 DEF ClaimStep, Quiet, Counted, Counting, ItemOpen, Closed
<1>3. ASSUME NEW i \in Items, NEW as \in Closed, CountStep(i, as)
      PROVE  /\ \A s \in Closed : Counted(s) \subseteq Counted(s)'
             /\ \A j \in Items : item[j] \in Closed => item'[j] = item[j]
  BY <1>3 DEF CountStep, Quiet, Counted, Counting
<1> QED BY <1>1, <1>2, <1>3 DEF CountersStep

LEMMA StepKeepsLabels ==
  ASSUME Labelled, CountersStep PROVE Labelled'
<1>1. ASSUME NEW i \in Items, Quiet(i)
      PROVE  /\ tasks'[i].st = "absent" => item'[i] \notin Closed
             /\ At(i, "count")' => item'[i] = SettledAs(i)'
             /\ ListenerAt(i, "count")' => item'[i] = "failed"
  BY <1>1 DEF Labelled, Quiet, SettledAs, Closed
<1>2. CASE QuietStep
  BY <1>1, <1>2 DEF QuietStep, Labelled
<1>3. ASSUME NEW i \in Items, ClaimStep(i) PROVE Labelled'
  BY <1>1, <1>3 DEF ClaimStep, Labelled
<1>4. ASSUME NEW i \in Items, NEW as \in Closed, CountStep(i, as) PROVE Labelled'
  BY <1>1, <1>4 DEF CountStep, Labelled
<1> QED BY <1>2, <1>3, <1>4 DEF CountersStep

LEMMA StepKeepsCounters ==
  ASSUME TypeOK, Counters, CountersStep PROVE Counters'
<1>1. Labelled'
  BY StepKeepsLabels DEF Counters
<1>2. ASSUME NEW s \in Closed
      PROVE  /\ Counted(s) \in SUBSET Items /\ Counted(s)' \in SUBSET Items
             /\ Cardinality(Counted(s)) \in Nat /\ Cardinality(Counted(s)') \in Nat
             /\ IsFiniteSet(Counted(s))
             /\ Cardinality(Counted(s)) <= Cardinality(Counted(s)')
  <2>1. Counted(s)' \in SUBSET Items /\ Counted(s) \in SUBSET Counted(s)'
    BY StepKeepsCounted DEF Counted, Items
  <2> QED BY <2>1, ItemSubset
<1>3. published \in Nat /\ failed \in Nat /\ "published" \in Closed /\ "failed" \in Closed
      /\ published <= Cardinality(Counted("published")) /\ failed <= Cardinality(Counted("failed"))
  BY DEF TypeOK, Counters, Closed
<1>4. CASE UNCHANGED <<published, failed>>
  <2>1. published' <= Cardinality(Counted("published")') /\ failed' <= Cardinality(Counted("failed")')
    BY <1>2, <1>3, <1>4
  <2> QED BY <1>1, <2>1 DEF Counters
<1>5. ASSUME NEW i \in Items, NEW as \in Closed, CountStep(i, as) PROVE Counters'
  <2>1. i \notin Counted(as) /\ i \in Counted(as)'
    BY <1>5 DEF CountStep, Quiet, Counted, Items
  <2>2. Counted(as) \cup {i} \in SUBSET Counted(as)'
    BY <2>1, <1>5, StepKeepsCounted
  <2>3. Cardinality(Counted(as) \cup {i}) = Cardinality(Counted(as)) + 1
    BY <1>2, <2>1, FS_AddElement
  <2>4. Cardinality(Counted(as)) + 1 <= Cardinality(Counted(as)')
    BY <1>2, <2>2, <2>3, ItemSubset
  <2>5. /\ published' = IF as = "published" THEN published + 1 ELSE published
        /\ failed' = IF as = "failed" THEN failed + 1 ELSE failed
    BY <1>5 DEF CountStep, CountUp
  <2>6. published' <= Cardinality(Counted("published")')
    <3>1. CASE as = "published"
      <4>1. published' = published + 1
        BY <2>5, <3>1
      <4>2. Cardinality(Counted("published")) + 1 <= Cardinality(Counted("published")')
        BY <2>4, <3>1
      <4>3. /\ Cardinality(Counted("published")) \in Nat
            /\ Cardinality(Counted("published")') \in Nat
        BY <1>2 DEF Closed
      <4> QED BY <1>3, <4>1, <4>2, <4>3
    <3>2. CASE as # "published"
      BY <1>2, <1>3, <2>5, <3>2
    <3> QED BY <3>1, <3>2
  <2>7. failed' <= Cardinality(Counted("failed")')
    <3>1. CASE as = "failed"
      <4>1. failed' = failed + 1
        BY <2>5, <3>1
      <4>2. Cardinality(Counted("failed")) + 1 <= Cardinality(Counted("failed")')
        BY <2>4, <3>1
      <4>3. /\ Cardinality(Counted("failed")) \in Nat
            /\ Cardinality(Counted("failed")') \in Nat
        BY <1>2 DEF Closed
      <4> QED BY <1>3, <4>1, <4>2, <4>3
    <3>2. CASE as # "failed"
      BY <1>2, <1>3, <2>5, <3>2
    <3> QED BY <3>1, <3>2
  <2> QED BY <1>1, <2>6, <2>7 DEF Counters
<1> QED BY <1>4, <1>5 DEF CountersStep, QuietStep, ClaimStep

-----------------------------------------------------------------------------
(* Every step settles one item at most, or counts one that was settled *)

(* What a step of a worker is for the item of its job.                      *)
SettlingStep(i) ==
  \/ /\ UNCHANGED <<item, published, failed>>
     /\ ~At(i, "count")'
  \/ /\ UNCHANGED <<published, failed>>
     /\ item[i] \in ItemOpen /\ item'[i] \in Closed
     /\ At(i, "count")' /\ item'[i] = SettledAs(i)'
  \/ /\ UNCHANGED item
     /\ At(i, "count") /\ ~At(i, "count")'
     /\ CountUp(SettledAs(i), published' + failed' >= N)

LEMMA WorkerSettles ==
  ASSUME TypeOK, NEW i \in Items, PublishStep(i) \/ PublishFault(i)
  PROVE  SettlingStep(i)
<1> USE DEF rows, worker, locks, history, used
<1>1. \A pc \in PublishPC : Step(i, pc) => tasks'[i].st = "active" /\ tasks'[i].pc = pc
  BY StepTask
<1>2. {"mark", "load", "abort", "lock", "farm", "call", "busy", "unlockFarm", "unlockPhone",
       "record", "account", "swallow", "catch", "throw", "giveUp", "claim", "count", "complete",
       "finish"} \subseteq PublishPC
  BY DEF PublishPC, SettlePC
<1>3. (Return(i) \/ Throw(i)) => tasks'[i].st # "active"
  BY ReturnTask, ThrowTask
<1>4. ASSUME UNCHANGED <<item, published, failed>>,
             tasks'[i].st # "active" \/ \E pc \in PublishPC \ {"count"} : Step(i, pc)
      PROVE  SettlingStep(i)
  BY <1>1, <1>4 DEF SettlingStep, At
<1>5. CASE PublishStart(i) \/ PublishMark(i) \/ PublishLoad(i) \/ PublishAbort(i) \/ LockPhone(i)
           \/ LockFarm(i) \/ CallPosted(i) \/ UnlockFarm(i)
  <2>1. UNCHANGED <<item, published, failed>>
    BY <1>5 DEF PublishStart, PublishMark, PublishLoad, PublishAbort, LockPhone, LockFarm, CallPosted,
       Answered, UnlockFarm
  <2>2. tasks'[i].st # "active" \/ \E pc \in PublishPC \ {"count"} : Step(i, pc)
    BY <1>2, <1>3, <1>5 DEF PublishStart, PublishMark, PublishLoad, PublishAbort, LockPhone,
       LockFarm, CallPosted, Answered, UnlockFarm
  <2> QED BY <1>4, <2>1, <2>2
<1>6. CASE UnlockPhone(i)
  <2>1. \E pc \in {"record", "busy", "catch"} : Step(i, pc)
    BY <1>6, Constants DEF UnlockPhone
  <2>2. UNCHANGED <<item, published, failed>>
    BY <1>6 DEF UnlockPhone
  <2> QED BY <1>2, <1>4, <2>1, <2>2
<1>7. CASE PublishBusy(i) \/ PublishFinish(i)
  <2>1. tasks \in Jobs(Items, PublishPC, PublishAttempts)
    BY DEF TypeOK, Jobs
  <2>2. FailForGood(tasks, i)[i].st = "failed"
    BY <2>1, Constants, FailForGoodJob
  <2>3. PublishBusy(i) => tasks'[i].st # "active"
    BY DEF PublishBusy, TypeOK, QueueJob
  <2>4. PublishFinish(i) => tasks'[i].st # "active"
    BY <1>3, <2>2 DEF PublishFinish
  <2>5. UNCHANGED <<item, published, failed>>
    BY <1>7 DEF PublishBusy, PublishFinish
  <2> QED BY <1>4, <1>7, <2>3, <2>4, <2>5
<1>8. CASE PublishRecord(i) \/ PublishAccount(i) \/ PublishSwallow(i) \/ PublishCatch(i)
           \/ PublishThrow(i) \/ PublishGiveUp(i)
  <2>1. UNCHANGED <<item, published, failed>>
    BY <1>8 DEF PublishRecord, PublishAccount, PublishSwallow, PublishCatch, PublishThrow, PublishGiveUp
  <2>2. tasks'[i].st # "active" \/ \E pc \in PublishPC \ {"count"} : Step(i, pc)
    BY <1>2, <1>3, <1>8 DEF PublishRecord, PublishAccount, PublishSwallow, PublishCatch, PublishThrow,
       PublishGiveUp
  <2> QED BY <1>4, <2>1, <2>2
<1>9. CASE PublishFault(i)
  <2>1. UNCHANGED <<item, published, failed>>
    BY <1>9 DEF PublishFault, CallRefused, CallUnknown, Answered, PublishThrowsOut, PublishThrowsIn,
       PublishThrowsAfter, PublishIgnores
  <2>2. tasks'[i].st # "active" \/ \E pc \in PublishPC \ {"count"} : Step(i, pc)
    BY <1>2, <1>3, <1>9 DEF PublishFault, CallRefused, CallUnknown, Answered, PublishThrowsOut,
       PublishThrowsIn, PublishThrowsAfter, PublishIgnores
  <2> QED BY <1>4, <2>1, <2>2
<1>10. CASE PublishSettle(i)
  <2>1. UNCHANGED outcome /\ SettledAs(i) \in Closed
    BY <1>10 DEF PublishSettle, SettledAs, Closed
  <2>2. ASSUME NEW claimed \in BOOLEAN, Claim(i, SettledAs(i), claimed),
               Step(i, IF claimed THEN "count" ELSE "finish"), UNCHANGED <<dist, published, failed>>
        PROVE  SettlingStep(i)
    <3>1. CASE claimed
      <4>1. item[i] \in ItemOpen /\ item' = [item EXCEPT ![i] = SettledAs(i)]
        BY <2>2, <3>1 DEF Claim
      <4>2. item'[i] = SettledAs(i) /\ SettledAs(i)' = SettledAs(i)
        BY <2>1, <4>1 DEF TypeOK, SettledAs
      <4>3. At(i, "count")'
        BY <1>1, <1>2, <2>2, <3>1 DEF At
      <4> QED BY <2>1, <2>2, <4>1, <4>2, <4>3 DEF SettlingStep
    <3>2. CASE ~claimed
      <4>1. UNCHANGED <<item, published, failed>> /\ Step(i, "finish")
        BY <2>2, <3>2 DEF Claim
      <4> QED BY <1>2, <1>4, <4>1
    <3> QED BY <3>1, <3>2
  <2>3. ASSUME NEW reached \in BOOLEAN, At(i, "count"), CountUp(SettledAs(i), reached),
               Step(i, IF reached THEN "complete" ELSE "finish"), UNCHANGED <<dist, item>>
        PROVE  SettlingStep(i)
    <3>1. tasks'[i].st = "active" /\ tasks'[i].pc \in {"complete", "finish"}
      BY <1>1, <1>2, <2>3
    <3>2. CountUp(SettledAs(i), published' + failed' >= N)
      BY <2>3 DEF CountUp
    <3> QED BY <2>3, <3>1, <3>2 DEF SettlingStep, At
  <2>4. CASE At(i, "complete") /\ Step(i, "finish") /\ UNCHANGED <<item, published, failed>>
    BY <1>2, <1>4, <2>4
  <2> QED BY <1>10, <2>2, <2>3, <2>4 DEF PublishSettle
<1> QED BY <1>5, <1>6, <1>7, <1>8, <1>9, <1>10 DEF PublishStep

LEMMA WorkerCounts ==
  ASSUME TypeOK, Late, Labelled, NEW i \in Items, PublishStep(i) \/ PublishFault(i)
  PROVE  CountersStep
<1>1. OnlyTask(i) /\ Others(i) /\ Unfinished(i) /\ Listening(i)
  BY StepFrame, FaultFrame, WorkerStepType, WorkerFaultType
<1>2. \A j \in Items : ListenerAt(j, "count")' <=> ListenerAt(j, "count")
  BY <1>1 DEF Listening, Listen, ListenerAt
<1>3. ~ListenerAt(i, "count")
  BY <1>1 DEF Late, Unfinished, ListenerAt
<1>4. ASSUME NEW j \in Items, j # i PROVE Quiet(j)
  BY <1>1, <1>2, <1>4 DEF OnlyTask, Others, At, Quiet
<1>5. tasks'[i].st # "absent"
  BY <1>1 DEF OnlyTask
<1>6. CASE UNCHANGED <<item, published, failed>> /\ ~At(i, "count")'
  BY <1>2, <1>4, <1>5, <1>6 DEF Quiet, QuietStep, CountersStep
<1>7. CASE /\ UNCHANGED <<published, failed>>
           /\ item[i] \in ItemOpen /\ item'[i] \in Closed
           /\ At(i, "count")' /\ item'[i] = SettledAs(i)'
  <2>1. ClaimStep(i)
    BY <1>2, <1>3, <1>4, <1>5, <1>7 DEF ClaimStep, Counting
  <2> QED BY <2>1 DEF CountersStep
<1>8. CASE /\ UNCHANGED item
           /\ At(i, "count") /\ ~At(i, "count")'
           /\ CountUp(SettledAs(i), published' + failed' >= N)
  <2>1. SettledAs(i) \in Closed /\ item[i] = SettledAs(i)
    BY <1>8 DEF Labelled, SettledAs, Closed
  <2>2. CountStep(i, SettledAs(i))
    BY <1>2, <1>3, <1>4, <1>5, <1>8, <2>1 DEF CountStep, Counting, Quiet
  <2> QED BY <2>1, <2>2 DEF CountersStep
<1> QED BY <1>6, <1>7, <1>8, WorkerSettles DEF SettlingStep

(* The 'failed' listener: what it does to the listeners and to its item.    *)
LEMMA ListenerCounts ==
  ASSUME TypeOK, Late, Labelled, ListenerStep PROVE CountersStep
<1> USE DEF rows, locks, history, used
<1>1. PICK l \in listeners : ListenerStep!(l)
  BY DEF ListenerStep
<1>2. /\ l \in [i : Items, at : SettlePC] /\ l.i \in Items
      /\ tasks[l.i].st = "failed"
  BY DEF TypeOK, Late
<1> DEFINE moved(pc) == [l EXCEPT !.at = pc]
<1>3. \A pc \in SettlePC : moved(pc) = [i |-> l.i, at |-> pc]
  BY <1>2
<1>4. l = [i |-> l.i, at |-> l.at]
  BY <1>2
<1>5. UNCHANGED <<tasks, outcome>> /\ \A i \in Items : At(i, "count")' <=> At(i, "count")
  BY <1>1 DEF At
<1>6. ~At(l.i, "count")
  BY <1>2 DEF At
<1>7. ASSUME UNCHANGED <<item, published, failed>>,
             listeners' = listeners \ {l} \/ \E pc \in SettlePC \ {"count"} : listeners' = (listeners \ {l}) \cup {moved(pc)}
      PROVE  CountersStep
  <2>1. \A i \in Items : ListenerAt(i, "count")' => ListenerAt(i, "count")
    BY <1>3, <1>7 DEF ListenerAt
  <2> QED BY <1>5, <1>7, <2>1 DEF Quiet, QuietStep, CountersStep
<1>8. CASE l.at = "giveUp" /\ listeners' = (listeners \ {l}) \cup {moved("claim")}
           /\ UNCHANGED <<item, published, failed>>
  BY <1>7, <1>8 DEF SettlePC
<1>9. ASSUME NEW claimed \in BOOLEAN, l.at = "claim", Claim(l.i, "failed", claimed),
             listeners' = IF claimed THEN (listeners \ {l}) \cup {moved("count")} ELSE listeners \ {l},
             UNCHANGED <<published, failed>>
      PROVE  CountersStep
  <2>1. CASE claimed
    <3>1. item[l.i] \in ItemOpen /\ item' = [item EXCEPT ![l.i] = "failed"]
      BY <1>9, <2>1 DEF Claim
    <3>2. listeners' = (listeners \ {l}) \cup {[i |-> l.i, at |-> "count"]}
      BY <1>3, <1>9, <2>1 DEF SettlePC
    <3>3. item'[l.i] = "failed" /\ \A i \in Items : i # l.i => item'[i] = item[i]
      BY <1>2, <3>1 DEF TypeOK
    <3>4. ASSUME NEW i \in Items, i # l.i PROVE Quiet(i)
      <4>1. ListenerAt(i, "count")' => ListenerAt(i, "count")
        BY <3>2, <3>4 DEF ListenerAt
      <4> QED BY <1>5, <3>3, <3>4, <4>1 DEF Quiet
    <3>5. ListenerAt(l.i, "count")'
      BY <3>2 DEF ListenerAt
    <3>6. ClaimStep(l.i)
      BY <1>2, <1>5, <1>6, <1>9, <3>1, <3>3, <3>4, <3>5 DEF ClaimStep, Counting, Closed
    <3> QED BY <1>2, <3>6 DEF CountersStep
  <2>2. CASE ~claimed
    BY <1>7, <1>9, <2>2 DEF Claim
  <2> QED BY <2>1, <2>2
<1>10. ASSUME NEW reached \in BOOLEAN, l.at = "count", CountUp("failed", reached),
              listeners' = IF reached THEN (listeners \ {l}) \cup {moved("complete")} ELSE listeners \ {l},
              UNCHANGED item
       PROVE  CountersStep
  <2>1. listeners' \subseteq (listeners \ {l}) \cup {[i |-> l.i, at |-> "complete"]}
    BY <1>3, <1>10 DEF SettlePC
  <2>2. l = [i |-> l.i, at |-> "count"]
    BY <1>4, <1>10
  <2>3. \A i \in Items : ListenerAt(i, "count")' => ListenerAt(i, "count")
    BY <2>1 DEF ListenerAt
  <2>4. ListenerAt(l.i, "count") /\ ~ListenerAt(l.i, "count")'
    BY <2>1, <2>2 DEF ListenerAt
  <2>5. CountUp("failed", published' + failed' >= N)
    BY <1>10 DEF CountUp
  <2>6. item[l.i] = "failed" /\ "failed" \in Closed
    BY <1>2, <2>4 DEF Labelled, Closed
  <2>7. CountStep(l.i, "failed")
    BY <1>2, <1>5, <1>6, <1>10, <2>3, <2>4, <2>5, <2>6 DEF CountStep, Counting, Quiet
  <2> QED BY <1>2, <2>6, <2>7 DEF CountersStep
<1>11. CASE l.at = "complete" /\ listeners' = listeners \ {l} /\ UNCHANGED <<item, published, failed>>
  BY <1>7, <1>11
<1> HIDE DEF moved
<1>12. \/ \E claimed \in BOOLEAN :
            /\ l.at = "claim" /\ Claim(l.i, "failed", claimed)
            /\ listeners' = IF claimed THEN (listeners \ {l}) \cup {moved("count")} ELSE listeners \ {l}
            /\ UNCHANGED <<published, failed>>
       \/ \E reached \in BOOLEAN :
            /\ l.at = "count" /\ CountUp("failed", reached)
            /\ listeners' = IF reached THEN (listeners \ {l}) \cup {moved("complete")} ELSE listeners \ {l}
            /\ UNCHANGED item
       \/ l.at = "giveUp" /\ listeners' = (listeners \ {l}) \cup {moved("claim")}
            /\ UNCHANGED <<item, published, failed>>
       \/ l.at = "complete" /\ listeners' = listeners \ {l} /\ UNCHANGED <<item, published, failed>>
  BY <1>1 DEF moved
<1> QED BY <1>8, <1>9, <1>10, <1>11, <1>12

LEMMA RestCounts ==
  ASSUME TypeOK, Labelled,
         \/ EnqueueDistribution \/ CancelRead \/ CancelStep \/ DispatchFrame
         \/ ListenerFails \/ LockExpires \/ OrchestratorDies \/ UNCHANGED vars
  PROVE  CountersStep
<1> USE DEF rows, worker, locks, history, used
<1>1. SUFFICES QuietStep
  BY DEF CountersStep
<1>2. CASE EnqueueDistribution \/ CancelRead \/ CancelStep \/ ListenerFails \/ LockExpires
           \/ UNCHANGED vars
  <2>1. UNCHANGED <<tasks, outcome, published, failed>> /\ listeners' \subseteq listeners
    BY <1>2 DEF EnqueueDistribution, CancelRead, CancelStep, CancelDist, CancelItems, ListenerFails,
       LockExpires, vars
  <2>2. \A i \in Items : item'[i] = item[i] \/ (item[i] \notin Closed /\ item'[i] \notin Closed)
    BY <1>2 DEF EnqueueDistribution, CancelRead, CancelStep, CancelDist, CancelItems, ListenerFails,
       LockExpires, vars, TypeOK, Closed
  <2> QED BY <2>1, <2>2 DEF QuietStep, Quiet, At, ListenerAt
<1>3. CASE DispatchFrame
  <2> SUFFICES ASSUME NEW i \in Items PROVE Quiet(i)
    BY <1>3 DEF QuietStep, DispatchFrame
  <2>1. CASE tasks[i].st = "absent"
    <3>1. item[i] \notin Closed /\ item'[i] \notin Closed
      BY <1>3, <2>1 DEF DispatchFrame, Labelled, Closed
    <3>2. tasks'[i].st # "active"
      BY <1>3, <2>1 DEF DispatchFrame
    <3> QED BY <1>3, <2>1, <3>1, <3>2 DEF Quiet, DispatchFrame, At, ListenerAt
  <2>2. CASE tasks[i].st # "absent"
    BY <1>3, <2>2 DEF Quiet, DispatchFrame, At, ListenerAt
  <2> QED BY <2>1, <2>2
<1>4. CASE OrchestratorDies
  <2>1. tasks \in Jobs(Items, PublishPC, PublishAttempts)
    BY DEF TypeOK, Jobs
  <2>2. \A i \in Items : tasks'[i].st # "active" /\ (tasks'[i].st = "absent" => tasks[i].st = "absent")
    BY <1>4, <2>1, Constants, StallJobs DEF OrchestratorDies
  <2>3. \A i \in Items : ~ListenerAt(i, "count")'
    BY <1>4 DEF OrchestratorDies, ListenerAt
  <2> QED BY <1>4, <2>2, <2>3 DEF OrchestratorDies, QuietStep, Quiet, At
<1> QED BY <1>2, <1>3, <1>4

LEMMA NextCounts == IInv /\ Once /\ Labelled /\ [Next]_vars => CountersStep
<1> SUFFICES ASSUME IInv, Once, Labelled, [Next]_vars PROVE CountersStep
  OBVIOUS
<1> USE DEF IInv, Once
<1>1. CASE \E i \in Items : PublishStep(i) \/ PublishFault(i)
  BY <1>1, WorkerCounts
<1>2. CASE DistStep \/ DistFails
  BY <1>2, DispatchKeeps, RestCounts
<1>3. CASE ListenerStep
  BY <1>3, ListenerCounts
<1> QED BY <1>1, <1>2, <1>3, RestCounts DEF Next

LEMMA InitCounters == Init => Counters
<1> SUFFICES ASSUME Init PROVE Counters
  OBVIOUS
<1>1. Labelled
  BY DEF Init, Labelled, NoJob, Closed, At, ListenerAt
<1>2. Counted("published") = {} /\ Counted("failed") = {}
  BY DEF Init, Counted
<1> QED BY <1>1, <1>2, FS_EmptySet DEF Init, Counters

LEMMA CountersAlways == Spec => []Counters
<1>1. IInv /\ Once /\ Counters /\ [Next]_vars => Counters'
  BY NextCounts, StepKeepsCounters DEF IInv, Counters
<1> QED BY <1>1, InitCounters, OnceAlways, Invariant, PTL DEF Spec

(* Worker, redelivered worker and 'failed' listener settle an item once     *)
(* between them: for any number of them publishedCount and failedCount      *)
(* never run ahead of the items.                                            *)
THEOREM SettledOnce == Spec => []CountedOnce
<1>1. TypeOK /\ Counters => CountedOnce
  <2> SUFFICES ASSUME TypeOK, Counters PROVE CountedOnce
    OBVIOUS
  <2> DEFINE settled(s) == {i \in Items : item[i] = s}
  <2>1. \A s \in Closed : /\ Cardinality(Counted(s)) \in Nat /\ Cardinality(settled(s)) \in Nat
                          /\ Cardinality(Counted(s)) <= Cardinality(settled(s))
    <3> TAKE s \in Closed
    <3>1. settled(s) \in SUBSET Items /\ Counted(s) \in SUBSET settled(s)
      BY DEF Counted, Items
    <3> HIDE DEF settled
    <3> QED BY <3>1, ItemSubset
  <2>2. /\ Cardinality(Counted("published")) \in Nat /\ Cardinality(settled("published")) \in Nat
        /\ Cardinality(Counted("published")) <= Cardinality(settled("published"))
        /\ Cardinality(Counted("failed")) \in Nat /\ Cardinality(settled("failed")) \in Nat
        /\ Cardinality(Counted("failed")) <= Cardinality(settled("failed"))
    BY <2>1 DEF Closed
  <2>3. /\ published \in Nat /\ failed \in Nat
        /\ published <= Cardinality(Counted("published")) /\ failed <= Cardinality(Counted("failed"))
    BY DEF TypeOK, Counters
  <2>4. published <= Cardinality(settled("published")) /\ failed <= Cardinality(settled("failed"))
    <3> HIDE DEF settled
    <3> QED BY <2>2, <2>3
  <2> QED BY <2>4 DEF CountedOnce
<1> QED BY <1>1, TypeCorrect, CountersAlways, PTL

-----------------------------------------------------------------------------
(* When a distribution is completed *)

(* Who has found all items counted and is about to say so.                  *)
Completing ==
  (\E i \in Items : At(i, "complete")) \/ (\E l \in listeners : l.at = "complete")

(* What the dispatch has passed as skipped still is.                        *)
Passed == {i \in Items : i < loop.at /\ item[i] = "skipped"}

PassedSkips ==
  distTask.st = "active" =>
    /\ loop.skipped <= Cardinality(Passed)
    /\ \A i \in Items : loop.seen[i] = "skipped" => item[i] = "skipped"

Finished ==
  /\ Completing => Settled(Closed)
  /\ PassedSkips
  /\ dist = "completed" =>
       Settled(Closed) \/ (distTask.st = "completed" /\ Settled({"skipped"}))

CompletingStep == Completing' => Completing \/ published' + failed' >= N

(* What a step other than the dispatch's is for the distribution.           *)
DistKept ==
  /\ dist' = "completed" => dist = "completed" \/ Completing
  /\ loop' = loop
  /\ distTask'.st = "active" => distTask.st = "active"
  /\ distTask.st = "completed" => distTask'.st = "completed"
  /\ \A i \in Items : item[i] = "skipped" => item'[i] = "skipped"

LEMMA WorkerCompletes ==
  ASSUME TypeOK, NEW i \in Items, PublishStep(i) \/ PublishFault(i)
  PROVE  CompletingStep /\ DistKept
<1> USE DEF rows, worker, locks, history, used
<1>1. OnlyTask(i) /\ Others(i) /\ Listening(i) /\ UNCHANGED <<distTask, loop>>
  BY StepFrame, FaultFrame, WorkerStepType, WorkerFaultType
<1>2. \A pc \in PublishPC : Step(i, pc) => tasks'[i].st = "active" /\ tasks'[i].pc = pc
  BY StepTask
<1>3. {"mark", "load", "abort", "lock", "farm", "call", "busy", "unlockFarm", "unlockPhone",
       "record", "account", "swallow", "catch", "throw", "giveUp", "claim", "count", "complete",
       "finish"} \subseteq PublishPC
  BY DEF PublishPC, SettlePC
<1>4. (Return(i) \/ Throw(i)) => tasks'[i].st # "active"
  BY ReturnTask, ThrowTask
<1>5. At(i, "complete")' => published' + failed' >= N
  <2>1. CASE PublishStart(i) \/ PublishMark(i) \/ PublishLoad(i) \/ PublishAbort(i) \/ LockPhone(i)
             \/ LockFarm(i) \/ CallPosted(i) \/ UnlockFarm(i)
    BY <1>2, <1>3, <1>4, <2>1 DEF PublishStart, PublishMark, PublishLoad, PublishAbort, LockPhone,
       LockFarm, CallPosted, Answered, UnlockFarm, At
  <2>2. CASE UnlockPhone(i)
    <3>1. \E pc \in {"record", "busy", "catch"} : Step(i, pc)
      BY <2>2, Constants DEF UnlockPhone
    <3> QED BY <1>2, <1>3, <3>1 DEF At
  <2>3. CASE PublishBusy(i) \/ PublishFinish(i)
    <3>1. tasks \in Jobs(Items, PublishPC, PublishAttempts)
      BY DEF TypeOK, Jobs
    <3>2. FailForGood(tasks, i)[i].st = "failed"
      BY <3>1, Constants, FailForGoodJob
    <3>3. PublishBusy(i) => tasks'[i].st # "active"
      BY DEF PublishBusy, TypeOK, QueueJob
    <3>4. PublishFinish(i) => tasks'[i].st # "active"
      BY <1>4, <3>2 DEF PublishFinish
    <3> QED BY <2>3, <3>3, <3>4 DEF At
  <2>4. CASE PublishRecord(i) \/ PublishAccount(i) \/ PublishSwallow(i) \/ PublishCatch(i)
             \/ PublishThrow(i) \/ PublishGiveUp(i)
    BY <1>2, <1>3, <1>4, <2>4 DEF PublishRecord, PublishAccount, PublishSwallow, PublishCatch,
       PublishThrow, PublishGiveUp, At
  <2>5. CASE PublishFault(i)
    BY <1>2, <1>3, <1>4, <2>5 DEF PublishFault, CallRefused, CallUnknown, Answered, PublishThrowsOut,
       PublishThrowsIn, PublishThrowsAfter, PublishIgnores, At
  <2>6. CASE PublishSettle(i)
    <3>1. ASSUME NEW claimed \in BOOLEAN, Step(i, IF claimed THEN "count" ELSE "finish")
          PROVE  ~At(i, "complete")'
      BY <1>2, <1>3, <3>1 DEF At
    <3>2. ASSUME NEW reached \in BOOLEAN, CountUp(SettledAs(i), reached),
                 Step(i, IF reached THEN "complete" ELSE "finish")
          PROVE  At(i, "complete")' => published' + failed' >= N
      BY <1>2, <1>3, <3>2 DEF At, CountUp
    <3>3. Step(i, "finish") => ~At(i, "complete")'
      BY <1>2, <1>3 DEF At
    <3> QED BY <2>6, <3>1, <3>2, <3>3 DEF PublishSettle
  <2> QED BY <2>1, <2>2, <2>3, <2>4, <2>5, <2>6 DEF PublishStep
<1>6. \A l \in listeners' : l.at = "complete" => l \in listeners
  BY <1>1 DEF Listening, Listen
<1>7. CompletingStep
  BY <1>1, <1>5, <1>6 DEF CompletingStep, Completing, OnlyTask, At
<1>8. dist' = "completed" => dist = "completed" \/ Completing
  <2>1. CASE PublishSettle(i)
    BY <2>1 DEF PublishSettle, Completing
  <2>2. CASE ~PublishSettle(i)
    BY <2>2, FaultFrame DEF PublishStep, PublishStart, PublishMark, PublishLoad, PublishAbort, LockPhone,
       LockFarm, PublishBusy, CallPosted, Answered, UnlockFarm, UnlockPhone, PublishRecord, PublishAccount,
       PublishSwallow, PublishCatch, PublishThrow, PublishGiveUp, PublishFinish
  <2> QED BY <2>1, <2>2
<1>9. item[i] = "skipped" => item'[i] = "skipped"
  BY WorkerSettles DEF SettlingStep, ItemOpen
<1> QED BY <1>1, <1>7, <1>8, <1>9 DEF DistKept, Others

LEMMA ListenerCompletes ==
  ASSUME TypeOK, ListenerStep
  PROVE  CompletingStep /\ DistKept
<1> USE DEF rows, locks, history, used
<1>1. PICK l \in listeners : ListenerStep!(l)
  BY DEF ListenerStep
<1>2. l \in [i : Items, at : SettlePC] /\ l.i \in Items
  BY DEF TypeOK
<1> DEFINE moved(pc) == [l EXCEPT !.at = pc]
<1>3. \A pc \in SettlePC : moved(pc).at = pc
  BY <1>2
<1>4. UNCHANGED <<tasks, distTask, loop>>
  BY <1>1
<1>5. \A i \in Items : item[i] = "skipped" => item'[i] = "skipped"
  BY <1>1, <1>2 DEF Claim, TypeOK, ItemOpen
<1>6. dist' = "completed" => dist = "completed" \/ Completing
  BY <1>1 DEF Completing
<1>7. \/ \E pc \in SettlePC \ {"complete"} : listeners' \subseteq listeners \cup {moved(pc)}
      \/ listeners' \subseteq listeners \cup {moved("complete")} /\ published' + failed' >= N
  <2>1. ASSUME NEW reached \in BOOLEAN, CountUp("failed", reached),
               listeners' = IF reached THEN (listeners \ {l}) \cup {moved("complete")} ELSE listeners \ {l}
        PROVE  \/ listeners' \subseteq listeners
               \/ listeners' \subseteq listeners \cup {moved("complete")} /\ published' + failed' >= N
    BY <2>1 DEF CountUp
  <2>2. "claim" \in SettlePC \ {"complete"} /\ "count" \in SettlePC \ {"complete"}
    BY DEF SettlePC
  <2>3. \/ listeners' = (listeners \ {l}) \cup {moved("claim")}
        \/ listeners' = (listeners \ {l}) \cup {moved("count")}
        \/ listeners' = listeners \ {l}
        \/ \E reached \in BOOLEAN :
             /\ CountUp("failed", reached)
             /\ listeners' = IF reached THEN (listeners \ {l}) \cup {moved("complete")} ELSE listeners \ {l}
    BY <1>1
  <2> HIDE DEF moved
  <2> QED BY <2>1, <2>2, <2>3
<1>8. CompletingStep
  <2> HIDE DEF moved
  <2>1. "complete" \in SettlePC
    BY DEF SettlePC
  <2> QED BY <1>3, <1>4, <1>7, <2>1 DEF CompletingStep, Completing, At
<1> QED BY <1>4, <1>5, <1>6, <1>8 DEF DistKept

LEMMA RestCompletes ==
  ASSUME TypeOK,
         \/ EnqueueDistribution \/ CancelRead \/ CancelStep
         \/ ListenerFails \/ LockExpires \/ OrchestratorDies \/ UNCHANGED vars
  PROVE  CompletingStep /\ DistKept
<1> USE DEF rows, worker, locks, history, used
<1>1. CASE EnqueueDistribution \/ CancelRead \/ CancelStep \/ ListenerFails \/ LockExpires
           \/ UNCHANGED vars
  <2>1. UNCHANGED <<tasks, loop>> /\ listeners' \subseteq listeners /\ (dist' = dist \/ dist' = "cancelled")
    BY <1>1 DEF EnqueueDistribution, CancelRead, CancelStep, CancelDist, CancelItems, ListenerFails,
       LockExpires, vars
  <2>2. distTask' = distTask \/ (distTask.st = "absent" /\ distTask'.st = "waiting")
    BY <1>1 DEF EnqueueDistribution, CancelRead, CancelStep, CancelDist, CancelItems, ListenerFails,
       LockExpires, vars, NewJob, NoJob
  <2>3. \A i \in Items : item[i] = "skipped" => item'[i] = "skipped"
    BY <1>1 DEF EnqueueDistribution, CancelRead, CancelStep, CancelDist, CancelItems, ListenerFails,
       LockExpires, vars, TypeOK
  <2> QED BY <2>1, <2>2, <2>3 DEF CompletingStep, Completing, At, DistKept
<1>2. CASE OrchestratorDies
  <2>1. tasks \in Jobs(Items, PublishPC, PublishAttempts)
    BY DEF TypeOK, Jobs
  <2>2. \A i \in Items : tasks'[i].st # "active"
    BY <1>2, <2>1, Constants, StallJobs DEF OrchestratorDies
  <2>3. \A l \in listeners' : l.at # "complete"
    BY <1>2 DEF OrchestratorDies
  <2>4. /\ distTask'.st = "active" => distTask.st = "active"
        /\ distTask.st = "completed" => distTask'.st = "completed"
    BY <1>2 DEF OrchestratorDies, Stall, TypeOK, QueueJob, StallAgain
  <2> QED BY <1>2, <2>2, <2>3, <2>4 DEF OrchestratorDies, CompletingStep, Completing, At, DistKept
<1> QED BY <1>1, <1>2

LEMMA DispatchSkips ==
  ASSUME TypeOK, Recorded, PassedSkips, DistStep \/ DistFails
  PROVE  PassedSkips'
<1> USE DEF rows, worker, locks, history, used
<1>1. /\ loop.at \in Nat /\ loop.skipped \in Nat /\ Items \subseteq Nat
      /\ loop.at <= N => loop.at \in Items
  BY Constants DEF TypeOK, Items
<1>2. Passed \in SUBSET Items /\ IsFiniteSet(Passed) /\ Cardinality(Passed) \in Nat
  BY ItemSubset DEF Passed
<1>3. ASSUME Passed \subseteq Passed', loop'.skipped = loop.skipped
      PROVE  loop.skipped <= Cardinality(Passed) => loop'.skipped <= Cardinality(Passed')
  <2>1. Passed' \in SUBSET Items /\ Passed \in SUBSET Passed'
    BY <1>3 DEF Passed, Items
  <2>2. Cardinality(Passed') \in Nat /\ Cardinality(Passed) <= Cardinality(Passed')
    BY <2>1, ItemSubset
  <2> QED BY <1>1, <1>2, <1>3, <2>2
<1>4. ASSUME Passed \subseteq Passed', loop.at \in Passed', loop'.skipped = loop.skipped + 1
      PROVE  loop.skipped <= Cardinality(Passed) => loop'.skipped <= Cardinality(Passed')
  <2>1. loop.at \notin Passed
    BY <1>1 DEF Passed
  <2>2. Passed' \in SUBSET Items /\ Passed \cup {loop.at} \in SUBSET Passed'
    BY <1>4 DEF Passed, Items
  <2>3. Cardinality(Passed \cup {loop.at}) = Cardinality(Passed) + 1
    BY <1>2, <2>1, FS_AddElement
  <2>4. Cardinality(Passed') \in Nat /\ Cardinality(Passed \cup {loop.at}) <= Cardinality(Passed')
    BY <2>2, ItemSubset
  <2> QED BY <1>1, <1>2, <1>4, <2>3, <2>4
<1>5. ASSUME loop'.at = loop.at + 1
      PROVE  loop.at < loop'.at /\ \A i \in Items : i < loop.at => i < loop'.at
  <2>1. \A i \in Items : i \in Nat
    BY <1>1
  <2> QED BY <1>1, <1>5, <2>1
<1>6. CASE DistStart
  <2>1. CASE dist = "cancelled"
    BY <1>6, <2>1 DEF DistStart, PassedSkips, TypeOK, QueueJob
  <2>2. CASE dist # "cancelled"
    <3>1. loop' = [NoLoop EXCEPT !.seen = item] /\ item' = item
      BY <1>6, <2>2 DEF DistStart
    <3>2. loop'.skipped = 0 /\ loop'.seen = item
      BY <3>1 DEF NoLoop
    <3>3. Passed' \in SUBSET Items
      BY DEF Passed, Items
    <3>4. Cardinality(Passed') \in Nat
      BY <3>3, ItemSubset
    <3> QED BY <3>1, <3>2, <3>4 DEF PassedSkips
  <2> QED BY <2>1, <2>2
<1>7. CASE DistMark \/ DistCreate
  <2>1. distTask.st = "active" /\ UNCHANGED <<item, loop>>
    BY <1>7 DEF DistMark, DistCreate, DistAt
  <2> QED BY <2>1 DEF PassedSkips, Passed
<1>8. CASE DistPass
  <2>1. distTask.st = "active" /\ item' = item /\ loop.at \in Items
    BY <1>1, <1>8 DEF DistPass, DistAt
  <2>2. loop' = [loop EXCEPT !.at = @ + 1, !.skipped = IF Current = "skipped" THEN @ + 1 ELSE @]
    BY <1>8 DEF DistPass
  <2>3. /\ loop'.seen = loop.seen /\ loop'.at = loop.at + 1
        /\ loop'.skipped = IF Current = "skipped" THEN loop.skipped + 1 ELSE loop.skipped
    BY <2>2 DEF TypeOK
  <2>4. Passed \subseteq Passed'
    BY <1>5, <2>1, <2>3 DEF Passed
  <2>5. Current = "skipped" => loop.at \in Passed'
    BY <1>5, <2>1, <2>3 DEF PassedSkips, Passed, Current
  <2>6. loop'.skipped <= Cardinality(Passed')
    BY <1>3, <1>4, <2>1, <2>3, <2>4, <2>5 DEF PassedSkips
  <2> QED BY <2>1, <2>3, <2>6 DEF PassedSkips
<1>9. CASE DistSkip
  <2>1. /\ distTask.st = "active" /\ loop.at \in Items
        /\ item' = [item EXCEPT ![loop.at] = "skipped"]
        /\ loop' = [loop EXCEPT !.at = @ + 1, !.skipped = @ + 1]
    BY <1>1, <1>9 DEF DistSkip, DistAt
  <2>2. loop'.seen = loop.seen /\ loop'.at = loop.at + 1 /\ loop'.skipped = loop.skipped + 1
    BY <2>1 DEF TypeOK
  <2>3. \A i \in Items : item'[i] = IF i = loop.at THEN "skipped" ELSE item[i]
    BY <2>1 DEF TypeOK
  <2>4. Passed \subseteq Passed' /\ loop.at \in Passed'
    BY <1>5, <2>1, <2>2, <2>3 DEF Passed
  <2>5. loop'.skipped <= Cardinality(Passed')
    BY <1>4, <2>1, <2>2, <2>4 DEF PassedSkips
  <2> QED BY <2>1, <2>2, <2>3, <2>5 DEF PassedSkips
<1>10. CASE DistLink
  <2>1. /\ distTask.st = "active" /\ loop' = loop /\ loop.at \in Items /\ loop.seen[loop.at] = "pending"
        /\ item' = [item EXCEPT ![loop.at] = "scheduled"]
    BY <1>10 DEF DistLink, DistAt, Recorded, Current
  <2>2. \A i \in Items : i # loop.at => item'[i] = item[i]
    BY <2>1 DEF TypeOK
  <2>3. Passed \subseteq Passed'
    BY <1>1, <2>1, <2>2 DEF Passed
  <2>4. loop'.skipped <= Cardinality(Passed')
    BY <1>3, <2>1, <2>3 DEF PassedSkips
  <2> QED BY <2>1, <2>2, <2>4 DEF PassedSkips
<1>11. CASE DistEnqueue
  <2>1. distTask.st = "active" /\ item' = item /\ loop' = [loop EXCEPT !.at = @ + 1, !.newly = TRUE]
    BY <1>11 DEF DistEnqueue, DistAt
  <2>2. loop'.seen = loop.seen /\ loop'.at = loop.at + 1 /\ loop'.skipped = loop.skipped
    BY <2>1 DEF TypeOK
  <2>3. Passed \subseteq Passed'
    BY <1>5, <2>1, <2>2 DEF Passed
  <2>4. loop'.skipped <= Cardinality(Passed')
    BY <1>3, <2>1, <2>2, <2>3 DEF PassedSkips
  <2> QED BY <2>1, <2>2, <2>4 DEF PassedSkips
<1>12. CASE DistFinish
  <2>1. distTask'.st = "completed"
    BY <1>12 DEF DistFinish, TypeOK, QueueJob
  <2> QED BY <2>1 DEF PassedSkips
<1>13. CASE DistFails
  <2> DEFINE jobs == [d \in {0} |-> distTask]
  <2>1. jobs \in Jobs({0}, DistPC, DistAttempts)
    BY DEF Jobs, TypeOK
  <2> HIDE DEF jobs
  <2>2. FailAttempt(jobs, 0, DistAttempts)[0].st \in {"waiting", "failed"}
    BY <2>1, Constants, FailAttemptJob
  <2>3. distTask'.st # "active"
    BY <1>13, <2>2 DEF DistFails, jobs
  <2> QED BY <2>3 DEF PassedSkips
<1> QED BY <1>6, <1>7, <1>8, <1>9, <1>10, <1>11, <1>12, <1>13 DEF DistStep

(* The dispatch completes only a distribution of which it passed every item *)
(* as skipped.                                                              *)
LEMMA DispatchFinishes ==
  ASSUME TypeOK, PassedSkips, DistStep \/ DistFails
  PROVE  /\ distTask.st # "completed"
         /\ dist' = "completed" => dist = "completed"
              \/ (distTask'.st = "completed" /\ item' = item /\ Settled({"skipped"}))
<1> USE DEF rows, worker, locks, history, used
<1>1. distTask.st # "completed"
  BY DEF DistStep, DistStart, DistMark, DistPass, DistSkip, DistCreate, DistLink, DistEnqueue,
     DistFinish, DistFails, DistAt, IsOpen
<1>2. CASE DistFinish
  <2> SUFFICES ASSUME dist # "completed", dist' = "completed"
               PROVE  distTask'.st = "completed" /\ item' = item /\ Settled({"skipped"})
    BY <1>1
  <2>1. distTask'.st = "completed" /\ item' = item /\ loop.skipped = N /\ distTask.st = "active"
    BY <1>2 DEF DistFinish, DistAt, TypeOK, QueueJob
  <2>2. Passed \in SUBSET Items /\ Items \in SUBSET Items
    BY DEF Passed
  <2>3. IsFiniteSet(Items) /\ Cardinality(Passed) <= N /\ Cardinality(Passed) \in Nat
    BY <2>2, FiniteItems, ItemSubset
  <2>4. Cardinality(Items) = Cardinality(Passed)
    BY <2>1, <2>3, Constants, FiniteItems DEF PassedSkips, TypeOK
  <2>5. Items = Passed
    BY <2>2, <2>3, <2>4, FS_Subset
  <2> QED BY <2>1, <2>5 DEF Passed, Settled
<1>3. CASE ~DistFinish
  BY <1>1, <1>3 DEF DistStep, DistStart, DistMark, DistPass, DistSkip, DistCreate, DistLink,
     DistEnqueue, DistFails
<1> QED BY <1>1, <1>2, <1>3

(* All are counted, so all are settled.                                     *)
LEMMA AllCounted ==
  ASSUME TypeOK, Counters, published + failed >= N PROVE Settled(Closed)
<1> DEFINE P == Counted("published")
           F == Counted("failed")
<1>1. P \in SUBSET Items /\ F \in SUBSET Items /\ P \cap F = {} /\ P \cup F \in SUBSET Items
  BY DEF Counted
<1>2. \A i \in P \cup F : item[i] \in Closed
  BY DEF Counted, Closed
<1>3. published <= Cardinality(P) /\ failed <= Cardinality(F) /\ published \in Nat /\ failed \in Nat
  BY DEF Counters, TypeOK
<1> HIDE DEF P, F
<1>4. IsFiniteSet(P) /\ IsFiniteSet(F) /\ Cardinality(P) \in Nat /\ Cardinality(F) \in Nat
  BY <1>1, ItemSubset
<1>5. Cardinality(P \cup F) = Cardinality(P) + Cardinality(F)
  <2>1. Cardinality(P \cup F) = Cardinality(P) + Cardinality(F) - Cardinality(P \cap F)
    BY <1>4, FS_Union
  <2>2. Cardinality(P \cap F) = 0
    BY <1>1, FS_EmptySet
  <2> QED BY <1>4, <2>1, <2>2
<1>6. Cardinality(P \cup F) <= N
  BY <1>1, FiniteItems, FS_Subset
<1>7. Cardinality(Items) = Cardinality(P \cup F)
  BY <1>3, <1>4, <1>5, <1>6, Constants, FiniteItems
<1>8. Items = P \cup F
  BY <1>1, <1>7, FiniteItems, FS_Subset
<1> QED BY <1>2, <1>8 DEF Settled

LEMMA NextFinished ==
  ASSUME IInv, TypeOK', Once, Counters, Counters', Finished, [Next]_vars
  PROVE  Finished'
<1> USE DEF IInv
<1>1. \A i \in Items : item[i] \in Closed => item'[i] = item[i]
  BY NextCounts, StepKeepsCounted DEF Counters
<1>2. Settled(Closed) => Settled(Closed)'
  BY <1>1 DEF Settled, Items
<1>3. CASE DistStep \/ DistFails
  <2>1. DispatchFrame
    BY <1>3, DispatchKeeps
  <2>2. Completing' => Completing
    BY <2>1 DEF Completing, DispatchFrame, At
  <2>3. PassedSkips'
    BY <1>3, DispatchSkips DEF Finished
  <2>4. /\ distTask.st # "completed"
        /\ dist' = "completed" => dist = "completed"
             \/ (distTask'.st = "completed" /\ item' = item /\ Settled({"skipped"}))
    BY <1>3, DispatchFinishes DEF Finished
  <2>5. item' = item /\ Settled({"skipped"}) => Settled({"skipped"})'
    BY DEF Settled, Items
  <2> QED BY <1>2, <2>2, <2>3, <2>4, <2>5 DEF Finished
<1>4. ASSUME CompletingStep, DistKept PROVE Finished'
  <2>1. published' + failed' >= N => Settled(Closed)'
    <3>1. (TypeOK /\ Counters /\ published + failed >= N => Settled(Closed))'
      BY AllCounted, PTL
    <3> QED BY <3>1
  <2>2. Completing' => Settled(Closed)'
    BY <1>2, <1>4, <2>1 DEF CompletingStep, Finished
  <2>3. Passed' \in SUBSET Items /\ Passed \in SUBSET Passed'
    BY <1>4 DEF DistKept, Passed, Items
  <2>4. /\ Cardinality(Passed) \in Nat /\ Cardinality(Passed') \in Nat
        /\ Cardinality(Passed) <= Cardinality(Passed')
    BY <2>3, ItemSubset
  <2>5. loop.skipped \in Nat
    BY DEF TypeOK
  <2>6. PassedSkips'
    BY <1>4, <2>4, <2>5 DEF Finished, PassedSkips, DistKept
  <2>7. Settled({"skipped"}) => Settled({"skipped"})'
    BY <1>4 DEF DistKept, Settled, Items
  <2>8. dist' = "completed" =>
          Settled(Closed)' \/ (distTask'.st = "completed" /\ Settled({"skipped"})')
    BY <1>2, <1>4, <2>7 DEF DistKept, Finished
  <2> QED BY <2>2, <2>6, <2>8 DEF Finished
<1>5. CASE \E i \in Items : PublishStep(i) \/ PublishFault(i)
  BY <1>4, <1>5, WorkerCompletes
<1>6. CASE ListenerStep
  BY <1>4, <1>6, ListenerCompletes
<1> QED BY <1>3, <1>4, <1>5, <1>6, RestCompletes DEF Next

LEMMA InitFinished == Init => Finished
BY DEF Init, Finished, Completing, PassedSkips, At, NoJob

LEMMA FinishedAlways == Spec => []Finished
<1>1. IInv /\ TypeOK' /\ Once /\ Counters /\ Counters' /\ Finished /\ [Next]_vars => Finished'
  BY NextFinished
<1> QED BY <1>1, InitFinished, OnceAlways, CountersAlways, Invariant, TypeCorrect, PTL DEF Spec

(* Neither the last count nor the shortcut of the dispatch completes a      *)
(* distribution while one of its items may still be published.              *)
THEOREM DoneWhenCompleted == Spec => []CompletedIsDone
<1>1. Finished => CompletedIsDone
  BY DEF Finished, Settled, Closed, CompletedIsDone, ItemOpen
<1> QED BY <1>1, FinishedAlways, PTL
=============================================================================
