--------------------------- MODULE JobQueueProofs ---------------------------
(***************************************************************************)
(* What the queue operators do to a function of queue jobs: they keep its  *)
(* type and touch the jobs they name only.  PublishingProofs,              *)
(* AutopilotProofs and VideoPipelineProofs cite these lemmas.              *)
(***************************************************************************)
EXTENDS JobQueue, TLAPS

Jobs(S, pcs, attempts) == [S -> QueueJob(pcs, attempts)]

LEMMA GotoJob ==
  ASSUME NEW S, NEW pcs, NEW A \in Nat \ {0}, NEW jobs \in Jobs(S, pcs, A), NEW id \in S,
         NEW pc \in pcs
  PROVE  /\ Goto(jobs, id, pc) \in Jobs(S, pcs, A)
         /\ Goto(jobs, id, pc)[id].st = "active" /\ Goto(jobs, id, pc)[id].pc = pc
         /\ \A x \in S : x # id => Goto(jobs, id, pc)[x] = jobs[x]
BY DEF Jobs, QueueJob, Goto, States

LEMMA CompleteJob ==
  ASSUME NEW S, NEW pcs, NEW A \in Nat \ {0}, NEW jobs \in Jobs(S, pcs, A), NEW id \in S,
         "start" \in pcs
  PROVE  /\ Complete(jobs, id) \in Jobs(S, pcs, A)
         /\ Complete(jobs, id)[id].st = "completed"
         /\ \A x \in S : x # id => Complete(jobs, id)[x] = jobs[x]
BY DEF Jobs, QueueJob, Complete, States

LEMMA FailForGoodJob ==
  ASSUME NEW S, NEW pcs, NEW A \in Nat \ {0}, NEW jobs \in Jobs(S, pcs, A), NEW id \in S,
         "start" \in pcs
  PROVE  /\ FailForGood(jobs, id) \in Jobs(S, pcs, A)
         /\ FailForGood(jobs, id)[id].st = "failed"
         /\ \A x \in S : x # id => FailForGood(jobs, id)[x] = jobs[x]
BY DEF Jobs, QueueJob, FailForGood, States

LEMMA FailAttemptJob ==
  ASSUME NEW S, NEW pcs, NEW A \in Nat \ {0}, NEW jobs \in Jobs(S, pcs, A), NEW id \in S,
         "start" \in pcs
  PROVE  /\ FailAttempt(jobs, id, A) \in Jobs(S, pcs, A)
         /\ FailAttempt(jobs, id, A)[id].st \in {"waiting", "failed"}
         /\ \A x \in S : x # id => FailAttempt(jobs, id, A)[x] = jobs[x]
<1>1. CASE IsLastAttempt(jobs[id], A)
  BY <1>1, FailForGoodJob DEF FailAttempt
<1>2. CASE ~IsLastAttempt(jobs[id], A)
  <2> DEFINE new == [jobs[id] EXCEPT !.st = "waiting", !.att = jobs[id].att + 1, !.pc = "start",
                                     !.resumed = FALSE]
  <2>1. jobs[id] \in QueueJob(pcs, A)
    BY DEF Jobs
  <2>2. jobs[id].att + 1 \in 0..(A - 1)
    BY <2>1, <1>2 DEF QueueJob, IsLastAttempt
  <2>3. new \in QueueJob(pcs, A) /\ new.st = "waiting"
    BY <2>1, <2>2 DEF QueueJob, States
  <2>4. FailAttempt(jobs, id, A) = [jobs EXCEPT ![id] = new]
    BY <1>2 DEF FailAttempt
  <2> HIDE DEF new
  <2> QED BY <2>3, <2>4 DEF Jobs
<1> QED BY <1>1, <1>2

LEMMA NewJobs ==
  ASSUME NEW pcs, NEW A \in Nat \ {0}, "start" \in pcs
  PROVE  NoJob \in QueueJob(pcs, A) /\ NewJob \in QueueJob(pcs, A) /\ NewJob.st = "waiting"
<1>1. 0 \in 0..(A - 1)
  OBVIOUS
<1>2. NoJob \in QueueJob(pcs, A)
  BY <1>1 DEF NoJob, QueueJob, States
<1> QED BY <1>2 DEF NewJob, QueueJob, States

LEMMA AddJob ==
  ASSUME NEW S, NEW pcs, NEW A \in Nat \ {0}, NEW jobs \in Jobs(S, pcs, A), NEW ids,
         "start" \in pcs
  PROVE  /\ Add(jobs, ids) \in Jobs(S, pcs, A)
         /\ \A x \in S : /\ x \notin ids => Add(jobs, ids)[x] = jobs[x]
                         /\ jobs[x].st # "absent" => Add(jobs, ids)[x] = jobs[x]
                         /\ Add(jobs, ids)[x].st = "active" => Add(jobs, ids)[x] = jobs[x]
<1> QED BY NewJobs DEF Jobs, Add

LEMMA StallJobs ==
  ASSUME NEW S, NEW pcs, NEW A \in Nat \ {0}, NEW jobs \in Jobs(S, pcs, A),
         "start" \in pcs
  PROVE  /\ Stall(jobs) \in Jobs(S, pcs, A)
         /\ \A x \in S : /\ Stall(jobs)[x].st # "active"
                         /\ Stall(jobs)[x].st = "absent" <=> jobs[x].st = "absent"
<1> DEFINE new(x) == [jobs[x] EXCEPT !.st = IF StallAgain(jobs[x]) THEN "failed" ELSE "waiting",
                                     !.stalls = 1, !.pc = "start", !.resumed = FALSE]
<1>1. ASSUME NEW x \in S
      PROVE  /\ jobs[x] \in QueueJob(pcs, A)
             /\ new(x) \in QueueJob(pcs, A) /\ new(x).st \in {"failed", "waiting"}
  <2>1. jobs[x] \in QueueJob(pcs, A)
    BY DEF Jobs
  <2>2. 1 \in 0..1 /\ FALSE \in BOOLEAN
    OBVIOUS
  <2> QED BY <2>1, <2>2 DEF QueueJob, States
<1>2. Stall(jobs) = [x \in S |-> IF jobs[x].st # "active" THEN jobs[x] ELSE new(x)]
  BY DEF Stall, Jobs
<1> HIDE DEF new
<1> QED BY <1>1, <1>2 DEF Jobs
=============================================================================
