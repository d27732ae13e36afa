------------------------------ MODULE JobQueue ------------------------------
(***************************************************************************)
(* What the workers rely on from BullMQ, as operators on a function from   *)
(* job ids to queue jobs, and the enqueue helper of packages/queue.        *)
(*                                                                         *)
(* A queue job is waiting, active (one worker runs it), completed or       *)
(* failed; "absent" means that no job with this id exists.  Finished jobs  *)
(* are retained (removeOnComplete, removeOnFail), so their id stays taken. *)
(* While a job is active, pc is the await its handler has reached and      *)
(* resumed a local variable of the provider workers.                       *)
(***************************************************************************)
EXTENDS Naturals

States == {"absent", "waiting", "active", "completed", "failed"}

QueueJob(pcs, maxAttempts) ==
  [st : States, att : 0..(maxAttempts - 1), stalls : 0..1, pc : pcs, resumed : BOOLEAN]

NoJob == [st |-> "absent", att |-> 0, stalls |-> 0, pc |-> "start", resumed |-> FALSE]

NewJob == [NoJob EXCEPT !.st = "waiting"]

IsOpen(j) == j.st \in {"waiting", "active"}

(* queue.add: silently ignored when a job with this id still exists. *)
Add(jobs, ids) ==
  [id \in DOMAIN jobs |-> IF id \in ids /\ jobs[id].st = "absent" THEN NewJob ELSE jobs[id]]

(* addOrReplace: a finished job with this id makes room for the new one. *)
AddOrReplace(jobs, ids) ==
  [id \in DOMAIN jobs |-> IF id \in ids /\ ~IsOpen(jobs[id]) THEN NewJob ELSE jobs[id]]

Goto(jobs, id, pc) ==
  [jobs EXCEPT ![id] = [@ EXCEPT !.st = "active", !.pc = pc]]

Complete(jobs, id) ==
  [jobs EXCEPT ![id] = [@ EXCEPT !.st = "completed", !.pc = "start", !.resumed = FALSE]]

(* job.remove() *)
Remove(jobs, id) == [jobs EXCEPT ![id] = NoJob]

(* Mutant: one attempt too many. *)
IsLastAttemptMutant(j, attempts) == j.att + 1 > attempts

IsLastAttempt(j, attempts) == j.att + 1 >= attempts

(* The handler threw: the job waits for its next attempt, or has failed for *)
(* good (finishedOn is set) when it was the last one.                       *)
FailForGood(jobs, id) ==
  [jobs EXCEPT ![id] = [@ EXCEPT !.st = "failed", !.pc = "start", !.resumed = FALSE]]

FailAttempt(jobs, id, attempts) ==
  IF IsLastAttempt(jobs[id], attempts) THEN FailForGood(jobs, id)
  ELSE [jobs EXCEPT ![id] = [@ EXCEPT !.st = "waiting", !.att = jobs[id].att + 1,
                                      !.pc = "start", !.resumed = FALSE]]

(* The worker process died: an active job is given to another worker once,  *)
(* a job that stalls again fails for good (maxStalledCount = 1).            *)
StallAgain(j) == j.st = "active" /\ j.stalls = 1

Stall(jobs) ==
  [id \in DOMAIN jobs |->
     IF jobs[id].st # "active" THEN jobs[id]
     ELSE [jobs[id] EXCEPT !.st = IF StallAgain(jobs[id]) THEN "failed" ELSE "waiting",
                           !.stalls = 1, !.pc = "start", !.resumed = FALSE]]
=============================================================================
