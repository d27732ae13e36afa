------------------------------ MODULE Uniquify ------------------------------
(***************************************************************************)
(* One uniquification job: the analysis creates the rows of its variants   *)
(* and hands one render of each to the queue (uniquify-analyze.worker.ts), *)
(* renders report to the state worker, which recounts the rows and ends    *)
(* the job (uniquify-render, uniquify-state), the scheduler's reconciler   *)
(* ends what a lost report has left open, and a user cancels the job or    *)
(* retries its failed variants (uniquify.routes.ts).                       *)
(*                                                                         *)
(* A handler is one action per await that another one can observe.         *)
(***************************************************************************)
EXTENDS JobQueue, Integers, FiniteSets

CONSTANTS
  N,             \* variantCount
  MaxRows,       \* bound: rows created by all runs of the analysis
  RenderWorkers, \* renders at a time, over all processes
  StateWorkers,  \* recounts at a time
  AnalyzeAttempts, RenderAttempts,
  MaxFaults, MaxCrashes, MaxRequests  \* bounds: failures and crashes, crashes, requests of the user

ASSUME UniquifyAssumption ==
  /\ N \in Nat \ {0}
  /\ MaxRows \in Nat /\ {RenderWorkers, StateWorkers} \subseteq Nat \ {0}
  /\ AnalyzeAttempts \in Nat \ {0} /\ RenderAttempts \in Nat \ {0}
  /\ {MaxFaults, MaxCrashes, MaxRequests} \subseteq Nat

Rows == 1..MaxRows

\* Queue jobs: the analysis, and the renders of each row (one more for each retry).
Analysis == <<0, 1>>
Renders  == Rows \X (1..(MaxRequests + 1))
Task     == {Analysis} \union Renders

VARIABLES
  job,        \* UniquifyJob: status, completedCount, failedCount
  variant,    \* status of each UniqueVariant row; "none" before, "deleted" after
  tasks,      \* the queue jobs
  fan,        \* rows the present run of the analysis has created
  events,     \* state jobs that wait
  counted,    \* what each state worker has read
  reconciler, \* what the scheduler's reconciler has read
  cancelling, \* a cancel has read the job
  retrying,   \* where POST retry-failed is, and the failed variants it has read
  stranded,   \* history: rows that were given up, and 0 for the analysis: the last attempt
              \* has failed where its handler does not say so, or has stalled, which nobody
              \* listens to; the render (or the analysis) has found the job cancelled; a retry
              \* has reset the row and does not know of it, or the analysis has dropped it
              \* meanwhile
  left        \* bounds: faults, crashes and requests that may still happen

api  == <<cancelling, retrying, stranded>>
vars == <<job, variant, tasks, fan, events, counted, reconciler, api, left>>

Ended == {"completed", "failed", "cancelled"}

Live      == {v \in Rows : variant[v] \notin {"none", "deleted"}}
With(s)   == {v \in Rows : variant[v] = s}
Unfinished == With("pending") \union With("rendering")
Completed == Cardinality(With("completed"))
Failed    == Cardinality(With("failed"))

\* Not reading anything: the counts are those of the rows, open is what the guard has seen.
Idle == [busy |-> FALSE, completed |-> 0, failed |-> 0, open |-> FALSE]
Read == [busy |-> TRUE, completed |-> Completed, failed |-> Failed, open |-> job.status \notin Ended]

Reading == [busy : BOOLEAN, completed : 0..MaxRows, failed : 0..MaxRows, open : BOOLEAN]

Places == {"start", "checked", "analyzing", "generating", "creating",
           "rendering", "saved", "failed"}

TypeOK ==
  /\ job.status \in Ended \union {"pending", "analyzing", "generating"}
  /\ job.completed \in Nat /\ job.failed \in Int
  /\ variant \in [Rows -> {"none", "pending", "rendering", "completed", "failed", "deleted"}]
  /\ DOMAIN tasks = Task
  /\ tasks[Analysis] \in QueueJob(Places, AnalyzeAttempts)
  /\ \A r \in Renders : tasks[r] \in QueueJob(Places, RenderAttempts)
  /\ fan \subseteq Rows
  /\ events \in Nat
  /\ counted \in [1..StateWorkers -> Reading]
  /\ reconciler \in Reading
  /\ cancelling \in BOOLEAN
  /\ retrying.at \in {"idle", "read", "reset", "marked"} /\ retrying.rows \subseteq Rows
  /\ stranded \subseteq Rows \union {0}

\* POST /uniquify-jobs: the row is created and its analysis enqueued.
Init ==
  /\ job = [status |-> "pending", completed |-> 0, failed |-> 0]
  /\ variant = [v \in Rows |-> "none"]
  /\ tasks = [t \in Task |-> IF t = Analysis THEN NewJob ELSE NoJob]
  /\ fan = {}
  /\ events = 0
  /\ counted = [w \in 1..StateWorkers |-> Idle]
  /\ reconciler = Idle
  /\ cancelling = FALSE
  /\ retrying = [at |-> "idle", rows |-> {}]
  /\ stranded = {}
  /\ left = [faults |-> MaxFaults, crashes |-> MaxCrashes, requests |-> MaxRequests]

At(t, pc) == tasks[t].st = "active" /\ tasks[t].pc = pc

Use(bound) ==
  /\ left[bound] > 0
  /\ left' = [left EXCEPT ![bound] = left[bound] - 1]

\* A crash, or a reply that is lost, is a fault, too.
UseCrash ==
  /\ left.crashes > 0 /\ left.faults > 0
  /\ left' = [left EXCEPT !.crashes = left.crashes - 1, !.faults = left.faults - 1]

SetStatus(s) == job' = [job EXCEPT !.status = s]
SetVariant(v, s) == variant' = [variant EXCEPT ![v] = s]

\* What the handlers of the analysis and of the renders leave alone.
others == <<counted, reconciler, api>>
elsewhere == <<counted, reconciler, cancelling, retrying>>

\* An attempt fails without a word to the database: after the last one nobody knows.
Unsaid(t, attempts, rows) ==
  stranded' = IF IsLastAttempt(tasks[t], attempts) THEN stranded \union rows ELSE stranded

\* The analysis of a job that is not over.
Unheard == IF job.status \in Ended THEN {} ELSE {Analysis[1]}

-----------------------------------------------------------------------------
(* uniquify-analyze.worker.ts                                              *)

AnalyzeStart ==
  /\ tasks[Analysis].st = "waiting"
  /\ IF job.status = "cancelled"
     THEN tasks' = Complete(tasks, Analysis) /\ stranded' = stranded \union With("pending")
     ELSE tasks' = Goto(tasks, Analysis, "checked") /\ UNCHANGED stranded
  /\ UNCHANGED <<job, variant, fan, events, counted, reconciler, cancelling, retrying, left>>

\* Nothing before the try block is caught: the reads, and the update that marks the job.
AnalyzeThrows ==
  /\ Use("faults")
  /\ tasks[Analysis].st = "waiting" \/ At(Analysis, "checked")
  /\ tasks' = FailAttempt(tasks, Analysis, AnalyzeAttempts)
  /\ Unsaid(Analysis, AnalyzeAttempts, Unheard)
  /\ UNCHANGED <<job, variant, fan, events, elsewhere>>

AnalyzeMark ==
  /\ At(Analysis, "checked")
  /\ SetStatus("analyzing")
  /\ tasks' = Goto(tasks, Analysis, "analyzing")
  /\ UNCHANGED <<variant, fan, events, others, left>>

\* Clips, script, voice and subtitles are there.
AnalyzeAssets ==
  /\ At(Analysis, "analyzing")
  /\ SetStatus("generating")
  /\ tasks' = Goto(tasks, Analysis, "generating")
  /\ UNCHANGED <<variant, fan, events, others, left>>

(* Mutant: what an earlier attempt has created stays. *)
AnalyzeDropMutant ==
  /\ At(Analysis, "generating")
  /\ fan' = {}
  /\ tasks' = Goto(tasks, Analysis, "creating")
  /\ UNCHANGED <<job, variant, events, others, left>>

\* "drop never-rendered rows of this job first".  The name of a row no render knows of is free
\* again, so that MaxRows need not grow with the runs.
AnalyzeDrop ==
  /\ At(Analysis, "generating")
  /\ variant' = [v \in Rows |-> IF variant[v] # "pending" THEN variant[v]
                                ELSE IF tasks[<<v, 1>>].st = "absent" THEN "none" ELSE "deleted"]
  /\ stranded' = stranded \union (With("pending") \intersect retrying.rows)
  /\ fan' = {}
  /\ tasks' = Goto(tasks, Analysis, "creating")
  /\ UNCHANGED <<job, events, counted, reconciler, cancelling, retrying, left>>

AnalyzeCreate ==
  /\ At(Analysis, "creating")
  /\ Cardinality(fan) < N
  /\ \E v \in With("none") :
       /\ \A u \in With("none") : v <= u
       /\ SetVariant(v, "pending")
       /\ fan' = fan \union {v}
  /\ UNCHANGED <<job, tasks, events, others, left>>

Enqueued == Add(tasks, {<<v, 1>> : v \in fan})

\* addBulk; only a notification follows, whose failure is ignored.
AnalyzeEnqueue ==
  /\ At(Analysis, "creating")
  /\ Cardinality(fan) = N
  /\ tasks' = Complete(Enqueued, Analysis)
  /\ UNCHANGED <<job, variant, fan, events, others, left>>

\* Anything in the try block throws; addBulk may have gone through when it does.  The update
\* of the catch block may throw, too (the one before a retry is allowed to).
AnalyzeFails ==
  /\ tasks[Analysis].st = "active"
  /\ tasks[Analysis].pc \in {"analyzing", "generating", "creating"}
  /\ \/ /\ Use("faults")
        /\ tasks' = FailAttempt(tasks, Analysis, AnalyzeAttempts)
     \/ /\ UseCrash
        /\ tasks[Analysis].pc = "creating" /\ Cardinality(fan) = N
        /\ tasks' = FailAttempt(Enqueued, Analysis, AnalyzeAttempts)
  /\ \/ /\ SetStatus(IF IsLastAttempt(tasks[Analysis], AnalyzeAttempts) THEN "failed" ELSE "analyzing")
        /\ UNCHANGED stranded
     \/ /\ Unsaid(Analysis, AnalyzeAttempts, Unheard)
        /\ UNCHANGED job
  /\ UNCHANGED <<variant, fan, events, elsewhere>>

-----------------------------------------------------------------------------
(* uniquify-render.worker.ts; <<v, k>> is the k-th render of row v          *)

\* A worker is free.
Taken(r) ==
  /\ tasks[r].st = "waiting"
  /\ Cardinality({q \in Renders : tasks[q].st = "active"}) < RenderWorkers

RenderStart(r) ==
  /\ Taken(r)
  /\ IF job.status = "cancelled"
     THEN tasks' = Complete(tasks, r) /\ stranded' = stranded \union {r[1]}
     ELSE tasks' = Goto(tasks, r, "checked") /\ UNCHANGED stranded
  /\ UNCHANGED <<job, variant, fan, events, counted, reconciler, cancelling, retrying, left>>

\* As AnalyzeThrows: the reads, and the update that marks the row.
RenderThrows(r) ==
  /\ Use("faults")
  /\ Taken(r) \/ At(r, "checked")
  /\ tasks' = FailAttempt(tasks, r, RenderAttempts)
  /\ Unsaid(r, RenderAttempts, {r[1]} \intersect Unfinished)
  /\ UNCHANGED <<job, variant, fan, events, elsewhere>>

RenderMark(r) ==
  /\ At(r, "checked")
  /\ r[1] \in Live
  /\ SetVariant(r[1], "rendering")
  /\ tasks' = Goto(tasks, r, "rendering")
  /\ UNCHANGED <<job, fan, events, others, left>>

\* The row is gone: the update throws, before the try block or in it, where the catch block's
\* update throws again.
RenderOrphan(r) ==
  /\ At(r, "checked") \/ At(r, "rendering")
  /\ r[1] \notin Live
  /\ tasks' = FailAttempt(tasks, r, RenderAttempts)
  /\ UNCHANGED <<job, variant, fan, events, others, left>>

RenderSave(r) ==
  /\ At(r, "rendering")
  /\ r[1] \in Live
  /\ SetVariant(r[1], "completed")
  /\ tasks' = Goto(tasks, r, "saved")
  /\ UNCHANGED <<job, fan, events, others, left>>

RenderTell(r) ==
  /\ At(r, "saved")
  /\ events' = events + 1
  /\ tasks' = Complete(tasks, r)
  /\ UNCHANGED <<job, variant, fan, others, left>>

\* The render fails, or the report of a saved one.
RenderBreaks(r) ==
  /\ Use("faults")
  /\ (At(r, "rendering") /\ r[1] \in Live) \/ At(r, "saved")
  /\ UNCHANGED <<job, fan, events, elsewhere>>

(* Mutant: the row of the last attempt stays 'rendering'. *)
RenderFailsMutant(r) ==
  /\ RenderBreaks(r)
  /\ IsLastAttempt(tasks[r], RenderAttempts)
  /\ tasks' = Goto(tasks, r, "failed")
  /\ UNCHANGED <<variant, stranded>>

RenderRetries(r) ==
  /\ RenderBreaks(r)
  /\ ~IsLastAttempt(tasks[r], RenderAttempts)
  /\ \/ r[1] \in Live /\ SetVariant(r[1], "rendering")
     \/ UNCHANGED variant
  /\ tasks' = FailAttempt(tasks, r, RenderAttempts)
  /\ UNCHANGED stranded

\* The update of the catch block throws for a row that is gone, and may for any other.
RenderFails(r) ==
  /\ RenderBreaks(r)
  /\ IsLastAttempt(tasks[r], RenderAttempts)
  /\ \/ /\ r[1] \in Live
        /\ SetVariant(r[1], "failed")
        /\ tasks' = Goto(tasks, r, "failed")
        /\ UNCHANGED stranded
     \/ /\ tasks' = FailForGood(tasks, r)
        /\ stranded' = stranded \union ({r[1]} \intersect Unfinished)
        /\ UNCHANGED variant

\* (A report the state queue does not take is as one that StateFails loses.)
RenderTellFailed(r) ==
  /\ At(r, "failed")
  /\ events' = events + 1
  /\ tasks' = FailForGood(tasks, r)
  /\ UNCHANGED <<job, variant, fan, others, left>>

-----------------------------------------------------------------------------
(* uniquify-state.worker.ts: one transaction, its reads and its update.    *)

StateCount(w) ==
  /\ events > 0
  /\ ~counted[w].busy
  /\ events' = events - 1
  /\ counted' = [counted EXCEPT ![w] = Read]
  /\ UNCHANGED <<job, variant, tasks, fan, reconciler, api, left>>

Outcome(reading) ==
  [status    |-> IF reading.completed = 0 THEN "failed" ELSE "completed",
   completed |-> reading.completed, failed |-> reading.failed]

StateCommit(w) ==
  /\ counted[w].busy
  /\ job' = IF counted[w].completed + counted[w].failed >= N /\ counted[w].open
            THEN Outcome(counted[w])
            ELSE [job EXCEPT !.completed = counted[w].completed, !.failed = counted[w].failed]
  /\ counted' = [counted EXCEPT ![w] = Idle]
  /\ UNCHANGED <<variant, tasks, fan, events, reconciler, api, left>>

\* A state job has one attempt and no listener: the report is lost.
StateFails(w) ==
  /\ Use("faults")
  /\ counted[w].busy
  /\ counted' = [counted EXCEPT ![w] = Idle]
  /\ UNCHANGED <<job, variant, tasks, fan, events, reconciler, api>>

-----------------------------------------------------------------------------
(* scheduler.worker.ts: reconcileStuckUniquifyJobs                         *)

(* Mutant: only what has failed as a whole is looked at. *)
ReconcileReadMutant ==
  /\ ~reconciler.busy
  /\ job.status \in {"analyzing", "generating"}
  /\ Failed >= N
  /\ reconciler' = Read
  /\ UNCHANGED <<job, variant, tasks, fan, events, counted, api, left>>

ReconcileRead ==
  /\ ~reconciler.busy
  /\ job.status \in {"analyzing", "generating"}
  /\ Cardinality(Live) >= N
  /\ Completed + Failed >= N
  /\ reconciler' = Read
  /\ UNCHANGED <<job, variant, tasks, fan, events, counted, api, left>>

ReconcileWrite ==
  /\ reconciler.busy
  /\ job' = Outcome(reconciler)
  /\ reconciler' = Idle
  /\ UNCHANGED <<variant, tasks, fan, events, counted, api, left>>

-----------------------------------------------------------------------------
(* uniquify.routes.ts                                                      *)

unchangedByApi == <<fan, events, counted, reconciler>>

CancelRead ==
  /\ Use("requests")
  /\ ~cancelling
  /\ job.status \notin Ended
  /\ cancelling' = TRUE
  /\ UNCHANGED <<job, variant, tasks, unchangedByApi, retrying, stranded>>

CancelWrite ==
  /\ cancelling
  /\ SetStatus("cancelled")
  /\ cancelling' = FALSE
  /\ UNCHANGED <<variant, tasks, unchangedByApi, retrying, stranded, left>>

RetryRead ==
  /\ Use("requests")
  /\ retrying.at = "idle"
  /\ With("failed") # {}
  /\ retrying' = [at |-> "read", rows |-> With("failed")]
  /\ UNCHANGED <<job, variant, tasks, unchangedByApi, cancelling, stranded>>

\* updateMany: whatever has failed by now.
RetryReset ==
  /\ retrying.at = "read"
  /\ variant' = [v \in Rows |-> IF variant[v] = "failed" THEN "pending" ELSE variant[v]]
  /\ stranded' = stranded \union (With("failed") \ retrying.rows)
  /\ retrying' = [retrying EXCEPT !.at = "reset"]
  /\ UNCHANGED <<job, tasks, unchangedByApi, cancelling, left>>

RetryMark ==
  /\ retrying.at = "reset"
  /\ job' = [job EXCEPT !.status = "generating", !.failed = job.failed - Cardinality(retrying.rows)]
  /\ retrying' = [retrying EXCEPT !.at = "marked"]
  /\ UNCHANGED <<variant, tasks, unchangedByApi, cancelling, stranded, left>>

(* Mutant: the new render takes the id of the old one. *)
RetryEnqueueMutant ==
  /\ retrying.at = "marked"
  /\ tasks' = Add(tasks, {<<v, 1>> : v \in retrying.rows})
  /\ retrying' = [at |-> "idle", rows |-> {}]
  /\ UNCHANGED <<job, variant, unchangedByApi, cancelling, stranded, left>>

\* addBulk, without ids: always new queue jobs.
RetryEnqueue ==
  /\ retrying.at = "marked"
  /\ tasks' = Add(tasks, {<<v, MaxRequests + 1 - left.requests>> : v \in retrying.rows})
  /\ retrying' = [at |-> "idle", rows |-> {}]
  /\ UNCHANGED <<job, variant, unchangedByApi, cancelling, stranded, left>>

-----------------------------------------------------------------------------
\* The orchestrator dies: active queue jobs stall, and so do state jobs; the reconciler's
\* tick is over.
Crash ==
  /\ UseCrash
  /\ tasks' = Stall(tasks)
  /\ events' = events + Cardinality({w \in 1..StateWorkers : counted[w].busy})
  /\ counted' = [w \in 1..StateWorkers |-> Idle]
  /\ reconciler' = Idle
  /\ stranded' = stranded \union {v \in Unfinished :
                                   \E r \in Renders : r[1] = v /\ StallAgain(tasks[r])}
  /\ UNCHANGED <<job, variant, fan, cancelling, retrying>>

AnalyzeWorks ==
  AnalyzeStart \/ AnalyzeMark \/ AnalyzeAssets \/ AnalyzeDrop \/ AnalyzeCreate
  \/ AnalyzeEnqueue

RenderWorks(r) ==
  \/ RenderStart(r) \/ RenderMark(r) \/ RenderOrphan(r) \/ RenderSave(r) \/ RenderTell(r)
  \/ RenderTellFailed(r)

\* Only these have something to do.
OpenRenders == {r \in Renders : IsOpen(tasks[r])}

StateWorks == \E w \in 1..StateWorkers : StateCount(w) \/ StateCommit(w)

Reconciles == ReconcileRead \/ ReconcileWrite

ApiWorks == CancelWrite \/ RetryReset \/ RetryMark \/ RetryEnqueue

Next ==
  \/ AnalyzeWorks \/ AnalyzeThrows \/ AnalyzeFails
  \/ \E r \in OpenRenders : RenderWorks(r) \/ RenderThrows(r) \/ RenderRetries(r) \/ RenderFails(r)
  \/ StateWorks \/ (\E w \in 1..StateWorkers : StateFails(w))
  \/ Reconciles
  \/ CancelRead \/ RetryRead \/ ApiWorks
  \/ Crash

Spec == Init /\ [][Next]_vars

\* Workers poll, the scheduler ticks every minute, a request that has begun goes on: all of
\* them have something to do a bounded number of times only, so that it is enough that one
\* of them moves on.
Works == AnalyzeWorks \/ (\E r \in OpenRenders : RenderWorks(r)) \/ StateWorks \/ Reconciles \/ ApiWorks

FairSpec == Spec /\ WF_vars(Works)

-----------------------------------------------------------------------------
(* Properties                                                              *)

\* "A retry after a partial fan-out must not leave orphan variants that would inflate the
\* job's variant count" (uniquify-analyze.worker.ts): beside the rows a render was queued
\* for by an earlier run there are never more than the job has asked for.
NoOrphans ==
  Cardinality({v \in Live : v \in fan \/ tasks[<<v, 1>>].st = "absent"}) <= N

StallLost(j) == j.st = "failed" /\ j.stalls = 1

\* The analysis is over, and has not handed out what it has created (all its attempts have
\* failed, or its process has died twice).
GivenUp(v) == tasks[Analysis].st = "failed" /\ v \in fan /\ tasks[<<v, 1>>].st = "absent"

\* When nobody is about to hand out renders, every row that is not done has one: no retry,
\* cancel, crash or failure forgets it - but for those `stranded` names, which the code does
\* leave behind.
NobodyForgotten ==
  ~IsOpen(tasks[Analysis]) /\ retrying.at = "idle" =>
    \A v \in Unfinished \ stranded :
      GivenUp(v) \/ \E r \in Renders : r[1] = v /\ IsOpen(tasks[r])

\* A job that has started ends, also when its reports are lost (state jobs are tried once)
\* or its analysis is run again - but for one with something stranded, or whose analysis has
\* stalled for good: nobody listens to that, and the reconciler waits for rows that are done.
Ends ==
  job.status \notin Ended ~>
    job.status \in Ended \/ stranded # {} \/ StallLost(tasks[Analysis])
=============================================================================
