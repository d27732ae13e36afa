--------------------------- MODULE UniquifyProofs ---------------------------
(***************************************************************************)
(* For any number of variants, rows, workers, attempts, crashes and        *)
(* requests: every variable keeps its type; however often the analysis is  *)
(* run again, no row is left over that no render was ever queued for; and  *)
(* no row that is not done is left without a render that waits or runs.    *)
(*                                                                         *)
(* A row the present run has not created was queued for rendering, or the  *)
(* run drops it before it creates its own (Known).  That the drop finds    *)
(* all of them needs that a row leaves 'pending' by its render only        *)
(* (Touched), and that a retry makes renders of such rows only.            *)
(*                                                                         *)
(* A row that is not done is in somebody's hands (Minded): of a render     *)
(* that has not yet written its end, of the run of the analysis that has   *)
(* created it, or of the retry that has reset it.  The retry hands it on   *)
(* because the render it adds has a number no render has (Fresh), the      *)
(* analysis because a row is born without one (Unborn).                    *)
(***************************************************************************)
EXTENDS Uniquify, FiniteSetTheorems, TLAPS

USE DEF Unfinished

IsQueued(v) == tasks[<<v, 1>>].st # "absent"

Record == [st : States, att : Nat, stalls : Nat, pc : Places, resumed : BOOLEAN]

Shape ==
  /\ tasks \in [Task -> Record]
  /\ variant \in [Rows -> {"none", "pending", "rendering", "completed", "failed", "deleted"}]
  /\ fan \subseteq Rows
  /\ retrying \in [at : {"idle", "read", "reset", "marked"}, rows : SUBSET Rows]

Known   == \A v \in Live : v \in fan \/ IsQueued(v)
Touched == \A v \in With("rendering") \union With("completed") \union With("failed") : IsQueued(v)
First   == \A r \in Renders : tasks[r].st # "absent" => IsQueued(r[1])
Again   == \A v \in retrying.rows : IsQueued(v)
Fitting == IsFiniteSet(fan) /\ Cardinality(fan) <= N

IInv == Shape /\ Known /\ Touched /\ First /\ Again /\ Fitting

-----------------------------------------------------------------------------
(* The queue *)

LEMMA Ids ==
  /\ Analysis \in Task /\ Renders \subseteq Task
  /\ \A v \in Rows : <<v, 1>> \in Renders /\ <<v, 1>>[1] = v
  /\ \A r \in Renders : r[1] \in Rows /\ r # Analysis
BY UniquifyAssumption DEF Task, Renders, Analysis, Rows

\* No operator takes a queue job away, and only Add makes one.
LEMMA Kept ==
  ASSUME NEW jobs \in [Task -> Record], NEW t \in Task, NEW pc \in Places, NEW attempts
  PROVE  /\ Goto(jobs, t, pc) \in [Task -> Record]
         /\ Complete(jobs, t) \in [Task -> Record]
         /\ FailForGood(jobs, t) \in [Task -> Record]
         /\ FailAttempt(jobs, t, attempts) \in [Task -> Record]
         /\ \A x \in Task : x # t => /\ Goto(jobs, t, pc)[x] = jobs[x]
                                     /\ Complete(jobs, t)[x] = jobs[x]
                                     /\ FailForGood(jobs, t)[x] = jobs[x]
                                     /\ FailAttempt(jobs, t, attempts)[x] = jobs[x]
         /\ Goto(jobs, t, pc)[t].st # "absent" /\ Complete(jobs, t)[t].st # "absent"
         /\ FailForGood(jobs, t)[t].st # "absent" /\ FailAttempt(jobs, t, attempts)[t].st # "absent"
<1>1. jobs[t] \in Record /\ "start" \in Places
  BY DEF Places
<1>2. /\ Goto(jobs, t, pc) \in [Task -> Record] /\ Goto(jobs, t, pc)[t].st # "absent"
      /\ \A x \in Task : x # t => Goto(jobs, t, pc)[x] = jobs[x]
  BY <1>1 DEF Goto, Record, States
<1>3. /\ Complete(jobs, t) \in [Task -> Record] /\ Complete(jobs, t)[t].st # "absent"
      /\ \A x \in Task : x # t => Complete(jobs, t)[x] = jobs[x]
  BY <1>1 DEF Complete, Record, States
<1>4. /\ FailForGood(jobs, t) \in [Task -> Record] /\ FailForGood(jobs, t)[t].st # "absent"
      /\ \A x \in Task : x # t => FailForGood(jobs, t)[x] = jobs[x]
  BY <1>1 DEF FailForGood, Record, States
<1>5. /\ FailAttempt(jobs, t, attempts) \in [Task -> Record]
      /\ FailAttempt(jobs, t, attempts)[t].st # "absent"
      /\ \A x \in Task : x # t => FailAttempt(jobs, t, attempts)[x] = jobs[x]
  <2> DEFINE new == [jobs[t] EXCEPT !.st = "waiting", !.att = jobs[t].att + 1, !.pc = "start",
                                    !.resumed = FALSE]
  <2>0. jobs[t].att + 1 \in Nat
    BY <1>1 DEF Record
  <2>1. new \in Record /\ new.st = "waiting"
    BY <1>1, <2>0 DEF Record, States
  <2>2. \/ FailAttempt(jobs, t, attempts) = FailForGood(jobs, t)
        \/ FailAttempt(jobs, t, attempts) = [jobs EXCEPT ![t] = new]
    BY DEF FailAttempt
  <2> HIDE DEF new
  <2> QED BY <1>4, <2>1, <2>2
<1> QED BY <1>2, <1>3, <1>4, <1>5

\* An attempt that has ended, well or not.
LEMMA Over ==
  ASSUME NEW jobs \in [Task -> Record], NEW t \in Task, NEW attempts, NEW after,
         after = Complete(jobs, t) \/ after = FailAttempt(jobs, t, attempts)
  PROVE  /\ after \in [Task -> Record]
         /\ \A x \in Task : x # t => after[x] = jobs[x]
         /\ after[t].st # "absent"
<1>1. "start" \in Places
  BY DEF Places
<1>2. CASE after = Complete(jobs, t)
  BY <1>1, <1>2, Kept
<1>3. CASE after = FailAttempt(jobs, t, attempts)
  BY <1>1, <1>3, Kept
<1> QED BY <1>2, <1>3

LEMMA Added ==
  ASSUME NEW jobs \in [Task -> Record], NEW ids
  PROVE  /\ Add(jobs, ids) \in [Task -> Record]
         /\ \A x \in Task : x \in ids \/ jobs[x].st # "absent" <=> Add(jobs, ids)[x].st # "absent"
<1>1. NewJob \in Record /\ NewJob.st = "waiting"
  BY DEF NewJob, NoJob, Record, States, Places
<1> QED BY <1>1 DEF Add

LEMMA Stalled ==
  ASSUME NEW jobs \in [Task -> Record]
  PROVE  /\ Stall(jobs) \in [Task -> Record]
         /\ \A x \in Task : Stall(jobs)[x].st = "absent" <=> jobs[x].st = "absent"
<1> DEFINE new(x) == [jobs[x] EXCEPT !.st = IF StallAgain(jobs[x]) THEN "failed" ELSE "waiting",
                                     !.stalls = 1, !.pc = "start", !.resumed = FALSE]
<1>1. ASSUME NEW x \in Task PROVE new(x) \in Record /\ new(x).st \in {"failed", "waiting"}
  BY DEF Record, States, Places
<1>2. Stall(jobs) = [x \in Task |-> IF jobs[x].st # "active" THEN jobs[x] ELSE new(x)]
  BY DEF Stall
<1> HIDE DEF new
<1> QED BY <1>1, <1>2

\* A step that loses no queue job and makes none.
SameQueue ==
  /\ tasks' \in [Task -> Record]
  /\ \A x \in Task : tasks'[x].st = "absent" <=> tasks[x].st = "absent"

\* Of the rows it only ends some, or moves one that was queued; nothing else changes.
LEMMA QuietStep ==
  ASSUME IInv, SameQueue, UNCHANGED fan,
         variant' \in [Rows -> {"none", "pending", "rendering", "completed", "failed", "deleted"}],
         \A v \in Rows : variant'[v] = variant[v] \/ (v \in Live /\ IsQueued(v)),
         retrying' \in [at : {"idle", "read", "reset", "marked"}, rows : SUBSET Rows],
         \A v \in retrying'.rows : v \in retrying.rows \/ variant[v] = "failed"
  PROVE  IInv'
<1>1. \A v \in Rows : IsQueued(v)' <=> IsQueued(v)
  BY Ids DEF SameQueue, IsQueued
<1>2. Live \subseteq Rows /\ Live' \subseteq Rows
  BY DEF Live
<1>3. Known'
  BY <1>1 DEF IInv, Known, Live
<1>4. Touched'
  BY <1>1 DEF IInv, Touched, With
<1>5. First'
  BY <1>1, Ids DEF IInv, First, SameQueue
<1>6. Again'
  <2>1. \A v \in retrying'.rows : v \in Rows /\ IsQueued(v)
    BY DEF IInv, Shape, Again, Touched, With
  <2> QED BY <1>1, <2>1 DEF Again
<1>7. Shape' /\ Fitting'
  BY DEF IInv, Shape, Fitting, SameQueue
<1> QED BY <1>3, <1>4, <1>5, <1>6, <1>7 DEF IInv

LEMMA WorkIsSame ==
  ASSUME Shape, NEW t \in Task, NEW pc \in Places, NEW attempts, tasks[t].st # "absent",
         \/ tasks' = Goto(tasks, t, pc) \/ tasks' = Complete(tasks, t)
         \/ tasks' = FailForGood(tasks, t) \/ tasks' = FailAttempt(tasks, t, attempts)
  PROVE  SameQueue
BY Kept DEF Shape, SameQueue

LEMMA IdleIsSame == ASSUME Shape, UNCHANGED tasks PROVE SameQueue
BY DEF Shape, SameQueue

\* First renders, and others of rows that have one, are added.
LEMMA MoreQueued ==
  ASSUME IInv, UNCHANGED <<variant, fan>>,
         retrying' = retrying \/ retrying' = [at |-> "idle", rows |-> {}],
         tasks' \in [Task -> Record],
         \A x \in Task : tasks[x].st # "absent" => tasks'[x].st # "absent",
         \A r \in Renders : tasks'[r].st # "absent" =>
                              tasks[r].st # "absent" \/ r = <<r[1], 1>> \/ IsQueued(r[1])
  PROVE  IInv'
<1>1. \A v \in Rows : IsQueued(v) => IsQueued(v)'
  BY Ids DEF IsQueued
<1>2. Known' /\ Touched'
  BY <1>1 DEF IInv, Known, Touched, Live, With
<1>3. ASSUME NEW r \in Renders, tasks'[r].st # "absent" PROVE IsQueued(r[1])'
  <2>1. r[1] \in Rows
    BY Ids
  <2>2. CASE r = <<r[1], 1>>
    BY <1>3, <2>2 DEF IsQueued
  <2> QED BY <1>1, <1>3, <2>1, <2>2 DEF IInv, First
<1>4. Again'
  <2>1. \A v \in retrying.rows : v \in Rows
    BY DEF IInv, Shape
  <2> QED BY <1>1, <2>1 DEF IInv, Again
<1>5. Shape' /\ Fitting'
  BY DEF IInv, Shape, Fitting
<1> QED BY <1>2, <1>3, <1>4, <1>5 DEF IInv, First

-----------------------------------------------------------------------------
(* The steps *)

LEMMA AnalyzeKeeps ==
  ASSUME IInv, AnalyzeWorks \/ AnalyzeThrows \/ AnalyzeFails PROVE IInv'
<1> USE DEF others, elsewhere, Unsaid, Unheard, api, At
<1>0. Shape /\ Analysis \in Task /\ tasks \in [Task -> Record]
  BY Ids DEF IInv, Shape
<1>1. CASE AnalyzeStart \/ AnalyzeMark \/ AnalyzeAssets
  <2>1. SameQueue
    BY <1>0, <1>1, WorkIsSame DEF AnalyzeStart, AnalyzeMark, AnalyzeAssets, Places
  <2>2. UNCHANGED <<variant, fan, retrying>>
    BY <1>1 DEF AnalyzeStart, AnalyzeMark, AnalyzeAssets
  <2> QED BY <1>0, <2>1, <2>2, QuietStep DEF Shape
<1>2. CASE AnalyzeDrop
  <2>1. SameQueue
    BY <1>0, <1>2, WorkIsSame DEF AnalyzeDrop, Places
  <2>2. \A v \in Rows : IsQueued(v)' <=> IsQueued(v)
    BY <2>1, Ids DEF SameQueue, IsQueued
  <2>3. \A v \in Rows : IF variant[v] = "pending" THEN variant'[v] \in {"none", "deleted"}
                        ELSE variant'[v] = variant[v]
    BY <1>2 DEF AnalyzeDrop
  <2>4. ASSUME NEW v \in Live' PROVE IsQueued(v)'
    <3>1. v \in Rows /\ variant[v] \in {"rendering", "completed", "failed"}
      BY <1>0, <2>3 DEF Live, Shape
    <3> QED BY <2>2, <3>1 DEF IInv, Touched, With
  <2>5. Known' /\ Touched'
    BY <2>2, <2>3, <2>4 DEF IInv, Known, Touched, Live, With
  <2>6. First'
    BY <2>1, <2>2, Ids DEF IInv, First, SameQueue
  <2>7. Again'
    BY <1>0, <1>2, <2>2 DEF IInv, Again, AnalyzeDrop, Shape
  <2>8. Fitting'
    BY <1>2, FS_EmptySet, UniquifyAssumption DEF AnalyzeDrop, Fitting
  <2>9. Shape'
    <3>1. variant' \in [Rows -> {"none", "pending", "rendering", "completed", "failed", "deleted"}]
      BY <1>0, <1>2 DEF AnalyzeDrop, Shape
    <3> QED BY <1>0, <1>2, <2>1, <3>1 DEF Shape, SameQueue, AnalyzeDrop
  <2> QED BY <2>5, <2>6, <2>7, <2>8, <2>9 DEF IInv
<1>3. CASE AnalyzeCreate
  <2>1. PICK v \in Rows : /\ variant[v] = "none"
                          /\ variant' = [variant EXCEPT ![v] = "pending"]
                          /\ fan' = fan \union {v}
    BY <1>3 DEF AnalyzeCreate, With, SetVariant
  <2>2. UNCHANGED <<tasks, retrying>> /\ Cardinality(fan) < N
    BY <1>3 DEF AnalyzeCreate
  <2>3. \A u \in Rows : IsQueued(u)' <=> IsQueued(u)
    BY <2>2 DEF IsQueued
  <2>4. Known' /\ Touched'
    BY <1>0, <2>1, <2>3 DEF IInv, Known, Touched, Live, With, Shape
  <2>5. First' /\ Again'
    BY <2>2 DEF IInv, First, Again, IsQueued
  <2>6. Fitting'
    <3>1. Cardinality(fan) \in Nat /\ N \in Nat
      BY FS_CardinalityType, UniquifyAssumption DEF IInv, Fitting
    <3>2. /\ IsFiniteSet(fan \union {v})
          /\ Cardinality(fan \union {v}) = IF v \in fan THEN Cardinality(fan)
                                           ELSE Cardinality(fan) + 1
      BY FS_AddElement DEF IInv, Fitting
    <3>3. Cardinality(fan \union {v}) <= N
      BY <2>2, <3>1, <3>2
    <3> QED BY <2>1, <3>2, <3>3 DEF Fitting
  <2>7. Shape'
    BY <1>0, <2>1, <2>2 DEF Shape
  <2> QED BY <2>4, <2>5, <2>6, <2>7 DEF IInv
<1>4. ASSUME tasks[Analysis].st # "absent", UNCHANGED <<variant, fan, retrying>>,
             \/ tasks' = Complete(Enqueued, Analysis)
             \/ tasks' = FailAttempt(Enqueued, Analysis, AnalyzeAttempts)
      PROVE  IInv'
  <2> DEFINE ids == {<<v, 1>> : v \in fan}
  <2>1. /\ Enqueued \in [Task -> Record]
        /\ \A x \in Task : x \in ids \/ tasks[x].st # "absent" <=> Enqueued[x].st # "absent"
    BY <1>0, Added DEF Enqueued
  <2>2. /\ tasks' \in [Task -> Record]
        /\ \A x \in Task : x # Analysis => tasks'[x] = Enqueued[x]
        /\ tasks'[Analysis].st # "absent"
    <3>1. Enqueued \in [Task -> Record] /\ Analysis \in Task
      BY <1>0, <2>1
    <3> QED BY ONLY <1>4, <3>1, Over
  <2>3. \A x \in Task : tasks[x].st # "absent" => tasks'[x].st # "absent"
    BY <2>1, <2>2
  <2>4. \A r \in Renders : tasks'[r].st # "absent" => tasks[r].st # "absent" \/ r = <<r[1], 1>>
    BY <2>1, <2>2, Ids
  <2> QED BY <1>4, <2>2, <2>3, <2>4, MoreQueued
<1>5. CASE AnalyzeEnqueue
  BY <1>4, <1>5 DEF AnalyzeEnqueue
<1>6. CASE AnalyzeThrows \/ AnalyzeFails
  <2>1. tasks[Analysis].st # "absent" /\ UNCHANGED <<variant, fan, retrying>>
    BY <1>6 DEF AnalyzeThrows, AnalyzeFails
  <2>2. CASE tasks' = FailAttempt(tasks, Analysis, AnalyzeAttempts)
    <3>1. SameQueue
      BY <1>0, <2>1, <2>2, WorkIsSame DEF Places
    <3> QED BY <1>0, <2>1, <3>1, QuietStep DEF Shape
  <2> QED BY <1>4, <1>6, <2>1, <2>2 DEF AnalyzeThrows, AnalyzeFails
<1> QED BY <1>1, <1>2, <1>3, <1>5, <1>6 DEF AnalyzeWorks

LEMMA RenderKeeps ==
  ASSUME IInv, NEW r \in Renders,
         RenderWorks(r) \/ RenderThrows(r) \/ RenderRetries(r) \/ RenderFails(r)
  PROVE  IInv'
<1> USE DEF others, elsewhere, Unsaid, api, At, Taken, RenderBreaks
<1>0. Shape /\ r \in Task /\ r[1] \in Rows
  BY Ids DEF IInv
<1>1. tasks[r].st # "absent" /\ UNCHANGED <<fan, retrying>>
  BY DEF RenderWorks, RenderStart, RenderMark, RenderOrphan, RenderSave, RenderTell, RenderRetries,
     RenderThrows, RenderFails, RenderTellFailed
<1>2. SameQueue
  BY <1>0, <1>1, WorkIsSame DEF RenderWorks, RenderStart, RenderMark, RenderOrphan, RenderSave,
     RenderTell, RenderRetries, RenderThrows, RenderFails, RenderTellFailed, Places
<1>3. IsQueued(r[1])
  BY <1>1 DEF IInv, First
<1>4. \/ UNCHANGED variant
      \/ /\ r[1] \in Live
         /\ \E s \in {"rendering", "completed", "failed"} :
              variant' = [variant EXCEPT ![r[1]] = s]
  BY DEF RenderWorks, RenderStart, RenderMark, RenderOrphan, RenderSave, RenderTell, RenderRetries,
     RenderThrows, RenderFails, RenderTellFailed, SetVariant
<1>5. /\ variant' \in [Rows -> {"none", "pending", "rendering", "completed", "failed", "deleted"}]
      /\ \A v \in Rows : variant'[v] = variant[v] \/ (v \in Live /\ IsQueued(v))
  BY <1>0, <1>3, <1>4 DEF Shape
<1> QED BY <1>0, <1>1, <1>2, <1>5, QuietStep DEF Shape

LEMMA RetryKeeps ==
  ASSUME IInv, RetryRead \/ RetryReset \/ RetryMark \/ RetryEnqueue PROVE IInv'
<1> USE DEF unchangedByApi
<1>0. Shape
  BY DEF IInv
<1>1. CASE RetryRead
  BY <1>0, <1>1, IdleIsSame, QuietStep DEF RetryRead, Shape, With
<1>2. CASE RetryReset
  <2>1. /\ variant' \in [Rows -> {"none", "pending", "rendering", "completed", "failed", "deleted"}]
        /\ \A v \in Rows : variant'[v] = variant[v] \/ variant[v] = "failed"
    BY <1>0, <1>2 DEF RetryReset, Shape
  <2>2. \A v \in Rows : variant[v] = "failed" => v \in Live /\ IsQueued(v)
    BY DEF IInv, Touched, With, Live
  <2>3. /\ retrying' \in [at : {"idle", "read", "reset", "marked"}, rows : SUBSET Rows]
        /\ retrying'.rows = retrying.rows
    BY <1>0, <1>2 DEF RetryReset, Shape
  <2> QED BY <1>0, <1>2, <2>1, <2>2, <2>3, IdleIsSame, QuietStep DEF RetryReset
<1>3. CASE RetryMark
  <2>1. /\ retrying' \in [at : {"idle", "read", "reset", "marked"}, rows : SUBSET Rows]
        /\ retrying'.rows = retrying.rows
    BY <1>0, <1>3 DEF RetryMark, Shape
  <2> QED BY <1>0, <1>3, <2>1, IdleIsSame, QuietStep DEF RetryMark, Shape
<1>4. CASE RetryEnqueue
  <2> DEFINE ids == {<<v, MaxRequests + 1 - left.requests>> : v \in retrying.rows}
  <2>1. /\ tasks' \in [Task -> Record]
        /\ \A x \in Task : x \in ids \/ tasks[x].st # "absent" <=> tasks'[x].st # "absent"
    BY <1>0, <1>4, Added DEF RetryEnqueue, Shape
  <2>2. \A x \in ids : IsQueued(x[1])
    BY DEF IInv, Again
  <2>3. \A x \in Renders : x \in Task
    BY Ids
  <2> HIDE DEF ids
  <2> QED BY <1>4, <2>1, <2>2, <2>3, MoreQueued DEF RetryEnqueue
<1> QED BY <1>1, <1>2, <1>3, <1>4

LEMMA NextIInv == IInv /\ [Next]_vars => IInv'
<1> SUFFICES ASSUME IInv, [Next]_vars PROVE IInv'
  OBVIOUS
<1>0. Shape
  BY DEF IInv
<1>1. CASE UNCHANGED <<tasks, variant, fan, retrying>>
  BY <1>0, <1>1, IdleIsSame, QuietStep DEF Shape
<1>2. CASE Crash
  <2>1. SameQueue
    BY <1>0, <1>2, Stalled DEF Crash, SameQueue, Shape
  <2> QED BY <1>0, <1>2, <2>1, QuietStep DEF Crash, Shape, api
<1>3. CASE StateWorks \/ (\E w \in 1..StateWorkers : StateFails(w)) \/ Reconciles \/ CancelRead
           \/ CancelWrite \/ UNCHANGED vars
  BY <1>1, <1>3 DEF StateWorks, StateCount, StateCommit, StateFails, Reconciles, ReconcileRead,
     ReconcileWrite, CancelRead, CancelWrite, unchangedByApi, vars, api
<1> QED BY <1>2, <1>3, AnalyzeKeeps, RenderKeeps, RetryKeeps DEF Next, OpenRenders, ApiWorks

LEMMA InitIInv == Init => IInv
<1> SUFFICES ASSUME Init PROVE IInv
  OBVIOUS
<1>1. Shape
  BY DEF Init, Shape, Record, NewJob, NoJob, States, Places
<1>2. Live = {} /\ \A s \in {"rendering", "completed", "failed"} : With(s) = {}
  BY DEF Init, Live, With
<1>3. First
  BY Ids DEF Init, First, NoJob
<1>4. Fitting
  BY FS_EmptySet, UniquifyAssumption DEF Init, Fitting
<1> QED BY <1>1, <1>2, <1>3, <1>4 DEF Init, IInv, Known, Touched, Again

(* However often the analysis is retried, at most as many rows as were      *)
(* asked for are without a render that was queued by an earlier run.        *)
THEOREM NoOrphanRows == Spec => []NoOrphans
<1>1. ASSUME IInv PROVE NoOrphans
  <2> DEFINE open == {v \in Live : v \in fan \/ tasks[<<v, 1>>].st = "absent"}
  <2>1. open \subseteq fan
    BY <1>1 DEF IInv, Known, IsQueued
  <2>2. Cardinality(open) <= Cardinality(fan) /\ Cardinality(open) \in Nat
    BY <1>1, <2>1, FS_Subset, FS_CardinalityType DEF IInv, Fitting
  <2>3. Cardinality(fan) \in Nat /\ Cardinality(fan) <= N /\ N \in Nat
    BY <1>1, FS_CardinalityType, UniquifyAssumption DEF IInv, Fitting
  <2> QED BY <2>2, <2>3 DEF NoOrphans
<1>2. Spec => []IInv
  BY InitIInv, NextIInv, PTL DEF Spec
<1> QED BY <1>1, <1>2, PTL
-----------------------------------------------------------------------------
(* Types *)

Tries(t) == IF t = Analysis THEN AnalyzeAttempts ELSE RenderAttempts

Tried(jobs) == \A t \in Task : jobs[t].att \in 0..(Tries(t) - 1) /\ jobs[t].stalls \in 0..1

Bounds ==
  left \in [faults : 0..MaxFaults, crashes : 0..MaxCrashes, requests : 0..MaxRequests]

Typed ==
  /\ Shape /\ Tried(tasks) /\ Bounds
  /\ job \in [status : Ended \union {"pending", "analyzing", "generating"},
              completed : Nat, failed : Int]
  /\ events \in Nat
  /\ counted \in [1..StateWorkers -> Reading]
  /\ reconciler \in Reading
  /\ cancelling \in BOOLEAN
  /\ stranded \subseteq Rows \union {0}

LEMMA TypedIsTypeOK == Typed => TypeOK
<1> SUFFICES ASSUME Typed PROVE TypeOK
  OBVIOUS
<1>1. tasks \in [Task -> Record] /\ DOMAIN tasks = Task
  BY DEF Typed, Shape
<1>2. ASSUME NEW t \in Task PROVE tasks[t] \in QueueJob(Places, Tries(t))
  <2>1. tasks[t] \in Record
    BY <1>1
  <2>2. tasks[t].att \in 0..(Tries(t) - 1) /\ tasks[t].stalls \in 0..1
    BY DEF Typed, Tried
  <2> QED BY <2>1, <2>2 DEF Record, QueueJob
<1>3. /\ tasks[Analysis] \in QueueJob(Places, AnalyzeAttempts)
      /\ \A r \in Renders : tasks[r] \in QueueJob(Places, RenderAttempts)
  BY <1>2, Ids DEF Tries
<1> QED BY <1>1, <1>3 DEF Typed, Shape, TypeOK

LEMMA TriesPositive == \A t \in Task : Tries(t) \in Nat \ {0}
BY UniquifyAssumption DEF Tries

\* An attempt is counted only when it was not the last one.
LEMMA StillTried ==
  ASSUME NEW jobs \in [Task -> Record], Tried(jobs), NEW t \in Task, NEW pc \in Places
  PROVE  /\ Tried(Goto(jobs, t, pc)) /\ Tried(Complete(jobs, t)) /\ Tried(FailForGood(jobs, t))
         /\ Tried(FailAttempt(jobs, t, Tries(t)))
<1>1. jobs[t] \in Record /\ jobs[t].att \in 0..(Tries(t) - 1) /\ Tries(t) \in Nat \ {0}
  BY TriesPositive DEF Tried
<1>2. Tried(Goto(jobs, t, pc))
  BY DEF Tried, Goto, Record
<1>3. Tried(Complete(jobs, t))
  BY DEF Tried, Complete, Record
<1>4. Tried(FailForGood(jobs, t))
  BY DEF Tried, FailForGood, Record
<1>5. Tried(FailAttempt(jobs, t, Tries(t)))
  <2>1. CASE IsLastAttempt(jobs[t], Tries(t))
    BY <1>4, <2>1 DEF FailAttempt
  <2>2. CASE ~IsLastAttempt(jobs[t], Tries(t))
    <3> DEFINE new == [jobs[t] EXCEPT !.st = "waiting", !.att = jobs[t].att + 1, !.pc = "start",
                                      !.resumed = FALSE]
    <3>1. FailAttempt(jobs, t, Tries(t)) = [jobs EXCEPT ![t] = new]
      BY <2>2 DEF FailAttempt
    <3>2. jobs[t].att + 1 \in 0..(Tries(t) - 1)
      BY <1>1, <2>2 DEF IsLastAttempt
    <3>3. new.att \in 0..(Tries(t) - 1) /\ new.stalls = jobs[t].stalls
      BY <1>1, <3>2 DEF Record
    <3> HIDE DEF new
    <3> QED BY <3>1, <3>3 DEF Tried
  <2> QED BY <2>1, <2>2
<1> QED BY <1>2, <1>3, <1>4, <1>5

LEMMA AddTried ==
  ASSUME NEW jobs \in [Task -> Record], Tried(jobs), NEW ids PROVE Tried(Add(jobs, ids))
<1>1. \A t \in Task : NewJob.att \in 0..(Tries(t) - 1) /\ NewJob.stalls \in 0..1
  BY TriesPositive DEF NewJob, NoJob
<1>2. \A t \in Task : Add(jobs, ids)[t] \in {jobs[t], NewJob}
  BY DEF Add
<1> QED BY <1>1, <1>2 DEF Tried

LEMMA StallTried ==
  ASSUME NEW jobs \in [Task -> Record], Tried(jobs) PROVE Tried(Stall(jobs))
BY DEF Tried, Stall, Record

LEMMA Small ==
  /\ \A S \in SUBSET Rows : IsFiniteSet(S) /\ Cardinality(S) \in 0..MaxRows
  /\ \A S \in SUBSET (1..StateWorkers) : Cardinality(S) \in Nat
<1>1. ASSUME NEW n \in Nat, NEW S \in SUBSET (1..n)
      PROVE  IsFiniteSet(S) /\ Cardinality(S) \in 0..n
  <2>1. IsFiniteSet(1..n) /\ Cardinality(1..n) = n
    BY FS_Interval
  <2>2. IsFiniteSet(S) /\ Cardinality(S) <= n
    BY <2>1, FS_Subset
  <2> QED BY <2>2, FS_CardinalityType
<1>2. MaxRows \in Nat /\ StateWorkers \in Nat
  BY UniquifyAssumption
<1> QED BY <1>1, <1>2 DEF Rows

LEMMA ReadTyped == ASSUME Typed PROVE Read \in Reading /\ Idle \in Reading
<1>1. \A s : With(s) \subseteq Rows
  BY DEF With
<1>2. Completed \in 0..MaxRows /\ Failed \in 0..MaxRows
  BY <1>1, Small DEF Completed, Failed
<1>3. 0 \in 0..MaxRows
  BY UniquifyAssumption
<1> QED BY <1>2, <1>3 DEF Read, Idle, Reading

LEMMA OutcomeTyped ==
  ASSUME NEW reading \in Reading
  PROVE  Outcome(reading) \in [status : Ended \union {"pending", "analyzing", "generating"},
                               completed : Nat, failed : Int]
<1>1. reading.completed \in Nat /\ reading.failed \in Int
  BY UniquifyAssumption DEF Reading
<1> QED BY <1>1 DEF Outcome, Ended

LEMMA UseTyped ==
  ASSUME Bounds, Use("faults") \/ Use("requests") \/ UseCrash PROVE Bounds'
<1> USE DEF Bounds
<1>0. MaxFaults \in Nat /\ MaxCrashes \in Nat /\ MaxRequests \in Nat
  BY UniquifyAssumption
<1>1. CASE Use("faults")
  BY <1>0, <1>1 DEF Use
<1>2. CASE Use("requests")
  BY <1>0, <1>2 DEF Use
<1>3. CASE UseCrash
  <2>1. left.crashes - 1 \in 0..MaxCrashes /\ left.faults - 1 \in 0..MaxFaults
    BY <1>0, <1>3 DEF UseCrash
  <2> QED BY <1>3, <2>1 DEF UseCrash
<1> QED BY <1>1, <1>2, <1>3

LEMMA AnalyzeTyped ==
  ASSUME IInv, Typed, Shape', AnalyzeWorks \/ AnalyzeThrows \/ AnalyzeFails PROVE Typed'
<1> USE DEF others, elsewhere, Unsaid, Unheard, api, At
<1>0. tasks \in [Task -> Record] /\ Tried(tasks) /\ Analysis \in Task /\ Tries(Analysis) = AnalyzeAttempts
  BY Ids DEF Typed, Shape, Tries
<1>1. Enqueued \in [Task -> Record] /\ Tried(Enqueued)
  BY <1>0, Added, AddTried DEF Enqueued
<1>2. Tried(tasks')
  <2>1. \/ tasks' = tasks \/ tasks' = Complete(tasks, Analysis)
        \/ \E pc \in Places : tasks' = Goto(tasks, Analysis, pc)
        \/ tasks' = Complete(Enqueued, Analysis)
        \/ tasks' = FailAttempt(tasks, Analysis, AnalyzeAttempts)
        \/ tasks' = FailAttempt(Enqueued, Analysis, AnalyzeAttempts)
    BY DEF AnalyzeWorks, AnalyzeThrows, AnalyzeFails, AnalyzeStart, AnalyzeMark, AnalyzeAssets, AnalyzeDrop,
       AnalyzeCreate, AnalyzeEnqueue, Places
  <2>2. "start" \in Places
    BY DEF Places
  <2> QED BY <1>0, <1>1, <2>1, <2>2, StillTried
<1>3. /\ \/ job' = job
         \/ \E s \in {"analyzing", "generating", "failed"} : job' = [job EXCEPT !.status = s]
      /\ UNCHANGED <<events, counted, reconciler, cancelling>>
  BY DEF AnalyzeWorks, AnalyzeThrows, AnalyzeFails, AnalyzeStart, AnalyzeMark, AnalyzeAssets, AnalyzeDrop,
     AnalyzeCreate, AnalyzeEnqueue, SetStatus
<1>4. \/ UNCHANGED stranded \/ stranded' = stranded \union With("pending")
      \/ stranded' = stranded \union (With("pending") \intersect retrying.rows)
      \/ stranded' = stranded \union {0}
  BY DEF AnalyzeWorks, AnalyzeThrows, AnalyzeFails, AnalyzeStart, AnalyzeMark, AnalyzeAssets, AnalyzeDrop,
     AnalyzeCreate, AnalyzeEnqueue, Analysis
<1>5. stranded' \subseteq Rows \union {0}
  BY <1>4 DEF Typed, With
<1>6. UNCHANGED left \/ Use("faults") \/ UseCrash
  BY DEF AnalyzeWorks, AnalyzeThrows, AnalyzeFails, AnalyzeStart, AnalyzeMark, AnalyzeAssets, AnalyzeDrop,
     AnalyzeCreate, AnalyzeEnqueue
<1>7. Bounds'
  BY <1>6, UseTyped DEF Typed, Bounds
<1>8. job' \in [status : Ended \union {"pending", "analyzing", "generating"},
               completed : Nat, failed : Int]
  BY <1>3 DEF Typed, Ended
<1> QED BY <1>2, <1>3, <1>5, <1>7, <1>8 DEF Typed

LEMMA RenderTyped ==
  ASSUME Typed, Shape', NEW r \in Renders,
         RenderWorks(r) \/ RenderThrows(r) \/ RenderRetries(r) \/ RenderFails(r)
  PROVE  Typed'
<1> USE DEF others, elsewhere, Unsaid, api, At, Taken, RenderBreaks
<1>0. /\ tasks \in [Task -> Record] /\ Tried(tasks) /\ r \in Task /\ r[1] \in Rows
      /\ Tries(r) = RenderAttempts
  BY Ids DEF Typed, Shape, Tries
<1>1. Tried(tasks')
  <2>1. \/ tasks' = Complete(tasks, r) \/ tasks' = FailForGood(tasks, r)
        \/ \E pc \in Places : tasks' = Goto(tasks, r, pc)
        \/ tasks' = FailAttempt(tasks, r, RenderAttempts)
    BY DEF RenderWorks, RenderStart, RenderMark, RenderOrphan, RenderSave, RenderTell,
       RenderRetries, RenderThrows, RenderFails, RenderTellFailed, Places
  <2>2. "start" \in Places
    BY DEF Places
  <2> QED BY <1>0, <2>1, <2>2, StillTried
<1>2. /\ UNCHANGED <<job, counted, reconciler, cancelling>>
      /\ events' = events \/ events' = events + 1
      /\ stranded' \subseteq stranded \union {r[1]}
      /\ UNCHANGED left \/ Use("faults")
  BY DEF RenderWorks, RenderStart, RenderMark, RenderOrphan, RenderSave, RenderTell,
     RenderRetries, RenderThrows, RenderFails, RenderTellFailed
<1>3. Bounds'
  BY <1>2, UseTyped DEF Typed, Bounds
<1>4. events' \in Nat /\ stranded' \subseteq Rows \union {0}
  BY <1>0, <1>2 DEF Typed
<1> QED BY <1>1, <1>2, <1>3, <1>4 DEF Typed

LEMMA CountTyped ==
  ASSUME Typed, Shape', StateWorks \/ (\E w \in 1..StateWorkers : StateFails(w)) \/ Reconciles
  PROVE  Typed'
<1> USE DEF api
<1>0. Read \in Reading /\ Idle \in Reading
  BY ReadTyped
<1>1. CASE Reconciles
  <2>1. job' = job \/ job' = Outcome(reconciler)
    BY <1>1 DEF Reconciles, ReconcileRead, ReconcileWrite
  <2>2. job' \in [status : Ended \union {"pending", "analyzing", "generating"},
                 completed : Nat, failed : Int]
    BY <2>1, OutcomeTyped DEF Typed
  <2>3. reconciler' \in {Read, Idle} /\ UNCHANGED <<tasks, left, events, counted, cancelling, stranded>>
    BY <1>1 DEF Reconciles, ReconcileRead, ReconcileWrite
  <2> QED BY <1>0, <2>2, <2>3 DEF Typed, Bounds
<1>2. ASSUME NEW w \in 1..StateWorkers, StateCount(w) \/ StateCommit(w) \/ StateFails(w)
      PROVE  Typed'
  <2>1. counted' \in [1..StateWorkers -> Reading]
    BY <1>0, <1>2 DEF Typed, StateCount, StateCommit, StateFails
  <2>2. events' \in Nat
    BY <1>2 DEF Typed, StateCount, StateCommit, StateFails
  <2>3. job' \in [status : Ended \union {"pending", "analyzing", "generating"},
                 completed : Nat, failed : Int]
    <3>1. counted[w] \in Reading /\ counted[w].completed \in Nat /\ counted[w].failed \in Int
      BY UniquifyAssumption DEF Typed, Reading
    <3>2. job' = job \/ job' = Outcome(counted[w])
          \/ job' = [job EXCEPT !.completed = counted[w].completed, !.failed = counted[w].failed]
      BY <1>2 DEF StateCount, StateCommit, StateFails
    <3> QED BY <3>1, <3>2, OutcomeTyped DEF Typed
  <2>4. Bounds'
    <3>1. UNCHANGED left \/ Use("faults")
      BY <1>2 DEF StateCount, StateCommit, StateFails
    <3> QED BY <3>1, UseTyped DEF Typed, Bounds
  <2>5. UNCHANGED <<tasks, reconciler, cancelling, stranded>>
    BY <1>2 DEF StateCount, StateCommit, StateFails
  <2> QED BY <2>1, <2>2, <2>3, <2>4, <2>5 DEF Typed
<1> QED BY <1>1, <1>2 DEF StateWorks

LEMMA ApiTyped ==
  ASSUME Typed, Shape', CancelRead \/ CancelWrite \/ RetryRead \/ RetryReset \/ RetryMark \/ RetryEnqueue
  PROVE  Typed'
<1> USE DEF unchangedByApi
<1>0. tasks \in [Task -> Record] /\ Tried(tasks) /\ retrying.rows \in SUBSET Rows
  BY DEF Typed, Shape
<1>1. Tried(tasks')
  BY <1>0, AddTried DEF CancelRead, CancelWrite, RetryRead, RetryReset, RetryMark, RetryEnqueue
<1>2. UNCHANGED <<events, counted, reconciler>> /\ cancelling' \in BOOLEAN
  BY DEF Typed, CancelRead, CancelWrite, RetryRead, RetryReset, RetryMark, RetryEnqueue
<1>3. Bounds'
  <2>1. UNCHANGED left \/ Use("requests")
    BY DEF CancelRead, CancelWrite, RetryRead, RetryReset, RetryMark, RetryEnqueue
  <2> QED BY <2>1, UseTyped DEF Typed, Bounds
<1>4. stranded' \subseteq Rows \union {0}
  BY DEF Typed, With, CancelRead, CancelWrite, RetryRead, RetryReset, RetryMark, RetryEnqueue
<1>5. job' \in [status : Ended \union {"pending", "analyzing", "generating"},
               completed : Nat, failed : Int]
  <2>1. Cardinality(retrying.rows) \in Int
    BY <1>0, Small
  <2>2. \/ job' = job \/ job' = [job EXCEPT !.status = "cancelled"]
        \/ job' = [job EXCEPT !.status = "generating",
                              !.failed = job.failed - Cardinality(retrying.rows)]
    BY DEF SetStatus, CancelRead, CancelWrite, RetryRead, RetryReset, RetryMark, RetryEnqueue
  <2>3. job.failed - Cardinality(retrying.rows) \in Int
    BY <2>1 DEF Typed
  <2>4. job \in [status : Ended \union {"pending", "analyzing", "generating"},
               completed : Nat, failed : Int]
    BY DEF Typed
  <2> QED BY <2>2, <2>3, <2>4 DEF Ended
<1> QED BY <1>1, <1>2, <1>3, <1>4, <1>5 DEF Typed

LEMMA NextTyped == IInv /\ Typed /\ [Next]_vars => Typed'
<1> SUFFICES ASSUME IInv, Typed, [Next]_vars PROVE Typed'
  OBVIOUS
<1>0. Shape'
  BY NextIInv DEF IInv
<1>1. CASE Crash
  <2>1. Tried(tasks')
    BY <1>1, StallTried DEF Crash, Typed, Shape
  <2>2. Bounds'
    BY <1>1, UseTyped DEF Crash, Typed
  <2>3. events' \in Nat
    <3>1. Cardinality({w \in 1..StateWorkers : counted[w].busy}) \in Nat
      BY Small
    <3>2. events' = events + Cardinality({w \in 1..StateWorkers : counted[w].busy})
      BY <1>1 DEF Crash
    <3>3. events \in Nat
      BY DEF Typed
    <3> QED BY <3>1, <3>2, <3>3
  <2>4. counted' \in [1..StateWorkers -> Reading] /\ reconciler' \in Reading
    BY <1>1, ReadTyped DEF Crash
  <2>5. stranded' \subseteq Rows \union {0}
    BY <1>1 DEF Crash, Typed, With
  <2> QED BY <1>0, <1>1, <2>1, <2>2, <2>3, <2>4, <2>5 DEF Crash, Typed
<1>2. CASE UNCHANGED vars
  BY <1>0, <1>2 DEF vars, api, Typed, Bounds
<1> QED BY <1>0, <1>1, <1>2, AnalyzeTyped, RenderTyped, CountTyped, ApiTyped
       DEF Next, OpenRenders, ApiWorks

LEMMA InitTyped == Init => Typed
<1> SUFFICES ASSUME Init PROVE Typed
  OBVIOUS
<1>1. Shape
  BY InitIInv DEF IInv
<1>2. Tried(tasks)
  BY TriesPositive DEF Init, Tried, NewJob, NoJob
<1>3. Bounds
  BY UniquifyAssumption DEF Init, Bounds
<1>4. Idle \in Reading
  BY UniquifyAssumption DEF Idle, Reading
<1>5. job \in [status : Ended \union {"pending", "analyzing", "generating"},
              completed : Nat, failed : Int]
  BY DEF Init
<1>6. counted \in [1..StateWorkers -> Reading] /\ reconciler \in Reading
  BY <1>4 DEF Init
<1>7. events \in Nat /\ cancelling \in BOOLEAN /\ stranded \subseteq Rows \union {0}
  BY DEF Init
<1> QED BY <1>1, <1>2, <1>3, <1>5, <1>6, <1>7 DEF Typed

(* Every variable keeps its type.                                           *)
THEOREM TypeCorrect == Spec => []TypeOK
<1>1. Init => IInv /\ Typed
  BY InitIInv, InitTyped
<1>2. IInv /\ Typed /\ [Next]_vars => IInv' /\ Typed'
  BY NextIInv, NextTyped
<1> QED BY <1>1, <1>2, TypedIsTypeOK, PTL DEF Spec
-----------------------------------------------------------------------------
(* Nobody is forgotten *)

Wanted(v) == v \in Unfinished \ stranded

\* The render will still do its row (or has found the job cancelled, or has died).
Chases(r) == tasks[r].st = "waiting" \/ At(r, "checked") \/ At(r, "rendering")

Pursued(v) == \E r \in Renders : r[1] = v /\ Chases(r)
ToFan(v)   == v \in fan /\ ~IsQueued(v) /\ tasks[Analysis].st \in {"waiting", "active", "failed"}
ToRetry(v) == retrying.at \in {"reset", "marked"} /\ v \in retrying.rows

Minded == \A v \in Rows : Wanted(v) => Pursued(v) \/ ToFan(v) \/ ToRetry(v)

Unborn == \A v \in With("none") : ~IsQueued(v) /\ v \notin fan

\* The number of the render a retry adds is free.
Used  == MaxRequests - left.requests
Fresh ==
  /\ retrying.at # "idle" => Used > 0
  /\ \A r \in Renders : tasks[r].st # "absent" =>
       r[2] <= IF retrying.at = "idle" THEN Used + 1 ELSE Used

LEMMA Moves ==
  ASSUME NEW jobs \in [Task -> Record], NEW t \in Task, NEW pc, NEW attempts
  PROVE  /\ Goto(jobs, t, pc)[t].st = "active" /\ Goto(jobs, t, pc)[t].pc = pc
         /\ FailForGood(jobs, t)[t].st = "failed"
         /\ FailAttempt(jobs, t, attempts)[t].st \in {"waiting", "failed"}
         /\ ~IsLastAttempt(jobs[t], attempts) => FailAttempt(jobs, t, attempts)[t].st = "waiting"
<1>1. Goto(jobs, t, pc)[t].st = "active" /\ Goto(jobs, t, pc)[t].pc = pc
  BY DEF Goto, Record
<1>2. FailForGood(jobs, t)[t].st = "failed"
  BY DEF FailForGood, Record
<1>3. ~IsLastAttempt(jobs[t], attempts) => FailAttempt(jobs, t, attempts)[t].st = "waiting"
  BY DEF FailAttempt, Record
<1>4. IsLastAttempt(jobs[t], attempts) => FailAttempt(jobs, t, attempts) = FailForGood(jobs, t)
  BY DEF FailAttempt
<1> QED BY <1>1, <1>2, <1>3, <1>4

LEMMA AddedWaits ==
  ASSUME NEW jobs \in [Task -> Record], NEW ids
  PROVE  \A x \in Task : /\ jobs[x].st # "absent" => Add(jobs, ids)[x] = jobs[x]
                         /\ x \in ids /\ jobs[x].st = "absent" => Add(jobs, ids)[x].st = "waiting"
BY DEF Add, NewJob, NoJob

\* Who still had somebody to think of it has; who is new has, too.
LEMMA StillMinded ==
  ASSUME Minded,
         \A v \in Rows : Wanted(v)' => Wanted(v) \/ Pursued(v)' \/ ToFan(v)' \/ ToRetry(v)',
         \A v \in Rows : Wanted(v)' /\ ToFan(v) => Pursued(v)' \/ ToFan(v)',
         \A v \in Rows : Wanted(v)' /\ ToRetry(v) => Pursued(v)' \/ ToRetry(v)',
         \A r \in Renders : Wanted(r[1])' /\ Chases(r) => Chases(r)'
  PROVE  Minded'
<1> SUFFICES ASSUME NEW v \in Rows, Wanted(v)' PROVE Pursued(v)' \/ ToFan(v)' \/ ToRetry(v)'
  BY DEF Minded
<1>1. CASE Pursued(v)
  <2>1. PICK r \in Renders : r[1] = v /\ Chases(r)
    BY <1>1 DEF Pursued
  <2>2. Chases(r)'
    BY <2>1
  <2> QED BY <2>1, <2>2 DEF Pursued
<1> QED BY <1>1 DEF Minded

\* Nothing is said of the analysis, the rows it has created, or the retry.
LEMMA SameFan ==
  ASSUME SameQueue, UNCHANGED fan, Analysis \in Task,
         tasks[Analysis].st \in {"waiting", "active", "failed"} =>
           tasks'[Analysis].st \in {"waiting", "active", "failed"}
  PROVE  \A v \in Rows : ToFan(v) => ToFan(v)'
BY Ids DEF SameQueue, ToFan, IsQueued

LEMMA SameUnborn ==
  ASSUME IInv, Unborn, SameQueue, UNCHANGED fan, \A v \in Rows : variant'[v] = "none" => variant[v] = "none"
  PROVE  Unborn'
BY Ids DEF SameQueue, Unborn, IsQueued, With

LEMMA SameFresh ==
  ASSUME Fresh, SameQueue, Typed, Bounds', left'.requests = left.requests,
         retrying'.at = "idle" <=> retrying.at = "idle"
  PROVE  Fresh'
BY Ids DEF SameQueue, Fresh, Used

Mindful == IInv /\ Typed /\ Unborn /\ Fresh /\ Minded

LEMMA UsesNoRequest ==
  ASSUME Bounds PROVE /\ Use("faults") => left'.requests = left.requests
                      /\ UseCrash => left'.requests = left.requests
BY DEF Bounds, Use, UseCrash

-----------------------------------------------------------------------------
LEMMA RenderMinds ==
  ASSUME Mindful, Typed', NEW r \in Renders, RenderWorks(r) \/ RenderThrows(r) \/ RenderRetries(r) \/ RenderFails(r)
  PROVE  Unborn' /\ Fresh' /\ Minded'
<1> USE DEF Mindful, others, elsewhere, Unsaid, api, Taken, RenderBreaks
<1>0. /\ Shape /\ r \in Task /\ r[1] \in Rows /\ tasks \in [Task -> Record]
      /\ \A q \in Renders : q \in Task /\ q[1] \in Rows
  BY Ids DEF IInv, Shape
<1>1. tasks[r].st # "absent" /\ UNCHANGED <<fan, retrying>>
  BY DEF RenderWorks, RenderStart, RenderMark, RenderOrphan, RenderSave, RenderTell, RenderRetries,
     RenderThrows, RenderFails, RenderTellFailed, At
<1>2. SameQueue
  BY <1>0, <1>1, WorkIsSame DEF RenderWorks, RenderStart, RenderMark, RenderOrphan, RenderSave,
     RenderTell, RenderRetries, RenderThrows, RenderFails, RenderTellFailed, Places
<1>3. /\ \A x \in Task : x # r => tasks'[x] = tasks[x]
  BY <1>0, Kept DEF RenderWorks, RenderStart, RenderMark, RenderOrphan, RenderSave,
     RenderTell, RenderRetries, RenderThrows, RenderFails, RenderTellFailed, Places
<1>4. /\ \A v \in Rows : v # r[1] => variant'[v] = variant[v]
      /\ variant'[r[1]] = "none" => variant[r[1]] = "none"
      /\ stranded \subseteq stranded'
  BY <1>0 DEF RenderWorks, RenderStart, RenderMark, RenderOrphan, RenderSave, RenderTell,
     RenderRetries, RenderThrows, RenderFails, RenderTellFailed, SetVariant, Live, Shape
<1>5. Unborn'
  BY <1>1, <1>2, <1>4, SameUnborn
<1>6. left'.requests = left.requests
  <2>1. UNCHANGED left \/ Use("faults")
    BY DEF RenderWorks, RenderStart, RenderMark, RenderOrphan, RenderSave, RenderTell, RenderRetries,
       RenderThrows, RenderFails, RenderTellFailed
  <2> QED BY <2>1, UsesNoRequest DEF Typed
<1>7. Fresh'
  BY <1>1, <1>2, <1>6, SameFresh DEF Typed
<1>8. \A v \in Rows : (ToFan(v) => ToFan(v)') /\ (ToRetry(v) => ToRetry(v)')
  BY <1>1, <1>2, <1>3, Ids, SameFan DEF ToRetry
<1>9. Wanted(r[1])' => Chases(r)' \/ (Wanted(r[1]) /\ ~Chases(r))
  <2>1. variant \in [Rows -> {"none", "pending", "rendering", "completed", "failed", "deleted"}]
    BY <1>0 DEF Shape
  <2> USE DEF Wanted, Chases, At, With
  <2>2. CASE RenderStart(r)
    <3>1. CASE job.status = "cancelled"
      <4>1. r[1] \in stranded'
        BY <2>2, <3>1 DEF RenderStart
      <4> QED BY <4>1
    <3>2. CASE job.status # "cancelled"
      <4>1. tasks' = Goto(tasks, r, "checked")
        BY <2>2, <3>2 DEF RenderStart
      <4>2. tasks'[r].st = "active" /\ tasks'[r].pc = "checked"
        <5>1. tasks \in [Task -> Record] /\ r \in Task
          BY <1>0
        <5> QED BY <4>1, <5>1, Moves
      <4>3. Chases(r)'
        BY <4>2 DEF Chases, At
      <4> QED BY <4>3
    <3> QED BY <3>1, <3>2
  <2>3. CASE RenderMark(r)
    BY <1>0, <2>3, Moves DEF RenderMark
  <2>4. CASE RenderOrphan(r)
    BY <1>0, <2>4 DEF RenderOrphan, Live
  <2>5. CASE RenderSave(r)
    BY <1>0, <2>1, <2>5 DEF RenderSave, SetVariant
  <2>6. CASE RenderTell(r) \/ RenderTellFailed(r)
    BY <1>0, <2>6 DEF RenderTell, RenderTellFailed
  <2>7. CASE RenderRetries(r)
    BY <1>0, <2>7, Moves DEF RenderRetries
  <2>8. CASE RenderFails(r)
    BY <1>0, <2>1, <2>8 DEF RenderFails, SetVariant, Live
  <2>9. CASE RenderThrows(r)
    <3>1. CASE IsLastAttempt(tasks[r], RenderAttempts)
      BY <1>0, <2>9, <3>1 DEF RenderThrows
    <3>2. CASE ~IsLastAttempt(tasks[r], RenderAttempts)
      BY <1>0, <2>9, <3>2, Moves DEF RenderThrows
    <3> QED BY <3>1, <3>2
  <2> QED BY <2>2, <2>3, <2>4, <2>5, <2>6, <2>7, <2>8, <2>9 DEF RenderWorks
<1>10. \A v \in Rows : v # r[1] /\ Wanted(v)' => Wanted(v)
  BY <1>4 DEF Wanted, With
<1>11. \A v \in Rows : Wanted(v)' => Wanted(v) \/ Pursued(v)'
  BY <1>0, <1>9, <1>10 DEF Pursued
<1>12. \A q \in Renders : q # r /\ Chases(q) => Chases(q)'
  BY <1>0, <1>3 DEF Chases, At
<1>13. Minded'
  BY <1>8, <1>9, <1>11, <1>12, StillMinded
<1> QED BY <1>5, <1>7, <1>13

\* No render moves, no row is wanted that was not, and the retry is where it was.
LEMMA OnlyAnalysisMoves ==
  ASSUME Mindful, Typed', \A r \in Renders : tasks'[r] = tasks[r],
         \A v \in Rows : Wanted(v)' => Wanted(v) \/ ToFan(v)',
         \A v \in Rows : Wanted(v)' /\ ToFan(v) => ToFan(v)',
         UNCHANGED retrying
  PROVE  Minded'
<1>1. \A v \in Rows : ToRetry(v) => ToRetry(v)'
  BY DEF ToRetry
<1>2. \A r \in Renders : Chases(r) => Chases(r)'
  BY DEF Chases, At
<1> QED BY <1>1, <1>2, StillMinded DEF Mindful

\* addBulk: every row of this run has its render now.
LEMMA FanMinds ==
  ASSUME Mindful, Typed', tasks[Analysis].st # "absent", UNCHANGED <<variant, fan, retrying>>,
         stranded \subseteq stranded', left'.requests = left.requests,
         \/ tasks' = Complete(Enqueued, Analysis)
         \/ tasks' = FailAttempt(Enqueued, Analysis, AnalyzeAttempts)
  PROVE  Unborn' /\ Fresh' /\ Minded'
<1> DEFINE ids == {<<v, 1>> : v \in fan}
<1>0. /\ tasks \in [Task -> Record] /\ fan \subseteq Rows /\ Analysis \in Task
      /\ \A r \in Renders : r \in Task /\ r # Analysis /\ r[1] \in Rows
      /\ \A v \in Rows : <<v, 1>> \in Renders
  BY Ids DEF Mindful, IInv, Shape
<1>1. /\ Enqueued \in [Task -> Record]
      /\ \A x \in Task : x \in ids \/ tasks[x].st # "absent" <=> Enqueued[x].st # "absent"
  BY <1>0, Added DEF Enqueued
<1>2. \A x \in Task : /\ tasks[x].st # "absent" => Enqueued[x] = tasks[x]
                      /\ x \in ids /\ tasks[x].st = "absent" => Enqueued[x].st = "waiting"
  BY <1>0, AddedWaits DEF Enqueued
<1>3. \A x \in Task : x # Analysis => tasks'[x] = Enqueued[x]
  <2>1. Enqueued \in [Task -> Record]
    BY <1>1
  <2> HIDE DEF ids
  <2>2. \A x \in Task : x # Analysis => Complete(Enqueued, Analysis)[x] = Enqueued[x]
    BY <2>1 DEF Complete
  <2>3. \A x \in Task : x # Analysis =>
          FailAttempt(Enqueued, Analysis, AnalyzeAttempts)[x] = Enqueued[x]
    BY <2>1 DEF FailAttempt, FailForGood
  <2> QED BY <2>2, <2>3
<1> HIDE DEF ids
<1>4. \A r \in Renders : tasks'[r] = tasks[r] \/ (tasks[r].st = "absent" /\ r \in ids /\ tasks'[r].st = "waiting")
      \/ (tasks[r].st = "absent" /\ tasks'[r].st = "absent")
  BY <1>0, <1>1, <1>2, <1>3
<1>5. \A v \in Rows : v \in fan => tasks'[<<v, 1>>].st # "absent" /\ <<v, 1>> \in ids
  BY <1>0, <1>1, <1>3 DEF ids
<1>6. \A r \in ids : r[2] = 1 /\ r[1] \in fan
  BY DEF ids
<1>7. Unborn'
  <2> SUFFICES ASSUME NEW v \in Rows, variant[v] = "none" PROVE tasks'[<<v, 1>>].st = "absent" /\ v \notin fan
    BY Zenon DEF Unborn, With, IsQueued
  <2>1. v \notin fan /\ tasks[<<v, 1>>].st = "absent"
    BY DEF Mindful, Unborn, With, IsQueued
  <2>2. <<v, 1>> \notin ids
    BY <2>1, <1>6
  <2> QED BY <1>0, <1>4, <2>1, <2>2
<1>8. Fresh'
  <2>1. Used' = Used /\ (retrying.at # "idle" => Used > 0) /\ Used \in Nat
    BY UniquifyAssumption DEF Mindful, Fresh, Used, Typed, Bounds
  <2> SUFFICES ASSUME NEW r \in Renders, tasks'[r].st # "absent"
               PROVE  r[2] <= IF retrying.at = "idle" THEN Used + 1 ELSE Used
    BY <2>1 DEF Fresh
  <2>2. CASE tasks[r].st # "absent"
    BY <2>2 DEF Mindful, Fresh
  <2>3. CASE r \in ids
    BY <1>6, <2>1, <2>3
  <2> QED BY <1>4, <2>2, <2>3
<1>9. Minded'
  <2>1. \A v \in Rows : (Wanted(v)' => Wanted(v)) /\ (ToRetry(v) => ToRetry(v)')
    BY DEF Wanted, With, ToRetry
  <2>2. \A r \in Renders : Chases(r) => Chases(r)'
    BY <1>4 DEF Chases, At
  <2>3. ASSUME NEW v \in Rows, ToFan(v) PROVE Pursued(v)'
    <3>1. tasks'[<<v, 1>>].st = "waiting"
      BY <1>0, <1>4, <1>5, <2>3 DEF ToFan, IsQueued
    <3>2. <<v, 1>>[1] = v /\ Chases(<<v, 1>>)'
      BY <3>1 DEF Chases
    <3> QED BY <1>0, <3>2 DEF Pursued
  <2> QED BY <2>1, <2>2, <2>3, StillMinded DEF Mindful
<1> QED BY <1>7, <1>8, <1>9

LEMMA AnalyzeMinds ==
  ASSUME Mindful, Typed', AnalyzeWorks \/ AnalyzeThrows \/ AnalyzeFails
  PROVE  Unborn' /\ Fresh' /\ Minded'
<1> USE DEF others, elsewhere, Unsaid, Unheard, api, At
<1>0. /\ Shape /\ Analysis \in Task /\ tasks \in [Task -> Record] /\ IInv /\ Typed
      /\ \A r \in Renders : r \in Task /\ r # Analysis /\ r[1] \in Rows
      /\ Unborn /\ Fresh /\ Minded
      /\ variant \in [Rows -> {"none", "pending", "rendering", "completed", "failed", "deleted"}]
  BY Ids DEF Mindful, IInv, Shape
<1>1. CASE AnalyzeStart \/ AnalyzeMark \/ AnalyzeAssets
  <2>1. SameQueue
    BY <1>0, <1>1, WorkIsSame DEF AnalyzeStart, AnalyzeMark, AnalyzeAssets, Places
  <2>2. UNCHANGED <<variant, fan, retrying, left>> /\ stranded \subseteq stranded'
    BY <1>1 DEF AnalyzeStart, AnalyzeMark, AnalyzeAssets
  <2>3. \A r \in Renders : tasks'[r] = tasks[r]
    BY <1>0, <1>1, Kept DEF AnalyzeStart, AnalyzeMark, AnalyzeAssets, Places
  <2>4. \/ tasks'[Analysis].st = "active"
        \/ stranded' = stranded \union With("pending")
    BY <1>0, <1>1, Moves DEF AnalyzeStart, AnalyzeMark, AnalyzeAssets
  <2>5. \A v \in Rows : Wanted(v)' => Wanted(v)
    BY <2>2 DEF Wanted, With
  <2>6. ASSUME NEW v \in Rows, Wanted(v)', ToFan(v) PROVE ToFan(v)'
    <3>1. variant[v] = "pending"
      BY <1>0, <2>2, <2>6 DEF Wanted, With, ToFan, IInv, Touched
    <3>2. tasks'[Analysis].st = "active"
      BY <2>2, <2>4, <2>6, <3>1 DEF Wanted, With
    <3> QED BY <2>1, <2>2, <2>6, <3>2, SameFan, <1>0
  <2>7. Minded'
    BY <2>2, <2>3, <2>5, <2>6, OnlyAnalysisMoves
  <2> QED BY <1>0, <2>1, <2>2, <2>7, SameUnborn, SameFresh DEF Typed
<1>2. CASE AnalyzeDrop
  <2>1. SameQueue
    BY <1>0, <1>2, WorkIsSame DEF AnalyzeDrop, Places
  <2>2. UNCHANGED <<retrying, left>> /\ fan' = {} /\ stranded \subseteq stranded'
    BY <1>2 DEF AnalyzeDrop
  <2>3. \A r \in Renders : tasks'[r] = tasks[r]
    <3>1. tasks' = Goto(tasks, Analysis, "creating") /\ "creating" \in Places
      BY <1>2 DEF AnalyzeDrop, Places
    <3>2. \A x \in Task : x # Analysis => tasks'[x] = tasks[x]
      BY <1>0, <3>1, Kept
    <3> QED BY <1>0, <3>2
  <2>4. \A v \in Rows : IF variant[v] = "pending"
                        THEN variant'[v] = IF IsQueued(v) THEN "deleted" ELSE "none"
                        ELSE variant'[v] = variant[v]
    BY <1>2 DEF AnalyzeDrop, IsQueued
  <2>5. \A v \in Rows : Wanted(v)' => Wanted(v) /\ variant[v] = "rendering"
    BY <1>0, <2>2, <2>4 DEF Wanted, With
  <2>6. \A v \in Rows : Wanted(v)' => ~ToFan(v)
    BY <1>0, <2>5 DEF ToFan, IInv, Touched, With
  <2>7. Minded'
    BY <2>2, <2>3, <2>5, <2>6, OnlyAnalysisMoves
  <2>8. Unborn'
    BY <1>0, <2>1, <2>2, <2>4, Ids DEF Unborn, With, IsQueued, SameQueue
  <2> QED BY <1>0, <2>1, <2>2, <2>7, <2>8, SameFresh DEF Typed
<1>3. CASE AnalyzeCreate
  <2>1. PICK v \in Rows : /\ variant[v] = "none"
                          /\ variant' = [variant EXCEPT ![v] = "pending"]
                          /\ fan' = fan \union {v}
    BY <1>3 DEF AnalyzeCreate, With, SetVariant
  <2>2. UNCHANGED <<tasks, retrying, stranded, left>> /\ tasks[Analysis].st = "active"
    BY <1>3 DEF AnalyzeCreate
  <2>3. ~IsQueued(v) /\ IsQueued(v)' = IsQueued(v)
    BY <1>0, <2>1, <2>2 DEF Unborn, With, IsQueued
  <2>4. ToFan(v)' /\ \A u \in Rows : (u # v /\ Wanted(u)' => Wanted(u)) /\ (ToFan(u) => ToFan(u)')
    <3>1. ToFan(v)'
      BY <2>1, <2>2, <2>3 DEF ToFan, IsQueued
    <3>2. \A u \in Rows : u # v /\ Wanted(u)' => Wanted(u)
      BY <1>0, <2>1, <2>2 DEF Wanted, With
    <3>3. \A u \in Rows : ToFan(u) => ToFan(u)'
      BY <2>1, <2>2 DEF ToFan, IsQueued
    <3> QED BY <3>1, <3>2, <3>3
  <2>5. Minded'
    BY <2>2, <2>4, OnlyAnalysisMoves
  <2>6. Unborn'
    BY <1>0, <2>1, <2>2 DEF Unborn, With, IsQueued
  <2>7. Fresh'
    BY <1>0, <2>2 DEF Fresh, Used
  <2> QED BY <2>5, <2>6, <2>7
<1>4. CASE AnalyzeEnqueue
  BY <1>4, FanMinds DEF AnalyzeEnqueue
<1>5. CASE AnalyzeThrows \/ AnalyzeFails
  <2>1. /\ tasks[Analysis].st # "absent" /\ UNCHANGED <<variant, fan, retrying>>
        /\ stranded \subseteq stranded'
    BY <1>5 DEF AnalyzeThrows, AnalyzeFails
  <2>2. left'.requests = left.requests
    BY <1>0, <1>5, UsesNoRequest DEF AnalyzeThrows, AnalyzeFails, Typed
  <2>3. CASE tasks' = FailAttempt(tasks, Analysis, AnalyzeAttempts)
    <3>1. SameQueue
      BY <1>0, <2>1, <2>3, WorkIsSame DEF Places
    <3>2. \A r \in Renders : tasks'[r] = tasks[r]
      <4>1. "start" \in Places
        BY DEF Places
      <4> QED BY <1>0, <2>3, <4>1, Kept
    <3>3. tasks'[Analysis].st \in {"waiting", "failed"}
      BY <1>0, <2>3, Moves
    <3>4. \A v \in Rows : (Wanted(v)' => Wanted(v)) /\ (ToFan(v) => ToFan(v)')
      BY <1>0, <2>1, <3>1, <3>3, SameFan DEF Wanted, With
    <3>5. Minded'
      BY <2>1, <3>2, <3>4, OnlyAnalysisMoves
    <3> QED BY <1>0, <2>1, <2>2, <3>1, <3>5, SameUnborn, SameFresh DEF Typed
  <2>4. CASE tasks' = FailAttempt(Enqueued, Analysis, AnalyzeAttempts)
    BY <2>1, <2>2, <2>4, FanMinds
  <2> QED BY <1>5, <2>3, <2>4 DEF AnalyzeThrows, AnalyzeFails
<1> QED BY <1>1, <1>2, <1>3, <1>4, <1>5 DEF AnalyzeWorks

\* What a step that touches neither queue nor rows may still do is to count down a bound.
LEMMA IdleMinds ==
  ASSUME Mindful, Typed', UNCHANGED <<tasks, variant, fan, retrying, stranded>>,
         left'.requests <= left.requests
  PROVE  Unborn' /\ Fresh' /\ Minded'
<1>1. Unborn' /\ Minded'
  BY DEF Mindful, Unborn, Minded, With, IsQueued, Wanted, Pursued, Chases, At, ToFan, ToRetry
<1>2. Used <= Used' /\ Used \in Int /\ Used' \in Int
  <2>1. left.requests \in Nat /\ left'.requests \in Nat /\ MaxRequests \in Nat
    <3>1. Bounds /\ Bounds'
      BY DEF Mindful, Typed
    <3> QED BY <3>1, UniquifyAssumption DEF Bounds
  <2> QED BY <2>1 DEF Used
<1>3. Fresh'
  <2>1. \A r \in Renders : r[2] \in Int
    BY UniquifyAssumption DEF Renders
  <2>2. \A r \in Renders : tasks[r].st # "absent" => r[2] <= IF retrying.at = "idle" THEN Used + 1 ELSE Used
    BY DEF Mindful, Fresh
  <2>3. \A r \in Renders : tasks'[r].st # "absent" => r[2] <= IF retrying.at = "idle" THEN Used' + 1 ELSE Used'
    BY <1>2, <2>1, <2>2
  <2> QED BY <1>2, <2>3 DEF Mindful, Fresh
<1> QED BY <1>1, <1>3

LEMMA RetryMinds ==
  ASSUME Mindful, Typed', RetryRead \/ RetryReset \/ RetryMark \/ RetryEnqueue
  PROVE  Unborn' /\ Fresh' /\ Minded'
<1> USE DEF unchangedByApi
<1>0. /\ Shape /\ Analysis \in Task /\ tasks \in [Task -> Record] /\ IInv /\ Typed /\ Bounds
      /\ \A r \in Renders : r \in Task /\ r # Analysis /\ r[1] \in Rows
      /\ Unborn /\ Fresh /\ Minded
      /\ variant \in [Rows -> {"none", "pending", "rendering", "completed", "failed", "deleted"}]
      /\ retrying \in [at : {"idle", "read", "reset", "marked"}, rows : SUBSET Rows]
  BY Ids DEF Mindful, IInv, Shape, Typed
<1>1. CASE RetryRead
  <2>1. /\ UNCHANGED <<tasks, variant, fan, stranded>> /\ retrying.at = "idle" /\ retrying'.at = "read"
        /\ Use("requests")
    BY <1>1 DEF RetryRead
  <2>2. left.requests > 0 /\ left'.requests = left.requests - 1 /\ left.requests \in 0..MaxRequests
    BY <1>0, <2>1 DEF Use, Bounds
  <2>3. Used' = Used + 1 /\ Used \in Nat
    BY <2>2, UniquifyAssumption DEF Used
  <2>4. Unborn' /\ Fresh'
    BY <1>0, <2>1, <2>3 DEF Unborn, Fresh, With, IsQueued
  <2>5. Minded'
    BY <1>0, <2>1 DEF Minded, Wanted, With, Pursued, Chases, At, ToFan, IsQueued, ToRetry
  <2> QED BY <2>4, <2>5
<1>2. CASE RetryReset
  <2>1. /\ UNCHANGED <<tasks, fan, left>> /\ stranded' = stranded \union (With("failed") \ retrying.rows)
        /\ retrying'.at = "reset" /\ retrying'.rows = retrying.rows /\ retrying.at = "read"
    BY <1>0, <1>2 DEF RetryReset
  <2>2. \A v \in Rows : variant'[v] = IF variant[v] = "failed" THEN "pending" ELSE variant[v]
    BY <1>2 DEF RetryReset
  <2>3. Unborn' /\ Fresh'
    BY <1>0, <2>1, <2>2 DEF Unborn, With, IsQueued, Fresh, Used
  <2>4. \A v \in Rows : Wanted(v)' => Wanted(v) \/ ToRetry(v)'
    BY <1>0, <2>1, <2>2 DEF Wanted, With, ToRetry
  <2>5. Minded'
    <3>1. \A v \in Rows : (ToFan(v) => ToFan(v)') /\ ~ToRetry(v)
      BY <2>1 DEF ToFan, IsQueued, ToRetry
    <3>2. \A r \in Renders : Chases(r) => Chases(r)'
      BY <2>1 DEF Chases, At
    <3> QED BY <1>0, <2>4, <3>1, <3>2, StillMinded
  <2> QED BY <2>3, <2>5
<1>3. CASE RetryMark
  <2>1. /\ UNCHANGED <<tasks, variant, fan, left, stranded>>
        /\ retrying'.at = "marked" /\ retrying'.rows = retrying.rows /\ retrying.at = "reset"
    BY <1>0, <1>3 DEF RetryMark
  <2>2. Unborn' /\ Fresh'
    BY <1>0, <2>1 DEF Unborn, With, IsQueued, Fresh, Used
  <2>3. Minded'
    BY <1>0, <2>1 DEF Minded, Wanted, With, Pursued, Chases, At, ToFan, IsQueued, ToRetry
  <2> QED BY <2>2, <2>3
<1>4. CASE RetryEnqueue
  <2> DEFINE k == Used + 1
  <2> DEFINE ids == {<<v, k>> : v \in retrying.rows}
  <2>1. /\ UNCHANGED <<variant, fan, left, stranded>>
        /\ retrying'.at = "idle" /\ retrying.at = "marked"
        /\ tasks' = Add(tasks, {<<v, MaxRequests + 1 - left.requests>> : v \in retrying.rows})
    BY <1>4 DEF RetryEnqueue
  <2>2. Used \in Nat /\ Used > 0 /\ k = MaxRequests + 1 - left.requests /\ k \in 1..(MaxRequests + 1)
    BY <1>0, <2>1, UniquifyAssumption DEF Used, Fresh, Bounds
  <2> HIDE DEF k
  <2>3. tasks' = Add(tasks, ids)
    BY <2>1, <2>2
  <2>4. \A v \in retrying.rows : <<v, k>> \in Renders /\ <<v, k>>[1] = v /\ <<v, k>>[2] = k /\ v \in Rows
    BY <1>0, <2>2 DEF Renders
  <2>5. \A v \in retrying.rows : tasks[<<v, k>>].st = "absent"
    <3>1. \A r \in Renders : tasks[r].st # "absent" => r[2] <= Used
      BY <1>0, <2>1 DEF Fresh
    <3>2. k > Used
      BY <2>2 DEF k
    <3> QED BY <2>2, <2>4, <3>1, <3>2
  <2>6. \A x \in Task : /\ tasks[x].st # "absent" => tasks'[x] = tasks[x]
                        /\ x \in ids /\ tasks[x].st = "absent" => tasks'[x].st = "waiting"
                        /\ x \in ids \/ tasks[x].st # "absent" <=> tasks'[x].st # "absent"
    BY <1>0, <2>3, AddedWaits, Added
  <2>7. \A v \in Rows : variant[v] = "none" => ~IsQueued(v)'
    <3>1. ASSUME NEW v \in Rows, variant[v] = "none" PROVE <<v, 1>> \notin ids
      BY <2>2 DEF k
    <3>2. \A v \in Rows : variant[v] = "none" => tasks[<<v, 1>>].st = "absent"
      BY <1>0 DEF Unborn, With, IsQueued
    <3> QED BY <1>0, <2>6, <3>1, <3>2, Ids DEF IsQueued
  <2>8. Unborn'
    BY <1>0, <2>1, <2>7 DEF Unborn, With
  <2>9. Fresh'
    <3>1. Used' = Used
      BY <2>1 DEF Used
    <3> SUFFICES ASSUME NEW r \in Renders, tasks'[r].st # "absent" PROVE r[2] <= Used + 1
      BY <2>1, <3>1 DEF Fresh
    <3>2. CASE tasks[r].st # "absent"
      <4>1. r[2] <= Used /\ r[2] \in Int
        BY <1>0, <2>1, <3>2, UniquifyAssumption DEF Fresh, Renders
      <4> QED BY <2>2, <4>1
    <3>3. CASE r \in ids
      BY <2>2, <3>3 DEF k
    <3> QED BY <1>0, <2>6, <3>2, <3>3
  <2>10. Minded'
    <3>1. \A v \in Rows : Wanted(v)' => Wanted(v)
      BY <2>1 DEF Wanted, With
    <3>2. \A v \in Rows : ToFan(v) => ToFan(v)' \/ Pursued(v)'
      <4> SUFFICES ASSUME NEW v \in Rows, ToFan(v) PROVE ToFan(v)'
        OBVIOUS
      <4>1. <<v, 1>> \notin ids /\ Analysis \notin ids
        BY <2>2, <1>0, <2>4 DEF k
      <4>2. tasks[<<v, 1>>].st = "absent" /\ <<v, 1>> \in Task
        BY Ids DEF ToFan, IsQueued
      <4>3. tasks'[Analysis] = tasks[Analysis] /\ tasks'[<<v, 1>>].st = "absent"
        BY <1>0, <2>6, <4>1, <4>2 DEF ToFan
      <4> QED BY <2>1, <4>3 DEF ToFan, IsQueued
    <3>3. ASSUME NEW v \in Rows, ToRetry(v) PROVE Pursued(v)'
      <4>1. v \in retrying.rows /\ <<v, k>> \in ids
        BY <3>3 DEF ToRetry
      <4>2. tasks'[<<v, k>>].st = "waiting"
        BY <1>0, <2>4, <2>5, <2>6, <4>1
      <4> QED BY <2>4, <4>1, <4>2 DEF Pursued, Chases
    <3>4. \A r \in Renders : Chases(r) => Chases(r)'
      BY <1>0, <2>6 DEF Chases, At
    <3> QED BY <1>0, <3>1, <3>2, <3>3, <3>4, StillMinded
  <2> QED BY <2>8, <2>9, <2>10
<1> QED BY <1>1, <1>2, <1>3, <1>4

LEMMA CrashMinds ==
  ASSUME Mindful, Typed', Crash PROVE Unborn' /\ Fresh' /\ Minded'
<1>0. /\ Shape /\ Analysis \in Task /\ tasks \in [Task -> Record] /\ IInv /\ Typed /\ Bounds
      /\ \A r \in Renders : r \in Task /\ r[1] \in Rows
      /\ Unborn /\ Fresh /\ Minded
  BY Ids DEF Mindful, IInv, Shape, Typed
<1>1. /\ tasks' = Stall(tasks) /\ UNCHANGED <<variant, fan, retrying>>
      /\ stranded' = stranded \union {v \in Unfinished :
                                        \E r \in Renders : r[1] = v /\ StallAgain(tasks[r])}
      /\ left'.requests = left.requests
  BY <1>0, UsesNoRequest DEF Crash
<1>2. SameQueue
  BY <1>0, <1>1, Stalled DEF SameQueue
<1>3. \A x \in Task : /\ tasks[x].st # "active" => tasks'[x] = tasks[x]
                      /\ tasks[x].st = "active" => tasks'[x].st = IF StallAgain(tasks[x]) THEN "failed" ELSE "waiting"
  BY <1>0, <1>1 DEF Stall, Record
<1>4. Unborn' /\ Fresh'
  BY <1>0, <1>1, <1>2, SameUnborn, SameFresh DEF Typed
<1>5. \A v \in Rows : Wanted(v)' => Wanted(v)
  BY <1>1 DEF Wanted, With
<1>6. \A v \in Rows : (ToFan(v) => ToFan(v)') /\ (ToRetry(v) => ToRetry(v)')
  BY <1>0, <1>1, <1>2, <1>3, SameFan DEF ToRetry
<1>7. ASSUME NEW r \in Renders, Wanted(r[1])', Chases(r) PROVE Chases(r)'
  <2>1. ~StallAgain(tasks[r])
    BY <1>1, <1>5, <1>7, <1>0 DEF Wanted
  <2> QED BY <1>0, <1>3, <1>7, <2>1 DEF Chases, At
<1>8. Minded'
  BY <1>0, <1>5, <1>6, <1>7, StillMinded
<1> QED BY <1>4, <1>8

LEMMA NextMindful == Mindful /\ [Next]_vars => Mindful'
<1> SUFFICES ASSUME Mindful, [Next]_vars PROVE Mindful'
  OBVIOUS
<1>0. IInv' /\ Typed' /\ Bounds
  BY NextIInv, NextTyped DEF Mindful, Typed
<1>1. CASE StateWorks \/ (\E w \in 1..StateWorkers : StateFails(w)) \/ Reconciles \/ CancelRead
           \/ CancelWrite \/ UNCHANGED vars
  <2>1. UNCHANGED <<tasks, variant, fan, retrying, stranded>>
    BY <1>1 DEF StateWorks, StateCount, StateCommit, StateFails, Reconciles, ReconcileRead,
       ReconcileWrite, CancelRead, CancelWrite, unchangedByApi, vars, api
  <2>2. UNCHANGED left \/ Use("faults") \/ Use("requests")
    BY <1>1 DEF StateWorks, StateCount, StateCommit, StateFails, Reconciles, ReconcileRead,
       ReconcileWrite, CancelRead, CancelWrite, vars
  <2>3. left'.requests <= left.requests
    BY <1>0, <2>2, UniquifyAssumption DEF Bounds, Use
  <2>4. Unborn' /\ Fresh' /\ Minded'
    BY <1>0, <2>1, <2>3, IdleMinds
  <2> QED BY <1>0, <2>4 DEF Mindful
<1>2. CASE AnalyzeWorks \/ AnalyzeThrows \/ AnalyzeFails
  BY <1>0, <1>2, AnalyzeMinds DEF Mindful
<1>3. CASE \E r \in OpenRenders : RenderWorks(r) \/ RenderThrows(r) \/ RenderRetries(r) \/ RenderFails(r)
  BY <1>0, <1>3, RenderMinds DEF Mindful, OpenRenders
<1>4. CASE RetryRead \/ RetryReset \/ RetryMark \/ RetryEnqueue
  BY <1>0, <1>4, RetryMinds DEF Mindful
<1>5. CASE Crash
  BY <1>0, <1>5, CrashMinds DEF Mindful
<1> QED BY <1>1, <1>2, <1>3, <1>4, <1>5 DEF Next, ApiWorks

LEMMA InitMindful == Init => Mindful
<1> SUFFICES ASSUME Init PROVE Mindful
  OBVIOUS
<1>1. IInv /\ Typed
  BY InitIInv, InitTyped
<1>2. Unborn
  BY Ids DEF Init, Unborn, With, IsQueued, NoJob
<1>3. Fresh
  BY Ids DEF Init, Fresh, NoJob
<1>4. Minded
  BY DEF Init, Minded, Wanted, With
<1> QED BY <1>1, <1>2, <1>3, <1>4 DEF Mindful

(* When nobody is about to hand out renders, every row that is not done has *)
(* one that waits or runs - but for the rows a run of the analysis that has *)
(* failed for good has created.                                             *)
THEOREM NobodyIsForgotten == Spec => []NobodyForgotten
<1>1. ASSUME Mindful PROVE NobodyForgotten
  <2> SUFFICES ASSUME ~IsOpen(tasks[Analysis]), retrying.at = "idle", NEW v \in Rows, Wanted(v)
               PROVE  GivenUp(v) \/ \E r \in Renders : r[1] = v /\ IsOpen(tasks[r])
    BY DEF NobodyForgotten, Wanted, With
  <2>1. ~ToRetry(v)
    BY DEF ToRetry
  <2> QED BY <1>1, <2>1 DEF Mindful, Minded, Pursued, Chases, At, ToFan, IsQueued, GivenUp, IsOpen
<1>2. Spec => []Mindful
  BY InitMindful, NextMindful, PTL DEF Spec
<1> QED BY <1>1, <1>2, PTL
=============================================================================
