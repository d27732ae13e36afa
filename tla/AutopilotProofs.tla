--------------------------- MODULE AutopilotProofs ---------------------------
(***************************************************************************)
(* For any number of montages, copies, accounts and attempts, and any      *)
(* failures, crashes and requests: what the publish windows promise the    *)
(* accounts, and the one alarm.                                            *)
(*                                                                         *)
(* A window plans first and books montage by montage.  PlanHolds says that *)
(* what was planned stays free while it is booked: an account is in a plan *)
(* once, and nobody but the tick gives out copies.                         *)
(***************************************************************************)
EXTENDS Autopilot, JobQueueProofs, FiniteSetTheorems

\* Nobody has the copy, and the account has no copy of its montage and nothing in flight.
FreeFor(p) ==
  /\ \A a \in Accounts : item[<<p[1], a>>] = "none"
  /\ \A c \in Copies :
       item[<<c, p[2]>>] # "none" => c[1] # p[1][1] /\ item[<<c, p[2]>>] \notin InFlight

Single(plan) == \A p, q \in plan : (p[1] = q[1] \/ p[2] = q[2]) => p = q

IsSent(p) == tick.at = "send" /\ p[1][1] = tick.b

PlanHolds ==
  /\ tick.at \notin {"book", "send"} => tick.plan = {}
  /\ Single(tick.plan)
  /\ \A p \in tick.plan : IF IsSent(p) THEN item[p] = "pending" ELSE FreeFor(p)

\* What OneFile and NeverDoubleBooked say of two posts.
OnePost ==
  \A p, q \in Copies \X Accounts :
    item[p] \in InFlight /\ item[q] \in InFlight /\ p[2] = q[2] => p = q

WindowInv == TypeOK /\ PlanHolds /\ OneFile /\ OnePost

-----------------------------------------------------------------------------
(* Types *)

TaskJobs == Jobs(Task, Places, Attempts)

LEMMA Constants ==
  Attempts \in Nat \ {0} /\ "start" \in Places /\ VariantsPer \in Nat /\ MaxBatches \in Nat
BY AutopilotAssumption DEF Places

LEMMA AddTypes ==
  ASSUME TypeOK PROVE Stall(tasks) \in TaskJobs /\ \A ids : Add(tasks, ids) \in TaskJobs
<1>1. tasks \in Jobs(Task, Places, Attempts)
  BY DEF TypeOK, Jobs
<1>2. Stall(tasks) \in TaskJobs
  BY <1>1, Constants, StallJobs DEF TaskJobs
<1>3. ASSUME NEW ids PROVE Add(tasks, ids) \in TaskJobs
  BY <1>1, Constants, AddJob DEF TaskJobs
<1> QED BY <1>2, <1>3

LEMMA QueueTypes ==
  ASSUME TypeOK, NEW t \in Task, NEW pc \in Places
  PROVE  /\ Goto(tasks, t, pc) \in TaskJobs /\ Complete(tasks, t) \in TaskJobs
         /\ FailAttempt(tasks, t, Attempts) \in TaskJobs
         /\ \A ids : Complete(Add(tasks, ids), t) \in TaskJobs
<1>1. tasks \in Jobs(Task, Places, Attempts)
  BY DEF TypeOK, Jobs
<1>2. ASSUME NEW ids PROVE Complete(Add(tasks, ids), t) \in TaskJobs
  BY AddTypes, Constants, CompleteJob DEF TaskJobs
<1>3. Goto(tasks, t, pc) \in TaskJobs
  BY <1>1, Constants, GotoJob DEF TaskJobs
<1>4. Complete(tasks, t) \in TaskJobs
  BY <1>1, Constants, CompleteJob DEF TaskJobs
<1>5. FailAttempt(tasks, t, Attempts) \in TaskJobs
  BY <1>1, Constants, FailAttemptJob DEF TaskJobs
<1> QED BY <1>2, <1>3, <1>4, <1>5

Stages == InProgress \union {"none", "ready", "failed"}

BatchType == [Batches -> [status : Stages, old : BOOLEAN, linked : BOOLEAN]]

ApType == [status : {"active", "paused", "error"}, failures : Nat, window : Windows,
           force : BOOLEAN]

LEMMA RowTypes ==
  ASSUME TypeOK PROVE batch \in BatchType /\ ap \in ApType /\ stopped \in Nat
BY DEF TypeOK, BatchType, Stages, ApType

LEMMA BatchTypes ==
  ASSUME TypeOK, NEW b \in Batches, NEW s \in Stages, Stage(b, s) \/ Outdated(b, s)
  PROVE  batch' \in BatchType
<1>1. batch \in BatchType
  BY RowTypes
<1>2. CASE Stage(b, s)
  BY <1>1, <1>2 DEF Stage, BatchType
<1>3. CASE Outdated(b, s)
  BY <1>1, <1>3 DEF Outdated, BatchType
<1> QED BY <1>2, <1>3

LEMMA CountTypes == ASSUME TypeOK, CountFailure PROVE ap' \in ApType
BY RowTypes DEF CountFailure, ApType

LEMMA StopTypes == ASSUME TypeOK, Stop PROVE stopped' \in Nat /\ ap' \in ApType
BY RowTypes DEF Stop, ApType

LEMMA ProducesTypes ==
  ASSUME TypeOK, NEW b \in Batches, Produces(b) PROVE TypeOK'
<1> DEFINE t == <<"produce", b>>
<1>1. t \in Task
  BY DEF Task
<1>2. \A pc \in Places : Goto(tasks, t, pc) \in TaskJobs
  BY <1>1, QueueTypes
<1>3. Complete(tasks, t) \in TaskJobs /\ FailAttempt(tasks, t, Attempts) \in TaskJobs
      /\ Complete(Add(tasks, {<<"analyze", b>>}), t) \in TaskJobs
  BY <1>1, QueueTypes DEF Places
<1>4. tasks' \in TaskJobs
  BY <1>2, <1>3 DEF Produces, ProduceStart, ProduceMark, ProduceLink, ProduceEnqueue,
     ProduceFails, ProduceCount, ProduceStop, Places
<1>5. batch' \in BatchType
  <2>1. CASE ProduceLink(b)
    BY <2>1 DEF ProduceLink, TypeOK, BatchType, Stages, InProgress
  <2>2. CASE ProduceMark(b) \/ ProduceFails(b)
    BY <2>2, BatchTypes DEF ProduceMark, ProduceFails, Stages, InProgress
  <2>3. CASE UNCHANGED batch
    BY <2>3, RowTypes
  <2> QED BY <2>1, <2>2, <2>3
          DEF Produces, ProduceStart, ProduceEnqueue, ProduceCount, ProduceStop
<1>6. stopped' \in Nat /\ ap' \in ApType
  <2>1. CASE ProduceCount(b)
    BY <2>1, RowTypes, CountTypes DEF ProduceCount
  <2>2. CASE ProduceStop(b)
    BY <2>2, StopTypes DEF ProduceStop
  <2>3. CASE UNCHANGED <<ap, stopped>>
    BY <2>3, RowTypes
  <2> QED BY <2>1, <2>2, <2>3
          DEF Produces, ProduceStart, ProduceMark, ProduceLink, ProduceEnqueue, ProduceFails
<1>7. project' \in [Batches -> {"none", "draft", "analyzing", "ready", "rendering", "completed",
                                "failed"}]
  BY DEF Produces, ProduceStart, ProduceMark, ProduceLink, ProduceEnqueue, ProduceFails,
     ProduceCount, ProduceStop, rows, TypeOK
<1>8. UNCHANGED <<copies, item, tick>>
  BY DEF Produces, ProduceStart, ProduceMark, ProduceLink, ProduceEnqueue, ProduceFails,
     ProduceCount, ProduceStop, rows
<1> QED BY <1>4, <1>5, <1>6, <1>7, <1>8 DEF TypeOK, TaskJobs, Jobs, BatchType, Stages, ApType

LEMMA EditsTypes ==
  ASSUME TypeOK, NEW kind \in {"analyze", "render"}, NEW b \in Batches, Edits(kind, b)
  PROVE  TypeOK'
<1>1. <<kind, b>> \in Task
  BY DEF Task
<1>2. tasks' \in TaskJobs
  BY <1>1, QueueTypes DEF Edits, EditorStart, EditorEnds, EditorFails, Places
<1>3. project' \in [Batches -> {"none", "draft", "analyzing", "ready", "rendering", "completed",
                                "failed"}]
  BY DEF Edits, EditorStart, EditorEnds, EditorFails, Working, TypeOK
<1>4. UNCHANGED <<ap, batch, copies, item, tick, stopped>>
  BY DEF Edits, EditorStart, EditorEnds, EditorFails
<1> QED BY <1>2, <1>3, <1>4 DEF TypeOK, TaskJobs, Jobs

TickType == [at : TickPlaces, todo : SUBSET Seen, b : Batches \union {0},
             accounts : SUBSET Accounts, window : Windows, force : BOOLEAN,
             plan : SUBSET (Copies \X Accounts)]

CopiesType == [Batches -> [status : {"none", "pending", "queued", "completed", "empty", "failed"},
                           fit : SUBSET (1..VariantsPer)]]

LEMMA NoTickType == NoTick \in TickType
BY DEF NoTick, TickType, TickPlaces, Windows

LEMMA TickTyped == ASSUME TypeOK PROVE tick \in TickType /\ copies \in CopiesType
BY DEF TypeOK, TickType, CopiesType

LEMMA GotoTypes ==
  ASSUME TypeOK, NEW at \in TickPlaces, TickGoto(at) PROVE tick' \in TickType
BY TickTyped DEF TickGoto, TickType

LEMMA PastTypes ==
  ASSUME TypeOK, NEW s \in tick.todo, NEW at \in TickPlaces, Past(s, at)
  PROVE  tick' \in TickType /\ tick'.plan = tick.plan /\ s.b \in Batches
<1>1. s \in Seen
  BY TickTyped DEF TickType
<1> QED BY <1>1, TickTyped DEF Past, TickType, Seen

LEMMA AdvancesTypes ==
  ASSUME TypeOK, NEW s \in tick.todo, Advances(s) \/ AdvanceEmpty(s)
  PROVE  TypeOK'
<1>1. s \in Seen /\ s.b \in Batches
  BY TickTyped DEF TickType, Seen
<1>2. tick' \in TickType
  BY PastTypes DEF Advances, AdvanceFails, AdvanceEmpty, AdvanceWaits, AdvanceToRender,
     AdvanceToUniquify, AdvanceToReady, TickPlaces
<1>3. batch' \in BatchType
  <2>1. CASE AdvanceWaits(s)
    BY <2>1, RowTypes DEF AdvanceWaits
  <2>2. CASE ~AdvanceWaits(s)
    BY <1>1, <2>2, BatchTypes DEF Advances, AdvanceFails, AdvanceEmpty, AdvanceToRender,
       AdvanceToUniquify, AdvanceToReady, Stages, InProgress
  <2> QED BY <2>1, <2>2
<1>4. ap' \in ApType
  BY RowTypes DEF Advances, AdvanceFails, AdvanceEmpty, AdvanceWaits, AdvanceToRender,
     AdvanceToUniquify, AdvanceToReady, ApType, rows
<1>5. copies' \in CopiesType
  BY <1>1, TickTyped DEF Advances, AdvanceFails, AdvanceEmpty, AdvanceWaits, AdvanceToRender,
     AdvanceToUniquify, AdvanceToReady, CopiesType, rows
<1>6. UNCHANGED <<project, item, tasks, stopped>>
  BY DEF Advances, AdvanceFails, AdvanceEmpty, AdvanceWaits, AdvanceToRender,
     AdvanceToUniquify, AdvanceToReady, rows, others
<1> QED BY <1>2, <1>3, <1>4, <1>5, <1>6 DEF TypeOK, TickType, BatchType, Stages, ApType, CopiesType

LEMMA TicksTypes ==
  ASSUME TypeOK, Ticks PROVE TypeOK'
<1> USE DEF rows, others
<1>1. CASE TickStart
  <2>1. ASSUME NEW b \in Started
        PROVE  [b |-> b, status |-> batch[b].status, old |-> batch[b].old] \in Seen
    BY RowTypes DEF Started, Seen, BatchType
  <2>2. tick' \in TickType
    BY <1>1, <2>1 DEF TickStart, NoTick, TickType, TickPlaces, Windows
  <2> QED BY <1>1, <2>2 DEF TickStart, TypeOK, TickType
<1>2. ASSUME NEW s \in tick.todo, Advances(s) PROVE TypeOK'
  BY <1>2, AdvancesTypes
<1>3. CASE RenderEnqueue \/ SupplyEnqueue
  <2>1. tasks' \in TaskJobs
    BY <1>3, AddTypes DEF RenderEnqueue, SupplyEnqueue
  <2>2. tick' \in TickType
    BY <1>3, GotoTypes DEF RenderEnqueue, SupplyEnqueue, TickPlaces
  <2> QED BY <1>3, <2>1, <2>2 DEF RenderEnqueue, SupplyEnqueue, TypeOK, TickType, TaskJobs, Jobs
<1>4. CASE UniquifyEnqueue
  <2>1. copies' \in CopiesType
    BY <1>4, TickTyped DEF UniquifyEnqueue, CopiesType
  <2>2. tick' \in TickType
    BY <1>4, GotoTypes DEF UniquifyEnqueue, TickPlaces
  <2> QED BY <1>4, <2>1, <2>2 DEF UniquifyEnqueue, TypeOK, TickType, CopiesType
<1>5. CASE TickCount
  <2>1. ap' \in ApType
    BY <1>5, CountTypes DEF TickCount
  <2>2. tick' \in TickType
    BY <1>5, GotoTypes DEF TickCount, TickPlaces
  <2> QED BY <1>5, <2>1, <2>2 DEF TickCount, TypeOK, TickType, ApType
<1>6. CASE TickStop
  <2>1. ap' \in ApType /\ stopped' \in Nat
    BY <1>6, StopTypes DEF TickStop
  <2>2. tick' \in TickType
    BY <1>6, GotoTypes DEF TickStop, TickPlaces
  <2> QED BY <1>6, <2>1, <2>2 DEF TickStop, TypeOK, TickType, ApType
<1>7. CASE Reread
  <2>1. tick' \in TickType
    <3>1. ASSUME NEW eligible \in SUBSET Accounts, NEW at \in {"supply", "window"}
          PROVE  [NoTick EXCEPT !.at = at, !.accounts = eligible, !.window = ap.window,
                                !.force = ap.force] \in TickType
      BY RowTypes, NoTickType DEF TickType, ApType, TickPlaces
    <3> QED BY <1>7, <3>1, NoTickType DEF Reread
  <2> QED BY <1>7, <2>1 DEF Reread, TypeOK, TickType
<1>8. CASE SupplyEnough
  <2>1. tick' \in TickType
    BY <1>8, GotoTypes DEF SupplyEnough, TickPlaces
  <2> QED BY <1>8, <2>1 DEF SupplyEnough, TypeOK, TickType
<1>9. CASE SupplyCreate
  <2>1. PICK b \in Batches : Stage(b, "pending") /\ tick' = [tick EXCEPT !.at = "produce", !.b = b]
    BY <1>9 DEF SupplyCreate
  <2>2. batch' \in BatchType
    BY <2>1, BatchTypes DEF Stages, InProgress
  <2>3. tick' \in TickType
    BY <2>1, TickTyped DEF TickType, TickPlaces
  <2>4. ap' \in ApType
    BY <1>9, RowTypes DEF SupplyCreate, ApType
  <2> QED BY <1>9, <2>2, <2>3, <2>4
          DEF SupplyCreate, TypeOK, TickType, BatchType, Stages, ApType
<1>10. CASE NoWindow \/ EndWindow
  <2>1. ap' \in ApType /\ tick' \in TickType
    BY <1>10, RowTypes, NoTickType DEF NoWindow, EndWindow, CloseWindow, ApType, Windows
  <2> QED BY <1>10, <2>1 DEF NoWindow, EndWindow, TypeOK, TickType, ApType
<1>11. CASE PlanWindow
  <2>1. PICK plan \in Plans : tick' = [tick EXCEPT !.at = "book", !.plan = plan]
    BY <1>11 DEF PlanWindow
  <2>2. plan \subseteq Copies \X Accounts
    BY TickTyped DEF Plans, Assignable, Ready, TickType
  <2>3. tick' \in TickType
    BY <2>1, <2>2, TickTyped DEF TickType, TickPlaces
  <2> QED BY <1>11, <2>3 DEF PlanWindow, TypeOK, TickType
<1>12. ASSUME NEW b \in Batches, Book(b) PROVE TypeOK'
  <2>1. tick' \in TickType
    BY <1>12, TickTyped DEF Book, TickType, TickPlaces
  <2>2. item' \in [Copies \X Accounts -> InFlight \union {"none", "published", "failed"}]
    BY <1>12 DEF Book, TypeOK, InFlight
  <2> QED BY <1>12, <2>1, <2>2 DEF Book, TypeOK, TickType
<1>13. CASE Send
  <2>1. tick' \in TickType
    BY <1>13, TickTyped DEF Send, TickType, TickPlaces
  <2>2. item' \in [Copies \X Accounts -> InFlight \union {"none", "published", "failed"}]
    BY <1>13 DEF Send, TypeOK, InFlight
  <2> QED BY <1>13, <2>1, <2>2 DEF Send, TypeOK, TickType
<1> QED BY <1>1, <1>2, <1>3, <1>4, <1>5, <1>6, <1>7, <1>8, <1>9, <1>10, <1>11, <1>12, <1>13
        DEF Ticks

LEMMA ElseTypes ==
  ASSUME TypeOK,
         \/ \E b \in Batches : UniquifyEnds(b) \/ Ages(b)
         \/ \E p \in Copies \X Accounts : ItemEnds(p)
         \/ TickFails \/ WindowOpens \/ WindowMissed \/ UserRequests \/ Crash
  PROVE  TypeOK'
<1> USE DEF rows
<1>1. ASSUME NEW b \in Batches, UniquifyEnds(b) PROVE TypeOK'
  <2>1. copies' \in CopiesType
    BY <1>1, TickTyped DEF UniquifyEnds, CopiesType
  <2> QED BY <1>1, <2>1 DEF UniquifyEnds, TypeOK, CopiesType
<1>2. ASSUME NEW b \in Batches, Ages(b) PROVE TypeOK'
  <2>1. batch' \in BatchType
    BY <1>2, RowTypes DEF Ages, BatchType
  <2> QED BY <1>2, <2>1 DEF Ages, TypeOK, BatchType, Stages
<1>3. ASSUME NEW p \in Copies \X Accounts, ItemEnds(p) PROVE TypeOK'
  BY <1>3 DEF ItemEnds, TypeOK
<1>4. CASE TickFails
  BY <1>4, NoTickType DEF TickFails, TypeOK, TickType
<1>5. CASE WindowOpens \/ WindowMissed \/ UserRequests
  <2>1. ap' \in ApType
    <3> USE RowTypes DEF ApType, Windows
    <3>1. CASE WindowOpens \/ WindowMissed \/ PublishNow
      BY <3>1 DEF WindowOpens, WindowMissed, PublishNow
    <3>2. CASE Activate
      BY <3>2 DEF Activate
    <3>3. CASE Pause \/ ProduceNow
      BY <3>3 DEF Pause, ProduceNow
    <3> QED BY <1>5, <3>1, <3>2, <3>3 DEF UserRequests
  <2> QED BY <1>5, <2>1 DEF WindowOpens, WindowMissed, UserRequests, Activate, Pause, ProduceNow,
          PublishNow, TypeOK, ApType
<1>6. CASE Crash
  <2>1. tasks' \in TaskJobs
    BY <1>6, AddTypes DEF Crash
  <2> QED BY <1>6, <2>1, NoTickType DEF Crash, TypeOK, TickType, TaskJobs, Jobs
<1> QED BY <1>1, <1>2, <1>3, <1>4, <1>5, <1>6

LEMMA NextTypes == TypeOK /\ [Next]_vars => TypeOK'
<1> SUFFICES ASSUME TypeOK, [Next]_vars PROVE TypeOK'
  OBVIOUS
<1>1. CASE UNCHANGED vars
  BY <1>1 DEF TypeOK, vars, rows
<1>2. CASE Next
  BY <1>2, ProducesTypes, EditsTypes, TicksTypes, AdvancesTypes, ElseTypes DEF Next
<1> QED BY <1>1, <1>2

LEMMA InitTypes == Init => TypeOK
<1>1. NoJob \in QueueJob(Places, Attempts)
  BY Constants, NewJobs
<1>2. NoTick \in TickType
  BY NoTickType
<1> QED BY <1>1, <1>2 DEF Init, TypeOK, TickType, Windows, InFlight, InProgress

(* Every row, queue job and local variable of the tick has its type, for any bounds. *)
THEOREM TypeCorrect == Spec => []TypeOK
BY InitTypes, NextTypes, PTL DEF Spec

-----------------------------------------------------------------------------
(* The windows *)

LEMMA Pairs ==
  /\ \A p \in Copies \X Accounts : p[1] \in Copies /\ p[2] \in Accounts /\ p = <<p[1], p[2]>>
  /\ \A c \in Copies : c[1] \in Batches /\ c[2] \in 1..VariantsPer /\ c = <<c[1], c[2]>>
BY DEF Copies

\* What a step may do to the posts and to the plan.
LEMMA PlanSteps ==
  ASSUME WindowInv, Next
  PROVE  \/ UNCHANGED item /\ tick'.plan = {}
         \/ UNCHANGED <<item, tick>>
         \/ PlanWindow
         \/ \E b \in Batches : Book(b)
         \/ Send
         \/ (\E p \in Copies \X Accounts : ItemEnds(p)) /\ UNCHANGED tick
<1> USE DEF rows, others
<1>1. ASSUME NEW b \in Batches, Produces(b) \/ UniquifyEnds(b) \/ Ages(b)
      PROVE  UNCHANGED <<item, tick>>
  BY <1>1 DEF Produces, ProduceStart, ProduceMark, ProduceLink, ProduceEnqueue, ProduceFails,
     ProduceCount, ProduceStop, UniquifyEnds, Ages
<1>2. ASSUME NEW kind \in {"analyze", "render"}, NEW b \in Batches, Edits(kind, b)
      PROVE  UNCHANGED <<item, tick>>
  BY <1>2 DEF Edits, EditorStart, EditorEnds, EditorFails
<1>3. CASE WindowOpens \/ WindowMissed \/ UserRequests
  BY <1>3 DEF WindowOpens, WindowMissed, UserRequests, Activate, Pause, ProduceNow, PublishNow
<1>4. CASE TickFails \/ Crash
  BY <1>4 DEF TickFails, Crash, NoTick
<1>5. ASSUME NEW s \in tick.todo, Advances(s) \/ AdvanceEmpty(s)
      PROVE  UNCHANGED item /\ tick'.plan = {}
  <2>1. UNCHANGED item /\ tick.at = "advance"
    BY <1>5 DEF Advances, AdvanceFails, AdvanceEmpty, AdvanceWaits, AdvanceToRender,
       AdvanceToUniquify, AdvanceToReady, Current
  <2>2. tick'.plan = tick.plan
    BY <1>5, PastTypes DEF Advances, AdvanceFails, AdvanceEmpty, AdvanceWaits, AdvanceToRender,
       AdvanceToUniquify, AdvanceToReady, TickPlaces, WindowInv
  <2> QED BY <2>1, <2>2 DEF WindowInv, PlanHolds
<1>6. CASE TickStart \/ Reread \/ NoWindow \/ EndWindow
  <2>1. CASE TickStart
    BY <2>1 DEF TickStart, NoTick
  <2>2. CASE Reread
    <3>1. NoTick.plan = {}
      BY DEF NoTick
    <3>2. ASSUME NEW eligible \in SUBSET Accounts,
                 tick' = [NoTick EXCEPT
                   !.at = IF eligible # {} \/ ap.force THEN "supply" ELSE "window",
                   !.accounts = eligible, !.window = ap.window, !.force = ap.force]
          PROVE  tick'.plan = {}
      BY <3>1, <3>2, NoTickType DEF TickType
    <3>3. tick'.plan = {}
      BY <2>2, <3>1, <3>2 DEF Reread
    <3>4. UNCHANGED item
      BY <2>2 DEF Reread
    <3> QED BY <3>3, <3>4
  <2>3. CASE NoWindow \/ EndWindow
    BY <2>3 DEF NoWindow, EndWindow, CloseWindow, NoTick
  <2> QED BY <1>6, <2>1, <2>2, <2>3
<1>7. CASE \/ RenderEnqueue \/ UniquifyEnqueue \/ TickCount \/ TickStop
           \/ SupplyEnough \/ SupplyCreate \/ SupplyEnqueue
  <2>1. UNCHANGED item /\ tick.at \notin {"book", "send"}
    BY <1>7 DEF RenderEnqueue, UniquifyEnqueue, TickCount, TickStop, SupplyEnough, SupplyCreate,
       SupplyEnqueue
  <2>2. tick'.plan = tick.plan
    BY <1>7, TickTyped DEF RenderEnqueue, UniquifyEnqueue, TickCount, TickStop, SupplyEnough,
       SupplyCreate, SupplyEnqueue, TickGoto, WindowInv, TickType
  <2> QED BY <2>1, <2>2 DEF WindowInv, PlanHolds
<1> QED BY <1>1, <1>2, <1>3, <1>4, <1>5, <1>6, <1>7 DEF Next, Ticks,
          ItemEnds

\* A plan is made of copies nobody has, for accounts with nothing in flight.
LEMMA PlanWindowHolds ==
  ASSUME WindowInv, PlanWindow PROVE PlanHolds' /\ OneFile' /\ OnePost'
<1>1. PICK plan \in Plans : tick' = [tick EXCEPT !.at = "book", !.plan = plan]
  BY DEF PlanWindow
<1>2. tick'.plan = plan /\ tick'.at = "book" /\ UNCHANGED item
  BY <1>1, TickTyped DEF WindowInv, TickType, PlanWindow, rows
<1>3. Single(plan)
  BY DEF Plans, Single
<1>4. ASSUME NEW p \in plan PROVE FreeFor(p)
  <2>1. p \in Ready \X tick.accounts /\ MayPost(p[2]) /\ ~Received(p[2], p[1][1])
    BY DEF Plans, Assignable
  <2>2. \A a \in Accounts : item[<<p[1], a>>] = "none"
    BY <2>1 DEF Ready, HasItem
  <2>3. ASSUME NEW c \in Copies, item[<<c, p[2]>>] # "none"
        PROVE  c[1] # p[1][1] /\ item[<<c, p[2]>>] \notin InFlight
    <3>1. c \notin ItemsOf(p[2], InFlight)
      BY <2>1 DEF MayPost
    <3>2. c = <<c[1], c[2]>> /\ c[2] \in 1..VariantsPer
      BY Pairs
    <3>3. c[1] # p[1][1]
      BY <2>1, <2>3, <3>2 DEF Received
    <3> QED BY <3>1, <3>3 DEF ItemsOf
  <2> QED BY <2>2, <2>3 DEF FreeFor
<1>5. PlanHolds'
  BY <1>2, <1>3, <1>4 DEF PlanHolds, Single, IsSent, FreeFor
<1>6. OneFile' /\ OnePost'
  BY <1>2 DEF WindowInv, OneFile, OnePost
<1> QED BY <1>5, <1>6

\* Booking one montage takes nothing from the rest of the plan.
LEMMA BookHolds ==
  ASSUME WindowInv, NEW b \in Batches, Book(b) PROVE PlanHolds' /\ OneFile' /\ OnePost'
<1> DEFINE Booked == OfBatch(b)
<1>1. /\ tick'.at = "send" /\ tick'.b = b /\ tick'.plan = tick.plan
      /\ tick.plan \subseteq Copies \X Accounts /\ tick.at = "book"
  BY TickTyped DEF WindowInv, TickType, Book
<1>2. DOMAIN item = Copies \X Accounts
  BY DEF WindowInv, TypeOK
<1>3. \A p \in Copies \X Accounts : item'[p] = IF p \in Booked THEN "pending" ELSE item[p]
  BY <1>2 DEF Book
<1>4. Single(tick.plan) /\ \A p \in tick.plan : FreeFor(p)
  BY <1>1 DEF WindowInv, PlanHolds, IsSent
<1>5. Booked = {p \in tick.plan : p[1][1] = b}
  BY DEF OfBatch
<1> HIDE DEF Booked
<1>6. ASSUME NEW p \in Booked, NEW q \in Copies \X Accounts, q \notin Booked, item[q] # "none"
      PROVE  /\ p[1] # q[1] /\ ~(p[2] = q[2] /\ p[1][1] = q[1][1])
             /\ p[2] = q[2] => item[q] \notin InFlight
  <2>1. q = <<q[1], q[2]>> /\ q[1] \in Copies /\ q[2] \in Accounts
    BY Pairs
  <2>2. FreeFor(p)
    BY <1>4, <1>5
  <2> QED BY <1>6, <2>1, <2>2 DEF FreeFor
<1>7. OneFile'
  <2> SUFFICES ASSUME NEW p \in Copies \X Accounts, NEW q \in Copies \X Accounts,
                      item'[p] # "none", item'[q] # "none",
                      p[1] = q[1] \/ (p[2] = q[2] /\ p[1][1] = q[1][1])
               PROVE  p = q
    BY DEF OneFile
  <2>1. CASE p \in Booked /\ q \in Booked
    BY <2>1, <1>4, <1>5 DEF Single
  <2>2. CASE p \notin Booked /\ q \notin Booked
    BY <2>2, <1>3 DEF WindowInv, OneFile
  <2>3. CASE p \in Booked /\ q \notin Booked
    BY <2>3, <1>3, <1>6
  <2>4. CASE p \notin Booked /\ q \in Booked
    BY <2>4, <1>3, <1>6
  <2> QED BY <2>1, <2>2, <2>3, <2>4
<1>8. OnePost'
  <2> SUFFICES ASSUME NEW p \in Copies \X Accounts, NEW q \in Copies \X Accounts,
                      item'[p] \in InFlight, item'[q] \in InFlight, p[2] = q[2]
               PROVE  p = q
    BY DEF OnePost
  <2>0. "none" \notin InFlight
    BY DEF InFlight
  <2>1. CASE p \in Booked /\ q \in Booked
    BY <2>1, <1>4, <1>5 DEF Single
  <2>2. CASE p \notin Booked /\ q \notin Booked
    BY <2>2, <1>3 DEF WindowInv, OnePost
  <2>3. CASE p \in Booked /\ q \notin Booked
    BY <2>0, <2>3, <1>3, <1>6
  <2>4. CASE p \notin Booked /\ q \in Booked
    BY <2>0, <2>4, <1>3, <1>6
  <2> QED BY <2>1, <2>2, <2>3, <2>4
<1>9. ASSUME NEW p \in tick.plan, p[1][1] = b PROVE item'[p] = "pending"
  BY <1>1, <1>3, <1>5, <1>9
<1>10. ASSUME NEW p \in tick.plan, p[1][1] # b PROVE FreeFor(p)'
  <2>1. FreeFor(p)
    BY <1>4
  <2>2. \A a \in Accounts : <<p[1], a>> \notin Booked
    BY <1>5, <1>10
  <2>3. \A c \in Copies : <<c, p[2]>> \notin Booked
    BY <1>4, <1>5, <1>10 DEF Single
  <2>4. p[1] \in Copies /\ p[2] \in Accounts
    BY <1>1, Pairs
  <2> QED BY <1>3, <2>1, <2>2, <2>3, <2>4 DEF FreeFor
<1>11. PlanHolds'
  BY <1>1, <1>4, <1>9, <1>10 DEF PlanHolds, IsSent, Single
<1> QED BY <1>7, <1>8, <1>11

\* A step that gives out no copy and puts nothing in flight keeps what holds of the posts.
LEMMA FewerPosts ==
  ASSUME WindowInv,
         \A p \in Copies \X Accounts : /\ item'[p] # "none" => item[p] # "none"
                                       /\ item'[p] \in InFlight => item[p] \in InFlight
  PROVE  /\ OneFile' /\ OnePost'
         /\ \A p \in Copies \X Accounts : FreeFor(p) => FreeFor(p)'
<1>1. OneFile'
  BY DEF WindowInv, OneFile
<1>2. OnePost'
  BY DEF WindowInv, OnePost
<1>3. ASSUME NEW p \in Copies \X Accounts, FreeFor(p) PROVE FreeFor(p)'
  <2>1. p[1] \in Copies /\ p[2] \in Accounts
    BY Pairs
  <2> QED BY <1>3, <2>1 DEF FreeFor
<1> QED BY <1>1, <1>2, <1>3

LEMMA SendHolds ==
  ASSUME WindowInv, Send PROVE PlanHolds' /\ OneFile' /\ OnePost'
<1>1. /\ tick'.at = "book" /\ tick'.plan = tick.plan \ OfBatch(tick.b)
      /\ tick.plan \subseteq Copies \X Accounts /\ tick.at = "send"
  BY TickTyped DEF WindowInv, TickType, Send
<1>2. DOMAIN item = Copies \X Accounts
  BY DEF WindowInv, TypeOK
<1>3. \A p \in Copies \X Accounts :
        item'[p] = IF p \in OfBatch(tick.b) THEN "scheduled" ELSE item[p]
  BY <1>2 DEF Send
<1>4. \A p \in OfBatch(tick.b) : item[p] = "pending"
  BY <1>1 DEF WindowInv, PlanHolds, IsSent, OfBatch
<1>5. \A p \in Copies \X Accounts : /\ item'[p] # "none" => item[p] # "none"
                                    /\ item'[p] \in InFlight => item[p] \in InFlight
  BY <1>3, <1>4 DEF InFlight
<1>6. \A p \in tick'.plan : FreeFor(p)
  BY <1>1 DEF WindowInv, PlanHolds, IsSent, OfBatch
<1>7. PlanHolds'
  BY <1>1, <1>5, <1>6, FewerPosts DEF PlanHolds, IsSent, Single, WindowInv
<1> QED BY <1>5, <1>7, FewerPosts

LEMMA EndHolds ==
  ASSUME WindowInv, NEW q \in Copies \X Accounts, ItemEnds(q), UNCHANGED tick
  PROVE  PlanHolds' /\ OneFile' /\ OnePost'
<1>1. \A p \in Copies \X Accounts : /\ item'[p] # "none" => item[p] # "none"
                                    /\ item'[p] \in InFlight => item[p] \in InFlight
                                    /\ item[p] = "pending" => item'[p] = "pending"
  BY DEF ItemEnds, WindowInv, TypeOK, InFlight
<1>2. tick.plan \subseteq Copies \X Accounts
  BY TickTyped DEF WindowInv, TickType
<1>3. PlanHolds'
  BY <1>1, <1>2, FewerPosts DEF PlanHolds, IsSent, Single, WindowInv
<1> QED BY <1>1, <1>3, FewerPosts

LEMMA NextWindow == WindowInv /\ [Next]_vars => WindowInv'
<1> SUFFICES ASSUME WindowInv, [Next]_vars PROVE WindowInv'
  OBVIOUS
<1>0. TypeOK'
  BY NextTypes DEF WindowInv
<1>1. CASE UNCHANGED <<item, tick>>
  BY <1>0, <1>1 DEF WindowInv, PlanHolds, Single, IsSent, FreeFor, OneFile, OnePost
<1>2. CASE UNCHANGED item /\ tick'.plan = {}
  BY <1>0, <1>2 DEF WindowInv, PlanHolds, Single, OneFile, OnePost
<1>3. CASE UNCHANGED vars
  BY <1>1, <1>3 DEF vars, rows
<1> QED BY <1>0, <1>1, <1>2, <1>3, PlanSteps, PlanWindowHolds, BookHolds, SendHolds, EndHolds
        DEF WindowInv

LEMMA InitWindow == Init => WindowInv
BY InitTypes DEF Init, WindowInv, PlanHolds, Single, OneFile, OnePost, NoTick, InFlight

THEOREM WindowInvariance == Spec => []WindowInv
BY InitWindow, NextWindow, PTL DEF Spec

(* No copy goes to two accounts, no account gets two copies of a montage.   *)
THEOREM NoFileTwice == Spec => []OneFile
<1>1. WindowInv => OneFile
  BY DEF WindowInv
<1> QED BY <1>1, WindowInvariance, PTL

(* No account ever has two posts in flight.                                 *)
THEOREM OnePostAtATime == Spec => []NeverDoubleBooked
<1>1. ASSUME WindowInv PROVE NeverDoubleBooked
  <2> SUFFICES ASSUME NEW a \in Accounts PROVE Cardinality(ItemsOf(a, InFlight)) <= 1
    BY DEF NeverDoubleBooked
  <2>1. \A c, d \in ItemsOf(a, InFlight) : c = d
    <3> SUFFICES ASSUME NEW c \in ItemsOf(a, InFlight), NEW d \in ItemsOf(a, InFlight)
                 PROVE  c = d
      OBVIOUS
    <3>1. /\ <<c, a>> \in Copies \X Accounts /\ <<d, a>> \in Copies \X Accounts
          /\ item[<<c, a>>] \in InFlight /\ item[<<d, a>>] \in InFlight
      BY DEF ItemsOf
    <3>2. <<c, a>> = <<d, a>>
      BY <1>1, <3>1 DEF WindowInv, OnePost
    <3> QED BY <3>2
  <2>2. CASE ItemsOf(a, InFlight) = {}
    BY <2>2, FS_EmptySet
  <2>3. CASE ItemsOf(a, InFlight) # {}
    <3>1. PICK c : ItemsOf(a, InFlight) = {c}
      BY <2>1, <2>3
    <3>2. Cardinality({c}) = 1
      BY FS_Singleton
    <3> QED BY <3>1, <3>2
  <2> QED BY <2>2, <2>3
<1> QED BY <1>1, WindowInvariance, PTL

-----------------------------------------------------------------------------
(* The alarm *)

AlarmInv ==
  /\ TypeOK
  /\ NotifiedOnce
  /\ ap.status = "active" => stopped = 0

LEMMA AlarmSteps ==
  ASSUME TypeOK, Next
  PROVE  \/ ap'.status = ap.status /\ UNCHANGED stopped
         \/ Stop \/ Activate \/ Pause
<1> USE RowTypes DEF ApType, rows, others
<1>1. ASSUME NEW b \in Batches, Produces(b) \/ UniquifyEnds(b) \/ Ages(b)
      PROVE  (ap'.status = ap.status /\ UNCHANGED stopped) \/ Stop
  BY <1>1 DEF Produces, ProduceStart, ProduceMark, ProduceLink, ProduceEnqueue, ProduceFails,
     ProduceCount, ProduceStop, CountFailure, UniquifyEnds, Ages
<1>2. ASSUME NEW kind \in {"analyze", "render"}, NEW b \in Batches, Edits(kind, b)
      PROVE  UNCHANGED <<ap, stopped>>
  BY <1>2 DEF Edits, EditorStart, EditorEnds, EditorFails
<1>3. CASE WindowOpens \/ WindowMissed \/ ProduceNow \/ PublishNow
  BY <1>3 DEF WindowOpens, WindowMissed, ProduceNow, PublishNow
<1>4. CASE TickFails \/ Crash \/ \E p \in Copies \X Accounts : ItemEnds(p)
  BY <1>4 DEF TickFails, Crash, ItemEnds
<1>5. ASSUME NEW s \in tick.todo, Advances(s) \/ AdvanceEmpty(s)
      PROVE  ap'.status = ap.status /\ UNCHANGED stopped
  BY <1>5 DEF Advances, AdvanceFails, AdvanceEmpty, AdvanceWaits, AdvanceToRender,
     AdvanceToUniquify, AdvanceToReady
<1>6. CASE \/ TickStart \/ RenderEnqueue \/ UniquifyEnqueue \/ TickCount \/ Reread
           \/ SupplyEnough \/ SupplyCreate \/ SupplyEnqueue \/ NoWindow \/ PlanWindow
           \/ (\E b \in Batches : Book(b)) \/ Send \/ EndWindow
  BY <1>6 DEF TickStart, RenderEnqueue, UniquifyEnqueue, TickCount, CountFailure, Reread,
     SupplyEnough, SupplyCreate, SupplyEnqueue, NoWindow, PlanWindow, Book, Send, EndWindow,
     CloseWindow
<1>7. CASE TickStop
  BY <1>7 DEF TickStop
<1> QED BY <1>1, <1>2, <1>3, <1>4, <1>5, <1>6, <1>7 DEF Next, Ticks, UserRequests

LEMMA NextAlarm == AlarmInv /\ [Next]_vars => AlarmInv'
<1> SUFFICES ASSUME AlarmInv, [Next]_vars PROVE AlarmInv'
  OBVIOUS
<1>0. TypeOK' /\ ap \in ApType /\ stopped \in Nat
  BY NextTypes, RowTypes DEF AlarmInv
<1>1. CASE ap'.status = ap.status /\ UNCHANGED stopped
  BY <1>0, <1>1 DEF AlarmInv, NotifiedOnce
<1>2. CASE Stop
  BY <1>0, <1>2 DEF AlarmInv, NotifiedOnce, Stop, ApType
<1>3. CASE Activate \/ Pause
  <2>1. NotifiedOnce' /\ (ap'.status = "active" => stopped' = 0)
    <3>1. CASE Activate
      BY <1>0, <3>1 DEF NotifiedOnce, Activate, ApType
    <3>2. CASE Pause
      BY <1>0, <3>2 DEF AlarmInv, NotifiedOnce, Pause, ApType
    <3> QED BY <1>3, <3>1, <3>2
  <2> QED BY <1>0, <2>1 DEF AlarmInv
<1>4. CASE UNCHANGED vars
  BY <1>1, <1>4 DEF vars
<1> QED BY <1>1, <1>2, <1>3, <1>4, AlarmSteps DEF AlarmInv

(* Between two activations the autopilot is stopped, and reported, once.    *)
THEOREM OneAlarm == Spec => []NotifiedOnce
<1>1. Init => AlarmInv
  BY InitTypes DEF Init, AlarmInv, NotifiedOnce
<1>2. AlarmInv => NotifiedOnce
  BY DEF AlarmInv
<1> QED BY <1>1, <1>2, NextAlarm, PTL DEF Spec
=============================================================================
