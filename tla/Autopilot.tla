----------------------------- MODULE Autopilot -----------------------------
(***************************************************************************)
(* One autopilot: the scheduler's tick (autopilot/loop.ts) keeps a buffer  *)
(* of montage batches going, moves each of them on by polling what its     *)
(* stage has come to, and in every publish window gives accounts of the    *)
(* phone farm a fresh copy to post.  The first stage is a worker of its    *)
(* own (autopilot-produce.worker.ts), the next two are the editor's        *)
(* (editor-analyze, editor-render), the last one is a uniquification       *)
(* (module Uniquify).  A user starts and pauses it (autopilot.routes.ts).  *)
(*                                                                         *)
(* A handler is one action per await that another one can observe.         *)
(***************************************************************************)
EXTENDS JobQueue, FiniteSets

CONSTANTS
  Accounts,      \* phone accounts in the autopilot's scope
  MaxBatches,    \* bound: montages
  Buffer,        \* the montages that are ready when it is activated (again)
  VariantsPer,   \* variantsPerMontage
  MaxParallel,   \* maxParallelBatches
  BufferWindows, \* bufferWindows
  Attempts,      \* of the jobs of the three queues: 2
  Quota,         \* posts of an account in a day: publishTimes, maxPostsPerDay
  MaxFailures,   \* MAX_CONSECUTIVE_FAILURES
  Requests,      \* what the user does: a subset of RequestKinds
  MaxEvents, MaxCrashes, MaxWindows \* bounds: failures, crashes and requests; crashes; windows

RequestKinds == {"activate", "pause", "produce-now", "publish-now"}

ASSUME AutopilotAssumption ==
  /\ IsFiniteSet(Accounts)
  /\ {MaxParallel, BufferWindows, MaxFailures, VariantsPer, Attempts} \subseteq Nat \ {0}
  /\ Requests \subseteq RequestKinds /\ Buffer \subseteq 1..MaxBatches
  /\ {MaxBatches, Quota, MaxEvents, MaxCrashes, MaxWindows} \subseteq Nat

Batches == 1..MaxBatches
Copies  == Batches \X (1..VariantsPer)
Task    == {"produce", "analyze", "render"} \X Batches

VARIABLES
  ap,      \* Autopilot: status, consecutiveFailures, nextWindowAt, forceProduce
  batch,   \* AutopilotBatch: status; old: its stage has timed out; linked: editProjectId is set
  project, \* status of its EditProject
  copies,  \* its UniquifyJob: status, and the variants that are fit to post
  item,    \* DistributeItem of a copy and an account
  tasks,   \* queue jobs of the produce worker and of the editor
  tick,    \* where the scheduler's tick is and what it has read
  stopped, \* history: failed batches that have stopped the autopilot since it was started
  left     \* bounds

rows == <<project, copies, item>>
vars == <<ap, batch, rows, tasks, tick, stopped, left>>

InProgress == {"pending", "scripting", "analyzing", "rendering", "uniquifying"}
InFlight   == {"pending", "scheduled"}
Counted    == InFlight \union {"published"}

TickPlaces == {"idle", "advance", "count", "stop", "render", "uniquify", "supply", "produce",
               "window", "book", "send"}
Places == {"start", "checked", "scripting", "linked", "count", "stop", "working"}

\* nextWindowAt: null, in the future, reached, or missed by more than 90 minutes.
Windows == {"none", "ahead", "due", "late"}

Seen == [b : Batches, status : InProgress, old : BOOLEAN]

NoTick == [at |-> "idle", todo |-> {}, b |-> 0, accounts |-> {}, window |-> "none",
           force |-> FALSE, plan |-> {}]

TypeOK ==
  /\ ap \in [status : {"active", "paused", "error"}, failures : Nat, window : Windows,
             force : BOOLEAN]
  /\ batch \in [Batches -> [status : InProgress \union {"none", "ready", "failed"},
                            old : BOOLEAN, linked : BOOLEAN]]
  /\ project \in [Batches -> {"none", "draft", "analyzing", "ready", "rendering", "completed",
                              "failed"}]
  /\ copies \in [Batches -> [status : {"none", "pending", "queued", "completed", "empty", "failed"},
                             fit : SUBSET (1..VariantsPer)]]
  /\ item \in [Copies \X Accounts -> InFlight \union {"none", "published", "failed"}]
  /\ tasks \in [Task -> QueueJob(Places, Attempts)]
  /\ tick \in [at : TickPlaces, todo : SUBSET Seen, b : Batches \union {0},
               accounts : SUBSET Accounts, window : Windows, force : BOOLEAN,
               plan : SUBSET (Copies \X Accounts)]
  /\ stopped \in Nat

\* It has just been activated.
Init ==
  /\ ap = [status |-> "active", failures |-> 0, window |-> "none", force |-> FALSE]
  /\ batch = [b \in Batches |-> [status |-> IF b \in Buffer THEN "ready" ELSE "none",
                                 old |-> FALSE, linked |-> b \in Buffer]]
  /\ project = [b \in Batches |-> IF b \in Buffer THEN "completed" ELSE "none"]
  /\ copies \in [Batches -> [status : {"none", "completed"}, fit : SUBSET (1..VariantsPer)]]
  /\ \A b \in Batches : IF b \in Buffer THEN copies[b].status = "completed"
                        ELSE copies[b] = [status |-> "none", fit |-> {}]
  /\ item = [p \in Copies \X Accounts |-> "none"]
  /\ tasks = [t \in Task |-> NoJob]
  /\ tick = NoTick
  /\ stopped = 0
  /\ left = [events |-> MaxEvents, crashes |-> MaxCrashes, windows |-> MaxWindows]

Use(bound) ==
  /\ left[bound] > 0
  /\ left' = [left EXCEPT ![bound] = left[bound] - 1]

UseCrash ==
  /\ left.crashes > 0 /\ left.events > 0
  /\ left' = [left EXCEPT !.crashes = left.crashes - 1, !.events = left.events - 1]

\* The batch enters a stage: status and stageStartedAt.
Stage(b, s) == batch' = [batch EXCEPT ![b].status = s, ![b].old = FALSE]
Outdated(b, s) == batch' = [batch EXCEPT ![b].status = s]

(* Mutant: whatever is not ready is in progress. *)
StartedMutant == {b \in Batches : batch[b].status # "ready"}

Started == {b \in Batches : batch[b].status \in InProgress}

-----------------------------------------------------------------------------
(* failBatch (journal.ts), called by the tick and by the produce worker:   *)
(* the batch first, then the count, then the autopilot.                    *)

MustStop == ap.failures + 1 >= MaxFailures /\ ap.status = "active"

CountFailure == ap' = [ap EXCEPT !.failures = ap.failures + 1]

(* Mutant: the status that was read with the count decides. *)
StopMutant ==
  /\ ap' = [ap EXCEPT !.status = "error"]
  /\ stopped' = stopped + 1

\* "Compare-and-set on status"
Stop ==
  IF ap.status = "active"
  THEN ap' = [ap EXCEPT !.status = "error"] /\ stopped' = stopped + 1
  ELSE UNCHANGED <<ap, stopped>>

-----------------------------------------------------------------------------
(* autopilot-produce.worker.ts                                             *)

At(t, pc) == tasks[t].st = "active" /\ tasks[t].pc = pc

ProduceStart(b) ==
  LET t == <<"produce", b>> IN
  /\ tasks[t].st = "waiting"
  /\ tasks' = IF batch[b].status \in {"pending", "scripting"} /\ ~batch[b].linked
              THEN Goto(tasks, t, "checked") ELSE Complete(tasks, t)
  /\ UNCHANGED <<ap, batch, rows, tick, stopped, left>>

ProduceMark(b) ==
  LET t == <<"produce", b>> IN
  /\ At(t, "checked")
  /\ Stage(b, "scripting")
  /\ tasks' = Goto(tasks, t, "scripting")
  /\ UNCHANGED <<ap, rows, tick, stopped, left>>

\* Script, voiceover, the project of the montage and the link to it.  (One that is not linked
\* any more when a failure comes in between is left behind.)
ProduceLink(b) ==
  LET t == <<"produce", b>> IN
  /\ At(t, "scripting")
  /\ batch' = [batch EXCEPT ![b] = [status |-> "analyzing", old |-> FALSE, linked |-> TRUE]]
  /\ project' = [project EXCEPT ![b] = "draft"]
  /\ tasks' = Goto(tasks, t, "linked")
  /\ UNCHANGED <<ap, copies, item, tick, stopped, left>>

ProduceEnqueue(b) ==
  LET t == <<"produce", b>> IN
  /\ At(t, "linked")
  /\ tasks' = Complete(Add(tasks, {<<"analyze", b>>}), t)
  /\ UNCHANGED <<ap, batch, rows, tick, stopped, left>>

\* Anything in the try block throws.
ProduceFails(b) ==
  LET t == <<"produce", b>> IN
  /\ Use("events")
  /\ At(t, "scripting") \/ At(t, "linked")
  /\ IF IsLastAttempt(tasks[t], Attempts)
     THEN Outdated(b, "failed") /\ tasks' = Goto(tasks, t, "count")
     ELSE Outdated(b, "pending") /\ tasks' = FailAttempt(tasks, t, Attempts)
  /\ UNCHANGED <<ap, rows, tick, stopped>>

ProduceCount(b) ==
  LET t == <<"produce", b>> IN
  /\ At(t, "count")
  /\ CountFailure
  /\ tasks' = IF MustStop THEN Goto(tasks, t, "stop") ELSE Complete(tasks, t)
  /\ UNCHANGED <<batch, rows, tick, stopped, left>>

ProduceStop(b) ==
  LET t == <<"produce", b>> IN
  /\ At(t, "stop")
  /\ Stop
  /\ tasks' = Complete(tasks, t)
  /\ UNCHANGED <<batch, rows, tick, left>>

-----------------------------------------------------------------------------
(* editor-analyze.worker.ts, editor-render.worker.ts: kind is the queue    *)

Working(kind) == IF kind = "analyze" THEN "analyzing" ELSE "rendering"

EditorStart(kind, b) ==
  /\ tasks[<<kind, b>>].st = "waiting"
  /\ \A c \in Batches : tasks[<<kind, c>>].st # "active"
  /\ project' = [project EXCEPT ![b] = Working(kind)]
  /\ tasks' = Goto(tasks, <<kind, b>>, "working")
  /\ UNCHANGED <<ap, batch, copies, item, tick, stopped, left>>

EditorEnds(kind, b) ==
  /\ At(<<kind, b>>, "working")
  /\ project' = [project EXCEPT ![b] = IF kind = "analyze" THEN "ready" ELSE "completed"]
  /\ tasks' = Complete(tasks, <<kind, b>>)
  /\ UNCHANGED <<ap, batch, copies, item, tick, stopped, left>>

EditorFails(kind, b) ==
  /\ Use("events")
  /\ At(<<kind, b>>, "working")
  /\ project' = [project EXCEPT ![b] = IF IsLastAttempt(tasks[<<kind, b>>], Attempts)
                                       THEN "failed" ELSE Working(kind)]
  /\ tasks' = FailAttempt(tasks, <<kind, b>>, Attempts)
  /\ UNCHANGED <<ap, batch, copies, item, tick, stopped>>

\* The uniquification of the batch ends (module Uniquify); weak copies are not fit to post.
UniquifyEnds(b) ==
  /\ copies[b].status = "queued"
  /\ \/ /\ \E fit \in SUBSET (1..VariantsPer) :
               copies' = [copies EXCEPT ![b] = [status |-> "completed", fit |-> fit]]
        /\ UNCHANGED left
     \/ /\ Use("events")
        /\ \E s \in {"failed", "empty"} : copies' = [copies EXCEPT ![b].status = s]
  /\ UNCHANGED <<ap, batch, project, item, tasks, tick, stopped>>

\* The distribution ends (module Publishing).
ItemEnds(p) ==
  /\ item[p] = "scheduled"
  /\ \/ item' = [item EXCEPT ![p] = "published"] /\ UNCHANGED left
     \/ item' = [item EXCEPT ![p] = "failed"] /\ Use("events")
  /\ UNCHANGED <<ap, batch, project, copies, tasks, tick, stopped>>

-----------------------------------------------------------------------------
(* The tick: advanceBatches                                                *)

others == <<item, stopped, left>>

TickGoto(at) == tick' = [tick EXCEPT !.at = at, !.b = 0]

TickStart ==
  /\ tick.at = "idle"
  /\ ap.status = "active"
  /\ tick' = [NoTick EXCEPT !.at = "advance",
       !.todo = {[b |-> b, status |-> batch[b].status, old |-> batch[b].old] : b \in Started}]
  /\ UNCHANGED <<ap, batch, rows, tasks, stopped, left>>

\* The oldest batch of the list.
Current(s) == tick.at = "advance" /\ s \in tick.todo /\ \A r \in tick.todo : s.b <= r.b

Past(s, at) ==
  tick' = [tick EXCEPT !.at = at, !.todo = tick.todo \ {s},
                       !.b = IF at \in {"render", "uniquify"} THEN s.b ELSE 0]

\* What has gone wrong with a batch: it must not go on.
Broken(s) ==
  \/ s.status \in {"analyzing", "rendering"} /\ project[s.b] = "failed"
  \/ s.status = "uniquifying" /\ copies[s.b].status \in {"failed", "empty"}

\* What there is to do for it: its stage has come to something.
IsOver(s) ==
  \/ s.status = "analyzing" /\ project[s.b] = "ready"
  \/ s.status = "rendering" /\ project[s.b] = "completed"
  \/ s.status = "uniquifying" /\ copies[s.b].status = "completed"

(* Mutant: only the editor's stages have a time limit. *)
AdvanceFailsMutant(s) ==
  /\ Current(s)
  /\ Broken(s) \/ (s.old /\ s.status \in {"analyzing", "rendering"} /\ ~IsOver(s))
  /\ Outdated(s.b, "failed")
  /\ Past(s, "count")
  /\ UNCHANGED <<ap, project, copies, tasks, others>>

AdvanceFails(s) ==
  /\ Current(s)
  /\ Broken(s) \/ (s.old /\ ~IsOver(s))
  /\ Outdated(s.b, "failed")
  /\ Past(s, "count")
  /\ UNCHANGED <<ap, project, copies, tasks, others>>

\* The editor has proposed no clip, or has rendered none.
AdvanceEmpty(s) ==
  /\ Use("events")
  /\ Current(s)
  /\ s.status \in {"analyzing", "rendering"} /\ IsOver(s)
  /\ Outdated(s.b, "failed")
  /\ Past(s, "count")
  /\ UNCHANGED <<ap, rows, tasks, stopped>>

AdvanceWaits(s) ==
  /\ Current(s)
  /\ ~s.old /\ ~Broken(s) /\ ~IsOver(s)
  /\ Past(s, "advance")
  /\ UNCHANGED <<ap, batch, project, copies, tasks, others>>

\* "Auto-confirm the storyboard"
AdvanceToRender(s) ==
  /\ Current(s)
  /\ s.status = "analyzing" /\ IsOver(s)
  /\ Stage(s.b, "rendering")
  /\ Past(s, "render")
  /\ UNCHANGED <<ap, project, copies, tasks, others>>

RenderEnqueue ==
  /\ tick.at = "render"
  /\ tasks' = Add(tasks, {<<"render", tick.b>>})
  /\ TickGoto("advance")
  /\ UNCHANGED <<ap, batch, project, copies, others>>

\* startUniquify
AdvanceToUniquify(s) ==
  /\ Current(s)
  /\ s.status = "rendering" /\ IsOver(s)
  /\ Stage(s.b, "uniquifying")
  /\ copies' = [copies EXCEPT ![s.b].status = "pending"]
  /\ Past(s, "uniquify")
  /\ UNCHANGED <<ap, project, tasks, others>>

UniquifyEnqueue ==
  /\ tick.at = "uniquify"
  /\ copies' = [copies EXCEPT ![tick.b].status = "queued"]
  /\ TickGoto("advance")
  /\ UNCHANGED <<ap, batch, project, tasks, others>>

AdvanceToReady(s) ==
  /\ Current(s)
  /\ s.status = "uniquifying" /\ IsOver(s)
  /\ Outdated(s.b, "ready")
  /\ ap' = [ap EXCEPT !.failures = 0]
  /\ Past(s, "advance")
  /\ UNCHANGED <<project, copies, tasks, others>>

TickCount ==
  /\ tick.at = "count"
  /\ CountFailure
  /\ TickGoto(IF MustStop THEN "stop" ELSE "advance")
  /\ UNCHANGED <<batch, rows, tasks, stopped, left>>

TickStop ==
  /\ tick.at = "stop"
  /\ Stop
  /\ TickGoto("advance")
  /\ UNCHANGED <<batch, rows, tasks, left>>

-----------------------------------------------------------------------------
(* tickOne, topUpSupply                                                    *)

\* "Re-read: advancing may have flipped the autopilot to error"; eligible accounts.
Reread ==
  /\ tick.at = "advance"
  /\ tick.todo = {}
  /\ IF ap.status # "active" THEN tick' = NoTick
     ELSE \E eligible \in SUBSET Accounts :
            tick' = [NoTick EXCEPT !.at = IF eligible # {} \/ ap.force THEN "supply" ELSE "window",
                                   !.accounts = eligible, !.window = ap.window, !.force = ap.force]
  /\ UNCHANGED <<ap, batch, rows, tasks, stopped, left>>

HasItem(c) == \E a \in Accounts : item[<<c, a>>] # "none"

Fit(c) == batch[c[1]].status = "ready" /\ c[2] \in copies[c[1]].fit

\* countReadyVariants
Ready == {c \in Copies : Fit(c) /\ ~HasItem(c)}

NeedsMore ==
  /\ Cardinality(Started) < MaxParallel
  /\ \/ tick.force
     \/ Cardinality(Ready) + Cardinality(Started) * VariantsPer
          < Cardinality(tick.accounts) * BufferWindows

\* Enough is there or under way; or it is not, and the project has no source left, which may
\* be so at any time.
SupplyEnough ==
  /\ tick.at = "supply"
  /\ TickGoto("window")
  /\ UNCHANGED <<ap, batch, rows, tasks, stopped, left>>

SupplyCreate ==
  /\ tick.at = "supply"
  /\ NeedsMore
  /\ ap' = [ap EXCEPT !.force = IF tick.force THEN FALSE ELSE ap.force]
  /\ \E b \in Batches :
       /\ batch[b].status = "none" /\ \A c \in Batches : c < b => batch[c].status # "none"
       /\ Stage(b, "pending")
       /\ tick' = [tick EXCEPT !.at = "produce", !.b = b]
  /\ UNCHANGED <<rows, tasks, stopped, left>>

SupplyEnqueue ==
  /\ tick.at = "produce"
  /\ tasks' = Add(tasks, {<<"produce", tick.b>>})
  /\ TickGoto("window")
  /\ UNCHANGED <<ap, batch, rows, stopped, left>>

-----------------------------------------------------------------------------
(* tickOne, distributeWindow                                               *)

\* The window is over, or has been computed for the first time; nothing to do otherwise.
CloseWindow ==
  /\ ap' = [ap EXCEPT !.window = IF tick.window = "ahead" THEN ap.window ELSE "ahead"]
  /\ tick' = NoTick

NoWindow ==
  /\ tick.at = "window"
  /\ tick.window # "due" \/ tick.accounts = {}
  /\ CloseWindow
  /\ UNCHANGED <<batch, rows, tasks, stopped, left>>

ItemsOf(a, statuses) == {c \in Copies : item[<<c, a>>] \in statuses}

(* Mutant: a post that is not in a queue yet is not in flight. *)
MayPostMutant(a) ==
  /\ Cardinality(ItemsOf(a, Counted)) < Quota
  /\ ItemsOf(a, {"scheduled"}) = {}

\* "an account whose previous post is still uploading is never double-booked"
MayPost(a) ==
  /\ Cardinality(ItemsOf(a, Counted)) < Quota
  /\ ItemsOf(a, InFlight) = {}

(* Mutant: a montage whose post has failed counts as not received. *)
ReceivedMutant(a, b) ==
  \E i \in 1..VariantsPer : item[<<<<b, i>>, a>>] \in Counted

Received(a, b) == \E i \in 1..VariantsPer : item[<<<<b, i>>, a>>] # "none"

\* The loop gives every account the first copy left of a montage that it has not received;
\* which accounts and copies come first is left open.
Assignable(plan) ==
  {p \in Ready \X tick.accounts :
     /\ MayPost(p[2]) /\ ~Received(p[2], p[1][1])
     /\ \A q \in plan : q[1] # p[1] /\ q[2] # p[2]}

Plans ==
  LET single(plan) == \A p, q \in plan : (p[1] = q[1] \/ p[2] = q[2]) => p = q
  IN  {plan \in SUBSET Assignable({}) : single(plan) /\ Assignable(plan) = {}}

PlanWindow ==
  /\ tick.at = "window"
  /\ tick.window = "due" /\ tick.accounts # {}
  /\ \E plan \in Plans : tick' = [tick EXCEPT !.at = "book", !.plan = plan]
  /\ UNCHANGED <<ap, batch, rows, tasks, stopped, left>>

OfBatch(b) == {p \in tick.plan : p[1][1] = b}

\* One distribution for each montage, in a transaction, then its queue job.
Book(b) ==
  /\ tick.at = "book"
  /\ OfBatch(b) # {}
  /\ item' = [p \in DOMAIN item |-> IF p \in OfBatch(b) THEN "pending" ELSE item[p]]
  /\ tick' = [tick EXCEPT !.at = "send", !.b = b]
  /\ UNCHANGED <<ap, batch, project, copies, tasks, stopped, left>>

Send ==
  /\ tick.at = "send"
  /\ item' = [p \in DOMAIN item |-> IF p \in OfBatch(tick.b) THEN "scheduled" ELSE item[p]]
  /\ tick' = [tick EXCEPT !.at = "book", !.b = 0, !.plan = tick.plan \ OfBatch(tick.b)]
  /\ UNCHANGED <<ap, batch, project, copies, tasks, stopped, left>>

EndWindow ==
  /\ tick.at = "book"
  /\ tick.plan = {}
  /\ CloseWindow
  /\ UNCHANGED <<batch, rows, tasks, stopped, left>>

\* A call to the database or to Redis throws: the rest of the tick is left out.
TickFails ==
  /\ Use("events")
  /\ tick.at # "idle"
  /\ tick' = NoTick
  /\ UNCHANGED <<ap, batch, rows, tasks, stopped>>

-----------------------------------------------------------------------------
(* Time, the user and crashes                                              *)

Ages(b) ==
  /\ batch[b].status \in InProgress /\ ~batch[b].old
  /\ batch' = [batch EXCEPT ![b].old = TRUE]
  /\ UNCHANGED <<ap, rows, tasks, tick, stopped, left>>

WindowOpens ==
  /\ Use("windows")
  /\ ap.window = "ahead"
  /\ ap' = [ap EXCEPT !.window = "due"]
  /\ UNCHANGED <<batch, rows, tasks, tick, stopped>>

WindowMissed ==
  /\ ap.window = "due" /\ tick.at = "idle"
  /\ ap' = [ap EXCEPT !.window = "late"]
  /\ UNCHANGED <<batch, rows, tasks, tick, stopped, left>>

Request(kind) == kind \in Requests /\ Use("events")

Activate ==
  /\ Request("activate")
  /\ ap' = [ap EXCEPT !.status = "active", !.failures = 0, !.window = "none"]
  /\ stopped' = 0
  /\ UNCHANGED <<batch, rows, tasks, tick>>

Pause ==
  /\ Request("pause")
  /\ ap' = [ap EXCEPT !.status = "paused"]
  /\ UNCHANGED <<batch, rows, tasks, tick, stopped>>

ProduceNow ==
  /\ Request("produce-now")
  /\ ap.status = "active"
  /\ ap' = [ap EXCEPT !.force = TRUE]
  /\ UNCHANGED <<batch, rows, tasks, tick, stopped>>

PublishNow ==
  /\ Request("publish-now")
  /\ ap.status = "active"
  /\ ap' = [ap EXCEPT !.window = "due"]
  /\ UNCHANGED <<batch, rows, tasks, tick, stopped>>

\* The orchestrator dies: the tick is over, active queue jobs stall.
Crash ==
  /\ UseCrash
  /\ tasks' = Stall(tasks)
  /\ tick' = NoTick
  /\ UNCHANGED <<ap, batch, rows, stopped>>

-----------------------------------------------------------------------------
Produces(b) ==
  \/ ProduceStart(b) \/ ProduceMark(b) \/ ProduceLink(b) \/ ProduceEnqueue(b)
  \/ ProduceFails(b) \/ ProduceCount(b) \/ ProduceStop(b)

Edits(kind, b) == EditorStart(kind, b) \/ EditorEnds(kind, b) \/ EditorFails(kind, b)

Advances(s) ==
  \/ AdvanceFails(s) \/ AdvanceWaits(s)
  \/ AdvanceToRender(s) \/ AdvanceToUniquify(s) \/ AdvanceToReady(s)

Ticks ==
  \/ TickStart \/ (\E s \in tick.todo : Advances(s))
  \/ RenderEnqueue \/ UniquifyEnqueue \/ TickCount \/ TickStop
  \/ Reread \/ SupplyEnough \/ SupplyCreate \/ SupplyEnqueue
  \/ NoWindow \/ PlanWindow \/ (\E b \in Batches : Book(b)) \/ Send \/ EndWindow

UserRequests == Activate \/ Pause \/ ProduceNow \/ PublishNow

Next ==
  \/ \E b \in Batches : Produces(b) \/ UniquifyEnds(b) \/ Ages(b)
  \/ \E kind \in {"analyze", "render"}, b \in Batches : Edits(kind, b)
  \/ \E p \in Copies \X Accounts : ItemEnds(p)
  \/ Ticks \/ (\E s \in tick.todo : AdvanceEmpty(s)) \/ TickFails
  \/ WindowOpens \/ WindowMissed \/ UserRequests
  \/ Crash

Spec == Init /\ [][Next]_vars

\* The scheduler ticks every minute and time passes; nothing is asked of the workers.  A batch
\* has a bounded number of stages, so that it is enough that time passes for some of them.
FairSpec ==
  /\ Spec
  /\ WF_vars(Ticks)
  /\ WF_vars(\E b \in Batches : Ages(b))

-----------------------------------------------------------------------------
(* Properties                                                              *)

\* "An account never receives two variants of the same montage; two accounts never receive
\* the same file" (loop.ts), whatever becomes of the posts and of the tick.
OneFile ==
  \A p, q \in {r \in Copies \X Accounts : item[r] # "none"} :
    (p[1] = q[1] \/ (p[2] = q[2] /\ p[1][1] = q[1][1])) => p = q

\* "an account whose previous post is still uploading is never double-booked" (loop.ts),
\* also in a window that a failed tick has begun, or one that the user opens.
NeverDoubleBooked ==
  \A a \in Accounts : Cardinality(ItemsOf(a, InFlight)) <= 1

\* "exactly one failing batch stops the autopilot and notifies" (journal.ts), of those
\* that fail at the same time in the tick and in the produce workers.
NotifiedOnce ==
  /\ stopped <= 1
  /\ ap.status = "error" => stopped = 1

\* "a lost event or a restarted container never strands a batch" (autopilot-produce.worker.ts):
\* while the autopilot is on, a batch is ready or failed in the end.
BatchEnds ==
  \A b \in Batches :
    batch[b].status \in InProgress ~> batch[b].status \in {"ready", "failed"} \/ ap.status # "active"
=============================================================================
