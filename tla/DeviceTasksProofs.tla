------------------------- MODULE DeviceTasksProofs -------------------------
(***************************************************************************)
(* The phones' mutexes and the lease of the shared proxy, for any tasks    *)
(* and phones and whatever the operator does: one task at a time on a      *)
(* phone, in the order of arrival; a lease that is counted right, an       *)
(* address that changes under nobody's feet, a proxy no other task takes.  *)
(*                                                                         *)
(* The mutex rests on InLine: places in a chain are unique, a promise is   *)
(* resolved when its task is through, and whoever is inside has seen every *)
(* earlier promise resolved.  The lease rests on the mutex: its holders    *)
(* with a phone of their own are one task, and what is left of publishes.  *)
(***************************************************************************)
EXTENDS DeviceTasks, FiniteSetTheorems, TLAPS

Settling == {"trailing", "done"}

InLine ==
  /\ \A t \in Tasks : place[t] <= asked[PhoneOf[t]]
  /\ \A t \in Tasks : pc[t] = "new" <=> place[t] = 0
  /\ \A t, u \in Tasks : PhoneOf[t] = PhoneOf[u] /\ place[t] = place[u] /\ place[t] # 0 => t = u
  /\ \A t \in Tasks : t \in settled <=> pc[t] \in Settling
  /\ \A t \in Inside : Before(t) \subseteq settled

Holders ==
  /\ \A t \in leased : pc[t] \in {"wiring", "rotating", "running", "trailing"}
  /\ \A t \in Tasks : pc[t] \in {"wiring", "rotating"} => t \in leased

\* A task that changes the address of the shared proxy has the lease alone.
RotatesAlone ==
  \A t \in Tasks : pc[t] = "rotating" => leased = {t}

MutexInv == TypeOK /\ InLine
LeaseInv == Holders /\ LeaseCounted /\ RotatesAlone
IInv == MutexInv /\ LeaseInv

USE DEF Goto, mutex, proxy, task, admin, Cut, Quiet

-----------------------------------------------------------------------------
(* What the pieces of a step do *)

LEMMA TaskSteps ==
  ASSUME Next PROVE (\E t \in Tasks : TaskStep(t)) \/ OperatorStep
BY DEF Next

\* No step of the operator touches the tasks, their places or the lease.
LEMMA OperatorLeavesTasks ==
  ASSUME OperatorStep PROVE UNCHANGED <<mutex, task>>
BY DEF OperatorStep, SetProxy, BatchSetProxy, ClearProxy, SetMode, SetModeDone, SwitchActive,
       SwitchDone, SwitchFails, Reapply, ReapplyDone, RotateIp, Request

LEMMA HandedTypes ==
  ASSUME TypeOK, NEW p \in Phones \union {NoPhone} PROVE Handed(p) \subseteq Phones
BY DEF Handed, TypeOK

LEMMA OperatorTypes ==
  ASSUME TypeOK, OperatorStep PROVE TypeOK'
<1>0. UNCHANGED <<mutex, task>>
  BY OperatorLeavesTasks
<1>00. \A p \in Phones \union {NoPhone} : Handed(p) \subseteq Phones
  BY HandedTypes
<1> USE <1>0, <1>00, DeviceTasksAssumption DEF TypeOK, Request, NoOperator
<1>1. ASSUME NEW p \in Phones, NEW activate \in BOOLEAN, SetProxy(p, activate) PROVE TypeOK'
  BY <1>1 DEF SetProxy
<1>2. ASSUME NEW ps \in (SUBSET Phones) \ {{}}, BatchSetProxy(ps) PROVE TypeOK'
  BY <1>2 DEF BatchSetProxy
<1>3. ASSUME NEW p \in Phones, ClearProxy(p) PROVE TypeOK'
  BY <1>3 DEF ClearProxy
<1>4. ASSUME NEW m \in {"shared_sequential", "private_parallel"}, SetMode(m) PROVE TypeOK'
  BY <1>4 DEF SetMode
<1>5. CASE SetModeDone
  BY <1>5 DEF SetModeDone
<1>6. ASSUME NEW p \in Phones, NEW force \in BOOLEAN, SwitchActive(p, force) PROVE TypeOK'
  BY <1>6 DEF SwitchActive
<1>7. CASE SwitchDone \/ SwitchFails
  BY <1>7 DEF SwitchDone, SwitchFails
<1>8. CASE Reapply
  BY <1>8 DEF Reapply
<1>9. CASE ReapplyDone
  BY <1>9 DEF ReapplyDone
<1>10. ASSUME NEW p \in Phones, RotateIp(p) PROVE TypeOK'
  BY <1>10 DEF RotateIp
<1> QED BY <1>1, <1>2, <1>3, <1>4, <1>5, <1>6, <1>7, <1>8, <1>9, <1>10 DEF OperatorStep

LEMMA ReleaseTypes ==
  ASSUME TypeOK, NEW t \in Tasks, ReleaseLease(t)
  PROVE  /\ leased' \subseteq Tasks
         /\ lease' \in [phone : Phones \union {NoPhone}, count : Nat]
<1>1. leased' \subseteq Tasks
  BY DEF TypeOK, ReleaseLease
<1>2. CASE lease' = lease \/ lease' = NoLease
  BY <1>1, <1>2 DEF TypeOK, NoLease
<1>3. CASE lease.count > 1 /\ lease' = [lease EXCEPT !.count = lease.count - 1]
  <2>1. lease.count - 1 \in Nat
    BY <1>3 DEF TypeOK
  <2> QED BY <1>1, <1>3, <2>1 DEF TypeOK
<1> QED BY <1>1, <1>2, <1>3 DEF ReleaseLease, TypeOK

LEMMA TaskTypes ==
  ASSUME TypeOK, NEW t \in Tasks, TaskStep(t) PROVE TypeOK'
<1>0. Handed(PhoneOf[t]) \subseteq Phones
  BY HandedTypes, DeviceTasksAssumption
<1> USE DeviceTasksAssumption DEF TypeOK
<1>1. CASE Acquire(t)
  BY <1>1 DEF Acquire
<1>2. CASE Enter(t) \/ GiveUp(t)
  BY <1>2 DEF Enter, GiveUp
<1>3. CASE LeaseNotNeeded(t) \/ LeaseWait(t) \/ Rotated(t)
  BY <1>3 DEF LeaseNotNeeded, LeaseWait, Rotated
<1>4. CASE LeaseTake(t)
  <2>1. lease' \in [phone : Phones \union {NoPhone}, count : Nat] /\ leased' \subseteq Tasks
    BY <1>4 DEF LeaseTake
  <2>2. active' \in Phones \union {NoPhone} /\ configured' \subseteq Phones
    BY <1>4 DEF LeaseTake
  <2>3. pc' \in [Tasks -> {"new", "waiting", "inside", "queued", "wiring", "rotating",
                           "running", "trailing", "done"}]
    BY <1>4 DEF LeaseTake, RotateOrRun
  <2>4. cut' \subseteq Phones
    BY <1>0, <1>4 DEF LeaseTake
  <2> QED BY <1>4, <2>1, <2>2, <2>3, <2>4 DEF LeaseTake
<1>5. CASE Wired(t)
  BY <1>0, <1>5 DEF Wired, RotateOrRun
<1>6. CASE LeaseTimeout(t)
  BY <1>6 DEF LeaseTimeout, Unlock
<1>7. CASE WiringFails(t) \/ TaskEnds(t)
  <2>1. ReleaseLease(t)
    BY <1>7 DEF WiringFails, TaskEnds
  <2> QED BY <1>7, <2>1, ReleaseTypes DEF WiringFails, TaskEnds, Unlock
<1>8. CASE PublishHolds(t)
  BY <1>8 DEF PublishHolds, Unlock
<1>9. CASE HoldEnds(t)
  <2>1. ReleaseLease(t)
    BY <1>9 DEF HoldEnds
  <2> QED BY <1>9, <2>1, ReleaseTypes DEF HoldEnds
<1> QED BY <1>1, <1>2, <1>3, <1>4, <1>5, <1>6, <1>7, <1>8, <1>9 DEF TaskStep, GoesOn

LEMMA NextTypes == TypeOK /\ [Next]_vars => TypeOK'
<1> SUFFICES ASSUME TypeOK, [Next]_vars PROVE TypeOK'
  OBVIOUS
<1>1. CASE UNCHANGED vars
  BY <1>1 DEF TypeOK, vars
<1> QED BY <1>1, OperatorTypes, TaskTypes DEF Next

-----------------------------------------------------------------------------
(* The chain of promises *)

\* What a task's step may do to its own place and promise; the others' stay.
MutexStep(t) ==
  \/ Acquire(t)
  \/ Enter(t)
  \/ /\ UNCHANGED <<place, asked>>
     /\ pc' = [pc EXCEPT ![t] = pc'[t]]
     /\ \/ pc[t] \in {"inside", "queued", "wiring", "rotating", "running"}
           /\ pc'[t] \in {"queued", "wiring", "rotating", "running"} /\ settled' = settled
        \/ pc[t] \notin Settling /\ pc[t] # "new"
           /\ pc'[t] \in Settling /\ settled' = settled \union {t}
        \/ pc[t] = "trailing" /\ pc'[t] = "done" /\ settled' = settled

LEMMA TaskMutexStep ==
  ASSUME TypeOK, NEW t \in Tasks, TaskStep(t) PROVE MutexStep(t)
<1> USE DEF TypeOK, MutexStep, Settling
<1>1. CASE GiveUp(t) \/ WiringFails(t) \/ LeaseTimeout(t) \/ TaskEnds(t) \/ PublishHolds(t)
  BY <1>1 DEF GiveUp, WiringFails, LeaseTimeout, TaskEnds, PublishHolds, Unlock
<1>2. CASE LeaseNotNeeded(t) \/ LeaseWait(t) \/ Rotated(t) \/ HoldEnds(t)
  BY <1>2 DEF LeaseNotNeeded, LeaseWait, Rotated, HoldEnds
<1>3. CASE LeaseTake(t) \/ Wired(t)
  BY <1>3 DEF LeaseTake, Wired, RotateOrRun
<1> QED BY <1>1, <1>2, <1>3 DEF TaskStep, GoesOn

LEMMA InLineStep ==
  ASSUME MutexInv, NEW t \in Tasks, MutexStep(t), TypeOK' PROVE InLine'
<1> USE DeviceTasksAssumption DEF MutexInv, TypeOK
<1>1. CASE Acquire(t)
  <2>1. place'[t] = asked[PhoneOf[t]] + 1 /\ place[t] = 0 /\ pc'[t] = "waiting"
    BY <1>1 DEF Acquire, InLine
  <2>2. \A u \in Tasks : u # t => place'[u] = place[u] /\ pc'[u] = pc[u]
    BY <1>1 DEF Acquire
  <2>3. settled' = settled /\ t \notin settled
    BY <1>1 DEF Acquire, InLine, Settling
  <2>4. \A u \in Tasks : place'[u] <= asked'[PhoneOf[u]]
    BY <1>1, <2>1, <2>2 DEF Acquire, InLine
  <2>5. \A u, v \in Tasks :
          PhoneOf[u] = PhoneOf[v] /\ place'[u] = place'[v] /\ place'[u] # 0 => u = v
    BY <2>1, <2>2 DEF InLine
  <2>6. ASSUME NEW u \in Tasks, u \in Inside' PROVE Before(u)' \subseteq settled'
    <3>1. u # t /\ u \in Inside
      BY <2>1, <2>2, <2>6 DEF Inside
    <3>2. t \notin Before(u)'
      BY <2>1, <2>2, <3>1 DEF Before, InLine
    <3>3. Before(u)' \subseteq Before(u)
      BY <2>2, <3>1, <3>2 DEF Before
    <3> QED BY <2>3, <3>1, <3>3 DEF InLine
  <2>7. \A u \in Inside' : u \in Tasks
    BY DEF Inside
  <2>8. \A u \in Tasks : pc'[u] = "new" <=> place'[u] = 0
    BY <2>1, <2>2 DEF InLine
  <2>9. \A u \in Tasks : u \in settled' <=> pc'[u] \in Settling
    BY <2>1, <2>2, <2>3 DEF InLine, Settling
  <2> QED BY <2>4, <2>5, <2>6, <2>7, <2>8, <2>9 DEF InLine
<1>2. CASE Enter(t)
  <2>1. Inside' \subseteq Inside \union {t} /\ UNCHANGED <<place, asked, settled>>
    BY <1>2 DEF Enter, Inside
  <2>2. \A u \in Inside' : Before(u)' \subseteq settled'
    BY <1>2, <2>1 DEF Enter, Reached, Before, InLine
  <2> QED BY <1>2, <2>1, <2>2 DEF Enter, InLine, Settling
<1>3. CASE ~Acquire(t) /\ ~Enter(t)
  <2>1. UNCHANGED <<place, asked>> /\ settled \subseteq settled' /\ Inside' \subseteq Inside
    BY <1>3 DEF MutexStep, Inside, Settling
  <2>2. \A u \in Inside' : Before(u)' \subseteq settled'
    BY <2>1 DEF Before, InLine
  <2>3. \A u \in Tasks : u # t => pc'[u] = pc[u] /\ (u \in settled' <=> u \in settled)
    BY <1>3 DEF MutexStep
  <2>4. /\ pc[t] # "new" /\ pc'[t] # "new"
        /\ t \in settled' <=> pc'[t] \in Settling
    BY <1>3 DEF MutexStep, InLine, Settling
  <2> QED BY <2>1, <2>2, <2>3, <2>4 DEF InLine
<1> QED BY <1>1, <1>2, <1>3

LEMMA InitMutex == Init => MutexInv
BY DeviceTasksAssumption
   DEF Init, MutexInv, TypeOK, InLine, Inside, Before, Settling, NoLease, NoOperator

LEMMA NextMutex == MutexInv /\ [Next]_vars => MutexInv'
<1> SUFFICES ASSUME MutexInv, [Next]_vars PROVE MutexInv'
  OBVIOUS
<1>1. TypeOK'
  BY NextTypes DEF MutexInv
<1>2. ASSUME NEW t \in Tasks, TaskStep(t) PROVE InLine'
  BY <1>1, <1>2, TaskMutexStep, InLineStep DEF MutexInv
<1>3. ASSUME OperatorStep \/ UNCHANGED vars PROVE InLine'
  <2>1. UNCHANGED <<mutex, task>>
    BY <1>3, OperatorLeavesTasks DEF vars
  <2>2. InLine
    BY DEF MutexInv
  <2>3. Inside' = Inside /\ \A t \in Tasks : Before(t)' = Before(t)
    BY <2>1 DEF Inside, Before
  <2>4. \A t \in Inside : t \in Tasks
    BY DEF Inside
  <2> QED BY <2>1, <2>2, <2>3, <2>4 DEF InLine
<1>4. InLine'
  BY <1>2, <1>3, TaskSteps
<1> QED BY <1>1, <1>4 DEF MutexInv

LEMMA InsideAlone ==
  ASSUME MutexInv, NEW t \in Inside, NEW u \in Inside, PhoneOf[t] = PhoneOf[u]
  PROVE  t = u
<1>1. t \in Tasks /\ u \in Tasks /\ t \notin settled /\ u \notin settled
  BY DEF MutexInv, InLine, Inside, Settling
<1>2. t \notin Before(u) /\ u \notin Before(t)
  BY <1>1 DEF MutexInv, InLine
<1>3. place[t] # 0 /\ place[u] # 0 /\ place[t] \in Nat /\ place[u] \in Nat
  BY <1>1 DEF MutexInv, InLine, TypeOK, Inside
<1>4. place[t] = place[u]
  BY <1>1, <1>2, <1>3 DEF Before
<1> QED BY <1>1, <1>3, <1>4 DEF MutexInv, InLine

THEOREM MutexInvariance == Spec => []MutexInv
BY InitMutex, NextMutex, PTL DEF Spec

(* Type correctness, for any tasks, phones and requests of the operator.    *)
THEOREM TypeCorrect == Spec => []TypeOK
<1>1. MutexInv => TypeOK
  BY DEF MutexInv
<1> QED BY <1>1, MutexInvariance, PTL

(* Two tasks never drive the same phone.                                    *)
THEOREM OneAtATime == Spec => []OneTaskPerPhone
<1>1. MutexInv => OneTaskPerPhone
  BY InsideAlone DEF OneTaskPerPhone
<1> QED BY <1>1, MutexInvariance, PTL

-----------------------------------------------------------------------------
(* The lease *)

LEMMA LeasedIsFinite ==
  ASSUME TypeOK PROVE IsFiniteSet(leased) /\ Cardinality(leased) \in Nat
BY DeviceTasksAssumption, FS_Subset, FS_CardinalityType DEF TypeOK

LEMMA NobodyLeased ==
  ASSUME TypeOK PROVE Cardinality(leased) = 0 <=> leased = {}
BY LeasedIsFinite, FS_EmptySet

LEMMA TaskLeased ==
  ASSUME TypeOK, NEW t \in leased, Cardinality(leased) = 1 PROVE leased = {t}
<1>1. PICK x : leased = {x}
  BY LeasedIsFinite, FS_Singleton
<1> QED BY <1>1

\* A release function gives back one unit, the last one the lease.
LEMMA ReleaseCounted ==
  ASSUME TypeOK, LeaseCounted, NEW t \in Tasks, ReleaseLease(t) PROVE LeaseCounted'
<1>1. leased' = leased \ {t}
  BY DEF ReleaseLease
<1>2. CASE t \notin leased
  BY <1>1, <1>2 DEF ReleaseLease, LeaseCounted
<1>3. CASE t \in leased
  <2>1. lease.phone = PhoneOf[t] /\ lease.count = Cardinality(leased)
    BY <1>3 DEF LeaseCounted
  <2>2. Cardinality(leased') = Cardinality(leased) - 1
    BY <1>1, <1>3, LeasedIsFinite, FS_RemoveElement
  <2>3. CASE lease.count <= 1
    <3>1. Cardinality(leased) = 1
      BY <1>3, <2>1, <2>3, LeasedIsFinite, NobodyLeased
    <3>2. leased' = {}
      BY <1>1, <1>3, <3>1, TaskLeased
    <3>3. lease' = NoLease
      BY <1>3, <2>1, <2>3 DEF ReleaseLease
    <3> QED BY <3>2, <3>3, FS_EmptySet DEF LeaseCounted, NoLease
  <2>4. CASE lease.count > 1
    <3>1. lease'.phone = lease.phone /\ lease'.count = Cardinality(leased')
      BY <1>3, <2>1, <2>2, <2>4, LeasedIsFinite DEF ReleaseLease, TypeOK
    <3>2. leased' # {}
      BY <1>1, <2>1, <2>2, <2>4, FS_EmptySet, FS_RemoveElement, LeasedIsFinite
    <3>3. lease.phone # NoPhone
      BY <1>3 DEF LeaseCounted
    <3> QED BY <1>1, <3>1, <3>2, <3>3 DEF LeaseCounted
  <2> QED BY <2>1, <2>3, <2>4, LeasedIsFinite
<1> QED BY <1>2, <1>3

\* A task takes the lease when it is free or held for its own phone.
LEMMA TakeCounted ==
  ASSUME IInv, NEW t \in Tasks, LeaseTake(t) PROVE LeaseCounted' /\ t \notin leased
<1>1. t \notin leased
  BY DEF LeaseTake, IInv, LeaseInv, Holders
<1>2. leased' = leased \union {t} /\ lease' = [phone |-> PhoneOf[t], count |-> lease.count + 1]
  BY DEF LeaseTake
<1>3. Cardinality(leased') = Cardinality(leased) + 1
  BY <1>1, <1>2, LeasedIsFinite, FS_AddElement DEF IInv, MutexInv
<1>4. PhoneOf[t] # NoPhone
  BY DeviceTasksAssumption
<1>5. \A u \in leased : PhoneOf[u] = PhoneOf[t]
  <2>1. \A u \in leased : PhoneOf[u] = lease.phone /\ lease.phone # NoPhone
    BY DEF IInv, LeaseInv, LeaseCounted
  <2> QED BY <2>1 DEF LeaseTake, IsLeasedByOther
<1>6. lease.count = Cardinality(leased)
  BY DEF IInv, LeaseInv, LeaseCounted
<1> QED BY <1>1, <1>2, <1>3, <1>4, <1>5, <1>6 DEF LeaseCounted

LEMMA TaskLeaseCounted ==
  ASSUME IInv, NEW t \in Tasks, TaskStep(t) PROVE LeaseCounted'
<1>1. CASE LeaseTake(t)
  BY <1>1, TakeCounted
<1>2. CASE WiringFails(t) \/ TaskEnds(t) \/ HoldEnds(t)
  <2>1. ReleaseLease(t)
    BY <1>2 DEF WiringFails, TaskEnds, HoldEnds
  <2> QED BY <2>1, ReleaseCounted DEF IInv, MutexInv, LeaseInv
<1>3. CASE UNCHANGED <<lease, leased>>
  BY <1>3 DEF IInv, LeaseInv, LeaseCounted
<1>4. LeaseTake(t) \/ WiringFails(t) \/ TaskEnds(t) \/ HoldEnds(t) \/ UNCHANGED <<lease, leased>>
  BY DEF TaskStep, GoesOn, Acquire, Enter, GiveUp, LeaseNotNeeded, LeaseWait, LeaseTimeout, Wired,
         Rotated, PublishHolds
<1> QED BY <1>1, <1>2, <1>3, <1>4

LEMMA TaskHolders ==
  ASSUME IInv, NEW t \in Tasks, TaskStep(t) PROVE Holders'
<1> USE DEF IInv, MutexInv, TypeOK, LeaseInv, Holders
<1>1. \A u \in Tasks : u # t => pc'[u] = pc[u]
  BY TaskMutexStep DEF MutexStep, Acquire, Enter
<1>2. \A u \in Tasks : u # t => (u \in leased' <=> u \in leased)
  BY DEF TaskStep, GoesOn, Acquire, Enter, GiveUp, LeaseNotNeeded, LeaseWait, LeaseTake, LeaseTimeout,
         Wired, WiringFails, Rotated, TaskEnds, PublishHolds, HoldEnds, ReleaseLease
<1>3. /\ t \in leased' => pc'[t] \in {"wiring", "rotating", "running", "trailing"}
      /\ pc'[t] \in {"wiring", "rotating"} => t \in leased'
  <2>1. CASE Acquire(t) \/ Enter(t) \/ GiveUp(t) \/ LeaseTimeout(t)
    BY <2>1 DEF Acquire, Enter, GiveUp, LeaseTimeout
  <2>2. CASE LeaseNotNeeded(t) \/ LeaseWait(t) \/ Rotated(t) \/ PublishHolds(t)
    BY <2>2 DEF LeaseNotNeeded, LeaseWait, Rotated, PublishHolds
  <2>3. CASE LeaseTake(t) \/ Wired(t)
    BY <2>3 DEF LeaseTake, Wired, RotateOrRun
  <2>4. CASE WiringFails(t) \/ TaskEnds(t) \/ HoldEnds(t)
    BY <2>4 DEF WiringFails, TaskEnds, HoldEnds, ReleaseLease
  <2> QED BY <2>1, <2>2, <2>3, <2>4 DEF TaskStep, GoesOn
<1>4. leased' \subseteq Tasks
  BY TaskTypes
<1> QED BY <1>1, <1>2, <1>3, <1>4

\* Who rotates took the lease as the only one; a second task of its phone would have to be
\* inside too.
LEMMA TaskRotatesAlone ==
  ASSUME IInv, NEW t \in Tasks, TaskStep(t) PROVE RotatesAlone'
<1> SUFFICES ASSUME NEW r \in Tasks, pc'[r] = "rotating" PROVE leased' = {r}
  BY DEF RotatesAlone
<1>0. TypeOK /\ MutexInv /\ LeaseCounted
  BY DEF IInv, MutexInv, LeaseInv
<1>1. CASE r = t
  <2>1. CASE LeaseTake(t)
    <3>1. lease'.count = 1
      BY <1>0, <1>1, <2>1 DEF LeaseTake, RotateOrRun, TypeOK
    <3>2. LeaseCounted' /\ TypeOK' /\ t \in leased'
      BY <1>0, <2>1, TakeCounted, TaskTypes DEF LeaseTake
    <3>3. Cardinality(leased') = 1
      BY <3>1, <3>2 DEF LeaseCounted
    <3>4. PICK x : leased' = {x}
      BY <3>2, <3>3, DeviceTasksAssumption, FS_Subset, FS_Singleton DEF TypeOK
    <3> QED BY <1>1, <3>2, <3>4
  <2>2. CASE Wired(t)
    <3>1. lease.count = 1 /\ UNCHANGED <<lease, leased>>
      BY <1>0, <1>1, <2>2 DEF Wired, RotateOrRun, TypeOK
    <3>2. t \in leased
      BY <2>2 DEF Wired, IInv, LeaseInv, Holders
    <3> QED BY <1>0, <1>1, <3>1, <3>2, TaskLeased DEF LeaseCounted
  <2>3. LeaseTake(t) \/ Wired(t)
    BY <1>0, <1>1 DEF TaskStep, GoesOn, Acquire, Enter, GiveUp, LeaseNotNeeded, LeaseWait, LeaseTimeout,
       WiringFails, Rotated, TaskEnds, PublishHolds, HoldEnds, TypeOK
  <2> QED BY <2>1, <2>2, <2>3
<1>2. CASE r # t
  <2>1. pc[r] = "rotating"
    BY <1>0, <1>2, TaskMutexStep DEF MutexStep, Acquire, Enter, TypeOK
  <2>2. leased = {r}
    BY <2>1 DEF IInv, LeaseInv, RotatesAlone
  <2>3. ~LeaseTake(t)
    <3>1. SUFFICES ASSUME LeaseTake(t) PROVE FALSE
      OBVIOUS
    <3>2. PhoneOf[t] = PhoneOf[r]
      BY <2>2, <3>1, TakeCounted DEF LeaseTake, LeaseCounted
    <3>3. t \in Inside /\ r \in Inside
      BY <2>1, <3>1 DEF LeaseTake, Inside
    <3> QED BY <1>0, <1>2, <3>2, <3>3, InsideAlone
  <2>4. leased' = leased \/ leased' = leased \ {t}
    BY <2>3 DEF TaskStep, GoesOn, Acquire, Enter, GiveUp, LeaseNotNeeded, LeaseWait, LeaseTimeout, Wired,
       WiringFails, Rotated, TaskEnds, PublishHolds, HoldEnds, ReleaseLease
  <2> QED BY <1>2, <2>2, <2>4
<1> QED BY <1>1, <1>2

LEMMA InitIInv == Init => IInv
<1>1. Init => LeaseInv
  BY FS_EmptySet DEF Init, LeaseInv, Holders, LeaseCounted, RotatesAlone, NoLease
<1> QED BY <1>1, InitMutex DEF IInv

LEMMA NextIInv == IInv /\ [Next]_vars => IInv'
<1> SUFFICES ASSUME IInv, [Next]_vars PROVE IInv'
  OBVIOUS
<1>1. MutexInv'
  BY NextMutex DEF IInv
<1>2. ASSUME NEW t \in Tasks, TaskStep(t) PROVE LeaseInv'
  BY <1>2, TaskHolders, TaskLeaseCounted, TaskRotatesAlone DEF LeaseInv
<1>3. ASSUME OperatorStep \/ UNCHANGED vars PROVE LeaseInv'
  <2>1. UNCHANGED <<mutex, task>>
    BY <1>3, OperatorLeavesTasks DEF vars
  <2>2. Holders /\ LeaseCounted /\ RotatesAlone
    BY DEF IInv, LeaseInv
  <2> QED BY <2>1, <2>2 DEF LeaseInv, Holders, LeaseCounted, RotatesAlone
<1>4. LeaseInv'
  BY <1>2, <1>3, TaskSteps
<1> QED BY <1>1, <1>4 DEF IInv

THEOREM Invariance == Spec => []IInv
BY InitIInv, NextIInv, PTL DEF Spec

(* The lease counts the release functions that are out, all for one phone.  *)
THEOREM LeaseIsCounted == Spec => []LeaseCounted
<1>1. IInv => LeaseCounted
  BY DEF IInv, LeaseInv
<1> QED BY <1>1, Invariance, PTL

-----------------------------------------------------------------------------
(* The shared proxy *)

\* A task with a lease, and whoever else may act on it, are tasks of one phone.
LEMMA LeasedPhone ==
  ASSUME IInv, NEW t \in leased PROVE lease.phone = PhoneOf[t] /\ lease.phone # NoPhone
BY DEF IInv, LeaseInv, LeaseCounted

LEMMA TaskKeepsProxy ==
  ASSUME IInv, NEW u \in Tasks, TaskStep(u), NEW t \in leased, active = PhoneOf[t]
  PROVE  active' = active
<1>1. CASE LeaseTake(u)
  <2>1. PhoneOf[u] = PhoneOf[t]
    BY <1>1, LeasedPhone DEF LeaseTake, IsLeasedByOther
  <2> QED BY <1>1, <2>1 DEF LeaseTake
<1>2. CASE Wired(u)
  <2>1. u \in leased
    BY <1>2 DEF Wired, IInv, LeaseInv, Holders
  <2> QED BY <1>2, <2>1, LeasedPhone DEF Wired
<1> QED BY <1>1, <1>2 DEF TaskStep, GoesOn, Acquire, Enter, GiveUp, LeaseNotNeeded, LeaseWait,
                          LeaseTimeout, WiringFails, Rotated, TaskEnds, PublishHolds, HoldEnds

LEMMA OperatorKeepsProxy ==
  ASSUME IInv, OperatorStep, NEW t \in leased, active = PhoneOf[t], active \in configured
  PROVE  active' = active \/ Overrules
<1>0. lease.phone = PhoneOf[t] /\ lease.phone # NoPhone /\ lease # NoLease
  BY LeasedPhone DEF NoLease
<1>1. ASSUME NEW p \in Phones, NEW activate \in BOOLEAN, SetProxy(p, activate)
      PROVE  active' = active
  BY <1>0, <1>1 DEF SetProxy, IsLeasedByOther
<1>2. ASSUME NEW ps \in (SUBSET Phones) \ {{}}, BatchSetProxy(ps) PROVE active' = active
  BY <1>0, <1>2 DEF BatchSetProxy
<1>3. ASSUME NEW p \in Phones, ClearProxy(p) PROVE Overrules
  BY <1>3 DEF Overrules
<1>4. ASSUME NEW m \in {"shared_sequential", "private_parallel"}, SetMode(m)
      PROVE  active' = active
  BY <1>4 DEF SetMode
<1>5. CASE SetModeDone \/ SwitchDone
  BY <1>5 DEF Overrules
<1>6. ASSUME NEW p \in Phones, NEW force \in BOOLEAN, SwitchActive(p, force)
      PROVE  active' = active \/ Overrules
  <2>1. CASE force
    <3>1. force = TRUE
      BY <2>1
    <3> QED BY <1>6, <3>1 DEF Overrules
  <2>2. CASE ~force
    BY <1>0, <1>6, <2>2 DEF SwitchActive, IsLeasedByOther
  <2> QED BY <2>1, <2>2
<1>7. CASE SwitchFails \/ Reapply
  BY <1>7 DEF SwitchFails, Reapply
<1>8. CASE ReapplyDone
  BY <1>8 DEF ReapplyDone
<1>9. ASSUME NEW p \in Phones, RotateIp(p) PROVE active' = active
  BY <1>9 DEF RotateIp
<1> QED BY <1>1, <1>2, <1>3, <1>4, <1>5, <1>6, <1>7, <1>8, <1>9 DEF OperatorStep

(* Only an operator who overrules it takes the proxy from a running task.   *)
THEOREM ProxyStaysPut == Spec => ProxyStays
<1> DEFINE Taken == \E t \in leased \intersect leased' :
             /\ pc[t] \in {"rotating", "running", "trailing"}
             /\ active = PhoneOf[t] /\ active \in configured
             /\ active' # active
<1>1. IInv /\ [Next]_vars => [Taken => Overrules]_vars
  <2>1. ASSUME IInv, Next, NEW t \in leased \intersect leased', active = PhoneOf[t],
               active \in configured, active' # active
        PROVE  Overrules
    BY <2>1, TaskSteps, TaskKeepsProxy, OperatorKeepsProxy
  <2> QED BY <2>1
<1> QED BY <1>1, Invariance, PTL DEF Spec, ProxyStays

\* A rotation has the lease alone; the other steps that hand the proxy over find it with the
\* phone it is handed to.
LEMMA TaskLeavesAlone ==
  ASSUME IInv, NEW u \in Tasks, TaskStep(u), NEW t \in Working, PhoneOf[t] \in cut'
  PROVE  active # PhoneOf[t]
<1>0. t \in leased /\ pc[t] # "rotating"
  BY DEF Working
<1>1. CASE LeaseTake(u)
  <2>1. PhoneOf[u] = PhoneOf[t]
    BY <1>0, <1>1, LeasedPhone DEF LeaseTake, IsLeasedByOther
  <2> QED BY <1>1, <2>1 DEF LeaseTake, Handed
<1>2. CASE Wired(u)
  <2>1. u \in leased
    BY <1>2 DEF Wired, IInv, LeaseInv, Holders
  <2> QED BY <1>0, <1>2, <2>1, LeasedPhone DEF Wired, Handed
<1>3. ~Rotated(u)
  <2>1. pc[u] = "rotating" => leased = {u}
    BY DEF IInv, LeaseInv, RotatesAlone
  <2> QED BY <1>0, <2>1 DEF Rotated
<1> QED BY <1>1, <1>2, <1>3
        DEF TaskStep, GoesOn, Acquire, Enter, GiveUp, LeaseNotNeeded, LeaseWait, LeaseTimeout,
            WiringFails, TaskEnds, PublishHolds, HoldEnds

LEMMA OperatorLeavesAlone ==
  ASSUME IInv, OperatorStep, NEW t \in Working, PhoneOf[t] \in cut',
         active = PhoneOf[t], active \in configured
  PROVE  AskedFor(PhoneOf[t])
<1>0. t \in leased /\ PhoneOf[t] \in Phones
  BY DeviceTasksAssumption DEF Working, IInv, MutexInv, TypeOK
<1>00. lease.phone = PhoneOf[t] /\ lease.phone # NoPhone /\ lease # NoLease
  BY <1>0, LeasedPhone DEF NoLease
<1>1. ASSUME NEW p \in Phones, NEW activate \in BOOLEAN, SetProxy(p, activate)
      PROVE  AskedFor(PhoneOf[t])
  <2>1. active' = active
    BY <1>00, <1>1 DEF SetProxy, IsLeasedByOther
  <2>2. p = PhoneOf[t]
    BY <1>1, <2>1 DEF SetProxy, Handed
  <2> QED BY <1>1, <2>2 DEF AskedFor
<1>2. ASSUME NEW ps \in (SUBSET Phones) \ {{}}, BatchSetProxy(ps) PROVE AskedFor(PhoneOf[t])
  <2>1. PhoneOf[t] \in ps
    BY <1>00, <1>2 DEF BatchSetProxy, Handed
  <2> QED BY <1>2, <2>1 DEF AskedFor
<1>3. ASSUME NEW p \in Phones, ClearProxy(p) PROVE AskedFor(PhoneOf[t])
  BY <1>3 DEF ClearProxy, AskedFor
<1>4. ASSUME NEW m \in {"shared_sequential", "private_parallel"}, SetMode(m)
      PROVE  AskedFor(PhoneOf[t])
  BY <1>4 DEF AskedFor
<1>5. CASE SetModeDone \/ SwitchDone
  BY <1>5 DEF AskedFor
<1>6. ASSUME NEW p \in Phones, NEW force \in BOOLEAN, SwitchActive(p, force)
      PROVE  AskedFor(PhoneOf[t])
  <2>1. CASE force
    <3>1. force = TRUE
      BY <2>1
    <3> QED BY <1>6, <3>1 DEF AskedFor
  <2>2. CASE ~force
    <3>1. p = active
      BY <1>00, <1>6, <2>2 DEF SwitchActive, IsLeasedByOther
    <3>2. cut' = {}
      BY <1>6, <3>1 DEF SwitchActive, Handed
    <3> QED BY <3>2
  <2> QED BY <2>1, <2>2
<1>7. CASE SwitchFails \/ Reapply
  BY <1>7 DEF SwitchFails, Reapply
<1>8. CASE ReapplyDone
  BY <1>8 DEF ReapplyDone, Handed
<1>9. ASSUME NEW p \in Phones, RotateIp(p) PROVE AskedFor(PhoneOf[t])
  BY <1>9 DEF AskedFor
<1> QED BY <1>1, <1>2, <1>3, <1>4, <1>5, <1>6, <1>7, <1>8, <1>9 DEF OperatorStep

(* No task of the farm, and no work on another phone, cuts the connections  *)
(* of a phone that uses the shared proxy or gives it another address: only  *)
(* the requests that name the phone or are for everybody do.                *)
THEOREM UploadsAreLeftAlone == Spec => LeftAlone
<1> DEFINE Asked == \A t \in Working :
             PhoneOf[t] \in cut' /\ active = PhoneOf[t] /\ active \in configured
             => AskedFor(PhoneOf[t])
<1>1. IInv /\ [Next]_vars => [Asked]_vars
  BY TaskSteps, TaskLeavesAlone, OperatorLeavesAlone
<1> QED BY <1>1, Invariance, PTL DEF Spec, LeftAlone

-----------------------------------------------------------------------------
(* The queue *)

LEMMA EnterIsFifo ==
  ASSUME MutexInv, NEW t \in Tasks, Enter(t)
  PROVE  Fifo!Enter(t)
<1>1. pc[t] = "waiting" /\ t \notin settled /\ place[t] \in Nat /\ place[t] # 0
  BY DEF Enter, MutexInv, InLine, TypeOK, Settling
<1>2. ASSUME NEW u \in Tasks, u \notin settled, PhoneOf[u] = PhoneOf[t], place[u] # 0
      PROVE  place[t] <= place[u]
  <2>1. u \notin Before(t)
    BY <1>2 DEF Enter, Reached
  <2> QED BY <1>1, <1>2, <2>1 DEF Before, MutexInv, TypeOK
<1>3. \A u \in Inside : PhoneOf[u] # PhoneOf[t]
  <2> SUFFICES ASSUME NEW u \in Inside, PhoneOf[u] = PhoneOf[t] PROVE FALSE
    OBVIOUS
  <2>1. u \in Tasks /\ u \notin settled /\ place[u] # 0 /\ place[u] \in Nat /\ u # t
    BY <1>1 DEF Inside, MutexInv, InLine, TypeOK, Settling
  <2>2. place[t] <= place[u] /\ place[t] # place[u]
    BY <1>1, <1>2, <2>1 DEF MutexInv, InLine
  <2>3. t \in Before(u)
    BY <1>1, <2>1, <2>2 DEF Before
  <2> QED BY <1>1, <2>3 DEF MutexInv, InLine
<1>4. \A u \in Waiting : PhoneOf[u] = PhoneOf[t] => place[t] <= place[u]
  <2> SUFFICES ASSUME NEW u \in Waiting, PhoneOf[u] = PhoneOf[t] PROVE place[t] <= place[u]
    OBVIOUS
  <2>1. u \in Tasks /\ u \notin settled /\ place[u] # 0
    BY DEF Waiting, MutexInv, InLine, Settling
  <2> QED BY <1>2, <2>1
<1>5. Waiting' = Waiting \ {t} /\ Inside' = Inside \union {t} /\ t \in Waiting
  BY <1>1 DEF Enter, Waiting, Inside, MutexInv, TypeOK
<1> QED BY <1>3, <1>4, <1>5 DEF Enter, Fifo!Enter

LEMMA AskIsFifo ==
  ASSUME MutexInv, NEW t \in Tasks, Acquire(t)
  PROVE  Fifo!Ask(t)
<1>1. place[t] = 0 /\ place'[t] = asked[PhoneOf[t]] + 1
  BY DEF Acquire, MutexInv, InLine, TypeOK
<1>2. Waiting' = Waiting \union {t} /\ Inside' = Inside
  BY DEF Acquire, Waiting, Inside, MutexInv, TypeOK
<1> QED BY <1>1, <1>2 DEF Acquire, Fifo!Ask

LEMMA TaskIsFifo ==
  ASSUME MutexInv, NEW t \in Tasks, TaskStep(t)
  PROVE  [Fifo!Next]_(Fifo!vars)
<1> USE DEF MutexInv, TypeOK, Waiting, Inside
<1>1. CASE Acquire(t)
  BY <1>1, AskIsFifo DEF Fifo!Next
<1>2. CASE Enter(t)
  BY <1>2, EnterIsFifo DEF Fifo!Next
<1>3. CASE GiveUp(t)
  <2>1. Waiting' = Waiting \ {t} /\ Inside' = Inside /\ t \in Waiting
    BY <1>3 DEF GiveUp
  <2> QED BY <1>3, <2>1 DEF GiveUp, Fifo!GiveUp, Fifo!Next
<1>4. CASE WiringFails(t) \/ LeaseTimeout(t) \/ TaskEnds(t) \/ PublishHolds(t)
  <2>1. Inside' = Inside \ {t} /\ t \in Inside /\ Waiting' = Waiting
    BY <1>4 DEF WiringFails, LeaseTimeout, TaskEnds, PublishHolds
  <2> QED BY <1>4, <2>1
          DEF WiringFails, LeaseTimeout, TaskEnds, PublishHolds, Fifo!Leave, Fifo!Next
<1>5. CASE LeaseNotNeeded(t) \/ LeaseWait(t) \/ LeaseTake(t) \/ Wired(t) \/ Rotated(t)
           \/ HoldEnds(t)
  <2>1. UNCHANGED <<place, asked>>
    BY <1>5 DEF LeaseNotNeeded, LeaseWait, LeaseTake, Wired, Rotated, HoldEnds
  <2>2. Inside' = Inside /\ Waiting' = Waiting
    BY <1>5 DEF LeaseNotNeeded, LeaseWait, LeaseTake, Wired, Rotated, HoldEnds, RotateOrRun
  <2> QED BY <2>1, <2>2 DEF Fifo!vars
<1> QED BY <1>1, <1>2, <1>3, <1>4, <1>5 DEF TaskStep, GoesOn

(* The promise chains implement the first-come-first-served mutex.          *)
THEOREM ImplementsFifo == Spec => FifoSpec
<1>1. Init => Fifo!Init
  BY DEF Init, Fifo!Init, Waiting, Inside
<1>2. MutexInv /\ [Next]_vars => [Fifo!Next]_(Fifo!vars)
  <2> SUFFICES ASSUME MutexInv, [Next]_vars PROVE [Fifo!Next]_(Fifo!vars)
    OBVIOUS
  <2>1. ASSUME OperatorStep \/ UNCHANGED vars PROVE [Fifo!Next]_(Fifo!vars)
    <3>1. UNCHANGED <<mutex, task>>
      BY <2>1, OperatorLeavesTasks DEF vars
    <3> QED BY <3>1 DEF Fifo!vars, Waiting, Inside
  <2> QED BY <2>1, TaskIsFifo, TaskSteps
<1> QED BY <1>1, <1>2, MutexInvariance, PTL DEF Spec, FifoSpec, Fifo!Spec
=============================================================================
