---------------------------- MODULE DeviceTasks ----------------------------
(***************************************************************************)
(* The tasks of the device agent (publish, warmup, statistics, login) and  *)
(* what they share: each phone's mutex (device-mutex.ts) and, in the mode  *)
(* shared_sequential, the one proxy that serves one phone at a time        *)
(* (the task lease of proxy-manager.ts).  An operator changes modes,       *)
(* proxies and the active phone at any time, through the agent's API.      *)
(*                                                                         *)
(* The agent is one Node process: what happens between two awaits is one   *)
(* step.  A task is one HTTP request.                                      *)
(***************************************************************************)
EXTENDS Naturals, FiniteSets

CONSTANTS
  Tasks, Phones,
  PhoneOf,     \* body.deviceId of each request
  Publishes,   \* the tasks that are POST /publish
  NoPhone,     \* null
  Operations,  \* what the operator does: a subset of OperationKinds
  MaxOperations  \* bound: requests of the operator

OperationKinds == {"set", "batch", "clear", "reapply", "mode", "switch", "force", "rotate"}

ASSUME DeviceTasksAssumption ==
  /\ PhoneOf \in [Tasks -> Phones]
  /\ IsFiniteSet(Tasks)
  /\ NoPhone \notin Phones
  /\ Publishes \subseteq Tasks
  /\ Operations \subseteq OperationKinds
  /\ MaxOperations \in Nat

VARIABLES
  pc,          \* where each request is
  place,       \* place[t]: position of t's promise in its phone's chain, 0 before acquire()
  asked,       \* asked[p]: length of the chain of phone p
  settled,     \* tasks whose promise in the chain has been resolved
  mode,        \* ProxyManager.mode
  configured,  \* keys of ProxyManager.devices
  sharedProxy, \* ProxyManager.sharedProxy is set
  active,      \* ProxyManager.activeDeviceId
  lease,       \* ProxyManager.lease, phone = NoPhone when null
  leased,      \* tasks with a release function of the lease that was not called yet
  operator,    \* the operator's request that awaits ADB
  operations,  \* requests the operator has made
  cut          \* phones whose connections the last step dropped or moved to a new address

mutex  == <<place, asked, settled>>
proxy  == <<mode, configured, sharedProxy, active>>
task   == <<pc, lease, leased>>
admin  == <<operator, operations>>
vars   == <<mutex, proxy, task, admin, cut>>

Waiting == {t \in Tasks : pc[t] = "waiting"}
\* Between the return of acquire() and unlock() in `finally`.
Inside  == {t \in Tasks : pc[t] \in {"inside", "queued", "wiring", "rotating", "running"}}

NoLease == [phone |-> NoPhone, count |-> 0]
NoOperator == [kind |-> "none", phone |-> NoPhone]

TypeOK ==
  /\ pc \in [Tasks -> {"new", "waiting", "inside", "queued", "wiring", "rotating",
                       "running", "trailing", "done"}]
  /\ place \in [Tasks -> Nat] /\ asked \in [Phones -> Nat]
  /\ settled \subseteq Tasks
  /\ mode \in {"shared_sequential", "private_parallel"}
  /\ configured \subseteq Phones
  /\ sharedProxy \in BOOLEAN
  /\ active \in Phones \union {NoPhone}
  /\ lease \in [phone : Phones \union {NoPhone}, count : Nat]
  /\ leased \subseteq Tasks
  /\ operator \in [kind : {"none", "mode", "switch", "reapply"}, phone : Phones \union {NoPhone}]
  /\ operations \in Nat
  /\ cut \subseteq Phones

\* loadState: the phones and modes of the last time; a farm with a configured phone has
\* a shared proxy.  The file may name an active phone that has no proxy any more.
Init ==
  /\ pc = [t \in Tasks |-> "new"]
  /\ place = [t \in Tasks |-> 0]
  /\ asked = [p \in Phones |-> 0]
  /\ settled = {}
  /\ mode \in {"shared_sequential", "private_parallel"}
  /\ configured \in SUBSET Phones
  /\ sharedProxy \in BOOLEAN
  /\ configured # {} => sharedProxy
  /\ active \in Phones \union {NoPhone}
  /\ lease = NoLease
  /\ leased = {}
  /\ operator = NoOperator
  /\ operations = 0
  /\ cut = {}

-----------------------------------------------------------------------------
(* The connections through the gateway                                     *)

\* setActive(p): the connections of the phone that loses the proxy and of the one that gets
\* it are dropped; nothing happens when it is the same phone.
Handed(p) == IF p = active THEN {} ELSE {active, p} \ {NoPhone}

Cut(ps) == cut' = ps

Quiet == Cut({})

-----------------------------------------------------------------------------
(* DeviceMutex.acquire                                                     *)

Before(t) == {u \in Tasks : PhoneOf[u] = PhoneOf[t] /\ 0 < place[u] /\ place[u] < place[t]}

(* Mutant: the tail is the caller's own promise, not the chain. *)
ReachedMutant(t) ==
  \A u \in Before(t) : place[u] + 1 = place[t] => u \in settled

(* Mutant: a flag instead of a queue. *)
ReachedUnordered(t) == \A u \in Inside : PhoneOf[u] # PhoneOf[t]

\* prev has resolved: tail is prev.then(() => mine), so that all promises of the chain have.
Reached(t) == Before(t) \subseteq settled

Goto(t, label) == pc' = [pc EXCEPT ![t] = label]

Acquire(t) ==
  /\ pc[t] = "new"
  /\ place' = [place EXCEPT ![t] = asked[PhoneOf[t]] + 1]
  /\ asked' = [asked EXCEPT ![PhoneOf[t]] = asked[PhoneOf[t]] + 1]
  /\ Goto(t, "waiting")
  /\ Quiet
  /\ UNCHANGED <<settled, proxy, lease, leased, admin>>

Enter(t) ==
  /\ pc[t] = "waiting"
  /\ Reached(t)
  /\ Goto(t, "inside")
  /\ Quiet
  /\ UNCHANGED <<mutex, proxy, lease, leased, admin>>

(* Mutant: a waiter that gives up keeps its place. *)
GiveUpMutant(t) ==
  /\ pc[t] = "waiting"
  /\ ~Reached(t)
  /\ Goto(t, "done")
  /\ Quiet
  /\ UNCHANGED <<mutex, proxy, lease, leased, admin>>

\* The timer wins the race: the place in the chain is given up, DeviceBusyError is thrown.
GiveUp(t) ==
  /\ pc[t] = "waiting"
  /\ ~Reached(t)
  /\ settled' = settled \union {t}
  /\ Goto(t, "done")
  /\ Quiet
  /\ UNCHANGED <<place, asked, proxy, lease, leased, admin>>

\* `finally` of a handler that has the mutex.
Unlock(t) == settled' = settled \union {t}

-----------------------------------------------------------------------------
(* ProxyManager.acquireTaskLease                                           *)

IsLeasedByOther(p) == lease.phone \notin {NoPhone, p}

(* Mutant: no check whose lease it is. *)
ReleaseLeaseUnguarded(t) ==
  /\ leased' = leased \ {t}
  /\ lease' = [lease EXCEPT !.count = lease.count - 1]

(* Mutant: the lease is over with the first release. *)
ReleaseLeaseMutant(t) ==
  /\ leased' = leased \ {t}
  /\ lease' = IF t \in leased THEN NoLease ELSE lease

\* The release function of the lease; it works once.
ReleaseLease(t) ==
  /\ leased' = leased \ {t}
  /\ lease' = IF t \notin leased \/ lease.phone # PhoneOf[t] THEN lease
              ELSE IF lease.count <= 1 THEN NoLease
              ELSE [lease EXCEPT !.count = lease.count - 1]

\* Own proxies, or none on the farm: the release function does nothing.
LeaseNotNeeded(t) ==
  /\ pc[t] = "inside"
  /\ mode # "shared_sequential" \/ ~sharedProxy
  /\ Goto(t, "running")
  /\ Quiet
  /\ UNCHANGED <<mutex, proxy, lease, leased, admin>>

LeaseWait(t) ==
  /\ pc[t] = "inside"
  /\ mode = "shared_sequential" /\ sharedProxy
  /\ IsLeasedByOther(PhoneOf[t])
  /\ Goto(t, "queued")
  /\ Quiet
  /\ UNCHANGED <<mutex, proxy, lease, leased, admin>>

(* Mutant: every task rotates. *)
RotateOrRunMutant(t, count) ==
  \/ mode = "shared_sequential" /\ PhoneOf[t] \in configured /\ Goto(t, "rotating")
  \/ Goto(t, "running")

\* freshIpForTask: the proxy has a rotation link and was not rotated for this phone lately.
\* Only the first holder of the lease asks for it.
RotateOrRun(t, count) ==
  \/ count = 1 /\ mode = "shared_sequential" /\ PhoneOf[t] \in configured /\ Goto(t, "rotating")
  \/ Goto(t, "running")

\* The loop has found the lease free, or held by the same phone (what is left of a publish).
\* A waiting task does not look at the mode again.
LeaseTake(t) ==
  /\ \/ pc[t] = "queued"
     \/ pc[t] = "inside" /\ mode = "shared_sequential" /\ sharedProxy
  /\ ~IsLeasedByOther(PhoneOf[t])
  /\ lease' = [phone |-> PhoneOf[t], count |-> lease.count + 1]
  /\ leased' = leased \union {t}
  /\ \/ /\ active = PhoneOf[t] \/ PhoneOf[t] \in configured
        /\ active' = PhoneOf[t]
        /\ Cut(Handed(PhoneOf[t]))
        /\ RotateOrRun(t, lease'.count)
        /\ UNCHANGED configured
     \/ /\ active # PhoneOf[t] /\ PhoneOf[t] \notin configured
        /\ configured' = configured \union {PhoneOf[t]}
        /\ Goto(t, "wiring")
        /\ Quiet
        /\ UNCHANGED active
  /\ UNCHANGED <<mutex, mode, sharedProxy, admin>>

\* applyDevice has returned: setActive.
Wired(t) ==
  /\ pc[t] = "wiring"
  /\ active' = PhoneOf[t]
  /\ Cut(Handed(PhoneOf[t]))
  /\ RotateOrRun(t, lease.count)
  /\ UNCHANGED <<mutex, mode, configured, sharedProxy, lease, leased, admin>>

WiringFails(t) ==
  /\ pc[t] = "wiring"
  /\ ReleaseLease(t)
  /\ Unlock(t)
  /\ Goto(t, "done")
  /\ Quiet
  /\ UNCHANGED <<place, asked, proxy, admin>>

LeaseTimeout(t) ==
  /\ pc[t] = "queued"
  /\ IsLeasedByOther(PhoneOf[t])
  /\ Unlock(t)
  /\ Goto(t, "done")
  /\ Quiet
  /\ UNCHANGED <<place, asked, proxy, lease, leased, admin>>

\* The address of the shared proxy has changed, for whoever is using it.  A failed rotation
\* is logged, the task goes on.
Rotated(t) ==
  /\ pc[t] = "rotating"
  /\ Cut(Phones) \/ Quiet
  /\ Goto(t, "running")
  /\ UNCHANGED <<mutex, proxy, lease, leased, admin>>

-----------------------------------------------------------------------------
(* The end of a request                                                    *)

TaskEnds(t) ==
  /\ pc[t] = "running"
  /\ ReleaseLease(t)
  /\ Unlock(t)
  /\ Goto(t, "done")
  /\ Quiet
  /\ UNCHANGED <<place, asked, proxy, admin>>

\* POST /publish answers, the app may still be uploading: the phone is free for the next
\* task, the lease is kept for PUBLISH_PROXY_HOLD_MS.
PublishHolds(t) ==
  /\ pc[t] = "running"
  /\ t \in Publishes
  /\ Unlock(t)
  /\ Goto(t, "trailing")
  /\ Quiet
  /\ UNCHANGED <<place, asked, proxy, lease, leased, admin>>

HoldEnds(t) ==
  /\ pc[t] = "trailing"
  /\ ReleaseLease(t)
  /\ Goto(t, "done")
  /\ Quiet
  /\ UNCHANGED <<mutex, proxy, admin>>

-----------------------------------------------------------------------------
(* The operator                                                            *)

Request(kind) ==
  /\ kind \in Operations
  /\ operator.kind = "none"
  /\ operations < MaxOperations
  /\ operations' = operations + 1
  /\ UNCHANGED <<mutex, task>>

(* Mutant: the lease is not looked at. *)
SetProxyMutant(p, activate) ==
  /\ Request("set")
  /\ configured' = configured \union {p}
  /\ sharedProxy' = TRUE
  /\ active' = IF mode = "shared_sequential" /\ activate THEN p ELSE active
  /\ Cut({p} \union Handed(active'))
  /\ UNCHANGED <<mode, operator>>

\* The proxy has been tested; the phone becomes the active one unless a task of another
\* phone has the lease.  Its own connections are dropped, whatever runs on it.
SetProxy(p, activate) ==
  /\ Request("set")
  /\ configured' = configured \union {p}
  /\ sharedProxy' = TRUE
  /\ active' = IF mode = "shared_sequential" /\ activate /\ ~IsLeasedByOther(p) THEN p
               ELSE active
  /\ Cut({p} \union Handed(active'))
  /\ UNCHANGED <<mode, operator>>

BatchSetProxy(ps) ==
  /\ Request("batch")
  /\ configured' = configured \union ps
  /\ sharedProxy' = TRUE
  /\ IF mode = "shared_sequential" /\ active \notin ps /\ lease = NoLease
     THEN active' \in ps
     ELSE UNCHANGED active
  /\ Cut(ps \union Handed(active'))
  /\ UNCHANGED <<mode, operator>>

ClearProxy(p) ==
  /\ Request("clear")
  /\ configured' = configured \ {p}
  /\ active' = IF active = p THEN NoPhone ELSE active
  /\ Cut({p})
  /\ UNCHANGED <<mode, sharedProxy, operator>>

\* setMode looks at the active phone, then asks ADB for the phones that are online.  At its
\* end it drops everybody's connections.
SetMode(m) ==
  /\ Request("mode")
  /\ mode' = m
  /\ \/ /\ m = "shared_sequential" /\ active \notin configured
        /\ operator' = [kind |-> "mode", phone |-> NoPhone]
        /\ Quiet
     \/ /\ m # "shared_sequential" \/ active \in configured
        /\ Cut(Phones)
        /\ UNCHANGED operator
  /\ UNCHANGED <<configured, sharedProxy, active>>

SetModeDone ==
  /\ operator.kind = "mode"
  /\ IF configured = {} THEN active' = NoPhone ELSE active' \in configured
  /\ operator' = NoOperator
  /\ Cut(Phones)
  /\ UNCHANGED <<mutex, task, mode, configured, sharedProxy, operations>>

\* switchActiveDevice checks the lease, then wires a phone that is new.
SwitchActive(p, force) ==
  /\ Request(IF force THEN "force" ELSE "switch")
  /\ force \/ ~IsLeasedByOther(p)
  /\ \/ /\ p \in configured
        /\ active' = p
        /\ Cut(Handed(p))
        /\ UNCHANGED <<configured, operator>>
     \/ /\ p \notin configured /\ sharedProxy
        /\ configured' = configured \union {p}
        /\ operator' = [kind |-> "switch", phone |-> p]
        /\ Quiet
        /\ UNCHANGED active
  /\ UNCHANGED <<mode, sharedProxy>>

SwitchDone ==
  /\ operator.kind = "switch"
  /\ active' = operator.phone
  /\ Cut(Handed(operator.phone))
  /\ operator' = NoOperator
  /\ UNCHANGED <<mutex, task, mode, configured, sharedProxy, operations>>

SwitchFails ==
  /\ operator.kind = "switch"
  /\ operator' = NoOperator
  /\ Quiet
  /\ UNCHANGED <<mutex, task, proxy, operations>>

\* reapplyAll, after a restart of the ADB server: the phones are listed first.
Reapply ==
  /\ Request("reapply")
  /\ \E p \in IF configured = {} THEN {NoPhone} ELSE configured :
       operator' = [kind |-> "reapply", phone |-> p]
  /\ Quiet
  /\ UNCHANGED proxy

ReapplyDone ==
  /\ operator.kind = "reapply"
  /\ active' = IF mode = "shared_sequential" /\ active \notin configured THEN operator.phone
               ELSE active
  /\ Cut(Handed(active'))
  /\ operator' = NoOperator
  /\ UNCHANGED <<mutex, task, mode, configured, sharedProxy, operations>>

\* rotateProxyIp for the operator, with the phone's own link or one of the request: nobody
\* looks at the lease.  A call that fails, or has no link, changes nothing.
RotateIp(p) ==
  /\ Request("rotate")
  /\ Cut(Phones)
  /\ UNCHANGED <<proxy, operator>>

-----------------------------------------------------------------------------
GoesOn(t) ==
  \/ Enter(t) \/ GiveUp(t)
  \/ LeaseNotNeeded(t) \/ LeaseWait(t) \/ LeaseTake(t) \/ LeaseTimeout(t)
  \/ Wired(t) \/ WiringFails(t) \/ Rotated(t)
  \/ TaskEnds(t) \/ PublishHolds(t) \/ HoldEnds(t)

TaskStep(t) == Acquire(t) \/ GoesOn(t)

OperatorStep ==
  \/ \E p \in Phones, activate \in BOOLEAN : SetProxy(p, activate)
  \/ \E ps \in (SUBSET Phones) \ {{}} : BatchSetProxy(ps)
  \/ \E p \in Phones : ClearProxy(p)
  \/ \E m \in {"shared_sequential", "private_parallel"} : SetMode(m)
  \/ SetModeDone
  \/ \E p \in Phones, force \in BOOLEAN : SwitchActive(p, force)
  \/ SwitchDone \/ SwitchFails
  \/ Reapply \/ ReapplyDone
  \/ \E p \in Phones : RotateIp(p)

Next == (\E t \in Tasks : TaskStep(t)) \/ OperatorStep

Spec == Init /\ [][Next]_vars

\* Timers fire, ADB calls have timeouts, and so has every flow on a phone: a request that
\* is under way goes on.  At each place only the steps of that place can be taken.
FairSpec == Spec /\ \A t \in Tasks : WF_vars(GoesOn(t))

-----------------------------------------------------------------------------
(* Properties                                                              *)

\* One task at a time drives a phone, whoever gives up waiting and whatever is left of an
\* earlier publish (the handlers of index.ts between acquire and unlock).
OneTaskPerPhone ==
  \A t, u \in Inside : PhoneOf[t] = PhoneOf[u] => t = u

\* The promise chain is a first-come-first-served mutex for each phone.
Fifo == INSTANCE FifoMutex WITH ticket <- place, waiting <- Waiting, inside <- Inside
FifoSpec == Fifo!Spec

\* The lease counts the release functions that are out, all of them for one phone: no
\* ending, failing or trailing task takes the lease away from another one.
LeaseCounted ==
  /\ lease.count = Cardinality(leased)
  /\ lease.phone = NoPhone <=> leased = {}
  /\ \A t \in leased : PhoneOf[t] = lease.phone

Working == {t \in leased : pc[t] \in {"running", "trailing"}}

\* Requests of the operator that say which phone they disturb, or that they disturb all.
\* Asked for while the phone uploads, they cut the upload: the agent does not refuse them.
AskedFor(p) ==
  \/ \E activate \in BOOLEAN : SetProxy(p, activate)
  \/ \E ps \in SUBSET Phones : p \in ps /\ BatchSetProxy(ps)
  \/ ClearProxy(p)
  \/ SetModeDone \/ \E m \in {"shared_sequential", "private_parallel"} : SetMode(m)
  \/ SwitchDone \/ \E q \in Phones : SwitchActive(q, TRUE)
  \/ \E q \in Phones : RotateIp(q)

\* "the IP is changed only BETWEEN tasks, never mid-upload" (freshIpForTask): while a phone
\* uses the shared proxy for a task, or for what a publish has left, the tasks of the farm
\* and the operator's work on other phones neither drop its connections nor give it another
\* address.
LeftAlone ==
  [][\A t \in Working :
       PhoneOf[t] \in cut' /\ active = PhoneOf[t] /\ active \in configured
       => AskedFor(PhoneOf[t])]_vars

\* A step of the operator that takes the proxy from the task that has the lease: a forced
\* switch, a cleared proxy, and the two calls that look first and act after an await.
Overrules ==
  \/ \E p \in Phones : SwitchActive(p, TRUE) \/ ClearProxy(p)
  \/ SetModeDone \/ SwitchDone

\* Nothing else moves the shared proxy from under a running task: no other task, and no
\* proxy that is assigned to another phone meanwhile.  (A phone whose proxy was cleared while
\* it was being wired has none to lose.)
ProxyStays ==
  [][(\E t \in leased \intersect leased' :
        /\ pc[t] \in {"rotating", "running", "trailing"}
        /\ active = PhoneOf[t] /\ active \in configured
        /\ active' # active)
     => Overrules]_vars

\* A place in the queue and the lease always come back, also from a task that gives up or
\* fails: nobody's phone stays busy for ever.  (The tasks are finitely many, so that each of
\* them is through by the time all of them are.)
Busy == lease # NoLease \/ \E t \in Tasks : pc[t] # "new" /\ t \notin settled
EverythingComesBack == Busy ~> ~Busy
=============================================================================
