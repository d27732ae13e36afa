------------------------ MODULE CreditTransactions ------------------------
(***************************************************************************)
(* The database transactions behind the credit account of one job          *)
(* (apps/orchestrator/src/lib/credits.ts and apps/api/src/lib/video-job.ts) *)
(* run by any number of concurrent callers:                                *)
(*                                                                         *)
(*   Releasers  calls of releaseReserveOnce / releaseJobReserve: settle on *)
(*              success, refund from a failed handler, from the state      *)
(*              worker or from a cancel;                                   *)
(*   Chargers   calls of chargeCredits, each followed by the increment of  *)
(*              Job.creditsUsed in a statement of its own.                 *)
(*                                                                         *)
(* PostgreSQL is modelled by the row locks these statements take: SELECT   *)
(* FOR UPDATE and UPDATE lock a row until commit, and inserting a          *)
(* credit_transactions row takes a key-share lock on the job its job_id    *)
(* references, which FOR UPDATE excludes.  The statement that would wait   *)
(* is disabled; of two transactions that wait for each other the database  *)
(* aborts one.  A transaction's writes become visible at its commit.       *)
(***************************************************************************)
EXTENDS Integers

CONSTANTS
  InitialCredits,
  Estimate,
  Prices,
  Releasers,
  Chargers,
  Price,        \* what each charger charges
  Unreliable,   \* callers whose connection may break, or whose transaction may time out
  NoOne         \* holder of a free row lock

ASSUME TransactionsAssumption ==
  /\ InitialCredits \in Nat
  /\ Estimate \in Nat \ {0}
  /\ Prices \subseteq Nat
  /\ Price \in [Chargers -> Prices]
  /\ Releasers \cap Chargers = {}
  /\ NoOne \notin Releasers \cup Chargers

Callers == Releasers \cup Chargers

VARIABLES
  balance,      \* Tenant.credits, committed
  created,      \* the job row and its 'reserve' transaction exist
  refunds,      \* committed CreditTransaction rows of type 'refund' for the job
  charged,      \* sum of the committed rows of type 'charge'
  creditsUsed,  \* Job.creditsUsed
  jobLock,      \* who holds the job row FOR UPDATE
  tenantLock,   \* who holds the tenant row
  pc

vars == <<balance, created, refunds, charged, creditsUsed, jobLock, tenantLock, pc>>
money == <<balance, refunds, charged, creditsUsed>>
locks == <<jobLock, tenantLock>>

ReleaserPC == {"idle", "check", "credit", "record", "done", "failed"}
ChargerPC  == {"idle", "record", "used", "done", "failed"}

TypeOK ==
  /\ balance \in Nat
  /\ created \in BOOLEAN
  /\ refunds \in Nat
  /\ charged \in Nat
  /\ creditsUsed \in Nat
  /\ jobLock \in Releasers \cup {NoOne}
  /\ tenantLock \in Callers \cup {NoOne}
  /\ pc \in [Callers -> ReleaserPC \cup ChargerPC]
  /\ \A r \in Releasers : pc[r] \in ReleaserPC
  /\ \A c \in Chargers : pc[c] \in ChargerPC

Init ==
  /\ balance = InitialCredits
  /\ created = FALSE
  /\ refunds = 0
  /\ charged = 0
  /\ creditsUsed = 0
  /\ jobLock = NoOne
  /\ tenantLock = NoOne
  /\ pc = [p \in Callers |-> "idle"]

(* createVideoJob: one conditional UPDATE checks and takes the estimate; the *)
(* job row is created in the same transaction, so nobody can wait for it.    *)
CreateVideoJob ==
  /\ ~created
  /\ balance >= Estimate
  /\ balance' = balance - Estimate
  /\ created' = TRUE
  /\ UNCHANGED <<refunds, charged, creditsUsed, locks, pc>>

-----------------------------------------------------------------------------
(* releaseReserveOnce *)

(* Mutants: without FOR UPDATE; a locked job is skipped. *)
LockJobMutant(r) ==
  /\ created /\ pc[r] = "idle"
  /\ pc' = [pc EXCEPT ![r] = "check"]
  /\ UNCHANGED <<money, created, locks>>

LockJobSkipMutant(r) ==
  /\ created /\ pc[r] = "idle"
  /\ jobLock' = IF jobLock = NoOne THEN r ELSE jobLock
  /\ pc' = [pc EXCEPT ![r] = IF jobLock = NoOne THEN "check" ELSE "done"]
  /\ UNCHANGED <<money, created, tenantLock>>

LockJob(r) ==
  /\ created /\ pc[r] = "idle"
  /\ jobLock = NoOne
  /\ jobLock' = r
  /\ pc' = [pc EXCEPT ![r] = "check"]
  /\ UNCHANGED <<money, created, tenantLock>>

(* findFirst({type: 'refund'}): an existing row ends the transaction. *)
AlreadyReleased(r) ==
  /\ pc[r] = "check" /\ refunds > 0
  /\ jobLock' = NoOne
  /\ pc' = [pc EXCEPT ![r] = "done"]
  /\ UNCHANGED <<money, created, tenantLock>>

NotReleasedYet(r) ==
  /\ pc[r] = "check" /\ refunds = 0
  /\ pc' = [pc EXCEPT ![r] = "credit"]
  /\ UNCHANGED <<money, created, locks>>

LockTenant(r) ==
  /\ pc[r] = "credit"
  /\ tenantLock = NoOne
  /\ tenantLock' = r
  /\ pc' = [pc EXCEPT ![r] = "record"]
  /\ UNCHANGED <<money, created, jobLock>>

(* Mutant: only what was not spent is released. *)
CommitReleaseMutant(r) ==
  /\ pc[r] = "record"
  /\ balance' = balance + Estimate - creditsUsed
  /\ refunds' = refunds + 1
  /\ jobLock' = NoOne
  /\ tenantLock' = NoOne
  /\ pc' = [pc EXCEPT ![r] = "done"]
  /\ UNCHANGED <<created, charged, creditsUsed>>

CommitRelease(r) ==
  /\ pc[r] = "record"
  /\ balance' = balance + Estimate
  /\ refunds' = refunds + 1
  /\ jobLock' = NoOne
  /\ tenantLock' = NoOne
  /\ pc' = [pc EXCEPT ![r] = "done"]
  /\ UNCHANGED <<created, charged, creditsUsed>>

-----------------------------------------------------------------------------
(* chargeCredits, then job.update({creditsUsed: {increment}}) *)

(* Mutants: no check constraint; a balance that is only read first. *)
DebitUnchecked(c) ==
  /\ created /\ pc[c] = "idle"
  /\ tenantLock = NoOne
  /\ tenantLock' = c
  /\ pc' = [pc EXCEPT ![c] = "record"]
  /\ UNCHANGED <<money, created, jobLock>>

DebitUnlocked(c) ==
  /\ created /\ pc[c] = "idle"
  /\ balance >= Price[c]
  /\ pc' = [pc EXCEPT ![c] = "record"]
  /\ UNCHANGED <<money, created, locks>>

(* The decrement locks the tenant row; tenants_credits_non_negative aborts  *)
(* the transaction when the balance would go below zero.                    *)
Debit(c) ==
  /\ created /\ pc[c] = "idle"
  /\ tenantLock = NoOne
  /\ balance >= Price[c]
  /\ tenantLock' = c
  /\ pc' = [pc EXCEPT ![c] = "record"]
  /\ UNCHANGED <<money, created, jobLock>>

(* Mutant: the decrement is tried until the balance covers it. *)
DebitRefusedMutant(c) ==
  /\ created /\ pc[c] = "idle"
  /\ tenantLock = NoOne
  /\ balance < Price[c]
  /\ UNCHANGED vars

DebitRefused(c) ==
  /\ created /\ pc[c] = "idle"
  /\ tenantLock = NoOne
  /\ balance < Price[c]
  /\ pc' = [pc EXCEPT ![c] = "failed"]
  /\ UNCHANGED <<money, created, locks>>

(* The 'charge' row references the job: its insert waits for FOR UPDATE. *)
CommitCharge(c) ==
  /\ pc[c] = "record"
  /\ jobLock = NoOne
  /\ balance' = balance - Price[c]
  /\ charged' = charged + Price[c]
  /\ tenantLock' = NoOne
  /\ pc' = [pc EXCEPT ![c] = "used"]
  /\ UNCHANGED <<created, refunds, creditsUsed, jobLock>>

AddCreditsUsed(c) ==
  /\ pc[c] = "used"
  /\ jobLock = NoOne
  /\ creditsUsed' = creditsUsed + Price[c]
  /\ pc' = [pc EXCEPT ![c] = "done"]
  /\ UNCHANGED <<balance, created, refunds, charged, locks>>

-----------------------------------------------------------------------------
(* Rollback: the caller's locks are freed and none of its writes is kept.   *)
Rollback(p) ==
  /\ jobLock' = IF jobLock = p THEN NoOne ELSE jobLock
  /\ tenantLock' = IF tenantLock = p THEN NoOne ELSE tenantLock
  /\ pc' = [pc EXCEPT ![p] = "failed"]
  /\ UNCHANGED <<money, created>>

(* A releaser holds the job and wants the tenant, a charger the reverse. *)
InDeadlock(r, c) ==
  /\ pc[r] = "credit" /\ tenantLock = c
  /\ pc[c] = "record" /\ jobLock = r

DeadlockVictim ==
  \E r \in Releasers, c \in Chargers :
    InDeadlock(r, c) /\ (Rollback(r) \/ Rollback(c))

Breaks(p) ==
  /\ p \in Unreliable
  /\ pc[p] \in {"check", "credit", "record", "used"}
  /\ Rollback(p)

ReleaserStep(r) ==
  \/ LockJob(r) \/ AlreadyReleased(r) \/ NotReleasedYet(r)
  \/ LockTenant(r) \/ CommitRelease(r)

ChargerStep(c) == Debit(c) \/ DebitRefused(c) \/ CommitCharge(c) \/ AddCreditsUsed(c)

Over(p) == pc[p] \in {"done", "failed"}

Finished ==
  /\ \A p \in Callers : Over(p)
  /\ UNCHANGED vars

Next ==
  \/ CreateVideoJob
  \/ \E r \in Releasers : ReleaserStep(r)
  \/ \E c \in Chargers : ChargerStep(c)
  \/ DeadlockVictim
  \/ \E p \in Callers : Breaks(p)
  \/ Finished

Fairness ==
  /\ WF_vars(CreateVideoJob)
  /\ \A r \in Releasers : WF_vars(ReleaserStep(r))
  /\ \A c \in Chargers : WF_vars(ChargerStep(c))
  /\ WF_vars(DeadlockVictim)

Spec == Init /\ [][Next]_vars
FairSpec == Spec /\ Fairness

-----------------------------------------------------------------------------
Reserve == IF ~created THEN "none" ELSE IF refunds = 0 THEN "held" ELSE "released"

Ledger == INSTANCE CreditLedger WITH reserve <- Reserve

(* However many settle, refund and cancel paths race for one job, whatever  *)
(* breaks, at most one 'refund' row is ever committed ("at most once per    *)
(* job", releaseReserveOnce).                                               *)
ReleasedAtMostOnce == refunds <= 1

(* A release call that returned normally leaves the reserve released: a     *)
(* caller that skipped because another one was there first never skips on   *)
(* a refund that is later rolled back.                                      *)
ReturnMeansReleased == \A r \in Releasers : pc[r] = "done" => refunds = 1

(* The tenant's balance always is what it was, less the committed charges   *)
(* and less the estimate while it is on hold (CreditLedger's Conserved).    *)
Conserved == Ledger!Conserved

(* The interleaved transactions implement the abstract ledger: every commit *)
(* is one reserve, one charge or one release, everything else changes no    *)
(* money (the credit flow in the comment of settleCredits).                 *)
LedgerSpec == Ledger!Spec

(* Lock waits never freeze the account: every call returns or fails (the    *)
(* deadlock of a releaser and a charger included).                          *)
EveryCallEnds == \A p \in Callers : created ~> Over(p)

(* video-job.ts: "the reserve is released exactly once per job": once every *)
(* caller is through, and one of them is there to release, the reserve is   *)
(* back with the tenant.                                                    *)
ReleasedExactlyOnce ==
  (created /\ Releasers # {} /\ \A p \in Callers : Over(p)) => refunds = 1
============================================================================
