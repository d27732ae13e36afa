--------------------- MODULE CreditTransactionsProofs ---------------------
(***************************************************************************)
(* Proofs about CreditTransactions for any sets of releasers and chargers, *)
(* any prices and any set of unreliable callers.                           *)
(***************************************************************************)
EXTENDS CreditTransactions, TLAPS

(* Who is inside a transaction holds the lock its position says it holds.  *)
LocksHeld ==
  /\ \A r \in Releasers : pc[r] \in {"check", "credit", "record"} => jobLock = r
  /\ \A p \in Callers : pc[p] = "record" => tenantLock = p
  /\ \A p \in Callers : pc[p] # "idle" => created

(* What a transaction read under its lock is still so when it writes.       *)
ReadsStillHold ==
  /\ \A r \in Releasers : pc[r] \in {"credit", "record"} => refunds = 0
  /\ \A c \in Chargers : pc[c] = "record" => balance >= Price[c]

IInv ==
  /\ TypeOK
  /\ LocksHeld
  /\ ReadsStillHold
  /\ ReleasedAtMostOnce
  /\ ReturnMeansReleased
  /\ (~created => refunds = 0)
  /\ Conserved

USE TransactionsAssumption

(* The prices charged are natural numbers.                                  *)
LEMMA PriceIsNat == \A c \in Chargers : Price[c] \in Nat /\ Price[c] \in Prices
OBVIOUS

(* The bookkeeping of what is on hold, written out on the module's own state. *)
LEMMA ConservedIs ==
  Conserved <=> balance + charged + (IF created /\ refunds = 0 THEN Estimate ELSE 0) = InitialCredits
BY DEF Conserved, Ledger!Conserved, Ledger!OnHold, Reserve

LEMMA ConservedNextIs ==
  Conserved' <=> balance' + charged' + (IF created' /\ refunds' = 0 THEN Estimate ELSE 0) = InitialCredits
BY DEF Conserved, Ledger!Conserved, Ledger!OnHold, Reserve

LEMMA InitIInv == Init => IInv
<1> SUFFICES ASSUME Init PROVE IInv
  OBVIOUS
<1>1. TypeOK
  BY DEF Init, TypeOK, ReleaserPC, ChargerPC, Callers
<1>2. LocksHeld /\ ReadsStillHold
  BY DEF Init, LocksHeld, ReadsStillHold, Callers
<1>3. ReleasedAtMostOnce /\ ReturnMeansReleased /\ (~created => refunds = 0)
  BY DEF Init, ReleasedAtMostOnce, ReturnMeansReleased, Callers
<1>4. Conserved
  BY ConservedIs DEF Init
<1> QED BY <1>1, <1>2, <1>3, <1>4 DEF IInv

(* A rollback frees only what its caller held and writes nothing.           *)
LEMMA RollbackIInv ==
  ASSUME IInv, NEW p \in Callers, pc[p] # "idle", Rollback(p)
  PROVE  IInv'
<1> USE DEF IInv, Rollback, money, Callers
<1>1. TypeOK'
  BY DEF TypeOK, ReleaserPC, ChargerPC
<1>2. LocksHeld'
  BY DEF TypeOK, LocksHeld
<1>3. ReadsStillHold' /\ ReleasedAtMostOnce' /\ ReturnMeansReleased'
  BY DEF TypeOK, ReadsStillHold, ReleasedAtMostOnce, ReturnMeansReleased
<1>4. Conserved' /\ (~created' => refunds' = 0)
  BY ConservedIs, ConservedNextIs
<1> QED BY <1>1, <1>2, <1>3, <1>4

(* Every step of a releaser keeps the invariant: the job lock it holds from *)
(* its check to its commit excludes every other releaser.                   *)
LEMMA ReleaserIInv ==
  ASSUME IInv, NEW r \in Releasers, ReleaserStep(r)
  PROVE  IInv'
<1> USE DEF IInv, money, locks, Callers
<1>1. CASE LockJob(r)
  <2>1. TypeOK'
    BY <1>1 DEF LockJob, TypeOK, ReleaserPC, ChargerPC
  <2>2. LocksHeld'
    BY <1>1 DEF LockJob, TypeOK, LocksHeld
  <2>3. ReadsStillHold' /\ ReleasedAtMostOnce' /\ ReturnMeansReleased'
    BY <1>1 DEF LockJob, TypeOK, ReadsStillHold, ReleasedAtMostOnce, ReturnMeansReleased
  <2>4. Conserved' /\ (~created' => refunds' = 0)
    BY <1>1, ConservedIs, ConservedNextIs DEF LockJob
  <2> QED BY <2>1, <2>2, <2>3, <2>4
<1>2. CASE AlreadyReleased(r)
  <2>1. TypeOK'
    BY <1>2 DEF AlreadyReleased, TypeOK, ReleaserPC, ChargerPC
  <2>2. LocksHeld'
    BY <1>2 DEF AlreadyReleased, TypeOK, LocksHeld
  <2>3. ReadsStillHold' /\ ReleasedAtMostOnce' /\ ReturnMeansReleased'
    BY <1>2 DEF AlreadyReleased, TypeOK, ReadsStillHold, ReleasedAtMostOnce, ReturnMeansReleased
  <2>4. Conserved' /\ (~created' => refunds' = 0)
    BY <1>2, ConservedIs, ConservedNextIs DEF AlreadyReleased
  <2> QED BY <2>1, <2>2, <2>3, <2>4
<1>3. CASE NotReleasedYet(r)
  <2>1. TypeOK'
    BY <1>3 DEF NotReleasedYet, TypeOK, ReleaserPC, ChargerPC
  <2>2. LocksHeld'
    BY <1>3 DEF NotReleasedYet, TypeOK, LocksHeld
  <2>3. ReadsStillHold' /\ ReleasedAtMostOnce' /\ ReturnMeansReleased'
    BY <1>3 DEF NotReleasedYet, TypeOK, ReadsStillHold, ReleasedAtMostOnce, ReturnMeansReleased
  <2>4. Conserved' /\ (~created' => refunds' = 0)
    BY <1>3, ConservedIs, ConservedNextIs DEF NotReleasedYet
  <2> QED BY <2>1, <2>2, <2>3, <2>4
<1>4. CASE LockTenant(r)
  <2>1. TypeOK'
    BY <1>4 DEF LockTenant, TypeOK, ReleaserPC, ChargerPC
  <2>2. LocksHeld'
    BY <1>4 DEF LockTenant, TypeOK, LocksHeld
  <2>3. ReadsStillHold' /\ ReleasedAtMostOnce' /\ ReturnMeansReleased'
    BY <1>4 DEF LockTenant, TypeOK, ReadsStillHold, ReleasedAtMostOnce, ReturnMeansReleased
  <2>4. Conserved' /\ (~created' => refunds' = 0)
    BY <1>4, ConservedIs, ConservedNextIs DEF LockTenant
  <2> QED BY <2>1, <2>2, <2>3, <2>4
<1>5. CASE CommitRelease(r)
  <2>1. refunds = 0 /\ created /\ jobLock = r /\ tenantLock = r
    BY <1>5 DEF CommitRelease, LocksHeld, ReadsStillHold
  <2>2. \A q \in Releasers : pc[q] \in {"check", "credit", "record"} => q = r
    BY <2>1 DEF LocksHeld
  <2>3. \A q \in Callers : pc[q] = "record" => q = r
    BY <2>1 DEF LocksHeld
  <2>4. TypeOK'
    BY <1>5 DEF CommitRelease, TypeOK, ReleaserPC, ChargerPC
  <2>5. LocksHeld'
    BY <1>5, <2>1, <2>2, <2>3 DEF CommitRelease, TypeOK, LocksHeld
  <2>6. ReadsStillHold' /\ ReleasedAtMostOnce'
    BY <1>5, <2>1, <2>2, <2>3 DEF CommitRelease, TypeOK, ReadsStillHold, ReleasedAtMostOnce
  <2>7. ReturnMeansReleased'
    BY <1>5, <2>1 DEF CommitRelease, TypeOK, ReturnMeansReleased
  <2>8. Conserved' /\ (~created' => refunds' = 0)
    BY <1>5, <2>1, ConservedIs, ConservedNextIs DEF CommitRelease, TypeOK
  <2> QED BY <2>4, <2>5, <2>6, <2>7, <2>8
<1> QED BY <1>1, <1>2, <1>3, <1>4, <1>5 DEF ReleaserStep

(* Every step of a charger keeps the invariant: the tenant lock it holds    *)
(* keeps the balance it checked from moving until it commits.               *)
LEMMA ChargerIInv ==
  ASSUME IInv, NEW c \in Chargers, ChargerStep(c)
  PROVE  IInv'
<1> USE DEF IInv, money, locks, Callers
<1>1. CASE Debit(c)
  <2>1. TypeOK'
    BY <1>1 DEF Debit, TypeOK, ReleaserPC, ChargerPC
  <2>2. LocksHeld'
    BY <1>1 DEF Debit, TypeOK, LocksHeld
  <2>3. ReadsStillHold' /\ ReleasedAtMostOnce' /\ ReturnMeansReleased'
    BY <1>1 DEF Debit, TypeOK, ReadsStillHold, ReleasedAtMostOnce, ReturnMeansReleased
  <2>4. Conserved' /\ (~created' => refunds' = 0)
    BY <1>1, ConservedIs, ConservedNextIs DEF Debit
  <2> QED BY <2>1, <2>2, <2>3, <2>4
<1>2. CASE DebitRefused(c)
  <2>1. TypeOK'
    BY <1>2 DEF DebitRefused, TypeOK, ReleaserPC, ChargerPC
  <2>2. LocksHeld'
    BY <1>2 DEF DebitRefused, TypeOK, LocksHeld
  <2>3. ReadsStillHold' /\ ReleasedAtMostOnce' /\ ReturnMeansReleased'
    BY <1>2 DEF DebitRefused, TypeOK, ReadsStillHold, ReleasedAtMostOnce, ReturnMeansReleased
  <2>4. Conserved' /\ (~created' => refunds' = 0)
    BY <1>2, ConservedIs, ConservedNextIs DEF DebitRefused
  <2> QED BY <2>1, <2>2, <2>3, <2>4
<1>3. CASE CommitCharge(c)
  <2>1. balance >= Price[c] /\ created /\ tenantLock = c
    BY <1>3 DEF CommitCharge, LocksHeld, ReadsStillHold
  <2>2. \A q \in Callers : pc[q] = "record" => q = c
    BY <2>1 DEF LocksHeld
  <2>3. balance' \in Nat /\ charged' \in Nat
    BY <1>3, <2>1, PriceIsNat DEF CommitCharge, TypeOK
  <2>4. TypeOK'
    BY <1>3, <2>3 DEF CommitCharge, TypeOK, ReleaserPC, ChargerPC
  <2>5. LocksHeld'
    BY <1>3, <2>1, <2>2 DEF CommitCharge, TypeOK, LocksHeld
  <2>6. ReadsStillHold' /\ ReleasedAtMostOnce' /\ ReturnMeansReleased'
    BY <1>3, <2>2 DEF CommitCharge, TypeOK, ReadsStillHold, ReleasedAtMostOnce, ReturnMeansReleased
  <2>7. Conserved' /\ (~created' => refunds' = 0)
    BY <1>3, <2>1, PriceIsNat, ConservedIs, ConservedNextIs DEF CommitCharge, TypeOK
  <2> QED BY <2>4, <2>5, <2>6, <2>7
<1>4. CASE AddCreditsUsed(c)
  <2>1. TypeOK'
    BY <1>4, PriceIsNat DEF AddCreditsUsed, TypeOK, ReleaserPC, ChargerPC
  <2>2. LocksHeld'
    BY <1>4 DEF AddCreditsUsed, TypeOK, LocksHeld
  <2>3. ReadsStillHold' /\ ReleasedAtMostOnce' /\ ReturnMeansReleased'
    BY <1>4 DEF AddCreditsUsed, TypeOK, ReadsStillHold, ReleasedAtMostOnce, ReturnMeansReleased
  <2>4. Conserved' /\ (~created' => refunds' = 0)
    BY <1>4, ConservedIs, ConservedNextIs DEF AddCreditsUsed
  <2> QED BY <2>1, <2>2, <2>3, <2>4
<1> QED BY <1>1, <1>2, <1>3, <1>4 DEF ChargerStep

LEMMA CreateIInv == ASSUME IInv, CreateVideoJob PROVE IInv'
<1> USE DEF IInv, CreateVideoJob, locks, Callers
<1>1. refunds = 0 /\ \A p \in Callers : pc[p] = "idle"
  BY DEF LocksHeld
<1>2. TypeOK'
  BY DEF TypeOK
<1>3. LocksHeld' /\ ReadsStillHold'
  BY <1>1 DEF TypeOK, LocksHeld, ReadsStillHold
<1>4. ReleasedAtMostOnce' /\ ReturnMeansReleased' /\ (~created' => refunds' = 0)
  BY <1>1 DEF ReleasedAtMostOnce, ReturnMeansReleased
<1>5. Conserved'
  BY <1>1, ConservedIs, ConservedNextIs DEF TypeOK
<1> QED BY <1>2, <1>3, <1>4, <1>5

LEMMA StutterIInv == ASSUME IInv, UNCHANGED vars PROVE IInv'
BY ConservedIs, ConservedNextIs DEF IInv, vars, TypeOK, LocksHeld, ReadsStillHold,
   ReleasedAtMostOnce, ReturnMeansReleased

LEMMA NextIInv == IInv /\ [Next]_vars => IInv'
<1> SUFFICES ASSUME IInv, [Next]_vars PROVE IInv'
  OBVIOUS
<1>1. CASE CreateVideoJob
  BY <1>1, CreateIInv
<1>2. CASE \E r \in Releasers : ReleaserStep(r)
  BY <1>2, ReleaserIInv
<1>3. CASE \E c \in Chargers : ChargerStep(c)
  BY <1>3, ChargerIInv
<1>4. CASE DeadlockVictim
  <2>1. PICK r \in Releasers, c \in Chargers : InDeadlock(r, c) /\ (Rollback(r) \/ Rollback(c))
    BY <1>4 DEF DeadlockVictim
  <2>2. r \in Callers /\ c \in Callers /\ pc[r] # "idle" /\ pc[c] # "idle"
    BY <2>1 DEF InDeadlock, Callers
  <2> QED BY <2>1, <2>2, RollbackIInv
<1>5. CASE \E p \in Callers : Breaks(p)
  <2>1. PICK p \in Callers : Breaks(p)
    BY <1>5
  <2>2. pc[p] # "idle" /\ Rollback(p)
    BY <2>1 DEF Breaks
  <2> QED BY <2>2, RollbackIInv
<1>6. CASE Finished
  BY <1>6, StutterIInv DEF Finished
<1>7. CASE UNCHANGED vars
  BY <1>7, StutterIInv
<1> QED BY <1>1, <1>2, <1>3, <1>4, <1>5, <1>6, <1>7 DEF Next

(* The inductive invariant holds in every reachable state.                  *)
THEOREM Invariance == Spec => []IInv
<1>1. Init => IInv
  BY InitIInv
<1>2. IInv /\ [Next]_vars => IInv'
  BY NextIInv
<1> QED BY <1>1, <1>2, PTL DEF Spec

(* Type correctness, for any callers, prices and amounts.                   *)
THEOREM TypeCorrect == Spec => []TypeOK
<1>1. IInv => TypeOK
  BY DEF IInv
<1> QED BY <1>1, Invariance, PTL

(* releaseReserveOnce commits at most one refund per job, whatever the      *)
(* number of settle, refund and cancel paths that race for it.              *)
THEOREM AtMostOnce == Spec => []ReleasedAtMostOnce
<1>1. IInv => ReleasedAtMostOnce
  BY DEF IInv
<1> QED BY <1>1, Invariance, PTL

(* A release that returned means that the reserve really is back.           *)
THEOREM ReturnedIsReleased == Spec => []ReturnMeansReleased
<1>1. IInv => ReturnMeansReleased
  BY DEF IInv
<1> QED BY <1>1, Invariance, PTL

(* No interleaving of the transactions loses or invents a credit.           *)
THEOREM MoneyConserved == Spec => []Conserved
<1>1. IInv => Conserved
  BY DEF IInv
<1> QED BY <1>1, Invariance, PTL

-----------------------------------------------------------------------------
(* Every step is a step of the abstract ledger or changes nothing in it.    *)
LEMMA LedgerStep == IInv /\ IInv' /\ [Next]_vars => [Ledger!Next]_(Ledger!vars)
<1> SUFFICES ASSUME IInv, [Next]_vars PROVE [Ledger!Next]_(Ledger!vars)
  OBVIOUS
<1> USE DEF Ledger!vars, Reserve, money, locks
<1>1. CASE CreateVideoJob
  BY <1>1 DEF CreateVideoJob, IInv, Ledger!Next, Ledger!Reserve
<1>2. ASSUME NEW r \in Releasers, ReleaserStep(r) PROVE [Ledger!Next]_(Ledger!vars)
  <2>1. CASE CommitRelease(r)
    <3>1. created /\ refunds = 0
      BY <2>1 DEF CommitRelease, IInv, LocksHeld, ReadsStillHold, Callers
    <3> QED BY <2>1, <3>1 DEF CommitRelease, Ledger!Next, Ledger!Release
  <2>2. CASE LockJob(r) \/ AlreadyReleased(r) \/ NotReleasedYet(r) \/ LockTenant(r)
    BY <2>2 DEF LockJob, AlreadyReleased, NotReleasedYet, LockTenant
  <2> QED BY <1>2, <2>1, <2>2 DEF ReleaserStep
<1>3. ASSUME NEW c \in Chargers, ChargerStep(c) PROVE [Ledger!Next]_(Ledger!vars)
  <2>1. CASE CommitCharge(c)
    <3>1. created /\ balance >= Price[c]
      BY <2>1 DEF CommitCharge, IInv, LocksHeld, ReadsStillHold, Callers
    <3> QED BY <2>1, <3>1, PriceIsNat DEF CommitCharge, Ledger!Next, Ledger!Charge
  <2>2. CASE Debit(c) \/ DebitRefused(c) \/ AddCreditsUsed(c)
    BY <2>2 DEF Debit, DebitRefused, AddCreditsUsed
  <2> QED BY <1>3, <2>1, <2>2 DEF ChargerStep
<1>4. CASE DeadlockVictim
  BY <1>4 DEF DeadlockVictim, Rollback
<1>5. CASE \E p \in Callers : Breaks(p)
  BY <1>5 DEF Breaks, Rollback
<1>6. CASE UNCHANGED vars \/ Finished
  BY <1>6 DEF Finished, vars
<1> QED BY <1>1, <1>2, <1>3, <1>4, <1>5, <1>6 DEF Next

(* The transactions implement the abstract credit ledger.                   *)
THEOREM ImplementsLedger == Spec => LedgerSpec
<1>1. Init => Ledger!Init
  BY DEF Init, Ledger!Init, Reserve
<1>2. IInv /\ IInv' /\ [Next]_vars => [Ledger!Next]_(Ledger!vars)
  BY LedgerStep
<1> QED BY <1>1, <1>2, Invariance, PTL DEF Spec, LedgerSpec, Ledger!Spec
============================================================================
