--------------------------- MODULE CreditLedger ---------------------------
(***************************************************************************)
(* What the credit code of the program promises for one job of one tenant: *)
(*                                                                         *)
(*   - creating the job soft-reserves an estimate, if the tenant has it;   *)
(*   - workers charge what they really spent, on top of the reserve;       *)
(*   - the whole reserve goes back to the tenant, once.                    *)
(*                                                                         *)
(* "Net result: tenant only loses the actual amount charged by workers"    *)
(* (apps/orchestrator/src/lib/credits.ts).  CreditTransactions and         *)
(* VideoPipeline are shown to implement this module.                       *)
(***************************************************************************)
EXTENDS Integers

CONSTANTS
  InitialCredits,   \* Tenant.credits before the job is created
  Estimate,         \* payload.estimatedCredits: the size of the soft reserve
  Prices            \* the amounts a worker may charge

VARIABLES
  balance,   \* Tenant.credits
  reserve,   \* "none": no job yet, "held": reserved, "released": a refund row exists
  charged    \* sum of the job's CreditTransaction rows of type 'charge'

vars == <<balance, reserve, charged>>

TypeOK ==
  /\ balance \in Nat
  /\ reserve \in {"none", "held", "released"}
  /\ charged \in Nat

Init ==
  /\ balance = InitialCredits
  /\ reserve = "none"
  /\ charged = 0

Reserve ==
  /\ reserve = "none"
  /\ balance >= Estimate
  /\ balance' = balance - Estimate
  /\ reserve' = "held"
  /\ UNCHANGED charged

Charge ==
  \E p \in Prices :
    /\ reserve # "none"
    /\ balance >= p
    /\ balance' = balance - p
    /\ charged' = charged + p
    /\ UNCHANGED reserve

Release ==
  /\ reserve = "held"
  /\ balance' = balance + Estimate
  /\ reserve' = "released"
  /\ UNCHANGED charged

Next == Reserve \/ Charge \/ Release

Spec == Init /\ [][Next]_vars

OnHold == IF reserve = "held" THEN Estimate ELSE 0

(* Every credit the tenant is missing is either on hold for the job or was  *)
(* charged by a worker: no step of reserve, charge and release loses one or *)
(* gives one away (the "Net result" line of settleCredits).                 *)
Conserved == balance + charged + OnHold = InitialCredits
============================================================================
