----------------------- MODULE MCCreditTransactions -----------------------
(* Small instances of CreditTransactions for TLC.                           *)
EXTENDS CreditTransactions, TLC

CONSTANTS r1, r2, r3, c1, c2

MCPrices == {1, 2}

(* Five credits, three of them reserved: the two chargers together can ask  *)
(* for one more than is left, so that a charge may be refused.              *)
MCPrice == (c1 :> 1) @@ (c2 :> 2)
============================================================================
