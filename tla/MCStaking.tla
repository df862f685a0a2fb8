----------------------------- MODULE MCStaking -----------------------------
(***************************************************************************)
(* An instance of Staking: a transaction of others, and one that spends it *)
(* and a coin of the wallet, which is dated later.  It may be paid by the  *)
(* wallet here or in a copy of it, and come first.                         *)
(***************************************************************************)
EXTENDS Staking

CONSTANTS c1, c2, p, x

MCTx == {p, x}
MCCoin == {c1, c2}
MCVin == [t \in MCTx |-> IF t = p THEN {c1, x} ELSE {}]
MCTxTime == [t \in MCTx |-> IF t = p THEN 2 ELSE 1]
MCTxFee == [t \in MCTx |-> 1]
=============================================================================
