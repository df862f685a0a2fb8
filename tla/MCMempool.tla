------------------------------ MODULE MCMempool ------------------------------
(***************************************************************************)
(* Chains for Mempool.  G - R - S is common; A3 - A4 confirms pay and its  *)
(* child next, B3 - B4 confirms rival, which spends the same coinbase      *)
(* output as pay.  own spends the output of next and, as the only one, the *)
(* second output of the coinbase; it is a payment of the wallet.           *)
(***************************************************************************)
EXTENDS Mempool

MCBlock == {"G", "R", "S", "A3", "A4", "B3", "B4"}
MCPrev == [b \in MCBlock |->
    CASE b = "G" -> Nil [] b = "R" -> "G" [] b = "S" -> "R" [] b = "A3" -> "S"
      [] b = "A4" -> "A3" [] b = "B3" -> "S" [] b = "B4" -> "B3"]
MCAnc[b \in MCBlock] == IF b = "G" THEN {"G"} ELSE {b} \cup MCAnc[MCPrev[b]]
MCHeight == [b \in MCBlock |-> Cardinality(MCAnc[b]) - 1]

MCTx == {"coinbase", "pay", "rival", "next", "own"}
MCOut == {"c0", "c1", "p0", "n0"}
MCOutTx == [o \in MCOut |-> CASE o \in {"c0", "c1"} -> "coinbase"
    [] o = "p0" -> "pay" [] o = "n0" -> "next"]
MCVin == [t \in MCTx |-> CASE t \in {"pay", "rival"} -> {"c0"} [] t = "next" -> {"p0"}
    [] t = "own" -> {"n0", "c1"} [] OTHER -> {}]
MCBlockTx == [b \in MCBlock |-> CASE b = "R" -> {"coinbase"} [] b = "A3" -> {"pay"}
    [] b = "A4" -> {"next"} [] b = "B3" -> {"rival"} [] OTHER -> {}]
MCSupporting == [t \in MCTx |-> IF t = "own" THEN <<"pay", "next">> ELSE << >>]
=============================================================================
