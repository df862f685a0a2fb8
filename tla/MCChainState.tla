---------------------------- MODULE MCChainState ----------------------------
(***************************************************************************)
(* A block tree for ChainState.  The trunk G - R forks into the branch     *)
(* A2 - A3, which spends the coinbase of R in A3, and B2 - B3, which       *)
(* spends it in B3 and spends the change within the same block; B4 is a    *)
(* sound child of B3, C4 spends the coinbase of R again, D5 is a sound     *)
(* block on top of it, and E4 spends an output that only A3 creates.       *)
(***************************************************************************)
EXTENDS ChainState, FiniteSets

MCBlock == {"G", "R", "A2", "A3", "B2", "B3", "B4", "C4", "D5", "E4"}

MCPrev == [b \in MCBlock |->
    CASE b = "G" -> Nil [] b = "R" -> "G" [] b = "A2" -> "R" [] b = "A3" -> "A2"
      [] b = "B2" -> "R" [] b = "B3" -> "B2" [] b = "B4" -> "B3"
      [] b = "C4" -> "B3" [] b = "D5" -> "C4" [] b = "E4" -> "B3"]

MCAnc[b \in MCBlock] == IF b = "G" THEN {"G"} ELSE {b} \cup MCAnc[MCPrev[b]]

MCHeight == [b \in MCBlock |-> Cardinality(MCAnc[b]) - 1]

\* Block trust 1, but 2 for the proof-of-stake block A2.
MCChainTrust == [b \in MCBlock |->
    Cardinality(MCAnc[b]) + (IF "A2" \in MCAnc[b] THEN 1 ELSE 0)]

MCTx == {"cR", "cA2", "x", "cB2", "y", "z", "w", "v", "u", "e"}
MCOut == {"cR0", "x0", "y0", "z0", "cB20"}
MCOutTx == [o \in MCOut |-> CASE o = "cR0" -> "cR" [] o = "x0" -> "x"
    [] o = "y0" -> "y" [] o = "z0" -> "z" [] o = "cB20" -> "cB2"]
MCVin == [t \in MCTx |->
    CASE t = "x" -> {"cR0"} [] t = "y" -> {"cR0"} [] t = "z" -> {"y0"}
      [] t = "w" -> {"z0", "cB20"} [] t = "v" -> {"cR0"} [] t = "e" -> {"x0"} [] OTHER -> {}]
MCVtx == [b \in MCBlock |->
    CASE b = "R" -> <<"cR">> [] b = "A2" -> <<"cA2">> [] b = "A3" -> <<"x">>
      [] b = "B2" -> <<"cB2">> [] b = "B3" -> <<"y", "z">> [] b = "B4" -> <<"w">>
      [] b = "C4" -> <<"v">> [] b = "D5" -> <<"u">> [] b = "E4" -> <<"e">> [] OTHER -> << >>]
MCGenerated == {"cR", "cA2", "cB2", "u"}
MCClaim == [b \in MCBlock |-> IF Cardinality(Txs(b) \cap MCGenerated) = 1 THEN 5000 ELSE 0]
=============================================================================
