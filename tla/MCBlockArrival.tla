--------------------------- MODULE MCBlockArrival ---------------------------
(***************************************************************************)
(* Block trees for BlockArrival.  G - T is common.  A2 - A3 is the chain   *)
(* the checkpoint master signs, B2 - B3 - B4 is heavier, and A2 and B2 use *)
(* the same stake.  X3 on top of B2 does not connect; Y4 follows it.       *)
(***************************************************************************)
EXTENDS BlockArrival

MCBlock == {"G", "T", "A2", "A3", "B2", "B3", "X3", "Y4"}
MCBlockArrivals == MCBlock \ {"X3", "Y4"}

MCPrev == [b \in Block |->
    CASE b = "G" -> Nil [] b = "T" -> "G" [] b \in {"A2", "B2"} -> "T"
      [] b = "A3" -> "A2" [] b \in {"B3", "X3"} -> "B2" [] b = "B4" -> "B3"
      [] b = "Y4" -> "X3"]
MCAnc[b \in Block] == IF b = "G" THEN {"G"} ELSE {b} \cup MCAnc[MCPrev[b]]
MCHeight == [b \in Block |-> Cardinality(MCAnc[b]) - 1]
MCTrust == [b \in Block |->
    CASE b = "G" -> 0 [] b = "T" -> 1 [] b \in {"A2", "B2"} -> 2 [] b = "A3" -> 3
      [] b = "B3" -> 4 [] b \in {"B4", "X3"} -> 5 [] b = "Y4" -> 6]
MCStake == [b \in Block |-> IF b \in {"A2", "B2"} THEN "s" ELSE Nil]
MCKernel == [b \in Block |-> IF b = "B2" THEN "T" ELSE "G"]
MCConnects == Block \ {"X3"}
=============================================================================
