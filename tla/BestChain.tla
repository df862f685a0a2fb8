------------------------------ MODULE BestChain ------------------------------
(***************************************************************************)
(* What ChainState promises when nothing crashes, fails or is forced: a    *)
(* node collects blocks, its tip always ends a valid chain, moves only to  *)
(* heavier blocks, and reaches the heaviest valid chain it knows.          *)
(***************************************************************************)
EXTENDS Naturals

CONSTANTS Block, Genesis, ChainTrust,
          Valid     \* the blocks that end a valid chain

VARIABLES known, tip

Learn(b) ==
    /\ known' = known \cup {b}
    /\ UNCHANGED tip

Adopt(b) ==
    /\ b \in known \cap Valid
    /\ ChainTrust[b] > ChainTrust[tip]
    /\ tip' = b
    /\ UNCHANGED known

Init == known = {Genesis} /\ tip = Genesis

Next == \E b \in Block : Learn(b) \/ Adopt(b)

\* Spec without the promise that the heaviest valid chain is reached.
Safe == Init /\ [][Next]_<<known, tip>>

Spec ==
    /\ Safe
    /\ WF_<<known, tip>>(\E b \in Block : Adopt(b))
=============================================================================
