-------------------------- MODULE MCBlockDownload --------------------------
(***************************************************************************)
(* Chains for BlockDownload: every block stakes a coin three blocks below. *)
(***************************************************************************)
EXTENDS BlockDownload

MCStakeOf == [h \in 0 .. Height |-> IF h > 3 THEN h - 3 ELSE 0]
MCEarlyWork == 0 .. 1
MCMixed == (0 .. Height) \ {3, 4}
=============================================================================
