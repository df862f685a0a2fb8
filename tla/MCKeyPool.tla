----------------------------- MODULE MCKeyPool -----------------------------
(* Instances of KeyPool for TLC. *)
EXTENDS KeyPool
=============================================================================
