---------------------------- MODULE MCConnections ----------------------------
(* One or two threads that open connections beside the two handlers. *)
EXTENDS Connections
==============================================================================
