-------------------------- MODULE MCNodeConnection --------------------------
(* Small instances of NodeConnection. *)
EXTENDS NodeConnection
=============================================================================
