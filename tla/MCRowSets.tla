----------------------------- MODULE MCRowSets ------------------------------
(* A small instance of RowSets. *)
EXTENDS RowSets
=============================================================================
