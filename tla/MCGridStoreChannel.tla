------------------------- MODULE MCGridStoreChannel -------------------------
(* Small instances of GridStoreChannel. *)
EXTENDS GridStoreChannel
=============================================================================
