----------------------------- MODULE MCMultiPut -----------------------------
EXTENDS MultiPut, TLC

CONSTANTS c1, c2, c3

MCPartitionOf == (c1 :> 0) @@ (c2 :> 0) @@ (c3 :> 1)
=============================================================================
