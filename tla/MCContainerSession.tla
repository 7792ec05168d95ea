------------------------- MODULE MCContainerSession -------------------------
(* Small instances of ContainerSession. *)
EXTENDS ContainerSession, TLC

UpdateSymmetry == Permutations(Update)
=============================================================================
