------------------------- MODULE MCStoreContainers --------------------------
(* Small instances of StoreContainers. *)
EXTENDS StoreContainers, TLC

HandleSymmetry == Permutations(Handle)
ContainerSymmetry == Permutations(Container)
AllSymmetry == Permutations(Handle) \cup Permutations(Container) \cup Permutations(Key)
=============================================================================
