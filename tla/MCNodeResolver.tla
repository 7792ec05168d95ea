---------------------------- MODULE MCNodeResolver --------------------------
(* Small instances of NodeResolver. *)
EXTENDS NodeResolver, TLC

CONSTANTS n1, n2

TwoClusters == [n \in Node |-> IF n = n1 THEN 3 ELSE 5]
BothMembers == <<n1, n2>>

(* At one node alone, at the other with a backup, and without an owner. *)
ThreePlacements ==
  {[owner |-> n1, backups |-> {}], [owner |-> n2, backups |-> {n1}],
   [owner |-> NULL, backups |-> {n1}]}

ContextSymmetry == Permutations(Context)
=============================================================================
