------------------------------ MODULE MCFactory ------------------------------
EXTENDS Factory, TLC

CONSTANTS k1, k2

MCSocketTypesOf == (k1 :> "plain") @@ (k2 :> "secure")

(* The threads are alike. *)
Symmetry == Permutations(Thread)
=============================================================================
