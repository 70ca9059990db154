---------------------------- MODULE MCContainers ----------------------------
(* Model-checking instance of Containers: three keys in one chain of the   *)
(* table of two, in two chains of the table of four.                       *)
EXTENDS Containers, TLC

CONSTANTS k1, k2, k3

MCHash == k1 :> 0 @@ k2 :> 4 @@ k3 :> 2

Symmetry == Permutations(Object)
=============================================================================
