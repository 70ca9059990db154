----------------------------- MODULE MCPromise -----------------------------
(* Model-checking instance of Promise. *)
EXTENDS Promise, TLC

Symmetry == Permutations(Promises) \cup Permutations(Handlers)
=============================================================================
