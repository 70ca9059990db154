--------------------------- MODULE MCDbConnection ---------------------------
(* Model-checking instance of the database layer. *)
EXTENDS Database, TLC

Symmetry ==
  UNION {Permutations(S) : S \in {Ops, Threads, Connections, Entries}}
=============================================================================
