-------------------------- MODULE MCPromiseUnion --------------------------
(* Model-checking instance of PromiseUnion: no set of promises is treated  *)
(* as symmetric, because a liveness property is checked.                   *)
EXTENDS PromiseUnion
=============================================================================
