--------------------------- MODULE MCHandlerList ---------------------------
(* Model-checking instance of HandlerList and its refinement of SeqLists.  *)
EXTENDS HandlerSequences, TLC

\* The cells are only compared for equality, and so are the lists.
Symmetry == Permutations(Lists) \cup Permutations(Handlers)
=============================================================================
