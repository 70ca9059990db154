-------------------------- MODULE HandlerSequences --------------------------
(***************************************************************************)
(* The pointer lists of HandlerList, seen as the sequences of SeqLists.    *)
(***************************************************************************)
EXTENDS HandlerList, Integers, FiniteSets, SequencesExt

(* Memory is finite. *)
ASSUME HandlersAssumption == IsFiniteSet(Handlers)

(* The sentinel and the handlers behind it. *)
CellAt(l, s, i) == IF i = 0 THEN l ELSE s[i]

(* Along nx, the handlers of s follow the sentinel l and lead back to it.  *)
(* A sentinel that was never used leads nowhere.                           *)
Spells(nx, l, s) ==
  /\ \A i \in 0 .. Len(s) - 1 : nx[CellAt(l, s, i)] = s[i + 1]
  /\ \/ nx[CellAt(l, s, Len(s))] = l
     \/ s = <<>> /\ nx[l] = NULL
  /\ IsInjective(s)

Orders == UNION {[1 .. n -> Handlers] : n \in 0 .. Cardinality(Handlers)}

(* The cells of list l, in the order in which nx meets them. *)
Walk(nx, l) == CHOOSE s \in Orders : Spells(nx, l, s)

(* How many of them a call that stands on c has met. *)
PositionIn(c, l, s) ==
  IF c = NULL THEN 0 - 1
  ELSE IF c = l THEN 0
  ELSE CHOOSE i \in 1 .. Len(s) : s[i] = c

Walks == [l \in Lists |-> Walk(next, l)]
Positions == [l \in Lists |-> PositionIn(current[l], l, Walk(next, l))]

Abstract == INSTANCE SeqLists WITH seq <- Walks, pos <- Positions

(* The pointer lists behave as the sequences of SeqLists do. *)
ImplementsSequences == Abstract!Spec
=============================================================================
