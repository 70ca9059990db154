------------------------- MODULE HandlerList_proofs -------------------------
(***************************************************************************)
(* For any number of lists and cells: the pointer lists of MSNode stay     *)
(* well linked, never share a cell and never leak one, and implement the   *)
(* sequences of SeqLists.                                                  *)
(***************************************************************************)
EXTENDS HandlerSequences, Lists_proofs, FiniteSetTheorems, TLAPS

(* A list that owns handlers has an initialised sentinel. *)
OwnersClosed == \A h \in Allocated : next[owner[h]] # NULL

(* The inductive invariant.  NoLeak is what makes Separated inductive: the *)
(* chain a Move detaches ends at the last cell of its list only because    *)
(* the sentinel reaches all of its cells.                                  *)
IInv == TypeOK /\ Linked /\ Separated /\ NoLeak /\ OwnersClosed

-----------------------------------------------------------------------------
(* Facts about the walk Chain. *)

LEMMA ChainStart == ASSUME NEW nx, NEW n \in Nodes PROVE n \in Chain(nx, n)
BY DEF Chain

LEMMA ChainNodes == ASSUME NEW nx, NEW n PROVE Chain(nx, n) \subseteq Nodes
BY DEF Chain

LEMMA ChainClosed ==
  ASSUME NEW nx \in [Nodes -> Nodes \cup {NULL}], NEW n \in Nodes,
         NEW m \in Chain(nx, n)
  PROVE  nx[m] \in Chain(nx, n) \cup {NULL}
BY DEF Chain

LEMMA ChainLeast ==
  ASSUME NEW nx, NEW n, NEW S \in SUBSET Nodes, n \in S,
         \A k \in S : nx[k] \in S \cup {NULL}
  PROVE  Chain(nx, n) \subseteq S
BY DEF Chain

(* Every cell of a walk but its first is the next of a cell of the walk. *)
LEMMA ChainPredecessor ==
  ASSUME NEW nx \in [Nodes -> Nodes \cup {NULL}], NEW n \in Nodes,
         NEW m \in Chain(nx, n), m # n
  PROVE  \E k \in Chain(nx, n) : nx[k] = m
<1> SUFFICES ASSUME \A k \in Chain(nx, n) : nx[k] # m PROVE FALSE
  OBVIOUS
<1> DEFINE S == Chain(nx, n) \ {m}
<1>1. S \in SUBSET Nodes /\ n \in S
  BY ChainNodes, ChainStart
<1>2. \A k \in S : nx[k] \in S \cup {NULL}
  BY ChainClosed
<1>3. Chain(nx, n) \subseteq S
  BY <1>1, <1>2, ChainLeast
<1> QED BY <1>3

(* The walk from a cell is that cell and the walk from its next. *)
LEMMA ChainUnfold ==
  ASSUME NEW nx \in [Nodes -> Nodes \cup {NULL}], NEW n \in Nodes, nx[n] # NULL
  PROVE  Chain(nx, n) \subseteq {n} \cup Chain(nx, nx[n])
<1> DEFINE S == {n} \cup Chain(nx, nx[n])
<1>1. nx[n] \in Nodes
  OBVIOUS
<1>2. S \in SUBSET Nodes /\ n \in S
  BY ChainNodes
<1>3. \A k \in S : nx[k] \in S \cup {NULL}
  BY <1>1, ChainClosed, ChainStart
<1> HIDE DEF S
<1>4. Chain(nx, n) \subseteq S
  BY <1>2, <1>3, ChainLeast
<1> QED BY <1>4 DEF S

-----------------------------------------------------------------------------
(* Facts about the live cells of a list. *)

Cells(l) == {n \in Live : OwnerOf(n) = l}

LEMMA LiveFacts ==
  ASSUME IInv
  PROVE  /\ \A n \in Live : OwnerOf(n) \in Lists /\ n \in Cells(OwnerOf(n))
         /\ \A l \in Lists : l \in Cells(l)
         /\ \A h \in Handlers : owner[h] # NULL => h \in Cells(owner[h])
         /\ \A l \in Lists : Cells(l) \subseteq Live
         /\ Live \subseteq Nodes
BY NodesAssumption DEF IInv, TypeOK, Cells, OwnerOf, Live, Allocated, Nodes

(* In a list whose sentinel is closed, next and prev stay in the list. *)
LEMMA CellsLinked ==
  ASSUME IInv, NEW l \in Lists, next[l] # NULL, NEW n \in Cells(l)
  PROVE  /\ next[n] \in Cells(l) /\ prev[n] \in Cells(l)
         /\ prev[next[n]] = n /\ next[prev[n]] = n
<1>1. n \in Live /\ OwnerOf(n) = l
  BY DEF Cells
<1>2. ~(n \in Lists /\ next[n] = NULL /\ prev[n] = NULL)
  BY <1>1 DEF OwnerOf
<1>3. /\ next[n] \in Live /\ prev[n] \in Live
      /\ prev[next[n]] = n /\ next[prev[n]] = n
  BY <1>1, <1>2 DEF IInv, Linked
<1>4. n # NULL /\ next[n] # NULL
  BY <1>1, <1>3, LiveFacts, NodesAssumption
<1>5. OwnerOf(next[n]) = l
  BY <1>1, <1>3, <1>4 DEF IInv, Separated
<1>6. OwnerOf(prev[n]) = l
  BY <1>1, <1>3, <1>4 DEF IInv, Separated
<1> QED BY <1>3, <1>5, <1>6 DEF Cells

(* The sentinel reaches every cell of its list and nothing else. *)
LEMMA CellsReached ==
  ASSUME IInv, NEW l \in Lists, next[l] # NULL
  PROVE  Chain(next, l) = Cells(l)
<1>1. Cells(l) \in SUBSET Nodes /\ l \in Cells(l)
  BY LiveFacts
<1>2. Chain(next, l) \subseteq Cells(l)
  BY <1>1, CellsLinked, ChainLeast
<1>3. ASSUME NEW n \in Cells(l) PROVE n \in Chain(next, l)
  <2>1. CASE n \in Lists
    BY <2>1, ChainStart DEF Cells, OwnerOf, Nodes
  <2>2. CASE n \notin Lists
    BY <2>2 DEF Cells, OwnerOf, Live, IInv, NoLeak
  <2> QED BY <2>1, <2>2
<1> QED BY <1>2, <1>3

-----------------------------------------------------------------------------
(* MSHandlerDetach of the tail of list l that starts with f: it cuts the   *)
(* cells of l in two, those the sentinel still reaches and the chain.      *)

Detached(l, f) == Detach(Heap, f, prev[l])

LEMMA DetachCuts ==
  ASSUME IInv, NEW l \in Lists, NEW f \in Handlers, owner[f] = l
  PROVE  LET last == prev[l]
             p == prev[f]
             d == Detached(l, f)
             A == Chain(d.next, l)
             C == Chain(d.next, f)
         IN  /\ d = [next |-> [next EXCEPT ![p] = l, ![last] = NULL],
                     prev |-> [prev EXCEPT ![l] = p, ![f] = NULL]]
             /\ last \in Handlers /\ p # last
             /\ l \in A /\ p \in A /\ f \in C /\ last \in C
             /\ A \cap C = {}
             /\ A \cup C = Cells(l)
<1> DEFINE last == prev[l]
           p == prev[f]
           dn == [next EXCEPT ![p] = l, ![last] = NULL]
           A == Chain(dn, l)
           C == Chain(dn, f)
<1>1. /\ l \in Nodes /\ f \in Nodes /\ l # f /\ l # NULL /\ f # NULL
      /\ f \in Cells(l) /\ l \in Cells(l) /\ next[l] # NULL
      /\ Cells(l) \subseteq Nodes
      /\ f \in Allocated
  BY NodesAssumption, LiveFacts DEF Nodes, IInv, OwnersClosed, Allocated
<1>2. /\ p \in Cells(l) /\ next[p] = f
      /\ last \in Cells(l) /\ next[last] = l
      /\ p # last
  BY <1>1, CellsLinked
<1>3. last # l
  <2> SUFFICES ASSUME last = l PROVE FALSE
    OBVIOUS
  <2>0. {l} \in SUBSET Nodes /\ \A k \in {l} : next[k] \in {l} \cup {NULL}
    BY <1>1, <1>2
  <2>1. Chain(next, l) \subseteq {l}
    BY <2>0, ChainLeast
  <2> QED BY <2>1, <1>1, CellsReached
<1>4. last \in Handlers
  BY <1>1, <1>2, <1>3 DEF Cells, OwnerOf, Live, Allocated
<1>5. Detached(l, f) = [next |-> dn, prev |-> [prev EXCEPT ![l] = p, ![f] = NULL]]
  <2>1. f # NULL /\ last # NULL /\ next[last] # f
    BY <1>1, <1>2, <1>4, NodesAssumption DEF Nodes
  <2>2. Detached(l, f) = [next |-> [next EXCEPT ![p] = next[last], ![last] = NULL],
                          prev |-> [prev EXCEPT ![next[last]] = p, ![f] = NULL]]
    BY <2>1 DEF Detached, Detach, Heap
  <2> QED BY <2>2, <1>2
<1>6. dn \in [Nodes -> Nodes \cup {NULL}]
  BY <1>1 DEF IInv, TypeOK
<1>7. /\ dn[p] = l /\ dn[last] = NULL
      /\ \A n \in Nodes : n # p /\ n # last => dn[n] = next[n]
  BY <1>1, <1>2 DEF IInv, TypeOK
<1>8. l \in A /\ f \in C
  BY <1>1, ChainStart
<1> HIDE DEF dn
<1>9. A \subseteq Cells(l) /\ C \subseteq Cells(l)
  <2>1. \A n \in Cells(l) : dn[n] \in Cells(l) \cup {NULL}
    BY <1>1, <1>7, CellsLinked
  <2> QED BY <2>1, <1>1, ChainLeast
<1>10. p \in A
  <2> SUFFICES ASSUME p \notin A PROVE FALSE
    OBVIOUS
  <2>1. \A n \in A : next[n] \in A \cup {NULL}
    BY <1>1, <1>2, <1>6, <1>7, <1>8, ChainClosed, ChainNodes
  <2>2. Chain(next, l) \subseteq A
    BY <2>1, <1>8, ChainNodes, ChainLeast
  <2> QED BY <2>2, <1>1, <1>2, CellsReached
<1>11. last \notin A
  <2> DEFINE B == {n \in A : p \in Chain(dn, n)}
  <2>1. B \in SUBSET Nodes /\ l \in B
    BY <1>8, <1>10, ChainNodes
  <2>2. ASSUME NEW n \in B, dn[n] # NULL PROVE dn[n] \in B
    <3>1. n \in Nodes /\ dn[n] \in A /\ dn[n] \in Nodes
      BY <2>1, <2>2, <1>1, <1>6, ChainClosed, ChainNodes
    <3>2. CASE n = p
      BY <3>1, <3>2, <1>7, <1>10, <2>1
    <3>3. CASE n # p
      <4>1. p \in Chain(dn, dn[n])
        BY <3>1, <3>3, <2>2, <1>6, ChainUnfold
      <4> QED BY <4>1, <3>1
    <3> QED BY <3>2, <3>3
  <2>3. A \subseteq B
    <3>1. \A n \in B : dn[n] \in B \cup {NULL}
      BY <2>2
    <3> HIDE DEF B
    <3> QED BY <3>1, <2>1, ChainLeast
  <2>4. {last} \in SUBSET Nodes /\ \A k \in {last} : dn[k] \in {last} \cup {NULL}
    BY <1>1, <1>2, <1>7
  <2>5. Chain(dn, last) \subseteq {last}
    BY <2>4, ChainLeast
  <2> QED BY <2>3, <2>5, <1>2
<1>12. last \in C /\ Cells(l) \subseteq A \cup C
  <2>1. \A n \in A \cup C : next[n] \in (A \cup C) \cup {NULL}
    BY <1>1, <1>2, <1>6, <1>7, <1>8, ChainClosed, ChainNodes
  <2> DEFINE U == A \cup C
  <2>0. U \in SUBSET Nodes /\ l \in U /\ \A n \in U : next[n] \in U \cup {NULL}
    BY <2>1, <1>8, ChainNodes
  <2>2. Chain(next, l) \subseteq U
    <3> HIDE DEF U
    <3> QED BY <2>0, ChainLeast
  <2>3. Cells(l) \subseteq A \cup C
    BY <2>2, <1>1, CellsReached
  <2> QED BY <2>3, <1>2, <1>11
<1>13. A \cap C = {}
  <2> DEFINE D == C \ A
  <2>1. f \notin A
    <3> SUFFICES ASSUME f \in A PROVE FALSE
      OBVIOUS
    <3>1. PICK k \in A : dn[k] = f
      BY <1>1, <1>6, ChainPredecessor
    <3>2. k \in Cells(l) /\ k \in Nodes
      BY <3>1, <1>1, <1>9
    <3>3. next[k] = f /\ k # p
      BY <3>1, <3>2, <1>1, <1>7
    <3> QED BY <3>2, <3>3, <1>1, CellsLinked
  <2>2. ASSUME NEW n \in D, dn[n] \in A PROVE FALSE
    <3>1. n \in Cells(l) /\ n \in Nodes /\ n # p /\ n \notin A
      BY <1>1, <1>9, <1>10
    <3>2. n # last
      BY <2>2, <1>7, ChainNodes, NodesAssumption
    <3>3. dn[n] = next[n]
      BY <3>1, <3>2, <1>7
    <3>4. CASE dn[n] = l
      BY <3>1, <3>2, <3>3, <3>4, <1>1, <1>2, CellsLinked
    <3>5. CASE dn[n] # l
      <4>1. PICK k \in A : dn[k] = dn[n]
        BY <2>2, <3>5, <1>1, <1>6, ChainPredecessor
      <4>2. k \in Cells(l) /\ k \in Nodes /\ k # p /\ k # last
        BY <4>1, <3>5, <1>1, <1>7, <1>9, <1>11
      <4>3. next[k] = next[n]
        BY <4>1, <4>2, <3>3, <1>7
      <4> QED BY <4>1, <4>2, <4>3, <3>1, <1>1, CellsLinked
    <3> QED BY <3>4, <3>5
  <2>3. \A n \in D : dn[n] \in D \cup {NULL}
    BY <2>2, <1>1, <1>6, ChainClosed
  <2>4. D \in SUBSET Nodes /\ f \in D
    BY <2>1, <1>8, ChainNodes
  <2> HIDE DEF D
  <2>5. C \subseteq D
    BY <2>3, <2>4, ChainLeast
  <2> QED BY <2>5 DEF D
<1>14. dn = [next EXCEPT ![p] = l, ![last] = NULL]
  BY DEF dn
<1>15. Detached(l, f).next = dn
  BY <1>5
<1>16. A \cup C = Cells(l)
  BY <1>9, <1>12
<1> QED BY <1>2, <1>4, <1>5, <1>8, <1>10, <1>12, <1>13, <1>14, <1>15, <1>16
-----------------------------------------------------------------------------
(* The invariant holds initially and every operation preserves it. *)

LEMMA InitInv == Init => IInv
<1> SUFFICES ASSUME Init PROVE IInv
  OBVIOUS
<1>1. Allocated = {} /\ Live = Lists
  BY DEF Init, Allocated, Live
<1>2. TypeOK
  BY DEF Init, TypeOK
<1>3. Linked /\ Separated /\ NoLeak /\ OwnersClosed
  BY <1>1 DEF Init, Linked, Separated, NoLeak, OwnersClosed, Nodes
<1> QED BY <1>2, <1>3 DEF IInv

(* Adding a fresh cell h behind the last cell q of list l. *)
LEMMA AddInv ==
  ASSUME IInv, NEW l \in Lists, NEW h \in Handlers, Add(l, h)
  PROVE  IInv'
<1> DEFINE c == Closed(Heap, l)
           q == c.prev[l]
<1>1. /\ l \in Nodes /\ h \in Nodes /\ l # h /\ l # NULL /\ h # NULL
      /\ owner[h] = NULL /\ h \notin Live
  BY NodesAssumption DEF Nodes, Add, Live, Allocated
<1>2. /\ next[l] = NULL <=> prev[l] = NULL
      /\ prev[l] = NULL => Cells(l) = {l}
  <2>1. next[l] = NULL <=> prev[l] = NULL
    BY <1>1, LiveFacts, NodesAssumption DEF IInv, Linked, Live
  <2>2. prev[l] = NULL => Cells(l) = {l}
    BY <2>1, <1>1 DEF Cells, OwnerOf, Live, Allocated, IInv, OwnersClosed
  <2> QED BY <2>1, <2>2
<1>3. /\ q \in Cells(l) /\ q \in Live /\ q \in Nodes
      /\ c.next \in [Nodes -> Nodes \cup {NULL}]
      /\ c.prev \in [Nodes -> Nodes \cup {NULL}]
      /\ \A n \in Cells(l) : /\ c.next[n] \in Cells(l) /\ c.prev[n] \in Cells(l)
                              /\ c.prev[c.next[n]] = n /\ c.next[c.prev[n]] = n
      /\ \A n \in Nodes \ {l} : c.next[n] = next[n] /\ c.prev[n] = prev[n]
      /\ c.next[q] = l
  <2>1. CASE prev[l] = NULL
    <3>1. c = [next |-> [next EXCEPT ![l] = l], prev |-> [prev EXCEPT ![l] = l]]
      BY <2>1 DEF Closed, Heap
    <3> QED BY <3>1, <2>1, <1>1, <1>2, LiveFacts DEF IInv, TypeOK
  <2>2. CASE prev[l] # NULL
    <3>1. c = Heap
      BY <2>2 DEF Closed, Heap
    <3>2. next[l] # NULL
      BY <2>2, <1>2
    <3> QED BY <3>1, <3>2, <1>1, CellsLinked, LiveFacts DEF IInv, TypeOK, Heap
  <2> QED BY <2>1, <2>2
<1>4. /\ next' = [c.next EXCEPT ![q] = h, ![h] = l]
      /\ prev' = [c.prev EXCEPT ![h] = q, ![l] = h]
      /\ owner' = [owner EXCEPT ![h] = l]
      /\ current' = current
  BY DEF Add, Attach
<1> HIDE DEF c, q
<1>5. /\ Live' = Live \cup {h} /\ Allocated' = Allocated \cup {h}
      /\ \A n \in Live : OwnerOf(n)' = OwnerOf(n)
      /\ OwnerOf(h)' = l
      /\ q # h
  BY <1>1, <1>3, <1>4, NodesAssumption DEF Live, Allocated, OwnerOf, IInv, TypeOK
<1>6. TypeOK'
  BY <1>1, <1>3, <1>4 DEF IInv, TypeOK
<1>7. /\ next'[h] = l /\ prev'[h] = q /\ next'[q] = h /\ prev'[l] = h
      /\ \A n \in Nodes \ {q, h} : next'[n] = c.next[n]
      /\ \A n \in Nodes \ {l, h} : prev'[n] = c.prev[n]
  BY <1>1, <1>3, <1>4, <1>5
<1>8. ASSUME NEW n \in Live, n \notin Cells(l)
      PROVE  /\ next'[n] = next[n] /\ prev'[n] = prev[n] /\ n \in Nodes
             /\ n # l /\ n # q /\ n # h
  BY <1>1, <1>3, <1>7, <1>8, LiveFacts
<1>9. Linked'
  <2> SUFFICES ASSUME NEW n \in Live'
               PROVE  (\/ n \in Lists /\ next[n] = NULL /\ prev[n] = NULL
                       \/ /\ next[n] \in Live /\ prev[n] \in Live
                          /\ prev[next[n]] = n /\ next[prev[n]] = n)'
    BY DEF Linked
  <2>1. CASE n = h
    BY <2>1, <1>3, <1>5, <1>7, LiveFacts
  <2>2. CASE n \in Cells(l)
    <3>1. n \in Live /\ n \in Nodes /\ n # h
      BY <2>2, <1>1, LiveFacts
    <3>2. next'[n] \in Live' /\ prev'[next'[n]] = n
      <4>1. CASE n = q
        BY <4>1, <1>3, <1>5, <1>7
      <4>2. CASE n # q
        <5>1. next'[n] = c.next[n] /\ c.next[n] \in Cells(l) /\ c.next[n] # l
          BY <4>2, <3>1, <2>2, <1>3, <1>7, LiveFacts
        <5> QED BY <5>1, <2>2, <1>1, <1>3, <1>5, <1>7, LiveFacts
      <4> QED BY <4>1, <4>2
    <3>3. prev'[n] \in Live' /\ next'[prev'[n]] = n
      <4>1. CASE n = l
        BY <4>1, <1>5, <1>7
      <4>2. CASE n # l
        <5>1. prev'[n] = c.prev[n] /\ c.prev[n] \in Cells(l) /\ c.prev[n] # q
          BY <4>2, <3>1, <2>2, <1>3, <1>7
        <5> QED BY <5>1, <2>2, <1>1, <1>3, <1>5, <1>7, LiveFacts
      <4> QED BY <4>1, <4>2
    <3> QED BY <3>2, <3>3
  <2>3. CASE n \in Live /\ n \notin Cells(l)
    <3>1. next'[n] = next[n] /\ prev'[n] = prev[n]
      BY <2>3, <1>8
    <3>2. CASE n \in Lists /\ next[n] = NULL /\ prev[n] = NULL
      BY <3>1, <3>2
    <3>3. CASE ~(n \in Lists /\ next[n] = NULL /\ prev[n] = NULL)
      <4>1. /\ next[n] \in Live /\ prev[n] \in Live
            /\ prev[next[n]] = n /\ next[prev[n]] = n
        BY <3>3, <2>3 DEF IInv, Linked
      <4>2. next[n] \notin Cells(l) /\ prev[n] \notin Cells(l)
        <5>1. OwnerOf(next[n]) = OwnerOf(n)
          BY <4>1, <2>3, LiveFacts, NodesAssumption DEF IInv, Separated
        <5>2. OwnerOf(n) = OwnerOf(prev[n])
          BY <4>1, <2>3, LiveFacts, NodesAssumption DEF IInv, Separated
        <5> QED BY <5>1, <5>2, <2>3 DEF Cells
      <4> QED BY <4>1, <4>2, <3>1, <1>5, <1>8
    <3> QED BY <3>2, <3>3
  <2> QED BY <2>1, <2>2, <2>3, <1>5
<1>10. Separated'
  <2> SUFFICES ASSUME NEW n \in Live', (next[n] # NULL)'
               PROVE  OwnerOf(next[n])' = OwnerOf(n)'
    BY DEF Separated
  <2>1. CASE n = h
    BY <2>1, <1>5, <1>7, LiveFacts DEF OwnerOf
  <2>2. CASE n \in Cells(l)
    BY <2>2, <1>1, <1>3, <1>5, <1>7, LiveFacts DEF Cells
  <2>3. CASE n \in Live /\ n \notin Cells(l)
    BY <2>3, <1>5, <1>8 DEF IInv, Separated, Linked
  <2> QED BY <2>1, <2>2, <2>3, <1>5
<1>11. NoLeak'
  <2> SUFFICES ASSUME NEW g \in Allocated', NEW S \in SUBSET Nodes,
                      owner'[g] \in S, \A k \in S : next'[k] \in S \cup {NULL}
               PROVE  g \in S
    BY <1>1 DEF NoLeak, Chain, Nodes, Allocated
  <2>1. CASE owner'[g] = l
    <3> DEFINE T == S \cap Cells(l)
    <3>1. T \in SUBSET Nodes /\ l \in T
      BY <2>1, LiveFacts
    <3>2. CASE next[l] = NULL
      <4>1. q = l
        BY <3>2, <1>2, <1>3
      <4> QED BY <4>1, <3>1, <3>2, <2>1, <1>1, <1>2, <1>4, <1>5, <1>7 DEF Cells, OwnerOf, Allocated, Live, IInv, OwnersClosed
    <3>3. CASE next[l] # NULL
      <4>1. c.next = next
        BY <3>3, <1>2 DEF c, Closed, Heap
      <4>2. \A k \in T : next[k] \in T \cup {NULL}
        BY <4>1, <3>1, <1>1, <1>3, <1>7, LiveFacts
      <4>3. Cells(l) \subseteq T
        <5> HIDE DEF T
        <5>1. Chain(next, l) \subseteq T
          BY <4>2, <3>1, ChainLeast
        <5> QED BY <5>1, <3>3, CellsReached
      <4>4. q \in S /\ h \in S
        BY <4>3, <1>1, <1>3, <1>7
      <4>5. g = h \/ g \in Cells(l)
        <5>1. CASE g # h
          <6>1. owner[g] = l /\ g \in Handlers
            BY <5>1, <2>1, <1>4 DEF Allocated, IInv, TypeOK
          <6> QED BY <6>1, <1>1, LiveFacts
        <5> QED BY <5>1
      <4> QED BY <4>3, <4>4, <4>5
    <3> QED BY <3>2, <3>3
  <2>2. CASE owner'[g] # l
    <3> DEFINE k0 == owner[g]
               T == S \cap Cells(k0)
    <3>1. g # h /\ owner'[g] = k0 /\ k0 # l /\ k0 \in Lists /\ g \in Allocated /\ g \in Cells(k0)
      BY <2>2, <1>4, <1>5, LiveFacts DEF IInv, TypeOK, Allocated
    <3>2. next[k0] # NULL
      BY <3>1 DEF IInv, OwnersClosed
    <3>3. T \in SUBSET Nodes /\ k0 \in T
      BY <3>1, LiveFacts
    <3>4. \A k \in T : next[k] \in T \cup {NULL}
      <4> SUFFICES ASSUME NEW k \in T PROVE next[k] \in T \cup {NULL}
        OBVIOUS
      <4>1. k \in Live /\ k \notin Cells(l)
        BY <3>1 DEF Cells
      <4>2. next'[k] = next[k] /\ next[k] \in Cells(k0)
        BY <4>1, <3>1, <3>2, <1>8, CellsLinked
      <4> QED BY <4>2
    <3>5. Chain(next, k0) \subseteq T
      <4> HIDE DEF T
      <4> QED BY <3>3, <3>4, ChainLeast
    <3> QED BY <3>1, <3>2, <3>5, CellsReached
  <2> QED BY <2>1, <2>2
<1>12. OwnersClosed'
  <2> SUFFICES ASSUME NEW g \in Allocated' PROVE next'[owner'[g]] # NULL
    BY DEF OwnersClosed
  <2>1. CASE owner'[g] = l
    BY <2>1, <1>1, <1>3, <1>7, NodesAssumption, LiveFacts
  <2>2. CASE owner'[g] # l
    BY <2>2, <1>1, <1>4, <1>5, <1>8, LiveFacts DEF IInv, OwnersClosed, Allocated, TypeOK, Cells, OwnerOf, Live
  <2> QED BY <2>1, <2>2
<1> QED BY <1>6, <1>9, <1>10, <1>11, <1>12 DEF IInv

(* A list that a step leaves alone keeps its cells linked: used for every  *)
(* list but the ones an operation names.                                   *)
LEMMA OtherCells ==
  ASSUME IInv, NEW l \in Lists, NEW n \in Cells(l)
  PROVE  \/ n = l /\ next[n] = NULL /\ prev[n] = NULL /\ Cells(l) = {l}
         \/ /\ next[l] # NULL
            /\ next[n] \in Cells(l) /\ prev[n] \in Cells(l)
            /\ prev[next[n]] = n /\ next[prev[n]] = n
<1>1. CASE next[l] = NULL
  <2>1. Cells(l) = {l}
    BY <1>1, LiveFacts, NodesAssumption DEF Cells, OwnerOf, Live, Allocated, IInv, OwnersClosed
  <2>2. prev[l] = NULL
    BY <1>1, LiveFacts, NodesAssumption DEF IInv, Linked, Live
  <2> QED BY <1>1, <2>1, <2>2
<1>2. CASE next[l] # NULL
  BY <1>2, CellsLinked
<1> QED BY <1>1, <1>2

(* Freeing the cells of list l. *)
LEMMA FreeInsideInv ==
  ASSUME IInv, NEW l \in Lists, FreeInside(l)
  PROVE  IInv'
<1> DEFINE f == next[l]
           last == prev[l]
           d == Detached(l, f)
           C == Chain(d.next, f)
<1>1. /\ next[l] # NULL /\ l \in Cells(l) /\ l \in Nodes /\ l # NULL
      /\ f \in Cells(l) /\ f # l /\ prev[f] = l
  BY CellsLinked, LiveFacts, NodesAssumption DEF FreeInside, Nodes
<1>2. f \in Handlers /\ owner[f] = l
  BY <1>1 DEF Cells, OwnerOf, Live, Allocated
<1>3. /\ d = [next |-> [next EXCEPT ![l] = l, ![last] = NULL],
              prev |-> [prev EXCEPT ![l] = l, ![f] = NULL]]
      /\ last \in Handlers /\ l # last
      /\ f \in C /\ last \in C
      /\ Chain(d.next, l) \cap C = {} /\ Chain(d.next, l) \cup C = Cells(l)
  BY <1>1, <1>2, DetachCuts
<1>4. Chain(d.next, l) \subseteq {l}
  <2>1. d.next[l] = l
    BY <1>1, <1>3 DEF IInv, TypeOK
  <2>2. {l} \in SUBSET Nodes /\ \A k \in {l} : d.next[k] \in {l} \cup {NULL}
    BY <1>1, <2>1
  <2> HIDE DEF d
  <2> QED BY <2>2, ChainLeast
<1>5. C = Cells(l) \ {l}
  <2>1. l \in Chain(d.next, l)
    BY <1>1, ChainStart
  <2> QED BY <1>3, <1>4, <2>1
<1>6. /\ next' = [next EXCEPT ![l] = l, ![last] = NULL]
      /\ prev' = [prev EXCEPT ![l] = l, ![f] = NULL]
      /\ owner' = [h \in Handlers |-> IF h \in C THEN NULL ELSE owner[h]]
      /\ current' = current
  BY <1>3 DEF FreeInside, Detached
<1> HIDE DEF C, d
<1>7. /\ last \in Cells(l)
      /\ next'[l] = l /\ prev'[l] = l
      /\ \A n \in Live \ Cells(l) : n \in Nodes /\ next'[n] = next[n] /\ prev'[n] = prev[n]
  BY <1>1, <1>3, <1>5, <1>6, LiveFacts DEF IInv, TypeOK
<1>8. /\ Live' = {l} \cup (Live \ Cells(l))
      /\ Allocated' = Allocated \ Cells(l)
      /\ \A n \in Live' : OwnerOf(n)' = OwnerOf(n)
  <2>1. \A h \in Handlers : owner'[h] # NULL <=> owner[h] # NULL /\ h \notin Cells(l)
    BY <1>1, <1>5, <1>6, NodesAssumption
  <2>2. Allocated' = Allocated \ Cells(l)
    BY <2>1 DEF Allocated
  <2>3. Live' = {l} \cup (Live \ Cells(l))
    BY <2>2, NodesAssumption DEF Live, Cells, OwnerOf
  <2> QED BY <1>5, <1>6, <2>2, <2>3 DEF Live, OwnerOf, Allocated
<1>9. TypeOK'
  BY <1>1, <1>2, <1>3, <1>6 DEF IInv, TypeOK
<1>10. Linked' /\ Separated'
  <2> SUFFICES ASSUME NEW n \in Live'
               PROVE  /\ (\/ n \in Lists /\ next[n] = NULL /\ prev[n] = NULL
                          \/ /\ next[n] \in Live /\ prev[n] \in Live
                             /\ prev[next[n]] = n /\ next[prev[n]] = n)'
                      /\ (next[n] # NULL => OwnerOf(next[n]) = OwnerOf(n))'
    BY DEF Linked, Separated
  <2>1. CASE n = l
    BY <2>1, <1>7, <1>8
  <2>2. CASE n \in Live \ Cells(l)
    <3>1. PICK k \in Lists : n \in Cells(k) /\ k # l
      BY <2>2, LiveFacts
    <3>2. Cells(k) \cap Cells(l) = {}
      BY <3>1 DEF Cells
    <3>3. /\ n \in Live /\ n \notin Cells(l) /\ Cells(k) \subseteq Live
          /\ k \in Cells(k)
          /\ n = k => n \in Lists
      BY <2>2, LiveFacts
    <3>4. CASE n = k /\ next[n] = NULL /\ prev[n] = NULL
      BY <3>4, <3>3, <1>7
    <3>5. CASE ~(n = k /\ next[n] = NULL /\ prev[n] = NULL)
      <4>1. /\ next[n] \in Cells(k) /\ prev[n] \in Cells(k)
            /\ prev[next[n]] = n /\ next[prev[n]] = n
        BY <3>1, <3>5, OtherCells
      <4>2. /\ next'[n] = next[n] /\ prev'[n] = prev[n]
            /\ prev'[next[n]] = n /\ next'[prev[n]] = n
            /\ next[n] \in Live' /\ prev[n] \in Live'
        BY <4>1, <3>2, <3>3, <1>7, <1>8
      <4>3. OwnerOf(next[n])' = OwnerOf(n)'
        BY <4>1, <4>2, <3>1, <1>8 DEF Cells
      <4> QED BY <4>2, <4>3
    <3> QED BY <3>4, <3>5
  <2> QED BY <2>1, <2>2, <1>8
<1>11. NoLeak'
  <2> SUFFICES ASSUME NEW g \in Allocated', NEW S \in SUBSET Nodes,
                      owner'[g] \in S, \A k \in S : next'[k] \in S \cup {NULL}
               PROVE  g \in S
    BY DEF NoLeak, Chain, Nodes, Allocated
  <2> DEFINE k0 == owner[g]
             T == S \cap Cells(k0)
  <2>1. /\ g \in Allocated /\ g \notin Cells(l) /\ k0 \in Lists /\ k0 # l
        /\ g \in Cells(k0) /\ owner'[g] = k0
    BY <1>5, <1>6, <1>8, LiveFacts DEF IInv, TypeOK, Allocated
  <2>2. next[k0] # NULL
    BY <2>1 DEF IInv, OwnersClosed
  <2>3. T \in SUBSET Nodes /\ k0 \in T
    BY <2>1, LiveFacts
  <2>4. \A k \in T : next[k] \in T \cup {NULL}
    <3> SUFFICES ASSUME NEW k \in T PROVE next[k] \in T \cup {NULL}
      OBVIOUS
    <3>1. k \in Live /\ k \notin Cells(l)
      BY <2>1 DEF Cells
    <3> QED BY <3>1, <2>1, <2>2, <1>7, CellsLinked
  <2>5. Chain(next, k0) \subseteq T
    <3> HIDE DEF T
    <3> QED BY <2>3, <2>4, ChainLeast
  <2> QED BY <2>1, <2>2, <2>5, CellsReached
<1>12. OwnersClosed'
  <2> SUFFICES ASSUME NEW g \in Allocated' PROVE next'[owner'[g]] # NULL
    BY DEF OwnersClosed
  <2>1. /\ g \in Allocated /\ g \notin Cells(l) /\ owner[g] \in Lists
        /\ owner'[g] = owner[g] /\ owner[g] # l
    BY <1>5, <1>6, <1>8, LiveFacts DEF IInv, TypeOK, Allocated
  <2>2. owner[g] \in Live \ Cells(l)
    BY <2>1 DEF Live, Cells, OwnerOf
  <2> QED BY <2>1, <2>2, <1>7 DEF IInv, OwnersClosed
<1> QED BY <1>9, <1>10, <1>11, <1>12 DEF IInv

(* The links inside the two halves a detach makes. *)
LEMMA DetachHalves ==
  ASSUME IInv, NEW l \in Lists, NEW f \in Handlers, owner[f] = l
  PROVE  LET last == prev[l]
             p == prev[f]
             A == Chain(Detached(l, f).next, l)
             C == Chain(Detached(l, f).next, f)
         IN  /\ \A n \in A : n # p => next[n] \in A /\ next[n] # l
             /\ \A n \in C : n # last => next[n] \in C /\ next[n] # f
             /\ \A n \in A : n # l => prev[n] \in A /\ prev[n] # p
             /\ \A n \in C : n # f => prev[n] \in C /\ prev[n] # last
             /\ \A n \in A \cup C : n \in Cells(l) /\ n \in Nodes /\ n # NULL
                                /\ prev[next[n]] = n /\ next[prev[n]] = n
             /\ next[p] = f /\ next[last] = l
<1> DEFINE last == prev[l]
           p == prev[f]
           dn == Detached(l, f).next
           A == Chain(dn, l)
           C == Chain(dn, f)
<1>1. /\ dn = [next EXCEPT ![p] = l, ![last] = NULL]
      /\ last \in Handlers /\ p # last
      /\ l \in A /\ p \in A /\ f \in C /\ last \in C
      /\ A \cap C = {}
      /\ A \cup C = Cells(l)
  BY DetachCuts
<1>2. next[l] # NULL /\ l \in Nodes /\ f \in Nodes
  BY NodesAssumption DEF IInv, OwnersClosed, Allocated, Nodes
<1>3. \A n \in A \cup C : /\ n \in Cells(l) /\ n \in Nodes /\ n # NULL
                        /\ next[n] \in Cells(l) /\ prev[n] \in Cells(l)
                        /\ next[n] # NULL
                        /\ prev[next[n]] = n /\ next[prev[n]] = n
  <2> SUFFICES ASSUME NEW n \in Cells(l)
               PROVE  /\ n \in Nodes /\ n # NULL
                      /\ next[n] \in Cells(l) /\ prev[n] \in Cells(l)
                      /\ next[n] # NULL
                      /\ prev[next[n]] = n /\ next[prev[n]] = n
    BY <1>1
  <2>1. Cells(l) \subseteq Nodes
    BY LiveFacts
  <2> QED BY <2>1, <1>2, CellsLinked, NodesAssumption
<1>4. /\ dn \in [Nodes -> Nodes \cup {NULL}]
      /\ \A n \in A \cup C : n # p /\ n # last => dn[n] = next[n]
      /\ l \in Nodes /\ f \in Nodes
  BY <1>1, <1>2, <1>3 DEF IInv, TypeOK
<1> HIDE DEF dn
<1>5. \A n \in A : n # p => next[n] \in A
  <2> SUFFICES ASSUME NEW n \in A, n # p PROVE next[n] \in A
    OBVIOUS
  <2>0. n \in A \cup C /\ n # p /\ n # last
    BY <1>1
  <2>1. dn[n] = next[n] /\ next[n] # NULL
    BY <2>0, <1>3, <1>4
  <2>2. dn[n] \in A \cup {NULL}
    BY <1>4, ChainClosed
  <2> QED BY <2>1, <2>2
<1>6. \A n \in C : n # last => next[n] \in C
  <2> SUFFICES ASSUME NEW n \in C, n # last PROVE next[n] \in C
    OBVIOUS
  <2>0. n \in A \cup C /\ n # p /\ n # last
    BY <1>1
  <2>1. dn[n] = next[n] /\ next[n] # NULL
    BY <2>0, <1>3, <1>4
  <2>2. dn[n] \in C \cup {NULL}
    BY <1>4, ChainClosed
  <2> QED BY <2>1, <2>2
<1>7. next[p] = f /\ next[last] = l
  BY <1>1, <1>3
<1> HIDE DEF A, C
<1>8. \A n \in A : n # p => next[n] # l
  BY <1>1, <1>3
<1>9. \A n \in C : n # last => next[n] # f
  BY <1>1, <1>3
<1>10. \A n \in A : n # l => prev[n] \in A /\ prev[n] # p
  BY <1>1, <1>3, <1>6, <1>7
<1>11. \A n \in C : n # f => prev[n] \in C /\ prev[n] # last
  BY <1>1, <1>3, <1>5, <1>7
<1> QED BY <1>3, <1>5, <1>6, <1>7, <1>8, <1>9, <1>10, <1>11 DEF A, C, dn

(* Handing the tail of list l that starts with f over to list m. *)
LEMMA MoveInv ==
  ASSUME IInv, NEW l \in Lists, NEW m \in Lists, NEW f \in Handlers, Move(l, f, m)
  PROVE  IInv'
<1> DEFINE last == prev[l]
           p == prev[f]
           d == Detached(l, f)
           A == Chain(d.next, l)
           C == Chain(d.next, f)
           c == Closed(d, m)
           q == c.prev[m]
<1>1. l # m /\ owner[f] = l
  BY DEF Move
<1>2. /\ d = [next |-> [next EXCEPT ![p] = l, ![last] = NULL],
              prev |-> [prev EXCEPT ![l] = p, ![f] = NULL]]
      /\ last \in Handlers /\ p # last
      /\ l \in A /\ p \in A /\ f \in C /\ last \in C
      /\ A \cap C = {}
      /\ A \cup C = Cells(l)
  BY <1>1, DetachCuts
<1>3. /\ \A n \in A : n # p => next[n] \in A /\ next[n] # l
      /\ \A n \in C : n # last => next[n] \in C /\ next[n] # f
      /\ \A n \in A : n # l => prev[n] \in A /\ prev[n] # p
      /\ \A n \in C : n # f => prev[n] \in C /\ prev[n] # last
      /\ \A n \in A \cup C : n \in Cells(l) /\ n \in Nodes /\ n # NULL
                         /\ prev[next[n]] = n /\ next[prev[n]] = n
      /\ next[p] = f /\ next[last] = l
  BY <1>1, DetachHalves
<1>4. /\ next' = [c.next EXCEPT ![q] = f, ![last] = m]
      /\ prev' = [c.prev EXCEPT ![f] = q, ![m] = last]
      /\ owner' = [h \in Handlers |-> IF h \in C THEN m ELSE owner[h]]
      /\ current' = current
  BY DEF Move, Attach, Detached
<1> HIDE DEF A, C
<1>5. /\ m \in Cells(m) /\ m \in Nodes /\ f \in Nodes /\ l \in Nodes /\ m # NULL
      /\ Cells(m) \cap Cells(l) = {} /\ m \notin A /\ m \notin C
      /\ last \in Nodes /\ p \in Nodes
      /\ m # f /\ m # last /\ m # p /\ m # l
  BY <1>1, <1>2, <1>3, LiveFacts, NodesAssumption DEF Cells, Nodes
<1>6. /\ q \in Cells(m)
      /\ c.next \in [Nodes -> Nodes \cup {NULL}]
      /\ c.prev \in [Nodes -> Nodes \cup {NULL}]
      /\ \A n \in Nodes \ {m} : c.next[n] = d.next[n] /\ c.prev[n] = d.prev[n]
      /\ \A n \in Cells(m) : /\ c.next[n] \in Cells(m) /\ c.prev[n] \in Cells(m)
                              /\ c.prev[c.next[n]] = n /\ c.next[c.prev[n]] = n
      /\ c.next[q] = m
      /\ next[m] # NULL => c.next[m] = next[m]
      /\ next[m] = NULL => q = m
  <2>1. /\ d.next \in [Nodes -> Nodes \cup {NULL}]
        /\ d.prev \in [Nodes -> Nodes \cup {NULL}]
        /\ \A n \in Cells(m) : d.next[n] = next[n] /\ d.prev[n] = prev[n]
    BY <1>2, <1>3, <1>5, LiveFacts DEF IInv, TypeOK
  <2>2. CASE next[m] = NULL
    <3>1. prev[m] = NULL /\ Cells(m) = {m}
      BY <2>2, <1>5, OtherCells
    <3>2. c = [next |-> [d.next EXCEPT ![m] = m], prev |-> [d.prev EXCEPT ![m] = m]]
      BY <2>1, <3>1, <1>5 DEF Closed
    <3> HIDE DEF c, d
    <3> QED BY <2>1, <2>2, <3>1, <3>2, <1>5
  <2>3. CASE next[m] # NULL
    <3>1. prev[m] \in Cells(m) /\ next[prev[m]] = m
      BY <2>3, <1>5, CellsLinked
    <3>2. prev[m] # NULL
      BY <3>1, LiveFacts, NodesAssumption
    <3>3. c = d
      BY <2>1, <3>2, <1>5 DEF Closed
    <3>4. \A n \in Cells(m) : /\ next[n] \in Cells(m) /\ prev[n] \in Cells(m)
                              /\ prev[next[n]] = n /\ next[prev[n]] = n
      BY <2>3, CellsLinked
    <3> HIDE DEF c, d
    <3> QED BY <2>1, <2>3, <3>1, <3>3, <3>4, <1>5
  <2> QED BY <2>2, <2>3
<1>7. /\ q # f /\ q # last /\ q # p /\ q # l /\ q \in Nodes
      /\ q \notin A /\ q \notin C
  BY <1>2, <1>3, <1>5, <1>6, LiveFacts
<1>8. /\ \A n \in Nodes \ {p, last} : d.next[n] = next[n]
      /\ \A n \in Nodes \ {l, f} : d.prev[n] = prev[n]
      /\ d.next[p] = l /\ d.prev[l] = p
  BY <1>1, <1>2, <1>5, NodesAssumption DEF IInv, TypeOK
<1> HIDE DEF c, d, q
<1>9. /\ next'[q] = f /\ next'[last] = m /\ next'[p] = l
      /\ prev'[f] = q /\ prev'[m] = last /\ prev'[l] = p
      /\ \A n \in Nodes \ {q, last, p, m} : next'[n] = next[n]
      /\ \A n \in Nodes \ {f, l, m} : prev'[n] = prev[n]
      /\ \A n \in Cells(m) \ {q} : next'[n] = c.next[n]
      /\ \A n \in Cells(m) \ {m} : prev'[n] = c.prev[n]
  <2>1. /\ next'[q] = f /\ next'[last] = m
        /\ prev'[f] = q /\ prev'[m] = last
        /\ \A n \in Nodes \ {q, last} : next'[n] = c.next[n]
        /\ \A n \in Nodes \ {f, m} : prev'[n] = c.prev[n]
    BY <1>4, <1>5, <1>6, <1>7
  <2>2. Cells(m) \subseteq Nodes /\ last \notin Cells(m) /\ f \notin Cells(m) /\ l # f /\ p # last
    BY <1>2, <1>3, <1>5, LiveFacts, NodesAssumption
  <2> QED BY <2>1, <2>2, <1>5, <1>6, <1>7, <1>8
<1>10. /\ Live' = Live /\ Allocated' = Allocated
       /\ \A n \in C : OwnerOf(n)' = m
       /\ \A n \in Live \ C : OwnerOf(n)' = OwnerOf(n)
  <2>1. \A n \in C : n \in Handlers /\ n \notin Lists /\ owner[n] # NULL
    BY <1>2, <1>3, NodesAssumption DEF Cells, OwnerOf, Live, Allocated
  <2>2. \A h \in Handlers : owner'[h] # NULL <=> owner[h] # NULL
    BY <2>1, <1>4, <1>5
  <2>3. Live' = Live /\ Allocated' = Allocated
    BY <2>2 DEF Live, Allocated
  <2> QED BY <2>1, <2>3, <1>4 DEF OwnerOf, Live, Allocated
<1>11. TypeOK'
  BY <1>4, <1>5, <1>6, <1>7 DEF IInv, TypeOK, Nodes
<1>12. ASSUME NEW n \in Live', NEW o \in Lists, OwnerOf(n)' = o
       PROVE  \/ n = o /\ next'[n] = NULL /\ prev'[n] = NULL
              \/ /\ next'[n] \in Live' /\ OwnerOf(next[n])' = o
                 /\ prev'[n] \in Live' /\ OwnerOf(prev[n])' = o
                 /\ prev'[next'[n]] = n /\ next'[prev'[n]] = n
  <2>0. /\ n \in Live /\ n \in Nodes
        /\ \A k \in Lists : Cells(k) \subseteq Live /\ Cells(k) \subseteq Nodes
    BY <1>10, LiveFacts
  <2>a. \A k \in A : k \in Live /\ k \notin C /\ OwnerOf(k)' = l
    BY <1>2, <1>3, <1>10 DEF Cells
  <2>b. \A k \in C : k \in Live /\ OwnerOf(k)' = m
    BY <1>2, <1>3, <1>10 DEF Cells
  <2>c. \A k \in Cells(m) : k \in Live /\ k \notin C /\ k \notin A /\ OwnerOf(k)' = m
    BY <1>2, <1>5, <1>10 DEF Cells
  <2>1. CASE n \in A
    <3>1. next'[n] \in A /\ prev'[next'[n]] = n
      <4>1. CASE n = p
        BY <4>1, <1>2, <1>9
      <4>2. CASE n # p
        <5>1. n # last /\ n # q /\ n # m
          BY <2>1, <1>2, <1>5, <1>7
        <5>2. next[n] \in A /\ next[n] # l /\ next[n] # f /\ next[n] # m /\ next[n] \in Nodes
          BY <4>2, <2>1, <1>2, <1>3, <1>5
        <5> QED BY <5>1, <5>2, <4>2, <2>0, <2>1, <1>3, <1>9
      <4> QED BY <4>1, <4>2
    <3>2. prev'[n] \in A /\ next'[prev'[n]] = n
      <4>1. CASE n = l
        BY <4>1, <1>2, <1>9
      <4>2. CASE n # l
        <5>1. n # f /\ n # m
          BY <2>1, <1>2, <1>5
        <5>2. prev[n] \in A /\ prev[n] # p /\ prev[n] # last /\ prev[n] # q /\ prev[n] # m
              /\ prev[n] \in Nodes
          BY <4>2, <2>1, <1>2, <1>3, <1>5, <1>7
        <5> QED BY <5>1, <5>2, <4>2, <2>0, <2>1, <1>3, <1>9
      <4> QED BY <4>1, <4>2
    <3> QED BY <3>1, <3>2, <2>1, <2>a, <1>10, <1>12
  <2>2. CASE n \in C
    <3>1. /\ next'[n] \in C \cup {m} /\ prev'[next'[n]] = n
      <4>1. CASE n = last
        BY <4>1, <1>9
      <4>2. CASE n # last
        <5>1. n # p /\ n # q /\ n # m
          BY <2>2, <1>2, <1>5, <1>7
        <5>2. next[n] \in C /\ next[n] # l /\ next[n] # f /\ next[n] # m /\ next[n] \in Nodes
          BY <4>2, <2>2, <1>2, <1>3, <1>5
        <5> QED BY <5>1, <5>2, <4>2, <2>0, <2>2, <1>3, <1>9
      <4> QED BY <4>1, <4>2
    <3>2. prev'[n] \in C \cup {q} /\ next'[prev'[n]] = n
      <4>1. CASE n = f
        BY <4>1, <1>9
      <4>2. CASE n # f
        <5>1. n # l /\ n # m
          BY <2>2, <1>2, <1>5
        <5>2. prev[n] \in C /\ prev[n] # p /\ prev[n] # last /\ prev[n] # q /\ prev[n] # m
              /\ prev[n] \in Nodes
          BY <4>2, <2>2, <1>2, <1>3, <1>5, <1>7
        <5> QED BY <5>1, <5>2, <4>2, <2>0, <2>2, <1>3, <1>9
      <4> QED BY <4>1, <4>2
    <3> QED BY <3>1, <3>2, <2>2, <2>b, <2>c, <1>5, <1>6, <1>10, <1>12
  <2>3. CASE n \in Cells(m)
    <3>1. next'[n] \in Cells(m) \cup {f} /\ prev'[next'[n]] = n
      <4>1. CASE n = q
        BY <4>1, <1>9
      <4>2. CASE n # q
        <5>1. c.next[n] \in Cells(m) /\ c.prev[c.next[n]] = n /\ c.next[n] # m
          BY <4>2, <2>3, <1>5, <1>6 DEF q
        <5> QED BY <5>1, <4>2, <2>3, <1>9
      <4> QED BY <4>1, <4>2
    <3>2. prev'[n] \in Cells(m) \cup {last} /\ next'[prev'[n]] = n
      <4>1. CASE n = m
        BY <4>1, <1>9
      <4>2. CASE n # m
        <5>1. c.prev[n] \in Cells(m) /\ c.next[c.prev[n]] = n /\ c.prev[n] # q
          BY <4>2, <2>3, <1>6
        <5> QED BY <5>1, <4>2, <2>3, <1>9
      <4> QED BY <4>1, <4>2
    <3> QED BY <3>1, <3>2, <2>3, <2>b, <2>c, <1>2, <1>10, <1>12
  <2>4. CASE n \notin A \cup C \cup Cells(m)
    <3>1. PICK k \in Lists : n \in Cells(k) /\ k # l /\ k # m
      BY <2>0, <2>4, <1>2, LiveFacts
    <3>2. Cells(k) \cap (A \cup C) = {} /\ Cells(k) \cap Cells(m) = {}
      BY <3>1, <1>2 DEF Cells
    <3>3. \A j \in Cells(k) : /\ j \in Nodes /\ next'[j] = next[j] /\ prev'[j] = prev[j]
                             /\ j \in Live /\ OwnerOf(j)' = k
      BY <3>1, <3>2, <2>0, <1>2, <1>5, <1>6, <1>9, <1>10 DEF Cells
    <3> QED BY <3>1, <3>3, <1>10, <1>12, OtherCells
  <2> QED BY <2>1, <2>2, <2>3, <2>4
<1>13. \A n \in Live' : OwnerOf(n)' \in Lists
  BY <1>10, LiveFacts
<1>14. Linked' /\ Separated'
  BY <1>12, <1>13 DEF Linked, Separated
<1>15. OwnersClosed'
  <2>1. /\ next'[m] # NULL /\ next'[l] # NULL
    <3>1. next'[m] # NULL
      BY <1>1, <1>2, <1>3, <1>5, <1>6, <1>9, NodesAssumption, LiveFacts
    <3>2. next'[l] # NULL
      BY <1>2, <1>3, <1>5, <1>7, <1>9, NodesAssumption
    <3> QED BY <3>1, <3>2
  <2>2. ASSUME NEW k \in Lists, k # l, k # m PROVE next'[k] = next[k]
    BY <2>2, <1>2, <1>3, <1>6, <1>9, LiveFacts DEF Cells
  <2> QED BY <2>1, <2>2, <1>4, <1>10 DEF OwnersClosed, IInv, TypeOK, Allocated
<1>16. NoLeak'
  <2> SUFFICES ASSUME NEW g \in Allocated', NEW S \in SUBSET Nodes,
                      owner'[g] \in S, \A k \in S : next'[k] \in S \cup {NULL}
               PROVE  g \in S
    BY DEF NoLeak, Chain, Nodes, Allocated
  <2>0. /\ g \in Allocated /\ g \in Cells(owner[g]) /\ owner[g] \in Lists
        /\ \A k \in Lists : Cells(k) \subseteq Nodes /\ k \in Cells(k)
    BY <1>10, LiveFacts DEF IInv, TypeOK, Allocated
  <2>1. CASE owner'[g] = l
    <3> DEFINE T == S \cap A
    <3>1. g \in A
      BY <2>0, <2>1, <1>2, <1>4, <1>5 DEF Allocated
    <3>2. T \in SUBSET Nodes /\ l \in T
      BY <2>1, <1>2
    <3>3. \A k \in T : d.next[k] \in T \cup {NULL}
      <4> SUFFICES ASSUME NEW k \in T PROVE d.next[k] \in T
        OBVIOUS
      <4>1. k \in Nodes /\ k # last /\ k # q /\ k # m
        BY <1>2, <1>5, <1>7
      <4>2. CASE k = p
        BY <4>2, <3>2, <1>8
      <4>3. CASE k # p
        <5>1. next'[k] = next[k] /\ d.next[k] = next[k]
          BY <4>1, <4>3, <1>8, <1>9
        <5>2. next[k] \in A /\ next[k] # NULL
          BY <4>3, <1>3
        <5> QED BY <5>1, <5>2
      <4> QED BY <4>2, <4>3
    <3>4. A \subseteq T
      <4> HIDE DEF T
      <4> QED BY <3>2, <3>3, ChainLeast DEF A
    <3> QED BY <3>1, <3>4
  <2>2. CASE owner'[g] = m
    <3> DEFINE T == S \cap Cells(m)
               U == S \cap C
    <3>1. m \in S
      BY <2>2
    <3>2. Cells(m) \subseteq S
      <4>1. CASE next[m] = NULL
        BY <4>1, <3>1, <1>5, OtherCells
      <4>2. CASE next[m] # NULL
        <5>1. T \in SUBSET Nodes /\ m \in T
          BY <3>1, <2>0
        <5>2. \A k \in T : next[k] \in T \cup {NULL}
          <6> SUFFICES ASSUME NEW k \in T PROVE next[k] \in T
            OBVIOUS
          <6>1. k \in Nodes /\ k \notin A /\ k \notin C
            BY <1>2, <1>5
          <6>2. c.next[k] = next[k]
            <7>1. CASE k = m
              BY <7>1, <4>2, <1>6
            <7>2. CASE k # m
              <8>1. c.next[k] = d.next[k]
                BY <7>2, <6>1, <1>6
              <8>2. k # p /\ k # last
                BY <6>1, <1>2
              <8>3. d.next[k] = next[k]
                BY <8>2, <6>1, <1>8
              <8> QED BY <8>1, <8>3
            <7> QED BY <7>1, <7>2
          <6>3. CASE k = q
            BY <6>2, <6>3, <5>1, <1>6
          <6>4. CASE k # q
            <7>1. next'[k] = next[k]
              BY <6>2, <6>4, <1>9
            <7>2. next[k] \in Cells(m) /\ next[k] # NULL
              BY <4>2, CellsLinked, LiveFacts, NodesAssumption
            <7> QED BY <7>1, <7>2
          <6> QED BY <6>3, <6>4
        <5>3. Chain(next, m) \subseteq T
          <6> HIDE DEF T
          <6> QED BY <5>1, <5>2, ChainLeast
        <5> QED BY <5>3, <4>2, CellsReached
      <4> QED BY <4>1, <4>2
    <3>3. C \subseteq U
      <4>1. f \in S
        BY <3>2, <1>3, <1>2, <1>6, <1>9
      <4>2. U \in SUBSET Nodes /\ f \in U
        BY <4>1, <1>2
      <4>3. \A k \in U : d.next[k] \in U \cup {NULL}
        <5> SUFFICES ASSUME NEW k \in U, d.next[k] # NULL PROVE d.next[k] \in U
          OBVIOUS
        <5>1. k \in Nodes /\ k # p /\ k # q /\ k # m
          BY <1>2, <1>5, <1>7
        <5>2. CASE k = last
          <6>1. d.next[last] = NULL
            BY <1>2, <1>5 DEF IInv, TypeOK
          <6> QED BY <5>2, <6>1
        <5>3. CASE k # last
          <6>1. next'[k] = next[k] /\ d.next[k] = next[k]
            BY <5>1, <5>3, <1>8, <1>9
          <6>2. next[k] \in C /\ next[k] # NULL
            BY <5>3, <1>3
          <6> QED BY <6>1, <6>2
        <5> QED BY <5>2, <5>3
      <4> HIDE DEF U
      <4> QED BY <4>2, <4>3, ChainLeast DEF C
    <3>4. g \in C \/ g \in Cells(m)
      BY <2>0, <2>2, <1>4 DEF Allocated
    <3> QED BY <3>2, <3>3, <3>4
  <2>3. CASE owner'[g] # l /\ owner'[g] # m
    <3> DEFINE k0 == owner[g]
               T == S \cap Cells(k0)
    <3>1. owner'[g] = k0 /\ k0 # l /\ k0 # m /\ next[k0] # NULL
      BY <2>0, <2>3, <1>4 DEF Allocated, IInv, OwnersClosed
    <3>2. T \in SUBSET Nodes /\ k0 \in T
      BY <3>1, <2>0
    <3>3. \A k \in T : next[k] \in T \cup {NULL}
      <4> SUFFICES ASSUME NEW k \in T PROVE next[k] \in T \cup {NULL}
        OBVIOUS
      <4>1. k \in Nodes /\ k \notin Cells(l) /\ k \notin Cells(m)
        BY <3>1 DEF Cells
      <4>2. k # p /\ k # last /\ k # q /\ k # m
        BY <4>1, <1>2, <1>5, <1>6
      <4>3. next'[k] = next[k]
        BY <4>1, <4>2, <1>9
      <4> QED BY <4>3, <3>1, <2>0, CellsLinked
    <3>4. Chain(next, k0) \subseteq T
      <4> HIDE DEF T
      <4> QED BY <3>2, <3>3, ChainLeast
    <3> QED BY <3>1, <3>4, <2>0, CellsReached
  <2> QED BY <2>1, <2>2, <2>3
<1> QED BY <1>11, <1>14, <1>15, <1>16 DEF IInv

-----------------------------------------------------------------------------
(* The theorems. *)

LEMMA StepInv == IInv /\ [Next]_vars => IInv'
<1> SUFFICES ASSUME IInv, [Next]_vars PROVE IInv'
  OBVIOUS
<1>1. ASSUME NEW l \in Lists, NEW h \in Handlers, Add(l, h) PROVE IInv'
  BY <1>1, AddInv
<1>2. ASSUME NEW l \in Lists, NEW m \in Lists, NEW f \in Handlers, Move(l, f, m)
      PROVE IInv'
  BY <1>2, MoveInv
<1>3. ASSUME NEW l \in Lists, FreeInside(l) PROVE IInv'
  BY <1>3, FreeInsideInv
<1>4. ASSUME UNCHANGED <<next, prev, owner>>,
             current' \in [Lists -> Nodes \cup {NULL}]
      PROVE IInv'
  BY <1>4 DEF IInv, TypeOK, Linked, Separated, NoLeak, OwnersClosed, Live, Allocated, OwnerOf
<1>5. ASSUME NEW l \in Lists, StartCall(l) PROVE IInv'
  BY <1>4, <1>5 DEF StartCall, IInv, TypeOK, Nodes
<1>6. ASSUME NEW l \in Lists, CallNext(l) PROVE IInv'
  <2>1. next[current[l]] \in Nodes \cup {NULL}
    BY <1>6 DEF CallNext, IInv, TypeOK
  <2>2. current' \in [Lists -> Nodes \cup {NULL}]
    BY <1>6, <2>1 DEF CallNext, IInv, TypeOK
  <2> QED BY <1>4, <1>6, <2>2 DEF CallNext
<1>7. CASE UNCHANGED vars
  BY <1>7, <1>4 DEF vars, IInv, TypeOK
<1> QED BY <1>1, <1>2, <1>3, <1>5, <1>6, <1>7 DEF Next

LEMMA Invariance == Spec => []IInv
<1>1. QED BY InitInv, StepInv, PTL DEF Spec

(* In every reachable heap of MSHandlerAttach and MSHandlerDetach calls,   *)
(* next and prev are inverse and no live cell points to a freed one.       *)
THEOREM ListsLinked == Spec => []WellFormed
<1>1. IInv => WellFormed
  BY DEF IInv, WellFormed
<1> QED BY <1>1, Invariance, PTL

(* No two MSHandler lists share a cell, whatever was moved between them.   *)
THEOREM ListsSeparated == Spec => []Separated
<1>1. IInv => Separated
  BY DEF IInv
<1> QED BY <1>1, Invariance, PTL

(* Every allocated cell is reached from its list's sentinel: the dealloc   *)
(* of the owner (MSHandlerListFreeInside) gives all of them back.          *)
THEOREM NothingLeaks == Spec => []NoLeak
<1>1. IInv => NoLeak
  BY DEF IInv
<1> QED BY <1>1, Invariance, PTL

-----------------------------------------------------------------------------
(* Enumerations. *)

LEMMA StepEnumerators == IInv /\ EnumeratorsLive /\ [Next]_vars => EnumeratorsLive'
<1> SUFFICES ASSUME IInv, EnumeratorsLive, [Next]_vars, NEW k \in Lists, current'[k] # NULL
             PROVE  current'[k] \in Live' /\ OwnerOf(current[k])' = k
  BY DEF EnumeratorsLive
<1>1. ASSUME current[k] # NULL PROVE current[k] \in Cells(k)
  BY <1>1 DEF EnumeratorsLive, Cells
<1>2. ASSUME NEW l \in Lists, NEW h \in Handlers, Add(l, h)
      PROVE  current'[k] \in Live' /\ OwnerOf(current[k])' = k
  BY <1>1, <1>2, NodesAssumption
     DEF Add, Cells, Live, Allocated, OwnerOf, IInv, TypeOK
<1>3. ASSUME NEW l \in Lists, current[l] = NULL, current' = current,
             NEW v \in Lists \cup {NULL}, NEW C \in SUBSET Cells(l),
             owner' = [h \in Handlers |-> IF h \in C THEN v ELSE owner[h]]
      PROVE  current'[k] \in Live' /\ OwnerOf(current[k])' = k
  <2>1. k # l /\ current[k] \in Cells(k) /\ current[k] \notin C
    BY <1>1, <1>3 DEF Cells
  <2> QED BY <2>1, <1>3 DEF Cells, Live, Allocated, OwnerOf
<1>4. ASSUME NEW l \in Lists, NEW m \in Lists, NEW f \in Handlers, Move(l, f, m)
      PROVE  current'[k] \in Live' /\ OwnerOf(current[k])' = k
  <2> DEFINE C == Chain(Detached(l, f).next, f)
  <2>1. C \in SUBSET Cells(l)
    BY <1>4, DetachCuts DEF Move
  <2>2. owner' = [h \in Handlers |-> IF h \in C THEN m ELSE owner[h]]
    BY <1>4 DEF Move, Detached
  <2> HIDE DEF C
  <2> QED BY <1>3, <1>4, <2>1, <2>2 DEF Move
<1>5. ASSUME NEW l \in Lists, FreeInside(l)
      PROVE  current'[k] \in Live' /\ OwnerOf(current[k])' = k
  <2> DEFINE f == next[l]
             C == Chain(Detached(l, f).next, f)
  <2>1. f \in Cells(l) /\ f # l
    BY <1>5, LiveFacts, CellsLinked DEF FreeInside
  <2>2. f \in Handlers /\ owner[f] = l
    BY <2>1 DEF Cells, OwnerOf, Live, Allocated
  <2>3. C \in SUBSET Cells(l)
    BY <2>2, DetachCuts
  <2>4. owner' = [h \in Handlers |-> IF h \in C THEN NULL ELSE owner[h]]
    BY <1>5 DEF FreeInside, Detached
  <2> HIDE DEF C
  <2> QED BY <1>3, <1>5, <2>3, <2>4 DEF FreeInside
<1>6. ASSUME NEW l \in Lists, StartCall(l)
      PROVE  current'[k] \in Live' /\ OwnerOf(current[k])' = k
  BY <1>1, <1>6 DEF StartCall, IInv, TypeOK, Cells, Live, Allocated, OwnerOf
<1>7. ASSUME NEW l \in Lists, CallNext(l)
      PROVE  current'[k] \in Live' /\ OwnerOf(current[k])' = k
  <2>1. CASE k = l
    <3>1. current[l] \in Live /\ OwnerOf(current[l]) = l
      BY <2>1, <1>1, <1>7 DEF CallNext, Cells
    <3>2. current'[l] = next[current[l]] /\ next[current[l]] # NULL
      BY <2>1, <1>7 DEF CallNext, IInv, TypeOK
    <3>3. next[current[l]] \in Live /\ OwnerOf(next[current[l]]) = l
      BY <3>1, <3>2 DEF IInv, Linked, Separated
    <3> QED BY <2>1, <3>2, <3>3, <1>7 DEF CallNext, Live, Allocated, OwnerOf
  <2>2. CASE k # l
    BY <2>2, <1>1, <1>7 DEF CallNext, IInv, TypeOK, Cells, Live, Allocated, OwnerOf
  <2> QED BY <2>1, <2>2
<1>8. CASE UNCHANGED vars
  BY <1>1, <1>8 DEF vars, Cells, Live, Allocated, OwnerOf
<1> QED BY <1>2, <1>4, <1>5, <1>6, <1>7, <1>8 DEF Next

(* A call that walks a list (MSHandlerListCall) always stands on a live    *)
(* cell of that list, however many handlers are added during it and        *)
(* whatever happens to the other lists.                                    *)
THEOREM EnumerationsSafe == Spec => []EnumeratorsLive
<1>1. Init => EnumeratorsLive
  BY DEF Init, EnumeratorsLive
<1> QED BY <1>1, StepEnumerators, Invariance, PTL DEF Spec

-----------------------------------------------------------------------------
(* The pointer lists spell sequences.                                      *)

(* The sentinel and the handlers of a list are different cells. *)
LEMMA CellAtIs ==
  ASSUME NEW l \in Lists, NEW s \in Seq(Handlers)
  PROVE  /\ Len(s) \in Nat /\ DOMAIN s = 1 .. Len(s)
         /\ CellAt(l, s, 0) = l
         /\ \A i \in 1 .. Len(s) : CellAt(l, s, i) = s[i] /\ s[i] \in Handlers
         /\ \A i \in 0 .. Len(s) : CellAt(l, s, i) \in Nodes
         /\ l \in Nodes /\ l # NULL /\ l \notin Handlers /\ NULL \notin Handlers
<1>1. Len(s) \in Nat /\ DOMAIN s = 1 .. Len(s) /\ \A i \in 1 .. Len(s) : s[i] \in Handlers
  OBVIOUS
<1>2. CellAt(l, s, 0) = l /\ \A i \in 1 .. Len(s) : CellAt(l, s, i) = s[i]
  BY <1>1 DEF CellAt
<1>3. l \in Nodes /\ l # NULL /\ l \notin Handlers /\ NULL \notin Handlers
  BY NodesAssumption DEF Nodes
<1>4. ASSUME NEW i \in 0 .. Len(s) PROVE CellAt(l, s, i) \in Nodes
  <2>1. i = 0 \/ i \in 1 .. Len(s)
    BY <1>1
  <2> QED BY <1>1, <1>2, <1>3, <2>1 DEF Nodes
<1> QED BY <1>1, <1>2, <1>3, <1>4

LEMMA CellAtOnce ==
  ASSUME NEW l \in Lists, NEW s \in Seq(Handlers), IsInjective(s),
         NEW i \in 0 .. Len(s), NEW j \in 0 .. Len(s), CellAt(l, s, i) = CellAt(l, s, j)
  PROVE  i = j
<1>1. /\ Len(s) \in Nat /\ DOMAIN s = 1 .. Len(s) /\ CellAt(l, s, 0) = l
      /\ \A k \in 1 .. Len(s) : CellAt(l, s, k) = s[k] /\ s[k] \in Handlers
      /\ l \notin Handlers
  BY CellAtIs
<1>2. i = 0 \/ i \in 1 .. Len(s)
  BY <1>1
<1>3. j = 0 \/ j \in 1 .. Len(s)
  BY <1>1
<1>4. ASSUME i \in 1 .. Len(s), j \in 1 .. Len(s) PROVE i = j
  BY <1>1, <1>4 DEF IsInjective
<1> QED BY <1>1, <1>2, <1>3, <1>4

(* What Spells says, part by part. *)
LEMMA SpellsIs ==
  ASSUME NEW nx, NEW l, NEW s \in Seq(Handlers), Spells(nx, l, s)
  PROVE  /\ IsInjective(s)
         /\ \A i \in 0 .. Len(s) - 1 : nx[CellAt(l, s, i)] = s[i + 1]
         /\ \/ nx[CellAt(l, s, Len(s))] = l
            \/ s = <<>> /\ nx[l] = NULL
BY DEF Spells

(* What the links of the cells are is all that matters.                    *)
LEMMA SpellsKept ==
  ASSUME NEW nx, NEW ny, NEW l \in Lists, NEW s \in Seq(Handlers), Spells(nx, l, s),
         \A i \in 0 .. Len(s) : ny[CellAt(l, s, i)] = nx[CellAt(l, s, i)]
  PROVE  Spells(ny, l, s)
<1>1. Len(s) \in Nat /\ CellAt(l, s, 0) = l
  BY CellAtIs
<1>2. /\ IsInjective(s)
      /\ \A i \in 0 .. Len(s) - 1 : nx[CellAt(l, s, i)] = s[i + 1]
      /\ (nx[CellAt(l, s, Len(s))] = l) \/ (s = <<>> /\ nx[l] = NULL)
  BY DEF Spells
<1>3. 0 \in 0 .. Len(s) /\ Len(s) \in 0 .. Len(s) /\ \A i \in 0 .. Len(s) - 1 : i \in 0 .. Len(s)
  BY <1>1
<1>4. ny[l] = nx[l] /\ ny[CellAt(l, s, Len(s))] = nx[CellAt(l, s, Len(s))]
  BY <1>1, <1>3
<1>5. \A i \in 0 .. Len(s) - 1 : ny[CellAt(l, s, i)] = s[i + 1]
  BY <1>2, <1>3
<1> QED BY <1>2, <1>4, <1>5 DEF Spells

(* The first k handlers, and the last ones from the k-th. *)
LEMMA FirstPart ==
  ASSUME NEW S, NEW s \in Seq(S), NEW k \in 0 .. Len(s)
  PROVE  /\ SubSeq(s, 1, k) \in Seq(S) /\ Len(SubSeq(s, 1, k)) = k
         /\ \A j \in 1 .. k : SubSeq(s, 1, k)[j] = s[j]
<1>1. Len(s) \in Nat /\ \A j \in 1 .. Len(s) : s[j] \in S
  OBVIOUS
<1>2. k \in Nat /\ 1 \in Int /\ k \in Int /\ k - 1 + 1 = k /\ (1 <= k <=> k # 0)
  BY <1>1
<1>3. \A j \in 1 .. k : s[j] \in S
  BY <1>1
<1>4. /\ SubSeq(s, 1, k) \in Seq(S) /\ Len(SubSeq(s, 1, k)) = k
      /\ \A j \in 1 .. k - 1 + 1 : SubSeq(s, 1, k)[j] = s[1 + j - 1]
  BY <1>2, <1>3, SubSeqProperties
<1>5. \A j \in 1 .. k : j \in 1 .. k - 1 + 1 /\ 1 + j - 1 = j
  BY <1>2
<1> QED BY <1>4, <1>5

LEMMA LastPart ==
  ASSUME NEW S, NEW s \in Seq(S), NEW k \in 1 .. Len(s)
  PROVE  /\ SubSeq(s, k, Len(s)) \in Seq(S) /\ Len(SubSeq(s, k, Len(s))) = Len(s) - k + 1
         /\ \A j \in 1 .. Len(s) - k + 1 : SubSeq(s, k, Len(s))[j] = s[k + j - 1]
<1>1. Len(s) \in Nat /\ \A j \in 1 .. Len(s) : s[j] \in S
  OBVIOUS
<1>2. k \in Int /\ Len(s) \in Int /\ k <= Len(s)
  BY <1>1
<1>3. \A j \in k .. Len(s) : s[j] \in S
  BY <1>1
<1> QED BY <1>2, <1>3, SubSeqProperties

(* A list whose k-th cell leads back to the sentinel ends there. *)
LEMMA SpellsCut ==
  ASSUME NEW nx, NEW ny, NEW l \in Lists, NEW s \in Seq(Handlers), Spells(nx, l, s),
         NEW k \in 0 .. Len(s),
         ny[CellAt(l, s, k)] = l,
         \A i \in 0 .. k - 1 : ny[CellAt(l, s, i)] = nx[CellAt(l, s, i)]
  PROVE  Spells(ny, l, SubSeq(s, 1, k))
<1> DEFINE t == SubSeq(s, 1, k)
<1>1. /\ Len(s) \in Nat /\ DOMAIN s = 1 .. Len(s) /\ CellAt(l, s, 0) = l
      /\ \A i \in 1 .. Len(s) : CellAt(l, s, i) = s[i]
  BY CellAtIs
<1>2. t \in Seq(Handlers) /\ Len(t) = k /\ \A j \in 1 .. k : t[j] = s[j]
  BY FirstPart
<1> HIDE DEF t
<1>3. /\ DOMAIN t = 1 .. k /\ CellAt(l, t, 0) = l
      /\ \A i \in 1 .. k : CellAt(l, t, i) = t[i]
  <2>1. DOMAIN t = 1 .. Len(t) /\ CellAt(l, t, 0) = l /\ \A i \in 1 .. Len(t) : CellAt(l, t, i) = t[i]
    BY <1>2, CellAtIs
  <2> QED BY <1>2, <2>1
<1>4. k \in Nat /\ k <= Len(s) /\ \A i \in 0 .. k : i = 0 \/ (i \in 1 .. k /\ i \in 1 .. Len(s))
  BY <1>1
<1>5. \A i \in 0 .. k : CellAt(l, t, i) = CellAt(l, s, i)
  BY <1>1, <1>2, <1>3, <1>4
<1>6. IsInjective(s) /\ \A i \in 0 .. Len(s) - 1 : nx[CellAt(l, s, i)] = s[i + 1]
  BY SpellsIs
<1>7. IsInjective(t)
  <2>1. \A i \in 1 .. k : i \in 1 .. Len(s) /\ t[i] = s[i]
    BY <1>2, <1>4
  <2> QED BY <1>1, <1>3, <1>6, <2>1 DEF IsInjective
<1>8. ASSUME NEW i \in 0 .. k - 1 PROVE ny[CellAt(l, t, i)] = t[i + 1]
  <2>1. i \in 0 .. k /\ i + 1 \in 1 .. k /\ i \in 0 .. Len(s) - 1
    BY <1>4
  <2> QED BY <1>2, <1>5, <1>6, <2>1
<1>9. k \in 0 .. k
  BY <1>4
<1>10. Spells(ny, l, t)
  BY <1>2, <1>5, <1>7, <1>8, <1>9 DEF Spells
<1> QED BY <1>10 DEF t

(* The links ny make those of nx lead from s through t. *)
Lengthens(nx, ny, l, s, t) ==
  /\ IsInjective(t) /\ Len(t) # 0 /\ ToSet(s) \cap ToSet(t) = {}
  /\ \A i \in 0 .. Len(s) - 1 : ny[CellAt(l, s, i)] = nx[CellAt(l, s, i)]
  /\ ny[CellAt(l, s, Len(s))] = t[1]
  /\ \A j \in 1 .. Len(t) - 1 : ny[t[j]] = t[j + 1]
  /\ ny[t[Len(t)]] = l

(* A list whose last cell leads to a chain t, which leads to the sentinel. *)
LEMMA SpellsJoined ==
  ASSUME NEW nx, NEW ny, NEW l \in Lists, NEW s \in Seq(Handlers), Spells(nx, l, s),
         NEW t \in Seq(Handlers), Lengthens(nx, ny, l, s, t)
  PROVE  Spells(ny, l, s \o t)
<1> DEFINE a == Len(s)
           b == Len(t)
           r == s \o t
<1>1. /\ a \in Nat /\ DOMAIN s = 1 .. a /\ CellAt(l, s, 0) = l
      /\ \A i \in 1 .. a : CellAt(l, s, i) = s[i]
  BY CellAtIs
<1>2. b \in Nat /\ DOMAIN t = 1 .. b /\ b # 0
  BY CellAtIs DEF Lengthens
<1>3. /\ r \in Seq(Handlers) /\ Len(r) = a + b
      /\ \A i \in 1 .. a + b : r[i] = IF i <= a THEN s[i] ELSE t[i - a]
  BY ConcatProperties
<1> HIDE DEF r
<1>4. /\ DOMAIN r = 1 .. a + b /\ CellAt(l, r, 0) = l
      /\ \A i \in 1 .. a + b : CellAt(l, r, i) = r[i]
  <2>1. DOMAIN r = 1 .. Len(r) /\ CellAt(l, r, 0) = l /\ \A i \in 1 .. Len(r) : CellAt(l, r, i) = r[i]
    BY <1>3, CellAtIs
  <2> QED BY <1>3, <2>1
<1>5. /\ IsInjective(s) /\ \A i \in 0 .. a - 1 : nx[CellAt(l, s, i)] = s[i + 1]
  BY SpellsIs
<1>p. /\ \A i \in 0 .. a - 1 : ny[CellAt(l, s, i)] = nx[CellAt(l, s, i)]
      /\ ny[CellAt(l, s, a)] = t[1]
      /\ \A j \in 1 .. b - 1 : ny[t[j]] = t[j + 1]
      /\ ny[t[b]] = l
      /\ IsInjective(t) /\ ToSet(s) \cap ToSet(t) = {}
  BY DEF Lengthens
<1> HIDE DEF a, b
<1>6. /\ \A i \in 1 .. a : r[i] = s[i]
      /\ \A j \in 1 .. b : r[a + j] = t[j]
  <2>1. \A i \in 1 .. a : i \in 1 .. a + b /\ i <= a
    BY <1>1, <1>2
  <2>2. \A j \in 1 .. b : a + j \in 1 .. a + b /\ ~(a + j <= a) /\ (a + j) - a = j
    BY <1>1, <1>2
  <2> QED BY <1>3, <2>1, <2>2
<1>7. IsInjective(r)
  <2>1. \A i \in 1 .. a : r[i] \in ToSet(s)
    BY <1>1, <1>6 DEF ToSet
  <2>2. \A j \in 1 .. b : r[a + j] \in ToSet(t)
    BY <1>2, <1>6 DEF ToSet
  <2>3. \A i \in 1 .. a + b : i \in 1 .. a \/ (i - a \in 1 .. b /\ a + (i - a) = i)
    BY <1>1, <1>2
  <2>4. ASSUME NEW i \in 1 .. a + b, NEW j \in 1 .. a + b, r[i] = r[j] PROVE i = j
    <3>1. CASE i \in 1 .. a /\ j \in 1 .. a
      <4>1. s[i] = s[j]
        BY <1>6, <2>4, <3>1
      <4> QED BY <1>1, <1>5, <3>1, <4>1 DEF IsInjective
    <3>2. CASE i - a \in 1 .. b /\ j - a \in 1 .. b /\ a + (i - a) = i /\ a + (j - a) = j
      <4>1. t[i - a] = t[j - a]
        BY <1>6, <2>4, <3>2
      <4>2. i - a = j - a
        BY <1>2, <1>p, <3>2, <4>1 DEF IsInjective
      <4> QED BY <3>2, <4>2
    <3>3. ~(i \in 1 .. a /\ j - a \in 1 .. b /\ a + (j - a) = j)
      BY <1>p, <2>1, <2>2, <2>4
    <3>4. ~(j \in 1 .. a /\ i - a \in 1 .. b /\ a + (i - a) = i)
      BY <1>p, <2>1, <2>2, <2>4
    <3> QED BY <2>3, <3>1, <3>2, <3>3, <3>4
  <2> QED BY <1>4, <2>4 DEF IsInjective
<1>8. ASSUME NEW i \in 0 .. a + b - 1 PROVE ny[CellAt(l, r, i)] = r[i + 1]
  <2>1. CASE i < a
    <3>1. i \in 0 .. a - 1 /\ i + 1 \in 1 .. a /\ (i = 0 \/ (i \in 1 .. a /\ i \in 1 .. a + b))
      BY <1>1, <1>2, <2>1
    <3>2. CellAt(l, r, i) = CellAt(l, s, i)
      BY <1>1, <1>4, <1>6, <3>1
    <3> QED BY <1>5, <1>p, <1>6, <3>1, <3>2
  <2>2. CASE i = a
    <3>1. (i = 0 \/ (i \in 1 .. a /\ i \in 1 .. a + b)) /\ 1 \in 1 .. b
      BY <1>1, <1>2, <2>2
    <3>2. CellAt(l, r, i) = CellAt(l, s, i)
      BY <1>1, <1>4, <1>6, <3>1
    <3>3. r[i + 1] = t[1]
      BY <1>6, <2>2, <3>1
    <3> QED BY <1>p, <2>2, <3>2, <3>3
  <2>3. CASE i > a
    <3> DEFINE j == i - a
    <3>1. j \in 1 .. b - 1 /\ j \in 1 .. b /\ j + 1 \in 1 .. b /\ a + j = i /\ a + (j + 1) = i + 1 /\ i \in 1 .. a + b
      BY <1>1, <1>2, <2>3
    <3> HIDE DEF j
    <3>2. CellAt(l, r, i) = t[j] /\ r[i + 1] = t[j + 1]
      BY <1>4, <1>6, <3>1
    <3> QED BY <1>p, <3>1, <3>2
  <2> QED BY <1>1, <2>1, <2>2, <2>3
<1>9. ny[CellAt(l, r, a + b)] = l
  <2>1. b \in 1 .. b /\ a + b \in 1 .. a + b
    BY <1>1, <1>2
  <2> QED BY <1>4, <1>6, <1>p, <2>1
<1>10. Spells(ny, l, r)
  <2>1. \A i \in 0 .. Len(r) - 1 : ny[CellAt(l, r, i)] = r[i + 1]
    <3>1. \A i \in 0 .. a + b - 1 : ny[CellAt(l, r, i)] = r[i + 1]
      BY <1>8
    <3>2. Len(r) - 1 = a + b - 1
      BY <1>1, <1>2, <1>3
    <3>3. 0 .. Len(r) - 1 = 0 .. a + b - 1
      BY <3>2
    <3> QED BY <3>1, <3>3
  <2>2. ny[CellAt(l, r, Len(r))] = l
    <3>1. Len(r) = a + b
      BY <1>3
    <3> QED BY <1>9, <3>1
  <2> QED BY <1>7, <2>1, <2>2 DEF Spells
<1> QED BY <1>10 DEF r

(* Two spellings of a walk agree as far as the shorter one goes.           *)
LEMMA OnePrefix ==
  ASSUME NEW nx, NEW l \in Lists, NEW s \in Seq(Handlers), NEW t \in Seq(Handlers),
         Spells(nx, l, s), Spells(nx, l, t), Len(s) <= Len(t)
  PROVE  s = t
<1> DEFINE a == Len(s)
           b == Len(t)
<1>1. /\ a \in Nat /\ CellAt(l, s, 0) = l /\ l \notin Handlers /\ NULL \notin Handlers
      /\ \A i \in 1 .. a : CellAt(l, s, i) = s[i]
  BY CellAtIs
<1>2. /\ b \in Nat /\ CellAt(l, t, 0) = l
      /\ \A i \in 1 .. b : CellAt(l, t, i) = t[i] /\ t[i] \in Handlers
  BY CellAtIs
<1>3. /\ \A i \in 0 .. a - 1 : nx[CellAt(l, s, i)] = s[i + 1]
      /\ nx[CellAt(l, s, a)] = l \/ (s = <<>> /\ nx[l] = NULL)
  BY SpellsIs
<1>4. \A i \in 0 .. b - 1 : nx[CellAt(l, t, i)] = t[i + 1]
  BY SpellsIs
<1>5. a <= b /\ (s = <<>> => a = 0)
  OBVIOUS
<1> HIDE DEF a, b
<1> DEFINE P == {i \in Nat : i <= a => CellAt(l, s, i) = CellAt(l, t, i)}
<1>6. 0 \in P
  BY <1>1, <1>2
<1>7. ASSUME NEW n \in 1 .. a, n - 1 \in P PROVE n \in P
  <2>1. /\ n - 1 \in 0 .. a - 1 /\ n - 1 \in 0 .. b - 1 /\ (n - 1) + 1 = n
        /\ n \in 1 .. b /\ n - 1 <= a /\ n \in Nat
    BY <1>1, <1>2, <1>5
  <2>2. CellAt(l, s, n - 1) = CellAt(l, t, n - 1)
    BY <1>7, <2>1
  <2>3. nx[CellAt(l, s, n - 1)] = s[n] /\ nx[CellAt(l, t, n - 1)] = t[n]
    BY <1>3, <1>4, <2>1
  <2>4. s[n] = t[n]
    BY <2>2, <2>3
  <2>5. CellAt(l, s, n) = CellAt(l, t, n)
    BY <1>1, <1>2, <2>1, <2>4
  <2> QED BY <2>1, <2>5
<1> HIDE DEF P
<1>8. 0 .. a \subseteq P
  BY <1>1, <1>6, <1>7, UpTo
<1>9. \A i \in 0 .. a : CellAt(l, s, i) = CellAt(l, t, i)
  <2>1. \A i \in 0 .. a : i \in P /\ i <= a
    BY <1>1, <1>8
  <2> QED BY <2>1 DEF P
<1>10. a = b
  <2> SUFFICES ASSUME a # b PROVE FALSE
    OBVIOUS
  <2>1. a \in 0 .. b - 1 /\ a \in 0 .. a /\ a + 1 \in 1 .. b
    BY <1>1, <1>2, <1>5
  <2>2. nx[CellAt(l, t, a)] = t[a + 1] /\ t[a + 1] \in Handlers
    BY <1>2, <1>4, <2>1
  <2>3. nx[CellAt(l, s, a)] \in Handlers
    BY <1>9, <2>1, <2>2
  <2>4. CASE nx[CellAt(l, s, a)] = l
    BY <1>1, <2>3, <2>4
  <2>5. CASE s = <<>> /\ nx[l] = NULL
    BY <1>1, <1>5, <2>3, <2>5
  <2> QED BY <1>3, <2>4, <2>5
<1>11. \A i \in 1 .. a : s[i] = t[i]
  <2>1. \A i \in 1 .. a : i \in 0 .. a
    BY <1>1
  <2> QED BY <1>1, <1>2, <1>9, <1>10, <2>1
<1>12. Len(s) = Len(t) /\ \A i \in 1 .. Len(s) : s[i] = t[i]
  BY <1>10, <1>11 DEF a, b
<1> QED BY <1>12, SeqEqual

(* A walk has one spelling. *)
LEMMA SpelledOnce ==
  ASSUME NEW nx, NEW l \in Lists, NEW s \in Seq(Handlers), NEW t \in Seq(Handlers),
         Spells(nx, l, s), Spells(nx, l, t)
  PROVE  s = t
<1>1. Len(s) \in Nat /\ Len(t) \in Nat
  OBVIOUS
<1>2. CASE Len(s) <= Len(t)
  BY <1>2, OnePrefix
<1>3. CASE Len(t) <= Len(s)
  BY <1>3, OnePrefix
<1> QED BY <1>1, <1>2, <1>3

(* No handler comes twice, so that no walk is longer than the memory.      *)
LEMMA InOrders ==
  ASSUME NEW s \in Seq(Handlers), IsInjective(s)
  PROVE  s \in Orders
<1> DEFINE a == Len(s)
<1>1. a \in Nat /\ DOMAIN s = 1 .. a /\ s \in [1 .. a -> Handlers]
  OBVIOUS
<1> HIDE DEF a
<1>2. s \in Injection(1 .. a, Handlers)
  BY <1>1 DEF IsInjective, Injection
<1>3. Cardinality(1 .. a) <= Cardinality(Handlers)
  BY <1>2, FS_Injection, HandlersAssumption
<1>4. Cardinality(1 .. a) = a
  <2>1. Cardinality(1 .. a) = IF 1 > a THEN 0 ELSE a - 1 + 1
    BY <1>1, FS_Interval
  <2> QED BY <1>1, <2>1
<1>5. Cardinality(Handlers) \in Nat
  BY HandlersAssumption, FS_CardinalityType
<1>6. a \in 0 .. Cardinality(Handlers)
  BY <1>1, <1>3, <1>4, <1>5
<1> QED BY <1>1, <1>6 DEF Orders

LEMMA OrdersAre == ASSUME NEW s \in Orders PROVE s \in Seq(Handlers)
<1>1. PICK n \in 0 .. Cardinality(Handlers) : s \in [1 .. n -> Handlers]
  BY DEF Orders
<1>2. Cardinality(Handlers) \in Nat
  BY HandlersAssumption, FS_CardinalityType
<1>3. n \in Nat
  BY <1>2
<1> QED BY <1>1, <1>3

(* The walk the refinement mapping chooses is the one that is spelled.     *)
LEMMA WalkIs ==
  ASSUME NEW nx, NEW l \in Lists, NEW s \in Seq(Handlers), Spells(nx, l, s)
  PROVE  Walk(nx, l) = s
<1>1. s \in Orders
  BY SpellsIs, InOrders
<1>2. Walk(nx, l) \in Orders /\ Spells(nx, l, Walk(nx, l))
  BY <1>1 DEF Walk
<1>3. Walk(nx, l) \in Seq(Handlers)
  BY <1>2, OrdersAre
<1> QED BY <1>2, <1>3, SpelledOnce

-----------------------------------------------------------------------------
(* How many handlers a call has met, for each cell it can stand on.        *)
LEMMA PositionIs ==
  ASSUME NEW l \in Lists, NEW s \in Seq(Handlers), IsInjective(s)
  PROVE  /\ PositionIn(NULL, l, s) = 0 - 1
         /\ \A i \in 0 .. Len(s) : PositionIn(CellAt(l, s, i), l, s) = i
<1>1. /\ Len(s) \in Nat /\ DOMAIN s = 1 .. Len(s) /\ CellAt(l, s, 0) = l
      /\ \A i \in 1 .. Len(s) : CellAt(l, s, i) = s[i] /\ s[i] \in Handlers
      /\ l # NULL /\ l \notin Handlers /\ NULL \notin Handlers
  BY CellAtIs
<1>2. PositionIn(NULL, l, s) = 0 - 1
  BY DEF PositionIn
<1>3. PositionIn(l, l, s) = 0
  BY <1>1 DEF PositionIn
<1>4. ASSUME NEW i \in 1 .. Len(s) PROVE PositionIn(s[i], l, s) = i
  <2>1. PositionIn(s[i], l, s) = CHOOSE j \in 1 .. Len(s) : s[j] = s[i]
    BY <1>1 DEF PositionIn
  <2>2. \A j \in 1 .. Len(s) : s[j] = s[i] => j = i
    BY <1>1 DEF IsInjective
  <2> QED BY <2>1, <2>2
<1>5. \A i \in 0 .. Len(s) : i = 0 \/ i \in 1 .. Len(s)
  BY <1>1
<1> QED BY <1>1, <1>2, <1>3, <1>4, <1>5

(* What f says of every list: its handlers, and the order of its walk.    *)
Ordered(nx, ow, f) ==
  /\ f \in [Lists -> Seq(Handlers)]
  /\ \A l \in Lists : Spells(nx, l, f[l])
  /\ \A l \in Lists : \A h \in Handlers : ow[h] = l <=> h \in ToSet(f[l])

(* What Ordered says of one list, by number. *)
LEMMA OrderedFacts ==
  ASSUME NEW nx, NEW ow, NEW f, Ordered(nx, ow, f), NEW l \in Lists
  PROVE  /\ f[l] \in Seq(Handlers) /\ Len(f[l]) \in Nat /\ DOMAIN f[l] = 1 .. Len(f[l])
         /\ Spells(nx, l, f[l]) /\ IsInjective(f[l])
         /\ \A i \in 1 .. Len(f[l]) : /\ f[l][i] \in Handlers /\ ow[f[l][i]] = l
                                      /\ CellAt(l, f[l], i) = f[l][i]
         /\ \A h \in Handlers : ow[h] = l => \E i \in 1 .. Len(f[l]) : f[l][i] = h
         /\ \A i \in 0 .. Len(f[l]) - 1 : nx[CellAt(l, f[l], i)] = f[l][i + 1]
         /\ nx[CellAt(l, f[l], Len(f[l]))] = l \/ (f[l] = <<>> /\ nx[l] = NULL)
<1> DEFINE s == f[l]
<1>1. s \in Seq(Handlers) /\ Spells(nx, l, s)
  BY DEF Ordered
<1>2. \A h \in Handlers : ow[h] = l <=> h \in ToSet(s)
  BY DEF Ordered
<1> HIDE DEF s
<1>3. /\ Len(s) \in Nat /\ DOMAIN s = 1 .. Len(s)
      /\ \A i \in 1 .. Len(s) : CellAt(l, s, i) = s[i] /\ s[i] \in Handlers
  BY <1>1, CellAtIs
<1>4. \A h : h \in ToSet(s) <=> \E i \in 1 .. Len(s) : s[i] = h
  BY <1>3 DEF ToSet
<1>5. /\ \A i \in 1 .. Len(s) : ow[s[i]] = l
      /\ \A h \in Handlers : ow[h] = l => \E i \in 1 .. Len(s) : s[i] = h
  BY <1>2, <1>3, <1>4
<1>6. /\ IsInjective(s)
      /\ \A i \in 0 .. Len(s) - 1 : nx[CellAt(l, s, i)] = s[i + 1]
      /\ (nx[CellAt(l, s, Len(s))] = l) \/ (s = <<>> /\ nx[l] = NULL)
  BY <1>1, SpellsIs
<1> QED BY <1>1, <1>3, <1>5, <1>6 DEF s

(* What belongs to one list does not belong to another. *)
LEMMA OrderedApart ==
  ASSUME NEW nx, NEW ow, NEW f, Ordered(nx, ow, f),
         NEW l \in Lists, NEW m \in Lists, l # m,
         NEW i \in 0 .. Len(f[l]), NEW j \in 0 .. Len(f[m])
  PROVE  CellAt(l, f[l], i) # CellAt(m, f[m], j)
<1>1. /\ Len(f[l]) \in Nat
      /\ \A k \in 1 .. Len(f[l]) : CellAt(l, f[l], k) \in Handlers /\ ow[CellAt(l, f[l], k)] = l
  BY OrderedFacts
<1>2. /\ Len(f[m]) \in Nat
      /\ \A k \in 1 .. Len(f[m]) : CellAt(m, f[m], k) \in Handlers /\ ow[CellAt(m, f[m], k)] = m
  BY OrderedFacts
<1>3. CellAt(l, f[l], 0) = l /\ CellAt(m, f[m], 0) = m /\ l \notin Handlers /\ m \notin Handlers
  BY CellAtIs, OrderedFacts
<1>4. (i = 0 \/ i \in 1 .. Len(f[l])) /\ (j = 0 \/ j \in 1 .. Len(f[m]))
  BY <1>1, <1>2
<1> QED BY <1>1, <1>2, <1>3, <1>4

(* Where the call of list l stands. *)
StandsIn(c, l, s) == c = NULL \/ \E i \in 0 .. Len(s) : c = CellAt(l, s, i)

(* The cells of a list are its sentinel and its handlers. *)
LEMMA CellsAre ==
  ASSUME IInv, NEW f, Ordered(next, owner, f), NEW l \in Lists
  PROVE  /\ \A i \in 0 .. Len(f[l]) : CellAt(l, f[l], i) \in Cells(l)
         /\ \A n \in Cells(l) : \E i \in 0 .. Len(f[l]) : n = CellAt(l, f[l], i)
<1>1. /\ f[l] \in Seq(Handlers) /\ Len(f[l]) \in Nat
      /\ \A i \in 1 .. Len(f[l]) : /\ f[l][i] \in Handlers /\ owner[f[l][i]] = l
                                   /\ CellAt(l, f[l], i) = f[l][i]
      /\ \A h \in Handlers : owner[h] = l => \E i \in 1 .. Len(f[l]) : f[l][i] = h
  BY OrderedFacts
<1>2. CellAt(l, f[l], 0) = l /\ l # NULL /\ 0 \in 0 .. Len(f[l])
  BY <1>1, CellAtIs
<1>3. \A i \in 0 .. Len(f[l]) : i = 0 \/ i \in 1 .. Len(f[l])
  BY <1>1
<1>4. l \in Cells(l) /\ \A h \in Handlers : owner[h] # NULL => h \in Cells(owner[h])
  BY LiveFacts
<1>5. ASSUME NEW i \in 0 .. Len(f[l]) PROVE CellAt(l, f[l], i) \in Cells(l)
  <2>1. CASE i = 0
    BY <1>2, <1>4, <2>1
  <2>2. CASE i \in 1 .. Len(f[l])
    BY <1>1, <1>2, <1>4, <2>2
  <2> QED BY <1>3, <2>1, <2>2
<1>6. ASSUME NEW n \in Cells(l) PROVE \E i \in 0 .. Len(f[l]) : n = CellAt(l, f[l], i)
  <2>1. n = l \/ (n \in Handlers /\ owner[n] = l)
    BY DEF Cells, OwnerOf, Live, Allocated
  <2>2. CASE n = l
    BY <1>2, <2>2
  <2>3. CASE n \in Handlers /\ owner[n] = l
    <3>1. PICK i \in 1 .. Len(f[l]) : f[l][i] = n
      BY <1>1, <2>3
    <3>2. i \in 0 .. Len(f[l])
      BY <1>1
    <3> QED BY <1>1, <3>1, <3>2
  <2> QED BY <2>1, <2>2, <2>3
<1> QED BY <1>5, <1>6

(* prev leads the other way. *)
LEMMA PrevIs ==
  ASSUME IInv, NEW f, Ordered(next, owner, f), NEW l \in Lists
  PROVE  /\ next[l] = NULL => f[l] = <<>> /\ prev[l] = NULL
         /\ next[l] # NULL => /\ prev[l] # NULL
                              /\ prev[l] = CellAt(l, f[l], Len(f[l]))
                              /\ next[CellAt(l, f[l], Len(f[l]))] = l
         /\ \A i \in 1 .. Len(f[l]) : prev[f[l][i]] = CellAt(l, f[l], i - 1)
<1> DEFINE s == f[l]
<1>1. /\ s \in Seq(Handlers) /\ Len(s) \in Nat
      /\ \A i \in 0 .. Len(s) - 1 : next[CellAt(l, s, i)] = s[i + 1]
      /\ next[CellAt(l, s, Len(s))] = l \/ (s = <<>> /\ next[l] = NULL)
      /\ \A i \in 1 .. Len(s) : s[i] \in Handlers
  BY OrderedFacts
<1>2. \A i \in 0 .. Len(s) : CellAt(l, s, i) \in Cells(l)
  BY CellsAre
<1> HIDE DEF s
<1>3. CellAt(l, s, 0) = l /\ l # NULL /\ NULL \notin Handlers /\ l \in Nodes
  BY <1>1, CellAtIs
<1>4. ASSUME next[l] = NULL PROVE s = <<>> /\ prev[l] = NULL
  <2>1. Len(s) = 0
    <3> SUFFICES ASSUME Len(s) # 0 PROVE FALSE
      OBVIOUS
    <3>1. 0 \in 0 .. Len(s) - 1 /\ 0 + 1 \in 1 .. Len(s)
      BY <1>1
    <3>2. next[l] = s[0 + 1]
      BY <1>1, <1>3, <3>1
    <3> QED BY <1>1, <1>3, <1>4, <3>1, <3>2
  <2>2. s = <<>>
    BY <1>1, <2>1
  <2>3. l \in Live /\ NULL \notin Live
    BY LiveFacts, NodesAssumption DEF Live
  <2>4. prev[l] = NULL
    BY <1>4, <2>3 DEF IInv, Linked
  <2> QED BY <2>2, <2>4
<1>5. ASSUME next[l] # NULL
      PROVE /\ prev[l] # NULL
            /\ prev[l] = CellAt(l, s, Len(s))
            /\ next[CellAt(l, s, Len(s))] = l
  <2>1. next[CellAt(l, s, Len(s))] = l
    BY <1>1, <1>5
  <2>2. Len(s) \in 0 .. Len(s)
    BY <1>1
  <2>3. CellAt(l, s, Len(s)) \in Cells(l)
    BY <1>2, <2>2
  <2>4. prev[l] = CellAt(l, s, Len(s))
    BY <1>5, <2>1, <2>3, CellsLinked
  <2>5. NULL \notin Cells(l)
    BY LiveFacts, NodesAssumption
  <2> QED BY <2>1, <2>3, <2>4, <2>5
<1>6. ASSUME NEW i \in 1 .. Len(s) PROVE prev[s[i]] = CellAt(l, s, i - 1)
  <2>1. i - 1 \in 0 .. Len(s) /\ i - 1 \in 0 .. Len(s) - 1 /\ (i - 1) + 1 = i
    BY <1>1
  <2>2. next[CellAt(l, s, i - 1)] = s[i] /\ CellAt(l, s, i - 1) \in Cells(l)
    BY <1>1, <1>2, <2>1
  <2>3. next[l] # NULL
    <3> SUFFICES ASSUME next[l] = NULL PROVE FALSE
      OBVIOUS
    <3>1. s = <<>>
      BY <1>4
    <3> QED BY <3>1
  <2> QED BY <2>2, <2>3, CellsLinked
<1> QED BY <1>4, <1>5, <1>6 DEF s

(* A list whose cells keep their links keeps its handlers. *)
LEMMA OthersKept ==
  ASSUME NEW nx, NEW ny, NEW ow, NEW f, Ordered(nx, ow, f),
         NEW k \in Lists,
         \A i \in 0 .. Len(f[k]) : ny[CellAt(k, f[k], i)] = nx[CellAt(k, f[k], i)]
  PROVE  Spells(ny, k, f[k])
<1>1. f[k] \in Seq(Handlers) /\ Spells(nx, k, f[k])
  BY OrderedFacts
<1> QED BY <1>1, SpellsKept

(* The links ny lead list l on to the handler h. *)
Appended(nx, ny, f, l, h) ==
  LET q == CellAt(l, f[l], Len(f[l]))
  IN  /\ ny[q] = h /\ ny[h] = l
      /\ \A n \in Nodes : n # q /\ n # h => ny[n] = nx[n]

(* A handler that no list has goes to the end of list l.                   *)
LEMMA OrderedAppend ==
  ASSUME NEW nx, NEW ny, NEW ow \in [Handlers -> Lists \cup {NULL}], NEW f, Ordered(nx, ow, f),
         NEW l \in Lists, NEW h \in Handlers, ow[h] = NULL,
         Appended(nx, ny, f, l, h)
  PROVE  Ordered(ny, [ow EXCEPT ![h] = l], [f EXCEPT ![l] = Append(f[l], h)])
<1> DEFINE s == f[l]
           a == Len(s)
           q == CellAt(l, s, a)
           ox == [ow EXCEPT ![h] = l]
           g == [f EXCEPT ![l] = Append(f[l], h)]
<1>1. /\ s \in Seq(Handlers) /\ a \in Nat /\ DOMAIN s = 1 .. a /\ IsInjective(s) /\ Spells(nx, l, s)
      /\ \A i \in 1 .. a : s[i] \in Handlers /\ ow[s[i]] = l
      /\ \A i \in 0 .. a - 1 : nx[CellAt(l, s, i)] = s[i + 1]
  BY OrderedFacts
<1>2. /\ \A i \in 0 .. a : CellAt(l, s, i) \in Nodes
      /\ CellAt(l, s, 0) = l /\ l \notin Handlers /\ NULL \notin Handlers /\ l # NULL
      /\ \A i \in 1 .. a : CellAt(l, s, i) = s[i]
  BY <1>1, CellAtIs
<1>3. NULL \notin Lists /\ f \in [Lists -> Seq(Handlers)]
  BY NodesAssumption DEF Ordered, Nodes
<1>q. /\ q = CellAt(l, s, a) /\ ny[q] = h /\ ny[h] = l
      /\ \A n \in Nodes : n # q /\ n # h => ny[n] = nx[n]
  BY DEF Appended
<1>f. g = [f EXCEPT ![l] = Append(s, h)] /\ s = f[l]
  OBVIOUS
<1>4. ASSUME NEW k \in Lists PROVE /\ \A h2 \in Handlers : h2 \in ToSet(f[k]) <=> ow[h2] = k
                                   /\ h \notin ToSet(f[k])
  <2>1. \A h2 \in Handlers : ow[h2] = k <=> h2 \in ToSet(f[k])
    BY DEF Ordered
  <2> QED BY <1>3, <2>1
<1> HIDE DEF s, a, q, g
<1>5. \A i \in 0 .. a : CellAt(l, s, i) # h
  <2>1. \A i \in 0 .. a : i = 0 \/ i \in 1 .. a
    BY <1>1
  <2>2. \A i \in 1 .. a : s[i] # h
    BY <1>1, <1>3
  <2> QED BY <1>2, <2>1, <2>2
<1>6. Spells(ny, l, Append(s, h))
  <2> DEFINE t == <<h>>
  <2>1. /\ t \in Seq(Handlers) /\ Len(t) = 1 /\ t[1] = h /\ DOMAIN t = 1 .. 1
    OBVIOUS
  <2>2. s \o t = Append(s, h)
    BY <1>1, AppendIsConcat
  <2> HIDE DEF t
  <2>3. IsInjective(t) /\ Len(t) # 0
    BY <2>1 DEF IsInjective
  <2>4. ToSet(s) \cap ToSet(t) = {}
    <3>1. ToSet(t) = {h}
      BY <2>1 DEF ToSet
    <3> QED BY <3>1, <1>4, <1>f
  <2>5. \A i \in 0 .. Len(s) - 1 : ny[CellAt(l, s, i)] = nx[CellAt(l, s, i)]
    <3> SUFFICES ASSUME NEW i \in 0 .. a - 1 PROVE ny[CellAt(l, s, i)] = nx[CellAt(l, s, i)]
      BY DEF a
    <3>1. i \in 0 .. a /\ a \in 0 .. a /\ i # a
      BY <1>1
    <3>2. CellAt(l, s, i) # CellAt(l, s, a)
      BY <1>1, <3>1, CellAtOnce DEF a
    <3> QED BY <1>2, <1>5, <1>q, <3>1, <3>2
  <2>6. ny[CellAt(l, s, Len(s))] = t[1]
    BY <1>q, <2>1 DEF a
  <2>7. \A j \in 1 .. Len(t) - 1 : ny[t[j]] = t[j + 1]
    BY <2>1
  <2>8. ny[t[Len(t)]] = l
    BY <1>q, <2>1
  <2>9. Lengthens(nx, ny, l, s, t)
    BY <2>3, <2>4, <2>5, <2>6, <2>7, <2>8 DEF Lengthens
  <2>10. Spells(ny, l, s \o t)
    BY <1>1, <2>1, <2>9, SpellsJoined
  <2> QED BY <2>2, <2>10
<1>7. Append(s, h) \in Seq(Handlers) /\ ToSet(Append(s, h)) = ToSet(s) \cup {h}
  BY <1>1, AppendToSet
<1>8. /\ g \in [Lists -> Seq(Handlers)] /\ g[l] = Append(s, h)
      /\ \A k \in Lists : k # l => g[k] = f[k]
  BY <1>3, <1>7, <1>f
<1>9. ASSUME NEW k \in Lists PROVE Spells(ny, k, g[k])
  <2>1. CASE k = l
    BY <1>6, <1>8, <2>1
  <2>2. CASE k # l
    <3>1. /\ f[k] \in Seq(Handlers) /\ Len(f[k]) \in Nat
          /\ \A i \in 1 .. Len(f[k]) : /\ f[k][i] \in Handlers /\ ow[f[k][i]] = k
                                       /\ CellAt(k, f[k], i) = f[k][i]
      BY OrderedFacts
    <3>2. /\ \A i \in 0 .. Len(f[k]) : CellAt(k, f[k], i) \in Nodes
          /\ CellAt(k, f[k], 0) = k /\ k \notin Handlers
      BY <3>1, CellAtIs
    <3>3. \A i \in 0 .. Len(f[k]) : i = 0 \/ i \in 1 .. Len(f[k])
      BY <3>1
    <3>4. \A i \in 0 .. Len(f[k]) : CellAt(k, f[k], i) # h
      BY <1>3, <3>1, <3>2, <3>3
    <3>5. Len(f[l]) \in 0 .. Len(f[l])
      BY <1>1 DEF s, a
    <3>6. \A i \in 0 .. Len(f[k]) : CellAt(k, f[k], i) # q
      BY <2>2, <3>5, OrderedApart DEF q, s, a
    <3>7. \A i \in 0 .. Len(f[k]) : ny[CellAt(k, f[k], i)] = nx[CellAt(k, f[k], i)]
      BY <1>q, <3>2, <3>4, <3>6
    <3>8. Spells(ny, k, f[k])
      BY <3>7, OthersKept
    <3> QED BY <1>8, <2>2, <3>8
  <2> QED BY <2>1, <2>2
<1>10. ASSUME NEW k \in Lists, NEW h2 \in Handlers PROVE ox[h2] = k <=> h2 \in ToSet(g[k])
  <2>1. ox[h2] = IF h2 = h THEN l ELSE ow[h2]
    OBVIOUS
  <2>2. h2 \in ToSet(f[k]) <=> ow[h2] = k
    BY <1>4
  <2>3. h \notin ToSet(f[k])
    BY <1>4
  <2> HIDE DEF ox
  <2>4. CASE k = l
    BY <1>7, <1>8, <1>f, <2>1, <2>2, <2>4
  <2>5. CASE k # l
    BY <1>8, <2>1, <2>2, <2>3, <2>5
  <2> QED BY <2>4, <2>5
<1>11. Ordered(ny, ox, g)
  BY <1>8, <1>9, <1>10 DEF Ordered
<1> QED BY <1>11, <1>f

(* The handlers of list l go. *)
LEMMA OrderedClear ==
  ASSUME NEW nx, NEW ny, NEW ow \in [Handlers -> Lists \cup {NULL}], NEW f, Ordered(nx, ow, f),
         NEW l \in Lists, NEW ox,
         ny[l] = l,
         \A n \in Nodes : n # l /\ n \notin ToSet(f[l]) => ny[n] = nx[n],
         \A h \in Handlers : ox[h] = IF h \in ToSet(f[l]) THEN NULL ELSE ow[h]
  PROVE  Ordered(ny, ox, [f EXCEPT ![l] = <<>>])
<1> DEFINE g == [f EXCEPT ![l] = <<>>]
<1>3. NULL \notin Lists /\ f \in [Lists -> Seq(Handlers)]
  BY NodesAssumption DEF Ordered, Nodes
<1>4. \A k \in Lists : \A h \in Handlers : h \in ToSet(f[k]) <=> ow[h] = k
  BY DEF Ordered
<1>8. /\ g \in [Lists -> Seq(Handlers)] /\ g[l] = <<>>
      /\ \A k \in Lists : k # l => g[k] = f[k]
  BY <1>3
<1> HIDE DEF g
<1>5. ToSet(<<>>) = {} /\ IsInjective(<<>>) /\ <<>> \in Seq(Handlers) /\ Len(<<>>) = 0
  BY DEF ToSet, IsInjective
<1>6. Spells(ny, l, <<>>)
  <2>1. CellAt(l, <<>>, 0) = l
    BY DEF CellAt
  <2> QED BY <1>5, <2>1 DEF Spells
<1>9. ASSUME NEW k \in Lists PROVE Spells(ny, k, g[k])
  <2>1. CASE k = l
    BY <1>6, <1>8, <2>1
  <2>2. CASE k # l
    <3>1. /\ f[k] \in Seq(Handlers) /\ Len(f[k]) \in Nat
          /\ \A i \in 1 .. Len(f[k]) : /\ f[k][i] \in Handlers /\ ow[f[k][i]] = k
                                       /\ CellAt(k, f[k], i) = f[k][i]
      BY OrderedFacts
    <3>2. /\ \A i \in 0 .. Len(f[k]) : CellAt(k, f[k], i) \in Nodes
          /\ CellAt(k, f[k], 0) = k /\ k \notin Handlers
      BY <3>1, CellAtIs
    <3>3. \A i \in 0 .. Len(f[k]) : i = 0 \/ i \in 1 .. Len(f[k])
      BY <3>1
    <3>4. \A h \in Handlers : ow[h] = k => h \notin ToSet(f[l])
      BY <1>4, <2>2
    <3>5. f[l] \in Seq(Handlers) /\ \A h : h \in ToSet(f[l]) => h \in Handlers
      <4>1. /\ f[l] \in Seq(Handlers) /\ DOMAIN f[l] = 1 .. Len(f[l])
            /\ \A i \in 1 .. Len(f[l]) : f[l][i] \in Handlers
        BY OrderedFacts
      <4> QED BY <4>1 DEF ToSet
    <3>6. \A i \in 0 .. Len(f[k]) : CellAt(k, f[k], i) # l /\ CellAt(k, f[k], i) \notin ToSet(f[l])
      <4>1. l \notin Handlers
        BY NodesAssumption
      <4> QED BY <2>2, <3>1, <3>2, <3>3, <3>4, <3>5, <4>1
    <3>7. \A i \in 0 .. Len(f[k]) : ny[CellAt(k, f[k], i)] = nx[CellAt(k, f[k], i)]
      BY <3>2, <3>6
    <3>8. Spells(ny, k, f[k])
      BY <3>7, OthersKept
    <3> QED BY <1>8, <2>2, <3>8
  <2> QED BY <2>1, <2>2
<1>10. ASSUME NEW k \in Lists, NEW h \in Handlers PROVE ox[h] = k <=> h \in ToSet(g[k])
  <2>1. h \in ToSet(f[k]) <=> ow[h] = k
    BY <1>4
  <2>2. h \in ToSet(f[l]) <=> ow[h] = l
    BY <1>4
  <2>4. CASE k = l
    BY <1>3, <1>5, <1>8, <2>2, <2>4
  <2>5. CASE k # l
    BY <1>3, <1>8, <2>1, <2>2, <2>5
  <2> QED BY <2>4, <2>5
<1>11. Ordered(ny, ox, g)
  BY <1>8, <1>9, <1>10 DEF Ordered
<1> QED BY <1>11 DEF g

(* What is in one list behind another. *)
LEMMA JoinedToSet ==
  ASSUME NEW S, NEW s \in Seq(S), NEW t \in Seq(S)
  PROVE  s \o t \in Seq(S) /\ ToSet(s \o t) = ToSet(s) \cup ToSet(t)
<1> DEFINE a == Len(s)
           b == Len(t)
           r == s \o t
<1>1. a \in Nat /\ b \in Nat /\ DOMAIN s = 1 .. a /\ DOMAIN t = 1 .. b
  OBVIOUS
<1>2. /\ r \in Seq(S) /\ Len(r) = a + b
      /\ \A i \in 1 .. a + b : r[i] = IF i <= a THEN s[i] ELSE t[i - a]
  BY ConcatProperties
<1> HIDE DEF a, b, r
<1>3. DOMAIN r = 1 .. a + b
  <2>1. DOMAIN r = 1 .. Len(r)
    BY <1>2
  <2> QED BY <1>2, <2>1
<1>4. /\ \A i \in 1 .. a : i \in 1 .. a + b /\ r[i] = s[i]
      /\ \A j \in 1 .. b : a + j \in 1 .. a + b /\ r[a + j] = t[j]
  <2>1. \A i \in 1 .. a : i \in 1 .. a + b /\ i <= a
    BY <1>1
  <2>2. \A j \in 1 .. b : a + j \in 1 .. a + b /\ ~(a + j <= a) /\ (a + j) - a = j
    BY <1>1
  <2> QED BY <1>2, <2>1, <2>2
<1>5. \A i \in 1 .. a + b : \/ i \in 1 .. a /\ r[i] = s[i]
                            \/ i - a \in 1 .. b /\ r[i] = t[i - a]
  <2>1. \A i \in 1 .. a + b : (i <= a /\ i \in 1 .. a) \/ (~(i <= a) /\ i - a \in 1 .. b)
    BY <1>1
  <2> QED BY <1>2, <2>1
<1>6. ToSet(r) = ToSet(s) \cup ToSet(t)
  <2>1. /\ \A x : x \in ToSet(r) <=> \E i \in 1 .. a + b : r[i] = x
        /\ \A x : x \in ToSet(s) <=> \E i \in 1 .. a : s[i] = x
        /\ \A x : x \in ToSet(t) <=> \E i \in 1 .. b : t[i] = x
    BY <1>1, <1>3 DEF ToSet
  <2>2. \A x : x \in ToSet(s) \/ x \in ToSet(t) => x \in ToSet(r)
    BY <1>4, <2>1
  <2>3. \A x : x \in ToSet(r) => x \in ToSet(s) \/ x \in ToSet(t)
    BY <1>5, <2>1
  <2> QED BY <2>2, <2>3
<1> QED BY <1>2, <1>6 DEF r

(* A list cut in two before its i-th element. *)
LEMMA PartsOf ==
  ASSUME NEW S, NEW s \in Seq(S), IsInjective(s), NEW i \in 1 .. Len(s)
  PROVE  LET p == SubSeq(s, 1, i - 1)
             u == SubSeq(s, i, Len(s))
         IN  /\ p \in Seq(S) /\ Len(p) = i - 1 /\ \A j \in 1 .. i - 1 : p[j] = s[j]
             /\ u \in Seq(S) /\ IsInjective(u) /\ Len(u) = Len(s) - i + 1
             /\ \A j \in 1 .. Len(s) - i + 1 : u[j] = s[i + j - 1]
             /\ \A x : x \in ToSet(u) <=> \E j \in i .. Len(s) : x = s[j]
             /\ \A x : x \in ToSet(s) <=> x \in ToSet(p) \/ x \in ToSet(u)
             /\ \A x : ~(x \in ToSet(p) /\ x \in ToSet(u))
<1> DEFINE p == SubSeq(s, 1, i - 1)
           u == SubSeq(s, i, Len(s))
           a == Len(s)
           b == a - i + 1
<1>1. a \in Nat /\ DOMAIN s = 1 .. a /\ i \in 1 .. a /\ i - 1 \in 0 .. a
  OBVIOUS
<1>2. p \in Seq(S) /\ Len(p) = i - 1 /\ \A j \in 1 .. i - 1 : p[j] = s[j]
  BY <1>1, FirstPart
<1>3. u \in Seq(S) /\ Len(u) = b /\ \A j \in 1 .. b : u[j] = s[i + j - 1]
  BY <1>1, LastPart
<1>4. DOMAIN p = 1 .. i - 1 /\ DOMAIN u = 1 .. b
  <2>1. DOMAIN p = 1 .. Len(p) /\ DOMAIN u = 1 .. Len(u)
    BY <1>2, <1>3
  <2> QED BY <1>2, <1>3, <2>1
<1> HIDE DEF p, u, a
<1>5. \A j \in 1 .. b : i + j - 1 \in i .. a /\ i + j - 1 \in 1 .. a /\ j = (i + j - 1) - i + 1
  BY <1>1
<1>6. \A j \in i .. a : j - i + 1 \in 1 .. b /\ i + (j - i + 1) - 1 = j /\ j \in 1 .. a
  BY <1>1
<1>7. \A j \in 1 .. i - 1 : j \in 1 .. a /\ j \notin i .. a
  BY <1>1
<1>8. \A j \in 1 .. a : j \in 1 .. i - 1 \/ j \in i .. a
  BY <1>1
<1>9. IsInjective(u)
  <2> SUFFICES ASSUME NEW j \in 1 .. b, NEW k \in 1 .. b, u[j] = u[k] PROVE j = k
    BY <1>4 DEF IsInjective
  <2>1. s[i + j - 1] = s[i + k - 1]
    BY <1>3
  <2>2. i + j - 1 = i + k - 1
    BY <1>1, <1>5, <2>1 DEF IsInjective
  <2> QED BY <1>1, <1>5, <2>2
<1> HIDE DEF b
<1>10. \A x : x \in ToSet(u) <=> \E j \in i .. a : x = s[j]
  <2>1. \A j \in i .. a : u[j - i + 1] = s[j] /\ j - i + 1 \in 1 .. b
    BY <1>3, <1>6
  <2>2. \A j \in 1 .. b : u[j] = s[i + j - 1] /\ i + j - 1 \in i .. a
    BY <1>3, <1>5
  <2> QED BY <1>4, <2>1, <2>2 DEF ToSet
<1>11. \A x : x \in ToSet(p) <=> \E j \in 1 .. i - 1 : x = s[j]
  BY <1>2, <1>4 DEF ToSet
<1>12. \A x : x \in ToSet(s) <=> \E j \in 1 .. a : x = s[j]
  BY <1>1 DEF ToSet
<1>13. \A x : x \in ToSet(s) <=> x \in ToSet(p) \/ x \in ToSet(u)
  BY <1>6, <1>7, <1>8, <1>10, <1>11, <1>12
<1>14. ASSUME NEW x, x \in ToSet(p), x \in ToSet(u) PROVE FALSE
  <2>1. PICK j \in 1 .. i - 1 : x = s[j]
    BY <1>11, <1>14
  <2>2. PICK k \in i .. a : x = s[k]
    BY <1>10, <1>14
  <2>3. j \in 1 .. a /\ k \in 1 .. a /\ j # k
    BY <1>6, <1>7
  <2> QED BY <1>1, <2>1, <2>2, <2>3 DEF IsInjective
<1> QED BY <1>2, <1>3, <1>9, <1>10, <1>13, <1>14 DEF p, u, a, b

(* The links ny lead list m on through the handlers of list l from the     *)
(* i-th, and list l past them.                                             *)
Relinked(nx, ny, f, l, i, m) ==
  LET p == CellAt(l, f[l], i - 1)
      last == f[l][Len(f[l])]
      q == CellAt(m, f[m], Len(f[m]))
  IN  /\ ny[p] = l /\ ny[q] = f[l][i] /\ ny[last] = m
      /\ \A n \in Nodes : n # p /\ n # last /\ n # q => ny[n] = nx[n]

(* What every list spells once the handlers have moved. *)
LEMMA MoveSpells ==
  ASSUME NEW nx, NEW ny, NEW ow, NEW f, Ordered(nx, ow, f),
         NEW l \in Lists, NEW m \in Lists, l # m, NEW i \in 1 .. Len(f[l]),
         Relinked(nx, ny, f, l, i, m)
  PROVE  /\ Spells(ny, l, SubSeq(f[l], 1, i - 1))
         /\ Spells(ny, m, f[m] \o SubSeq(f[l], i, Len(f[l])))
         /\ \A k \in Lists : k # l /\ k # m => Spells(ny, k, f[k])
<1> DEFINE s == f[l]
           a == Len(s)
           t == f[m]
           b == Len(t)
           p == CellAt(l, s, i - 1)
           last == s[a]
           q == CellAt(m, t, b)
           u == SubSeq(s, i, a)
<1>1. /\ s \in Seq(Handlers) /\ a \in Nat /\ DOMAIN s = 1 .. a /\ IsInjective(s) /\ Spells(nx, l, s)
      /\ \A j \in 1 .. a : s[j] \in Handlers /\ ow[s[j]] = l /\ CellAt(l, s, j) = s[j]
      /\ \A j \in 0 .. a - 1 : nx[CellAt(l, s, j)] = s[j + 1]
  BY OrderedFacts
<1>2. /\ t \in Seq(Handlers) /\ b \in Nat /\ DOMAIN t = 1 .. b /\ IsInjective(t) /\ Spells(nx, m, t)
      /\ \A j \in 1 .. b : t[j] \in Handlers /\ ow[t[j]] = m
  BY OrderedFacts
<1>3. /\ ny[p] = l /\ ny[q] = s[i] /\ ny[last] = m
      /\ \A n \in Nodes : n # p /\ n # last /\ n # q => ny[n] = nx[n]
  BY DEF Relinked
<1>4. i \in 1 .. a /\ a \in 1 .. a /\ i - 1 \in 0 .. a /\ i - 1 # a /\ a \in 0 .. a /\ b \in 0 .. b
  BY <1>1, <1>2
<1>5. \A j \in 0 .. a, k \in 0 .. b : CellAt(l, s, j) # CellAt(m, t, k)
  BY OrderedApart
<1>6. \A j \in 0 .. a : CellAt(l, s, j) \in Nodes
  BY <1>1, CellAtIs
<1>7. \A j \in 0 .. b : CellAt(m, t, j) \in Nodes
  BY <1>2, CellAtIs
<1>8. \A j, k \in 0 .. a : CellAt(l, s, j) = CellAt(l, s, k) => j = k
  BY <1>1, CellAtOnce
<1>9. \A j, k \in 0 .. b : CellAt(m, t, j) = CellAt(m, t, k) => j = k
  BY <1>2, CellAtOnce
<1>10. /\ u \in Seq(Handlers) /\ IsInjective(u) /\ Len(u) = a - i + 1
       /\ \A j \in 1 .. a - i + 1 : u[j] = s[i + j - 1]
       /\ \A x : x \in ToSet(u) <=> \E j \in i .. a : x = s[j]
  BY <1>1, <1>4, PartsOf
<1>11. last = CellAt(l, s, a)
  BY <1>1, <1>4
<1>k. ASSUME NEW k \in Lists, k # l, k # m PROVE Spells(ny, k, f[k])
  <2>1. f[k] \in Seq(Handlers)
    BY OrderedFacts
  <2>2. \A j \in 0 .. Len(f[k]) : CellAt(k, f[k], j) \in Nodes
    BY <2>1, CellAtIs
  <2>3. \A j \in 0 .. Len(f[k]) : /\ \A x \in 0 .. a : CellAt(k, f[k], j) # CellAt(l, s, x)
                                  /\ \A x \in 0 .. b : CellAt(k, f[k], j) # CellAt(m, t, x)
    BY <1>k, OrderedApart
  <2>4. \A j \in 0 .. Len(f[k]) : ny[CellAt(k, f[k], j)] = nx[CellAt(k, f[k], j)]
    BY <1>3, <1>4, <1>11, <2>2, <2>3
  <2> QED BY <2>4, OthersKept
<1> HIDE DEF s, a, t, b, p, last, q, u
<1>p. p = CellAt(l, s, i - 1)
  BY DEF p
<1>q. q = CellAt(m, t, b)
  BY DEF q
<1>12. ASSUME NEW j \in 0 .. a, j # i - 1, j # a PROVE ny[CellAt(l, s, j)] = nx[CellAt(l, s, j)]
  <2>1. CellAt(l, s, j) # p /\ CellAt(l, s, j) # last /\ CellAt(l, s, j) # q
    BY <1>4, <1>5, <1>8, <1>11, <1>12, <1>p, <1>q
  <2> QED BY <1>3, <1>6, <2>1
<1>13. Spells(ny, l, SubSeq(s, 1, i - 1))
  <2> DEFINE k == i - 1
  <2>1. k \in 0 .. Len(s) /\ ny[CellAt(l, s, k)] = l
    BY <1>3, <1>4, <1>p DEF a
  <2>2. \A j \in 0 .. k - 1 : j \in 0 .. a /\ j # i - 1 /\ j # a
    BY <1>1, <1>4
  <2>3. \A j \in 0 .. k - 1 : ny[CellAt(l, s, j)] = nx[CellAt(l, s, j)]
    BY <1>12, <2>2
  <2> HIDE DEF k
  <2>4. Spells(ny, l, SubSeq(s, 1, k))
    BY <1>1, <2>1, <2>3, SpellsCut
  <2> QED BY <2>4 DEF k
<1>14. ASSUME NEW j \in 0 .. b, j # b PROVE ny[CellAt(m, t, j)] = nx[CellAt(m, t, j)]
  <2>1. CellAt(m, t, j) # p /\ CellAt(m, t, j) # last /\ CellAt(m, t, j) # q
    BY <1>4, <1>5, <1>9, <1>11, <1>14, <1>p, <1>q
  <2> QED BY <1>3, <1>7, <2>1
<1>15. Spells(ny, m, t \o u)
  <2> DEFINE c == a - i + 1
  <2>1. c \in Nat /\ c # 0 /\ 1 \in 1 .. c /\ c \in 1 .. c /\ i + 1 - 1 = i /\ i + c - 1 = a
    BY <1>1, <1>4
  <2>2. Len(u) = c /\ Len(u) # 0 /\ u[1] = s[i] /\ u[c] = s[a]
    <3>1. \A j \in 1 .. c : u[j] = s[i + j - 1]
      BY <1>10
    <3>2. Len(u) = c
      BY <1>10
    <3> HIDE DEF c
    <3> QED BY <2>1, <3>1, <3>2
  <2>3. ToSet(t) \cap ToSet(u) = {}
    <3>1. \A x \in ToSet(u) : ow[x] = l
      <4>1. \A j \in i .. a : j \in 1 .. a
        BY <1>1, <1>4
      <4> QED BY <1>1, <1>10, <4>1
    <3>2. \A x \in ToSet(t) : ow[x] = m
      BY <1>2 DEF ToSet
    <3> QED BY <3>1, <3>2
  <2>4. \A j \in 0 .. Len(t) - 1 : ny[CellAt(m, t, j)] = nx[CellAt(m, t, j)]
    <3>1. \A j \in 0 .. b - 1 : j \in 0 .. b /\ j # b
      BY <1>2
    <3>2. \A j \in 0 .. b - 1 : ny[CellAt(m, t, j)] = nx[CellAt(m, t, j)]
      BY <1>14, <3>1
    <3> QED BY <3>2 DEF b
  <2>5. ny[CellAt(m, t, Len(t))] = u[1]
    BY <1>3, <1>q, <2>2 DEF b
  <2>6. \A j \in 1 .. c - 1 : ny[u[j]] = u[j + 1]
    <3> SUFFICES ASSUME NEW j \in 1 .. c - 1 PROVE ny[u[j]] = u[j + 1]
      OBVIOUS
    <3> DEFINE x == i + j - 1
    <3>1. /\ j \in 1 .. a - i + 1 /\ j + 1 \in 1 .. a - i + 1 /\ i + (j + 1) - 1 = x + 1
          /\ x \in 1 .. a /\ x \in 0 .. a /\ x # i - 1 /\ x # a /\ x \in 0 .. a - 1
      BY <1>1, <1>4
    <3>2. u[j] = s[x] /\ u[j + 1] = s[x + 1]
      BY <1>10, <3>1
    <3> HIDE DEF x
    <3>3. ny[CellAt(l, s, x)] = s[x + 1]
      BY <1>1, <1>12, <3>1
    <3> QED BY <1>1, <3>1, <3>2, <3>3
  <2>7. ny[u[c]] = m
    BY <1>3, <2>2 DEF last
  <2> HIDE DEF c
  <2>8. Lengthens(nx, ny, m, t, u)
    <3>1. \A j \in 1 .. Len(u) - 1 : ny[u[j]] = u[j + 1]
      BY <2>2, <2>6
    <3>2. ny[u[Len(u)]] = m
      BY <2>2, <2>7
    <3> QED BY <1>10, <2>2, <2>3, <2>4, <2>5, <3>1, <3>2 DEF Lengthens
  <2> QED BY <1>2, <1>10, <2>8, SpellsJoined
<1> QED BY <1>13, <1>15, <1>k DEF s, a, t, u

(* The handlers of list l from the i-th go behind those of list m.         *)
LEMMA OrderedMove ==
  ASSUME NEW nx, NEW ny, NEW ow \in [Handlers -> Lists \cup {NULL}], NEW f, Ordered(nx, ow, f),
         NEW l \in Lists, NEW m \in Lists, l # m, NEW i \in 1 .. Len(f[l]),
         Relinked(nx, ny, f, l, i, m), NEW ox,
         \A h \in Handlers : ox[h] = IF h \in ToSet(SubSeq(f[l], i, Len(f[l]))) THEN m ELSE ow[h]
  PROVE  Ordered(ny, ox, [f EXCEPT ![l] = SubSeq(f[l], 1, i - 1),
                                   ![m] = f[m] \o SubSeq(f[l], i, Len(f[l]))])
<1> DEFINE s == f[l]
           t == f[m]
           p == SubSeq(s, 1, i - 1)
           u == SubSeq(s, i, Len(s))
           g == [f EXCEPT ![l] = p, ![m] = t \o u]
<1>1. s \in Seq(Handlers) /\ IsInjective(s) /\ t \in Seq(Handlers)
  BY OrderedFacts
<1>2. /\ p \in Seq(Handlers) /\ u \in Seq(Handlers)
      /\ \A x : x \in ToSet(s) <=> x \in ToSet(p) \/ x \in ToSet(u)
      /\ \A x : ~(x \in ToSet(p) /\ x \in ToSet(u))
  BY <1>1, PartsOf
<1>3. /\ Spells(ny, l, p) /\ Spells(ny, m, t \o u)
      /\ \A k \in Lists : k # l /\ k # m => Spells(ny, k, f[k])
  BY MoveSpells
<1>4. \A k \in Lists : \A h \in Handlers : h \in ToSet(f[k]) <=> ow[h] = k
  BY DEF Ordered
<1>5. \A h \in Handlers : ox[h] = IF h \in ToSet(u) THEN m ELSE ow[h]
  OBVIOUS
<1>f. f \in [Lists -> Seq(Handlers)]
  BY DEF Ordered
<1> HIDE DEF p, u
<1>6. t \o u \in Seq(Handlers) /\ ToSet(t \o u) = ToSet(t) \cup ToSet(u)
  BY <1>1, <1>2, JoinedToSet
<1>7. /\ g \in [Lists -> Seq(Handlers)] /\ g[l] = p /\ g[m] = t \o u
      /\ \A k \in Lists : k # l /\ k # m => g[k] = f[k]
  BY <1>2, <1>6, <1>f
<1>8. /\ \A h \in Handlers : h \in ToSet(s) <=> ow[h] = l
      /\ \A h \in Handlers : h \in ToSet(t) <=> ow[h] = m
  BY <1>4
<1>g. g = [f EXCEPT ![l] = p, ![m] = t \o u]
  OBVIOUS
<1> HIDE DEF s, t, g
<1>9. \A k \in Lists : Spells(ny, k, g[k])
  BY <1>3, <1>7
<1>10. ASSUME NEW k \in Lists, NEW h \in Handlers PROVE ox[h] = k <=> h \in ToSet(g[k])
  <2>1. h \in ToSet(u) => ow[h] = l
    BY <1>2, <1>8
  <2>2. CASE k = l
    <3>1. h \in ToSet(g[k]) <=> h \in ToSet(s) /\ h \notin ToSet(u)
      BY <1>2, <1>7, <2>2
    <3> QED BY <1>5, <1>8, <2>1, <2>2, <3>1
  <2>3. CASE k = m
    <3>1. h \in ToSet(g[k]) <=> h \in ToSet(t) \/ h \in ToSet(u)
      BY <1>6, <1>7, <2>3
    <3> QED BY <1>5, <1>8, <2>1, <2>3, <3>1
  <2>4. CASE k # l /\ k # m
    <3>1. h \in ToSet(g[k]) <=> ow[h] = k
      BY <1>4, <1>7, <2>4
    <3> QED BY <1>5, <2>1, <2>4, <3>1
  <2> QED BY <2>2, <2>3, <2>4
<1>11. Ordered(ny, ox, g)
  BY <1>7, <1>9, <1>10 DEF Ordered
<1> QED BY <1>11 DEF g, s, t, p, u

(* What Detach takes off the end of list l: the handlers from the i-th.    *)
LEMMA DetachedPart ==
  ASSUME IInv, NEW f, Ordered(next, owner, f), NEW l \in Lists, NEW i \in 1 .. Len(f[l])
  PROVE  LET s == f[l]
             c == CellAt(l, s, i - 1)
             last == s[Len(s)]
             d == Detached(l, s[i])
         IN  /\ prev[l] = last
             /\ d = [next |-> [next EXCEPT ![c] = l, ![last] = NULL],
                     prev |-> [prev EXCEPT ![l] = c, ![s[i]] = NULL]]
             /\ Chain(d.next, s[i]) = ToSet(SubSeq(s, i, Len(s)))
<1> DEFINE s == f[l]
           a == Len(s)
<1>1. /\ s \in Seq(Handlers) /\ a \in Nat /\ DOMAIN s = 1 .. a /\ IsInjective(s)
      /\ \A j \in 1 .. a : s[j] \in Handlers /\ owner[s[j]] = l /\ CellAt(l, s, j) = s[j]
      /\ \A j \in 0 .. a - 1 : next[CellAt(l, s, j)] = s[j + 1]
  <2>1. s \in Seq(Handlers) /\ a \in Nat /\ DOMAIN s = 1 .. a /\ IsInjective(s)
    BY OrderedFacts
  <2>2. \A j \in 1 .. a : s[j] \in Handlers /\ owner[s[j]] = l /\ CellAt(l, s, j) = s[j]
    BY OrderedFacts
  <2>3. \A j \in 0 .. a - 1 : next[CellAt(l, s, j)] = s[j + 1]
    BY OrderedFacts
  <2> QED BY <2>1, <2>2, <2>3
<1> DEFINE c == CellAt(l, s, i - 1)
           last == s[a]
           dn == [next EXCEPT ![c] = l, ![last] = NULL]
<1>2. /\ next[l] = NULL => s = <<>>
      /\ next[l] # NULL => prev[l] = CellAt(l, s, a)
      /\ \A j \in 1 .. a : prev[s[j]] = CellAt(l, s, j - 1)
  BY PrevIs
<1>3. i \in 1 .. a /\ a \in 1 .. a /\ i - 1 \in 0 .. a /\ i - 1 # a /\ a \in 0 .. a
  BY <1>1
<1>4. prev[l] = last /\ prev[s[i]] = c
  <2>1. s # <<>>
    BY <1>3
  <2> QED BY <1>1, <1>2, <1>3, <2>1
<1>5. s[i] \in Handlers /\ owner[s[i]] = l
  BY <1>1, <1>3
<1>6. /\ Detached(l, s[i]) = [next |-> dn, prev |-> [prev EXCEPT ![l] = c, ![s[i]] = NULL]]
      /\ Chain(dn, l) \cap Chain(dn, s[i]) = {}
      /\ Chain(dn, l) \cup Chain(dn, s[i]) = Cells(l)
  <2>1. LET d == Detached(l, s[i])
            A == Chain(d.next, l)
            C == Chain(d.next, s[i])
        IN  /\ d = [next |-> [next EXCEPT ![prev[s[i]]] = l, ![prev[l]] = NULL],
                    prev |-> [prev EXCEPT ![l] = prev[s[i]], ![s[i]] = NULL]]
            /\ A \cap C = {} /\ A \cup C = Cells(l)
    BY <1>5, DetachCuts
  <2>2. Detached(l, s[i]) = [next |-> dn, prev |-> [prev EXCEPT ![l] = c, ![s[i]] = NULL]]
    BY <1>4, <2>1
  <2>3. Detached(l, s[i]).next = dn
    BY <2>2
  <2> HIDE DEF dn
  <2> QED BY <2>1, <2>2, <2>3
<1>7. /\ \A j \in 0 .. a : CellAt(l, s, j) \in Nodes
      /\ CellAt(l, s, 0) = l
  BY <1>1, CellAtIs
<1>8. /\ \A j \in 0 .. a : CellAt(l, s, j) \in Cells(l)
      /\ \A n \in Cells(l) : \E j \in 0 .. a : n = CellAt(l, s, j)
  BY CellsAre
<1>9. \A j, k \in 0 .. a : CellAt(l, s, j) = CellAt(l, s, k) => j = k
  BY <1>1, CellAtOnce
<1>10. \A x : x \in ToSet(SubSeq(s, i, a)) <=> \E j \in i .. a : x = s[j]
  BY <1>1, <1>3, PartsOf
<1>11. last = CellAt(l, s, a)
  BY <1>1, <1>3
<1>c. c = CellAt(l, s, i - 1)
  OBVIOUS
<1>12. next \in [Nodes -> Nodes \cup {NULL}]
  BY DEF IInv, TypeOK
<1>13. /\ dn[c] = l /\ dn[last] = NULL
       /\ \A j \in 0 .. a : j # i - 1 /\ j # a => dn[CellAt(l, s, j)] = next[CellAt(l, s, j)]
  <2>1. c # last /\ c \in Nodes /\ last \in Nodes
    BY <1>3, <1>7, <1>9, <1>11
  <2>2. \A j \in 0 .. a : j # i - 1 /\ j # a => CellAt(l, s, j) # c /\ CellAt(l, s, j) # last
    BY <1>3, <1>9, <1>11
  <2> HIDE DEF c, last
  <2> QED BY <1>7, <1>12, <2>1, <2>2
<1> HIDE DEF s, a, c, last, dn
<1> DEFINE H == {CellAt(l, s, j) : j \in 0 .. i - 1}
           T == {CellAt(l, s, j) : j \in i .. a}
<1>14. Chain(dn, l) \subseteq H
  <2>1. H \in SUBSET Nodes /\ l \in H
    <3>1. (\A j \in 0 .. i - 1 : j \in 0 .. a) /\ 0 \in 0 .. i - 1
      BY <1>1, <1>3
    <3> QED BY <1>7, <3>1
  <2>2. \A k \in H : dn[k] \in H \cup {NULL}
    <3> SUFFICES ASSUME NEW j \in 0 .. i - 1 PROVE dn[CellAt(l, s, j)] \in H
      OBVIOUS
    <3>1. CASE j = i - 1
      BY <1>13, <1>c, <2>1, <3>1
    <3>2. CASE j # i - 1
      <4>1. j \in 0 .. a /\ j # a /\ j \in 0 .. a - 1 /\ j + 1 \in 0 .. i - 1 /\ j + 1 \in 1 .. a
        BY <1>1, <1>3, <3>2
      <4>2. dn[CellAt(l, s, j)] = CellAt(l, s, j + 1)
        BY <1>1, <1>13, <3>2, <4>1
      <4> QED BY <4>1, <4>2
    <3> QED BY <3>1, <3>2
  <2> HIDE DEF H
  <2> QED BY <2>1, <2>2, ChainLeast
<1>15. Chain(dn, s[i]) \subseteq T
  <2>1. T \in SUBSET Nodes /\ s[i] \in T
    <3>1. (\A j \in i .. a : j \in 0 .. a) /\ i \in i .. a
      BY <1>1, <1>3
    <3> QED BY <1>1, <1>3, <1>7, <3>1
  <2>2. \A k \in T : dn[k] \in T \cup {NULL}
    <3> SUFFICES ASSUME NEW j \in i .. a PROVE dn[CellAt(l, s, j)] \in T \cup {NULL}
      OBVIOUS
    <3>1. CASE j = a
      BY <1>13, <1>11, <3>1
    <3>2. CASE j # a
      <4>1. j \in 0 .. a /\ j # i - 1 /\ j \in 0 .. a - 1 /\ j + 1 \in i .. a /\ j + 1 \in 1 .. a
        BY <1>1, <1>3, <3>2
      <4>2. dn[CellAt(l, s, j)] = CellAt(l, s, j + 1)
        BY <1>1, <1>13, <3>2, <4>1
      <4> QED BY <4>1, <4>2
    <3> QED BY <3>1, <3>2
  <2> HIDE DEF T
  <2> QED BY <2>1, <2>2, ChainLeast
<1>16. H \cap T = {}
  <2>1. \A j \in 0 .. i - 1, k \in i .. a : j \in 0 .. a /\ k \in 0 .. a /\ j # k
    BY <1>1, <1>3
  <2> QED BY <1>9, <2>1
<1>17. T \subseteq Cells(l)
  <2>1. \A j \in i .. a : j \in 0 .. a
    BY <1>1, <1>3
  <2> QED BY <1>8, <2>1
<1>18. Chain(dn, s[i]) = T
  <2> HIDE DEF H, T
  <2> QED BY <1>6, <1>14, <1>15, <1>16, <1>17
<1>19. T = ToSet(SubSeq(s, i, a))
  <2>1. \A j \in i .. a : j \in 1 .. a
    BY <1>1, <1>3
  <2>2. \A x : x \in T <=> \E j \in i .. a : x = s[j]
    BY <1>1, <2>1
  <2> HIDE DEF T
  <2> QED BY <1>10, <2>2
<1>20. Chain(Detached(l, s[i]).next, s[i]) = ToSet(SubSeq(s, i, a))
  <2>1. Detached(l, s[i]).next = dn
    BY <1>6
  <2> QED BY <1>18, <1>19, <2>1
<1> QED BY <1>4, <1>6, <1>20 DEF s, a, c, last, dn

(* The operations of the pointer lists do to the sequences what SeqLists says. *)
LEMMA AddOrdered ==
  ASSUME IInv, NEW f, Ordered(next, owner, f), NEW l \in Lists, NEW h \in Handlers, Add(l, h)
  PROVE  Ordered(next', owner', [f EXCEPT ![l] = Append(f[l], h)])
<1> DEFINE q == CellAt(l, f[l], Len(f[l]))
<1>1. /\ next[l] = NULL => f[l] = <<>> /\ prev[l] = NULL
      /\ next[l] # NULL => prev[l] # NULL /\ prev[l] = q
  BY PrevIs
<1>2. f[l] \in Seq(Handlers) /\ Len(f[l]) \in 0 .. Len(f[l])
  BY OrderedFacts
<1>3. q \in Cells(l) /\ q \in Live /\ q \in Nodes
  BY <1>2, CellsAre, LiveFacts
<1>4. /\ owner[h] = NULL /\ h \in Nodes /\ l \in Nodes /\ l # h
      /\ owner' = [owner EXCEPT ![h] = l]
  BY NodesAssumption DEF Add, Nodes
<1>5. q # h
  BY <1>3, <1>4, NodesAssumption DEF Live, Allocated
<1>6. next \in [Nodes -> Nodes \cup {NULL}] /\ owner \in [Handlers -> Lists \cup {NULL}]
      /\ prev \in [Nodes -> Nodes \cup {NULL}]
  BY DEF IInv, TypeOK
<1>7. f[l] = <<>> => q = l
  BY DEF CellAt
<1> HIDE DEF q
<1>8. /\ next'[q] = h /\ next'[h] = l
      /\ \A n \in Nodes : n # q /\ n # h => next'[n] = next[n]
  <2>1. CASE prev[l] = NULL
    <3>1. q = l
      BY <1>1, <1>7, <2>1
    <3>2. Closed(Heap, l) = [next |-> [next EXCEPT ![l] = l], prev |-> [prev EXCEPT ![l] = l]]
      BY <2>1 DEF Closed, Heap
    <3>3. Closed(Heap, l).prev[l] = l
      BY <1>4, <1>6, <3>2
    <3>4. next' = [Closed(Heap, l).next EXCEPT ![Closed(Heap, l).prev[l]] = h, ![h] = l]
      BY DEF Add, Attach
    <3>5. Closed(Heap, l).next = [next EXCEPT ![l] = l]
      BY <3>2
    <3>6. next' = [[next EXCEPT ![l] = l] EXCEPT ![l] = h, ![h] = l]
      BY <3>3, <3>4, <3>5
    <3> QED BY <1>4, <1>6, <3>1, <3>6
  <2>2. CASE prev[l] # NULL
    <3>1. prev[l] = q
      BY <1>1, <2>2
    <3>2. Closed(Heap, l) = Heap
      BY <2>2 DEF Closed, Heap
    <3>3. next' = [next EXCEPT ![q] = h, ![h] = l]
      BY <3>1, <3>2 DEF Add, Attach, Heap
    <3> QED BY <1>3, <1>4, <1>5, <1>6, <3>3
  <2> QED BY <2>1, <2>2
<1>9. Appended(next, next', f, l, h)
  BY <1>8 DEF Appended, q
<1>10. Ordered(next', [owner EXCEPT ![h] = l], [f EXCEPT ![l] = Append(f[l], h)])
  BY <1>4, <1>6, <1>9, OrderedAppend
<1> QED BY <1>4, <1>10

LEMMA FreeInsideOrdered ==
  ASSUME IInv, NEW f, Ordered(next, owner, f), NEW l \in Lists, FreeInside(l)
  PROVE  Ordered(next', owner', [f EXCEPT ![l] = <<>>])
<1> DEFINE s == f[l]
           a == Len(s)
<1>1. /\ s \in Seq(Handlers) /\ a \in Nat /\ DOMAIN s = 1 .. a /\ IsInjective(s)
      /\ CellAt(l, s, 0) = l
  BY OrderedFacts, CellAtIs
<1>2. /\ next[CellAt(l, s, a)] = l \/ (s = <<>> /\ next[l] = NULL)
      /\ \A j \in 0 .. a - 1 : next[CellAt(l, s, j)] = s[j + 1]
  BY OrderedFacts
<1>3. a # 0
  BY <1>1, <1>2 DEF FreeInside
<1>4. next[l] = s[1] /\ 1 \in 1 .. a /\ CellAt(l, s, 1 - 1) = l
  <2>1. 0 \in 0 .. a - 1 /\ 0 + 1 = 1 /\ 1 \in 1 .. a /\ 1 - 1 = 0
    BY <1>1, <1>3
  <2> QED BY <1>1, <1>2, <2>1
<1>5. /\ Detached(l, s[1]) = [next |-> [next EXCEPT ![l] = l, ![s[a]] = NULL],
                              prev |-> [prev EXCEPT ![l] = l, ![s[1]] = NULL]]
      /\ Chain(Detached(l, s[1]).next, s[1]) = ToSet(SubSeq(s, 1, a))
  BY <1>4, DetachedPart
<1>6. \A x : x \in ToSet(SubSeq(s, 1, a)) <=> x \in ToSet(s)
  <2>1. \A x : x \in ToSet(SubSeq(s, 1, a)) <=> \E j \in 1 .. a : x = s[j]
    BY <1>1, <1>4, PartsOf
  <2> QED BY <1>1, <2>1 DEF ToSet
<1>7. s[a] \in ToSet(s)
  BY <1>1, <1>3 DEF ToSet
<1> HIDE DEF a
<1>8. /\ next' = [next EXCEPT ![l] = l, ![s[a]] = NULL]
      /\ owner' = [h \in Handlers |-> IF h \in ToSet(SubSeq(s, 1, a)) THEN NULL ELSE owner[h]]
  <2>1. /\ next' = Detached(l, s[1]).next
        /\ owner' = [h \in Handlers |-> IF h \in Chain(Detached(l, s[1]).next, s[1])
                                        THEN NULL ELSE owner[h]]
    BY <1>4 DEF FreeInside, Detached
  <2> QED BY <1>5, <2>1
<1>9. next \in [Nodes -> Nodes \cup {NULL}] /\ owner \in [Handlers -> Lists \cup {NULL}]
      /\ l \in Nodes
  BY DEF IInv, TypeOK, Nodes
<1>10. l # s[a]
  BY <1>1, <1>3, NodesAssumption DEF a
<1>11. /\ next'[l] = l
       /\ \A n \in Nodes : n # l /\ n \notin ToSet(s) => next'[n] = next[n]
  BY <1>7, <1>8, <1>9, <1>10
<1>12. \A h \in Handlers : owner'[h] = IF h \in ToSet(s) THEN NULL ELSE owner[h]
  BY <1>6, <1>8
<1> QED BY <1>9, <1>11, <1>12, OrderedClear

LEMMA MoveOrdered ==
  ASSUME IInv, NEW f, Ordered(next, owner, f),
         NEW l \in Lists, NEW m \in Lists, NEW i \in 1 .. Len(f[l]), Move(l, f[l][i], m)
  PROVE  Ordered(next', owner', [f EXCEPT ![l] = SubSeq(f[l], 1, i - 1),
                                          ![m] = f[m] \o SubSeq(f[l], i, Len(f[l]))])
<1> DEFINE s == f[l]
           a == Len(s)
           t == f[m]
           c == CellAt(l, s, i - 1)
           last == s[a]
           q == CellAt(m, t, Len(t))
           d == Detached(l, s[i])
           e == Closed(d, m)
<1>1. /\ s \in Seq(Handlers) /\ a \in Nat /\ t \in Seq(Handlers) /\ Len(t) \in Nat
      /\ \A j \in 1 .. a : s[j] \in Handlers /\ CellAt(l, s, j) = s[j]
  BY OrderedFacts
<1>2. l # m /\ next' = Attach(d, m, s[i], prev[l]).next
      /\ owner' = [h \in Handlers |-> IF h \in Chain(d.next, s[i]) THEN m ELSE owner[h]]
  BY DEF Move, Detached
<1>3. /\ prev[l] = last
      /\ d = [next |-> [next EXCEPT ![c] = l, ![last] = NULL],
              prev |-> [prev EXCEPT ![l] = c, ![s[i]] = NULL]]
      /\ Chain(d.next, s[i]) = ToSet(SubSeq(s, i, a))
  BY DetachedPart
<1>4. /\ next[m] = NULL => t = <<>> /\ prev[m] = NULL
      /\ next[m] # NULL => prev[m] # NULL /\ prev[m] = q
  BY PrevIs
<1>5. i \in 1 .. a /\ a \in 1 .. a /\ i - 1 \in 0 .. a /\ a \in 0 .. a /\ i - 1 # a
      /\ Len(t) \in 0 .. Len(t)
  BY <1>1
<1>6. last = CellAt(l, s, a) /\ c # last
  BY <1>1, <1>5, CellAtOnce, OrderedFacts
<1>7. q # c /\ q # last
  BY <1>2, <1>5, <1>6, OrderedApart
<1>8. c \in Nodes /\ last \in Nodes /\ q \in Nodes /\ m \in Nodes /\ m # l
      /\ s[i] \in Handlers /\ m # s[i]
  <2>1. c \in Nodes /\ last \in Nodes
    BY <1>1, <1>5, <1>6, CellAtIs
  <2>2. q \in Nodes
    BY <1>1, <1>5, CellAtIs
  <2> QED BY <1>1, <1>2, <1>5, <2>1, <2>2, NodesAssumption DEF Nodes
<1>9. next \in [Nodes -> Nodes \cup {NULL}] /\ owner \in [Handlers -> Lists \cup {NULL}]
      /\ prev \in [Nodes -> Nodes \cup {NULL}]
  BY DEF IInv, TypeOK
<1>10. t = <<>> => q = m
  BY DEF CellAt
<1> HIDE DEF s, a, t, c, last, q
<1>11. d.next = [next EXCEPT ![c] = l, ![last] = NULL] /\ d.prev[m] = prev[m]
       /\ DOMAIN d.prev = Nodes
  <2>1. d.next = [next EXCEPT ![c] = l, ![last] = NULL]
    BY <1>3
  <2>2. d.prev = [prev EXCEPT ![l] = c, ![s[i]] = NULL]
    BY <1>3
  <2> HIDE DEF d
  <2>3. d.prev[m] = prev[m] /\ DOMAIN d.prev = Nodes
    BY <1>8, <1>9, <2>2
  <2> QED BY <2>1, <2>3
<1> HIDE DEF d
<1>12. /\ next'[c] = l /\ next'[q] = s[i] /\ next'[last] = m
       /\ \A n \in Nodes : n # c /\ n # last /\ n # q => next'[n] = next[n]
  <2>1. CASE prev[m] = NULL
    <3>1. q = m
      BY <1>4, <1>10, <2>1
    <3>2. e = [next |-> [d.next EXCEPT ![m] = m], prev |-> [d.prev EXCEPT ![m] = m]]
      BY <1>11, <2>1 DEF Closed
    <3>3. e.prev[m] = m
      BY <1>8, <1>11, <3>2
    <3>4. e.next = [d.next EXCEPT ![m] = m]
      BY <3>2
    <3>5. next' = [e.next EXCEPT ![e.prev[m]] = s[i], ![last] = m]
      BY <1>2, <1>3 DEF Attach
    <3>6. next' = [[[next EXCEPT ![c] = l, ![last] = NULL] EXCEPT ![m] = m]
                     EXCEPT ![m] = s[i], ![last] = m]
      BY <1>11, <3>3, <3>4, <3>5
    <3> QED BY <1>6, <1>7, <1>8, <1>9, <3>1, <3>6
  <2>2. CASE prev[m] # NULL
    <3>1. prev[m] = q
      BY <1>4, <2>2
    <3>2. e = d
      BY <1>11, <2>2 DEF Closed
    <3>3. next' = [d.next EXCEPT ![q] = s[i], ![last] = m]
      BY <1>2, <1>3, <1>11, <3>1, <3>2 DEF Attach
    <3>4. next' = [[next EXCEPT ![c] = l, ![last] = NULL] EXCEPT ![q] = s[i], ![last] = m]
      BY <1>11, <3>3
    <3> QED BY <1>6, <1>7, <1>8, <1>9, <3>4
  <2> QED BY <2>1, <2>2
<1>13. Relinked(next, next', f, l, i, m)
  BY <1>12 DEF Relinked, s, a, t, c, last, q
<1>14. \A h \in Handlers : owner'[h] = IF h \in ToSet(SubSeq(s, i, a)) THEN m ELSE owner[h]
  BY <1>2, <1>3
<1> QED BY <1>2, <1>9, <1>13, <1>14, OrderedMove DEF s, a

PositionsOf(c, f) == [l \in Lists |-> PositionIn(c[l], l, f[l])]

(* What the refinement mapping sees of lists that spell f. *)
LEMMA WalksAre ==
  ASSUME NEW nx, NEW ow, NEW f, Ordered(nx, ow, f)
  PROVE  [l \in Lists |-> Walk(nx, l)] = f
<1>1. \A l \in Lists : Walk(nx, l) = f[l]
  BY OrderedFacts, WalkIs
<1>2. f \in [Lists -> Seq(Handlers)]
  BY DEF Ordered
<1> QED BY <1>1, <1>2

LEMMA PositionsAre ==
  ASSUME NEW nx, NEW ow, NEW f, Ordered(nx, ow, f), NEW c
  PROVE  [l \in Lists |-> PositionIn(c[l], l, Walk(nx, l))] = PositionsOf(c, f)
<1>1. \A l \in Lists : Walk(nx, l) = f[l]
  BY OrderedFacts, WalkIs
<1> QED BY <1>1 DEF PositionsOf

(* A call keeps its position as long as the handlers it has met stay.      *)
LEMMA PositionKept ==
  ASSUME NEW l \in Lists, NEW s \in Seq(Handlers), IsInjective(s),
         NEW t \in Seq(Handlers), IsInjective(t),
         NEW i \in 0 .. Len(s), i \in 0 .. Len(t), \A j \in 1 .. i : t[j] = s[j]
  PROVE  PositionIn(CellAt(l, s, i), l, t) = PositionIn(CellAt(l, s, i), l, s)
<1>1. /\ Len(s) \in Nat /\ CellAt(l, s, 0) = l
      /\ \A j \in 1 .. Len(s) : CellAt(l, s, j) = s[j]
  BY CellAtIs
<1>2. /\ Len(t) \in Nat /\ CellAt(l, t, 0) = l
      /\ \A j \in 1 .. Len(t) : CellAt(l, t, j) = t[j]
  BY CellAtIs
<1>3. i = 0 \/ (i \in 1 .. Len(s) /\ i \in 1 .. Len(t) /\ i \in 1 .. i)
  BY <1>1, <1>2
<1>4. CellAt(l, t, i) = CellAt(l, s, i)
  BY <1>1, <1>2, <1>3
<1>5. PositionIn(CellAt(l, s, i), l, s) = i /\ PositionIn(CellAt(l, t, i), l, t) = i
  BY PositionIs
<1> QED BY <1>4, <1>5

(* A call stands on the sentinel or on a handler of its list. *)
LEMMA Stands ==
  ASSUME IInv, EnumeratorsLive, NEW f, Ordered(next, owner, f), NEW l \in Lists
  PROVE  current[l] = NULL \/ \E i \in 0 .. Len(f[l]) : current[l] = CellAt(l, f[l], i)
<1>1. current[l] # NULL => current[l] \in Cells(l)
  BY DEF EnumeratorsLive, Cells
<1> QED BY <1>1, CellsAre

(* How far the call of every list is. *)
LEMMA StandsAt ==
  ASSUME IInv, EnumeratorsLive, NEW f, Ordered(next, owner, f), NEW l \in Lists
  PROVE  /\ current[l] = NULL => PositionsOf(current, f)[l] = 0 - 1
         /\ \A i \in 0 .. Len(f[l]) :
              current[l] = CellAt(l, f[l], i) => PositionsOf(current, f)[l] = i
<1>1. PositionsOf(current, f)[l] = PositionIn(current[l], l, f[l])
  BY DEF PositionsOf
<1>2. f[l] \in Seq(Handlers) /\ IsInjective(f[l])
  BY OrderedFacts
<1> QED BY <1>1, <1>2, PositionIs

-----------------------------------------------------------------------------
(* Every step of the pointer lists is a step of the sequences. *)

LEMMA AddStep ==
  ASSUME IInv, EnumeratorsLive, NEW f, Ordered(next, owner, f),
         NEW l \in Lists, NEW h \in Handlers, Add(l, h)
  PROVE  \E g : /\ Ordered(next', owner', g)
                /\ g = [f EXCEPT ![l] = Append(f[l], h)]
                /\ h \notin UNION {ToSet(f[k]) : k \in Lists}
                /\ PositionsOf(current', g) = PositionsOf(current, f)
<1> DEFINE g == [f EXCEPT ![l] = Append(f[l], h)]
<1>1. Ordered(next', owner', g)
  BY AddOrdered
<1>2. h \notin UNION {ToSet(f[k]) : k \in Lists}
  <2>1. \A k \in Lists : owner[h] = k <=> h \in ToSet(f[k])
    BY DEF Ordered
  <2>2. owner[h] = NULL /\ NULL \notin Lists
    BY NodesAssumption DEF Add, Nodes
  <2> QED BY <2>1, <2>2
<1>3. f \in [Lists -> Seq(Handlers)]
  BY DEF Ordered
<1>4. current' = current
  BY DEF Add
<1>5. g[l] = Append(f[l], h) /\ \A k \in Lists : k # l => g[k] = f[k]
  BY <1>3
<1>g. g = [f EXCEPT ![l] = Append(f[l], h)]
  OBVIOUS
<1> HIDE DEF g
<1>6. ASSUME NEW k \in Lists PROVE PositionIn(current[k], k, g[k]) = PositionIn(current[k], k, f[k])
  <2>1. CASE k = l
    <3>1. f[l] \in Seq(Handlers) /\ IsInjective(f[l]) /\ Len(f[l]) \in Nat
      BY OrderedFacts
    <3>2. g[l] \in Seq(Handlers) /\ IsInjective(g[l])
      BY <1>1, OrderedFacts
    <3>3. CASE current[l] = NULL
      BY <2>1, <3>3 DEF PositionIn
    <3>4. CASE current[l] # NULL
      <4>1. PICK i \in 0 .. Len(f[l]) : current[l] = CellAt(l, f[l], i)
        BY <3>4, Stands
      <4>2. Len(g[l]) = Len(f[l]) + 1 /\ \A j \in 1 .. Len(f[l]) : g[l][j] = f[l][j]
        BY <1>5, <3>1
      <4>3. i \in 0 .. Len(g[l]) /\ \A j \in 1 .. i : g[l][j] = f[l][j]
        BY <3>1, <4>2
      <4> QED BY <2>1, <3>1, <3>2, <4>1, <4>3, PositionKept
    <3> QED BY <3>3, <3>4
  <2>2. CASE k # l
    BY <1>5, <2>2
  <2> QED BY <2>1, <2>2
<1>7. PositionsOf(current', g) = PositionsOf(current, f)
  BY <1>4, <1>6 DEF PositionsOf
<1> QED BY <1>1, <1>2, <1>7, <1>g

LEMMA MoveStep ==
  ASSUME IInv, EnumeratorsLive, NEW f, Ordered(next, owner, f),
         NEW l \in Lists, NEW m \in Lists, NEW h \in Handlers, Move(l, h, m)
  PROVE  \E g, i : /\ Ordered(next', owner', g)
                   /\ l # m /\ i \in 1 .. Len(f[l])
                   /\ g = [f EXCEPT ![l] = SubSeq(f[l], 1, i - 1),
                                    ![m] = f[m] \o SubSeq(f[l], i, Len(f[l]))]
                   /\ PositionsOf(current, f)[l] = 0 - 1
                   /\ PositionsOf(current', g) = PositionsOf(current, f)
<1>1. l # m /\ owner[h] = l /\ current[l] = NULL /\ current' = current
  BY DEF Move
<1>2. PICK i \in 1 .. Len(f[l]) : f[l][i] = h
  BY <1>1, OrderedFacts
<1> DEFINE u == SubSeq(f[l], i, Len(f[l]))
           g == [f EXCEPT ![l] = SubSeq(f[l], 1, i - 1), ![m] = f[m] \o u]
<1>3. Ordered(next', owner', g)
  BY <1>2, MoveOrdered
<1>4. f \in [Lists -> Seq(Handlers)]
  BY DEF Ordered
<1>5. g[m] = f[m] \o u /\ \A k \in Lists : k # l /\ k # m => g[k] = f[k]
  BY <1>1, <1>4
<1>6. PositionsOf(current, f)[l] = 0 - 1
  BY <1>1, StandsAt
<1>u. u \in Seq(Handlers)
  <2>1. f[l] \in Seq(Handlers) /\ IsInjective(f[l])
    BY OrderedFacts
  <2> QED BY <1>2, <2>1, PartsOf
<1>g. g = [f EXCEPT ![l] = SubSeq(f[l], 1, i - 1), ![m] = f[m] \o SubSeq(f[l], i, Len(f[l]))]
  OBVIOUS
<1> HIDE DEF g, u
<1>7. ASSUME NEW k \in Lists PROVE PositionIn(current[k], k, g[k]) = PositionIn(current[k], k, f[k])
  <2>1. CASE current[k] = NULL
    BY <2>1 DEF PositionIn
  <2>2. CASE k = m /\ current[m] # NULL
    <3>1. f[m] \in Seq(Handlers) /\ IsInjective(f[m]) /\ Len(f[m]) \in Nat
      BY OrderedFacts
    <3>2. g[m] \in Seq(Handlers) /\ IsInjective(g[m])
      BY <1>3, OrderedFacts
    <3>3. PICK j \in 0 .. Len(f[m]) : current[m] = CellAt(m, f[m], j)
      BY <2>2, Stands
    <3>4. /\ Len(g[m]) = Len(f[m]) + Len(u) /\ Len(u) \in Nat
          /\ \A x \in 1 .. Len(f[m]) + Len(u) :
               g[m][x] = IF x <= Len(f[m]) THEN f[m][x] ELSE u[x - Len(f[m])]
      BY <1>5, <1>u, <3>1, ConcatProperties
    <3>5. j \in 0 .. Len(g[m]) /\ \A x \in 1 .. j : x \in 1 .. Len(f[m]) + Len(u) /\ x <= Len(f[m])
      BY <3>1, <3>4
    <3>6. \A x \in 1 .. j : g[m][x] = f[m][x]
      BY <3>4, <3>5
    <3> QED BY <2>2, <3>1, <3>2, <3>3, <3>5, <3>6, PositionKept
  <2>3. CASE k # m /\ current[k] # NULL
    BY <1>1, <1>5, <2>3
  <2> QED BY <2>1, <2>2, <2>3
<1>8. PositionsOf(current', g) = PositionsOf(current, f)
  BY <1>1, <1>7 DEF PositionsOf
<1> QED BY <1>1, <1>2, <1>3, <1>6, <1>8, <1>g

LEMMA FreeInsideStep ==
  ASSUME IInv, EnumeratorsLive, NEW f, Ordered(next, owner, f),
         NEW l \in Lists, FreeInside(l)
  PROVE  \E g : /\ Ordered(next', owner', g)
                /\ g = [f EXCEPT ![l] = <<>>]
                /\ PositionsOf(current, f)[l] = 0 - 1
                /\ PositionsOf(current', g) = PositionsOf(current, f)
<1> DEFINE g == [f EXCEPT ![l] = <<>>]
<1>1. current[l] = NULL /\ current' = current
  BY DEF FreeInside
<1>2. Ordered(next', owner', g)
  BY FreeInsideOrdered
<1>3. \A k \in Lists : k # l => g[k] = f[k]
  BY DEF Ordered
<1>4. PositionsOf(current, f)[l] = 0 - 1
  BY <1>1, StandsAt
<1>5. \A k \in Lists : PositionIn(current[k], k, g[k]) = PositionIn(current[k], k, f[k])
  <2> HIDE DEF g
  <2>1. PositionIn(current[l], l, g[l]) = PositionIn(current[l], l, f[l])
    BY <1>1 DEF PositionIn
  <2> QED BY <1>3, <2>1
<1>6. PositionsOf(current', g) = PositionsOf(current, f)
  BY <1>1, <1>5 DEF PositionsOf
<1> QED BY <1>2, <1>4, <1>6

LEMMA CallStep ==
  ASSUME IInv, EnumeratorsLive, NEW f, Ordered(next, owner, f),
         NEW l \in Lists, StartCall(l) \/ CallNext(l)
  PROVE  /\ Ordered(next', owner', f)
         /\ PositionsOf(current', f) =
              [PositionsOf(current, f) EXCEPT ![l] =
                 IF PositionsOf(current, f)[l] = Len(f[l]) THEN 0 - 1
                 ELSE PositionsOf(current, f)[l] + 1]
<1> DEFINE s == f[l]
           P == PositionsOf(current, f)
           Q == PositionsOf(current', f)
<1>1. next' = next /\ owner' = owner
      /\ \A k \in Lists : k # l => current'[k] = current[k]
  BY DEF StartCall, CallNext, IInv, TypeOK
<1>2. Ordered(next', owner', f)
  BY <1>1
<1>3. /\ s \in Seq(Handlers) /\ Len(s) \in Nat /\ IsInjective(s)
      /\ \A i \in 0 .. Len(s) - 1 : next[CellAt(l, s, i)] = s[i + 1]
      /\ next[CellAt(l, s, Len(s))] = l \/ (s = <<>> /\ next[l] = NULL)
  BY OrderedFacts
<1>4. /\ CellAt(l, s, 0) = l /\ l # NULL /\ l \notin Handlers /\ NULL \notin Handlers
      /\ \A i \in 1 .. Len(s) : CellAt(l, s, i) = s[i] /\ s[i] \in Handlers
  BY <1>3, CellAtIs
<1>5. /\ PositionIn(NULL, l, s) = 0 - 1
      /\ \A i \in 0 .. Len(s) : PositionIn(CellAt(l, s, i), l, s) = i
  BY <1>3, PositionIs
<1>6. /\ DOMAIN P = Lists /\ DOMAIN Q = Lists
      /\ P = [k \in Lists |-> PositionIn(current[k], k, f[k])]
      /\ Q = [k \in Lists |-> PositionIn(current'[k], k, f[k])]
  BY DEF PositionsOf
<1> HIDE DEF P, Q
<1>7. Q[l] = IF P[l] = Len(s) THEN 0 - 1 ELSE P[l] + 1
  <2>1. P[l] = PositionIn(current[l], l, s) /\ Q[l] = PositionIn(current'[l], l, s)
    BY <1>6
  <2>2. CASE current[l] = NULL
    <3>1. current'[l] = l
      BY <2>2 DEF StartCall, CallNext, IInv, TypeOK
    <3>2. P[l] = 0 - 1 /\ 0 \in 0 .. Len(s) /\ P[l] # Len(s) /\ P[l] + 1 = 0
      BY <1>3, <1>5, <2>1, <2>2
    <3>3. Q[l] = 0
      BY <1>4, <1>5, <2>1, <3>1, <3>2
    <3> QED BY <3>2, <3>3
  <2>3. CASE current[l] # NULL
    <3>1. PICK i \in 0 .. Len(s) : current[l] = CellAt(l, s, i)
      BY <2>3, Stands
    <3>2. P[l] = i
      BY <1>5, <2>1, <3>1
    <3>3. current'[l] = IF next[current[l]] = l THEN NULL ELSE next[current[l]]
      BY <2>3 DEF StartCall, CallNext, IInv, TypeOK
    <3> HIDE DEF s
    <3>4. CASE i = Len(s)
      <4>1. current'[l] = NULL
        <5>1. CASE next[CellAt(l, s, Len(s))] = l
          BY <3>1, <3>3, <3>4, <5>1
        <5>2. CASE s = <<>> /\ next[l] = NULL
          <6>1. Len(s) = 0
            BY <5>2
          <6> QED BY <1>4, <3>1, <3>3, <3>4, <5>2, <6>1
        <5> QED BY <1>3, <5>1, <5>2
      <4> QED BY <1>5, <2>1, <3>2, <3>4, <4>1
    <3>5. CASE i # Len(s)
      <4>1. i \in 0 .. Len(s) - 1 /\ i + 1 \in 1 .. Len(s) /\ i + 1 \in 0 .. Len(s)
        BY <1>3, <3>5
      <4>2. current'[l] = CellAt(l, s, i + 1)
        BY <1>3, <1>4, <3>1, <3>3, <4>1
      <4>3. Q[l] = i + 1
        BY <1>5, <2>1, <4>1, <4>2
      <4> QED BY <3>2, <3>5, <4>3
    <3> QED BY <3>4, <3>5
  <2> QED BY <2>2, <2>3
<1>8. \A k \in Lists : k # l => Q[k] = P[k]
  BY <1>1, <1>6
<1>9. Q = [P EXCEPT ![l] = IF P[l] = Len(s) THEN 0 - 1 ELSE P[l] + 1]
  BY <1>6, <1>7, <1>8
<1> QED BY <1>2, <1>9 DEF P, Q, s

(* The pointer lists spell sequences. *)
SequencesInv == IInv /\ EnumeratorsLive /\ \E f : Ordered(next, owner, f)

SequenceStep == [Abstract!Next]_(Abstract!vars)

(* The empty heap maps to empty sequences. *)
LEMMA InitSequences == Init => SequencesInv /\ Abstract!Init
<1> SUFFICES ASSUME Init PROVE SequencesInv /\ Abstract!Init
  OBVIOUS
<1> DEFINE f == [l \in Lists |-> <<>>]
<1>1. ToSet(<<>>) = {} /\ IsInjective(<<>>) /\ <<>> \in Seq(Handlers) /\ Len(<<>>) = 0
  BY DEF ToSet, IsInjective
<1>2. NULL \notin Lists
  BY NodesAssumption DEF Nodes
<1>3. ASSUME NEW l \in Lists PROVE Spells(next, l, <<>>)
  <2>1. CellAt(l, <<>>, 0) = l /\ next[l] = NULL
    BY DEF CellAt, Init, Nodes
  <2> QED BY <1>1, <2>1 DEF Spells
<1>4. \A l \in Lists : f[l] = <<>>
  OBVIOUS
<1>5. f \in [Lists -> Seq(Handlers)]
  BY <1>1
<1>f. f = [l \in Lists |-> <<>>]
  OBVIOUS
<1> HIDE DEF f
<1>6. Ordered(next, owner, f)
  BY <1>1, <1>2, <1>3, <1>4, <1>5 DEF Ordered, Init
<1>7. IInv /\ EnumeratorsLive
  BY InitInv DEF Init, EnumeratorsLive
<1>8. Walks = f
  BY <1>6, WalksAre DEF Walks
<1>9. Positions = PositionsOf(current, f)
  BY <1>6, PositionsAre DEF Positions
<1>10. PositionsOf(current, f) = [l \in Lists |-> 0 - 1]
  <2>1. \A l \in Lists : current[l] = NULL
    BY DEF Init
  <2> QED BY <2>1 DEF PositionsOf, PositionIn
<1> QED BY <1>6, <1>7, <1>8, <1>9, <1>10, <1>f DEF SequencesInv, Abstract!Init, Abstract!NoCall

(* The mapping before a step, and after it. *)
LEMMA Seen ==
  ASSUME NEW f, Ordered(next, owner, f)
  PROVE  Walks = f /\ Positions = PositionsOf(current, f)
BY WalksAre, PositionsAre DEF Walks, Positions

LEMMA SeenNext ==
  ASSUME NEW g, Ordered(next', owner', g)
  PROVE  Walks' = g /\ Positions' = PositionsOf(current', g)
BY WalksAre, PositionsAre DEF Walks, Positions

(* Every step of the pointers is a step of the sequences, or none.         *)
LEMMA StepSequences ==
  ASSUME SequencesInv, [Next]_vars
  PROVE  (\E g : Ordered(next', owner', g)) /\ SequenceStep
<1>1. PICK f : Ordered(next, owner, f)
  BY DEF SequencesInv
<1>2. IInv /\ EnumeratorsLive
  BY DEF SequencesInv
<1>3. Walks = f /\ Positions = PositionsOf(current, f)
  BY <1>1, Seen
<1>4. ASSUME NEW l \in Lists, NEW h \in Handlers, Add(l, h)
      PROVE  (\E g : Ordered(next', owner', g)) /\ SequenceStep
  <2>1. PICK g : /\ Ordered(next', owner', g)
                 /\ g = [f EXCEPT ![l] = Append(f[l], h)]
                 /\ h \notin UNION {ToSet(f[k]) : k \in Lists}
                 /\ PositionsOf(current', g) = PositionsOf(current, f)
    BY <1>1, <1>2, <1>4, AddStep
  <2>2. Walks' = g /\ Positions' = Positions
    BY <1>3, <2>1, SeenNext
  <2>3. h \in Abstract!Free /\ Walks' = [Walks EXCEPT ![l] = Append(Walks[l], h)]
    <3>1. Walks' = [Walks EXCEPT ![l] = Append(Walks[l], h)]
      BY <1>3, <2>1, <2>2
    <3>2. \A k \in Lists : h \notin ToSet(Walks[k])
      BY <1>3, <2>1
    <3>3. \A k \in Lists : Abstract!ToSet(Walks[k]) = ToSet(Walks[k])
      BY DEF ToSet, Abstract!ToSet
    <3> QED BY <3>1, <3>2, <3>3 DEF Abstract!Free
  <2>4. Abstract!Add(l)
    BY <2>2, <2>3 DEF Abstract!Add
  <2> QED BY <2>1, <2>4 DEF SequenceStep, Abstract!Next
<1>5. ASSUME NEW l \in Lists, NEW m \in Lists, NEW h \in Handlers, Move(l, h, m)
      PROVE  (\E g : Ordered(next', owner', g)) /\ SequenceStep
  <2>1. PICK g, i : /\ Ordered(next', owner', g)
                    /\ l # m /\ i \in 1 .. Len(f[l])
                    /\ g = [f EXCEPT ![l] = SubSeq(f[l], 1, i - 1),
                                     ![m] = f[m] \o SubSeq(f[l], i, Len(f[l]))]
                    /\ PositionsOf(current, f)[l] = 0 - 1
                    /\ PositionsOf(current', g) = PositionsOf(current, f)
    BY <1>1, <1>2, <1>5, MoveStep
  <2>2. Walks' = g /\ Positions' = Positions
    BY <1>3, <2>1, SeenNext
  <2>3. f \in [Lists -> Seq(Handlers)]
    BY <1>1 DEF Ordered
  <2>4. /\ m \in Lists \ {l} /\ i \in 1 .. Len(Walks[l]) /\ Positions[l] = 0 - 1
        /\ Walks' = [Walks EXCEPT ![l] = SubSeq(@, 1, i - 1),
                                  ![m] = @ \o SubSeq(Walks[l], i, Len(Walks[l]))]
    BY <1>3, <2>1, <2>2, <2>3
  <2>5. Abstract!Move(l, m)
    BY <2>2, <2>4 DEF Abstract!Move, Abstract!NoCall
  <2> QED BY <2>1, <2>4, <2>5 DEF SequenceStep, Abstract!Next
<1>6. ASSUME NEW l \in Lists, FreeInside(l)
      PROVE  (\E g : Ordered(next', owner', g)) /\ SequenceStep
  <2>1. PICK g : /\ Ordered(next', owner', g)
                 /\ g = [f EXCEPT ![l] = <<>>]
                 /\ PositionsOf(current, f)[l] = 0 - 1
                 /\ PositionsOf(current', g) = PositionsOf(current, f)
    BY <1>1, <1>2, <1>6, FreeInsideStep
  <2>2. Walks' = g /\ Positions' = Positions
    BY <1>3, <2>1, SeenNext
  <2>3. Abstract!FreeInside(l)
    BY <1>3, <2>1, <2>2 DEF Abstract!FreeInside, Abstract!NoCall
  <2> QED BY <2>1, <2>3 DEF SequenceStep, Abstract!Next
<1>7. ASSUME NEW l \in Lists, StartCall(l) \/ CallNext(l)
      PROVE  (\E g : Ordered(next', owner', g)) /\ SequenceStep
  <2>1. /\ Ordered(next', owner', f)
        /\ PositionsOf(current', f) =
             [PositionsOf(current, f) EXCEPT ![l] =
                IF PositionsOf(current, f)[l] = Len(f[l]) THEN 0 - 1
                ELSE PositionsOf(current, f)[l] + 1]
    BY <1>1, <1>2, <1>7, CallStep
  <2>2. Walks' = Walks /\ Positions' = PositionsOf(current', f)
    BY <1>3, <2>1, SeenNext
  <2>3. Positions' = [Positions EXCEPT ![l] = IF @ = Len(Walks[l]) THEN 0 - 1 ELSE @ + 1]
    <3>1. DOMAIN Positions = Lists
      BY DEF Positions
    <3> QED BY <1>3, <2>1, <2>2, <3>1
  <2>4. Abstract!Call(l)
    BY <2>2, <2>3 DEF Abstract!Call, Abstract!NoCall
  <2> QED BY <2>1, <2>4 DEF SequenceStep, Abstract!Next
<1>8. CASE UNCHANGED vars
  <2>1. next' = next /\ owner' = owner /\ current' = current
    BY <1>8 DEF vars
  <2>2. Ordered(next', owner', f)
    BY <1>1, <2>1
  <2>3. Walks' = Walks /\ Positions' = Positions
    BY <1>3, <2>1, <2>2, SeenNext
  <2> QED BY <2>2, <2>3 DEF SequenceStep, Abstract!vars
<1> QED BY <1>4, <1>5, <1>6, <1>7, <1>8 DEF Next

(* For any number of lists and any finite number of cells: the intrusive   *)
(* circular lists behave as sequences.  MSHandlerListAdd appends, a Move   *)
(* hands the tail of one sequence over to the end of another, the dealloc  *)
(* empties one, and MSHandlerListCall goes through a sequence in order and *)
(* also meets what is added meanwhile.                                     *)
THEOREM ListsAreSequences == Spec => ImplementsSequences
<1>1. Init => SequencesInv /\ Abstract!Init
  BY InitSequences
<1>2. SequencesInv /\ [Next]_vars => SequencesInv' /\ [Abstract!Next]_(Abstract!vars)
  <2> SUFFICES ASSUME SequencesInv, [Next]_vars
               PROVE  SequencesInv' /\ [Abstract!Next]_(Abstract!vars)
    OBVIOUS
  <2>1. (\E g : Ordered(next', owner', g)) /\ SequenceStep
    BY StepSequences
  <2>2. IInv' /\ EnumeratorsLive'
    BY StepInv, StepEnumerators DEF SequencesInv
  <2> QED BY <2>1, <2>2 DEF SequencesInv, SequenceStep
<1> QED BY <1>1, <1>2, PTL DEF Spec, ImplementsSequences, Abstract!Spec
=============================================================================
