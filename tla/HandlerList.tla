---------------------------- MODULE HandlerList ----------------------------
(***************************************************************************)
(* The intrusive, circular, doubly linked lists of MSNode                  *)
(* (MSNodeTypes.h, MSNode.m).  Promises keep their listeners in one, HTTP  *)
(* transactions and TCP connections their callbacks.                       *)
(*                                                                         *)
(* A list is a sentinel cell {first,last} that the code casts to a handler *)
(* {next,prev,...}: both kinds of cells are nodes of one heap.  A sentinel *)
(* starts zeroed and becomes a self loop on its first Attach.  Freed cells *)
(* keep their stale pointers, as the memory free() gets back does.         *)
(***************************************************************************)
CONSTANTS
  Lists,      \* the sentinels, one per list
  Handlers,   \* the handler cells malloc can return
  NULL        \* the null pointer

Nodes == Lists \cup Handlers

ASSUME NodesAssumption ==
  /\ Lists \cap Handlers = {}
  /\ NULL \notin Nodes

VARIABLES
  next,       \* next[n]: MSHandler.next, and MSHandlerList.first of a sentinel
  prev,       \* prev[n]: MSHandler.prev, and MSHandlerList.last of a sentinel
  owner,      \* owner[h]: the list h was attached to last; NULL when h is free
  current     \* current[l]: MSHandlerListEnumerator.current of the call that
              \* runs on l; l before the first step, NULL when none runs

vars == <<next, prev, owner, current>>

Allocated == {h \in Handlers : owner[h] # NULL}
Live == Lists \cup Allocated

TypeOK ==
  /\ next \in [Nodes -> Nodes \cup {NULL}]
  /\ prev \in [Nodes -> Nodes \cup {NULL}]
  /\ owner \in [Handlers -> Lists \cup {NULL}]
  /\ current \in [Lists -> Nodes \cup {NULL}]

Init ==
  /\ next = [n \in Nodes |-> NULL]
  /\ prev = [n \in Nodes |-> NULL]
  /\ owner = [h \in Handlers |-> NULL]
  /\ current = [l \in Lists |-> NULL]

-----------------------------------------------------------------------------
(* The two pointer operations, on a heap [next |-> ..., prev |-> ...].     *)

Heap == [next |-> next, prev |-> prev]

(* MSHandlerAttach: a zeroed sentinel is closed on itself first. *)
Closed(heap, before) ==
  IF heap.prev[before] = NULL
  THEN [next |-> [heap.next EXCEPT ![before] = before],
        prev |-> [heap.prev EXCEPT ![before] = before]]
  ELSE heap

\* Faulty form: the chain goes in front of the list.
AttachInFront(heap, before, first, last) ==
  LET c == Closed(heap, before)
      n == c.next[before]
  IN  [next |-> [c.next EXCEPT ![last] = n, ![before] = first],
       prev |-> [c.prev EXCEPT ![n] = last, ![first] = before]]

Attach(heap, before, first, last) ==
  LET c == Closed(heap, before)
      p == c.prev[before]
  IN  [next |-> [c.next EXCEPT ![p] = first, ![last] = before],
       prev |-> [c.prev EXCEPT ![first] = p, ![before] = last]]

(* MSHandlerDetach: nothing when there is no first or last cell, or when   *)
(* the chain is the whole circle (the sentinel of an empty list).          *)
\* Faulty form: the cell before the chain is not linked to the one behind it.
DetachNoRelink(heap, first, last) ==
  IF first = NULL \/ last = NULL \/ heap.next[last] = first
  THEN heap
  ELSE LET p == heap.prev[first]
           n == heap.next[last]
       IN  [next |-> [heap.next EXCEPT ![last] = NULL],
            prev |-> [heap.prev EXCEPT ![n] = p, ![first] = NULL]]

Detach(heap, first, last) ==
  IF first = NULL \/ last = NULL \/ heap.next[last] = first
  THEN heap
  ELSE LET p == heap.prev[first]
           n == heap.next[last]
       IN  [next |-> [heap.next EXCEPT ![p] = n, ![last] = NULL],
            prev |-> [heap.prev EXCEPT ![n] = p, ![first] = NULL]]

(* What a walk along next from n meets before it stops on NULL: the least  *)
(* set that holds n and is closed under next.                              *)
Chain(nx, n) ==
  {m \in Nodes :
     \A S \in SUBSET Nodes :
       (n \in S /\ \A k \in S : nx[k] \in S \cup {NULL}) => m \in S}

-----------------------------------------------------------------------------
(* MSHandlerListAdd, MSPromise _addHandler: malloc a cell, insert it       *)
(* before the sentinel.  An enumeration of the list may be running.        *)
Add(l, h) ==
  LET a == Attach(Heap, l, h, h) IN
  /\ owner[h] = NULL
  /\ next' = a.next
  /\ prev' = a.prev
  /\ owner' = [owner EXCEPT ![h] = l]
  /\ UNCHANGED current

(* MSPromise _fireHandlers: the handlers of l from f to the last go behind *)
(* those of m.                                                             *)
Move(l, f, m) ==
  LET last == prev[l]
      d == Detach(Heap, f, last)
      a == Attach(d, m, f, last)
  IN
  /\ l # m
  /\ owner[f] = l
  /\ current[l] = NULL
  /\ next' = a.next
  /\ prev' = a.prev
  /\ owner' = [h \in Handlers |-> IF h \in Chain(d.next, f) THEN m ELSE owner[h]]
  /\ UNCHANGED current

(* MSHandlerListFreeInside: detach the whole list and free its cells.  It  *)
(* is the owner's dealloc, so no enumeration runs.                         *)
\* Faulty forms: only the first cell is freed; an enumeration is running.
FreeInsideFirst(l) ==
  LET d == Detach(Heap, next[l], prev[l]) IN
  /\ current[l] = NULL
  /\ next[l] # NULL /\ next[l] # l
  /\ next' = d.next
  /\ prev' = d.prev
  /\ owner' = [owner EXCEPT ![next[l]] = NULL]
  /\ UNCHANGED current

FreeInsideDuringCall(l) ==
  LET d == Detach(Heap, next[l], prev[l]) IN
  /\ next[l] # NULL /\ next[l] # l
  /\ next' = d.next
  /\ prev' = d.prev
  /\ owner' = [h \in Handlers |-> IF h \in Chain(d.next, next[l]) THEN NULL ELSE owner[h]]
  /\ UNCHANGED current

FreeInside(l) ==
  LET d == Detach(Heap, next[l], prev[l]) IN
  /\ current[l] = NULL
  /\ next[l] # NULL /\ next[l] # l
  /\ next' = d.next
  /\ prev' = d.prev
  /\ owner' = [h \in Handlers |-> IF h \in Chain(d.next, next[l]) THEN NULL ELSE owner[h]]
  /\ UNCHANGED current

(* MSHandlerListCall: MSMakeHandlerEnumerator ... *)
StartCall(l) ==
  /\ current[l] = NULL
  /\ current' = [current EXCEPT ![l] = l]
  /\ UNCHANGED <<next, prev, owner>>

(* ... then MSHandlerEnumeratorNext, until it meets the sentinel (or the   *)
(* NULL of a list nothing was ever added to).                              *)
CallNext(l) ==
  /\ current[l] # NULL
  /\ current' = [current EXCEPT
       ![l] = IF next[current[l]] = l THEN NULL ELSE next[current[l]]]
  /\ UNCHANGED <<next, prev, owner>>

Next ==
  \/ \E l \in Lists, h \in Handlers : Add(l, h)
  \/ \E l, m \in Lists, f \in Handlers : Move(l, f, m)
  \/ \E l \in Lists : FreeInside(l)
  \/ \E l \in Lists : StartCall(l)
  \/ \E l \in Lists : CallNext(l)

Spec == Init /\ [][Next]_vars

-----------------------------------------------------------------------------
OwnerOf(n) == IF n \in Lists THEN n ELSE owner[n]

(* next and prev are inverse on the live cells, and no live cell points to *)
(* a freed one: every walk MSHandlerDetach or an enumerator makes stays in *)
(* allocated memory.  A sentinel has both pointers or none.                *)
Linked ==
  \A n \in Live :
    \/ n \in Lists /\ next[n] = NULL /\ prev[n] = NULL
    \/ /\ next[n] \in Live /\ prev[n] \in Live
       /\ prev[next[n]] = n
       /\ next[prev[n]] = n

(* Two lists never share a cell: what next reaches from a cell belongs to  *)
(* the list of that cell, so moving or freeing the chain of one promise    *)
(* cannot take handlers away from another.                                 *)
Separated ==
  \A n \in Live : next[n] # NULL => OwnerOf(next[n]) = OwnerOf(n)

(* The shape of the heap that every operation of the lists relies on. *)
WellFormed == TypeOK /\ Linked /\ Separated

(* An enumeration stands on an allocated cell of the list it started on.   *)
EnumeratorsLive ==
  \A l \in Lists : current[l] # NULL => current[l] \in Live /\ OwnerOf(current[l]) = l

(* Nothing leaks: a cell that is allocated is reached from the sentinel of *)
(* its list, so FreeInside gives every one of them back.                   *)
NoLeak ==
  \A h \in Allocated : h \in Chain(next, owner[h])
=============================================================================
