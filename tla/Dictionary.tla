----------------------------- MODULE Dictionary -----------------------------
(***************************************************************************)
(* CDictionary (MSCDictionary.c): a hash table of chained nodes, its       *)
(* enumerator and its copy.  A key is in one node at most, so a node is    *)
(* named by its key: a chain is a sequence of keys and value[k] is the     *)
(* object of the node of k.                                                *)
(*                                                                         *)
(* _grow moves the nodes one by one from the table it leaves (old) to the  *)
(* new one, and a copy is made key by key: each turn of these loops is a   *)
(* step.  A dictionary belongs to one thread, which does nothing else      *)
(* meanwhile.  The program may change the dictionary while it enumerates   *)
(* it; it gives the enumeration up when the node de.jnode is freed or the  *)
(* table, and with it the meaning of de.iBucket, changes.                  *)
(***************************************************************************)
EXTENDS Naturals, Sequences, FiniteSets, Capacity, Lists

CONSTANTS
  Key,        \* the keys: objects, pointers or natural numbers
  Value,      \* the objects
  Nil,        \* NULL, nil or CDICT_NOT_AN_OBJ
  ZeroKey,    \* the key that is the number 0, when keys are natural numbers
  Hash        \* CDICT_KEY_HASH

ASSUME DictionaryAssumption ==
  /\ Nil \notin Key \cup Value
  /\ Nil \notin Nat
  /\ Nil \notin Key \X Value
  /\ IsFiniteSet(Key)
  /\ Hash \in [Key -> Nat]

VARIABLES
  natural,    \* flags.keyType is CDictionaryNatural
  nBuckets,   \* the size of the table
  buckets,    \* buckets[i], i < nBuckets: a chain
  value,      \* value[k]: the object of the node of k, Nil without such a node
  count,
  old,        \* the table _grow empties; no chain at all when it does not run
  pending,    \* the key and object _setObjectForKey adds once the table has grown
  place,      \* the enumerator: [iBucket, jnode]; Nil when there is none
  walking,    \* history: an enumeration runs ("on"), has come to its end
              \* ("ended"), or was given up ("no")
  met,        \* history: the keys it has met
  due,        \* history: the keys that are there since it began
  copy        \* the dictionary a copy in progress fills, with its enumerator;
              \* Nil when none is made

table == <<natural, nBuckets, buckets, value, count, old, pending>>
walk == <<place, walking, met, due>>
dictVars == <<table, walk, copy>>

Empty(n) == [i \in 0 .. n - 1 |-> <<>>]
NoTable == Empty(0)

(* The keys in the chains of a table. *)
Linked(t) == UNION {ToSet(t[i]) : i \in DOMAIN t}

(* CDictionaryObjectForKey, and the search of _setObjectForKey: the chain  *)
(* of the hash of k.                                                       *)
Has(t, n, k) == n > 0 /\ k \in ToSet(t[Hash[k] % n])

Quiet == pending = Nil /\ old = NoTable /\ copy = Nil

DictInit ==
  /\ natural \in BOOLEAN
  /\ nBuckets = 0
  /\ buckets = NoTable
  /\ value = [k \in Key |-> Nil]
  /\ count = 0
  /\ old = NoTable
  /\ pending = Nil
  /\ place = Nil /\ walking = "no" /\ met = {} /\ due = {}
  /\ copy = Nil

-----------------------------------------------------------------------------
WalkOver(how) == place' = Nil /\ walking' = how /\ met' = {} /\ due' = {}

(* The table without its chains once all are empty: MSFree(ns). *)
Freed(t) == IF \A i \in DOMAIN t : t[i] = <<>> THEN NoTable ELSE t

(* _grow, up to its loop. *)
Reallocate(n) ==
  LET size == MSCapacityForCount(count + n) IN
  /\ nBuckets' = size
  /\ buckets' = Empty(size)
  /\ old' = Freed(buckets)
  /\ WalkOver("no")

(* CDictionaryGrow *)
Grow(n) ==
  /\ Quiet
  /\ n > 0 /\ count + n > nBuckets
  /\ Reallocate(n)
  /\ UNCHANGED <<natural, value, count, pending, copy>>

(* One turn of _grow's loops: the first node of the first chain that is    *)
(* left becomes the first of its chain in the new table.                   *)
\* Faulty form: the place is computed with the size of the table it leaves.
RehashOldSize ==
  \E i \in DOMAIN old :
    LET k == Head(old[i])
        newi == Hash[k] % Cardinality(DOMAIN old)
    IN
    /\ old[i] # <<>>
    /\ \A j \in DOMAIN old : j < i => old[j] = <<>>
    /\ buckets' = [buckets EXCEPT ![newi] = <<k>> \o @]
    /\ old' = Freed([old EXCEPT ![i] = Tail(@)])
    /\ UNCHANGED <<natural, nBuckets, value, count, pending, walk, copy>>

Rehash ==
  \E i \in DOMAIN old :
    LET k == Head(old[i])
        newi == Hash[k] % nBuckets
    IN
    /\ old[i] # <<>>
    /\ \A j \in DOMAIN old : j < i => old[j] = <<>>
    /\ buckets' = [buckets EXCEPT ![newi] = <<k>> \o @]
    /\ old' = Freed([old EXCEPT ![i] = Tail(@)])
    /\ UNCHANGED <<natural, nBuckets, value, count, pending, walk, copy>>

-----------------------------------------------------------------------------
(* _setObjectForKey.  The key is there: its object is replaced ...         *)
Replace(k, v) ==
  /\ Quiet
  /\ Has(buckets, nBuckets, k)
  /\ value' = [value EXCEPT ![k] = v]
  /\ UNCHANGED <<natural, nBuckets, buckets, count, old, pending, walk, copy>>

(* ... or, without an object, its node is unlinked and freed.  An          *)
(* enumeration that stands on the node is lost with it.                    *)
Unlink(k) ==
  /\ Quiet
  /\ Has(buckets, nBuckets, k)
  /\ buckets' = [buckets EXCEPT ![Hash[k] % nBuckets] = Without(@, k)]
  /\ value' = [value EXCEPT ![k] = Nil]
  /\ count' = count - 1
  /\ IF place # Nil /\ place.jnode = k
     THEN WalkOver("no")
     ELSE due' = due \ {k} /\ UNCHANGED <<place, walking, met>>
  /\ UNCHANGED <<natural, nBuckets, old, pending, copy>>

(* The new node becomes the first of its chain. *)
Push(k, v) ==
  /\ buckets' = [buckets EXCEPT ![Hash[k] % nBuckets] = <<k>> \o @]
  /\ value' = [value EXCEPT ![k] = v]
  /\ count' = count + 1

(* The key is not there: the table grows first when it is full.  This is   *)
(* all CDictionarySetObjectIfKeyAbsent does, with the object it is given,  *)
(* and CDictionarySetObjectFromHandlerIfKeyAbsent, with the handler's.     *)
Insert(k, v) ==
  /\ Quiet
  /\ ~Has(buckets, nBuckets, k)
  /\ IF count + 1 > nBuckets
     THEN /\ Reallocate(1)
          /\ pending' = <<k, v>>
          /\ UNCHANGED <<value, count>>
     ELSE /\ Push(k, v)
          /\ UNCHANGED <<nBuckets, old, pending, walk>>
  /\ UNCHANGED <<natural, copy>>

InsertGrown ==
  /\ pending # Nil /\ old = NoTable
  /\ Push(pending[1], pending[2])
  /\ pending' = Nil
  /\ UNCHANGED <<natural, nBuckets, old, walk, copy>>

(* CDictionaryFreeInside, also called by NSResetMapTable. *)
DictFreeInside ==
  /\ Quiet
  /\ nBuckets > 0
  /\ nBuckets' = 0
  /\ buckets' = NoTable
  /\ value' = [k \in Key |-> Nil]
  /\ count' = 0
  /\ WalkOver("no")
  /\ UNCHANGED <<natural, old, pending, copy>>

-----------------------------------------------------------------------------
(* _moveForward, in a table t of n chains: the next node of the chain, or  *)
(* the first of the next chain that is not empty; jnode is Nil at the end. *)
\* Faulty form: a chain is left after its first node.
MoveForwardFirstOnly(t, n, p) ==
  LET left == {i \in p.iBucket .. n - 1 : t[i] # <<>>} IN
  IF left = {}
  THEN [iBucket |-> n, jnode |-> Nil]
  ELSE LET i == CHOOSE i \in left : \A j \in left : i <= j
       IN  [iBucket |-> i + 1, jnode |-> Head(t[i])]

MoveForward(t, n, p) ==
  LET chain == t[p.iBucket - 1]
      at == CHOOSE x \in DOMAIN chain : chain[x] = p.jnode
      left == {i \in p.iBucket .. n - 1 : t[i] # <<>>}
  IN
  IF p.jnode # Nil /\ at < Len(chain)
  THEN [p EXCEPT !.jnode = chain[at + 1]]
  ELSE IF left = {}
  THEN [iBucket |-> n, jnode |-> Nil]
  ELSE LET i == CHOOSE i \in left : \A j \in left : i <= j
       IN  [iBucket |-> i + 1, jnode |-> Head(t[i])]

AtStart == [iBucket |-> 0, jnode |-> Nil]

(* CMakeDictionaryEnumerator.  Enumerations do not see each other: one at  *)
(* a time is enough.                                                       *)
MakeEnumerator ==
  /\ Quiet
  /\ place = Nil
  /\ place' = AtStart
  /\ walking' = "on"
  /\ met' = {}
  /\ due' = Linked(buckets)
  /\ UNCHANGED <<table, copy>>

(* CDictionaryEnumeratorNextKey and NextObject.  The program stops at the  *)
(* marker.                                                                 *)
NextKey ==
  LET p == MoveForward(buckets, nBuckets, place) IN
  /\ Quiet
  /\ place # Nil
  /\ IF p.jnode = Nil
     THEN WalkOver("ended")
     ELSE /\ place' = p
          /\ met' = met \cup {p.jnode}
          /\ UNCHANGED <<walking, due>>
  /\ UNCHANGED <<table, copy>>

-----------------------------------------------------------------------------
(* CDictionaryCopy: a dictionary with room for count elements, of the same *)
(* types.  It has an enumerator of its own, and the program's, when there  *)
(* is one, would stay where it is.                                         *)
StartCopy ==
  LET n == IF count = 0 THEN 0 ELSE MSCapacityForCount(count) IN
  /\ Quiet
  /\ place = Nil
  /\ copy' = [n |-> n, t |-> Empty(n), place |-> AtStart]
  /\ UNCHANGED <<table, walk>>

(* CDictionaryInitCopy's loop, while (k= NextKey).  It looks for 0     *)
(* instead of the marker, which is NSNotFound when keys are naturals: the  *)
(* key 0 ends the loop, the marker does not (_setObjectForKey ignores it). *)
\* Faulty form: the first key is skipped.
CopyNextSkip ==
  LET p == MoveForward(buckets, nBuckets, copy.place) IN
  /\ copy # Nil
  /\ count > 0
  /\ p.jnode # Nil
  /\ ~(natural /\ p.jnode = ZeroKey)
  /\ copy' = [copy EXCEPT !.place = p,
       !.t[Hash[p.jnode] % copy.n] = IF copy.place = AtStart THEN @ ELSE <<p.jnode>> \o @]
  /\ UNCHANGED <<table, walk>>

CopyNext ==
  LET p == MoveForward(buckets, nBuckets, copy.place) IN
  /\ copy # Nil
  /\ count > 0
  /\ p.jnode # Nil
  /\ ~(natural /\ p.jnode = ZeroKey)
  /\ copy' = [copy EXCEPT !.place = p,
                          !.t[Hash[p.jnode] % copy.n] = <<p.jnode>> \o @]
  /\ UNCHANGED <<table, walk>>

CopyEnded ==
  /\ copy # Nil
  /\ count > 0 =>
       LET k == MoveForward(buckets, nBuckets, copy.place).jnode
       IN  IF natural THEN k = ZeroKey ELSE k = Nil

EndCopy ==
  /\ CopyEnded
  /\ copy' = Nil
  /\ UNCHANGED <<table, walk>>

-----------------------------------------------------------------------------
InPlace(t) ==
  \A i \in DOMAIN t :
    /\ IsInjective(t[i])
    /\ \A k \in ToSet(t[i]) : Hash[k] % Cardinality(DOMAIN t) = i

(* Each node is in the chain of its key's hash, in no other and once; the  *)
(* tables _grow works on have no node in common; count is the number of    *)
(* nodes.  One node that a growth of the table puts into a wrong chain is  *)
(* a key that is neither found nor removed any more, and set a second time *)
(* the next time it is set.                                                *)
Placed ==
  /\ InPlace(buckets) /\ InPlace(old)
  /\ Linked(buckets) \cap Linked(old) = {}
  /\ count = Cardinality(Linked(buckets) \cup Linked(old))
  /\ \A k \in Key : value[k] # Nil <=> k \in Linked(buckets) \cup Linked(old)
  /\ pending # Nil => pending[1] \notin Linked(buckets) \cup Linked(old)

(* What CDictionaryObjectForKey answers.  No call of the program comes     *)
(* between the turns of _grow's loop, when the nodes are in two tables.    *)
Lookup(k) ==
  IF \/ Has(buckets, nBuckets, k)
     \/ Has(old, Cardinality(DOMAIN old), k)
  THEN value[k]
  ELSE Nil

(* The chains, the growth of the table and the enumerator implement a map  *)
(* and enumerations that meet each key once.                               *)
Contents == [k \in Key |-> Lookup(k)]
Map == INSTANCE KeyedMap WITH map <- Contents
ImplementsMap == Map!Spec

(* GDictionaryEquals, of the dictionary and its copy: as many keys, and    *)
(* the copy finds each key the enumeration meets, with the same object.    *)
EqualsCopy ==
  /\ Cardinality(Linked(copy.t)) = count
  /\ \A k \in Linked(buckets) : Has(copy.t, copy.n, k)

(* A copy that has ended equals the dictionary it was made of, whichever   *)
(* chains their nodes are in; unless the keys are natural numbers: then    *)
(* the copy ends before the key 0, and a dictionary without this key is    *)
(* copied for ever.                                                        *)
CopyEqual == copy # Nil /\ CopyEnded => EqualsCopy \/ natural
=============================================================================
