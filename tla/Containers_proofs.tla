------------------------- MODULE Containers_proofs -------------------------
(***************************************************************************)
(* For any keys, objects and hash function: the table of a CDictionary     *)
(* keeps each node in the chain of its key's hash, once, through every     *)
(* operation and every turn of the loop that grows it; a copy has what was *)
(* copied; a walk of an enumerator meets what a keyed map's does; and an   *)
(* object that an array, a dictionary and the program share has as many    *)
(* references as they hold.                                                *)
(***************************************************************************)
EXTENDS Containers, Lists_proofs, FiniteSetTheorems, TLAPS

(* A table of n chains, each node in its place. *)
IsTable(t, n) ==
  /\ n \in Nat
  /\ t \in [0 .. n - 1 -> Seq(Key)]
  /\ \A i \in 0 .. n - 1 :
       /\ IsInjective(t[i])
       /\ \A k \in ToSet(t[i]) : Hash[k] % n = i

-----------------------------------------------------------------------------
(* Facts about capacities, chains and tables. *)

LEMMA CapacityEnough ==
  ASSUME NEW c \in Nat
  PROVE  MSCapacityForCount(c) \in Nat /\ MSCapacityForCount(c) > c
<1>1. CASE c < 128
  BY <1>1 DEF MSCapacityForCount
<1>2. CASE ~(c < 128)
  <2> DEFINE d == c + c \div 2
             q == d \div 256
  <2>1. c \div 2 \in Nat
    BY SMT
  <2>2. d \in Nat /\ d >= c
    BY <2>1
  <2> HIDE DEF d
  <2>3. q \in Nat /\ d < q * 256 + 256
    BY <2>2
  <2>4. MSCapacityForCount(c) = q * 256 + 256
    BY <1>2 DEF MSCapacityForCount, d
  <2> HIDE DEF q
  <2> QED BY <2>2, <2>3, <2>4
<1> QED BY <1>1, <1>2

LEMMA TableSize ==
  ASSUME NEW t, NEW n \in Nat, t \in [0 .. n - 1 -> Seq(Key)]
  PROVE  Cardinality(DOMAIN t) = n
<1>1. DOMAIN t = 0 .. n - 1
  OBVIOUS
<1>2. 0 \in Int /\ n - 1 \in Int
  OBVIOUS
<1>3. Cardinality(0 .. n - 1) = IF 0 > n - 1 THEN 0 ELSE n - 1 - 0 + 1
  BY <1>2, FS_Interval
<1> QED BY <1>1, <1>3

LEMMA HashPlace ==
  ASSUME NEW n \in Nat, n > 0, NEW k \in Key
  PROVE  Hash[k] % n \in 0 .. n - 1
<1>1. Hash[k] \in Nat
  BY DictionaryAssumption
<1> QED BY <1>1

LEMMA TableInPlace ==
  ASSUME NEW t, NEW n, IsTable(t, n)
  PROVE  InPlace(t)
<1>1. Cardinality(DOMAIN t) = n
  BY TableSize DEF IsTable
<1> QED BY <1>1 DEF IsTable, InPlace

(* ToSet of a chain: the keys at its places. *)
LEMMA LinkedKeys ==
  ASSUME NEW t, NEW n, IsTable(t, n), NEW k
  PROVE  /\ k \in Linked(t) <=> \E i \in 0 .. n - 1 : k \in ToSet(t[i])
         /\ k \in Linked(t) => k \in Key
<1>1. DOMAIN t = 0 .. n - 1
  BY DEF IsTable
<1>2. k \in Linked(t) <=> \E i \in 0 .. n - 1 : k \in ToSet(t[i])
  BY <1>1 DEF Linked
<1>3. \A i \in 0 .. n - 1 : ToSet(t[i]) \subseteq Key
  <2> TAKE i \in 0 .. n - 1
  <2>1. t[i] \in Seq(Key)
    BY DEF IsTable
  <2>2. DOMAIN t[i] = 1 .. Len(t[i]) /\ \A x \in 1 .. Len(t[i]) : t[i][x] \in Key
    BY <2>1, LenProperties, ElementOfSeq
  <2> QED BY <2>2 DEF ToSet
<1> QED BY <1>2, <1>3

(* The search of a key looks into the one chain it can be in. *)
LEMMA HasLinked ==
  ASSUME NEW t, NEW n, IsTable(t, n), NEW k \in Key
  PROVE  Has(t, n, k) <=> k \in Linked(t)
<1>1. n \in Nat
  BY DEF IsTable
<1>2. ASSUME Has(t, n, k) PROVE k \in Linked(t)
  BY <1>1, <1>2, HashPlace, LinkedKeys DEF Has
<1>3. ASSUME k \in Linked(t) PROVE Has(t, n, k)
  <2>1. PICK i \in 0 .. n - 1 : k \in ToSet(t[i])
    BY <1>3, LinkedKeys
  <2>2. Hash[k] % n = i /\ n > 0
    BY <2>1, <1>1 DEF IsTable
  <2> QED BY <2>1, <2>2 DEF Has
<1> QED BY <1>2, <1>3

LEMMA PushedFront ==
  ASSUME NEW s \in Seq(Key), NEW k \in Key, IsInjective(s), k \notin ToSet(s)
  PROVE  /\ <<k>> \o s \in Seq(Key)
         /\ IsInjective(<<k>> \o s)
         /\ ToSet(<<k>> \o s) = ToSet(s) \cup {k}
<1> DEFINE r == <<k>> \o s
<1>1. /\ Len(s) \in Nat /\ DOMAIN s = 1 .. Len(s)
      /\ \A x \in 1 .. Len(s) : s[x] \in Key
  BY LenProperties, ElementOfSeq
<1>2. <<k>> \in Seq(Key) /\ Len(<<k>>) = 1 /\ <<k>>[1] = k
  OBVIOUS
<1>3. /\ r \in Seq(Key) /\ Len(r) = Len(s) + 1
      /\ DOMAIN r = 1 .. Len(s) + 1
      /\ r[1] = k
      /\ \A x \in 1 .. Len(s) : r[x + 1] = s[x]
  BY <1>1, <1>2, ConcatProperties
<1> HIDE DEF r
<1>4. \A x \in 1 .. Len(s) + 1 : x = 1 \/ (x - 1 \in 1 .. Len(s) /\ r[x] = s[x - 1])
  BY <1>1, <1>3
<1>5. IsInjective(r)
  <2> SUFFICES ASSUME NEW x \in DOMAIN r, NEW y \in DOMAIN r, r[x] = r[y] PROVE x = y
    BY DEF IsInjective
  <2>1. x \in 1 .. Len(s) + 1 /\ y \in 1 .. Len(s) + 1
    BY <1>3
  <2>2. \A z \in 1 .. Len(s) : s[z] # k
    BY <1>1 DEF ToSet
  <2>3. \A z, w \in 1 .. Len(s) : s[z] = s[w] => z = w
    BY <1>1 DEF IsInjective
  <2>4. CASE x = 1 /\ y = 1
    BY <2>4
  <2>5. CASE x # 1 /\ y # 1
    <3>1. /\ x - 1 \in 1 .. Len(s) /\ y - 1 \in 1 .. Len(s)
          /\ s[x - 1] = s[y - 1]
      BY <2>1, <2>5, <1>4
    <3>2. x - 1 = y - 1
      BY <3>1, <2>3
    <3> QED BY <3>2, <2>1
  <2>6. CASE x = 1 /\ y # 1
    BY <2>1, <2>2, <2>6, <1>3, <1>4
  <2>7. CASE x # 1 /\ y = 1
    BY <2>1, <2>2, <2>7, <1>3, <1>4
  <2> QED BY <2>4, <2>5, <2>6, <2>7
<1>6. ToSet(r) = ToSet(s) \cup {k}
  <2>1. ASSUME NEW e \in ToSet(r) PROVE e \in ToSet(s) \cup {k}
    <3>1. PICK x \in 1 .. Len(s) + 1 : e = r[x]
      BY <2>1, <1>3 DEF ToSet
    <3> QED BY <3>1, <1>1, <1>3, <1>4 DEF ToSet
  <2>2. ASSUME NEW e \in ToSet(s) PROVE e \in ToSet(r)
    <3>1. PICK x \in 1 .. Len(s) : e = s[x]
      BY <2>2, <1>1 DEF ToSet
    <3>2. x + 1 \in DOMAIN r /\ r[x + 1] = e
      BY <3>1, <1>1, <1>3
    <3> QED BY <3>2 DEF ToSet
  <2>3. k \in ToSet(r)
    <3>1. 1 \in DOMAIN r
      BY <1>1, <1>3
    <3> QED BY <3>1, <1>3 DEF ToSet
  <2> QED BY <2>1, <2>2, <2>3
<1> QED BY <1>3, <1>5, <1>6 DEF r

LEMMA HeadTail ==
  ASSUME NEW s \in Seq(Key), IsInjective(s), s # <<>>
  PROVE  /\ Head(s) \in ToSet(s)
         /\ Head(s) \in Key
         /\ Tail(s) \in Seq(Key)
         /\ IsInjective(Tail(s))
         /\ ToSet(Tail(s)) = ToSet(s) \ {Head(s)}
<1>1. /\ Len(s) \in Nat /\ Len(s) > 0 /\ DOMAIN s = 1 .. Len(s)
      /\ \A x \in 1 .. Len(s) : s[x] \in Key
      /\ Head(s) = s[1]
  BY LenProperties, ElementOfSeq, EmptySeq, HeadTailProperties
<1>2. /\ Tail(s) \in Seq(Key) /\ Len(Tail(s)) = Len(s) - 1
      /\ DOMAIN Tail(s) = 1 .. Len(s) - 1
      /\ \A x \in 1 .. Len(s) - 1 : Tail(s)[x] = s[x + 1]
  BY HeadTailProperties, LenProperties
<1>3. \A z, w \in 1 .. Len(s) : s[z] = s[w] => z = w
  BY <1>1 DEF IsInjective
<1>4. IsInjective(Tail(s))
  BY <1>1, <1>2, <1>3 DEF IsInjective
<1>5. ASSUME NEW e \in ToSet(Tail(s)) PROVE e \in ToSet(s) \ {Head(s)}
  <2>1. PICK x \in 1 .. Len(s) - 1 : e = s[x + 1]
    BY <1>2, <1>5 DEF ToSet
  <2>2. x + 1 \in 1 .. Len(s) /\ x + 1 # 1
    BY <2>1, <1>1
  <2>3. e \in ToSet(s)
    BY <2>1, <2>2, <1>1 DEF ToSet
  <2>4. e # s[1]
    BY <2>1, <2>2, <1>1, <1>3
  <2> QED BY <2>3, <2>4, <1>1
<1>6. ASSUME NEW e \in ToSet(s) \ {Head(s)} PROVE e \in ToSet(Tail(s))
  <2>1. PICK x \in 1 .. Len(s) : e = s[x]
    BY <1>1, <1>6 DEF ToSet
  <2>2. x - 1 \in 1 .. Len(s) - 1
    BY <2>1, <1>1, <1>6
  <2>3. Tail(s)[x - 1] = s[x - 1 + 1]
    BY <2>2, <1>2
  <2>4. x - 1 + 1 = x
    BY <2>1
  <2> QED BY <2>1, <2>2, <2>3, <2>4, <1>2 DEF ToSet
<1>7. Head(s) \in ToSet(s) /\ Head(s) \in Key
  BY <1>1 DEF ToSet
<1> QED BY <1>2, <1>4, <1>5, <1>6, <1>7

(* A table with another chain in one place. *)
LEMMA TableUpdate ==
  ASSUME NEW t, NEW n, IsTable(t, n), NEW i \in 0 .. n - 1,
         NEW c \in Seq(Key), IsInjective(c),
         \A k \in ToSet(c) : Hash[k] % n = i
  PROVE  /\ IsTable([t EXCEPT ![i] = c], n)
         /\ \A k : k \in Linked([t EXCEPT ![i] = c]) <=>
                     (k \in Linked(t) /\ k \notin ToSet(t[i])) \/ k \in ToSet(c)
<1> DEFINE u == [t EXCEPT ![i] = c]
<1>1. /\ n \in Nat /\ u \in [0 .. n - 1 -> Seq(Key)]
      /\ u[i] = c
      /\ \A j \in 0 .. n - 1 : j # i => u[j] = t[j]
  BY DEF IsTable
<1> HIDE DEF u
<1>2. IsTable(u, n)
  BY <1>1 DEF IsTable
<1>3. \A k : (k \in Linked(u)) <=> \E j \in 0 .. n - 1 : k \in ToSet(u[j])
  BY <1>2, LinkedKeys
<1>4. \A k : (k \in Linked(t)) <=> \E j \in 0 .. n - 1 : k \in ToSet(t[j])
  BY LinkedKeys
<1>5. \A k, j : j \in 0 .. n - 1 /\ k \in ToSet(t[j]) /\ k \in ToSet(t[i]) => j = i
  BY DEF IsTable
<1>6. ASSUME NEW k
      PROVE  k \in Linked(u) <=>
               (k \in Linked(t) /\ k \notin ToSet(t[i])) \/ k \in ToSet(c)
  BY <1>1, <1>3, <1>4, <1>5
<1> QED BY <1>2, <1>6 DEF u

LEMMA TablePush ==
  ASSUME NEW t, NEW n, IsTable(t, n), n > 0, NEW k \in Key, k \notin Linked(t)
  PROVE  LET u == [t EXCEPT ![Hash[k] % n] = <<k>> \o @] IN
         /\ IsTable(u, n)
         /\ Linked(u) = Linked(t) \cup {k}
<1> DEFINE i == Hash[k] % n
           c == <<k>> \o t[i]
           u == [t EXCEPT ![i] = c]
<1>1. i \in 0 .. n - 1
  BY HashPlace DEF IsTable
<1>2. t[i] \in Seq(Key) /\ IsInjective(t[i]) /\ k \notin ToSet(t[i])
  BY <1>1, LinkedKeys DEF IsTable
<1>3. c \in Seq(Key) /\ IsInjective(c) /\ ToSet(c) = ToSet(t[i]) \cup {k}
  BY <1>2, PushedFront
<1>4. \A x \in ToSet(c) : Hash[x] % n = i
  BY <1>1, <1>3 DEF IsTable
<1>5. ToSet(t[i]) \subseteq Linked(t)
  BY <1>1, LinkedKeys
<1>6. u = [t EXCEPT ![Hash[k] % n] = <<k>> \o @]
  BY DEF IsTable
<1> HIDE DEF i, c
<1>7. /\ IsTable(u, n)
      /\ \A x : x \in Linked(u) <=>
                  (x \in Linked(t) /\ x \notin ToSet(t[i])) \/ x \in ToSet(c)
  BY <1>1, <1>3, <1>4, TableUpdate
<1> HIDE DEF u
<1>8. Linked(u) = Linked(t) \cup {k}
  BY <1>3, <1>5, <1>7
<1> QED BY <1>6, <1>7, <1>8

LEMMA TableUnlink ==
  ASSUME NEW t, NEW n, IsTable(t, n), n > 0, NEW k \in Key
  PROVE  LET u == [t EXCEPT ![Hash[k] % n] = Without(@, k)] IN
         /\ IsTable(u, n)
         /\ Linked(u) = Linked(t) \ {k}
<1> DEFINE i == Hash[k] % n
           c == Without(t[i], k)
           u == [t EXCEPT ![i] = c]
<1>1. i \in 0 .. n - 1
  BY HashPlace DEF IsTable
<1>2. t[i] \in Seq(Key) /\ IsInjective(t[i])
  BY <1>1 DEF IsTable
<1>3. c \in Seq(Key) /\ IsInjective(c) /\ ToSet(c) = ToSet(t[i]) \ {k}
  BY <1>2, WithoutElements
<1>4. \A x \in ToSet(c) : Hash[x] % n = i
  BY <1>1, <1>3 DEF IsTable
<1>5. /\ ToSet(t[i]) \subseteq Linked(t)
      /\ k \in Linked(t) => k \in ToSet(t[i])
  BY <1>1, LinkedKeys DEF IsTable
<1>6. u = [t EXCEPT ![Hash[k] % n] = Without(@, k)]
  BY DEF IsTable
<1> HIDE DEF i, c
<1>7. /\ IsTable(u, n)
      /\ \A x : x \in Linked(u) <=>
                  (x \in Linked(t) /\ x \notin ToSet(t[i])) \/ x \in ToSet(c)
  BY <1>1, <1>3, <1>4, TableUpdate
<1> HIDE DEF u
<1>8. Linked(u) = Linked(t) \ {k}
  BY <1>3, <1>5, <1>7
<1> QED BY <1>6, <1>7, <1>8

LEMMA TableTake ==
  ASSUME NEW t, NEW n, IsTable(t, n), NEW i \in 0 .. n - 1, t[i] # <<>>
  PROVE  LET k == Head(t[i])
             u == [t EXCEPT ![i] = Tail(@)]
         IN  /\ k \in Key /\ k \in Linked(t)
             /\ IsTable(u, n)
             /\ Linked(u) = Linked(t) \ {k}
<1> DEFINE k == Head(t[i])
           c == Tail(t[i])
           u == [t EXCEPT ![i] = c]
<1>1. t[i] \in Seq(Key) /\ IsInjective(t[i])
  BY DEF IsTable
<1>2. /\ k \in ToSet(t[i]) /\ k \in Key /\ c \in Seq(Key)
      /\ IsInjective(c) /\ ToSet(c) = ToSet(t[i]) \ {k}
  BY <1>1, HeadTail
<1>3. \A x \in ToSet(c) : Hash[x] % n = i
  BY <1>2 DEF IsTable
<1>4. ToSet(t[i]) \subseteq Linked(t)
  BY LinkedKeys
<1>5. u = [t EXCEPT ![i] = Tail(@)]
  BY DEF IsTable
<1> HIDE DEF c, k
<1>6. /\ IsTable(u, n)
      /\ \A x : x \in Linked(u) <=>
                  (x \in Linked(t) /\ x \notin ToSet(t[i])) \/ x \in ToSet(c)
  BY <1>2, <1>3, TableUpdate
<1> HIDE DEF u
<1>7. Linked(u) = Linked(t) \ {k}
  BY <1>2, <1>4, <1>6
<1> QED BY <1>2, <1>4, <1>5, <1>6, <1>7 DEF k

LEMMA TableEmpty ==
  ASSUME NEW n \in Nat
  PROVE  IsTable(Empty(n), n) /\ Linked(Empty(n)) = {}
<1>1. IsInjective(<<>>) /\ ToSet(<<>>) = {}
  BY DEF IsInjective, ToSet
<1>2. Empty(n) \in [0 .. n - 1 -> Seq(Key)] /\ \A i \in 0 .. n - 1 : Empty(n)[i] = <<>>
  BY DEF Empty
<1>3. IsTable(Empty(n), n)
  BY <1>1, <1>2 DEF IsTable
<1> QED BY <1>1, <1>2, <1>3, LinkedKeys

(* Freeing the empty table loses no node. *)
LEMMA TableFreed ==
  ASSUME NEW t, NEW n, IsTable(t, n)
  PROVE  /\ \E m \in Nat : IsTable(Freed(t), m)
         /\ Linked(Freed(t)) = Linked(t)
<1>1. CASE \A i \in DOMAIN t : t[i] = <<>>
  <2>1. Freed(t) = NoTable
    BY <1>1 DEF Freed
  <2>2. IsTable(NoTable, 0) /\ Linked(NoTable) = {}
    BY TableEmpty DEF NoTable
  <2>3. Linked(t) = {}
    <3>1. ToSet(<<>>) = {}
      BY DEF ToSet
    <3> QED BY <1>1, <3>1, LinkedKeys DEF IsTable
  <2> QED BY <2>1, <2>2, <2>3
<1>2. CASE ~ \A i \in DOMAIN t : t[i] = <<>>
  BY <1>2 DEF Freed, IsTable
<1> QED BY <1>1, <1>2

-----------------------------------------------------------------------------
(* The keys of both tables: of all nodes. *)
Nodes == Linked(buckets) \cup Linked(old)

(* The inductive invariant of the table.  While _grow runs there are two   *)
(* tables: that they have no key in common, and that a key to be added is  *)
(* in neither, is what keeps a key from being linked twice.                *)
TableInv ==
  /\ IsTable(buckets, nBuckets)
  /\ \E m \in Nat : IsTable(old, m)
  /\ Linked(buckets) \cap Linked(old) = {}
  /\ value \in [Key -> Value \cup {Nil}]
  /\ \A k \in Key : value[k] # Nil <=> k \in Nodes
  /\ count = Cardinality(Nodes)
  /\ pending # Nil => pending \in Key \X Value /\ pending[1] \notin Nodes
  /\ pending # Nil \/ Linked(old) # {} => nBuckets > 0

LEMMA TableInvPlaced == ASSUME TableInv PROVE Placed
<1>1. InPlace(buckets) /\ InPlace(old)
  BY TableInPlace DEF TableInv
<1> QED BY <1>1 DEF TableInv, Placed, Nodes

LEMMA NodesFinite ==
  ASSUME TableInv
  PROVE  Nodes \subseteq Key /\ IsFiniteSet(Nodes) /\ count \in Nat
<1>1. Nodes \subseteq Key
  BY LinkedKeys DEF TableInv, Nodes
<1>2. IsFiniteSet(Nodes)
  BY <1>1, DictionaryAssumption, FS_Subset
<1> QED BY <1>1, <1>2, FS_CardinalityType DEF TableInv

(* Outside of a loop all nodes are in the one table. *)
LEMMA QuietNodes ==
  ASSUME TableInv, Quiet
  PROVE  Nodes = Linked(buckets) /\ Linked(old) = {} /\ pending = Nil
<1>1. IsTable(NoTable, 0) /\ Linked(NoTable) = {}
  BY TableEmpty DEF NoTable
<1> QED BY <1>1 DEF Quiet, Nodes

LEMMA InitTable == ASSUME DictInit PROVE TableInv
<1>1. IsTable(NoTable, 0) /\ Linked(NoTable) = {}
  BY TableEmpty DEF NoTable
<1>2. Cardinality({}) = 0
  BY FS_EmptySet
<1> QED BY <1>1, <1>2 DEF DictInit, TableInv, Nodes

(* The start of _grow keeps all nodes: they are in the old table. *)
LEMMA ReallocateTable ==
  ASSUME TableInv, Quiet, NEW n \in Nat, Reallocate(n)
  PROVE  /\ IsTable(buckets', nBuckets') /\ nBuckets' > 0
         /\ \E m \in Nat : IsTable(old', m)
         /\ Linked(buckets') = {} /\ Linked(old') = Nodes
<1>1. count + n \in Nat
  BY NodesFinite
<1>2. nBuckets' \in Nat /\ nBuckets' > 0
  BY <1>1, CapacityEnough DEF Reallocate
<1>3. IsTable(buckets', nBuckets') /\ Linked(buckets') = {}
  BY <1>2, TableEmpty DEF Reallocate
<1>4. IsTable(buckets, nBuckets)
  BY DEF TableInv
<1>5. (\E m \in Nat : IsTable(Freed(buckets), m)) /\ Linked(Freed(buckets)) = Linked(buckets)
  BY <1>4, TableFreed
<1> QED BY <1>2, <1>3, <1>5, QuietNodes DEF Reallocate

LEMMA GrowTable ==
  ASSUME TableInv, NEW n \in Nat, Grow(n)
  PROVE  TableInv'
<1>1. Quiet /\ Reallocate(n) /\ UNCHANGED <<value, count, pending>>
  BY DEF Grow
<1>2. Nodes' = Nodes /\ Linked(buckets') \cap Linked(old') = {}
  BY <1>1, ReallocateTable DEF Nodes
<1> QED BY <1>1, <1>2, ReallocateTable DEF TableInv

LEMMA RehashTable ==
  ASSUME TableInv, Rehash
  PROVE  TableInv'
<1>1. PICK m \in Nat : IsTable(old, m)
  BY DEF TableInv
<1>2. PICK i \in DOMAIN old :
        /\ old[i] # <<>>
        /\ buckets' = [buckets EXCEPT ![Hash[Head(old[i])] % nBuckets] = <<Head(old[i])>> \o @]
        /\ old' = Freed([old EXCEPT ![i] = Tail(@)])
        /\ UNCHANGED <<nBuckets, value, count, pending>>
  BY DEF Rehash
<1> DEFINE k == Head(old[i])
           rest == [old EXCEPT ![i] = Tail(@)]
<1>3. i \in 0 .. m - 1
  BY <1>1 DEF IsTable
<1>4. /\ k \in Key /\ k \in Linked(old)
      /\ IsTable(rest, m) /\ Linked(rest) = Linked(old) \ {k}
  BY <1>1, <1>2, <1>3, TableTake
<1>5. k \notin Linked(buckets) /\ nBuckets > 0 /\ IsTable(buckets, nBuckets)
  BY <1>4 DEF TableInv
<1>6. buckets' = [buckets EXCEPT ![Hash[k] % nBuckets] = <<k>> \o @] /\ old' = Freed(rest)
  BY <1>2
<1> HIDE DEF k, rest
<1>7. IsTable(buckets', nBuckets) /\ Linked(buckets') = Linked(buckets) \cup {k}
  BY <1>4, <1>5, <1>6, TablePush
<1>8. (\E l \in Nat : IsTable(old', l)) /\ Linked(old') = Linked(old) \ {k}
  BY <1>4, <1>6, TableFreed
<1>9. Nodes' = Nodes /\ Linked(buckets') \cap Linked(old') = {}
  BY <1>4, <1>7, <1>8 DEF Nodes, TableInv
<1> QED BY <1>2, <1>5, <1>7, <1>8, <1>9 DEF TableInv

LEMMA ReplaceTable ==
  ASSUME TableInv, NEW k \in Key, NEW v \in Value, Replace(k, v)
  PROVE  TableInv'
<1>1. /\ Quiet /\ Has(buckets, nBuckets, k)
      /\ value' = [value EXCEPT ![k] = v]
      /\ UNCHANGED <<nBuckets, buckets, count, old, pending>>
  BY DEF Replace
<1>2. k \in Nodes /\ Nodes' = Nodes
  BY <1>1, HasLinked DEF TableInv, Nodes
<1>3. v # Nil
  BY DictionaryAssumption
<1> QED BY <1>1, <1>2, <1>3 DEF TableInv

LEMMA UnlinkTable ==
  ASSUME TableInv, NEW k \in Key, Unlink(k)
  PROVE  TableInv'
<1>1. /\ Quiet /\ Has(buckets, nBuckets, k)
      /\ buckets' = [buckets EXCEPT ![Hash[k] % nBuckets] = Without(@, k)]
      /\ value' = [value EXCEPT ![k] = Nil]
      /\ count' = count - 1
      /\ UNCHANGED <<nBuckets, old, pending>>
  BY DEF Unlink
<1>2. IsTable(buckets, nBuckets) /\ nBuckets > 0 /\ k \in Linked(buckets)
  BY <1>1, HasLinked DEF TableInv, Has
<1>3. IsTable(buckets', nBuckets) /\ Linked(buckets') = Linked(buckets) \ {k}
  BY <1>1, <1>2, TableUnlink
<1>4. Nodes' = Nodes \ {k} /\ Linked(old') = {} /\ pending' = Nil
  BY <1>1, <1>3, QuietNodes DEF Nodes
<1>5. Cardinality(Nodes \ {k}) = count - 1
  <2>1. k \in Nodes
    BY <1>2 DEF Nodes
  <2> QED BY <2>1, NodesFinite, FS_RemoveElement DEF TableInv
<1>6. \A x \in Key : value'[x] # Nil <=> x \in Nodes'
  BY <1>1, <1>4 DEF TableInv
<1>7. value' \in [Key -> Value \cup {Nil}]
  BY <1>1 DEF TableInv
<1>8. UNCHANGED old /\ UNCHANGED nBuckets /\ \E m \in Nat : IsTable(old, m)
  BY <1>1 DEF TableInv
<1> QED BY <1>1, <1>3, <1>4, <1>5, <1>6, <1>7, <1>8 DEF TableInv

(* A new node, in the table that has room for it. *)
LEMMA PushTable ==
  ASSUME TableInv, Linked(old) = {}, nBuckets > 0,
         NEW k \in Key, NEW v \in Value, k \notin Nodes,
         Push(k, v), pending' = Nil, UNCHANGED <<nBuckets, old>>
  PROVE  TableInv'
<1>1. /\ buckets' = [buckets EXCEPT ![Hash[k] % nBuckets] = <<k>> \o @]
      /\ value' = [value EXCEPT ![k] = v]
      /\ count' = count + 1
  BY DEF Push
<1>2. IsTable(buckets, nBuckets) /\ k \notin Linked(buckets)
  BY DEF TableInv, Nodes
<1>3. IsTable(buckets', nBuckets) /\ Linked(buckets') = Linked(buckets) \cup {k}
  BY <1>1, <1>2, TablePush
<1>4. Nodes' = Nodes \cup {k} /\ Linked(old') = {}
  BY <1>3 DEF Nodes
<1>5. Cardinality(Nodes \cup {k}) = count + 1
  BY NodesFinite, FS_AddElement DEF TableInv
<1>6. v # Nil
  BY DictionaryAssumption
<1>7. \A x \in Key : value'[x] # Nil <=> x \in Nodes'
  BY <1>1, <1>4, <1>6 DEF TableInv
<1>8. value' \in [Key -> Value \cup {Nil}]
  BY <1>1 DEF TableInv
<1>9. \E m \in Nat : IsTable(old', m)
  BY DEF TableInv
<1> QED BY <1>1, <1>3, <1>4, <1>5, <1>7, <1>8, <1>9 DEF TableInv

LEMMA InsertTable ==
  ASSUME TableInv, NEW k \in Key, NEW v \in Value, Insert(k, v)
  PROVE  TableInv'
<1>1. Quiet /\ ~Has(buckets, nBuckets, k)
  BY DEF Insert
<1>2. k \notin Nodes /\ Linked(old) = {} /\ pending = Nil
  BY <1>1, QuietNodes, HasLinked DEF TableInv
<1>3. CASE count + 1 > nBuckets
  <2>1. Reallocate(1) /\ pending' = <<k, v>> /\ UNCHANGED <<value, count>>
    BY <1>3 DEF Insert
  <2>2. Nodes' = Nodes /\ Linked(buckets') \cap Linked(old') = {}
    BY <1>1, <2>1, ReallocateTable DEF Nodes
  <2>3. pending' \in Key \X Value /\ pending'[1] = k
    BY <2>1
  <2> QED BY <1>1, <1>2, <2>1, <2>2, <2>3, ReallocateTable DEF TableInv
<1>4. CASE ~(count + 1 > nBuckets)
  <2>1. Push(k, v) /\ UNCHANGED <<nBuckets, old, pending>>
    BY <1>4 DEF Insert
  <2>2. nBuckets > 0
    BY <1>4, NodesFinite DEF TableInv, IsTable
  <2> QED BY <1>2, <2>1, <2>2, PushTable
<1> QED BY <1>3, <1>4

LEMMA InsertGrownTable == ASSUME TableInv, InsertGrown PROVE TableInv'
<1>1. /\ pending # Nil /\ old = NoTable
      /\ Push(pending[1], pending[2])
      /\ pending' = Nil
      /\ UNCHANGED <<nBuckets, old>>
  BY DEF InsertGrown
<1>2. /\ pending \in Key \X Value /\ pending[1] \notin Nodes /\ nBuckets > 0
  BY <1>1 DEF TableInv
<1>3. pending[1] \in Key /\ pending[2] \in Value
  BY <1>2
<1>4. Linked(old) = {}
  BY <1>1, TableEmpty DEF NoTable
<1> QED BY <1>1, <1>2, <1>3, <1>4, PushTable

LEMMA FreeTable == ASSUME TableInv, DictFreeInside PROVE TableInv'
<1>1. /\ Quiet
      /\ nBuckets' = 0 /\ buckets' = NoTable
      /\ value' = [k \in Key |-> Nil] /\ count' = 0
      /\ UNCHANGED <<old, pending>>
  BY DEF DictFreeInside
<1>2. IsTable(NoTable, 0) /\ Linked(NoTable) = {} /\ old = NoTable /\ pending = Nil
  BY <1>1, TableEmpty DEF NoTable, Quiet
<1>3. Cardinality({}) = 0
  BY FS_EmptySet
<1> QED BY <1>1, <1>2, <1>3 DEF TableInv, Nodes

LEMMA SameTable == ASSUME TableInv, UNCHANGED table PROVE TableInv'
BY DEF TableInv, Nodes, table

LEMMA DictStepTable == ASSUME TableInv, DictStep PROVE TableInv'
<1>1. Alive \subseteq Value
  BY SharedAssumption DEF Alive
<1>2. ASSUME NEW k \in Key, NEW v \in Alive, Replace(k, v) PROVE TableInv'
  BY <1>1, <1>2, ReplaceTable
<1>3. ASSUME NEW k \in Key, NEW v \in Alive, Insert(k, v) PROVE TableInv'
  BY <1>1, <1>3, InsertTable
<1>4. ASSUME NEW k \in Key, Unlink(k) PROVE TableInv'
  BY <1>4, UnlinkTable
<1>5. ASSUME NEW n \in 1 .. MaxGrow, Grow(n) PROVE TableInv'
  BY <1>5, GrowTable, SharedAssumption
<1>6. CASE MakeEnumerator \/ NextKey \/ StartCopy \/ CopyNext \/ EndCopy
  <2>1. UNCHANGED table
    BY <1>6 DEF MakeEnumerator, NextKey, StartCopy, CopyNext, EndCopy
  <2> QED BY <2>1, SameTable
<1> QED BY <1>2, <1>3, <1>4, <1>5, <1>6, InsertGrownTable, FreeTable, RehashTable DEF DictStep

(* For any keys, objects and hash function, each node of a dictionary is   *)
(* in the chain of its key's hash and nowhere else, in every state and at  *)
(* every turn of the loop that grows the table.                            *)
THEOREM KeysPlaced == Spec => []Placed
<1>1. Init => TableInv
  BY InitTable DEF Init
<1>2. TableInv /\ [Next]_vars => TableInv'
  <2> SUFFICES ASSUME TableInv, [Next]_vars PROVE TableInv'
    OBVIOUS
  <2>1. CASE DictStep
    BY <2>1, DictStepTable
  <2>2. CASE UNCHANGED dictVars
    BY <2>2, SameTable DEF dictVars
  <2>3. DictStep \/ UNCHANGED dictVars
    BY DEF Next, vars, Take, Drop
  <2> QED BY <2>1, <2>2, <2>3
<1>3. TableInv => Placed
  BY TableInvPlaced
<1> QED BY <1>1, <1>2, <1>3, PTL DEF Spec

-----------------------------------------------------------------------------
(* How often an object occurs in a sequence that is put together. *)
Places(o, s) == {i \in 1 .. Len(s) : s[i] = o}

LEMMA TimesType ==
  ASSUME NEW S, NEW s \in Seq(S), NEW o
  PROVE  /\ Times(o, s) = Cardinality(Places(o, s))
         /\ IsFiniteSet(Places(o, s))
         /\ Times(o, s) \in Nat
         /\ Times(o, s) = 0 <=> \A i \in 1 .. Len(s) : s[i] # o
<1>1. Len(s) \in Nat /\ DOMAIN s = 1 .. Len(s)
  BY LenProperties
<1>2. Times(o, s) = Cardinality(Places(o, s))
  BY <1>1 DEF Times, Places
<1>3. IsFiniteSet(Places(o, s))
  <2>1. IsFiniteSet(1 .. Len(s)) /\ Places(o, s) \in SUBSET (1 .. Len(s))
    BY <1>1, FS_Interval DEF Places
  <2> QED BY <2>1, FS_Subset
<1>4. Cardinality(Places(o, s)) = 0 <=> Places(o, s) = {}
  BY <1>3, FS_EmptySet
<1> QED BY <1>2, <1>3, <1>4, FS_CardinalityType DEF Places

LEMMA ShiftedCount ==
  ASSUME NEW Q, IsFiniteSet(Q), Q \subseteq Nat, NEW m \in Nat
  PROVE  LET R == {j + m : j \in Q} IN IsFiniteSet(R) /\ Cardinality(R) = Cardinality(Q)
<1> DEFINE R == {j + m : j \in Q}
           f == [j \in Q |-> j + m]
<1>1. f \in [Q -> R] /\ \A j, k \in Q : f[j] = f[k] => j = k
  OBVIOUS
<1>2. \A r \in R : \E j \in Q : f[j] = r
  OBVIOUS
<1>3. f \in Bijection(Q, R)
  BY <1>1, <1>2 DEF Bijection, Injection, Surjection, IsInjective
<1>4. ExistsBijection(Q, R)
  BY <1>3 DEF ExistsBijection
<1> QED BY <1>4, FS_Bijection

LEMMA TimesConcat ==
  ASSUME NEW S, NEW s \in Seq(S), NEW t \in Seq(S), NEW o
  PROVE  Times(o, s \o t) = Times(o, s) + Times(o, t)
<1> DEFINE m == Len(s)
           n == Len(t)
           P == Places(o, s)
           Q == Places(o, t)
           R == {j + m : j \in Q}
<1>1. m \in Nat /\ n \in Nat
  BY LenProperties
<1>2. /\ s \o t \in Seq(S) /\ Len(s \o t) = m + n
      /\ \A i \in 1 .. m + n : (s \o t)[i] = IF i <= m THEN s[i] ELSE t[i - m]
  BY ConcatProperties
<1>3. Places(o, s \o t) = P \cup R
  <2>1. ASSUME NEW i \in Places(o, s \o t) PROVE i \in P \cup R
    <3>1. i \in 1 .. m + n /\ (s \o t)[i] = o
      BY <1>2 DEF Places
    <3>2. CASE i <= m
      BY <1>1, <1>2, <3>1, <3>2 DEF Places
    <3>3. CASE i > m
      <4>1. i - m \in 1 .. n /\ t[i - m] = o /\ i = (i - m) + m
        BY <1>1, <1>2, <3>1, <3>3
      <4>2. i - m \in Q
        BY <4>1 DEF Places
      <4> QED BY <4>1, <4>2
    <3> QED BY <1>1, <3>1, <3>2, <3>3
  <2>2. ASSUME NEW i \in P PROVE i \in Places(o, s \o t)
    <3>1. i \in 1 .. m /\ s[i] = o
      BY DEF Places
    <3>2. i \in 1 .. m + n /\ i <= m
      BY <1>1, <3>1
    <3> QED BY <1>2, <3>1, <3>2 DEF Places
  <2>3. ASSUME NEW j \in Q PROVE j + m \in Places(o, s \o t)
    <3>1. j \in 1 .. n /\ t[j] = o
      BY DEF Places
    <3>2. j + m \in 1 .. m + n /\ ~(j + m <= m) /\ (j + m) - m = j
      BY <1>1, <3>1
    <3>3. (s \o t)[j + m] = o
      BY <1>2, <3>1, <3>2
    <3> QED BY <1>2, <3>2, <3>3 DEF Places
  <2> QED BY <2>1, <2>2, <2>3
<1>4. IsFiniteSet(P) /\ Times(o, s) = Cardinality(P) /\ IsFiniteSet(Q) /\ Times(o, t) = Cardinality(Q)
      /\ Times(o, s \o t) = Cardinality(Places(o, s \o t))
  BY <1>2, TimesType
<1>5. IsFiniteSet(R) /\ Cardinality(R) = Cardinality(Q)
  <2>1. Q \subseteq Nat
    BY <1>1 DEF Places
  <2> QED BY <1>1, <1>4, <2>1, ShiftedCount
<1>6. P \cap R = {}
  BY <1>1 DEF Places
<1>7. Cardinality(P \cup R) = Cardinality(P) + Cardinality(R) - Cardinality(P \cap R)
  BY <1>4, <1>5, FS_Union
<1>8. Cardinality(P \cap R) = 0 /\ Cardinality(P) \in Nat /\ Cardinality(R) \in Nat
  BY <1>4, <1>5, <1>6, FS_EmptySet, FS_CardinalityType
<1> QED BY <1>3, <1>4, <1>5, <1>7, <1>8

One(e, o) == IF e = o THEN 1 ELSE 0

LEMMA OneType == ASSUME NEW e, NEW o PROVE One(e, o) \in Nat /\ (e # o => One(e, o) = 0) /\ (e = o => One(e, o) = 1)
  BY DEF One

LEMMA TimesOne ==
  ASSUME NEW o, NEW e
  PROVE  Times(o, <<e>>) = One(e, o)
<1>1. DOMAIN <<e>> = {1} /\ <<e>>[1] = e
  OBVIOUS
<1>2. {i \in DOMAIN <<e>> : <<e>>[i] = o} = IF e = o THEN {1} ELSE {}
  BY <1>1
<1> QED BY <1>2, FS_Singleton, FS_EmptySet DEF Times, One

LEMMA TimesNone == ASSUME NEW o PROVE Times(o, <<>>) = 0
<1>1. {i \in DOMAIN <<>> : <<>>[i] = o} = {}
  OBVIOUS
<1> QED BY <1>1, FS_EmptySet DEF Times

(* Three pieces of a sequence: the first i elements, m more, the others. *)
Before(s, i) == SubSeq(s, 1, i)
Inside(s, i, m) == SubSeq(s, i + 1, i + m)
Behind(s, i, m) == SubSeq(s, i + m + 1, Len(s))

LEMMA Cut ==
  ASSUME NEW S, NEW s \in Seq(S), NEW i \in Nat, NEW m \in Nat, i + m <= Len(s), NEW o
  PROVE  /\ Before(s, i) \in Seq(S) /\ Len(Before(s, i)) = i
         /\ Inside(s, i, m) \in Seq(S) /\ Len(Inside(s, i, m)) = m
         /\ Behind(s, i, m) \in Seq(S)
         /\ Len(Behind(s, i, m)) = Len(s) - (i + m)
         /\ Times(o, s) = Times(o, Before(s, i)) + Times(o, Inside(s, i, m))
                              + Times(o, Behind(s, i, m))
<1> DEFINE n == Len(s)
           A == SubSeq(s, 1, i)
           B == SubSeq(s, i + 1, i + m)
           C == SubSeq(s, i + m + 1, n)
<1>1. n \in Nat /\ \A x \in 1 .. n : s[x] \in S
  BY LenProperties, ElementOfSeq
<1>2. A \in Seq(S) /\ Len(A) = i
  <2>1. \A x \in 1 .. i : s[x] \in S
    BY <1>1
  <2>2. A \in Seq(S) /\ Len(A) = IF 1 <= i THEN i - 1 + 1 ELSE 0
    BY <2>1, SubSeqProperties
  <2> QED BY <2>2
<1>3. B \in Seq(S) /\ Len(B) = m
  <2>1. \A x \in i + 1 .. i + m : s[x] \in S
    BY <1>1
  <2>2. B \in Seq(S) /\ Len(B) = IF i + 1 <= i + m THEN (i + m) - (i + 1) + 1 ELSE 0
    BY <2>1, SubSeqProperties
  <2> QED BY <2>2
<1>4. C \in Seq(S) /\ Len(C) = n - (i + m)
  <2>1. \A x \in i + m + 1 .. n : s[x] \in S
    BY <1>1
  <2>2. C \in Seq(S) /\ Len(C) = IF i + m + 1 <= n THEN n - (i + m + 1) + 1 ELSE 0
    BY <1>1, <2>1, SubSeqProperties
  <2> QED BY <1>1, <2>2
<1>5. A \o B = SubSeq(s, 1, i + m)
  <2>1. 1 \in 1 .. Len(s) + 1 /\ i \in 1 - 1 .. Len(s) /\ i + m \in i .. Len(s)
    BY <1>1
  <2> QED BY <2>1, ConcatAdjacentSubSeq
<1>6. SubSeq(s, 1, i + m) \o C = s
  <2>1. 1 \in 1 .. Len(s) + 1 /\ i + m \in 1 - 1 .. Len(s) /\ Len(s) \in i + m .. Len(s)
    BY <1>1
  <2>2. SubSeq(s, 1, i + m) \o C = SubSeq(s, 1, Len(s))
    BY <2>1, ConcatAdjacentSubSeq
  <2> QED BY <2>2, SubSeqFull
<1>7. Times(o, s) = Times(o, A) + Times(o, B) + Times(o, C)
  <2>1. Times(o, A \o B) = Times(o, A) + Times(o, B)
    BY <1>2, <1>3, TimesConcat
  <2>2. A \o B \in Seq(S)
    BY <1>2, <1>3, ConcatProperties
  <2>3. Times(o, (A \o B) \o C) = Times(o, A \o B) + Times(o, C)
    BY <1>4, <2>2, TimesConcat
  <2> HIDE DEF A, B, C
  <2> QED BY <1>5, <1>6, <2>1, <2>3
<1> QED BY <1>2, <1>3, <1>4, <1>7 DEF Before, Inside, Behind

(* A sequence put between the first i elements and the others; without m  *)
(* elements behind the first i; with others in the places of as many.      *)
Put(s, i, t) == SubSeq(s, 1, i) \o t \o SubSeq(s, i + 1, Len(s))
Cutout(s, i, m) == Before(s, i) \o Behind(s, i, m)
Overwritten(s, i, t) == [x \in DOMAIN s |-> IF x \in i + 1 .. i + Len(t) THEN t[x - i] ELSE s[x]]

LEMMA Spliced ==
  ASSUME NEW S, NEW s \in Seq(S), NEW t \in Seq(S), NEW i \in 0 .. Len(s), NEW o
  PROVE  /\ Put(s, i, t) \in Seq(S) /\ Len(Put(s, i, t)) = Len(s) + Len(t)
         /\ Times(o, Put(s, i, t)) = Times(o, s) + Times(o, t)
<1> DEFINE A == Before(s, i)
           B == Inside(s, i, 0)
           C == Behind(s, i, 0)
           At == A \o t
           u == At \o C
<1>0. i \in Nat /\ 0 \in Nat /\ i + 0 <= Len(s) /\ Len(s) \in Nat /\ Len(t) \in Nat
  BY LenProperties
<1>1. /\ A \in Seq(S) /\ Len(A) = i /\ B \in Seq(S) /\ Len(B) = 0
      /\ C \in Seq(S) /\ Len(C) = Len(s) - i
      /\ Times(o, s) = Times(o, A) + Times(o, B) + Times(o, C)
  <2>1. PICK z \in Nat : z = 0
    OBVIOUS
  <2>2. i + z <= Len(s)
    BY <1>0, <2>1
  <2>3. /\ A \in Seq(S) /\ Len(A) = i /\ Inside(s, i, z) \in Seq(S) /\ Len(Inside(s, i, z)) = z
        /\ Behind(s, i, z) \in Seq(S) /\ Len(Behind(s, i, z)) = Len(s) - (i + z)
        /\ Times(o, s) = Times(o, A) + Times(o, Inside(s, i, z)) + Times(o, Behind(s, i, z))
    BY <1>0, <2>2, Cut
  <2> QED BY <1>0, <2>1, <2>3
<1>2. A = SubSeq(s, 1, i) /\ C = SubSeq(s, i + 1, Len(s))
  BY <1>0 DEF Before, Behind
<1> HIDE DEF A, B, C
<1>3. At \in Seq(S) /\ Len(At) = i + Len(t) /\ Times(o, At) = Times(o, A) + Times(o, t)
  BY <1>1, ConcatProperties, TimesConcat
<1>6. u = Put(s, i, t)
  BY <1>2 DEF Put
<1> HIDE DEF At
<1>4. u \in Seq(S) /\ Len(u) = Len(At) + Len(C) /\ Times(o, u) = Times(o, At) + Times(o, C)
  <2>1. Times(o, u) = Times(o, At) + Times(o, C)
    BY <1>1, <1>3, TimesConcat
  <2> QED BY <1>1, <1>3, <2>1, ConcatProperties
<1> HIDE DEF u
<1>5. Times(o, u) = Times(o, s) + Times(o, t)
  <2>1. Times(o, B) = 0
    <3>1. \A x \in 1 .. Len(B) : B[x] # o
      BY <1>1
    <3> QED BY <1>1, <3>1, TimesType
  <2>2. Times(o, t) \in Nat /\ Times(o, A) \in Nat /\ Times(o, C) \in Nat
    BY <1>1, TimesType
  <2> QED BY ONLY <1>1, <1>3, <1>4, <2>1, <2>2
<1>7. Len(u) = Len(s) + Len(t)
  BY ONLY <1>0, <1>1, <1>3, <1>4
<1> QED BY <1>4, <1>5, <1>6, <1>7

LEMMA Erased ==
  ASSUME NEW S, NEW s \in Seq(S), NEW i \in Nat, NEW m \in Nat, i + m <= Len(s), NEW o
  PROVE  /\ Cutout(s, i, m) \in Seq(S) /\ Len(Cutout(s, i, m)) = Len(s) - m
         /\ Inside(s, i, m) \in Seq(S)
         /\ Times(o, Cutout(s, i, m)) + Times(o, Inside(s, i, m)) = Times(o, s)
<1> DEFINE A == Before(s, i)
           B == Inside(s, i, m)
           C == Behind(s, i, m)
           u == A \o C
<1>0. Len(s) \in Nat
  BY LenProperties
<1>1. /\ A \in Seq(S) /\ Len(A) = i /\ B \in Seq(S) /\ Len(B) = m
      /\ C \in Seq(S) /\ Len(C) = Len(s) - (i + m)
      /\ Times(o, s) = Times(o, A) + Times(o, B) + Times(o, C)
  BY Cut
<1> HIDE DEF A, B, C
<1>2. u \in Seq(S) /\ Len(u) = Len(A) + Len(C) /\ Times(o, u) = Times(o, A) + Times(o, C)
  <2>1. Times(o, u) = Times(o, A) + Times(o, C)
    BY <1>1, TimesConcat
  <2>2. u \in Seq(S) /\ Len(u) = Len(A) + Len(C)
    BY ONLY <1>1, ConcatProperties
  <2> QED BY <2>1, <2>2
<1>3. Times(o, A) \in Nat /\ Times(o, B) \in Nat /\ Times(o, C) \in Nat
  BY <1>1, TimesType
<1> HIDE DEF u
<1>4. Len(u) = Len(s) - m /\ Times(o, u) + Times(o, B) = Times(o, s)
  BY ONLY <1>0, <1>1, <1>2, <1>3, i \in Nat, m \in Nat
<1> QED BY <1>1, <1>2, <1>4 DEF A, B, C, u, Cutout

(* Sequences that agree at the places a piece is made of. *)
LEMMA SamePiece ==
  ASSUME NEW S, NEW s, NEW u, NEW a \in Int, NEW b \in Int,
         \A x \in a .. b : s[x] = u[x] /\ s[x] \in S
  PROVE  SubSeq(s, a, b) = SubSeq(u, a, b)
<1>1. \A x \in a .. b : u[x] \in S
  OBVIOUS
<1>2. /\ SubSeq(s, a, b) \in Seq(S) /\ Len(SubSeq(s, a, b)) = IF a <= b THEN b - a + 1 ELSE 0
      /\ \A x \in 1 .. b - a + 1 : SubSeq(s, a, b)[x] = s[a + x - 1]
  BY SubSeqProperties
<1>3. /\ SubSeq(u, a, b) \in Seq(S) /\ Len(SubSeq(u, a, b)) = IF a <= b THEN b - a + 1 ELSE 0
      /\ \A x \in 1 .. b - a + 1 : SubSeq(u, a, b)[x] = u[a + x - 1]
  BY <1>1, SubSeqProperties
<1>4. \A x \in 1 .. b - a + 1 : a + x - 1 \in a .. b
  OBVIOUS
<1>5. \A x \in 1 .. b - a + 1 : SubSeq(s, a, b)[x] = SubSeq(u, a, b)[x]
  BY <1>2, <1>3, <1>4
<1>6. \A x \in 1 .. Len(SubSeq(s, a, b)) : x \in 1 .. b - a + 1
  BY <1>2
<1> QED BY <1>2, <1>3, <1>5, <1>6, SeqEqual

(* A sequence with those of t in the places of as many of its elements. *)
SameButInside(u, s, t, i, m) ==
  /\ Len(t) = m /\ Len(u) = Len(s) /\ i + m <= Len(s)
  /\ \A x \in i + 1 .. i + m : u[x] = t[x - i]
  /\ \A x \in 1 .. Len(s) : x \notin i + 1 .. i + m => u[x] = s[x]

LEMMA FilledTimes ==
  ASSUME NEW S, NEW s \in Seq(S), NEW t \in Seq(S), NEW u \in Seq(S), NEW i \in Nat, NEW m \in Nat, NEW o,
         SameButInside(u, s, t, i, m)
  PROVE  /\ Inside(s, i, m) \in Seq(S)
         /\ Times(o, u) + Times(o, Inside(s, i, m)) = Times(o, s) + Times(o, t)
<1>a. /\ Len(t) = m /\ Len(u) = Len(s) /\ i + m <= Len(s) /\ i + m <= Len(u)
      /\ \A x \in i + 1 .. i + m : u[x] = t[x - i]
      /\ \A x \in 1 .. Len(s) : x \notin i + 1 .. i + m => u[x] = s[x]
  BY DEF SameButInside
<1>0. PICK n \in Nat : n = Len(s) /\ n = Len(u)
  BY <1>a, LenProperties
<1>1. /\ \A x \in i + 1 .. i + m : x \in 1 .. n /\ x - i \in 1 .. m
      /\ \A x \in 1 .. i : x \in 1 .. n /\ x \notin i + 1 .. i + m
      /\ \A x \in i + m + 1 .. n : x \in 1 .. n /\ x \notin i + 1 .. i + m
  BY <1>0, <1>a
<1>2. /\ \A x \in 1 .. n : s[x] \in S
      /\ \A x \in 1 .. m : t[x] \in S
  BY <1>0, <1>a, ElementOfSeq
<1>3. Before(u, i) = Before(s, i)
  <2>1. \A x \in 1 .. i : s[x] = u[x] /\ s[x] \in S
    BY <1>0, <1>1, <1>2, <1>a
  <2> QED BY <2>1, SamePiece DEF Before
<1>4. Behind(u, i, m) = Behind(s, i, m)
  <2>1. \A x \in i + m + 1 .. n : s[x] = u[x] /\ s[x] \in S
    BY <1>0, <1>1, <1>2, <1>a
  <2>2. SubSeq(s, i + m + 1, n) = SubSeq(u, i + m + 1, n)
    BY ONLY <2>1, SamePiece, i + m + 1 \in Int, n \in Int
  <2> QED BY <1>0, <2>2 DEF Behind
<1>5. Inside(u, i, m) = t
  <2>1. \A x \in i + 1 .. i + m : u[x] \in S
    BY <1>1, <1>2, <1>a
  <2>2. \A x \in 1 .. (i + m) - (i + 1) + 1 : Inside(u, i, m)[x] = u[(i + 1) + x - 1]
    <3>1. PICK a \in Int, b \in Int : a = i + 1 /\ b = i + m
      OBVIOUS
    <3>2. \A x \in a .. b : u[x] \in S
      BY <2>1, <3>1
    <3>3. \A x \in 1 .. b - a + 1 : SubSeq(u, a, b)[x] = u[a + x - 1]
      BY ONLY <3>2, SubSeqProperties, a \in Int, b \in Int
    <3> QED BY ONLY <3>1, <3>3 DEF Inside
  <2>3. \A x \in 1 .. m : /\ x \in 1 .. (i + m) - (i + 1) + 1
                         /\ (i + 1) + x - 1 \in i + 1 .. i + m
                         /\ ((i + 1) + x - 1) - i = x
    OBVIOUS
  <2>4. \A x \in 1 .. m : Inside(u, i, m)[x] = t[x]
    BY <1>a, <2>2, <2>3
  <2>5. /\ Inside(u, i, m) \in Seq(S) /\ Len(Inside(u, i, m)) = m
        /\ Times(o, u) = Times(o, Before(u, i)) + Times(o, Inside(u, i, m)) + Times(o, Behind(u, i, m))
    BY <1>a, Cut
  <2> QED BY <1>a, <2>4, <2>5, SeqEqual
<1>6. /\ Inside(s, i, m) \in Seq(S) /\ Before(s, i) \in Seq(S) /\ Behind(s, i, m) \in Seq(S)
      /\ Times(o, s) = Times(o, Before(s, i)) + Times(o, Inside(s, i, m)) + Times(o, Behind(s, i, m))
  BY <1>a, Cut
<1>7. Times(o, u) = Times(o, Before(s, i)) + Times(o, t) + Times(o, Behind(s, i, m))
  <2>1. Times(o, u) = Times(o, Before(u, i)) + Times(o, Inside(u, i, m)) + Times(o, Behind(u, i, m))
    BY <1>a, Cut
  <2> QED BY ONLY <1>3, <1>4, <1>5, <2>1
<1>8. /\ Times(o, Before(s, i)) \in Nat /\ Times(o, Inside(s, i, m)) \in Nat
      /\ Times(o, Behind(s, i, m)) \in Nat /\ Times(o, t) \in Nat
  BY <1>6, TimesType
<1>9. Times(o, u) + Times(o, Inside(s, i, m)) = Times(o, s) + Times(o, t)
  BY ONLY <1>6, <1>7, <1>8
<1> QED BY <1>6, <1>9

LEMMA Filled ==
  ASSUME NEW S, NEW s \in Seq(S), NEW t \in Seq(S), NEW i \in Nat, i + Len(t) <= Len(s), NEW o
  PROVE  /\ Overwritten(s, i, t) \in Seq(S) /\ Len(Overwritten(s, i, t)) = Len(s)
         /\ Inside(s, i, Len(t)) \in Seq(S)
         /\ Times(o, Overwritten(s, i, t)) + Times(o, Inside(s, i, Len(t))) = Times(o, s) + Times(o, t)
<1> DEFINE u == Overwritten(s, i, t)
<1>0. PICK n \in Nat, m \in Nat : n = Len(s) /\ m = Len(t)
  BY LenProperties
<1>1. /\ DOMAIN s = 1 .. n
      /\ \A x \in 1 .. n : s[x] \in S
      /\ \A x \in 1 .. m : t[x] \in S
      /\ i + m <= n
  BY <1>0, LenProperties, ElementOfSeq
<1>2. \A x \in i + 1 .. i + m : x \in 1 .. n /\ x - i \in 1 .. m
  BY <1>1
<1>3. u = [x \in 1 .. n |-> IF x \in i + 1 .. i + m THEN t[x - i] ELSE s[x]]
  BY <1>0, <1>1 DEF Overwritten
<1> HIDE DEF u
<1>4. u \in [1 .. n -> S]
  BY <1>1, <1>2, <1>3
<1>5. u \in Seq(S) /\ Len(u) = n
  BY <1>4, SeqDef, LenProperties
<1>6. \A x \in i + 1 .. i + m : u[x] = t[x - i]
  BY <1>2, <1>3
<1>8. \A x \in 1 .. Len(s) : x \notin i + 1 .. i + m => u[x] = s[x]
  BY <1>0, <1>3
<1>9. Len(t) = m /\ Len(u) = Len(s) /\ i + m <= Len(s) /\ i + m <= Len(u)
  BY <1>0, <1>1, <1>5
<1> PICK v \in Seq(S) : v = u
  BY <1>5
<1>7. /\ Inside(s, i, m) \in Seq(S)
      /\ Times(o, v) + Times(o, Inside(s, i, m)) = Times(o, s) + Times(o, t)
  <2>1. SameButInside(v, s, t, i, m)
    BY <1>6, <1>8, <1>9 DEF SameButInside
  <2> QED BY <2>1, FilledTimes
<1> QED BY <1>0, <1>5, <1>7 DEF u

(* The keys a function gives o to; what changes when k gets another. *)
Holding(f, o) == {x \in Key : f[x] = o}
Holders(f, o) == Cardinality(Holding(f, o))
Given(f, k, w) == [f EXCEPT ![k] = w]

LEMMA HoldersType ==
  ASSUME NEW f, NEW o
  PROVE  /\ IsFiniteSet(Holding(f, o)) /\ Holders(f, o) \in Nat
         /\ Holders(f, o) = 0 <=> Holding(f, o) = {}
<1>1. Holding(f, o) \in SUBSET Key
  BY DEF Holding
<1>2. IsFiniteSet(Holding(f, o))
  BY <1>1, DictionaryAssumption, FS_Subset
<1> QED BY <1>2, FS_CardinalityType, FS_EmptySet DEF Holders

LEMMA HoldersMove ==
  ASSUME NEW f \in [Key -> Value \cup {Nil}], NEW k \in Key, NEW w, NEW o
  PROVE  /\ Holders(Given(f, k, w), o) + One(f[k], o) = Holders(f, o) + One(w, o)
         /\ One(f[k], o) <= Holders(f, o)
<1> DEFINE F == Holding(f, o)
           G == Holding(Given(f, k, w), o)
<1>1. /\ Holders(f, o) = Cardinality(F) /\ Holders(Given(f, k, w), o) = Cardinality(G)
      /\ IsFiniteSet(F) /\ Cardinality(F) \in Nat /\ (Cardinality(F) = 0 <=> F = {})
      /\ IsFiniteSet(G) /\ Cardinality(G) \in Nat
  BY HoldersType DEF Holders
<1>2. f[k] = o <=> k \in F
  BY DEF Holding
<1>3. /\ f[k] = o /\ w = o => G = F
      /\ f[k] = o /\ w # o => G = F \ {k}
      /\ f[k] # o /\ w = o => G = F \cup {k}
      /\ f[k] # o /\ w # o => G = F
  BY DEF Holding, Given
<1> HIDE DEF F, G
<1>4. Cardinality(G) + One(f[k], o) = Cardinality(F) + One(w, o) /\ One(f[k], o) <= Cardinality(F)
  <2>1. CASE f[k] = o /\ w = o
    <3>1. One(f[k], o) = 1 /\ One(w, o) = 1 /\ F # {} /\ G = F
      BY <1>2, <1>3, <2>1, OneType
    <3> QED BY <1>1, <3>1
  <2>2. CASE f[k] = o /\ w # o
    <3>1. One(f[k], o) = 1 /\ One(w, o) = 0 /\ F # {} /\ G = F \ {k} /\ k \in F
      BY <1>2, <1>3, <2>2, OneType
    <3>2. Cardinality(G) = Cardinality(F) - 1
      BY <1>1, <3>1, FS_RemoveElement
    <3> QED BY <1>1, <3>1, <3>2
  <2>3. CASE f[k] # o /\ w = o
    <3>1. One(f[k], o) = 0 /\ One(w, o) = 1 /\ G = F \cup {k} /\ k \notin F
      BY <1>2, <1>3, <2>3, OneType
    <3>2. Cardinality(G) = Cardinality(F) + 1
      BY <1>1, <3>1, FS_AddElement
    <3> QED BY <1>1, <3>1, <3>2
  <2>4. CASE f[k] # o /\ w # o
    <3>1. One(f[k], o) = 0 /\ One(w, o) = 0 /\ G = F
      BY <1>3, <2>4, OneType
    <3> QED BY <1>1, <3>1
  <2> QED BY <2>1, <2>2, <2>3, <2>4
<1> QED BY <1>1, <1>4

-----------------------------------------------------------------------------
(* What is retained and released. *)
LEMMA RetainedEach ==
  ASSUME NEW r \in [Object -> Nat], NEW os \in Seq(Object)
  PROVE  /\ Retained(r, os) \in [Object -> Nat]
         /\ \A o \in Object : Retained(r, os)[o] = r[o] + Times(o, os)
<1>1. \A o \in Object : Times(o, os) \in Nat
  BY TimesType
<1> QED BY <1>1 DEF Retained

LEMMA ReleasedEach ==
  ASSUME NEW r \in [Object -> Nat], NEW os \in Seq(Object),
         \A o \in Object : Times(o, os) <= r[o]
  PROVE  /\ Released(r, os) \in [Object -> Nat]
         /\ \A o \in Object : Released(r, os)[o] = r[o] - Times(o, os)
<1>1. \A o \in Object : Times(o, os) \in Nat
  BY TimesType
<1> QED BY <1>1 DEF Released

LEMMA OneObject == ASSUME NEW e \in Object PROVE <<e>> \in Seq(Object)
  OBVIOUS

-----------------------------------------------------------------------------
RefsRight ==
  \A o \in Object : refs[o] = (IF o \in mine THEN 1 ELSE 0) + Times(o, items) + Holders(value, o)

SharedTyped ==
  /\ mine \subseteq Object /\ refs \in [Object -> Nat]
  /\ items \in Seq(Object) /\ size \in Nat /\ Len(items) <= size
  /\ removing = NoLoop \/ removing \in [object : Object, i : 1 .. Len(items)]

(* An object that CArrayRemoveObject looks for is held elsewhere, unless   *)
(* it was the array's alone when the call began: nothing else is called.   *)
LoopHolds == removing # NoLoop => onlyHere \/ ~OnlyInArray(removing.object)

SharedInv ==
  /\ TableInv /\ SharedTyped /\ LoopHolds
  /\ ~undefined => RefsRight
  /\ undefined => onlyHere \/ onItself

LEMMA RefsCover ==
  ASSUME refs \in [Object -> Nat], items \in Seq(Object), RefsRight, NEW o \in Object
  PROVE  /\ refs[o] \in Nat /\ Holders(value, o) \in Nat /\ Times(o, items) \in Nat
         /\ Holders(value, o) <= refs[o] /\ Times(o, items) <= refs[o]
         /\ o \in mine => Times(o, items) < refs[o]
         /\ Holders(value, o) + Times(o, items) <= refs[o]
<1>1. Holders(value, o) \in Nat /\ Times(o, items) \in Nat /\ refs[o] \in Nat
  BY HoldersType, TimesType
<1>2. refs[o] = (IF o \in mine THEN 1 ELSE 0) + Times(o, items) + Holders(value, o)
  BY DEF RefsRight
<1> QED BY ONLY <1>1, <1>2

(* What an operation of the dictionary does to the references of o. *)
DictBalance == \A o \in Object : refs'[o] + Holders(value, o) = refs[o] + Holders(value', o)

LEMMA SetBalance ==
  ASSUME value \in [Key -> Value \cup {Nil}], refs \in [Object -> Nat], NEW k \in Key, NEW v \in Object, value[k] = Nil,
         value' = [value EXCEPT ![k] = v], refs' = Retained(refs, <<v>>)
  PROVE  refs' \in [Object -> Nat] /\ DictBalance
<1>1. /\ refs' \in [Object -> Nat]
      /\ \A o \in Object : refs'[o] = refs[o] + Times(o, <<v>>)
  BY OneObject, RetainedEach
<1>2. ASSUME NEW o \in Object PROVE refs'[o] + Holders(value, o) = refs[o] + Holders(value', o)
  <2>1. value[k] # o
    BY DictionaryAssumption, SharedAssumption
  <2>2. Holders(value', o) = Holders(value, o) + One(v, o)
    <3>1. Holders(value', o) + One(value[k], o) = Holders(value, o) + One(v, o)
      <4>1. Holders(Given(value, k, v), o) + One(value[k], o) = Holders(value, o) + One(v, o)
        BY HoldersMove
      <4> QED BY <4>1 DEF Given
    <3>2. Holders(value, o) \in Nat /\ Holders(value', o) \in Nat /\ One(v, o) \in Nat /\ One(value[k], o) = 0
      BY <2>1, HoldersType, OneType
    <3> QED BY <3>1, <3>2
  <2>3. Times(o, <<v>>) = One(v, o)
    BY TimesOne
  <2>4. Holders(value, o) \in Nat /\ refs[o] \in Nat /\ One(v, o) \in Nat
    BY HoldersType, OneType
  <2> QED BY <1>1, <2>2, <2>3, <2>4
<1> QED BY <1>1, <1>2 DEF DictBalance

LEMMA UnsetBalance ==
  ASSUME value \in [Key -> Value \cup {Nil}], refs \in [Object -> Nat], RefsRight, mine \subseteq Object, items \in Seq(Object),
         NEW k \in Key, value[k] # Nil,
         value' = [value EXCEPT ![k] = Nil], refs' = Released(refs, <<value[k]>>)
  PROVE  refs' \in [Object -> Nat] /\ DictBalance
<1>0. value[k] \in Object
  BY SharedAssumption
<1>1. \A o \in Object : Times(o, <<value[k]>>) = One(value[k], o)
  BY TimesOne
<1>2. \A o \in Object : Times(o, <<value[k]>>) <= refs[o]
  <2> TAKE o \in Object
  <2>1. Holders(value, o) \in Nat /\ refs[o] \in Nat
    BY RefsCover
  <2>2. refs[o] >= Holders(value, o)
    BY <2>1, RefsCover
  <2>3. One(value[k], o) <= Holders(value, o) /\ One(value[k], o) \in Nat
    <3>1. One(value[k], o) <= Holders(value, o)
      BY HoldersMove
    <3> QED BY <3>1, OneType
  <2> QED BY <1>1, <2>1, <2>2, <2>3
<1>3. /\ refs' \in [Object -> Nat]
      /\ \A o \in Object : refs'[o] = refs[o] - Times(o, <<value[k]>>)
  BY <1>0, <1>2, OneObject, ReleasedEach
<1>4. ASSUME NEW o \in Object PROVE refs'[o] + Holders(value, o) = refs[o] + Holders(value', o)
  <2>1. Nil # o
    BY DictionaryAssumption, SharedAssumption
  <2>2. Holders(value', o) + One(value[k], o) = Holders(value, o) + One(Nil, o) /\ One(Nil, o) = 0
    <3>1. Holders(Given(value, k, Nil), o) + One(value[k], o) = Holders(value, o) + One(Nil, o)
      BY HoldersMove
    <3>2. value' = Given(value, k, Nil)
      BY DEF Given
    <3> QED BY <2>1, <3>1, <3>2, OneType
  <2>3. Holders(value, o) \in Nat /\ Holders(value', o) \in Nat /\ refs[o] \in Nat /\ One(value[k], o) \in Nat
    BY HoldersType, OneType
  <2> QED BY <1>1, <1>3, <2>2, <2>3
<1> QED BY <1>3, <1>4 DEF DictBalance

LEMMA ReplaceBalance ==
  ASSUME value \in [Key -> Value \cup {Nil}], refs \in [Object -> Nat], RefsRight, mine \subseteq Object, items \in Seq(Object),
         NEW k \in Key, value[k] # Nil, NEW v \in Object,
         value' = [value EXCEPT ![k] = v],
         refs' = Released(Retained(refs, <<v>>), <<value[k]>>)
  PROVE  refs' \in [Object -> Nat] /\ DictBalance
<1>0. value[k] \in Object
  BY SharedAssumption
<1>1. \A o \in Object : /\ Times(o, <<value[k]>>) = One(value[k], o)
                       /\ Times(o, <<v>>) = One(v, o)
  BY TimesOne
<1>2. PICK r \in [Object -> Nat] :
        /\ r = Retained(refs, <<v>>)
        /\ \A o \in Object : r[o] = refs[o] + Times(o, <<v>>)
  BY OneObject, RetainedEach
<1>3. \A o \in Object : Times(o, <<value[k]>>) <= r[o]
  <2> TAKE o \in Object
  <2>1. Holders(value, o) \in Nat /\ refs[o] \in Nat
    BY RefsCover
  <2>2. refs[o] >= Holders(value, o)
    BY <2>1, RefsCover
  <2>3. One(value[k], o) <= Holders(value, o) /\ One(value[k], o) \in Nat /\ One(v, o) \in Nat
    <3>1. One(value[k], o) <= Holders(value, o)
      BY HoldersMove
    <3> QED BY <3>1, OneType
  <2>4. Times(o, <<value[k]>>) = One(value[k], o) /\ r[o] = refs[o] + One(v, o)
    BY <1>1, <1>2
  <2> QED BY ONLY <2>1, <2>2, <2>3, <2>4
<1>4. /\ refs' \in [Object -> Nat]
      /\ \A o \in Object : refs'[o] = r[o] - Times(o, <<value[k]>>)
  <2>1. refs' = Released(r, <<value[k]>>)
    BY <1>2
  <2>2. /\ Released(r, <<value[k]>>) \in [Object -> Nat]
        /\ \A o \in Object : Released(r, <<value[k]>>)[o] = r[o] - Times(o, <<value[k]>>)
    BY <1>0, <1>3, OneObject, ReleasedEach
  <2> QED BY <2>1, <2>2
<1>5. ASSUME NEW o \in Object PROVE refs'[o] + Holders(value, o) = refs[o] + Holders(value', o)
  <2>1. Holders(value', o) + One(value[k], o) = Holders(value, o) + One(v, o)
    <3>1. Holders(Given(value, k, v), o) + One(value[k], o) = Holders(value, o) + One(v, o)
      BY HoldersMove
    <3> QED BY <3>1 DEF Given
  <2>2. Holders(value, o) \in Nat /\ Holders(value', o) \in Nat /\ refs[o] \in Nat
        /\ One(value[k], o) \in Nat /\ One(v, o) \in Nat
    BY HoldersType, OneType
  <2>3. r[o] = refs[o] + One(v, o) /\ refs'[o] = r[o] - One(value[k], o)
    BY <1>1, <1>2, <1>4
  <2> QED BY ONLY <2>1, <2>2, <2>3
<1> QED BY <1>4, <1>5 DEF DictBalance

LEMMA FreeBalance ==
  ASSUME value \in [Key -> Value \cup {Nil}], refs \in [Object -> Nat], RefsRight, mine \subseteq Object, items \in Seq(Object),
         value' = [k \in Key |-> Nil],
         refs' = [o \in Object |-> refs[o] - Cardinality(KeysOf(o))]
  PROVE  refs' \in [Object -> Nat] /\ DictBalance
<1>1. ASSUME NEW o \in Object PROVE refs[o] - Holders(value, o) \in Nat /\ Holders(value, o) \in Nat /\ refs[o] \in Nat
  <2>1. Holders(value, o) \in Nat /\ refs[o] \in Nat
    BY RefsCover
  <2>2. refs[o] >= Holders(value, o)
    BY <2>1, RefsCover
  <2> QED BY <2>1, <2>2
<1>2. refs' = [o \in Object |-> refs[o] - Holders(value, o)]
  BY DEF Holders, Holding, KeysOf
<1>3. ASSUME NEW o \in Object PROVE Holders(value', o) = 0
  <2>1. Holding(value', o) = {}
    BY DictionaryAssumption, SharedAssumption DEF Holding
  <2> QED BY <2>1, HoldersType
<1>4. refs' \in [Object -> Nat]
  BY <1>1, <1>2
<1>5. ASSUME NEW o \in Object PROVE refs'[o] + Holders(value, o) = refs[o] + Holders(value', o)
  <2>1. refs'[o] = refs[o] - Holders(value, o)
    BY <1>2
  <2>2. Holders(value, o) \in Nat /\ refs[o] \in Nat /\ Holders(value', o) = 0
    BY <1>1, <1>3
  <2> QED BY ONLY <2>1, <2>2
<1> QED BY <1>4, <1>5 DEF DictBalance

LEMMA SameBalance ==
  ASSUME value \in [Key -> Value \cup {Nil}], refs \in [Object -> Nat], UNCHANGED <<value, refs>>
  PROVE  refs' \in [Object -> Nat] /\ DictBalance
  BY DEF DictBalance

LEMMA DictStepBalance ==
  ASSUME TableInv, SharedTyped, RefsRight, DictStep
  PROVE  refs' \in [Object -> Nat] /\ DictBalance
<1>0. refs \in [Object -> Nat] /\ mine \subseteq Object /\ items \in Seq(Object)
  BY DEF SharedTyped
<1>v. value \in [Key -> Value \cup {Nil}]
  BY DEF TableInv
<1>1. Alive \subseteq Object
  BY DEF Alive
<1>2. ASSUME NEW k \in Key, NEW v \in Alive, Replace(k, v),
             refs' = Released(Retained(refs, <<v>>), <<value[k]>>)
      PROVE  refs' \in [Object -> Nat] /\ DictBalance
  <2>1. value' = [value EXCEPT ![k] = v] /\ Has(buckets, nBuckets, k)
    BY <1>2 DEF Replace
  <2>2. value[k] # Nil
    BY <2>1, HasLinked DEF TableInv, Nodes
  <2> QED BY <1>0, <1>v, <1>1, <1>2, <2>1, <2>2, ReplaceBalance
<1>3. ASSUME NEW k \in Key, NEW v \in Alive, Insert(k, v),
             refs' = IF pending' = Nil THEN Retained(refs, <<v>>) ELSE refs
      PROVE  refs' \in [Object -> Nat] /\ DictBalance
  <2>1. Quiet /\ ~Has(buckets, nBuckets, k)
    BY <1>3 DEF Insert
  <2>2. value[k] = Nil
    BY <2>1, QuietNodes, HasLinked DEF TableInv
  <2>3. CASE count + 1 > nBuckets
    <3>1. pending' = <<k, v>> /\ UNCHANGED value
      BY <1>3, <2>3 DEF Insert
    <3>2. <<k, v>> \in Key \X Value
      BY <1>1, SharedAssumption
    <3>3. pending' # Nil
      BY <3>1, <3>2, DictionaryAssumption
    <3> QED BY <1>0, <1>v, <1>3, <3>1, <3>3, SameBalance
  <2>4. CASE ~(count + 1 > nBuckets)
    <3>1. pending' = Nil /\ value' = [value EXCEPT ![k] = v]
      BY <1>3, <2>1, <2>4, QuietNodes DEF Insert, Push
    <3> QED BY <1>0, <1>v, <1>1, <1>3, <2>2, <3>1, SetBalance
  <2> QED BY <2>3, <2>4
<1>4. ASSUME InsertGrown, refs' = Retained(refs, <<pending[2]>>)
      PROVE  refs' \in [Object -> Nat] /\ DictBalance
  <2>1. pending # Nil /\ value' = [value EXCEPT ![pending[1]] = pending[2]]
    BY <1>4 DEF InsertGrown, Push
  <2>2. pending \in Key \X Value /\ pending[1] \notin Nodes
    BY <2>1 DEF TableInv
  <2>3. pending[1] \in Key /\ pending[2] \in Object
    BY <2>2, SharedAssumption
  <2>4. value[pending[1]] = Nil
    BY <2>2, <2>3 DEF TableInv
  <2> QED BY <1>0, <1>v, <1>4, <2>1, <2>3, <2>4, SetBalance
<1>5. ASSUME NEW k \in Key, Unlink(k), refs' = Released(refs, <<value[k]>>)
      PROVE  refs' \in [Object -> Nat] /\ DictBalance
  <2>1. value' = [value EXCEPT ![k] = Nil] /\ Has(buckets, nBuckets, k)
    BY <1>5 DEF Unlink
  <2>2. value[k] # Nil
    BY <2>1, HasLinked DEF TableInv, Nodes
  <2> QED BY <1>0, <1>v, <1>5, <2>1, <2>2, UnsetBalance
<1>6. ASSUME DictFreeInside, refs' = [o \in Object |-> refs[o] - Cardinality(KeysOf(o))]
      PROVE  refs' \in [Object -> Nat] /\ DictBalance
  <2>1. value' = [k \in Key |-> Nil]
    BY <1>6 DEF DictFreeInside
  <2> QED BY <1>0, <1>v, <1>6, <2>1, FreeBalance
<1>7. ASSUME \/ \E n \in 1 .. MaxGrow : Grow(n)
             \/ Rehash \/ MakeEnumerator \/ NextKey \/ StartCopy \/ CopyNext \/ EndCopy,
             UNCHANGED refs
      PROVE  refs' \in [Object -> Nat] /\ DictBalance
  <2>1. UNCHANGED value
    BY <1>7 DEF Grow, Rehash, MakeEnumerator, NextKey, StartCopy, CopyNext, EndCopy, table
  <2> QED BY <1>0, <1>v, <1>7, <2>1, SameBalance
<1> QED BY <1>2, <1>3, <1>4, <1>5, <1>6, <1>7 DEF DictStep

-----------------------------------------------------------------------------
(* The sum of references that a step keeps. *)
LEMMA RefsKept ==
  ASSUME RefsRight, refs \in [Object -> Nat], items \in Seq(Object), items' \in Seq(Object),
         refs' \in [Object -> Nat], UNCHANGED <<mine, value>>,
         NEW u, u = items',
         \A o \in Object : refs'[o] + Times(o, items) = refs[o] + Times(o, u)
  PROVE  RefsRight'
<1>1. ASSUME NEW o \in Object
      PROVE  refs'[o] = (IF o \in mine THEN 1 ELSE 0) + Times(o, u) + Holders(value, o)
  <2>1. /\ refs[o] \in Nat /\ refs'[o] \in Nat
        /\ Times(o, items) \in Nat /\ Times(o, u) \in Nat /\ Holders(value, o) \in Nat
    BY TimesType, HoldersType
  <2>2. refs[o] = (IF o \in mine THEN 1 ELSE 0) + Times(o, items) + Holders(value, o)
    BY DEF RefsRight
  <2>3. refs'[o] + Times(o, items) = refs[o] + Times(o, u)
    OBVIOUS
  <2> QED BY ONLY <2>1, <2>2, <2>3
<1>2. u = items' /\ mine' = mine /\ value' = value
  OBVIOUS
<1> QED BY ONLY <1>1, <1>2 DEF RefsRight

LEMMA RoomEnough ==
  ASSUME items \in Seq(Object), size \in Nat, Len(items) <= size, NEW n \in Nat
  PROVE  Room(n) \in Nat /\ Len(items) + n <= Room(n) /\ Len(items) <= Room(n)
<1>1. PICK l \in Nat : l = Len(items)
  BY LenProperties
<1>2. MSCapacityForCount(l + n) \in Nat /\ MSCapacityForCount(l + n) > l + n
  BY CapacityEnough
<1> QED BY <1>1, <1>2 DEF Room

(* The keys that hold an object, and what only the array holds. *)
LEMMA HeldByArray ==
  ASSUME refs \in [Object -> Nat], items \in Seq(Object), RefsRight, NEW o \in Object,
         refs[o] <= Times(o, items)
  PROVE  OnlyInArray(o)
<1>1. /\ refs[o] \in Nat /\ Holders(value, o) \in Nat /\ Times(o, items) \in Nat
      /\ o \in mine => Times(o, items) < refs[o]
      /\ Holders(value, o) + Times(o, items) <= refs[o]
  BY RefsCover
<1>2. o \notin mine /\ Holders(value, o) = 0
  BY <1>1
<1>3. Holding(value, o) = {}
  BY <1>2, HoldersType
<1> QED BY <1>2, <1>3 DEF OnlyInArray, KeysOf, Holding

LEMMA ArgumentsTyped ==
  ASSUME refs \in [Object -> Nat], NEW os \in Arguments
  PROVE  /\ os \in Seq(Object) /\ Len(os) \in Nat
         /\ ~RetainsFreed(refs, os)
<1>1. PICK n \in 1 .. MaxArgs : os \in [1 .. n -> Alive]
  BY DEF Arguments
<1>2. n \in Nat
  BY SharedAssumption
<1>3. os \in [1 .. n -> Object] /\ \A i \in 1 .. n : refs[os[i]] > 0
  BY <1>1 DEF Alive
<1>4. os \in Seq(Object)
  BY <1>2, <1>3, SeqDef
<1>5. DOMAIN os = 1 .. n
  BY <1>1
<1> QED BY <1>3, <1>4, <1>5, LenProperties DEF RetainsFreed

-----------------------------------------------------------------------------
(* The steps of the program and of the dictionary. *)
LEMMA InitShared == ASSUME Init PROVE SharedInv
<1>1. TableInv
  BY InitTable DEF Init
<1>2. SharedTyped /\ LoopHolds
  <2>1. items = <<>> /\ size = 0 /\ removing = NoLoop /\ mine = Object /\ refs = [o \in Object |-> 1]
    BY DEF Init, ArrayInit
  <2>2. items \in Seq(Object) /\ Len(items) <= size
    BY <2>1, EmptySeq
  <2> QED BY <2>1, <2>2 DEF SharedTyped, LoopHolds
<1>3. RefsRight
  <2>1. items = <<>> /\ mine = Object /\ refs = [o \in Object |-> 1] /\ value = [k \in Key |-> Nil]
    BY DEF Init, ArrayInit, DictInit
  <2>2. ASSUME NEW o \in Object PROVE Holders(value, o) = 0 /\ Times(o, items) = 0
    <3>1. Holding(value, o) = {}
      BY <2>1, DictionaryAssumption, SharedAssumption DEF Holding
    <3>2. Times(o, items) = 0
      BY <2>1, TimesNone
    <3> QED BY <3>1, <3>2, HoldersType
  <2>3. ASSUME NEW o \in Object
        PROVE  refs[o] = (IF o \in mine THEN 1 ELSE 0) + Times(o, items) + Holders(value, o)
    BY <2>1, <2>2
  <2> QED BY <2>3 DEF RefsRight
<1> QED BY <1>1, <1>2, <1>3 DEF SharedInv, Init

LEMMA DictStepShared ==
  ASSUME SharedInv, ~undefined, removing = NoLoop, DictStep, UNCHANGED <<arrayVars, mine, undefined, notes>>
  PROVE  SharedInv'
<1>0. TableInv /\ SharedTyped /\ RefsRight
  BY DEF SharedInv
<1>1. TableInv'
  BY <1>0, DictStepTable
<1>2. refs' \in [Object -> Nat] /\ DictBalance
  BY <1>0, DictStepBalance
<1>3. UNCHANGED <<items, size, removing, mine, undefined>>
  BY DEF arrayVars
<1>4. SharedTyped' /\ LoopHolds'
  BY <1>0, <1>2, <1>3 DEF SharedTyped, LoopHolds
<1>5. RefsRight'
  <2>1. ASSUME NEW o \in Object, NEW g, g = value'
        PROVE  refs'[o] = (IF o \in mine THEN 1 ELSE 0) + Times(o, items) + Holders(g, o)
    <3>1. refs[o] = (IF o \in mine THEN 1 ELSE 0) + Times(o, items) + Holders(value, o)
      BY <1>0 DEF RefsRight
    <3>2. refs'[o] + Holders(value, o) = refs[o] + Holders(g, o)
      BY <1>2, <2>1 DEF DictBalance
    <3>3. /\ refs[o] \in Nat /\ refs'[o] \in Nat /\ Times(o, items) \in Nat
          /\ Holders(value, o) \in Nat /\ Holders(g, o) \in Nat
      BY <1>0, <1>2, TimesType, HoldersType DEF SharedTyped
    <3> QED BY ONLY <3>1, <3>2, <3>3
  <2> QED BY <1>3, <2>1 DEF RefsRight
<1> QED BY <1>1, <1>3, <1>4, <1>5 DEF SharedInv

LEMMA ProgramShared ==
  ASSUME SharedInv, ~undefined, removing = NoLoop, NEW o \in Object, Take(o) \/ Drop(o)
  PROVE  SharedInv'
<1>0. TableInv /\ SharedTyped /\ RefsRight
  BY DEF SharedInv
<1>t. refs \in [Object -> Nat] /\ mine \subseteq Object /\ items \in Seq(Object)
  BY <1>0 DEF SharedTyped
<1>1. UNCHANGED <<items, size, removing, undefined, value>> /\ UNCHANGED table
  BY DEF Take, Drop, arrayVars, dictVars, table
<1>2. TableInv'
  BY <1>0, <1>1, SameTable
<1>3. \A e \in Object : Times(e, <<o>>) = One(o, e) /\ One(o, e) \in Nat
  BY TimesOne, OneType
<1>4. /\ refs' \in [Object -> Nat] /\ mine' \subseteq Object
      /\ \A e \in Object : refs'[e] + (IF e \in mine THEN 1 ELSE 0) = refs[e] + (IF e \in mine' THEN 1 ELSE 0)
  <2>1. CASE Take(o)
    <3>1. mine' = mine \cup {o} /\ o \notin mine /\ refs' = Retained(refs, <<o>>)
      BY <2>1 DEF Take
    <3>2. refs' \in [Object -> Nat] /\ \A e \in Object : refs'[e] = refs[e] + Times(e, <<o>>)
      BY <1>t, <3>1, OneObject, RetainedEach
    <3>3. \A e \in Object : refs'[e] = refs[e] + One(o, e)
      BY <1>3, <3>2
    <3>4. ASSUME NEW e \in Object
          PROVE  refs'[e] + (IF e \in mine THEN 1 ELSE 0) = refs[e] + (IF e \in mine' THEN 1 ELSE 0)
      <4>1. e \in mine' <=> e \in mine \/ e = o
        BY <3>1
      <4>2. refs[e] \in Nat /\ refs'[e] = refs[e] + One(o, e) /\ o \notin mine
        BY <1>t, <3>1, <3>3
      <4>3. (o # e => One(o, e) = 0) /\ (o = e => One(o, e) = 1)
        BY OneType
      <4> QED BY ONLY <4>1, <4>2, <4>3
    <3>5. mine' \subseteq Object
      BY <1>t, <3>1
    <3> QED BY <3>2, <3>4, <3>5
  <2>2. CASE Drop(o)
    <3>1. mine' = mine \ {o} /\ o \in mine /\ refs' = Released(refs, <<o>>)
      BY <2>2 DEF Drop
    <3>2. \A e \in Object : Times(e, <<o>>) <= refs[e]
      <4> TAKE e \in Object
      <4>1. refs[e] \in Nat /\ Times(e, items) \in Nat /\ (e \in mine => Times(e, items) < refs[e])
        BY <1>0, <1>t, RefsCover
      <4>2. Times(e, <<o>>) = One(o, e) /\ (o # e => One(o, e) = 0) /\ (o = e => One(o, e) = 1)
        BY TimesOne, OneType
      <4> QED BY <3>1, <4>1, <4>2
    <3>3. refs' \in [Object -> Nat] /\ \A e \in Object : refs'[e] = refs[e] - Times(e, <<o>>)
      BY <1>t, <3>1, <3>2, OneObject, ReleasedEach
    <3>4. \A e \in Object : refs'[e] = refs[e] - One(o, e)
      BY <1>3, <3>3
    <3>5. ASSUME NEW e \in Object
          PROVE  refs'[e] + (IF e \in mine THEN 1 ELSE 0) = refs[e] + (IF e \in mine' THEN 1 ELSE 0)
      <4>1. e \in mine' <=> e \in mine /\ e # o
        BY <3>1
      <4>2. refs[e] \in Nat /\ refs'[e] = refs[e] - One(o, e) /\ o \in mine
        BY <1>t, <3>1, <3>4
      <4>3. (o # e => One(o, e) = 0) /\ (o = e => One(o, e) = 1)
        BY OneType
      <4> QED BY ONLY <4>1, <4>2, <4>3
    <3>6. mine' \subseteq Object
      BY <1>t, <3>1
    <3> QED BY <3>3, <3>5, <3>6
  <2> QED BY <2>1, <2>2
<1>5. SharedTyped' /\ LoopHolds'
  BY <1>0, <1>1, <1>4 DEF SharedTyped, LoopHolds
<1>6. RefsRight'
  <2>1. ASSUME NEW e \in Object, NEW m, m = mine'
        PROVE  refs'[e] = (IF e \in m THEN 1 ELSE 0) + Times(e, items) + Holders(value, e)
    <3>1. refs[e] = (IF e \in mine THEN 1 ELSE 0) + Times(e, items) + Holders(value, e)
      BY <1>0 DEF RefsRight
    <3>2. refs'[e] + (IF e \in mine THEN 1 ELSE 0) = refs[e] + (IF e \in m THEN 1 ELSE 0)
      BY <1>4, <2>1
    <3>3. /\ refs[e] \in Nat /\ refs'[e] \in Nat /\ Times(e, items) \in Nat /\ Holders(value, e) \in Nat
      BY <1>t, <1>4, TimesType, HoldersType
    <3> QED BY ONLY <3>1, <3>2, <3>3
  <2> QED BY <1>1, <2>1 DEF RefsRight
<1> QED BY <1>1, <1>2, <1>5, <1>6 DEF SharedInv

-----------------------------------------------------------------------------
(* The steps of the array. *)
LEMMA ArrayKept ==
  ASSUME TableInv, RefsRight, refs \in [Object -> Nat], items \in Seq(Object), mine \subseteq Object,
         UNCHANGED <<dictVars, mine>>, removing' = NoLoop,
         refs' \in [Object -> Nat], items' \in Seq(Object), size' \in Nat, Len(items') <= size',
         NEW u, u = items',
         \A o \in Object : refs'[o] + Times(o, items) = refs[o] + Times(o, u)
  PROVE  TableInv' /\ SharedTyped' /\ LoopHolds' /\ RefsRight'
<1>1. UNCHANGED table /\ UNCHANGED <<value, mine>>
  BY DEF dictVars, table
<1>2. TableInv'
  BY <1>1, SameTable
<1>3. RefsRight'
  BY <1>1, RefsKept
<1>4. SharedTyped' /\ LoopHolds'
  BY <1>1 DEF SharedTyped, LoopHolds
<1> QED BY <1>2, <1>3, <1>4

LEMMA InsertShared ==
  ASSUME SharedInv, ~undefined, UNCHANGED <<dictVars, mine>>,
         NEW os \in Arguments, NEW i \in 0 .. Len(items), InsertObjects(i, os)
  PROVE  SharedInv'
<1>0. TableInv /\ SharedTyped /\ RefsRight
  BY DEF SharedInv
<1>1. refs \in [Object -> Nat] /\ items \in Seq(Object) /\ mine \subseteq Object /\ size \in Nat /\ Len(items) <= size
  BY <1>0 DEF SharedTyped
<1>2. /\ items' = SubSeq(items, 1, i) \o os \o SubSeq(items, i + 1, Len(items))
      /\ size' = Room(Len(os)) /\ refs' = Retained(refs, os)
      /\ undefined' = (undefined \/ RetainsFreed(refs, os))
      /\ removing' = NoLoop
  BY DEF InsertObjects
<1>3. os \in Seq(Object) /\ Len(os) \in Nat /\ ~RetainsFreed(refs, os)
  BY <1>1, ArgumentsTyped
<1> DEFINE u == Put(items, i, os)
<1>4. ASSUME NEW o
      PROVE  u \in Seq(Object) /\ Len(u) = Len(items) + Len(os) /\ Times(o, u) = Times(o, items) + Times(o, os)
  BY <1>1, <1>3, Spliced
<1>5. items' = u
  BY <1>2 DEF Put
<1> HIDE DEF u
<1>6. refs' \in [Object -> Nat] /\ \A o \in Object : refs'[o] = refs[o] + Times(o, os)
  BY <1>1, <1>2, <1>3, RetainedEach
<1>7. \A o \in Object : refs'[o] + Times(o, items) = refs[o] + Times(o, u)
  <2> TAKE o \in Object
  <2>1. refs[o] \in Nat /\ Times(o, items) \in Nat /\ Times(o, os) \in Nat
    BY <1>1, <1>3, TimesType
  <2>2. refs'[o] = refs[o] + Times(o, os) /\ Times(o, u) = Times(o, items) + Times(o, os)
    BY <1>4, <1>6
  <2> QED BY ONLY <2>1, <2>2
<1>8. size' \in Nat /\ Len(u) <= size' /\ u \in Seq(Object)
  <2>1. u \in Seq(Object) /\ Len(u) = Len(items) + Len(os) /\ Times(items, u) = Times(items, items) + Times(items, os)
    BY <1>4
  <2>2. Room(Len(os)) \in Nat /\ Len(items) + Len(os) <= Room(Len(os))
    BY <1>1, <1>3, RoomEnough
  <2> QED BY <1>2, <2>1, <2>2
<1>9. TableInv' /\ SharedTyped' /\ LoopHolds' /\ RefsRight'
  BY <1>0, <1>1, <1>2, <1>5, <1>6, <1>7, <1>8, ArrayKept
<1>10. ~undefined'
  BY <1>2, <1>3
<1> QED BY <1>9, <1>10 DEF SharedInv

(* What leaves the array was referred to by it. *)
LEMMA PieceReleased ==
  ASSUME RefsRight, refs \in [Object -> Nat], items \in Seq(Object),
         NEW i \in Nat, NEW m \in Nat, i + m <= Len(items), NEW p, p = Inside(items, i, m)
  PROVE  /\ p \in Seq(Object)
         /\ Released(refs, p) \in [Object -> Nat]
         /\ \A o \in Object : /\ Times(o, p) <= Times(o, items)
                              /\ Released(refs, p)[o] = refs[o] - Times(o, p)
                              /\ Times(o, p) \in Nat
<1>1. p \in Seq(Object)
  BY Erased
<1>2. ASSUME NEW o \in Object
      PROVE  Times(o, p) <= Times(o, items) /\ Times(o, p) <= refs[o] /\ Times(o, p) \in Nat
  <2>1. /\ Cutout(items, i, m) \in Seq(Object)
        /\ Times(o, Cutout(items, i, m)) + Times(o, p) = Times(o, items)
    BY Erased
  <2>2. Times(o, Cutout(items, i, m)) \in Nat /\ Times(o, p) \in Nat
    BY <1>1, <2>1, TimesType
  <2>3. refs[o] \in Nat /\ Times(o, items) \in Nat /\ Times(o, items) <= refs[o]
    BY RefsCover
  <2> QED BY ONLY <2>1, <2>2, <2>3
<1>3. \A o \in Object : Times(o, p) <= refs[o]
  BY <1>2
<1> QED BY <1>1, <1>2, <1>3, ReleasedEach

LEMMA RemoveShared ==
  ASSUME SharedInv, ~undefined, UNCHANGED <<dictVars, mine, notes>>,
         NEW i \in 0 .. Len(items), NEW n \in 1 .. MaxItems, RemoveInRange(i, n)
  PROVE  SharedInv'
<1>0. TableInv /\ SharedTyped /\ RefsRight
  BY DEF SharedInv
<1>1. refs \in [Object -> Nat] /\ items \in Seq(Object) /\ mine \subseteq Object /\ size \in Nat /\ Len(items) <= size
  BY <1>0 DEF SharedTyped
<1>2. PICK l \in Nat : l = Len(items)
  BY <1>1, LenProperties
<1>a. i \in 0 .. l /\ n \in Nat
  BY <1>2, SharedAssumption
<1>b. IF i + n > l THEN l - i \in Nat ELSE n \in Nat
  BY <1>a
<1>3. PICK m \in Nat : m = IF i + n > l THEN l - i ELSE n
  BY <1>b
<1>4. i \in Nat /\ i + m <= Len(items)
  BY <1>2, <1>3, <1>a
<1>5. /\ items' = SubSeq(items, 1, i) \o SubSeq(items, i + m + 1, Len(items))
      /\ refs' = Released(refs, Slice(i, m))
      /\ UNCHANGED <<size, removing, undefined>> /\ removing = NoLoop
  BY <1>2, <1>3 DEF RemoveInRange
<1> DEFINE p == Inside(items, i, m)
           u == Cutout(items, i, m)
<1>6. items' = u /\ refs' = Released(refs, p)
  BY <1>5 DEF Cutout, Before, Behind, Inside, Slice
<1>7. ASSUME NEW o
      PROVE  u \in Seq(Object) /\ Len(u) = Len(items) - m /\ Times(o, u) + Times(o, p) = Times(o, items)
  BY <1>1, <1>4, Erased
<1>8. refs' \in [Object -> Nat] /\ \A o \in Object : refs'[o] = refs[o] - Times(o, p) /\ Times(o, p) \in Nat
  BY <1>0, <1>1, <1>4, <1>6, PieceReleased
<1> HIDE DEF u, p
<1>9. \A o \in Object : refs'[o] + Times(o, items) = refs[o] + Times(o, u)
  <2> TAKE o \in Object
  <2>1. refs[o] \in Nat /\ Times(o, items) \in Nat /\ Times(o, p) \in Nat /\ Times(o, u) \in Nat
    BY <1>1, <1>7, <1>8, TimesType
  <2>2. refs'[o] = refs[o] - Times(o, p) /\ Times(o, u) + Times(o, p) = Times(o, items)
    BY <1>7, <1>8
  <2> QED BY ONLY <2>1, <2>2
<1>10. size' \in Nat /\ Len(u) <= size' /\ u \in Seq(Object)
  <2>1. u \in Seq(Object) /\ Len(u) = Len(items) - m /\ Times(items, u) + Times(items, p) = Times(items, items)
    BY <1>7
  <2>2. l - m <= size
    BY <1>1, <1>2
  <2> QED BY <1>1, <1>2, <1>5, <2>1, <2>2
<1>11. TableInv' /\ SharedTyped' /\ LoopHolds' /\ RefsRight'
  BY <1>0, <1>1, <1>5, <1>6, <1>8, <1>9, <1>10, ArrayKept
<1>12. ~undefined'
  BY <1>5
<1> QED BY <1>11, <1>12 DEF SharedInv

LEMMA ReplaceShared ==
  ASSUME SharedInv, ~undefined, UNCHANGED <<dictVars, mine, onItself>>,
         NEW os \in Arguments, NEW i \in 0 .. Len(items), ReplaceInRange(i, os),
         onlyHere' = (undefined' /\ \E o \in ToSet(os) : OnlyInArray(o))
  PROVE  SharedInv'
<1>0. TableInv /\ SharedTyped /\ RefsRight
  BY DEF SharedInv
<1>1. refs \in [Object -> Nat] /\ items \in Seq(Object) /\ mine \subseteq Object /\ size \in Nat /\ Len(items) <= size
  BY <1>0 DEF SharedTyped
<1>2. os \in Seq(Object) /\ Len(os) \in Nat
  BY <1>1, ArgumentsTyped
<1>3. PICK m \in Nat : m = Len(os)
  BY <1>2
<1>4. i \in Nat /\ i + m <= Len(items)
  BY <1>3 DEF ReplaceInRange
<1> DEFINE p == Inside(items, i, m)
           r == Released(refs, p)
           u == Overwritten(items, i, os)
<1>5. /\ items' = u /\ refs' = Retained(r, os)
      /\ undefined' = (undefined \/ RetainsFreed(r, os))
      /\ UNCHANGED <<size, removing>> /\ removing = NoLoop
  BY <1>3 DEF ReplaceInRange, Slice, Inside, Overwritten
<1>6. ASSUME NEW o
      PROVE  u \in Seq(Object) /\ Len(u) = Len(items) /\ Times(o, u) + Times(o, p) = Times(o, items) + Times(o, os)
  <2>1. i + Len(os) <= Len(items)
    BY <1>3, <1>4
  <2>2. /\ u \in Seq(Object) /\ Len(u) = Len(items)
        /\ Times(o, u) + Times(o, Inside(items, i, Len(os))) = Times(o, items) + Times(o, os)
    BY <1>1, <1>2, <1>4, <2>1, Filled
  <2> QED BY <1>3, <2>2
<1>7. /\ p \in Seq(Object) /\ r \in [Object -> Nat]
      /\ \A o \in Object : /\ Times(o, p) <= Times(o, items)
                           /\ r[o] = refs[o] - Times(o, p)
                           /\ Times(o, p) \in Nat
  BY <1>0, <1>1, <1>4, PieceReleased
<1> HIDE DEF u, p, r
<1>8. refs' \in [Object -> Nat] /\ \A o \in Object : refs'[o] = r[o] + Times(o, os)
  BY <1>2, <1>5, <1>7, RetainedEach
<1>9. \A o \in Object : refs'[o] + Times(o, items) = refs[o] + Times(o, u)
  <2> TAKE o \in Object
  <2>1. refs[o] \in Nat /\ Times(o, items) \in Nat /\ Times(o, p) \in Nat /\ Times(o, u) \in Nat /\ Times(o, os) \in Nat
    BY <1>1, <1>2, <1>6, <1>7, TimesType
  <2>2. refs'[o] = r[o] + Times(o, os)
    BY <1>8
  <2>3. r[o] = refs[o] - Times(o, p) /\ r[o] \in Nat
    BY <1>7
  <2>4. Times(o, u) + Times(o, p) = Times(o, items) + Times(o, os)
    BY <1>6
  <2>5. refs'[o] = (refs[o] - Times(o, p)) + Times(o, os)
    BY <2>2, <2>3
  <2> QED BY ONLY <2>1, <2>4, <2>5
<1>10. size' \in Nat /\ Len(u) <= size' /\ u \in Seq(Object)
  BY <1>1, <1>5, <1>6
<1>11. TableInv' /\ SharedTyped' /\ LoopHolds' /\ RefsRight'
  BY <1>0, <1>1, <1>5, <1>8, <1>9, <1>10, ArrayKept
<1>12. undefined' => onlyHere'
  <2> SUFFICES ASSUME undefined' PROVE \E o \in ToSet(os) : OnlyInArray(o)
    OBVIOUS
  <2>1. RetainsFreed(r, os)
    BY <1>5
  <2>2. PICK x \in DOMAIN os : r[os[x]] = 0
    BY <2>1 DEF RetainsFreed
  <2>3. os[x] \in Object /\ os[x] \in ToSet(os)
    BY <1>2, ElementOfSeq, LenProperties DEF ToSet
  <2>4. PICK o \in Object : o = os[x]
    BY <2>3
  <2>5. refs[o] <= Times(o, items)
    <3>1. Times(o, p) <= Times(o, items) /\ r[o] = refs[o] - Times(o, p) /\ Times(o, p) \in Nat /\ r[o] = 0
      BY <1>7, <2>2, <2>4
    <3>2. refs[o] \in Nat /\ Times(o, items) \in Nat
      BY <1>1, TimesType
    <3> QED BY ONLY <3>1, <3>2
  <2>6. OnlyInArray(o)
    BY <1>0, <1>1, <2>5, HeldByArray
  <2> QED BY <2>3, <2>4, <2>6
<1> QED BY <1>11, <1>12 DEF SharedInv

LEMMA AddItselfShared ==
  ASSUME SharedInv, ~undefined, UNCHANGED <<dictVars, mine, onlyHere>>, AddItself, onItself' = undefined'
  PROVE  SharedInv'
<1>0. TableInv /\ SharedTyped /\ RefsRight
  BY DEF SharedInv
<1>1. refs \in [Object -> Nat] /\ items \in Seq(Object) /\ mine \subseteq Object /\ size \in Nat /\ Len(items) <= size
  BY <1>0 DEF SharedTyped
<1>2. items' = items \o items /\ size' = Room(Len(items)) /\ refs' = Retained(refs, items) /\ removing' = NoLoop
  BY DEF AddItself
<1> DEFINE u == items \o items
<1>3. u \in Seq(Object) /\ Len(u) = Len(items) + Len(items)
  BY <1>1, ConcatProperties
<1>4. \A o \in Object : Times(o, u) = Times(o, items) + Times(o, items)
  BY <1>1, TimesConcat
<1>5. items' = u
  BY <1>2
<1> HIDE DEF u
<1>6. refs' \in [Object -> Nat] /\ \A o \in Object : refs'[o] = refs[o] + Times(o, items)
  BY <1>1, <1>2, RetainedEach
<1>7. \A o \in Object : refs'[o] + Times(o, items) = refs[o] + Times(o, u)
  <2> TAKE o \in Object
  <2>1. refs[o] \in Nat /\ Times(o, items) \in Nat
    BY <1>1, TimesType
  <2>2. refs'[o] = refs[o] + Times(o, items)
    BY <1>6
  <2>3. Times(o, u) = Times(o, items) + Times(o, items)
    BY <1>4
  <2> QED BY ONLY <2>1, <2>2, <2>3
<1>8. size' \in Nat /\ Len(u) <= size'
  <2>1. Len(items) \in Nat
    BY <1>1, LenProperties
  <2>2. Room(Len(items)) \in Nat /\ Len(items) + Len(items) <= Room(Len(items))
    BY <1>1, <2>1, RoomEnough
  <2> QED BY <1>2, <1>3, <2>2
<1>9. TableInv' /\ SharedTyped' /\ LoopHolds' /\ RefsRight'
  BY <1>0, <1>1, <1>2, <1>3, <1>5, <1>6, <1>7, <1>8, ArrayKept
<1> QED BY <1>9 DEF SharedInv

LEMMA FreeInsideShared ==
  ASSUME SharedInv, ~undefined, UNCHANGED <<dictVars, mine, notes>>, ArrayFreeInside
  PROVE  SharedInv'
<1>0. TableInv /\ SharedTyped /\ RefsRight
  BY DEF SharedInv
<1>1. refs \in [Object -> Nat] /\ items \in Seq(Object) /\ mine \subseteq Object
  BY <1>0 DEF SharedTyped
<1>2. refs' = Released(refs, items) /\ items' = <<>> /\ size' = 0 /\ removing' = NoLoop /\ ~undefined'
  BY DEF ArrayFreeInside
<1>3. \A o \in Object : Times(o, items) <= refs[o] /\ refs[o] \in Nat /\ Times(o, items) \in Nat
  BY <1>0, <1>1, RefsCover
<1>4. refs' \in [Object -> Nat] /\ \A o \in Object : refs'[o] = refs[o] - Times(o, items)
  BY <1>1, <1>2, <1>3, ReleasedEach
<1>5. PICK u : u = <<>> /\ u \in Seq(Object) /\ Len(u) = 0
  BY EmptySeq
<1>6. \A o \in Object : refs'[o] + Times(o, items) = refs[o] + Times(o, u)
  <2> TAKE o \in Object
  <2>1. refs[o] \in Nat /\ Times(o, items) \in Nat
    BY <1>3
  <2>2. refs'[o] = refs[o] - Times(o, items)
    BY <1>4
  <2>3. Times(o, u) = 0
    BY <1>5, TimesNone
  <2> QED BY ONLY <2>1, <2>2, <2>3
<1>7. items' = u /\ size' \in Nat /\ Len(u) <= size'
  BY <1>2, <1>5
<1>8. TableInv' /\ SharedTyped' /\ LoopHolds' /\ RefsRight'
  BY <1>0, <1>1, <1>2, <1>4, <1>5, <1>6, <1>7, ArrayKept
<1> QED BY <1>2, <1>8 DEF SharedInv

LEMMA SizeShared ==
  ASSUME SharedInv, ~undefined, UNCHANGED <<dictVars, mine, notes>>,
         AdjustSize \/ \E n \in 1 .. MaxGrow : ArrayGrow(n)
  PROVE  SharedInv'
<1>0. TableInv /\ SharedTyped /\ RefsRight
  BY DEF SharedInv
<1>1. refs \in [Object -> Nat] /\ items \in Seq(Object) /\ mine \subseteq Object /\ size \in Nat /\ Len(items) <= size
  BY <1>0 DEF SharedTyped
<1>2. UNCHANGED <<items, refs, undefined>> /\ removing' = NoLoop
  BY DEF AdjustSize, ArrayGrow
<1>3. size' \in Nat /\ Len(items) <= size'
  <2>1. CASE AdjustSize
    BY <1>1, <2>1, LenProperties DEF AdjustSize
  <2>2. ASSUME NEW n \in 1 .. MaxGrow, ArrayGrow(n) PROVE size' \in Nat /\ Len(items) <= size'
    <3>1. n \in Nat
      BY SharedAssumption
    <3>2. Room(n) \in Nat /\ Len(items) <= Room(n)
      BY <1>1, <3>1, RoomEnough
    <3> QED BY <2>2, <3>2 DEF ArrayGrow
  <2> QED BY <2>1, <2>2
<1>4. items' = items /\ refs' \in [Object -> Nat] /\ items' \in Seq(Object) /\ Len(items') <= size'
      /\ \A o \in Object : refs'[o] + Times(o, items) = refs[o] + Times(o, items)
  BY <1>1, <1>2, <1>3
<1>5. TableInv' /\ SharedTyped' /\ LoopHolds' /\ RefsRight'
  BY <1>0, <1>1, <1>2, <1>3, <1>4, ArrayKept
<1> QED BY <1>2, <1>5 DEF SharedInv

LEMMA StartRemoveShared ==
  ASSUME SharedInv, ~undefined, UNCHANGED <<dictVars, mine, onItself>>, NEW o \in Alive,
         StartRemove(o), onlyHere' = OnlyInArray(o)
  PROVE  SharedInv'
<1>0. TableInv /\ SharedTyped /\ RefsRight
  BY DEF SharedInv
<1>1. refs \in [Object -> Nat] /\ items \in Seq(Object) /\ mine \subseteq Object /\ size \in Nat /\ Len(items) <= size
  BY <1>0 DEF SharedTyped
<1>2. UNCHANGED <<items, size, refs, undefined, value>> /\ UNCHANGED table /\ items # <<>>
      /\ removing' = [object |-> o, i |-> Len(items)]
  BY DEF StartRemove, dictVars, table
<1>3. Len(items) \in 1 .. Len(items)
  BY <1>1, <1>2, EmptySeq, LenProperties
<1>4. SharedTyped'
  BY <1>1, <1>2, <1>3 DEF SharedTyped, Alive
<1>5. LoopHolds'
  <2>1. removing'.object = o
    BY <1>2
  <2> QED BY <1>2, <2>1 DEF LoopHolds, OnlyInArray, KeysOf
<1>6. RefsRight' /\ TableInv'
  BY <1>0, <1>2, SameTable DEF RefsRight
<1> QED BY <1>2, <1>4, <1>5, <1>6 DEF SharedInv

LEMMA OnePiece ==
  ASSUME NEW s \in Seq(Object), NEW i \in Nat, i + 1 <= Len(s)
  PROVE  SubSeq(s, i + 1, i + 1) = <<s[i + 1]>>
<1>1. PICK a \in 1 .. Len(s) : a = i + 1 /\ a \in Int
  BY LenProperties
<1>2. \A x \in a .. a : s[x] \in Object
  BY <1>1, ElementOfSeq
<1>3. /\ SubSeq(s, a, a) \in Seq(Object)
      /\ Len(SubSeq(s, a, a)) = IF a <= a THEN a - a + 1 ELSE 0
      /\ \A x \in 1 .. a - a + 1 : SubSeq(s, a, a)[x] = s[a + x - 1]
  BY <1>1, <1>2, SubSeqProperties
<1>4. PICK p : p = SubSeq(s, a, a)
  OBVIOUS
<1>5. p \in Seq(Object) /\ Len(p) = 1 /\ p[1] = s[a]
  BY <1>1, <1>3, <1>4
<1>6. p = <<s[a]>>
  BY <1>5
<1> QED BY <1>1, <1>4, <1>6

LEMMA RemoveNextShared ==
  ASSUME SharedInv, ~undefined, UNCHANGED <<dictVars, mine, onItself>>, RemoveNext,
         onlyHere' = (onlyHere /\ (undefined' \/ removing' # NoLoop))
  PROVE  SharedInv'
<1>0. TableInv /\ SharedTyped /\ RefsRight /\ LoopHolds
  BY DEF SharedInv
<1>1. refs \in [Object -> Nat] /\ items \in Seq(Object) /\ mine \subseteq Object /\ size \in Nat /\ Len(items) <= size
  BY <1>0 DEF SharedTyped
<1>2. PICK l \in Nat : l = Len(items)
  BY <1>1, LenProperties
<1>3. removing # NoLoop /\ removing \in [object : Object, i : 1 .. l]
  BY <1>0, <1>2 DEF RemoveNext, SharedTyped
<1>4. PICK o \in Object, i \in 0 .. l - 1 : o = removing.object /\ i = removing.i - 1
  BY <1>3
<1>5. /\ removing' = IF i = 0 THEN NoLoop ELSE [removing EXCEPT !.i = i]
      /\ size' = size
      /\ IF items[i + 1] = o
         THEN /\ items' = SubSeq(items, 1, i) \o SubSeq(items, i + 2, Len(items))
              /\ refs' = Released(refs, <<o>>)
              /\ undefined' = undefined
         ELSE /\ undefined' = (undefined \/ refs[o] = 0)
              /\ items' = items /\ refs' = refs
  BY <1>4 DEF RemoveNext
<1>6. UNCHANGED <<value, mine>> /\ UNCHANGED table
  BY DEF dictVars, table
<1>7. i \in Nat /\ 1 \in Nat /\ i + 1 <= Len(items)
  BY <1>2, <1>4
<1>8. /\ refs' \in [Object -> Nat] /\ items' \in Seq(Object) /\ RefsRight'
      /\ Len(items') \in Nat /\ i <= Len(items') /\ Len(items') <= Len(items)
  <2>1. CASE items[i + 1] = o
    <3>1. PICK m \in Nat : m = 1
      OBVIOUS
    <3> DEFINE u == Cutout(items, i, m)
    <3>2. items' = u
      <4>1. i + m + 1 = i + 2
        BY <1>7, <3>1
      <4> QED BY <1>5, <2>1, <4>1 DEF Cutout, Before, Behind
    <3>3. Inside(items, i, m) = <<o>>
      <4>1. items[i + 1] \in Object
        BY <2>1
      <4>2. SubSeq(items, i + 1, i + 1) = <<items[i + 1]>>
        BY <1>1, <1>7, OnePiece
      <4> QED BY <2>1, <3>1, <4>2 DEF Inside
    <3>4. i + m <= Len(items)
      BY <1>7, <3>1
    <3>5. PICK p : p = <<o>> /\ p = Inside(items, i, m)
      BY <3>3
    <3>6. ASSUME NEW e
          PROVE  /\ u \in Seq(Object) /\ Len(u) = Len(items) - m
                 /\ Times(e, u) + Times(e, p) = Times(e, items)
      <4>1. /\ u \in Seq(Object) /\ Len(u) = Len(items) - m
            /\ Times(e, u) + Times(e, Inside(items, i, m)) = Times(e, items)
        BY <1>1, <1>7, <3>4, Erased
      <4> QED BY <3>5, <4>1
    <3>7. /\ refs' \in [Object -> Nat]
          /\ \A e \in Object : refs'[e] = refs[e] - Times(e, p) /\ Times(e, p) \in Nat
      <4>1. refs' = Released(refs, p)
        BY <1>5, <2>1, <3>5
      <4> QED BY <1>0, <1>1, <1>7, <3>4, <3>5, <4>1, PieceReleased
    <3>8. u \in Seq(Object) /\ Len(u) = Len(items) - m
      <4>1. u \in Seq(Object) /\ Len(u) = Len(items) - m /\ Times(o, u) + Times(o, p) = Times(o, items)
        BY <3>6
      <4> QED BY <4>1
    <3> HIDE DEF u
    <3>9. \A e \in Object : refs'[e] + Times(e, items) = refs[e] + Times(e, u)
      <4> TAKE e \in Object
      <4>1. refs[e] \in Nat /\ Times(e, items) \in Nat /\ Times(e, p) \in Nat /\ Times(e, u) \in Nat
        BY <1>1, <3>7, <3>8, TimesType
      <4>2. refs'[e] = refs[e] - Times(e, p)
        BY <3>7
      <4>3. Times(e, u) + Times(e, p) = Times(e, items)
        BY <3>6
      <4> QED BY ONLY <4>1, <4>2, <4>3
    <3>10. items' \in Seq(Object) /\ Len(items') = l - 1
      BY <1>2, <3>1, <3>2, <3>8
    <3>11. RefsRight'
      BY <1>0, <1>1, <1>6, <3>2, <3>7, <3>9, <3>10, RefsKept
    <3> QED BY <1>2, <1>4, <3>7, <3>10, <3>11
  <2>2. CASE items[i + 1] # o
    <3>1. items' = items /\ refs' = refs
      BY <1>5, <2>2
    <3>2. RefsRight'
      BY <1>0, <1>6, <3>1 DEF RefsRight
    <3> QED BY <1>1, <1>2, <1>7, <3>1, <3>2
  <2> QED BY <2>1, <2>2
<1>9. SharedTyped'
  <2>1. Len(items') <= size'
    BY <1>1, <1>2, <1>5, <1>8
  <2>2. removing' = NoLoop \/ removing' \in [object : Object, i : 1 .. Len(items')]
    <3>0. i \in Nat /\ Len(items') \in Nat /\ i <= Len(items')
      BY <1>7, <1>8
    <3>1. i # 0 => i \in 1 .. Len(items')
      BY ONLY <3>0
    <3>2. i # 0 => [removing EXCEPT !.i = i] \in [object : Object, i : 1 .. Len(items')]
      BY <1>3, <3>1
    <3> QED BY <1>5, <3>2
  <2> QED BY <1>1, <1>5, <1>6, <1>8, <2>1, <2>2 DEF SharedTyped
<1>10. LoopHolds'
  <2>1. removing' # NoLoop => removing'.object = o /\ (onlyHere => onlyHere')
    <3>1. removing' = NoLoop \/ removing' = [removing EXCEPT !.i = i]
      BY <1>5
    <3>2. removing' = [removing EXCEPT !.i = i] => removing'.object = o
      BY <1>3, <1>4
    <3> QED BY <3>1, <3>2
  <2>2. onlyHere \/ o \in mine \/ {k \in Key : value[k] = o} # {}
    BY <1>0, <1>3, <1>4 DEF LoopHolds, OnlyInArray, KeysOf
  <2> QED BY <1>6, <2>1, <2>2 DEF LoopHolds, OnlyInArray, KeysOf
<1>11. undefined' => onlyHere'
  <2> SUFFICES ASSUME undefined' PROVE onlyHere
    OBVIOUS
  <2>1. refs[o] = 0
    BY <1>5
  <2>2. Times(o, items) \in Nat
    BY <1>1, TimesType
  <2>3. OnlyInArray(o)
    BY <1>0, <1>1, <2>1, <2>2, HeldByArray
  <2> QED BY <1>0, <1>3, <1>4, <2>3 DEF LoopHolds
<1>12. TableInv'
  BY <1>0, <1>6, SameTable
<1> QED BY <1>8, <1>9, <1>10, <1>11, <1>12 DEF SharedInv

LEMMA ArrayStepShared ==
  ASSUME SharedInv, ~undefined, UNCHANGED <<dictVars, mine>>, ArrayStep
  PROVE  SharedInv'
<1>1. ASSUME NEW os \in Arguments, NEW i \in 0 .. Len(items), InsertObjects(i, os), UNCHANGED notes
      PROVE  SharedInv'
  BY <1>1, InsertShared
<1>2. ASSUME NEW os \in Arguments, NEW i \in 0 .. Len(items), ReplaceInRange(i, os), UNCHANGED onItself,
             onlyHere' = (undefined' /\ \E o \in ToSet(os) : OnlyInArray(o))
      PROVE  SharedInv'
  BY <1>2, ReplaceShared
<1>3. ASSUME NEW i \in 0 .. Len(items), NEW n \in 1 .. MaxItems, RemoveInRange(i, n), UNCHANGED notes
      PROVE  SharedInv'
  BY <1>3, RemoveShared
<1>4. ASSUME NEW o \in Alive, StartRemove(o), onlyHere' = OnlyInArray(o), UNCHANGED onItself
      PROVE  SharedInv'
  BY <1>4, StartRemoveShared
<1>5. CASE RemoveNext /\ onlyHere' = (onlyHere /\ (undefined' \/ removing' # NoLoop)) /\ UNCHANGED onItself
  BY <1>5, RemoveNextShared
<1>6. CASE AddItself /\ onItself' = undefined' /\ UNCHANGED onlyHere
  BY <1>6, AddItselfShared
<1>7. CASE ((\E n \in 1 .. MaxGrow : ArrayGrow(n)) \/ AdjustSize) /\ UNCHANGED notes
  BY <1>7, SizeShared
<1>8. CASE ArrayFreeInside /\ UNCHANGED notes
  BY <1>8, FreeInsideShared
<1> QED BY <1>1, <1>2, <1>3, <1>4, <1>5, <1>6, <1>7, <1>8 DEF ArrayStep

LEMMA SharedStep == ASSUME SharedInv, [Next]_vars PROVE SharedInv'
<1>1. CASE Next
  <2>1. CASE removing = NoLoop /\ DictStep /\ UNCHANGED <<arrayVars, mine, undefined, notes>>
    BY <1>1, <2>1, DictStepShared DEF Next
  <2>2. CASE ArrayStep /\ UNCHANGED <<dictVars, mine>>
    BY <1>1, <2>2, ArrayStepShared DEF Next
  <2>3. ASSUME NEW o \in Object, Take(o) \/ Drop(o), removing = NoLoop PROVE SharedInv'
    BY <1>1, <2>3, ProgramShared DEF Next
  <2> QED BY <1>1, <2>1, <2>2, <2>3 DEF Next
<1>2. CASE UNCHANGED vars
  <2>1. UNCHANGED <<items, size, removing, refs, undefined, mine, onlyHere, onItself, value>> /\ UNCHANGED table
    BY <1>2 DEF vars, arrayVars, dictVars, table
  <2>2. TableInv'
    BY <2>1, SameTable DEF SharedInv
  <2> QED BY <2>1, <2>2 DEF SharedInv, SharedTyped, LoopHolds, OnlyInArray, KeysOf, RefsRight
<1> QED BY <1>1, <1>2

(* For any keys, objects and hash function, and an array of any length: an *)
(* object's references are those of the program and one for each place it  *)
(* has in the array and in the dictionary, in every state and at every     *)
(* turn of CArrayRemoveObject; the zone has room for the contents; a freed *)
(* object is used only in the calls that are passed what nobody else holds *)
(* and in the one that adds an array to itself.                            *)
THEOREM ReferencesCounted == Spec => []Counted
<1>1. Init => SharedInv
  BY InitShared
<1>2. SharedInv /\ [Next]_vars => SharedInv'
  BY SharedStep
<1>3. SharedInv => Counted
  BY DEF SharedInv, SharedTyped, RefsRight, Counted, Holders, Holding, KeysOf
<1> QED BY <1>1, <1>2, <1>3, PTL DEF Spec

-----------------------------------------------------------------------------
(* What an enumerator has behind it: the chains before its own, and its    *)
(* own up to its node.                                                     *)
Behindhand(t, p, i, x) ==
  \/ i + 1 < p.iBucket
  \/ i + 1 = p.iBucket /\ \E y \in DOMAIN t[i] : t[i][y] = p.jnode /\ x <= y

Passed(t, p) ==
  {k \in Linked(t) : \E i \in DOMAIN t : \E x \in DOMAIN t[i] : t[i][x] = k /\ Behindhand(t, p, i, x)}

IsPlace(t, n, p) ==
  \/ p = AtStart
  \/ /\ p \in [iBucket : 1 .. n, jnode : Key]
     /\ p.jnode \in ToSet(t[p.iBucket - 1])

LEMMA ChainPlaces ==
  ASSUME NEW t, NEW n, IsTable(t, n), NEW i \in 0 .. n - 1
  PROVE  /\ DOMAIN t[i] = 1 .. Len(t[i]) /\ Len(t[i]) \in Nat
         /\ t[i] = <<>> <=> Len(t[i]) = 0
         /\ \A x, y \in 1 .. Len(t[i]) : t[i][x] = t[i][y] => x = y
         /\ \A x \in 1 .. Len(t[i]) : t[i][x] \in Key /\ t[i][x] \in Linked(t)
         /\ t[i] # <<>> => Head(t[i]) = t[i][1]
<1>1. t[i] \in Seq(Key) /\ IsInjective(t[i]) /\ i \in DOMAIN t
  BY DEF IsTable
<1>2. DOMAIN t[i] = 1 .. Len(t[i]) /\ Len(t[i]) \in Nat /\ (t[i] = <<>> <=> Len(t[i]) = 0)
      /\ \A x \in 1 .. Len(t[i]) : t[i][x] \in Key
  BY <1>1, LenProperties, ElementOfSeq, EmptySeq
<1>3. \A x, y \in 1 .. Len(t[i]) : t[i][x] = t[i][y] => x = y
  BY <1>1, <1>2 DEF IsInjective
<1>4. \A x \in 1 .. Len(t[i]) : t[i][x] \in Linked(t)
  BY <1>1, <1>2 DEF Linked, ToSet
<1>5. t[i] # <<>> => Head(t[i]) = t[i][1]
  BY <1>1, HeadTailProperties
<1> QED BY <1>2, <1>3, <1>4, <1>5

(* A key is at one place. *)
LEMMA OneChain ==
  ASSUME NEW t, NEW n, IsTable(t, n), NEW i \in 0 .. n - 1, NEW j \in 0 .. n - 1,
         NEW x \in DOMAIN t[i], NEW y \in DOMAIN t[j], t[i][x] = t[j][y]
  PROVE  i = j /\ x = y
<1>1. t[i][x] \in ToSet(t[i]) /\ t[j][y] \in ToSet(t[j])
  BY DEF ToSet
<1>2. Hash[t[i][x]] % n = i /\ Hash[t[j][y]] % n = j
  BY <1>1 DEF IsTable
<1>3. i = j
  BY <1>2
<1> QED BY <1>3, ChainPlaces

LEMMA NotBegun ==
  ASSUME NEW t, NEW n, IsTable(t, n)
  PROVE  Passed(t, AtStart) = {}
<1>1. ASSUME NEW i \in DOMAIN t, NEW x, Behindhand(t, AtStart, i, x) PROVE FALSE
  <2>1. i \in 0 .. n - 1 /\ n \in Nat /\ AtStart.iBucket = 0
    BY DEF IsTable, AtStart
  <2> QED BY <1>1, <2>1 DEF Behindhand
<1> QED BY <1>1 DEF Passed

(* One move of the enumerator: one more key, that it has not met; or the   *)
(* end, when it has met all.                                               *)
NextInChain(t, p, q) ==
  /\ p.jnode # Nil
  /\ \E at \in DOMAIN t[p.iBucket - 1] :
       /\ t[p.iBucket - 1][at] = p.jnode
       /\ at < Len(t[p.iBucket - 1])
       /\ q = [p EXCEPT !.jnode = t[p.iBucket - 1][at + 1]]

LEMMA MovedAlong ==
  ASSUME NEW t, NEW n, IsTable(t, n), NEW p, IsPlace(t, n, p), NEW q, NextInChain(t, p, q)
  PROVE  /\ IsPlace(t, n, q) /\ q.jnode \in Key
         /\ q.jnode \notin Passed(t, p)
         /\ Passed(t, q) = Passed(t, p) \cup {q.jnode}
<1>0. p.jnode # Nil
  BY DEF NextInChain
<1>1. p \in [iBucket : 1 .. n, jnode : Key] /\ n \in Nat
  BY <1>0 DEF IsPlace, AtStart, IsTable
<1>2. PICK i \in 0 .. n - 1 : i = p.iBucket - 1 /\ p.iBucket = i + 1
  BY <1>1
<1>a. PICK at \in DOMAIN t[i] :
        t[i][at] = p.jnode /\ at < Len(t[i]) /\ q = [p EXCEPT !.jnode = t[i][at + 1]]
  BY <1>2 DEF NextInChain
<1>3. /\ DOMAIN t[i] = 1 .. Len(t[i]) /\ Len(t[i]) \in Nat
      /\ \A x, y \in 1 .. Len(t[i]) : t[i][x] = t[i][y] => x = y
      /\ \A x \in 1 .. Len(t[i]) : t[i][x] \in Key /\ t[i][x] \in Linked(t)
  BY ChainPlaces
<1>4. at \in 1 .. Len(t[i]) /\ at + 1 \in 1 .. Len(t[i]) /\ t[i][at] = p.jnode
  BY <1>2, <1>3, <1>a
<1>5. PICK k \in Key : k = t[i][at + 1]
  BY <1>3, <1>4
<1>6. q.iBucket = i + 1 /\ q.jnode = k /\ q \in [iBucket : 1 .. n, jnode : Key]
  BY <1>1, <1>2, <1>5, <1>a
<1>7. IsPlace(t, n, q)
  <2>1. q.iBucket - 1 = i
    BY <1>6
  <2>2. k \in ToSet(t[i])
    BY <1>3, <1>4, <1>5 DEF ToSet
  <2> QED BY <1>6, <2>1, <2>2 DEF IsPlace
<1>8. DOMAIN t = 0 .. n - 1
  BY DEF IsTable
<1>9. ASSUME NEW j \in 0 .. n - 1, NEW x \in DOMAIN t[j]
      PROVE  Behindhand(t, q, j, x) <=> Behindhand(t, p, j, x) \/ (j = i /\ x = at + 1)
  <2>1. CASE j # i
    <3>1. q.iBucket = p.iBucket /\ j + 1 # p.iBucket
      BY <1>2, <1>6, <2>1
    <3> QED BY <2>1, <3>1 DEF Behindhand
  <2>2. CASE j = i
    <3>1. x \in 1 .. Len(t[i])
      BY <1>3, <2>2
    <3>2. (\E y \in DOMAIN t[i] : t[i][y] = p.jnode /\ x <= y) <=> x <= at
      BY <1>3, <1>4
    <3>3. (\E y \in DOMAIN t[i] : t[i][y] = q.jnode /\ x <= y) <=> x <= at + 1
      BY <1>3, <1>4, <1>5, <1>6
    <3>4. Behindhand(t, p, i, x) <=> x <= at
      BY <1>2, <3>2 DEF Behindhand
    <3>5. Behindhand(t, q, i, x) <=> x <= at + 1
      BY <1>2, <1>6, <3>3 DEF Behindhand
    <3> QED BY <1>4, <2>2, <3>1, <3>4, <3>5
  <2> QED BY <2>1, <2>2
<1>10. k \in Linked(t) /\ Behindhand(t, q, i, at + 1) /\ ~Behindhand(t, p, i, at + 1)
  <2>1. Behindhand(t, q, i, at + 1)
    BY <1>3, <1>4, <1>9
  <2>2. ~Behindhand(t, p, i, at + 1)
    <3>1. \A y \in DOMAIN t[i] : t[i][y] = p.jnode => ~(at + 1 <= y)
      BY <1>3, <1>4
    <3>2. ~(i + 1 < p.iBucket)
      BY <1>2
    <3> QED BY <3>1, <3>2 DEF Behindhand
  <2> QED BY <1>3, <1>4, <1>5, <2>1, <2>2
<1>11. k \notin Passed(t, p)
  <2> SUFFICES ASSUME k \in Passed(t, p) PROVE FALSE
    OBVIOUS
  <2>1. PICK j \in DOMAIN t : \E x \in DOMAIN t[j] : t[j][x] = k /\ Behindhand(t, p, j, x)
    BY DEF Passed
  <2>2. PICK x \in DOMAIN t[j] : t[j][x] = k /\ Behindhand(t, p, j, x)
    BY <2>1
  <2>3. j = i /\ x = at + 1
    <3>1. PICK z \in DOMAIN t[i] : z = at + 1
      BY <1>3, <1>4
    <3>2. t[j][x] = t[i][z] /\ j \in 0 .. n - 1
      BY <1>5, <1>8, <2>2, <3>1
    <3> QED BY <3>1, <3>2, OneChain
  <2> QED BY <1>10, <2>2, <2>3
<1>12. Passed(t, q) = Passed(t, p) \cup {k}
  <2>1. ASSUME NEW e \in Passed(t, q) PROVE e \in Passed(t, p) \cup {k}
    <3>1. PICK j \in DOMAIN t : \E x \in DOMAIN t[j] : t[j][x] = e /\ Behindhand(t, q, j, x)
      BY DEF Passed
    <3>2. PICK x \in DOMAIN t[j] : t[j][x] = e /\ Behindhand(t, q, j, x)
      BY <3>1
    <3>3. Behindhand(t, p, j, x) \/ (j = i /\ x = at + 1)
      BY <1>8, <1>9, <3>2
    <3> QED BY <1>5, <3>2, <3>3 DEF Passed
  <2>2. ASSUME NEW e \in Passed(t, p) PROVE e \in Passed(t, q)
    <3>1. PICK j \in DOMAIN t : \E x \in DOMAIN t[j] : t[j][x] = e /\ Behindhand(t, p, j, x)
      BY DEF Passed
    <3>2. PICK x \in DOMAIN t[j] : t[j][x] = e /\ Behindhand(t, p, j, x)
      BY <3>1
    <3>3. Behindhand(t, q, j, x)
      BY <1>8, <1>9, <3>2
    <3> QED BY <3>2, <3>3 DEF Passed
  <2>3. k \in Passed(t, q)
    BY <1>3, <1>4, <1>5, <1>8, <1>10 DEF Passed
  <2> QED BY <2>1, <2>2, <2>3
<1> QED BY <1>6, <1>7, <1>11, <1>12

(* The places of a chain the enumerator leaves, or does not begin in. *)
ChainDone(t, p) ==
  p.jnode # Nil =>
    \E at \in DOMAIN t[p.iBucket - 1] : t[p.iBucket - 1][at] = p.jnode /\ ~(at < Len(t[p.iBucket - 1]))

LEMMA BehindDone ==
  ASSUME NEW t, NEW n, IsTable(t, n), NEW p, IsPlace(t, n, p), ChainDone(t, p),
         NEW j \in 0 .. n - 1, NEW x \in DOMAIN t[j]
  PROVE  Behindhand(t, p, j, x) <=> j < p.iBucket
<1>0. n \in Nat /\ Nil \notin Key
  BY DictionaryAssumption DEF IsTable
<1>1. CASE p = AtStart
  BY <1>0, <1>1 DEF AtStart, Behindhand
<1>2. CASE p # AtStart
  <2>1. p \in [iBucket : 1 .. n, jnode : Key] /\ p.jnode # Nil
    BY <1>0, <1>2 DEF IsPlace
  <2>2. PICK i \in 0 .. n - 1 : i = p.iBucket - 1 /\ p.iBucket = i + 1
    BY <1>0, <2>1
  <2>3. PICK at \in DOMAIN t[i] : t[i][at] = p.jnode /\ ~(at < Len(t[i]))
    BY <2>1, <2>2 DEF ChainDone
  <2>4. CASE j = i
    <3>1. DOMAIN t[i] = 1 .. Len(t[i]) /\ Len(t[i]) \in Nat
      BY ChainPlaces
    <3>2. x <= at
      BY <2>3, <2>4, <3>1
    <3> QED BY <2>2, <2>3, <2>4, <3>2 DEF Behindhand
  <2>5. CASE j # i
    BY <2>2, <2>5 DEF Behindhand
  <2> QED BY <2>4, <2>5
<1> QED BY <1>1, <1>2

LEMMA MovedOn ==
  ASSUME NEW t, NEW n, IsTable(t, n), NEW p, IsPlace(t, n, p), ChainDone(t, p),
         NEW i \in p.iBucket .. n - 1, t[i] # <<>>,
         \A j \in p.iBucket .. n - 1 : t[j] # <<>> => i <= j,
         NEW q, q = [iBucket |-> i + 1, jnode |-> Head(t[i])]
  PROVE  /\ IsPlace(t, n, q) /\ q.jnode \in Key
         /\ q.jnode \notin Passed(t, p)
         /\ Passed(t, q) = Passed(t, p) \cup {q.jnode}
<1>1. n \in Nat /\ p.iBucket \in Nat /\ p.iBucket <= n /\ DOMAIN t = 0 .. n - 1
  BY DEF IsPlace, AtStart, IsTable
<1>2. i \in 0 .. n - 1
  BY <1>1
<1>3. /\ DOMAIN t[i] = 1 .. Len(t[i]) /\ Len(t[i]) \in Nat /\ Len(t[i]) # 0
      /\ \A x, y \in 1 .. Len(t[i]) : t[i][x] = t[i][y] => x = y
      /\ \A x \in 1 .. Len(t[i]) : t[i][x] \in Key /\ t[i][x] \in Linked(t)
      /\ Head(t[i]) = t[i][1]
  BY <1>2, ChainPlaces
<1>4. 1 \in DOMAIN t[i]
  BY <1>3
<1>5. PICK k \in Key : k = t[i][1] /\ k \in Linked(t)
  BY <1>3, <1>4
<1>6. q.iBucket = i + 1 /\ q.jnode = k /\ q \in [iBucket : 1 .. n, jnode : Key]
  BY <1>1, <1>2, <1>3, <1>5
<1>7. IsPlace(t, n, q)
  <2>1. q.iBucket - 1 = i
    BY <1>2, <1>6
  <2> QED BY <1>4, <1>5, <1>6, <2>1 DEF IsPlace, ToSet
<1>8. ASSUME NEW j \in 0 .. n - 1, NEW x \in DOMAIN t[j]
      PROVE  Behindhand(t, q, j, x) <=> Behindhand(t, p, j, x) \/ (j = i /\ x = 1)
  <2>1. Behindhand(t, p, j, x) <=> j < p.iBucket
    BY BehindDone
  <2>2. CASE j < i
    <3>1. DOMAIN t[j] = 1 .. Len(t[j]) /\ (t[j] = <<>> <=> Len(t[j]) = 0)
      BY ChainPlaces
    <3>2. t[j] # <<>>
      BY <3>1
    <3>3. j < p.iBucket
      BY <1>1, <1>2, <2>2, <3>2
    <3> QED BY <1>2, <1>6, <2>1, <2>2, <3>3 DEF Behindhand
  <2>3. CASE j = i
    <3>1. x \in 1 .. Len(t[i]) /\ ~(i < p.iBucket)
      BY <1>1, <1>3, <2>3
    <3>2. (\E y \in DOMAIN t[i] : t[i][y] = q.jnode /\ x <= y) <=> x = 1
      BY <1>3, <1>4, <1>5, <1>6, <3>1
    <3> QED BY <1>2, <1>6, <2>1, <2>3, <3>1, <3>2 DEF Behindhand
  <2>4. CASE j > i
    BY <1>1, <1>2, <1>6, <2>1, <2>4 DEF Behindhand
  <2> QED BY <1>2, <2>2, <2>3, <2>4
<1>9. Behindhand(t, q, i, 1) /\ ~Behindhand(t, p, i, 1)
  <2>1. Behindhand(t, p, i, 1) <=> i < p.iBucket
    BY <1>2, <1>4, BehindDone
  <2>2. ~(i < p.iBucket)
    BY <1>1
  <2> QED BY <1>2, <1>4, <1>8, <2>1, <2>2
<1>10. k \notin Passed(t, p)
  <2> SUFFICES ASSUME k \in Passed(t, p) PROVE FALSE
    OBVIOUS
  <2>1. PICK j \in DOMAIN t : \E x \in DOMAIN t[j] : t[j][x] = k /\ Behindhand(t, p, j, x)
    BY DEF Passed
  <2>2. PICK x \in DOMAIN t[j] : t[j][x] = k /\ Behindhand(t, p, j, x)
    BY <2>1
  <2>3. j = i /\ x = 1
    BY <1>1, <1>2, <1>4, <1>5, <2>2, OneChain
  <2> QED BY <1>9, <2>2, <2>3
<1>11. Passed(t, q) = Passed(t, p) \cup {k}
  <2>1. ASSUME NEW e \in Passed(t, q) PROVE e \in Passed(t, p) \cup {k}
    <3>1. PICK j \in DOMAIN t : \E x \in DOMAIN t[j] : t[j][x] = e /\ Behindhand(t, q, j, x)
      BY DEF Passed
    <3>2. PICK x \in DOMAIN t[j] : t[j][x] = e /\ Behindhand(t, q, j, x)
      BY <3>1
    <3>3. Behindhand(t, p, j, x) \/ (j = i /\ x = 1)
      BY <1>1, <1>8, <3>2
    <3> QED BY <1>5, <3>2, <3>3 DEF Passed
  <2>2. ASSUME NEW e \in Passed(t, p) PROVE e \in Passed(t, q)
    <3>1. PICK j \in DOMAIN t : \E x \in DOMAIN t[j] : t[j][x] = e /\ Behindhand(t, p, j, x)
      BY DEF Passed
    <3>2. PICK x \in DOMAIN t[j] : t[j][x] = e /\ Behindhand(t, p, j, x)
      BY <3>1
    <3>3. Behindhand(t, q, j, x)
      BY <1>1, <1>8, <3>2
    <3> QED BY <3>2, <3>3 DEF Passed
  <2>3. k \in Passed(t, q)
    BY <1>1, <1>2, <1>4, <1>5, <1>9 DEF Passed
  <2> QED BY <2>1, <2>2, <2>3
<1> QED BY <1>6, <1>7, <1>10, <1>11

LEMMA AllPassed ==
  ASSUME NEW t, NEW n, IsTable(t, n), NEW p, IsPlace(t, n, p), ChainDone(t, p),
         \A j \in p.iBucket .. n - 1 : t[j] = <<>>
  PROVE  Passed(t, p) = Linked(t)
<1>1. n \in Nat /\ p.iBucket \in Nat /\ p.iBucket <= n /\ DOMAIN t = 0 .. n - 1
  BY DEF IsPlace, AtStart, IsTable
<1>2. ASSUME NEW k \in Linked(t) PROVE k \in Passed(t, p)
  <2>1. PICK j \in 0 .. n - 1 : k \in ToSet(t[j])
    BY <1>1 DEF Linked
  <2>2. PICK x \in DOMAIN t[j] : t[j][x] = k
    BY <2>1 DEF ToSet
  <2>3. DOMAIN t[j] = 1 .. Len(t[j]) /\ (t[j] = <<>> <=> Len(t[j]) = 0)
    BY ChainPlaces
  <2>4. t[j] # <<>>
    BY <2>3
  <2>5. j < p.iBucket
    BY <1>1, <2>4
  <2>6. Behindhand(t, p, j, x)
    BY <2>5, BehindDone
  <2> QED BY <1>1, <2>2, <2>6 DEF Passed
<1> QED BY <1>2 DEF Passed

LEMMA Moved ==
  ASSUME NEW t, NEW n, IsTable(t, n), NEW p, IsPlace(t, n, p),
         NEW q, q = MoveForward(t, n, p)
  PROVE  /\ q.jnode = Nil => Passed(t, p) = Linked(t)
         /\ q.jnode # Nil => /\ IsPlace(t, n, q) /\ q.jnode \in Key
                             /\ q.jnode \notin Passed(t, p)
                             /\ Passed(t, q) = Passed(t, p) \cup {q.jnode}
<1> DEFINE chain == t[p.iBucket - 1]
           at == CHOOSE x \in DOMAIN chain : chain[x] = p.jnode
           left == {i \in p.iBucket .. n - 1 : t[i] # <<>>}
<1>0. n \in Nat /\ Nil \notin Key /\ p.iBucket \in Nat
  BY DictionaryAssumption DEF IsTable, IsPlace, AtStart
<1>1. p.jnode # Nil => at \in DOMAIN chain /\ chain[at] = p.jnode
  <2> SUFFICES ASSUME p.jnode # Nil PROVE \E x \in DOMAIN chain : chain[x] = p.jnode
    OBVIOUS
  <2>1. p.jnode \in ToSet(chain)
    BY DEF IsPlace, AtStart
  <2> QED BY <2>1 DEF ToSet
<1>2. CASE p.jnode # Nil /\ at < Len(chain)
  <2>1. q = [p EXCEPT !.jnode = chain[at + 1]]
    BY <1>2 DEF MoveForward
  <2>3. NextInChain(t, p, q)
    BY <1>1, <1>2, <2>1 DEF NextInChain
  <2>4. /\ IsPlace(t, n, q) /\ q.jnode \in Key
        /\ q.jnode \notin Passed(t, p)
        /\ Passed(t, q) = Passed(t, p) \cup {q.jnode}
    BY <1>2, <2>3, MovedAlong
  <2> QED BY <1>0, <2>4
<1>3. CASE ~(p.jnode # Nil /\ at < Len(chain))
  <2>1. ChainDone(t, p)
    BY <1>1, <1>3 DEF ChainDone
  <2>2. CASE left = {}
    <3>1. q.jnode = Nil
      BY <1>3, <2>2 DEF MoveForward
    <3>2. \A j \in p.iBucket .. n - 1 : t[j] = <<>>
      BY <2>2
    <3>3. Passed(t, p) = Linked(t)
      BY <2>1, <3>2, AllPassed
    <3> QED BY <3>1, <3>3
  <2>3. CASE left # {}
    <3>1. q = LET i == CHOOSE i \in left : \A j \in left : i <= j
              IN  [iBucket |-> i + 1, jnode |-> Head(t[i])]
      BY <1>3, <2>3 DEF MoveForward
    <3>2. left \subseteq Nat
      BY <1>0
    <3>3. \E i \in left : \A j \in left : i <= j
      BY <2>3, <3>2, LeastNumber
    <3>4. PICK i \in left : (\A j \in left : i <= j) /\ q = [iBucket |-> i + 1, jnode |-> Head(t[i])]
      BY <3>1, <3>3
    <3>5. /\ i \in p.iBucket .. n - 1 /\ t[i] # <<>>
          /\ \A j \in p.iBucket .. n - 1 : t[j] # <<>> => i <= j
      BY <3>4
    <3>6. /\ IsPlace(t, n, q) /\ q.jnode \in Key
          /\ q.jnode \notin Passed(t, p)
          /\ Passed(t, q) = Passed(t, p) \cup {q.jnode}
      BY <2>1, <3>4, <3>5, MovedOn
    <3> QED BY <1>0, <3>6
  <2> QED BY <2>2, <2>3
<1> QED BY <1>2, <1>3

(* The copy that is made: its keys are those its enumerator has behind it. *)
CopyInv ==
  /\ TableInv
  /\ copy # Nil =>
       /\ old = NoTable /\ pending = Nil
       /\ IsPlace(buckets, nBuckets, copy.place)
       /\ count > 0 => copy.n > 0
       /\ IsTable(copy.t, copy.n)
       /\ Linked(copy.t) = Passed(buckets, copy.place)
       /\ copy = [n |-> copy.n, t |-> copy.t, place |-> copy.place]

LEMMA StartCopyInv == ASSUME CopyInv, StartCopy PROVE CopyInv'
<1>0. TableInv /\ Quiet /\ UNCHANGED table
  BY DEF CopyInv, StartCopy
<1>1. TableInv'
  BY <1>0, SameTable
<1>2. PICK n : /\ n = (IF count = 0 THEN 0 ELSE MSCapacityForCount(count))
               /\ copy' = [n |-> n, t |-> Empty(n), place |-> AtStart]
  BY DEF StartCopy
<1>3. n \in Nat /\ (count > 0 => n > 0)
  <2>1. count \in Nat
    BY <1>0, NodesFinite
  <2>2. MSCapacityForCount(count) \in Nat /\ MSCapacityForCount(count) > count
    BY <2>1, CapacityEnough
  <2> QED BY <1>2, <2>1, <2>2
<1>4. IsTable(Empty(n), n) /\ Linked(Empty(n)) = {}
  BY <1>3, TableEmpty
<1>5. IsTable(buckets, nBuckets)
  BY <1>0 DEF TableInv
<1>6. Passed(buckets, AtStart) = {}
  BY <1>5, NotBegun
<1>7. copy'.n = n /\ copy'.t = Empty(n) /\ copy'.place = AtStart
  BY <1>2
<1>8. IsPlace(buckets, nBuckets, AtStart)
  BY DEF IsPlace
<1>9. UNCHANGED <<buckets, nBuckets, count, old, pending>> /\ old = NoTable /\ pending = Nil
  BY <1>0 DEF table, Quiet
<1> QED BY <1>1, <1>2, <1>3, <1>4, <1>6, <1>7, <1>8, <1>9 DEF CopyInv

LEMMA CopyNextInv == ASSUME CopyInv, CopyNext PROVE CopyInv'
<1>0. TableInv /\ copy # Nil /\ count > 0 /\ UNCHANGED table
  BY DEF CopyInv, CopyNext
<1>1. TableInv'
  BY <1>0, SameTable
<1>2. /\ old = NoTable /\ pending = Nil
      /\ IsPlace(buckets, nBuckets, copy.place)
      /\ copy.n > 0 /\ IsTable(copy.t, copy.n)
      /\ Linked(copy.t) = Passed(buckets, copy.place)
      /\ copy = [n |-> copy.n, t |-> copy.t, place |-> copy.place]
  BY <1>0 DEF CopyInv
<1>3. PICK p : p = MoveForward(buckets, nBuckets, copy.place)
  OBVIOUS
<1>4. PICK k : k = p.jnode
  OBVIOUS
<1>5. /\ k # Nil
      /\ copy' = [copy EXCEPT !.place = p, !.t[Hash[k] % copy.n] = <<k>> \o @]
  BY <1>3, <1>4 DEF CopyNext
<1>6. IsTable(buckets, nBuckets)
  BY <1>0 DEF TableInv
<1>7. /\ IsPlace(buckets, nBuckets, p) /\ k \in Key
      /\ k \notin Passed(buckets, copy.place)
      /\ Passed(buckets, p) = Passed(buckets, copy.place) \cup {k}
  BY <1>2, <1>3, <1>4, <1>5, <1>6, Moved
<1>8. PICK u : u = [copy.t EXCEPT ![Hash[k] % copy.n] = <<k>> \o @]
  OBVIOUS
<1>9. IsTable(u, copy.n) /\ Linked(u) = Linked(copy.t) \cup {k}
  <2>1. PICK t, n : t = copy.t /\ n = copy.n
    OBVIOUS
  <2>2. IsTable(t, n) /\ n > 0 /\ k \notin Linked(t)
    BY <1>2, <1>7, <2>1
  <2>3. /\ IsTable([t EXCEPT ![Hash[k] % n] = <<k>> \o @], n)
        /\ Linked([t EXCEPT ![Hash[k] % n] = <<k>> \o @]) = Linked(t) \cup {k}
    BY ONLY <1>7, <2>2, TablePush
  <2> QED BY <1>8, <2>1, <2>3
<1>10. copy' = [n |-> copy.n, t |-> u, place |-> p]
  BY <1>2, <1>5, <1>8
<1>11. copy'.n = copy.n /\ copy'.t = u /\ copy'.place = p
  BY <1>10
<1>12. UNCHANGED <<buckets, nBuckets, count, old, pending>>
  BY <1>0 DEF table
<1> QED BY <1>1, <1>2, <1>7, <1>9, <1>10, <1>11, <1>12 DEF CopyInv

LEMMA CopyStep == ASSUME CopyInv, [Next]_vars PROVE CopyInv'
<1>0. TableInv
  BY DEF CopyInv
<1>1. CASE DictStep
  <2>1. TableInv'
    BY <1>0, <1>1, DictStepTable
  <2>2. CASE StartCopy
    BY <2>2, StartCopyInv
  <2>3. CASE CopyNext
    BY <2>3, CopyNextInv
  <2>4. CASE EndCopy
    BY <2>1, <2>4 DEF EndCopy, CopyInv
  <2>5. CASE ~(StartCopy \/ CopyNext \/ EndCopy)
    <3>1. copy' = copy
      BY <1>1, <2>5 DEF DictStep, Replace, Insert, InsertGrown, Unlink, DictFreeInside, Grow, Rehash,
                        MakeEnumerator, NextKey
    <3>2. Quiet \/ pending # Nil \/ \E i \in DOMAIN old : old[i] # <<>>
      BY <1>1, <2>5 DEF DictStep, Replace, Insert, InsertGrown, Unlink, DictFreeInside, Grow, Rehash,
                        MakeEnumerator, NextKey
    <3>3. DOMAIN NoTable = {}
      BY DEF NoTable, Empty
    <3>4. copy = Nil
      BY <3>2, <3>3 DEF CopyInv, Quiet
    <3> QED BY <2>1, <3>1, <3>4 DEF CopyInv
  <2> QED BY <2>2, <2>3, <2>4, <2>5
<1>2. CASE UNCHANGED dictVars
  <2>1. UNCHANGED table /\ UNCHANGED <<copy, buckets, nBuckets, count, old, pending>>
    BY <1>2 DEF dictVars, table
  <2>2. TableInv'
    BY <1>0, <2>1, SameTable
  <2> QED BY <2>1, <2>2 DEF CopyInv
<1>3. DictStep \/ UNCHANGED dictVars
  BY DEF Next, vars, Take, Drop
<1> QED BY <1>1, <1>2, <1>3

LEMMA CopiedAll == ASSUME CopyInv, copy # Nil, CopyEnded, ~natural PROVE EqualsCopy
<1>0. TableInv /\ IsTable(buckets, nBuckets)
  BY DEF CopyInv, TableInv
<1>1. /\ old = NoTable
      /\ IsPlace(buckets, nBuckets, copy.place)
      /\ IsTable(copy.t, copy.n)
      /\ Linked(copy.t) = Passed(buckets, copy.place)
  BY DEF CopyInv
<1>2. count = Cardinality(Linked(buckets)) /\ count \in Nat /\ IsFiniteSet(Linked(buckets))
  <2>1. Linked(NoTable) = {}
    BY TableEmpty DEF NoTable
  <2>2. Nodes = Linked(buckets)
    BY <1>1, <2>1 DEF Nodes
  <2> QED BY <1>0, <2>2, NodesFinite DEF TableInv
<1>3. Linked(copy.t) = Linked(buckets)
  <2>1. CASE count > 0
    <3>1. PICK q : q = MoveForward(buckets, nBuckets, copy.place)
      OBVIOUS
    <3>2. q.jnode = Nil
      BY <2>1, <3>1 DEF CopyEnded
    <3> QED BY <1>0, <1>1, <3>1, <3>2, Moved
  <2>2. CASE count = 0
    <3>1. Linked(buckets) = {}
      BY <1>2, <2>2, FS_EmptySet
    <3> QED BY <1>1, <3>1 DEF Passed
  <2> QED BY <1>2, <2>1, <2>2
<1>4. ASSUME NEW k \in Linked(buckets) PROVE Has(copy.t, copy.n, k)
  <2>1. k \in Key
    BY <1>0, LinkedKeys
  <2> QED BY <1>1, <1>3, <2>1, HasLinked
<1> QED BY <1>2, <1>3, <1>4 DEF EqualsCopy

(* For any keys, objects and hash function, and chains of any length: the  *)
(* loop of CDictionaryInitCopy meets each key of the dictionary once, so a *)
(* copy that has ended equals it, unless the keys are natural numbers.     *)
THEOREM CopiesEqual == Spec => []CopyEqual
<1>1. Init => CopyInv
  <2>1. Init => TableInv
    BY InitTable DEF Init
  <2> QED BY <2>1 DEF Init, DictInit, CopyInv
<1>2. CopyInv /\ [Next]_vars => CopyInv'
  BY CopyStep
<1>3. CopyInv => CopyEqual
  BY CopiedAll DEF CopyEqual
<1> QED BY <1>1, <1>2, <1>3, PTL DEF Spec

-----------------------------------------------------------------------------
(* What is behind an enumerator when the table changes. *)
Place(n, k) == Hash[k] % n

InChain(s, x, y) == x \in ToSet(s) /\ (x = y \/ Precedes(s, x, y))

LEMMA PassedIs ==
  ASSUME NEW t, NEW n, IsTable(t, n), NEW p, NEW k \in Key, n > 0
  PROVE  k \in Passed(t, p) <=>
           /\ k \in Linked(t)
           /\ \/ Place(n, k) + 1 < p.iBucket
              \/ Place(n, k) + 1 = p.iBucket /\ InChain(t[Place(n, k)], k, p.jnode)
<1>1. PICK i \in 0 .. n - 1 : i = Place(n, k)
  BY HashPlace DEF Place, IsTable
<1>2. DOMAIN t = 0 .. n - 1
  BY DEF IsTable
<1>3. DOMAIN t[i] = 1 .. Len(t[i]) /\ Len(t[i]) \in Nat
      /\ \A x, y \in 1 .. Len(t[i]) : t[i][x] = t[i][y] => x = y
  BY ChainPlaces
<1>4. k \in Linked(t) => \E x \in DOMAIN t[i] : t[i][x] = k
  <2> SUFFICES ASSUME k \in Linked(t) PROVE \E x \in DOMAIN t[i] : t[i][x] = k
    OBVIOUS
  <2>1. PICK j \in 0 .. n - 1 : k \in ToSet(t[j])
    BY LinkedKeys
  <2>2. j = i
    BY <1>1, <2>1 DEF IsTable, Place
  <2> QED BY <2>1, <2>2 DEF ToSet
<1>5. ASSUME NEW j \in 0 .. n - 1, NEW x \in DOMAIN t[j], t[j][x] = k
      PROVE  j = i
  <2>1. k \in ToSet(t[j])
    BY <1>5 DEF ToSet
  <2> QED BY <1>1, <2>1 DEF IsTable, Place
<1>6. ASSUME NEW x \in DOMAIN t[i], t[i][x] = k
      PROVE  (\E y \in DOMAIN t[i] : t[i][y] = p.jnode /\ x <= y) <=> InChain(t[i], k, p.jnode)
  <2>1. k \in ToSet(t[i])
    BY <1>6 DEF ToSet
  <2>2. ASSUME NEW y \in DOMAIN t[i], t[i][y] = p.jnode, x <= y
        PROVE  k = p.jnode \/ Precedes(t[i], k, p.jnode)
    <3>1. x = y \/ x < y
      BY <1>3, <2>2
    <3> QED BY <1>6, <2>2, <3>1 DEF Precedes
  <2>3. ASSUME k = p.jnode PROVE \E y \in DOMAIN t[i] : t[i][y] = p.jnode /\ x <= y
    BY <1>3, <1>6, <2>3
  <2>4. ASSUME Precedes(t[i], k, p.jnode) PROVE \E y \in DOMAIN t[i] : t[i][y] = p.jnode /\ x <= y
    <3>1. PICK a \in DOMAIN t[i], b \in DOMAIN t[i] : a < b /\ t[i][a] = k /\ t[i][b] = p.jnode
      BY <2>4 DEF Precedes
    <3>2. a = x
      BY <1>3, <1>6, <3>1
    <3>3. x <= b
      BY <1>3, <3>1, <3>2
    <3> QED BY <3>1, <3>3
  <2> QED BY <2>1, <2>2, <2>3, <2>4 DEF InChain
<1>7. ASSUME k \in Passed(t, p)
      PROVE  k \in Linked(t) /\ (i + 1 < p.iBucket \/ (i + 1 = p.iBucket /\ InChain(t[i], k, p.jnode)))
  <2>1. k \in Linked(t)
    BY <1>7 DEF Passed
  <2>2. PICK j \in DOMAIN t : \E x \in DOMAIN t[j] : t[j][x] = k /\ Behindhand(t, p, j, x)
    BY <1>7 DEF Passed
  <2>3. PICK x \in DOMAIN t[j] : t[j][x] = k /\ Behindhand(t, p, j, x)
    BY <2>2
  <2>4. j = i
    BY <1>2, <1>5, <2>3
  <2>5. x \in DOMAIN t[i] /\ t[i][x] = k /\ Behindhand(t, p, i, x)
    BY <2>3, <2>4
  <2> QED BY <1>6, <2>1, <2>5 DEF Behindhand
<1>8. ASSUME k \in Linked(t), i + 1 < p.iBucket \/ (i + 1 = p.iBucket /\ InChain(t[i], k, p.jnode))
      PROVE  k \in Passed(t, p)
  <2>1. PICK x \in DOMAIN t[i] : t[i][x] = k
    BY <1>4, <1>8
  <2>2. Behindhand(t, p, i, x)
    BY <1>6, <1>8, <2>1 DEF Behindhand
  <2> QED BY <1>2, <1>8, <2>1, <2>2 DEF Passed
<1> QED BY <1>1, <1>7, <1>8

LEMMA FrontChain ==
  ASSUME NEW s \in Seq(Key), NEW k \in Key, k \notin ToSet(s), NEW y \in ToSet(s), NEW x \in Key, IsInjective(s)
  PROVE  InChain(<<k>> \o s, x, y) <=> x = k \/ InChain(s, x, y)
<1> DEFINE r == <<k>> \o s
<1>1. /\ Len(s) \in Nat /\ DOMAIN s = 1 .. Len(s)
      /\ DOMAIN r = 1 .. Len(s) + 1 /\ r[1] = k
      /\ \A i \in 1 .. Len(s) : r[i + 1] = s[i]
      /\ \A i \in 2 .. Len(s) + 1 : r[i] = s[i - 1]
  <2>1. <<k>> \in Seq(Key) /\ Len(<<k>>) = 1 /\ <<k>>[1] = k
    OBVIOUS
  <2>2. /\ Len(r) = 1 + Len(s) /\ r \in Seq(Key)
        /\ \A i \in 1 .. 1 + Len(s) : r[i] = IF i <= 1 THEN <<k>>[i] ELSE s[i - 1]
    BY <2>1, ConcatProperties
  <2>3. Len(s) \in Nat /\ DOMAIN s = 1 .. Len(s) /\ DOMAIN r = 1 .. Len(r)
    BY <2>2, LenProperties
  <2> HIDE DEF r
  <2>4. \A i \in 1 .. Len(s) : r[i + 1] = s[i]
    <3> TAKE i \in 1 .. Len(s)
    <3>1. i + 1 \in 1 .. 1 + Len(s) /\ ~(i + 1 <= 1) /\ (i + 1) - 1 = i
      BY <2>3
    <3> QED BY <2>2, <3>1
  <2> QED BY <2>1, <2>2, <2>3, <2>4
<1>2. ToSet(r) = ToSet(s) \cup {k}
  BY PushedFront
<1> HIDE DEF r
<1>3. \E b \in DOMAIN r : r[b] = y /\ 1 < b
  <2>1. PICK b \in DOMAIN s : s[b] = y
    BY DEF ToSet
  <2>2. b + 1 \in DOMAIN r /\ r[b + 1] = y /\ 1 < b + 1
    BY <1>1, <2>1
  <2> QED BY <2>2
<1>4. x = k => InChain(r, x, y)
  <2>1. 1 \in DOMAIN r /\ r[1] = k
    BY <1>1
  <2>2. Precedes(r, k, y)
    BY <1>3, <2>1 DEF Precedes
  <2> QED BY <1>2, <2>2 DEF InChain
<1>5. ASSUME Precedes(s, x, y) PROVE Precedes(r, x, y)
  <2>1. PICK a \in DOMAIN s, b \in DOMAIN s : a < b /\ s[a] = x /\ s[b] = y
    BY <1>5 DEF Precedes
  <2>2. a + 1 \in DOMAIN r /\ b + 1 \in DOMAIN r /\ a + 1 < b + 1 /\ r[a + 1] = x /\ r[b + 1] = y
    BY <1>1, <2>1
  <2> QED BY <2>2 DEF Precedes
<1>6. ASSUME Precedes(r, x, y), x # k PROVE Precedes(s, x, y)
  <2>1. PICK a \in DOMAIN r, b \in DOMAIN r : a < b /\ r[a] = x /\ r[b] = y
    BY <1>6 DEF Precedes
  <2>2. a \in 2 .. Len(s) + 1 /\ b \in 2 .. Len(s) + 1
    BY <1>1, <1>6, <2>1
  <2>3. a - 1 \in DOMAIN s /\ b - 1 \in DOMAIN s /\ a - 1 < b - 1 /\ s[a - 1] = x /\ s[b - 1] = y
    BY <1>1, <2>1, <2>2
  <2> QED BY <2>3 DEF Precedes
<1>7. x # k => (InChain(r, x, y) <=> InChain(s, x, y))
  BY <1>2, <1>5, <1>6 DEF InChain
<1> QED BY <1>4, <1>7 DEF r

LEMMA OneOrder ==
  ASSUME NEW s \in Seq(Key), IsInjective(s), NEW x \in ToSet(s), NEW y \in ToSet(s), x # y
  PROVE  Precedes(s, x, y) <=> ~Precedes(s, y, x)
<1>1. Len(s) \in Nat /\ DOMAIN s = 1 .. Len(s)
  BY LenProperties
<1>2. PICK a \in DOMAIN s : s[a] = x
  BY DEF ToSet
<1>3. PICK b \in DOMAIN s : s[b] = y
  BY DEF ToSet
<1>4. /\ \A i \in DOMAIN s : s[i] = x => i = a
      /\ \A i \in DOMAIN s : s[i] = y => i = b
  BY <1>2, <1>3 DEF IsInjective
<1>5. (Precedes(s, x, y) <=> a < b) /\ (Precedes(s, y, x) <=> b < a)
  BY <1>2, <1>3, <1>4 DEF Precedes
<1> QED BY <1>1, <1>2, <1>3, <1>5

LEMMA WithoutChain ==
  ASSUME NEW s \in Seq(Key), IsInjective(s), NEW k, NEW y \in ToSet(s), y # k, NEW x
  PROVE  InChain(Without(s, k), x, y) <=> x # k /\ InChain(s, x, y)
<1>1. /\ Without(s, k) \in Seq(Key) /\ IsInjective(Without(s, k))
      /\ ToSet(Without(s, k)) = ToSet(s) \ {k}
  BY WithoutElements
<1>2. ASSUME x \in ToSet(s), x # k, x # y
      PROVE  Precedes(Without(s, k), x, y) <=> Precedes(s, x, y)
  <2>1. Precedes(s, x, y) => Precedes(Without(s, k), x, y)
    BY <1>2, WithoutOrder
  <2>2. Precedes(s, y, x) => Precedes(Without(s, k), y, x)
    BY <1>2, WithoutOrder
  <2>3. Precedes(s, x, y) <=> ~Precedes(s, y, x)
    BY <1>2, OneOrder
  <2>4. Precedes(Without(s, k), x, y) <=> ~Precedes(Without(s, k), y, x)
    BY <1>1, <1>2, OneOrder
  <2> QED BY <2>1, <2>2, <2>3, <2>4
<1> QED BY <1>1, <1>2 DEF InChain

Pushed(t, n, k) == [t EXCEPT ![Place(n, k)] = <<k>> \o @]
Unlinked(t, n, k) == [t EXCEPT ![Place(n, k)] = Without(@, k)]

LEMMA StaysPlace ==
  ASSUME NEW t, NEW n, IsTable(t, n), NEW p, IsPlace(t, n, p), p # AtStart
  PROVE  /\ p \in [iBucket : 1 .. n, jnode : Key] /\ p.iBucket - 1 \in 0 .. n - 1
         /\ p.jnode \in ToSet(t[p.iBucket - 1])
         /\ n \in Nat /\ n > 0
<1>1. p \in [iBucket : 1 .. n, jnode : Key] /\ p.jnode \in ToSet(t[p.iBucket - 1])
  BY DEF IsPlace
<1>2. n \in Nat
  BY DEF IsTable
<1> QED BY <1>1, <1>2

LEMMA PassedLinked ==
  ASSUME NEW t, NEW n, IsTable(t, n), NEW p
  PROVE  Passed(t, p) \subseteq Linked(t) /\ Passed(t, p) \subseteq Key
<1>1. Linked(t) \subseteq Key
  BY LinkedKeys
<1> QED BY <1>1 DEF Passed

LEMMA PushPassed ==
  ASSUME NEW t, NEW n, IsTable(t, n), n > 0, NEW k \in Key, k \notin Linked(t),
         NEW p, IsPlace(t, n, p),
         NEW u, u = Pushed(t, n, k)
  PROVE  /\ IsTable(u, n) /\ Linked(u) = Linked(t) \cup {k}
         /\ IsPlace(u, n, p)
         /\ \A e \in Key : e \in Passed(u, p) <=> e \in Passed(t, p) \/ (e = k /\ Place(n, k) < p.iBucket)
<1>1. IsTable(u, n) /\ Linked(u) = Linked(t) \cup {k}
  BY TablePush DEF Place, Pushed
<1>2. PICK h \in 0 .. n - 1 : h = Place(n, k)
  BY HashPlace DEF Place, IsTable
<1>3. /\ t[h] \in Seq(Key) /\ IsInjective(t[h]) /\ n \in Nat
      /\ u[h] = <<k>> \o t[h]
      /\ \A j \in 0 .. n - 1 : j # h => u[j] = t[j]
  BY <1>2 DEF IsTable, Pushed, Unlinked
<1>4. k \notin ToSet(t[h])
  BY LinkedKeys
<1>5. ToSet(u[h]) = ToSet(t[h]) \cup {k}
  BY <1>3, <1>4, PushedFront
<1>6. CASE p = AtStart
  <2>1. Passed(t, p) = {} /\ Passed(u, p) = {} /\ p.iBucket = 0
    BY <1>1, <1>6, NotBegun DEF AtStart
  <2>2. ~(Place(n, k) < p.iBucket)
    BY <1>2, <2>1
  <2> QED BY <1>1, <1>6, <2>1, <2>2 DEF IsPlace
<1>7. CASE p # AtStart
  <2>1. PICK b \in 0 .. n - 1 : p.iBucket = b + 1 /\ p.iBucket - 1 = b /\ p \in [iBucket : 1 .. n, jnode : Key]
    BY <1>7, StaysPlace
  <2>2. PICK j : j = p.jnode /\ j \in ToSet(t[b])
    BY <1>7, <2>1, StaysPlace
  <2>3. j \in ToSet(u[b])
    BY <1>3, <1>5, <2>2
  <2>4. IsPlace(u, n, p)
    BY <2>1, <2>2, <2>3 DEF IsPlace
  <2>5. ASSUME NEW e \in Key
        PROVE  e \in Passed(u, p) <=> e \in Passed(t, p) \/ (e = k /\ Place(n, k) < p.iBucket)
    <3>1. PICK i \in 0 .. n - 1 : i = Place(n, e)
      BY HashPlace DEF Place, IsTable
    <3>2. /\ e \in Passed(u, p) <=> /\ e \in Linked(u)
                                    /\ i + 1 < p.iBucket \/ (i + 1 = p.iBucket /\ InChain(u[i], e, j))
          /\ e \in Passed(t, p) <=> /\ e \in Linked(t)
                                    /\ i + 1 < p.iBucket \/ (i + 1 = p.iBucket /\ InChain(t[i], e, j))
      <4>1. e \in Passed(u, p) <=> /\ e \in Linked(u)
                                   /\ \/ Place(n, e) + 1 < p.iBucket
                                      \/ Place(n, e) + 1 = p.iBucket /\ InChain(u[Place(n, e)], e, p.jnode)
        BY ONLY <1>1, n > 0, e \in Key, PassedIs
      <4>2. e \in Passed(t, p) <=> /\ e \in Linked(t)
                                   /\ \/ Place(n, e) + 1 < p.iBucket
                                      \/ Place(n, e) + 1 = p.iBucket /\ InChain(t[Place(n, e)], e, p.jnode)
        BY PassedIs
      <4> QED BY <2>2, <3>1, <4>1, <4>2
    <3>3. e = k => i = h
      BY <1>2, <3>1
    <3>4. CASE i = b
      <4>1. InChain(u[i], e, j) <=> e = k \/ InChain(t[i], e, j)
        <5>1. CASE i = h
          <6>1. PICK s \in Seq(Key) : s = t[h]
            BY <1>3
          <6>2. IsInjective(s) /\ k \notin ToSet(s) /\ j \in ToSet(s)
            BY <1>3, <1>4, <2>2, <3>4, <5>1, <6>1
          <6>3. InChain(<<k>> \o s, e, j) <=> e = k \/ InChain(s, e, j)
            BY ONLY <6>2, s \in Seq(Key), k \in Key, e \in Key, FrontChain
          <6> QED BY <1>3, <5>1, <6>1, <6>3
        <5>2. CASE i # h
          BY <1>3, <3>3, <5>2
        <5> QED BY <5>1, <5>2
      <4>2. i + 1 = p.iBucket /\ ~(i + 1 < p.iBucket)
        BY <2>1, <3>4
      <4>3. e = k => Place(n, k) < p.iBucket
        BY <1>2, <2>1, <3>3, <3>4
      <4> QED BY <1>1, <3>2, <4>1, <4>2, <4>3
    <3>5. CASE i # b
      <4>1. i + 1 # p.iBucket
        BY <2>1, <3>5
      <4>2. e = k => (Place(n, k) < p.iBucket <=> i + 1 < p.iBucket)
        BY <1>2, <2>1, <3>3, <3>5
      <4> QED BY <1>1, <3>2, <4>1, <4>2
    <3> QED BY <3>4, <3>5
  <2> QED BY <1>1, <2>4, <2>5
<1> QED BY <1>6, <1>7

LEMMA UnlinkPassed ==
  ASSUME NEW t, NEW n, IsTable(t, n), n > 0, NEW k \in Key,
         NEW p, IsPlace(t, n, p), p.jnode # k,
         NEW u, u = Unlinked(t, n, k)
  PROVE  /\ IsTable(u, n) /\ Linked(u) = Linked(t) \ {k}
         /\ IsPlace(u, n, p)
         /\ \A e \in Key : e \in Passed(u, p) <=> e \in Passed(t, p) /\ e # k
<1>1. IsTable(u, n) /\ Linked(u) = Linked(t) \ {k}
  BY TableUnlink DEF Place, Unlinked
<1>2. PICK h \in 0 .. n - 1 : h = Place(n, k)
  BY HashPlace DEF Place, IsTable
<1>3. /\ t[h] \in Seq(Key) /\ IsInjective(t[h]) /\ n \in Nat
      /\ u[h] = Without(t[h], k)
      /\ \A j \in 0 .. n - 1 : j # h => u[j] = t[j]
  BY <1>2 DEF IsTable, Pushed, Unlinked
<1>5. ToSet(u[h]) = ToSet(t[h]) \ {k}
  BY <1>3, WithoutElements
<1>6. CASE p = AtStart
  <2>1. Passed(t, p) = {} /\ Passed(u, p) = {}
    BY <1>1, <1>6, NotBegun
  <2> QED BY <1>1, <1>6, <2>1 DEF IsPlace
<1>7. CASE p # AtStart
  <2>1. PICK b \in 0 .. n - 1 : p.iBucket = b + 1 /\ p.iBucket - 1 = b /\ p \in [iBucket : 1 .. n, jnode : Key]
    BY <1>7, StaysPlace
  <2>2. PICK j : j = p.jnode /\ j \in ToSet(t[b])
    BY <1>7, <2>1, StaysPlace
  <2>3. j \in ToSet(u[b]) /\ j # k
    BY <1>3, <1>5, <2>2
  <2>4. IsPlace(u, n, p)
    BY <2>1, <2>2, <2>3 DEF IsPlace
  <2>5. ASSUME NEW e \in Key
        PROVE  e \in Passed(u, p) <=> e \in Passed(t, p) /\ e # k
    <3>1. PICK i \in 0 .. n - 1 : i = Place(n, e)
      BY HashPlace DEF Place, IsTable
    <3>2. /\ e \in Passed(u, p) <=> /\ e \in Linked(u)
                                    /\ i + 1 < p.iBucket \/ (i + 1 = p.iBucket /\ InChain(u[i], e, j))
          /\ e \in Passed(t, p) <=> /\ e \in Linked(t)
                                    /\ i + 1 < p.iBucket \/ (i + 1 = p.iBucket /\ InChain(t[i], e, j))
      <4>1. e \in Passed(u, p) <=> /\ e \in Linked(u)
                                   /\ \/ Place(n, e) + 1 < p.iBucket
                                      \/ Place(n, e) + 1 = p.iBucket /\ InChain(u[Place(n, e)], e, p.jnode)
        BY ONLY <1>1, n > 0, e \in Key, PassedIs
      <4>2. e \in Passed(t, p) <=> /\ e \in Linked(t)
                                   /\ \/ Place(n, e) + 1 < p.iBucket
                                      \/ Place(n, e) + 1 = p.iBucket /\ InChain(t[Place(n, e)], e, p.jnode)
        BY PassedIs
      <4> QED BY <2>2, <3>1, <4>1, <4>2
    <3>4. CASE i = b
      <4>1. CASE i = h
        <5>1. InChain(u[i], e, j) <=> e # k /\ InChain(t[i], e, j)
          <6>1. PICK s \in Seq(Key) : s = t[h]
            BY <1>3
          <6>2. IsInjective(s) /\ j # k /\ j \in ToSet(s)
            BY <1>3, <2>2, <2>3, <3>4, <4>1, <6>1
          <6>3. InChain(Without(s, k), e, j) <=> e # k /\ InChain(s, e, j)
            BY ONLY <6>2, s \in Seq(Key), WithoutChain
          <6> QED BY <1>3, <4>1, <6>1, <6>3
        <5> QED BY <1>1, <3>2, <5>1, <2>1, <3>4
      <4>2. CASE i # h
        <5>1. e # k /\ u[i] = t[i]
          BY <1>2, <1>3, <3>1, <4>2
        <5> QED BY <1>1, <3>2, <5>1
      <4> QED BY <4>1, <4>2
    <3>5. CASE i # b
      <4>1. i + 1 # p.iBucket
        BY <2>1, <3>5
      <4> QED BY <1>1, <3>2, <4>1
    <3> QED BY <3>4, <3>5
  <2> QED BY <1>1, <2>4, <2>5
<1> QED BY <1>6, <1>7

LEMMA MovedFurther ==
  ASSUME NEW t, NEW n, IsTable(t, n), NEW p, IsPlace(t, n, p),
         NEW q, q = MoveForward(t, n, p)
  PROVE  p.iBucket \in Nat /\ q.iBucket \in Nat /\ p.iBucket <= q.iBucket
<1> DEFINE chain == t[p.iBucket - 1]
           at == CHOOSE x \in DOMAIN chain : chain[x] = p.jnode
           left == {i \in p.iBucket .. n - 1 : t[i] # <<>>}
<1>0. n \in Nat /\ p.iBucket \in Nat /\ p.iBucket <= n
  BY DEF IsTable, IsPlace, AtStart
<1>p. p = [iBucket |-> p.iBucket, jnode |-> p.jnode]
  BY DEF IsPlace, AtStart
<1>1. CASE p.jnode # Nil /\ at < Len(chain)
  <2>1. q = [p EXCEPT !.jnode = chain[at + 1]]
    BY <1>1 DEF MoveForward
  <2>2. q.iBucket = p.iBucket
    BY <1>p, <2>1
  <2> QED BY <1>0, <2>2
<1>2. CASE ~(p.jnode # Nil /\ at < Len(chain)) /\ left = {}
  <2>1. q = [iBucket |-> n, jnode |-> Nil]
    BY <1>2 DEF MoveForward
  <2> QED BY <1>0, <2>1
<1>3. CASE ~(p.jnode # Nil /\ at < Len(chain)) /\ left # {}
  <2>1. q = LET i == CHOOSE i \in left : \A j \in left : i <= j
            IN  [iBucket |-> i + 1, jnode |-> Head(t[i])]
    BY <1>3 DEF MoveForward
  <2>2. left \subseteq Nat
    BY <1>0
  <2>3. \E i \in left : \A j \in left : i <= j
    BY <1>3, <2>2, LeastNumber
  <2>4. PICK i \in left : q = [iBucket |-> i + 1, jnode |-> Head(t[i])]
    BY <2>1, <2>3
  <2> QED BY <1>0, <2>4
<1> QED BY <1>1, <1>2, <1>3

-----------------------------------------------------------------------------
(* An enumeration at p, in a table that changes: what is due and behind it *)
(* has been met; what it has met and is there is behind it, and what it    *)
(* has met and is not there would come behind it.                          *)
WalkRight(t, n, p, m, d) ==
  /\ IsPlace(t, n, p)
  /\ d \subseteq Linked(t)
  /\ d \cap Passed(t, p) \subseteq m
  /\ m \subseteq Key
  /\ \A k \in m : Place(n, k) < p.iBucket
  /\ m \cap Linked(t) \subseteq Passed(t, p)

WalkInv ==
  /\ TableInv
  /\ pending # Nil \/ old # NoTable => place = Nil
  /\ place # Nil => walking = "on" /\ WalkRight(buckets, nBuckets, place, met, due)

LEMMA WalkBegun ==
  ASSUME NEW t, NEW n, IsTable(t, n)
  PROVE  WalkRight(t, n, AtStart, {}, Linked(t))
<1>1. Passed(t, AtStart) = {}
  BY NotBegun
<1> QED BY <1>1 DEF WalkRight, IsPlace

LEMMA WalkPush ==
  ASSUME NEW t, NEW n, IsTable(t, n), n > 0, NEW k \in Key, k \notin Linked(t),
         NEW p, NEW m, NEW d, WalkRight(t, n, p, m, d)
  PROVE  WalkRight(Pushed(t, n, k), n, p, m, d)
<1>1. PICK u : u = Pushed(t, n, k)
  OBVIOUS
<1>2. IsPlace(t, n, p)
  BY DEF WalkRight
<1>3. /\ Linked(u) = Linked(t) \cup {k}
      /\ IsPlace(u, n, p)
      /\ \A e \in Key : e \in Passed(u, p) <=> e \in Passed(t, p) \/ (e = k /\ Place(n, k) < p.iBucket)
  BY <1>1, <1>2, PushPassed
<1>4. Linked(t) \subseteq Key
  BY LinkedKeys
<1>5. WalkRight(u, n, p, m, d)
  BY <1>3, <1>4 DEF WalkRight
<1> QED BY <1>1, <1>5

LEMMA WalkUnlink ==
  ASSUME NEW t, NEW n, IsTable(t, n), n > 0, NEW k \in Key,
         NEW p, p.jnode # k, NEW m, NEW d, WalkRight(t, n, p, m, d)
  PROVE  WalkRight(Unlinked(t, n, k), n, p, m, d \ {k})
<1>1. PICK u : u = Unlinked(t, n, k)
  OBVIOUS
<1>2. IsPlace(t, n, p)
  BY DEF WalkRight
<1>3. /\ Linked(u) = Linked(t) \ {k}
      /\ IsPlace(u, n, p)
      /\ \A e \in Key : e \in Passed(u, p) <=> e \in Passed(t, p) /\ e # k
  BY <1>1, <1>2, UnlinkPassed
<1>4. Linked(t) \subseteq Key
  BY LinkedKeys
<1>5. WalkRight(u, n, p, m, d \ {k})
  BY <1>3, <1>4 DEF WalkRight
<1> QED BY <1>1, <1>5

LEMMA WalkOn ==
  ASSUME NEW t, NEW n, IsTable(t, n), NEW p, NEW m, NEW d, WalkRight(t, n, p, m, d),
         NEW q, q = MoveForward(t, n, p)
  PROVE  /\ q.jnode = Nil => d \subseteq m
         /\ q.jnode # Nil => /\ WalkRight(t, n, q, m \cup {q.jnode}, d)
                             /\ q.jnode \in Linked(t) \ m
<1>1. IsPlace(t, n, p) /\ d \subseteq Linked(t) /\ d \cap Passed(t, p) \subseteq m /\ m \subseteq Key
      /\ (\A k \in m : Place(n, k) < p.iBucket) /\ m \cap Linked(t) \subseteq Passed(t, p)
  BY DEF WalkRight
<1>2. CASE q.jnode = Nil
  <2>1. Passed(t, p) = Linked(t)
    BY <1>1, <1>2, Moved
  <2> QED BY <1>1, <1>2, <2>1
<1>3. CASE q.jnode # Nil
  <2>1. PICK k \in Key : k = q.jnode
    BY <1>1, <1>3, Moved
  <2>2. IsPlace(t, n, q) /\ k \notin Passed(t, p) /\ Passed(t, q) = Passed(t, p) \cup {k}
    BY <1>1, <1>3, <2>1, Moved
  <2>3. k \in Linked(t) /\ k \in Passed(t, q)
    BY <2>2, PassedLinked
  <2>4. p.iBucket \in Nat /\ q.iBucket \in Nat /\ p.iBucket <= q.iBucket
    BY <1>1, MovedFurther
  <2>5. n \in Nat /\ n > 0
    <3>1. PICK i \in 0 .. n - 1 : k \in ToSet(t[i])
      BY <2>3, LinkedKeys
    <3> QED BY <3>1 DEF IsTable
  <2>6. \A e \in Key : Place(n, e) \in Nat
    BY <2>5, HashPlace DEF Place
  <2>7. Place(n, k) < q.iBucket
    <3>1. Place(n, k) + 1 < q.iBucket \/ Place(n, k) + 1 = q.iBucket
      BY <2>3, <2>5, PassedIs
    <3> QED BY <2>4, <2>6, <3>1
  <2>8. \A e \in m : Place(n, e) < q.iBucket
    BY <1>1, <2>4, <2>6
  <2>9. WalkRight(t, n, q, m \cup {k}, d)
    BY <1>1, <2>2, <2>7, <2>8 DEF WalkRight
  <2> QED BY <1>1, <1>3, <2>1, <2>2, <2>3, <2>9
<1> QED BY <1>2, <1>3

(* What CDictionaryObjectForKey answers is what the node holds. *)
LEMMA LookupIs ==
  ASSUME NEW t, NEW n, IsTable(t, n), NEW o, NEW m, IsTable(o, m),
         NEW f, f \in [Key -> Value \cup {Nil}],
         \A k \in Key : f[k] # Nil <=> k \in Linked(t) \cup Linked(o)
  PROVE  [k \in Key |-> IF Has(t, n, k) \/ Has(o, Cardinality(DOMAIN o), k) THEN f[k] ELSE Nil] = f
<1>1. Cardinality(DOMAIN o) = m
  BY TableSize DEF IsTable
<1>2. ASSUME NEW k \in Key
      PROVE  (Has(t, n, k) <=> k \in Linked(t)) /\ (Has(o, m, k) <=> k \in Linked(o))
  BY HasLinked
<1>3. \A k \in Key : (IF Has(t, n, k) \/ Has(o, Cardinality(DOMAIN o), k) THEN f[k] ELSE Nil) = f[k]
  <2> TAKE k \in Key
  <2>0. (Has(t, n, k) <=> k \in Linked(t)) /\ (Has(o, m, k) <=> k \in Linked(o))
    BY ONLY <1>2, k \in Key
  <2>1. Has(t, n, k) <=> k \in Linked(t)
    BY ONLY <2>0
  <2>2. Has(o, Cardinality(DOMAIN o), k) <=> k \in Linked(o)
    BY ONLY <1>1, <2>0
  <2>3. f[k] # Nil <=> k \in Linked(t) \/ k \in Linked(o)
    OBVIOUS
  <2> QED BY ONLY <2>1, <2>2, <2>3
<1> QED BY <1>3

LEMMA ContentsAre == ASSUME TableInv PROVE Contents = value
<1>1. PICK m : IsTable(old, m)
  BY DEF TableInv
<1> QED BY <1>1, LookupIs DEF TableInv, Nodes, Contents, Lookup

LEMMA ContentsBecome == ASSUME TableInv' PROVE Contents' = value'
<1>1. PICK t, n, o, f : t = buckets' /\ n = nBuckets' /\ o = old' /\ f = value'
  OBVIOUS
<1>2. /\ IsTable(t, n) /\ \E m \in Nat : IsTable(o, m)
      /\ f \in [Key -> Value \cup {Nil}]
      /\ \A k \in Key : f[k] # Nil <=> k \in Linked(t) \cup Linked(o)
  BY <1>1 DEF TableInv, Nodes
<1>3. PICK m : IsTable(o, m)
  BY <1>2
<1>4. [k \in Key |-> IF Has(t, n, k) \/ Has(o, Cardinality(DOMAIN o), k) THEN f[k] ELSE Nil] = f
  BY <1>2, <1>3, LookupIs
<1> QED BY <1>1, <1>4 DEF Contents, Lookup, Has

LEMMA InitMap == ASSUME Init PROVE WalkInv /\ Map!Init
<1>1. TableInv
  BY InitTable DEF Init
<1>2. Contents = value
  BY <1>1, ContentsAre
<1> QED BY <1>1, <1>2 DEF Init, DictInit, WalkInv, Map!Init

(* Each step is one of the map and keeps the invariant. *)
MapStep == WalkInv' /\ [Map!Next]_(Map!vars)

LEMMA SameMap ==
  ASSUME WalkInv, TableInv', UNCHANGED <<buckets, nBuckets, value, pending, old>>, UNCHANGED walk
  PROVE  MapStep
<1>1. Contents' = Contents
  BY ContentsAre, ContentsBecome DEF WalkInv
<1>2. UNCHANGED <<place, walking, met, due>>
  BY DEF walk
<1> QED BY <1>1, <1>2 DEF MapStep, WalkInv, Map!vars

LEMMA GivenUp ==
  ASSUME WalkInv, TableInv', UNCHANGED value, WalkOver("no")
  PROVE  MapStep
<1>1. Contents' = Contents
  BY ContentsAre, ContentsBecome DEF WalkInv
<1> QED BY <1>1 DEF MapStep, WalkInv, WalkOver, Map!Next, Map!Drop, Map!Over

LEMMA PushMap ==
  ASSUME WalkInv, TableInv', nBuckets > 0, NEW k \in Key, NEW v \in Value, k \notin Linked(buckets),
         Push(k, v), UNCHANGED <<nBuckets, walk>>, UNCHANGED old, pending' = Nil
  PROVE  MapStep
<1>1. Contents = value /\ Contents' = value'
  BY ContentsAre, ContentsBecome DEF WalkInv
<1>2. /\ buckets' = Pushed(buckets, nBuckets, k)
      /\ value' = [value EXCEPT ![k] = v]
      /\ UNCHANGED <<place, walking, met, due>>
  BY DEF Push, walk, Place, Pushed
<1>3. Map!Put(k, v)
  BY <1>1, <1>2 DEF Map!Put
<1>4. IsTable(buckets, nBuckets)
  BY DEF WalkInv, TableInv
<1>5. place # Nil => WalkRight(buckets', nBuckets, place, met, due)
  <2> SUFFICES ASSUME place # Nil PROVE WalkRight(buckets', nBuckets, place, met, due)
    OBVIOUS
  <2>1. WalkRight(buckets, nBuckets, place, met, due)
    BY DEF WalkInv
  <2>2. WalkRight(Pushed(buckets, nBuckets, k), nBuckets, place, met, due)
    BY <1>4, <2>1, WalkPush
  <2> QED BY <1>2, <2>2
<1>6. WalkInv'
  BY <1>2, <1>5 DEF WalkInv
<1> QED BY <1>3, <1>6 DEF MapStep, Map!Next

LEMMA ReplaceMap ==
  ASSUME WalkInv, TableInv', NEW k \in Key, NEW v \in Value, Replace(k, v)
  PROVE  MapStep
<1>1. Contents = value /\ Contents' = value'
  BY ContentsAre, ContentsBecome DEF WalkInv
<1>2. value' = [value EXCEPT ![k] = v] /\ UNCHANGED <<place, walking, met, due, buckets, nBuckets, old, pending>>
  BY DEF Replace, walk
<1>3. Map!Put(k, v)
  BY <1>1, <1>2 DEF Map!Put
<1>4. WalkInv'
  BY <1>2 DEF WalkInv
<1> QED BY <1>3, <1>4 DEF MapStep, Map!Next

LEMMA UnlinkMap ==
  ASSUME WalkInv, TableInv', NEW k \in Key, Unlink(k)
  PROVE  MapStep
<1>1. Contents = value /\ Contents' = value'
  BY ContentsAre, ContentsBecome DEF WalkInv
<1>2. /\ buckets' = Unlinked(buckets, nBuckets, k)
      /\ value' = [value EXCEPT ![k] = Nil]
      /\ UNCHANGED <<nBuckets, old, pending>> /\ Has(buckets, nBuckets, k)
      /\ IF place # Nil /\ place.jnode = k
         THEN WalkOver("no")
         ELSE due' = due \ {k} /\ UNCHANGED <<place, walking, met>>
  BY DEF Unlink, Place, Unlinked
<1>3. IsTable(buckets, nBuckets) /\ nBuckets > 0 /\ k \in Linked(buckets)
  BY <1>2, HasLinked DEF WalkInv, TableInv, Has
<1>4. value[k] # Nil
  BY <1>3 DEF WalkInv, TableInv, Nodes
<1>5. CASE place # Nil /\ place.jnode = k
  <2>1. Map!Remove(k)
    BY <1>1, <1>2, <1>4, <1>5 DEF Map!Remove, Map!Over, WalkOver
  <2>2. WalkInv'
    BY <1>2, <1>5 DEF WalkInv, WalkOver
  <2> QED BY <2>1, <2>2 DEF MapStep, Map!Next
<1>6. CASE ~(place # Nil /\ place.jnode = k)
  <2>1. Map!Remove(k)
    BY <1>1, <1>2, <1>4, <1>6 DEF Map!Remove
  <2>2. place # Nil => WalkRight(buckets', nBuckets, place, met, due')
    <3> SUFFICES ASSUME place # Nil PROVE WalkRight(buckets', nBuckets, place, met, due')
      OBVIOUS
    <3>1. WalkRight(buckets, nBuckets, place, met, due)
      BY DEF WalkInv
    <3>2. WalkRight(Unlinked(buckets, nBuckets, k), nBuckets, place, met, due \ {k})
      BY <1>3, <1>6, <3>1, WalkUnlink
    <3> QED BY <1>2, <1>6, <3>2
  <2>3. WalkInv'
    BY <1>2, <1>6, <2>2 DEF WalkInv
  <2> QED BY <2>1, <2>3 DEF MapStep, Map!Next
<1> QED BY <1>5, <1>6

LEMMA BeginMap ==
  ASSUME WalkInv, TableInv', MakeEnumerator
  PROVE  MapStep
<1>1. Contents = value /\ Contents' = value'
  BY ContentsAre, ContentsBecome DEF WalkInv
<1>2. /\ Quiet /\ UNCHANGED <<buckets, nBuckets, old, pending, value>>
      /\ place' = AtStart /\ walking' = "on" /\ met' = {} /\ due' = Linked(buckets)
  BY DEF MakeEnumerator, table
<1>3. Linked(buckets) = {k \in Key : value[k] # Nil}
  <2>1. Nodes = Linked(buckets) /\ Nodes \subseteq Key
    BY <1>2, QuietNodes, NodesFinite DEF WalkInv
  <2> QED BY <2>1 DEF WalkInv, TableInv
<1>4. Map!Begin
  BY <1>1, <1>2, <1>3 DEF Map!Begin, Map!Present
<1>5. WalkRight(buckets, nBuckets, AtStart, {}, Linked(buckets))
  BY WalkBegun DEF WalkInv, TableInv
<1>6. WalkInv'
  BY <1>2, <1>5 DEF WalkInv, Quiet
<1> QED BY <1>4, <1>6 DEF MapStep, Map!Next

LEMMA NextKeyMap ==
  ASSUME WalkInv, TableInv', NextKey
  PROVE  MapStep
<1>1. Contents = value /\ Contents' = value'
  BY ContentsAre, ContentsBecome DEF WalkInv
<1>2. PICK q : q = MoveForward(buckets, nBuckets, place)
  OBVIOUS
<1>3. /\ place # Nil /\ Quiet /\ UNCHANGED <<buckets, nBuckets, old, pending, value>>
      /\ IF q.jnode = Nil
         THEN WalkOver("ended")
         ELSE place' = q /\ met' = met \cup {q.jnode} /\ UNCHANGED <<walking, due>>
  BY <1>2 DEF NextKey, table
<1>4. walking = "on" /\ WalkRight(buckets, nBuckets, place, met, due) /\ IsTable(buckets, nBuckets)
  BY <1>3 DEF WalkInv, TableInv
<1>5. /\ q.jnode = Nil => due \subseteq met
      /\ q.jnode # Nil => /\ WalkRight(buckets, nBuckets, q, met \cup {q.jnode}, due)
                          /\ q.jnode \in Linked(buckets) \ met
  BY <1>2, <1>4, WalkOn
<1>6. CASE q.jnode = Nil
  <2>1. Map!End
    BY <1>1, <1>3, <1>4, <1>5, <1>6 DEF Map!End, Map!Over, WalkOver
  <2>2. WalkInv'
    BY <1>3, <1>6 DEF WalkInv, WalkOver
  <2> QED BY <2>1, <2>2 DEF MapStep, Map!Next
<1>7. CASE q.jnode # Nil
  <2>1. PICK k : k = q.jnode
    OBVIOUS
  <2>2. k \in Key /\ value[k] # Nil /\ k \notin met
    <3>1. k \in Linked(buckets) /\ k \notin met
      BY <1>5, <1>7, <2>1
    <3>2. k \in Key
      BY <1>4, <3>1, LinkedKeys
    <3> QED BY <3>1, <3>2 DEF WalkInv, TableInv, Nodes
  <2>3. Map!Meet(k)
    BY <1>1, <1>3, <1>4, <1>7, <2>1, <2>2 DEF Map!Meet, Map!Present
  <2>4. WalkInv'
    BY <1>3, <1>4, <1>5, <1>7 DEF WalkInv, Quiet
  <2> QED BY <2>2, <2>3, <2>4 DEF MapStep, Map!Next
<1> QED BY <1>6, <1>7

LEMMA InsertMap ==
  ASSUME WalkInv, TableInv', NEW k \in Key, NEW v \in Value, Insert(k, v)
  PROVE  MapStep
<1>1. Quiet /\ ~Has(buckets, nBuckets, k)
  BY DEF Insert
<1>2. IsTable(buckets, nBuckets) /\ k \notin Linked(buckets) /\ count \in Nat /\ nBuckets \in Nat
  BY <1>1, HasLinked, NodesFinite DEF WalkInv, TableInv, IsTable
<1>3. CASE count + 1 > nBuckets
  <2>1. UNCHANGED value /\ WalkOver("no")
    BY <1>3 DEF Insert, Reallocate
  <2> QED BY <2>1, GivenUp
<1>4. CASE ~(count + 1 > nBuckets)
  <2>1. Push(k, v) /\ UNCHANGED <<nBuckets, old, pending, walk>>
    BY <1>4 DEF Insert
  <2>2. nBuckets > 0
    BY <1>2, <1>4
  <2>3. pending' = Nil
    BY <1>1, <2>1 DEF Quiet
  <2> QED BY <1>2, <2>1, <2>2, <2>3, PushMap
<1> QED BY <1>3, <1>4

LEMMA InsertGrownMap ==
  ASSUME WalkInv, TableInv', InsertGrown
  PROVE  MapStep
<1>1. pending # Nil /\ old = NoTable /\ Push(pending[1], pending[2])
      /\ pending' = Nil /\ UNCHANGED <<nBuckets, old, walk>>
  BY DEF InsertGrown
<1>2. /\ pending \in Key \X Value /\ pending[1] \notin Nodes /\ nBuckets > 0
  BY <1>1 DEF WalkInv, TableInv
<1>3. PICK k \in Key, v \in Value : k = pending[1] /\ v = pending[2]
  BY <1>2
<1>4. k \notin Linked(buckets)
  BY <1>2, <1>3 DEF Nodes
<1>5. Push(k, v)
  BY <1>1, <1>3
<1> QED BY <1>1, <1>2, <1>4, <1>5, PushMap

LEMMA FreeMap ==
  ASSUME WalkInv, TableInv', DictFreeInside
  PROVE  MapStep
<1>1. Contents' = value'
  BY ContentsBecome
<1>2. value' = [k \in Key |-> Nil] /\ WalkOver("no")
  BY DEF DictFreeInside
<1>3. Map!Clear
  BY <1>1, <1>2 DEF Map!Clear, Map!Over, WalkOver
<1>4. WalkInv'
  BY <1>2 DEF WalkInv, WalkOver
<1> QED BY <1>3, <1>4 DEF MapStep, Map!Next

LEMMA RehashMap ==
  ASSUME WalkInv, TableInv', Rehash
  PROVE  MapStep
<1>1. Contents' = Contents
  BY ContentsAre, ContentsBecome DEF WalkInv, Rehash
<1>2. UNCHANGED <<place, walking, met, due>>
  BY DEF Rehash, walk
<1>3. old # NoTable
  BY DEF Rehash, NoTable, Empty
<1>4. place = Nil
  BY <1>3 DEF WalkInv
<1> QED BY <1>1, <1>2, <1>4 DEF MapStep, WalkInv, Map!vars

LEMMA DictStepMap ==
  ASSUME WalkInv, DictStep
  PROVE  MapStep
<1>1. TableInv'
  BY DictStepTable DEF WalkInv
<1>2. \A v \in Alive : v \in Value
  BY SharedAssumption DEF Alive
<1>3. ASSUME NEW k \in Key, NEW v \in Alive, Replace(k, v) PROVE MapStep
  BY <1>1, <1>2, <1>3, ReplaceMap
<1>4. ASSUME NEW k \in Key, NEW v \in Alive, Insert(k, v) PROVE MapStep
  BY <1>1, <1>2, <1>4, InsertMap
<1>5. ASSUME NEW k \in Key, Unlink(k) PROVE MapStep
  BY <1>1, <1>5, UnlinkMap
<1>6. CASE \E n \in 1 .. MaxGrow : Grow(n)
  BY <1>1, <1>6, GivenUp DEF Grow, Reallocate
<1>7. CASE StartCopy \/ CopyNext \/ EndCopy
  <2>1. UNCHANGED <<buckets, nBuckets, value, pending, old>> /\ UNCHANGED walk
    BY <1>7 DEF StartCopy, CopyNext, EndCopy, table
  <2> QED BY <1>1, <2>1, SameMap
<1>8. CASE InsertGrown \/ DictFreeInside \/ Rehash \/ MakeEnumerator \/ NextKey
  BY <1>1, <1>8, InsertGrownMap, FreeMap, RehashMap, BeginMap, NextKeyMap
<1> QED BY <1>3, <1>4, <1>5, <1>6, <1>7, <1>8 DEF DictStep

(* For any keys, objects and hash function: the chains, the growth node by *)
(* node and the enumerator implement a map, of which an enumeration meets  *)
(* each key once, and each that stays there from its start to its end,     *)
(* whatever is set and removed while it stands in the table.               *)
THEOREM DictionaryIsMap == Spec => ImplementsMap
<1>1. Init => WalkInv /\ Map!Init
  BY InitMap
<1>2. WalkInv /\ [Next]_vars => WalkInv' /\ [Map!Next]_(Map!vars)
  <2> SUFFICES ASSUME WalkInv, [Next]_vars PROVE MapStep
    BY DEF MapStep
  <2>1. CASE DictStep
    BY <2>1, DictStepMap
  <2>2. CASE UNCHANGED dictVars
    <3>1. UNCHANGED table /\ UNCHANGED <<buckets, nBuckets, value, pending, old>> /\ UNCHANGED walk
      BY <2>2 DEF dictVars, table
    <3>2. TableInv'
      BY <3>1, SameTable DEF WalkInv
    <3> QED BY <3>1, <3>2, SameMap
  <2>3. DictStep \/ UNCHANGED dictVars
    BY DEF Next, vars, Take, Drop
  <2> QED BY <2>1, <2>2, <2>3
<1> QED BY <1>1, <1>2, PTL DEF Spec, ImplementsMap, Map!Spec
=============================================================================
