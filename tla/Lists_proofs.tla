---------------------------- MODULE Lists_proofs ----------------------------
(***************************************************************************)
(* Induction over numbers, for definitions that go through a list; and     *)
(* what Without, WithoutAll, Append and Tail do to a list.                 *)
(***************************************************************************)
EXTENDS Lists, SequenceTheorems, WellFoundedInduction, TLAPS

(* Every set of numbers that is not empty has a least one. *)
LEMMA LeastNumber ==
  ASSUME NEW T, T \subseteq Nat, T # {}
  PROVE  \E m \in T : \A k \in T : m <= k
<1> DEFINE R == {ss \in Nat \X Nat : ss[1] < ss[2]}
<1>1. IsWellFoundedOn(R, Nat)
  BY NatLessThanWellFounded DEF OpToRel
<1> HIDE DEF R
<1>2. \E m \in T : \A k \in T : <<k, m>> \notin R
  BY <1>1, WFMin
<1>3. \A m, k \in T : <<k, m>> \notin R => m <= k
  BY DEF R
<1> QED BY <1>2, <1>3

(* Induction over the natural numbers, said with a set.                   *)
LEMMA NumbersByStep ==
  ASSUME NEW S, 0 \in S, \A n \in Nat : n \in S => n + 1 \in S
  PROVE  Nat \subseteq S
<1> SUFFICES ASSUME NEW x \in Nat, x \notin S PROVE FALSE
  OBVIOUS
<1>1. PICK m \in Nat \ S : \A k \in Nat \ S : m <= k
  BY LeastNumber
<1>2. m # 0
  OBVIOUS
<1>3. m - 1 \in Nat /\ m - 1 \in S
  BY <1>1, <1>2
<1> QED BY <1>1, <1>3

(* The same up to N. *)
LEMMA UpTo ==
  ASSUME NEW N \in Nat, NEW S, 0 \in S, \A n \in 1 .. N : n - 1 \in S => n \in S
  PROVE  0 .. N \subseteq S
<1> DEFINE T == {n \in Nat : n <= N => n \in S}
<1>1. 0 \in T OBVIOUS
<1>2. \A n \in Nat : n \in T => n + 1 \in T
  OBVIOUS
<1> HIDE DEF T
<1>3. Nat \subseteq T
  BY <1>1, <1>2, NumbersByStep
<1> QED BY <1>3 DEF T

-----------------------------------------------------------------------------
(* Append adds one element. *)
LEMMA AppendToSet ==
  ASSUME NEW S, NEW s \in Seq(S), NEW e \in S
  PROVE  Append(s, e) \in Seq(S) /\ ToSet(Append(s, e)) = ToSet(s) \cup {e}
<1>1. Len(s) \in Nat /\ DOMAIN s = 1 .. Len(s) /\ DOMAIN Append(s, e) = 1 .. Len(s) + 1
  OBVIOUS
<1>2. \A i \in 1 .. Len(s) : Append(s, e)[i] = s[i]
  OBVIOUS
<1>3. Append(s, e)[Len(s) + 1] = e /\ 1 .. Len(s) + 1 = 1 .. Len(s) \cup {Len(s) + 1}
  BY <1>1
<1> QED BY <1>1, <1>2, <1>3 DEF ToSet

(* RemoveAt takes exactly the element at i out. *)
LEMMA RemoveAtElements ==
  ASSUME NEW S, NEW s \in Seq(S), NEW i \in 1..Len(s)
  PROVE  /\ RemoveAt(s, i) \in Seq(S)
         /\ Len(RemoveAt(s, i)) = Len(s) - 1
         /\ \A j \in 1..(Len(s) - 1) :
              RemoveAt(s, i)[j] = IF j < i THEN s[j] ELSE s[j + 1]
<1> DEFINE a == SubSeq(s, 1, i - 1)
           b == SubSeq(s, i + 1, Len(s))
<1>1. Len(s) \in Nat /\ i \in Nat /\ 1 <= i /\ i <= Len(s)
  BY LenProperties
<1>2. a \in Seq(S) /\ Len(a) = i - 1 /\ \A j \in 1..(i - 1) : a[j] = s[j]
  BY <1>1, SubSeqProperties
<1>3. b \in Seq(S) /\ Len(b) = Len(s) - i /\ \A j \in 1..(Len(s) - i) : b[j] = s[i + j]
  BY <1>1, SubSeqProperties
<1>5. RemoveAt(s, i) = a \o b
  BY DEF RemoveAt
<1> HIDE DEF a, b
<1>4. /\ a \o b \in Seq(S)
      /\ Len(a \o b) = Len(s) - 1
      /\ \A j \in 1..(Len(s) - 1) : (a \o b)[j] = IF j <= Len(a) THEN a[j] ELSE b[j - Len(a)]
  <2>1. Len(a) + Len(b) = Len(s) - 1
    BY <1>1, <1>2, <1>3
  <2>2. a \in Seq(S) /\ b \in Seq(S)
    BY <1>2, <1>3
  <2>3. /\ a \o b \in Seq(S)
        /\ Len(a \o b) = Len(a) + Len(b)
        /\ \A j \in 1..(Len(a) + Len(b)) :
             (a \o b)[j] = IF j <= Len(a) THEN a[j] ELSE b[j - Len(a)]
    BY <2>2, ConcatProperties
  <2> QED BY <2>1, <2>3
<1>6. ASSUME NEW j \in 1..(Len(s) - 1)
      PROVE  (a \o b)[j] = IF j < i THEN s[j] ELSE s[j + 1]
  <2>1. CASE j < i
    BY <1>1, <1>2, <1>4, <2>1
  <2>2. CASE j >= i
    <3>1. j - Len(a) \in 1..(Len(s) - i) /\ i + (j - Len(a)) = j + 1
      BY <1>1, <1>2, <2>2
    <3> QED BY <1>1, <1>2, <1>3, <1>4, <2>2, <3>1
  <2>3. j < i \/ j >= i
    BY <1>1
  <2> QED BY <2>1, <2>2, <2>3
<1> QED BY <1>4, <1>5, <1>6

(* Without takes exactly e out of a sequence without repetition. *)
LEMMA WithoutElements ==
  ASSUME NEW S, NEW s \in Seq(S), NEW e, IsInjective(s)
  PROVE  /\ Without(s, e) \in Seq(S)
         /\ IsInjective(Without(s, e))
         /\ ToSet(Without(s, e)) = ToSet(s) \ {e}
         /\ Len(Without(s, e)) = IF e \in ToSet(s) THEN Len(s) - 1 ELSE Len(s)
<1>0. Len(s) \in Nat /\ DOMAIN s = 1..Len(s)
  BY LenProperties
<1>1. CASE ~ \E i \in 1..Len(s) : s[i] = e
  <2>1. Without(s, e) = s
    BY <1>1 DEF Without
  <2>2. e \notin ToSet(s)
    BY <1>0, <1>1 DEF ToSet
  <2> QED BY <2>1, <2>2
<1>2. CASE \E i \in 1..Len(s) : s[i] = e
  <2>1. PICK k \in 1..Len(s) : s[k] = e
    BY <1>2
  <2>2. \A j \in 1..Len(s) : s[j] = e => j = k
    BY <1>0, <2>1 DEF IsInjective
  <2>3. Without(s, e) = RemoveAt(s, k)
    <3>1. (CHOOSE i \in 1..Len(s) : s[i] = e) = k
      BY <2>1, <2>2
    <3> QED BY <1>0, <1>2, <3>1 DEF Without
  <2> DEFINE r == RemoveAt(s, k)
  <2>4. /\ r \in Seq(S) /\ Len(r) = Len(s) - 1
        /\ \A j \in 1..(Len(s) - 1) : r[j] = IF j < k THEN s[j] ELSE s[j + 1]
    BY RemoveAtElements
  <2> HIDE DEF r
  <2>5. DOMAIN r = 1..(Len(s) - 1)
    BY <2>4, LenProperties
  <2>6. IsInjective(r)
    <3> SUFFICES ASSUME NEW a \in DOMAIN r, NEW b \in DOMAIN r, r[a] = r[b] PROVE a = b
      BY DEF IsInjective
    <3> DEFINE at(j) == IF j < k THEN j ELSE j + 1
    <3>1. at(a) \in 1..Len(s) /\ at(b) \in 1..Len(s) /\ r[a] = s[at(a)] /\ r[b] = s[at(b)]
      BY <1>0, <2>4, <2>5
    <3>2. at(a) = at(b)
      BY <1>0, <3>1 DEF IsInjective
    <3> QED BY <1>0, <2>5, <3>2
  <2>7. ToSet(r) \subseteq ToSet(s) \ {e}
    <3> SUFFICES ASSUME NEW j \in DOMAIN r PROVE r[j] \in ToSet(s) \ {e}
      BY DEF ToSet
    <3> DEFINE i == IF j < k THEN j ELSE j + 1
    <3>1. i \in 1..Len(s) /\ r[j] = s[i] /\ i # k
      BY <1>0, <2>4, <2>5
    <3> HIDE DEF i
    <3> QED BY <1>0, <2>2, <3>1 DEF ToSet
  <2>8. ToSet(s) \ {e} \subseteq ToSet(r)
    <3> SUFFICES ASSUME NEW i \in 1..Len(s), s[i] # e PROVE s[i] \in ToSet(r)
      BY <1>0 DEF ToSet
    <3>1. i # k
      BY <2>1
    <3> DEFINE j == IF i < k THEN i ELSE i - 1
    <3>2. j \in DOMAIN r /\ r[j] = s[i]
      BY <1>0, <2>4, <2>5, <3>1
    <3> HIDE DEF j
    <3> QED BY <3>2 DEF ToSet
  <2>9. e \in ToSet(s)
    BY <1>0, <2>1 DEF ToSet
  <2> QED BY <2>3, <2>4, <2>6, <2>7, <2>8, <2>9 DEF r
<1> QED BY <1>1, <1>2

(* Append of a new element keeps elements apart. *)
LEMMA AppendElements ==
  ASSUME NEW S, NEW s \in Seq(S), NEW e \in S, IsInjective(s), e \notin ToSet(s)
  PROVE  /\ Append(s, e) \in Seq(S)
         /\ IsInjective(Append(s, e))
         /\ ToSet(Append(s, e)) = ToSet(s) \cup {e}
         /\ Len(Append(s, e)) = Len(s) + 1
<1> DEFINE r == Append(s, e)
<1>1. /\ Len(s) \in Nat /\ DOMAIN s = 1..Len(s)
      /\ r \in Seq(S) /\ Len(r) = Len(s) + 1 /\ DOMAIN r = 1..(Len(s) + 1)
      /\ \A i \in 1..Len(s) : r[i] = s[i]
      /\ r[Len(s) + 1] = e
  BY AppendProperties, LenProperties
<1> HIDE DEF r
<1>2. IsInjective(r)
  <2> SUFFICES ASSUME NEW a \in DOMAIN r, NEW b \in DOMAIN r, r[a] = r[b] PROVE a = b
    BY DEF IsInjective
  <2>1. \A i \in 1..Len(s) : s[i] # e
    BY <1>1 DEF ToSet
  <2> QED BY <1>1, <2>1 DEF IsInjective
<1>3. ToSet(r) = ToSet(s) \cup {e}
  BY <1>1 DEF ToSet
<1> QED BY <1>1, <1>2, <1>3 DEF r

(* Tail takes exactly the first element out. *)
LEMMA TailElements ==
  ASSUME NEW S, NEW s \in Seq(S), s # <<>>, IsInjective(s)
  PROVE  /\ Head(s) \in S /\ Head(s) \in ToSet(s)
         /\ Tail(s) \in Seq(S)
         /\ IsInjective(Tail(s))
         /\ ToSet(Tail(s)) = ToSet(s) \ {Head(s)}
<1> DEFINE r == Tail(s)
<1>1. /\ Len(s) \in Nat /\ Len(s) # 0 /\ DOMAIN s = 1..Len(s)
      /\ Head(s) = s[1] /\ s[1] \in S
      /\ r \in Seq(S) /\ Len(r) = Len(s) - 1 /\ DOMAIN r = 1..(Len(s) - 1)
      /\ \A i \in 1..(Len(s) - 1) : r[i] = s[i + 1]
  BY HeadTailProperties, EmptySeq, LenProperties
<1> HIDE DEF r
<1>2. \A i, j \in 1..Len(s) : s[i] = s[j] => i = j
  BY <1>1 DEF IsInjective
<1>3. IsInjective(r)
  BY <1>1, <1>2 DEF IsInjective
<1>4. ToSet(r) \subseteq ToSet(s) \ {s[1]}
  BY <1>1, <1>2 DEF ToSet
<1>5. ToSet(s) \ {s[1]} \subseteq ToSet(r)
  <2> SUFFICES ASSUME NEW i \in 1..Len(s), i # 1 PROVE s[i] \in ToSet(r)
    BY <1>1 DEF ToSet
  <2>1. i - 1 \in 1..(Len(s) - 1) /\ r[i - 1] = s[i]
    BY <1>1
  <2> QED BY <1>1, <2>1 DEF ToSet
<1>6. Head(s) \in ToSet(s)
  BY <1>1 DEF ToSet
<1> QED BY <1>1, <1>3, <1>4, <1>5, <1>6 DEF r

(* a comes before b in s. *)
Precedes(s, a, b) == \E i, j \in 1..Len(s) : i < j /\ s[i] = a /\ s[j] = b

(* Without leaves the others in their order. *)
LEMMA WithoutOrder ==
  ASSUME NEW S, NEW s \in Seq(S), NEW e, IsInjective(s), NEW a, NEW b, a # e, b # e,
         Precedes(s, a, b)
  PROVE  Precedes(Without(s, e), a, b)
<1>0. Len(s) \in Nat /\ DOMAIN s = 1..Len(s)
  BY LenProperties
<1>1. PICK i \in 1..Len(s), j \in 1..Len(s) : i < j /\ s[i] = a /\ s[j] = b
  BY DEF Precedes
<1>2. CASE ~ \E k \in 1..Len(s) : s[k] = e
  BY <1>0, <1>2 DEF Without
<1>3. CASE \E k \in 1..Len(s) : s[k] = e
  <2>1. PICK k \in 1..Len(s) : s[k] = e
    BY <1>3
  <2>2. \A l \in 1..Len(s) : s[l] = e => l = k
    BY <1>0, <2>1 DEF IsInjective
  <2>3. Without(s, e) = RemoveAt(s, k)
    <3>1. (CHOOSE l \in 1..Len(s) : s[l] = e) = k
      BY <2>1, <2>2
    <3> QED BY <1>0, <1>3, <3>1 DEF Without
  <2> DEFINE r == RemoveAt(s, k)
  <2>4. /\ r \in Seq(S) /\ Len(r) = Len(s) - 1
        /\ \A l \in 1..(Len(s) - 1) : r[l] = IF l < k THEN s[l] ELSE s[l + 1]
    BY RemoveAtElements
  <2> HIDE DEF r
  <2>5. i # k /\ j # k
    BY <1>1, <2>1
  <2> DEFINE at(l) == IF l < k THEN l ELSE l - 1
  <2>6. /\ at(i) \in 1..Len(r) /\ at(j) \in 1..Len(r) /\ at(i) < at(j)
        /\ r[at(i)] = a /\ r[at(j)] = b
    BY <1>0, <1>1, <2>4, <2>5
  <2> HIDE DEF at
  <2>7. Precedes(r, a, b)
    BY <2>6 DEF Precedes
  <2> QED BY <2>3, <2>7 DEF r
<1> QED BY <1>2, <1>3

(* Append puts the new element behind all others. *)
LEMMA AppendOrder ==
  ASSUME NEW S, NEW s \in Seq(S), NEW e \in S
  PROVE  /\ \A a, b : Precedes(s, a, b) => Precedes(Append(s, e), a, b)
         /\ \A a \in ToSet(s) : Precedes(Append(s, e), a, e)
<1> DEFINE r == Append(s, e)
<1>1. /\ Len(s) \in Nat /\ DOMAIN s = 1..Len(s)
      /\ Len(r) = Len(s) + 1
      /\ \A i \in 1..Len(s) : r[i] = s[i]
      /\ r[Len(s) + 1] = e
  BY AppendProperties, LenProperties
<1> HIDE DEF r
<1>2. \A a, b : Precedes(s, a, b) => Precedes(r, a, b)
  BY <1>1 DEF Precedes
<1>3. \A a \in ToSet(s) : Precedes(r, a, e)
  BY <1>1 DEF Precedes, ToSet
<1> QED BY <1>2, <1>3 DEF r

-----------------------------------------------------------------------------
(* What WithoutAll is when the elements up to the n-th were looked at.     *)
KeptSoFar(f, s, E, n) ==
  f[n] = IF n = 0 THEN <<>>
         ELSE IF s[n] \in E THEN f[n - 1] ELSE Append(f[n - 1], s[n])

(* The function that WithoutAll names exists. *)
LEMMA KeptExists ==
  ASSUME NEW S, NEW s \in Seq(S), NEW E
  PROVE  \E f \in [0 .. Len(s) -> Seq(S)] : \A n \in 0 .. Len(s) : KeptSoFar(f, s, E, n)
<1> DEFINE Upto(m) == \E f \in [0 .. m -> Seq(S)] : \A n \in 0 .. m : KeptSoFar(f, s, E, n)
           T == {m \in 0 .. Len(s) : Upto(m)}
<1>0. Len(s) \in Nat /\ \A n \in 1 .. Len(s) : s[n] \in S
  OBVIOUS
<1>1. 0 \in T
  <2> DEFINE f == [n \in 0 .. 0 |-> <<>>]
  <2>1. f \in [0 .. 0 -> Seq(S)] /\ \A n \in 0 .. 0 : KeptSoFar(f, s, E, n)
    BY DEF KeptSoFar
  <2> HIDE DEF f
  <2> QED BY <1>0, <2>1
<1>2. ASSUME NEW m \in 1 .. Len(s), m - 1 \in T PROVE m \in T
  <2>0. m \in Nat /\ m - 1 \in Nat /\ m > 0
    BY <1>0
  <2>1. PICK f \in [0 .. m - 1 -> Seq(S)] : \A n \in 0 .. m - 1 : KeptSoFar(f, s, E, n)
    BY <1>2
  <2> DEFINE new == IF s[m] \in E THEN f[m - 1] ELSE Append(f[m - 1], s[m])
             g == [n \in 0 .. m |-> IF n = m THEN new ELSE f[n]]
  <2>2. new \in Seq(S)
    BY <1>0, <2>0
  <2>3. g \in [0 .. m -> Seq(S)]
    <3> HIDE DEF new
    <3> QED BY <2>0, <2>2
  <2>4. ASSUME NEW n \in 0 .. m PROVE KeptSoFar(g, s, E, n)
    <3>1. CASE n < m
      <4>1. n \in 0 .. m - 1 /\ n \in 0 .. m /\ n # m /\ (n # 0 => n - 1 \in 0 .. m - 1 /\ n - 1 # m)
        BY <2>0, <3>1
      <4>2. g[n] = f[n] /\ (n # 0 => g[n - 1] = f[n - 1])
        BY <4>1
      <4> HIDE DEF g
      <4> QED BY <2>1, <4>1, <4>2 DEF KeptSoFar
    <3>2. CASE n = m
      BY <2>0, <3>2 DEF KeptSoFar
    <3> QED BY <2>0, <3>1, <3>2
  <2> HIDE DEF g
  <2>5. Upto(m)
    BY <2>3, <2>4
  <2> QED BY <2>5
<1> HIDE DEF T
<1>3. 0 .. Len(s) \subseteq T
  BY <1>0, <1>1, <1>2, UpTo
<1>4. Len(s) \in 0 .. Len(s)
  BY <1>0
<1> QED BY <1>3, <1>4 DEF T

(* WithoutAll takes exactly the elements of E out. *)
LEMMA WithoutAllElements ==
  ASSUME NEW S, NEW s \in Seq(S), NEW E
  PROVE  /\ WithoutAll(s, E) \in Seq(S)
         /\ ToSet(WithoutAll(s, E)) = ToSet(s) \ E
<1> DEFINE kept[n \in 0 .. Len(s)] ==
             IF n = 0 THEN <<>>
             ELSE IF s[n] \in E THEN kept[n - 1] ELSE Append(kept[n - 1], s[n])
           N == Len(s)
<1>0. N \in Nat /\ \A n \in 1 .. N : s[n] \in S
  OBVIOUS
<1>1. PICK f \in [0 .. N -> Seq(S)] : \A n \in 0 .. N : KeptSoFar(f, s, E, n)
  BY KeptExists
<1>2. f = [n \in 0 .. N |->
             IF n = 0 THEN <<>>
             ELSE IF s[n] \in E THEN f[n - 1] ELSE Append(f[n - 1], s[n])]
  BY <1>1 DEF KeptSoFar
<1>3. kept = [n \in 0 .. N |->
             IF n = 0 THEN <<>>
             ELSE IF s[n] \in E THEN kept[n - 1] ELSE Append(kept[n - 1], s[n])]
  BY <1>2 DEF kept
<1> HIDE DEF kept
<1> DEFINE T == {n \in 0 .. N : /\ kept[n] \in Seq(S)
                                /\ ToSet(kept[n]) = {s[i] : i \in 1 .. n} \ E}
<1> HIDE DEF N
<1>4. 0 \in T
  BY <1>0, <1>3 DEF ToSet
<1>5. ASSUME NEW n \in 1 .. N, n - 1 \in T PROVE n \in T
  <2>1. n \in 0 .. N /\ n # 0 /\ n - 1 \in 0 .. N /\ n \in Nat /\ n \in 1 .. n
    BY <1>0
  <2> DEFINE k == kept[n - 1]
  <2>2. kept[n] = IF s[n] \in E THEN k ELSE Append(k, s[n])
    BY <1>3, <2>1
  <2>3. k \in Seq(S) /\ ToSet(k) = {s[i] : i \in 1 .. n - 1} \ E
    BY <1>5
  <2>4. {s[i] : i \in 1 .. n} = {s[i] : i \in 1 .. n - 1} \cup {s[n]}
    <3>1. 1 .. n = 1 .. n - 1 \cup {n}
      BY <2>1
    <3> QED BY <3>1
  <2> HIDE DEF k
  <2>5. CASE s[n] \in E
    BY <2>1, <2>2, <2>3, <2>4, <2>5
  <2>6. CASE s[n] \notin E
    <3>1. s[n] \in S BY <1>0
    <3>2. Append(k, s[n]) \in Seq(S) /\ ToSet(Append(k, s[n])) = ToSet(k) \cup {s[n]}
      BY <2>3, <3>1, AppendToSet
    <3> QED BY <2>1, <2>2, <2>3, <2>4, <2>6, <3>2
  <2> QED BY <2>5, <2>6
<1> HIDE DEF T
<1>6. 0 .. N \subseteq T
  BY <1>0, <1>4, <1>5, UpTo
<1>7. WithoutAll(s, E) = kept[N]
  BY DEF WithoutAll, kept, N
<1>8. {s[i] : i \in 1 .. N} = ToSet(s)
  BY DEF N, ToSet
<1>9. N \in 0 .. N
  BY <1>0
<1> QED BY <1>6, <1>7, <1>8, <1>9 DEF T

-----------------------------------------------------------------------------
(* What FlattenSeq is when the first n sequences were joined.              *)
Joined(f, q, n) == f[n] = IF n = 1 THEN q[n] ELSE f[n - 1] \o q[n]

(* The function that FlattenSeq names exists.                              *)
LEMMA JoinedExists ==
  ASSUME NEW S, NEW q \in Seq(Seq(S)), Len(q) # 0
  PROVE  \E f \in [1 .. Len(q) -> Seq(S)] : \A n \in 1 .. Len(q) : Joined(f, q, n)
<1> DEFINE Upto(m) == \E f \in [1 .. m -> Seq(S)] : \A n \in 1 .. m : Joined(f, q, n)
           T == {m \in 0 .. Len(q) : Upto(m)}
<1>0. Len(q) \in Nat /\ \A n \in 1 .. Len(q) : q[n] \in Seq(S)
  OBVIOUS
<1>1. 0 \in T
  <2> DEFINE f == [n \in 1 .. 0 |-> <<>>]
  <2>1. f \in [1 .. 0 -> Seq(S)] /\ \A n \in 1 .. 0 : Joined(f, q, n)
    OBVIOUS
  <2> HIDE DEF f
  <2>2. Upto(0)
    BY <2>1
  <2>3. 0 \in 0 .. Len(q)
    BY <1>0
  <2> HIDE DEF Upto
  <2> QED BY <2>2, <2>3
<1>2. ASSUME NEW m \in 1 .. Len(q), m - 1 \in T PROVE m \in T
  <2>0. m \in Nat /\ m - 1 \in Nat /\ m > 0 /\ m \in 0 .. Len(q)
    BY <1>0
  <2>1. PICK f \in [1 .. m - 1 -> Seq(S)] : \A n \in 1 .. m - 1 : Joined(f, q, n)
    BY <1>2
  <2> DEFINE new == IF m = 1 THEN q[m] ELSE f[m - 1] \o q[m]
             g == [n \in 1 .. m |-> IF n = m THEN new ELSE f[n]]
  <2>2. new \in Seq(S)
    <3>1. CASE m = 1
      BY <1>0, <3>1
    <3>2. CASE m # 1
      <4>1. f[m - 1] \in Seq(S)
        BY <2>0, <3>2
      <4> QED BY <1>0, <3>2, <4>1
    <3> QED BY <3>1, <3>2
  <2>3. g \in [1 .. m -> Seq(S)]
    <3> HIDE DEF new
    <3> QED BY <2>0, <2>2
  <2>4. ASSUME NEW n \in 1 .. m PROVE Joined(g, q, n)
    <3>1. CASE n < m
      <4>1. n \in 1 .. m - 1 /\ n # m /\ (n # 1 => n - 1 \in 1 .. m - 1 /\ n - 1 \in 1 .. m /\ n - 1 # m)
        BY <2>0, <3>1
      <4>2. g[n] = f[n] /\ (n # 1 => g[n - 1] = f[n - 1])
        BY <4>1
      <4> HIDE DEF g
      <4> QED BY <2>1, <4>1, <4>2 DEF Joined
    <3>2. CASE n = m
      <4>1. g[m] = new /\ (m # 1 => g[m - 1] = f[m - 1])
        BY <2>0
      <4> HIDE DEF g
      <4> QED BY <3>2, <4>1 DEF Joined
    <3> QED BY <2>0, <3>1, <3>2
  <2> HIDE DEF g
  <2>5. Upto(m)
    BY <2>3, <2>4
  <2> QED BY <2>0, <2>5
<1> HIDE DEF T
<1>3. 0 .. Len(q) \subseteq T
  BY <1>0, <1>1, <1>2, UpTo
<1>4. Len(q) \in 0 .. Len(q)
  BY <1>0
<1> QED BY <1>3, <1>4 DEF T

(* It is the only one: what satisfies the same equation is what FlattenSeq *)
(* names.                                                                  *)
LEMMA FlattenIs ==
  ASSUME NEW S, NEW q \in Seq(Seq(S)), Len(q) # 0,
         NEW f \in [1 .. Len(q) -> Seq(S)], \A n \in 1 .. Len(q) : Joined(f, q, n)
  PROVE  FlattenSeq(q) = f[Len(q)]
<1> DEFINE N == Len(q)
           flatten[i \in 1 .. N] == IF i = 1 THEN q[i] ELSE flatten[i - 1] \o q[i]
<1>0. N \in Nat /\ N # 0
  OBVIOUS
<1>1. f = [i \in 1 .. N |-> IF i = 1 THEN q[i] ELSE f[i - 1] \o q[i]]
  BY DEF Joined
<1>2. flatten = [i \in 1 .. N |-> IF i = 1 THEN q[i] ELSE flatten[i - 1] \o q[i]]
  BY <1>1 DEF flatten
<1>3. FlattenSeq(q) = flatten[N]
  BY DEF FlattenSeq, flatten
<1> HIDE DEF flatten
<1> DEFINE T == {n \in 0 .. N : n # 0 => flatten[n] = f[n]}
<1>4. 0 \in T
  BY <1>0
<1>5. ASSUME NEW n \in 1 .. N, n - 1 \in T PROVE n \in T
  <2>1. n \in 0 .. N /\ n # 0 /\ (n # 1 => n - 1 \in 1 .. N /\ n - 1 # 0)
    BY <1>0
  <2>2. flatten[n] = IF n = 1 THEN q[n] ELSE flatten[n - 1] \o q[n]
    BY <1>2
  <2>3. f[n] = IF n = 1 THEN q[n] ELSE f[n - 1] \o q[n]
    BY <1>1
  <2>4. n # 1 => flatten[n - 1] = f[n - 1]
    BY <1>5, <2>1
  <2> HIDE DEF N
  <2>5. flatten[n] = f[n]
    BY <2>2, <2>3, <2>4
  <2> QED BY <2>1, <2>5
<1> HIDE DEF T
<1>6. 0 .. N \subseteq T
  BY <1>0, <1>4, <1>5, UpTo
<1>7. N \in 0 .. N
  BY <1>0
<1> QED BY <1>0, <1>3, <1>6, <1>7 DEF T

(* FlattenSeq joins nothing to nothing, and one sequence more at the end.  *)
LEMMA FlattenEmpty == FlattenSeq(<<>>) = <<>>
BY DEF FlattenSeq

LEMMA FlattenAppend ==
  ASSUME NEW S, NEW q \in Seq(Seq(S)), NEW x \in Seq(S)
  PROVE  FlattenSeq(q) \in Seq(S) /\ FlattenSeq(Append(q, x)) = FlattenSeq(q) \o x
<1> DEFINE r == Append(q, x)
<1>0. Len(q) \in Nat /\ \A n \in 1 .. Len(q) : q[n] \in Seq(S)
  OBVIOUS
<1>1. /\ r \in Seq(Seq(S)) /\ Len(r) = Len(q) + 1 /\ Len(r) # 0
      /\ \A i \in 1 .. Len(q) : r[i] = q[i]
      /\ r[Len(q) + 1] = x
  BY AppendProperties
<1> HIDE DEF r
<1>2. CASE Len(q) = 0
  <2>1. q = <<>>
    BY <1>2, EmptySeq
  <2> DEFINE g == [n \in 1 .. 1 |-> x]
  <2>2. g \in [1 .. Len(r) -> Seq(S)] /\ g[Len(r)] = x /\ \A n \in 1 .. Len(r) : Joined(g, r, n)
    BY <1>1, <1>2 DEF Joined
  <2> HIDE DEF g
  <2>3. FlattenSeq(r) = x
    BY <1>1, <2>2, FlattenIs
  <2>4. <<>> \o x = x /\ <<>> \in Seq(S)
    BY ConcatEmptySeq
  <2> QED BY <2>1, <2>3, <2>4, FlattenEmpty DEF r
<1>3. CASE Len(q) # 0
  <2>1. PICK f \in [1 .. Len(q) -> Seq(S)] : \A n \in 1 .. Len(q) : Joined(f, q, n)
    BY <1>3, JoinedExists
  <2>2. FlattenSeq(q) = f[Len(q)] /\ f[Len(q)] \in Seq(S)
    <3>1. FlattenSeq(q) = f[Len(q)]
      BY <1>3, <2>1, FlattenIs
    <3>2. Len(q) \in 1 .. Len(q)
      BY <1>0, <1>3
    <3> QED BY <3>1, <3>2
  <2> DEFINE last == f[Len(q)] \o x
             g == [n \in 1 .. Len(r) |-> IF n = Len(r) THEN last ELSE f[n]]
  <2>3. last \in Seq(S)
    BY <2>2
  <2> HIDE DEF last
  <2>4. g \in [1 .. Len(r) -> Seq(S)]
    BY <1>0, <1>1, <2>3
  <2>5. ASSUME NEW n \in 1 .. Len(r) PROVE Joined(g, r, n)
    <3>1. CASE n < Len(r)
      <4>1. n \in 1 .. Len(q) /\ n # Len(r) /\ (n # 1 => n - 1 \in 1 .. Len(q) /\ n - 1 \in 1 .. Len(r) /\ n - 1 # Len(r))
        BY <1>0, <1>1, <3>1
      <4>2. g[n] = f[n] /\ (n # 1 => g[n - 1] = f[n - 1]) /\ r[n] = q[n]
        BY <1>1, <4>1
      <4> HIDE DEF g
      <4> QED BY <2>1, <4>1, <4>2 DEF Joined
    <3>2. CASE n = Len(r)
      <4>1. n # 1 /\ n - 1 = Len(q) /\ n - 1 \in 1 .. Len(r) /\ n - 1 # Len(r)
        BY <1>0, <1>1, <1>3, <3>2
      <4>2. g[n] = last /\ g[n - 1] = f[Len(q)] /\ r[n] = x
        BY <1>1, <3>2, <4>1
      <4> HIDE DEF g
      <4> QED BY <4>1, <4>2 DEF Joined, last
    <3> QED BY <1>0, <1>1, <3>1, <3>2
  <2>6. g[Len(r)] = last
    BY <1>0, <1>1
  <2> HIDE DEF g
  <2>7. FlattenSeq(r) = last
    BY <1>1, <2>4, <2>5, <2>6, FlattenIs
  <2> QED BY <2>2, <2>7 DEF last, r
<1> QED BY <1>2, <1>3

(* And it may as well begin with the first.                                *)
LEMMA FlattenHead ==
  ASSUME NEW S, NEW q \in Seq(Seq(S)), q # <<>>
  PROVE  FlattenSeq(q) = Head(q) \o FlattenSeq(Tail(q))
<1> DEFINE t == Tail(q)
           N == Len(q)
<1>0. /\ N \in Nat /\ N # 0 /\ Head(q) = q[1] /\ Head(q) \in Seq(S)
      /\ t \in Seq(Seq(S)) /\ Len(t) = N - 1
      /\ \A i \in 1 .. N - 1 : t[i] = q[i + 1]
      /\ \A i \in 1 .. N : q[i] \in Seq(S)
  BY HeadTailProperties, EmptySeq
<1> HIDE DEF t
<1>1. PICK f \in [1 .. N -> Seq(S)] : \A n \in 1 .. N : Joined(f, q, n)
  BY <1>0, JoinedExists
<1>2. FlattenSeq(q) = f[N]
  BY <1>0, <1>1, FlattenIs
<1> HIDE DEF N
<1>3. f[1] = q[1]
  <2>1. 1 \in 1 .. N
    BY <1>0
  <2>2. Joined(f, q, 1)
    BY <1>1, <2>1
  <2> QED BY <2>2 DEF Joined
<1>4. CASE N = 1
  <2>1. t = <<>>
    BY <1>0, <1>4, EmptySeq
  <2>2. q[1] \o <<>> = q[1]
    BY <1>0, ConcatEmptySeq
  <2> QED BY <1>0, <1>2, <1>3, <1>4, <2>1, <2>2, FlattenEmpty DEF t
<1>5. CASE N # 1
  <2>0. Len(t) # 0 /\ Len(t) \in Nat
    BY <1>0, <1>5
  <2>1. PICK h \in [1 .. Len(t) -> Seq(S)] : \A n \in 1 .. Len(t) : Joined(h, t, n)
    BY <1>0, <2>0, JoinedExists
  <2>2. FlattenSeq(t) = h[Len(t)]
    BY <1>0, <2>0, <2>1, FlattenIs
  <2> DEFINE T == {n \in 0 .. Len(t) : n # 0 => f[n + 1] = q[1] \o h[n]}
  <2>3. 0 \in T
    BY <2>0
  <2>4. ASSUME NEW n \in 1 .. Len(t), n - 1 \in T PROVE n \in T
    <3>1. /\ n \in 0 .. Len(t) /\ n # 0 /\ n + 1 # 1 /\ (n + 1) - 1 = n
          /\ n + 1 \in 1 .. N /\ n \in 1 .. N
          /\ (n # 1 => n - 1 \in 1 .. Len(t) /\ n - 1 # 0 /\ (n - 1) + 1 = n)
      <4>1. n \in Nat /\ n >= 1 /\ n <= N - 1 /\ Len(t) = N - 1 /\ N \in Nat
        BY <1>0
      <4> QED BY <4>1
    <3>2. Joined(f, q, n + 1) /\ Joined(h, t, n) /\ t[n] = q[n + 1]
      BY <1>0, <1>1, <2>1, <3>1
    <3>3. f[n + 1] = f[n] \o q[n + 1]
      BY <3>1, <3>2 DEF Joined
    <3>4. q[1] \in Seq(S) /\ q[n + 1] \in Seq(S)
      BY <1>0, <3>1
    <3>5. CASE n = 1
      BY <1>3, <3>1, <3>2, <3>3, <3>5 DEF Joined
    <3>6. CASE n # 1
      <4>1. h[n] = h[n - 1] \o q[n + 1] /\ h[n - 1] \in Seq(S)
        BY <2>1, <3>1, <3>2, <3>6 DEF Joined
      <4>2. f[n] = q[1] \o h[n - 1]
        BY <2>4, <3>1, <3>6
      <4>3. f[n + 1] = (q[1] \o h[n - 1]) \o q[n + 1]
        BY <3>3, <4>2
      <4> DEFINE a == q[1]
                 b == h[n - 1]
                 d == q[n + 1]
      <4>4. a \in Seq(S) /\ b \in Seq(S) /\ d \in Seq(S)
        BY <3>4, <4>1
      <4>5. f[n + 1] = (a \o b) \o d /\ h[n] = b \o d
        BY <4>1, <4>3
      <4> HIDE DEF a, b, d
      <4>6. (a \o b) \o d = a \o (b \o d)
        BY ONLY <4>4
      <4>7. f[n + 1] = a \o h[n]
        BY ONLY <4>5, <4>6, Zenon
      <4> QED BY <3>1, <4>7 DEF a
    <3> QED BY <3>5, <3>6
  <2> HIDE DEF T
  <2>5. 0 .. Len(t) \subseteq T
    BY <2>0, <2>3, <2>4, UpTo
  <2>6. Len(t) \in 0 .. Len(t) /\ Len(t) + 1 = N
    BY <1>0, <2>0
  <2>7. f[N] = q[1] \o h[Len(t)]
    BY <2>0, <2>5, <2>6 DEF T
  <2> QED BY <1>0, <1>2, <2>2, <2>7 DEF t
<1> QED BY <1>4, <1>5
=============================================================================
