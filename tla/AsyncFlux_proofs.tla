-------------------------- MODULE AsyncFlux_proofs --------------------------
(***************************************************************************)
(* For any elements and programs: a flux has one continuation until it     *)
(* ends and none afterwards.  What will continue a flux is its share: what *)
(* it is owed, its flag, the barriers, onces, observers and loops that     *)
(* wait for it, and in the middle of a step the call that is about to be   *)
(* made.  Each action is a sequence of small steps (a turn, an element, a  *)
(* new flux, an arrival, an end) that hand a share on: the flux h and the  *)
(* barrier d of Sound are the ones it is handed to, 0 between the actions. *)
(***************************************************************************)
EXTENDS AsyncFlux, Lists_proofs, FiniteSetTheorems

(***************************************************************************)
(* The invariant                                                           *)
(***************************************************************************)
States == {Started, Finishing, Terminated}
Thens == [kind : {"none", "barrier", "once", "self"}, at : Nat \cup OnceKeys \cup {NULL}]
FluxRecords == [elements : Seq(Elements), then : Thens, flag : 0 .. 2, state : States, owed : Nat]
BarrierRecords == [f : Nat, count : Int]
OnceRecords == [obs : Seq(Nat), started : BOOLEAN, done : BOOLEAN]
FrameRecords == [kind : {"loop", "after", "branches", "observers", "user"},
                 f : Nat \cup {NULL}, at : Nat \cup {NULL},
                 rest : Seq(Nat) \cup Seq(Seq(Elements))]

(* How many values of the function or sequence g are in S. *)
Count(g, S) == Cardinality({i \in DOMAIN g : g[i] \in S})

BarriersOf(f) == {b \in BarrierRecords : b.f = f /\ b.count > 0}
OncesOf(f) == {o \in OnceRecords : f \in ToSet(o.obs)}
LoopsOf(f) == {a \in FrameRecords : a.kind = "loop" /\ a.f = f}
ActiveOf(f) == {a \in FrameRecords : a.kind \in {"loop", "after"} /\ a.f = f}
TellersOf(f) == {a \in FrameRecords : a.kind = "observers" /\ f \in ToSet(a.rest)}
StartersOf(b) == {a \in FrameRecords : a.kind = "branches" /\ a.at = b}
OpenOf(b) == {x \in FluxRecords : x.then = ToBarrier(b) /\ x.state # Terminated}

(* What will continue flux f: of its own, and of the others. *)
Mine(x) == x.owed + (IF x.flag = 2 THEN 1 ELSE 0)
Others(f, bs, on, st) ==
  Count(bs, BarriersOf(f)) + Count(on, OncesOf(f)) + Count(st, TellersOf(f))
    + Count(st, LoopsOf(f))

FluxTyped(x, m) ==
  /\ x \in FluxRecords
  /\ x.then.kind = "barrier" => x.then.at \in 1 .. m
  /\ x.then.kind = "once" => x.then.at \in OnceKeys
  /\ x.then.kind = "self" => x.then = ToSelf

FrameTyped(a, n, m) ==
  /\ a \in FrameRecords
  /\ a.f \in (1 .. n) \cup {NULL}
  /\ a.kind \in {"loop", "after", "user"} => a.f \in 1 .. n
  /\ a.kind = "branches" => a.at \in 1 .. m /\ a.rest \in Seq(Seq(Elements))
  /\ a.kind = "observers" => a.rest \in Seq(1 .. n)

Typed(fx, bs, on, st) ==
  /\ fx \in Seq(FluxRecords) /\ bs \in Seq(BarrierRecords)
  /\ on \in [OnceKeys -> OnceRecords] /\ st \in Seq(FrameRecords)
  /\ \A f \in 1 .. Len(fx) : FluxTyped(fx[f], Len(bs))
  /\ \A b \in 1 .. Len(bs) : bs[b].f \in 1 .. Len(fx)
  /\ \A k \in OnceKeys : on[k].obs \in Seq(1 .. Len(fx))
  /\ \A i \in 1 .. Len(st) : FrameTyped(st[i], Len(fx), Len(bs))

(* h is the flux that is about to be continued, 0 if there is none. *)
Share(f, fx, bs, on, st, h) ==
  Mine(fx[f]) + Others(f, bs, on, st) + (IF f = h THEN 1 ELSE 0)

Over(x) == x.state = Terminated /\ x.then # ToSelf

Shared(fx, bs, on, st, h) ==
  /\ \A f \in 1 .. Len(fx) :
       /\ Share(f, fx, bs, on, st, h) <= 1
       /\ Over(fx[f]) => Share(f, fx, bs, on, st, h) = 0
  /\ (\A f \in 1 .. Len(fx) : fx[f].then # ToSelf) =>
       \A f \in 1 .. Len(fx) :
         fx[f].state # Terminated => Share(f, fx, bs, on, st, h) >= 1

(* A flux that is continued is on the call stack once. *)
Flagged(fx, st) ==
  \A f \in 1 .. Len(fx) : Count(st, ActiveOf(f)) = IF fx[f].flag = 0 THEN 0 ELSE 1

(* What the loop over the branches of barrier b counts. *)
Left(b, st, w) ==
  \/ /\ Count(st, StartersOf(b)) = 0
     /\ w = 0
  \/ /\ Count(st, StartersOf(b)) = 1
     /\ \A i \in 1 .. Len(st) : st[i] \in StartersOf(b) => w = 1 + Len(st[i].rest)

(* d is the barrier at which someone is about to arrive, 0 if there is none. *)
Counted(b, fx, bs, st, d) ==
  \E w \in Nat :
    Left(b, st, w) /\ bs[b].count = Count(fx, OpenOf(b)) + w + (IF b = d THEN 1 ELSE 0)

Barred(fx, bs, st, d) == \A b \in 1 .. Len(bs) : Counted(b, fx, bs, st, d)

Queued(o) == IsInjective(o.obs) /\ (~o.started => o.obs = <<>>)
Lined(a) == a.kind = "observers" => IsInjective(a.rest)
Queues(on, st) ==
  /\ \A k \in OnceKeys : Queued(on[k])
  /\ \A i \in 1 .. Len(st) : Lined(st[i])

Good(fx, bs, on, st, h, d) ==
  /\ Shared(fx, bs, on, st, h) /\ Flagged(fx, st)
  /\ Barred(fx, bs, st, d) /\ Queues(on, st)

(* q is the number of calls of continue that nobody owed. *)
Sound(fx, bs, on, st, h, d, q) ==
  /\ Typed(fx, bs, on, st)
  /\ h \in 0 .. Len(fx) /\ d \in 0 .. Len(bs)
  /\ q = 0 => Good(fx, bs, on, st, h, d)

FluxInvariant ==
  /\ turns \in 0 .. MaxTurns /\ spurious \in 0 .. MaxSpurious
  /\ Sound(flux, barriers, once, stack, 0, 0, spurious)

(***************************************************************************)
(* Counting                                                                *)
(***************************************************************************)
In(x, S) == IF x \in S THEN 1 ELSE 0

PlacesOf(g, S) == {i \in DOMAIN g : g[i] \in S}

(* Counting is a cardinality, and none are counted only where none is.     *)
LEMMA CountType ==
  ASSUME NEW g, NEW S, IsFiniteSet(DOMAIN g)
  PROVE  /\ IsFiniteSet(PlacesOf(g, S)) /\ Count(g, S) = Cardinality(PlacesOf(g, S))
         /\ Count(g, S) \in Nat
         /\ Count(g, S) = 0 <=> \A i \in DOMAIN g : g[i] \notin S
<1>1. PlacesOf(g, S) \in SUBSET (DOMAIN g)
  BY DEF PlacesOf
<1>2. IsFiniteSet(PlacesOf(g, S))
  BY <1>1, FS_Subset
<1>3. Count(g, S) = Cardinality(PlacesOf(g, S))
  BY DEF Count, PlacesOf
<1>4. Cardinality(PlacesOf(g, S)) \in Nat
  BY <1>2, FS_CardinalityType
<1>5. Cardinality(PlacesOf(g, S)) = 0 <=> PlacesOf(g, S) = {}
  BY <1>2, FS_EmptySet
<1>6. PlacesOf(g, S) = {} <=> \A i \in DOMAIN g : g[i] \notin S
  BY DEF PlacesOf
<1> QED BY <1>2, <1>3, <1>4, <1>5, <1>6

(* One value more, or another value at one place. *)
LEMMA CountSet ==
  ASSUME NEW g, NEW h, NEW S, NEW i, IsFiniteSet(DOMAIN g), i \in DOMAIN g,
         DOMAIN h = DOMAIN g, \A j \in DOMAIN g : j # i => h[j] = g[j]
  PROVE  Count(h, S) + In(g[i], S) = Count(g, S) + In(h[i], S)
<1>1. /\ IsFiniteSet(PlacesOf(g, S)) /\ Count(g, S) = Cardinality(PlacesOf(g, S))
      /\ Count(g, S) \in Nat
  BY CountType
<1>2. /\ IsFiniteSet(PlacesOf(h, S)) /\ Count(h, S) = Cardinality(PlacesOf(h, S))
      /\ Count(h, S) \in Nat
  BY CountType
<1>3. i \in PlacesOf(g, S) <=> g[i] \in S
  BY DEF PlacesOf
<1>4. i \in PlacesOf(h, S) <=> h[i] \in S
  BY DEF PlacesOf
<1>5. PlacesOf(g, S) \ {i} = PlacesOf(h, S) \ {i}
  BY DEF PlacesOf
<1>6. Cardinality(PlacesOf(g, S) \ {i}) =
        IF i \in PlacesOf(g, S) THEN Cardinality(PlacesOf(g, S)) - 1
        ELSE Cardinality(PlacesOf(g, S))
  BY <1>1, FS_RemoveElement
<1>7. Cardinality(PlacesOf(h, S) \ {i}) =
        IF i \in PlacesOf(h, S) THEN Cardinality(PlacesOf(h, S)) - 1
        ELSE Cardinality(PlacesOf(h, S))
  BY <1>2, FS_RemoveElement
<1>8. Count(g, S) - In(g[i], S) = Count(h, S) - In(h[i], S)
  <2>1. Cardinality(PlacesOf(g, S) \ {i}) = Count(g, S) - In(g[i], S)
    BY <1>1, <1>3, <1>6 DEF In
  <2>2. Cardinality(PlacesOf(h, S) \ {i}) = Count(h, S) - In(h[i], S)
    BY <1>2, <1>4, <1>7 DEF In
  <2> QED BY <2>1, <2>2, <1>5
<1>9. In(g[i], S) \in Nat /\ In(h[i], S) \in Nat
  BY DEF In
<1> QED BY <1>1, <1>2, <1>8, <1>9

(* A value more is counted if it is in the set.                            *)
LEMMA CountAppend ==
  ASSUME NEW X, NEW g \in Seq(X), NEW x \in X, NEW S
  PROVE  /\ Count(Append(g, x), S) = Count(g, S) + In(x, S)
         /\ Count(g, S) \in Nat /\ In(x, S) \in {0, 1}
<1> DEFINE a == Append(g, x)
           n == Len(g) + 1
<1>1. /\ Len(g) \in Nat /\ DOMAIN g = 1 .. Len(g)
      /\ DOMAIN a = 1 .. n /\ a[n] = x /\ n \in DOMAIN a /\ n \notin DOMAIN g
      /\ DOMAIN a = DOMAIN g \cup {n}
      /\ \A i \in DOMAIN g : a[i] = g[i]
  OBVIOUS
<1>2. IsFiniteSet(DOMAIN g)
  BY <1>1, FS_Interval
<1>3. /\ IsFiniteSet(PlacesOf(g, S)) /\ Count(g, S) = Cardinality(PlacesOf(g, S))
      /\ Count(g, S) \in Nat
  BY <1>2, CountType
<1>4. Count(a, S) = Cardinality(PlacesOf(a, S))
  BY DEF Count, PlacesOf
<1> HIDE DEF a, n
<1>5. CASE x \in S
  <2>1. PlacesOf(a, S) = PlacesOf(g, S) \cup {n} /\ n \notin PlacesOf(g, S)
    BY <1>1, <1>5 DEF PlacesOf
  <2>2. Cardinality(PlacesOf(a, S)) = Cardinality(PlacesOf(g, S)) + 1
    BY <1>3, <2>1, FS_AddElement
  <2> QED BY <1>3, <1>4, <1>5, <2>2 DEF In, a
<1>6. CASE x \notin S
  <2>1. PlacesOf(a, S) = PlacesOf(g, S)
    BY <1>1, <1>6 DEF PlacesOf
  <2> QED BY <1>3, <1>4, <1>6, <2>1 DEF In, a
<1> QED BY <1>5, <1>6

(* What is at none of the places. *)
LEMMA CountNone ==
  ASSUME NEW X, NEW g \in Seq(X), NEW S
  PROVE  /\ Count(g, S) \in Nat
         /\ Count(g, S) = 0 <=> \A i \in 1 .. Len(g) : g[i] \notin S
<1>1. Len(g) \in Nat /\ DOMAIN g = 1 .. Len(g)
  OBVIOUS
<1>2. IsFiniteSet(DOMAIN g)
  BY <1>1, FS_Interval
<1> QED BY <1>1, <1>2, CountType

(* Of what there is one of, two places are one. *)
LEMMA CountOne ==
  ASSUME NEW X, NEW g \in Seq(X), NEW S, Count(g, S) <= 1,
         NEW i \in 1 .. Len(g), NEW j \in 1 .. Len(g), g[i] \in S, g[j] \in S
  PROVE  i = j
<1>1. Len(g) \in Nat /\ DOMAIN g = 1 .. Len(g)
  OBVIOUS
<1>2. IsFiniteSet(DOMAIN g)
  BY <1>1, FS_Interval
<1>3. /\ IsFiniteSet(PlacesOf(g, S)) /\ Count(g, S) = Cardinality(PlacesOf(g, S))
      /\ Count(g, S) \in Nat
  BY <1>2, CountType
<1>4. i \in PlacesOf(g, S) /\ j \in PlacesOf(g, S)
  BY <1>1 DEF PlacesOf
<1>5. SUFFICES ASSUME i # j PROVE FALSE
  OBVIOUS
<1>6. /\ IsFiniteSet(PlacesOf(g, S) \ {i})
      /\ Cardinality(PlacesOf(g, S) \ {i}) = Count(g, S) - 1
  BY <1>3, <1>4, FS_RemoveElement
<1>7. Cardinality(PlacesOf(g, S) \ {i}) = 0
  <2>1. Cardinality(PlacesOf(g, S) \ {i}) \in Nat
    BY <1>6, FS_CardinalityType
  <2> QED BY <1>3, <1>6, <2>1
<1>8. PlacesOf(g, S) \ {i} = {}
  BY <1>6, <1>7, FS_EmptySet
<1> QED BY <1>4, <1>5, <1>8

(***************************************************************************)
(* Frames                                                                  *)
(***************************************************************************)
LEMMA FrameIn ==
  ASSUME NEW a \in FrameRecords, NEW g
  PROVE  /\ In(a, LoopsOf(g)) = IF a.kind = "loop" /\ a.f = g THEN 1 ELSE 0
         /\ In(a, ActiveOf(g)) = IF a.kind \in {"loop", "after"} /\ a.f = g THEN 1 ELSE 0
         /\ In(a, TellersOf(g)) = IF a.kind = "observers" /\ g \in ToSet(a.rest) THEN 1 ELSE 0
         /\ In(a, StartersOf(g)) = IF a.kind = "branches" /\ a.at = g THEN 1 ELSE 0
BY DEF In, LoopsOf, ActiveOf, TellersOf, StartersOf

(* The frames that the operators of the model make.                        *)
LEMMA LoopFrames ==
  ASSUME NEW f \in Nat
  PROVE  /\ Loop(f) \in FrameRecords /\ Loop(f).kind = "loop" /\ Loop(f).f = f
         /\ After(f) \in FrameRecords /\ After(f).kind = "after" /\ After(f).f = f
         /\ User(f) \in FrameRecords /\ User(f).kind = "user" /\ User(f).f = f
<1>1. <<>> \in Seq(Nat)
  OBVIOUS
<1> QED BY <1>1 DEF Loop, After, User, FrameRecords

(* The frame that starts the branches of a barrier.                        *)
LEMMA BranchesFrame ==
  ASSUME NEW b \in Nat, NEW r \in Seq(Seq(Elements))
  PROVE  /\ Branches(b, r) \in FrameRecords /\ Branches(b, r).kind = "branches"
         /\ Branches(b, r).at = b /\ Branches(b, r).rest = r /\ Branches(b, r).f = NULL
BY DEF Branches, FrameRecords

(* The frame that tells the observers of a once.                           *)
LEMMA ObserversFrame ==
  ASSUME NEW r \in Seq(Nat)
  PROVE  /\ Observers(r) \in FrameRecords /\ Observers(r).kind = "observers"
         /\ Observers(r).rest = r /\ Observers(r).f = NULL
BY DEF Observers, FrameRecords

(* A frame more is one continuation more if it is a loop or tells the flux.*)
LEMMA OthersPush ==
  ASSUME NEW bs \in Seq(BarrierRecords), NEW on \in [OnceKeys -> OnceRecords],
         NEW s \in Seq(FrameRecords), NEW a \in FrameRecords, NEW f
  PROVE  /\ Others(f, bs, on, s) \in Nat
         /\ Others(f, bs, on, Append(s, a)) =
              Others(f, bs, on, s) + In(a, TellersOf(f)) + In(a, LoopsOf(f))
<1>1. Count(bs, BarriersOf(f)) \in Nat
  BY CountNone
<1>2. Count(on, OncesOf(f)) \in Nat
  <2>1. DOMAIN on = OnceKeys /\ IsFiniteSet(OnceKeys)
    BY AsyncAssumption
  <2> QED BY <2>1, CountType
<1>3. /\ Count(Append(s, a), TellersOf(f)) = Count(s, TellersOf(f)) + In(a, TellersOf(f))
      /\ Count(s, TellersOf(f)) \in Nat /\ In(a, TellersOf(f)) \in {0, 1}
  BY CountAppend
<1>4. /\ Count(Append(s, a), LoopsOf(f)) = Count(s, LoopsOf(f)) + In(a, LoopsOf(f))
      /\ Count(s, LoopsOf(f)) \in Nat /\ In(a, LoopsOf(f)) \in {0, 1}
  BY CountAppend
<1> QED BY <1>1, <1>2, <1>3, <1>4 DEF Others

(* The loops over branches, of the frames below and of the one on top. *)
LEMMA LeftPush ==
  ASSUME NEW s \in Seq(FrameRecords), NEW a \in FrameRecords, NEW b, NEW w,
         ~ (a.kind = "branches" /\ a.at = b)
  PROVE  Left(b, Append(s, a), w) <=> Left(b, s, w)
<1>1. In(a, StartersOf(b)) = 0 /\ a \notin StartersOf(b)
  BY FrameIn DEF StartersOf
<1>2. Count(Append(s, a), StartersOf(b)) = Count(s, StartersOf(b))
  BY <1>1, CountAppend
<1>3. /\ Len(s) \in Nat /\ Len(Append(s, a)) = Len(s) + 1 /\ Append(s, a)[Len(s) + 1] = a
      /\ \A i \in 1 .. Len(s) : Append(s, a)[i] = s[i]
  OBVIOUS
<1>4. (\A i \in 1 .. Len(Append(s, a)) :
         Append(s, a)[i] \in StartersOf(b) => w = 1 + Len(Append(s, a)[i].rest))
        <=> \A i \in 1 .. Len(s) : s[i] \in StartersOf(b) => w = 1 + Len(s[i].rest)
  BY <1>1, <1>3
<1> QED BY <1>2, <1>4 DEF Left

(* The frame that starts the branches of b, once it is on the stack.       *)
LEMMA LeftStart ==
  ASSUME NEW s \in Seq(FrameRecords), NEW a \in FrameRecords, NEW b, NEW w,
         a.kind = "branches", a.at = b
  PROVE  Left(b, Append(s, a), w) <=> Left(b, s, 0) /\ w = 1 + Len(a.rest)
<1>1. In(a, StartersOf(b)) = 1 /\ a \in StartersOf(b)
  BY FrameIn DEF StartersOf
<1>2. /\ Count(Append(s, a), StartersOf(b)) = Count(s, StartersOf(b)) + 1
      /\ Count(s, StartersOf(b)) \in Nat
  BY <1>1, CountAppend
<1>3. /\ Len(s) \in Nat /\ Len(Append(s, a)) = Len(s) + 1 /\ Append(s, a)[Len(s) + 1] = a
      /\ \A i \in 1 .. Len(s) : Append(s, a)[i] = s[i] /\ s[i] \in FrameRecords
  OBVIOUS
<1>4. \A x \in FrameRecords : Len(x.rest) \in Nat
  BY DEF FrameRecords
<1>5. Count(s, StartersOf(b)) = 0 <=> \A i \in 1 .. Len(s) : s[i] \notin StartersOf(b)
  BY CountNone
<1>6. Left(b, s, 0) <=> Count(s, StartersOf(b)) = 0
  <2>1. ASSUME Left(b, s, 0), Count(s, StartersOf(b)) # 0 PROVE FALSE
    <3>1. PICK i \in 1 .. Len(s) : s[i] \in StartersOf(b)
      BY <1>5, <2>1
    <3>2. 0 = 1 + Len(s[i].rest)
      BY <2>1, <3>1 DEF Left
    <3>3. s[i] \in FrameRecords
      BY <1>3, <3>1
    <3> HIDE <2>1
    <3> QED BY <1>4, <3>2, <3>3
  <2> QED BY <2>1 DEF Left
<1>7. CASE Count(s, StartersOf(b)) # 0
  BY <1>2, <1>6, <1>7 DEF Left
<1>8. CASE Count(s, StartersOf(b)) = 0
  <2>1. Count(Append(s, a), StartersOf(b)) = 1
    BY <1>2, <1>8
  <2>2. (\A i \in 1 .. Len(Append(s, a)) :
         Append(s, a)[i] \in StartersOf(b) => w = 1 + Len(Append(s, a)[i].rest))
        <=> w = 1 + Len(a.rest)
    <3>1. \A i \in 1 .. Len(s) : Append(s, a)[i] \notin StartersOf(b)
      BY <1>3, <1>5, <1>8
    <3>2. \A i \in 1 .. Len(Append(s, a)) : i \in 1 .. Len(s) \/ i = Len(s) + 1
      BY <1>3
    <3>3. Len(s) + 1 \in 1 .. Len(Append(s, a))
      BY <1>3
    <3> QED BY <1>1, <1>3, <3>1, <3>2, <3>3
  <2> QED BY <1>6, <1>8, <2>1, <2>2 DEF Left
<1> QED BY <1>7, <1>8

(***************************************************************************)
(* What a frame more on the stack changes                                  *)
(***************************************************************************)
LEMMA TypedParts ==
  ASSUME NEW fx, NEW bs, NEW on, NEW st, Typed(fx, bs, on, st)
  PROVE  /\ fx \in Seq(FluxRecords) /\ bs \in Seq(BarrierRecords)
         /\ on \in [OnceKeys -> OnceRecords] /\ st \in Seq(FrameRecords)
         /\ Len(fx) \in Nat /\ Len(bs) \in Nat /\ Len(st) \in Nat
         /\ \A f \in 1 .. Len(fx) : FluxTyped(fx[f], Len(bs)) /\ fx[f] \in FluxRecords
         /\ \A b \in 1 .. Len(bs) : bs[b].f \in 1 .. Len(fx) /\ bs[b] \in BarrierRecords
         /\ \A k \in OnceKeys : on[k].obs \in Seq(1 .. Len(fx)) /\ on[k] \in OnceRecords
         /\ \A i \in 1 .. Len(st) : FrameTyped(st[i], Len(fx), Len(bs))
BY DEF Typed

(* A frame is typed on the stack as by itself.                             *)
LEMMA TypedPush ==
  ASSUME NEW fx, NEW bs, NEW on, NEW s, NEW a, s \in Seq(FrameRecords)
  PROVE  /\ Typed(fx, bs, on, s) /\ FrameTyped(a, Len(fx), Len(bs))
              => Typed(fx, bs, on, Append(s, a))
         /\ Typed(fx, bs, on, Append(s, a)) /\ a \in FrameRecords
              => Typed(fx, bs, on, s) /\ FrameTyped(a, Len(fx), Len(bs))
<1>1. /\ Len(s) \in Nat /\ Len(Append(s, a)) = Len(s) + 1 /\ Append(s, a)[Len(s) + 1] = a
      /\ \A i \in 1 .. Len(s) : Append(s, a)[i] = s[i]
  OBVIOUS
<1>2. \A i \in 1 .. Len(s) + 1 : i \in 1 .. Len(s) \/ i = Len(s) + 1
  BY <1>1
<1>3. Len(s) + 1 \in 1 .. Len(s) + 1 /\ \A i \in 1 .. Len(s) : i \in 1 .. Len(s) + 1
  BY <1>1
<1>4. FrameTyped(a, Len(fx), Len(bs)) => a \in FrameRecords
  BY DEF FrameTyped
<1>5. ASSUME Typed(fx, bs, on, s), FrameTyped(a, Len(fx), Len(bs))
      PROVE  Typed(fx, bs, on, Append(s, a))
  <2>1. Append(s, a) \in Seq(FrameRecords)
    BY <1>4, <1>5
  <2>2. \A i \in 1 .. Len(Append(s, a)) : FrameTyped(Append(s, a)[i], Len(fx), Len(bs))
    BY <1>1, <1>2, <1>5 DEF Typed
  <2> QED BY <1>5, <2>1, <2>2 DEF Typed
<1>6. ASSUME Typed(fx, bs, on, Append(s, a))
      PROVE  Typed(fx, bs, on, s) /\ FrameTyped(a, Len(fx), Len(bs))
  <2>1. \A i \in 1 .. Len(s) + 1 : FrameTyped(Append(s, a)[i], Len(fx), Len(bs))
    BY <1>1, <1>6 DEF Typed
  <2>2. FrameTyped(a, Len(fx), Len(bs))
    BY <1>1, <1>3, <2>1
  <2>3. \A i \in 1 .. Len(s) : FrameTyped(s[i], Len(fx), Len(bs))
    BY <1>1, <1>3, <2>1
  <2> QED BY <1>6, <2>2, <2>3 DEF Typed
<1> QED BY <1>5, <1>6

(* A frame that gives nobody a continuation. *)
Idle(a) == a.kind # "loop" /\ (a.kind = "observers" => a.rest = <<>>)

(* A frame that continues nobody changes no share.                         *)
LEMMA SharedIdle ==
  ASSUME NEW fx, NEW bs \in Seq(BarrierRecords), NEW on \in [OnceKeys -> OnceRecords],
         NEW s \in Seq(FrameRecords), NEW a \in FrameRecords, NEW h, Idle(a)
  PROVE  Shared(fx, bs, on, Append(s, a), h) <=> Shared(fx, bs, on, s, h)
<1>1. ASSUME NEW f PROVE Share(f, fx, bs, on, Append(s, a), h) = Share(f, fx, bs, on, s, h)
  <2>1. In(a, TellersOf(f)) = 0 /\ In(a, LoopsOf(f)) = 0
    <3>1. ToSet(<<>>) = {}
      BY DEF ToSet
    <3> QED BY <3>1, FrameIn DEF Idle
  <2>2. /\ Others(f, bs, on, s) \in Nat
        /\ Others(f, bs, on, Append(s, a)) =
             Others(f, bs, on, s) + In(a, TellersOf(f)) + In(a, LoopsOf(f))
    BY OthersPush
  <2>3. Others(f, bs, on, Append(s, a)) = Others(f, bs, on, s)
    BY <2>1, <2>2
  <2> QED BY <2>3 DEF Share
<1> QED BY <1>1 DEF Shared

(* A flux that is about to take a turn, in its loop or out of it. *)
LEMMA SharedLoop ==
  ASSUME NEW fx, NEW bs \in Seq(BarrierRecords), NEW on \in [OnceKeys -> OnceRecords],
         NEW s \in Seq(FrameRecords), NEW a \in FrameRecords, a.kind = "loop",
         fx \in Seq(FluxRecords), a.f \in 1 .. Len(fx)
  PROVE  Shared(fx, bs, on, Append(s, a), 0) <=> Shared(fx, bs, on, s, a.f)
<1>1. ASSUME NEW f \in 1 .. Len(fx)
      PROVE  Share(f, fx, bs, on, Append(s, a), 0) = Share(f, fx, bs, on, s, a.f)
  <2>1. In(a, TellersOf(f)) = 0 /\ In(a, LoopsOf(f)) = IF a.f = f THEN 1 ELSE 0
    BY FrameIn
  <2>2. /\ Others(f, bs, on, s) \in Nat
        /\ Others(f, bs, on, Append(s, a)) =
             Others(f, bs, on, s) + In(a, TellersOf(f)) + In(a, LoopsOf(f))
    BY OthersPush
  <2>3. Mine(fx[f]) \in Nat
    <3>1. fx[f] \in FluxRecords
      OBVIOUS
    <3> QED BY <3>1 DEF Mine, FluxRecords
  <2>4. f # 0
    OBVIOUS
  <2> QED BY <2>1, <2>2, <2>3, <2>4 DEF Share
<1> QED BY <1>1 DEF Shared

(* A frame that starts no branches changes no barrier.                     *)
LEMMA BarredPush ==
  ASSUME NEW fx, NEW bs, NEW s \in Seq(FrameRecords), NEW a \in FrameRecords, NEW d,
         a.kind # "branches"
  PROVE  Barred(fx, bs, Append(s, a), d) <=> Barred(fx, bs, s, d)
<1>1. \A b, w : Left(b, Append(s, a), w) <=> Left(b, s, w)
  BY LeftPush
<1> QED BY <1>1 DEF Barred, Counted

(* A frame is in order on the stack as by itself.                          *)
LEMMA QueuesPush ==
  ASSUME NEW on, NEW s \in Seq(FrameRecords), NEW a \in FrameRecords
  PROVE  Queues(on, Append(s, a)) <=> Queues(on, s) /\ Lined(a)
<1>1. /\ Len(s) \in Nat /\ Len(Append(s, a)) = Len(s) + 1 /\ Append(s, a)[Len(s) + 1] = a
      /\ \A i \in 1 .. Len(s) : Append(s, a)[i] = s[i]
  OBVIOUS
<1>2. \A i \in 1 .. Len(s) + 1 : i \in 1 .. Len(s) \/ i = Len(s) + 1
  BY <1>1
<1>3. Len(s) + 1 \in 1 .. Len(s) + 1 /\ \A i \in 1 .. Len(s) : i \in 1 .. Len(s) + 1
  BY <1>1
<1> QED BY <1>1, <1>2, <1>3 DEF Queues

(* A frame that is no turn of a loop leaves the flags.                     *)
LEMMA FlaggedPush ==
  ASSUME NEW fx, NEW s \in Seq(FrameRecords), NEW a \in FrameRecords,
         a.kind \notin {"loop", "after"}
  PROVE  Flagged(fx, Append(s, a)) <=> Flagged(fx, s)
<1>1. \A f : Count(Append(s, a), ActiveOf(f)) = Count(s, ActiveOf(f))
  <2>1. \A f : In(a, ActiveOf(f)) = 0
    BY FrameIn
  <2>2. \A f : /\ Count(Append(s, a), ActiveOf(f)) = Count(s, ActiveOf(f)) + In(a, ActiveOf(f))
               /\ Count(s, ActiveOf(f)) \in Nat
    BY CountAppend
  <2> QED BY <2>1, <2>2
<1> QED BY <1>1 DEF Flagged

(* A flux that is in a turn is as much on the stack as one before it.      *)
LEMMA FlaggedSwap ==
  ASSUME NEW fx, NEW s \in Seq(FrameRecords), NEW a \in FrameRecords, NEW c \in FrameRecords,
         a.kind \in {"loop", "after"}, c.kind \in {"loop", "after"}, a.f = c.f
  PROVE  Flagged(fx, Append(s, a)) <=> Flagged(fx, Append(s, c))
<1>1. \A f : Count(Append(s, a), ActiveOf(f)) = Count(Append(s, c), ActiveOf(f))
  <2>1. \A f : In(a, ActiveOf(f)) = In(c, ActiveOf(f))
    BY FrameIn
  <2>2. \A f : /\ Count(Append(s, a), ActiveOf(f)) = Count(s, ActiveOf(f)) + In(a, ActiveOf(f))
               /\ Count(Append(s, c), ActiveOf(f)) = Count(s, ActiveOf(f)) + In(c, ActiveOf(f))
    BY CountAppend
  <2> QED BY <2>1, <2>2
<1> QED BY <1>1 DEF Flagged

(* The stack, below its top and with it. *)
LEMMA TopSplit ==
  ASSUME stack \in Seq(FrameRecords), stack # <<>>
  PROVE  /\ Below \in Seq(FrameRecords) /\ Top \in FrameRecords
         /\ stack = Append(Below, Top)
<1>1. /\ Len(stack) \in Nat /\ Len(stack) >= 1
  OBVIOUS
<1>2. Front(stack) = [i \in 1 .. Len(stack) - 1 |-> stack[i]]
  BY <1>1 DEF Front
<1>3. Front(stack) \in Seq(FrameRecords) /\ Len(Front(stack)) = Len(stack) - 1
  BY <1>1, <1>2
<1>4. stack[Len(stack)] \in FrameRecords
  BY <1>1
<1>5. stack = Append(Front(stack), stack[Len(stack)])
  BY <1>1, <1>2, <1>3, <1>4
<1> QED BY <1>3, <1>4, <1>5 DEF Below, Top, Last

(***************************************************************************)
(* The steps that only move a frame                                        *)
(***************************************************************************)
LEMMA SoundParts ==
  ASSUME NEW fx, NEW bs, NEW on, NEW st, NEW h, NEW d, NEW q,
         Sound(fx, bs, on, st, h, d, q)
  PROVE  /\ Typed(fx, bs, on, st)
         /\ fx \in Seq(FluxRecords) /\ bs \in Seq(BarrierRecords)
         /\ on \in [OnceKeys -> OnceRecords] /\ st \in Seq(FrameRecords)
         /\ Len(fx) \in Nat /\ Len(bs) \in Nat /\ Len(st) \in Nat
         /\ h \in 0 .. Len(fx) /\ d \in 0 .. Len(bs)
BY TypedParts DEF Sound

(* The first of a queue and the others.                                    *)
LEMMA HeadTail ==
  ASSUME NEW S, NEW r \in Seq(S), r # <<>>
  PROVE  Head(r) \in S /\ Tail(r) \in Seq(S) /\ Len(Tail(r)) = Len(r) - 1
OBVIOUS

(* A frame that gives nobody a continuation comes and goes. *)
Mute(a) == a.kind \in {"user", "observers"} /\ (a.kind = "observers" => a.rest = <<>>)

(* A frame that continues nobody and counts for no barrier comes and goes. *)
LEMMA MuteComes ==
  ASSUME NEW fx, NEW bs, NEW on, NEW s, NEW a, NEW h, NEW d, NEW q, Mute(a),
         FrameTyped(a, Len(fx), Len(bs)), s \in Seq(FrameRecords)
  PROVE  Sound(fx, bs, on, Append(s, a), h, d, q) <=> Sound(fx, bs, on, s, h, d, q)
<1>1. a \in FrameRecords /\ a.kind # "branches" /\ a.kind \notin {"loop", "after"}
  BY DEF FrameTyped, Mute
<1>2. Idle(a)
  BY DEF Idle, Mute
<1>3. Lined(a)
  BY DEF Lined, Mute, IsInjective
<1>4. Typed(fx, bs, on, Append(s, a)) <=> Typed(fx, bs, on, s)
  BY <1>1, TypedPush
<1>5. Queues(on, Append(s, a)) <=> Queues(on, s)
  BY <1>1, <1>3, QueuesPush
<1>6. Barred(fx, bs, Append(s, a), d) <=> Barred(fx, bs, s, d)
  BY <1>1, BarredPush
<1>7. Flagged(fx, Append(s, a)) <=> Flagged(fx, s)
  BY <1>1, FlaggedPush
<1>8. ASSUME Typed(fx, bs, on, s)
      PROVE  Shared(fx, bs, on, Append(s, a), h) <=> Shared(fx, bs, on, s, h)
  BY <1>1, <1>2, <1>8, SharedIdle, TypedParts
<1> QED BY <1>4, <1>5, <1>6, <1>7, <1>8 DEF Sound, Good

(* A flux in its loop, or out of it and about to be continued. *)
LEMMA TurnTaken ==
  ASSUME NEW fx, NEW bs, NEW on, NEW s, NEW a, NEW c, NEW f, NEW q, s \in Seq(FrameRecords),
         FrameTyped(a, Len(fx), Len(bs)), FrameTyped(c, Len(fx), Len(bs)),
         a.kind = "loop", c.kind = "after", a.f = f, c.f = f
  PROVE  Sound(fx, bs, on, Append(s, a), 0, 0, q) <=> Sound(fx, bs, on, Append(s, c), f, 0, q)
<1>1. /\ a \in FrameRecords /\ c \in FrameRecords /\ f \in 1 .. Len(fx)
  BY DEF FrameTyped
<1>2. /\ Typed(fx, bs, on, Append(s, a)) <=> Typed(fx, bs, on, s)
      /\ Typed(fx, bs, on, Append(s, c)) <=> Typed(fx, bs, on, s)
  BY <1>1, TypedPush
<1>3. SUFFICES ASSUME Typed(fx, bs, on, s)
               PROVE  Good(fx, bs, on, Append(s, a), 0, 0) <=> Good(fx, bs, on, Append(s, c), f, 0)
  <2>1. Typed(fx, bs, on, s) => Len(fx) \in Nat /\ Len(bs) \in Nat
    BY TypedParts
  <2>2. Typed(fx, bs, on, s) => /\ 0 \in 0 .. Len(fx) /\ f \in 0 .. Len(fx)
                               /\ 0 \in 0 .. Len(bs)
    BY <1>1, <2>1
  <2> QED BY <1>2, <2>2 DEF Sound
<1>4. /\ fx \in Seq(FluxRecords) /\ bs \in Seq(BarrierRecords)
      /\ on \in [OnceKeys -> OnceRecords]
  BY <1>3, TypedParts
<1>5. Shared(fx, bs, on, Append(s, a), 0) <=> Shared(fx, bs, on, Append(s, c), f)
  <2>1. Shared(fx, bs, on, Append(s, a), 0) <=> Shared(fx, bs, on, s, f)
    BY <1>1, <1>4, SharedLoop
  <2>2. Shared(fx, bs, on, Append(s, c), f) <=> Shared(fx, bs, on, s, f)
    BY <1>1, <1>4, SharedIdle DEF Idle
  <2> QED BY <2>1, <2>2
<1>6. Flagged(fx, Append(s, a)) <=> Flagged(fx, Append(s, c))
  BY <1>1, FlaggedSwap
<1>7. Barred(fx, bs, Append(s, a), 0) <=> Barred(fx, bs, Append(s, c), 0)
  BY <1>1, BarredPush
<1>8. Queues(on, Append(s, a)) <=> Queues(on, Append(s, c))
  BY <1>1, QueuesPush DEF Lined
<1> QED BY <1>5, <1>6, <1>7, <1>8 DEF Good

(* The loop over the branches starts one, or comes to its end: either way  *)
(* it counts one less than its barrier does, until someone arrives.        *)
LEMMA BranchTaken ==
  ASSUME NEW fx, NEW bs, NEW on, NEW s, NEW a, NEW q, s \in Seq(FrameRecords),
         a \in FrameRecords, a.kind = "branches", Sound(fx, bs, on, Append(s, a), 0, 0, q)
  PROVE  /\ a.at \in 1 .. Len(bs) /\ a.rest \in Seq(Seq(Elements))
         /\ a.rest # <<>> => Sound(fx, bs, on, Append(s, Branches(a.at, Tail(a.rest))), 0, a.at, q)
         /\ a.rest = <<>> => Sound(fx, bs, on, s, 0, a.at, q)
<1> DEFINE b == a.at
           r == a.rest
           c == Branches(b, Tail(r))
<1>1. /\ Typed(fx, bs, on, Append(s, a)) /\ Typed(fx, bs, on, s)
      /\ FrameTyped(a, Len(fx), Len(bs))
  BY TypedPush, SoundParts
<1>2. /\ fx \in Seq(FluxRecords) /\ bs \in Seq(BarrierRecords)
      /\ on \in [OnceKeys -> OnceRecords] /\ Len(fx) \in Nat /\ Len(bs) \in Nat
  BY <1>1, TypedParts
<1>3. b \in 1 .. Len(bs) /\ r \in Seq(Seq(Elements)) /\ b \in Nat
  BY <1>1, <1>2 DEF FrameTyped
<1>4. r # <<>> => /\ c \in FrameRecords /\ c.kind = "branches" /\ c.at = b /\ c.f = NULL
                  /\ c.rest = Tail(r) /\ c.rest \in Seq(Seq(Elements)) /\ Len(c.rest) = Len(r) - 1
  <2> HIDE DEF b, r
  <2>1. r # <<>> => Tail(r) \in Seq(Seq(Elements)) /\ Len(Tail(r)) = Len(r) - 1
    BY <1>3, HeadTail
  <2>2. ASSUME r # <<>>
        PROVE  /\ c \in FrameRecords /\ c.kind = "branches" /\ c.at = b /\ c.f = NULL
               /\ c.rest = Tail(r)
    <3>1. b \in Nat /\ Tail(r) \in Seq(Seq(Elements))
      BY <2>1, <2>2, <1>3
    <3> QED BY <3>1, BranchesFrame
  <2> QED BY <2>1, <2>2
<1> HIDE DEF c, r, b
<1>5. r # <<>> => Typed(fx, bs, on, Append(s, c))
  <2>1. r # <<>> => FrameTyped(c, Len(fx), Len(bs))
    BY <1>3, <1>4 DEF FrameTyped
  <2> QED BY <2>1, <1>1, TypedPush
<1>6. Idle(a) /\ (r # <<>> => Idle(c))
  BY <1>4 DEF Idle
<1>7. Lined(a) /\ (r # <<>> => Lined(c))
  BY <1>4 DEF Lined
<1>8. ASSUME q = 0
      PROVE  /\ r # <<>> => Good(fx, bs, on, Append(s, c), 0, b)
             /\ r = <<>> => Good(fx, bs, on, s, 0, b)
  <2>1. Good(fx, bs, on, Append(s, a), 0, 0)
    BY <1>8 DEF Sound
  <2>2. Shared(fx, bs, on, s, 0) /\ (r # <<>> => Shared(fx, bs, on, Append(s, c), 0))
    BY <2>1, <1>2, <1>4, <1>6, SharedIdle DEF Good
  <2>3. Flagged(fx, s) /\ (r # <<>> => Flagged(fx, Append(s, c)))
    BY <2>1, <1>4, FlaggedPush DEF Good
  <2>4. Queues(on, s) /\ (r # <<>> => Queues(on, Append(s, c)))
    BY <2>1, <1>4, <1>7, QueuesPush DEF Good
  <2>5. ASSUME NEW g \in 1 .. Len(bs)
        PROVE  /\ r # <<>> => Counted(g, fx, bs, Append(s, c), b)
               /\ r = <<>> => Counted(g, fx, bs, s, b)
    <3>1. Counted(g, fx, bs, Append(s, a), 0)
      BY <2>1 DEF Good, Barred
    <3>2. PICK w \in Nat : /\ Left(g, Append(s, a), w)
                           /\ bs[g].count = Count(fx, OpenOf(g)) + w + (IF g = 0 THEN 1 ELSE 0)
      BY <3>1 DEF Counted
    <3>3. Count(fx, OpenOf(g)) \in Nat /\ g # 0 /\ Len(r) \in Nat
      BY <1>2, <1>3, CountNone
    <3>4. bs[g].count = Count(fx, OpenOf(g)) + w
      BY <3>2, <3>3
    <3>5. CASE g # b
      <4>1. Left(g, s, w) /\ (r # <<>> => Left(g, Append(s, c), w))
        BY <3>2, <3>5, <1>4, LeftPush DEF b
      <4>2. bs[g].count = Count(fx, OpenOf(g)) + w + (IF g = b THEN 1 ELSE 0)
        BY <3>3, <3>4, <3>5
      <4> QED BY <4>1, <4>2 DEF Counted
    <3>6. CASE g = b
      <4>1. Left(g, s, 0) /\ w = 1 + Len(r)
        BY <3>2, <3>6, LeftStart DEF b, r
      <4>2. ASSUME r # <<>> PROVE Counted(g, fx, bs, Append(s, c), b)
        <5>1. Left(g, Append(s, c), Len(r))
          <6>1. Len(r) = 1 + Len(c.rest)
            BY <1>4, <3>3, <4>2
          <6> QED BY <6>1, <4>1, <4>2, <1>4, <3>6, LeftStart
        <5>2. bs[g].count = Count(fx, OpenOf(g)) + Len(r) + (IF g = b THEN 1 ELSE 0)
          BY <3>3, <3>4, <3>6, <4>1
        <5> QED BY <5>1, <5>2, <3>3 DEF Counted
      <4>3. ASSUME r = <<>> PROVE Counted(g, fx, bs, s, b)
        <5>1. Len(r) = 0
          BY <4>3
        <5>2. bs[g].count = Count(fx, OpenOf(g)) + 0 + (IF g = b THEN 1 ELSE 0)
          BY <3>3, <3>4, <3>6, <4>1, <5>1
        <5> QED BY <4>1, <5>2 DEF Counted
      <4> QED BY <4>2, <4>3
    <3> QED BY <3>5, <3>6
  <2> QED BY <2>2, <2>3, <2>4, <2>5 DEF Good, Barred
<1>9. b \in 0 .. Len(bs) /\ 0 \in 0 .. Len(fx)
  BY <1>2, <1>3
<1> QED BY <1>1, <1>3, <1>5, <1>8, <1>9 DEF Sound, b, c, r

(* The observers of a once are told. *)
LEMMA ObserverTold ==
  ASSUME NEW fx, NEW bs, NEW on, NEW s, NEW a, NEW q, s \in Seq(FrameRecords),
         a \in FrameRecords, a.kind = "observers", a.rest # <<>>,
         Sound(fx, bs, on, Append(s, a), 0, 0, q)
  PROVE  /\ Head(a.rest) \in 1 .. Len(fx)
         /\ Sound(fx, bs, on, Append(s, Observers(Tail(a.rest))), Head(a.rest), 0, q)
<1> DEFINE r == a.rest
           f == Head(r)
           c == Observers(Tail(r))
<1>1. /\ Typed(fx, bs, on, Append(s, a)) /\ Typed(fx, bs, on, s)
      /\ FrameTyped(a, Len(fx), Len(bs))
  BY TypedPush, SoundParts
<1>2. /\ fx \in Seq(FluxRecords) /\ bs \in Seq(BarrierRecords)
      /\ on \in [OnceKeys -> OnceRecords] /\ Len(fx) \in Nat /\ Len(bs) \in Nat
  BY <1>1, TypedParts
<1>3. r \in Seq(1 .. Len(fx)) /\ r # <<>>
  BY <1>1 DEF FrameTyped
<1>4. /\ f \in 1 .. Len(fx) /\ Tail(r) \in Seq(1 .. Len(fx)) /\ Tail(r) \in Seq(Nat)
      /\ f \in 0 .. Len(fx)
  <2>1. f \in 1 .. Len(fx) /\ Tail(r) \in Seq(1 .. Len(fx))
    BY <1>3, HeadTail
  <2>2. 1 .. Len(fx) \subseteq Nat /\ 1 .. Len(fx) \subseteq 0 .. Len(fx)
    BY <1>2
  <2>3. Seq(1 .. Len(fx)) \subseteq Seq(Nat)
    BY <2>2
  <2> QED BY <2>1, <2>2, <2>3
<1>5. c \in FrameRecords /\ c.kind = "observers" /\ c.rest = Tail(r) /\ c.f = NULL
  BY <1>4, ObserversFrame
<1> HIDE DEF r, f, c
<1>6. Typed(fx, bs, on, Append(s, c))
  <2>1. FrameTyped(c, Len(fx), Len(bs))
    BY <1>4, <1>5 DEF FrameTyped
  <2> QED BY <2>1, <1>1, TypedPush
<1>7. ASSUME q = 0 PROVE Good(fx, bs, on, Append(s, c), f, 0)
  <2>1. Good(fx, bs, on, Append(s, a), 0, 0)
    BY <1>7 DEF Sound
  <2>2. IsInjective(r) /\ Queues(on, s)
    BY <2>1, QueuesPush DEF Good, Lined, r
  <2>3. f \in ToSet(r) /\ IsInjective(Tail(r)) /\ ToSet(Tail(r)) = ToSet(r) \ {f}
    BY <1>3, <2>2, TailElements DEF f
  <2>4. Queues(on, Append(s, c))
    BY <2>2, <2>3, <1>5, QueuesPush DEF Lined
  <2>5. Flagged(fx, Append(s, c))
    BY <2>1, <1>5, FlaggedPush DEF Good
  <2>6. Barred(fx, bs, Append(s, c), 0)
    BY <2>1, <1>5, BarredPush DEF Good
  <2>7. ASSUME NEW g \in 1 .. Len(fx)
        PROVE  Share(g, fx, bs, on, Append(s, c), f) = Share(g, fx, bs, on, Append(s, a), 0)
    <3>1. /\ In(a, LoopsOf(g)) = 0 /\ In(c, LoopsOf(g)) = 0
          /\ In(a, TellersOf(g)) = IF g \in ToSet(r) THEN 1 ELSE 0
          /\ In(c, TellersOf(g)) = IF g \in ToSet(Tail(r)) THEN 1 ELSE 0
      BY <1>5, FrameIn DEF r
    <3>2. In(a, TellersOf(g)) = In(c, TellersOf(g)) + (IF g = f THEN 1 ELSE 0)
      BY <2>3, <3>1
    <3>3. /\ Others(g, bs, on, s) \in Nat
          /\ Others(g, bs, on, Append(s, a)) =
               Others(g, bs, on, s) + In(a, TellersOf(g)) + In(a, LoopsOf(g))
          /\ Others(g, bs, on, Append(s, c)) =
               Others(g, bs, on, s) + In(c, TellersOf(g)) + In(c, LoopsOf(g))
      BY <1>2, <1>5, OthersPush
    <3>4. Mine(fx[g]) \in Nat
      <4>1. fx[g] \in FluxRecords
        BY <1>2
      <4> QED BY <4>1 DEF Mine, FluxRecords
    <3>5. g # 0
      OBVIOUS
    <3>6. In(c, TellersOf(g)) \in Nat
      BY DEF In
    <3> QED BY <3>1, <3>2, <3>3, <3>4, <3>5, <3>6 DEF Share
  <2>8. Shared(fx, bs, on, Append(s, c), f)
    BY <2>1, <2>7 DEF Good, Shared
  <2> QED BY <2>4, <2>5, <2>6, <2>8 DEF Good
<1> QED BY <1>2, <1>4, <1>6, <1>7 DEF Sound, f, c, r

(***************************************************************************)
(* Steps that change one flux                                              *)
(***************************************************************************)
Changed(fx, f, x, y) ==
  /\ y \in Seq(FluxRecords) /\ Len(y) = Len(fx)
  /\ f \in 1 .. Len(fx) /\ y[f] = x
  /\ \A g \in 1 .. Len(fx) : g # f => y[g] = fx[g]

(* An EXCEPT changes one flux.                                             *)
LEMMA ChangedTo ==
  ASSUME NEW fx \in Seq(FluxRecords), NEW f \in 1 .. Len(fx), NEW x \in FluxRecords
  PROVE  Changed(fx, f, x, [fx EXCEPT ![f] = x])
BY DEF Changed

(* A typed flux in the place of another.                                   *)
LEMMA TypedChanged ==
  ASSUME NEW fx, NEW bs, NEW on, NEW st, NEW f, NEW x, NEW y,
         Typed(fx, bs, on, st), Changed(fx, f, x, y), FluxTyped(x, Len(bs))
  PROVE  Typed(y, bs, on, st)
<1>1. \A g \in 1 .. Len(y) : FluxTyped(y[g], Len(bs))
  <2> SUFFICES ASSUME NEW g \in 1 .. Len(y) PROVE FluxTyped(y[g], Len(bs))
    OBVIOUS
  <2>1. CASE g = f
    BY <2>1 DEF Changed
  <2>2. CASE g # f
    BY <2>2 DEF Changed, Typed
  <2> QED BY <2>1, <2>2
<1> QED BY <1>1 DEF Typed, Changed

(* The open branches of a barrier, when one flux has changed.              *)
LEMMA OpenChanged ==
  ASSUME NEW fx \in Seq(FluxRecords), NEW f, NEW x, NEW y, NEW b, Changed(fx, f, x, y)
  PROVE  /\ Count(y, OpenOf(b)) \in Nat /\ Count(fx, OpenOf(b)) \in Nat
         /\ Count(y, OpenOf(b)) + In(fx[f], OpenOf(b)) = Count(fx, OpenOf(b)) + In(x, OpenOf(b))
<1>1. /\ DOMAIN fx = 1 .. Len(fx) /\ DOMAIN y = 1 .. Len(fx) /\ Len(fx) \in Nat
      /\ f \in DOMAIN fx /\ y[f] = x /\ y \in Seq(FluxRecords)
      /\ \A g \in DOMAIN fx : g # f => y[g] = fx[g]
  BY DEF Changed
<1>2. IsFiniteSet(DOMAIN fx)
  BY <1>1, FS_Interval
<1>3. Count(y, OpenOf(b)) + In(fx[f], OpenOf(b)) = Count(fx, OpenOf(b)) + In(y[f], OpenOf(b))
  BY <1>1, <1>2, CountSet
<1>4. Count(y, OpenOf(b)) \in Nat /\ Count(fx, OpenOf(b)) \in Nat
  BY <1>1, CountNone
<1> QED BY <1>1, <1>3, <1>4

(* What a flux is made of.                                                 *)
LEMMA MineType ==
  ASSUME NEW x \in FluxRecords
  PROVE  /\ Mine(x) \in Nat /\ x.owed \in Nat /\ x.flag \in 0 .. 2 /\ x.state \in States
         /\ x.then \in Thens /\ x.elements \in Seq(Elements)
         /\ Mine(x) = 0 => x.flag # 2
BY DEF Mine, FluxRecords

(* Who is about to continue flux f, when it is not f itself that changes. *)
Holder(f, h) == IF f = h THEN 1 ELSE 0

(* What a flux owes, its elements and its flag: the rest stays. *)
LEMMA FluxChanged ==
  ASSUME NEW fx, NEW bs, NEW on, NEW st, NEW h, NEW d, NEW q, NEW f, NEW x, NEW y, NEW h2,
         Sound(fx, bs, on, st, h, d, q), Changed(fx, f, x, y), FluxTyped(x, Len(bs)),
         x.then = fx[f].then, x.state = Terminated <=> fx[f].state = Terminated,
         x.flag = 0 <=> fx[f].flag = 0, h2 \in 0 .. Len(fx),
         q = 0 => Mine(x) + Holder(f, h2) = Mine(fx[f]) + Holder(f, h),
         \A g \in 1 .. Len(fx) : g # f => Holder(g, h2) = Holder(g, h)
  PROVE  Sound(y, bs, on, st, h2, d, q)
<1>1. /\ Typed(fx, bs, on, st) /\ fx \in Seq(FluxRecords) /\ bs \in Seq(BarrierRecords)
      /\ on \in [OnceKeys -> OnceRecords] /\ st \in Seq(FrameRecords)
      /\ Len(fx) \in Nat /\ Len(bs) \in Nat /\ d \in 0 .. Len(bs)
  BY SoundParts
<1>2. Typed(y, bs, on, st)
  BY <1>1, TypedChanged
<1>3. /\ Len(y) = Len(fx) /\ f \in 1 .. Len(fx) /\ y[f] = x
      /\ \A g \in 1 .. Len(fx) : g # f => y[g] = fx[g]
  BY DEF Changed
<1>4. ASSUME q = 0 PROVE Good(y, bs, on, st, h2, d)
  <2>1. Good(fx, bs, on, st, h, d)
    BY <1>4 DEF Sound
  <2>2. ASSUME NEW g \in 1 .. Len(fx)
        PROVE  /\ Share(g, y, bs, on, st, h2) = Share(g, fx, bs, on, st, h)
               /\ y[g].then = fx[g].then
               /\ y[g].state = Terminated <=> fx[g].state = Terminated
               /\ y[g].flag = 0 <=> fx[g].flag = 0
    <3>1. CASE g # f
      BY <3>1, <1>3 DEF Share, Holder
    <3>2. CASE g = f
      <4>1. Others(g, bs, on, st) \in Nat
        BY <1>1, OthersPush, LoopFrames
      <4>2. Mine(x) \in Nat /\ Mine(fx[g]) \in Nat
        BY <1>1, <1>3, <3>2, MineType DEF FluxTyped
      <4>3. Holder(g, h) \in Nat /\ Holder(g, h2) \in Nat
        BY DEF Holder
      <4>4. Mine(y[g]) = Mine(x) /\ Mine(x) + Holder(g, h2) = Mine(fx[g]) + Holder(g, h)
        BY <1>3, <1>4, <3>2
      <4>5. /\ Share(g, y, bs, on, st, h2) = Mine(y[g]) + Others(g, bs, on, st) + Holder(g, h2)
            /\ Share(g, fx, bs, on, st, h) = Mine(fx[g]) + Others(g, bs, on, st) + Holder(g, h)
        BY DEF Share, Holder
      <4>6. Share(g, y, bs, on, st, h2) = Share(g, fx, bs, on, st, h)
        <5>1. PICK o \in Nat, m \in Nat, n \in Nat, i \in Nat, j \in Nat :
                /\ Others(g, bs, on, st) = o /\ Mine(x) = m /\ Mine(fx[g]) = n
                /\ Holder(g, h) = i /\ Holder(g, h2) = j
          BY <4>1, <4>2, <4>3
        <5>2. m + j = n + i
          BY <4>4, <5>1
        <5>3. m + o + j = n + o + i
          BY <5>2
        <5>4. Share(g, y, bs, on, st, h2) = m + o + j /\ Share(g, fx, bs, on, st, h) = n + o + i
          BY <4>4, <4>5, <5>1
        <5> QED BY <5>3, <5>4
      <4> QED BY <4>6, <1>3, <3>2
    <3> QED BY <3>1, <3>2
  <2>3. Shared(y, bs, on, st, h2)
    <3>1. Shared(fx, bs, on, st, h)
      BY <2>1 DEF Good
    <3> QED BY <2>2, <3>1, <1>3 DEF Shared, Over
  <2>4. Flagged(y, st)
    BY <2>1, <2>2, <1>3 DEF Good, Flagged
  <2>5. \A b : Count(y, OpenOf(b)) = Count(fx, OpenOf(b))
    <3> SUFFICES ASSUME NEW b PROVE Count(y, OpenOf(b)) = Count(fx, OpenOf(b))
      OBVIOUS
    <3>1. In(x, OpenOf(b)) = In(fx[f], OpenOf(b)) /\ In(x, OpenOf(b)) \in Nat
      <4>1. x \in FluxRecords /\ fx[f] \in FluxRecords
        BY <1>1, <1>3 DEF FluxTyped
      <4> QED BY <4>1 DEF In, OpenOf
    <3>2. /\ Count(y, OpenOf(b)) \in Nat /\ Count(fx, OpenOf(b)) \in Nat
          /\ Count(y, OpenOf(b)) + In(fx[f], OpenOf(b)) = Count(fx, OpenOf(b)) + In(x, OpenOf(b))
      BY <1>1, OpenChanged
    <3> QED BY <3>1, <3>2
  <2>6. Barred(y, bs, st, d)
    BY <2>1, <2>5 DEF Good, Barred, Counted
  <2> QED BY <2>1, <2>3, <2>4, <2>6 DEF Good
<1> QED BY <1>1, <1>2, <1>3, <1>4 DEF Sound

(* The share of a flux, and that of the others, by parts. *)
LEMMA ShareParts ==
  ASSUME NEW fx, NEW bs, NEW on, NEW st, NEW h, NEW f \in 1 .. Len(fx), Typed(fx, bs, on, st)
  PROVE  /\ Others(f, bs, on, st) \in Nat /\ Mine(fx[f]) \in Nat /\ Holder(f, h) \in 0 .. 1
         /\ Share(f, fx, bs, on, st, h) = Mine(fx[f]) + Others(f, bs, on, st) + Holder(f, h)
<1>1. Others(f, bs, on, st) \in Nat
  BY TypedParts, OthersPush, LoopFrames
<1>2. Mine(fx[f]) \in Nat
  BY TypedParts, MineType
<1> QED BY <1>1, <1>2 DEF Share, Holder

(* A flux that is about to be continued has nothing else that continues it. *)
LEMMA NothingElse ==
  ASSUME NEW fx, NEW bs, NEW on, NEW st, NEW h \in 1 .. Len(fx), Typed(fx, bs, on, st),
         Shared(fx, bs, on, st, h)
  PROVE  /\ Mine(fx[h]) = 0 /\ Others(h, bs, on, st) = 0 /\ ~Over(fx[h])
         /\ fx[h].owed = 0 /\ fx[h].flag \in {0, 1}
<1>1. /\ Others(h, bs, on, st) \in Nat /\ Mine(fx[h]) \in Nat
      /\ Share(h, fx, bs, on, st, h) = Mine(fx[h]) + Others(h, bs, on, st) + Holder(h, h)
  BY ShareParts
<1>2. Share(h, fx, bs, on, st, h) <= 1 /\ (Over(fx[h]) => Share(h, fx, bs, on, st, h) = 0)
  BY DEF Shared
<1>3. Holder(h, h) = 1
  BY DEF Holder
<1>4. Mine(fx[h]) = 0 /\ Others(h, bs, on, st) = 0
  BY <1>1, <1>2, <1>3
<1>5. ~Over(fx[h])
  BY <1>1, <1>2, <1>3, <1>4
<1>6. /\ fx[h].owed \in Nat /\ fx[h].flag \in 0 .. 2
      /\ Mine(fx[h]) = fx[h].owed + (IF fx[h].flag = 2 THEN 1 ELSE 0)
  BY TypedParts, MineType DEF Mine
<1> QED BY <1>4, <1>5, <1>6

(* Who has the same share and is as far stays right.                       *)
LEMMA SharedSame ==
  ASSUME NEW fx, NEW y, NEW bs, NEW on, NEW st, NEW h, Shared(fx, bs, on, st, h),
         Len(y) = Len(fx),
         \A g \in 1 .. Len(fx) :
           /\ Share(g, y, bs, on, st, h) = Share(g, fx, bs, on, st, h)
           /\ y[g].then = fx[g].then /\ y[g].state = fx[g].state
  PROVE  Shared(y, bs, on, st, h)
<1>1. \A g \in 1 .. Len(y) :
        /\ Share(g, y, bs, on, st, h) <= 1
        /\ Over(y[g]) => Share(g, y, bs, on, st, h) = 0
  BY DEF Shared, Over
<1>2. ASSUME \A g \in 1 .. Len(y) : y[g].then # ToSelf, NEW g \in 1 .. Len(y),
             y[g].state # Terminated
      PROVE  Share(g, y, bs, on, st, h) >= 1
  <2>1. \A k \in 1 .. Len(fx) : fx[k].then # ToSelf
    BY <1>2
  <2>2. fx[g].state # Terminated
    BY <1>2
  <2>3. Share(g, fx, bs, on, st, h) >= 1
    BY <1>2, <2>1, <2>2 DEF Shared
  <2> QED BY <1>2, <2>3
<1> QED BY <1>1, <1>2 DEF Shared

(* A flux with another flag. *)
FlagIs(fx, f, x, y, n, m) ==
  /\ Changed(fx, f, x, y) /\ FluxTyped(x, m)
  /\ x.then = fx[f].then /\ x.state = fx[f].state /\ x.flag = n /\ x.owed = fx[f].owed

(* Setting a flag changes one flux.                                        *)
LEMMA FlagSet ==
  ASSUME NEW fx \in Seq(FluxRecords), NEW f \in 1 .. Len(fx), NEW n \in 0 .. 2, NEW m,
         FluxTyped(fx[f], m)
  PROVE  \E x : FlagIs(fx, f, x, [fx EXCEPT ![f].flag = n], n, m)
<1> DEFINE x == [fx[f] EXCEPT !.flag = n]
<1>1. fx[f] \in FluxRecords
  OBVIOUS
<1>2. /\ x \in FluxRecords
      /\ x.then = fx[f].then /\ x.state = fx[f].state /\ x.flag = n /\ x.owed = fx[f].owed
  BY <1>1 DEF FluxRecords
<1>3. [fx EXCEPT ![f].flag = n] = [fx EXCEPT ![f] = x]
  OBVIOUS
<1>4. FluxTyped(x, m)
  BY <1>2 DEF FluxTyped
<1> HIDE DEF x
<1>5. Changed(fx, f, x, [fx EXCEPT ![f].flag = n])
  BY <1>2, <1>3, ChangedTo
<1> QED BY <1>2, <1>4, <1>5 DEF FlagIs

ContinuedTo(f, fx, st, y, t) ==
  \/ fx[f].flag = 1 /\ y = [fx EXCEPT ![f].flag = 2] /\ t = st
  \/ fx[f].flag # 1 /\ y = [fx EXCEPT ![f].flag = 1] /\ t = Append(st, Loop(f))

(* continue: the share about to be used becomes a loop or the flag.        *)
LEMMA Continued ==
  ASSUME NEW fx, NEW bs, NEW on, NEW st, NEW f, NEW q, NEW y, NEW t,
         Sound(fx, bs, on, st, f, 0, q), f \in 1 .. Len(fx), ContinuedTo(f, fx, st, y, t)
  PROVE  Sound(y, bs, on, t, 0, 0, q)
<1>1. /\ Typed(fx, bs, on, st) /\ fx \in Seq(FluxRecords) /\ bs \in Seq(BarrierRecords)
      /\ on \in [OnceKeys -> OnceRecords] /\ st \in Seq(FrameRecords)
      /\ Len(fx) \in Nat /\ Len(bs) \in Nat /\ f \in Nat /\ 0 \in 0 .. Len(fx)
      /\ 0 \in 0 .. Len(bs)
  BY SoundParts
<1>2. /\ fx[f] \in FluxRecords /\ FluxTyped(fx[f], Len(bs))
  BY <1>1, TypedParts
<1>3. CASE fx[f].flag = 1 /\ y = [fx EXCEPT ![f].flag = 2] /\ t = st
  <2>1. PICK x : /\ Changed(fx, f, x, y) /\ FluxTyped(x, Len(bs))
                 /\ x.then = fx[f].then /\ x.state = fx[f].state /\ x.flag = 2
                 /\ x.owed = fx[f].owed
    <3>1. 2 \in 0 .. 2
      OBVIOUS
    <3>2. \E x : FlagIs(fx, f, x, [fx EXCEPT ![f].flag = 2], 2, Len(bs))
      BY <3>1, <1>1, <1>2, FlagSet
    <3> QED BY <3>2, <1>3 DEF FlagIs
  <2>2. Mine(x) + Holder(f, 0) = Mine(fx[f]) + Holder(f, f)
    <3>1. fx[f].owed \in Nat
      BY <1>2, MineType
    <3> QED BY <3>1, <2>1, <1>1, <1>3 DEF Mine, Holder
  <2>3. \A g \in 1 .. Len(fx) : g # f => Holder(g, 0) = Holder(g, f)
    BY DEF Holder
  <2>4. x.flag = 0 <=> fx[f].flag = 0
    BY <1>3, <2>1
  <2>5. Sound(y, bs, on, st, 0, 0, q)
    BY <1>1, <2>1, <2>2, <2>3, <2>4, FluxChanged
  <2> QED BY <2>5, <1>3
<1>4. CASE fx[f].flag # 1 /\ y = [fx EXCEPT ![f].flag = 1] /\ t = Append(st, Loop(f))
  <2> DEFINE a == Loop(f)
  <2>1. PICK x : /\ Changed(fx, f, x, y) /\ FluxTyped(x, Len(bs))
                 /\ x.then = fx[f].then /\ x.state = fx[f].state /\ x.flag = 1
                 /\ x.owed = fx[f].owed
    <3>1. 1 \in 0 .. 2
      OBVIOUS
    <3>2. \E x : FlagIs(fx, f, x, [fx EXCEPT ![f].flag = 1], 1, Len(bs))
      BY <3>1, <1>1, <1>2, FlagSet
    <3> QED BY <3>2, <1>4 DEF FlagIs
  <2>2. /\ y \in Seq(FluxRecords) /\ Len(y) = Len(fx) /\ y[f] = x
        /\ \A g \in 1 .. Len(fx) : g # f => y[g] = fx[g]
    BY <2>1 DEF Changed
  <2>3. a \in FrameRecords /\ a.kind = "loop" /\ a.f = f
    BY <1>1, LoopFrames
  <2> HIDE DEF a
  <2>4. Typed(y, bs, on, t)
    <3>1. Typed(y, bs, on, st)
      BY <1>1, <2>1, TypedChanged
    <3>2. FrameTyped(a, Len(y), Len(bs))
      BY <2>2, <2>3 DEF FrameTyped
    <3> QED BY <1>1, <1>4, <3>1, <3>2, TypedPush DEF a
  <2>5. ASSUME q = 0 PROVE Good(y, bs, on, t, 0, 0)
    <3>1. Good(fx, bs, on, st, f, 0)
      BY <2>5 DEF Sound
    <3>2. fx[f].flag = 0
      BY <1>1, <1>4, <3>1, NothingElse DEF Good
    <3>3. Shared(y, bs, on, st, f)
      <4>1. Mine(x) = Mine(fx[f])
        BY <2>1, <3>2 DEF Mine
      <4>2. \A g \in 1 .. Len(fx) :
              /\ Share(g, y, bs, on, st, f) = Share(g, fx, bs, on, st, f)
              /\ y[g].then = fx[g].then /\ y[g].state = fx[g].state
        <5> SUFFICES ASSUME NEW g \in 1 .. Len(fx)
                     PROVE  Mine(y[g]) = Mine(fx[g]) /\ y[g].then = fx[g].then
                              /\ y[g].state = fx[g].state
          BY DEF Share
        <5>1. CASE g = f
          BY <5>1, <2>1, <2>2, <4>1
        <5>2. CASE g # f
          BY <5>2, <2>2
        <5> QED BY <5>1, <5>2
      <4> QED BY <3>1, <4>2, <2>2, SharedSame DEF Good
    <3>4. Shared(y, bs, on, t, 0)
      BY <3>3, <1>1, <1>4, <2>2, <2>3, SharedLoop DEF a
    <3>5. Flagged(y, t)
      <4> SUFFICES ASSUME NEW g \in 1 .. Len(y)
                   PROVE Count(t, ActiveOf(g)) = IF y[g].flag = 0 THEN 0 ELSE 1
        BY DEF Flagged
      <4>1. Count(st, ActiveOf(g)) = IF fx[g].flag = 0 THEN 0 ELSE 1
        BY <2>2, <3>1 DEF Good, Flagged
      <4>2. Count(t, ActiveOf(g)) = Count(st, ActiveOf(g)) + In(a, ActiveOf(g))
        BY <1>1, <1>4, <2>3, CountAppend DEF a
      <4>3. In(a, ActiveOf(g)) = IF f = g THEN 1 ELSE 0
        BY <2>3, FrameIn
      <4>4. CASE g = f
        BY <4>1, <4>2, <4>3, <4>4, <2>1, <2>2, <3>2
      <4>5. CASE g # f
        BY <4>1, <4>2, <4>3, <4>5, <2>2
      <4> QED BY <4>4, <4>5
    <3>6. Barred(y, bs, st, 0)
      <4>1. \A b : Count(y, OpenOf(b)) = Count(fx, OpenOf(b))
        <5> SUFFICES ASSUME NEW b PROVE Count(y, OpenOf(b)) = Count(fx, OpenOf(b))
          OBVIOUS
        <5>1. In(x, OpenOf(b)) = In(fx[f], OpenOf(b)) /\ In(x, OpenOf(b)) \in Nat
          BY <1>2, <2>1 DEF In, OpenOf, FluxTyped
        <5>2. /\ Count(y, OpenOf(b)) \in Nat /\ Count(fx, OpenOf(b)) \in Nat
              /\ Count(y, OpenOf(b)) + In(fx[f], OpenOf(b)) = Count(fx, OpenOf(b)) + In(x, OpenOf(b))
          BY <1>1, <2>1, OpenChanged
        <5> QED BY <5>1, <5>2
      <4> QED BY <4>1, <3>1 DEF Good, Barred, Counted
    <3>7. Barred(y, bs, t, 0)
      BY <3>6, <1>1, <1>4, <2>3, BarredPush DEF a
    <3>8. Queues(on, t)
      BY <3>1, <1>1, <1>4, <2>3, QueuesPush DEF a, Good, Lined
    <3> QED BY <3>4, <3>5, <3>7, <3>8 DEF Good
  <2> QED BY <1>1, <2>2, <2>4, <2>5 DEF Sound
<1> QED BY <1>3, <1>4 DEF ContinuedTo

(* The loop of continue ends, or takes a turn more. *)
LEMMA TurnEnded ==
  ASSUME NEW fx, NEW bs, NEW on, NEW s, NEW a, NEW q, NEW y, NEW t, s \in Seq(FrameRecords),
         a \in FrameRecords, a.kind = "after", Sound(fx, bs, on, Append(s, a), 0, 0, q),
         \/ fx[a.f].flag = 2 /\ y = [fx EXCEPT ![a.f].flag = 1] /\ t = Append(s, Loop(a.f))
         \/ fx[a.f].flag # 2 /\ y = [fx EXCEPT ![a.f].flag = 0] /\ t = s
  PROVE  Sound(y, bs, on, t, 0, 0, q)
<1> DEFINE f == a.f
<1>1. /\ Typed(fx, bs, on, Append(s, a)) /\ Typed(fx, bs, on, s)
      /\ FrameTyped(a, Len(fx), Len(bs))
  BY TypedPush, SoundParts
<1>2. /\ fx \in Seq(FluxRecords) /\ bs \in Seq(BarrierRecords)
      /\ on \in [OnceKeys -> OnceRecords] /\ Len(fx) \in Nat /\ Len(bs) \in Nat
      /\ 0 \in 0 .. Len(fx) /\ 0 \in 0 .. Len(bs)
  BY <1>1, TypedParts
<1>3. f \in 1 .. Len(fx) /\ f \in Nat /\ f \in 0 .. Len(fx)
  BY <1>1, <1>2 DEF FrameTyped
<1>4. fx[f] \in FluxRecords /\ FluxTyped(fx[f], Len(bs))
  BY <1>1, <1>3, TypedParts
<1>5. a.f = f
  OBVIOUS
<1> HIDE DEF f
<1>6. CASE fx[f].flag = 2 /\ y = [fx EXCEPT ![f].flag = 1] /\ t = Append(s, Loop(f))
  <2> DEFINE c == Loop(f)
  <2>1. PICK x : /\ Changed(fx, f, x, y) /\ FluxTyped(x, Len(bs))
                 /\ x.then = fx[f].then /\ x.state = fx[f].state /\ x.flag = 1
                 /\ x.owed = fx[f].owed
    <3>1. 1 \in 0 .. 2
      OBVIOUS
    <3>2. \E x : FlagIs(fx, f, x, [fx EXCEPT ![f].flag = 1], 1, Len(bs))
      BY <3>1, <1>1, <1>2, <1>3, <1>4, FlagSet
    <3> QED BY <3>2, <1>6 DEF FlagIs
  <2>2. Mine(x) + Holder(f, f) = Mine(fx[f]) + Holder(f, 0)
    <3>1. fx[f].owed \in Nat
      BY <1>4, MineType
    <3> QED BY <3>1, <2>1, <1>3, <1>6 DEF Mine, Holder
  <2>3. \A g \in 1 .. Len(fx) : g # f => Holder(g, f) = Holder(g, 0)
    BY DEF Holder
  <2>4. x.flag = 0 <=> fx[f].flag = 0
    BY <1>6, <2>1
  <2>5. Sound(y, bs, on, Append(s, a), f, 0, q)
    BY <1>3, <2>1, <2>2, <2>3, <2>4, FluxChanged
  <2>6. Len(y) = Len(fx)
    BY <2>1 DEF Changed
  <2>7. c \in FrameRecords /\ c.kind = "loop" /\ c.f = f
    BY <1>3, LoopFrames
  <2> HIDE DEF c
  <2>8. FrameTyped(c, Len(y), Len(bs)) /\ FrameTyped(a, Len(y), Len(bs))
    BY <1>1, <1>3, <2>6, <2>7 DEF FrameTyped
  <2> QED BY <2>5, <2>7, <2>8, <1>5, <1>6, TurnTaken DEF c
<1>7. CASE fx[f].flag # 2 /\ y = [fx EXCEPT ![f].flag = 0] /\ t = s
  <2>1. PICK x : /\ Changed(fx, f, x, y) /\ FluxTyped(x, Len(bs))
                 /\ x.then = fx[f].then /\ x.state = fx[f].state /\ x.flag = 0
                 /\ x.owed = fx[f].owed
    <3>1. 0 \in 0 .. 2
      OBVIOUS
    <3>2. \E x : FlagIs(fx, f, x, [fx EXCEPT ![f].flag = 0], 0, Len(bs))
      BY <3>1, <1>1, <1>2, <1>3, <1>4, FlagSet
    <3> QED BY <3>2, <1>7 DEF FlagIs
  <2>2. /\ y \in Seq(FluxRecords) /\ Len(y) = Len(fx) /\ y[f] = x
        /\ \A g \in 1 .. Len(fx) : g # f => y[g] = fx[g]
    BY <2>1 DEF Changed
  <2>3. Typed(y, bs, on, s)
    BY <1>1, <2>1, TypedChanged
  <2>4. ASSUME q = 0 PROVE Good(y, bs, on, s, 0, 0)
    <3>1. Good(fx, bs, on, Append(s, a), 0, 0)
      BY <2>4 DEF Sound
    <3>2. Shared(fx, bs, on, s, 0)
      BY <3>1, <1>2, SharedIdle DEF Good, Idle
    <3>3. Shared(y, bs, on, s, 0)
      <4>1. Mine(x) = Mine(fx[f])
        BY <2>1, <1>7 DEF Mine
      <4>2. \A g \in 1 .. Len(fx) :
              /\ Share(g, y, bs, on, s, 0) = Share(g, fx, bs, on, s, 0)
              /\ y[g].then = fx[g].then /\ y[g].state = fx[g].state
        <5> SUFFICES ASSUME NEW g \in 1 .. Len(fx)
                     PROVE  Mine(y[g]) = Mine(fx[g]) /\ y[g].then = fx[g].then
                              /\ y[g].state = fx[g].state
          BY DEF Share
        <5>1. CASE g = f
          BY <5>1, <2>1, <2>2, <4>1
        <5>2. CASE g # f
          BY <5>2, <2>2
        <5> QED BY <5>1, <5>2
      <4> QED BY <3>2, <4>2, <2>2, SharedSame
    <3>4. Flagged(y, s)
      <4> SUFFICES ASSUME NEW g \in 1 .. Len(y)
                   PROVE Count(s, ActiveOf(g)) = IF y[g].flag = 0 THEN 0 ELSE 1
        BY DEF Flagged
      <4>1. Count(Append(s, a), ActiveOf(g)) = IF fx[g].flag = 0 THEN 0 ELSE 1
        BY <2>2, <3>1 DEF Good, Flagged
      <4>2. /\ Count(Append(s, a), ActiveOf(g)) = Count(s, ActiveOf(g)) + In(a, ActiveOf(g))
            /\ Count(s, ActiveOf(g)) \in Nat
        BY CountAppend
      <4>3. In(a, ActiveOf(g)) = IF f = g THEN 1 ELSE 0
        BY <1>5, FrameIn
      <4>4. CASE g = f
        BY <4>1, <4>2, <4>3, <4>4, <2>1, <2>2
      <4>5. CASE g # f
        BY <4>1, <4>2, <4>3, <4>5, <2>2
      <4> QED BY <4>4, <4>5
    <3>5. Barred(y, bs, s, 0)
      <4>1. \A b : Count(y, OpenOf(b)) = Count(fx, OpenOf(b))
        <5> SUFFICES ASSUME NEW b PROVE Count(y, OpenOf(b)) = Count(fx, OpenOf(b))
          OBVIOUS
        <5>1. In(x, OpenOf(b)) = In(fx[f], OpenOf(b)) /\ In(x, OpenOf(b)) \in Nat
          BY <1>4, <2>1 DEF In, OpenOf, FluxTyped
        <5>2. /\ Count(y, OpenOf(b)) \in Nat /\ Count(fx, OpenOf(b)) \in Nat
              /\ Count(y, OpenOf(b)) + In(fx[f], OpenOf(b)) = Count(fx, OpenOf(b)) + In(x, OpenOf(b))
          BY <1>2, <2>1, OpenChanged
        <5> QED BY <5>1, <5>2
      <4>2. Barred(fx, bs, s, 0)
        BY <3>1, BarredPush DEF Good
      <4> QED BY <4>1, <4>2 DEF Barred, Counted
    <3>6. Queues(on, s)
      BY <3>1, QueuesPush DEF Good
    <3> QED BY <3>3, <3>4, <3>5, <3>6 DEF Good
  <2> QED BY <1>2, <1>7, <2>2, <2>3, <2>4 DEF Sound
<1> QED BY <1>5, <1>6, <1>7

(***************************************************************************)
(* Ends and arrivals                                                       *)
(***************************************************************************)
(* Who continues after the end: the flux itself, or a barrier. *)
EndsTo(x, f, h, d) ==
  /\ h = IF x.then = ToSelf THEN f ELSE 0
  /\ d = IF x.then.kind = "barrier" THEN x.then.at ELSE 0

(* The end of a flux: whoever its then leads to is about to go on.         *)
LEMMA Ended ==
  ASSUME NEW fx, NEW bs, NEW on, NEW st, NEW f, NEW q, NEW x, NEW y,
         Sound(fx, bs, on, st, f, 0, q), f \in 1 .. Len(fx),
         Changed(fx, f, x, y), FluxTyped(x, Len(bs)),
         x.then = fx[f].then, x.state = Terminated, x.flag = fx[f].flag, x.owed = fx[f].owed,
         NEW h, NEW d, EndsTo(x, f, h, d)
  PROVE  Sound(y, bs, on, st, h, d, q)
<1>1. /\ Typed(fx, bs, on, st) /\ fx \in Seq(FluxRecords) /\ bs \in Seq(BarrierRecords)
      /\ on \in [OnceKeys -> OnceRecords] /\ st \in Seq(FrameRecords)
      /\ Len(fx) \in Nat /\ Len(bs) \in Nat
  BY SoundParts
<1>2. Typed(y, bs, on, st)
  BY <1>1, TypedChanged
<1>3. /\ Len(y) = Len(fx) /\ f \in 1 .. Len(fx) /\ y[f] = x
      /\ \A g \in 1 .. Len(fx) : g # f => y[g] = fx[g]
  BY DEF Changed
<1>4. h \in 0 .. Len(fx) /\ d \in 0 .. Len(bs)
  BY <1>1 DEF FluxTyped, EndsTo
<1>5. ASSUME q = 0 PROVE Good(y, bs, on, st, h, d)
  <2>1. Good(fx, bs, on, st, f, 0)
    BY <1>5 DEF Sound
  <2>2. /\ Mine(fx[f]) = 0 /\ Others(f, bs, on, st) = 0 /\ ~Over(fx[f])
    BY <1>1, <2>1, NothingElse DEF Good
  <2>3. Mine(x) = 0
    BY <2>2 DEF Mine
  <2>4. Shared(y, bs, on, st, h)
    <3>0. Shared(fx, bs, on, st, f)
      BY <2>1 DEF Good
    <3>1. ASSUME NEW g \in 1 .. Len(fx), g # f
          PROVE  Share(g, y, bs, on, st, h) = Share(g, fx, bs, on, st, f) /\ y[g] = fx[g]
      <4>1. Holder(g, h) = 0 /\ Holder(g, f) = 0
        BY <3>1 DEF Holder, EndsTo
      <4> QED BY <4>1, <1>3, <3>1 DEF Share, Holder
    <3>2. Share(f, y, bs, on, st, h) = IF h = f THEN 1 ELSE 0
      BY <1>3, <2>2, <2>3 DEF Share, EndsTo
    <3>3. ASSUME NEW g \in 1 .. Len(y)
          PROVE  /\ Share(g, y, bs, on, st, h) <= 1
                 /\ Over(y[g]) => Share(g, y, bs, on, st, h) = 0
      <4>1. CASE g # f
        BY <4>1, <1>3, <3>0, <3>1, <3>3 DEF Shared
      <4>2. CASE g = f
        <5>1. Over(y[g]) => h # f
          BY <4>2, <1>1, <1>3 DEF Over, EndsTo
        <5> QED BY <5>1, <4>2, <3>2
      <4> QED BY <4>1, <4>2
    <3>4. ASSUME \A g \in 1 .. Len(y) : y[g].then # ToSelf, NEW g \in 1 .. Len(y),
                 y[g].state # Terminated
          PROVE  Share(g, y, bs, on, st, h) >= 1
      <4>1. \A k \in 1 .. Len(fx) : fx[k].then # ToSelf
        BY <1>3, <3>4
      <4>2. g # f /\ fx[g].state # Terminated
        BY <1>3, <3>4
      <4>3. Share(g, fx, bs, on, st, f) >= 1
        BY <3>0, <4>1, <4>2, <1>3, <3>4 DEF Shared
      <4> QED BY <4>2, <4>3, <3>1, <1>3, <3>4
    <3> QED BY <3>3, <3>4 DEF Shared
  <2>5. Flagged(y, st)
    <3>1. \A g \in 1 .. Len(fx) : y[g].flag = fx[g].flag
      BY <1>3
    <3> QED BY <2>1, <3>1, <1>3 DEF Good, Flagged
  <2>6. Barred(y, bs, st, d)
    <3> SUFFICES ASSUME NEW b \in 1 .. Len(bs) PROVE Counted(b, y, bs, st, d)
      BY DEF Barred
    <3>1. PICK w \in Nat : /\ Left(b, st, w)
                           /\ bs[b].count = Count(fx, OpenOf(b)) + w + (IF b = 0 THEN 1 ELSE 0)
      BY <2>1 DEF Good, Barred, Counted
    <3>2. /\ Count(y, OpenOf(b)) \in Nat /\ Count(fx, OpenOf(b)) \in Nat
          /\ Count(y, OpenOf(b)) + In(fx[f], OpenOf(b)) = Count(fx, OpenOf(b)) + In(x, OpenOf(b))
      BY <1>1, OpenChanged
    <3>3. In(x, OpenOf(b)) = 0
      BY DEF In, OpenOf
    <3>4. In(fx[f], OpenOf(b)) = IF b = d THEN 1 ELSE 0
      <4>1. fx[f] \in FluxRecords /\ x.then \in Thens
        BY <1>1, MineType DEF FluxTyped
      <4>2. b = d <=> x.then = ToBarrier(b)
        <5>1. b # 0
          OBVIOUS
        <5>2. x.then = ToBarrier(b) => b = d
          BY DEF ToBarrier, EndsTo
        <5>3. b = d => x.then.kind = "barrier" /\ x.then.at = b
          BY <5>1 DEF EndsTo
        <5>4. x.then.kind = "barrier" /\ x.then.at = b => x.then = ToBarrier(b)
          BY <4>1 DEF Thens, ToBarrier
        <5> QED BY <5>2, <5>3, <5>4
      <4>3. x.then = ToBarrier(b) => fx[f].state # Terminated
        BY <2>2 DEF Over, ToBarrier, ToSelf
      <4> QED BY <4>1, <4>2, <4>3 DEF In, OpenOf
    <3>5. b # 0
      OBVIOUS
    <3>6. bs[b].count = Count(y, OpenOf(b)) + w + (IF b = d THEN 1 ELSE 0)
      <4> DEFINE i == IF b = d THEN 1 ELSE 0
      <4>1. i \in Nat /\ Count(y, OpenOf(b)) + i = Count(fx, OpenOf(b))
        BY <3>2, <3>3, <3>4
      <4>2. bs[b].count = Count(fx, OpenOf(b)) + w
        BY <3>1, <3>2, <3>5
      <4> HIDE DEF i
      <4>3. bs[b].count = Count(y, OpenOf(b)) + w + i
        BY <4>1, <4>2, <3>2
      <4> QED BY <4>3 DEF i
    <3> QED BY <3>1, <3>6 DEF Counted
  <2> QED BY <2>1, <2>4, <2>5, <2>6 DEF Good
<1> QED BY <1>2, <1>3, <1>4, <1>5 DEF Sound

(* Counting after one place of a sequence has changed.                     *)
LEMMA CountPut ==
  ASSUME NEW X, NEW g \in Seq(X), NEW h \in Seq(X), Len(h) = Len(g), NEW i \in 1 .. Len(g),
         \A j \in 1 .. Len(g) : j # i => h[j] = g[j], NEW S
  PROVE  /\ Count(g, S) \in Nat /\ Count(h, S) \in Nat
         /\ Count(h, S) + In(g[i], S) = Count(g, S) + In(h[i], S)
<1>1. /\ DOMAIN g = 1 .. Len(g) /\ DOMAIN h = DOMAIN g /\ Len(g) \in Nat /\ i \in DOMAIN g
      /\ \A j \in DOMAIN g : j # i => h[j] = g[j]
  OBVIOUS
<1>2. IsFiniteSet(DOMAIN g)
  BY <1>1, FS_Interval
<1>3. Count(g, S) \in Nat /\ Count(h, S) \in Nat
  BY <1>1, <1>2, CountType
<1>4. Count(h, S) + In(g[i], S) = Count(g, S) + In(h[i], S)
  BY <1>1, <1>2, CountSet
<1> QED BY <1>3, <1>4

(* One place of a sequence has changed.                                    *)
LEMMA SeqSet ==
  ASSUME NEW S, NEW s \in Seq(S), NEW i \in 1 .. Len(s), NEW x \in S
  PROVE  /\ [s EXCEPT ![i] = x] \in Seq(S) /\ Len([s EXCEPT ![i] = x]) = Len(s)
         /\ [s EXCEPT ![i] = x][i] = x
         /\ \A j \in 1 .. Len(s) : j # i => [s EXCEPT ![i] = x][j] = s[j]
OBVIOUS

(* The shares, when one barrier has changed.                               *)
LEMMA OthersArrived ==
  ASSUME NEW fx, NEW bs, NEW on, NEW st, Typed(fx, bs, on, st),
         NEW bs2 \in Seq(BarrierRecords), Len(bs2) = Len(bs), NEW d \in 1 .. Len(bs), NEW r,
         bs2[d] = r, \A b \in 1 .. Len(bs) : b # d => bs2[b] = bs[b], NEW g, NEW n \in 0 .. 1,
         In(bs[d], BarriersOf(g)) = In(r, BarriersOf(g)) + n
  PROVE  Others(g, bs2, on, st) + n = Others(g, bs, on, st)
<1>1. /\ bs \in Seq(BarrierRecords) /\ on \in [OnceKeys -> OnceRecords]
      /\ st \in Seq(FrameRecords)
  BY TypedParts
<1>2. /\ Count(bs2, BarriersOf(g)) \in Nat /\ Count(bs, BarriersOf(g)) \in Nat
      /\ Count(bs2, BarriersOf(g)) + In(bs[d], BarriersOf(g))
            = Count(bs, BarriersOf(g)) + In(bs2[d], BarriersOf(g))
  BY <1>1, CountPut
<1>3. In(bs2[d], BarriersOf(g)) = In(r, BarriersOf(g)) /\ In(r, BarriersOf(g)) \in Nat
  BY DEF In
<1>4. Count(bs2, BarriersOf(g)) + n = Count(bs, BarriersOf(g))
  BY <1>2, <1>3
<1>5. Count(on, OncesOf(g)) \in Nat
  <2>1. DOMAIN on = OnceKeys /\ IsFiniteSet(OnceKeys)
    BY <1>1, AsyncAssumption
  <2> QED BY <2>1, CountType
<1>6. Count(st, TellersOf(g)) \in Nat /\ Count(st, LoopsOf(g)) \in Nat
  BY <1>1, CountNone
<1> QED BY <1>2, <1>4, <1>5, <1>6 DEF Others

(* The arrival at a barrier; the one that brings it to 0 continues. *)
ArrivedTo(d, bs, bs2, h) ==
  /\ bs2 = [bs EXCEPT ![d].count = @ - 1]
  /\ h = IF bs[d].count = 1 THEN bs[d].f ELSE 0

(* An arrival: the barrier counts one less, and the last continues.        *)
LEMMA Arrived ==
  ASSUME NEW fx, NEW bs, NEW on, NEW st, NEW d, NEW q, NEW bs2, NEW h,
         Sound(fx, bs, on, st, 0, d, q), d \in 1 .. Len(bs), ArrivedTo(d, bs, bs2, h)
  PROVE  Sound(fx, bs2, on, st, h, 0, q)
<1>1. /\ Typed(fx, bs, on, st) /\ fx \in Seq(FluxRecords) /\ bs \in Seq(BarrierRecords)
      /\ on \in [OnceKeys -> OnceRecords] /\ st \in Seq(FrameRecords)
      /\ Len(fx) \in Nat /\ Len(bs) \in Nat
  BY SoundParts
<1>2. /\ bs[d] \in BarrierRecords /\ bs[d].f \in 1 .. Len(fx) /\ bs[d].count \in Int
  BY <1>1, TypedParts DEF BarrierRecords
<1>3. PICK r \in BarrierRecords : r.f = bs[d].f /\ r.count = bs[d].count - 1
                                  /\ r = [bs[d] EXCEPT !.count = @ - 1]
  <2>1. [bs[d] EXCEPT !.count = @ - 1] \in BarrierRecords
    BY <1>2 DEF BarrierRecords
  <2>2. /\ [bs[d] EXCEPT !.count = @ - 1].f = bs[d].f
        /\ [bs[d] EXCEPT !.count = @ - 1].count = bs[d].count - 1
    BY <1>2 DEF BarrierRecords
  <2> QED BY <2>1, <2>2
<1>4. /\ bs2 \in Seq(BarrierRecords) /\ Len(bs2) = Len(bs) /\ bs2[d] = r
      /\ \A b \in 1 .. Len(bs) : b # d => bs2[b] = bs[b]
  <2>1. bs2 = [bs EXCEPT ![d] = r]
    BY <1>3 DEF ArrivedTo
  <2> QED BY <2>1, <1>1, <1>3, SeqSet
<1>5. Typed(fx, bs2, on, st)
  <2>1. \A b \in 1 .. Len(bs2) : bs2[b].f \in 1 .. Len(fx)
    <3> SUFFICES ASSUME NEW b \in 1 .. Len(bs2) PROVE bs2[b].f \in 1 .. Len(fx)
      OBVIOUS
    <3>1. CASE b = d
      BY <3>1, <1>2, <1>3, <1>4
    <3>2. CASE b # d
      BY <3>2, <1>1, <1>4, TypedParts
    <3> QED BY <3>1, <3>2
  <2> QED BY <2>1, <1>1, <1>4 DEF Typed
<1>6. h \in 0 .. Len(fx) /\ 0 \in 0 .. Len(bs)
  BY <1>1, <1>2 DEF ArrivedTo
<1>7. ASSUME q = 0 PROVE Good(fx, bs2, on, st, h, 0)
  <2>1. Good(fx, bs, on, st, 0, d)
    BY <1>7 DEF Sound
  <2>2. bs[d].count >= 1
    <3>1. PICK w \in Nat : bs[d].count = Count(fx, OpenOf(d)) + w + (IF d = d THEN 1 ELSE 0)
      BY <2>1 DEF Good, Barred, Counted
    <3>2. Count(fx, OpenOf(d)) \in Nat
      BY <1>1, CountNone
    <3> QED BY <3>1, <3>2
  <2>3. ASSUME NEW g \in 1 .. Len(fx)
        PROVE  Share(g, fx, bs2, on, st, h) = Share(g, fx, bs, on, st, 0)
    <3>1. g # 0
      OBVIOUS
    <3>2. r.count > 0 <=> bs[d].count # 1
      BY <1>2, <1>3, <2>2
    <3>3. In(bs[d], BarriersOf(g)) = In(r, BarriersOf(g)) + Holder(g, h)
      <4>1. In(bs[d], BarriersOf(g)) = IF bs[d].f = g THEN 1 ELSE 0
        BY <1>2, <2>2 DEF In, BarriersOf
      <4>2. In(r, BarriersOf(g)) = IF bs[d].f = g /\ bs[d].count # 1 THEN 1 ELSE 0
        BY <1>3, <3>2 DEF In, BarriersOf
      <4> QED BY <4>1, <4>2, <3>1 DEF Holder, ArrivedTo
    <3>4. Others(g, bs2, on, st) + Holder(g, h) = Others(g, bs, on, st)
      <4>1. Holder(g, h) \in 0 .. 1
        BY DEF Holder
      <4> QED BY <4>1, <1>1, <1>4, <3>3, OthersArrived
    <3>5. /\ Others(g, bs2, on, st) \in Nat /\ Others(g, bs, on, st) \in Nat
          /\ Mine(fx[g]) \in Nat /\ Holder(g, h) \in 0 .. 1 /\ Holder(g, 0) = 0
          /\ Share(g, fx, bs2, on, st, h) = Mine(fx[g]) + Others(g, bs2, on, st) + Holder(g, h)
          /\ Share(g, fx, bs, on, st, 0) = Mine(fx[g]) + Others(g, bs, on, st) + Holder(g, 0)
      <4>1. /\ Others(g, bs2, on, st) \in Nat /\ Mine(fx[g]) \in Nat /\ Holder(g, h) \in 0 .. 1
            /\ Share(g, fx, bs2, on, st, h) = Mine(fx[g]) + Others(g, bs2, on, st) + Holder(g, h)
        BY <1>5, ShareParts
      <4>2. /\ Others(g, bs, on, st) \in Nat
            /\ Share(g, fx, bs, on, st, 0) = Mine(fx[g]) + Others(g, bs, on, st) + Holder(g, 0)
        BY <1>1, ShareParts
      <4>3. Holder(g, 0) = 0
        BY <3>1 DEF Holder
      <4> QED BY <4>1, <4>2, <4>3
    <3> QED BY <3>4, <3>5
  <2>4. Shared(fx, bs2, on, st, h)
    BY <2>1, <2>3 DEF Good, Shared
  <2>5. Barred(fx, bs2, st, 0)
    <3> SUFFICES ASSUME NEW b \in 1 .. Len(bs) PROVE Counted(b, fx, bs2, st, 0)
      BY <1>4 DEF Barred
    <3>1. PICK w \in Nat : /\ Left(b, st, w)
                           /\ bs[b].count = Count(fx, OpenOf(b)) + w + (IF b = d THEN 1 ELSE 0)
      BY <2>1 DEF Good, Barred, Counted
    <3>2. b # 0 /\ Count(fx, OpenOf(b)) \in Nat
      BY <1>1, CountNone
    <3>3. bs2[b].count = Count(fx, OpenOf(b)) + w
      <4>1. CASE b = d
        BY <4>1, <1>2, <1>3, <1>4, <3>1, <3>2
      <4>2. CASE b # d
        BY <4>2, <1>4, <3>1, <3>2
      <4> QED BY <4>1, <4>2
    <3>4. bs2[b].count = Count(fx, OpenOf(b)) + w + (IF b = 0 THEN 1 ELSE 0)
      BY <3>2, <3>3
    <3> QED BY <3>1, <3>4 DEF Counted
  <2> QED BY <2>1, <2>4, <2>5 DEF Good
<1> QED BY <1>4, <1>5, <1>6, <1>7 DEF Sound

(***************************************************************************)
(* New fluxes and barriers                                                 *)
(***************************************************************************)
LEMMA TypedGrows ==
  ASSUME NEW n \in Nat, NEW m \in Nat, NEW k \in Nat, NEW l \in Nat, n <= k, m <= l
  PROVE  /\ \A x : FluxTyped(x, m) => FluxTyped(x, l)
         /\ \A a : FrameTyped(a, n, m) => FrameTyped(a, k, l)
         /\ \A s : s \in Seq(1 .. n) => s \in Seq(1 .. k)
<1>1. 1 .. n \subseteq 1 .. k /\ 1 .. m \subseteq 1 .. l
  OBVIOUS
<1>2. Seq(1 .. n) \subseteq Seq(1 .. k)
  BY <1>1
<1>3. ASSUME NEW x, FluxTyped(x, m) PROVE FluxTyped(x, l)
  BY <1>1, <1>3 DEF FluxTyped
<1>4. ASSUME NEW a, FrameTyped(a, n, m) PROVE FrameTyped(a, k, l)
  BY <1>1, <1>2, <1>4 DEF FrameTyped
<1> QED BY <1>2, <1>3, <1>4

(* Append, place by place.                                                 *)
LEMMA AppendAt ==
  ASSUME NEW S, NEW s \in Seq(S), NEW e \in S
  PROVE  /\ Append(s, e) \in Seq(S) /\ Len(Append(s, e)) = Len(s) + 1 /\ Len(s) \in Nat
         /\ Append(s, e)[Len(s) + 1] = e
         /\ \A i \in 1 .. Len(s) : Append(s, e)[i] = s[i]
         /\ \A i \in 1 .. Len(s) + 1 : i \in 1 .. Len(s) \/ i = Len(s) + 1
OBVIOUS

(* A parallel element: the barrier counts the branches and their loop. *)
BarrierFor(f, r, bs, bs2, st, st2) ==
  /\ bs2 = Append(bs, [f |-> f, count |-> Len(r) + 1])
  /\ st2 = Append(st, Branches(Len(bs) + 1, r))

(* A flux hands its share to a barrier, whose branches are about to start. *)
LEMMA BarrierAdded ==
  ASSUME NEW fx, NEW bs, NEW on, NEW st, NEW f, NEW q, NEW r \in Seq(Seq(Elements)),
         NEW bs2, NEW st2, Sound(fx, bs, on, st, f, 0, q), f \in 1 .. Len(fx),
         BarrierFor(f, r, bs, bs2, st, st2)
  PROVE  Sound(fx, bs2, on, st2, 0, 0, q)
<1>1. /\ Typed(fx, bs, on, st) /\ fx \in Seq(FluxRecords) /\ bs \in Seq(BarrierRecords)
      /\ on \in [OnceKeys -> OnceRecords] /\ st \in Seq(FrameRecords)
      /\ Len(fx) \in Nat /\ Len(bs) \in Nat /\ Len(st) \in Nat
  BY SoundParts
<1>2. PICK m \in Nat : m = Len(bs) + 1
  BY <1>1
<1>3. PICK c \in BarrierRecords : c = [f |-> f, count |-> Len(r) + 1]
                                  /\ c.f = f /\ c.count = Len(r) + 1
  <2>1. f \in Nat /\ Len(r) + 1 \in Int
    BY <1>1
  <2>2. [f |-> f, count |-> Len(r) + 1] \in BarrierRecords
    BY <2>1 DEF BarrierRecords
  <2> QED BY <2>2
<1>4. PICK a \in FrameRecords : /\ a = Branches(m, r) /\ a.kind = "branches" /\ a.at = m
                                /\ a.rest = r /\ a.f = NULL
  BY <1>2, BranchesFrame
<1>5. bs2 = Append(bs, c) /\ st2 = Append(st, a)
  BY <1>2, <1>3, <1>4 DEF BarrierFor
<1>6. /\ bs2 \in Seq(BarrierRecords) /\ Len(bs2) = m /\ bs2[m] = c
      /\ \A b \in 1 .. Len(bs) : bs2[b] = bs[b]
      /\ \A b \in 1 .. m : b \in 1 .. Len(bs) \/ b = m
  BY <1>1, <1>2, <1>5, AppendAt
<1>7. Typed(fx, bs2, on, st)
  <2>1. /\ \A x : FluxTyped(x, Len(bs)) => FluxTyped(x, m)
        /\ \A x : FrameTyped(x, Len(fx), Len(bs)) => FrameTyped(x, Len(fx), m)
    BY <1>1, <1>2, TypedGrows
  <2>2. \A b \in 1 .. Len(bs2) : bs2[b].f \in 1 .. Len(fx)
    <3> SUFFICES ASSUME NEW b \in 1 .. m PROVE bs2[b].f \in 1 .. Len(fx)
      BY <1>6
    <3>1. CASE b = m
      BY <3>1, <1>3, <1>6
    <3>2. CASE b \in 1 .. Len(bs)
      BY <3>2, <1>1, <1>6, TypedParts
    <3> QED BY <3>1, <3>2, <1>6
  <2> QED BY <1>1, <1>6, <2>1, <2>2 DEF Typed
<1>8. Typed(fx, bs2, on, st2)
  <2>1. FrameTyped(a, Len(fx), m)
    BY <1>2, <1>4, <1>1 DEF FrameTyped
  <2> QED BY <2>1, <1>1, <1>5, <1>6, <1>7, TypedPush
<1>9. ASSUME q = 0 PROVE Good(fx, bs2, on, st2, 0, 0)
  <2>1. Good(fx, bs, on, st, f, 0)
    BY <1>9 DEF Sound
  <2>2. Shared(fx, bs2, on, st, 0)
    <3>1. ASSUME NEW g \in 1 .. Len(fx)
          PROVE  Share(g, fx, bs2, on, st, 0) = Share(g, fx, bs, on, st, f)
      <4>1. /\ Count(bs2, BarriersOf(g)) = Count(bs, BarriersOf(g)) + In(c, BarriersOf(g))
            /\ Count(bs, BarriersOf(g)) \in Nat
        BY <1>1, <1>5, CountAppend
      <4>2. In(c, BarriersOf(g)) = Holder(g, f) /\ Holder(g, f) \in 0 .. 1 /\ Holder(g, 0) = 0
        <5>1. c.count > 0 /\ g # 0
          BY <1>3
        <5> QED BY <5>1, <1>3 DEF In, BarriersOf, Holder
      <4>3. Count(on, OncesOf(g)) \in Nat
        <5>1. DOMAIN on = OnceKeys /\ IsFiniteSet(OnceKeys)
          BY <1>1, AsyncAssumption
        <5> QED BY <5>1, CountType
      <4>4. Count(st, TellersOf(g)) \in Nat /\ Count(st, LoopsOf(g)) \in Nat
        BY <1>1, CountNone
      <4>5. Others(g, bs2, on, st) = Others(g, bs, on, st) + Holder(g, f)
        BY <4>1, <4>2, <4>3, <4>4 DEF Others
      <4>6. /\ Others(g, bs2, on, st) \in Nat /\ Mine(fx[g]) \in Nat /\ Holder(g, 0) \in 0 .. 1
            /\ Share(g, fx, bs2, on, st, 0) = Mine(fx[g]) + Others(g, bs2, on, st) + Holder(g, 0)
        BY <1>7, ShareParts
      <4>7. /\ Others(g, bs, on, st) \in Nat /\ Mine(fx[g]) \in Nat /\ Holder(g, f) \in 0 .. 1
            /\ Share(g, fx, bs, on, st, f) = Mine(fx[g]) + Others(g, bs, on, st) + Holder(g, f)
        BY <1>1, ShareParts
      <4> QED BY <4>2, <4>5, <4>6, <4>7
    <3> QED BY <2>1, <3>1 DEF Good, Shared
  <2>3. Shared(fx, bs2, on, st2, 0)
    <3>1. Idle(a)
      BY <1>4 DEF Idle
    <3> QED BY <2>2, <3>1, <1>1, <1>5, <1>6, SharedIdle
  <2>4. Flagged(fx, st2)
    <3>1. a.kind \notin {"loop", "after"}
      BY <1>4
    <3> QED BY <2>1, <3>1, <1>1, <1>5, FlaggedPush DEF Good
  <2>5. Barred(fx, bs2, st2, 0)
    <3> SUFFICES ASSUME NEW b \in 1 .. m PROVE Counted(b, fx, bs2, st2, 0)
      BY <1>6 DEF Barred
    <3>1. CASE b \in 1 .. Len(bs)
      <4>1. PICK w \in Nat : /\ Left(b, st, w)
                             /\ bs[b].count = Count(fx, OpenOf(b)) + w + (IF b = 0 THEN 1 ELSE 0)
        BY <2>1, <3>1 DEF Good, Barred, Counted
      <4>2. b # m
        BY <1>1, <1>2, <3>1
      <4>3. ~ (a.kind = "branches" /\ a.at = b)
        BY <1>4, <4>2
      <4>4. Left(b, st2, w)
        BY <4>1, <4>3, <1>1, <1>5, LeftPush
      <4> QED BY <4>1, <4>4, <1>6, <3>1 DEF Counted
    <3>2. CASE b = m
      <4>1. Count(st, StartersOf(m)) = 0
        <5>1. \A i \in 1 .. Len(st) : FrameTyped(st[i], Len(fx), Len(bs))
          BY <1>1, TypedParts
        <5>2. m \notin 1 .. Len(bs)
          BY <1>1, <1>2
        <5>3. \A i \in 1 .. Len(st) : st[i] \notin StartersOf(m)
          BY <5>1, <5>2 DEF FrameTyped, StartersOf
        <5> QED BY <5>3, <1>1, CountNone
      <4>2. Count(fx, OpenOf(m)) = 0
        <5>1. \A i \in 1 .. Len(fx) : FluxTyped(fx[i], Len(bs))
          BY <1>1, TypedParts
        <5>2. m \notin 1 .. Len(bs)
          BY <1>1, <1>2
        <5>3. \A i \in 1 .. Len(fx) : fx[i] \notin OpenOf(m)
          BY <5>1, <5>2 DEF FluxTyped, OpenOf, ToBarrier
        <5> QED BY <5>3, <1>1, CountNone
      <4>3. Left(m, st, 0)
        BY <4>1 DEF Left
      <4>4. Left(m, st2, 1 + Len(r))
        BY <4>3, <1>1, <1>4, <1>5, LeftStart
      <4>5. 1 + Len(r) \in Nat /\ m # 0
        BY <1>1, <1>2
      <4>6. bs2[m].count = Count(fx, OpenOf(m)) + (1 + Len(r)) + (IF m = 0 THEN 1 ELSE 0)
        BY <1>3, <1>6, <4>2, <4>5
      <4> QED BY <3>2, <4>4, <4>5, <4>6 DEF Counted
    <3> QED BY <3>1, <3>2, <1>6
  <2>6. Queues(on, st2)
    <3>1. Lined(a)
      BY <1>4 DEF Lined
    <3> QED BY <2>1, <3>1, <1>1, <1>5, QueuesPush DEF Good
  <2> QED BY <2>3, <2>4, <2>5, <2>6 DEF Good
<1>10. 0 \in 0 .. Len(fx) /\ 0 \in 0 .. Len(bs2)
  BY <1>1, <1>6
<1> QED BY <1>8, <1>9, <1>10 DEF Sound

(* Nothing refers to a flux that is not there yet. *)
LEMMA Unknown ==
  ASSUME NEW fx, NEW bs, NEW on, NEW st, Typed(fx, bs, on, st), NEW n, n = Len(fx) + 1
  PROVE  Others(n, bs, on, st) = 0 /\ Count(st, ActiveOf(n)) = 0
<1>1. /\ fx \in Seq(FluxRecords) /\ bs \in Seq(BarrierRecords)
      /\ on \in [OnceKeys -> OnceRecords] /\ st \in Seq(FrameRecords)
      /\ Len(fx) \in Nat /\ Len(bs) \in Nat /\ Len(st) \in Nat
  BY TypedParts
<1>2. n \notin 1 .. Len(fx)
  BY <1>1
<1>3. \A s \in Seq(1 .. Len(fx)) : n \notin ToSet(s)
  BY <1>2 DEF ToSet
<1>4. Count(bs, BarriersOf(n)) = 0
  <2>1. \A b \in 1 .. Len(bs) : bs[b].f \in 1 .. Len(fx)
    BY TypedParts
  <2>2. \A b \in 1 .. Len(bs) : bs[b] \notin BarriersOf(n)
    BY <1>2, <2>1 DEF BarriersOf
  <2> QED BY <2>2, <1>1, CountNone
<1>5. Count(on, OncesOf(n)) = 0
  <2>1. DOMAIN on = OnceKeys /\ IsFiniteSet(OnceKeys)
    BY <1>1, AsyncAssumption
  <2>2. \A k \in OnceKeys : on[k].obs \in Seq(1 .. Len(fx))
    BY TypedParts
  <2>3. \A k \in OnceKeys : on[k] \notin OncesOf(n)
    BY <1>3, <2>2 DEF OncesOf
  <2> QED BY <2>1, <2>3, CountType
<1>6. \A i \in 1 .. Len(st) : FrameTyped(st[i], Len(fx), Len(bs))
  BY TypedParts
<1>7. Count(st, TellersOf(n)) = 0
  <2>1. \A i \in 1 .. Len(st) : st[i] \notin TellersOf(n)
    BY <1>3, <1>6 DEF FrameTyped, TellersOf
  <2> QED BY <2>1, <1>1, CountNone
<1>8. Count(st, LoopsOf(n)) = 0 /\ Count(st, ActiveOf(n)) = 0
  <2>1. \A i \in 1 .. Len(st) : st[i] \notin LoopsOf(n) /\ st[i] \notin ActiveOf(n)
    BY <1>2, <1>6 DEF FrameTyped, LoopsOf, ActiveOf
  <2> QED BY <2>1, <1>1, CountNone
<1> QED BY <1>4, <1>5, <1>7, <1>8 DEF Others

(* A new flux, about to be continued: a root or a nested one, that of a    *)
(* once, or the branch that a barrier counts one less for.                 *)
NewRecord(x) == x.flag = 0 /\ x.owed = 0 /\ x.state = Started

(* Whom its end leads back to, given who was about to be continued.        *)
Joins(then, h, d) ==
  /\ h = 0 \/ then = ToSelf
  /\ IF d = 0 THEN then.kind # "barrier" ELSE then = ToBarrier(d)

AddedAt(fx, x, y, n) == y = Append(fx, x) /\ n = Len(fx) + 1

(* A new flux has the share that whoever started it has for it.            *)
LEMMA FluxAdded ==
  ASSUME NEW fx, NEW bs, NEW on, NEW st, NEW h, NEW d, NEW q, NEW x, NEW y, NEW n,
         Sound(fx, bs, on, st, h, d, q), FluxTyped(x, Len(bs)), NewRecord(x),
         AddedAt(fx, x, y, n),
         Joins(x.then, h, d)
  PROVE  Sound(y, bs, on, st, n, 0, q) /\ n \in 1 .. Len(y) /\ y[n].flag = 0
<1>1. /\ Typed(fx, bs, on, st) /\ fx \in Seq(FluxRecords) /\ bs \in Seq(BarrierRecords)
      /\ on \in [OnceKeys -> OnceRecords] /\ st \in Seq(FrameRecords)
      /\ Len(fx) \in Nat /\ Len(bs) \in Nat /\ Len(st) \in Nat
      /\ h \in 0 .. Len(fx) /\ d \in 0 .. Len(bs)
  BY SoundParts
<1>2. x \in FluxRecords /\ x.then \in Thens
  <2>1. x \in FluxRecords
    BY DEF FluxTyped
  <2> QED BY <2>1, MineType
<1>3. /\ y \in Seq(FluxRecords) /\ Len(y) = n /\ y[n] = x /\ n \in Nat /\ n # 0
      /\ \A g \in 1 .. Len(fx) : y[g] = fx[g]
      /\ \A g \in 1 .. n : g \in 1 .. Len(fx) \/ g = n
      /\ n \notin 1 .. Len(fx) /\ n \in 1 .. n /\ n \in 0 .. n /\ n # h
      /\ \A g \in 1 .. Len(fx) : g \in 1 .. n
  <2>1. /\ y \in Seq(FluxRecords) /\ Len(y) = Len(fx) + 1 /\ y[Len(fx) + 1] = x
        /\ \A g \in 1 .. Len(fx) : y[g] = fx[g]
        /\ \A g \in 1 .. Len(fx) + 1 : g \in 1 .. Len(fx) \/ g = Len(fx) + 1
    BY <1>1, <1>2, AppendAt DEF AddedAt
  <2> QED BY <2>1, <1>1 DEF AddedAt
<1>4. Typed(y, bs, on, st)
  <2>1. /\ \A a : FrameTyped(a, Len(fx), Len(bs)) => FrameTyped(a, n, Len(bs))
        /\ \A s : s \in Seq(1 .. Len(fx)) => s \in Seq(1 .. n)
    <3>1. Len(fx) <= n /\ Len(bs) <= Len(bs)
      BY <1>1 DEF AddedAt
    <3> QED BY <3>1, <1>1, <1>3, TypedGrows
  <2>2. \A g \in 1 .. Len(y) : FluxTyped(y[g], Len(bs))
    <3> SUFFICES ASSUME NEW g \in 1 .. n PROVE FluxTyped(y[g], Len(bs))
      BY <1>3
    <3>1. CASE g = n
      BY <3>1, <1>3
    <3>2. CASE g \in 1 .. Len(fx)
      BY <3>2, <1>1, <1>3, TypedParts
    <3> QED BY <3>1, <3>2, <1>3
  <2>3. \A b \in 1 .. Len(bs) : bs[b].f \in 1 .. Len(y)
    BY <1>1, <1>3, TypedParts
  <2>4. \A k \in OnceKeys : on[k].obs \in Seq(1 .. Len(y))
    BY <1>1, <1>3, <2>1, TypedParts
  <2>5. \A i \in 1 .. Len(st) : FrameTyped(st[i], Len(y), Len(bs))
    BY <1>1, <1>3, <2>1, TypedParts
  <2> QED BY <1>1, <1>3, <2>2, <2>3, <2>4, <2>5 DEF Typed
<1>5. ASSUME q = 0 PROVE Good(y, bs, on, st, n, 0)
  <2>1. Good(fx, bs, on, st, h, d)
    BY <1>5 DEF Sound
  <2>2. Others(n, bs, on, st) = 0 /\ Count(st, ActiveOf(n)) = 0
    BY <1>1, Unknown DEF AddedAt
  <2>3. Mine(x) = 0 /\ ~Over(x)
    BY DEF Mine, NewRecord, Over, Started, Terminated
  <2>4. Share(n, y, bs, on, st, n) = 1
    <3>1. Holder(n, n) = 1
      BY DEF Holder
    <3> QED BY <3>1, <2>2, <2>3, <1>3 DEF Share, Holder
  <2>5. ASSUME NEW g \in 1 .. Len(fx)
        PROVE  /\ Share(g, fx, bs, on, st, h) = Share(g, y, bs, on, st, n) + Holder(g, h)
               /\ Share(g, y, bs, on, st, n) \in Nat /\ Holder(g, h) \in 0 .. 1
    <3>1. /\ Others(g, bs, on, st) \in Nat /\ Mine(fx[g]) \in Nat /\ Holder(g, h) \in 0 .. 1
          /\ Share(g, fx, bs, on, st, h) = Mine(fx[g]) + Others(g, bs, on, st) + Holder(g, h)
      BY <1>1, ShareParts
    <3>2. Holder(g, n) = 0
      BY <1>3 DEF Holder
    <3>3. Share(g, y, bs, on, st, n) = Mine(fx[g]) + Others(g, bs, on, st) + Holder(g, n)
      BY <1>3 DEF Share, Holder
    <3> QED BY <3>1, <3>2, <3>3
  <2>6. Shared(y, bs, on, st, n)
    <3>0. Shared(fx, bs, on, st, h)
      BY <2>1 DEF Good
    <3>1. ASSUME NEW g \in 1 .. Len(y)
          PROVE  /\ Share(g, y, bs, on, st, n) <= 1
                 /\ Over(y[g]) => Share(g, y, bs, on, st, n) = 0
      <4>1. CASE g = n
        BY <4>1, <1>3, <2>3, <2>4
      <4>2. CASE g \in 1 .. Len(fx)
        <5>1. /\ Share(g, fx, bs, on, st, h) <= 1
              /\ Over(fx[g]) => Share(g, fx, bs, on, st, h) = 0
          BY <3>0, <4>2 DEF Shared
        <5>2. /\ Share(g, fx, bs, on, st, h) = Share(g, y, bs, on, st, n) + Holder(g, h)
              /\ Share(g, y, bs, on, st, n) \in Nat /\ Holder(g, h) \in 0 .. 1
          BY <2>5, <4>2
        <5>3. y[g] = fx[g]
          BY <1>3, <4>2
        <5> QED BY <5>1, <5>2, <5>3
      <4> QED BY <4>1, <4>2, <1>3, <3>1
    <3>2. ASSUME \A g \in 1 .. Len(y) : y[g].then # ToSelf, NEW g \in 1 .. Len(y),
                 y[g].state # Terminated
          PROVE  Share(g, y, bs, on, st, n) >= 1
      <4>1. CASE g = n
        BY <4>1, <2>4
      <4>2. CASE g \in 1 .. Len(fx)
        <5>1. \A k \in 1 .. Len(fx) : fx[k].then # ToSelf
          BY <1>3, <3>2
        <5>2. h = 0
          <6>1. x.then # ToSelf
            BY <1>3, <3>2
          <6> QED BY <6>1 DEF Joins
        <5>3. fx[g].state # Terminated
          BY <1>3, <3>2, <4>2
        <5>4. Share(g, fx, bs, on, st, h) >= 1
          BY <3>0, <4>2, <5>1, <5>3 DEF Shared
        <5>5. /\ Share(g, fx, bs, on, st, h) = Share(g, y, bs, on, st, n) + Holder(g, h)
              /\ Share(g, y, bs, on, st, n) \in Nat
          BY <2>5, <4>2
        <5>6. Holder(g, h) = 0
          BY <4>2, <5>2 DEF Holder
        <5> QED BY <5>4, <5>5, <5>6
      <4> QED BY <4>1, <4>2, <1>3, <3>2
    <3> QED BY <3>1, <3>2 DEF Shared
  <2>7. Flagged(y, st)
    <3> SUFFICES ASSUME NEW g \in 1 .. n
                 PROVE Count(st, ActiveOf(g)) = IF y[g].flag = 0 THEN 0 ELSE 1
      BY <1>3 DEF Flagged
    <3>1. CASE g = n
      BY <3>1, <1>3, <2>2 DEF NewRecord
    <3>2. CASE g \in 1 .. Len(fx)
      BY <3>2, <1>3, <2>1 DEF Good, Flagged
    <3> QED BY <3>1, <3>2, <1>3
  <2>8. Barred(y, bs, st, 0)
    <3> SUFFICES ASSUME NEW b \in 1 .. Len(bs) PROVE Counted(b, y, bs, st, 0)
      BY DEF Barred
    <3>1. PICK w \in Nat : /\ Left(b, st, w)
                           /\ bs[b].count = Count(fx, OpenOf(b)) + w + (IF b = d THEN 1 ELSE 0)
      BY <2>1 DEF Good, Barred, Counted
    <3>2. /\ Count(y, OpenOf(b)) = Count(fx, OpenOf(b)) + In(x, OpenOf(b))
          /\ Count(fx, OpenOf(b)) \in Nat
      BY <1>1, <1>2, CountAppend DEF AddedAt
    <3>3. b # 0
      OBVIOUS
    <3>4. In(x, OpenOf(b)) = Holder(b, d) /\ Holder(b, d) \in 0 .. 1
      <4>1. x.state # Terminated
        BY DEF NewRecord, Started, Terminated
      <4>2. x.then = ToBarrier(b) <=> b = d
        <5>1. CASE d = 0
          BY <5>1, <3>3 DEF ToBarrier, Joins
        <5>2. CASE d # 0
          BY <5>2 DEF ToBarrier, Joins
        <5> QED BY <5>1, <5>2
      <4> QED BY <4>1, <4>2, <1>2 DEF In, OpenOf, Holder
    <3>5. bs[b].count = Count(fx, OpenOf(b)) + w + Holder(b, d)
      BY <3>1 DEF Holder
    <3>6. bs[b].count = Count(y, OpenOf(b)) + w
      BY <3>2, <3>4, <3>5
    <3>7. Count(y, OpenOf(b)) \in Nat
      BY <1>3, CountNone
    <3>8. bs[b].count = Count(y, OpenOf(b)) + w + (IF b = 0 THEN 1 ELSE 0)
      BY <3>3, <3>6, <3>7
    <3> QED BY <3>1, <3>8 DEF Counted
  <2> QED BY <2>1, <2>6, <2>7, <2>8 DEF Good
<1>6. 0 \in 0 .. Len(bs) /\ y[n].flag = 0
  BY <1>1, <1>3 DEF NewRecord
<1> QED BY <1>3, <1>4, <1>5, <1>6 DEF Sound

(***************************************************************************)
(* The observers of a once                                                 *)
(***************************************************************************)
OnceIs(on, k, o, on2) ==
  /\ k \in OnceKeys /\ o \in OnceRecords /\ on2 \in [OnceKeys -> OnceRecords]
  /\ on2[k] = o /\ \A l \in OnceKeys : l # k => on2[l] = on[l]

(* A typed once in the place of another.                                   *)
LEMMA TypedOnce ==
  ASSUME NEW fx, NEW bs, NEW on, NEW st, NEW k, NEW o, NEW on2, Typed(fx, bs, on, st),
         OnceIs(on, k, o, on2), o.obs \in Seq(1 .. Len(fx))
  PROVE  Typed(fx, bs, on2, st)
<1>1. \A l \in OnceKeys : on2[l].obs \in Seq(1 .. Len(fx))
  <2> SUFFICES ASSUME NEW l \in OnceKeys PROVE on2[l].obs \in Seq(1 .. Len(fx))
    OBVIOUS
  <2>1. CASE l = k
    BY <2>1 DEF OnceIs
  <2>2. CASE l # k
    BY <2>2, TypedParts DEF OnceIs
  <2> QED BY <2>1, <2>2
<1> QED BY <1>1 DEF Typed, OnceIs

(* The shares, when one once has changed.                                  *)
LEMMA OthersOnce ==
  ASSUME NEW fx, NEW bs, NEW on, NEW st, NEW k, NEW o, NEW on2, Typed(fx, bs, on, st),
         OnceIs(on, k, o, on2), NEW g
  PROVE  /\ In(o, OncesOf(g)) \in 0 .. 1 /\ In(on[k], OncesOf(g)) \in 0 .. 1
         /\ Others(g, bs, on2, st) \in Nat /\ Others(g, bs, on, st) \in Nat
         /\ Others(g, bs, on2, st) + In(on[k], OncesOf(g))
              = Others(g, bs, on, st) + In(o, OncesOf(g))
<1>1. /\ bs \in Seq(BarrierRecords) /\ st \in Seq(FrameRecords)
      /\ on \in [OnceKeys -> OnceRecords]
  BY TypedParts
<1>2. /\ IsFiniteSet(DOMAIN on) /\ DOMAIN on = OnceKeys /\ DOMAIN on2 = DOMAIN on
      /\ k \in DOMAIN on /\ IsFiniteSet(DOMAIN on2)
      /\ \A l \in DOMAIN on : l # k => on2[l] = on[l]
      /\ on2[k] = o
  BY <1>1, AsyncAssumption DEF OnceIs
<1>3. Count(on2, OncesOf(g)) + In(on[k], OncesOf(g)) = Count(on, OncesOf(g)) + In(on2[k], OncesOf(g))
  BY <1>2, CountSet
<1>4. Count(on2, OncesOf(g)) \in Nat /\ Count(on, OncesOf(g)) \in Nat
  BY <1>2, CountType
<1>5. /\ Count(bs, BarriersOf(g)) \in Nat
      /\ Count(st, TellersOf(g)) \in Nat /\ Count(st, LoopsOf(g)) \in Nat
  BY <1>1, CountNone
<1>6. In(o, OncesOf(g)) \in 0 .. 1 /\ In(on[k], OncesOf(g)) \in 0 .. 1
  BY DEF In
<1>7. Count(on2, OncesOf(g)) + In(on[k], OncesOf(g)) = Count(on, OncesOf(g)) + In(o, OncesOf(g))
  BY <1>2, <1>3
<1> HIDE <1>3
<1> QED BY <1>4, <1>5, <1>6, <1>7 DEF Others

(* A flux that comes to a once that is running waits for it. *)
LEMMA OnceQueued ==
  ASSUME NEW fx, NEW bs, NEW on, NEW st, NEW f, NEW q, NEW k, NEW o, NEW on2,
         Sound(fx, bs, on, st, f, 0, q), f \in 1 .. Len(fx),
         OnceIs(on, k, o, on2), o.obs \in Seq(1 .. Len(fx)), o.started,
         q = 0 => o.obs = Append(on[k].obs, f)
  PROVE  Sound(fx, bs, on2, st, 0, 0, q)
<1>1. /\ Typed(fx, bs, on, st) /\ fx \in Seq(FluxRecords) /\ bs \in Seq(BarrierRecords)
      /\ on \in [OnceKeys -> OnceRecords] /\ st \in Seq(FrameRecords)
      /\ Len(fx) \in Nat /\ Len(bs) \in Nat /\ Len(st) \in Nat
  BY SoundParts
<1>2. Typed(fx, bs, on2, st)
  BY <1>1, TypedOnce
<1>3. ASSUME q = 0 PROVE Good(fx, bs, on2, st, 0, 0)
  <2>1. Good(fx, bs, on, st, f, 0)
    BY <1>3 DEF Sound
  <2>2. Others(f, bs, on, st) = 0
    BY <1>1, <2>1, NothingElse DEF Good
  <2>3. /\ on[k] \in OnceRecords /\ on[k].obs \in Seq(1 .. Len(fx)) /\ IsInjective(on[k].obs)
        /\ k \in OnceKeys /\ o \in OnceRecords
    BY <1>1, <2>1, TypedParts DEF OnceIs, Good, Queues, Queued
  <2>4. f \notin ToSet(on[k].obs)
    <3>1. Count(on, OncesOf(f)) = 0
      <4>1. Count(on, OncesOf(f)) \in Nat
        <5>1. DOMAIN on = OnceKeys /\ IsFiniteSet(OnceKeys)
          BY <1>1, AsyncAssumption
        <5> QED BY <5>1, CountType
      <4>2. /\ Count(bs, BarriersOf(f)) \in Nat
            /\ Count(st, TellersOf(f)) \in Nat /\ Count(st, LoopsOf(f)) \in Nat
        BY <1>1, CountNone
      <4> QED BY <2>2, <4>1, <4>2 DEF Others
    <3>2. on[k] \notin OncesOf(f)
      <4>1. DOMAIN on = OnceKeys /\ IsFiniteSet(DOMAIN on)
        BY <1>1, AsyncAssumption
      <4>2. \A l \in DOMAIN on : on[l] \notin OncesOf(f)
        BY <3>1, <4>1, CountType
      <4> QED BY <2>3, <4>1, <4>2
    <3> QED BY <2>3, <3>2 DEF OncesOf
  <2>5. /\ IsInjective(o.obs) /\ ToSet(o.obs) = ToSet(on[k].obs) \cup {f}
    <3>1. o.obs = Append(on[k].obs, f)
      BY <1>3
    <3> QED BY <2>3, <2>4, <3>1, AppendElements
  <2>6. Queues(on2, st)
    <3>1. Queued(o)
      BY <2>5 DEF Queued
    <3>2. \A l \in OnceKeys : Queued(on2[l])
      BY <2>1, <3>1 DEF Good, Queues, OnceIs
    <3> QED BY <2>1, <3>2 DEF Good, Queues
  <2>7. ASSUME NEW g \in 1 .. Len(fx)
        PROVE  Share(g, fx, bs, on2, st, 0) = Share(g, fx, bs, on, st, f)
    <3>1. In(o, OncesOf(g)) = In(on[k], OncesOf(g)) + Holder(g, f)
      BY <2>3, <2>4, <2>5 DEF In, OncesOf, Holder
    <3>2. /\ In(o, OncesOf(g)) \in 0 .. 1 /\ In(on[k], OncesOf(g)) \in 0 .. 1
          /\ Others(g, bs, on2, st) \in Nat /\ Others(g, bs, on, st) \in Nat
          /\ Others(g, bs, on2, st) + In(on[k], OncesOf(g))
               = Others(g, bs, on, st) + In(o, OncesOf(g))
      BY <1>1, OthersOnce
    <3>3. /\ Others(g, bs, on2, st) \in Nat /\ Mine(fx[g]) \in Nat /\ Holder(g, 0) \in 0 .. 1
          /\ Share(g, fx, bs, on2, st, 0) = Mine(fx[g]) + Others(g, bs, on2, st) + Holder(g, 0)
      BY <1>2, ShareParts
    <3>4. /\ Others(g, bs, on, st) \in Nat /\ Mine(fx[g]) \in Nat /\ Holder(g, f) \in 0 .. 1
          /\ Share(g, fx, bs, on, st, f) = Mine(fx[g]) + Others(g, bs, on, st) + Holder(g, f)
      BY <1>1, ShareParts
    <3>5. Holder(g, 0) = 0
      BY DEF Holder
    <3>6. Others(g, bs, on2, st) = Others(g, bs, on, st) + Holder(g, f)
      BY <3>1, <3>2, <3>4
    <3> QED BY <3>3, <3>4, <3>5, <3>6
  <2>8. Shared(fx, bs, on2, st, 0)
    BY <2>1, <2>7 DEF Good, Shared
  <2> QED BY <2>1, <2>6, <2>8 DEF Good
<1>4. 0 \in 0 .. Len(fx) /\ 0 \in 0 .. Len(bs)
  BY <1>1
<1> QED BY <1>2, <1>3, <1>4 DEF Sound

(* A once is done: those who wait for it will be told. *)
ToldIs(on, k, st, st2) == st2 = Append(st, Observers(on[k].obs))

(* The observers of a once are handed to the loop that tells them.         *)
LEMMA OnceTold ==
  ASSUME NEW fx, NEW bs, NEW on, NEW st, NEW q, NEW k, NEW o, NEW on2, NEW st2,
         Sound(fx, bs, on, st, 0, 0, q), OnceIs(on, k, o, on2), o.obs = <<>>,
         ToldIs(on, k, st, st2)
  PROVE  Sound(fx, bs, on2, st2, 0, 0, q)
<1>1. /\ Typed(fx, bs, on, st) /\ fx \in Seq(FluxRecords) /\ bs \in Seq(BarrierRecords)
      /\ on \in [OnceKeys -> OnceRecords] /\ st \in Seq(FrameRecords)
      /\ Len(fx) \in Nat /\ Len(bs) \in Nat /\ Len(st) \in Nat
  BY SoundParts
<1>2. /\ k \in OnceKeys /\ on[k] \in OnceRecords /\ on[k].obs \in Seq(1 .. Len(fx))
      /\ o \in OnceRecords /\ on2 \in [OnceKeys -> OnceRecords]
  BY <1>1, TypedParts DEF OnceIs
<1>3. PICK a \in FrameRecords : /\ st2 = Append(st, a) /\ a.kind = "observers"
                                /\ a.rest = on[k].obs /\ a.f = NULL
  <2>1. on[k].obs \in Seq(Nat)
    <3>1. 1 .. Len(fx) \subseteq Nat
      BY <1>1
    <3>2. Seq(1 .. Len(fx)) \subseteq Seq(Nat)
      BY <3>1
    <3> QED BY <1>2, <3>2
  <2> QED BY <2>1, ObserversFrame DEF ToldIs
<1>4. Typed(fx, bs, on2, st)
  <2>1. o.obs \in Seq(1 .. Len(fx))
    OBVIOUS
  <2> QED BY <1>1, <2>1, TypedOnce
<1>5. Typed(fx, bs, on2, st2)
  <2>1. FrameTyped(a, Len(fx), Len(bs))
    BY <1>2, <1>3 DEF FrameTyped
  <2> QED BY <2>1, <1>1, <1>3, <1>4, TypedPush
<1>6. ASSUME q = 0 PROVE Good(fx, bs, on2, st2, 0, 0)
  <2>1. Good(fx, bs, on, st, 0, 0)
    BY <1>6 DEF Sound
  <2>2. Flagged(fx, st2)
    <3>1. a.kind \notin {"loop", "after"}
      BY <1>3
    <3> QED BY <2>1, <3>1, <1>1, <1>3, FlaggedPush DEF Good
  <2>3. Barred(fx, bs, st2, 0)
    <3>1. a.kind # "branches"
      BY <1>3
    <3> QED BY <2>1, <3>1, <1>1, <1>3, BarredPush DEF Good
  <2>4. Queues(on2, st2)
    <3>1. Lined(a)
      BY <1>2, <1>3, <2>1 DEF Lined, Good, Queues, Queued
    <3>2. Queued(o)
      BY DEF Queued, IsInjective
    <3>3. \A l \in OnceKeys : Queued(on2[l])
      BY <2>1, <3>2 DEF Good, Queues, OnceIs
    <3>4. Queues(on2, st)
      BY <2>1, <3>3 DEF Good, Queues
    <3> QED BY <3>1, <3>4, <1>1, <1>3, QueuesPush
  <2>5. ASSUME NEW g \in 1 .. Len(fx)
        PROVE  Share(g, fx, bs, on2, st2, 0) = Share(g, fx, bs, on, st, 0)
    <3>1. In(o, OncesOf(g)) = 0
      BY DEF In, OncesOf, ToSet
    <3>2. In(a, TellersOf(g)) = In(on[k], OncesOf(g)) /\ In(a, LoopsOf(g)) = 0
      <4>1. /\ In(a, TellersOf(g)) = IF g \in ToSet(on[k].obs) THEN 1 ELSE 0
            /\ In(a, LoopsOf(g)) = 0
        BY <1>3, FrameIn
      <4>2. In(on[k], OncesOf(g)) = IF g \in ToSet(on[k].obs) THEN 1 ELSE 0
        BY <1>2 DEF In, OncesOf
      <4> QED BY <4>1, <4>2
    <3>3. /\ In(o, OncesOf(g)) \in 0 .. 1 /\ In(on[k], OncesOf(g)) \in 0 .. 1
          /\ Others(g, bs, on2, st) \in Nat /\ Others(g, bs, on, st) \in Nat
          /\ Others(g, bs, on2, st) + In(on[k], OncesOf(g))
               = Others(g, bs, on, st) + In(o, OncesOf(g))
      BY <1>1, OthersOnce
    <3>4. Others(g, bs, on2, Append(st, a)) =
            Others(g, bs, on2, st) + In(a, TellersOf(g)) + In(a, LoopsOf(g))
      BY <1>1, <1>2, OthersPush
    <3>5. Others(g, bs, on2, st2) = Others(g, bs, on, st)
      BY <1>3, <3>1, <3>2, <3>3, <3>4
    <3> QED BY <3>5 DEF Share
  <2>6. Shared(fx, bs, on2, st2, 0)
    BY <2>1, <2>5 DEF Good, Shared
  <2> QED BY <2>2, <2>3, <2>4, <2>6 DEF Good
<1>7. 0 \in 0 .. Len(fx) /\ 0 \in 0 .. Len(bs)
  BY <1>1
<1> QED BY <1>5, <1>6, <1>7 DEF Sound

(***************************************************************************)
(* The actions                                                             *)
(***************************************************************************)
RunFluxTo(elements, then, fx, st, y, t) ==
  ContinuedTo(Len(fx) + 1, Append(fx, NewFlux(Reverse(elements), then)), st, y, t)

(* Elements in the order in which a flux keeps them.                       *)
LEMMA ReverseType ==
  ASSUME NEW S, NEW s \in Seq(S)
  PROVE  Reverse(s) \in Seq(S)
<1>1. Len(s) \in Nat /\ \A i \in 1 .. Len(s) : Len(s) - i + 1 \in 1 .. Len(s) /\ s[Len(s) - i + 1] \in S
  OBVIOUS
<1> QED BY <1>1 DEF Reverse

(* Where the end of a flux may lead.                                       *)
LEMMA ThenTypes ==
  /\ NoThen \in Thens /\ NoThen.kind = "none" /\ NoThen # ToSelf
  /\ ToSelf \in Thens /\ ToSelf.kind = "self"
  /\ \A k \in OnceKeys : ToOnce(k) \in Thens /\ ToOnce(k).kind = "once" /\ ToOnce(k).at = k
  /\ \A b \in Nat : ToBarrier(b) \in Thens /\ ToBarrier(b).kind = "barrier" /\ ToBarrier(b).at = b
BY DEF Thens, NoThen, ToSelf, ToOnce, ToBarrier

(* A new flux, with any then, is started. *)
LEMMA FluxRan ==
  ASSUME NEW fx, NEW bs, NEW on, NEW st, NEW h, NEW d, NEW q, NEW y, NEW t,
         NEW elements \in Seq(Elements), NEW then \in Thens,
         Sound(fx, bs, on, st, h, d, q),
         Joins(then, h, d),
         then.kind = "once" => then.at \in OnceKeys, then.kind = "self" => then = ToSelf,
         RunFluxTo(elements, then, fx, st, y, t)
  PROVE  Sound(y, bs, on, t, 0, 0, q)
<1> DEFINE x == NewFlux(Reverse(elements), then)
<1>1. Len(fx) \in Nat /\ Len(bs) \in Nat /\ d \in 0 .. Len(bs)
  BY SoundParts
<1>2. Reverse(elements) \in Seq(Elements)
  BY ReverseType
<1>3. /\ x.then = then /\ x.flag = 0 /\ x.owed = 0 /\ x.state = Started
      /\ x.elements = Reverse(elements)
  BY DEF NewFlux
<1>4. x \in FluxRecords
  BY <1>2 DEF NewFlux, FluxRecords, States
<1>5. then.kind = "barrier" => then.at \in 1 .. Len(bs)
  <2>1. then.kind = "barrier" => d # 0 /\ then = ToBarrier(d)
    BY DEF Joins
  <2> QED BY <2>1, <1>1 DEF ToBarrier
<1> HIDE DEF x
<1>6. FluxTyped(x, Len(bs)) /\ NewRecord(x)
  BY <1>3, <1>4, <1>5 DEF FluxTyped, NewRecord
<1>7. PICK n, z : AddedAt(fx, x, z, n)
  BY DEF AddedAt
<1>8. Sound(z, bs, on, st, n, 0, q) /\ n \in 1 .. Len(z)
  <2>1. Joins(x.then, h, d)
    BY <1>3
  <2> QED BY <2>1, <1>6, <1>7, FluxAdded
<1>9. ContinuedTo(n, z, st, y, t)
  BY <1>7 DEF RunFluxTo, x, AddedAt
<1> QED BY <1>8, <1>9, Continued

(* Two sequences make one.                                                 *)
LEMMA ConcatType ==
  ASSUME NEW S, NEW s \in Seq(S), NEW r \in Seq(S)
  PROVE  s \o r \in Seq(S)
OBVIOUS

(* Elements and state, which nobody counts. *)
Inert(fx, f, y) ==
  \E x : /\ Changed(fx, f, x, y)
         /\ x.then = fx[f].then /\ x.flag = fx[f].flag /\ x.owed = fx[f].owed
         /\ x.state = Terminated <=> fx[f].state = Terminated

(* A change of the elements alone.                                         *)
LEMMA InertStep ==
  ASSUME NEW fx, NEW bs, NEW on, NEW st, NEW h, NEW d, NEW q, NEW f, NEW y,
         Sound(fx, bs, on, st, h, d, q), Inert(fx, f, y)
  PROVE  Sound(y, bs, on, st, h, d, q) /\ Len(y) = Len(fx)
<1>1. PICK x : /\ Changed(fx, f, x, y)
               /\ x.then = fx[f].then /\ x.flag = fx[f].flag /\ x.owed = fx[f].owed
               /\ x.state = Terminated <=> fx[f].state = Terminated
  BY DEF Inert
<1>2. /\ y \in Seq(FluxRecords) /\ Len(y) = Len(fx) /\ f \in 1 .. Len(fx) /\ y[f] = x
  BY <1>1 DEF Changed
<1>3. x \in FluxRecords
  BY <1>2
<1>4. Typed(fx, bs, on, st) /\ h \in 0 .. Len(fx)
  BY SoundParts
<1>5. FluxTyped(x, Len(bs))
  <2>1. FluxTyped(fx[f], Len(bs))
    BY <1>2, <1>4, TypedParts
  <2> QED BY <2>1, <1>1, <1>3 DEF FluxTyped
<1>6. Mine(x) = Mine(fx[f])
  BY <1>1 DEF Mine
<1>7. Sound(y, bs, on, st, h, d, q)
  <2>1. /\ q = 0 => Mine(x) + Holder(f, h) = Mine(fx[f]) + Holder(f, h)
        /\ \A g \in 1 .. Len(fx) : g # f => Holder(g, h) = Holder(g, h)
        /\ x.flag = 0 <=> fx[f].flag = 0
    BY <1>1, <1>6
  <2> QED BY <1>1, <1>4, <1>5, <2>1, FluxChanged
<1> QED BY <1>2, <1>7

(* setFirstElements changes the elements alone.                            *)
LEMMA FirstSet ==
  ASSUME NEW fx \in Seq(FluxRecords), NEW f \in 1 .. Len(fx), NEW elements \in Seq(Elements)
  PROVE  Inert(fx, f, SetFirst(f, elements, fx))
<1>1. fx[f] \in FluxRecords /\ Reverse(elements) \in Seq(Elements)
  BY ReverseType
<1>2. PICK r \in Seq(Elements) : r = fx[f].elements \o Reverse(elements)
  <2>1. fx[f].elements \in Seq(Elements)
    BY <1>1, MineType
  <2> QED BY <2>1, <1>1, ConcatType
<1>3. PICK x \in FluxRecords :
        /\ x = [fx[f] EXCEPT !.elements = r]
        /\ x.then = fx[f].then /\ x.flag = fx[f].flag /\ x.owed = fx[f].owed
        /\ x.state = fx[f].state
  <2>1. [fx[f] EXCEPT !.elements = r] \in FluxRecords
    BY <1>1 DEF FluxRecords
  <2>2. /\ [fx[f] EXCEPT !.elements = r].then = fx[f].then
        /\ [fx[f] EXCEPT !.elements = r].flag = fx[f].flag
        /\ [fx[f] EXCEPT !.elements = r].owed = fx[f].owed
        /\ [fx[f] EXCEPT !.elements = r].state = fx[f].state
    BY <1>1 DEF FluxRecords
  <2> QED BY <2>1, <2>2
<1>4. SetFirst(f, elements, fx) = [fx EXCEPT ![f] = x]
  BY <1>2, <1>3 DEF SetFirst
<1>5. Changed(fx, f, x, SetFirst(f, elements, fx))
  BY <1>4, ChangedTo
<1> QED BY <1>3, <1>5 DEF Inert

(* The last element is taken. *)
ElementOut(fx, f, y) ==
  y = [fx EXCEPT ![f].elements = Front(fx[f].elements),
                 ![f].state = IF Len(fx[f].elements) = 1 THEN Finishing ELSE @]

(* Taking an element changes the elements alone.                           *)
LEMMA ElementTaken ==
  ASSUME NEW fx \in Seq(FluxRecords), NEW f \in 1 .. Len(fx), NEW y,
         fx[f].state # Terminated, fx[f].elements # <<>>, ElementOut(fx, f, y)
  PROVE  Inert(fx, f, y) /\ Last(fx[f].elements) \in Elements
<1>1. fx[f] \in FluxRecords
  OBVIOUS
<1>2. fx[f].elements \in Seq(Elements) /\ fx[f].state \in States
  BY <1>1, MineType
<1>3. Front(fx[f].elements) \in Seq(Elements) /\ Last(fx[f].elements) \in Elements
  BY <1>2 DEF Front, Last
<1>4. PICK r \in Seq(Elements), v \in States :
        /\ r = Front(fx[f].elements) /\ v # Terminated
        /\ v = IF Len(fx[f].elements) = 1 THEN Finishing ELSE fx[f].state
  BY <1>2, <1>3 DEF States, Finishing, Terminated
<1>5. PICK x \in FluxRecords :
        /\ x = [fx[f] EXCEPT !.elements = r, !.state = v]
        /\ x.then = fx[f].then /\ x.flag = fx[f].flag /\ x.owed = fx[f].owed
        /\ x.state = v
  <2>1. [fx[f] EXCEPT !.elements = r, !.state = v] \in FluxRecords
    BY <1>1 DEF FluxRecords
  <2>2. /\ [fx[f] EXCEPT !.elements = r, !.state = v].then = fx[f].then
        /\ [fx[f] EXCEPT !.elements = r, !.state = v].flag = fx[f].flag
        /\ [fx[f] EXCEPT !.elements = r, !.state = v].owed = fx[f].owed
        /\ [fx[f] EXCEPT !.elements = r, !.state = v].state = v
    BY <1>1 DEF FluxRecords
  <2> QED BY <2>1, <2>2
<1>6. y = [fx EXCEPT ![f] = x]
  <2>1. y = [fx EXCEPT ![f].elements = r, ![f].state = v]
    BY <1>4 DEF ElementOut
  <2>2. [fx EXCEPT ![f].elements = r, ![f].state = v]
          = [fx EXCEPT ![f] = [fx[f] EXCEPT !.elements = r, !.state = v]]
    OBVIOUS
  <2> QED BY <2>1, <2>2, <1>5
<1>7. Changed(fx, f, x, y)
  <2>1. Changed(fx, f, x, [fx EXCEPT ![f] = x])
    BY ChangedTo
  <2> QED BY <2>1, <1>6
<1>8. x.state = Terminated <=> fx[f].state = Terminated
  BY <1>4, <1>5
<1>9. Inert(fx, f, y)
  BY <1>5, <1>7, <1>8 DEF Inert
<1> QED BY <1>3, <1>9

(* The continue that an action owes, and gives. *)
OwedIs(fx, f, n, y) == y = [fx EXCEPT ![f].owed = n]

(* A flux that keeps its share for later, or gets it back.                 *)
LEMMA Owed ==
  ASSUME NEW fx, NEW bs, NEW on, NEW st, NEW q, NEW f, NEW y,
         NEW h \in {0, f}, NEW h2 \in {0, f}, NEW n \in Nat, h # h2, f \in 1 .. Len(fx),
         Sound(fx, bs, on, st, h, 0, q), OwedIs(fx, f, n, y),
         n + Holder(f, h2) = fx[f].owed + Holder(f, h)
  PROVE  Sound(y, bs, on, st, h2, 0, q) /\ Len(y) = Len(fx)
<1>1. /\ Typed(fx, bs, on, st) /\ fx \in Seq(FluxRecords) /\ Len(fx) \in Nat
      /\ f \in Nat /\ f # 0 /\ h2 \in 0 .. Len(fx)
  BY SoundParts
<1>2. fx[f] \in FluxRecords /\ FluxTyped(fx[f], Len(bs)) /\ fx[f].owed \in Nat
  BY <1>1, TypedParts, MineType
<1>3. PICK x \in FluxRecords :
        /\ x = [fx[f] EXCEPT !.owed = n]
        /\ x.then = fx[f].then /\ x.flag = fx[f].flag /\ x.owed = n
        /\ x.state = fx[f].state
  <2>1. [fx[f] EXCEPT !.owed = n] \in FluxRecords
    BY <1>2 DEF FluxRecords
  <2>2. /\ [fx[f] EXCEPT !.owed = n].then = fx[f].then
        /\ [fx[f] EXCEPT !.owed = n].flag = fx[f].flag
        /\ [fx[f] EXCEPT !.owed = n].owed = n
        /\ [fx[f] EXCEPT !.owed = n].state = fx[f].state
    BY <1>2 DEF FluxRecords
  <2> QED BY <2>1, <2>2
<1>4. y = [fx EXCEPT ![f] = x]
  <2>1. [fx EXCEPT ![f].owed = n] = [fx EXCEPT ![f] = [fx[f] EXCEPT !.owed = n]]
    BY <1>1
  <2> QED BY <2>1, <1>3 DEF OwedIs
<1>5. Changed(fx, f, x, y)
  <2>1. Changed(fx, f, x, [fx EXCEPT ![f] = x])
    BY <1>1, ChangedTo
  <2> QED BY <2>1, <1>4
<1>6. FluxTyped(x, Len(bs))
  BY <1>2, <1>3 DEF FluxTyped
<1>7. Mine(x) + Holder(f, h2) = Mine(fx[f]) + Holder(f, h)
  <2>1. Holder(f, h) \in Nat /\ Holder(f, h2) \in Nat
    BY DEF Holder
  <2>2. PICK v \in Nat : /\ Mine(x) = x.owed + v
                         /\ Mine(fx[f]) = fx[f].owed + v
    BY <1>3 DEF Mine
  <2>3. PICK m \in Nat, i \in Nat, j \in Nat :
          fx[f].owed = m /\ Holder(f, h) = i /\ Holder(f, h2) = j
    BY <2>1, <1>2
  <2>4. n + j = m + i
    BY <2>3
  <2>5. (n + v) + j = (m + v) + i
    BY <2>4
  <2> QED BY <2>2, <2>3, <2>5, <1>3
<1>8. \A g \in 1 .. Len(fx) : g # f => Holder(g, h2) = Holder(g, h)
  BY DEF Holder
<1>9. x.flag = 0 <=> fx[f].flag = 0
  BY <1>3
<1>10. Sound(y, bs, on, st, h2, 0, q)
  BY <1>1, <1>3, <1>5, <1>6, <1>7, <1>8, <1>9, FluxChanged
<1> QED BY <1>5, <1>10 DEF Changed

(* The primed variables, as what the lemmas speak of. *)
LEMMA Readings ==
  /\ \A f, fx, st : Continue(f, fx, st) <=> ContinuedTo(f, fx, st, flux', stack')
  /\ \A e, th, fx, st : RunFlux(e, th, fx, st) <=> RunFluxTo(e, th, fx, st, flux', stack')
BY DEF Continue, ContinuedTo, RunFlux, RunFluxTo

(* What an element does to a flux that is about to be continued. *)
Ran == Sound(flux', barriers', once', stack', 0, 0, spurious')

(* Running an element: each kind hands the share of its flux on.           *)
LEMMA ElementKeepsSound ==
  ASSUME NEW e \in Elements, NEW f, NEW fx, NEW st, RunElement(e, f, fx, st),
         Sound(fx, barriers, once, st, f, 0, spurious), f \in 1 .. Len(fx),
         spurious' = spurious, turns \in 0 .. MaxTurns
  PROVE  Ran /\ turns' \in 0 .. MaxTurns
<1>1. /\ Typed(fx, barriers, once, st) /\ fx \in Seq(FluxRecords)
      /\ st \in Seq(FrameRecords) /\ Len(fx) \in Nat /\ Len(barriers) \in Nat /\ f \in Nat
  BY SoundParts
<1>2. /\ e.parts \in Seq(Seq(Elements))
      /\ e.kind \in {"while", "if", "once", "nested"} => e.parts # <<>>
      /\ e.kind = "if" => Len(e.parts) = 2
      /\ e.kind = "once" => e.key \in OnceKeys
  BY AsyncAssumption
<1>3. e.kind \in {"while", "if", "once", "nested"} => e.parts[1] \in Seq(Elements)
  BY <1>2
<1>4. Continue(f, fx, st) /\ UNCHANGED <<barriers, once>> => Ran
  <2> SUFFICES ASSUME Continue(f, fx, st), barriers' = barriers, once' = once PROVE Ran
    OBVIOUS
  <2>1. ContinuedTo(f, fx, st, flux', stack')
    BY Readings
  <2>2. Sound(flux', barriers, once, stack', 0, 0, spurious)
    BY <2>1, Continued
  <2> QED BY <2>2 DEF Ran
<1>5. ASSUME NEW es \in Seq(Elements), Continue(f, SetFirst(f, es, fx), st),
             UNCHANGED <<barriers, once>>
      PROVE  Ran
  <2>1. Inert(fx, f, SetFirst(f, es, fx))
    BY <1>1, FirstSet
  <2>2. /\ Sound(SetFirst(f, es, fx), barriers, once, st, f, 0, spurious)
        /\ Len(SetFirst(f, es, fx)) = Len(fx)
    BY <2>1, InertStep
  <2>3. ContinuedTo(f, SetFirst(f, es, fx), st, flux', stack')
    BY <1>5, Readings
  <2>4. Sound(flux', barriers, once, stack', 0, 0, spurious)
    BY <2>2, <2>3, Continued
  <2> QED BY <2>4, <1>5 DEF Ran
<1>6. CASE e.kind = "action" /\ Action(f, fx, st)
  <2>1. /\ flux' = [fx EXCEPT ![f].owed = @ + 1] /\ stack' = Append(st, User(f))
        /\ barriers' = barriers /\ once' = once /\ turns' = turns
    BY <1>6 DEF Action
  <2>2. fx[f].owed \in Nat
    BY <1>1, TypedParts, MineType
  <2>3. PICK n \in Nat : n = fx[f].owed + 1
    BY <2>2
  <2>4. OwedIs(fx, f, n, flux')
    BY <2>1, <2>3 DEF OwedIs
  <2>5. Sound(flux', barriers, once, st, 0, 0, spurious) /\ Len(flux') = Len(fx)
    <3>1. n + Holder(f, 0) = fx[f].owed + Holder(f, f)
      BY <1>1, <2>2, <2>3 DEF Holder
    <3>2. PICK h \in {0, f}, g \in {0, f} : h = f /\ g = 0 /\ h # g
      <4>1. f # 0 /\ f \in {0, f} /\ 0 \in {0, f}
        BY <1>1
      <4> QED BY <4>1
    <3>3. n + Holder(f, g) = fx[f].owed + Holder(f, h)
      BY <3>1, <3>2
    <3>4. Sound(fx, barriers, once, st, h, 0, spurious) /\ OwedIs(fx, f, n, flux')
      BY <2>4, <3>2
    <3>5. Sound(flux', barriers, once, st, g, 0, spurious) /\ Len(flux') = Len(fx)
      BY <3>2, <3>3, <3>4, Owed
    <3> QED BY <3>2, <3>5
  <2>6. FrameTyped(User(f), Len(flux'), Len(barriers)) /\ Mute(User(f))
    <3>1. /\ User(f) \in FrameRecords /\ User(f).kind = "user" /\ User(f).f = f
      BY <1>1, LoopFrames
    <3> QED BY <3>1, <2>5 DEF FrameTyped, Mute
  <2>7. Sound(flux', barriers, once, Append(st, User(f)), 0, 0, spurious)
    BY <2>5, <2>6, <1>1, MuteComes
  <2> QED BY <2>1, <2>7 DEF Ran
<1>7. CASE e.kind = "while" /\ While(e, f, fx, st)
  <2>1. CASE /\ turns < MaxTurns
             /\ turns' = turns + 1
             /\ Continue(f, SetFirst(f, e.parts[1], SetFirst(f, <<e>>, fx)), st)
             /\ UNCHANGED <<barriers, once>>
    <3> DEFINE y == SetFirst(f, <<e>>, fx)
    <3>1. <<e>> \in Seq(Elements) /\ e.parts[1] \in Seq(Elements)
      BY <1>3, <1>7
    <3>2. Inert(fx, f, y)
      BY <1>1, <3>1, FirstSet
    <3> HIDE DEF y
    <3>3. Sound(y, barriers, once, st, f, 0, spurious) /\ Len(y) = Len(fx)
      BY <3>2, InertStep
    <3>4. y \in Seq(FluxRecords) /\ f \in 1 .. Len(y)
      BY <3>3, SoundParts
    <3>5. PICK z : z = SetFirst(f, e.parts[1], y) /\ Inert(y, f, z)
      BY <3>1, <3>4, FirstSet
    <3>6. Sound(z, barriers, once, st, f, 0, spurious) /\ Len(z) = Len(y)
      BY <3>3, <3>5, InertStep
    <3>7. ContinuedTo(f, z, st, flux', stack')
      BY <2>1, <3>5, Readings DEF y
    <3>8. Sound(flux', barriers, once, stack', 0, 0, spurious)
      BY <3>4, <3>6, <3>7, Continued
    <3>9. turns' \in 0 .. MaxTurns
      BY <2>1, AsyncAssumption
    <3> QED BY <3>8, <3>9, <2>1 DEF Ran
  <2>2. CASE Continue(f, fx, st) /\ UNCHANGED turns /\ UNCHANGED <<barriers, once>>
    BY <2>2, <1>4
  <2> QED BY <2>1, <2>2, <1>7 DEF While
<1>8. CASE e.kind = "if" /\ If(e, f, fx, st)
  <2>1. PICK i \in {1, 2} : Continue(f, SetFirst(f, e.parts[i], fx), st)
    BY <1>8 DEF If
  <2>2. e.parts[i] \in Seq(Elements)
    BY <1>2, <1>8
  <2>3. UNCHANGED <<barriers, once>> /\ turns' = turns
    BY <1>8 DEF If
  <2> QED BY <2>1, <2>2, <2>3, <1>5
<1>9. CASE e.kind = "parallel" /\ Parallel(e, f, fx, st)
  <2>1. /\ flux' = fx /\ once' = once /\ turns' = turns
        /\ BarrierFor(f, e.parts, barriers, barriers', st, stack')
    BY <1>9 DEF Parallel, BarrierFor
  <2>2. Sound(fx, barriers', once, stack', 0, 0, spurious)
    BY <1>2, <2>1, BarrierAdded
  <2> QED BY <2>1, <2>2 DEF Ran
<1>10. CASE e.kind = "once" /\ Once(e, f, fx, st)
  <2>1. e.key \in OnceKeys /\ e.parts[1] \in Seq(Elements)
    BY <1>2, <1>3, <1>10
  <2>2. CASE once[e.key].done /\ Continue(f, fx, st) /\ UNCHANGED <<once, barriers, turns>>
    BY <2>2, <1>4
  <2>3. CASE /\ ~once[e.key].started
             /\ once' = [once EXCEPT ![e.key].started = TRUE, ![e.key].obs = <<f>>]
             /\ RunFlux(e.parts[1], ToOnce(e.key), fx, st)
             /\ UNCHANGED <<barriers, turns>>
    <3>1. PICK o \in OnceRecords :
            /\ o.obs = <<f>> /\ o.started
            /\ OnceIs(once, e.key, o, once')
      <4>1. once \in [OnceKeys -> OnceRecords] /\ once[e.key] \in OnceRecords
        BY <1>1, <2>1, TypedParts
      <4>2. <<f>> \in Seq(Nat)
        BY <1>1
      <4>3. PICK r \in Seq(Nat) : r = <<f>>
        BY <4>2
      <4>4. PICK o \in OnceRecords :
              o = [once[e.key] EXCEPT !.started = TRUE, !.obs = r] /\ o.obs = r /\ o.started
        <5>1. [once[e.key] EXCEPT !.started = TRUE, !.obs = r] \in OnceRecords
          BY <4>1 DEF OnceRecords
        <5>2. /\ [once[e.key] EXCEPT !.started = TRUE, !.obs = r].obs = r
              /\ [once[e.key] EXCEPT !.started = TRUE, !.obs = r].started = TRUE
          BY <4>1 DEF OnceRecords
        <5> QED BY <5>1, <5>2
      <4>5. once' = [once EXCEPT ![e.key] = o]
        <5>1. once' = [once EXCEPT ![e.key].started = TRUE, ![e.key].obs = r]
          BY <2>3, <4>3
        <5>2. [once EXCEPT ![e.key].started = TRUE, ![e.key].obs = r]
                = [once EXCEPT ![e.key] = [once[e.key] EXCEPT !.started = TRUE, !.obs = r]]
          OBVIOUS
        <5> QED BY <5>1, <5>2, <4>4
      <4>6. OnceIs(once, e.key, o, once')
        BY <4>1, <4>5, <2>1 DEF OnceIs
      <4> QED BY <4>3, <4>4, <4>6
    <3>2. spurious = 0 => o.obs = Append(once[e.key].obs, f)
      <4>1. spurious = 0 => once[e.key].obs = <<>>
        BY <2>1, <2>3 DEF Sound, Good, Queues, Queued
      <4>2. Append(<<>>, f) = <<f>>
        OBVIOUS
      <4> QED BY <3>1, <4>1, <4>2
    <3>3. o.obs \in Seq(1 .. Len(fx))
      BY <3>1
    <3>4. Sound(fx, barriers, once', st, 0, 0, spurious)
      BY <3>1, <3>2, <3>3, OnceQueued
    <3>5. RunFluxTo(e.parts[1], ToOnce(e.key), fx, st, flux', stack')
      BY <2>3, Readings
    <3>6. /\ ToOnce(e.key) \in Thens /\ ToOnce(e.key).kind = "once"
          /\ ToOnce(e.key).at = e.key
      BY <2>1, ThenTypes
    <3>7. Joins(ToOnce(e.key), 0, 0)
      BY <3>6 DEF Joins
    <3>8. Sound(flux', barriers, once', stack', 0, 0, spurious)
      BY <2>1, <3>4, <3>5, <3>6, <3>7, FluxRan
    <3> QED BY <2>3, <3>8 DEF Ran
  <2>4. CASE /\ once[e.key].started /\ ~once[e.key].done
             /\ once' = [once EXCEPT ![e.key].obs = Append(@, f)]
             /\ flux' = fx /\ stack' = st
             /\ UNCHANGED <<barriers, turns>>
    <3>1. /\ once \in [OnceKeys -> OnceRecords] /\ once[e.key] \in OnceRecords
          /\ once[e.key].obs \in Seq(1 .. Len(fx))
      BY <1>1, <2>1, TypedParts
    <3>2. PICK r \in Seq(1 .. Len(fx)) : r = Append(once[e.key].obs, f)
      BY <3>1, AppendAt
    <3>3. r \in Seq(Nat)
      <4>1. 1 .. Len(fx) \subseteq Nat
        BY <1>1
      <4>2. Seq(1 .. Len(fx)) \subseteq Seq(Nat)
        BY <4>1
      <4> QED BY <4>2
    <3>4. PICK o \in OnceRecords :
            o = [once[e.key] EXCEPT !.obs = r] /\ o.obs = r /\ o.started
      <4>1. [once[e.key] EXCEPT !.obs = r] \in OnceRecords
        BY <3>1, <3>3 DEF OnceRecords
      <4>2. /\ [once[e.key] EXCEPT !.obs = r].obs = r
            /\ [once[e.key] EXCEPT !.obs = r].started = once[e.key].started
        BY <3>1 DEF OnceRecords
      <4> QED BY <4>1, <4>2, <2>4
    <3>5. once' = [once EXCEPT ![e.key] = o]
      <4>1. once' = [once EXCEPT ![e.key].obs = r]
        BY <2>4, <3>2
      <4>2. [once EXCEPT ![e.key].obs = r] = [once EXCEPT ![e.key] = [once[e.key] EXCEPT !.obs = r]]
        OBVIOUS
      <4> QED BY <4>1, <4>2, <3>4
    <3>6. OnceIs(once, e.key, o, once')
      BY <2>1, <3>1, <3>5 DEF OnceIs
    <3>7. spurious = 0 => o.obs = Append(once[e.key].obs, f)
      BY <3>2, <3>4
    <3>8. Sound(fx, barriers, once', st, 0, 0, spurious)
      BY <3>4, <3>6, <3>7, OnceQueued
    <3> QED BY <2>4, <3>8 DEF Ran
  <2> QED BY <2>2, <2>3, <2>4, <1>10 DEF Once
<1>11. CASE e.kind = "nested" /\ Nested(e, f, fx, st)
  <2>1. /\ RunFlux(e.parts[1], ToSelf, fx, st)
        /\ barriers' = barriers /\ once' = once /\ turns' = turns
    BY <1>11 DEF Nested
  <2>2. RunFluxTo(e.parts[1], ToSelf, fx, st, flux', stack')
    BY <2>1, Readings
  <2>3. e.parts[1] \in Seq(Elements)
    BY <1>3, <1>11
  <2>4. ToSelf \in Thens /\ ToSelf.kind = "self" /\ Joins(ToSelf, f, 0)
    BY ThenTypes DEF Joins
  <2>5. Sound(flux', barriers, once, stack', 0, 0, spurious)
    BY <2>2, <2>3, <2>4, FluxRan
  <2> QED BY <2>1, <2>5 DEF Ran
<1> QED BY <1>6, <1>7, <1>8, <1>9, <1>10, <1>11 DEF RunElement

(* An arrival, whose last one continues. *)
LEMMA ArriveKeepsSound ==
  ASSUME NEW fx, NEW st, NEW d, Sound(fx, barriers, once, st, 0, d, spurious),
         d \in 1 .. Len(barriers), Arrive(d, fx, st), once' = once, spurious' = spurious
  PROVE  Ran
<1>1. /\ Typed(fx, barriers, once, st) /\ Len(fx) \in Nat
  BY SoundParts
<1>2. PICK h : ArrivedTo(d, barriers, barriers', h)
  BY DEF Arrive, ArrivedTo
<1>3. Sound(fx, barriers', once, st, h, 0, spurious)
  BY <1>2, Arrived
<1>4. barriers[d].f \in 1 .. Len(fx)
  BY <1>1, TypedParts
<1>5. CASE barriers[d].count = 1
  <2>1. h = barriers[d].f /\ Continue(barriers[d].f, fx, st)
    BY <1>2, <1>5 DEF ArrivedTo, Arrive
  <2>2. ContinuedTo(h, fx, st, flux', stack')
    BY <2>1, Readings
  <2>3. Sound(flux', barriers', once, stack', 0, 0, spurious)
    BY <1>3, <1>4, <2>1, <2>2, Continued
  <2> QED BY <2>3 DEF Ran
<1>6. CASE barriers[d].count # 1
  <2>1. h = 0 /\ flux' = fx /\ stack' = st
    BY <1>2, <1>6 DEF ArrivedTo, Arrive
  <2> QED BY <1>3, <2>1 DEF Ran
<1> QED BY <1>5, <1>6

EndIs(fx, f, y) == y = [fx EXCEPT ![f].state = Terminated]

(* The end of a flux: its then arrives, tells or continues.                *)
LEMMA ThenKeepsSound ==
  ASSUME NEW f, NEW fx, NEW st, NEW y, Sound(fx, barriers, once, st, f, 0, spurious),
         f \in 1 .. Len(fx), EndIs(fx, f, y), RunThen(fx[f].then, f, y, st),
         spurious' = spurious, turns \in 0 .. MaxTurns
  PROVE  Ran /\ turns' \in 0 .. MaxTurns
<1>1. /\ Typed(fx, barriers, once, st) /\ fx \in Seq(FluxRecords)
      /\ st \in Seq(FrameRecords) /\ Len(fx) \in Nat /\ Len(barriers) \in Nat
  BY SoundParts
<1>2. fx[f] \in FluxRecords /\ FluxTyped(fx[f], Len(barriers))
  BY <1>1, TypedParts
<1>3. PICK x \in FluxRecords :
        /\ x = [fx[f] EXCEPT !.state = Terminated]
        /\ x.then = fx[f].then /\ x.flag = fx[f].flag /\ x.owed = fx[f].owed
        /\ x.state = Terminated
  <2>1. [fx[f] EXCEPT !.state = Terminated] \in FluxRecords
    BY <1>2 DEF FluxRecords, States
  <2>2. /\ [fx[f] EXCEPT !.state = Terminated].then = fx[f].then
        /\ [fx[f] EXCEPT !.state = Terminated].flag = fx[f].flag
        /\ [fx[f] EXCEPT !.state = Terminated].owed = fx[f].owed
        /\ [fx[f] EXCEPT !.state = Terminated].state = Terminated
    BY <1>2 DEF FluxRecords
  <2> QED BY <2>1, <2>2
<1>4. y = [fx EXCEPT ![f] = x]
  <2>1. [fx EXCEPT ![f].state = Terminated] = [fx EXCEPT ![f] = [fx[f] EXCEPT !.state = Terminated]]
    OBVIOUS
  <2> QED BY <2>1, <1>3 DEF EndIs
<1>5. Changed(fx, f, x, y) /\ Len(y) = Len(fx)
  <2>1. Changed(fx, f, x, [fx EXCEPT ![f] = x])
    BY <1>1, ChangedTo
  <2> QED BY <2>1, <1>4 DEF Changed
<1>6. FluxTyped(x, Len(barriers))
  BY <1>2, <1>3 DEF FluxTyped
<1>7. PICK h, d : EndsTo(x, f, h, d)
  BY DEF EndsTo
<1>8. Sound(y, barriers, once, st, h, d, spurious)
  BY <1>3, <1>5, <1>6, <1>7, Ended
<1>9. CASE /\ fx[f].then.kind = "none"
           /\ flux' = y /\ stack' = st /\ UNCHANGED <<barriers, once, turns>>
  <2>1. h = 0 /\ d = 0
    BY <1>3, <1>7, <1>9 DEF ToSelf, EndsTo
  <2> QED BY <1>8, <1>9, <2>1 DEF Ran
<1>10. CASE /\ fx[f].then.kind = "barrier"
            /\ Arrive(fx[f].then.at, y, st) /\ UNCHANGED <<once, turns>>
  <2>1. h = 0 /\ d = fx[f].then.at /\ d \in 1 .. Len(barriers)
    BY <1>2, <1>3, <1>7, <1>10 DEF ToSelf, FluxTyped, EndsTo
  <2>2. Ran
    BY <1>8, <1>10, <2>1, ArriveKeepsSound
  <2> QED BY <1>10, <2>2
<1>11. CASE /\ fx[f].then.kind = "once"
            /\ once' = [once EXCEPT ![fx[f].then.at].done = TRUE, ![fx[f].then.at].obs = <<>>]
            /\ stack' = Append(st, Observers(once[fx[f].then.at].obs))
            /\ flux' = y /\ UNCHANGED <<barriers, turns>>
  <2>1. PICK k \in OnceKeys : k = fx[f].then.at
    BY <1>2, <1>11 DEF FluxTyped
  <2>2. h = 0 /\ d = 0
    BY <1>3, <1>7, <1>11 DEF ToSelf, EndsTo
  <2>3. once \in [OnceKeys -> OnceRecords] /\ once[k] \in OnceRecords
    BY <1>1, TypedParts
  <2>4. PICK o \in OnceRecords : o = [once[k] EXCEPT !.done = TRUE, !.obs = <<>>] /\ o.obs = <<>>
    <3>1. <<>> \in Seq(Nat)
      OBVIOUS
    <3>2. [once[k] EXCEPT !.done = TRUE, !.obs = <<>>] \in OnceRecords
      BY <2>3, <3>1 DEF OnceRecords
    <3>3. [once[k] EXCEPT !.done = TRUE, !.obs = <<>>].obs = <<>>
      BY <2>3 DEF OnceRecords
    <3> QED BY <3>2, <3>3
  <2>5. once' = [once EXCEPT ![k] = o]
    <3>1. once' = [once EXCEPT ![k].done = TRUE, ![k].obs = <<>>]
      BY <1>11, <2>1
    <3>2. [once EXCEPT ![k].done = TRUE, ![k].obs = <<>>]
            = [once EXCEPT ![k] = [once[k] EXCEPT !.done = TRUE, !.obs = <<>>]]
      OBVIOUS
    <3> QED BY <3>1, <3>2, <2>4
  <2>6. OnceIs(once, k, o, once')
    BY <2>3, <2>5 DEF OnceIs
  <2>7. Sound(y, barriers, once, st, 0, 0, spurious)
    BY <1>8, <2>2
  <2>8. ToldIs(once, k, st, stack')
    BY <1>11, <2>1 DEF ToldIs
  <2>9. Sound(y, barriers, once', stack', 0, 0, spurious)
    BY <2>4, <2>6, <2>7, <2>8, OnceTold
  <2> QED BY <1>11, <2>9 DEF Ran
<1>12. CASE /\ fx[f].then.kind = "self"
            /\ Continue(f, y, st) /\ UNCHANGED <<barriers, once, turns>>
  <2>1. h = f /\ d = 0
    BY <1>2, <1>3, <1>7, <1>12 DEF ToSelf, FluxTyped, EndsTo
  <2>2. ContinuedTo(f, y, st, flux', stack')
    BY <1>12, Readings
  <2>3. Sound(flux', barriers, once, stack', 0, 0, spurious)
    BY <1>5, <1>8, <2>1, <2>2, Continued
  <2> QED BY <1>12, <2>3 DEF Ran
<1> QED BY <1>9, <1>10, <1>11, <1>12 DEF RunThen

(* Nothing runs at first.                                                  *)
LEMMA InitSound == Init => FluxInvariant
<1> SUFFICES ASSUME Init PROVE FluxInvariant
  OBVIOUS
<1>1. /\ flux = <<>> /\ barriers = <<>> /\ stack = <<>> /\ turns = 0 /\ spurious = 0
      /\ once = [k \in OnceKeys |-> [obs |-> <<>>, started |-> FALSE, done |-> FALSE]]
  BY DEF Init
<1>2. /\ Len(flux) = 0 /\ Len(barriers) = 0 /\ Len(stack) = 0 /\ 1 .. 0 = {} /\ 0 \in 0 .. 0
      /\ flux \in Seq(FluxRecords) /\ barriers \in Seq(BarrierRecords)
      /\ stack \in Seq(FrameRecords)
  BY <1>1
<1>3. <<>> \in Seq(Nat) /\ <<>> \in Seq(1 .. 0)
  OBVIOUS
<1>4. /\ once \in [OnceKeys -> OnceRecords]
      /\ \A k \in OnceKeys : once[k].obs = <<>>
  BY <1>1, <1>3 DEF OnceRecords
<1>5. Typed(flux, barriers, once, stack)
  BY <1>2, <1>3, <1>4 DEF Typed
<1>6. Queues(once, stack)
  <2>1. IsInjective(<<>>)
    BY DEF IsInjective
  <2> QED BY <1>2, <1>4, <2>1 DEF Queues, Queued
<1>7. Good(flux, barriers, once, stack, 0, 0)
  BY <1>2, <1>6 DEF Good, Shared, Flagged, Barred
<1>8. Sound(flux, barriers, once, stack, 0, 0, spurious)
  BY <1>2, <1>5, <1>7 DEF Sound
<1> QED BY <1>1, <1>8, AsyncAssumption DEF FluxInvariant

(* Every action is made of the steps above.                                *)
LEMMA NextSound == FluxInvariant /\ [Next]_vars => FluxInvariant'
<1> SUFFICES ASSUME FluxInvariant, [Next]_vars PROVE FluxInvariant'
  OBVIOUS
<1>1. /\ turns \in 0 .. MaxTurns /\ spurious \in 0 .. MaxSpurious
      /\ Sound(flux, barriers, once, stack, 0, 0, spurious)
  BY DEF FluxInvariant
<1>2. /\ Typed(flux, barriers, once, stack) /\ flux \in Seq(FluxRecords)
      /\ stack \in Seq(FrameRecords) /\ Len(flux) \in Nat /\ DOMAIN flux = 1 .. Len(flux)
      /\ Len(barriers) \in Nat
  BY <1>1, SoundParts
<1>3. Ran /\ turns' \in 0 .. MaxTurns /\ spurious' \in 0 .. MaxSpurious => FluxInvariant'
  BY DEF Ran, FluxInvariant
<1>4. stack # <<>> => /\ Below \in Seq(FrameRecords) /\ Top \in FrameRecords
                      /\ stack = Append(Below, Top)
                      /\ Typed(flux, barriers, once, Below)
                      /\ FrameTyped(Top, Len(flux), Len(barriers))
                      /\ Sound(flux, barriers, once, Append(Below, Top), 0, 0, spurious)
  <2>1. stack # <<>> => /\ Below \in Seq(FrameRecords) /\ Top \in FrameRecords
                        /\ stack = Append(Below, Top)
    BY <1>2, TopSplit
  <2>2. ASSUME stack # <<>>
        PROVE  /\ Typed(flux, barriers, once, Below)
               /\ FrameTyped(Top, Len(flux), Len(barriers))
    <3>1. Typed(flux, barriers, once, Append(Below, Top))
      BY <1>2, <2>1, <2>2
    <3> QED BY <3>1, <2>1, <2>2, TypedPush
  <2>3. stack # <<>> => Sound(flux, barriers, once, Append(Below, Top), 0, 0, spurious)
    BY <1>1, <2>1
  <2> QED BY <2>1, <2>2, <2>3
<1> HIDE DEF Below, Top
<1>5. CASE UNCHANGED vars
  BY <1>5, <1>1, <1>3 DEF vars, Ran
<1>6. CASE RunNext
  <2> DEFINE f == Top.f
             st == Append(Below, After(f))
  <2>1. stack # <<>> /\ Top.kind = "loop" /\ spurious' = spurious
    BY <1>6 DEF RunNext, TopIs
  <2>2. f \in 1 .. Len(flux) /\ f \in Nat
    BY <1>2, <1>4, <2>1 DEF FrameTyped
  <2>3. After(f) \in FrameRecords /\ After(f).kind = "after" /\ After(f).f = f
    BY <2>2, LoopFrames
  <2>4. FrameTyped(After(f), Len(flux), Len(barriers))
    BY <2>2, <2>3 DEF FrameTyped
  <2>5. Sound(flux, barriers, once, st, f, 0, spurious)
    BY <1>4, <2>1, <2>3, <2>4, TurnTaken
  <2>6. \/ /\ flux[f].state # Terminated /\ flux[f].elements # <<>>
           /\ RunElement(Last(flux[f].elements), f,
                [flux EXCEPT ![f].elements = Front(flux[f].elements),
                             ![f].state = IF Len(flux[f].elements) = 1 THEN Finishing ELSE @], st)
        \/ RunThen(flux[f].then, f, [flux EXCEPT ![f].state = Terminated], st)
    BY <1>6 DEF RunNext
  <2> HIDE DEF f, st
  <2>7. CASE /\ flux[f].state # Terminated /\ flux[f].elements # <<>>
             /\ RunElement(Last(flux[f].elements), f,
                [flux EXCEPT ![f].elements = Front(flux[f].elements),
                             ![f].state = IF Len(flux[f].elements) = 1 THEN Finishing ELSE @], st)
    <3>1. PICK y : ElementOut(flux, f, y) /\ RunElement(Last(flux[f].elements), f, y, st)
      BY <2>7 DEF ElementOut
    <3>2. Inert(flux, f, y) /\ Last(flux[f].elements) \in Elements
      BY <1>2, <2>2, <2>7, <3>1, ElementTaken
    <3>3. Sound(y, barriers, once, st, f, 0, spurious) /\ Len(y) = Len(flux)
      BY <2>5, <3>2, InertStep
    <3>4. Ran /\ turns' \in 0 .. MaxTurns
      BY <1>1, <2>1, <2>2, <3>1, <3>2, <3>3, ElementKeepsSound
    <3> QED BY <1>1, <1>3, <2>1, <3>4
  <2>8. CASE RunThen(flux[f].then, f, [flux EXCEPT ![f].state = Terminated], st)
    <3>1. PICK y : EndIs(flux, f, y) /\ RunThen(flux[f].then, f, y, st)
      BY <2>8 DEF EndIs
    <3>2. Ran /\ turns' \in 0 .. MaxTurns
      BY <1>1, <2>1, <2>2, <2>5, <3>1, ThenKeepsSound
    <3> QED BY <1>1, <1>3, <2>1, <3>2
  <2> QED BY <2>6, <2>7, <2>8
<1>7. CASE EndTurn
  <2>1. /\ stack # <<>> /\ Top.kind = "after" /\ barriers' = barriers /\ once' = once
        /\ turns' = turns /\ spurious' = spurious
    BY <1>7 DEF EndTurn, TopIs
  <2>2. \/ /\ flux[Top.f].flag = 2 /\ flux' = [flux EXCEPT ![Top.f].flag = 1]
           /\ stack' = Append(Below, Loop(Top.f))
        \/ /\ flux[Top.f].flag # 2 /\ flux' = [flux EXCEPT ![Top.f].flag = 0]
           /\ stack' = Below
    BY <1>7 DEF EndTurn
  <2>3. Sound(flux', barriers, once, stack', 0, 0, spurious)
    BY <1>4, <2>1, <2>2, TurnEnded
  <2> QED BY <1>1, <1>3, <2>1, <2>3 DEF Ran
<1>8. CASE StartBranch
  <2>1. /\ stack # <<>> /\ Top.kind = "branches" /\ once' = once
        /\ turns' = turns /\ spurious' = spurious
    BY <1>8 DEF StartBranch, TopIs
  <2>2. /\ Top.at \in 1 .. Len(barriers) /\ Top.rest \in Seq(Seq(Elements))
        /\ Top.rest # <<>> => Sound(flux, barriers, once,
             Append(Below, Branches(Top.at, Tail(Top.rest))), 0, Top.at, spurious)
        /\ Top.rest = <<>> => Sound(flux, barriers, once, Below, 0, Top.at, spurious)
    BY <1>4, <2>1, BranchTaken
  <2>3. CASE /\ Top.rest # <<>>
             /\ RunFlux(Head(Top.rest), ToBarrier(Top.at), flux,
                   Append(Below, Branches(Top.at, Tail(Top.rest))))
             /\ UNCHANGED barriers
    <3>1. PICK b, st : /\ b = Top.at /\ st = Append(Below, Branches(b, Tail(Top.rest)))
                       /\ b \in 1 .. Len(barriers) /\ b \in Nat /\ b # 0
                       /\ Sound(flux, barriers, once, st, 0, b, spurious)
      <4>1. Top.at \in Nat /\ Top.at # 0
        BY <1>2, <2>2
      <4> QED BY <4>1, <2>2, <2>3
    <3>2. Head(Top.rest) \in Seq(Elements)
      BY <2>2, <2>3, HeadTail
    <3>3. RunFluxTo(Head(Top.rest), ToBarrier(b), flux, st, flux', stack')
      BY <2>3, <3>1, Readings
    <3>4. ToBarrier(b) \in Thens /\ ToBarrier(b).kind = "barrier"
      BY <3>1, ThenTypes
    <3>5. Joins(ToBarrier(b), 0, b)
      BY <3>1 DEF Joins
    <3>6. Sound(flux', barriers, once, stack', 0, 0, spurious)
      BY <3>1, <3>2, <3>3, <3>4, <3>5, FluxRan
    <3> QED BY <1>1, <1>3, <2>1, <2>3, <3>6 DEF Ran
  <2>4. CASE Top.rest = <<>> /\ Arrive(Top.at, flux, Below)
    <3>1. Ran
      BY <2>1, <2>2, <2>4, ArriveKeepsSound
    <3> QED BY <1>1, <1>3, <2>1, <3>1
  <2> QED BY <1>8, <2>3, <2>4 DEF StartBranch
<1>9. CASE TellObserver
  <2>1. /\ stack # <<>> /\ Top.kind = "observers" /\ barriers' = barriers /\ once' = once
        /\ turns' = turns /\ spurious' = spurious
    BY <1>9 DEF TellObserver, TopIs
  <2>2. CASE /\ Top.rest # <<>>
             /\ Continue(Head(Top.rest), flux, Append(Below, Observers(Tail(Top.rest))))
    <3>1. /\ Head(Top.rest) \in 1 .. Len(flux)
          /\ Sound(flux, barriers, once, Append(Below, Observers(Tail(Top.rest))),
                   Head(Top.rest), 0, spurious)
      BY <1>4, <2>1, <2>2, ObserverTold
    <3>2. ContinuedTo(Head(Top.rest), flux, Append(Below, Observers(Tail(Top.rest))), flux', stack')
      BY <2>2, Readings
    <3>3. Sound(flux', barriers, once, stack', 0, 0, spurious)
      BY <3>1, <3>2, Continued
    <3> QED BY <1>1, <1>3, <2>1, <3>3 DEF Ran
  <2>3. CASE Top.rest = <<>> /\ stack' = Below /\ UNCHANGED flux
    <3>1. Mute(Top)
      BY <2>1, <2>3 DEF Mute
    <3>2. Sound(flux, barriers, once, Below, 0, 0, spurious)
      BY <1>4, <2>1, <3>1, MuteComes
    <3> QED BY <1>1, <1>3, <2>1, <2>3, <3>2 DEF Ran
  <2> QED BY <1>9, <2>2, <2>3 DEF TellObserver
<1>10. CASE UserReturns
  <2>1. /\ stack # <<>> /\ Top.kind = "user" /\ barriers' = barriers /\ once' = once
        /\ turns' = turns /\ spurious' = spurious /\ stack' = Below /\ flux' = flux
    BY <1>10 DEF UserReturns, TopIs
  <2>2. Mute(Top)
    BY <2>1 DEF Mute
  <2>3. Sound(flux, barriers, once, Below, 0, 0, spurious)
    BY <1>4, <2>1, <2>2, MuteComes
  <2> QED BY <1>1, <1>3, <2>1, <2>3 DEF Ran
<1>11. ASSUME NEW p \in Programs, Start(p) PROVE FluxInvariant'
  <2>1. /\ RunFlux(p, NoThen, flux, stack) /\ barriers' = barriers /\ once' = once
        /\ turns' = turns /\ spurious' = spurious
    BY <1>11 DEF Start
  <2>2. p \in Seq(Elements)
    BY AsyncAssumption
  <2>3. RunFluxTo(p, NoThen, flux, stack, flux', stack')
    BY <2>1, Readings
  <2>4. NoThen \in Thens /\ NoThen.kind = "none"
    BY ThenTypes
  <2>5. Joins(NoThen, 0, 0)
    BY <2>4 DEF Joins
  <2>6. Sound(flux', barriers, once, stack', 0, 0, spurious)
    BY <1>1, <2>2, <2>3, <2>4, <2>5, FluxRan
  <2> QED BY <1>1, <1>3, <2>1, <2>6 DEF Ran
<1>12. ASSUME NEW f \in DOMAIN flux, ContinueOwed(f) PROVE FluxInvariant'
  <2>1. /\ flux[f].owed > 0 /\ Continue(f, [flux EXCEPT ![f].owed = @ - 1], stack)
        /\ barriers' = barriers /\ once' = once /\ turns' = turns /\ spurious' = spurious
    BY <1>12 DEF ContinueOwed
  <2>2. f \in 1 .. Len(flux) /\ f \in Nat /\ f # 0
    BY <1>2
  <2>3. flux[f].owed \in Nat
    BY <1>2, <2>2, TypedParts, MineType
  <2>4. PICK n \in Nat : n = flux[f].owed - 1
    BY <2>1, <2>3
  <2>5. PICK y : OwedIs(flux, f, n, y) /\ Continue(f, y, stack)
    BY <2>1, <2>4 DEF OwedIs
  <2>6. PICK h \in {0, f}, g \in {0, f} : h = 0 /\ g = f /\ h # g
    <3>1. f # 0 /\ f \in {0, f} /\ 0 \in {0, f}
      BY <2>2
    <3> QED BY <3>1
  <2>7. n + Holder(f, g) = flux[f].owed + Holder(f, h)
    BY <2>2, <2>3, <2>4, <2>6 DEF Holder
  <2>8. Sound(flux, barriers, once, stack, h, 0, spurious)
    BY <1>1, <2>6
  <2>9. Sound(y, barriers, once, stack, g, 0, spurious) /\ Len(y) = Len(flux)
    BY <2>2, <2>5, <2>6, <2>7, <2>8, Owed
  <2>10. ContinuedTo(g, y, stack, flux', stack') /\ g \in 1 .. Len(y)
    BY <2>2, <2>5, <2>6, <2>9, Readings
  <2>11. Sound(flux', barriers, once, stack', 0, 0, spurious)
    BY <2>9, <2>10, Continued
  <2> QED BY <1>1, <1>3, <2>1, <2>11 DEF Ran
<1>13. ASSUME NEW f \in DOMAIN flux, ContinueSpurious(f) PROVE FluxInvariant'
  <2>1. /\ spurious < MaxSpurious /\ spurious' = spurious + 1 /\ Continue(f, flux, stack)
        /\ barriers' = barriers /\ once' = once /\ turns' = turns
    BY <1>13 DEF ContinueSpurious
  <2>2. f \in 1 .. Len(flux) /\ f \in 0 .. Len(flux) /\ 0 \in 0 .. Len(barriers)
    BY <1>2
  <2>3. spurious' \in 0 .. MaxSpurious /\ spurious' # 0
    BY <1>1, <2>1, AsyncAssumption
  <2>4. Sound(flux, barriers, once, stack, f, 0, spurious')
    BY <1>2, <2>2, <2>3 DEF Sound
  <2>5. ContinuedTo(f, flux, stack, flux', stack')
    BY <2>1, Readings
  <2>6. Sound(flux', barriers, once, stack', 0, 0, spurious')
    BY <2>2, <2>4, <2>5, Continued
  <2> QED BY <1>1, <1>3, <2>1, <2>3, <2>6 DEF Ran
<1> QED
  BY <1>5, <1>6, <1>7, <1>8, <1>9, <1>10, <1>11, <1>12, <1>13 DEF Next, Running

(* The invariant holds of every behaviour.                                 *)
LEMMA FluxInvariantHolds == Spec => []FluxInvariant
BY InitSound, NextSound, PTL DEF Spec

(* The frames of a flux, its barriers and onces, as they are counted. *)
LEMMA FramesCounted ==
  ASSUME NEW f, Typed(flux, barriers, once, stack)
  PROVE  /\ Cardinality(Frames("loop", f)) = Count(stack, LoopsOf(f))
         /\ Cardinality(Frames("loop", f) \cup Frames("after", f)) = Count(stack, ActiveOf(f))
         /\ Cardinality({i \in DOMAIN stack :
              stack[i].kind = "observers" /\ f \in ToSet(stack[i].rest)})
              = Count(stack, TellersOf(f))
         /\ Cardinality({b \in DOMAIN barriers : barriers[b].f = f /\ barriers[b].count > 0})
              = Count(barriers, BarriersOf(f))
         /\ Cardinality({k \in OnceKeys : f \in ToSet(once[k].obs)}) = Count(once, OncesOf(f))
<1>1. /\ \A i \in DOMAIN stack : stack[i] \in FrameRecords
      /\ \A b \in DOMAIN barriers : barriers[b] \in BarrierRecords
      /\ \A k \in OnceKeys : once[k] \in OnceRecords
      /\ DOMAIN once = OnceKeys
  BY DEF Typed
<1>2. Frames("loop", f) = {i \in DOMAIN stack : stack[i] \in LoopsOf(f)}
  BY <1>1 DEF Frames, LoopsOf
<1>3. Frames("loop", f) \cup Frames("after", f) = {i \in DOMAIN stack : stack[i] \in ActiveOf(f)}
  BY <1>1 DEF Frames, ActiveOf
<1>4. {i \in DOMAIN stack : stack[i].kind = "observers" /\ f \in ToSet(stack[i].rest)}
        = {i \in DOMAIN stack : stack[i] \in TellersOf(f)}
  BY <1>1 DEF TellersOf
<1>5. {b \in DOMAIN barriers : barriers[b].f = f /\ barriers[b].count > 0}
        = {b \in DOMAIN barriers : barriers[b] \in BarriersOf(f)}
  BY <1>1 DEF BarriersOf
<1>6. {k \in OnceKeys : f \in ToSet(once[k].obs)}
        = {k \in DOMAIN once : once[k] \in OncesOf(f)}
  BY <1>1 DEF OncesOf
<1> QED BY <1>2, <1>3, <1>4, <1>5, <1>6 DEF Count

(* What TLC counts at a barrier is what Counted says.                      *)
LEMMA BarriersAreCounted ==
  ASSUME Typed(flux, barriers, once, stack), Barred(flux, barriers, stack, 0)
  PROVE  BarriersCount
<1> SUFFICES ASSUME NEW b \in DOMAIN barriers
             PROVE LET starting == {i \in DOMAIN stack : stack[i].kind = "branches" /\ stack[i].at = b}
                       open == {f \in Fluxes : flux[f].then = ToBarrier(b) /\ flux[f].state # Terminated}
                       left == IF starting = {} THEN 0 ELSE 1 + Len(stack[CHOOSE i \in starting : TRUE].rest)
                   IN  barriers[b].count = Cardinality(open) + left
  BY DEF BarriersCount
<1> DEFINE starting == {i \in DOMAIN stack : stack[i].kind = "branches" /\ stack[i].at = b}
           open == {f \in Fluxes : flux[f].then = ToBarrier(b) /\ flux[f].state # Terminated}
           one == CHOOSE i \in starting : TRUE
<1>1. /\ flux \in Seq(FluxRecords) /\ stack \in Seq(FrameRecords)
      /\ Len(barriers) \in Nat /\ DOMAIN barriers = 1 .. Len(barriers)
      /\ DOMAIN stack = 1 .. Len(stack) /\ DOMAIN flux = 1 .. Len(flux)
      /\ \A i \in DOMAIN stack : stack[i] \in FrameRecords
      /\ \A f \in DOMAIN flux : flux[f] \in FluxRecords
  BY DEF Typed
<1>2. open = {f \in DOMAIN flux : flux[f] \in OpenOf(b)}
  BY <1>1 DEF OpenOf, Fluxes
<1>3. starting = {i \in DOMAIN stack : stack[i] \in StartersOf(b)}
  BY <1>1 DEF StartersOf
<1>4. Cardinality(open) = Count(flux, OpenOf(b)) /\ Count(flux, OpenOf(b)) \in Nat
  <2>1. Count(flux, OpenOf(b)) \in Nat
    BY <1>1, CountNone
  <2> QED BY <2>1, <1>2 DEF Count
<1>5. PICK w \in Nat : /\ Left(b, stack, w)
                       /\ barriers[b].count = Count(flux, OpenOf(b)) + w + (IF b = 0 THEN 1 ELSE 0)
  BY <1>1 DEF Barred, Counted
<1>6. barriers[b].count = Cardinality(open) + w
  <2>1. b # 0
    BY <1>1
  <2> QED BY <2>1, <1>4, <1>5
<1>7. Count(stack, StartersOf(b)) = 0 <=> starting = {}
  <2>1. Count(stack, StartersOf(b)) = 0 <=> \A i \in 1 .. Len(stack) : stack[i] \notin StartersOf(b)
    BY <1>1, CountNone
  <2> QED BY <2>1, <1>1, <1>3
<1> HIDE DEF starting, open, one
<1>8. CASE starting = {}
  <2>1. w = 0
    BY <1>5, <1>7, <1>8 DEF Left
  <2> QED BY <2>1, <1>6, <1>8 DEF starting, open
<1>9. CASE starting # {}
  <2>1. one \in starting
    BY <1>9 DEF one
  <2>2. one \in 1 .. Len(stack) /\ stack[one] \in StartersOf(b)
    BY <2>1, <1>1, <1>3
  <2>3. w = 1 + Len(stack[one].rest)
    BY <2>2, <1>5, <1>7, <1>9 DEF Left
  <2> QED BY <2>3, <1>6, <1>9 DEF starting, open, one
<1> QED BY <1>8, <1>9

(* The property follows from the invariant.                                *)
LEMMA OneContinuationFollows == FluxInvariant => OneContinuation
<1> SUFFICES ASSUME FluxInvariant PROVE OneContinuation
  OBVIOUS
<1>1. /\ turns \in 0 .. MaxTurns /\ spurious \in 0 .. MaxSpurious
      /\ Sound(flux, barriers, once, stack, 0, 0, spurious)
      /\ Typed(flux, barriers, once, stack)
  BY DEF FluxInvariant, Sound
<1>2. /\ DOMAIN flux = 1 .. Len(flux) /\ Len(flux) \in Nat
      /\ DOMAIN barriers = 1 .. Len(barriers) /\ DOMAIN stack = 1 .. Len(stack)
  BY <1>1 DEF Typed
<1>3. TypeOK
  <2>1. ASSUME NEW f \in Fluxes
        PROVE  /\ flux[f].state \in {Started, Finishing, Terminated}
               /\ flux[f].flag \in 0..2 /\ flux[f].owed \in Nat
    <3>1. flux[f] \in FluxRecords
      BY <1>1, <1>2, TypedParts DEF Fluxes
    <3> QED BY <3>1, MineType DEF States
  <2>2. \A b \in DOMAIN barriers : barriers[b].f \in Fluxes /\ barriers[b].count \in Int
    BY <1>1, <1>2, TypedParts DEF Fluxes, BarrierRecords
  <2>3. \A k \in OnceKeys : ToSet(once[k].obs) \subseteq Fluxes
    <3>1. \A k \in OnceKeys : once[k].obs \in Seq(1 .. Len(flux))
      BY <1>1, TypedParts
    <3>2. \A s \in Seq(1 .. Len(flux)) : ToSet(s) \subseteq 1 .. Len(flux)
      BY DEF ToSet
    <3> QED BY <3>1, <3>2, <1>2 DEF Fluxes
  <2>4. \A i \in DOMAIN stack : stack[i].f \in Fluxes \cup {NULL}
    <3>1. \A i \in 1 .. Len(stack) : FrameTyped(stack[i], Len(flux), Len(barriers))
      BY <1>1, TypedParts
    <3> QED BY <3>1, <1>2 DEF FrameTyped, Fluxes
  <2> QED BY <1>1, <2>1, <2>2, <2>3, <2>4 DEF TypeOK
<1>4. LoopsDoNotNest
  <2> SUFFICES ASSUME spurious = 0, NEW f \in Fluxes
               PROVE Cardinality(Frames("loop", f) \cup Frames("after", f))
                       = IF flux[f].flag = 0 THEN 0 ELSE 1
    BY DEF LoopsDoNotNest
  <2>1. Count(stack, ActiveOf(f)) = IF flux[f].flag = 0 THEN 0 ELSE 1
    BY <1>1, <1>2 DEF Fluxes, Sound, Good, Flagged
  <2>2. Cardinality(Frames("loop", f) \cup Frames("after", f)) = Count(stack, ActiveOf(f))
    BY <1>1, FramesCounted
  <2> QED BY <2>1, <2>2
<1>5. ASSUME spurious = 0 PROVE BarriersCount
  BY <1>1, <1>5, BarriersAreCounted DEF Sound, Good
<1>6. ASSUME spurious = 0, \A f \in Fluxes : flux[f].then # ToSelf, NEW f \in Fluxes
      PROVE  Continuations(f) = IF flux[f].state = Terminated THEN 0 ELSE 1
  <2>1. Shared(flux, barriers, once, stack, 0)
    BY <1>1, <1>6 DEF Sound, Good
  <2>2. f \in 1 .. Len(flux) /\ Holder(f, 0) = 0
    BY <1>2 DEF Fluxes, Holder
  <2>3. /\ Others(f, barriers, once, stack) \in Nat /\ Mine(flux[f]) \in Nat
        /\ Holder(f, 0) \in 0 .. 1
        /\ Share(f, flux, barriers, once, stack, 0)
             = Mine(flux[f]) + Others(f, barriers, once, stack) + Holder(f, 0)
    BY <1>1, <2>2, ShareParts
  <2>4. Continuations(f) = Mine(flux[f]) + Others(f, barriers, once, stack)
    <3>1. PICK o, u, c, b, t, l :
            /\ o = flux[f].owed
            /\ u = IF flux[f].flag = 2 THEN 1 ELSE 0
            /\ c = Count(once, OncesOf(f)) /\ b = Count(barriers, BarriersOf(f))
            /\ t = Count(stack, TellersOf(f)) /\ l = Count(stack, LoopsOf(f))
      OBVIOUS
    <3>2. o \in Nat /\ u \in Nat /\ b \in Nat /\ t \in Nat /\ l \in Nat
      <4>1. flux[f] \in FluxRecords /\ stack \in Seq(FrameRecords)
            /\ barriers \in Seq(BarrierRecords)
        BY <1>1, <2>2, TypedParts
      <4>2. flux[f].owed \in Nat
        BY <4>1, MineType
      <4>3. Count(barriers, BarriersOf(f)) \in Nat /\ Count(stack, TellersOf(f)) \in Nat
            /\ Count(stack, LoopsOf(f)) \in Nat
        BY <4>1, CountNone
      <4> QED BY <3>1, <4>2, <4>3
    <3>3. c \in Nat
      <4>1. IsFiniteSet(DOMAIN once)
        BY <1>1, AsyncAssumption, TypedParts
      <4> QED BY <3>1, <4>1, CountType
    <3>4. Continuations(f) = o + b + c + t + l + u
      BY <1>1, <3>1, FramesCounted DEF Continuations
    <3>5. Mine(flux[f]) = o + u /\ Others(f, barriers, once, stack) = b + c + t + l
      BY <3>1 DEF Mine, Others
    <3> QED BY <3>2, <3>3, <3>4, <3>5
  <2>5. Share(f, flux, barriers, once, stack, 0) = Continuations(f) /\ Continuations(f) \in Nat
    BY <2>2, <2>3, <2>4
  <2>6. flux[f].then # ToSelf
    BY <1>6
  <2>7. flux[f].state = Terminated => Continuations(f) = 0
    BY <2>1, <2>2, <2>5, <2>6 DEF Shared, Over
  <2>8. flux[f].state # Terminated => Continuations(f) = 1
    <3>1. Continuations(f) <= 1
      BY <2>1, <2>2, <2>5 DEF Shared
    <3>2. flux[f].state # Terminated => Continuations(f) >= 1
      BY <1>2, <1>6, <2>1, <2>2, <2>5 DEF Shared, Fluxes
    <3> QED BY <2>5, <3>1, <3>2
  <2> QED BY <2>7, <2>8
<1> QED BY <1>3, <1>4, <1>5, <1>6 DEF OneContinuation

(* OneContinuation: with any elements and programs, and any number of them *)
(* running, as long as nobody calls continue without owing it.             *)
THEOREM FluxesContinueOnce == Spec => []OneContinuation
BY FluxInvariantHolds, OneContinuationFollows, PTL
=============================================================================
