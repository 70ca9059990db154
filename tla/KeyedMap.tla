------------------------------ MODULE KeyedMap ------------------------------
(***************************************************************************)
(* What a CDictionary promises (MSCDictionary.h): each key has at most one *)
(* object; an enumeration meets every key that stays there from its start  *)
(* to its end, and none twice, whatever else is added or removed; an       *)
(* insertion or a removal may also put an end to the enumeration.          *)
(***************************************************************************)
CONSTANTS
  Key, Value,
  Nil            \* no object

VARIABLES
  map,           \* map[k]: the object of k, or Nil
  walking,       \* "on" while an enumeration runs, "ended" when it has met all
                 \* it had to, "no" before, and when it was given up
  met,           \* the keys it has met
  due            \* the keys that are there since it began

vars == <<map, walking, met, due>>

Present == {k \in Key : map[k] # Nil}

Init ==
  /\ map = [k \in Key |-> Nil]
  /\ walking = "no"
  /\ met = {} /\ due = {}

Over(how) == walking' = how /\ met' = {} /\ due' = {}

Put(k, v) ==
  /\ UNCHANGED <<walking, met, due>>
  /\ map' = [map EXCEPT ![k] = v]

Remove(k) ==
  /\ map[k] # Nil
  /\ \/ Over("no")
     \/ due' = due \ {k} /\ UNCHANGED <<walking, met>>
  /\ map' = [map EXCEPT ![k] = Nil]

Clear ==
  /\ Over("no")
  /\ map' = [k \in Key |-> Nil]

Drop == Over("no") /\ UNCHANGED map

Begin ==
  /\ walking' = "on"
  /\ met' = {}
  /\ due' = Present
  /\ UNCHANGED map

Meet(k) ==
  /\ walking = "on" /\ met' = met \cup {k}
  /\ k \in Present \ met
  /\ UNCHANGED <<map, walking, due>>

End ==
  /\ walking = "on"
  /\ due \subseteq met
  /\ Over("ended")
  /\ UNCHANGED map

Next ==
  \/ Drop \/ Begin \/ End
  \/ \E k \in Key : Meet(k) \/ Remove(k) \/ \E v \in Value : Put(k, v)
  \/ Clear

Spec == Init /\ [][Next]_vars
=============================================================================
