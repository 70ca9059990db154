----------------------------- MODULE Containers -----------------------------
(***************************************************************************)
(* A dictionary and an array that hold the same objects, and the program   *)
(* that uses them: what each retains and releases, and what becomes of the *)
(* objects the other or the program still holds.                           *)
(***************************************************************************)
EXTENDS Dictionary, Array

CONSTANTS
  MaxItems,      \* bound: the length of the array
  MaxArgs,       \* bound: the objects one call passes
  MaxGrow        \* bound: the elements a call makes room for

ASSUME SharedAssumption ==
  /\ Value = Object
  /\ MaxItems \in Nat /\ MaxArgs \in Nat /\ MaxGrow \in Nat

VARIABLES
  mine,          \* the objects the program has a reference to
  onlyHere,      \* history: the call of the array that runs, or that went
                 \* wrong, was passed an object only the array refers to
  onItself       \* history: it was passed the array itself

vars == <<dictVars, arrayVars, refs, undefined, mine, onlyHere, onItself>>

notes == <<onlyHere, onItself>>

Init ==
  /\ DictInit
  /\ ArrayInit
  /\ mine = Object
  /\ refs = [o \in Object |-> 1]
  /\ undefined = FALSE
  /\ onlyHere = FALSE
  /\ onItself = FALSE

-----------------------------------------------------------------------------
(* The keys whose node holds o. *)
KeysOf(o) == {k \in Key : value[k] = o}

(* The program takes a reference to an object it finds in a container, or  *)
(* gives up its own.                                                       *)
Take(o) ==
  /\ o \in Alive \ mine
  /\ mine' = mine \cup {o}
  /\ refs' = Retained(refs, <<o>>)
  /\ UNCHANGED <<dictVars, arrayVars, undefined, notes>>

Drop(o) ==
  /\ o \in mine
  /\ mine' = mine \ {o}
  /\ refs' = Released(refs, <<o>>)
  /\ UNCHANGED <<dictVars, arrayVars, undefined, notes>>

(* What an operation of the dictionary does to the reference counts.  Keys *)
(* are copied: their counts are left out.                                  *)
DictStep ==
  \/ \E k \in Key, v \in Alive :
       \/ Replace(k, v) /\ refs' = Released(Retained(refs, <<v>>), <<value[k]>>)
       \/ /\ Insert(k, v)
          /\ refs' = IF pending' = Nil THEN Retained(refs, <<v>>) ELSE refs
  \/ InsertGrown /\ refs' = Retained(refs, <<pending[2]>>)
  \/ \E k \in Key : Unlink(k) /\ refs' = Released(refs, <<value[k]>>)
  \/ /\ DictFreeInside
     /\ refs' = [o \in Object |-> refs[o] - Cardinality(KeysOf(o))]
  \/ /\ \/ \E n \in 1 .. MaxGrow : Grow(n)
        \/ Rehash \/ MakeEnumerator \/ NextKey
        \/ StartCopy \/ CopyNext \/ EndCopy
     /\ UNCHANGED refs

(* An object the array alone has references to. *)
OnlyInArray(o) == o \notin mine /\ KeysOf(o) = {}

(* The objects that are passed to the array. *)
Arguments == UNION {[1 .. n -> Alive] : n \in 1 .. MaxArgs}

ArrayStep ==
  \/ \E os \in Arguments, i \in 0 .. Len(items) :
       /\ Len(items) + Len(os) <= MaxItems
       /\ InsertObjects(i, os)
       /\ UNCHANGED notes
  \/ \E os \in Arguments, i \in 0 .. Len(items) :
       /\ ReplaceInRange(i, os)
       /\ onlyHere' = (undefined' /\ \E o \in ToSet(os) : OnlyInArray(o))
       /\ UNCHANGED onItself
  \/ \E i \in 0 .. Len(items), n \in 1 .. MaxItems :
       RemoveInRange(i, n) /\ UNCHANGED notes
  \/ \E o \in Alive :
       /\ StartRemove(o)
       /\ onlyHere' = OnlyInArray(o)
       /\ UNCHANGED onItself
  \/ /\ RemoveNext
     /\ onlyHere' = (onlyHere /\ (undefined' \/ removing' # NoLoop))
     /\ UNCHANGED onItself
  \/ /\ 2 * Len(items) <= MaxItems
     /\ AddItself
     /\ onItself' = undefined'
     /\ UNCHANGED onlyHere
  \/ \E n \in 1 .. MaxGrow : ArrayGrow(n) /\ UNCHANGED notes
  \/ (AdjustSize \/ ArrayFreeInside) /\ UNCHANGED notes

(* One thread: no call comes between the turns of another's loop.          *)
Next ==
  /\ ~undefined
  /\ \/ /\ removing = NoLoop
        /\ DictStep
        /\ UNCHANGED <<arrayVars, mine, undefined, notes>>
     \/ /\ Quiet
        /\ ArrayStep
        /\ UNCHANGED <<dictVars, mine>>
     \/ /\ Quiet /\ removing = NoLoop
        /\ \E o \in Object : Take(o) \/ Drop(o)

Spec == Init /\ [][Next]_vars

-----------------------------------------------------------------------------
(* An object is freed when the program and both containers have given up   *)
(* their last reference to it and not before: what a container holds is    *)
(* alive, and what nobody holds is not leaked.  The zone of the array is   *)
(* never shorter than its contents.                                        *)
(* Freed memory is used only when the program passed the array an object   *)
(* that nothing but the array had a reference to (replaced by itself it is *)
(* freed and then retained; removed by CArrayRemoveObject it is freed and  *)
(* then compared), or added the array to itself.                           *)
Counted ==
  /\ ~undefined =>
       \A o \in Object :
         refs[o] = (IF o \in mine THEN 1 ELSE 0)
                   + Times(o, items) + Cardinality(KeysOf(o))
  /\ Len(items) <= size
  /\ undefined => onlyHere \/ onItself
=============================================================================
