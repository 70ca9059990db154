------------------------------- MODULE Array -------------------------------
(***************************************************************************)
(* CArray (MSCArray.c) on CGrow (MSCGrow.c): a sequence in a zone that     *)
(* grows, whose objects it retains.  The arguments of an operation are     *)
(* objects the program holds or borrows from a container: it may have no   *)
(* reference of its own.  CArrayRemoveObject is a loop, whose turns are    *)
(* steps.  An index out of range and nil are fatal errors: they end the    *)
(* program, and are not made here.                                         *)
(***************************************************************************)
EXTENDS Objects, Capacity

VARIABLES
  items,       \* zone[0 .. count-1]
  size,        \* the elements the zone has room for
  removing     \* CArrayRemoveObject: [object, i]; NoLoop when it does not run

arrayVars == <<items, size, removing>>

NoLoop == <<>>

Slice(i, n) == SubSeq(items, i + 1, i + n)

(* CGrowGrow: enough for n more. *)
Room(n) ==
  IF Len(items) + n > size THEN MSCapacityForCount(Len(items) + n) ELSE size

ArrayInit ==
  /\ items = <<>>
  /\ size = 0
  /\ removing = NoLoop

(* CArrayGrow *)
ArrayGrow(n) ==
  /\ removing = NoLoop
  /\ size' = Room(n)
  /\ UNCHANGED <<items, removing, refs, undefined>>

(* CArrayAdjustSize *)
AdjustSize ==
  /\ removing = NoLoop
  /\ size' = Len(items)
  /\ UNCHANGED <<items, removing, refs, undefined>>

(* CArrayAddObject, CArrayAddObjects, CArrayInsertObjectsInRange: _insert  *)
(* makes room (CGrowMutExpand) and fills it.                               *)
InsertObjects(i, os) ==
  /\ removing = NoLoop
  /\ i \in 0 .. Len(items)
  /\ items' = SubSeq(items, 1, i) \o os \o SubSeq(items, i + 1, Len(items))
  /\ size' = Room(Len(os))
  /\ refs' = Retained(refs, os)
  /\ undefined' = (undefined \/ RetainsFreed(refs, os))
  /\ UNCHANGED removing

(* CArrayAddArray of an array to itself: it reads the zone where it was    *)
(* before _insert made room, which frees it when it has to move.           *)
AddItself ==
  /\ removing = NoLoop
  /\ items # <<>>
  /\ items' = items \o items
  /\ size' = Room(Len(items))
  /\ refs' = Retained(refs, items)
  /\ \/ undefined' = undefined
     \/ size' # size /\ undefined' = TRUE
  /\ UNCHANGED removing

(* CArrayRemoveObjectsInRange: an end behind the last object is cut. *)
\* Faulty form: the objects that leave the array are not released.
RemoveInRangeKept(i, n) ==
  LET m == IF i + n > Len(items) THEN Len(items) - i ELSE n IN
  /\ removing = NoLoop
  /\ i < Len(items) /\ n > 0
  /\ items' = SubSeq(items, 1, i) \o SubSeq(items, i + m + 1, Len(items))
  /\ UNCHANGED <<size, removing, refs, undefined>>

RemoveInRange(i, n) ==
  LET m == IF i + n > Len(items) THEN Len(items) - i ELSE n IN
  /\ removing = NoLoop
  /\ i < Len(items) /\ n > 0
  /\ refs' = Released(refs, Slice(i, m))
  /\ items' = SubSeq(items, 1, i) \o SubSeq(items, i + m + 1, Len(items))
  /\ UNCHANGED <<size, removing, undefined>>

(* CArrayReplaceObjectsInRange: releases what was there (_erase), then     *)
(* fills the places, which retains the new objects (_fill).                *)
ReplaceInRange(i, os) ==
  LET erased == Released(refs, Slice(i, Len(os))) IN
  /\ removing = NoLoop
  /\ i + Len(os) <= Len(items)
  /\ items' = [x \in DOMAIN items |->
                 IF x \in i + 1 .. i + Len(os) THEN os[x - i] ELSE items[x]]
  /\ refs' = Retained(erased, os)
  /\ undefined' = (undefined \/ RetainsFreed(erased, os))
  /\ UNCHANGED <<size, removing>>

(* CArrayRemoveObject: from the last object to the first ... *)
StartRemove(o) ==
  /\ removing = NoLoop
  /\ items # <<>>
  /\ removing' = [object |-> o, i |-> Len(items)]
  /\ UNCHANGED <<items, size, refs, undefined>>

(* ... each that equals object goes, through CArrayRemoveObjectAtIndex.    *)
(* Two objects that are not the same are compared by their isEqual, which  *)
(* reads them.                                                             *)
RemoveNext ==
  LET o == removing.object
      i == removing.i - 1
      same == items[i + 1] = o
  IN
  /\ removing # NoLoop
  /\ removing' = IF i = 0 THEN NoLoop ELSE [removing EXCEPT !.i = i]
  /\ IF same
     THEN /\ items' = SubSeq(items, 1, i) \o SubSeq(items, i + 2, Len(items))
          /\ refs' = Released(refs, <<o>>)
          /\ UNCHANGED undefined
     ELSE /\ undefined' = (undefined \/ refs[o] = 0)
          /\ UNCHANGED <<items, refs>>
  /\ UNCHANGED size

(* CArrayFreeInside: releases all and frees the zone. *)
ArrayFreeInside ==
  /\ removing = NoLoop
  /\ refs' = Released(refs, items)
  /\ items' = <<>>
  /\ size' = 0
  /\ UNCHANGED <<removing, undefined>>
=============================================================================
