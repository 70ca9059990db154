------------------------------ MODULE Objects ------------------------------
(***************************************************************************)
(* The reference counts of MSCore's objects (MSCObject.c).  refs[o] is one *)
(* more than the field refCount: a release that makes it 0 frees o.  What  *)
(* is done with a freed object is undefined, and remembered as such.       *)
(***************************************************************************)
EXTENDS Naturals, Sequences, SequencesExt, FiniteSets

CONSTANT Object

VARIABLES
  refs,        \* the references to an object; 0: it is freed
  undefined    \* a freed object, or freed memory, has been used

Alive == {o \in Object : refs[o] > 0}

(* How often o occurs in the sequence os. *)
Times(o, os) == Cardinality({i \in DOMAIN os : os[i] = o})

(* _CRetain of each of os, and _CRelease of each of os. *)
Retained(r, os) == [o \in Object |-> r[o] + Times(o, os)]
Released(r, os) ==
  [o \in Object |-> IF Times(o, os) >= r[o] THEN 0 ELSE r[o] - Times(o, os)]

(* A retain of a freed object writes into memory that was given back. *)
RetainsFreed(r, os) == \E i \in DOMAIN os : r[os[i]] = 0
=============================================================================
