---------------------------- MODULE PromiseState ----------------------------
(***************************************************************************)
(* The states of a promise, MSPromiseState (MSNode_src/MSPromise.h).       *)
(***************************************************************************)
CONSTANT NULL    \* nil

Pending   == "Pending"
Fulfilled == "Fulfilled"
Rejected  == "Rejected"
Outcomes  == {Fulfilled, Rejected}
=============================================================================
