---------------------------- MODULE PromiseUnion ----------------------------
(***************************************************************************)
(* _MSPromiseUnion (MSNode_src/MSPromise.m): the promise made of others by *)
(* promiseWithFirstResultOf: and promiseWithAllResolvedOf:waitForAll:.     *)
(*                                                                         *)
(* The union counts the promises it waits for in _barrier while it is      *)
(* built, promise by promise; one that is settled already answers inside   *)
(* the construction.  Later, a promise that settles runs its other         *)
(* handlers before the union's, and these may settle promises in turn: the *)
(* answers reach the union in any order.  The caller may also settle the   *)
(* union itself.  Results are abstracted to the index they come from.      *)
(***************************************************************************)
EXTENDS Naturals, Sequences, FiniteSets, SequencesExt, PromiseState

CONSTANTS
  Sources,     \* the promises the array is made of; one may occur twice
  MaxLen,      \* the longest array
  Array,       \* stands for the array of results
  User         \* stands for a value given by the user of the union

ASSUME UnionAssumption ==
  /\ MaxLen \in Nat
  /\ NULL \notin 1..MaxLen /\ Array \notin 1..MaxLen /\ User \notin 1..MaxLen
  /\ NULL # Array /\ Array # User /\ User # NULL

First           == "First"
AllInstant      == "AllInstant"
AllWait         == "AllWait"
AllWaitRejected == "AllWaitRejected"

VARIABLES
  promises,    \* the array given to initWithPromises:type:
  asked,       \* the type it was given
  source,      \* source[s]: the state of promise s
  added,       \* how many promises of the array have been added
  kind,        \* _type
  barrier,     \* _barrier
  unionState,  \* _state of the union
  res,         \* _res of the union: Array, User, NULL or the index it came from
  array,       \* the contents of the array of results
  early,       \* history: the promises settled before the construction
  answers      \* history: the indices that have answered, in order

input == <<promises, asked, early>>
unionVars == <<promises, asked, source, added, kind, barrier, unionState, res, array, early, answers>>

Indices == 1..Len(promises)
Answered == ToSet(answers)
Outcome(i) == source[promises[i]]

UnionTypeOK ==
  /\ promises \in BoundedSeq(Sources, MaxLen)
  /\ asked \in {First, AllInstant, AllWait}
  /\ kind = asked \/ (asked = AllWait /\ kind = AllWaitRejected)
  /\ source \in [Sources -> Outcomes \cup {Pending}]
  /\ added \in 0..Len(promises)
  /\ barrier \in 0..added
  /\ unionState \in Outcomes \cup {Pending}
  /\ res \in Indices \cup {Array, User, NULL}
  /\ Answered \cup ToSet(array) \subseteq 1..added

UnionInit ==
  /\ promises \in BoundedSeq(Sources, MaxLen)
  /\ asked \in {First, AllInstant, AllWait}
  /\ source \in [Sources -> Outcomes \cup {Pending}]
  /\ added = 0
  /\ kind = asked
  /\ barrier = 0
  /\ unionState = Pending
  /\ res = IF asked = First THEN NULL ELSE Array
  /\ array = <<>>
  /\ early = {s \in Sources : source[s] # Pending}
  /\ answers = <<>>

-----------------------------------------------------------------------------
SettleAs(s, value) == unionState' = s /\ res' = value

(* promiseFullfilled: with the barrier at b. *)
PromiseFulfilled(i, b) ==
  /\ \/ /\ kind = First
        /\ SettleAs(Fulfilled, i)
        /\ barrier' = b
        /\ UNCHANGED array
     \/ /\ kind # First
        /\ array' = IF kind = AllWaitRejected THEN array ELSE Append(array, i)
        /\ barrier' = b - 1
        /\ IF barrier' = 0
           THEN SettleAs(IF kind = AllWaitRejected THEN Rejected ELSE Fulfilled, res)
           ELSE UNCHANGED <<unionState, res>>
  /\ UNCHANGED kind

\* Faulty form: a rejection does not count as an answer.
PromiseRejectedUncounted(i, b) ==
  /\ IF kind \in {First, AllInstant} THEN SettleAs(Rejected, i) ELSE res' = i /\ UNCHANGED unionState
  /\ kind' = IF kind = AllWait THEN AllWaitRejected ELSE kind
  /\ barrier' = b
  /\ UNCHANGED array

(* promiseRejected: with the barrier at b.  A union that waits for all     *)
(* keeps the first reason and goes on counting.                            *)
PromiseRejected(i, b) ==
  /\ \/ /\ kind \in {First, AllInstant}
        /\ SettleAs(Rejected, i)
        /\ barrier' = b
        /\ UNCHANGED kind
     \/ /\ kind \in {AllWait, AllWaitRejected}
        /\ kind' = AllWaitRejected
        /\ res' = IF kind = AllWait THEN i ELSE res
        /\ barrier' = b - 1
        /\ unionState' = IF barrier' = 0 THEN Rejected ELSE unionState
  /\ UNCHANGED array

\* Faulty form: the answers that come after the union has settled count too.
AnswerAlways(i, b) ==
  /\ answers' = Append(answers, i)
  /\ IF Outcome(i) = Fulfilled THEN PromiseFulfilled(i, b) ELSE PromiseRejected(i, b)

(* _unionSuccessHandler, _unionRejectHandler: promise i answers. *)
Answer(i, b) ==
  /\ answers' = Append(answers, i)
  /\ \/ unionState = Pending /\ Outcome(i) = Fulfilled /\ PromiseFulfilled(i, b)
     \/ unionState = Pending /\ Outcome(i) = Rejected /\ PromiseRejected(i, b)
     \/ unionState # Pending /\ barrier' = b /\ UNCHANGED <<kind, unionState, res, array>>

\* Faulty form: the barrier does not count a promise that is settled already.
AddUncounted ==
  /\ added < Len(promises)
  /\ added' = added + 1
  /\ IF Outcome(added + 1) = Pending
     THEN barrier' = barrier + 1 /\ UNCHANGED <<kind, unionState, res, array, answers>>
     ELSE Answer(added + 1, barrier)
  /\ UNCHANGED <<input, source>>

(* addPromise:, called for each promise by the constructor, which runs to  *)
(* its end before any other code does.                                     *)
Add ==
  /\ added < Len(promises)
  /\ added' = added + 1
  /\ IF Outcome(added + 1) = Pending
     THEN barrier' = barrier + 1 /\ UNCHANGED <<kind, unionState, res, array, answers>>
     ELSE Answer(added + 1, barrier + 1)
  /\ UNCHANGED <<input, source>>

Built == added = Len(promises)

(* A promise settles, with the handlers the union put on it still to run. *)
SettleSource(s) ==
  /\ Built
  /\ source[s] = Pending
  /\ \E o \in Outcomes : source' = [source EXCEPT ![s] = o]
  /\ UNCHANGED <<input, added, kind, barrier, unionState, res, array, answers>>

(* The handler of entry i runs; a promise runs its handlers in order. *)
Deliver(i) ==
  /\ Built
  /\ i \in Indices \ Answered /\ Outcome(i) # Pending
  /\ \A j \in 1..(i - 1) : promises[j] = promises[i] => j \in Answered
  /\ Answer(i, barrier)
  /\ UNCHANGED <<input, source, added>>

(* The user of the union resolves or rejects it. *)
SettleUnion ==
  /\ Built
  /\ unionState = Pending
  /\ \E o \in Outcomes : SettleAs(o, User)
  /\ UNCHANGED <<input, source, added, kind, barrier, array, answers>>

UnionNext ==
  \/ Add
  \/ \E s \in Sources : SettleSource(s)
  \/ \E i \in 1..MaxLen : Deliver(i)
  \/ SettleUnion

(* The constructor runs to its end, and so does a firing promise. *)
UnionFairness == WF_unionVars(Add) /\ \A i \in 1..MaxLen : WF_unionVars(Deliver(i))

UnionSpec == UnionInit /\ [][UnionNext]_unionVars /\ UnionFairness

-----------------------------------------------------------------------------
(* While a union that counts is pending, _barrier is the number of answers *)
(* it still needs, in the midst of the construction too.                   *)
BarrierCounts ==
  unionState = Pending /\ asked # First => barrier = Cardinality((1..added) \ Answered)

(* The union closes over the first promise alone when that one is settled  *)
(* before the construction: the barrier is back at 0 before the second is  *)
(* added.  Otherwise a union that counts stays open until it is built.     *)
ClosedWhileBuilt == promises # <<>> /\ promises[1] \in early
PrematureOnlyByFirst ==
  asked # First /\ added > 0 =>
    /\ ClosedWhileBuilt => unionState # Pending /\ res \in {Array, 1}
    /\ ~ClosedWhileBuilt /\ ~Built /\ unionState # Pending => asked = AllInstant /\ unionState = Rejected

WellCounted == UnionTypeOK /\ BarrierCounts /\ PrematureOnlyByFirst

(* promiseWithAllResolvedOf: fulfilled by its promises gives the result of *)
(* each, in the order of the answers, unless it was closed by the first.   *)
ResolvedOfAll ==
  unionState = Fulfilled /\ res = Array /\ ~ClosedWhileBuilt =>
    /\ ToSet(array) = Indices
    /\ \A i \in Indices : Outcome(i) = Fulfilled
    /\ array = answers

(* waitForAll: a union that was not closed by the first promise, nor by    *)
(* its user, is rejected only when all have answered, with the reason of   *)
(* the first that was rejected.                                            *)
FirstReason ==
  \E n \in DOMAIN answers :
    /\ res = answers[n] /\ Outcome(res) = Rejected
    /\ \A m \in 1 .. n - 1 : Outcome(answers[m]) # Rejected
WaitsForAll ==
  asked = AllWait /\ unionState = Rejected /\ res # User /\ ~ClosedWhileBuilt =>
    Answered = Indices /\ FirstReason

CompleteResult == ResolvedOfAll /\ WaitsForAll

(* Once settled, the union keeps its state and the value it gave to its    *)
(* handlers, whatever its promises answer later.                           *)
ValueStable ==
  [][unionState # Pending => unionState' = unionState /\ res' = res /\ array' = array]_unionVars

(* When every promise of a nonempty array settles, so does the union.      *)
UnionSettles ==
  promises # <<>> /\ (\A i \in Indices : Outcome(i) # Pending) ~> unionState # Pending
=============================================================================
