-------------------------- MODULE Promises_proofs --------------------------
(***************************************************************************)
(* Proofs about promises and what is built on them.                        *)
(*                                                                         *)
(* Promise, for any sets of promises and handlers and a stack that holds   *)
(* an activation of each handler: a queued handler is in one list until it *)
(* is met, it is met at most once and in the order it was added in, unless *)
(* a promise that fires is fired again, whatever handlers do in between.   *)
(*                                                                         *)
(* AsyncTask, for any set of tasks and any number of threads: a task stays *)
(* allocated while libuv has its request, it runs and is completed at most *)
(* once, and its promise settles on the loop.                              *)
(*                                                                         *)
(* PromiseUnion, for any promises and arrays of any length: the barrier    *)
(* counts the answers that are missing, also while the union is built, a   *)
(* settled union keeps its value, and one that waits for all has its value *)
(* from all.                                                               *)
(***************************************************************************)
EXTENDS Promise, AsyncTask, PromiseUnion, Lists_proofs, FiniteSetTheorems

(* The invariant, in parts. *)
TaskTyped ==
  /\ phase \in [Tasks -> Phases]
  /\ queue \in Seq(Tasks) /\ IsInjective(queue)
  /\ ToSet(queue) = {t \in Tasks : phase[t] = "Queued"}
  /\ promise \in [Tasks -> PromiseValues]
  /\ ret \in [Tasks -> PromiseValues]
  /\ held \in [Tasks -> BOOLEAN]
  /\ undefined \in BOOLEAN
  /\ settledOn \in [Tasks -> {NULL, "loop"}]

(* _after_work rejects the promise when _ret is pending, so that it never  *)
(* leaves a handler on _ret, which another thread might run.               *)
NeverForwards == forwarding = [t \in Tasks |-> FALSE]

TaskCounted == refs \in [Tasks -> Nat] /\ RefsCounted

(* Only a task that was never started can be started. *)
StartedOnce == \A t \in Tasks : promise[t] = NULL <=> phase[t] = "Idle"

(* What has happened to a task is told by its phase: no way leads back. *)
TaskPassed ==
  /\ runs \in [Tasks -> Nat] /\ completed \in [Tasks -> Nat]
  /\ \A t \in Tasks :
       /\ runs[t] <= 1
       /\ phase[t] \in {"Idle", "Queued", "Cancelled"} => runs[t] = 0
       /\ completed[t] = IF phase[t] = "Done" THEN 1 ELSE 0

(* A task that runs or has run was given a promise of its own. *)
RetGiven == \A t \in Tasks : phase[t] \in {"Working", "Worked"} => ret[t] # NULL

TaskInv == TaskTyped /\ NeverForwards /\ TaskCounted /\ StartedOnce /\ TaskPassed /\ RetGiven

-----------------------------------------------------------------------------
(* What start, _work and uv_cancel do to the queue. *)
LEMMA Enqueued ==
  ASSUME TaskTyped, NEW t \in Tasks, phase[t] = "Idle"
  PROVE  /\ Append(queue, t) \in Seq(Tasks) /\ IsInjective(Append(queue, t))
         /\ ToSet(Append(queue, t)) = ToSet(queue) \cup {t}
<1>1. t \notin ToSet(queue)
  BY DEF TaskTyped
<1> QED BY <1>1, AppendElements DEF TaskTyped

LEMMA Dequeued ==
  ASSUME TaskTyped, queue # <<>>
  PROVE  /\ Head(queue) \in Tasks /\ phase[Head(queue)] = "Queued"
         /\ Tail(queue) \in Seq(Tasks) /\ IsInjective(Tail(queue))
         /\ ToSet(Tail(queue)) = ToSet(queue) \ {Head(queue)}
<1>1. queue \in Seq(Tasks) /\ IsInjective(queue)
  BY DEF TaskTyped
<1>2. Head(queue) \in ToSet(queue)
  BY <1>1, TailElements
<1> QED BY <1>1, <1>2, TailElements DEF TaskTyped

LEMMA Unqueued ==
  ASSUME TaskTyped, NEW t \in Tasks
  PROVE  /\ Without(queue, t) \in Seq(Tasks) /\ IsInjective(Without(queue, t))
         /\ ToSet(Without(queue, t)) = ToSet(queue) \ {t}
<1>1. queue \in Seq(Tasks) /\ IsInjective(queue)
  BY DEF TaskTyped
<1> QED BY <1>1, WithoutElements

(* Settling on the loop leaves a settled or pending promise. *)
LEMMA SettledByLoop ==
  ASSUME TaskInv, NEW t \in Tasks, NEW o \in Outcomes, SettleOnLoop(t, o)
  PROVE  /\ promise' \in [Tasks -> PromiseValues]
         /\ settledOn' \in [Tasks -> {NULL, "loop"}]
         /\ \A u \in Tasks : promise'[u] = NULL <=> promise[u] = NULL
  BY TaskAssumption
  DEF TaskInv, TaskTyped, SettleOnLoop, PromiseValues, Outcomes, Pending, Fulfilled, Rejected

-----------------------------------------------------------------------------
LEMMA TaskInitInv == TaskInit => TaskInv
<1> SUFFICES ASSUME TaskInit PROVE TaskInv
  OBVIOUS
<1>1. TaskTyped
  <2>1. queue \in Seq(Tasks) /\ ToSet(queue) = {} /\ IsInjective(queue)
    BY DEF TaskInit, ToSet, IsInjective
  <2> QED BY <2>1 DEF TaskInit, TaskTyped, Phases, PromiseValues
<1>2. NeverForwards /\ TaskCounted /\ StartedOnce /\ TaskPassed /\ RetGiven
  BY DEF TaskInit, NeverForwards, TaskCounted, RefsCounted, StartedOnce, TaskPassed, RetGiven
<1> QED BY <1>1, <1>2 DEF TaskInv

LEMMA StartKeeps == ASSUME TaskInv, NEW t \in Tasks, Start(t) PROVE TaskInv'
<1>1. phase[t] = "Idle"
  BY DEF TaskInv, StartedOnce, Start
<1>2. /\ queue' \in Seq(Tasks) /\ IsInjective(queue')
      /\ ToSet(queue') = ToSet(queue) \cup {t}
  BY <1>1, Enqueued DEF TaskInv, Start
<1>3. TaskTyped'
  <2>1. ToSet(queue)' = {u \in Tasks : phase'[u] = "Queued"}
    BY <1>2 DEF TaskInv, TaskTyped, Start
  <2> QED BY <1>2, <2>1 DEF TaskInv, TaskTyped, Start, taskHistory, Phases, PromiseValues
<1>4. NeverForwards' /\ TaskCounted' /\ TaskPassed' /\ RetGiven'
  BY <1>1 DEF TaskInv, TaskTyped, NeverForwards, TaskCounted, RefsCounted, TaskPassed, RetGiven, Start, taskHistory
<1>5. StartedOnce'
  BY TaskAssumption DEF TaskInv, TaskTyped, StartedOnce, Start, Pending
<1> QED BY <1>3, <1>4, <1>5 DEF TaskInv

LEMMA AbortKeeps == ASSUME TaskInv, NEW t \in Tasks, Abort(t) PROVE TaskInv'
<1>1. CASE UNCHANGED <<phase, queue>> /\ undefined' = TRUE
  BY <1>1 DEF TaskInv, TaskTyped, NeverForwards, TaskCounted, RefsCounted, StartedOnce, TaskPassed, RetGiven, Abort, taskHistory
<1>2. CASE phase[t] = "Queued" /\ phase' = [phase EXCEPT ![t] = "Cancelled"]
           /\ queue' = Without(queue, t) /\ UNCHANGED undefined
  <2>1. /\ queue' \in Seq(Tasks) /\ IsInjective(queue')
        /\ ToSet(queue') = ToSet(queue) \ {t}
    BY <1>2, Unqueued DEF TaskInv
  <2>2. TaskTyped'
    <3>1. ToSet(queue)' = {u \in Tasks : phase'[u] = "Queued"}
      BY <1>2, <2>1 DEF TaskInv, TaskTyped
    <3> QED BY <1>2, <2>1, <3>1 DEF TaskInv, TaskTyped, Abort, taskHistory, Phases
  <2>3. NeverForwards' /\ TaskCounted' /\ StartedOnce' /\ TaskPassed' /\ RetGiven'
    BY <1>2 DEF TaskInv, TaskTyped, NeverForwards, TaskCounted, RefsCounted, StartedOnce, TaskPassed, RetGiven, Abort, taskHistory
  <2> QED BY <2>2, <2>3 DEF TaskInv
<1> QED BY <1>1, <1>2 DEF Abort

LEMMA LetGoKeeps == ASSUME TaskInv, NEW t \in Tasks, LetGo(t) PROVE TaskInv'
<1>1. TaskTyped' /\ NeverForwards' /\ StartedOnce' /\ TaskPassed' /\ RetGiven'
  BY DEF TaskInv, TaskTyped, NeverForwards, StartedOnce, TaskPassed, RetGiven, LetGo, taskHistory
<1>2. TaskCounted'
  BY DEF TaskInv, TaskTyped, TaskCounted, RefsCounted, LetGo, UserHas
<1> QED BY <1>1, <1>2 DEF TaskInv

LEMMA UserSettlesKeeps == ASSUME TaskInv, NEW t \in Tasks, UserSettles(t) PROVE TaskInv'
<1>1. /\ promise' \in [Tasks -> PromiseValues]
      /\ settledOn' \in [Tasks -> {NULL, "loop"}]
      /\ \A u \in Tasks : promise'[u] = NULL <=> promise[u] = NULL
  BY TaskAssumption
  DEF TaskInv, TaskTyped, UserSettles, PromiseValues, Outcomes, Pending, Fulfilled, Rejected
<1> QED BY <1>1
  DEF TaskInv, TaskTyped, NeverForwards, TaskCounted, RefsCounted, StartedOnce, TaskPassed, RetGiven, UserSettles

LEMMA WorkKeeps == ASSUME TaskInv, Work PROVE TaskInv'
<1> DEFINE t == Head(queue)
<1>1. /\ t \in Tasks /\ phase[t] = "Queued"
      /\ queue' \in Seq(Tasks) /\ IsInjective(queue')
      /\ ToSet(queue') = ToSet(queue) \ {t}
  BY Dequeued DEF TaskInv, Work
<1>2. /\ phase' = [phase EXCEPT ![t] = "Working"]
      /\ ret' = [ret EXCEPT ![t] = Pending]
      /\ runs' = [runs EXCEPT ![t] = @ + 1]
      /\ UNCHANGED <<promise, forwarding, refs, held, undefined, settledOn, completed>>
  BY DEF Work
<1> HIDE DEF t
<1>3. TaskTyped'
  <2>1. ToSet(queue)' = {u \in Tasks : phase'[u] = "Queued"}
    BY <1>1, <1>2 DEF TaskInv, TaskTyped
  <2> QED BY <1>1, <1>2, <2>1 DEF TaskInv, TaskTyped, Phases, PromiseValues
<1>4. NeverForwards' /\ TaskCounted' /\ StartedOnce' /\ TaskPassed' /\ RetGiven'
  BY <1>1, <1>2, TaskAssumption DEF Pending, TaskInv, TaskTyped, NeverForwards, TaskCounted, RefsCounted, StartedOnce, TaskPassed, RetGiven
<1> QED BY <1>3, <1>4 DEF TaskInv

LEMMA ReturnKeeps == ASSUME TaskInv, NEW t \in Tasks, Return(t) PROVE TaskInv'
<1>1. TaskTyped'
  BY DEF TaskInv, TaskTyped, Return, taskHistory, Phases
<1>2. NeverForwards' /\ TaskCounted' /\ StartedOnce' /\ TaskPassed' /\ RetGiven'
  BY DEF TaskInv, TaskTyped, NeverForwards, TaskCounted, RefsCounted, StartedOnce, TaskPassed, RetGiven, Return, taskHistory
<1> QED BY <1>1, <1>2 DEF TaskInv

LEMMA TaskSettlesKeeps == ASSUME TaskInv, NEW t \in Tasks, TaskSettles(t) PROVE TaskInv'
<1>1. /\ ret' \in [Tasks -> PromiseValues] /\ UNCHANGED <<promise, settledOn>>
      /\ \A u \in Tasks : ret'[u] = NULL => ret[u] = NULL
  BY TaskAssumption DEF Outcomes, Pending, Fulfilled, Rejected, TaskInv, TaskTyped, NeverForwards, TaskSettles, PromiseValues
<1> QED BY <1>1
  DEF TaskInv, TaskTyped, NeverForwards, TaskCounted, RefsCounted, StartedOnce, TaskPassed, RetGiven, TaskSettles

LEMMA AfterWorkKeeps == ASSUME TaskInv, NEW t \in Tasks, AfterWork(t) PROVE TaskInv'
<1>1. /\ promise' \in [Tasks -> PromiseValues]
      /\ settledOn' \in [Tasks -> {NULL, "loop"}]
      /\ \A u \in Tasks : promise'[u] = NULL <=> promise[u] = NULL
      /\ NeverForwards'
  <2>1. CASE phase[t] = "Worked" /\ SettleWorked(t)
    <3>1. CASE ret[t] = Pending
      BY <2>1, <3>1, SettledByLoop DEF SettleWorked, Outcomes, TaskInv, NeverForwards
    <3>2. CASE ret[t] = NULL
      BY <2>1, <3>2 DEF TaskInv, RetGiven
    <3>3. CASE ret[t] \in Outcomes
      BY <2>1, <3>3, SettledByLoop DEF SettleWorked, ResolveWithRet, TaskInv, NeverForwards,
         Outcomes, Pending, Fulfilled, Rejected
    <3> QED BY <3>1, <3>2, <3>3 DEF TaskInv, TaskTyped, PromiseValues
  <2>2. CASE SettleOnLoop(t, Rejected) /\ UNCHANGED forwarding
    BY <2>2, SettledByLoop DEF Outcomes, TaskInv, NeverForwards
  <2> QED BY <2>1, <2>2 DEF AfterWork
<1>2. phase[t] \in {"Worked", "Cancelled"}
  BY DEF AfterWork
<1>3. TaskTyped'
  BY <1>1, <1>2 DEF TaskInv, TaskTyped, AfterWork, Phases
<1>4. TaskCounted' /\ StartedOnce' /\ TaskPassed' /\ RetGiven'
  BY <1>1, <1>2 DEF TaskInv, TaskTyped, TaskCounted, RefsCounted, StartedOnce, TaskPassed, RetGiven, AfterWork
<1> QED BY <1>1, <1>3, <1>4 DEF TaskInv

LEMMA TaskStepInv == TaskInv /\ [TaskNext]_taskVars => TaskInv'
<1> SUFFICES ASSUME TaskInv, [TaskNext]_taskVars PROVE TaskInv'
  OBVIOUS
<1>1. CASE Work
  BY <1>1, WorkKeeps
<1>2. ASSUME NEW t \in Tasks,
             Start(t) \/ Abort(t) \/ LetGo(t) \/ UserSettles(t)
             \/ Return(t) \/ TaskSettles(t) \/ AfterWork(t)
      PROVE  TaskInv'
  BY <1>2, StartKeeps, AbortKeeps, LetGoKeeps, UserSettlesKeeps, ReturnKeeps,
     TaskSettlesKeeps, AfterWorkKeeps
<1>3. CASE UNCHANGED taskVars
  BY <1>3 DEF taskVars, taskHistory, TaskInv, TaskTyped, NeverForwards, TaskCounted, RefsCounted, StartedOnce, TaskPassed, RetGiven
<1> QED BY <1>1, <1>2, <1>3 DEF TaskNext

LEMMA TaskInvariant == TaskSpec => []TaskInv
<1> QED BY TaskInitInv, TaskStepInv, PTL DEF TaskSpec

-----------------------------------------------------------------------------
(* The references to a task are those of its user and of the request that  *)
(* libuv has: uv_work_t lives inside the task, which is never deallocated  *)
(* before _after_work gave its reference back.                             *)
THEOREM TaskOutlivesRequest == TaskSpec => []RefsConsistent
<1>1. ASSUME TaskInv PROVE RefsConsistent
  <2>1. refs \in [Tasks -> 0..2]
    <3>1. \A t \in Tasks : refs[t] \in 0..2
      BY <1>1 DEF TaskInv, TaskCounted, RefsCounted
    <3> QED BY <1>1, <3>1 DEF TaskInv, TaskCounted
  <2>2. forwarding \in [Tasks -> BOOLEAN]
    BY <1>1 DEF TaskInv, NeverForwards
  <2> QED BY <1>1, <2>1, <2>2 DEF TaskInv, TaskTyped, TaskCounted, RefsConsistent, TaskTypeOK
<1> QED BY <1>1, TaskInvariant, PTL

(* _work and _after_work run at most once for a task, never _work after a  *)
(* cancel that succeeded, and the promise of start settles on the loop.    *)
THEOREM OneRun == TaskSpec => []RunsOnce
<1>1. ASSUME TaskInv PROVE RunsOnce
  <2>1. \A t \in Tasks : runs[t] <= 1 /\ (phase[t] = "Cancelled" => runs[t] = 0)
    BY <1>1 DEF TaskInv, TaskPassed
  <2>2. \A t \in Tasks : completed[t] <= 1
    BY <1>1 DEF TaskInv, TaskPassed
  <2>3. \A t \in Tasks : settledOn[t] # "task"
    BY <1>1, TaskAssumption DEF TaskInv, TaskTyped
  <2> QED BY <2>1, <2>2, <2>3 DEF RunsOnce
<1> QED BY <1>1, TaskInvariant, PTL

-----------------------------------------------------------------------------
(* Unions. *)

Length == Len(promises)
UnionStates == Outcomes \cup {Pending}
UnionValues == Indices \cup {Array, User, NULL}
Kinds == {First, AllInstant, AllWait, AllWaitRejected}
Missing == (1..added) \ Answered

(* The invariant, in parts. *)
TypedInput ==
  /\ promises \in BoundedSeq(Sources, MaxLen)
  /\ asked \in {First, AllInstant, AllWait}
  /\ source \in [Sources -> UnionStates]

TypedUnion ==
  /\ kind = asked \/ (asked = AllWait /\ kind = AllWaitRejected)
  /\ added \in Nat /\ added <= Length
  /\ barrier \in Nat /\ barrier <= added
  /\ unionState \in UnionStates /\ res \in UnionValues
  /\ answers \in Seq(Nat) /\ array \in Seq(Nat)
  /\ Answered \subseteq 1..added /\ ToSet(array) \subseteq 1..added

(* Nothing has happened before the first promise is added. *)
Unbuilt ==
  added = 0 /\ ~Built =>
    /\ unionState = Pending /\ barrier = 0 /\ kind = asked
    /\ asked # First => res = Array

(* No promise settles while the union is built: those that answer in the   *)
(* construction are those settled before, and only they.                   *)
Frozen ==
  /\ early \subseteq {s \in Sources : source[s] # Pending}
  /\ ~Built => early = {s \in Sources : source[s] # Pending}
FirstWaits == ~Built /\ ~ClosedWhileBuilt => 1 \notin Answered

UnionInv ==
  /\ TypedInput /\ TypedUnion /\ Unbuilt /\ Frozen /\ FirstWaits
  /\ BarrierCounts /\ PrematureOnlyByFirst

-----------------------------------------------------------------------------
LEMMA KindsApart ==
  /\ First # AllInstant /\ First # AllWait /\ First # AllWaitRejected
  /\ AllInstant # AllWait /\ AllInstant # AllWaitRejected /\ AllWait # AllWaitRejected
  /\ Pending # Fulfilled /\ Pending # Rejected /\ Fulfilled # Rejected
  BY DEF First, AllInstant, AllWait, AllWaitRejected, Pending, Fulfilled, Rejected

LEMMA ArrayLength ==
  ASSUME TypedInput
  PROVE  Length \in Nat /\ Length <= MaxLen /\ \A i \in 1..Length : promises[i] \in Sources
<1>1. PICK n \in 0..MaxLen : promises \in [1..n -> Sources]
  BY DEF TypedInput, BoundedSeq, SeqOf
<1>2. n \in Nat /\ n <= MaxLen /\ promises \in Seq(Sources) /\ Len(promises) = n
  BY <1>1, UnionAssumption, SeqDef, LenProperties
<1> QED BY <1>1, <1>2 DEF Length

(* The set of answers that are missing is finite. *)
LEMMA MissingFinite ==
  ASSUME NEW a \in Nat, NEW A
  PROVE  /\ IsFiniteSet((1..a) \ A) /\ Cardinality((1..a) \ A) \in Nat
         /\ Cardinality((1..a) \ A) <= a
         /\ Cardinality((1..a) \ A) = 0 <=> (1..a) \ A = {}
<1>1. IsFiniteSet(1..a) /\ Cardinality(1..a) = a
  BY FS_Interval
<1>2. (1..a) \ A \in SUBSET (1..a)
  OBVIOUS
<1>3. IsFiniteSet((1..a) \ A) /\ Cardinality((1..a) \ A) <= Cardinality(1..a)
  BY <1>1, <1>2, FS_Subset
<1> QED BY <1>1, <1>3, FS_CardinalityType, FS_EmptySet

LEMMA MissingAnswers ==
  ASSUME NEW a \in Nat, NEW A, NEW i \in (1..a) \ A
  PROVE  /\ Cardinality((1..a) \ A) >= 1
         /\ Cardinality((1..a) \ (A \cup {i})) = Cardinality((1..a) \ A) - 1
<1>1. (1..a) \ (A \cup {i}) = ((1..a) \ A) \ {i}
  OBVIOUS
<1>2. IsFiniteSet((1..a) \ A) /\ Cardinality((1..a) \ A) \in Nat /\ Cardinality((1..a) \ A) # 0
  BY MissingFinite
<1>3. Cardinality(((1..a) \ A) \ {i}) = Cardinality((1..a) \ A) - 1
  BY <1>2, FS_RemoveElement
<1> QED BY <1>1, <1>2, <1>3

LEMMA MissingGrows ==
  ASSUME NEW a \in Nat, NEW A \in SUBSET (1..a)
  PROVE  Cardinality((1..(a + 1)) \ A) = Cardinality((1..a) \ A) + 1
<1>1. (1..(a + 1)) \ A = ((1..a) \ A) \cup {a + 1}
  OBVIOUS
<1>2. IsFiniteSet((1..a) \ A) /\ a + 1 \notin (1..a) \ A
  BY MissingFinite
<1>3. Cardinality(((1..a) \ A) \cup {a + 1}) = Cardinality((1..a) \ A) + 1
  BY <1>2, FS_AddElement
<1> QED BY <1>1, <1>3

-----------------------------------------------------------------------------
(* What the answer of promise i does, with the barrier at b. *)
LEMMA AnswerTypes ==
  ASSUME TypedInput, TypedUnion, NEW i \in 1..Length, NEW b \in Nat, Answer(i, b),
         Outcome(i) # Pending
  PROVE  /\ answers' \in Seq(Nat) /\ Answered' = Answered \cup {i}
         /\ array' \in Seq(Nat) /\ ToSet(array') \subseteq ToSet(array) \cup {i}
         /\ kind' = asked \/ (asked = AllWait /\ kind' = AllWaitRejected)
         /\ unionState' \in UnionStates /\ res' \in UnionValues
<1>1. i \in Nat
  BY ArrayLength
<1>2. answers' \in Seq(Nat) /\ Answered' = Answered \cup {i}
  BY <1>1, AppendToSet DEF Answer, Answered, TypedUnion
<1>3. CASE unionState = Pending /\ PromiseFulfilled(i, b)
  <2>1. array' \in Seq(Nat) /\ ToSet(array') \subseteq ToSet(array) \cup {i}
    <3>1. array \in Seq(Nat) /\ array' \in {array, Append(array, i)}
      BY <1>3 DEF PromiseFulfilled, TypedUnion
    <3>2. Append(array, i) \in Seq(Nat) /\ ToSet(Append(array, i)) = ToSet(array) \cup {i}
      BY <1>1, <3>1, AppendToSet
    <3> QED BY <3>1, <3>2
  <2> QED BY <1>2, <1>3, <2>1
       DEF PromiseFulfilled, SettleAs, TypedUnion, TypedInput, UnionStates, Outcomes, UnionValues, Indices, Length
<1>4. CASE unionState = Pending /\ PromiseRejected(i, b)
  BY <1>2, <1>4, KindsApart
  DEF PromiseRejected, SettleAs, TypedUnion, TypedInput, UnionStates, Outcomes, UnionValues, Indices, Length
<1>5. CASE unionState # Pending /\ UNCHANGED <<kind, unionState, res, array>>
  BY <1>2, <1>5 DEF TypedUnion
<1> QED BY <1>3, <1>4, <1>5 DEF Answer

(* An answer counts while a union that counts is pending, and the last one *)
(* settles it; only promiseWithAllResolvedOf: settles earlier, rejected.   *)
LEMMA AnswerCounts ==
  ASSUME TypedInput, TypedUnion, NEW i \in 1..Length, NEW b \in Nat, Answer(i, b),
         Outcome(i) # Pending
  PROVE  /\ unionState # Pending \/ asked = First => barrier' = b
         /\ unionState # Pending => UNCHANGED <<kind, unionState, res, array>>
         /\ unionState = Pending /\ asked # First =>
              \/ barrier' = b - 1 /\ (unionState' = Pending <=> b # 1)
              \/ barrier' = b /\ asked = AllInstant /\ unionState' = Rejected
         /\ res' \in {res, i}
<1>1. CASE unionState = Pending /\ PromiseFulfilled(i, b)
  BY <1>1, KindsApart DEF PromiseFulfilled, SettleAs, TypedUnion, TypedInput
<1>2. CASE unionState = Pending /\ PromiseRejected(i, b)
  BY <1>2, KindsApart DEF PromiseRejected, SettleAs, TypedUnion, TypedInput
<1>3. CASE unionState # Pending /\ barrier' = b /\ UNCHANGED <<kind, unionState, res, array>>
  BY <1>3
<1> QED BY <1>1, <1>2, <1>3 DEF Answer

-----------------------------------------------------------------------------
LEMMA UnionInitInv == UnionInit => UnionInv
<1> SUFFICES ASSUME UnionInit PROVE UnionInv
  OBVIOUS
<1>1. TypedInput
  BY DEF UnionInit, TypedInput, UnionStates
<1>2. answers \in Seq(Nat) /\ Answered = {} /\ array \in Seq(Nat) /\ ToSet(array) = {}
  BY DEF UnionInit, Answered, ToSet
<1>3. TypedUnion
  BY <1>1, <1>2, ArrayLength DEF UnionInit, TypedUnion, UnionStates, UnionValues, Outcomes
<1>4. Unbuilt /\ Frozen /\ FirstWaits /\ PrematureOnlyByFirst
  BY <1>2 DEF UnionInit, Unbuilt, Frozen, FirstWaits, PrematureOnlyByFirst
<1>5. BarrierCounts
  <2>1. (1..added) \ Answered = {}
    BY <1>2 DEF UnionInit
  <2> QED BY <2>1, FS_EmptySet DEF UnionInit, BarrierCounts
<1> QED BY <1>1, <1>3, <1>4, <1>5 DEF UnionInv

(* addPromise: of a promise that is still pending. *)
LEMMA AddPendingKeeps ==
  ASSUME UnionInv, Add, Outcome(added + 1) = Pending PROVE UnionInv'
<1>1. /\ added \in Nat /\ Length \in Nat /\ added < Length /\ added' = added + 1
      /\ barrier \in Nat /\ barrier' = barrier + 1 /\ Length' = Length
      /\ UNCHANGED <<promises, asked, early, source, kind, unionState, res, array, answers>>
  BY ArrayLength DEF UnionInv, TypedUnion, Add, Length, input
<1>2. Answered' = Answered /\ Answered \subseteq 1..added
  BY <1>1 DEF Answered, UnionInv, TypedUnion
<1>3. TypedInput'
  BY <1>1 DEF UnionInv, TypedInput, BoundedSeq, SeqOf
<1>4. TypedUnion'
  BY <1>1, <1>2 DEF UnionInv, TypedUnion, UnionValues, Indices
<1>5. Unbuilt' /\ Frozen' /\ FirstWaits'
  BY <1>1, <1>2 DEF UnionInv, Unbuilt, Frozen, FirstWaits, Built, ClosedWhileBuilt, Length
<1>6. BarrierCounts'
  BY <1>1, <1>2, MissingGrows DEF UnionInv, BarrierCounts
<1>7. PrematureOnlyByFirst'
  <2>1. CASE added = 0
    <3>1. ~ClosedWhileBuilt /\ unionState = Pending
      BY <1>1, <2>1 DEF UnionInv, Unbuilt, Frozen, Built, Length, ClosedWhileBuilt, Outcome
    <3> QED BY <1>1, <3>1 DEF PrematureOnlyByFirst, ClosedWhileBuilt
  <2>2. CASE added # 0
    BY <1>1, <2>2 DEF UnionInv, PrematureOnlyByFirst, ClosedWhileBuilt, Built, Length
  <2> QED BY <2>1, <2>2
<1> QED BY <1>3, <1>4, <1>5, <1>6, <1>7 DEF UnionInv

(* addPromise: of a promise that is settled already and answers at once. *)
LEMMA AddSettledKeeps ==
  ASSUME UnionInv, Add, Outcome(added + 1) # Pending PROVE UnionInv'
<1> DEFINE i == added + 1
           b == barrier + 1
<1>1. /\ added \in Nat /\ Length \in Nat /\ added < Length /\ added' = i /\ Length' = Length
      /\ barrier \in Nat /\ barrier <= added /\ i \in 1..Length /\ b \in Nat
      /\ UNCHANGED <<promises, asked, early, source>>
      /\ Answer(i, b)
  BY ArrayLength DEF UnionInv, TypedUnion, Add, Length, input
<1>2. /\ answers' \in Seq(Nat) /\ Answered' = Answered \cup {i}
      /\ array' \in Seq(Nat) /\ ToSet(array') \subseteq ToSet(array) \cup {i}
      /\ kind' = asked \/ (asked = AllWait /\ kind' = AllWaitRejected)
      /\ unionState' \in UnionStates /\ res' \in UnionValues
  BY <1>1, AnswerTypes DEF UnionInv
<1>3. /\ unionState # Pending \/ asked = First => barrier' = b
      /\ unionState # Pending => UNCHANGED <<kind, unionState, res, array>>
      /\ unionState = Pending /\ asked # First =>
           \/ barrier' = b - 1 /\ (unionState' = Pending <=> b # 1)
           \/ barrier' = b /\ asked = AllInstant /\ unionState' = Rejected
      /\ res' \in {res, i}
  BY <1>1, AnswerCounts DEF UnionInv
<1>0. added = 0 => promises # <<>> /\ promises[1] \in early
  <2> SUFFICES ASSUME added = 0 PROVE promises # <<>> /\ promises[1] \in early
    OBVIOUS
  <2>1. promises # <<>> /\ ~Built
    BY <1>1 DEF Length, Built
  <2>2. promises[1] \in Sources /\ source[promises[1]] # Pending
    BY <1>1, ArrayLength DEF UnionInv, Outcome
  <2> QED BY <2>1, <2>2 DEF UnionInv, Frozen
<1>4. TypedInput'
  BY <1>1 DEF UnionInv, TypedInput, BoundedSeq, SeqOf
<1>5. barrier' \in Nat /\ barrier' <= added'
  BY <1>1, <1>3
<1>6. TypedUnion'
  <2>1. Answered' \subseteq 1..added' /\ ToSet(array') \subseteq 1..added'
    <3>1. Answered \subseteq 1..added /\ ToSet(array) \subseteq 1..added
      BY DEF UnionInv, TypedUnion
    <3>2. 1..added \subseteq 1..i /\ i \in 1..i
      BY <1>1
    <3>3. Answered \cup {i} \subseteq 1..i /\ ToSet(array) \cup {i} \subseteq 1..i
      BY <3>1, <3>2
    <3> HIDE DEF i
    <3> QED BY <1>1, <1>2, <3>3
  <2>2. UnionValues' = UnionValues
    BY <1>1 DEF UnionValues, Indices
  <2> QED BY <1>1, <1>2, <1>5, <2>1, <2>2 DEF TypedUnion, Length
<1>7. FirstWaits'
  <2> SUFFICES ASSUME ~Built', ~ClosedWhileBuilt' PROVE 1 \notin Answered'
    BY DEF FirstWaits
  <2>1. ~Built /\ ~ClosedWhileBuilt
    BY <1>1 DEF Built, ClosedWhileBuilt, Length
  <2>2. i # 1
    BY <1>0, <1>1, <2>1 DEF ClosedWhileBuilt
  <2> QED BY <1>2, <2>1, <2>2 DEF UnionInv, FirstWaits
<1>8. Unbuilt' /\ Frozen'
  BY <1>1 DEF UnionInv, Unbuilt, Frozen, Built, Length
<1>9. BarrierCounts'
  <2> SUFFICES ASSUME unionState' = Pending, asked # First
               PROVE  barrier' = Cardinality((1..added') \ Answered')
    BY <1>1 DEF BarrierCounts
  <2>1. unionState = Pending /\ barrier' = b - 1
    BY <1>3, KindsApart
  <2>2. (1..added') \ Answered' = (1..added) \ Answered
    BY <1>1, <1>2
  <2> QED BY <1>1, <2>1, <2>2 DEF UnionInv, BarrierCounts
<1>10. PrematureOnlyByFirst'
  <2> SUFFICES ASSUME asked # First PROVE PrematureOnlyByFirst'
    BY <1>1 DEF PrematureOnlyByFirst
  <2>1. CASE added = 0
    <3>1. unionState = Pending /\ barrier = 0 /\ res = Array /\ ClosedWhileBuilt'
      BY <1>0, <1>1, <2>1 DEF UnionInv, Unbuilt, Built, Length, ClosedWhileBuilt
    <3>2. unionState' # Pending /\ res' \in {Array, 1}
      BY <1>3, <2>1, <3>1, KindsApart
    <3> QED BY <3>1, <3>2 DEF PrematureOnlyByFirst
  <2>2. CASE added # 0 /\ unionState # Pending
    BY <1>1, <1>3, <2>2 DEF UnionInv, PrematureOnlyByFirst, ClosedWhileBuilt, Built, Length
  <2>3. CASE added # 0 /\ unionState = Pending
    <3>1. ~ClosedWhileBuilt /\ ~ClosedWhileBuilt' /\ ~Built
      BY <1>1, <2>3 DEF UnionInv, PrematureOnlyByFirst, ClosedWhileBuilt, Built, Length
    <3>2. 1 \in (1..added) \ Answered
      BY <1>1, <2>3, <3>1 DEF UnionInv, FirstWaits
    <3>3. barrier = Cardinality((1..added) \ Answered) /\ Cardinality((1..added) \ Answered) >= 1
      BY <1>1, <2>3, <3>2, MissingAnswers DEF UnionInv, BarrierCounts
    <3>4. unionState' # Pending => asked = AllInstant /\ unionState' = Rejected
      BY <1>1, <1>3, <2>3, <3>3
    <3> QED BY <1>1, <3>1, <3>4 DEF PrematureOnlyByFirst
  <2> QED BY <2>1, <2>2, <2>3
<1> QED BY <1>4, <1>6, <1>7, <1>8, <1>9, <1>10 DEF UnionInv

(* The handler of a promise that settled after the construction. *)
LEMMA DeliverKeeps == ASSUME UnionInv, NEW i \in 1..MaxLen, Deliver(i) PROVE UnionInv'
<1>1. /\ added \in Nat /\ Length \in Nat /\ added = Length /\ Built /\ Built' /\ Length' = Length
      /\ barrier \in Nat /\ barrier <= added /\ i \in 1..Length /\ i \notin Answered
      /\ UNCHANGED <<promises, asked, early, source, added>>
      /\ Answer(i, barrier) /\ Outcome(i) # Pending
  BY ArrayLength DEF UnionInv, TypedUnion, Deliver, Length, input, Built, Indices
<1>2. /\ answers' \in Seq(Nat) /\ Answered' = Answered \cup {i}
      /\ array' \in Seq(Nat) /\ ToSet(array') \subseteq ToSet(array) \cup {i}
      /\ kind' = asked \/ (asked = AllWait /\ kind' = AllWaitRejected)
      /\ unionState' \in UnionStates /\ res' \in UnionValues
  BY <1>1, AnswerTypes DEF UnionInv
<1>3. /\ unionState # Pending \/ asked = First => barrier' = barrier
      /\ unionState # Pending => UNCHANGED <<kind, unionState, res, array>>
      /\ unionState = Pending /\ asked # First =>
           \/ barrier' = barrier - 1 /\ (unionState' = Pending <=> barrier # 1)
           \/ barrier' = barrier /\ asked = AllInstant /\ unionState' = Rejected
  BY <1>1, AnswerCounts DEF UnionInv
<1>4. i \in (1..added) \ Answered
  BY <1>1
<1>5. unionState = Pending /\ asked # First =>
        barrier >= 1 /\ Cardinality((1..added) \ (Answered \cup {i})) = barrier - 1
  BY <1>1, <1>4, MissingAnswers DEF UnionInv, BarrierCounts
<1>6. TypedInput'
  BY <1>1 DEF UnionInv, TypedInput, BoundedSeq, SeqOf
<1>7. TypedUnion'
  <2>1. barrier' \in Nat /\ barrier' <= added'
    BY <1>1, <1>3, <1>5
  <2> QED BY <1>1, <1>2, <2>1 DEF UnionInv, TypedUnion, UnionValues, Indices
<1>8. Unbuilt' /\ Frozen' /\ FirstWaits'
  BY <1>1 DEF UnionInv, Unbuilt, Frozen, FirstWaits
<1>9. BarrierCounts'
  BY <1>1, <1>2, <1>3, <1>5, KindsApart DEF BarrierCounts
<1>10. PrematureOnlyByFirst'
  BY <1>1, <1>3 DEF UnionInv, PrematureOnlyByFirst, ClosedWhileBuilt
<1> QED BY <1>6, <1>7, <1>8, <1>9, <1>10 DEF UnionInv

LEMMA SettleSourceKeeps == ASSUME UnionInv, NEW s \in Sources, SettleSource(s) PROVE UnionInv'
<1>1. /\ Built /\ Built' /\ source' \in [Sources -> UnionStates]
      /\ \A r \in Sources : source[r] # Pending => source'[r] # Pending
      /\ UNCHANGED <<promises, asked, early, added, kind, barrier, unionState, res, array, answers>>
  BY KindsApart DEF SettleSource, UnionInv, TypedInput, UnionStates, Outcomes, input, Built
<1>2. Answered' = Answered /\ Length' = Length
  BY <1>1 DEF Answered, Length
<1>3. TypedInput' /\ TypedUnion'
  BY <1>1, <1>2 DEF UnionInv, TypedInput, TypedUnion, UnionValues, Indices, BoundedSeq, SeqOf
<1>4. Unbuilt' /\ Frozen' /\ FirstWaits' /\ BarrierCounts' /\ PrematureOnlyByFirst'
  BY <1>1, <1>2
  DEF UnionInv, Unbuilt, Frozen, FirstWaits, BarrierCounts, PrematureOnlyByFirst, ClosedWhileBuilt
<1> QED BY <1>3, <1>4 DEF UnionInv

LEMMA SettleUnionKeeps == ASSUME UnionInv, SettleUnion PROVE UnionInv'
<1>1. /\ Built /\ Built' /\ unionState = Pending /\ unionState' \in Outcomes /\ res' = User
      /\ UNCHANGED <<promises, asked, early, source, added, kind, barrier, array, answers>>
  BY DEF SettleUnion, SettleAs, Built, input
<1>2. Answered' = Answered /\ Length' = Length
  BY <1>1 DEF Answered, Length
<1>3. TypedInput' /\ TypedUnion'
  BY <1>1, <1>2 DEF UnionInv, TypedInput, TypedUnion, UnionValues, Indices, UnionStates, BoundedSeq, SeqOf
<1>4. Unbuilt' /\ Frozen' /\ FirstWaits' /\ BarrierCounts' /\ PrematureOnlyByFirst'
  BY <1>1, <1>2, KindsApart
  DEF UnionInv, Unbuilt, Frozen, FirstWaits, BarrierCounts, PrematureOnlyByFirst, ClosedWhileBuilt, Outcomes
<1> QED BY <1>3, <1>4 DEF UnionInv

LEMMA UnionStepInv == UnionInv /\ [UnionNext]_unionVars => UnionInv'
<1> SUFFICES ASSUME UnionInv, [UnionNext]_unionVars PROVE UnionInv'
  OBVIOUS
<1>1. CASE Add
  BY <1>1, AddPendingKeeps, AddSettledKeeps
<1>2. CASE UNCHANGED unionVars
  <2>1. UNCHANGED <<promises, asked, early, source, added, kind, barrier, unionState, res, array, answers>>
    BY <1>2 DEF unionVars
  <2> QED BY <2>1
       DEF UnionInv, TypedInput, TypedUnion, Unbuilt, Frozen, FirstWaits, BarrierCounts,
           PrematureOnlyByFirst, ClosedWhileBuilt, Built, Answered, Indices, UnionValues, Length
<1> QED BY <1>1, <1>2, SettleSourceKeeps, DeliverKeeps, SettleUnionKeeps DEF UnionNext

LEMMA UnionInvariant == UnionSpec => []UnionInv
<1> QED BY UnionInitInv, UnionStepInv, PTL DEF UnionSpec

-----------------------------------------------------------------------------
(* While it is pending, _barrier is the number of answers that the union   *)
(* still needs; it closes over the first promise exactly when that one was *)
(* settled before initWithPromises:type:, and otherwise not before it is   *)
(* built, unless a promise rejects a union that does not wait for all.     *)
THEOREM BarrierRight == UnionSpec => []WellCounted
<1>1. ASSUME UnionInv PROVE WellCounted
  <2>1. Length \in Nat
    BY <1>1, ArrayLength DEF UnionInv
  <2>2. added \in 0..Len(promises) /\ barrier \in 0..added
    BY <1>1, <2>1 DEF UnionInv, TypedUnion, Length
  <2>3. UnionTypeOK
    BY <1>1, <2>2 DEF UnionInv, TypedInput, TypedUnion, UnionTypeOK, UnionStates, UnionValues
  <2> QED BY <1>1, <2>3 DEF UnionInv, WellCounted
<1> QED BY <1>1, UnionInvariant, PTL

(* An answer that comes after the union has settled changes neither its    *)
(* state, nor its result or reason, nor the array its handlers were given. *)
THEOREM ValueKept == UnionSpec => ValueStable
<1>1. ASSUME UnionNext, unionState # Pending
      PROVE  unionState' = unionState /\ res' = res /\ array' = array
  <2>1. CASE Add
    BY <1>1, <2>1 DEF Add, Answer
  <2>2. ASSUME NEW i \in 1..MaxLen, Deliver(i)
        PROVE  unionState' = unionState /\ res' = res /\ array' = array
    BY <1>1, <2>2 DEF Deliver, Answer
  <2>3. ASSUME NEW s \in Sources, SettleSource(s)
        PROVE  unionState' = unionState /\ res' = res /\ array' = array
    BY <2>3 DEF SettleSource
  <2> QED BY <1>1, <2>1, <2>2, <2>3 DEF UnionNext, SettleUnion
<1>2. [UnionNext]_unionVars => [unionState # Pending => unionState' = unionState /\ res' = res /\ array' = array]_unionVars
  BY <1>1
<1> QED BY <1>2, PTL DEF UnionSpec, ValueStable

-----------------------------------------------------------------------------
(* An answer is that of a promise that is settled.                         *)
AnswersSettled == \A i \in Answered : Outcome(i) # Pending

(* While it is pending, a union that counts has an array of all answers,   *)
(* or the reason of the first that was rejected.                           *)
Counting ==
  asked # First /\ unionState = Pending =>
    \/ /\ kind = asked /\ array = answers /\ res = Array
       /\ \A i \in Answered : Outcome(i) = Fulfilled
    \/ kind = AllWaitRejected /\ FirstReason

(* What settles a union that counts and was not closed by its first        *)
(* promise: its user, a promise that rejects it, or the last of them all.  *)
ClosedByUser == res = User \/ (asked = AllInstant /\ unionState = Rejected)
ClosedByAll ==
  /\ Built /\ Answered = Indices
  /\ unionState = Fulfilled => array = answers /\ \A i \in Answered : Outcome(i) = Fulfilled
  /\ unionState = Rejected => FirstReason

SettledRight ==
  asked # First /\ unionState # Pending /\ ~ClosedWhileBuilt => ClosedByUser \/ ClosedByAll

ResultInv ==
  AnswersSettled /\ Counting /\ SettledRight /\ (asked = First => res # Array)

-----------------------------------------------------------------------------
(* The first reason stays the first.                                       *)
LEMMA ReasonStays ==
  ASSUME FirstReason, UNCHANGED <<promises, source, res>>, NEW i \in Nat,
         answers \in Seq(Nat), answers' = Append(answers, i)
  PROVE  FirstReason'
<1>1. PICK n \in DOMAIN answers :
        /\ res = answers[n] /\ Outcome(res) = Rejected
        /\ \A m \in 1 .. n - 1 : Outcome(answers[m]) # Rejected
  BY DEF FirstReason
<1>2. DOMAIN answers = 1 .. Len(answers) /\ Len(answers) \in Nat
  OBVIOUS
<1>3. /\ DOMAIN answers' = 1 .. Len(answers) + 1
      /\ \A m \in 1 .. Len(answers) : answers'[m] = answers[m]
  BY AppendProperties
<1>4. n \in 1 .. Len(answers) + 1 /\ \A m \in 1 .. n : m \in 1 .. Len(answers)
  <2>1. n \in 1 .. Len(answers)
    BY <1>1, <1>2
  <2> QED BY ONLY <1>2, <2>1
<1>5. n \in DOMAIN answers'
  BY <1>3, <1>4
<1>6. \A m \in 1 .. n : answers'[m] = answers[m]
  BY ONLY <1>3, <1>4
<1>7. res' = answers'[n] /\ Outcome(res)' = Rejected
  <2>1. answers'[n] = answers[n]
    BY ONLY <1>2, <1>4, <1>6
  <2> QED BY <1>1, <2>1 DEF Outcome
<1>8. \A m \in 1 .. n - 1 : Outcome(answers[m])' # Rejected
  <2>1. \A m \in 1 .. n - 1 : answers'[m] = answers[m]
    BY ONLY <1>2, <1>4, <1>6
  <2> QED BY <1>1, <2>1 DEF Outcome
<1> QED BY <1>5, <1>7, <1>8 DEF FirstReason

LEMMA ReasonComes ==
  ASSUME NEW i \in Nat, Outcome(i) = Rejected, res' = i, UNCHANGED <<promises, source>>,
         answers \in Seq(Nat), answers' = Append(answers, i),
         \A j \in Answered : Outcome(j) = Fulfilled
  PROVE  FirstReason'
<1>1. /\ DOMAIN answers = 1 .. Len(answers) /\ Len(answers) \in Nat
      /\ DOMAIN answers' = 1 .. Len(answers) + 1
      /\ answers'[Len(answers) + 1] = i
      /\ \A m \in 1 .. Len(answers) : answers'[m] = answers[m]
  BY AppendProperties
<1>2. \A m \in 1 .. Len(answers) : answers[m] \in Answered
  BY <1>1 DEF Answered, ToSet
<1>3. \A m \in 1 .. Len(answers) : Outcome(answers[m]) # Rejected
  BY <1>2, KindsApart
<1> DEFINE n == Len(answers) + 1
<1>4. n \in DOMAIN answers' /\ res' = answers'[n] /\ n - 1 = Len(answers)
  BY <1>1
<1>5. Outcome(res)' = Rejected /\ \A m \in 1 .. n - 1 : Outcome(answers[m])' # Rejected
  BY <1>1, <1>3, <1>4 DEF Outcome
<1> QED BY <1>4, <1>5 DEF FirstReason

LEMMA ReasonKept ==
  ASSUME UnionInv, ResultInv, asked # First, unionState = Pending, kind = AllWaitRejected
  PROVE  FirstReason
<1>1. kind # asked
  BY KindsApart DEF UnionInv, TypedUnion, TypedInput
<1> QED BY <1>1 DEF ResultInv, Counting

(* Promise i answers a pending union that counts.                          *)
LEMMA AnswerResult ==
  ASSUME UnionInv, ResultInv, NEW i \in 1 .. Length, NEW b \in Nat, Answer(i, b),
         UNCHANGED <<promises, asked, early, source>>,
         Outcome(i) # Pending, asked # First, unionState = Pending,
         b = 1 => ClosedWhileBuilt' \/ (Built' /\ Answered' = Indices')
  PROVE  Counting' /\ SettledRight'
<1>0. i \in Nat /\ answers \in Seq(Nat) /\ answers' = Append(answers, i)
  BY ArrayLength DEF UnionInv, TypedUnion, Answer
<1>1. Answered' = Answered \cup {i}
  BY <1>0, AppendToSet DEF Answered
<1>2. CASE Outcome(i) = Fulfilled
  <2>1. PromiseFulfilled(i, b)
    BY <1>2, KindsApart DEF Answer
  <2>2. kind # First
    BY KindsApart DEF UnionInv, TypedUnion
  <2>3. CASE kind = AllWaitRejected
    <3>0. FirstReason
      BY <2>3, ReasonKept, KindsApart DEF UnionInv, TypedUnion
    <3>1. UNCHANGED <<array, res, kind>> /\ unionState' = IF b = 1 THEN Rejected ELSE Pending
      BY <2>1, <2>2, <2>3 DEF PromiseFulfilled, SettleAs
    <3>2. FirstReason'
      BY <1>0, <3>0, <3>1, ReasonStays
    <3> QED BY <2>3, <3>1, <3>2, KindsApart DEF Counting, SettledRight, ClosedByUser, ClosedByAll
  <2>4. CASE kind # AllWaitRejected
    <3>1. /\ array = answers /\ res = Array /\ kind = asked
          /\ \A j \in Answered : Outcome(j) = Fulfilled
      BY <2>4 DEF ResultInv, Counting
    <3>2. /\ array' = answers' /\ UNCHANGED <<kind, res>>
          /\ unionState' = IF b = 1 THEN Fulfilled ELSE Pending
      BY <1>0, <2>1, <2>2, <2>4, <3>1, KindsApart DEF PromiseFulfilled, SettleAs
    <3>3. \A j \in Answered' : Outcome(j)' = Fulfilled
      BY <1>1, <1>2, <3>1 DEF Outcome
    <3> QED BY <3>1, <3>2, <3>3, KindsApart DEF Counting, SettledRight, ClosedByUser, ClosedByAll
  <2> QED BY <2>3, <2>4
<1>3. CASE Outcome(i) # Fulfilled
  <2>1. Outcome(i) = Rejected /\ PromiseRejected(i, b)
    BY <1>3 DEF Answer
  <2>2. CASE kind = AllInstant
    <3>1. unionState' = Rejected /\ asked = AllInstant
      BY <2>1, <2>2, KindsApart DEF PromiseRejected, SettleAs, UnionInv, TypedUnion
    <3> QED BY <3>1, KindsApart DEF Counting, SettledRight, ClosedByUser, ClosedByAll
  <2>3. CASE kind # AllInstant
    <3>1. /\ kind \in {AllWait, AllWaitRejected} /\ kind' = AllWaitRejected
          /\ res' = IF kind = AllWait THEN i ELSE res
          /\ unionState' = IF b = 1 THEN Rejected ELSE Pending
      BY <2>1, <2>3, KindsApart DEF PromiseRejected, SettleAs, UnionInv, TypedUnion
    <3>2. FirstReason'
      <4>1. CASE kind = AllWait
        <5>1. \A j \in Answered : Outcome(j) = Fulfilled
          BY <4>1, KindsApart DEF ResultInv, Counting
        <5> QED BY <1>0, <2>1, <3>1, <4>1, <5>1, ReasonComes
      <4>2. CASE kind = AllWaitRejected
        <5>0. FirstReason
          BY <4>2, ReasonKept
        <5>1. res' = res
          BY <3>1, <4>2, KindsApart
        <5> QED BY <1>0, <5>0, <5>1, ReasonStays
      <4> QED BY <3>1, <4>1, <4>2
    <3> QED BY <3>1, <3>2, KindsApart DEF Counting, SettledRight, ClosedByUser, ClosedByAll
  <2> QED BY <2>2, <2>3
<1> QED BY <1>2, <1>3

(* An answer that comes when the union is settled changes nothing of it,   *)
(* nor one that comes to a union of the first result.                      *)
LEMMA LateAnswer ==
  ASSUME UnionInv, ResultInv, NEW i \in 1 .. Length, NEW b \in Nat, Answer(i, b),
         UNCHANGED <<promises, asked, early, source>>, unionState # Pending, asked # First,
         ~ClosedByAll
  PROVE  Counting' /\ SettledRight'
<1>1. UNCHANGED <<kind, unionState, res, array>>
  BY DEF Answer
<1>2. ~ClosedWhileBuilt => ClosedByUser
  BY DEF ResultInv, SettledRight
<1> QED BY <1>1, <1>2 DEF Counting, SettledRight, ClosedWhileBuilt, ClosedByUser

LEMMA AnswerKeeps ==
  ASSUME UnionInv, ResultInv, NEW i \in 1 .. Length, NEW b \in Nat, Answer(i, b),
         UNCHANGED <<promises, asked, early, source>>, Outcome(i) # Pending,
         ~ClosedByAll,
         b = 1 /\ asked # First /\ unionState = Pending => ClosedWhileBuilt' \/ (Built' /\ Answered' = Indices')
  PROVE  ResultInv'
<1>1. i \in Nat /\ answers \in Seq(Nat) /\ answers' = Append(answers, i)
  BY ArrayLength DEF UnionInv, TypedUnion, Answer
<1>2. Answered' = Answered \cup {i}
  BY <1>1, AppendToSet DEF Answered
<1>3. AnswersSettled'
  BY <1>2 DEF ResultInv, AnswersSettled, Outcome
<1>4. asked = First => res' # Array
  <2>1. i # Array
    BY ArrayLength, UnionAssumption DEF UnionInv
  <2>2. res' \in {res, i}
    BY AnswerCounts DEF UnionInv
  <2> QED BY <2>1, <2>2 DEF ResultInv
<1>5. Counting' /\ SettledRight'
  <2>1. CASE asked = First
    BY <2>1 DEF Counting, SettledRight
  <2>2. CASE asked # First /\ unionState = Pending
    BY <2>2, AnswerResult
  <2>3. CASE asked # First /\ unionState # Pending
    BY <2>3, LateAnswer
  <2> QED BY <2>1, <2>2, <2>3
<1> QED BY <1>3, <1>4, <1>5 DEF ResultInv

LEMMA ResultInit == UnionInit => ResultInv
<1> SUFFICES ASSUME UnionInit PROVE ResultInv
  OBVIOUS
<1>1. Answered = {}
  BY DEF UnionInit, Answered, ToSet
<1> QED BY <1>1, UnionAssumption
     DEF UnionInit, ResultInv, AnswersSettled, Counting, SettledRight

LEMMA ResultStep == UnionInv /\ ResultInv /\ [UnionNext]_unionVars => ResultInv'
<1> SUFFICES ASSUME UnionInv, ResultInv, [UnionNext]_unionVars PROVE ResultInv'
  OBVIOUS
<1>1. ASSUME Add, Outcome(added + 1) = Pending PROVE ResultInv'
  <2>1. /\ added \in Nat /\ Length \in Nat /\ added < Length
        /\ UNCHANGED <<promises, asked, early, source, kind, unionState, res, array, answers>>
    BY <1>1, ArrayLength DEF UnionInv, TypedUnion, Add, Length, input
  <2>2. ~Built
    BY <2>1 DEF Built, Length
  <2>3. AnswersSettled' /\ Counting'
    BY <2>1 DEF ResultInv, AnswersSettled, Counting, FirstReason, Answered, Outcome
  <2>4. SettledRight'
    <3>1. asked # First /\ unionState # Pending /\ ~ClosedWhileBuilt =>
            ClosedByUser
      BY <2>2 DEF ResultInv, SettledRight, ClosedByAll
    <3> QED BY <2>1, <3>1 DEF SettledRight, ClosedWhileBuilt, ClosedByUser
  <2> QED BY <2>1, <2>3, <2>4 DEF ResultInv
<1>2. ASSUME Add, Outcome(added + 1) # Pending PROVE ResultInv'
  <2>1. /\ added \in Nat /\ Length \in Nat /\ added < Length
        /\ barrier \in Nat /\ added + 1 \in 1 .. Length /\ barrier + 1 \in Nat
        /\ UNCHANGED <<promises, asked, early, source>>
        /\ Answer(added + 1, barrier + 1)
    BY <1>2, ArrayLength DEF UnionInv, TypedUnion, Add, Length, input
  <2>2. ~Built /\ ~ClosedByAll
    BY <2>1 DEF Built, Length, ClosedByAll
  <2>3. ASSUME barrier + 1 = 1, asked # First, unionState = Pending PROVE ClosedWhileBuilt
    <3>1. CASE added = 0
      <4>1. promises # <<>>
        BY <2>1 DEF Length
      <4>2. promises[1] \in Sources /\ source[promises[1]] # Pending
        BY <1>2, <2>1, <3>1, ArrayLength DEF UnionInv, Outcome
      <4> QED BY <2>2, <4>1, <4>2 DEF UnionInv, Frozen, ClosedWhileBuilt
    <3>2. CASE added # 0
      <4>1. (1 .. added) \ Answered = {}
        <5>1. barrier = 0
          BY <2>1, <2>3
        <5> QED BY <2>1, <2>3, <5>1, MissingFinite DEF UnionInv, BarrierCounts
      <4>2. 1 \in Answered
        BY <2>1, <3>2, <4>1
      <4> QED BY <2>2, <4>2 DEF UnionInv, FirstWaits
    <3> QED BY <3>1, <3>2
  <2>4. ClosedWhileBuilt => ClosedWhileBuilt'
    BY <2>1 DEF ClosedWhileBuilt
  <2> DEFINE i == added + 1
             b == barrier + 1
  <2>5. /\ i \in 1 .. Length /\ b \in Nat /\ Answer(i, b) /\ Outcome(i) # Pending
    BY <1>2, <2>1
  <2>6. b = 1 /\ asked # First /\ unionState = Pending => ClosedWhileBuilt' \/ (Built' /\ Answered' = Indices')
    <3>1. b = 1 /\ asked # First /\ unionState = Pending => ClosedWhileBuilt
      BY <2>3
    <3> QED BY <2>4, <3>1
  <2> HIDE DEF i, b
  <2> QED BY <2>1, <2>2, <2>5, <2>6, AnswerKeeps
<1>3. ASSUME NEW i \in 1 .. MaxLen, Deliver(i) PROVE ResultInv'
  <2>1. /\ added \in Nat /\ Length \in Nat /\ added = Length /\ Built' /\ Indices' = Indices
        /\ barrier \in Nat /\ i \in 1 .. Length /\ i \notin Answered /\ Indices = 1 .. added
        /\ UNCHANGED <<promises, asked, early, source, added>>
        /\ Answer(i, barrier) /\ Outcome(i) # Pending
    BY <1>3, ArrayLength DEF UnionInv, TypedUnion, Deliver, Length, input, Built, Indices
  <2>2. ~ClosedByAll
    BY <2>1 DEF ClosedByAll
  <2>3. ASSUME barrier = 1, asked # First, unionState = Pending PROVE Answered' = Indices'
    <3>1. Answered' = Answered \cup {i} /\ Answered \subseteq 1 .. added
      BY <2>1, AnswerTypes DEF UnionInv, TypedUnion
    <3>2. Cardinality((1 .. added) \ (Answered \cup {i})) = 0
      <4>1. Cardinality((1 .. added) \ Answered) = 1 /\ i \in (1 .. added) \ Answered
        BY <2>1, <2>3 DEF UnionInv, BarrierCounts
      <4> QED BY <2>1, <4>1, MissingAnswers
    <3>3. (1 .. added) \ (Answered \cup {i}) = {}
      BY <2>1, <3>2, MissingFinite
    <3> QED BY <2>1, <3>1, <3>3
  <2> QED BY <2>1, <2>2, <2>3, AnswerKeeps
<1>4. ASSUME NEW s \in Sources, SettleSource(s) PROVE ResultInv'
  <2>1. /\ source \in [Sources -> UnionStates] /\ \A r \in Sources : source[r] # Pending => source'[r] = source[r]
        /\ UNCHANGED <<promises, asked, early, added, kind, barrier, unionState, res, array, answers>>
    BY <1>4 DEF SettleSource, UnionInv, TypedInput, input
  <2>2. /\ Answered' = Answered /\ Answered \subseteq 1 .. Length
        /\ \A j \in Answered : Outcome(j)' = Outcome(j)
    <3>1. Answered' = Answered /\ Answered \subseteq 1 .. Length
      BY <2>1, ArrayLength DEF Answered, UnionInv, TypedUnion
    <3>2. \A j \in Answered : promises[j] \in Sources /\ source[promises[j]] # Pending
      BY <3>1, ArrayLength DEF UnionInv, ResultInv, AnswersSettled, Outcome
    <3> QED BY <2>1, <3>1, <3>2 DEF Outcome
  <2>3. FirstReason => FirstReason'
    <3> SUFFICES ASSUME FirstReason PROVE FirstReason'
      OBVIOUS
    <3>1. PICK n \in DOMAIN answers :
            /\ res = answers[n] /\ Outcome(res) = Rejected
            /\ \A m \in 1 .. n - 1 : Outcome(answers[m]) # Rejected
      BY DEF FirstReason
    <3>2. DOMAIN answers = 1 .. Len(answers) /\ Len(answers) \in Nat
      BY DEF UnionInv, TypedUnion
    <3>3. \A m \in 1 .. n : answers[m] \in Answered
      BY <3>1, <3>2 DEF Answered, ToSet
    <3>4. res \in Answered /\ \A m \in 1 .. n - 1 : answers[m] \in Answered
      BY <3>1, <3>2, <3>3
    <3>5. Outcome(res)' = Rejected /\ \A m \in 1 .. n - 1 : Outcome(answers[m])' # Rejected
      BY <2>1, <2>2, <3>1, <3>4
    <3> QED BY <2>1, <3>1, <3>5 DEF FirstReason
  <2>4. AnswersSettled' /\ Counting'
    BY <2>1, <2>2, <2>3 DEF ResultInv, AnswersSettled, Counting
  <2>5. SettledRight'
    BY <2>1, <2>2, <2>3 DEF ResultInv, SettledRight, ClosedWhileBuilt, ClosedByUser, ClosedByAll, Built, Indices
  <2> QED BY <2>1, <2>4, <2>5 DEF ResultInv
<1>5. ASSUME SettleUnion PROVE ResultInv'
  <2>1. /\ unionState' # Pending /\ res' = User
        /\ UNCHANGED <<promises, asked, early, source, added, kind, barrier, array, answers>>
    BY <1>5, KindsApart DEF SettleUnion, SettleAs, Outcomes, input
  <2>2. AnswersSettled'
    BY <2>1 DEF ResultInv, AnswersSettled, Answered, Outcome
  <2> QED BY <2>1, <2>2, UnionAssumption DEF ResultInv, Counting, SettledRight, ClosedByUser
<1>6. ASSUME UNCHANGED unionVars PROVE ResultInv'
  <2>1. UNCHANGED <<promises, asked, early, source, added, kind, barrier, unionState, res, array, answers>>
    BY <1>6 DEF unionVars
  <2> QED BY <2>1
       DEF ResultInv, AnswersSettled, Counting, SettledRight, ClosedByUser, ClosedByAll, FirstReason, ClosedWhileBuilt, Built,
           Answered, Indices, Outcome
<1> QED BY <1>1, <1>2, <1>3, <1>4, <1>5, <1>6 DEF UnionNext

(* A union that waits for all is settled by the last of its promises: it   *)
(* is fulfilled with the results of all in the order of the answers, or    *)
(* rejected with the reason of the first that was rejected.                *)
THEOREM UnionComplete == UnionSpec => []CompleteResult
<1>1. ASSUME UnionInv, ResultInv PROVE CompleteResult
  <2>1. ResolvedOfAll
    <3> SUFFICES ASSUME unionState = Fulfilled, res = Array, ~ClosedWhileBuilt
                 PROVE  /\ ToSet(array) = Indices
                        /\ \A i \in Indices : Outcome(i) = Fulfilled
                        /\ array = answers
      BY DEF ResolvedOfAll
    <3>1. Answered = Indices /\ array = answers /\ \A i \in Answered : Outcome(i) = Fulfilled
      BY <1>1, KindsApart, UnionAssumption DEF ResultInv, SettledRight, ClosedByUser, ClosedByAll
    <3> QED BY <3>1 DEF Answered
  <2>2. WaitsForAll
    BY <1>1, KindsApart DEF WaitsForAll, ResultInv, SettledRight, ClosedByUser, ClosedByAll
  <2> QED BY <2>1, <2>2 DEF CompleteResult
<1> QED BY <1>1, UnionInvariant, ResultInit, ResultStep, PTL DEF UnionSpec

-----------------------------------------------------------------------------
(* Promise.  Facts about lists that are joined and cut. *)

(* In s, a is b or comes before b. *)
Upto(s, a, b) == \E i, j \in 1 .. Len(s) : i <= j /\ s[i] = a /\ s[j] = b

LEMMA ConcatElements ==
  ASSUME NEW S, NEW s \in Seq(S), NEW t \in Seq(S)
  PROVE  /\ s \o t \in Seq(S)
         /\ ToSet(s \o t) = ToSet(s) \cup ToSet(t)
         /\ IsInjective(s \o t) <=>
              IsInjective(s) /\ IsInjective(t) /\ ToSet(s) \cap ToSet(t) = {}
<1> DEFINE r == s \o t
<1>1. /\ Len(s) \in Nat /\ Len(t) \in Nat /\ DOMAIN s = 1 .. Len(s) /\ DOMAIN t = 1 .. Len(t)
      /\ r \in Seq(S) /\ Len(r) = Len(s) + Len(t) /\ DOMAIN r = 1 .. Len(r)
      /\ \A i \in 1 .. Len(s) + Len(t) : r[i] = IF i <= Len(s) THEN s[i] ELSE t[i - Len(s)]
  BY ConcatProperties, LenProperties
<1> HIDE DEF r
<1>2. \A i \in 1 .. Len(s) : i \in 1 .. Len(r) /\ r[i] = s[i]
  BY <1>1
<1>3. \A i \in 1 .. Len(t) : Len(s) + i \in 1 .. Len(r) /\ r[Len(s) + i] = t[i]
  BY <1>1
<1>4. \A i \in 1 .. Len(r) :
        \/ i \in 1 .. Len(s) /\ r[i] = s[i]
        \/ \E j \in 1 .. Len(t) : i = Len(s) + j /\ r[i] = t[j]
  <2> SUFFICES ASSUME NEW i \in 1 .. Len(r), i > Len(s)
               PROVE  \E j \in 1 .. Len(t) : i = Len(s) + j /\ r[i] = t[j]
    BY <1>1
  <2>1. i - Len(s) \in 1 .. Len(t) /\ i = Len(s) + (i - Len(s))
    BY <1>1
  <2> QED BY <1>3, <2>1
<1>5. ToSet(r) = ToSet(s) \cup ToSet(t)
  <2>1. /\ ToSet(r) = {r[i] : i \in 1 .. Len(r)} /\ ToSet(s) = {s[i] : i \in 1 .. Len(s)}
        /\ ToSet(t) = {t[i] : i \in 1 .. Len(t)}
    BY <1>1 DEF ToSet
  <2>2. \A i \in 1 .. Len(r) : r[i] \in ToSet(s) \cup ToSet(t)
    BY <1>4, <2>1
  <2>3. \A i \in 1 .. Len(s) : s[i] \in ToSet(r)
    BY <1>2, <2>1
  <2>4. \A i \in 1 .. Len(t) : t[i] \in ToSet(r)
    BY <1>3, <2>1
  <2> QED BY <2>1, <2>2, <2>3, <2>4
<1>6. ASSUME IsInjective(r) PROVE IsInjective(s) /\ IsInjective(t) /\ ToSet(s) \cap ToSet(t) = {}
  <2>1. \A i, j \in 1 .. Len(r) : r[i] = r[j] => i = j
    BY <1>1, <1>6 DEF IsInjective
  <2>2. IsInjective(s)
    BY <1>1, <1>2, <2>1 DEF IsInjective
  <2>3. IsInjective(t)
    <3> SUFFICES ASSUME NEW i \in 1 .. Len(t), NEW j \in 1 .. Len(t), t[i] = t[j] PROVE i = j
      BY <1>1 DEF IsInjective
    <3>1. Len(s) + i = Len(s) + j
      BY <1>3, <2>1
    <3> QED BY <1>1, <3>1
  <2>4. ASSUME NEW i \in 1 .. Len(s), NEW j \in 1 .. Len(t), s[i] = t[j] PROVE FALSE
    <3>1. i = Len(s) + j
      BY <1>2, <1>3, <2>1, <2>4
    <3> QED BY <1>1, <3>1
  <2>5. ToSet(s) \cap ToSet(t) = {}
    BY <1>1, <2>4 DEF ToSet
  <2> QED BY <2>2, <2>3, <2>5
<1>7. ASSUME IsInjective(s), IsInjective(t), ToSet(s) \cap ToSet(t) = {} PROVE IsInjective(r)
  <2> SUFFICES ASSUME NEW i \in 1 .. Len(r), NEW j \in 1 .. Len(r), r[i] = r[j] PROVE i = j
    BY <1>1 DEF IsInjective
  <2>1. \A a \in 1 .. Len(s), b \in 1 .. Len(t) : s[a] # t[b]
    BY <1>1, <1>7 DEF ToSet
  <2>2. \A a, b \in 1 .. Len(s) : s[a] = s[b] => a = b
    BY <1>1, <1>7 DEF IsInjective
  <2>3. \A a, b \in 1 .. Len(t) : t[a] = t[b] => a = b
    BY <1>1, <1>7 DEF IsInjective
  <2>4. CASE i \in 1 .. Len(s) /\ r[i] = s[i]
    <3>1. ~ \E b \in 1 .. Len(t) : j = Len(s) + b /\ r[j] = t[b]
      BY <2>1, <2>4
    <3>2. j \in 1 .. Len(s) /\ r[j] = s[j]
      BY <1>4, <3>1
    <3> QED BY <2>2, <2>4, <3>2
  <2>5. CASE \E a \in 1 .. Len(t) : i = Len(s) + a /\ r[i] = t[a]
    <3>1. PICK a \in 1 .. Len(t) : i = Len(s) + a /\ r[i] = t[a]
      BY <2>5
    <3>2. ~(j \in 1 .. Len(s) /\ r[j] = s[j])
      BY <2>1, <3>1
    <3>3. PICK b \in 1 .. Len(t) : j = Len(s) + b /\ r[j] = t[b]
      BY <1>4, <3>2
    <3> QED BY <2>3, <3>1, <3>3
  <2> QED BY <1>4, <2>4, <2>5
<1> QED BY <1>1, <1>5, <1>6, <1>7 DEF r

LEMMA ConcatUpto ==
  ASSUME NEW S, NEW s \in Seq(S), NEW t \in Seq(S), NEW a, NEW b
  PROVE  Upto(s \o t, a, b) <=>
           \/ Upto(s, a, b)
           \/ Upto(t, a, b)
           \/ a \in ToSet(s) /\ b \in ToSet(t)
<1> DEFINE r == s \o t
<1>1. /\ Len(s) \in Nat /\ Len(t) \in Nat /\ DOMAIN s = 1 .. Len(s) /\ DOMAIN t = 1 .. Len(t)
      /\ r \in Seq(S) /\ Len(r) = Len(s) + Len(t)
      /\ \A i \in 1 .. Len(s) + Len(t) : r[i] = IF i <= Len(s) THEN s[i] ELSE t[i - Len(s)]
  BY ConcatProperties, LenProperties
<1> HIDE DEF r
<1>2. \A i \in 1 .. Len(s) : i \in 1 .. Len(r) /\ r[i] = s[i]
  BY <1>1
<1>3. \A i \in 1 .. Len(t) : Len(s) + i \in 1 .. Len(r) /\ r[Len(s) + i] = t[i]
  BY <1>1
<1>4. \A i \in 1 .. Len(r) : i > Len(s) => i - Len(s) \in 1 .. Len(t) /\ r[i] = t[i - Len(s)]
  BY <1>1
<1>5. ASSUME Upto(s, a, b) PROVE Upto(r, a, b)
  BY <1>2, <1>5 DEF Upto
<1>6. ASSUME Upto(t, a, b) PROVE Upto(r, a, b)
  <2>1. PICK i \in 1 .. Len(t), j \in 1 .. Len(t) : i <= j /\ t[i] = a /\ t[j] = b
    BY <1>6 DEF Upto
  <2>2. Len(s) + i <= Len(s) + j
    BY <1>1, <2>1
  <2> QED BY <1>3, <2>1, <2>2 DEF Upto
<1>7. ASSUME a \in ToSet(s), b \in ToSet(t) PROVE Upto(r, a, b)
  <2>1. PICK i \in 1 .. Len(s), j \in 1 .. Len(t) : s[i] = a /\ t[j] = b
    BY <1>1, <1>7 DEF ToSet
  <2>2. i <= Len(s) + j
    BY <1>1, <2>1
  <2> QED BY <1>2, <1>3, <2>1, <2>2 DEF Upto
<1>8. ASSUME Upto(r, a, b)
      PROVE  Upto(s, a, b) \/ Upto(t, a, b) \/ (a \in ToSet(s) /\ b \in ToSet(t))
  <2>1. PICK i \in 1 .. Len(r), j \in 1 .. Len(r) : i <= j /\ r[i] = a /\ r[j] = b
    BY <1>8 DEF Upto
  <2>2. CASE j <= Len(s)
    <3>1. i \in 1 .. Len(s) /\ j \in 1 .. Len(s)
      BY <1>1, <2>1, <2>2
    <3> QED BY <1>2, <2>1, <3>1 DEF Upto
  <2>3. CASE i > Len(s)
    <3>1. j > Len(s) /\ i - Len(s) <= j - Len(s)
      BY <1>1, <2>1, <2>3
    <3>2. t[i - Len(s)] = a /\ t[j - Len(s)] = b
      BY <1>4, <2>1, <2>3, <3>1
    <3> QED BY <1>4, <2>3, <3>1, <3>2 DEF Upto
  <2>4. CASE i <= Len(s) /\ j > Len(s)
    <3>1. i \in 1 .. Len(s)
      BY <1>1, <2>1, <2>4
    <3>2. a \in ToSet(s)
      BY <1>1, <1>2, <2>1, <3>1 DEF ToSet
    <3>3. b \in ToSet(t)
      BY <1>1, <1>4, <2>1, <2>4 DEF ToSet
    <3> QED BY <3>2, <3>3
  <2> QED BY <1>1, <2>2, <2>3, <2>4
<1> QED BY <1>5, <1>6, <1>7, <1>8 DEF r

LEMMA Comparable ==
  ASSUME NEW i \in Nat, NEW j \in Nat
  PROVE  (i <= j \/ i > j) /\ (i <= j => i + 1 <= j \/ i = j)
OBVIOUS

(* A list is its first k elements and the others. *)
LEMMA CutList ==
  ASSUME NEW S, NEW s \in Seq(S), NEW k \in 0 .. Len(s)
  PROVE  /\ SubSeq(s, 1, k) \in Seq(S) /\ SubSeq(s, k + 1, Len(s)) \in Seq(S)
         /\ s = SubSeq(s, 1, k) \o SubSeq(s, k + 1, Len(s))
<1> DEFINE a == SubSeq(s, 1, k)
           b == SubSeq(s, k + 1, Len(s))
<1>1. Len(s) \in Nat /\ k \in Nat /\ k <= Len(s) /\ DOMAIN s = 1 .. Len(s)
  BY LenProperties
<1>2. a \in Seq(S) /\ Len(a) = k /\ \A j \in 1 .. k : a[j] = s[j]
  BY <1>1, SubSeqProperties
<1>3. b \in Seq(S) /\ Len(b) = Len(s) - k /\ \A j \in 1 .. Len(s) - k : b[j] = s[k + j]
  <2>1. /\ b \in Seq(S)
        /\ Len(b) = IF k + 1 <= Len(s) THEN Len(s) - (k + 1) + 1 ELSE 0
        /\ \A j \in 1 .. Len(s) - (k + 1) + 1 : b[j] = s[k + 1 + j - 1]
    BY <1>1, SubSeqProperties
  <2> HIDE DEF b
  <2>2. Len(s) - (k + 1) + 1 = Len(s) - k
    BY <1>1
  <2>3. \A j \in 1 .. Len(s) - k : k + 1 + j - 1 = k + j
    BY <1>1
  <2>4. Len(b) = Len(s) - k
    <3>1. Len(b) = IF k + 1 <= Len(s) THEN Len(s) - (k + 1) + 1 ELSE 0
      BY <2>1
    <3>2. k + 1 <= Len(s) \/ k = Len(s)
      BY <1>1, Comparable
    <3>3. CASE k + 1 <= Len(s)
      BY <2>2, <3>1, <3>3
    <3>4. CASE k = Len(s)
      <4>1. ~(k + 1 <= Len(s)) /\ Len(s) - k = 0
        BY <1>1, <3>4
      <4> QED BY <3>1, <4>1
    <3> QED BY <3>2, <3>3, <3>4
  <2> QED BY <2>1, <2>2, <2>3, <2>4
<1> HIDE DEF a, b
<1>4. /\ a \o b \in Seq(S) /\ Len(a \o b) = Len(a) + Len(b)
      /\ \A j \in 1 .. Len(a) + Len(b) : (a \o b)[j] = IF j <= Len(a) THEN a[j] ELSE b[j - Len(a)]
  BY <1>2, <1>3, ConcatProperties
<1>5. Len(a \o b) = Len(s)
  BY <1>1, <1>2, <1>3, <1>4
<1>6. ASSUME NEW j \in 1 .. Len(s) PROVE (a \o b)[j] = s[j]
  <2>1. CASE j <= k
    BY <1>1, <1>2, <1>3, <1>4, <2>1
  <2>2. CASE j > k
    <3>1. j - k \in 1 .. Len(s) - k /\ k + (j - k) = j
      BY <1>1, <2>2
    <3>2. b[j - k] = s[j]
      BY <1>3, <3>1
    <3>3. j \in 1 .. Len(a) + Len(b) /\ ~(j <= Len(a)) /\ j - Len(a) = j - k
      BY <1>1, <1>2, <1>3, <2>2
    <3>4. (a \o b)[j] = b[j - Len(a)]
      BY ONLY <1>4, <3>3
    <3>5. (a \o b)[j] = b[j - k]
      BY ONLY <3>3, <3>4
    <3> QED BY ONLY <3>2, <3>5
  <2>3. j <= k \/ j > k
    <3>1. j \in Nat
      BY <1>1
    <3> QED BY <1>1, <3>1, Comparable
  <2> QED BY <2>1, <2>2, <2>3
<1>7. s = a \o b
  BY <1>4, <1>5, <1>6, SeqEqual
<1> QED BY <1>2, <1>3, <1>7 DEF a, b

(* What is not behind the k-th of a list. *)
LEMMA UptoIs ==
  ASSUME NEW S, NEW s \in Seq(S), IsInjective(s), NEW k \in 1 .. Len(s), NEW h
  PROVE  /\ Upto(s, h, s[k]) <=> \E i \in 1 .. k : s[i] = h
         /\ Upto(s, h, s[k]) <=> h \in ToSet(SubSeq(s, 1, k))
<1>1. Len(s) \in Nat /\ k \in Nat /\ 1 <= k /\ k <= Len(s) /\ DOMAIN s = 1 .. Len(s)
  BY LenProperties
<1>2. \A i, j \in 1 .. Len(s) : s[i] = s[j] => i = j
  BY <1>1 DEF IsInjective
<1>3. Upto(s, h, s[k]) <=> \E i \in 1 .. k : s[i] = h
  <2>1. ASSUME Upto(s, h, s[k]) PROVE \E i \in 1 .. k : s[i] = h
    <3>1. PICK i \in 1 .. Len(s), j \in 1 .. Len(s) : i <= j /\ s[i] = h /\ s[j] = s[k]
      BY <2>1 DEF Upto
    <3>2. j = k
      BY <1>2, <3>1
    <3> QED BY <3>1, <3>2
  <2>2. ASSUME NEW i \in 1 .. k, s[i] = h PROVE Upto(s, h, s[k])
    <3>1. i \in 1 .. Len(s) /\ i <= k
      BY <1>1
    <3> QED BY <2>2, <3>1 DEF Upto
  <2> QED BY <2>1, <2>2
<1> DEFINE a == SubSeq(s, 1, k)
<1>4. a \in Seq(S) /\ Len(a) = k /\ \A j \in 1 .. k : a[j] = s[j]
  BY <1>1, SubSeqProperties
<1> HIDE DEF a
<1>5. DOMAIN a = 1 .. k
  BY <1>4, LenProperties
<1>6. h \in ToSet(a) <=> \E i \in 1 .. k : s[i] = h
  BY <1>4, <1>5 DEF ToSet
<1> QED BY <1>3, <1>6 DEF a

LEMMA UptoNext ==
  ASSUME NEW S, NEW s \in Seq(S), IsInjective(s), NEW k \in 1 .. Len(s), k + 1 <= Len(s), NEW h
  PROVE  Upto(s, h, s[k + 1]) <=> Upto(s, h, s[k]) \/ h = s[k + 1]
<1>1. Len(s) \in Nat /\ k \in Nat /\ k + 1 \in 1 .. Len(s)
  BY LenProperties
<1>2. Upto(s, h, s[k + 1]) <=> \E i \in 1 .. k + 1 : s[i] = h
  BY <1>1, UptoIs
<1>3. Upto(s, h, s[k]) <=> \E i \in 1 .. k : s[i] = h
  BY <1>1, UptoIs
<1>4. 1 .. k + 1 = (1 .. k) \cup {k + 1}
  BY <1>1
<1> QED BY <1>2, <1>3, <1>4

LEMMA UptoFirst ==
  ASSUME NEW S, NEW s \in Seq(S), IsInjective(s), 1 <= Len(s), NEW h
  PROVE  Upto(s, h, s[1]) <=> h = s[1]
<1>1. Len(s) \in Nat /\ 1 \in 1 .. Len(s) /\ 1 .. 1 = {1}
  BY LenProperties
<1>2. Upto(s, h, s[1]) <=> \E i \in 1 .. 1 : s[i] = h
  BY <1>1, UptoIs
<1> QED BY <1>1, <1>2

LEMMA UptoMembers ==
  ASSUME NEW s, NEW S, s \in Seq(S), NEW a, NEW b, Upto(s, a, b)
  PROVE  a \in ToSet(s) /\ b \in ToSet(s)
<1>1. DOMAIN s = 1 .. Len(s)
  BY LenProperties
<1> QED BY <1>1 DEF Upto, ToSet

-----------------------------------------------------------------------------
FrameType ==
  [p : Promises \cup {NULL}, at : Handlers \cup {NULL}, phase : {"scan", "body", "close"}]

PromiseTyped ==
  /\ state \in [Promises -> States]
  /\ listeners \in [Promises -> Seq(Handlers)]
  /\ type \in [Handlers -> States \cup {NULL}]
  /\ forwards \in [Handlers -> Promises \cup {NULL}]
  /\ \A h \in Handlers : forwards[h] # NULL => type[h] \in Outcomes
  /\ stack \in Seq(FrameType)
  /\ corrupt \in BOOLEAN
  /\ visits \in [Handlers -> Nat]
  /\ dropped \in SUBSET Handlers
  /\ registered \in [Promises -> Seq(Handlers)]
  /\ misuse \in SUBSET {"last", "refire"}

(* The lists ls share no handler; those that exist are of the types ty.    *)
Apart(ls, ty) ==
  /\ \A p \in Promises : IsInjective(ls[p])
  /\ \A p \in Promises : \A h \in ToSet(ls[p]) : ty[h] # NULL
  /\ \A p, q \in Promises : \A h \in ToSet(ls[p]) : h \in ToSet(ls[q]) => p = q

(* What does not exist was not met. *)
Fresh(ty, vs, gone) == \A h \in Handlers : ty[h] = NULL => vs[h] = 0 /\ h \notin gone

(* What was added to p is told apart, and waits in a list until it is met. *)
Met(vs, gone, h) == vs[h] > 0 \/ h \in gone

Waiting(ls, ty, vs, gone, rs) ==
  \A p \in Promises : \A h \in ToSet(rs[p]) :
    /\ ty[h] # NULL
    /\ Met(vs, gone, h) \/ \E q \in Promises : h \in ToSet(ls[q])

(* What was added to a pending promise waits in its list.                  *)
AllThere(stt, ls, rs) ==
  \A p \in Promises : stt[p] = Pending => ToSet(rs[p]) \subseteq ToSet(ls[p])

(* Of two handlers that were added to one promise, the first is met first; *)
(* until then they wait in the same list, the first before the other.      *)
Together(ls, a, b) ==
  \A q \in Promises : a \in ToSet(ls[q]) \/ b \in ToSet(ls[q]) => Upto(ls[q], a, b)

InTurn(ls, vs, gone, rs) ==
  \A p \in Promises : \A a, b \in Handlers :
    Upto(rs[p], a, b) /\ ~Met(vs, gone, a) => ~Met(vs, gone, b) /\ Together(ls, a, b)

(* A frame stands on a handler, or is new and on top.                      *)
FramesRight(st, ty) ==
  \A i \in DOMAIN st :
    /\ st[i].at = NULL => i = Len(st) /\ st[i].phase = "scan" /\ st[i].p # NULL
    /\ st[i].p = NULL => st[i].phase = "body"
    /\ st[i].at # NULL => ty[st[i].at] # NULL

(* Promises that fire are settled; settled ones that do not hold nothing.  *)
Fires(st, p) == \E i \in DOMAIN st : st[i].p = p

FiringRight(st, stt, ls) ==
  \A p \in Promises :
    IF Fires(st, p) THEN stt[p] # Pending ELSE stt[p] # Pending => ls[p] = <<>>

(* What the innermost frame of a promise has behind it was met.            *)
Innermost(st, i) == \A j \in DOMAIN st : j > i => st[j].p # st[i].p

BehindMet(st, ls, vs) ==
  \A i \in DOMAIN st : st[i].p # NULL /\ st[i].at # NULL /\ Innermost(st, i) =>
    \A h \in Handlers : Upto(ls[st[i].p], h, st[i].at) => vs[h] > 0

(* As long as no promise that fires was fired again: each has one frame,   *)
(* which stands in its list; no two frames stand on the same handler; what *)
(* waits was met if it is behind that frame, and nothing was met twice.    *)
FiredOnce(st, ls, vs) ==
  /\ \A i, j \in DOMAIN st : st[i].p = st[j].p /\ st[i].p # NULL => i = j
  /\ \A i, j \in DOMAIN st : st[i].at = st[j].at /\ st[i].at # NULL => i = j
  /\ \A i \in DOMAIN st : st[i].p # NULL /\ st[i].at # NULL => st[i].at \in ToSet(ls[st[i].p])
  /\ \A i \in DOMAIN st : st[i].p = NULL => \A q \in Promises : st[i].at \notin ToSet(ls[q])
  /\ \A h \in Handlers : vs[h] <= 1
  /\ \A q \in Promises : \A h \in ToSet(ls[q]) : vs[h] > 0 =>
       \E i \in DOMAIN st : st[i].p = q /\ st[i].at # NULL /\ Upto(ls[q], h, st[i].at)

(* What holds of the frames st, with states stt, lists ls, types ty and    *)
(* visits vs; once: no promise that fires was fired again.                 *)
FramesInv(st, stt, ls, ty, vs, once) ==
  /\ FramesRight(st, ty)
  /\ FiringRight(st, stt, ls)
  /\ BehindMet(st, ls, vs)
  /\ once => FiredOnce(st, ls, vs)

PromiseInv ==
  /\ PromiseTyped
  /\ Apart(listeners, type)
  /\ Fresh(type, visits, dropped)
  /\ Waiting(listeners, type, visits, dropped, registered)
  /\ InTurn(listeners, visits, dropped, registered)
  /\ AllThere(state, listeners, registered)
  /\ FramesInv(stack, state, listeners, type, visits, "refire" \notin misuse)
  /\ corrupt => misuse # {}

-----------------------------------------------------------------------------
(* What happens to the lists: handlers hs are put behind those of p; or    *)
(* those behind the head hd of p's go behind those of r.                   *)
Lists == [Promises -> Seq(Handlers)]

Enlisted(ls, us, p, hs) ==
  /\ us \in Lists
  /\ us[p] = ls[p] \o hs
  /\ \A q \in Promises : q # p => us[q] = ls[q]

HandedOver(ls, us, p, r, hd, tl) ==
  /\ us \in Lists
  /\ ls[p] = hd \o tl /\ us[p] = hd /\ us[r] = ls[r] \o tl
  /\ \A q \in Promises : q # p /\ q # r => us[q] = ls[q]

(* Handlers hs are created: tz records all that ty records, and them.      *)
Recorded(ty, tz) == \A h \in Handlers : ty[h] # NULL => tz[h] # NULL
Unknown(ty, hs) == \A h \in ToSet(hs) : ty[h] = NULL
Known(tz, hs) == \A h \in ToSet(hs) : tz[h] # NULL

(* Only handler h may have been visited. *)
Elsewhere(vs, vt, h) == \A x \in Handlers : x # h => vt[x] = vs[x]

Visited(vs, hs) == \A h \in ToSet(hs) : vs[h] > 0

Listed(ls, h) == \E q \in Promises : h \in ToSet(ls[q])

Emptied(ls, us, p) ==
  /\ us \in Lists
  /\ us[p] = <<>>
  /\ \A q \in Promises : q # p => us[q] = ls[q]

LEMMA ListedHandlers ==
  ASSUME NEW ls \in Lists, NEW q \in Promises
  PROVE  ls[q] \in Seq(Handlers) /\ ToSet(ls[q]) \subseteq Handlers
<1>1. ls[q] \in Seq(Handlers)
  BY DEF Lists
<1> QED BY <1>1 DEF ToSet

LEMMA EnlistApart ==
  ASSUME NEW ls \in Lists, NEW us, NEW p \in Promises, NEW hs \in Seq(Handlers),
         Enlisted(ls, us, p, hs), IsInjective(hs),
         NEW ty, NEW tz, Apart(ls, ty), Unknown(ty, hs), Known(tz, hs),
         Recorded(ty, tz)
  PROVE  /\ Apart(us, tz)
         /\ ToSet(us[p]) = ToSet(ls[p]) \cup ToSet(hs)
         /\ \A q \in Promises : ToSet(ls[q]) \subseteq ToSet(us[q])
<1> USE DEF Recorded, Unknown, Known
<1>1. ls[p] \in Seq(Handlers)
  BY DEF Lists
<1>2. ToSet(ls[p]) \cap ToSet(hs) = {}
  BY DEF Apart
<1>3. IsInjective(us[p]) /\ ToSet(us[p]) = ToSet(ls[p]) \cup ToSet(hs)
  BY <1>1, <1>2, ConcatElements DEF Enlisted, Apart
<1>4. \A q \in Promises : IsInjective(us[q])
  BY <1>3 DEF Enlisted, Apart
<1>5. ASSUME NEW q \in Promises, NEW h \in ToSet(us[q]) PROVE tz[h] # NULL
  <2>1. h \in ToSet(ls[q]) \/ h \in ToSet(hs)
    BY <1>3, <1>5 DEF Enlisted
  <2>2. h \in ToSet(ls[q]) => h \in Handlers /\ ty[h] # NULL
    BY ListedHandlers DEF Apart
  <2> QED BY <2>1, <2>2
<1>6. ASSUME NEW q \in Promises, NEW x \in Promises, NEW h \in ToSet(us[q]), h \in ToSet(us[x])
      PROVE  q = x
  <2>1. h \in ToSet(ls[q]) \/ (q = p /\ h \in ToSet(hs))
    BY <1>3, <1>6 DEF Enlisted
  <2>2. h \in ToSet(ls[x]) \/ (x = p /\ h \in ToSet(hs))
    BY <1>3, <1>6 DEF Enlisted
  <2>3. h \in ToSet(ls[q]) => ty[h] # NULL
    BY DEF Apart
  <2>4. h \in ToSet(ls[x]) => ty[h] # NULL
    BY DEF Apart
  <2>5. h \in ToSet(hs) => ty[h] = NULL
    OBVIOUS
  <2>6. h \in ToSet(ls[q]) /\ h \in ToSet(ls[x]) => q = x
    BY DEF Apart
  <2> QED BY <2>1, <2>2, <2>3, <2>4, <2>5, <2>6
<1>7. \A q \in Promises : ToSet(ls[q]) \subseteq ToSet(us[q])
  BY <1>3 DEF Enlisted
<1> QED BY <1>3, <1>4, <1>5, <1>6, <1>7 DEF Apart

(* Those that wait together still do. *)
LEMMA EnlistTogether ==
  ASSUME NEW ls \in Lists, NEW us, NEW p \in Promises, NEW hs \in Seq(Handlers),
         Enlisted(ls, us, p, hs), NEW a, NEW b, a \notin ToSet(hs), b \notin ToSet(hs),
         Together(ls, a, b)
  PROVE  Together(us, a, b)
<1> SUFFICES ASSUME NEW q \in Promises, a \in ToSet(us[q]) \/ b \in ToSet(us[q])
             PROVE  Upto(us[q], a, b)
  BY DEF Together
<1>1. ls[q] \in Seq(Handlers) /\ ls[p] \in Seq(Handlers)
  BY DEF Lists
<1>2. a \in ToSet(ls[q]) \/ b \in ToSet(ls[q])
  <2>1. ls[p] \in Seq(Handlers)
    BY DEF Lists
  <2>2. ToSet(us[p]) = ToSet(ls[p]) \cup ToSet(hs)
    BY <2>1, ConcatElements DEF Enlisted
  <2> QED BY <2>2 DEF Enlisted
<1>3. Upto(ls[q], a, b)
  BY <1>2 DEF Together
<1> QED BY <1>1, <1>3, ConcatUpto DEF Enlisted

(* New handlers of a pending promise wait behind all that were added.      *)
LEMMA EnlistInTurn ==
  ASSUME NEW ls \in Lists, NEW us, NEW p \in Promises, NEW hs \in Seq(Handlers),
         Enlisted(ls, us, p, hs),
         NEW rs \in Lists, NEW rt, Enlisted(rs, rt, p, hs),
         NEW ty, NEW tz, Apart(us, tz), NEW vs \in [Handlers -> Nat], NEW gone,
         Unknown(ty, hs), Fresh(ty, vs, gone),
         ToSet(us[p]) = ToSet(ls[p]) \cup ToSet(hs),
         ToSet(rs[p]) \subseteq ToSet(ls[p]),
         Waiting(ls, ty, vs, gone, rs), InTurn(ls, vs, gone, rs)
  PROVE  InTurn(us, vs, gone, rt)
<1> USE DEF Unknown
<1> SUFFICES ASSUME NEW q \in Promises, NEW a \in Handlers, NEW b \in Handlers,
                    Upto(rt[q], a, b), ~Met(vs, gone, a)
             PROVE  ~Met(vs, gone, b) /\ Together(us, a, b)
  BY DEF InTurn
<1>1. rs[q] \in Seq(Handlers) /\ rs[p] \in Seq(Handlers) /\ ls[p] \in Seq(Handlers)
  BY DEF Lists
<1>2. Upto(rs[q], a, b) \/ (q = p /\ b \in ToSet(hs) /\ (Upto(hs, a, b) \/ a \in ToSet(rs[p])))
  <2>1. CASE q # p
    BY <2>1 DEF Enlisted
  <2>2. CASE q = p
    <3>1. Upto(rs[p], a, b) \/ Upto(hs, a, b) \/ (a \in ToSet(rs[p]) /\ b \in ToSet(hs))
      BY <1>1, <2>2, ConcatUpto DEF Enlisted
    <3>2. Upto(hs, a, b) => b \in ToSet(hs)
      BY UptoMembers
    <3> QED BY <2>2, <3>1, <3>2
  <2> QED BY <2>1, <2>2
<1>3. CASE Upto(rs[q], a, b)
  <2>1. ~Met(vs, gone, b) /\ Together(ls, a, b)
    BY <1>3 DEF InTurn
  <2>2. a \in ToSet(rs[q]) /\ b \in ToSet(rs[q])
    BY <1>1, <1>3, UptoMembers
  <2>3. ty[a] # NULL /\ ty[b] # NULL
    BY <2>2 DEF Waiting
  <2>4. a \notin ToSet(hs) /\ b \notin ToSet(hs)
    BY <2>3
  <2>5. Together(us, a, b)
    BY <2>1, <2>4, EnlistTogether
  <2> QED BY <2>1, <2>5
<1>4. CASE q = p /\ b \in ToSet(hs) /\ (Upto(hs, a, b) \/ a \in ToSet(rs[p]))
  <2>1. ~Met(vs, gone, b)
    BY <1>4 DEF Fresh, Met
  <2>2. Upto(us[p], a, b)
    BY <1>1, <1>4, ConcatUpto DEF Enlisted
  <2>3. a \in ToSet(us[p]) /\ b \in ToSet(us[p])
    BY <2>2, UptoMembers DEF Enlisted, Lists
  <2>4. Together(us, a, b)
    BY <2>2, <2>3 DEF Together, Apart
  <2> QED BY <2>1, <2>4
<1> QED BY <1>2, <1>3, <1>4

LEMMA EnlistWaiting ==
  ASSUME NEW ls \in Lists, NEW us, NEW p \in Promises, NEW hs \in Seq(Handlers),
         Enlisted(ls, us, p, hs),
         NEW rs \in Lists, NEW rt, Enlisted(rs, rt, p, hs),
         NEW ty, NEW tz, Recorded(ty, tz),
         Known(tz, hs), NEW vs, NEW gone,
         ToSet(us[p]) = ToSet(ls[p]) \cup ToSet(hs),
         Waiting(ls, ty, vs, gone, rs)
  PROVE  /\ Waiting(us, tz, vs, gone, rt)
         /\ ToSet(rt[p]) = ToSet(rs[p]) \cup ToSet(hs)
<1> USE DEF Recorded, Known
<1>1. rs[p] \in Seq(Handlers)
  BY DEF Lists
<1>2. ToSet(rt[p]) = ToSet(rs[p]) \cup ToSet(hs)
  BY <1>1, ConcatElements DEF Enlisted
<1>3. ASSUME NEW q \in Promises, NEW h \in ToSet(rt[q])
      PROVE  tz[h] # NULL /\ (Met(vs, gone, h) \/ \E x \in Promises : h \in ToSet(us[x]))
  <2>1. CASE h \in ToSet(rs[q])
    <3>1. h \in Handlers
      BY <2>1, ListedHandlers
    <3>2. ty[h] # NULL /\ (Met(vs, gone, h) \/ \E x \in Promises : h \in ToSet(ls[x]))
      BY <2>1 DEF Waiting
    <3>3. \A x \in Promises : ToSet(ls[x]) \subseteq ToSet(us[x])
      BY DEF Enlisted
    <3> QED BY <3>1, <3>2, <3>3
  <2>2. CASE h \in ToSet(hs)
    BY <2>2
  <2>3. h \in ToSet(rs[q]) \/ h \in ToSet(hs)
    BY <1>2, <1>3 DEF Enlisted
  <2> QED BY <2>1, <2>2, <2>3
<1> QED BY <1>2, <1>3 DEF Waiting

LEMMA HandOverElements ==
  ASSUME NEW ls \in Lists, NEW us, NEW p \in Promises, NEW r \in Promises, p # r,
         NEW hd \in Seq(Handlers), NEW tl \in Seq(Handlers), HandedOver(ls, us, p, r, hd, tl),
         NEW ty, Apart(ls, ty)
  PROVE  /\ Apart(us, ty)
         /\ ToSet(ls[p]) = ToSet(hd) \cup ToSet(tl) /\ ToSet(hd) \cap ToSet(tl) = {}
         /\ ToSet(us[r]) = ToSet(ls[r]) \cup ToSet(tl)
         /\ \A q \in Promises : \A h \in ToSet(ls[q]) : Listed(us, h)
<1>1. ls[r] \in Seq(Handlers) /\ ls[p] \in Seq(Handlers)
  BY DEF Lists
<1>2. /\ ToSet(ls[p]) = ToSet(hd) \cup ToSet(tl) /\ ToSet(hd) \cap ToSet(tl) = {}
      /\ IsInjective(hd) /\ IsInjective(tl)
  <2>1. IsInjective(hd \o tl) /\ ls[p] = hd \o tl
    BY DEF Apart, HandedOver
  <2> QED BY <2>1, ConcatElements
<1>3. ToSet(ls[r]) \cap ToSet(tl) = {}
  BY <1>2 DEF Apart
<1>4. ToSet(us[r]) = ToSet(ls[r]) \cup ToSet(tl) /\ IsInjective(us[r])
  BY <1>1, <1>2, <1>3, ConcatElements DEF Apart, HandedOver
<1>5. \A q \in Promises : IsInjective(us[q])
  BY <1>2, <1>4 DEF Apart, HandedOver
<1>6. ASSUME NEW q \in Promises, NEW h \in ToSet(us[q])
      PROVE  /\ h \in ToSet(ls[q]) \/ (q = r /\ h \in ToSet(tl) /\ h \in ToSet(ls[p]))
             /\ q = p => h \in ToSet(hd)
  BY <1>2, <1>4, <1>6 DEF HandedOver
<1>7. \A q \in Promises : \A h \in ToSet(us[q]) : ty[h] # NULL
  BY <1>6 DEF Apart
<1>8. ASSUME NEW q \in Promises, NEW x \in Promises, NEW h \in ToSet(us[q]), h \in ToSet(us[x])
      PROVE  q = x
  <2>1. \A y, z \in Promises : h \in ToSet(ls[y]) /\ h \in ToSet(ls[z]) => y = z
    BY DEF Apart
  <2>2. h \in ToSet(ls[q]) \/ (q = r /\ h \in ToSet(tl) /\ h \in ToSet(ls[p]))
    BY <1>6
  <2>3. h \in ToSet(ls[x]) \/ (x = r /\ h \in ToSet(tl) /\ h \in ToSet(ls[p]))
    BY <1>6, <1>8
  <2>4. (q = p => h \notin ToSet(tl)) /\ (x = p => h \notin ToSet(tl))
    BY <1>2, <1>6, <1>8
  <2> QED BY <2>1, <2>2, <2>3, <2>4
<1>9. ASSUME NEW h, NEW q \in Promises, h \in ToSet(ls[q])
      PROVE  Listed(us, h)
  <2>1. CASE q = p
    BY <1>2, <1>4, <1>9, <2>1 DEF HandedOver, Listed
  <2>2. CASE q # p
    BY <1>4, <1>9, <2>2 DEF HandedOver, Listed
  <2> QED BY <2>1, <2>2
<1> QED BY <1>2, <1>4, <1>5, <1>7, <1>8, <1>9 DEF Apart

LEMMA HandOverTogether ==
  ASSUME NEW ls \in Lists, NEW us, NEW p \in Promises, NEW r \in Promises, p # r,
         NEW hd \in Seq(Handlers), NEW tl \in Seq(Handlers), HandedOver(ls, us, p, r, hd, tl),
         NEW a, NEW b, a \notin ToSet(hd), b \notin ToSet(hd), Together(ls, a, b)
  PROVE  Together(us, a, b)
<1> SUFFICES ASSUME NEW q \in Promises, a \in ToSet(us[q]) \/ b \in ToSet(us[q])
             PROVE  Upto(us[q], a, b)
  BY DEF Together
<1>1. ls[q] \in Seq(Handlers) /\ ls[r] \in Seq(Handlers)
  BY DEF Lists
<1>2. CASE q # p /\ q # r
  BY <1>2 DEF Together, HandedOver
<1>3. CASE q = p
  BY <1>3 DEF HandedOver
<1>4. CASE q = r
  <2>1. ToSet(us[r]) = ToSet(ls[r]) \cup ToSet(tl) /\ ToSet(ls[p]) = ToSet(hd) \cup ToSet(tl)
    BY <1>1, ConcatElements DEF HandedOver
  <2>2. CASE a \in ToSet(ls[r]) \/ b \in ToSet(ls[r])
    <3>1. Upto(ls[r], a, b)
      BY <2>2 DEF Together
    <3> QED BY <1>1, <1>4, <3>1, ConcatUpto DEF HandedOver
  <2>3. CASE a \in ToSet(tl) \/ b \in ToSet(tl)
    <3>1. Upto(ls[p], a, b)
      BY <2>1, <2>3 DEF Together
    <3>2. Upto(hd, a, b) \/ Upto(tl, a, b) \/ (a \in ToSet(hd) /\ b \in ToSet(tl))
      BY <3>1, ConcatUpto DEF HandedOver
    <3>3. Upto(hd, a, b) => a \in ToSet(hd)
      BY UptoMembers
    <3>4. Upto(tl, a, b)
      BY <3>2, <3>3
    <3> QED BY <1>1, <1>4, <3>4, ConcatUpto DEF HandedOver
  <2> QED BY <1>4, <2>1, <2>2, <2>3
<1> QED BY <1>2, <1>3, <1>4

LEMMA HandOverHistories ==
  ASSUME NEW ls \in Lists, NEW us, NEW p \in Promises, NEW r \in Promises, p # r,
         NEW hd \in Seq(Handlers), NEW tl \in Seq(Handlers), HandedOver(ls, us, p, r, hd, tl),
         NEW ty, Apart(ls, ty), NEW vs, NEW gone, NEW rs \in Lists, NEW stt,
         Visited(vs, hd), stt[p] # Pending,
         Waiting(ls, ty, vs, gone, rs), InTurn(ls, vs, gone, rs), AllThere(stt, ls, rs)
  PROVE  Waiting(us, ty, vs, gone, rs) /\ InTurn(us, vs, gone, rs) /\ AllThere(stt, us, rs)
<1> USE DEF Visited
<1>1. /\ ToSet(us[r]) = ToSet(ls[r]) \cup ToSet(tl)
      /\ \A q \in Promises : \A h \in ToSet(ls[q]) : Listed(us, h)
  BY HandOverElements
<1>2. Waiting(us, ty, vs, gone, rs)
  <2> SUFFICES ASSUME NEW q \in Promises, NEW h \in ToSet(rs[q])
               PROVE  ty[h] # NULL /\ (Met(vs, gone, h) \/ \E x \in Promises : h \in ToSet(us[x]))
    BY DEF Waiting
  <2>1. ty[h] # NULL /\ (Met(vs, gone, h) \/ \E x \in Promises : h \in ToSet(ls[x]))
    BY DEF Waiting
  <2> QED BY <1>1, <2>1 DEF Listed
<1>3. InTurn(us, vs, gone, rs)
  <2> SUFFICES ASSUME NEW q \in Promises, NEW a \in Handlers, NEW b \in Handlers,
                      Upto(rs[q], a, b), ~Met(vs, gone, a)
               PROVE  ~Met(vs, gone, b) /\ Together(us, a, b)
    BY DEF InTurn
  <2>1. ~Met(vs, gone, b) /\ Together(ls, a, b)
    BY DEF InTurn
  <2>2. a \notin ToSet(hd) /\ b \notin ToSet(hd)
    BY <2>1 DEF Met
  <2> QED BY <2>1, <2>2, HandOverTogether
<1>4. AllThere(stt, us, rs)
  <2> SUFFICES ASSUME NEW q \in Promises, stt[q] = Pending PROVE ToSet(rs[q]) \subseteq ToSet(us[q])
    BY DEF AllThere
  <2>1. ToSet(rs[q]) \subseteq ToSet(ls[q]) /\ q # p
    BY DEF AllThere
  <2> QED BY <1>1, <2>1 DEF HandedOver
<1> QED BY <1>2, <1>3, <1>4

(* A handler is met when those before it in its list were met. *)
LEMMA VisitHistories ==
  ASSUME NEW ls, NEW ty, NEW vs, NEW vt, NEW gone, NEW rs,
         NEW p \in Promises, NEW h \in ToSet(ls[p]), vt[h] > 0,
         Elsewhere(vs, vt, h),
         \A x \in Handlers : Upto(ls[p], x, h) => x = h \/ vs[x] > 0,
         rs \in Lists, Waiting(ls, ty, vs, gone, rs), InTurn(ls, vs, gone, rs)
  PROVE  Waiting(ls, ty, vt, gone, rs) /\ InTurn(ls, vt, gone, rs)
<1> USE DEF Elsewhere
<1>1. \A x \in Handlers : Met(vs, gone, x) => Met(vt, gone, x)
  BY DEF Met
<1>2. Waiting(ls, ty, vt, gone, rs)
  <2> SUFFICES ASSUME NEW q \in Promises, NEW x \in ToSet(rs[q])
               PROVE  ty[x] # NULL /\ (Met(vt, gone, x) \/ \E y \in Promises : x \in ToSet(ls[y]))
    BY DEF Waiting
  <2>1. ty[x] # NULL /\ (Met(vs, gone, x) \/ \E y \in Promises : x \in ToSet(ls[y]))
    BY DEF Waiting
  <2>2. x \in Handlers
    BY ListedHandlers
  <2> QED BY <1>1, <2>1, <2>2
<1>3. InTurn(ls, vt, gone, rs)
  <2> SUFFICES ASSUME NEW q \in Promises, NEW a \in Handlers, NEW b \in Handlers,
                      Upto(rs[q], a, b), ~Met(vt, gone, a)
               PROVE  ~Met(vt, gone, b) /\ Together(ls, a, b)
    BY DEF InTurn
  <2>1. ~Met(vs, gone, a) /\ a # h
    BY <1>1 DEF Met
  <2>2. ~Met(vs, gone, b) /\ Together(ls, a, b)
    BY <2>1 DEF InTurn
  <2>3. b # h
    <3> SUFFICES ASSUME b = h PROVE FALSE
      OBVIOUS
    <3>1. Upto(ls[p], a, h)
      BY <2>2 DEF Together
    <3> QED BY <2>1, <3>1 DEF Met
  <2> QED BY <2>2, <2>3 DEF Met
<1> QED BY <1>2, <1>3

(* A handler that is called directly was never added to a list. *)
LEMMA CallHistories ==
  ASSUME NEW ls, NEW ty, NEW tz, NEW vs, NEW vt, NEW gone, NEW rs \in Lists,
         NEW h \in Handlers, ty[h] = NULL, Recorded(ty, tz),
         Elsewhere(vs, vt, h),
         Waiting(ls, ty, vs, gone, rs), InTurn(ls, vs, gone, rs)
  PROVE  Waiting(ls, tz, vt, gone, rs) /\ InTurn(ls, vt, gone, rs)
<1> USE DEF Recorded, Elsewhere
<1>1. ASSUME NEW q \in Promises, NEW x \in ToSet(rs[q])
      PROVE  /\ x \in Handlers /\ x # h /\ tz[x] # NULL /\ (Met(vt, gone, x) <=> Met(vs, gone, x))
             /\ Met(vs, gone, x) \/ \E y \in Promises : x \in ToSet(ls[y])
  <2>1. x \in Handlers
    BY ListedHandlers
  <2>2. ty[x] # NULL /\ (Met(vs, gone, x) \/ \E y \in Promises : x \in ToSet(ls[y]))
    BY DEF Waiting
  <2> QED BY <2>1, <2>2 DEF Met
<1>2. Waiting(ls, tz, vt, gone, rs)
  BY <1>1 DEF Waiting
<1>3. InTurn(ls, vt, gone, rs)
  <2> SUFFICES ASSUME NEW q \in Promises, NEW a \in Handlers, NEW b \in Handlers,
                      Upto(rs[q], a, b), ~Met(vt, gone, a)
               PROVE  ~Met(vt, gone, b) /\ Together(ls, a, b)
    BY DEF InTurn
  <2>1. rs[q] \in Seq(Handlers)
    BY DEF Lists
  <2>2. a \in ToSet(rs[q]) /\ b \in ToSet(rs[q])
    BY <2>1, UptoMembers
  <2>3. ~Met(vs, gone, a)
    BY <1>1, <2>2
  <2>4. ~Met(vs, gone, b) /\ Together(ls, a, b)
    BY <2>3 DEF InTurn
  <2> QED BY <1>1, <2>2, <2>4
<1> QED BY <1>2, <1>3

LEMMA EmptyApart ==
  ASSUME NEW ls \in Lists, NEW us, NEW p \in Promises, Emptied(ls, us, p), NEW ty, Apart(ls, ty)
  PROVE  Apart(us, ty)
<1>1. \A q \in Promises : us[q] = ls[q] \/ us[q] = <<>>
  BY DEF Emptied
<1>2. IsInjective(<<>>) /\ ToSet(<<>>) = {}
  BY DEF IsInjective, ToSet
<1>3. \A q \in Promises : IsInjective(us[q]) /\ ToSet(us[q]) \subseteq ToSet(ls[q])
  BY <1>1, <1>2 DEF Apart
<1> QED BY <1>3 DEF Apart

(* The handlers of list l that no firing met are freed with it. *)
FreedToo(gone, dead, l, vs) == dead = gone \cup {h \in ToSet(l) : vs[h] = 0}

LEMMA EmptyHistories ==
  ASSUME NEW ls \in Lists, NEW us, NEW p \in Promises, Emptied(ls, us, p),
         NEW ty, NEW vs \in [Handlers -> Nat], NEW gone, NEW rs \in Lists, NEW stt, stt[p] # Pending,
         NEW dead, FreedToo(gone, dead, ls[p], vs),
         Waiting(ls, ty, vs, gone, rs), InTurn(ls, vs, gone, rs), AllThere(stt, ls, rs)
  PROVE  Waiting(us, ty, vs, dead, rs) /\ InTurn(us, vs, dead, rs) /\ AllThere(stt, us, rs)
<1> USE DEF FreedToo
<1>1. \A h \in ToSet(ls[p]) : Met(vs, dead, h)
  <2> SUFFICES ASSUME NEW h \in ToSet(ls[p]), vs[h] # 0 PROVE vs[h] > 0
    BY DEF Met
  <2> QED BY ListedHandlers
<1>2. \A h : Met(vs, gone, h) => Met(vs, dead, h)
  BY DEF Met
<1>3. Waiting(us, ty, vs, dead, rs)
  <2> SUFFICES ASSUME NEW q \in Promises, NEW h \in ToSet(rs[q])
               PROVE  ty[h] # NULL /\ (Met(vs, dead, h) \/ \E x \in Promises : h \in ToSet(us[x]))
    BY DEF Waiting
  <2>1. ty[h] # NULL /\ (Met(vs, gone, h) \/ \E x \in Promises : h \in ToSet(ls[x]))
    BY DEF Waiting
  <2> QED BY <1>1, <1>2, <2>1 DEF Emptied
<1>4. InTurn(us, vs, dead, rs)
  <2> SUFFICES ASSUME NEW q \in Promises, NEW a \in Handlers, NEW b \in Handlers,
                      Upto(rs[q], a, b), ~Met(vs, dead, a)
               PROVE  ~Met(vs, dead, b) /\ Together(us, a, b)
    BY DEF InTurn
  <2>1. ~Met(vs, gone, a) /\ a \notin ToSet(ls[p])
    BY <1>1, <1>2
  <2>2. ~Met(vs, gone, b) /\ Together(ls, a, b)
    BY <2>1 DEF InTurn
  <2>3. ls[p] \in Seq(Handlers)
    BY DEF Lists
  <2>4. b \notin ToSet(ls[p])
    <3> SUFFICES ASSUME b \in ToSet(ls[p]) PROVE FALSE
      OBVIOUS
    <3>1. Upto(ls[p], a, b)
      BY <2>2 DEF Together
    <3> QED BY <2>1, <2>3, <3>1, UptoMembers
  <2>5. ~Met(vs, dead, b)
    BY <2>2, <2>4 DEF Met
  <2>6. ToSet(us[p]) = {}
    BY DEF Emptied, ToSet
  <2>7. Together(us, a, b)
    BY <2>2, <2>6 DEF Together, Emptied
  <2> QED BY <2>5, <2>7
<1>5. AllThere(stt, us, rs)
  BY DEF AllThere, Emptied
<1> QED BY <1>3, <1>4, <1>5

-----------------------------------------------------------------------------
(* What happens to the stack: a frame is put on top, or in the place of    *)
(* the innermost, or this one is left.                                     *)
Pushed(st, su, f) ==
  /\ su \in Seq(FrameType)
  /\ Len(su) = Len(st) + 1 /\ DOMAIN su = 1 .. Len(st) + 1
  /\ \A i \in 1 .. Len(st) : su[i] = st[i]
  /\ su[Len(st) + 1] = f

Swapped(st, su, f) ==
  /\ su \in Seq(FrameType) /\ Len(st) > 0
  /\ Len(su) = Len(st) /\ DOMAIN su = 1 .. Len(st)
  /\ \A i \in 1 .. Len(st) : i # Len(st) => su[i] = st[i]
  /\ su[Len(st)] = f

Popped(st, su) ==
  /\ su \in Seq(FrameType) /\ Len(st) > 0
  /\ Len(su) = Len(st) - 1 /\ DOMAIN su = 1 .. Len(st) - 1
  /\ \A i \in 1 .. Len(st) - 1 : su[i] = st[i]

LEMMA StackDomain ==
  ASSUME NEW st \in Seq(FrameType)
  PROVE  /\ Len(st) \in Nat /\ DOMAIN st = 1 .. Len(st)
         /\ \A i \in 1 .. Len(st) : st[i] \in FrameType
         /\ st # <<>> => Len(st) \in 1 .. Len(st) /\ Len(st) > 0
<1>1. Len(st) \in Nat /\ DOMAIN st = 1 .. Len(st) /\ \A i \in 1 .. Len(st) : st[i] \in FrameType
  BY LenProperties, ElementOfSeq
<1>2. st # <<>> => Len(st) # 0
  BY EmptySeq
<1> QED BY <1>1, <1>2

LEMMA PushIs ==
  ASSUME NEW st \in Seq(FrameType), NEW f \in FrameType
  PROVE  Pushed(st, Append(st, f), f)
<1> DEFINE su == Append(st, f)
<1>1. /\ su \in Seq(FrameType) /\ Len(su) = Len(st) + 1
      /\ \A i \in 1 .. Len(st) : su[i] = st[i]
      /\ su[Len(st) + 1] = f
  BY AppendProperties
<1> HIDE DEF su
<1>2. DOMAIN su = 1 .. Len(st) + 1
  BY <1>1, LenProperties
<1>3. Pushed(st, su, f)
  BY <1>1, <1>2 DEF Pushed
<1> QED BY <1>3 DEF su

LEMMA PushedFrames ==
  ASSUME NEW st \in Seq(FrameType), NEW su, NEW f, Pushed(st, su, f), NEW n, n = Len(st) + 1
  PROVE  /\ Len(st) \in Nat /\ DOMAIN st = 1 .. Len(st) /\ \A i \in DOMAIN st : st[i] \in FrameType
         /\ n \in DOMAIN su /\ Len(su) = n /\ DOMAIN su = 1 .. n
         /\ \A i \in DOMAIN st : i \in DOMAIN su /\ su[i] = st[i] /\ i < n /\ i # n
         /\ \A i \in DOMAIN su : i = n \/ i \in DOMAIN st
<1>1. Len(st) \in Nat /\ DOMAIN st = 1 .. Len(st) /\ \A i \in 1 .. Len(st) : st[i] \in FrameType
  BY StackDomain
<1>2. Len(su) = n /\ DOMAIN su = 1 .. n /\ \A i \in 1 .. Len(st) : su[i] = st[i]
  BY DEF Pushed
<1>3. n \in 1 .. n /\ \A i \in 1 .. Len(st) : i \in 1 .. n /\ i < n /\ i # n
  BY <1>1
<1>4. \A i \in 1 .. n : i = n \/ i \in 1 .. Len(st)
  BY <1>1
<1> QED BY <1>1, <1>2, <1>3, <1>4

LEMMA PoppedFrames ==
  ASSUME NEW st \in Seq(FrameType), NEW su, Popped(st, su), NEW n, n = Len(st)
  PROVE  /\ n \in DOMAIN st /\ DOMAIN st = 1 .. n /\ n \in Nat /\ \A i \in DOMAIN st : st[i] \in FrameType
         /\ DOMAIN su = 1 .. n - 1 /\ Len(su) = n - 1
         /\ \A i \in DOMAIN su : i \in DOMAIN st /\ su[i] = st[i] /\ i < n /\ i # n
         /\ \A i \in DOMAIN st : i = n \/ i \in DOMAIN su
<1>1. n \in Nat /\ n > 0 /\ DOMAIN st = 1 .. n /\ \A i \in 1 .. n : st[i] \in FrameType
  BY StackDomain DEF Popped
<1>2. Len(su) = n - 1 /\ DOMAIN su = 1 .. n - 1 /\ \A i \in 1 .. n - 1 : su[i] = st[i]
  BY DEF Popped
<1>3. n \in 1 .. n /\ \A i \in 1 .. n - 1 : i \in 1 .. n /\ i < n /\ i # n
  BY <1>1
<1>4. \A i \in 1 .. n : i = n \/ i \in 1 .. n - 1
  BY <1>1
<1> QED BY <1>1, <1>2, <1>3, <1>4

LEMMA SwappedFrames ==
  ASSUME NEW st \in Seq(FrameType), NEW su, NEW f, Swapped(st, su, f), NEW n, n = Len(st)
  PROVE  /\ n \in DOMAIN st /\ DOMAIN st = 1 .. n /\ n \in Nat /\ \A i \in DOMAIN st : st[i] \in FrameType
         /\ DOMAIN su = DOMAIN st /\ Len(su) = n /\ su[n] = f
         /\ \A i \in DOMAIN st : i # n => su[i] = st[i] /\ i < n
<1>1. n \in Nat /\ n > 0 /\ DOMAIN st = 1 .. n /\ \A i \in 1 .. n : st[i] \in FrameType
  BY StackDomain DEF Swapped
<1>2. Len(su) = n /\ DOMAIN su = 1 .. n /\ su[n] = f /\ \A i \in 1 .. n : i # n => su[i] = st[i]
  BY DEF Swapped
<1>3. n \in 1 .. n /\ \A i \in 1 .. n : i # n => i < n
  BY <1>1
<1> QED BY <1>1, <1>2, <1>3

LEMMA BelowIs ==
  ASSUME NEW st \in Seq(FrameType), st # <<>>
  PROVE  /\ Popped(st, SubSeq(st, 1, Len(st) - 1))
         /\ \A f \in FrameType : Swapped(st, Append(SubSeq(st, 1, Len(st) - 1), f), f)
<1> DEFINE n == Len(st)
           su == SubSeq(st, 1, n - 1)
<1>1. n \in Nat /\ n > 0 /\ n - 1 \in Nat /\ 1 .. n - 1 \subseteq 1 .. n
  BY StackDomain
<1>2. \A i \in 1 .. n - 1 : st[i] \in FrameType
  BY <1>1, StackDomain
<1>3. /\ su \in Seq(FrameType)
      /\ Len(su) = IF 1 <= n - 1 THEN n - 1 - 1 + 1 ELSE 0
      /\ \A i \in 1 .. n - 1 - 1 + 1 : su[i] = st[1 + i - 1]
  BY <1>1, <1>2, SubSeqProperties
<1> HIDE DEF su, n
<1>4. Len(su) = n - 1 /\ n - 1 - 1 + 1 = n - 1 /\ \A i \in 1 .. n - 1 : 1 + i - 1 = i
  BY <1>1, <1>3
<1>5. \A i \in 1 .. n - 1 : su[i] = st[i]
  BY <1>3, <1>4
<1>6. DOMAIN su = 1 .. n - 1
  BY <1>3, <1>4, StackDomain
<1>7. Popped(st, su)
  BY <1>1, <1>3, <1>4, <1>5, <1>6 DEF Popped, n
<1>8. ASSUME NEW f \in FrameType PROVE Swapped(st, Append(su, f), f)
  <2>1. Pushed(su, Append(su, f), f)
    BY <1>3, PushIs
  <2>2. Len(su) + 1 = n /\ \A i \in 1 .. n : i # n => i \in 1 .. n - 1
    BY <1>1, <1>4
  <2>3. /\ Append(su, f) \in Seq(FrameType) /\ Len(Append(su, f)) = n /\ DOMAIN Append(su, f) = 1 .. n
        /\ \A i \in 1 .. n - 1 : Append(su, f)[i] = su[i]
        /\ Append(su, f)[n] = f
    BY <1>4, <2>1, <2>2 DEF Pushed
  <2> QED BY <1>1, <1>5, <2>2, <2>3 DEF Swapped, n
<1> QED BY <1>7, <1>8 DEF su, n

-----------------------------------------------------------------------------
(* Every frame stands on a handler: another may be put on top.             *)
Standing(st) == \A i \in DOMAIN st : st[i].at # NULL

LEMMA StandingWhen ==
  ASSUME NEW st \in Seq(FrameType), NEW ty, FramesRight(st, ty),
         st = <<>> \/ (st # <<>> /\ st[Len(st)].at # NULL)
  PROVE  Standing(st)
<1>1. CASE st = <<>>
  BY <1>1 DEF Standing
<1>2. CASE st # <<>> /\ st[Len(st)].at # NULL
  BY <1>2 DEF Standing, FramesRight
<1> QED BY <1>1, <1>2

(* New handlers behind those of a pending promise. *)
LEMMA EnlistFrames ==
  ASSUME NEW st \in Seq(FrameType), NEW stt, NEW ls \in Lists, NEW us, NEW p \in Promises,
         NEW hs \in Seq(Handlers), Enlisted(ls, us, p, hs),
         NEW ty, NEW tz, Recorded(ty, tz),
         Unknown(ty, hs),
         NEW vs \in [Handlers -> Nat], NEW gone, Fresh(ty, vs, gone), NEW once,
         ToSet(us[p]) = ToSet(ls[p]) \cup ToSet(hs),
         stt[p] = Pending, FramesInv(st, stt, ls, ty, vs, once)
  PROVE  FramesInv(st, stt, us, tz, vs, once)
<1> USE DEF Recorded, Unknown
<1>0. DOMAIN st = 1 .. Len(st) /\ \A i \in DOMAIN st : st[i] \in FrameType
  BY StackDomain
<1>1. ~Fires(st, p)
  BY DEF FramesInv, FiringRight
<1>2. \A i \in DOMAIN st : st[i].p # p
  BY <1>1 DEF Fires
<1>3. \A i \in DOMAIN st : st[i].p # NULL => st[i].p \in Promises /\ us[st[i].p] = ls[st[i].p]
  BY <1>0, <1>2 DEF FrameType, Enlisted
<1>4. FramesRight(st, tz)
  BY <1>0 DEF FramesInv, FramesRight, FrameType
<1>5. FiringRight(st, stt, us)
  BY DEF FramesInv, FiringRight, Enlisted
<1>6. BehindMet(st, us, vs)
  BY <1>3 DEF FramesInv, BehindMet
<1>7. ASSUME FiredOnce(st, ls, vs) PROVE FiredOnce(st, us, vs)
  <2>1. \A i \in DOMAIN st : st[i].p # NULL /\ st[i].at # NULL => st[i].at \in ToSet(us[st[i].p])
    BY <1>3, <1>7 DEF FiredOnce
  <2>2. ASSUME NEW i \in DOMAIN st, st[i].p = NULL, NEW q \in Promises PROVE st[i].at \notin ToSet(us[q])
    <3>1. st[i].at \notin ToSet(ls[q])
      BY <1>7, <2>2 DEF FiredOnce
    <3>2. st[i].at # NULL /\ ty[st[i].at] # NULL
      BY <2>2 DEF FramesInv, FramesRight
    <3> QED BY <3>1, <3>2 DEF Enlisted
  <2>3. ASSUME NEW q \in Promises, NEW h \in ToSet(us[q]), vs[h] > 0
        PROVE  \E i \in DOMAIN st : st[i].p = q /\ st[i].at # NULL /\ Upto(us[q], h, st[i].at)
    <3>1. h \notin ToSet(hs)
      <4> SUFFICES ASSUME h \in ToSet(hs) PROVE FALSE
        OBVIOUS
      <4>1. h \in Handlers
        BY DEF ToSet
      <4>2. vs[h] = 0
        BY <4>1 DEF Fresh
      <4> QED BY <2>3, <4>2
    <3>2. h \in ToSet(ls[q])
      BY <3>1 DEF Enlisted
    <3>3. PICK i \in DOMAIN st : st[i].p = q /\ st[i].at # NULL /\ Upto(ls[q], h, st[i].at)
      BY <1>7, <2>3, <3>2 DEF FiredOnce
    <3>4. us[q] = ls[q]
      BY <1>2, <3>3 DEF Enlisted
    <3> QED BY <3>3, <3>4
  <2> QED BY <1>7, <2>1, <2>2, <2>3 DEF FiredOnce
<1> QED BY <1>4, <1>5, <1>6, <1>7 DEF FramesInv

LEMMA Promised ==
  ASSUME PromiseAssumption
  PROVE  NULL \notin Promises /\ NULL \notin Handlers /\ NULL \notin States
BY DEF PromiseAssumption

LEMMA FrameFields ==
  ASSUME NEW p, NEW at, NEW ph
  PROVE  Frame(p, at, ph).p = p /\ Frame(p, at, ph).at = at /\ Frame(p, at, ph).phase = ph
BY DEF Frame

(* A handler that is called directly. *)
LEMMA CallFrames ==
  ASSUME PromiseAssumption, NEW st \in Seq(FrameType), Standing(st), NEW su, NEW h \in Handlers,
         Pushed(st, su, Frame(NULL, h, "body")), NEW stt, NEW ls \in Lists,
         NEW ty, NEW tz, ty[h] = NULL, tz[h] # NULL,
         Recorded(ty, tz), Apart(ls, ty),
         NEW vs \in [Handlers -> Nat], NEW gone, Fresh(ty, vs, gone),
         NEW vt \in [Handlers -> Nat], Elsewhere(vs, vt, h), vt[h] = vs[h] + 1, NEW once,
         FramesInv(st, stt, ls, ty, vs, once)
  PROVE  FramesInv(su, stt, ls, tz, vt, once)
<1> USE DEF Recorded, Elsewhere
<1> DEFINE n == Len(st) + 1
<1>0. /\ Len(st) \in Nat /\ DOMAIN st = 1 .. Len(st) /\ \A i \in DOMAIN st : st[i] \in FrameType
      /\ n \in DOMAIN su /\ Len(su) = n /\ DOMAIN su = 1 .. n
      /\ \A i \in DOMAIN st : i \in DOMAIN su /\ su[i] = st[i] /\ i < n /\ i # n
      /\ \A i \in DOMAIN su : i = n \/ i \in DOMAIN st
  BY PushedFrames
<1>1. su[n].p = NULL /\ su[n].at = h /\ su[n].phase = "body"
  BY FrameFields DEF Pushed
<1> HIDE DEF n
<1>2. h # NULL
  BY Promised
<1>3. FramesRight(su, tz)
  <2> SUFFICES ASSUME NEW i \in DOMAIN su
               PROVE  /\ su[i].at = NULL => i = Len(su) /\ su[i].phase = "scan" /\ su[i].p # NULL
                      /\ su[i].p = NULL => su[i].phase = "body"
                      /\ su[i].at # NULL => tz[su[i].at] # NULL
    BY DEF FramesRight
  <2>1. CASE i = n
    BY <1>1, <1>2, <2>1
  <2>2. CASE i \in DOMAIN st
    <3>1. su[i] = st[i] /\ st[i].at # NULL /\ st[i].at \in Handlers
      BY <1>0, <2>2 DEF Standing, FrameType
    <3> QED BY <2>2, <3>1 DEF FramesInv, FramesRight
  <2> QED BY <1>0, <2>1, <2>2
<1>4. FiringRight(su, stt, ls)
  <2>1. ASSUME NEW p \in Promises PROVE Fires(su, p) <=> Fires(st, p)
    <3>1. p # NULL
      BY Promised
    <3> QED BY <1>0, <1>1, <3>1 DEF Fires
  <2> QED BY <2>1 DEF FramesInv, FiringRight
<1>5. \A x \in Handlers : vt[x] >= vs[x] /\ (x # h => vt[x] = vs[x])
  OBVIOUS
<1>6. BehindMet(su, ls, vt)
  <2> SUFFICES ASSUME NEW i \in DOMAIN su, su[i].p # NULL, su[i].at # NULL, Innermost(su, i),
                      NEW x \in Handlers, Upto(ls[su[i].p], x, su[i].at)
               PROVE  vt[x] > 0
    BY DEF BehindMet
  <2>1. i \in DOMAIN st /\ su[i] = st[i]
    BY <1>0, <1>1
  <2>2. Innermost(st, i)
    BY <1>0, <2>1 DEF Innermost
  <2>3. vs[x] > 0
    BY <2>1, <2>2 DEF FramesInv, BehindMet
  <2> QED BY <1>5, <2>3
<1>7. ASSUME FiredOnce(st, ls, vs) PROVE FiredOnce(su, ls, vt)
  <2>0. \A q \in Promises : h \notin ToSet(ls[q])
    BY DEF Apart
  <2>1. \A i, j \in DOMAIN su : su[i].p = su[j].p /\ su[i].p # NULL => i = j
    BY <1>0, <1>1, <1>7 DEF FiredOnce
  <2>2. \A i \in DOMAIN st : st[i].at # h
    BY DEF FramesInv, FramesRight, Standing
  <2>3. \A i, j \in DOMAIN su : su[i].at = su[j].at /\ su[i].at # NULL => i = j
    BY <1>0, <1>1, <1>7, <2>2 DEF FiredOnce
  <2>4. \A i \in DOMAIN su : su[i].p # NULL /\ su[i].at # NULL => su[i].at \in ToSet(ls[su[i].p])
    BY <1>0, <1>1, <1>7 DEF FiredOnce
  <2>5. \A i \in DOMAIN su : su[i].p = NULL => \A q \in Promises : su[i].at \notin ToSet(ls[q])
    BY <1>0, <1>1, <1>7, <2>0 DEF FiredOnce
  <2>6. \A x \in Handlers : vt[x] <= 1
    <3>1. vs[h] = 0
      BY DEF Fresh
    <3>2. \A x \in Handlers : vs[x] <= 1
      BY <1>7 DEF FiredOnce
    <3> QED BY <3>1, <3>2
  <2>7. ASSUME NEW q \in Promises, NEW x \in ToSet(ls[q]), vt[x] > 0
        PROVE  \E i \in DOMAIN su : su[i].p = q /\ su[i].at # NULL /\ Upto(ls[q], x, su[i].at)
    <3>1. x # h /\ x \in Handlers
      BY <2>0, ListedHandlers
    <3>2. vs[x] > 0
      BY <1>5, <2>7, <3>1
    <3>3. PICK i \in DOMAIN st : st[i].p = q /\ st[i].at # NULL /\ Upto(ls[q], x, st[i].at)
      BY <1>7, <3>2 DEF FiredOnce
    <3> QED BY <1>0, <3>3
  <2> QED BY <2>1, <2>3, <2>4, <2>5, <2>6, <2>7 DEF FiredOnce
<1> QED BY <1>3, <1>4, <1>6, <1>7 DEF FramesInv

(* p is settled, and no other promise. *)
SettledNow(stt, sv, p) ==
  /\ sv[p] # Pending
  /\ \A q \in Promises : q # p => sv[q] = stt[q]

(* A pending promise is settled, and fires. *)
LEMMA FireFrames ==
  ASSUME PromiseAssumption, NEW st \in Seq(FrameType), Standing(st), NEW su, NEW p \in Promises,
         Pushed(st, su, Fire(p)), NEW stt, stt[p] = Pending,
         NEW sv, SettledNow(stt, sv, p),
         NEW ls, NEW ty, NEW vs, NEW once, FramesInv(st, stt, ls, ty, vs, once)
  PROVE  FramesInv(su, sv, ls, ty, vs, once)
<1> DEFINE n == Len(st) + 1
<1>0. /\ Len(st) \in Nat /\ DOMAIN st = 1 .. Len(st) /\ \A i \in DOMAIN st : st[i] \in FrameType
      /\ n \in DOMAIN su /\ Len(su) = n /\ DOMAIN su = 1 .. n
      /\ \A i \in DOMAIN st : i \in DOMAIN su /\ su[i] = st[i] /\ i < n /\ i # n
      /\ \A i \in DOMAIN su : i = n \/ i \in DOMAIN st
  BY PushedFrames
<1>1. su[n].p = p /\ su[n].at = NULL /\ su[n].phase = "scan"
  BY FrameFields DEF Pushed, Fire
<1> HIDE DEF n
<1>2. p # NULL /\ sv[p] # Pending
  BY Promised DEF SettledNow
<1>3. ~Fires(st, p)
  BY DEF FramesInv, FiringRight
<1>4. FramesRight(su, ty)
  <2> SUFFICES ASSUME NEW i \in DOMAIN su
               PROVE  /\ su[i].at = NULL => i = Len(su) /\ su[i].phase = "scan" /\ su[i].p # NULL
                      /\ su[i].p = NULL => su[i].phase = "body"
                      /\ su[i].at # NULL => ty[su[i].at] # NULL
    BY DEF FramesRight
  <2>1. CASE i = n
    BY <1>0, <1>1, <1>2, <2>1
  <2>2. CASE i \in DOMAIN st
    <3>1. su[i] = st[i] /\ st[i].at # NULL
      BY <1>0, <2>2 DEF Standing
    <3> QED BY <2>2, <3>1 DEF FramesInv, FramesRight
  <2> QED BY <1>0, <2>1, <2>2
<1>5. FiringRight(su, sv, ls)
  <2>1. \A q \in Promises : Fires(su, q) <=> Fires(st, q) \/ q = p
    BY <1>0, <1>1 DEF Fires
  <2>2. \A q \in Promises : q # p => sv[q] = stt[q]
    BY DEF SettledNow
  <2> QED BY <1>2, <2>1, <2>2 DEF FramesInv, FiringRight
<1>6. BehindMet(su, ls, vs)
  <2> SUFFICES ASSUME NEW i \in DOMAIN su, su[i].p # NULL, su[i].at # NULL, Innermost(su, i),
                      NEW x \in Handlers, Upto(ls[su[i].p], x, su[i].at)
               PROVE  vs[x] > 0
    BY DEF BehindMet
  <2>1. i \in DOMAIN st /\ su[i] = st[i]
    BY <1>0, <1>1
  <2>2. Innermost(st, i)
    BY <1>0, <2>1 DEF Innermost
  <2> QED BY <2>1, <2>2 DEF FramesInv, BehindMet
<1>7. ASSUME FiredOnce(st, ls, vs) PROVE FiredOnce(su, ls, vs)
  <2>1. \A i \in DOMAIN st : st[i].p # p
    BY <1>3 DEF Fires
  <2>2. \A i, j \in DOMAIN su : su[i].p = su[j].p /\ su[i].p # NULL => i = j
    BY <1>0, <1>1, <1>7, <2>1 DEF FiredOnce
  <2>3. \A i, j \in DOMAIN su : su[i].at = su[j].at /\ su[i].at # NULL => i = j
    BY <1>0, <1>1, <1>7 DEF FiredOnce
  <2>4. \A i \in DOMAIN su : su[i].p # NULL /\ su[i].at # NULL => su[i].at \in ToSet(ls[su[i].p])
    BY <1>0, <1>1, <1>7 DEF FiredOnce
  <2>5. \A i \in DOMAIN su : su[i].p = NULL => \A q \in Promises : su[i].at \notin ToSet(ls[q])
    BY <1>0, <1>1, <1>2, <1>7 DEF FiredOnce
  <2>6. ASSUME NEW q \in Promises, NEW x \in ToSet(ls[q]), vs[x] > 0
        PROVE  \E i \in DOMAIN su : su[i].p = q /\ su[i].at # NULL /\ Upto(ls[q], x, su[i].at)
    <3>1. PICK i \in DOMAIN st : st[i].p = q /\ st[i].at # NULL /\ Upto(ls[q], x, st[i].at)
      BY <1>7, <2>6 DEF FiredOnce
    <3> QED BY <1>0, <3>1
  <2> QED BY <1>7, <2>2, <2>3, <2>4, <2>5, <2>6 DEF FiredOnce
<1> QED BY <1>4, <1>5, <1>6, <1>7 DEF FramesInv

(* A handler that was called directly returns. *)
LEMMA ReturnFrames ==
  ASSUME NEW st \in Seq(FrameType), NEW su, Popped(st, su), st[Len(st)].p = NULL,
         NULL \notin Promises, NEW stt, NEW ls, NEW ty, NEW vs, NEW once,
         FramesInv(st, stt, ls, ty, vs, once)
  PROVE  FramesInv(su, stt, ls, ty, vs, once)
<1> DEFINE n == Len(st)
<1>0. /\ n \in DOMAIN st /\ DOMAIN st = 1 .. n /\ n \in Nat /\ \A i \in DOMAIN st : st[i] \in FrameType
      /\ DOMAIN su = 1 .. n - 1 /\ Len(su) = n - 1
      /\ \A i \in DOMAIN su : i \in DOMAIN st /\ su[i] = st[i] /\ i < n /\ i # n
      /\ \A i \in DOMAIN st : i = n \/ i \in DOMAIN su
  BY PoppedFrames
<1>1. st[n].p = NULL
  OBVIOUS
<1> HIDE DEF n
<1>2. \A i \in DOMAIN su : su[i].at # NULL
  BY <1>0 DEF FramesInv, FramesRight, n
<1>3. FramesRight(su, ty)
  BY <1>0, <1>2 DEF FramesInv, FramesRight
<1>4. FiringRight(su, stt, ls)
  <2>1. \A q \in Promises : Fires(su, q) <=> Fires(st, q)
    BY <1>0, <1>1 DEF Fires
  <2> QED BY <2>1 DEF FramesInv, FiringRight
<1>5. BehindMet(su, ls, vs)
  <2> SUFFICES ASSUME NEW i \in DOMAIN su, su[i].p # NULL, su[i].at # NULL, Innermost(su, i),
                      NEW x \in Handlers, Upto(ls[su[i].p], x, su[i].at)
               PROVE  vs[x] > 0
    BY DEF BehindMet
  <2>1. i \in DOMAIN st /\ su[i] = st[i]
    BY <1>0
  <2>2. Innermost(st, i)
    BY <1>0, <1>1, <2>1 DEF Innermost
  <2> QED BY <2>1, <2>2 DEF FramesInv, BehindMet
<1>6. ASSUME FiredOnce(st, ls, vs) PROVE FiredOnce(su, ls, vs)
  <2>1. /\ \A i, j \in DOMAIN su : su[i].p = su[j].p /\ su[i].p # NULL => i = j
        /\ \A i, j \in DOMAIN su : su[i].at = su[j].at /\ su[i].at # NULL => i = j
    BY <1>0, <1>6 DEF FiredOnce
  <2>2. /\ \A i \in DOMAIN su : su[i].p # NULL /\ su[i].at # NULL => su[i].at \in ToSet(ls[su[i].p])
        /\ \A i \in DOMAIN su : su[i].p = NULL => \A q \in Promises : su[i].at \notin ToSet(ls[q])
    BY <1>0, <1>6 DEF FiredOnce
  <2>3. ASSUME NEW q \in Promises, NEW x \in ToSet(ls[q]), vs[x] > 0
        PROVE  \E i \in DOMAIN su : su[i].p = q /\ su[i].at # NULL /\ Upto(ls[q], x, su[i].at)
    <3>1. PICK i \in DOMAIN st : st[i].p = q /\ st[i].at # NULL /\ Upto(ls[q], x, st[i].at)
      BY <1>6, <2>3 DEF FiredOnce
    <3>2. i # n
      BY <1>1, <3>1
    <3> QED BY <1>0, <3>1, <3>2
  <2> QED BY <1>6, <2>1, <2>2, <2>3 DEF FiredOnce
<1> QED BY <1>3, <1>4, <1>5, <1>6 DEF FramesInv

(* The innermost frame goes from its handler to what comes next. *)
LEMMA RephaseFrames ==
  ASSUME NEW st \in Seq(FrameType), NEW su, NEW f, Swapped(st, su, f),
         f.p = st[Len(st)].p, f.at = st[Len(st)].at, f.p # NULL, f.at # NULL,
         NEW stt, NEW ls, NEW ty, NEW vs, NEW once,
         FramesInv(st, stt, ls, ty, vs, once)
  PROVE  FramesInv(su, stt, ls, ty, vs, once) /\ Standing(su)
<1> DEFINE n == Len(st)
<1>0. /\ n \in DOMAIN st /\ DOMAIN st = 1 .. n /\ n \in Nat /\ \A i \in DOMAIN st : st[i] \in FrameType
      /\ DOMAIN su = DOMAIN st /\ Len(su) = n /\ su[n] = f
      /\ \A i \in DOMAIN st : i # n => su[i] = st[i] /\ i < n
  BY SwappedFrames
<1>1. f.p = st[n].p /\ f.at = st[n].at
  OBVIOUS
<1>2. \A i \in DOMAIN st : (i # n => st[i].at # NULL)
  BY <1>0 DEF FramesInv, FramesRight
<1> HIDE DEF n
<1>3. \A i \in DOMAIN st : su[i].p = st[i].p /\ su[i].at = st[i].at /\ st[i].at # NULL
  BY <1>0, <1>1, <1>2
<1>4. FramesRight(su, ty)
  <2>1. \A i \in DOMAIN st : su[i].p = NULL => su[i].phase = "body"
    BY <1>0, <1>3 DEF FramesInv, FramesRight
  <2> QED BY <1>0, <1>3, <2>1 DEF FramesInv, FramesRight
<1>5. FiringRight(su, stt, ls)
  <2>1. \A q \in Promises : Fires(su, q) <=> Fires(st, q)
    BY <1>0, <1>3 DEF Fires
  <2> QED BY <2>1 DEF FramesInv, FiringRight
<1>6. BehindMet(su, ls, vs)
  <2>1. \A i \in DOMAIN st : Innermost(su, i) => Innermost(st, i)
    BY <1>0, <1>3 DEF Innermost
  <2> QED BY <1>0, <1>3, <2>1 DEF FramesInv, BehindMet
<1>7. ASSUME FiredOnce(st, ls, vs) PROVE FiredOnce(su, ls, vs)
  <2>1. \A i, j \in DOMAIN su : su[i].p = su[j].p /\ su[i].p # NULL => i = j
    BY <1>0, <1>3, <1>7 DEF FiredOnce
  <2>2. \A i, j \in DOMAIN su : su[i].at = su[j].at /\ su[i].at # NULL => i = j
    BY <1>0, <1>3, <1>7 DEF FiredOnce
  <2>3. \A i \in DOMAIN su : su[i].p # NULL /\ su[i].at # NULL => su[i].at \in ToSet(ls[su[i].p])
    BY <1>0, <1>3, <1>7 DEF FiredOnce
  <2>4. \A i \in DOMAIN su : su[i].p = NULL => \A q \in Promises : su[i].at \notin ToSet(ls[q])
    BY <1>0, <1>3, <1>7 DEF FiredOnce
  <2>5. ASSUME NEW q \in Promises, NEW x \in ToSet(ls[q]), vs[x] > 0
        PROVE  \E i \in DOMAIN su : su[i].p = q /\ su[i].at # NULL /\ Upto(ls[q], x, su[i].at)
    <3>1. PICK i \in DOMAIN st : st[i].p = q /\ st[i].at # NULL /\ Upto(ls[q], x, st[i].at)
      BY <1>7, <2>5 DEF FiredOnce
    <3> QED BY <1>0, <1>3, <3>1
  <2> QED BY <1>7, <2>1, <2>2, <2>3, <2>4, <2>5 DEF FiredOnce
<1>8. Standing(su)
  BY <1>0, <1>3 DEF Standing
<1> QED BY <1>4, <1>5, <1>6, <1>7, <1>8 DEF FramesInv

(* The innermost frame meets handler h, which comes behind the one it      *)
(* stands on.                                                              *)
Follows(l, at, h) ==
  /\ h \in ToSet(l) /\ Upto(l, h, h)
  /\ \A x \in Handlers : Upto(l, x, h) => x = h \/ (at # NULL /\ Upto(l, x, at))
  /\ at # NULL => ~Upto(l, h, at) /\ \A x \in Handlers : Upto(l, x, at) => Upto(l, x, h)

LEMMA ScanFrames ==
  ASSUME PromiseAssumption, NEW st \in Seq(FrameType), NEW su, NEW f, Swapped(st, su, f),
         NEW p \in Promises, p = st[Len(st)].p, NEW h \in Handlers,
         f.p = p, f.at = h, NEW ls \in Lists, Follows(ls[p], st[Len(st)].at, h),
         NEW stt, NEW ty, Apart(ls, ty), NEW vs \in [Handlers -> Nat],
         NEW vt \in [Handlers -> Nat], Elsewhere(vs, vt, h),
         vt[h] > 0, vs[h] = 0 => vt[h] = 1,
         NEW once, FramesInv(st, stt, ls, ty, vs, once)
  PROVE  FramesInv(su, stt, ls, ty, vt, once)
<1> USE DEF Elsewhere
<1> DEFINE n == Len(st)
           at == st[n].at
<1>0. /\ n \in DOMAIN st /\ DOMAIN st = 1 .. n /\ n \in Nat /\ \A i \in DOMAIN st : st[i] \in FrameType
      /\ DOMAIN su = DOMAIN st /\ Len(su) = n /\ su[n] = f
      /\ \A i \in DOMAIN st : i # n => su[i] = st[i] /\ i < n
  BY SwappedFrames
<1>1. p = st[n].p /\ p # NULL /\ h # NULL
  BY Promised
<1>2. \A i \in DOMAIN st : (i # n => st[i].at # NULL)
  BY <1>0 DEF FramesInv, FramesRight
<1>3. Follows(ls[p], at, h)
  OBVIOUS
<1> HIDE DEF n
<1>4. \A i \in DOMAIN st : su[i].p = st[i].p
  BY <1>0, <1>1
<1>5. FramesRight(su, ty)
  <2> SUFFICES ASSUME NEW i \in DOMAIN su
               PROVE  /\ su[i].at = NULL => i = Len(su) /\ su[i].phase = "scan" /\ su[i].p # NULL
                      /\ su[i].p = NULL => su[i].phase = "body"
                      /\ su[i].at # NULL => ty[su[i].at] # NULL
    BY DEF FramesRight
  <2>1. CASE i = n
    <3>1. ty[h] # NULL
      BY <1>3 DEF Follows, Apart
    <3> QED BY <1>0, <1>1, <2>1, <3>1
  <2>2. CASE i # n
    BY <1>0, <1>2, <2>2 DEF FramesInv, FramesRight
  <2> QED BY <2>1, <2>2
<1>6. FiringRight(su, stt, ls)
  <2>1. \A q \in Promises : Fires(su, q) <=> Fires(st, q)
    BY <1>0, <1>4 DEF Fires
  <2> QED BY <2>1 DEF FramesInv, FiringRight
<1>7. \A x \in Handlers : vs[x] > 0 => vt[x] > 0
  OBVIOUS
<1>8. BehindMet(su, ls, vt)
  <2> SUFFICES ASSUME NEW i \in DOMAIN su, su[i].p # NULL, su[i].at # NULL, Innermost(su, i),
                      NEW x \in Handlers, Upto(ls[su[i].p], x, su[i].at)
               PROVE  vt[x] > 0
    BY DEF BehindMet
  <2>1. Innermost(st, i)
    BY <1>0, <1>4 DEF Innermost
  <2>2. CASE i # n
    <3>1. su[i] = st[i]
      BY <1>0, <2>2
    <3>2. vs[x] > 0
      BY <1>0, <2>1, <3>1 DEF FramesInv, BehindMet
    <3> QED BY <1>7, <3>2
  <2>3. CASE i = n /\ x # h
    <3>1. Upto(ls[p], x, h)
      BY <1>0, <2>3
    <3>2. at # NULL /\ Upto(ls[p], x, at)
      BY <1>3, <2>3, <3>1 DEF Follows
    <3>3. vs[x] > 0
      BY <1>0, <1>1, <2>1, <2>3, <3>2 DEF FramesInv, BehindMet
    <3> QED BY <1>7, <3>3
  <2> QED BY <2>2, <2>3
<1>9. ASSUME FiredOnce(st, ls, vs) PROVE FiredOnce(su, ls, vt)
  <2>1. \A i, j \in DOMAIN su : su[i].p = su[j].p /\ su[i].p # NULL => i = j
    BY <1>0, <1>4, <1>9 DEF FiredOnce
  <2>2. ASSUME NEW i \in DOMAIN st, i # n PROVE st[i].at # h
    <3>1. h \in ToSet(ls[p])
      BY <1>3 DEF Follows
    <3>2. CASE st[i].p = NULL
      BY <1>9, <3>1, <3>2 DEF FiredOnce
    <3>3. CASE st[i].p # NULL
      <4>1. st[i].at \in ToSet(ls[st[i].p]) /\ st[i].p # p
        BY <1>0, <1>1, <1>2, <1>9, <2>2, <3>3 DEF FiredOnce
      <4>2. st[i].p \in Promises
        BY <1>0, <3>3 DEF FrameType
      <4> QED BY <3>1, <4>1, <4>2 DEF Apart
    <3> QED BY <3>2, <3>3
  <2>3. \A i, j \in DOMAIN su : su[i].at = su[j].at /\ su[i].at # NULL => i = j
    BY <1>0, <1>9, <2>2 DEF FiredOnce
  <2>4. \A i \in DOMAIN su : su[i].p # NULL /\ su[i].at # NULL => su[i].at \in ToSet(ls[su[i].p])
    BY <1>0, <1>3, <1>9 DEF FiredOnce, Follows
  <2>5. \A i \in DOMAIN su : su[i].p = NULL => \A q \in Promises : su[i].at \notin ToSet(ls[q])
    BY <1>0, <1>1, <1>9 DEF FiredOnce
  <2>6. vs[h] = 0
    <3> SUFFICES ASSUME vs[h] > 0 PROVE FALSE
      OBVIOUS
    <3>1. h \in ToSet(ls[p])
      BY <1>3 DEF Follows
    <3>2. PICK i \in DOMAIN st : st[i].p = p /\ st[i].at # NULL /\ Upto(ls[p], h, st[i].at)
      BY <1>9, <3>1 DEF FiredOnce
    <3>3. i = n
      BY <1>0, <1>1, <1>9, <3>2 DEF FiredOnce
    <3> QED BY <1>3, <3>2, <3>3 DEF Follows
  <2>7. \A x \in Handlers : vt[x] <= 1
    BY <1>9, <2>6 DEF FiredOnce
  <2>8. ASSUME NEW q \in Promises, NEW x \in ToSet(ls[q]), vt[x] > 0
        PROVE  \E i \in DOMAIN su : su[i].p = q /\ su[i].at # NULL /\ Upto(ls[q], x, su[i].at)
    <3>0. x \in Handlers
      BY ListedHandlers
    <3>1. CASE x = h
      <4>1. q = p
        BY <1>3, <3>1 DEF Apart, Follows
      <4> QED BY <1>0, <1>1, <1>3, <3>1, <4>1 DEF Follows
    <3>2. CASE x # h
      <4>1. vs[x] > 0
        BY <2>8, <3>0, <3>2
      <4>2. PICK i \in DOMAIN st : st[i].p = q /\ st[i].at # NULL /\ Upto(ls[q], x, st[i].at)
        BY <1>9, <4>1 DEF FiredOnce
      <4>3. CASE i # n
        BY <1>0, <4>2, <4>3
      <4>4. CASE i = n
        <5>1. q = p /\ at # NULL /\ Upto(ls[p], x, at)
          BY <1>1, <4>2, <4>4
        <5>2. Upto(ls[p], x, h)
          BY <1>3, <3>0, <5>1 DEF Follows
        <5> QED BY <1>0, <1>1, <5>1, <5>2
      <4> QED BY <4>3, <4>4
    <3> QED BY <3>1, <3>2
  <2> QED BY <2>1, <2>3, <2>4, <2>5, <2>7, <2>8 DEF FiredOnce
<1> QED BY <1>5, <1>6, <1>8, <1>9 DEF FramesInv

(* What a firing of p that stands on handler at sees of a hand-over to r.  *)
Relinquished(ls, us, p, r, at) ==
  /\ at \in ToSet(us[p]) /\ \A h \in ToSet(us[p]) : Upto(us[p], h, at)
  /\ \A h \in Handlers : Upto(us[p], h, at) => Upto(ls[p], h, at)
  /\ \A h \in ToSet(us[p]) : h \in ToSet(ls[p])
  /\ \A h \in ToSet(us[r]) : h \in ToSet(ls[r]) \/ (h \in ToSet(ls[p]) /\ ~Upto(ls[p], h, at))
  /\ \A q \in Promises : q # p /\ q # r => us[q] = ls[q]

LEMMA HandOverSeen ==
  ASSUME NEW ls \in Lists, NEW us, NEW p \in Promises, NEW r \in Promises, p # r,
         NEW hd \in Seq(Handlers), NEW tl \in Seq(Handlers), HandedOver(ls, us, p, r, hd, tl),
         NEW ty, Apart(ls, ty), NEW at \in ToSet(hd), \A h \in ToSet(hd) : Upto(hd, h, at)
  PROVE  Relinquished(ls, us, p, r, at)
<1>1. us[p] = hd /\ ls[p] = hd \o tl
  BY DEF HandedOver
<1>2. /\ ToSet(ls[p]) = ToSet(hd) \cup ToSet(tl) /\ ToSet(hd) \cap ToSet(tl) = {}
      /\ ToSet(us[r]) = ToSet(ls[r]) \cup ToSet(tl)
  BY HandOverElements
<1>3. \A h \in Handlers : Upto(hd, h, at) => Upto(ls[p], h, at)
  BY <1>1, ConcatUpto
<1>4. ASSUME NEW h \in ToSet(tl) PROVE ~Upto(ls[p], h, at)
  <2>1. SUFFICES ASSUME Upto(ls[p], h, at) PROVE FALSE
    OBVIOUS
  <2>2. Upto(hd, h, at) \/ Upto(tl, h, at) \/ (h \in ToSet(hd) /\ at \in ToSet(tl))
    BY <1>1, <2>1, ConcatUpto
  <2>3. Upto(hd, h, at) => h \in ToSet(hd)
    BY UptoMembers
  <2>4. Upto(tl, h, at) => at \in ToSet(tl)
    BY UptoMembers
  <2> QED BY <1>2, <1>4, <2>2, <2>3, <2>4
<1>5. \A q \in Promises : q # p /\ q # r => us[q] = ls[q]
  BY DEF HandedOver
<1> QED BY <1>1, <1>2, <1>3, <1>4, <1>5 DEF Relinquished

(* The promise that takes the handlers over is pending: they only change   *)
(* lists.                                                                  *)
LEMMA HandOverFrames ==
  ASSUME PromiseAssumption, NEW st \in Seq(FrameType), Standing(st), st # <<>>,
         NEW p \in Promises, p = st[Len(st)].p, NEW r \in Promises, p # r,
         NEW ls \in Lists, NEW us \in Lists, Relinquished(ls, us, p, r, st[Len(st)].at),
         NEW stt, stt[r] = Pending,
         NEW ty, NEW vs, NEW once, FramesInv(st, stt, ls, ty, vs, once)
  PROVE  FramesInv(st, stt, us, ty, vs, once)
<1> DEFINE n == Len(st)
           at == st[n].at
<1>0. /\ n \in DOMAIN st /\ DOMAIN st = 1 .. n /\ n \in Nat /\ \A i \in DOMAIN st : st[i] \in FrameType
  BY StackDomain
<1>1. p = st[n].p /\ p # NULL /\ r # NULL /\ Relinquished(ls, us, p, r, at)
  BY Promised
<1> HIDE DEF n, at
<1>2. Fires(st, p) /\ ~Fires(st, r)
  BY <1>0, <1>1 DEF Fires, FramesInv, FiringRight
<1>3. FiringRight(st, stt, us)
  BY <1>1, <1>2 DEF FramesInv, FiringRight, Relinquished
<1>4. BehindMet(st, us, vs)
  <2> SUFFICES ASSUME NEW i \in DOMAIN st, st[i].p # NULL, st[i].at # NULL, Innermost(st, i),
                      NEW x \in Handlers, Upto(us[st[i].p], x, st[i].at)
               PROVE  vs[x] > 0
    BY DEF BehindMet
  <2>0. st[i].p # r /\ st[i].p \in Promises
    BY <1>0, <1>2 DEF Fires, FrameType
  <2>1. CASE st[i].p = p
    <3>1. i = n
      BY <1>0, <1>1, <2>1 DEF Innermost
    <3>2. Upto(ls[p], x, at)
      BY <1>1, <2>1, <3>1 DEF Relinquished, at
    <3> QED BY <1>1, <3>1, <3>2 DEF FramesInv, BehindMet, at
  <2>2. CASE st[i].p # p
    <3>1. us[st[i].p] = ls[st[i].p]
      BY <1>1, <2>0, <2>2 DEF Relinquished
    <3> QED BY <3>1 DEF FramesInv, BehindMet
  <2> QED BY <2>1, <2>2
<1>5. ASSUME FiredOnce(st, ls, vs) PROVE FiredOnce(st, us, vs)
  <2>1. ASSUME NEW i \in DOMAIN st, st[i].p # NULL, st[i].at # NULL
        PROVE  st[i].at \in ToSet(us[st[i].p])
    <3>0. st[i].p # r /\ st[i].p \in Promises
      BY <1>0, <1>2, <2>1 DEF Fires, FrameType
    <3>1. CASE st[i].p = p
      <4>1. i = n
        BY <1>0, <1>1, <1>5, <3>1 DEF FiredOnce
      <4> QED BY <1>1, <4>1 DEF Relinquished, at
    <3>2. CASE st[i].p # p
      <4>1. us[st[i].p] = ls[st[i].p]
        BY <1>1, <3>0, <3>2 DEF Relinquished
      <4> QED BY <1>5, <2>1, <4>1 DEF FiredOnce
    <3> QED BY <3>1, <3>2
  <2>2. ASSUME NEW i \in DOMAIN st, st[i].p = NULL, NEW q \in Promises
        PROVE  st[i].at \notin ToSet(us[q])
    <3>1. \A z \in Promises : st[i].at \notin ToSet(ls[z])
      BY <1>5, <2>2 DEF FiredOnce
    <3> QED BY <1>1, <3>1 DEF Relinquished
  <2>3. ASSUME NEW q \in Promises, NEW x \in ToSet(us[q]), vs[x] > 0
        PROVE  \E i \in DOMAIN st : st[i].p = q /\ st[i].at # NULL /\ Upto(us[q], x, st[i].at)
    <3>1. CASE q = p
      <4>1. Upto(us[q], x, at)
        BY <1>1, <3>1 DEF Relinquished
      <4> QED BY <1>0, <1>1, <3>1, <4>1 DEF Standing, at
    <3>2. CASE q = r
      <4>1. CASE x \in ToSet(ls[r])
        <5>1. \E i \in DOMAIN st : st[i].p = r
          BY <1>5, <2>3, <4>1 DEF FiredOnce
        <5> QED BY <1>2, <5>1 DEF Fires
      <4>2. CASE x \in ToSet(ls[p]) /\ ~Upto(ls[p], x, at)
        <5>1. PICK i \in DOMAIN st : st[i].p = p /\ st[i].at # NULL /\ Upto(ls[p], x, st[i].at)
          BY <1>5, <2>3, <4>2 DEF FiredOnce
        <5>2. i = n
          BY <1>0, <1>1, <1>5, <5>1 DEF FiredOnce
        <5> QED BY <4>2, <5>1, <5>2 DEF at
      <4> QED BY <1>1, <3>2, <4>1, <4>2 DEF Relinquished
    <3>3. CASE q # p /\ q # r
      <4>1. us[q] = ls[q]
        BY <1>1, <3>3 DEF Relinquished
      <4> QED BY <1>5, <2>3, <4>1 DEF FiredOnce
    <3> QED BY <3>1, <3>2, <3>3
  <2> QED BY <1>5, <2>1, <2>2, <2>3 DEF FiredOnce
<1> QED BY <1>3, <1>4, <1>5 DEF FramesInv

(* The promise that takes the handlers over is settled: it is fired, which *)
(* is a second firing of it when it fires already.                         *)
LEMMA HandOverFires ==
  ASSUME PromiseAssumption, NEW st \in Seq(FrameType), Standing(st), st # <<>>,
         NEW p \in Promises, p = st[Len(st)].p, NEW r \in Promises, p # r,
         NEW ls \in Lists, NEW us \in Lists, Relinquished(ls, us, p, r, st[Len(st)].at),
         NEW su, Pushed(st, su, Fire(r)), NEW stt, stt[r] # Pending,
         NEW ty, NEW vs, NEW once, once => ~Fires(st, r), FramesInv(st, stt, ls, ty, vs, once)
  PROVE  FramesInv(su, stt, us, ty, vs, once)
<1> DEFINE m == Len(st)
           n == m + 1
           at == st[m].at
<1>0. /\ Len(st) \in Nat /\ DOMAIN st = 1 .. Len(st) /\ \A i \in DOMAIN st : st[i] \in FrameType
      /\ n \in DOMAIN su /\ Len(su) = n /\ DOMAIN su = 1 .. n
      /\ \A i \in DOMAIN st : i \in DOMAIN su /\ su[i] = st[i] /\ i < n /\ i # n
      /\ \A i \in DOMAIN su : i = n \/ i \in DOMAIN st
  BY PushedFrames
<1>1. p = st[m].p /\ p # NULL /\ r # NULL /\ Relinquished(ls, us, p, r, at)
  BY Promised
<1>2. su[n].p = r /\ su[n].at = NULL /\ su[n].phase = "scan"
  BY FrameFields DEF Pushed, Fire
<1>3. m \in DOMAIN st /\ m \in Nat /\ DOMAIN st = 1 .. m
  BY StackDomain
<1> HIDE DEF n, m, at
<1>4. Fires(st, p)
  BY <1>1, <1>3 DEF Fires
<1>5. FramesRight(su, ty)
  <2> SUFFICES ASSUME NEW i \in DOMAIN su
               PROVE  /\ su[i].at = NULL => i = Len(su) /\ su[i].phase = "scan" /\ su[i].p # NULL
                      /\ su[i].p = NULL => su[i].phase = "body"
                      /\ su[i].at # NULL => ty[su[i].at] # NULL
    BY DEF FramesRight
  <2>1. CASE i = n
    BY <1>0, <1>1, <1>2, <2>1
  <2>2. CASE i \in DOMAIN st
    <3>1. su[i] = st[i] /\ st[i].at # NULL
      BY <1>0, <2>2 DEF Standing
    <3> QED BY <2>2, <3>1 DEF FramesInv, FramesRight
  <2> QED BY <1>0, <2>1, <2>2
<1>6. FiringRight(su, stt, us)
  <2>1. \A q \in Promises : Fires(su, q) <=> Fires(st, q) \/ q = r
    BY <1>0, <1>2 DEF Fires
  <2> QED BY <1>1, <1>4, <2>1 DEF FramesInv, FiringRight, Relinquished
<1>7. BehindMet(su, us, vs)
  <2> SUFFICES ASSUME NEW i \in DOMAIN su, su[i].p # NULL, su[i].at # NULL, Innermost(su, i),
                      NEW x \in Handlers, Upto(us[su[i].p], x, su[i].at)
               PROVE  vs[x] > 0
    BY DEF BehindMet
  <2>1. i \in DOMAIN st /\ su[i] = st[i]
    BY <1>0, <1>2
  <2>2. Innermost(st, i)
    BY <1>0, <2>1 DEF Innermost
  <2>3. st[i].p # r /\ st[i].p \in Promises
    BY <1>0, <1>2, <2>1 DEF Innermost, FrameType
  <2>4. CASE st[i].p = p
    <3>1. i = m
      BY <1>1, <1>3, <2>1, <2>2, <2>4 DEF Innermost
    <3>2. Upto(ls[p], x, at)
      BY <1>1, <2>1, <2>4, <3>1 DEF Relinquished, at
    <3> QED BY <1>1, <2>1, <2>2, <3>1, <3>2 DEF FramesInv, BehindMet, at
  <2>5. CASE st[i].p # p
    <3>1. us[st[i].p] = ls[st[i].p]
      BY <1>1, <2>3, <2>5 DEF Relinquished
    <3> QED BY <2>1, <2>2, <3>1 DEF FramesInv, BehindMet
  <2> QED BY <2>4, <2>5
<1>8. ASSUME FiredOnce(st, ls, vs), ~Fires(st, r) PROVE FiredOnce(su, us, vs)
  <2>0. \A i \in DOMAIN st : st[i].p # r
    BY <1>8 DEF Fires
  <2>1. \A i, j \in DOMAIN su : su[i].p = su[j].p /\ su[i].p # NULL => i = j
    BY <1>0, <1>2, <1>8, <2>0 DEF FiredOnce
  <2>2. \A i, j \in DOMAIN su : su[i].at = su[j].at /\ su[i].at # NULL => i = j
    BY <1>0, <1>2, <1>8 DEF FiredOnce
  <2>3. ASSUME NEW i \in DOMAIN su, su[i].p # NULL, su[i].at # NULL
        PROVE  su[i].at \in ToSet(us[su[i].p])
    <3>0. i \in DOMAIN st /\ su[i] = st[i] /\ st[i].p \in Promises /\ st[i].p # r
      BY <1>0, <1>2, <2>0, <2>3 DEF FrameType
    <3>1. CASE st[i].p = p
      <4>1. i = m
        BY <1>1, <1>3, <1>8, <3>0, <3>1 DEF FiredOnce
      <4> QED BY <1>1, <3>0, <4>1 DEF Relinquished, at
    <3>2. CASE st[i].p # p
      <4>1. us[st[i].p] = ls[st[i].p]
        BY <1>1, <3>0, <3>2 DEF Relinquished
      <4> QED BY <1>8, <2>3, <3>0, <4>1 DEF FiredOnce
    <3> QED BY <3>1, <3>2
  <2>4. ASSUME NEW i \in DOMAIN su, su[i].p = NULL, NEW q \in Promises
        PROVE  su[i].at \notin ToSet(us[q])
    <3>0. i \in DOMAIN st /\ su[i] = st[i]
      BY <1>0, <1>1, <1>2, <2>4
    <3>1. \A z \in Promises : st[i].at \notin ToSet(ls[z])
      BY <1>8, <2>4, <3>0 DEF FiredOnce
    <3> QED BY <1>1, <3>0, <3>1 DEF Relinquished
  <2>5. ASSUME NEW q \in Promises, NEW x \in ToSet(us[q]), vs[x] > 0
        PROVE  \E i \in DOMAIN su : su[i].p = q /\ su[i].at # NULL /\ Upto(us[q], x, su[i].at)
    <3>1. CASE q = p
      <4>1. Upto(us[q], x, at)
        BY <1>1, <3>1 DEF Relinquished
      <4> QED BY <1>0, <1>1, <1>3, <3>1, <4>1 DEF Standing, at
    <3>2. CASE q = r
      <4>1. CASE x \in ToSet(ls[r])
        <5>1. \E i \in DOMAIN st : st[i].p = r
          BY <1>8, <2>5, <4>1 DEF FiredOnce
        <5> QED BY <2>0, <5>1
      <4>2. CASE x \in ToSet(ls[p]) /\ ~Upto(ls[p], x, at)
        <5>1. PICK i \in DOMAIN st : st[i].p = p /\ st[i].at # NULL /\ Upto(ls[p], x, st[i].at)
          BY <1>8, <2>5, <4>2 DEF FiredOnce
        <5>2. i = m
          BY <1>1, <1>3, <1>8, <5>1 DEF FiredOnce
        <5> QED BY <4>2, <5>1, <5>2 DEF at
      <4> QED BY <1>1, <3>2, <4>1, <4>2 DEF Relinquished
    <3>3. CASE q # p /\ q # r
      <4>1. us[q] = ls[q]
        BY <1>1, <3>3 DEF Relinquished
      <4>2. PICK i \in DOMAIN st : st[i].p = q /\ st[i].at # NULL /\ Upto(ls[q], x, st[i].at)
        BY <1>8, <2>5, <4>1 DEF FiredOnce
      <4> QED BY <1>0, <4>1, <4>2
    <3> QED BY <3>1, <3>2, <3>3
  <2> QED BY <1>8, <2>1, <2>2, <2>3, <2>4, <2>5 DEF FiredOnce
<1> QED BY <1>5, <1>6, <1>7, <1>8 DEF FramesInv

(* The innermost frame is left, and the list of its promise emptied.       *)
LEMMA FinishFrames ==
  ASSUME PromiseAssumption, NEW st \in Seq(FrameType), NEW su, Popped(st, su),
         NEW p \in Promises, p = st[Len(st)].p,
         NEW ls \in Lists, NEW us, Emptied(ls, us, p),
         NEW stt, NEW ty, NEW vs, NEW once, FramesInv(st, stt, ls, ty, vs, once)
  PROVE  FramesInv(su, stt, us, ty, vs, once)
<1> DEFINE n == Len(st)
<1>0. /\ n \in DOMAIN st /\ DOMAIN st = 1 .. n /\ n \in Nat /\ \A i \in DOMAIN st : st[i] \in FrameType
      /\ DOMAIN su = 1 .. n - 1 /\ Len(su) = n - 1
      /\ \A i \in DOMAIN su : i \in DOMAIN st /\ su[i] = st[i] /\ i < n /\ i # n
      /\ \A i \in DOMAIN st : i = n \/ i \in DOMAIN su
  BY PoppedFrames
<1>1. p = st[n].p /\ p # NULL
  BY Promised
<1>2. us[p] = <<>> /\ \A q \in Promises : q # p => us[q] = ls[q]
  BY DEF Emptied
<1>3. \A x : x \notin ToSet(us[p]) /\ \A y : ~Upto(us[p], x, y)
  BY <1>2 DEF ToSet, Upto
<1> HIDE DEF n
<1>4. FramesRight(su, ty)
  <2>1. \A i \in DOMAIN su : su[i].at # NULL
    BY <1>0 DEF FramesInv, FramesRight, n
  <2> QED BY <1>0, <2>1 DEF FramesInv, FramesRight
<1>5. FiringRight(su, stt, us)
  <2>1. Fires(st, p)
    BY <1>0, <1>1 DEF Fires
  <2>2. \A q \in Promises : q # p => (Fires(su, q) <=> Fires(st, q))
    BY <1>0, <1>1 DEF Fires
  <2> QED BY <1>2, <2>1, <2>2 DEF FramesInv, FiringRight
<1>6. BehindMet(su, us, vs)
  <2> SUFFICES ASSUME NEW i \in DOMAIN su, su[i].p # NULL, su[i].at # NULL, Innermost(su, i),
                      NEW x \in Handlers, Upto(us[su[i].p], x, su[i].at)
               PROVE  vs[x] > 0
    BY DEF BehindMet
  <2>1. i \in DOMAIN st /\ su[i] = st[i] /\ st[i].p \in Promises
    BY <1>0 DEF FrameType
  <2>2. st[i].p # p
    BY <1>3, <2>1
  <2>3. Innermost(st, i)
    BY <1>0, <1>1, <2>1, <2>2 DEF Innermost
  <2> QED BY <1>2, <2>1, <2>2, <2>3 DEF FramesInv, BehindMet
<1>7. ASSUME FiredOnce(st, ls, vs) PROVE FiredOnce(su, us, vs)
  <2>0. \A i \in DOMAIN su : su[i].p # p
    BY <1>0, <1>1, <1>7 DEF FiredOnce
  <2>1. /\ \A i, j \in DOMAIN su : su[i].p = su[j].p /\ su[i].p # NULL => i = j
        /\ \A i, j \in DOMAIN su : su[i].at = su[j].at /\ su[i].at # NULL => i = j
    BY <1>0, <1>7 DEF FiredOnce
  <2>2. ASSUME NEW i \in DOMAIN su, su[i].p # NULL, su[i].at # NULL
        PROVE  su[i].at \in ToSet(us[su[i].p])
    <3>1. i \in DOMAIN st /\ su[i] = st[i] /\ st[i].p \in Promises /\ st[i].p # p
      BY <1>0, <2>0, <2>2 DEF FrameType
    <3>2. us[st[i].p] = ls[st[i].p]
      BY <1>2, <3>1
    <3> QED BY <1>7, <2>2, <3>1, <3>2 DEF FiredOnce
  <2>3. ASSUME NEW i \in DOMAIN su, su[i].p = NULL, NEW q \in Promises
        PROVE  su[i].at \notin ToSet(us[q])
    <3>1. \A z \in Promises : su[i].at \notin ToSet(ls[z])
      BY <1>0, <1>7, <2>3 DEF FiredOnce
    <3> QED BY <1>2, <1>3, <3>1
  <2>4. ASSUME NEW q \in Promises, NEW x \in ToSet(us[q]), vs[x] > 0
        PROVE  \E i \in DOMAIN su : su[i].p = q /\ su[i].at # NULL /\ Upto(us[q], x, su[i].at)
    <3>1. q # p /\ us[q] = ls[q]
      BY <1>2, <1>3, <2>4
    <3>2. PICK i \in DOMAIN st : st[i].p = q /\ st[i].at # NULL /\ Upto(ls[q], x, st[i].at)
      BY <1>7, <2>4, <3>1 DEF FiredOnce
    <3>3. i # n
      BY <1>1, <3>1, <3>2
    <3> QED BY <1>0, <3>1, <3>2, <3>3
  <2> QED BY <1>7, <2>1, <2>2, <2>3, <2>4 DEF FiredOnce
<1> QED BY <1>4, <1>5, <1>6, <1>7 DEF FramesInv

(* As long as no firing promise is fired again, the activations stand on   *)
(* handlers of their own: there are no more of them than handlers.         *)
LEMMA StackBounded ==
  ASSUME PromiseAssumption, NEW st \in Seq(FrameType), Standing(st),
         NEW ls, NEW vs, FiredOnce(st, ls, vs)
  PROVE  Len(st) < MaxDepth
<1> DEFINE S == 1 .. Len(st)
           at == [i \in S |-> st[i].at]
<1>1. Len(st) \in Nat /\ DOMAIN st = S /\ \A i \in S : st[i] \in FrameType
  BY StackDomain
<1>2. \A i \in S : st[i].at \in Handlers
  BY <1>1 DEF FrameType, Standing
<1>3. \A i, j \in S : st[i].at = st[j].at => i = j
  BY <1>1 DEF FiredOnce, Standing
<1>4. at \in Injection(S, Handlers)
  BY <1>2, <1>3 DEF Injection, IsInjective
<1>5. Cardinality(S) <= Cardinality(Handlers)
  <2>1. IsFiniteSet(Handlers)
    BY DEF PromiseAssumption
  <2> HIDE DEF S, at
  <2> QED BY <1>4, <2>1, FS_Injection
<1>6. Cardinality(S) = Len(st)
  <2>1. 1 \in Int /\ Len(st) \in Int
    BY <1>1
  <2>2. Cardinality(1 .. Len(st)) = IF 1 > Len(st) THEN 0 ELSE Len(st) - 1 + 1
    BY <2>1, FS_Interval
  <2> QED BY <1>1, <2>2
<1>7. Cardinality(Handlers) \in Nat
  BY FS_CardinalityType DEF PromiseAssumption
<1> QED BY <1>1, <1>5, <1>6, <1>7 DEF PromiseAssumption

-----------------------------------------------------------------------------
(* What user code does. *)

Rest == <<state, stack, corrupt, visits, dropped, misuse>>

LEMMA EnlistInv ==
  ASSUME PromiseAssumption, PromiseInv, PromiseTyped', NEW p \in Promises, NEW hs \in Seq(Handlers),
         IsInjective(hs), Unknown(type, hs), Known(type', hs), Recorded(type, type'),
         Enlisted(listeners, listeners', p, hs), Enlisted(registered, registered', p, hs),
         state[p] = Pending, UNCHANGED Rest
  PROVE  PromiseInv'
<1>1. listeners \in Lists /\ registered \in Lists /\ visits \in [Handlers -> Nat]
  BY DEF PromiseInv, PromiseTyped, Lists
<1>2. /\ Apart(listeners, type) /\ Fresh(type, visits, dropped)
      /\ Waiting(listeners, type, visits, dropped, registered)
      /\ InTurn(listeners, visits, dropped, registered)
      /\ AllThere(state, listeners, registered)
      /\ FramesInv(stack, state, listeners, type, visits, "refire" \notin misuse)
  BY DEF PromiseInv
<1>3. /\ Apart(listeners', type')
      /\ ToSet(listeners'[p]) = ToSet(listeners[p]) \cup ToSet(hs)
      /\ \A q \in Promises : ToSet(listeners[q]) \subseteq ToSet(listeners'[q])
  BY <1>1, <1>2, EnlistApart
<1>4. Fresh(type', visits, dropped)
  BY <1>2 DEF Fresh, Recorded
<1>5. /\ Waiting(listeners', type', visits, dropped, registered')
      /\ ToSet(registered'[p]) = ToSet(registered[p]) \cup ToSet(hs)
  BY <1>1, <1>2, <1>3, EnlistWaiting
<1>6. InTurn(listeners', visits, dropped, registered')
  <2>1. ToSet(registered[p]) \subseteq ToSet(listeners[p])
    BY <1>2 DEF AllThere
  <2> QED BY <1>1, <1>2, <1>3, <2>1, EnlistInTurn
<1>7. AllThere(state, listeners', registered')
  <2> SUFFICES ASSUME NEW q \in Promises, state[q] = Pending
               PROVE  ToSet(registered'[q]) \subseteq ToSet(listeners'[q])
    BY DEF AllThere
  <2>1. CASE q = p
    BY <1>2, <1>3, <1>5, <2>1 DEF AllThere
  <2>2. CASE q # p
    <3>1. registered'[q] = registered[q]
      BY <2>2 DEF Enlisted
    <3> QED BY <1>2, <1>3, <3>1 DEF AllThere
  <2> QED BY <2>1, <2>2
<1>8. FramesInv(stack, state, listeners', type', visits, "refire" \notin misuse)
  <2>1. stack \in Seq(FrameType)
    BY DEF PromiseInv, PromiseTyped
  <2> QED BY <1>1, <1>2, <1>3, <2>1, EnlistFrames
<1>9. stack' = stack /\ state' = state /\ visits' = visits /\ dropped' = dropped /\ misuse' = misuse
      /\ corrupt' = corrupt
  BY DEF Rest
<1> QED BY <1>3, <1>4, <1>5, <1>6, <1>7, <1>8, <1>9 DEF PromiseInv

LEMMA CallInv ==
  ASSUME PromiseAssumption, PromiseInv, PromiseTyped', Standing(stack), NEW h \in Handlers,
         type[h] = NULL, type'[h] # NULL, Recorded(type, type'),
         Pushed(stack, stack', Frame(NULL, h, "body")),
         Elsewhere(visits, visits', h), visits'[h] = visits[h] + 1,
         UNCHANGED <<state, listeners, corrupt, dropped, registered, misuse>>
  PROVE  PromiseInv'
<1>1. /\ listeners \in Lists /\ registered \in Lists /\ visits \in [Handlers -> Nat]
      /\ stack \in Seq(FrameType)
  BY DEF PromiseInv, PromiseTyped, Lists
<1>2. /\ Apart(listeners, type) /\ Fresh(type, visits, dropped)
      /\ Waiting(listeners, type, visits, dropped, registered)
      /\ InTurn(listeners, visits, dropped, registered)
      /\ AllThere(state, listeners, registered)
      /\ FramesInv(stack, state, listeners, type, visits, "refire" \notin misuse)
  BY DEF PromiseInv
<1>3. Apart(listeners, type')
  <2>1. \A q \in Promises : ToSet(listeners[q]) \subseteq Handlers
    BY <1>1, ListedHandlers
  <2> QED BY <1>2, <2>1 DEF Apart, Recorded
<1>4. Elsewhere(visits, visits', h)
  OBVIOUS
<1>5. Fresh(type', visits', dropped)
  BY <1>2, <1>4 DEF Fresh, Recorded, Elsewhere
<1>6. Waiting(listeners, type', visits', dropped, registered) /\ InTurn(listeners, visits', dropped, registered)
  BY <1>1, <1>2, <1>4, CallHistories
<1>7. FramesInv(stack', state, listeners, type', visits', "refire" \notin misuse)
  <2>1. visits' \in [Handlers -> Nat]
    BY DEF PromiseTyped
  <2> QED BY <1>1, <1>2, <1>4, <2>1, CallFrames
<1> QED BY <1>2, <1>3, <1>5, <1>6, <1>7 DEF PromiseInv

LEMMA ForgetInv ==
  ASSUME PromiseAssumption, PromiseInv, PromiseTyped', Recorded(type, type'),
         UNCHANGED <<state, listeners, stack, corrupt, visits, dropped, registered, misuse>>
  PROVE  PromiseInv'
<1>1. /\ listeners \in Lists /\ registered \in Lists /\ stack \in Seq(FrameType)
  BY DEF PromiseInv, PromiseTyped, Lists
<1>2. /\ Apart(listeners, type) /\ Fresh(type, visits, dropped)
      /\ Waiting(listeners, type, visits, dropped, registered)
      /\ InTurn(listeners, visits, dropped, registered)
      /\ AllThere(state, listeners, registered)
      /\ FramesInv(stack, state, listeners, type, visits, "refire" \notin misuse)
  BY DEF PromiseInv
<1>3. Apart(listeners, type') /\ Fresh(type', visits, dropped)
  <2>1. \A q \in Promises : ToSet(listeners[q]) \subseteq Handlers
    BY <1>1, ListedHandlers
  <2> QED BY <1>2, <2>1 DEF Apart, Fresh, Recorded
<1>4. Waiting(listeners, type', visits, dropped, registered)
  <2>1. \A q \in Promises : ToSet(registered[q]) \subseteq Handlers
    BY <1>1, ListedHandlers
  <2> QED BY <1>2, <2>1 DEF Waiting, Recorded
<1>5. FramesRight(stack, type')
  <2>1. \A i \in DOMAIN stack : stack[i].at # NULL => stack[i].at \in Handlers
    BY <1>1, StackDomain DEF FrameType
  <2> QED BY <1>2, <2>1 DEF FramesInv, FramesRight, Recorded
<1>6. FramesInv(stack, state, listeners, type', visits, "refire" \notin misuse)
  BY <1>2, <1>5 DEF FramesInv
<1> QED BY <1>2, <1>3, <1>4, <1>6 DEF PromiseInv

(* A step that leaves lists and histories alone, and settles promises at   *)
(* most, has to keep the frames right.                                     *)
LEMMA StackStep ==
  ASSUME PromiseInv, PromiseTyped',
         \A p \in Promises : state'[p] = Pending => state[p] = Pending,
         FramesInv(stack', state', listeners, type, visits, "refire" \notin misuse),
         UNCHANGED <<listeners, type, forwards, corrupt, history>>
  PROVE  PromiseInv'
<1>1. /\ listeners' = listeners /\ type' = type /\ visits' = visits /\ dropped' = dropped
      /\ registered' = registered /\ misuse' = misuse /\ corrupt' = corrupt
  BY DEF history
<1>2. AllThere(state', listeners, registered)
  BY DEF PromiseInv, AllThere
<1> QED BY <1>1, <1>2 DEF PromiseInv

LEMMA FrameTyped ==
  /\ \A p \in Promises : Fire(p) \in FrameType
  /\ \A p \in Promises \cup {NULL}, at \in Handlers \cup {NULL}, ph \in {"scan", "body", "close"} :
       Frame(p, at, ph) \in FrameType
BY DEF Fire, Frame, FrameType

LEMMA UserCodeStands ==
  ASSUME PromiseInv, UserCode
  PROVE  Standing(stack)
<1>1. stack \in Seq(FrameType) /\ FramesRight(stack, type)
  BY DEF PromiseInv, PromiseTyped, FramesInv
<1>2. stack = <<>> \/ stack[Len(stack)].phase = "body"
  BY DEF UserCode, InBody, Top
<1>3. stack # <<>> => Len(stack) \in DOMAIN stack
  BY <1>1, StackDomain
<1> QED BY <1>1, <1>2, <1>3, StandingWhen DEF FramesRight

(* Lists of one and two handlers. *)
LEMMA ShortLists ==
  ASSUME NEW h \in Handlers, NEW g \in Handlers, h # g
  PROVE  /\ <<h>> \in Seq(Handlers) /\ ToSet(<<h>>) = {h} /\ IsInjective(<<h>>)
         /\ <<h, g>> \in Seq(Handlers) /\ ToSet(<<h, g>>) = {h, g} /\ IsInjective(<<h, g>>)
BY DEF ToSet, IsInjective

LEMMA ShortList ==
  ASSUME NEW h \in Handlers
  PROVE  /\ <<h>> \in Seq(Handlers) /\ ToSet(<<h>>) = {h} /\ IsInjective(<<h>>)
         /\ \A s \in Seq(Handlers) : Append(s, h) = s \o <<h>> /\ Append(s, h) \in Seq(Handlers)
<1>1. <<h>> \in Seq(Handlers) /\ ToSet(<<h>>) = {h} /\ IsInjective(<<h>>)
  BY DEF ToSet, IsInjective
<1>2. ASSUME NEW s \in Seq(Handlers) PROVE Append(s, h) = s \o <<h>> /\ Append(s, h) \in Seq(Handlers)
  OBVIOUS
<1> QED BY <1>1, <1>2

(* A list is exchanged for one with handlers behind it. *)
LEMMA EnlistIs ==
  ASSUME NEW ls \in Lists, NEW us, NEW p \in Promises, NEW hs \in Seq(Handlers),
         us = [ls EXCEPT ![p] = ls[p] \o hs]
  PROVE  Enlisted(ls, us, p, hs) /\ us \in Lists
<1>1. ls[p] \o hs \in Seq(Handlers)
  BY ListedHandlers, ConcatElements
<1> QED BY <1>1 DEF Enlisted, Lists

LEMMA AddHandlerInv ==
  ASSUME PromiseAssumption, PromiseInv, Standing(stack),
         NEW p \in Promises, NEW h \in Handlers, NEW t \in States, NEW target \in Promises \cup {NULL},
         target # NULL => t \in Outcomes,
         AddHandler(p, h, t, target)
  PROVE  PromiseInv'
<1>0. PromiseTyped /\ listeners \in Lists /\ registered \in Lists
  BY DEF PromiseInv, PromiseTyped, Lists
<1>1. /\ type[h] = NULL /\ t # NULL
      /\ type' = [type EXCEPT ![h] = t] /\ forwards' = [forwards EXCEPT ![h] = target]
      /\ UNCHANGED <<state, corrupt, dropped, misuse>>
  BY Promised DEF AddHandler
<1>2. /\ type' \in [Handlers -> States \cup {NULL}] /\ forwards' \in [Handlers -> Promises \cup {NULL}]
      /\ type'[h] # NULL /\ Recorded(type, type')
      /\ \A x \in Handlers : forwards'[x] # NULL => type'[x] \in Outcomes
  BY <1>0, <1>1 DEF PromiseTyped, Recorded
<1>3. CASE /\ state[p] = Pending
           /\ listeners' = [listeners EXCEPT ![p] = Attached(p, <<h>>)]
           /\ registered' = [registered EXCEPT ![p] = Append(@, h)]
           /\ UNCHANGED <<stack, visits>>
  <2>1. /\ <<h>> \in Seq(Handlers) /\ ToSet(<<h>>) = {h} /\ IsInjective(<<h>>)
        /\ registered[p] \in Seq(Handlers)
        /\ Append(registered[p], h) = registered[p] \o <<h>>
    BY <1>0, ShortList, ListedHandlers
  <2>2. listeners' = [listeners EXCEPT ![p] = listeners[p] \o <<h>>]
    BY <1>3 DEF Attached
  <2>3. registered' = [registered EXCEPT ![p] = registered[p] \o <<h>>]
    BY <1>3, <2>1
  <2>4. Enlisted(listeners, listeners', p, <<h>>) /\ listeners' \in Lists
    BY <1>0, <2>1, <2>2, EnlistIs
  <2>5. Enlisted(registered, registered', p, <<h>>) /\ registered' \in Lists
    BY <1>0, <2>1, <2>3, EnlistIs
  <2>6. PromiseTyped'
    BY <1>0, <1>1, <1>2, <1>3, <2>4, <2>5 DEF PromiseTyped, Lists
  <2>7. Unknown(type, <<h>>) /\ Known(type', <<h>>)
    BY <1>1, <1>2, <2>1 DEF Unknown, Known
  <2>8. UNCHANGED Rest
    BY <1>1, <1>3 DEF Rest
  <2> QED BY <1>2, <1>3, <2>1, <2>4, <2>5, <2>6, <2>7, <2>8, EnlistInv
<1>4. CASE /\ stack' = Append(stack, Frame(NULL, h, "body"))
           /\ visits' = [visits EXCEPT ![h] = @ + 1]
           /\ UNCHANGED <<listeners, registered>>
  <2>1. Frame(NULL, h, "body") \in FrameType /\ stack \in Seq(FrameType)
    BY <1>0, FrameTyped DEF PromiseTyped
  <2>2. Pushed(stack, stack', Frame(NULL, h, "body"))
    BY <1>4, <2>1, PushIs
  <2>3. /\ visits' \in [Handlers -> Nat] /\ visits'[h] = visits[h] + 1
        /\ Elsewhere(visits, visits', h)
    BY <1>0, <1>4 DEF PromiseTyped, Elsewhere
  <2>4. PromiseTyped'
    BY <1>0, <1>1, <1>2, <1>4, <2>2, <2>3 DEF PromiseTyped, Pushed
  <2>5. UNCHANGED <<state, listeners, corrupt, dropped, registered, misuse>>
    BY <1>1, <1>4
  <2> QED BY <1>1, <1>2, <2>2, <2>3, <2>4, <2>5, CallInv
<1>5. CASE UNCHANGED <<listeners, stack, registered, visits>>
  <2>1. PromiseTyped'
    BY <1>0, <1>1, <1>2, <1>5 DEF PromiseTyped
  <2>2. UNCHANGED <<state, listeners, stack, corrupt, visits, dropped, registered, misuse>>
    BY <1>1, <1>5
  <2> QED BY <1>2, <2>1, <2>2, ForgetInv
<1> QED BY <1>3, <1>4, <1>5 DEF AddHandler

LEMMA ResolveWithInv ==
  ASSUME PromiseAssumption, PromiseInv, NEW p \in Promises, NEW q \in Promises,
         NEW h \in Handlers, NEW g \in Handlers, ResolveWith(p, q, h, g)
  PROVE  PromiseInv'
<1>0. PromiseTyped /\ listeners \in Lists /\ registered \in Lists /\ Standing(stack)
  BY UserCodeStands DEF PromiseInv, PromiseTyped, Lists, ResolveWith
<1>1. /\ h # g /\ type[h] = NULL /\ type[g] = NULL
      /\ type' = [type EXCEPT ![h] = Fulfilled, ![g] = Rejected]
      /\ forwards' = [forwards EXCEPT ![h] = p, ![g] = p]
      /\ UNCHANGED <<state, corrupt, dropped, misuse>>
  BY DEF ResolveWith
<1>2. /\ Fulfilled \in States /\ Rejected \in States /\ Fulfilled # NULL /\ Rejected # NULL
      /\ Fulfilled \in Outcomes /\ Rejected \in Outcomes
  BY Promised DEF States, Outcomes
<1>3. /\ type' \in [Handlers -> States \cup {NULL}] /\ forwards' \in [Handlers -> Promises \cup {NULL}]
      /\ type'[h] # NULL /\ type'[g] # NULL /\ Recorded(type, type')
      /\ \A x \in Handlers : forwards'[x] # NULL => type'[x] \in Outcomes
  BY <1>0, <1>1, <1>2 DEF PromiseTyped, Recorded
<1>4. CASE state[q] = Pending
  <2>0. /\ listeners' = [listeners EXCEPT ![q] = listeners[q] \o <<h, g>>]
        /\ registered' = [registered EXCEPT ![q] = registered[q] \o <<h, g>>]
        /\ UNCHANGED <<stack, visits>>
    BY <1>4 DEF ResolveWith, Attached
  <2>1. <<h, g>> \in Seq(Handlers) /\ ToSet(<<h, g>>) = {h, g} /\ IsInjective(<<h, g>>)
    BY <1>1, ShortLists
  <2>4. Enlisted(listeners, listeners', q, <<h, g>>) /\ listeners' \in Lists
    BY <1>0, <2>0, <2>1, EnlistIs
  <2>5. Enlisted(registered, registered', q, <<h, g>>) /\ registered' \in Lists
    BY <1>0, <2>0, <2>1, EnlistIs
  <2>6. PromiseTyped'
    BY <1>0, <1>1, <1>3, <2>0, <2>4, <2>5 DEF PromiseTyped, Lists
  <2>7. Unknown(type, <<h, g>>) /\ Known(type', <<h, g>>)
    BY <1>1, <1>3, <2>1 DEF Unknown, Known
  <2>8. UNCHANGED Rest
    BY <1>1, <2>0 DEF Rest
  <2> QED BY <1>3, <1>4, <2>1, <2>4, <2>5, <2>6, <2>7, <2>8, EnlistInv
<1>5. CASE state[q] # Pending
  <2>0. PICK f \in {h, g} : /\ stack' = Append(stack, Frame(NULL, f, "body"))
                            /\ visits' = [visits EXCEPT ![f] = @ + 1]
                            /\ UNCHANGED <<listeners, registered>>
    <3>1. CASE state[q] = Fulfilled
      BY <1>5, <3>1 DEF ResolveWith
    <3>2. CASE state[q] # Fulfilled
      BY <1>5, <3>2 DEF ResolveWith
    <3> QED BY <3>1, <3>2
  <2>1. f \in Handlers /\ type[f] = NULL /\ type'[f] # NULL
    BY <1>1, <1>3
  <2>2. Frame(NULL, f, "body") \in FrameType /\ stack \in Seq(FrameType)
    BY <1>0, <2>1, FrameTyped DEF PromiseTyped
  <2>3. Pushed(stack, stack', Frame(NULL, f, "body"))
    BY <2>0, <2>2, PushIs
  <2>4. /\ visits' \in [Handlers -> Nat] /\ visits'[f] = visits[f] + 1
        /\ Elsewhere(visits, visits', f)
    BY <1>0, <2>0, <2>1 DEF PromiseTyped, Elsewhere
  <2>5. PromiseTyped'
    BY <1>0, <1>1, <1>3, <2>0, <2>3, <2>4 DEF PromiseTyped, Pushed
  <2>6. UNCHANGED <<state, listeners, corrupt, dropped, registered, misuse>>
    BY <1>1, <2>0
  <2> QED BY <1>0, <1>3, <2>1, <2>3, <2>4, <2>5, <2>6, CallInv
<1> QED BY <1>4, <1>5

LEMMA SettleInv ==
  ASSUME PromiseAssumption, PromiseInv, NEW p \in Promises, NEW s \in {Fulfilled, Rejected}, Settle(p, s)
  PROVE  PromiseInv'
<1>0. PromiseTyped /\ Standing(stack) /\ s \in States /\ s \in Outcomes /\ s # Pending
  <2>1. PromiseTyped /\ Standing(stack)
    BY UserCodeStands DEF PromiseInv, Settle
  <2>2. s \in States /\ s \in Outcomes
    BY DEF States, Outcomes
  <2>3. s # Pending
    BY DEF Pending, Fulfilled, Rejected
  <2> QED BY <2>1, <2>2, <2>3
<1>1. /\ state[p] = Pending /\ state' = [state EXCEPT ![p] = s] /\ stack' = Append(stack, Fire(p))
      /\ UNCHANGED <<listeners, type, forwards, corrupt, history>>
  BY DEF Settle
<1>2. stack \in Seq(FrameType) /\ state \in [Promises -> States] /\ Fire(p) \in FrameType
  BY <1>0, FrameTyped DEF PromiseTyped
<1>3. Pushed(stack, stack', Fire(p))
  BY <1>1, <1>2, PushIs
<1>4. PromiseTyped'
  BY <1>0, <1>1, <1>2, <1>3 DEF PromiseTyped, Pushed, history
<1>5. FramesInv(stack, state, listeners, type, visits, "refire" \notin misuse)
  BY DEF PromiseInv
<1>6. FramesInv(stack', state', listeners, type, visits, "refire" \notin misuse)
  <2>1. SettledNow(state, state', p)
    BY <1>0, <1>1, <1>2 DEF SettledNow
  <2> QED BY <1>0, <1>1, <1>2, <1>3, <1>5, <2>1, FireFrames
<1>7. \A q \in Promises : state'[q] = Pending => state[q] = Pending
  BY <1>0, <1>1, <1>2
<1> QED BY <1>1, <1>4, <1>6, <1>7, StackStep

-----------------------------------------------------------------------------
(* The innermost activation, and what it does. *)
LEMMA TopFrame ==
  ASSUME PromiseAssumption, PromiseInv, stack # <<>>
  PROVE  /\ stack \in Seq(FrameType) /\ Len(stack) \in DOMAIN stack /\ Top = stack[Len(stack)]
         /\ Top.p \in Promises \cup {NULL} /\ Top.at \in Handlers \cup {NULL}
         /\ Top.phase # "body" => Top.p # NULL /\ Top.p \in Promises
         /\ Top.phase # "scan" => Top.at # NULL /\ Top.at \in Handlers
         /\ Popped(stack, Below) /\ Standing(Below)
         /\ \A f \in FrameType : Swapped(stack, WithTop(f), f)
         /\ FramesInv(stack, state, listeners, type, visits, "refire" \notin misuse)
<1>1. stack \in Seq(FrameType) /\ FramesInv(stack, state, listeners, type, visits, "refire" \notin misuse)
  BY DEF PromiseInv, PromiseTyped
<1>2. Len(stack) \in DOMAIN stack /\ \A i \in DOMAIN stack : stack[i] \in FrameType
  BY <1>1, StackDomain
<1>3. Top = stack[Len(stack)]
  BY DEF Top
<1>4. /\ Top.p \in Promises \cup {NULL} /\ Top.at \in Handlers \cup {NULL}
  BY <1>2, <1>3 DEF FrameType
<1>5. /\ Top.phase # "body" => Top.p # NULL
      /\ Top.phase # "scan" => Top.at # NULL
  BY <1>1, <1>2, <1>3 DEF FramesInv, FramesRight
<1>6. Popped(stack, Below) /\ \A f \in FrameType : Swapped(stack, WithTop(f), f)
  BY <1>1, BelowIs DEF Below, WithTop
<1>7. Standing(Below)
  <2>1. \A i \in DOMAIN Below : i \in DOMAIN stack /\ Below[i] = stack[i] /\ i # Len(stack)
    BY <1>1, <1>6, PoppedFrames
  <2> QED BY <1>1, <2>1 DEF FramesInv, FramesRight, Standing
<1> QED BY <1>1, <1>2, <1>3, <1>4, <1>5, <1>6, <1>7

(* The frame the enumerator stands on is lost only when a promise that     *)
(* fired was fired again.                                                  *)
LEMMA DanglingMisuse ==
  ASSUME PromiseAssumption, PromiseInv, stack # <<>>, Dangling(Top)
  PROVE  "refire" \in misuse
<1>1. Len(stack) \in DOMAIN stack /\ Top = stack[Len(stack)]
  BY TopFrame
<1>2. FramesInv(stack, state, listeners, type, visits, "refire" \notin misuse)
  BY TopFrame
<1>3. SUFFICES ASSUME FiredOnce(stack, listeners, visits) PROVE FALSE
  BY <1>2 DEF FramesInv
<1> QED BY <1>1, <1>3 DEF FiredOnce, Dangling, Listening

LEMMA CorruptInv ==
  ASSUME PromiseInv, misuse' # {}, PromiseTyped', misuse \subseteq misuse',
         UNCHANGED <<state, listeners, type, stack, visits, dropped, registered>>
  PROVE  PromiseInv'
<1>1. FramesInv(stack, state, listeners, type, visits, "refire" \notin misuse')
  BY DEF PromiseInv, FramesInv
<1> QED BY <1>1 DEF PromiseInv

(* The place of a handler that is in the list. *)
LEMMA IndexIs ==
  ASSUME NEW p, NEW h, h \in ToSet(listeners[p])
  PROVE  Index(p, h) \in DOMAIN listeners[p] /\ listeners[p][Index(p, h)] = h
<1>1. \E i \in DOMAIN listeners[p] : listeners[p][i] = h
  BY DEF ToSet
<1> QED BY <1>1 DEF Index

LEMMA NextFollows ==
  ASSUME NEW p \in Promises, NEW at, listeners[p] \in Seq(Handlers), IsInjective(listeners[p]),
         at # NULL => at \in ToSet(listeners[p]), NextIndex(p, at) \in DOMAIN listeners[p]
  PROVE  Follows(listeners[p], at, listeners[p][NextIndex(p, at)])
<1> DEFINE l == listeners[p]
           i == NextIndex(p, at)
           h == l[i]
<1>0. DOMAIN l = 1 .. Len(l) /\ Len(l) \in Nat /\ l \in Seq(Handlers) /\ IsInjective(l) /\ i \in 1 .. Len(l)
  OBVIOUS
<1>1. h \in ToSet(l) /\ Upto(l, h, h)
  BY <1>0 DEF ToSet, Upto
<1>2. CASE at = NULL
  <2>1. i = 1
    BY <1>2 DEF NextIndex
  <2>2. \A x : Upto(l, x, l[1]) <=> x = l[1]
    <3> HIDE DEF l
    <3>1. 1 <= Len(l)
      BY <1>0, <2>1
    <3> QED BY <1>0, <3>1, UptoFirst
  <2> QED BY <1>1, <1>2, <2>1, <2>2 DEF Follows
<1>3. CASE at # NULL
  <2> DEFINE k == Index(p, at)
  <2>1. k \in 1 .. Len(l) /\ l[k] = at
    BY <1>0, <1>3, IndexIs
  <2>2. i = k + 1
    BY <1>3 DEF NextIndex
  <2> HIDE DEF l, k, i
  <2>3. k + 1 <= Len(l)
    BY <1>0, <2>1, <2>2
  <2>4. \A x : Upto(l, x, h) <=> Upto(l, x, at) \/ x = h
    BY <1>0, <2>1, <2>2, <2>3, UptoNext
  <2>5. ~Upto(l, h, at)
    <3>1. Upto(l, h, l[k]) <=> \E j \in 1 .. k : l[j] = h
      BY <1>0, <2>1, UptoIs
    <3>2. \A j \in 1 .. k : l[j] # h
      <4> SUFFICES ASSUME NEW j \in 1 .. k, l[j] = l[i] PROVE FALSE
        OBVIOUS
      <4>1. j \in DOMAIN l /\ i \in DOMAIN l /\ j # i
        BY <1>0, <2>1, <2>2, <2>3
      <4> QED BY <1>0, <4>1 DEF IsInjective
    <3> QED BY <2>1, <3>1, <3>2
  <2>6. Follows(l, at, h)
    BY <1>1, <1>3, <2>4, <2>5 DEF Follows
  <2> QED BY <2>6 DEF l, i
<1> QED BY <1>2, <1>3

LEMMA ScanInv ==
  ASSUME PromiseAssumption, PromiseInv, Scan
  PROVE  PromiseInv'
<1> DEFINE n == Len(stack)
           p == Top.p
           at == Top.at
           i == NextIndex(p, at)
           h == listeners[p][i]
           f == Frame(p, h, IF Matches(type[h], state[p]) THEN "body" ELSE "scan")
<1>0. PromiseTyped /\ stack # <<>> /\ listeners \in Lists /\ registered \in Lists
  BY DEF PromiseInv, PromiseTyped, Lists, Scan
<1>1. CASE Dangling(Top)
  <2>1. misuse # {}
    BY <1>0, <1>1, DanglingMisuse
  <2>2. /\ corrupt' = TRUE
        /\ UNCHANGED <<state, listeners, type, forwards, stack, visits, dropped, registered, misuse>>
    BY <1>1 DEF Scan, BecomeCorrupt
  <2>3. PromiseTyped'
    BY <1>0, <2>2 DEF PromiseTyped
  <2> QED BY <2>1, <2>2, <2>3, CorruptInv
<1>2. CASE ~Dangling(Top)
  <2>1. /\ i \in DOMAIN listeners[p]
        /\ visits' = [visits EXCEPT ![h] = IF @ < 2 THEN @ + 1 ELSE @]
        /\ stack' = WithTop(f)
        /\ UNCHANGED <<state, listeners, type, forwards, corrupt, dropped, registered, misuse>>
    BY <1>2 DEF Scan
  <2>2. /\ stack \in Seq(FrameType) /\ n \in DOMAIN stack /\ Top = stack[n]
        /\ p # NULL /\ p \in Promises /\ at \in Handlers \cup {NULL}
        /\ \A g \in FrameType : Swapped(stack, WithTop(g), g)
        /\ FramesInv(stack, state, listeners, type, visits, "refire" \notin misuse)
    BY <1>0, TopFrame DEF Scan
  <2>3. listeners[p] \in Seq(Handlers) /\ IsInjective(listeners[p])
    BY <1>0, <2>2, ListedHandlers DEF PromiseInv, Apart
  <2>4. at # NULL => at \in ToSet(listeners[p])
    BY <1>2, <2>2 DEF Dangling, Listening
  <2>5. Follows(listeners[p], at, h)
    BY <2>1, <2>2, <2>3, <2>4, NextFollows
  <2>6. h \in ToSet(listeners[p]) /\ h \in Handlers /\ type[h] # NULL
    <3>1. h \in ToSet(listeners[p])
      BY <2>5 DEF Follows
    <3> QED BY <1>0, <2>2, <3>1, ListedHandlers DEF PromiseInv, Apart
  <2>7. f \in FrameType /\ f.p = p /\ f.at = h
    BY <2>2, <2>6, FrameTyped, FrameFields
  <2>8. Swapped(stack, stack', f)
    BY <2>1, <2>2, <2>7
  <2>9. visits \in [Handlers -> Nat]
    BY <1>0 DEF PromiseTyped
  <2> HIDE DEF n, p, at, i, h, f
  <2>10. /\ visits' \in [Handlers -> Nat] /\ Elsewhere(visits, visits', h)
         /\ visits'[h] > 0 /\ (visits[h] = 0 => visits'[h] = 1)
    BY <2>1, <2>6, <2>9 DEF Elsewhere
  <2>11. PromiseTyped'
    BY <1>0, <2>1, <2>8, <2>10 DEF PromiseTyped, Swapped
  <2>12. Fresh(type, visits', dropped)
    BY <2>6, <2>10 DEF PromiseInv, Fresh, Elsewhere
  <2>13. \A x \in Handlers : Upto(listeners[p], x, h) => x = h \/ visits[x] > 0
    <3>1. ASSUME NEW x \in Handlers, at # NULL, Upto(listeners[p], x, at) PROVE visits[x] > 0
      <4>1. DOMAIN stack = 1 .. n /\ n \in Nat
        BY <2>2, StackDomain DEF n
      <4>2. Innermost(stack, n)
        BY <4>1 DEF Innermost
      <4>3. stack[n].p = p /\ stack[n].at = at
        BY <2>2 DEF p, at
      <4> QED BY <2>2, <3>1, <4>2, <4>3 DEF FramesInv, BehindMet
    <3> QED BY <2>5, <3>1 DEF Follows
  <2>14. Waiting(listeners, type, visits', dropped, registered) /\ InTurn(listeners, visits', dropped, registered)
    <3>1. Waiting(listeners, type, visits, dropped, registered) /\ InTurn(listeners, visits, dropped, registered)
      BY DEF PromiseInv
    <3> QED BY <1>0, <2>2, <2>6, <2>10, <2>13, <3>1, VisitHistories
  <2>15. FramesInv(stack', state, listeners, type, visits', "refire" \notin misuse)
    <3>1. p = stack[Len(stack)].p /\ Follows(listeners[p], stack[Len(stack)].at, h)
      BY <2>2, <2>5 DEF p, at, n
    <3>2. Apart(listeners, type)
      BY DEF PromiseInv
    <3> QED BY <1>0, <2>2, <2>6, <2>7, <2>8, <2>9, <2>10, <3>1, <3>2, ScanFrames
  <2> QED BY <2>1, <2>11, <2>12, <2>14, <2>15 DEF PromiseInv
<1> QED BY <1>1, <1>2

LEMMA ReturnFromCallInv ==
  ASSUME PromiseAssumption, PromiseInv, ReturnFromCall
  PROVE  PromiseInv'
<1>1. /\ stack # <<>> /\ Top.p = NULL /\ stack' = Below
      /\ UNCHANGED <<state, listeners, type, forwards, corrupt, history>>
  BY DEF ReturnFromCall, Returning, InBody
<1>2. /\ stack \in Seq(FrameType) /\ stack[Len(stack)].p = NULL /\ Popped(stack, stack')
      /\ FramesInv(stack, state, listeners, type, visits, "refire" \notin misuse)
  BY <1>1, TopFrame
<1>3. PromiseTyped'
  BY <1>1, <1>2 DEF PromiseInv, PromiseTyped, Popped, history
<1>4. FramesInv(stack', state, listeners, type, visits, "refire" \notin misuse)
  BY <1>2, Promised, ReturnFrames
<1> QED BY <1>1, <1>3, <1>4, StackStep

LEMMA ReturnNothingInv ==
  ASSUME PromiseAssumption, PromiseInv, ReturnNothing
  PROVE  PromiseInv'
<1> DEFINE f == Frame(Top.p, Top.at, "scan")
<1>1. /\ stack # <<>> /\ Top.p # NULL /\ Top.phase = "body" /\ stack' = WithTop(f)
      /\ UNCHANGED <<state, listeners, type, forwards, corrupt, history>>
  BY DEF ReturnNothing, Returning, InBody
<1>2. /\ stack \in Seq(FrameType) /\ Top = stack[Len(stack)]
      /\ Top.p \in Promises \cup {NULL} /\ Top.at \in Handlers /\ Top.at # NULL
      /\ \A g \in FrameType : Swapped(stack, WithTop(g), g)
      /\ FramesInv(stack, state, listeners, type, visits, "refire" \notin misuse)
  BY <1>1, TopFrame
<1>3. f \in FrameType /\ f.p = Top.p /\ f.at = Top.at
  BY <1>2, FrameTyped, FrameFields
<1>4. Swapped(stack, stack', f)
  BY <1>1, <1>2, <1>3
<1>5. PromiseTyped'
  BY <1>1, <1>4 DEF PromiseInv, PromiseTyped, Swapped, history
<1> HIDE DEF f
<1>6. FramesInv(stack', state, listeners, type, visits, "refire" \notin misuse)
  BY <1>1, <1>2, <1>3, <1>4, RephaseFrames
<1> QED BY <1>1, <1>5, <1>6, StackStep

LEMMA ForwardInv ==
  ASSUME PromiseAssumption, PromiseInv, Forward
  PROVE  PromiseInv'
<1> DEFINE h == Top.at
           p == forwards[h]
           f == Frame(Top.p, h, "scan")
           rest == IF Top.p = NULL THEN Below ELSE WithTop(f)
           once == "refire" \notin misuse
<1>0. PromiseTyped /\ stack # <<>> /\ Top.phase = "body" /\ p # NULL
  BY DEF Forward, InBody, PromiseInv
<1>1. UNCHANGED <<listeners, type, forwards, corrupt, history>>
  BY DEF Forward
<1>2. /\ stack \in Seq(FrameType) /\ Top = stack[Len(stack)]
      /\ Top.p \in Promises \cup {NULL} /\ h \in Handlers /\ h # NULL
      /\ Popped(stack, Below) /\ Standing(Below)
      /\ \A g \in FrameType : Swapped(stack, WithTop(g), g)
      /\ FramesInv(stack, state, listeners, type, visits, once)
  BY <1>0, TopFrame
<1>3. p \in Promises /\ type[h] \in Outcomes /\ state \in [Promises -> States]
  BY <1>0, <1>2 DEF PromiseTyped
<1>4. type[h] \in States /\ type[h] # Pending
  BY <1>3 DEF States, Outcomes, Pending, Fulfilled, Rejected
<1>5. f \in FrameType /\ f.p = Top.p /\ f.at = h
  BY <1>2, FrameTyped, FrameFields
<1>6. rest \in Seq(FrameType) /\ Standing(rest) /\ FramesInv(rest, state, listeners, type, visits, once)
  <2>1. CASE Top.p = NULL
    <3>1. Below \in Seq(FrameType)
      BY <1>2 DEF Popped
    <3>2. FramesInv(Below, state, listeners, type, visits, once)
      BY <1>2, <2>1, Promised, ReturnFrames
    <3> QED BY <1>2, <2>1, <3>1, <3>2
  <2>2. CASE Top.p # NULL
    <3>1. Swapped(stack, WithTop(f), f) /\ WithTop(f) \in Seq(FrameType)
      BY <1>2, <1>5 DEF Swapped
    <3>2. f.p = stack[Len(stack)].p /\ f.at = stack[Len(stack)].at /\ f.p # NULL /\ f.at # NULL
      BY <1>2, <1>5, <2>2
    <3> HIDE DEF f
    <3>3. FramesInv(WithTop(f), state, listeners, type, visits, once) /\ Standing(WithTop(f))
      BY <1>2, <3>1, <3>2, RephaseFrames
    <3> QED BY <2>2, <3>1, <3>3
  <2> QED BY <2>1, <2>2
<1> HIDE DEF rest
<1>7. CASE state[p] = Pending
  <2>1. state' = [state EXCEPT ![p] = type[h]] /\ stack' = Append(rest, Fire(p))
    BY <1>0, <1>7 DEF Forward, rest
  <2>2. Pushed(rest, stack', Fire(p))
    BY <1>3, <1>6, <2>1, FrameTyped, PushIs
  <2>3. FramesInv(stack', state', listeners, type, visits, once)
    <3>1. SettledNow(state, state', p)
      BY <1>3, <1>4, <2>1 DEF SettledNow
    <3> HIDE DEF h, p, once
    <3> QED BY <1>3, <1>6, <1>7, <2>2, <3>1, FireFrames
  <2>4. PromiseTyped'
    BY <1>0, <1>1, <1>3, <1>4, <2>1, <2>2 DEF PromiseTyped, Pushed, history
  <2>5. \A q \in Promises : state'[q] = Pending => state[q] = Pending
    BY <1>3, <1>4, <2>1
  <2> QED BY <1>1, <2>3, <2>4, <2>5, StackStep
<1>8. CASE state[p] # Pending
  <2>1. state' = state /\ stack' = rest
    BY <1>0, <1>8 DEF Forward, rest
  <2>2. PromiseTyped'
    BY <1>0, <1>1, <1>6, <2>1 DEF PromiseTyped, history
  <2>3. FramesInv(stack', state', listeners, type, visits, once)
    BY <1>6, <2>1
  <2> QED BY <1>1, <2>1, <2>2, <2>3, StackStep
<1> QED BY <1>7, <1>8

(* A list is cut behind the handler the enumerator stands on. *)
CutBehind(l, k, hd, tl) == hd = SubSeq(l, 1, k) /\ tl = SubSeq(l, k + 1, Len(l))

LEMMA CutAt ==
  ASSUME NEW l \in Seq(Handlers), IsInjective(l), NEW k \in 1 .. Len(l), NEW at, l[k] = at,
         NEW hd, NEW tl, CutBehind(l, k, hd, tl)
  PROVE  /\ hd \in Seq(Handlers) /\ tl \in Seq(Handlers) /\ l = hd \o tl
         /\ at \in ToSet(hd) /\ \A h \in ToSet(hd) : Upto(hd, h, at)
         /\ \A h \in ToSet(hd) : Upto(l, h, at)
<1>1. hd \in Seq(Handlers) /\ tl \in Seq(Handlers) /\ l = hd \o tl
  <2>1. k \in 0 .. Len(l)
    OBVIOUS
  <2> QED BY <2>1, CutList DEF CutBehind
<1>2. Len(hd) = k /\ DOMAIN hd = 1 .. k /\ \A i \in 1 .. k : hd[i] = l[i]
  BY DEF CutBehind
<1>3. k \in DOMAIN hd /\ hd[k] = at
  BY <1>2
<1>4. at \in ToSet(hd)
  BY <1>3 DEF ToSet
<1>5. ASSUME NEW h \in ToSet(hd) PROVE Upto(hd, h, at)
  <2>1. PICK i \in 1 .. k : hd[i] = h
    BY <1>2 DEF ToSet
  <2>2. i \in 1 .. Len(hd) /\ k \in 1 .. Len(hd) /\ i <= k /\ hd[k] = at
    BY <1>2
  <2> QED BY <2>1, <2>2 DEF Upto
<1>6. \A h \in ToSet(hd) : Upto(l, h, at)
  <2>1. \A h : Upto(l, h, l[k]) <=> h \in ToSet(SubSeq(l, 1, k))
    BY UptoIs
  <2> QED BY <2>1 DEF CutBehind
<1> QED BY <1>1, <1>4, <1>5, <1>6

LEMMA HandOverIs ==
  ASSUME NEW ls \in Lists, NEW us, NEW p \in Promises, NEW r \in Promises, p # r,
         NEW hd \in Seq(Handlers), NEW tl \in Seq(Handlers), ls[p] = hd \o tl,
         us = [ls EXCEPT ![p] = hd, ![r] = ls[r] \o tl]
  PROVE  HandedOver(ls, us, p, r, hd, tl)
<1>1. ls[r] \o tl \in Seq(Handlers)
  BY ListedHandlers, ConcatElements
<1> QED BY <1>1 DEF HandedOver, Lists

(* The handlers tl behind the one p stands on go to r.  su: the stack when *)
(* p has only to free what is left.                                        *)
LEMMA HandOverInv ==
  ASSUME PromiseAssumption, PromiseInv, PromiseTyped', stack # <<>>,
         NEW r \in Promises, NEW p \in Promises, p = Top.p, p # r,
         NEW at \in Handlers, at = Top.at,
         NEW hd \in Seq(Handlers), NEW tl \in Seq(Handlers),
         HandedOver(listeners, listeners', p, r, hd, tl),
         at \in ToSet(hd), \A h \in ToSet(hd) : Upto(hd, h, at),
         \A h \in ToSet(hd) : Upto(listeners[p], h, at),
         NEW su, NEW f, f.p = p, f.at = at, Swapped(stack, su, f),
         state[r] = Pending => stack' = su,
         state[r] # Pending => Pushed(su, stack', Fire(r)),
         misuse \subseteq misuse', r \in Firing => "refire" \in misuse',
         corrupt' => Len(stack') > MaxDepth,
         UNCHANGED <<state, type, visits, dropped, registered>>
  PROVE  PromiseInv'
<1>0. PromiseTyped /\ listeners \in Lists /\ registered \in Lists /\ listeners' \in Lists
  BY DEF PromiseInv, PromiseTyped, Lists, HandedOver
<1>1. /\ Apart(listeners, type) /\ Fresh(type, visits, dropped)
      /\ Waiting(listeners, type, visits, dropped, registered)
      /\ InTurn(listeners, visits, dropped, registered)
      /\ AllThere(state, listeners, registered)
  BY DEF PromiseInv
<1>2. /\ stack \in Seq(FrameType) /\ Len(stack) \in DOMAIN stack /\ Top = stack[Len(stack)]
      /\ FramesInv(stack, state, listeners, type, visits, "refire" \notin misuse)
  BY TopFrame
<1>3. p # NULL /\ at # NULL
  BY Promised
<1>4. state[p] # Pending
  <2>1. Fires(stack, p)
    BY <1>2 DEF Fires
  <2> QED BY <1>2, <2>1 DEF FramesInv, FiringRight
<1>5. Visited(visits, hd)
  <2>1. Innermost(stack, Len(stack))
    BY <1>2, StackDomain DEF Innermost
  <2>2. ToSet(hd) \subseteq Handlers
    BY DEF ToSet
  <2>3. \A h \in Handlers : Upto(listeners[p], h, at) => visits[h] > 0
    BY <1>2, <1>3, <2>1 DEF FramesInv, BehindMet
  <2> QED BY <2>2, <2>3 DEF Visited
<1>6. Apart(listeners', type)
  BY <1>0, <1>1, HandOverElements
<1>7. /\ Waiting(listeners', type, visits, dropped, registered)
      /\ InTurn(listeners', visits, dropped, registered)
      /\ AllThere(state, listeners', registered)
  BY <1>0, <1>1, <1>4, <1>5, HandOverHistories
<1>8. Relinquished(listeners, listeners', p, r, at)
  BY <1>0, <1>1, HandOverSeen
<1>9. su \in Seq(FrameType) /\ su # <<>> /\ su[Len(su)] = f
  <2>1. su \in Seq(FrameType) /\ Len(su) = Len(stack) /\ Len(stack) > 0 /\ su[Len(stack)] = f
    BY DEF Swapped
  <2>2. su # <<>>
    BY <2>1
  <2> QED BY <2>1, <2>2
<1>10. FramesInv(su, state, listeners, type, visits, "refire" \notin misuse) /\ Standing(su)
  <2>1. f.p = stack[Len(stack)].p /\ f.at = stack[Len(stack)].at /\ f.p # NULL /\ f.at # NULL
    BY <1>2, <1>3
  <2> QED BY <1>2, <2>1, RephaseFrames
<1>11. p = su[Len(su)].p /\ Relinquished(listeners, listeners', p, r, su[Len(su)].at)
  BY <1>8, <1>9
<1>12. "refire" \notin misuse' => "refire" \notin misuse /\ ~Fires(su, r)
  <2>1. SUFFICES ASSUME r \notin Firing PROVE ~Fires(su, r)
    OBVIOUS
  <2>2. \A i \in DOMAIN stack : stack[i].p # r
    BY <2>1, Promised DEF Firing
  <2>3. DOMAIN su = DOMAIN stack /\ \A i \in DOMAIN stack : i # Len(stack) => su[i] = stack[i]
    BY <1>2, SwappedFrames
  <2>4. su[Len(stack)] = f
    BY DEF Swapped
  <2> QED BY <2>2, <2>3, <2>4 DEF Fires
<1>13. FramesInv(su, state, listeners, type, visits, "refire" \notin misuse')
  BY <1>10, <1>12 DEF FramesInv
<1>14. /\ stack' \in Seq(FrameType) /\ Len(stack') <= Len(su) + 1
       /\ FramesInv(stack', state, listeners', type, visits, "refire" \notin misuse')
  <2>1. CASE state[r] = Pending
    <3>1. FramesInv(su, state, listeners', type, visits, "refire" \notin misuse')
      BY <1>0, <1>9, <1>10, <1>11, <1>13, <2>1, HandOverFrames
    <3>2. Len(su) \in Nat /\ stack' = su
      BY <1>9, <2>1
    <3>3. Len(su) <= Len(su) + 1
      BY <3>2
    <3> QED BY <1>9, <3>1, <3>2, <3>3
  <2>2. CASE state[r] # Pending
    <3>1. Len(su) \in Nat /\ Len(stack') = Len(su) + 1 /\ stack' \in Seq(FrameType)
      BY <1>9, <2>2 DEF Pushed
    <3>2. Pushed(su, stack', Fire(r))
      BY <2>2
    <3>3. FramesInv(stack', state, listeners', type, visits, "refire" \notin misuse')
      BY <1>0, <1>9, <1>10, <1>11, <1>12, <1>13, <2>2, <3>2, HandOverFires
    <3> QED BY <3>1, <3>3
  <2> QED BY <2>1, <2>2
<1>15. corrupt' => misuse' # {}
  <2>1. SUFFICES ASSUME "refire" \notin misuse' PROVE ~corrupt'
    OBVIOUS
  <2>2. FiredOnce(su, listeners, visits)
    BY <1>13, <2>1 DEF FramesInv
  <2>3. Len(su) < MaxDepth
    BY <1>9, <1>10, <2>2, StackBounded
  <2>4. Len(su) \in Nat /\ Len(stack') \in Nat /\ MaxDepth \in Nat
    BY <1>9, <1>14 DEF PromiseAssumption
  <2>5. ~(Len(stack') > MaxDepth)
    BY <1>14, <2>3, <2>4
  <2> QED BY <2>5
<1> QED BY <1>1, <1>6, <1>7, <1>14, <1>15 DEF PromiseInv

LEMMA ReturnPromiseInv ==
  ASSUME PromiseAssumption, PromiseInv, NEW r \in Promises, ReturnPromise(r)
  PROVE  PromiseInv'
<1> DEFINE p == Top.p
           at == Top.at
           l == listeners[p]
           k == Index(p, at)
           f == Frame(p, at, "close")
<1>0. /\ PromiseTyped /\ listeners \in Lists /\ Apart(listeners, type)
      /\ stack # <<>> /\ Top.phase = "body" /\ p # NULL /\ r # p
      /\ UNCHANGED <<state, type, forwards, visits, dropped, registered>>
  BY DEF PromiseInv, PromiseTyped, Lists, ReturnPromise, Returning, InBody
<1>1. /\ stack \in Seq(FrameType) /\ Len(stack) \in DOMAIN stack /\ Top = stack[Len(stack)]
      /\ p \in Promises /\ at \in Handlers /\ at # NULL
      /\ \A g \in FrameType : Swapped(stack, WithTop(g), g)
      /\ FramesInv(stack, state, listeners, type, visits, "refire" \notin misuse)
  BY <1>0, TopFrame
<1>2. f \in FrameType /\ f.p = p /\ f.at = at
  BY <1>1, FrameTyped, FrameFields
<1>3. Swapped(stack, WithTop(f), f)
  BY <1>1, <1>2
<1>4. CASE Dangling(Top) /\ corrupt' = TRUE /\ UNCHANGED <<listeners, stack, misuse>>
  <2>1. misuse' # {} /\ misuse \subseteq misuse'
    BY <1>0, <1>4, DanglingMisuse
  <2>2. PromiseTyped'
    BY <1>0, <1>4 DEF PromiseTyped
  <2> QED BY <1>0, <1>4, <2>1, <2>2, CorruptInv
<1>5. CASE /\ ~Dangling(Top) /\ k + 1 < Len(l)
           /\ listeners' = [listeners EXCEPT ![p] = SubSeq(l, 1, k),
                                             ![r] = Attached(r, SubSeq(l, k + 1, Len(l)))]
           /\ stack' = FireIfSettled(r, WithTop(f))
           /\ misuse' = IF r \in Firing THEN misuse \cup {"refire"} ELSE misuse
           /\ corrupt' = (Len(stack') > MaxDepth)
  <2>1. l \in Seq(Handlers) /\ IsInjective(l) /\ DOMAIN l = 1 .. Len(l) /\ at \in ToSet(l)
    BY <1>0, <1>1, <1>5, ListedHandlers DEF Apart, Dangling, Listening
  <2>2. k \in 1 .. Len(l) /\ l[k] = at
    BY <2>1, IndexIs
  <2> DEFINE hd == SubSeq(l, 1, k)
             tl == SubSeq(l, k + 1, Len(l))
  <2>3. CutBehind(l, k, hd, tl)
    BY DEF CutBehind
  <2>4. listeners' = [listeners EXCEPT ![p] = hd, ![r] = listeners[r] \o tl]
    BY <1>5 DEF Attached
  <2> HIDE DEF hd, tl, k, l
  <2>5. /\ hd \in Seq(Handlers) /\ tl \in Seq(Handlers) /\ l = hd \o tl
        /\ at \in ToSet(hd) /\ \A h \in ToSet(hd) : Upto(hd, h, at)
        /\ \A h \in ToSet(hd) : Upto(l, h, at)
    BY <2>1, <2>2, <2>3, CutAt
  <2>6. listeners[p] = hd \o tl
    BY <2>5 DEF l
  <2>7. HandedOver(listeners, listeners', p, r, hd, tl)
    BY <1>0, <1>1, <2>4, <2>5, <2>6, HandOverIs
  <2>8. WithTop(f) \in Seq(FrameType)
    BY <1>3 DEF Swapped
  <2>9. state[r] = Pending => stack' = WithTop(f)
    BY <1>5 DEF FireIfSettled
  <2>10. state[r] # Pending => Pushed(WithTop(f), stack', Fire(r))
    <3>1. Fire(r) \in FrameType
      BY FrameTyped
    <3>2. Pushed(WithTop(f), Append(WithTop(f), Fire(r)), Fire(r))
      BY <2>8, <3>1, PushIs
    <3> QED BY <1>5, <3>2 DEF FireIfSettled
  <2>11. stack' \in Seq(FrameType)
    BY <2>8, <2>9, <2>10 DEF Pushed
  <2>12. PromiseTyped'
    <3>1. misuse' \in SUBSET {"last", "refire"} /\ corrupt' \in BOOLEAN
      BY <1>0, <1>5 DEF PromiseTyped
    <3>2. listeners' \in Lists
      BY <2>7 DEF HandedOver
    <3> QED BY <1>0, <2>11, <3>1, <3>2 DEF PromiseTyped, Lists
  <2>13. misuse \subseteq misuse' /\ (r \in Firing => "refire" \in misuse')
    BY <1>5
  <2>14. corrupt' => Len(stack') > MaxDepth
    BY <1>5
  <2>15. \A h \in ToSet(hd) : Upto(listeners[p], h, at)
    BY <2>5 DEF l
  <2> DEFINE su == WithTop(f)
  <2>16. /\ Swapped(stack, su, f) /\ f.p = p /\ f.at = at
         /\ state[r] = Pending => stack' = su
         /\ state[r] # Pending => Pushed(su, stack', Fire(r))
    BY <1>2, <1>3, <2>9, <2>10
  <2>17. p = Top.p /\ at = Top.at /\ p # r
    BY <1>0
  <2> HIDE DEF su, f, p, at
  <2> QED BY <1>0, <1>1, <2>5, <2>7, <2>12, <2>13, <2>14, <2>15, <2>16, <2>17, HandOverInv
<1>6. CASE stack' = WithTop(f) /\ UNCHANGED <<listeners, corrupt, misuse>>
  <2>1. PromiseTyped'
    BY <1>0, <1>3, <1>6 DEF PromiseTyped, Swapped
  <2>2. f.p = stack[Len(stack)].p /\ f.at = stack[Len(stack)].at /\ f.p # NULL /\ f.at # NULL
    BY <1>0, <1>1, <1>2
  <2>3. FramesInv(WithTop(f), state, listeners, type, visits, "refire" \notin misuse)
    <3> HIDE DEF f
    <3> QED BY <1>1, <1>3, <2>2, RephaseFrames
  <2>4. UNCHANGED <<listeners, type, forwards, corrupt, history>> /\ state' = state
    BY <1>0, <1>6 DEF history
  <2> QED BY <1>6, <2>1, <2>3, <2>4, StackStep
<1>7. CASE corrupt' = TRUE /\ misuse' = misuse \cup {"last"} /\ UNCHANGED <<listeners, stack>>
  <2>1. misuse' # {} /\ misuse \subseteq misuse'
    BY <1>7
  <2>2. PromiseTyped'
    BY <1>0, <1>7 DEF PromiseTyped
  <2> QED BY <1>0, <1>7, <2>1, <2>2, CorruptInv
<1> QED BY <1>4, <1>5, <1>6, <1>7 DEF ReturnPromise

LEMMA FinishInv ==
  ASSUME PromiseAssumption, PromiseInv, Finish
  PROVE  PromiseInv'
<1> DEFINE p == Top.p
<1>0. /\ PromiseTyped /\ stack # <<>> /\ Top.phase # "body"
      /\ dropped' = dropped \cup {h \in ToSet(listeners[p]) : visits[h] = 0}
      /\ listeners' = [listeners EXCEPT ![p] = <<>>]
      /\ stack' = Below
      /\ UNCHANGED <<state, type, forwards, corrupt, visits, registered, misuse>>
  BY DEF PromiseInv, Finish
<1>1. /\ stack \in Seq(FrameType) /\ Len(stack) \in DOMAIN stack /\ p = stack[Len(stack)].p
      /\ p \in Promises /\ Popped(stack, stack')
      /\ FramesInv(stack, state, listeners, type, visits, "refire" \notin misuse)
  BY <1>0, TopFrame
<1> HIDE DEF p
<1>2. /\ listeners \in Lists /\ registered \in Lists /\ visits \in [Handlers -> Nat]
      /\ Apart(listeners, type) /\ Fresh(type, visits, dropped)
      /\ Waiting(listeners, type, visits, dropped, registered)
      /\ InTurn(listeners, visits, dropped, registered)
      /\ AllThere(state, listeners, registered)
  BY DEF PromiseInv, PromiseTyped, Lists
<1>3. Emptied(listeners, listeners', p)
  <2>1. <<>> \in Seq(Handlers)
    OBVIOUS
  <2> QED BY <1>0, <1>1, <1>2, <2>1 DEF Emptied, Lists
<1>4. state[p] # Pending
  <2>1. Fires(stack, p)
    BY <1>1 DEF Fires
  <2> QED BY <1>1, <2>1 DEF FramesInv, FiringRight
<1>5. ToSet(listeners[p]) \subseteq Handlers
  BY <1>1, <1>2, ListedHandlers
<1>6. PromiseTyped'
  <2>1. listeners' \in Lists
    BY <1>3 DEF Emptied
  <2> QED BY <1>0, <1>1, <1>5, <2>1 DEF PromiseTyped, Popped, Lists
<1>7. Apart(listeners', type)
  BY <1>1, <1>2, <1>3, EmptyApart
<1>8. Fresh(type, visits, dropped')
  BY <1>0, <1>1, <1>2 DEF Fresh, Apart
<1>9. /\ Waiting(listeners', type, visits, dropped', registered)
      /\ InTurn(listeners', visits, dropped', registered)
      /\ AllThere(state, listeners', registered)
  <2>1. FreedToo(dropped, dropped', listeners[p], visits)
    BY <1>0 DEF FreedToo
  <2> QED BY <1>1, <1>2, <1>3, <1>4, <2>1, EmptyHistories
<1>10. FramesInv(stack', state, listeners', type, visits, "refire" \notin misuse)
  BY <1>1, <1>2, <1>3, FinishFrames
<1>11. corrupt' = corrupt /\ misuse' = misuse /\ state' = state /\ type' = type /\ visits' = visits
       /\ registered' = registered
  BY <1>0
<1> QED BY <1>6, <1>7, <1>8, <1>9, <1>10, <1>11 DEF PromiseInv

-----------------------------------------------------------------------------
LEMMA InitPromiseInv ==
  ASSUME PromiseAssumption, Init
  PROVE  PromiseInv
<1>1. /\ state = [p \in Promises |-> Pending] /\ listeners = [p \in Promises |-> <<>>]
      /\ type = [h \in Handlers |-> NULL] /\ forwards = [h \in Handlers |-> NULL]
      /\ stack = <<>> /\ corrupt = FALSE /\ visits = [h \in Handlers |-> 0]
      /\ dropped = {} /\ registered = [p \in Promises |-> <<>>] /\ misuse = {}
  BY DEF Init
<1>2. PromiseTyped
  <2>1. <<>> \in Seq(Handlers) /\ <<>> \in Seq(FrameType) /\ Pending \in States
    BY DEF States
  <2> QED BY <1>1, <2>1 DEF PromiseTyped
<1>3. \A p \in Promises : listeners[p] = <<>> /\ ToSet(listeners[p]) = {} /\ registered[p] = <<>>
                          /\ ToSet(registered[p]) = {} /\ IsInjective(listeners[p])
  BY <1>1 DEF ToSet, IsInjective
<1>4. Apart(listeners, type) /\ Fresh(type, visits, dropped)
      /\ Waiting(listeners, type, visits, dropped, registered)
      /\ AllThere(state, listeners, registered)
  BY <1>1, <1>3 DEF Apart, Fresh, Waiting, AllThere
<1>5. InTurn(listeners, visits, dropped, registered)
  BY <1>3 DEF InTurn, Upto
<1>6. FramesInv(stack, state, listeners, type, visits, "refire" \notin misuse)
  <2>1. FramesRight(stack, type) /\ BehindMet(stack, listeners, visits)
    BY <1>1 DEF FramesRight, BehindMet
  <2>2. FiringRight(stack, state, listeners)
    BY <1>1 DEF FiringRight, Fires
  <2>3. FiredOnce(stack, listeners, visits)
    BY <1>1, <1>3 DEF FiredOnce
  <2> QED BY <2>1, <2>2, <2>3 DEF FramesInv
<1> QED BY <1>1, <1>2, <1>4, <1>5, <1>6 DEF PromiseInv

LEMMA PromiseInvStep ==
  ASSUME PromiseAssumption, PromiseInv, [Next]_vars
  PROVE  PromiseInv'
<1>1. ASSUME NEW p \in Promises, NEW h \in Handlers, NEW t \in States, Register(p, h, t)
      PROVE  PromiseInv'
  BY <1>1, UserCodeStands, AddHandlerInv DEF Register
<1>2. ASSUME NEW p \in Promises, NEW s \in {Fulfilled, Rejected}, Settle(p, s) PROVE PromiseInv'
  BY <1>2, SettleInv
<1>3. ASSUME NEW p \in Promises, NEW q \in Promises, NEW h \in Handlers, NEW g \in Handlers,
             ResolveWith(p, q, h, g)
      PROVE  PromiseInv'
  BY <1>3, ResolveWithInv
<1>4. CASE Scan
  BY <1>4, ScanInv
<1>5. CASE ReturnFromCall
  BY <1>5, ReturnFromCallInv
<1>6. CASE ReturnNothing
  BY <1>6, ReturnNothingInv
<1>7. ASSUME NEW r \in Promises, ReturnPromise(r) PROVE PromiseInv'
  BY <1>7, ReturnPromiseInv
<1>8. CASE Forward
  BY <1>8, ForwardInv
<1>9. CASE Finish
  BY <1>9, FinishInv
<1>10. CASE UNCHANGED vars
  BY <1>10 DEF vars, PromiseInv, PromiseTyped
<1> QED BY <1>1, <1>2, <1>3, <1>4, <1>5, <1>6, <1>7, <1>8, <1>9, <1>10 DEF Next

LEMMA PromiseInvHolds == Spec => []PromiseInv
<1>1. Init => PromiseInv
  BY InitPromiseInv, PromiseAssumption
<1>2. PromiseInv /\ [Next]_vars => PromiseInv'
  BY PromiseInvStep, PromiseAssumption
<1> QED BY <1>1, <1>2, PTL DEF Spec

(* A handler queued on a promise (_addHandler) waits in exactly one list   *)
(* until firing meets or frees it, and once the event loop is back no      *)
(* settled promise holds handlers.                                         *)
THEOREM ListsWhole == Spec => []ListsConsistent
<1>1. PromiseInv => ListsConsistent
  <2> SUFFICES ASSUME PromiseInv PROVE ListsConsistent
    OBVIOUS
  <2>0. /\ PromiseTyped /\ Apart(listeners, type) /\ listeners \in Lists
        /\ Waiting(listeners, type, visits, dropped, registered)
        /\ FiringRight(stack, state, listeners)
    BY DEF PromiseInv, PromiseTyped, Lists, FramesInv
  <2>1. TypeOK
    <3>1. \A p \in Promises : ToSet(listeners[p]) \subseteq {h \in Handlers : type[h] # NULL}
      BY <2>0, ListedHandlers DEF Apart
    <3>2. \A i \in DOMAIN stack :
            /\ stack[i].p \in Promises \cup {NULL}
            /\ stack[i].at \in Handlers \cup {NULL}
            /\ stack[i].phase \in {"scan", "body", "close"}
      <4>1. \A i \in DOMAIN stack : stack[i] \in FrameType
        BY <2>0, StackDomain DEF PromiseTyped
      <4> QED BY <4>1 DEF FrameType
    <3> QED BY <2>0, <3>1, <3>2 DEF TypeOK, PromiseTyped
  <2>2. QueuedOnce
    <3> SUFFICES ASSUME NEW p \in Promises, NEW h \in ToSet(registered[p]), ~Passed(h)
                 PROVE  \E q \in Promises :
                          /\ Listening(q, h)
                          /\ \A i, j \in DOMAIN listeners[q] :
                               listeners[q][i] = h /\ listeners[q][j] = h => i = j
                          /\ \A x \in Promises \ {q} : ~Listening(x, h)
      BY DEF QueuedOnce
    <3>1. PICK q \in Promises : h \in ToSet(listeners[q])
      BY <2>0 DEF Waiting, Met, Passed
    <3>2. \A i, j \in DOMAIN listeners[q] : listeners[q][i] = h /\ listeners[q][j] = h => i = j
      BY <2>0 DEF Apart, IsInjective
    <3>3. \A x \in Promises \ {q} : ~Listening(x, h)
      BY <2>0, <3>1 DEF Apart, Listening
    <3> QED BY <3>1, <3>2, <3>3 DEF Listening
  <2>3. SettledHoldNothing
    BY <2>0 DEF SettledHoldNothing, FiringRight, Fires
  <2> QED BY <2>1, <2>2, <2>3 DEF ListsConsistent
<1> QED BY <1>1, PromiseInvHolds, PTL

(* The loop of _fireHandlers calls no handler twice unless a promise that  *)
(* fires is fired again, and uses no freed memory unless that happened or  *)
(* the last handler of a list returned a promise.                          *)
THEOREM HandlersOnce == Spec => []CalledAtMostOnce
<1>1. PromiseInv => CalledAtMostOnce
  <2> SUFFICES ASSUME PromiseInv PROVE CalledAtMostOnce
    OBVIOUS
  <2>1. ASSUME NEW h \in Handlers, visits[h] > 1, "refire" \notin misuse PROVE FALSE
    <3>1. FiredOnce(stack, listeners, visits)
      BY <2>1 DEF PromiseInv, FramesInv
    <3>2. visits[h] <= 1 /\ visits[h] \in Nat
      BY <3>1 DEF FiredOnce, PromiseInv, PromiseTyped
    <3> QED BY <2>1, <3>2
  <2>2. corrupt => misuse # {}
    BY DEF PromiseInv
  <2> QED BY <2>1, <2>2 DEF CalledAtMostOnce
<1> QED BY <1>1, PromiseInvHolds, PTL

(* Handlers added to one promise are met in the order of the calls of      *)
(* then and catch, in whichever list _attach has put them since.           *)
THEOREM HandlersInOrder == Spec => []MetInOrder
<1>1. PromiseInv => MetInOrder
  <2> SUFFICES ASSUME PromiseInv, NEW p \in Promises,
                      NEW i \in DOMAIN registered[p], NEW j \in DOMAIN registered[p],
                      i < j, visits[registered[p][j]] > 0
               PROVE  Passed(registered[p][i])
    BY DEF MetInOrder
  <2>1. registered[p] \in Seq(Handlers) /\ InTurn(listeners, visits, dropped, registered)
    BY DEF PromiseInv, PromiseTyped
  <2>2. i \in 1 .. Len(registered[p]) /\ j \in 1 .. Len(registered[p]) /\ i <= j
    BY <2>1
  <2>3. Upto(registered[p], registered[p][i], registered[p][j])
    BY <2>2 DEF Upto
  <2>4. registered[p][i] \in Handlers /\ registered[p][j] \in Handlers
    BY <2>1
  <2>5. Met(visits, dropped, registered[p][j])
    BY DEF Met
  <2>6. Met(visits, dropped, registered[p][i])
    BY <2>1, <2>3, <2>4, <2>5 DEF InTurn
  <2> QED BY <2>6 DEF Met, Passed
<1> QED BY <1>1, PromiseInvHolds, PTL
=============================================================================
