----------------------------- MODULE AsyncTask -----------------------------
(***************************************************************************)
(* MSAsyncTask (MSNode_src/MSAsyncTask.m): work for libuv's thread pool.   *)
(* The pool calls _work, which hands a promise of its own (_ret) to the    *)
(* task; the loop thread then calls _after_work, which settles the promise *)
(* that start gave to the user.  The task's code may keep _ret and settle  *)
(* it from any thread at any later time.                                   *)
(*                                                                         *)
(* uv_queue_work and uv_cancel are external: a request is queued, taken in *)
(* order by a free thread, and completed on the loop once; a request that  *)
(* no thread has taken can be cancelled.                                   *)
(***************************************************************************)
EXTENDS Naturals, Sequences, FiniteSets, SequencesExt, Lists, PromiseState

CONSTANTS
  Tasks,
  Threads      \* the threads of the pool

PromiseValues == Outcomes \cup {Pending, NULL}

ASSUME TaskAssumption ==
  /\ Threads \in Nat \ {0}
  /\ NULL \notin {Pending, Fulfilled, Rejected, "task"}

VARIABLES
  phase,       \* phase[t]: where libuv has the request of t
  queue,       \* the requests no thread has taken yet
  promise,     \* promise[t]: the state of _promise, NULL before start
  ret,         \* ret[t]: the state of _ret, NULL before _work
  forwarding,  \* forwarding[t]: _ret has handlers that settle _promise
  refs,        \* refs[t]: the references to the task; 0 when it is deallocated
  held,        \* held[t]: the user still has the task
  undefined,   \* uv_cancel followed an uninitialised request
  settledOn,   \* history: the thread that settled _promise
  runs,        \* history: how often the task's code has run
  completed    \* history: how often _after_work has run

taskHistory == <<settledOn, runs, completed>>
taskVars == <<phase, queue, promise, ret, forwarding, refs, held, undefined, taskHistory>>

Phases == {"Idle", "Queued", "Working", "Worked", "Cancelled", "Done"}
InPool == {t \in Tasks : phase[t] = "Working"}

TaskTypeOK ==
  /\ phase \in [Tasks -> Phases]
  /\ ToSet(queue) = {t \in Tasks : phase[t] = "Queued"}
  /\ promise \in [Tasks -> PromiseValues]
  /\ ret \in [Tasks -> PromiseValues]
  /\ forwarding \in [Tasks -> BOOLEAN]
  /\ refs \in [Tasks -> 0..2]
  /\ held \in [Tasks -> BOOLEAN]
  /\ undefined \in BOOLEAN

(* initWithTask: retains the task for the request it is going to make. *)
TaskInit ==
  /\ phase = [t \in Tasks |-> "Idle"]
  /\ queue = <<>>
  /\ promise = [t \in Tasks |-> NULL]
  /\ ret = [t \in Tasks |-> NULL]
  /\ forwarding = [t \in Tasks |-> FALSE]
  /\ refs = [t \in Tasks |-> 2]
  /\ held = [t \in Tasks |-> TRUE]
  /\ undefined = FALSE
  /\ settledOn = [t \in Tasks |-> NULL]
  /\ runs = [t \in Tasks |-> 0]
  /\ completed = [t \in Tasks |-> 0]

-----------------------------------------------------------------------------
(* The user's calls, on the loop thread. *)

UserHas(t) == ~undefined /\ held[t]

\* Faulty form: each start queues the request.
StartAgain(t) ==
  /\ UserHas(t)
  /\ Len(queue) < 3
  /\ promise' = [promise EXCEPT ![t] = Pending]
  /\ phase' = [phase EXCEPT ![t] = "Queued"]
  /\ queue' = Append(queue, t)
  /\ UNCHANGED <<ret, forwarding, refs, held, undefined, taskHistory>>

(* start; a second start only returns the promise. *)
Start(t) ==
  /\ UserHas(t)
  /\ promise[t] = NULL
  /\ promise' = [promise EXCEPT ![t] = Pending]
  /\ phase' = [phase EXCEPT ![t] = "Queued"]
  /\ queue' = Append(queue, t)
  /\ UNCHANGED <<ret, forwarding, refs, held, undefined, taskHistory>>

(* abort: uv_cancel.  Before start the request is uninitialised memory;    *)
(* once a thread has taken the request the call fails, which abort does    *)
(* not report.                                                             *)
Abort(t) ==
  /\ UserHas(t)
  /\ \/ /\ phase[t] = "Idle"
        /\ undefined' = TRUE
        /\ UNCHANGED <<phase, queue>>
     \/ /\ phase[t] = "Queued"
        /\ phase' = [phase EXCEPT ![t] = "Cancelled"]
        /\ queue' = Without(queue, t)
        /\ UNCHANGED undefined
  /\ UNCHANGED <<promise, ret, forwarding, refs, held, taskHistory>>

(* The user lets the task go (runAsyncTask: does so itself). *)
LetGo(t) ==
  /\ UserHas(t)
  /\ held' = [held EXCEPT ![t] = FALSE]
  /\ refs' = [refs EXCEPT ![t] = @ - 1]
  /\ UNCHANGED <<phase, queue, promise, ret, forwarding, undefined, taskHistory>>

(* The promise of start is an ordinary one: the user may settle it. *)
UserSettles(t) ==
  /\ ~undefined
  /\ promise[t] = Pending
  /\ \E o \in Outcomes : promise' = [promise EXCEPT ![t] = o]
  /\ settledOn' = [settledOn EXCEPT ![t] = "loop"]
  /\ UNCHANGED <<phase, queue, ret, forwarding, refs, held, undefined, runs, completed>>

-----------------------------------------------------------------------------
(* The pool. *)

(* A free thread takes the first request and enters _work. *)
Work ==
  /\ ~undefined
  /\ queue # <<>> /\ Cardinality(InPool) < Threads
  /\ LET t == Head(queue) IN
     /\ phase' = [phase EXCEPT ![t] = "Working"]
     /\ ret' = [ret EXCEPT ![t] = Pending]
     /\ runs' = [runs EXCEPT ![t] = @ + 1]
  /\ queue' = Tail(queue)
  /\ UNCHANGED <<promise, forwarding, refs, held, undefined, settledOn, completed>>

Return(t) ==
  /\ ~undefined
  /\ phase[t] = "Working"
  /\ phase' = [phase EXCEPT ![t] = "Worked"]
  /\ UNCHANGED <<queue, promise, ret, forwarding, refs, held, undefined, taskHistory>>

(* The task's code settles _ret, while it runs or after it returned, from  *)
(* the pool or another thread of its own.                                  *)
TaskSettles(t) ==
  /\ ~undefined
  /\ ret[t] = Pending
  /\ \E o \in Outcomes :
       /\ ret' = [ret EXCEPT ![t] = o]
       /\ IF forwarding[t] /\ promise[t] = Pending
          THEN /\ promise' = [promise EXCEPT ![t] = o]
               /\ settledOn' = [settledOn EXCEPT ![t] = "task"]
          ELSE UNCHANGED <<promise, settledOn>>
  /\ UNCHANGED <<phase, queue, forwarding, refs, held, undefined, runs, completed>>

-----------------------------------------------------------------------------
(* The loop thread. *)

(* resolve: or reject: _promise; no effect once it is settled. *)
SettleOnLoop(t, o) ==
  IF promise[t] = Pending
  THEN /\ promise' = [promise EXCEPT ![t] = o]
       /\ settledOn' = [settledOn EXCEPT ![t] = "loop"]
  ELSE UNCHANGED <<promise, settledOn>>

(* [_promise resolveWithPromise:_ret]. *)
ResolveWithRet(t) ==
  IF ret[t] = Pending
  THEN /\ forwarding' = [forwarding EXCEPT ![t] = TRUE]
       /\ UNCHANGED <<promise, settledOn>>
  ELSE /\ SettleOnLoop(t, ret[t])
       /\ UNCHANGED forwarding

(* A task that has not settled its promise when _after_work looks is       *)
(* rejected ("The task didn't returned anything").                         *)
SettleWorked(t) ==
  IF ret[t] = Pending
  THEN SettleOnLoop(t, Rejected) /\ UNCHANGED forwarding
  ELSE ResolveWithRet(t)

\* Faulty form: only a task that worked gives back its reference.
AfterWorkLeaks(t) ==
  /\ ~undefined
  /\ \/ /\ phase[t] = "Worked" /\ SettleWorked(t)
        /\ refs' = [refs EXCEPT ![t] = @ - 1]
     \/ /\ phase[t] = "Cancelled" /\ SettleOnLoop(t, Rejected)
        /\ UNCHANGED <<forwarding, refs>>
  /\ phase' = [phase EXCEPT ![t] = "Done"]
  /\ completed' = [completed EXCEPT ![t] = @ + 1]
  /\ UNCHANGED <<queue, ret, held, undefined, runs>>

\* Faulty form: a cancelled task is left alone.
AfterWorkOnlyWorked(t) ==
  /\ ~undefined
  /\ \/ phase[t] = "Worked" /\ SettleWorked(t)
     \/ phase[t] = "Cancelled" /\ UNCHANGED <<promise, settledOn, forwarding>>
  /\ refs' = [refs EXCEPT ![t] = @ - 1]
  /\ phase' = [phase EXCEPT ![t] = "Done"]
  /\ completed' = [completed EXCEPT ![t] = @ + 1]
  /\ UNCHANGED <<queue, ret, held, undefined, runs>>

(* _after_work:, with status 0 or UV_ECANCELED. *)
AfterWork(t) ==
  /\ ~undefined
  /\ \/ phase[t] = "Worked" /\ SettleWorked(t)
     \/ phase[t] = "Cancelled" /\ SettleOnLoop(t, Rejected) /\ UNCHANGED forwarding
  /\ refs' = [refs EXCEPT ![t] = @ - 1]
  /\ phase' = [phase EXCEPT ![t] = "Done"]
  /\ completed' = [completed EXCEPT ![t] = @ + 1]
  /\ UNCHANGED <<queue, ret, held, undefined, runs>>

TaskNext ==
  \/ Work
  \/ \E t \in Tasks :
       \/ Start(t) \/ Abort(t) \/ LetGo(t) \/ UserSettles(t)
       \/ Return(t) \/ TaskSettles(t) \/ AfterWork(t)

(* The pool and the loop run, and the code of a task returns. *)
TaskFairness ==
  /\ WF_taskVars(Work)
  /\ \A t \in Tasks : WF_taskVars(Return(t)) /\ WF_taskVars(AfterWork(t))

TaskSpec == TaskInit /\ [][TaskNext]_taskVars /\ TaskFairness

-----------------------------------------------------------------------------
(* The references to a task are those of its user and of the request, made *)
(* or still to come: libuv's request lives inside a handler of the task,   *)
(* which stays allocated for as long as libuv has it, whoever lets it go.  *)
RefsCounted ==
  \A t \in Tasks :
    refs[t] = (IF held[t] THEN 1 ELSE 0) + (IF phase[t] = "Done" THEN 0 ELSE 1)

RefsConsistent == TaskTypeOK /\ RefsCounted

(* A task is run and completed once, whatever the order of start, abort    *)
(* and the pool; a task cancelled in time never runs.  The handlers of its *)
(* promise run on the loop thread, although the task settles its own       *)
(* promise on another one.                                                 *)
RunsOnce ==
  \A t \in Tasks :
    /\ runs[t] <= 1 /\ completed[t] <= 1
    /\ phase[t] = "Cancelled" => runs[t] = 0
    /\ settledOn[t] # "task"

(* Every started task settles its promise, and is deallocated once its     *)
(* user let it go.                                                         *)
StartedEnds ==
  \A t \in Tasks :
    /\ promise[t] = Pending ~> promise[t] \in Outcomes \/ undefined
    /\ promise[t] # NULL /\ ~held[t] ~> refs[t] = 0 \/ undefined
=============================================================================
