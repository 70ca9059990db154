--------------------------- MODULE ConditionLock ---------------------------
(***************************************************************************)
(* NSConditionLock (NSLock.m): a mutex with an integer, its condition; a   *)
(* thread locks it when the condition has a value, and unlocks it with a   *)
(* new one.  A caller unlocks what it was told it had locked, and only     *)
(* that.  A step is a call of mtx_* or cnd_*, with what the thread does    *)
(* with the answer.                                                        *)
(***************************************************************************)
EXTENDS StdThreads

CONSTANTS
  Conditions,  \* the values of the condition
  Any,         \* no condition is asked for
  First,       \* the condition the lock is made with
  MaxCalls     \* bound: the calls that lock, and the waits that end for no reason

ASSUME ConditionsAssumption ==
  First \in Conditions /\ Any \notin Conditions /\ MaxCalls \in Nat

VARIABLES
  condition,   \* _condition
  pc,          \* where a thread is: "out", or "in" when it was told it has the lock
  want,        \* the condition the thread has asked for
  calls,       \* how many there were
  wronged,     \* an answer was false
  stolen,      \* a thread unlocked the mutex it did not hold
  late         \* xp: the event was reset while a thread was waiting for it

lockVars == <<platform, owner, depth, corrupt, waiters, event,
          condition, pc, want, calls, wronged, stolen, late>>

LockInit ==
  /\ InitStd
  /\ condition = First
  /\ pc = [t \in Threads |-> "out"]
  /\ want = [t \in Threads |-> Any]
  /\ calls = 0 /\ wronged = FALSE /\ stolen = FALSE /\ late = FALSE

GoTo(t, where) ==
  /\ pc' = [pc EXCEPT ![t] = where]
  /\ want' = IF where \in {"out", "broadcasting"} THEN [want EXCEPT ![t] = Any] ELSE want

Met(t) == want[t] \in {Any, condition}

(* The form returns: the caller is told that it has the lock, or not. *)
Answer(t, yes) ==
  /\ GoTo(t, IF yes THEN "in" ELSE "out")
  /\ wronged' = (wronged \/ (yes # (owner' = t)))
  /\ UNCHANGED stolen

(* The mutex is unlocked by a thread, which should be the one that has it. *)
Unlocks(t) ==
  /\ Unlock(t)
  /\ stolen' = (stolen \/ owner # t)
  /\ UNCHANGED wronged

-----------------------------------------------------------------------------
(* A call begins: of lock or lockWhenCondition: ("locking"), tryLock or    *)
(* tryLockWhenCondition: ("trying"), lockBeforeDate: ("timed"), or         *)
(* lockWhenCondition:beforeDate: ("timedWhen").  Bound: none is made after  *)
(* a false answer.                                                         *)
Call(t) ==
  /\ pc[t] = "out" /\ calls < MaxCalls /\ ~wronged /\ ~stolen
  /\ calls' = calls + 1
  /\ \E form \in {"locking", "trying", "timed", "timedWhen"}, c \in Conditions \cup {Any} :
       /\ form = "timed" => c = Any
       /\ form = "timedWhen" => c # Any
       /\ pc' = [pc EXCEPT ![t] = form]
       /\ want' = [want EXCEPT ![t] = c]
  /\ UNCHANGED <<platform, mutexVars, eventVars, condition, wronged, stolen, late>>

\* Faulty form: the condition is not tested again after cnd_wait.
LockingOnce(t) ==
  /\ pc[t] \in {"locking", "relocking"}
  /\ Lock(t)
  /\ GoTo(t, IF pc[t] = "relocking" THEN "in" ELSE "testing")
  /\ UNCHANGED <<platform, eventVars, condition, calls, wronged, stolen, late>>

(* lock, and lockWhenCondition: before the test of its loop; the end of    *)
(* cnd_wait, which brings it there again.                                  *)
Locking(t) ==
  /\ pc[t] \in {"locking", "relocking"}
  /\ Lock(t)
  /\ GoTo(t, "testing")
  /\ UNCHANGED <<platform, eventVars, condition, calls, wronged, stolen, late>>

(* The loop of lockWhenCondition:. *)
Testing(t) ==
  /\ pc[t] = "testing" /\ Met(t)
  /\ UNCHANGED <<platform, mutexVars, eventVars, condition, calls, late>>
  /\ Answer(t, TRUE)

(* cnd_wait, up to the wait. *)
Waiting(t) ==
  /\ pc[t] = "testing" /\ ~Met(t)
  /\ Unlocks(t)
  /\ waiters' = IF platform = "xp" THEN waiters + 1 ELSE waiters
  /\ GoTo(t, "asleep")
  /\ UNCHANGED <<platform, event, condition, calls, late>>

(* A wait may end for no reason, but for that of xp. *)
WakesUp(t) ==
  /\ pc[t] = "asleep" /\ platform # "xp" /\ calls < MaxCalls
  /\ calls' = calls + 1
  /\ GoTo(t, "relocking")
  /\ UNCHANGED <<platform, mutexVars, eventVars, condition, wronged, stolen, late>>

(* xp: WaitForMultipleObjects returns, and the waiter is counted off. *)
EventWakes(t) ==
  /\ pc[t] = "asleep" /\ platform = "xp" /\ event
  /\ waiters' = waiters - 1
  /\ GoTo(t, IF waiters' = 0 THEN "resetting" ELSE "relocking")
  /\ UNCHANGED <<platform, mutexVars, event, condition, calls, wronged, stolen, late>>

(* xp: the last waiter resets the event. *)
ResetsEvent(t) ==
  /\ pc[t] = "resetting"
  /\ event' = FALSE
  /\ late' = (late \/ waiters > 0)
  /\ GoTo(t, "relocking")
  /\ UNCHANGED <<platform, mutexVars, waiters, condition, calls, wronged, stolen>>

-----------------------------------------------------------------------------
(* unlock *)
UnlockPlain(t) ==
  /\ pc[t] = "in"
  /\ Unlocks(t)
  /\ GoTo(t, "out")
  /\ UNCHANGED <<platform, eventVars, condition, calls, late>>

(* unlockWithCondition: *)
SetsCondition(t) ==
  /\ pc[t] = "in"
  /\ condition' \in Conditions
  /\ GoTo(t, "broadcasting")
  /\ UNCHANGED <<platform, mutexVars, eventVars, calls, wronged, stolen, late>>

(* cnd_broadcast *)
\* Faulty form: one waiter is woken.
BroadcastsOne(t) ==
  /\ pc[t] = "broadcasting"
  /\ LET sleepers == {u \in Threads : pc[u] = "asleep"} IN
     \E woken \in IF platform = "xp" \/ sleepers = {} THEN {{}} ELSE {{u} : u \in sleepers} :
       pc' = [u \in Threads |-> IF u = t THEN "unlocking"
                                ELSE IF u \in woken THEN "relocking" ELSE pc[u]]
  /\ SetEvents
  /\ UNCHANGED <<platform, mutexVars, condition, want, calls, wronged, stolen, late>>

Broadcasts(t) ==
  /\ pc[t] = "broadcasting"
  /\ pc' = [u \in Threads |->
              IF u = t THEN "unlocking"
              ELSE IF pc[u] = "asleep" /\ platform # "xp" THEN "relocking"
              ELSE pc[u]]
  /\ SetEvents
  /\ UNCHANGED <<platform, mutexVars, condition, want, calls, wronged, stolen, late>>

UnlocksWithCondition(t) ==
  /\ pc[t] = "unlocking"
  /\ Unlocks(t)
  /\ GoTo(t, "out")
  /\ UNCHANGED <<platform, eventVars, condition, calls, late>>

-----------------------------------------------------------------------------
(* tryLock, and tryLockWhenCondition: up to its test. *)
Trying(t) ==
  /\ pc[t] = "trying"
  /\ \/ TryBusy(t) /\ Answer(t, FALSE)
     \/ TrySucceeds(t) /\ want[t] = Any /\ Answer(t, TRUE)
     \/ TrySucceeds(t) /\ want[t] # Any /\ GoTo(t, "checking") /\ UNCHANGED <<wronged, stolen>>
  /\ UNCHANGED <<platform, eventVars, condition, calls, late>>

TryChecks(t) ==
  /\ pc[t] = "checking"
  /\ \/ Met(t) /\ UNCHANGED mutexVars /\ Answer(t, TRUE)
     \/ ~Met(t) /\ Unlocks(t) /\ GoTo(t, "out")
  /\ UNCHANGED <<platform, eventVars, condition, calls, late>>

(* A round of mtx_timedlock: the limit may pass while the mutex is busy. *)
TimedRound(t, success, limit) ==
  /\ \/ TrySucceeds(t) /\ success
     \/ TryBusy(t) /\ (limit \/ (UNCHANGED <<pc, want, wronged, stolen>>))
  /\ UNCHANGED <<platform, eventVars, condition, calls, late>>

(* lockBeforeDate: *)
Timed(t) ==
  /\ pc[t] = "timed"
  /\ TimedRound(t, Answer(t, TRUE), Answer(t, FALSE))

(* lockWhenCondition:beforeDate: waits for the mutex, and for it again as  *)
(* long as the condition is another.                                       *)
TimedWhen(t) ==
  /\ pc[t] \in {"timedWhen", "again"}
  /\ TimedRound(t,
       \/ Met(t) /\ Answer(t, TRUE)
       \/ ~Met(t) /\ GoTo(t, "again") /\ UNCHANGED <<wronged, stolen>>,
       GoTo(t, "givesUp") /\ UNCHANGED <<wronged, stolen>>)

GivesUp(t) ==
  /\ pc[t] = "givesUp"
  /\ Unlocks(t)
  /\ GoTo(t, "out")
  /\ UNCHANGED <<platform, eventVars, condition, calls, late>>

-----------------------------------------------------------------------------
(* What a thread does by itself: all but to call, and to wake for nothing. *)
Step(t) ==
  \/ Locking(t) \/ Testing(t) \/ Waiting(t) \/ EventWakes(t) \/ ResetsEvent(t)
  \/ Broadcasts(t) \/ UnlocksWithCondition(t)
  \/ Trying(t) \/ TryChecks(t) \/ Timed(t) \/ TimedWhen(t) \/ GivesUp(t)

Unlocking(t) == UnlockPlain(t) \/ SetsCondition(t)

LockNext == \E t \in Threads : Call(t) \/ WakesUp(t) \/ Step(t) \/ Unlocking(t)

(* Threads run, a caller that has the lock unlocks it, and a thread that   *)
(* asks for a mutex that is free again and again is not passed over.       *)
LockSpec ==
  /\ LockInit /\ [][LockNext]_lockVars
  /\ \A t \in Threads : WF_lockVars(Step(t)) /\ SF_lockVars(Locking(t)) /\ WF_lockVars(Unlocking(t))

-----------------------------------------------------------------------------
Has == {"testing", "in", "broadcasting", "unlocking"}

(* No answer was false, and no mutex unlocked by another thread.           *)
Right == ~wronged /\ ~stolen

(* The threads inside a form, or between it and their unlock, exclude each *)
(* other: they hold the mutex.  This lasts until an answer is false, on    *)
(* unix, or until lockWhenCondition:beforeDate: unlocks the mutex of       *)
(* another thread; the answers of Windows are true up to that.             *)
OneHolder ==
  /\ wronged => platform = "posix" \/ stolen
  /\ Right => \A t \in Threads : pc[t] \in Has => owner = t

(* And a thread that asked for a condition finds it, until it unlocks,     *)
(* whoever else was woken by the same broadcast.                           *)
ConditionMet == Right => \A t \in Threads : pc[t] = "in" => Met(t)

(* No thread sleeps whose condition is there, but for the time between the *)
(* change of the condition and the broadcast: with the events of xp, while *)
(* they are set, or when they were reset under a thread that waits.        *)
NoLostWakeup ==
  Right /\ ~late =>
    \A t \in Threads : pc[t] = "asleep" /\ Met(t) =>
      \/ platform = "xp" /\ event
      \/ \E u \in Threads : pc[u] = "broadcasting"

(* A thread that waits in lockWhenCondition: for the condition there is    *)
(* gets the lock, or the condition is changed: unless there was a false    *)
(* answer, a late reset, or lockWhenCondition:beforeDate: goes round and   *)
(* round with the lock.                                                    *)
Served ==
  \A t \in Threads :
    [](Right /\ ~late /\ \A u \in Threads : pc[u] # "again") =>
      (pc[t] = "asleep" /\ Met(t) ~> pc[t] = "in" \/ ~Met(t))
=============================================================================
