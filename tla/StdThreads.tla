----------------------------- MODULE StdThreads -----------------------------
(***************************************************************************)
(* The mutexes and condition variables of deps/msstdlib, which stand for   *)
(* C11's <threads.h> on every platform: over pthread on unix ("posix"),    *)
(* over critical sections and the condition variables of Windows           *)
(* ("vista"), or over two events where Windows has none ("xp").            *)
(***************************************************************************)
EXTENDS Integers

CONSTANTS
  Threads,
  None,        \* no thread
  MaxDepth     \* bound: how often a thread locks what it holds already

ASSUME ThreadsAssumption == None \notin Threads /\ MaxDepth \in Nat

VARIABLES
  platform,    \* "posix", "vista" or "xp"
  owner,       \* the thread that holds the mutex, or None
  depth,       \* how often it does: critical sections are recursive
  corrupt,     \* a critical section was left that nobody was in
  waiters,     \* xp: waiters_count
  event        \* xp: the broadcast event is set

mutexVars == <<owner, depth, corrupt>>
eventVars == <<waiters, event>>

Windows == platform \in {"vista", "xp"}

Take(t) == ~corrupt /\ owner' = t /\ depth' = depth + 1 /\ corrupt' = corrupt

(* mtx_lock returns. *)
\* Faulty form: a critical section lets in whoever comes.
LockShared(t) ==
  /\ owner = None \/ (Windows /\ depth < MaxDepth)
  /\ Take(t)

Lock(t) ==
  /\ owner = None \/ (owner = t /\ Windows /\ depth < MaxDepth)
  /\ Take(t)

(* mtx_trylock returns thrd_success.  On unix it does so when it did not   *)
(* get the mutex: the answer of pthread_mutex_trylock is 0 when it did.    *)
TrySucceeds(t) ==
  IF Windows THEN Lock(t)
  ELSE owner # None /\ UNCHANGED mutexVars

(* mtx_trylock returns thrd_busy. *)
TryBusy(t) ==
  IF Windows THEN (owner \notin {None, t} \/ corrupt) /\ UNCHANGED mutexVars
  ELSE owner = None /\ Take(t)

(* mtx_unlock.  A thread that does not hold the mutex releases it all the  *)
(* same, and a critical section nobody is in is not entered again.         *)
Unlock(t) ==
  IF owner = None
  THEN corrupt' = (corrupt \/ Windows) /\ UNCHANGED <<owner, depth>>
  ELSE /\ owner' = IF depth > 1 THEN owner ELSE None
       /\ depth' = depth - 1
       /\ corrupt' = corrupt

(* cnd_broadcast, as far as it concerns the events. *)
\* Faulty form: a single waiter does not count.
SetEventsMany ==
  /\ event' = (event \/ (platform = "xp" /\ waiters > 1))
  /\ UNCHANGED waiters

SetEvents ==
  /\ event' = (event \/ (platform = "xp" /\ waiters > 0))
  /\ UNCHANGED waiters

InitStd ==
  /\ platform \in {"posix", "vista", "xp"}
  /\ owner = None /\ depth = 0 /\ corrupt = FALSE
  /\ waiters = 0 /\ event = FALSE
=============================================================================
