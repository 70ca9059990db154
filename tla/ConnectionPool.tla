--------------------------- MODULE ConnectionPool ---------------------------
(***************************************************************************)
(* MSDBConnectionPool.m: idle connections under a mutex; and the threads   *)
(* that take a connection from the pool, use it and give it back.  A       *)
(* connection of the MySQL and SQLite adaptors posts a notification when   *)
(* it is connected, one of SQLite when it is disconnected: observers run   *)
(* on the threads of the pool, and may use the pool themselves.            *)
(***************************************************************************)
EXTENDS NotificationCenter

CONSTANTS
  Connections,
  Connected, Disconnected   \* the names of their notifications

ASSUME PoolAssumption == {Connected, Disconnected} \subseteq Names

VARIABLES
  poolOwner, poolDepth,   \* of _connectionLock
  idle,        \* _idleConnections
  users,       \* the threads that hold a connection
  open,        \* the connections that are connected
  busy,        \* those with operations
  twice        \* history: one was given back that its thread did not hold

poolMutex == <<poolOwner, poolDepth>>
connectionVars == <<users, open, busy, twice>>
poolVars == <<centerVars, poolMutex, idle, connectionVars>>

Lock == INSTANCE StdThreads WITH
  owner <- poolOwner, depth <- poolDepth, corrupt <- FALSE, waiters <- 0, event <- FALSE

PoolInit ==
  /\ CenterInit
  /\ Lock!InitStd
  /\ idle = <<>>
  /\ users = [c \in Connections |-> {}]
  /\ open = {} /\ busy = {} /\ twice = FALSE

Holds(t, c) == t \in users[c]

(* The connections there are: others are new ones. *)
Under(t, what, c) == \E f \in ToSet(frames[t]) : f.what = what /\ f.with = c
Made ==
  ToSet(idle) \cup {c \in Connections : users[c] # {} \/ \E t \in Threads : Under(t, "give", c)}

(* Bound: a connection is left for whoever asks. *)
Spare ==
  Cardinality({t \in Threads : Under(t, "require", None)}) + Cardinality(Made \ ToSet(idle))
    < Cardinality(Connections)

-----------------------------------------------------------------------------
(* requireConnection is called *)
Requires(t) ==
  /\ Begins(t) /\ Spare
  /\ Called(t, Frame("require", None, AnyName))
  /\ UNCHANGED <<platform, mutex, list, entry, gone, freedUnder, poolMutex, idle, connectionVars>>

(* releaseConnection: is called.  The thread does not use the connection   *)
(* any more; a thread that gives back what it does not hold does so with a *)
(* connection that is idle or another's.                                   *)
GivesBack(t) ==
  /\ Begins(t)
  /\ \E c \in Connections :
       /\ Holds(t, c) \/ c \in ToSet(idle) \/ users[c] # {}
       /\ twice' = (twice \/ ~Holds(t, c))
       /\ users' = [users EXCEPT ![c] = @ \ {t}]
       /\ Called(t, Frame("give", c, AnyName))
  /\ UNCHANGED <<platform, mutex, list, entry, gone, freedUnder, poolMutex, idle, open, busy>>

LocksPool(t) ==
  /\ In(t, {"require", "give"}, "waits")
  /\ Lock!Lock(t)
  /\ GoesOn(t, "inside", None)
  /\ UNCHANGED <<platform, mutex, list, entry, gone, freedUnder, work, idle, connectionVars>>

\* Faulty form: the first idle connection leaves the list, not the last.
TakesAnother(t) ==
  /\ In(t, {"require"}, "inside")
  /\ IF idle # <<>>
     THEN users' = [users EXCEPT ![Last(idle)] = @ \cup {t}] /\ idle' = Tail(idle)
     ELSE \E c \in Connections :
            /\ c \notin Made /\ users' = [users EXCEPT ![c] = {t}]
            /\ UNCHANGED idle
  /\ Lock!Unlock(t)
  /\ Returned(t)
  /\ UNCHANGED <<platform, mutex, list, entry, gone, freedUnder, work, open, busy, twice>>

(* The rest of requireConnection: the last idle connection, or a new one.  *)
TakesIdle(t) ==
  /\ In(t, {"require"}, "inside")
  /\ IF idle # <<>>
     THEN users' = [users EXCEPT ![Last(idle)] = @ \cup {t}] /\ idle' = Front(idle)
     ELSE \E c \in Connections :
            /\ c \notin Made /\ users' = [users EXCEPT ![c] = {t}]
            /\ UNCHANGED idle
  /\ Lock!Unlock(t)
  /\ Returned(t)
  /\ UNCHANGED <<platform, mutex, list, entry, gone, freedUnder, work, open, busy, twice>>

\* Faulty form: a connection is disconnected before it is put back.
PutsBackDisconnected(t) ==
  /\ In(t, {"give"}, "inside")
  /\ LET c == Top(t).with IN
     \/ /\ c \in open /\ open' = open \ {c}
        /\ Called(t, Frame("post", None, Disconnected))
        /\ UNCHANGED <<poolMutex, idle, busy>>
     \/ /\ c \notin open
        /\ idle' = Append(idle, c) /\ busy' = busy \ {c}
        /\ Lock!Unlock(t) /\ Returned(t)
        /\ UNCHANGED open
  /\ UNCHANGED <<platform, mutex, list, entry, gone, freedUnder, work, users, twice>>

(* The rest of releaseConnection:, with its terminateAllOperations. *)
PutsBack(t) ==
  /\ In(t, {"give"}, "inside")
  /\ idle' = Append(idle, Top(t).with)
  /\ busy' = busy \ {Top(t).with}
  /\ Lock!Unlock(t)
  /\ Returned(t)
  /\ UNCHANGED <<platform, mutex, list, entry, gone, freedUnder, work, users, open, twice>>

-----------------------------------------------------------------------------
(* An operation is made, which connects what is not connected (connect):   *)
(* the notification is posted when the database is open.                   *)
Uses(t) ==
  \E c \in Connections :
    /\ Holds(t, c)
    /\ IF c \in open
       THEN /\ Free(t) /\ freedUnder = {} /\ c \notin busy
            /\ busy' = busy \cup {c}
            /\ UNCHANGED <<frames, work, open>>
       ELSE /\ Begins(t)
            /\ open' = open \cup {c}
            /\ Called(t, Frame("post", None, Connected))
            /\ UNCHANGED busy
    /\ UNCHANGED <<platform, mutex, list, entry, gone, freedUnder, poolMutex, idle, users, twice>>

(* disconnect: terminateAllOperations, and the database may not be closed. *)
Disconnects(t) ==
  /\ Begins(t)
  /\ \E c \in open :
       /\ Holds(t, c)
       /\ busy' = busy \ {c}
       /\ \/ open' = open \ {c} /\ Called(t, Frame("post", None, Disconnected))
          \/ UNCHANGED <<open, frames>>
  /\ UNCHANGED <<platform, mutex, list, entry, gone, freedUnder, poolMutex, idle, users, twice>>

PoolStep(t) ==
  \/ CenterStep(t) /\ UNCHANGED <<poolMutex, idle, connectionVars>>
  \/ Requires(t) \/ GivesBack(t) \/ LocksPool(t) \/ TakesIdle(t) \/ PutsBack(t)
  \/ Uses(t) \/ Disconnects(t)

PoolNext == \E t \in Threads : PoolStep(t)

PoolSpec == PoolInit /\ [][PoolNext]_poolVars

-----------------------------------------------------------------------------
(* A connection is in one place, idle or with one thread, and has no       *)
(* operations while it is idle: as long as no thread gives back what it    *)
(* does not hold.                                                          *)
OneUser ==
  ~twice =>
    /\ IsInjective(idle)
    /\ \A c \in Connections :
         /\ Cardinality(users[c]) <= 1
         /\ c \in ToSet(idle) => users[c] = {} /\ c \notin busy

(* u holds the mutex that t waits for. *)
WaitsFor(t, u) ==
  \/ In(t, CenterCalls, "waits") /\ u = owner
  \/ In(t, {"require", "give"}, "waits") /\ u = poolOwner

(* Threads wait for each other only behind one that waits for itself: an   *)
(* observer that calls the center, where mutexes are not recursive.  The   *)
(* two mutexes are never taken in both orders.                             *)
NoWaitCycle ==
  \A T \in (SUBSET Threads) \ {{}} :
    (\A t \in T : \E u \in T : WaitsFor(t, u)) =>
      \E t \in T : owner = t /\ In(t, CenterCalls, "waits")
=============================================================================
