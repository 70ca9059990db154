# Verification of MSFoundation

MSFoundation is a family of C and Objective-C libraries on which OpenMicroStep builds its servers:
a core of containers in C (`MSCore_src`), a Foundation of its own (`Foundation_src`,
`MSFoundation_src`), database access with adaptors (`MSDb_src`, `MSDBAdaptors_src`), an HTTP and
TCP stack with promises and asynchronous tasks on node.js and libuv (`MSNode_src`), and a former
multi-threaded HTTP server (`MSNet_src`). This directory holds TLA+ models of the parts that have
behaviour worth checking, the TLC configurations that check them, and proofs for TLAPS.
`PROJECT.json` is the index: for every definition the lines it stands for, for every property a
plausible bug that breaks it, and the list of hazards the properties are aimed at.

Contents: [inventory](#1-inventory), [modules](#2-modules-and-the-code), [runs](#3-runs),
[fairness](#4-fairness), [proofs](#5-proofs), [findings](#6-findings),
[what is not modelled](#7-not-modelled), [plan](#8-plan).

## 1. Inventory

What the repository consists of, what each part keeps, and what can go wrong in it. "Loop" is the
thread of node's event loop; almost all of `MSNode_src` runs on it, so that its difficulty is not
preemption but re-entrance: callbacks that call back.

| Component | State | Operations | Hard behaviour | Correct means |
|---|---|---|---|---|
| **Callback lists** `MSNodeTypes.h`, `MSNode.m` | intrusive circular lists of malloc'd cells; a sentinel cast to a cell | attach, detach of a suffix, free, enumerate | pointers; insertion while an enumeration runs; suffixes change owner | lists are disjoint, nothing leaks, enumerations stay in live memory; they behave as sequences |
| **MSPromise** `MSPromise.m` | `_state`, `_listeners` | then/catch/finally, resolve/reject, resolveWithPromise | firing runs user code that fires others; a returned promise takes over the rest of the list | each handler once, in order, none lost, no freed cell used |
| **Promise unions** `MSPromise.m` | `_barrier`, `_type`, `_res` | addPromise, the two answers | promises that are settled while the union is built; answers in any order; the user settles it | waits for exactly those that have not answered; keeps its value; always settles |
| **MSAsyncTask** `MSAsyncTask.m` | a libuv request inside the object, `_promise`, `_ret` | start, abort, work, after_work | loop, pool threads and the task's own threads; cancel races the pool | one run, one outcome, on the loop; memory lives as long as the request |
| **MSNodeWorker** `MSNodeWorker.mm` | a queue under a mutex | post, run | a thread that waits on copies of a mutex and a condition | (see section 7) |
| **MSAsync** `MSAsync.m` | per flux a stack of elements, `_stack`, `_state` | continue; while, if, parallel, once, nested | continue called from inside the action it runs; barriers; once with latecomers | one continuation per flux; a barrier opens when all its branches ended; fluxes end |
| **HTTP transactions, routing** `MSHttpTransaction.mm`, `MSHttpRouter.m` | response state, write handlers, reference count; a stack of routes and the position in the url | writeHead/Data/End, nextRoute | nextRoute inside the middleware it applies; handlers that defer or write themselves; use after the release | routes in the order of the tree, one response, released once |
| **TCP** `MSTcp.m` | `_stream`, references held for libuv | listen, connect, write, writeEnd, close, callbacks | partial writes, queue, shutdown against pending writes, release in callbacks | bytes in order, an end delivers what was written, owners outlive callbacks |
| **Database connections** `MSDb_src`, SQLCipher adaptor | list of operations that retains none, `_intransaction`, prepared statements | statements, result sets, transactions, terminateAllOperations | a loop over a list that its body shrinks; a flag that copies the database's state | none left, none dangling, one transaction, only save commits |
| **Connection pool** `MSDBConnectionPool.m` | stack of idle connections, a mutex | require, release | threads; a connection that is given back twice; observers of connections that use the pool | one user per connection, no operations in an idle one, no cycle of waiting |
| Object database `MSOdb.m`, `MSObi.m` | caches of objects and ids | fetch, save | mostly the making of requests | not modelled |
| HTTP server, client, middlewares `MSHttp*.m` | sessions with timers, parsers of forms | | incremental parsing, session expiry | HttpRouter models what any middleware may do |
| Bindings to node `MSNodeWrapper.mm` | | a pool around each callback | conversions between V8 and Objective-C | the pool is in HttpTransaction |
| **Dictionaries, arrays** `MSCDictionary.c`, `MSCArray.c`, `MSCGrow.c`, `MSCObject.c` | chains of nodes, a zone that grows, reference counts | set, remove, grow, enumerate, copy; insert, replace, remove | a table that changes under its enumerator; an object whose last reference is the container's | a map and its enumerations; references counted, nothing used after it was freed |
| **Dates** `MSCDate.c` | seconds from 2001 | conversions, weeks, months between, moves | closed formulas in doubles, with years that begin in March | the Gregorian calendar |
| **Locks and conditions** `NSLock.m`, `deps/msstdlib` | a mutex per platform, `_condition` | lock, tryLock, lockBeforeDate: with and without a condition, unlockWithCondition: | broadcasts, time limits, events built into condition variables | one holder; no waiter overslept |
| **Notification center** `NSNotificationCenter.m` | list of observers that are not retained, one mutex | add, remove, post | observers run under the mutex, and may call the center or be deallocated meanwhile | no freed entry read, no dead observer called; who waits for itself |
| Run loop, timers, pools `NSRunLoop.m`, `NSAutoreleasePool.m` | | | thin layers over libuv | the drain of a pool is in the models that need it |
| Strings, buffers, numbers, codecs `MSCore_src`, `Foundation_src` | | | sequential conversions, with unit tests | not modelled |
| `MSNet_src`, `MHServer_src`, `MHMessenger_src` | queues, sessions, threads | | the former server | not modelled |
| MAPM, Unicode tables, `deps` | | | vendored or generated | not modelled |

How they interact:

- node calls into Objective-C through the bindings; each callback has a pool of its own. The
  server makes a transaction for each request and starts the router; middlewares keep callback
  lists on transactions (`onWriteHead` ...) and promises for what they wait for.
- Promises, transactions, client requests and TCP connections keep their callbacks in the same
  lists; `Promise` uses the sequences that `HandlerList` is shown to implement.
- `MSAsyncTask` gives a promise to its caller and settles it on the loop with what a pool thread,
  or any other thread, put into a second promise.
- Dictionaries and arrays retain their objects, which the program, or the other container, may hold
  too: `Containers` composes both with a program that shares objects between them.
- `NSConditionLock` is built on the mutexes and condition variables of msstdlib: `ConditionLock`
  is the one over the other.
- A pool gives connections to threads; a connection that is made or closed (SQLite, MySQL) tells
  the observers of the notification center on the thread that uses it, under the center's mutex.
- Operations hold their connection, the connection points to its operations without retaining
  them, a result set retains its statement.

## 2. Modules and the code

One module per component; `MCx` instantiates `x` for TLC.

**HandlerList** (`MSNodeTypes.h` 95-175, `MSNode.m` 260-380). Sentinels and cells are nodes of one
heap `next`/`prev`, with zeroed sentinels, stale pointers in freed cells and the test for a whole
circle as in the code. `Attach` and `Detach` are the two pointer operations; `Add`, `Move` (the
hand-over of `_fireHandlers`), `FreeInside`, `StartCall` and `CallNext` are the users. `owner` is
ghost state: the list a cell was attached to. `Chain` is a closure rather than a recursion, so that
proofs can speak of it. **SeqLists** is the abstract specification: sequences, append, hand over a
suffix, free, call. **HandlerSequences** gives the refinement mapping: the sequence of a list is the
one its cells spell along `next` (`Walk`), the position of a call the number of handlers it has met.

**Promise** (`MSPromise.m` 24-216). The call stack is explicit: a frame is an activation of
`_fireHandlers`, or a handler called directly on a settled promise. User code runs in the body of a
handler or with an empty stack. The returns of a handler are `ReturnNothing`, `ReturnPromise` and
`ReturnFromCall`; `Forward` is the handler of `resolveWithPromise:`. Using a freed cell sets
`corrupt`, after which nothing is defined. `misuse` records the two unusual returns: a promise
returned by the last handler of a list, and one that is itself firing.

**PromiseUnion** (`MSPromise.m` 218-end). `Add` is one turn of the constructor; `Deliver(i)` runs
the handler of entry i, in the order in which the entries of one promise were added. Values are the
indices they come from.

**AsyncTask** (`MSAsyncTask.m`). `Work` and `Return` are the pool, `TaskSettles` any thread of the
task's code, `AfterWork` the loop. libuv's queue is taken as it promises to be: a request is queued, taken in order,
and completed once on the loop; one that no thread has taken can be cancelled. `undefined`: cancel
of a request that was never initialised.

**DbConnection** (`MSDBGenericConnection.m`, `MSDBOperation.m`, `MSDBTransaction.m`,
`MSDBConnection.m`, `MSSQLCipher*.m`). `terminateAllOperations` is a loop, run step by step over
the list as it shrinks. The database is external: `dbTx` and `txWrites` are its own state beside
the flag `inTx`; it may refuse a command or roll back by itself. `Orphan` is the statement that is
deallocated with its last result set, and commands are appended to active transactions only. History variables record what a property must excuse: the
program used the connection's own commands (`direct`), the database rolled back (`rolledBack`), a
statement was terminated under its result set (`early`).
**Lists** has `Without` and `WithoutAll`, the removals from a list; AsyncTask's queue, the chains of
Dictionary and the notification center use them too.

**NotificationCenter** (`NSNotificationCenter.m`) has the list of observers and the calls each thread
is in: a call waits for the mutex, is inside, and a post stands on an entry whose observer is told,
which may call again from there. The mutexes are those of StdThreads: recursive on Windows, and not
on unix. `freedUnder` records who freed an entry that a post stood on. **ConnectionPool**
(`MSDBConnectionPool.m`, with `connect` and `disconnect` of the SQLite adaptor) adds the pool with a
mutex of its own and the threads that use it. `twice` records that a thread gave back what it did not
hold. **Database** puts the pool beside DbConnection; a connection has one thread at a time, so that
the one rests while the other moves.

**AsyncFlux** (`MSAsync.m`). Frames of the call stack are the loop of `continue` before and after
it has run an element, the loops of parallel and once, and user code. `Continue` turns a call from
inside the loop into another turn of it (`_stack` = 2). Each kind of element is an operator named
for it. An action owes one continue; `ContinueSpurious` is one that nobody owes. `Elements` has the
elements of the programs and those inside of them, so that what runs is always one of them.

**HttpTransaction** holds the methods of the response as operators that give the set of possible
results, with node's `ServerResponse` external. What the write handlers do is open: they accept,
defer, or write the head, data or the end themselves, from within (`HeadHandlers`, `DataHandlers`);
they do not pass the transaction on to another route.
**HttpRouter** composes it with the walk through the tree of routes: `Push`, `Pop`, `TryChild`,
`Exhausted` are the loop of `nextRouteForTransaction:`, step by step, `NextRoute` and `Respond`
what middlewares do in `onTransaction:` (`calls` is the stack of those) or in later callbacks.
`charge` is the middleware whose turn it is; `misuse` counts the calls of others. `Normalized` is
the clean-up of the url, with what it does to a slash or a dot at the end. `Height` gives the levels
of routes below a route, so that the walk the order is compared with (`Visits`) ends;
`Characters` is what urls and paths are made of.

**Tcp** (`MSTcp.m`, on the streams of `deps/libuv/src/unix/stream.c`). A connection and its stream are one record. The operators `StreamWrite`, `StreamWriteEnd`, `WriteCb`,
`ShutdownCb` are the methods and callbacks; `UvTryWrite`, `UvWrite`, `UvFlush`, `UvDrain`, `Writable` what
libuv does: nothing is tried while requests wait, the callbacks of writes come before the one of
the shutdown. The actions are the events of the loop and the calls of the program, in a handler or
with a reference of its own.

**Containers** composes **Dictionary** (`MSCDictionary.c`, with **Capacity**, the sizes of
`MSCoreSystem.c`) and **Array** (`MSCArray.c`, `MSCGrow.c`) over **Objects** (`MSCObject.c`: a
reference count per object, and `undefined` for what is done with one that was freed). A key is in
one node at most, so nodes are named by their keys; a chain is a sequence of keys. The turns of
`_grow`, of the copy and of `CArrayRemoveObject` are steps; since a container belongs to one thread,
no call comes between them (`Quiet`). `walk` is the program's enumerator, which may stand in the
table while the table changes; it is given up where the code leaves it without meaning (its node
freed, the table replaced). **KeyedMap** is the abstract specification: a map and an enumeration
that meets what is due, once. `onlyHere` and `onItself` remember that a call was passed an object
that only the array held, or the array itself.

**Dates** (`MSCDate.c`) translates the formulas for days, months, weeks and moves, in integers where
the code takes floors of doubles; **Calendar** is the reference, defined by leap years and the
lengths of months. The state is a date; the actions are the functions that move one.

**StdThreads** (`deps/msstdlib/MSStdThreads*.c`) has the mutexes and condition variables of the
three platforms, with `mtx_trylock` of unix as it is written; **ConditionLock** (`NSLock.m`) has
each form of `NSConditionLock`, one step per call of `mtx_*` and `cnd_*`. `wronged` and `stolen`
record a false answer and the unlock of a mutex held by another thread, after which no new call is
made; `late` a reset of the event of Windows XP under a waiter.

Abstractions used throughout: data are indices, counts or model values; messages to nil do nothing
and give 0; what lies outside (the kernel, node, the database, user code) may do anything
its interface allows. User code is any sequence of the calls it can make, with the bounds below.

## 3. Runs

Each run is complete (TLC explores every reachable state) within the bounds named.

| Run | States | Bounds | Shows |
|---|---|---|---|
| `handler_list` | 6 367 | 2 lists, 4 cells, symmetric | the heap stays `WellFormed`, `EnumeratorsLive`, `NoLeak`; `ImplementsSequences`: the pointers implement SeqLists |
| `promise` | 111 736 | 2 promises, 4 handlers, depth 5 | no handler in two lists or left with a settled promise (`ListsConsistent`), called twice (`CalledAtMostOnce`) or out of order (`MetInOrder`), except after the misuse recorded |
| `promise_dropped` | violation | 3 handlers | a handler behind one that returns a promise is freed uncalled |
| `promise_union` | 131 292 | 3 promises, arrays of up to 3 (all of them, with repetitions) | `WellCounted`: the barrier is the number of answers still needed, in the midst of construction too, and what the first promise being settled does; `CompleteResult`; `ValueStable`; `UnionSettles` |
| `async_task` | 4 199 | 2 tasks, 1 thread | references (`RefsConsistent`), one run and one outcome on the loop (`RunsOnce`), settlement and release in the end (`StartedEnds`) |
| `db_connection` | 598 414 | 3 operations of any class; 2 threads, 2 connections, 1 observer with 2 entries, 6 calls, 2 inside of each other; symmetric | the list of operations and what is registered there (`RegisteredAlive`), the sweep (`NoneDisconnected`), the flag, `OneTransaction`, `AllOrNothing`; the pool (`OneUser`) and the observers of its connections (`ObserversLive`, `NoWaitCycle`) |
| `async_flux` | 111 943 | 3 programs, 2 at a time, 2 turns of a while, 1 spurious continue | `OneContinuation`: with the barriers' counts and without recursion; `FluxesTerminate` |
| `http` | 85 093 | 5 routes, 90 requests, 2 calls out of turn | `VisitsInOrder`: position and order of routing; `OneResponse` with its status and release; `RequestEnds` |
| `tcp` | 68 476 | 1 connection, 4 bytes, buffers of up to 2, 3 requests | `BytesInOrder`, `StreamsOwned`, `EndsDelivered` |
| `containers` | 356 212 | 3 keys (natural or not), 2 objects, symmetric; an array of 2; growth by 1 | `Placed`, `CopyEqual`, `Counted`; `ImplementsMap`: chains and enumerator implement KeyedMap |
| `dates` | 5 844 | every day of 8 years, noon and midnight, 6 changes | `CastAgrees`, `CalendarAgrees`: conversions, weeks and moves (days set, months added or counted) are the calendar's, but for day 366 of leap years |
| `locks` | 203 029 | 3 threads, 4 calls, 2 conditions, 3 platforms | `OneHolder`, `ConditionMet`, `NoLostWakeup`, `Served` |

Why the bounds are enough to meet the interesting cases:

- *handler_list*: a suffix of two cells moves to a list that has two; an enumeration stands before,
  on and behind what is added.
- *promise*: with four handlers, one that returns a promise has zero, one and two or more behind
  it, the three cases `_fireHandlers` tells apart; two promises can fire each other (the depth
  bound stands for the machine's stack). Handlers and promises are only compared, so permuting
  them is sound; no liveness is checked there.
- *promise_union*: arrays of length 3 over 3 promises contain every pattern of repetition and of
  promises settled before, during and after the construction.
- *async_task*: one thread and two tasks let a request wait, be cancelled while waiting, and fail
  to be cancelled.
- *db_connection*: three operations give a transaction beside a statement with its result set, two
  result sets of one statement, and sweeps in which one turn takes two of three out of the list.
  Six calls are what it takes for two threads to want the two mutexes in both orders: one posts to
  an observer that asks for a connection, while the other has taken, connected and given back one.
- *async_flux*: programs like those of `MSFoundation_tst/msfoundation_async_validate.m`; two run at
  a time so that a once element has an observer that comes during and one that comes after.
- *http*: a tree like that of MHMessenger: a sub-application with a route and a middleware of its
  own, between a middleware for all and one for GET; urls with every string of up to four
  characters over a slash and two letters, and those with dots, also between slashes.
- *tcp*: four bytes in buffers of up to two give partial writes at every position with a queue
  behind them. One connection suffices, because connections share nothing but the loop and the
  flag `serving`.

- *containers*: three keys share one chain in the table of two and two chains in the table of four,
  so that growth splits a chain, keeps one and leaves chains empty. Two objects in an array of
  two: an object twice, replaced by itself, or held by every subset of the three holders.
- *dates*: the years about 1900 and 2000 (a century without and one with a leap day), year 1,
  where the formulas begin, and an ordinary leap year; changes of months past a year in both
  directions and across months of 28 to 31 days. For every year, see the theorems.
- *locks*: three threads are one that has the mutex, one that sleeps and one that comes when the
  last waiter leaves, which is the interleaving the events of XP lose; four calls let a condition be
  taken and changed again before the second thread that was woken looks. Reasonless wake-ups count
  as calls.

CHECK_DEADLOCK is FALSE where the program comes to rest by itself: all handlers used, all requests
answered.

## 4. Fairness

Only what the code's own scheduling gives; user code is never forced to call anything, except
where a property is about the answer it owes.

- *AsyncFlux*: the thread runs (weak fairness of the steps of running code), and an action gives
  the continue it owes, which MSAsync requires of it.
- *PromiseUnion*: the constructor and a firing promise run to their end; nothing makes a promise settle.
- *AsyncTask*: the pool takes requests, the code of a task returns, and the loop completes
  requests. A task need not settle the promise it was given.
- *HttpRouter*: the thread runs, pools are drained, and the middleware whose turn it is answers or
  passes on in the end. That is strong fairness, since calls that others make come in between.
  A middleware that never answers leaks its transaction; that is a rule for middlewares.
- *Tcp*: handlers return. The loop serves each event that stays due, while handlers of other events
  run in between and disable it for their time: strong fairness of the events. Peers and the
  program are free.
- *ConditionLock*: threads run (weak fairness of `Step`), a caller that has the lock unlocks it,
  and a thread that asks for a mutex that is free again and again gets it (strong fairness of
  `Locking`): with the events of XP, which stay set while there are waiters, one that wakes
  could otherwise take the mutex before the others for ever. pthread and critical
  sections promise no order, but no scheduler starves a thread for ever. `Served` assumes that no
  thread goes round in `lockWhenCondition:beforeDate:` with the lock.
- *HandlerList*, *Promise*, *Database*, *Containers*, *Dates*: safety only, no fairness. That threads
  do not wait for each other for ever is an invariant, `NoWaitCycle`.

## 5. Proofs

**HandlerList_proofs**, for any sets of lists and cells. The invariant is `TypeOK`, `Linked`,
`Separated`, `NoLeak` and `OwnersClosed` (the sentinel of a
list that owns a cell is no longer zeroed).
`Linked` and `Separated` alone are not inductive: `Move` and `FreeInside` change the owner of what
they reach along `next`, and without `NoLeak` this chain might not be the whole rest of the list,
so that cells would keep an owner whose list they have left. The lemmas say what `Attach` and
`Detach` do to a well-linked heap. Proved: `ListsLinked` (WellFormed), `ListsSeparated`,
`NothingLeaks` (NoLeak), `EnumerationsSafe` (EnumeratorsLive).
That the pointers implement SeqLists, `ListsAreSequences` (ImplementsSequences), adds to the
invariant that there is a sequence for each list (`Ordered`): the cells spell it along `next`, and
its handlers are those whose owner is the list. A walk has one spelling, so the sequence is the one
the mapping chooses, and `prev` leads along it backwards. Lemmas about links alone say what a list
spells that got longer (`SpellsJoined`) or shorter (`SpellsCut`), and `DetachedPart` that what
`Detach` cuts off is the rest of the sequence from the handler named; each operation is these put
together. A call keeps its position because handlers come in behind it only, and a hand-over or a
free leaves lists alone on which a call is running.

**Database_proofs**, for any set of operations. The invariant has the parts `Typed`; `Listed`
(the list holds the active operations and, within the sweep, is never longer than the index still
to go, which is why the sweep misses none although each turn may take out two);
`NoneDisconnected`; `FlagFollowsDatabase`; `Single` (at most one transaction is active, and the
writes of the open transaction are its own); `Writes` (what is committed was saved by a
transaction that is no longer active). `AllOrNothing` is not inductive without `Single`: a save
commits all that is open, so one must know whose writes are open, also after a failed save.
A second invariant, `Handles`, is about the owners: a result set stands behind its statement in the
list (`Precedes`), so that the sweep, which goes backwards, ends it before the statement under it.
Proved: `NothingPending` (NoneDisconnected), `FlagFollows` (FlagFollowsDatabase),
`TransactionsAlone` (OneTransaction), `OnlySaveCommits` (AllOrNothing), `OperationsAlive`
(RegisteredAlive).
The pool and the center have one invariant, `PoolInv`, for any threads, connections, observers,
platform and bound on the calls. Its parts: `Held` (the depth of a mutex is the number of calls of
its owner that are inside), `Passing` (an observer that is being added is neither gone nor about to go), `ObserversLive`, and
`Places` (an idle connection is in no thread's hands and in the stack once, and a thread that
gives back has let go of what it gives). A stack of calls is what makes it hard: whether a call may
return, wait or post depends on the calls under it. What matters of those is in the types: all that is
below the innermost call is posts that tell an observer.
Proved: `ObserversOutlive` (ObserversLive), `ConnectionsAlone` (OneUser), `NobodyWaitsInCircle`
(NoWaitCycle), and `DatabaseParts`, that the composition implements both parts, so that the
theorems about either hold of it.
**Lists_proofs** has the induction the others use. The library states induction for an operator,
which these provers do not instantiate; stated for a set, that every set of numbers has
a least (`LeastNumber`), and that a set with 0 and with each successor has all (`NumbersByStep`), it serves.
By it what a recursive function goes through is proved for every length: what `Without`,
`WithoutAll`, `Append` and `Tail` do to a list, and that they keep its order.

**Promises_proofs** is about promises, tasks and unions.
For any promises and handlers the invariant `PromiseInv` relates the stack of activations to
the lists while handlers run. Its parts: `Apart` (no handler is in two lists or twice in one);
`Waiting` (a queued one was met, was freed or is in a list); `InTurn` (of two handlers added to one
promise, while the first is not met the second is behind it in the same list, which
is what a hand-over keeps); `FiringRight` (a promise that fires is settled, and a settled one that
does not holds nothing); `BehindMet` (what is behind the enumerator of the innermost firing of a
promise was met). `FiredOnce` holds until a firing promise is fired again: each promise fires in
one frame, every frame stands on a handler of its own that is still in the list, and a
handler that was met stands behind that frame. It is what makes "at most once" inductive: a handler
handed over was not met, because it is not behind the frame that hands it over. It also bounds the stack by the number
of handlers, so that an overflow needs a second firing. Proved: `ListsWhole` (ListsConsistent),
`HandlersOnce` (CalledAtMostOnce), `HandlersInOrder` (MetInOrder).
For any tasks and any number of threads the invariant
says: the queue holds the
queued requests, each once; only a task that was never started is "Idle" (`StartedOnce`), which is
why a second start queues nothing; runs and completions are told by the phase, to which no way leads
back (`TaskPassed`); a task that runs has a promise to settle (`RetGiven`); and no handler is ever
left on `_ret` (`NeverForwards`), without which "the promise settles on the loop" is not inductive,
because another thread could run that handler. Proved: `TaskOutlivesRequest` (RefsConsistent),
`OneRun` (RunsOnce).
For any promises and arrays of any length, `BarrierCounts` needs to know
that no index answers twice and that none beyond `added` has; `PrematureOnlyByFirst` that, while
the union is built, exactly the promises settled before have answered (`Frozen`), so that the first
one is still missing and the barrier above 0 (`FirstWaits`). What a union is settled with needs more:
the answers so far, or the reason of the first rejection among them, are what it holds (`Counting`),
and a settled one was settled by its user, or by all (`SettledRight`). Proved: `BarrierRight`
(WellCounted), `ValueKept` (ValueStable), `UnionComplete` (CompleteResult).

**Containers_proofs**, for any keys, hashes and objects and arrays of any length. The invariant
`TableInv` is `Placed` with the types of the tables, the enumerator and the copy; three more stand on it.
`SharedInv`: references are counted by occurrences in sequences that are cut and joined
(`RefsRight`), and while `CArrayRemoveObject` goes through an array, what it looks for is held
elsewhere or was the array's alone (`LoopHolds`). `CopyInv`: the keys of the copy are those its
enumerator has behind it (`Passed`). `WalkInv`: of an enumeration in a table that changes, what is due
and behind it was met, and what it met and is there is behind it. A key that was met
and removed may be set again; it comes to the head of a chain the enumerator has begun, hence behind
it (the chains of the keys met are begun), which is why it is not met twice. Proved:
`KeysPlaced` (Placed), through every turn of the growth, `ReferencesCounted` (Counted), `CopiesEqual`
(CopyEqual), and the refinement `DictionaryIsMap` (ImplementsMap).

**Network_proofs**, for any tree of routes, requests and middlewares: a transaction is `Ordinary` (its
head goes out in one state only, and its reference is given back at the end of the turn that ends
it), and one that is ended is nobody's charge, unless someone acted out of turn. A write handler may write
the head, data or the end itself before the call it was met in goes on; the status asked first is
sent unless it did so with another head, data or the end, or put the head off (`taken`). Without the latter,
the middleware whose turn it is might answer a second time. For the order of the routes the invariant
(`RoutingInv`) says that the middlewares that had the transaction, followed by what is left, are the
walk through the tree (`Placed`). What is left is read off the stack (`Way`): of each route on it, what
its children from its index on visit at the place of the url it has reached, the innermost first.
A push, a child that does not match and a pop each leave this sequence as it is (`OnPush`,
`OnAdvance`, `Passed`, `OnPop`); the walk is a function by levels, since a child has fewer levels below
it than its route. The clean-up of the url is shown for urls of any length (`NormalizedUrl`).
Proved: `AnsweredOnce` (OneResponse), `RoutesInOrder` (VisitsInOrder). For
any number of connections and writes: per stage of a connection, who holds a reference (`Owned`), that
its requests are those libuv still has and those it has done, that what is written, queued and sent are the
bytes given in their order (`Ordered`), and that nothing is written where there is no stream
(`Untouched`). Proved: `WritesInOrder` (BytesInOrder), `StreamsKept` (StreamsOwned).

**AsyncFlux_proofs**, for any elements (closed under their parts), programs and number of fluxes. An
action of the model is a whole handler that runs fluxes and elements from within, so the invariant is
stated of any four states of fluxes, barriers, onces and call stack (`Sound`), with a flux `h` that is
about to be continued and a barrier `d` at which someone is about to arrive. The share of a flux is
what it owes, its flag, and the barriers, onces, observers and loops that wait for it, and one more if
it is `h`: at most 1, 0 once it has ended, and at least 1 before that, unless a nested MSAsync took it
(`Shared`). A barrier counts the open branches, those its loop has yet to start and the arrival `d`
(`Counted`); a flux is on the call stack once if its flag is set, and not otherwise (`Flagged`);
nobody waits twice for the same once (`Queues`). There is a lemma for each small step (a turn, an
element, a new flux, a barrier, an arrival, an end) and each action is a few of them in a row. A call
of `continue` that nobody owes ends the promise, not the types. Proved: `FluxesContinueOnce`
(OneContinuation).

**Foundation_proofs** holds two parts that share no state. *Dates*, for every year from 1 on:
`DateRoundTrip` and `DayRoundTrip` (the two conversions are inverse to each other and meet exactly
the dates of the calendar), `CastAlwaysAgrees` (CastAgrees) and `CalendarAlwaysAgrees`
(CalendarAgrees: the day of the year, the weeks, the months added, set and counted, and the years,
days and days of the year set, with the exception of day 366). A day number
is split into its century, the year in the century and the day in the year, counted from March, and
this day into month and day; for either split there is a lemma in each direction. For the second
property a day is counted from New Year: the calendar's sum of the lengths of the months, a
recursive function, is shown equal to a table; the first Monday of the weeks of a year is within 3
days of New Year, so the week is a quotient by 7; and a month begins after every earlier one has
ended, so the months between two dates are the last number of months that does not lead beyond the
second.

*Locks*, for any threads, conditions and number of calls: a thread at a place where
it should hold the mutex holds it, as long as the history is `Right`, on each platform. That no wake
is lost needs no mutual exclusion: the second invariant, `Wake`, has the count of waiters of the
Windows XP form equal to the number of threads that sleep there. Proved: `MutualExclusion`
(OneHolder), `ConditionFound` (ConditionMet), `NobodyOversleeps` (NoLostWakeup).

Assumptions: those stated with the constants (disjoint sets, NULL outside of them, finite
bounds on the operations, calls and sizes, hashes that are natural numbers, in Promise a stack with
room for one activation of each handler; for `ListsAreSequences`, finitely many cells), nothing else.

Only model-checked: all liveness (`UnionSettles`, `StartedEnds`, `FluxesTerminate`, `RequestEnds`,
`EndsDelivered`, `Served`), which is out of reach of the provers. Every invariant and action property
of the passing runs and both refinements are proved.

## 6. Findings

- `promise_dropped`: a handler that is the only one left behind a handler that returns a promise is
  freed without a call (`MSPromise.m:130` tests the handler after the next). The test
  `promise_chain` of `msnode_promise_validate.m` asserts that it runs.
Seen while modelling, without a run of its own. The first are conditions in the properties, which
say that the named way is the only one:

- `corrupt` in Promise: a promise returned by the last handler of a list attaches the list's
  sentinel to it; two firing promises that return each other never end (`CalledAtMostOnce`).
- A union whose first promise is settled before the construction closes over it alone
  (`PrematureOnlyByFirst` in `WellCounted`).
- The transaction flag does not notice that the database rolled back by itself; the commands that
  follow are executed for good and `cancel` cannot undo them (`rolledBack` in `AllOrNothing`).
- The removal of double slashes doubles a slash at the end of a url, and leaves two where "./" stood
  before a slash ("/.//b"); the removal of "./" takes the dot at the end of a name too ("/a./b"
  becomes "/ab"). The comment (`MSHttpRouter.m:46`) names the removal of both (`OnlyLastDoubled`).
- A dictionary whose keys are natural numbers is copied up to the key 0, or, without that key, for
  ever (`MSCDictionary.c:268`; `CopyEqual`).
- `CArrayReplaceObjectsInRange` releases before it retains, `CArrayRemoveObject` compares with an
  object it has released, and `CArrayAddArray(self, self)` reads the zone that was reallocated
  (`Counted`).
- `mtx_trylock` of unix answers success when the mutex is busy and keeps it when it answers busy
  (`MSStdThreads-unix.c:76`), which `tryLock` and the forms with a time limit pass on;
  `lockWhenCondition:beforeDate:` unlocks the mutex of another thread when its limit passes, and
  asks for the mutex it holds when the condition is another (`NSLock.m:215-227`; `OneHolder`).
- An observer that calls the notification center waits for itself on unix (`NoWaitCycle`), also one
  that connects a connection, because it posts; on Windows one that is removed while it is told has
  its entry read after it was freed (`ObserversLive`). The center retains neither the names nor the
  senders it keeps (`NSNotificationCenter.m:48-49`).
- `releaseConnection:` does not look whether the connection is idle already (`twice` in `OneUser`);
  `disconnect` of the SQLite adaptor keeps its own reference when the database cannot be closed
  (`MSSQLiteConnection.m:90-98`).
- On Windows XP, the last waiter may reset the event after the next broadcast set it (`late`).
- A nested MSAsync continues itself and never the flux it is part of; the thread hangs (`Hung`).
- `Tcp`: the third reference made by `initWithStream:` is given back by nobody, so a connection is
  never deallocated; `_shutdown_cb` frees a stream that was not closed; closing a server shuts a
  listening socket down, which is never done, since libuv waits for it to be writable
  (`stream.c:1188`), so that later connections are accepted and given to nil; an error of a write is reported to nobody.
- `then:` on a settled promise returns the handler's result and not the promise (`MSPromise.m:165`).
- `abort` before `start` hands uninitialised memory to `uv_cancel` (`MSAsyncTask.m:93`; `undefined`).
- `appendSQLCommand:error:` on a transaction that has ended asks nil, whose 0 reads as success
  (`MSDBTransaction.m:15`).
- `CSortedArrayAddObject` inserts an object larger than all others before the last one
  (`MSCArray.c:601`).
- `CDateSetDayOfYear` refuses day 366 of leap years and accepts 367, the first day of the next year
  (`MSCDate.c:552`; the exception of `CalendarAgrees`); `CDateSetWeek` changes the date
  before it finds the week out of range.
- `mtx_timedlock` compares the nanoseconds apart from the seconds and may miss its limit;
  `NSCondition`'s `waitUntilDate:` locks its own mutex again (`NSLock.m:127-131`).
- The stack of the router has 16 places and no check (`MSHttpRouter.m:96`); `end` and `error` of a
  request both run the receive-end handlers (`MSHttpTransaction.mm:27`).
- `MSHttpRouter.h:4` calls the transaction autoreleased; only the end of the response releases it.
- `fetchWithRequest:` and `openTransaction` do not connect, although `MSDBConnection.h:53` says
  that every new operation does.

## 7. Not modelled

- *MSNodeWorker*: unused, and its thread waits on copies of a mutex and a condition, which POSIX
  leaves undefined.
- *Strings, buffers, numbers, codecs, ciphers, bindings*: sequential conversions of data that unit
  tests reach well; the incremental decoders of MSTE and JSON are candidates for algorithms.
- *Other adaptors*: they share the base classes of `MSDb_src` and differ in calls of the client
  library; the SQLCipher adaptor stands for them.
- *MSNet, MHServer, MHMessenger*: the former server, superseded by MSNode; large.
- *Vendored and generated code*: of the repository's C, 76 710 lines are the generated tables of
  `MSCore_unicode/UnicodeData.c.h`, and SQLite's header, MAPM and `deps` (but for msstdlib) are
  vendored. Most of the code that is modelled is Objective-C (`.m`, `.mm`).
- In the modelled components: the contexts of MSAsync, the reading of a request, request
  building and encodings, the read buffers of TCP, an exhausted memory (`uv_getaddrinfo` then fails at
  once, `MSTcp.m:337`, and the handler is never called); result sets that fail to be made;
  descriptions, sub-arrays, copies of items and
  sorted arrays; time zones and dates before year 1; the start of threads.

## 8. Plan

Done: the lists and their abstraction, promises and unions, tasks, connections, MSAsync, HTTP,
TCP, dictionaries and arrays with the map they implement, dates, locks and conditions, the
connection pool and the notification center; proofs for
lists with the sequences they implement, promises, unions, tasks, connections, the pool and the center, containers with their map, responses, routes, TCP,
dates and locks.

Next, in this order:

1. `Session`: the life of an HTTP session with its timer, on top of HttpRouter.
2. `FormParser`: the receive-end handlers that run on `end` and on `error`.
3. An abstract promise (a state and, for each handler, whether it was called) that Promise
   implements as long as nothing is misused.
