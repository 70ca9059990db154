------------------------- MODULE NotificationCenter -------------------------
(***************************************************************************)
(* NSNotificationCenter.m: a list of observers under one mutex, which is   *)
(* held while observers are told of a notification.  Observers are not     *)
(* retained: one that is deallocated removes itself before.  What is asked *)
(* of the sender is the same as what is asked of the name and left out.    *)
(***************************************************************************)
EXTENDS Integers, Sequences, SequencesExt, Lists

CONSTANTS
  Threads, None,
  Observers,
  Names,       \* the names of notifications
  AnyName,         \* no name is asked for
  Entries,     \* bound: the memory of the list
  MaxDepth,    \* bound: the calls a thread is in at a time
  MaxWork      \* bound: the calls that are made

ASSUME CenterAssumption ==
  /\ None \notin Threads \cup Observers \cup Entries
  /\ AnyName \notin Names
  /\ MaxDepth \in Nat /\ MaxWork \in Nat

VARIABLES
  platform, owner, depth,   \* of _mtx: see StdThreads
  list,        \* _observers: the entries, from the last that was added
  entry,       \* what an entry asks for: [observer, name]
  frames,      \* the calls a thread is in, the innermost at the end
  gone,        \* the observers that were deallocated
  freedUnder,  \* which thread stood on an entry, and which one freed it
  work         \* how many calls were made

mutex == <<owner, depth>>
centerVars == <<platform, mutex, list, entry, frames, gone, freedUnder, work>>

Mutex == INSTANCE StdThreads WITH corrupt <- FALSE, waiters <- 0, event <- FALSE

(* A call: of what, with which observer or connection, and with which name *)
(* or AnyName.  It "waits" for the mutex, then goes on "inside"; a post    *)
(* stands on an entry, whose observer is "told" of it.                     *)
Frame(what, with, name) ==
  [what |-> what, with |-> with, name |-> name, stage |-> "waits", at |-> None]

CenterCalls == {"add", "remove", "leave", "post"}

Top(t) == Last(frames[t])
In(t, whats, stage) ==
  frames[t] # <<>> /\ Top(t).what \in whats /\ Top(t).stage = stage

(* A thread runs code of the program: its own, or that of an observer. *)
Free(t) == frames[t] # <<>> => Top(t).stage = "told"

Called(t, frame) == frames' = [frames EXCEPT ![t] = Append(@, frame)]
Returned(t) == frames' = [frames EXCEPT ![t] = Front(@)]
GoesOn(t, stage, at) ==
  frames' = [frames EXCEPT ![t][Len(frames[t])] = [@ EXCEPT !.stage = stage, !.at = at]]

(* Bounds: the calls in all, and inside of each other. *)
Begins(t) ==
  /\ Free(t) /\ freedUnder = {} /\ Len(frames[t]) < MaxDepth /\ work < MaxWork
  /\ work' = work + 1

Watching(e, o, name) ==
  entry[e].observer = o /\ (name = AnyName \/ entry[e].name = name)

Hears(e, name) == entry[e].name \in {AnyName, name}

(* The entry behind e, or the first one of those that hear of name.  The   *)
(* loop reads o->next of the entry it stands on.                           *)
NextFrom(i, name) ==
  LET later == {j \in DOMAIN list : j > i /\ Hears(list[j], name)} IN
  IF later = {} THEN None
  ELSE list[CHOOSE j \in later : \A k \in later : j <= k]
Position(e) == IF e = None THEN 0 ELSE CHOOSE i \in DOMAIN list : list[i] = e

(* The entries a thread stands on in its posts. *)
StandsOn(t) == {f.at : f \in ToSet(frames[t])} \ {None}

CenterInit ==
  /\ Mutex!InitStd /\ platform # "xp"
  /\ list = <<>>
  /\ entry = [e \in Entries |-> [observer |-> None, name |-> AnyName]]
  /\ frames = [t \in Threads |-> <<>>]
  /\ gone = {} /\ freedUnder = {} /\ work = 0

-----------------------------------------------------------------------------
(* A call with o is under way. *)
Calling(o) == \E t \in Threads : \E f \in ToSet(frames[t]) : f.with = o
Leaving(o) == \E t \in Threads : \E f \in ToSet(frames[t]) : f.what = "leave" /\ f.with = o

(* addObserver:selector:name:object:, removeObserver:name:object: and      *)
(* postNotification: are called; and the removeObserver: of a dealloc, of  *)
(* an observer nobody is about to pass any more.                           *)
CallsCenter(t) ==
  /\ Begins(t)
  /\ \/ \E o \in Observers \ gone, n \in Names \cup {AnyName}, what \in {"add", "remove"} :
          ~Leaving(o) /\ Called(t, Frame(what, o, n))
     \/ \E o \in Observers \ gone : ~Calling(o) /\ Called(t, Frame("leave", o, AnyName))
     \/ \E n \in Names : Called(t, Frame("post", None, n))
  /\ UNCHANGED <<platform, mutex, list, entry, gone, freedUnder>>

(* mtx_lock returns. *)
Locks(t) ==
  /\ In(t, CenterCalls, "waits")
  /\ Mutex!Lock(t)
  /\ GoesOn(t, "inside", IF Top(t).what = "post" THEN NextFrom(0, Top(t).name) ELSE None)
  /\ UNCHANGED <<platform, list, entry, gone, freedUnder, work>>

(* The rest of addObserver:. *)
Adds(t) ==
  /\ In(t, {"add"}, "inside")
  /\ \E e \in Entries \ ToSet(list) :
       /\ list' = <<e>> \o list
       /\ entry' = [entry EXCEPT ![e] = [observer |-> Top(t).with, name |-> Top(t).name]]
  /\ Mutex!Unlock(t)
  /\ Returned(t)
  /\ UNCHANGED <<platform, gone, freedUnder, work>>

\* Faulty form: the loop ends with the first entry it frees.
RemovesFirst(t) ==
  /\ In(t, {"remove", "leave"}, "inside")
  /\ LET o == Top(t).with
         removed == {e \in ToSet(list) : Watching(e, o, Top(t).name)}
         first == {e \in removed : \A f \in removed : Position(e) <= Position(f)}
     IN  /\ list' = WithoutAll(list, first)
         /\ freedUnder' = freedUnder \cup
              {<<u, t>> : u \in {u \in Threads : StandsOn(u) \cap first # {}}}
         /\ gone' = IF Top(t).what = "leave" THEN gone \cup {o} ELSE gone
  /\ Mutex!Unlock(t)
  /\ Returned(t)
  /\ UNCHANGED <<platform, entry, work>>

(* The rest of removeObserver:name:object:, which looks at every entry.    *)
(* What it frees may be what a post stands on.  A dealloc goes on to its   *)
(* end.                                                                    *)
Removes(t) ==
  /\ In(t, {"remove", "leave"}, "inside")
  /\ LET o == Top(t).with
         removed == {e \in ToSet(list) : Watching(e, o, Top(t).name)}
     IN  /\ list' = WithoutAll(list, removed)
         /\ freedUnder' = freedUnder \cup
              {<<u, t>> : u \in {u \in Threads : StandsOn(u) \cap removed # {}}}
         /\ gone' = IF Top(t).what = "leave" THEN gone \cup {o} ELSE gone
  /\ Mutex!Unlock(t)
  /\ Returned(t)
  /\ UNCHANGED <<platform, entry, work>>

(* A post tells an observer, who returns. *)
Tells(t) ==
  /\ In(t, {"post"}, "inside") /\ Top(t).at # None
  /\ GoesOn(t, "told", Top(t).at)
  /\ UNCHANGED <<platform, mutex, list, entry, gone, freedUnder, work>>

ObserverReturns(t) ==
  /\ In(t, {"post"}, "told") /\ freedUnder = {}
  /\ GoesOn(t, "inside", NextFrom(Position(Top(t).at), Top(t).name))
  /\ UNCHANGED <<platform, mutex, list, entry, gone, freedUnder, work>>

PostEnds(t) ==
  /\ In(t, {"post"}, "inside") /\ Top(t).at = None
  /\ Mutex!Unlock(t)
  /\ Returned(t)
  /\ UNCHANGED <<platform, list, entry, gone, freedUnder, work>>

CenterStep(t) ==
  \/ CallsCenter(t) \/ Locks(t) \/ Adds(t) \/ Removes(t)
  \/ Tells(t) \/ ObserverReturns(t) \/ PostEnds(t)

-----------------------------------------------------------------------------
(* However threads add, remove and post at a time, nobody reads a freed    *)
(* entry or calls an observer that is deallocated, but for an observer     *)
(* that is removed while it is told, by its own thread, where mutexes are  *)
(* recursive.                                                              *)
ObserversLive ==
  /\ \A p \in freedUnder : p[1] = p[2] /\ Mutex!Windows
  /\ freedUnder = {} =>
       /\ \A e \in ToSet(list) : entry[e].observer \notin gone
       /\ \A t \in Threads : StandsOn(t) \subseteq ToSet(list)
=============================================================================
