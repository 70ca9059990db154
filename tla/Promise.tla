------------------------------ MODULE Promise ------------------------------
(***************************************************************************)
(* MSPromise (MSNode_src/MSPromise.m).  Promises live on the node thread;  *)
(* what makes them hard is re-entrance: firing the handlers of one promise *)
(* runs user code that may add handlers to any promise, settle any promise *)
(* (which fires it at once, inside the running handler) and return a       *)
(* promise, which takes over the handlers that are left.                   *)
(*                                                                         *)
(* The call stack is explicit: each frame is an activation of              *)
(* _fireHandlers, or a handler that _addHandler calls directly because its *)
(* promise is settled already.  The lists are the sequences that           *)
(* HandlerList implements.  Values are abstracted: what a handler receives *)
(* is the outcome of the promise that fires it.                            *)
(***************************************************************************)
EXTENDS Naturals, Sequences, SequencesExt, PromiseState

CONSTANTS
  Promises,
  Handlers,    \* the handlers the program creates; bounds a behaviour
  MaxDepth     \* the activations the stack has room for, when firings nest

(* Pending is also the type of a finally handler. *)
States == Outcomes \cup {Pending}

(* The stack has room for one activation of each handler. *)
ASSUME PromiseAssumption ==
  /\ NULL \notin Promises \cup Handlers \cup States
  /\ IsFiniteSet(Handlers)
  /\ MaxDepth \in Nat /\ MaxDepth > Cardinality(Handlers)

VARIABLES
  state,       \* state[p]: _state
  listeners,   \* listeners[p]: the handlers in _listeners, in order
  type,        \* type[h]: the state h waits for; NULL until it is created
  forwards,    \* forwards[h]: the promise a resolveWithPromise handler settles, or NULL
  stack,       \* the running activations, the innermost last
  corrupt,     \* freed or foreign memory has been used: nothing further is defined
  visits,      \* history: how often firing met h (called or skipped)
  dropped,     \* history: handlers freed by a firing that never met them
  registered,  \* history: the handlers added to p while it was pending, in order
  misuse       \* history: unusual returns of handlers that have happened

vars == <<state, listeners, type, forwards, stack, corrupt,
          visits, dropped, registered, misuse>>
history == <<visits, dropped, registered, misuse>>

(* A frame.  at: the handler the enumerator stands on, NULL before the     *)
(* first.  phase: "scan" looks for the next handler, "body" is inside the  *)
(* handler at, "close" frees what is left; p is NULL in a direct call.     *)
Frame(p, at, phase) == [p |-> p, at |-> at, phase |-> phase]

Fire(p) == Frame(p, NULL, "scan")
Top == stack[Len(stack)]
Below == SubSeq(stack, 1, Len(stack) - 1)
WithTop(f) == Append(Below, f)

Firing == {stack[i].p : i \in DOMAIN stack} \ {NULL}

TypeOK ==
  /\ state \in [Promises -> States]
  /\ \A p \in Promises :
       ToSet(listeners[p]) \subseteq {h \in Handlers : type[h] # NULL}
  /\ type \in [Handlers -> States \cup {NULL}]
  /\ forwards \in [Handlers -> Promises \cup {NULL}]
  /\ \A i \in DOMAIN stack :
       /\ stack[i].p \in Promises \cup {NULL}
       /\ stack[i].at \in Handlers \cup {NULL}
       /\ stack[i].phase \in {"scan", "body", "close"}
  /\ corrupt \in BOOLEAN
  /\ dropped \subseteq Handlers
  /\ misuse \subseteq {"last", "refire"}

Init ==
  /\ state = [p \in Promises |-> Pending]
  /\ listeners = [p \in Promises |-> <<>>]
  /\ type = [h \in Handlers |-> NULL]
  /\ forwards = [h \in Handlers |-> NULL]
  /\ stack = <<>>
  /\ corrupt = FALSE
  /\ visits = [h \in Handlers |-> 0]
  /\ dropped = {}
  /\ registered = [p \in Promises |-> <<>>]
  /\ misuse = {}

-----------------------------------------------------------------------------
(* User code runs on the event loop (empty stack) or in a handler body.    *)
InBody == stack # <<>> /\ Top.phase = "body"
UserCode ==
  /\ ~corrupt
  /\ \/ stack = <<>>
     \/ InBody /\ forwards[Top.at] = NULL

\* Faulty forms: the handlers go in front of the others, or replace them.
AttachedInFront(p, hs) == hs \o listeners[p]
AttachedAlone(p, hs) == hs

(* MSHandlerAttach on _listeners: behind the handlers that wait already. *)
Attached(p, hs) == listeners[p] \o hs

Matches(t, s) == t = s \/ t = Pending

(* _addHandler (then, catch, finally): queue the handler while the promise *)
(* is pending; call it at once when the promise has the state it waits     *)
(* for; forget it otherwise.                                               *)
AddHandler(p, h, t, target) ==
  /\ type[h] = NULL
  /\ type' = [type EXCEPT ![h] = t]
  /\ forwards' = [forwards EXCEPT ![h] = target]
  /\ \/ /\ state[p] = Pending
        /\ listeners' = [listeners EXCEPT ![p] = Attached(p, <<h>>)]
        /\ registered' = [registered EXCEPT ![p] = Append(@, h)]
        /\ UNCHANGED <<stack, visits>>
     \/ /\ state[p] # Pending /\ Matches(t, state[p])
        /\ stack' = Append(stack, Frame(NULL, h, "body"))
        /\ visits' = [visits EXCEPT ![h] = @ + 1]
        /\ UNCHANGED <<listeners, registered>>
     \/ /\ state[p] # Pending /\ ~Matches(t, state[p])
        /\ UNCHANGED <<listeners, stack, registered, visits>>
  /\ UNCHANGED <<state, corrupt, dropped, misuse>>

Register(p, h, t) == UserCode /\ AddHandler(p, h, t, NULL)

(* resolve: and reject: settle a pending promise and fire its handlers;    *)
(* they have no effect on a settled one.                                   *)
Settle(p, s) ==
  /\ UserCode
  /\ state[p] = Pending
  /\ state' = [state EXCEPT ![p] = s]
  /\ stack' = Append(stack, Fire(p))
  /\ UNCHANGED <<listeners, type, forwards, corrupt, history>>

(* resolveWithPromise: q's outcome, whichever it is, will settle p.  Both  *)
(* handlers are queued while q is pending; otherwise the one that matches  *)
(* runs at once and the other is forgotten.                                *)
ResolveWith(p, q, h, g) ==
  /\ UserCode
  /\ h # g /\ type[h] = NULL /\ type[g] = NULL
  /\ type' = [type EXCEPT ![h] = Fulfilled, ![g] = Rejected]
  /\ forwards' = [forwards EXCEPT ![h] = p, ![g] = p]
  /\ IF state[q] = Pending
     THEN /\ listeners' = [listeners EXCEPT ![q] = Attached(q, <<h, g>>)]
          /\ registered' = [registered EXCEPT ![q] = @ \o <<h, g>>]
          /\ UNCHANGED <<stack, visits>>
     ELSE LET f == IF state[q] = Fulfilled THEN h ELSE g IN
          /\ stack' = Append(stack, Frame(NULL, f, "body"))
          /\ visits' = [visits EXCEPT ![f] = @ + 1]
          /\ UNCHANGED <<listeners, registered>>
  /\ UNCHANGED <<state, corrupt, dropped, misuse>>

-----------------------------------------------------------------------------
(* _fireHandlers, one step at a time. *)

Listening(p, h) == h \in ToSet(listeners[p])
Index(p, h) == CHOOSE i \in DOMAIN listeners[p] : listeners[p][i] = h

(* MSHandlerEnumeratorNext: the position after handler h. *)
NextIndex(p, h) == IF h = NULL THEN 1 ELSE Index(p, h) + 1

(* The enumerator stands on a handler that a nested firing of the same     *)
(* promise has freed.                                                      *)
Dangling(f) == f.p # NULL /\ f.at # NULL /\ ~Listening(f.p, f.at)

BecomeCorrupt ==
  /\ corrupt' = TRUE
  /\ UNCHANGED <<state, listeners, type, forwards, stack, visits, dropped, registered>>

(* Meet the next handler: call it when it matches, skip it otherwise. *)
Scan ==
  /\ ~corrupt /\ stack # <<>> /\ Top.phase = "scan"
  /\ IF Dangling(Top)
     THEN BecomeCorrupt /\ UNCHANGED misuse
     ELSE LET i == NextIndex(Top.p, Top.at)
              h == listeners[Top.p][i]
          IN
          /\ i \in DOMAIN listeners[Top.p]
          /\ visits' = [visits EXCEPT ![h] = IF @ < 2 THEN @ + 1 ELSE @]
          /\ stack' = WithTop(Frame(Top.p, h,
                        IF Matches(type[h], state[Top.p]) THEN "body" ELSE "scan"))
          /\ UNCHANGED <<state, listeners, type, forwards, corrupt, dropped, registered, misuse>>

(* The handler at the top returns.  A direct call gives its result to the  *)
(* caller of then: or catch:, who may ignore it.                           *)
Returning == ~corrupt /\ InBody /\ forwards[Top.at] = NULL

ReturnFromCall ==
  /\ Returning /\ Top.p = NULL
  /\ stack' = Below
  /\ UNCHANGED <<state, listeners, type, forwards, corrupt, history>>

(* nil, the promise itself, or the void of a finally handler. *)
ReturnNothing ==
  /\ Returning /\ Top.p # NULL
  /\ stack' = WithTop(Frame(Top.p, Top.at, "scan"))
  /\ UNCHANGED <<state, listeners, type, forwards, corrupt, history>>

(* _attach: the handlers handed over to a settled r are fired at once. *)
FireIfSettled(r, s) == IF state[r] = Pending THEN s ELSE Append(s, Fire(r))

(* A then or catch handler returns another promise r.  The code steps to   *)
(* the next handler before it asks whether "h is not the last handler":    *)
(*  - two or more handlers are left: r takes them over, and fires them     *)
(*    when it is settled (_attach).  Two firing promises can send the same *)
(*    handlers back and forth for ever: the stack overflows;               *)
(*  - one is left: it is taken for the last and stays, to be freed;        *)
(*  - none is left: the sentinel, and with it the list, is attached to r   *)
(*    and then freed.                                                      *)
ReturnPromise(r) ==
  LET p == Top.p
      l == listeners[p]
      k == Index(p, Top.at)
  IN
  /\ Returning /\ p # NULL /\ r # p /\ type[Top.at] # Pending
  /\ \/ /\ Dangling(Top)
        /\ corrupt' = TRUE
        /\ UNCHANGED <<listeners, stack, misuse>>
     \/ /\ ~Dangling(Top) /\ k + 1 < Len(l)
        /\ listeners' = [listeners EXCEPT ![p] = SubSeq(l, 1, k),
                                          ![r] = Attached(r, SubSeq(l, k + 1, Len(l)))]
        /\ stack' = FireIfSettled(r, WithTop(Frame(p, Top.at, "close")))
        /\ misuse' = IF r \in Firing THEN misuse \cup {"refire"} ELSE misuse
        /\ corrupt' = (Len(stack') > MaxDepth)
     \/ /\ ~Dangling(Top) /\ k + 1 = Len(l)
        /\ stack' = WithTop(Frame(p, Top.at, "close"))
        /\ UNCHANGED <<listeners, corrupt, misuse>>
     \/ /\ ~Dangling(Top) /\ k = Len(l)
        /\ corrupt' = TRUE
        /\ misuse' = misuse \cup {"last"}
        /\ UNCHANGED <<listeners, stack>>
  /\ UNCHANGED <<state, type, forwards, visits, dropped, registered>>

(* The body of a resolveWithPromise handler: settle its promise with the   *)
(* outcome it was called for, then return nil.                             *)
Forward ==
  LET h == Top.at
      p == forwards[h]
      rest == IF Top.p = NULL THEN Below ELSE WithTop(Frame(Top.p, h, "scan"))
  IN
  /\ ~corrupt /\ InBody /\ p # NULL
  /\ IF state[p] = Pending
     THEN /\ state' = [state EXCEPT ![p] = type[h]]
          /\ stack' = Append(rest, Fire(p))
     ELSE /\ stack' = rest
          /\ UNCHANGED state
  /\ UNCHANGED <<listeners, type, forwards, corrupt, history>>

\* Faulty form: the handlers stay in the list.
FinishKeepsList ==
  /\ ~corrupt /\ stack # <<>>
  /\ \/ Top.phase = "close"
     \/ /\ Top.phase = "scan" /\ ~Dangling(Top)
        /\ NextIndex(Top.p, Top.at) > Len(listeners[Top.p])
  /\ stack' = Below
  /\ UNCHANGED <<state, listeners, type, forwards, corrupt, history>>

(* Every handler that is still in the list is detached and freed. *)
Finish ==
  /\ ~corrupt /\ stack # <<>>
  /\ \/ Top.phase = "close"
     \/ /\ Top.phase = "scan" /\ ~Dangling(Top)
        /\ NextIndex(Top.p, Top.at) > Len(listeners[Top.p])
  /\ dropped' = dropped \cup {h \in ToSet(listeners[Top.p]) : visits[h] = 0}
  /\ listeners' = [listeners EXCEPT ![Top.p] = <<>>]
  /\ stack' = Below
  /\ UNCHANGED <<state, type, forwards, corrupt, visits, registered, misuse>>

Next ==
  \/ \E p \in Promises, h \in Handlers, t \in States : Register(p, h, t)
  \/ \E p \in Promises, s \in {Fulfilled, Rejected} : Settle(p, s)
  \/ \E p, q \in Promises, h, g \in Handlers : ResolveWith(p, q, h, g)
  \/ Scan
  \/ ReturnFromCall
  \/ ReturnNothing
  \/ \E r \in Promises : ReturnPromise(r)
  \/ Forward
  \/ Finish

Spec == Init /\ [][Next]_vars

-----------------------------------------------------------------------------
(* A handler is called at most once, unless a promise that was firing has  *)
(* been fired again; memory is used after its release only when that       *)
(* happened, or when a handler returned a promise as the last of its list. *)
CalledAtMostOnce ==
  /\ \A h \in Handlers : visits[h] > 1 => "refire" \in misuse
  /\ corrupt => misuse # {}

(* Handlers of one promise are met in the order they were added in, even   *)
(* when a returned promise took some of them over.                         *)
Passed(h) == visits[h] > 0 \/ h \in dropped
MetInOrder ==
  \A p \in Promises : \A i, j \in DOMAIN registered[p] :
    i < j /\ visits[registered[p][j]] > 0 => Passed(registered[p][i])

(* A handler queued on a promise is in exactly one list until it has been  *)
(* met: it cannot get lost or duplicated between two promises.             *)
QueuedOnce ==
  \A p \in Promises : \A h \in ToSet(registered[p]) :
    ~corrupt /\ ~Passed(h) =>
      \E q \in Promises :
        /\ Listening(q, h)
        /\ \A i, j \in DOMAIN listeners[q] : listeners[q][i] = h /\ listeners[q][j] = h => i = j
        /\ \A x \in Promises \ {q} : ~Listening(x, h)

(* Promises that fire hold no handlers afterwards: whenever the event loop *)
(* is back, what is left in a list waits for a pending promise.            *)
SettledHoldNothing ==
  stack = <<>> /\ ~corrupt => \A p \in Promises : state[p] # Pending => listeners[p] = <<>>

(* The lists of handlers, in the midst of a firing and after it.           *)
ListsConsistent == TypeOK /\ QueuedOnce /\ SettledHoldNothing

(* What the test promise_chain (MSNode_tst/msnode_promise_validate.m:107)  *)
(* asserts: the handlers behind one that returns a promise follow it.      *)
NoHandlerDropped == dropped = {}
=============================================================================
