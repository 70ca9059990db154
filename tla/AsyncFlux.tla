----------------------------- MODULE AsyncFlux -----------------------------
(***************************************************************************)
(* MSAsync (MSFoundation_src/MSAsync.m): sequences of asynchronous         *)
(* actions.  A flux holds a stack of elements; continue runs the next one. *)
(* An action owes its flux one continue, which it may call itself, before  *)
(* it returns, or leave to anyone later.  While, if, parallel, once and    *)
(* nested elements are built on continue.                                  *)
(*                                                                         *)
(* One thread runs all of it: what makes it hard is that continue is       *)
(* called from within the actions it runs.  The field _stack turns such a  *)
(* call into one more turn of the loop that is running already.  The call  *)
(* stack is explicit here.  Contexts are data and left out.                *)
(***************************************************************************)
EXTENDS Integers, Sequences, FiniteSets, SequencesExt

CONSTANTS
  Elements,    \* the elements, those inside of others too
  Programs,    \* the sequences of elements that the program runs
  OnceKeys,    \* the once elements: they keep a state of their own
  NULL,        \* nil, also the absence of a then
  MaxRoots,    \* bounds how many times a program is started
  MaxTurns,    \* bounds how often the conditions of while elements hold
  MaxSpurious  \* bounds the calls of continue that nobody owes

ASSUME AsyncAssumption ==
  /\ MaxRoots \in Nat /\ MaxTurns \in Nat /\ MaxSpurious \in Nat
  /\ IsFiniteSet(OnceKeys)
  /\ Programs \subseteq Seq(Elements)
  /\ \A e \in Elements :
       /\ e.parts \in Seq(Seq(Elements))
       /\ e.kind \in {"while", "if", "once", "nested"} => e.parts # <<>>
       /\ e.kind = "if" => Len(e.parts) = 2
       /\ e.kind = "once" => e.key \in OnceKeys

(* An element: parts are the sequences it runs; key is that of a once.     *)
Element(k, parts, key) == [kind |-> k, parts |-> parts, key |-> key]

Started    == "Started"
Finishing  == "Finishing"
Terminated == "Terminated"

VARIABLES
  flux,        \* the fluxes, in order of creation
  barriers,    \* the parallel barriers: whom they continue, and _barrier
  once,        \* once[k]: _obs, _done
  stack,       \* the running activations, the innermost last
  turns,       \* how often a while condition held
  spurious     \* history: the calls of continue that nobody owed

vars == <<flux, barriers, once, stack, turns, spurious>>

(* then: NULL, a barrier, a once, or itself (__callContinue).  flag is     *)
(* _stack; owed counts the continues that actions of the flux still owe.   *)
NewFlux(elements, then) ==
  [elements |-> elements, then |-> then, flag |-> 0, state |-> Started, owed |-> 0]

NoThen == [kind |-> "none", at |-> NULL]
ToBarrier(b) == [kind |-> "barrier", at |-> b]
ToOnce(k) == [kind |-> "once", at |-> k]
ToSelf == [kind |-> "self", at |-> NULL]

(* Frames of the call stack: continue, before or after it has run what is  *)
(* next; the loop of a parallel element over its branches; the loop of a   *)
(* once over its observers; the code of an action.                         *)
Loop(f) == [kind |-> "loop", f |-> f, at |-> NULL, rest |-> <<>>]
After(f) == [Loop(f) EXCEPT !.kind = "after"]
Branches(b, rest) == [kind |-> "branches", f |-> NULL, at |-> b, rest |-> rest]
Observers(rest) == [kind |-> "observers", f |-> NULL, at |-> NULL, rest |-> rest]
User(f) == [Loop(f) EXCEPT !.kind = "user"]

Top == Last(stack)
Below == Front(stack)
TopIs(k) == stack # <<>> /\ Top.kind = k

Init ==
  /\ flux = <<>>
  /\ barriers = <<>>
  /\ once = [k \in OnceKeys |-> [obs |-> <<>>, started |-> FALSE, done |-> FALSE]]
  /\ stack = <<>>
  /\ turns = 0
  /\ spurious = 0

-----------------------------------------------------------------------------
(* continue on f, called with the fluxes fx and the call stack st: a loop  *)
(* that runs takes another turn, or else one begins.                       *)
Continue(f, fx, st) ==
  \/ /\ fx[f].flag = 1
     /\ flux' = [fx EXCEPT ![f].flag = 2]
     /\ stack' = st
  \/ /\ fx[f].flag # 1
     /\ flux' = [fx EXCEPT ![f].flag = 1]
     /\ stack' = Append(st, Loop(f))

(* setFirstElements: the elements come before those that are left. *)
SetFirst(f, elements, fx) == [fx EXCEPT ![f].elements = @ \o Reverse(elements)]

(* runFluxWithContext:elements:then: and continue. *)
RunFlux(elements, then, fx, st) ==
  Continue(Len(fx) + 1, Append(fx, NewFlux(Reverse(elements), then)), st)

-----------------------------------------------------------------------------
(* The elements: what action: does for flux f.  fx is flux without the     *)
(* element, and st the stack with f in its loop.                           *)

Action(f, fx, st) ==
  /\ flux' = [fx EXCEPT ![f].owed = @ + 1]
  /\ stack' = Append(st, User(f))
  /\ UNCHANGED <<barriers, once, turns>>

While(e, f, fx, st) ==
  /\ \/ /\ turns < MaxTurns
        /\ turns' = turns + 1
        /\ Continue(f, SetFirst(f, e.parts[1], SetFirst(f, <<e>>, fx)), st)
     \/ /\ Continue(f, fx, st)
        /\ UNCHANGED turns
  /\ UNCHANGED <<barriers, once>>

If(e, f, fx, st) ==
  /\ \E i \in {1, 2} : Continue(f, SetFirst(f, e.parts[i], fx), st)
  /\ UNCHANGED <<barriers, once, turns>>

(* The barrier counts the branches and the loop that starts them. *)
Parallel(e, f, fx, st) ==
  /\ barriers' = Append(barriers, [f |-> f, count |-> Len(e.parts) + 1])
  /\ flux' = fx
  /\ stack' = Append(st, Branches(Len(barriers) + 1, e.parts))
  /\ UNCHANGED <<once, turns>>

\* Faulty form: those who come while the elements run are forgotten.
OnceForgets(e, f, fx, st) ==
  /\ \/ /\ once[e.key].done
        /\ Continue(f, fx, st)
        /\ UNCHANGED once
     \/ /\ ~once[e.key].started
        /\ once' = [once EXCEPT ![e.key].started = TRUE, ![e.key].obs = <<f>>]
        /\ RunFlux(e.parts[1], ToOnce(e.key), fx, st)
     \/ /\ once[e.key].started /\ ~once[e.key].done
        /\ flux' = fx /\ stack' = st
        /\ UNCHANGED once
  /\ UNCHANGED <<barriers, turns>>

(* The first that comes runs the elements in a flux of their own; those    *)
(* that come before they are done wait; others go on at once.              *)
Once(e, f, fx, st) ==
  /\ \/ /\ once[e.key].done
        /\ Continue(f, fx, st)
        /\ UNCHANGED once
     \/ /\ ~once[e.key].started
        /\ once' = [once EXCEPT ![e.key].started = TRUE, ![e.key].obs = <<f>>]
        /\ RunFlux(e.parts[1], ToOnce(e.key), fx, st)
     \/ /\ once[e.key].started /\ ~once[e.key].done
        /\ once' = [once EXCEPT ![e.key].obs = Append(@, f)]
        /\ flux' = fx /\ stack' = st
  /\ UNCHANGED <<barriers, turns>>

(* An MSAsync as an element: its flux gets __callContinue as then, whose   *)
(* argument is that flux, not f.                                           *)
Nested(e, f, fx, st) ==
  /\ RunFlux(e.parts[1], ToSelf, fx, st)
  /\ UNCHANGED <<barriers, once, turns>>

RunElement(e, f, fx, st) ==
  \/ e.kind = "action"   /\ Action(f, fx, st)
  \/ e.kind = "while"    /\ While(e, f, fx, st)
  \/ e.kind = "if"       /\ If(e, f, fx, st)
  \/ e.kind = "parallel" /\ Parallel(e, f, fx, st)
  \/ e.kind = "once"     /\ Once(e, f, fx, st)
  \/ e.kind = "nested"   /\ Nested(e, f, fx, st)

(* The action of a barrier: only the arrival that brings it to 0 goes on.  *)
(* Beyond that it wraps around, which a negative count stands for.         *)
Arrive(b, fx, st) ==
  /\ barriers' = [barriers EXCEPT ![b].count = @ - 1]
  /\ IF barriers[b].count = 1
     THEN Continue(barriers[b].f, fx, st)
     ELSE flux' = fx /\ stack' = st

RunThen(then, f, fx, st) ==
  \/ /\ then.kind = "none"
     /\ flux' = fx /\ stack' = st
     /\ UNCHANGED <<barriers, once, turns>>
  \/ /\ then.kind = "barrier"
     /\ Arrive(then.at, fx, st)
     /\ UNCHANGED <<once, turns>>
  \/ /\ then.kind = "once"
     /\ once' = [once EXCEPT ![then.at].done = TRUE, ![then.at].obs = <<>>]
     /\ stack' = Append(st, Observers(once[then.at].obs))
     /\ flux' = fx
     /\ UNCHANGED <<barriers, turns>>
  \/ /\ then.kind = "self"
     /\ Continue(f, fx, st)
     /\ UNCHANGED <<barriers, once, turns>>

-----------------------------------------------------------------------------
(* The loop of continue: run the last element; when there is none, run     *)
(* _then, each time (the test of the state for this is always true).       *)
RunNext ==
  /\ TopIs("loop")
  /\ LET f == Top.f
         left == flux[f].elements
         st == Append(Below, After(f))
     IN
     \/ /\ flux[f].state # Terminated /\ left # <<>>
        /\ RunElement(Last(left), f,
             [flux EXCEPT ![f].elements = Front(left),
                          ![f].state = IF Len(left) = 1 THEN Finishing ELSE @], st)
     \/ /\ flux[f].state = Terminated \/ left = <<>>
        /\ RunThen(flux[f].then, f, [flux EXCEPT ![f].state = Terminated], st)
  /\ UNCHANGED spurious

(* while (_stack == 2). *)
EndTurn ==
  /\ TopIs("after")
  /\ LET f == Top.f IN
     \/ /\ flux[f].flag = 2
        /\ flux' = [flux EXCEPT ![f].flag = 1]
        /\ stack' = Append(Below, Loop(f))
     \/ /\ flux[f].flag # 2
        /\ flux' = [flux EXCEPT ![f].flag = 0]
        /\ stack' = Below
  /\ UNCHANGED <<barriers, once, turns, spurious>>

(* The loop of a parallel element; after it, the element arrives itself. *)
StartBranch ==
  /\ TopIs("branches")
  /\ \/ /\ Top.rest # <<>>
        /\ RunFlux(Head(Top.rest), ToBarrier(Top.at), flux,
                   Append(Below, Branches(Top.at, Tail(Top.rest))))
        /\ UNCHANGED barriers
     \/ /\ Top.rest = <<>>
        /\ Arrive(Top.at, flux, Below)
  /\ UNCHANGED <<once, turns, spurious>>

\* Faulty form: only the first observer is told.
TellFirst ==
  /\ TopIs("observers")
  /\ \/ /\ Top.rest # <<>>
        /\ Continue(Head(Top.rest), flux, Append(Below, Observers(<<>>)))
     \/ /\ Top.rest = <<>>
        /\ stack' = Below
        /\ UNCHANGED flux
  /\ UNCHANGED <<barriers, once, turns, spurious>>

(* The loop of _MSAsyncElementOnce_Then. *)
TellObserver ==
  /\ TopIs("observers")
  /\ \/ /\ Top.rest # <<>>
        /\ Continue(Head(Top.rest), flux, Append(Below, Observers(Tail(Top.rest))))
     \/ /\ Top.rest = <<>>
        /\ stack' = Below
        /\ UNCHANGED flux
  /\ UNCHANGED <<barriers, once, turns, spurious>>

-----------------------------------------------------------------------------
(* The program, on its event loop or in an action. *)
UserCode == stack = <<>> \/ TopIs("user")

(* continue of an MSAsync, or runWithContext:elements:. *)
Start(elements) ==
  /\ stack = <<>>
  /\ Cardinality({f \in DOMAIN flux : flux[f].then = NoThen}) < MaxRoots
  /\ RunFlux(elements, NoThen, flux, stack)
  /\ UNCHANGED <<barriers, once, turns, spurious>>

ContinueOwed(f) ==
  /\ UserCode
  /\ f \in DOMAIN flux /\ flux[f].owed > 0
  /\ Continue(f, [flux EXCEPT ![f].owed = @ - 1], stack)
  /\ UNCHANGED <<barriers, once, turns, spurious>>

ContinueSpurious(f) ==
  /\ UserCode
  /\ f \in DOMAIN flux /\ flux[f].owed = 0
  /\ spurious < MaxSpurious
  /\ spurious' = spurious + 1
  /\ Continue(f, flux, stack)
  /\ UNCHANGED <<barriers, once, turns>>

UserReturns ==
  /\ TopIs("user")
  /\ stack' = Below
  /\ UNCHANGED <<flux, barriers, once, turns, spurious>>

Running == RunNext \/ EndTurn \/ StartBranch \/ TellObserver \/ UserReturns

Next ==
  \/ Running
  \/ \E p \in Programs : Start(p)
  \/ \E f \in DOMAIN flux : ContinueOwed(f) \/ ContinueSpurious(f)

(* The thread runs, and each action gives the continue it owes. *)
Fairness ==
  /\ WF_vars(Running)
  /\ WF_vars(\E f \in DOMAIN flux : ContinueOwed(f))

Spec == Init /\ [][Next]_vars /\ Fairness

-----------------------------------------------------------------------------
Fluxes == DOMAIN flux
Frames(k, f) == {i \in DOMAIN stack : stack[i].kind = k /\ stack[i].f = f}

TypeOK ==
  /\ \A f \in Fluxes :
       /\ flux[f].state \in {Started, Finishing, Terminated}
       /\ flux[f].flag \in 0..2 /\ flux[f].owed \in Nat
  /\ \A b \in DOMAIN barriers : barriers[b].f \in Fluxes /\ barriers[b].count \in Int
  /\ \A k \in OnceKeys : ToSet(once[k].obs) \subseteq Fluxes
  /\ \A i \in DOMAIN stack : stack[i].f \in Fluxes \cup {NULL}
  /\ turns \in 0..MaxTurns /\ spurious \in 0..MaxSpurious

(* continue does not recurse: a flux has at most one loop on the call      *)
(* stack, and _stack says so; the stack does not grow with the number of   *)
(* actions that call continue before they return.                          *)
LoopsDoNotNest ==
  spurious = 0 =>
    \A f \in Fluxes :
      Cardinality(Frames("loop", f) \cup Frames("after", f))
        = IF flux[f].flag = 0 THEN 0 ELSE 1

(* A barrier counts the branches that have not terminated and the loop     *)
(* that starts them: what follows a parallel element runs when all of its  *)
(* branches have ended and not before.                                     *)
BarriersCount ==
  \A b \in DOMAIN barriers :
    LET starting == {i \in DOMAIN stack : stack[i].kind = "branches" /\ stack[i].at = b}
        open == {f \in Fluxes : flux[f].then = ToBarrier(b) /\ flux[f].state # Terminated}
        left == IF starting = {} THEN 0 ELSE 1 + Len(stack[CHOOSE i \in starting : TRUE].rest)
    IN  barriers[b].count = Cardinality(open) + left

(* What will continue f: an action that owes it, a barrier, a once that is *)
(* running or telling its observers, a loop that is about to take a turn.  *)
Continuations(f) ==
  flux[f].owed
  + Cardinality({b \in DOMAIN barriers : barriers[b].f = f /\ barriers[b].count > 0})
  + Cardinality({k \in OnceKeys : f \in ToSet(once[k].obs)})
  + Cardinality({i \in DOMAIN stack :
      stack[i].kind = "observers" /\ f \in ToSet(stack[i].rest)})
  + Cardinality(Frames("loop", f))
  + (IF flux[f].flag = 2 THEN 1 ELSE 0)

(* A flux that is not terminated has exactly one continuation, so that it  *)
(* neither stops half way nor runs two actions at a time; a terminated one *)
(* has none and cannot run its then again.  A nested MSAsync has no way to *)
(* continue the flux it is an element of.  And it does not recurse.        *)
OneContinuation ==
  /\ TypeOK
  /\ LoopsDoNotNest
  /\ spurious = 0 =>
       /\ BarriersCount
       /\ (\A f \in Fluxes : flux[f].then # ToSelf) =>
            \A f \in Fluxes : Continuations(f) = IF flux[f].state = Terminated THEN 0 ELSE 1

(* The thread never returns from a nested MSAsync. *)
Hung == \E f \in Fluxes : flux[f].then = ToSelf /\ flux[f].state = Terminated

(* Every flux that was started comes to its end when actions give their    *)
(* continues, even if someone gives one too many, unless a nested MSAsync  *)
(* hangs the thread.                                                       *)
FluxesTerminate ==
  []<>(Hung \/ \A f \in Fluxes : flux[f].state = Terminated)
=============================================================================
