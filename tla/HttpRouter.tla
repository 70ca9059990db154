----------------------------- MODULE HttpRouter -----------------------------
(***************************************************************************)
(* The routing of one HTTP transaction (MSNode_src/MSHttpRouter.m) through *)
(* a tree of routes and middlewares, on the event loop.                    *)
(*                                                                         *)
(* A middleware that is given a transaction either answers it or passes it *)
(* on with nextRoute, at once or from a later callback.  nextRoute called  *)
(* at once runs inside the middleware, which continues after it: nothing   *)
(* keeps it from using a transaction it has passed on already.             *)
(***************************************************************************)
EXTENDS Integers, SequencesExt, HttpTransaction

CONSTANTS
  Routes, Root,   \* the routes and the one routing starts with
  Path,           \* Path[r]: _path, a sequence of characters
  Methods,        \* Methods[r]: the methods in _method
  Target,         \* Target[r]: r has _target and _sel
  Children,       \* Children[r]: _routes
  Height,         \* Height[r]: the levels of routes below r
  Characters,     \* what urls and paths are made of
  Requests,       \* the requests: [method, url]
  MaxMisuse       \* bounds the calls by middlewares that have had their turn

ASSUME RouteAssumption ==
  /\ Root \in Routes /\ NULL \notin Routes
  /\ Children \in [Routes -> Seq(Routes)] /\ Height \in [Routes -> Nat]
  /\ \A r \in Routes : \A i \in DOMAIN Children[r] : Height[Children[r][i]] < Height[r]
  /\ Path \in [Routes -> Seq(Characters)]
  /\ {"/", "."} \subseteq Characters
  /\ \A q \in Requests : q.url \in Seq(Characters)
  /\ Target \in [Routes -> BOOLEAN]

VARIABLES
  request,     \* the request
  url,         \* _url
  stack,       \* _stack: the routes that matched, each with its index
  pos,         \* _urlPos
  phase,       \* "new", "routing" (in nextRoute), or "user"
  calls,       \* the middlewares in whose onTransaction: the thread is
  tr,          \* the transaction
  charge,      \* the middleware whose turn it is, NULL when there is none
  applied,     \* history: the middlewares that got the transaction, in order
  misuse,      \* history: calls by a middleware out of its turn
  undefined    \* the transaction was used after its release

vars == <<request, url, stack, pos, phase, calls, tr, charge, applied, misuse, undefined>>

Freed == tr.refs = 0

-----------------------------------------------------------------------------
(* initWithTransaction: "fast removal of ./ and //".  A slash at the end   *)
(* is copied twice; so is a dot.  tail[i] is what becomes of s from i on.  *)
Behind(s, i) == {j \in i + 1 .. Len(s) : s[j] # "/"}

(* The character u, read before k. *)
Copied(s, u, k, tail) ==
  IF u # "." THEN <<u>> \o tail[k]
  ELSE IF k > Len(s) THEN <<".", ".">>
  ELSE IF s[k] = "/" THEN tail[k + 1]
  ELSE <<".", s[k]>> \o tail[k + 1]

Cleaned(s, i, tail) ==
  IF i > Len(s) THEN <<>>
  ELSE IF s[i] # "/" THEN Copied(s, s[i], i + 1, tail)
  ELSE IF Behind(s, i) = {} THEN <<"/", "/">>
  ELSE <<"/">> \o Copied(s, s[Min(Behind(s, i))], Min(Behind(s, i)) + 1, tail)

Normalized(s) ==
  LET tail[i \in 1 .. Len(s) + 1] == Cleaned(s, i, tail) IN tail[1]

RouteUrl == SubSeq(url, pos + 1, Len(url))

(* isPathPrefixOf: a prefix that ends where a segment does. *)
IsPathPrefixOf(r, path) ==
  /\ IsPrefix(Path[r], path)
  /\ Path[r] # <<>> /\ Path[r] # path => path[Len(Path[r]) + 1] = "/"

(* tryWithPath:forTransaction:. *)
Matches(method, r, path) == method \in Methods[r] /\ IsPathPrefixOf(r, path)

Init ==
  /\ request \in Requests
  /\ url = Normalized(request.url)
  /\ stack = <<>>
  /\ pos = 0
  /\ phase = "new"
  /\ calls = <<>>
  /\ tr = NewTransaction
  /\ charge = NULL
  /\ applied = <<>>
  /\ misuse = 0
  /\ undefined = FALSE

-----------------------------------------------------------------------------
(* tryWithRoute:, when r matches: push it and apply it.  A route without a *)
(* target passes the transaction on at once.                               *)
Push(st, r) ==
  /\ stack' = Append(st, [route |-> r, index |-> 0])
  /\ pos' = pos + Len(Path[r])
  /\ \/ /\ Target[r]
        /\ phase' = "user"
        /\ calls' = Append(calls, r)
        /\ charge' = r
        /\ applied' = Append(applied, r)
     \/ /\ ~Target[r]
        /\ phase' = "routing"
        /\ UNCHANGED <<calls, charge, applied>>
  /\ UNCHANGED tr

\* Faulty form: when nothing matches, nothing is written.
NoRouteSilent ==
  /\ phase' = "user"
  /\ charge' = NULL
  /\ UNCHANGED <<stack, pos, calls, applied, tr>>

(* Nothing matches: 404. *)
NoRoute ==
  /\ tr' \in Write(tr, NotFound)
  /\ phase' = "user"
  /\ charge' = NULL
  /\ UNCHANGED <<stack, pos, calls, applied>>

(* startRoutingTransaction:, from the request event of the server. *)
Start ==
  /\ phase = "new"
  /\ IF Matches(request.method, Root, url) THEN Push(<<>>, Root) ELSE NoRoute
  /\ UNCHANGED <<request, url, misuse, undefined>>

Current == Last(stack)
CurrentLength == Len(Path[Current.route])

(* nextRouteForTransaction:, step by step: leave a route whose children    *)
(* have all been tried ...                                                 *)
Pop ==
  /\ phase = "routing" /\ stack # <<>>
  /\ Current.index = Len(Children[Current.route])
  /\ stack' = Front(stack)
  /\ pos' = pos - CurrentLength
  /\ UNCHANGED <<request, url, phase, calls, tr, charge, applied, misuse, undefined>>

\* Faulty form: the index moves on only when the child does not match.
TryChildAgain ==
  /\ phase = "routing" /\ stack # <<>>
  /\ Current.index < Len(Children[Current.route])
  /\ LET i == Current.index + 1
         r == Children[Current.route][i]
     IN
     IF Matches(request.method, r, RouteUrl)
     THEN Push(stack, r)
     ELSE /\ stack' = Append(Front(stack), [Current EXCEPT !.index = i])
          /\ UNCHANGED <<pos, phase, calls, charge, applied, tr>>
  /\ UNCHANGED <<request, url, misuse, undefined>>

(* ... try the next child ... *)
TryChild ==
  /\ phase = "routing" /\ stack # <<>>
  /\ Current.index < Len(Children[Current.route])
  /\ LET i == Current.index + 1
         r == Children[Current.route][i]
         advanced == Append(Front(stack), [Current EXCEPT !.index = i])
     IN
     \/ /\ Matches(request.method, r, RouteUrl)
        /\ Push(advanced, r)
     \/ /\ ~Matches(request.method, r, RouteUrl)
        /\ stack' = advanced
        /\ UNCHANGED <<pos, phase, calls, charge, applied, tr>>
  /\ UNCHANGED <<request, url, misuse, undefined>>

(* ... until there is none. *)
Exhausted ==
  /\ phase = "routing" /\ stack = <<>>
  /\ NoRoute
  /\ UNCHANGED <<request, url, misuse, undefined>>

-----------------------------------------------------------------------------
(* A middleware acts in its onTransaction:, or in a later callback.        *)
Acts(r) ==
  /\ phase = "user" /\ ~undefined
  /\ calls # <<>> => Last(calls) = r
  /\ r \in ToSet(applied)

(* It is its turn, or else it counts as misuse. *)
Turn(r) ==
  /\ charge # r => misuse < MaxMisuse
  /\ misuse' = IF charge = r THEN misuse ELSE misuse + 1

UseAfterFree ==
  /\ Freed
  /\ undefined' = TRUE
  /\ UNCHANGED <<stack, pos, phase, calls, tr, charge, applied>>

(* [tr nextRoute]. *)
NextRoute(r) ==
  /\ Acts(r) /\ Turn(r)
  /\ \/ UseAfterFree
     \/ /\ ~Freed
        /\ phase' = "routing"
        /\ charge' = NULL
        /\ UNCHANGED <<stack, pos, calls, tr, applied, undefined>>
  /\ UNCHANGED <<request, url>>

(* One of the methods that write the response. *)
Respond(r) ==
  /\ Acts(r) /\ Turn(r)
  /\ \/ UseAfterFree
     \/ /\ ~Freed
        /\ tr' \in Write(tr, Ok) \cup WriteHead(tr, NotFound) \cup WriteData(tr) \cup WriteEnd(tr)
        /\ charge' = IF charge = r /\ tr'.state = END THEN NULL ELSE charge
        /\ UNCHANGED <<stack, pos, phase, calls, applied, undefined>>
  /\ UNCHANGED <<request, url>>

(* onTransaction: returns. *)
Return ==
  /\ phase = "user" /\ calls # <<>>
  /\ calls' = Front(calls)
  /\ UNCHANGED <<request, url, stack, pos, phase, tr, charge, applied, misuse, undefined>>

(* The callback of node comes to its end: the bridge (MSNodeWrapper.mm,    *)
(* nodejs_callback_fct) makes a pool before it and frees the pool after.   *)
DrainPool ==
  /\ phase = "user" /\ calls = <<>> /\ tr.pooled > 0
  /\ tr' = Drained(tr)
  /\ UNCHANGED <<request, url, stack, pos, phase, calls, charge, applied, misuse, undefined>>

Routing == Start \/ Pop \/ TryChild \/ Exhausted

Next ==
  \/ Routing \/ Return \/ DrainPool
  \/ \E r \in Routes : NextRoute(r) \/ Respond(r)

(* The thread runs; the middleware whose turn it is passes the transaction *)
(* on, or ends the response, in the end.                                   *)
Answers(r) == charge = r /\ (NextRoute(r) \/ (Respond(r) /\ charge' = NULL))

Fairness ==
  /\ WF_vars(Routing) /\ WF_vars(Return) /\ WF_vars(DrainPool)
  /\ SF_vars(\E r \in Routes : Answers(r))

Spec == Init /\ [][Next]_vars /\ Fairness

-----------------------------------------------------------------------------
TypeOK ==
  /\ request \in Requests
  /\ \A i \in DOMAIN stack :
       stack[i].route \in Routes /\ stack[i].index \in 0 .. Len(Children[stack[i].route])
  /\ phase \in {"new", "routing", "user"}
  /\ tr.state \in HEAD .. END /\ tr.refs \in Int /\ tr.pooled \in Nat
  /\ charge \in Routes \cup {NULL}
  /\ ToSet(calls) \cup ToSet(applied) \subseteq Routes

(* urlRouted is what the paths of the routes on the stack spell, however   *)
(* often nextRoute is called and by whom: the rest of the url that a       *)
(* middleware sees is the one below its route.                             *)
PositionFollowsStack ==
  SubSeq(url, 1, pos) = FlattenSeq([i \in DOMAIN stack |-> Path[stack[i].route]])

(* The removal of "//" leaves at most the one at the end of the url, which *)
(* it makes itself of a single slash; and those where "./" stood before a  *)
(* slash, because a dot and its slash are removed alone.                   *)
OnlyLastDoubled ==
  \/ \E i \in 1 .. Len(request.url) - 2 : SubSeq(request.url, i, i + 2) = <<".", "/", "/">>
  \/ \A i \in 1 .. Len(url) - 2 : ~(url[i] = "/" /\ url[i + 1] = "/")

(* The middlewares that match, in the order of a walk through the tree:    *)
(* those a route visits, when those its children visit are known.          *)
VisitsBy(q, u, below) ==
  [r \in Routes |-> [p \in 0 .. Len(u) |->
    IF ~Matches(q.method, r, SubSeq(u, p + 1, Len(u))) THEN <<>>
    ELSE (IF Target[r] THEN <<r>> ELSE <<>>)
         \o FlattenSeq([i \in DOMAIN Children[r] |-> below[Children[r][i]][p + Len(Path[r])]])]]

Visits(q, u) ==
  LET walk[d \in 0 .. Height[Root] + 1] ==
        IF d = 0 THEN [r \in Routes |-> [p \in 0 .. Len(u) |-> <<>>]]
        ELSE VisitsBy(q, u, walk[d - 1])
  IN  walk[Height[Root] + 1][Root][0]

Expected == Visits(request, url)

(* The transaction visits these middlewares, each once and in this order,  *)
(* whoever passes it on and when, and finds its position in the url there; *)
(* when nobody answers it gets a 404 after the last of them, not before.   *)
VisitsInOrder ==
  /\ TypeOK /\ OnlyLastDoubled /\ PositionFollowsStack
  /\ IsPrefix(applied, Expected)
  /\ (misuse = 0 /\ phase = "user" /\ charge = NULL /\ tr.asked = NotFound /\ stack = <<>>)
       => applied = Expected

(* Whatever middlewares and write handlers do, node's response is used as  *)
(* node wants it: one head, nothing after the end; the status that was     *)
(* asked first is sent, unless a write-head handler deferred the head or   *)
(* wrote the response itself.  The transaction is released once, and used  *)
(* after that only by a middleware that has had its turn already.          *)
OneResponse ==
  /\ ~tr.refused /\ tr.ends <= 1
  /\ tr.head # NULL /\ ~tr.taken => tr.head = tr.asked
  /\ tr.refs - tr.pooled = IF tr.state = END THEN 0 ELSE 1
  /\ undefined => misuse > 0

(* Every request is answered and its transaction released.                 *)
RequestEnds == <>(tr.ends = 1 /\ Freed)
=============================================================================
