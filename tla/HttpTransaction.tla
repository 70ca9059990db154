-------------------------- MODULE HttpTransaction --------------------------
(***************************************************************************)
(* The response side of MSHttpTransaction (MSNode_src/MSHttpTransaction.mm)*)
(* and node's ServerResponse, which is external.  Each method of the       *)
(* transaction is an operator that gives the set of transactions it may    *)
(* leave: a write handler of the user may accept (YES), defer (NO), or     *)
(* call the same methods itself, before it returns.                        *)
(***************************************************************************)
EXTENDS Naturals, Sequences, FiniteSets, FiniteSetsExt

CONSTANT NULL

HEAD         == 0
HEAD_HANDLER == 1
DATA         == 2
DATA_HANDLER == 3
END          == 4

Ok == 200
NotFound == 404

Statuses == {Ok, NotFound}

ASSUME TransactionAssumption == NULL \notin Statuses

(* state: _state; refs: the references to the transaction; pooled: those   *)
(* the autorelease pool gives back at the end of the turn.                 *)
(* Of the response: head is the status that was sent, ends how often it    *)
(* was ended.  The rest is history: the status asked first, whether a      *)
(* write-head handler took the head over (it deferred it, or wrote itself),*)
(* and whether the response was used against node's rules.                 *)
NewTransaction ==
  [state |-> HEAD, refs |-> 1, pooled |-> 0,
   head |-> NULL, ends |-> 0,
   asked |-> NULL, taken |-> FALSE, refused |-> FALSE]

-----------------------------------------------------------------------------
(* node: writeHead throws once headers are sent; write and end send a head *)
(* of their own (200) when there is none; nothing may follow end.          *)
NodeWriteHead(t, status) ==
  [t EXCEPT !.head = status, !.refused = @ \/ t.head # NULL \/ t.ends > 0]

NodeWrite(t) ==
  [t EXCEPT !.head = IF @ = NULL THEN Ok ELSE @,
            !.refused = @ \/ t.ends > 0]

NodeEnd(t) ==
  [t EXCEPT !.head = IF @ = NULL THEN Ok ELSE @,
            !.ends = @ + 1,
            !.refused = @ \/ t.ends > 0]

-----------------------------------------------------------------------------
SendHead(t, status) ==
  IF t.state = HEAD_HANDLER
  THEN [NodeWriteHead(t, status) EXCEPT !.state = DATA]
  ELSE t

(* What writeEnd does to a response that is not ended: end it, and give    *)
(* back the reference of the creation.                                     *)
Ended(t) == [NodeEnd(t) EXCEPT !.state = END, !.pooled = @ + 1]

(* The write-data handlers, run once, with the first chunk: all say YES;   *)
(* or one keeps it (NO).  From within, writeHead: does nothing any more,   *)
(* writeData: writes at once and writeEnd ends, so that what is then said  *)
(* of the first chunk makes no difference.                                 *)
DataHandlers(t) ==
  LET u == [t EXCEPT !.state = DATA_HANDLER] IN
  { u, NodeWrite(u), Ended(u), Ended(NodeWrite(u)) }

(* The write-head handlers, run once: all say YES; or one takes the head   *)
(* over, says NO, or calls writeHead: itself, with any status, which is    *)
(* sent instead, or writeData: or writeEnd, with that head or with none.   *)
HeadHandlers(t, status) ==
  LET u == [t EXCEPT !.state = HEAD_HANDLER]
      v == [u EXCEPT !.taken = TRUE]
      heads == { v } \cup { SendHead(v, s) : s \in Statuses }
  IN  { SendHead(u, status) } \cup heads \cup UNION { DataHandlers(h) : h \in heads }

(* writeHead:.  A head that was deferred is sent by the next call. *)
WriteHead(t, status) ==
  LET u == [t EXCEPT !.asked = IF @ = NULL THEN status ELSE @] IN
  IF t.state < HEAD_HANDLER THEN HeadHandlers(u, status) ELSE { SendHead(u, status) }

(* Each method but setValue: begins so. *)
AfterHead(t) == IF t.state < HEAD_HANDLER THEN WriteHead(t, Ok) ELSE {t}

(* writeData: with a chunk.  Only the first one goes through the handlers; *)
(* a head that is still deferred is lost.                                  *)
WriteData(t) ==
  UNION { IF u.state < DATA_HANDLER THEN DataHandlers(u)
          ELSE IF u.state = DATA_HANDLER THEN { NodeWrite(u) } ELSE { u }
          : u \in AfterHead(t) }

\* Faulty form: an ended transaction ends again.
WriteEndAgain(t) == { Ended(u) : u \in AfterHead(t) }

(* writeEnd, and writeFile: (whose stream writes and ends the response     *)
(* instead): once.                                                         *)
WriteEnd(t) == { IF u.state < END THEN Ended(u) ELSE u : u \in AfterHead(t) }

(* write: and its variants, redirect:. *)
Write(t, status) ==
  UNION { UNION { WriteEnd(v) : v \in WriteData(u) } : u \in WriteHead(t, status) }

(* The callback of node returns: its autorelease pool is drained. *)
Drained(t) == [t EXCEPT !.refs = @ - t.pooled, !.pooled = 0]
=============================================================================
