-------------------------- MODULE Network_proofs ---------------------------
(***************************************************************************)
(* Proofs about HttpRouter, for any routes, requests and middlewares, and  *)
(* about Tcp, for any connections, writes and bounds.                      *)
(***************************************************************************)
EXTENDS HttpRouter, Tcp, Lists_proofs

MaybeStatus == Statuses \cup {NULL}

TransactionType ==
  [state : HEAD .. END, refs : Int, pooled : Nat, head : MaybeStatus,
   ends : Nat, asked : MaybeStatus, taken : BOOLEAN, refused : BOOLEAN]

(* A head is sent in HEAD_HANDLER only, and one that was deferred may be   *)
(* lost; node ends the response when the transaction is ended, which gives *)
(* the reference back at the end of the turn.                              *)
Ordinary(t) ==
  /\ t \in TransactionType
  /\ ~t.refused
  /\ t.ends = IF t.state = END THEN 1 ELSE 0
  /\ IF t.state = END THEN t.refs = t.pooled /\ t.pooled \in {0, 1} ELSE t.refs = 1 /\ t.pooled = 0
  /\ t.state = HEAD => t.head = NULL /\ t.asked = NULL /\ ~t.taken
  /\ t.state = HEAD_HANDLER => t.head = NULL
  /\ t.state # HEAD /\ t.head = NULL => t.taken
  /\ t.head # NULL /\ ~t.taken => t.head = t.asked

(* A transaction that is ended is nobody's, unless someone acted out of    *)
(* turn.                                                                   *)
HttpInv ==
  /\ Ordinary(tr)
  /\ misuse \in Nat
  /\ misuse = 0 /\ tr.state = END => charge = NULL /\ phase = "user"
  /\ undefined => misuse > 0

-----------------------------------------------------------------------------
LEMMA StatesApart ==
  /\ HEAD .. END = {HEAD, HEAD_HANDLER, DATA, DATA_HANDLER, END}
  /\ HEAD < HEAD_HANDLER /\ HEAD_HANDLER < DATA /\ DATA < DATA_HANDLER /\ DATA_HANDLER < END
  /\ \A s \in HEAD .. END : (s < HEAD_HANDLER <=> s = HEAD) /\ (s < END <=> s # END)
                            /\ (s < DATA_HANDLER <=> s \in {HEAD, HEAD_HANDLER, DATA})
BY DEF HEAD, HEAD_HANDLER, DATA, DATA_HANDLER, END

(* A head that node accepts. *)
LEMMA NodeHead ==
  ASSUME NEW v, v.refused = FALSE, v.head = NULL, v.ends = 0, NEW status
  PROVE  NodeWriteHead(v, status) = [v EXCEPT !.head = status, !.refused = FALSE]
<1>1. (v.refused \/ v.head # NULL \/ v.ends > 0) = FALSE
  OBVIOUS
<1> QED BY <1>1, Zenon DEF NodeWriteHead

(* What a write-head handler is called with, and what it may have deferred.*)
Unsent(v) ==
  /\ v \in TransactionType
  /\ v.state = HEAD_HANDLER /\ v.head = NULL /\ v.refused = FALSE /\ v.ends = 0
  /\ v.refs = 1 /\ v.pooled = 0

LEMMA SendOrdinary ==
  ASSUME NEW v, Unsent(v), NEW status \in Statuses, v.taken \/ v.asked = status
  PROVE  Ordinary(SendHead(v, status)) /\ SendHead(v, status).state = DATA
<1> USE TransactionAssumption
<1>0. /\ v \in TransactionType
      /\ v.state = HEAD_HANDLER /\ v.head = NULL /\ v.refused = FALSE /\ v.ends = 0
      /\ v.refs = 1 /\ v.pooled = 0
  BY DEF Unsent
<1>1. PICK u : u = SendHead(v, status)
  OBVIOUS
<1>2. PICK w : w = [v EXCEPT !.head = status, !.refused = FALSE]
  OBVIOUS
<1>3. NodeWriteHead(v, status) = w
  BY <1>0, <1>2, NodeHead
<1>4. u = [w EXCEPT !.state = DATA]
  BY <1>0, <1>1, <1>3 DEF SendHead
<1>5. u \in TransactionType
  <2>1. status \in MaybeStatus /\ DATA \in HEAD .. END
    BY StatesApart DEF MaybeStatus
  <2> QED BY ONLY <1>0, <1>2, <1>4, <2>1 DEF TransactionType
<1>6. /\ u.state = DATA /\ u.head = status /\ u.refused = FALSE /\ u.ends = 0
      /\ u.refs = 1 /\ u.pooled = 0 /\ u.asked = v.asked /\ u.taken = v.taken
  BY <1>0, <1>2, <1>4 DEF TransactionType
<1>7. status # NULL
  OBVIOUS
<1>8. Ordinary(u)
  BY <1>5, <1>6, <1>7, StatesApart DEF Ordinary
<1> QED BY <1>1, <1>6, <1>8

(* node's write and end, on a response that is not ended. *)
LEMMA NodeWrites ==
  ASSUME NEW v, Ordinary(v), v.state \notin {HEAD, HEAD_HANDLER, END}
  PROVE  Ordinary(NodeWrite(v)) /\ NodeWrite(v).state = v.state
<1> USE TransactionAssumption
<1>1. v \in TransactionType /\ v.refused = FALSE /\ v.ends = 0
  BY DEF Ordinary, TransactionType
<1>2. PICK h : h = IF v.head = NULL THEN Ok ELSE v.head
  OBVIOUS
<1>4. PICK w : w = [v EXCEPT !.head = h, !.refused = FALSE]
  OBVIOUS
<1>5. NodeWrite(v) = w
  <2>1. (v.refused \/ v.ends > 0) = FALSE
    BY <1>1
  <2> QED BY <1>2, <1>4, <2>1, Zenon DEF NodeWrite
<1>6. h \in MaybeStatus /\ h # NULL
  BY <1>1, <1>2 DEF TransactionType, MaybeStatus, Statuses
<1>7. w \in TransactionType
  BY ONLY <1>1, <1>4, <1>6 DEF TransactionType
<1>8. /\ w.state = v.state /\ w.refs = v.refs /\ w.pooled = v.pooled /\ w.head = h
      /\ w.ends = v.ends /\ w.asked = v.asked /\ w.taken = v.taken /\ w.refused = FALSE
  BY <1>1, <1>4 DEF TransactionType
<1>9. Ordinary(w)
  BY <1>2, <1>6, <1>7, <1>8 DEF Ordinary
<1> QED BY <1>5, <1>8, <1>9

LEMMA NodeEnds ==
  ASSUME NEW v, Ordinary(v), v.state \notin {HEAD, END}
  PROVE  Ordinary(Ended(v)) /\ Ended(v).state = END
<1> USE TransactionAssumption
<1>0. PICK w : w = Ended(v)
  OBVIOUS
<1>1. v \in TransactionType /\ v.refused = FALSE /\ v.ends = 0 /\ v.refs = 1 /\ v.pooled = 0
  BY DEF Ordinary, TransactionType
<1>2. PICK h : h = IF v.head = NULL THEN Ok ELSE v.head
  OBVIOUS
<1>3. PICK x : x = [v EXCEPT !.head = h, !.ends = 1, !.refused = FALSE]
  OBVIOUS
<1>4. NodeEnd(v) = x
  <2>1. (v.refused \/ v.ends > 0) = FALSE
    BY <1>1
  <2>2. v.ends + 1 = 1
    BY <1>1
  <2> QED BY <1>2, <1>3, <2>1, <2>2, Zenon DEF NodeEnd
<1>5. h \in MaybeStatus /\ h # NULL
  BY <1>1, <1>2 DEF TransactionType, MaybeStatus, Statuses
<1>6. x \in TransactionType
  <2>1. 1 \in Nat
    OBVIOUS
  <2> QED BY ONLY <1>1, <1>3, <1>5, <2>1 DEF TransactionType
<1>7. w = [x EXCEPT !.state = END, !.pooled = 1]
  <2>1. x.pooled + 1 = 1
    BY <1>1, <1>3 DEF TransactionType
  <2>2. w = [x EXCEPT !.state = END, !.pooled = @ + 1]
    BY <1>0, <1>4 DEF Ended
  <2> QED BY ONLY <2>1, <2>2
<1>8. w \in TransactionType
  <2>1. 1 \in Nat /\ END \in HEAD .. END
    BY StatesApart
  <2> QED BY ONLY <1>6, <1>7, <2>1 DEF TransactionType
<1>9. /\ w.state = END /\ w.refs = 1 /\ w.pooled = 1 /\ w.head = h
      /\ w.ends = 1 /\ w.asked = v.asked /\ w.taken = v.taken /\ w.refused = FALSE
  <2>1. x.refs = 1 /\ x.head = h /\ x.ends = 1 /\ x.asked = v.asked /\ x.taken = v.taken
        /\ x.refused = FALSE
    BY <1>1, <1>3 DEF TransactionType
  <2>2. /\ w.state = END /\ w.refs = x.refs /\ w.pooled = 1 /\ w.head = x.head
        /\ w.ends = x.ends /\ w.asked = x.asked /\ w.taken = x.taken /\ w.refused = x.refused
    BY ONLY <1>6, <1>7 DEF TransactionType
  <2> QED BY ONLY <2>1, <2>2
<1>10. Ordinary(w)
  <2>1. ~v.taken => h = v.asked
    BY <1>2 DEF Ordinary
  <2>2. END # HEAD /\ END # HEAD_HANDLER
    BY StatesApart
  <2> QED BY ONLY <1>5, <1>8, <1>9, <2>1, <2>2 DEF Ordinary
<1> QED BY <1>0, <1>9, <1>10

(* The write-data handlers, called once the head was sent, or by a         *)
(* write-head handler that took it over.                                   *)
LEMMA HandlersOfData ==
  ASSUME NEW t, Ordinary(t), t.state \notin {HEAD, END}, NEW w \in DataHandlers(t)
  PROVE  Ordinary(w) /\ w.state # HEAD
<1>1. PICK u : u = [t EXCEPT !.state = DATA_HANDLER]
  OBVIOUS
<1>2. t \in TransactionType
  BY DEF Ordinary
<1>3. u \in TransactionType
  <2>1. DATA_HANDLER \in HEAD .. END
    BY StatesApart
  <2> QED BY ONLY <1>1, <1>2, <2>1 DEF TransactionType
<1>4. /\ u.state = DATA_HANDLER /\ u.refs = t.refs /\ u.pooled = t.pooled /\ u.head = t.head
      /\ u.ends = t.ends /\ u.asked = t.asked /\ u.taken = t.taken /\ u.refused = t.refused
  BY <1>1, <1>2 DEF TransactionType
<1>5. Ordinary(u) /\ u.state \notin {HEAD, HEAD_HANDLER, END}
  BY <1>3, <1>4, StatesApart DEF Ordinary
<1>6. Ordinary(NodeWrite(u)) /\ NodeWrite(u).state \notin {HEAD, HEAD_HANDLER, END}
  BY <1>5, NodeWrites
<1>7. /\ Ordinary(Ended(u)) /\ Ended(u).state = END
      /\ Ordinary(Ended(NodeWrite(u))) /\ Ended(NodeWrite(u)).state = END
  BY <1>5, <1>6, NodeEnds
<1>8. w \in {u, NodeWrite(u), Ended(u), Ended(NodeWrite(u))}
  BY <1>1 DEF DataHandlers
<1> QED BY <1>5, <1>6, <1>7, <1>8, StatesApart

(* writeHead:. *)
LEMMA HeadOrdinary ==
  ASSUME NEW t, Ordinary(t), NEW status \in Statuses, NEW w \in WriteHead(t, status)
  PROVE  Ordinary(w) /\ w.state # HEAD
<1> USE TransactionAssumption
<1>1. t \in TransactionType
  BY DEF Ordinary
<1>2. CASE t.state = HEAD
  <2>1. PICK u : u = [t EXCEPT !.asked = status, !.state = HEAD_HANDLER]
    OBVIOUS
  <2>2. PICK v : v = [u EXCEPT !.taken = TRUE]
    OBVIOUS
  <2>3. Unsent(u) /\ u.asked = status
    <3>1. /\ t.refused = FALSE /\ t.ends = 0 /\ t.refs = 1 /\ t.pooled = 0
          /\ t.head = NULL
      BY <1>1, <1>2, StatesApart DEF Ordinary, TransactionType
    <3>2. u \in TransactionType
      <4>1. status \in MaybeStatus /\ HEAD_HANDLER \in HEAD .. END
        BY StatesApart DEF MaybeStatus
      <4> QED BY ONLY <1>1, <2>1, <4>1 DEF TransactionType
    <3> QED BY <1>1, <2>1, <3>1, <3>2 DEF TransactionType, Unsent
  <2>4. Unsent(v) /\ v.taken = TRUE
    BY <2>2, <2>3 DEF TransactionType, Unsent
  <2>5. Ordinary(v) /\ v.state \notin {HEAD, END}
    BY <2>4, StatesApart DEF Ordinary, Unsent
  <2>6. \/ w = SendHead(u, status)
        \/ \E h \in { v } \cup { SendHead(v, s) : s \in Statuses } : w \in {h} \cup DataHandlers(h)
    <3>1. t.asked = NULL /\ t.state < HEAD_HANDLER
      BY <1>2, StatesApart DEF Ordinary
    <3>2. PICK x : x = [t EXCEPT !.asked = status]
      OBVIOUS
    <3>3. w \in HeadHandlers(x, status)
      <4>1. [t EXCEPT !.asked = IF @ = NULL THEN status ELSE @] = x
        BY ONLY <3>1, <3>2
      <4>2. WriteHead(t, status) =
              HeadHandlers([t EXCEPT !.asked = IF @ = NULL THEN status ELSE @], status)
        BY <3>1, Zenon DEF WriteHead
      <4> QED BY ONLY <4>1, <4>2, w \in WriteHead(t, status), Zenon
    <3>4. [x EXCEPT !.state = HEAD_HANDLER] = u
      BY <1>1, <2>1, <3>2 DEF TransactionType
    <3>5. [[x EXCEPT !.state = HEAD_HANDLER] EXCEPT !.taken = TRUE] = v
      BY ONLY <2>2, <3>4
    <3> QED BY ONLY <3>3, <3>4, <3>5 DEF HeadHandlers
  <2>7. CASE w = SendHead(u, status)
    BY <2>3, <2>7, SendOrdinary, StatesApart
  <2>8. ASSUME NEW h \in { v } \cup { SendHead(v, s) : s \in Statuses },
               w \in {h} \cup DataHandlers(h)
        PROVE  Ordinary(w) /\ w.state # HEAD
    <3>1. Ordinary(h) /\ h.state \notin {HEAD, END}
      BY <2>4, <2>5, SendOrdinary, StatesApart
    <3> QED BY <2>8, <3>1, HandlersOfData
  <2> QED BY <2>6, <2>7, <2>8
<1>3. CASE t.state # HEAD
  <2>1. PICK a \in MaybeStatus : a = (IF t.asked = NULL THEN status ELSE t.asked) /\ (t.asked # NULL => a = t.asked)
    BY <1>1 DEF TransactionType, MaybeStatus
  <2>2. PICK v : v = [t EXCEPT !.asked = a]
    OBVIOUS
  <2>3. w = SendHead(v, status)
    <3>1. ~(t.state < HEAD_HANDLER)
      BY <1>1, <1>3, StatesApart DEF TransactionType
    <3> QED BY <2>1, <2>2, <3>1 DEF WriteHead
  <2>4. /\ v \in TransactionType /\ v.state = t.state /\ v.asked = a /\ v.head = t.head
        /\ v.refused = t.refused /\ v.ends = t.ends /\ v.refs = t.refs /\ v.pooled = t.pooled
        /\ v.taken = t.taken
    <3>1. v \in TransactionType
      BY ONLY a \in MaybeStatus, <1>1, <2>2 DEF TransactionType
    <3> QED BY <1>1, <2>2, <3>1 DEF TransactionType
  <2>5. Ordinary(v)
    <3>1. t.head # NULL /\ ~t.taken => t.asked # NULL
      BY DEF Ordinary
    <3> QED BY <1>3, <2>1, <2>4, <3>1 DEF Ordinary
  <2>6. CASE v.state # HEAD_HANDLER
    BY <1>3, <2>3, <2>4, <2>5, <2>6 DEF SendHead
  <2>7. CASE v.state = HEAD_HANDLER
    <3>1. Unsent(v) /\ v.taken = TRUE
      BY <2>4, <2>5, <2>7, StatesApart DEF Ordinary, TransactionType, Unsent
    <3> QED BY <2>3, <3>1, SendOrdinary, StatesApart
  <2> QED BY <2>6, <2>7
<1> QED BY <1>2, <1>3

LEMMA AfterHeadOrdinary ==
  ASSUME NEW t, Ordinary(t), NEW u \in AfterHead(t)
  PROVE  Ordinary(u) /\ u.state # HEAD
<1>1. CASE t.state < HEAD_HANDLER
  <2>1. Ok \in Statuses
    BY DEF Statuses
  <2> QED BY <1>1, <2>1, HeadOrdinary DEF AfterHead
<1>2. CASE ~(t.state < HEAD_HANDLER)
  <2>1. u = t /\ t.state # HEAD
    BY <1>2, StatesApart DEF AfterHead, Ordinary, TransactionType
  <2> QED BY <2>1
<1> QED BY <1>1, <1>2

LEMMA DataOrdinary ==
  ASSUME NEW t, Ordinary(t), NEW w \in WriteData(t)
  PROVE  Ordinary(w) /\ w.state # HEAD
<1>1. PICK u \in AfterHead(t) :
        w \in IF u.state < DATA_HANDLER THEN DataHandlers(u)
              ELSE IF u.state = DATA_HANDLER THEN { NodeWrite(u) } ELSE { u }
  BY DEF WriteData
<1>2. Ordinary(u) /\ u.state # HEAD /\ u.state \in HEAD .. END
  BY AfterHeadOrdinary DEF Ordinary, TransactionType
<1>3. CASE u.state < DATA_HANDLER
  <2>1. w \in DataHandlers(u) /\ u.state \notin {HEAD, END}
    BY <1>1, <1>2, <1>3, StatesApart
  <2> QED BY <1>2, <2>1, HandlersOfData
<1>4. CASE u.state = DATA_HANDLER
  <2>1. w = NodeWrite(u) /\ u.state \notin {HEAD, HEAD_HANDLER, END}
    BY <1>1, <1>2, <1>4, StatesApart
  <2> QED BY <1>2, <2>1, NodeWrites
<1>5. CASE u.state = END
  <2>1. w = u
    BY <1>1, <1>2, <1>5, StatesApart
  <2> QED BY <1>2, <2>1
<1> QED BY <1>2, <1>3, <1>4, <1>5, StatesApart

LEMMA EndOrdinary ==
  ASSUME NEW t, Ordinary(t), NEW w \in WriteEnd(t)
  PROVE  Ordinary(w) /\ w.state = END
<1>1. PICK u \in AfterHead(t) : w = IF u.state < END THEN Ended(u) ELSE u
  BY DEF WriteEnd
<1>2. Ordinary(u) /\ u.state # HEAD /\ u.state \in HEAD .. END
  BY AfterHeadOrdinary DEF Ordinary, TransactionType
<1>3. CASE u.state = END
  BY <1>1, <1>2, <1>3, StatesApart
<1>4. CASE u.state # END
  BY <1>1, <1>2, <1>4, NodeEnds, StatesApart
<1> QED BY <1>3, <1>4

LEMMA WriteOrdinary ==
  ASSUME NEW t, Ordinary(t), NEW status \in Statuses, NEW w \in Write(t, status)
  PROVE  Ordinary(w) /\ w.state = END
<1>1. PICK u \in WriteHead(t, status) : \E v \in WriteData(u) : w \in WriteEnd(v)
  BY DEF Write
<1>2. PICK v \in WriteData(u) : w \in WriteEnd(v)
  BY <1>1
<1>3. Ordinary(u)
  BY HeadOrdinary
<1>4. Ordinary(v)
  BY <1>3, DataOrdinary
<1> QED BY <1>2, <1>4, EndOrdinary

LEMMA DrainOrdinary ==
  ASSUME NEW t, Ordinary(t), t.pooled > 0
  PROVE  Ordinary(Drained(t)) /\ Drained(t).state = t.state
<1>1. t \in TransactionType /\ t.state = END /\ t.refs = 1 /\ t.pooled = 1
  BY DEF Ordinary, TransactionType
<1>2. PICK w : w = [t EXCEPT !.refs = 0, !.pooled = 0]
  OBVIOUS
<1>3. Drained(t) = w
  <2>1. t.refs - t.pooled = 0
    BY <1>1
  <2> QED BY <1>2, <2>1, Zenon DEF Drained
<1>4. w \in TransactionType
  <2>1. 0 \in Nat /\ 0 \in Int
    OBVIOUS
  <2> QED BY ONLY <1>1, <1>2, <2>1 DEF TransactionType
<1>5. /\ w.state = END /\ w.refs = 0 /\ w.pooled = 0 /\ w.head = t.head
      /\ w.ends = t.ends /\ w.asked = t.asked /\ w.taken = t.taken /\ w.refused = t.refused
  BY <1>1, <1>2 DEF TransactionType
<1>6. Ordinary(w)
  BY <1>1, <1>4, <1>5, StatesApart DEF Ordinary
<1> QED BY <1>1, <1>3, <1>5, <1>6

-----------------------------------------------------------------------------
LEMMA HttpInit == Init => HttpInv
<1> SUFFICES ASSUME Init PROVE HttpInv
  OBVIOUS
<1>1. tr = NewTransaction /\ charge = NULL /\ misuse = 0 /\ undefined = FALSE
  BY DEF Init
<1>2. NewTransaction \in TransactionType /\ NewTransaction.state = HEAD
  BY StatesApart DEF NewTransaction, TransactionType, MaybeStatus
<1>3. Ordinary(NewTransaction)
  BY <1>2, StatesApart DEF NewTransaction, Ordinary
<1>4. HEAD # END
  BY StatesApart
<1> QED BY <1>1, <1>2, <1>3, <1>4 DEF HttpInv

LEMMA HttpStep == HttpInv /\ [Next]_vars => HttpInv'
<1> SUFFICES ASSUME HttpInv, [Next]_vars PROVE HttpInv'
  OBVIOUS
<1> USE RouteAssumption
<1>1. ASSUME NoRoute, UNCHANGED <<misuse, undefined>> PROVE HttpInv'
  <2>1. Ordinary(tr') /\ charge' = NULL /\ phase' = "user"
    BY <1>1, WriteOrdinary DEF HttpInv, NoRoute, Statuses
  <2> QED BY <1>1, <2>1 DEF HttpInv
<1>2. ASSUME NEW st, NEW r \in Routes, Push(st, r), UNCHANGED <<misuse, undefined>>,
             misuse = 0 => tr.state # END
      PROVE  HttpInv'
  BY <1>2 DEF HttpInv, Push
<1>3. CASE Start
  <2>1. UNCHANGED <<misuse, undefined>> /\ (misuse = 0 => tr.state # END)
    BY <1>3 DEF Start, HttpInv
  <2> QED BY <1>1, <1>2, <1>3, <2>1 DEF Start
<1>4. CASE Pop
  BY <1>4 DEF Pop, HttpInv
<1>5. CASE TryChild
  <2> DEFINE r == Children[Current.route][Current.index + 1]
  <2>1. UNCHANGED <<misuse, undefined>> /\ (misuse = 0 => tr.state # END)
    BY <1>5 DEF TryChild, HttpInv
  <2>2. CASE UNCHANGED <<phase, charge, tr>>
    BY <2>1, <2>2 DEF HttpInv
  <2>3. ASSUME NEW st, Push(st, r) PROVE HttpInv'
    BY <2>1, <2>3 DEF HttpInv, Push
  <2> QED BY <1>5, <2>2, <2>3 DEF TryChild
<1>6. CASE Exhausted
  BY <1>1, <1>6 DEF Exhausted
<1>7. CASE Return
  <2>1. UNCHANGED <<phase, tr, charge, misuse, undefined>>
    BY <1>7 DEF Return
  <2> QED BY <2>1 DEF HttpInv
<1>8. CASE DrainPool
  BY <1>8, DrainOrdinary DEF DrainPool, HttpInv
<1>9. ASSUME NEW r \in Routes, Turn(r), UseAfterFree PROVE HttpInv'
  <2>1. tr.state = END
    BY <1>9 DEF UseAfterFree, Freed, HttpInv, Ordinary
  <2>2. misuse' \in Nat /\ misuse' > 0
    BY <1>9, <2>1 DEF HttpInv, Turn
  <2> QED BY <1>9, <2>2 DEF HttpInv, UseAfterFree
<1>10. ASSUME NEW r \in Routes, NextRoute(r) PROVE HttpInv'
  <2>1. CASE UseAfterFree
    BY <1>9, <1>10, <2>1 DEF NextRoute
  <2>2. CASE ~UseAfterFree
    <3>1. /\ phase' = "routing" /\ charge' = NULL /\ UNCHANGED <<tr, undefined>> /\ Turn(r)
      BY <1>10, <2>2 DEF NextRoute
    <3>2. misuse' \in Nat /\ (misuse' = 0 => misuse = 0 /\ charge = r) /\ (misuse > 0 => misuse' > 0)
      BY <3>1 DEF Turn, HttpInv
    <3> QED BY <3>1, <3>2 DEF HttpInv
  <2> QED BY <2>1, <2>2
<1>11. ASSUME NEW r \in Routes, Respond(r) PROVE HttpInv'
  <2>1. CASE UseAfterFree
    BY <1>9, <1>11, <2>1 DEF Respond
  <2>2. CASE ~UseAfterFree
    <3>1. /\ tr' \in Write(tr, Ok) \cup WriteHead(tr, NotFound) \cup WriteData(tr) \cup WriteEnd(tr)
          /\ charge' = IF charge = r /\ tr'.state = END THEN NULL ELSE charge
          /\ UNCHANGED <<phase, undefined>> /\ Turn(r) /\ phase = "user"
      BY <1>11, <2>2 DEF Respond, Acts
    <3>2. misuse' \in Nat /\ (misuse' = 0 => misuse = 0 /\ charge = r) /\ (misuse > 0 => misuse' > 0)
      BY <3>1 DEF Turn, HttpInv
    <3>3. Ordinary(tr')
      BY <3>1, WriteOrdinary, HeadOrdinary, DataOrdinary, EndOrdinary DEF HttpInv, Statuses
    <3> QED BY <3>1, <3>2, <3>3 DEF HttpInv
  <2> QED BY <2>1, <2>2
<1>12. CASE UNCHANGED vars
  BY <1>12 DEF vars, HttpInv
<1> QED BY <1>3, <1>4, <1>5, <1>6, <1>7, <1>8, <1>10, <1>11, <1>12 DEF Next, Routing

(* Whatever middlewares and write handlers do, and in whichever order:     *)
(* node gets one head and nothing after the end of a response, the status  *)
(* it sends is the one asked first, unless a write-head handler deferred   *)
(* the head or wrote the response itself, and the transaction is released  *)
(* once, for those that act in their turn not before they are done with it.*)
THEOREM AnsweredOnce == Spec => []OneResponse
<1>1. HttpInv => OneResponse
  <2> SUFFICES ASSUME HttpInv PROVE OneResponse
    OBVIOUS
  <2>1. tr.ends <= 1 /\ tr.refs - tr.pooled = IF tr.state = END THEN 0 ELSE 1
    BY DEF HttpInv, Ordinary
  <2> QED BY <2>1 DEF HttpInv, Ordinary, OneResponse
<1> QED BY <1>1, HttpInit, HttpStep, PTL DEF Spec

-----------------------------------------------------------------------------
(* The order of the routes: the url, without the slashes that are doubled. *)
(* What becomes of a url *)
Dotted(s) == \E i \in 1 .. Len(s) - 2 : SubSeq(s, i, i + 2) = <<".", "/", "/">>
Apart(t) == \A i \in 1 .. Len(t) - 2 : ~(t[i] = "/" /\ t[i + 1] = "/")
Slashed(t) == t # <<>> /\ t[1] = "/"
CleanAt(s, i, t) ==
  /\ t \in Seq(Characters)
  /\ ~Dotted(s) => /\ Apart(t)
                   /\ Slashed(t) => i <= Len(s) /\ s[i] = "/"

LEMMA OneMore ==
  ASSUME NEW u \in Characters, NEW t \in Seq(Characters)
  PROVE  /\ <<u>> \o t \in Seq(Characters)
         /\ Slashed(<<u>> \o t) <=> u = "/"
         /\ Apart(t) /\ ~(u = "/" /\ Slashed(t)) => Apart(<<u>> \o t)
<1> DEFINE v == <<u>> \o t
<1>1. <<u>> \in Seq(Characters) /\ Len(<<u>>) = 1 /\ <<u>>[1] = u
  OBVIOUS
<1>2. Len(t) \in Nat
  OBVIOUS
<1>3. /\ v \in Seq(Characters) /\ Len(v) = 1 + Len(t)
      /\ \A i \in 1 .. 1 + Len(t) : v[i] = IF i <= 1 THEN <<u>>[i] ELSE t[i - 1]
  BY <1>1, ConcatProperties
<1> HIDE DEF v
<1>4. v[1] = u /\ \A i \in 1 .. Len(t) : v[i + 1] = t[i]
  BY <1>1, <1>2, <1>3
<1>5. Slashed(v) <=> u = "/"
  <2>1. v # <<>>
    BY <1>2, <1>3
  <2> QED BY <2>1, <1>4 DEF Slashed
<1>6. ASSUME Apart(t), ~(u = "/" /\ Slashed(t)) PROVE Apart(v)
  <2> SUFFICES ASSUME NEW i \in 1 .. Len(v) - 2, v[i] = "/", v[i + 1] = "/" PROVE FALSE
    BY DEF Apart
  <2>1. CASE i = 1
    <3>1. u = "/" /\ t[1] = "/" /\ t # <<>>
      BY <1>2, <1>3, <1>4, <2>1
    <3> QED BY <3>1, <1>6 DEF Slashed
  <2>2. CASE i # 1
    <3>1. i - 1 \in 1 .. Len(t) - 2 /\ (i - 1) + 1 = i
      BY <1>2, <1>3, <2>2
    <3>2. v[i] = t[i - 1] /\ v[i + 1] = t[i]
      <4>1. i - 1 \in 1 .. Len(t) /\ i \in 1 .. Len(t)
        BY <1>2, <1>3, <3>1
      <4> QED BY <1>4, <3>1, <4>1
    <3> QED BY <1>6, <3>1, <3>2 DEF Apart
  <2> QED BY <2>1, <2>2
<1> QED BY <1>3, <1>5, <1>6 DEF v

LEMMA TwoMore ==
  ASSUME NEW u \in Characters, NEW w \in Characters, NEW t \in Seq(Characters)
  PROVE  <<u, w>> \o t = <<u>> \o (<<w>> \o t)
<1>1. /\ <<u>> \in Seq(Characters) /\ <<w>> \in Seq(Characters) /\ <<u, w>> \in Seq(Characters)
      /\ Len(<<u>>) = 1 /\ Len(<<w>>) = 1 /\ Len(<<u, w>>) = 2
  OBVIOUS
<1>2. /\ <<u>> \o <<w>> \in Seq(Characters) /\ Len(<<u>> \o <<w>>) = 2
      /\ \A i \in 1 .. 2 : (<<u>> \o <<w>>)[i] = IF i <= 1 THEN <<u>>[i] ELSE <<w>>[i - 1]
  BY <1>1, ConcatProperties
<1>3. \A i \in 1 .. 2 : (<<u>> \o <<w>>)[i] = <<u, w>>[i]
  BY <1>2
<1>4. <<u, w>> = <<u>> \o <<w>>
  BY <1>1, <1>2, <1>3, SeqEqual
<1> QED BY <1>1, <1>4, ConcatAssociative

(* The characters behind a slash. *)
LEMMA BehindSome ==
  ASSUME NEW s \in Seq(Characters), NEW i \in 1 .. Len(s), Behind(s, i) # {}
  PROVE  /\ Min(Behind(s, i)) \in i + 1 .. Len(s) /\ s[Min(Behind(s, i))] # "/"
<1>1. Behind(s, i) \subseteq Nat /\ Len(s) \in Nat
  BY DEF Behind
<1>2. \E m \in Behind(s, i) : \A k \in Behind(s, i) : m <= k
  BY <1>1, LeastNumber
<1>3. Min(Behind(s, i)) \in Behind(s, i)
  BY <1>2 DEF Min
<1> QED BY <1>3 DEF Behind

LEMMA CopiedFits ==
  ASSUME NEW s \in Seq(Characters), NEW k \in 2 .. Len(s) + 1, NEW tail,
         s[k - 1] # "/", \A j \in k .. Len(s) + 1 : CleanAt(s, j, tail[j])
  PROVE  /\ Copied(s, s[k - 1], k, tail) \in Seq(Characters)
         /\ ~Dotted(s) => /\ Apart(Copied(s, s[k - 1], k, tail))
                          /\ ~Slashed(Copied(s, s[k - 1], k, tail))
<1> DEFINE u == s[k - 1]
<1>1. /\ Len(s) \in Nat /\ k \in Nat /\ k - 1 \in 1 .. Len(s)
      /\ u \in Characters /\ "." \in Characters /\ u # "/"
  BY RouteAssumption
<1> HIDE DEF u
<1>2. CASE u # "."
  <2>1. Copied(s, u, k, tail) = <<u>> \o tail[k]
    BY <1>2 DEF Copied
  <2>2. CleanAt(s, k, tail[k])
    BY <1>1
  <2>3. tail[k] \in Seq(Characters) /\ (~Dotted(s) => Apart(tail[k]))
    BY <2>2 DEF CleanAt
  <2> QED BY <1>1, <2>1, <2>3, OneMore DEF u
<1>3. CASE u = "." /\ k > Len(s)
  <2>1. Copied(s, u, k, tail) = <<".", ".">>
    BY <1>3 DEF Copied
  <2>2. <<".", ".">> \in Seq(Characters) /\ Apart(<<".", ".">>) /\ ~Slashed(<<".", ".">>)
    BY <1>1 DEF Apart, Slashed
  <2> QED BY <2>1, <2>2 DEF u
<1>4. CASE u = "." /\ k <= Len(s)
  <2>1. k \in 1 .. Len(s) /\ k + 1 \in k .. Len(s) + 1 /\ s[k] \in Characters
    BY <1>1, <1>4
  <2>2. CleanAt(s, k + 1, tail[k + 1])
    BY <2>1
  <2>3. CASE s[k] = "/"
    <3>1. Copied(s, u, k, tail) = tail[k + 1]
      BY <1>1, <1>4, <2>3 DEF Copied
    <3>2. ASSUME ~Dotted(s), Slashed(tail[k + 1]) PROVE FALSE
      <4>1. k + 1 <= Len(s) /\ s[k + 1] = "/"
        BY <2>2, <3>2 DEF CleanAt
      <4>2. k - 1 \in 1 .. Len(s) - 2 /\ (k - 1) + 2 = k + 1
        BY <1>1, <4>1
      <4>3. SubSeq(s, k - 1, k + 1) = <<".", "/", "/">>
        <5>1. \A j \in k - 1 .. k + 1 : s[j] \in Characters
          BY <1>1, <4>1
        <5>2. /\ SubSeq(s, k - 1, k + 1) \in Seq(Characters)
              /\ Len(SubSeq(s, k - 1, k + 1)) = 3
              /\ \A j \in 1 .. 3 : SubSeq(s, k - 1, k + 1)[j] = s[(k - 1) + j - 1]
          <6>1. k - 1 \in Int /\ k + 1 \in Int /\ (k + 1) - (k - 1) + 1 = 3 /\ k - 1 <= k + 1
            BY <1>1
          <6> QED BY <5>1, <6>1, SubSeqProperties
        <5>3. (k - 1) + 1 - 1 = k - 1 /\ (k - 1) + 2 - 1 = k /\ (k - 1) + 3 - 1 = k + 1
          BY <1>1
        <5>4. s[k - 1] = "."
          BY <1>4 DEF u
        <5>5. <<".", "/", "/">> \in Seq(Characters)
          BY RouteAssumption
        <5> HIDE DEF u
        <5>6. \A j \in 1 .. 3 : SubSeq(s, k - 1, k + 1)[j] = <<".", "/", "/">>[j]
          BY <2>3, <4>1, <5>2, <5>3, <5>4
        <5> QED BY <5>2, <5>5, <5>6, SeqEqual
      <4> QED BY <3>2, <4>2, <4>3 DEF Dotted
    <3> QED BY <2>2, <3>1, <3>2 DEF CleanAt, u
  <2>4. CASE s[k] # "/"
    <3>1. Copied(s, u, k, tail) = <<".", s[k]>> \o tail[k + 1]
      BY <1>1, <1>4, <2>4 DEF Copied
    <3>2. tail[k + 1] \in Seq(Characters) /\ (~Dotted(s) => Apart(tail[k + 1]))
      BY <2>2 DEF CleanAt
    <3>3. <<".", s[k]>> \o tail[k + 1] = <<".">> \o (<<s[k]>> \o tail[k + 1])
      <4> DEFINE w == s[k]
                 t == tail[k + 1]
      <4>1. "." \in Characters /\ w \in Characters /\ t \in Seq(Characters)
        BY <1>1, <2>1, <3>2
      <4> HIDE DEF w, t
      <4>2. <<".", w>> \o t = <<".">> \o (<<w>> \o t)
        BY ONLY <4>1, TwoMore
      <4> QED BY <4>2 DEF w, t
    <3>4. /\ <<s[k]>> \o tail[k + 1] \in Seq(Characters)
          /\ ~Dotted(s) => Apart(<<s[k]>> \o tail[k + 1])
      BY <2>1, <2>4, <3>2, OneMore
    <3>5. /\ <<".">> \o (<<s[k]>> \o tail[k + 1]) \in Seq(Characters)
          /\ ~Slashed(<<".">> \o (<<s[k]>> \o tail[k + 1]))
          /\ ~Dotted(s) => Apart(<<".">> \o (<<s[k]>> \o tail[k + 1]))
      BY <1>1, <3>4, OneMore
    <3> QED BY <3>1, <3>3, <3>5 DEF u
  <2> QED BY <2>3, <2>4
<1> QED BY <1>1, <1>2, <1>3, <1>4

LEMMA CleanedFits ==
  ASSUME NEW s \in Seq(Characters), NEW i \in 1 .. Len(s) + 1, NEW tail,
         \A j \in i + 1 .. Len(s) + 1 : CleanAt(s, j, tail[j])
  PROVE  CleanAt(s, i, Cleaned(s, i, tail))
<1>1. Len(s) \in Nat /\ "/" \in Characters
  BY RouteAssumption
<1>2. CASE i > Len(s)
  <2>1. Cleaned(s, i, tail) = <<>>
    BY <1>2 DEF Cleaned
  <2> QED BY <2>1 DEF CleanAt, Apart, Slashed
<1>3. CASE i <= Len(s) /\ s[i] # "/"
  <2>1. Cleaned(s, i, tail) = Copied(s, s[i], i + 1, tail)
    BY <1>1, <1>3 DEF Cleaned
  <2>2. i + 1 \in 2 .. Len(s) + 1 /\ (i + 1) - 1 = i
    BY <1>1, <1>3
  <2>3. /\ Copied(s, s[i], i + 1, tail) \in Seq(Characters)
        /\ ~Dotted(s) => /\ Apart(Copied(s, s[i], i + 1, tail))
                         /\ ~Slashed(Copied(s, s[i], i + 1, tail))
    <3> DEFINE k == i + 1
    <3>1. k \in 2 .. Len(s) + 1 /\ k - 1 = i /\ s[k - 1] # "/"
      BY <1>3, <2>2
    <3>2. \A j \in k .. Len(s) + 1 : CleanAt(s, j, tail[j])
      OBVIOUS
    <3> HIDE DEF k
    <3>3. /\ Copied(s, s[k - 1], k, tail) \in Seq(Characters)
          /\ ~Dotted(s) => /\ Apart(Copied(s, s[k - 1], k, tail))
                           /\ ~Slashed(Copied(s, s[k - 1], k, tail))
      BY <3>1, <3>2, CopiedFits
    <3> QED BY <3>1, <3>3 DEF k
  <2> QED BY <2>1, <2>3 DEF CleanAt
<1>4. CASE i <= Len(s) /\ s[i] = "/" /\ Behind(s, i) = {}
  <2>1. Cleaned(s, i, tail) = <<"/", "/">>
    BY <1>1, <1>4 DEF Cleaned
  <2>2. <<"/", "/">> \in Seq(Characters) /\ Apart(<<"/", "/">>)
    BY <1>1 DEF Apart
  <2> QED BY <1>4, <2>1, <2>2 DEF CleanAt
<1>5. CASE i <= Len(s) /\ s[i] = "/" /\ Behind(s, i) # {}
  <2> DEFINE m == Min(Behind(s, i))
             k == m + 1
  <2>1. m \in i + 1 .. Len(s) /\ s[m] # "/"
    BY <1>1, <1>5, BehindSome
  <2>2. Cleaned(s, i, tail) = <<"/">> \o Copied(s, s[m], m + 1, tail)
    BY <1>1, <1>5 DEF Cleaned
  <2> HIDE DEF m
  <2>3. k \in 2 .. Len(s) + 1 /\ k - 1 = m /\ s[k - 1] # "/" /\ k \in i + 2 .. Len(s) + 1
    BY <1>1, <2>1
  <2>4. \A j \in k .. Len(s) + 1 : CleanAt(s, j, tail[j])
    BY <1>1, <2>3
  <2>5. Cleaned(s, i, tail) = <<"/">> \o Copied(s, s[k - 1], k, tail)
    BY <2>2, <2>3
  <2> HIDE DEF k
  <2>6. /\ Copied(s, s[k - 1], k, tail) \in Seq(Characters)
        /\ ~Dotted(s) => /\ Apart(Copied(s, s[k - 1], k, tail))
                         /\ ~Slashed(Copied(s, s[k - 1], k, tail))
    BY <2>3, <2>4, CopiedFits
  <2>7. /\ Cleaned(s, i, tail) \in Seq(Characters)
        /\ ~Dotted(s) => Apart(Cleaned(s, i, tail))
    BY <1>1, <2>5, <2>6, OneMore
  <2> QED BY <1>5, <2>7 DEF CleanAt
<1> QED BY <1>1, <1>2, <1>3, <1>4, <1>5

LEMMA CleanedSame ==
  ASSUME NEW s \in Seq(Characters), NEW i \in 1 .. Len(s) + 1, NEW f, NEW g,
         \A j \in i + 1 .. Len(s) + 1 : f[j] = g[j]
  PROVE  Cleaned(s, i, f) = Cleaned(s, i, g)
<1>1. Len(s) \in Nat
  OBVIOUS
<1>2. ASSUME NEW k \in i + 1 .. Len(s) + 1, NEW u PROVE Copied(s, u, k, f) = Copied(s, u, k, g)
  <2>1. f[k] = g[k] /\ (k <= Len(s) => f[k + 1] = g[k + 1]) /\ (~(k > Len(s)) => k <= Len(s))
    BY <1>1
  <2> QED BY <2>1 DEF Copied
<1>3. CASE i > Len(s)
  BY <1>3 DEF Cleaned
<1>4. CASE i <= Len(s) /\ s[i] # "/"
  <2>1. i + 1 \in i + 1 .. Len(s) + 1 /\ ~(i > Len(s))
    BY <1>1, <1>4
  <2>2. Copied(s, s[i], i + 1, f) = Copied(s, s[i], i + 1, g)
    BY <1>2, <2>1
  <2> QED BY <1>4, <2>1, <2>2 DEF Cleaned
<1>5. CASE i <= Len(s) /\ s[i] = "/"
  <2>1. CASE Behind(s, i) = {}
    BY <1>1, <1>5, <2>1 DEF Cleaned
  <2>2. CASE Behind(s, i) # {}
    <3> DEFINE m == Min(Behind(s, i))
    <3>1. m \in i + 1 .. Len(s)
      BY <1>1, <1>5, <2>2, BehindSome
    <3>2. ~(i > Len(s))
      BY <1>1, <1>5
    <3>3. /\ Cleaned(s, i, f) = <<"/">> \o Copied(s, s[m], m + 1, f)
          /\ Cleaned(s, i, g) = <<"/">> \o Copied(s, s[m], m + 1, g)
      BY <1>5, <2>2, <3>2 DEF Cleaned
    <3> HIDE DEF m
    <3>4. m + 1 \in i + 1 .. Len(s) + 1
      BY <1>1, <3>1
    <3>5. Copied(s, s[m], m + 1, f) = Copied(s, s[m], m + 1, g)
      BY <1>2, <3>4
    <3> QED BY <3>3, <3>5
  <2> QED BY <2>1, <2>2
<1> QED BY <1>1, <1>3, <1>4, <1>5

(* The function that Normalized names exists. *)
Cleans(s, f, m) == \A i \in m .. Len(s) + 1 : f[i] = Cleaned(s, i, f)

LEMMA TailExists ==
  ASSUME NEW s \in Seq(Characters)
  PROVE  \E f : f = [i \in 1 .. Len(s) + 1 |-> Cleaned(s, i, f)]
<1> DEFINE N == Len(s)
           T == {m \in 0 .. N : \E f : Cleans(s, f, N + 1 - m)}
<1>1. N \in Nat
  OBVIOUS
<1>2. 0 \in T
  <2> DEFINE f == [i \in {N + 1} |-> <<>>]
  <2>1. Cleans(s, f, N + 1)
    <3> SUFFICES ASSUME NEW i \in N + 1 .. N + 1 PROVE f[i] = Cleaned(s, i, f)
      BY DEF Cleans
    <3>1. i = N + 1 /\ i > Len(s)
      BY <1>1
    <3> QED BY <3>1 DEF Cleaned
  <2> HIDE DEF f
  <2>2. N + 1 - 0 = N + 1
    BY <1>1
  <2> QED BY <1>1, <2>1, <2>2
<1>3. ASSUME NEW m \in 1 .. N, m - 1 \in T PROVE m \in T
  <2> DEFINE k == N + 1 - m
  <2>1. /\ k \in 1 .. N /\ N + 1 - (m - 1) = k + 1 /\ m \in 0 .. N
    BY <1>1
  <2>2. PICK f : Cleans(s, f, k + 1)
    BY <1>3, <2>1
  <2> HIDE DEF k
  <2> DEFINE g == [i \in k .. N + 1 |-> IF i = k THEN Cleaned(s, k, f) ELSE f[i]]
  <2>3. g[k] = Cleaned(s, k, f) /\ \A j \in k + 1 .. N + 1 : g[j] = f[j]
    BY <1>1, <2>1
  <2> HIDE DEF g
  <2>4. Cleans(s, g, k)
    <3> SUFFICES ASSUME NEW i \in k .. N + 1 PROVE g[i] = Cleaned(s, i, g)
      BY DEF Cleans
    <3>1. i \in 1 .. N + 1 /\ \A j \in i + 1 .. Len(s) + 1 : f[j] = g[j]
      BY <1>1, <2>1, <2>3
    <3>2. Cleaned(s, i, f) = Cleaned(s, i, g)
      BY <3>1, CleanedSame
    <3>3. CASE i = k
      BY <2>3, <3>2, <3>3
    <3>4. CASE i # k
      <4>1. i \in k + 1 .. N + 1
        BY <1>1, <2>1, <3>4
      <4>2. f[i] = Cleaned(s, i, f)
        BY <2>2, <4>1 DEF Cleans
      <4> QED BY <2>3, <3>2, <4>1, <4>2
    <3> QED BY <3>3, <3>4
  <2> QED BY <2>1, <2>4 DEF k
<1> HIDE DEF T
<1>4. 0 .. N \subseteq T
  BY <1>1, <1>2, <1>3, UpTo
<1>5. N \in T
  BY <1>1, <1>4
<1>6. PICK f : Cleans(s, f, 1)
  <2>1. N + 1 - N = 1
    BY <1>1
  <2> QED BY <1>5, <2>1 DEF T
<1> DEFINE g == [i \in 1 .. N + 1 |-> f[i]]
<1>7. \A i \in 1 .. N + 1 : g[i] = f[i]
  OBVIOUS
<1>8. g = [i \in 1 .. N + 1 |-> Cleaned(s, i, g)]
  <2>1. ASSUME NEW i \in 1 .. N + 1 PROVE f[i] = Cleaned(s, i, g)
    <3>1. \A j \in i + 1 .. Len(s) + 1 : f[j] = g[j]
      BY <1>1, <1>7
    <3> HIDE DEF g
    <3>2. Cleaned(s, i, f) = Cleaned(s, i, g)
      BY <3>1, CleanedSame
    <3> QED BY <1>6, <3>2 DEF Cleans
  <2>2. g = [i \in 1 .. N + 1 |-> f[i]]
    OBVIOUS
  <2> HIDE DEF g
  <2> QED BY <2>1, <2>2
<1> HIDE DEF g
<1> QED BY <1>8

(* Double slashes are left at the end only, unless there was ".//".        *)
LEMMA NormalizedUrl ==
  ASSUME NEW s \in Seq(Characters)
  PROVE  /\ Normalized(s) \in Seq(Characters)
         /\ Dotted(s) \/ Apart(Normalized(s))
<1> DEFINE N == Len(s)
           tail[i \in 1 .. Len(s) + 1] == Cleaned(s, i, tail)
<1>1. N \in Nat
  OBVIOUS
<1>2. tail = [i \in 1 .. Len(s) + 1 |-> Cleaned(s, i, tail)]
  BY TailExists DEF tail
<1>3. Normalized(s) = tail[1]
  BY DEF Normalized
<1> HIDE DEF tail
<1> DEFINE T == {m \in 0 .. N : \A j \in N + 1 - m .. N + 1 : CleanAt(s, j, tail[j])}
<1>4. ASSUME NEW i \in 1 .. N + 1, \A j \in i + 1 .. N + 1 : CleanAt(s, j, tail[j])
      PROVE  CleanAt(s, i, tail[i])
  <2>1. tail[i] = Cleaned(s, i, tail)
    BY <1>2
  <2>2. CleanAt(s, i, Cleaned(s, i, tail))
    BY <1>4, CleanedFits
  <2> QED BY <2>1, <2>2
<1>5. 0 \in T
  <2>1. N + 1 \in 1 .. N + 1 /\ \A j \in N + 1 + 1 .. N + 1 : CleanAt(s, j, tail[j])
    BY <1>1
  <2>2. CleanAt(s, N + 1, tail[N + 1])
    BY <1>4, <2>1
  <2>3. \A j \in N + 1 - 0 .. N + 1 : j = N + 1
    BY <1>1
  <2> QED BY <1>1, <2>2, <2>3
<1>6. ASSUME NEW m \in 1 .. N, m - 1 \in T PROVE m \in T
  <2> DEFINE k == N + 1 - m
  <2>1. k \in 1 .. N + 1 /\ N + 1 - (m - 1) = k + 1 /\ m \in 0 .. N
    BY <1>1
  <2>2. \A j \in k + 1 .. N + 1 : CleanAt(s, j, tail[j])
    BY <1>6, <2>1
  <2> HIDE DEF k
  <2>3. CleanAt(s, k, tail[k])
    BY <1>4, <2>1, <2>2
  <2>4. \A j \in k .. N + 1 : j = k \/ j \in k + 1 .. N + 1
    BY <1>1, <2>1
  <2>5. \A j \in k .. N + 1 : CleanAt(s, j, tail[j])
    BY <2>2, <2>3, <2>4
  <2> QED BY <2>1, <2>5 DEF k
<1> HIDE DEF T
<1>7. 0 .. N \subseteq T
  BY <1>1, <1>5, <1>6, UpTo
<1>8. N \in T
  <2>1. N \in 0 .. N
    BY <1>1
  <2> HIDE DEF N
  <2> QED BY <1>7, <2>1
<1>9. CleanAt(s, 1, tail[1])
  <2>1. \A j \in N + 1 - N .. N + 1 : CleanAt(s, j, tail[j])
    BY <1>8 DEF T
  <2>2. 1 \in N + 1 - N .. N + 1
    BY <1>1
  <2> QED BY <2>1, <2>2
<1> QED BY <1>3, <1>9 DEF CleanAt

-----------------------------------------------------------------------------
(* Tables of what each route visits at each place of the url.              *)
Tables(u) == [Routes -> [0 .. Len(u) -> Seq(Routes)]]
Unvisited(u) == [r \in Routes |-> [p \in 0 .. Len(u) |-> <<>>]]
Levels == Height[Root] + 1

(* What the children of r visit, that of each by itself. *)
Turns(table, r, p) == [i \in DOMAIN Children[r] |-> table[Children[r][i]][p]]

(* A route that matches is a prefix of what is left of the url. *)
LEMMA Matched ==
  ASSUME NEW u \in Seq(Characters), NEW r \in Routes, NEW p \in 0 .. Len(u), NEW method,
         Matches(method, r, SubSeq(u, p + 1, Len(u)))
  PROVE  /\ Len(Path[r]) \in Nat /\ p + Len(Path[r]) \in 0 .. Len(u)
         /\ Path[r] = SubSeq(u, p + 1, p + Len(Path[r]))
<1> DEFINE s == Path[r]
           t == SubSeq(u, p + 1, Len(u))
<1>1. s \in Seq(Characters) /\ Len(s) \in Nat /\ Len(u) \in Nat /\ p \in Nat
  BY RouteAssumption
<1>2. /\ t \in Seq(Characters) /\ Len(t) = Len(u) - p
      /\ \A i \in 1 .. Len(u) - p : t[i] = u[p + i]
  <2>1. \A i \in p + 1 .. Len(u) : u[i] \in Characters
    BY <1>1
  <2>2. /\ t \in Seq(Characters) /\ Len(t) = IF p + 1 <= Len(u) THEN Len(u) - (p + 1) + 1 ELSE 0
        /\ \A i \in 1 .. Len(u) - (p + 1) + 1 : t[i] = u[(p + 1) + i - 1]
    <3>1. p + 1 \in Int /\ Len(u) \in Int
      BY <1>1
    <3> QED BY <2>1, <3>1, SubSeqProperties
  <2> HIDE DEF t
  <2> QED BY <1>1, <2>2
<1>3. IsPrefix(s, t)
  BY DEF Matches, IsPathPrefixOf
<1> HIDE DEF s, t
<1>4. Len(s) <= Len(t) /\ SubSeq(s, 1, Len(s)) = SubSeq(t, 1, Len(s))
  BY <1>3 DEF IsPrefix
<1>5. p + Len(s) \in 0 .. Len(u)
  BY <1>1, <1>2, <1>4
<1>6. SubSeq(s, 1, Len(s)) = s
  BY <1>1, SubSeqFull
<1>7. ASSUME NEW i \in 1 .. Len(s) PROVE s[i] = u[p + i]
  <2>1. \A j \in 1 .. Len(s) : t[j] \in Characters
    BY <1>1, <1>2, <1>4
  <2>2. 1 \in Int /\ Len(s) \in Int /\ i \in 1 .. Len(s) - 1 + 1 /\ 1 + i - 1 = i
    BY <1>1
  <2>3. SubSeq(t, 1, Len(s))[i] = t[1 + i - 1]
    BY <2>1, <2>2, SubSeqProperties
  <2>4. i \in 1 .. Len(u) - p
    BY <1>1, <1>5
  <2> QED BY <1>2, <1>4, <1>6, <2>2, <2>3, <2>4
<1>8. s = SubSeq(u, p + 1, p + Len(s))
  <2>1. \A i \in p + 1 .. p + Len(s) : u[i] \in Characters
    BY <1>1, <1>5
  <2>2. p + 1 \in Int /\ p + Len(s) \in Int /\ p + Len(s) - (p + 1) + 1 = Len(s)
        /\ (p + 1 <= p + Len(s) <=> Len(s) # 0)
    BY <1>1
  <2>3. /\ SubSeq(u, p + 1, p + Len(s)) \in Seq(Characters)
        /\ Len(SubSeq(u, p + 1, p + Len(s))) = Len(s)
        /\ \A i \in 1 .. p + Len(s) - (p + 1) + 1 : SubSeq(u, p + 1, p + Len(s))[i] = u[(p + 1) + i - 1]
    BY <2>1, <2>2, SubSeqProperties
  <2>4. ASSUME NEW i \in 1 .. Len(s) PROVE SubSeq(u, p + 1, p + Len(s))[i] = u[p + i]
    <3>1. i \in 1 .. p + Len(s) - (p + 1) + 1 /\ (p + 1) + i - 1 = p + i
      BY <1>1, <2>2
    <3>2. SubSeq(u, p + 1, p + Len(s))[i] = u[(p + 1) + i - 1]
      BY <2>3, <3>1
    <3> QED BY <3>1, <3>2
  <2>5. \A i \in 1 .. Len(s) : s[i] = SubSeq(u, p + 1, p + Len(s))[i]
    BY <1>7, <2>4
  <2> QED BY <1>1, <2>3, <2>5, SeqEqual
<1> QED BY <1>1, <1>5, <1>8 DEF s

LEMMA TurnsType ==
  ASSUME NEW u \in Seq(Characters), NEW table \in Tables(u), NEW r \in Routes, NEW p \in 0 .. Len(u)
  PROVE  /\ Len(Children[r]) \in Nat /\ DOMAIN Children[r] = 1 .. Len(Children[r])
         /\ \A i \in 1 .. Len(Children[r]) :
              /\ Children[r][i] \in Routes
              /\ table[Children[r][i]][p] \in Seq(Routes)
              /\ Turns(table, r, p)[i] = table[Children[r][i]][p]
         /\ Turns(table, r, p) \in Seq(Seq(Routes))
         /\ Len(Turns(table, r, p)) = Len(Children[r])
<1>1. Children[r] \in Seq(Routes) /\ Len(Children[r]) \in Nat /\ DOMAIN Children[r] = 1 .. Len(Children[r])
  BY RouteAssumption
<1>2. \A i \in 1 .. Len(Children[r]) : Children[r][i] \in Routes
  BY <1>1
<1>3. \A i \in 1 .. Len(Children[r]) : table[Children[r][i]][p] \in Seq(Routes)
  BY <1>2 DEF Tables
<1>4. Turns(table, r, p) \in [1 .. Len(Children[r]) -> Seq(Routes)]
  BY <1>1, <1>3 DEF Turns
<1>5. Turns(table, r, p) \in Seq(Seq(Routes)) /\ Len(Turns(table, r, p)) = Len(Children[r])
  BY <1>1, <1>4
<1> QED BY <1>1, <1>2, <1>3, <1>5 DEF Turns

Own(r) == IF Target[r] THEN <<r>> ELSE <<>>

LEMMA FlattenType ==
  ASSUME NEW S, NEW q \in Seq(Seq(S))
  PROVE  FlattenSeq(q) \in Seq(S)
<1>1. <<>> \in Seq(S)
  OBVIOUS
<1> QED BY <1>1, FlattenAppend

LEMMA VisitsByIs ==
  ASSUME NEW q, NEW u \in Seq(Characters), NEW table \in Tables(u)
  PROVE  /\ VisitsBy(q, u, table) \in Tables(u)
         /\ \A r \in Routes : \A p \in 0 .. Len(u) :
              /\ ~Matches(q.method, r, SubSeq(u, p + 1, Len(u))) => VisitsBy(q, u, table)[r][p] = <<>>
              /\ Matches(q.method, r, SubSeq(u, p + 1, Len(u))) =>
                   VisitsBy(q, u, table)[r][p] = Own(r) \o FlattenSeq(Turns(table, r, p + Len(Path[r])))
<1> DEFINE V == VisitsBy(q, u, table)
           fits(r, p) == Matches(q.method, r, SubSeq(u, p + 1, Len(u)))
<1>1. /\ V = [r \in Routes |-> [p \in 0 .. Len(u) |->
                IF ~fits(r, p) THEN <<>> ELSE Own(r) \o FlattenSeq(Turns(table, r, p + Len(Path[r])))]]
  BY DEF VisitsBy, Own, Turns
<1> HIDE DEF V, fits
<1>2. ASSUME NEW r \in Routes, NEW p \in 0 .. Len(u)
      PROVE  /\ V[r][p] = IF ~fits(r, p) THEN <<>> ELSE Own(r) \o FlattenSeq(Turns(table, r, p + Len(Path[r])))
             /\ V[r][p] \in Seq(Routes)
  <2>1. V[r][p] = IF ~fits(r, p) THEN <<>> ELSE Own(r) \o FlattenSeq(Turns(table, r, p + Len(Path[r])))
    BY <1>1
  <2>2. CASE ~fits(r, p)
    BY <2>1, <2>2
  <2>3. CASE fits(r, p)
    <3>1. p + Len(Path[r]) \in 0 .. Len(u)
      BY <2>3, Matched DEF fits
    <3>2. FlattenSeq(Turns(table, r, p + Len(Path[r]))) \in Seq(Routes)
      BY <3>1, TurnsType, FlattenType
    <3>3. Own(r) \in Seq(Routes)
      BY DEF Own
    <3>4. Own(r) \o FlattenSeq(Turns(table, r, p + Len(Path[r]))) \in Seq(Routes)
      BY <3>2, <3>3, ConcatProperties
    <3> QED BY <2>1, <2>3, <3>4
  <2> QED BY <2>2, <2>3, <2>1
<1>3. V \in Tables(u)
  <2>1. V = [r \in Routes |-> [p \in 0 .. Len(u) |-> V[r][p]]]
    BY <1>1
  <2> QED BY <1>2, <2>1 DEF Tables
<1> QED BY <1>2, <1>3 DEF V, fits

(* The function that Visits names. *)
WalkStep(q, u, f, d) == f[d] = IF d = 0 THEN Unvisited(u) ELSE VisitsBy(q, u, f[d - 1])

LEMMA WalkExists ==
  ASSUME NEW q, NEW u \in Seq(Characters)
  PROVE  \E f \in [0 .. Levels -> Tables(u)] : \A d \in 0 .. Levels : WalkStep(q, u, f, d)
<1> DEFINE Upto(m) == \E f \in [0 .. m -> Tables(u)] : \A d \in 0 .. m : WalkStep(q, u, f, d)
           T == {m \in 0 .. Levels : Upto(m)}
<1>0. Levels \in Nat
  BY RouteAssumption DEF Levels
<1>1. 0 \in T
  <2> DEFINE f == [d \in 0 .. 0 |-> Unvisited(u)]
  <2>1. Unvisited(u) \in Tables(u)
    BY DEF Unvisited, Tables
  <2>2. f \in [0 .. 0 -> Tables(u)] /\ \A d \in 0 .. 0 : WalkStep(q, u, f, d)
    BY <2>1 DEF WalkStep
  <2> HIDE DEF f
  <2> QED BY <1>0, <2>2
<1>2. ASSUME NEW m \in 1 .. Levels, m - 1 \in T PROVE m \in T
  <2>0. m \in 0 .. Levels /\ m # 0 /\ m - 1 \in 0 .. m - 1
    BY <1>0
  <2>1. PICK f \in [0 .. m - 1 -> Tables(u)] : \A d \in 0 .. m - 1 : WalkStep(q, u, f, d)
    BY <1>2
  <2> DEFINE g == [d \in 0 .. m |-> IF d = m THEN VisitsBy(q, u, f[m - 1]) ELSE f[d]]
  <2>2. VisitsBy(q, u, f[m - 1]) \in Tables(u)
    BY <2>0, <2>1, VisitsByIs
  <2>3. g \in [0 .. m -> Tables(u)]
    <3>1. \A d \in 0 .. m : d # m => d \in 0 .. m - 1
      BY <1>0
    <3> QED BY <2>1, <2>2, <3>1
  <2>4. g[m] = VisitsBy(q, u, f[m - 1]) /\ \A d \in 0 .. m - 1 : g[d] = f[d]
    BY <1>0
  <2> HIDE DEF g
  <2>5. ASSUME NEW d \in 0 .. m PROVE WalkStep(q, u, g, d)
    <3>1. CASE d = m
      BY <2>0, <2>4, <3>1 DEF WalkStep
    <3>2. CASE d # m
      <4>1. d \in 0 .. m - 1 /\ (d # 0 => d - 1 \in 0 .. m - 1)
        BY <1>0, <3>2
      <4>2. WalkStep(q, u, f, d)
        BY <2>1, <4>1
      <4> QED BY <2>4, <4>1, <4>2 DEF WalkStep
    <3> QED BY <3>1, <3>2
  <2> QED BY <2>0, <2>3, <2>5
<1> HIDE DEF T
<1>3. 0 .. Levels \subseteq T
  BY <1>0, <1>1, <1>2, UpTo
<1>4. Levels \in 0 .. Levels
  BY <1>0
<1> QED BY <1>3, <1>4 DEF T

Walk(q, u) ==
  CHOOSE f : f = [d \in 0 .. Levels |-> IF d = 0 THEN Unvisited(u) ELSE VisitsBy(q, u, f[d - 1])]

(* Of each level, it is a table, made of the one below. *)
LEMMA WalkIs ==
  ASSUME NEW q, NEW u \in Seq(Characters)
  PROVE  /\ Levels \in Nat
         /\ Visits(q, u) = Walk(q, u)[Levels][Root][0]
         /\ \A d \in 0 .. Levels : Walk(q, u)[d] \in Tables(u) /\ WalkStep(q, u, Walk(q, u), d)
<1> DEFINE w == Walk(q, u)
<1>0. Levels \in Nat
  BY RouteAssumption DEF Levels
<1>1. PICK f \in [0 .. Levels -> Tables(u)] : \A d \in 0 .. Levels : WalkStep(q, u, f, d)
  BY WalkExists
<1>2. f = [d \in 0 .. Levels |-> IF d = 0 THEN Unvisited(u) ELSE VisitsBy(q, u, f[d - 1])]
  BY <1>1 DEF WalkStep
<1>3. w = [d \in 0 .. Levels |-> IF d = 0 THEN Unvisited(u) ELSE VisitsBy(q, u, w[d - 1])]
  BY <1>2 DEF Walk
<1>4. Visits(q, u) = w[Levels][Root][0]
  BY DEF Visits, Walk, Levels, Unvisited
<1> HIDE DEF w
<1>5. \A d \in 0 .. Levels : WalkStep(q, u, w, d)
  BY <1>3 DEF WalkStep
<1> DEFINE T == {d \in 0 .. Levels : w[d] \in Tables(u)}
<1>6. 0 \in T
  <2>1. 0 \in 0 .. Levels
    BY <1>0
  <2>2. w[0] = Unvisited(u)
    BY <1>5, <2>1 DEF WalkStep
  <2>3. Unvisited(u) \in Tables(u)
    BY DEF Unvisited, Tables
  <2> QED BY <2>1, <2>2, <2>3
<1>7. ASSUME NEW d \in 1 .. Levels, d - 1 \in T PROVE d \in T
  <2>1. d \in 0 .. Levels /\ d # 0
    BY <1>0
  <2>2. w[d] = VisitsBy(q, u, w[d - 1])
    BY <1>5, <2>1 DEF WalkStep
  <2>3. w[d - 1] \in Tables(u)
    BY <1>7
  <2>4. VisitsBy(q, u, w[d - 1]) \in Tables(u)
    BY <2>3, VisitsByIs
  <2> QED BY <2>1, <2>2, <2>4
<1> HIDE DEF T
<1>8. 0 .. Levels \subseteq T
  BY <1>0, <1>6, <1>7, UpTo
<1>9. \A d \in 0 .. Levels : w[d] \in Tables(u)
  BY <1>8 DEF T
<1> QED BY <1>0, <1>4, <1>5, <1>9 DEF w

-----------------------------------------------------------------------------
Frames == [route : Routes, index : Nat]
Entry(r) == [route |-> r, index |-> 0]
Advanced(a) == [a EXCEPT !.index = a.index + 1]
NextChild(a) == Children[a.route][a.index + 1]

LEMMA LevelsNat == Levels \in Nat
BY RouteAssumption DEF Levels

(* What the children that the frame a has yet to try visit, d levels above *)
(* the bottom, at the place p of the url u.                                *)
Ahead(q, u, a, d, p) ==
  FlattenSeq(SubSeq(Turns(Walk(q, u)[d], a.route, p), a.index + 1, Len(Children[a.route])))

LEMMA AheadType ==
  ASSUME NEW q, NEW u \in Seq(Characters), NEW a \in Frames, NEW d \in 0 .. Levels,
         NEW p \in 0 .. Len(u)
  PROVE  Ahead(q, u, a, d, p) \in Seq(Routes)
<1> DEFINE t == Turns(Walk(q, u)[d], a.route, p)
           n == Len(Children[a.route])
<1>1. a.route \in Routes /\ a.index \in Nat
  BY DEF Frames
<1>2. t \in Seq(Seq(Routes)) /\ Len(t) = n /\ n \in Nat
  BY <1>1, WalkIs, TurnsType
<1> HIDE DEF t, n
<1>3. \A i \in a.index + 1 .. n : t[i] \in Seq(Routes)
  BY <1>1, <1>2
<1>4. SubSeq(t, a.index + 1, n) \in Seq(Seq(Routes))
  <2>1. a.index + 1 \in Int /\ n \in Int
    BY <1>1, <1>2
  <2> QED BY <1>3, <2>1, SubSeqProperties
<1>5. FlattenSeq(SubSeq(t, a.index + 1, n)) \in Seq(Routes)
  BY <1>4, FlattenType
<1> QED BY <1>5 DEF Ahead, t, n

(* The next child's, then that of the others.                              *)
LEMMA AheadMore ==
  ASSUME NEW q, NEW u \in Seq(Characters), NEW a \in Frames, NEW d \in 0 .. Levels,
         NEW p \in 0 .. Len(u), a.index < Len(Children[a.route])
  PROVE  /\ Advanced(a) \in Frames /\ Advanced(a).route = a.route
         /\ Advanced(a).index = a.index + 1
         /\ NextChild(a) \in Routes
         /\ Height[NextChild(a)] \in Nat /\ Height[a.route] \in Nat
         /\ Height[NextChild(a)] < Height[a.route]
         /\ Walk(q, u)[d][NextChild(a)][p] \in Seq(Routes)
         /\ Ahead(q, u, a, d, p) =
              Walk(q, u)[d][NextChild(a)][p] \o Ahead(q, u, Advanced(a), d, p)
<1> DEFINE t == Turns(Walk(q, u)[d], a.route, p)
           n == Len(Children[a.route])
           i == a.index + 1
           s == SubSeq(t, i, n)
<1>1. a.route \in Routes /\ a.index \in Nat
  BY DEF Frames
<1>0. Walk(q, u)[d] \in Tables(u)
  BY WalkIs
<1>2. /\ t \in Seq(Seq(Routes)) /\ Len(t) = n /\ n \in Nat
      /\ DOMAIN Children[a.route] = 1 .. n
      /\ \A j \in 1 .. n : /\ Children[a.route][j] \in Routes
                           /\ Walk(q, u)[d][Children[a.route][j]][p] \in Seq(Routes)
                           /\ t[j] = Walk(q, u)[d][Children[a.route][j]][p]
  <2> DEFINE table == Walk(q, u)[d]
  <2>1. table \in Tables(u)
    BY <1>0
  <2> HIDE DEF table
  <2>2. /\ Len(Children[a.route]) \in Nat /\ DOMAIN Children[a.route] = 1 .. Len(Children[a.route])
        /\ \A j \in 1 .. Len(Children[a.route]) :
              /\ Children[a.route][j] \in Routes
              /\ table[Children[a.route][j]][p] \in Seq(Routes)
              /\ Turns(table, a.route, p)[j] = table[Children[a.route][j]][p]
        /\ Turns(table, a.route, p) \in Seq(Seq(Routes))
        /\ Len(Turns(table, a.route, p)) = Len(Children[a.route])
    BY <1>1, <2>1, TurnsType
  <2> QED BY <2>2 DEF table
<1>3. i \in 1 .. n /\ n \in i .. n
  BY <1>1, <1>2
<1>4. Advanced(a) \in Frames /\ Advanced(a).route = a.route /\ Advanced(a).index = i
  BY <1>1 DEF Frames, Advanced
<1>5. /\ NextChild(a) \in Routes
      /\ Height[NextChild(a)] \in Nat /\ Height[a.route] \in Nat
      /\ Height[NextChild(a)] < Height[a.route]
  BY <1>1, <1>2, <1>3, RouteAssumption DEF NextChild
<1>6. t[i] = Walk(q, u)[d][NextChild(a)][p] /\ t[i] \in Seq(Routes)
  BY <1>2, <1>3 DEF NextChild
<1> HIDE DEF t, n, i
<1>7. Head(s) = t[i] /\ Tail(s) = SubSeq(t, i + 1, n)
  BY <1>2, <1>3, HeadTailOfSubSeq
<1>8. s \in Seq(Seq(Routes)) /\ s # <<>>
  <2>1. \A j \in i .. n : t[j] \in Seq(Routes)
    BY <1>2, <1>3
  <2>2. i \in Int /\ n \in Int /\ i <= n
    BY <1>2, <1>3
  <2>3. s \in Seq(Seq(Routes)) /\ Len(s) = n - i + 1
    BY <2>1, <2>2, SubSeqProperties
  <2>4. Len(s) # 0
    BY <2>2, <2>3
  <2> QED BY <2>3, <2>4, EmptySeq
<1>9. FlattenSeq(s) = t[i] \o FlattenSeq(SubSeq(t, i + 1, n))
  <2>1. FlattenSeq(s) = Head(s) \o FlattenSeq(Tail(s))
    BY <1>8, FlattenHead
  <2> QED BY <1>7, <2>1
<1>10. /\ Ahead(q, u, a, d, p) = FlattenSeq(s)
       /\ Ahead(q, u, Advanced(a), d, p) = FlattenSeq(SubSeq(t, i + 1, n))
  BY <1>4 DEF Ahead, t, n, i
<1> QED BY <1>4, <1>5, <1>6, <1>9, <1>10 DEF i

LEMMA AheadNone ==
  ASSUME NEW q, NEW u, NEW a \in Frames, NEW d, NEW p, a.index = Len(Children[a.route])
  PROVE  Ahead(q, u, a, d, p) = <<>>
<1> DEFINE t == Turns(Walk(q, u)[d], a.route, p)
<1>1. a.index \in Nat /\ Len(Children[a.route]) \in Nat
  BY DEF Frames
<1>2. a.index + 1 \in Int /\ Len(Children[a.route]) \in Int /\ Len(Children[a.route]) < a.index + 1
  BY <1>1
<1> HIDE DEF t
<1>3. SubSeq(t, a.index + 1, Len(Children[a.route])) = <<>>
  BY <1>2, SubSeqEmpty
<1> QED BY <1>3, FlattenEmpty DEF Ahead, t

(* A route that matches visits itself and then what its children do.       *)
LEMMA Entered ==
  ASSUME NEW q, NEW u \in Seq(Characters), NEW r \in Routes, NEW d \in 1 .. Levels,
         NEW p \in 0 .. Len(u), Matches(q.method, r, SubSeq(u, p + 1, Len(u)))
  PROVE  /\ Entry(r) \in Frames /\ Entry(r).route = r /\ Entry(r).index = 0
         /\ Walk(q, u)[d][r][p] =
              Own(r) \o Ahead(q, u, Entry(r), d - 1, p + Len(Path[r]))
<1> DEFINE w == Walk(q, u)
           z == p + Len(Path[r])
<1>1. Entry(r) \in Frames /\ Entry(r).route = r /\ Entry(r).index = 0
  BY DEF Entry, Frames
<1>2. d \in 0 .. Levels /\ d - 1 \in 0 .. Levels /\ d # 0
  BY LevelsNat
<1>3. z \in 0 .. Len(u)
  BY Matched
<1>4. w[d - 1] \in Tables(u) /\ w[d] = VisitsBy(q, u, w[d - 1])
  BY <1>2, WalkIs DEF WalkStep
<1> HIDE DEF w
<1>5. w[d][r][p] = Own(r) \o FlattenSeq(Turns(w[d - 1], r, z))
  <2> DEFINE table == w[d - 1]
  <2>1. table \in Tables(u) /\ w[d] = VisitsBy(q, u, table)
    BY <1>4
  <2> HIDE DEF table
  <2>2. VisitsBy(q, u, table)[r][p] = Own(r) \o FlattenSeq(Turns(table, r, p + Len(Path[r])))
    BY <2>1, VisitsByIs
  <2> QED BY <2>1, <2>2 DEF table, z
<1> DEFINE t == Turns(w[d - 1], r, z)
<1> HIDE DEF z
<1>6. t \in Seq(Seq(Routes)) /\ Len(t) = Len(Children[r])
  BY <1>3, <1>4, TurnsType
<1> HIDE DEF t
<1>7. SubSeq(t, 0 + 1, Len(Children[r])) = t
  BY <1>6, SubSeqFull
<1>8. Ahead(q, u, Entry(r), d - 1, z) = FlattenSeq(t)
  BY <1>1, <1>7 DEF Ahead, t, w
<1> QED BY <1>1, <1>5, <1>8 DEF w, z, t

(* One that does not visits nothing.                                       *)
LEMMA Passed ==
  ASSUME NEW q, NEW u \in Seq(Characters), NEW r \in Routes, NEW d \in 1 .. Levels,
         NEW p \in 0 .. Len(u), ~Matches(q.method, r, SubSeq(u, p + 1, Len(u)))
  PROVE  Walk(q, u)[d][r][p] = <<>>
<1>1. d \in 0 .. Levels /\ d - 1 \in 0 .. Levels /\ d # 0
  BY LevelsNat
<1>2. Walk(q, u)[d - 1] \in Tables(u) /\ Walk(q, u)[d] = VisitsBy(q, u, Walk(q, u)[d - 1])
  BY <1>1, WalkIs DEF WalkStep
<1> QED BY <1>2, VisitsByIs

(* The way to the top of the stack: at[i] is the place of the url behind   *)
(* the i-th route, left[i] what it and those below it have yet to visit.   *)
Step(q, u, st, at, left, i) ==
  /\ st[i].index <= Len(Children[st[i].route])
  /\ Height[st[i].route] + i <= Levels
  /\ at[i] = at[i - 1] + Len(Path[st[i].route])
  /\ Path[st[i].route] = SubSeq(u, at[i - 1] + 1, at[i])
  /\ left[i] = Ahead(q, u, st[i], Levels - i, at[i]) \o left[i - 1]

Way(q, u, st, at, left) ==
  /\ st \in Seq(Frames)
  /\ at \in [0 .. Len(st) -> 0 .. Len(u)] /\ at[0] = 0
  /\ left \in [0 .. Len(st) -> Seq(Routes)] /\ left[0] = <<>>
  /\ \A i \in 1 .. Len(st) : Step(q, u, st, at, left, i)

On(q, u, st, p, l) ==
  \E at, left : Way(q, u, st, at, left) /\ p = at[Len(st)] /\ l = left[Len(st)]

LEMMA OnType ==
  ASSUME NEW q, NEW u, NEW st, NEW p, NEW l, On(q, u, st, p, l)
  PROVE  /\ st \in Seq(Frames) /\ Len(st) \in Nat /\ p \in 0 .. Len(u) /\ l \in Seq(Routes)
         /\ st = <<>> => p = 0 /\ l = <<>>
<1>1. PICK at, left : Way(q, u, st, at, left) /\ p = at[Len(st)] /\ l = left[Len(st)]
  BY DEF On
<1>2. st \in Seq(Frames) /\ Len(st) \in Nat /\ Len(st) \in 0 .. Len(st)
  BY <1>1 DEF Way
<1>3. st = <<>> => Len(st) = 0
  OBVIOUS
<1> QED BY <1>1, <1>2, <1>3 DEF Way

LEMMA OnNothing == ASSUME NEW q, NEW u \in Seq(Characters) PROVE On(q, u, <<>>, 0, <<>>)
<1> DEFINE at == [i \in 0 .. 0 |-> 0]
           left == [i \in 0 .. 0 |-> <<>>]
<1>1. Len(<<>>) = 0 /\ <<>> \in Seq(Frames) /\ <<>> \in Seq(Routes) /\ 0 \in 0 .. Len(u) /\ 1 .. 0 = {}
  OBVIOUS
<1>2. at \in [0 .. 0 -> 0 .. Len(u)] /\ at[0] = 0 /\ left \in [0 .. 0 -> Seq(Routes)] /\ left[0] = <<>>
  BY <1>1
<1> HIDE DEF at, left
<1>3. Way(q, u, <<>>, at, left)
  BY <1>1, <1>2 DEF Way
<1> QED BY <1>1, <1>2, <1>3 DEF On

(* A route that matches at p is pushed.                                    *)
LEMMA OnPush ==
  ASSUME NEW q, NEW u \in Seq(Characters), NEW st, NEW p, NEW l, On(q, u, st, p, l),
         NEW r \in Routes, Height[r] + Len(st) + 1 <= Levels,
         Matches(q.method, r, SubSeq(u, p + 1, Len(u)))
  PROVE  On(q, u, Append(st, Entry(r)), p + Len(Path[r]),
            Ahead(q, u, Entry(r), Levels - (Len(st) + 1), p + Len(Path[r])) \o l)
<1> DEFINE n == Len(st)
           s == Append(st, Entry(r))
           z == p + Len(Path[r])
           k == Ahead(q, u, Entry(r), Levels - (n + 1), z) \o l
<1>1. PICK at, left : Way(q, u, st, at, left) /\ p = at[n] /\ l = left[n]
  BY DEF On
<1>2. st \in Seq(Frames) /\ n \in Nat /\ p \in 0 .. Len(u) /\ l \in Seq(Routes)
  BY OnType
<1>3. Entry(r) \in Frames /\ Entry(r).route = r /\ Entry(r).index = 0
  BY DEF Entry, Frames
<1>4. /\ s \in Seq(Frames) /\ Len(s) = n + 1 /\ s[n + 1] = Entry(r)
      /\ \A i \in 1 .. n : s[i] = st[i]
  BY <1>2, <1>3, AppendProperties
<1>5. Len(Path[r]) \in Nat /\ z \in 0 .. Len(u) /\ Path[r] = SubSeq(u, p + 1, z)
  BY <1>2, Matched
<1>6. Levels \in Nat /\ Height[r] \in Nat /\ Len(Children[r]) \in Nat
  BY LevelsNat, RouteAssumption
<1>7. Levels - (n + 1) \in 0 .. Levels
  BY <1>2, <1>6
<1> HIDE DEF n, s, z
<1>8. k \in Seq(Routes)
  <2>1. Ahead(q, u, Entry(r), Levels - (n + 1), z) \in Seq(Routes)
    BY <1>3, <1>5, <1>7, AheadType
  <2> QED BY <1>2, <2>1, ConcatProperties
<1> HIDE DEF k
<1> DEFINE at2 == [i \in 0 .. n + 1 |-> IF i = n + 1 THEN z ELSE at[i]]
           left2 == [i \in 0 .. n + 1 |-> IF i = n + 1 THEN k ELSE left[i]]
<1>9. /\ at \in [0 .. n -> 0 .. Len(u)] /\ at[0] = 0
      /\ left \in [0 .. n -> Seq(Routes)] /\ left[0] = <<>>
      /\ \A i \in 1 .. n : Step(q, u, st, at, left, i)
  BY <1>1 DEF Way, n
<1>10. /\ at2 \in [0 .. n + 1 -> 0 .. Len(u)] /\ at2[n + 1] = z
       /\ left2 \in [0 .. n + 1 -> Seq(Routes)] /\ left2[n + 1] = k
       /\ \A i \in 0 .. n : at2[i] = at[i] /\ left2[i] = left[i]
  <2>1. \A i \in 0 .. n + 1 : i # n + 1 => i \in 0 .. n
    BY <1>2
  <2>2. n + 1 \in 0 .. n + 1 /\ \A i \in 0 .. n : i \in 0 .. n + 1 /\ i # n + 1
    BY <1>2
  <2> QED BY <1>5, <1>8, <1>9, <2>1, <2>2
<1> HIDE DEF at2, left2
<1>11. ASSUME NEW i \in 1 .. n + 1 PROVE Step(q, u, s, at2, left2, i)
  <2>1. CASE i = n + 1
    <3>1. i - 1 = n /\ n \in 0 .. n
      BY <1>2, <2>1
    <3>2. at2[i] = z /\ at2[i - 1] = p /\ left2[i] = k /\ left2[i - 1] = l /\ s[i] = Entry(r)
      BY <1>1, <1>4, <1>10, <2>1, <3>1
    <3>3. Height[r] + i <= Levels
      BY <1>2, <1>6, <2>1 DEF n
    <3>4. k = Ahead(q, u, Entry(r), Levels - i, z) \o l
      BY <2>1 DEF k
    <3>5. 0 <= Len(Children[r]) /\ z = p + Len(Path[r])
      BY <1>6 DEF z
    <3> QED BY <1>3, <1>5, <3>2, <3>3, <3>4, <3>5 DEF Step
  <2>2. CASE i # n + 1
    <3>1. i \in 1 .. n /\ i \in 0 .. n /\ i - 1 \in 0 .. n
      BY <1>2, <2>2
    <3>2. Step(q, u, st, at, left, i)
      BY <1>9, <3>1
    <3>3. s[i] = st[i] /\ at2[i] = at[i] /\ at2[i - 1] = at[i - 1] /\ left2[i] = left[i] /\ left2[i - 1] = left[i - 1]
      BY <1>4, <1>10, <3>1
    <3> QED BY <3>2, <3>3 DEF Step
  <2> QED BY <2>1, <2>2
<1>12. Way(q, u, s, at2, left2)
  <2>1. 0 \in 0 .. n
    BY <1>2
  <2> QED BY <1>4, <1>9, <1>10, <1>11, <2>1 DEF Way
<1>13. On(q, u, s, z, k)
  BY <1>4, <1>10, <1>12 DEF On
<1> QED BY <1>13 DEF s, z, k, n

-----------------------------------------------------------------------------
LEMMA LastFrame ==
  ASSUME NEW st \in Seq(Frames), st # <<>>
  PROVE  /\ Len(st) \in Nat /\ Len(st) # 0 /\ Last(st) = st[Len(st)] /\ Last(st) \in Frames
         /\ Front(st) \in Seq(Frames) /\ Len(Front(st)) = Len(st) - 1
         /\ \A i \in 1 .. Len(st) - 1 : Front(st)[i] = st[i]
<1>1. Len(st) \in Nat /\ Len(st) # 0
  BY EmptySeq
<1>2. Len(st) \in 1 .. Len(st) /\ 1 \in Int /\ Len(st) - 1 \in Int /\ Len(st) - 1 - 1 + 1 = Len(st) - 1
      /\ (1 <= Len(st) - 1 <=> Len(st) - 1 # 0)
  <2> DEFINE n == Len(st)
  <2>1. n \in Nat /\ n # 0
    BY <1>1
  <2> HIDE DEF n
  <2>2. n \in 1 .. n /\ 1 \in Int /\ n - 1 \in Int /\ n - 1 - 1 + 1 = n - 1
    BY <2>1
  <2>3. 1 <= n - 1 <=> n - 1 # 0
    BY <2>1
  <2> QED BY <2>2, <2>3 DEF n
<1>3. \A i \in 1 .. Len(st) - 1 : st[i] \in Frames
  BY <1>1
<1>4. Last(st) = st[Len(st)] /\ Last(st) \in Frames
  BY <1>2 DEF Last
<1>5. /\ SubSeq(st, 1, Len(st) - 1) \in Seq(Frames)
      /\ Len(SubSeq(st, 1, Len(st) - 1)) = Len(st) - 1
      /\ \A i \in 1 .. Len(st) - 1 - 1 + 1 : SubSeq(st, 1, Len(st) - 1)[i] = st[1 + i - 1]
  BY <1>2, <1>3, SubSeqProperties
<1>6. \A i \in 1 .. Len(st) - 1 : 1 + i - 1 = i
  OBVIOUS
<1> QED BY <1>1, <1>2, <1>4, <1>5, <1>6 DEF Front

Forward(st) == Append(Front(st), Advanced(Last(st)))
Upcoming(st) == NextChild(Last(st))

(* The next child's turn: its route and those below it come first in what  *)
(* is left.                                                                *)
Advances(q, u, st, p, l) ==
  /\ Forward(st) \in Seq(Frames) /\ Len(Forward(st)) = Len(st)
  /\ Upcoming(st) \in Routes /\ Height[Upcoming(st)] + Len(st) + 1 <= Levels
  /\ Levels - Len(st) \in 1 .. Levels
  /\ \E k : /\ On(q, u, Forward(st), p, k)
            /\ l = Walk(q, u)[Levels - Len(st)][Upcoming(st)][p] \o k

LEMMA OnAdvance ==
  ASSUME NEW q, NEW u \in Seq(Characters), NEW st, NEW p, NEW l, On(q, u, st, p, l),
         st # <<>>, Last(st).index < Len(Children[Last(st).route])
  PROVE  Advances(q, u, st, p, l)
<1> DEFINE n == Len(st)
           a == Last(st)
           c == NextChild(a)
           s == Append(Front(st), Advanced(a))
<1>1. PICK at, left : Way(q, u, st, at, left) /\ p = at[n] /\ l = left[n]
  BY DEF On
<1>2. st \in Seq(Frames) /\ p \in 0 .. Len(u) /\ l \in Seq(Routes)
  BY OnType
<1>3. /\ n \in Nat /\ n # 0 /\ a = st[n] /\ a \in Frames
      /\ Front(st) \in Seq(Frames) /\ Len(Front(st)) = n - 1
      /\ \A i \in 1 .. n - 1 : Front(st)[i] = st[i]
  BY <1>2, LastFrame
<1>4. /\ at \in [0 .. n -> 0 .. Len(u)] /\ at[0] = 0
      /\ left \in [0 .. n -> Seq(Routes)] /\ left[0] = <<>>
      /\ \A i \in 1 .. n : Step(q, u, st, at, left, i)
  BY <1>1 DEF Way
<1>5. a.index < Len(Children[a.route])
  OBVIOUS
<1> HIDE DEF n, a, s
<1>6. n \in 0 .. n /\ n \in 1 .. n /\ n - 1 \in 0 .. n
  BY <1>3
<1>7. /\ Height[a.route] + n <= Levels
      /\ at[n] = at[n - 1] + Len(Path[a.route])
      /\ Path[a.route] = SubSeq(u, at[n - 1] + 1, at[n])
      /\ left[n] = Ahead(q, u, a, Levels - n, at[n]) \o left[n - 1]
  BY <1>3, <1>4, <1>6 DEF Step
<1>8. Levels \in Nat /\ a.route \in Routes /\ a.index \in Nat
  BY <1>3, LevelsNat DEF Frames
<1>9. Levels - n \in 0 .. Levels
  <2> DEFINE h == Height[a.route]
  <2>1. h \in Nat
    BY <1>8, RouteAssumption
  <2>2. h + n <= Levels
    BY <1>7
  <2> HIDE DEF h
  <2> QED BY <1>3, <1>8, <2>1, <2>2
<1> DEFINE d == Levels - n
           z == left[n - 1]
<1>a. d \in 0 .. Levels /\ z \in Seq(Routes) /\ left[n] = Ahead(q, u, a, d, at[n]) \o z
  BY <1>4, <1>6, <1>7, <1>9
<1> HIDE DEF d, z, c
<1> DEFINE x == Walk(q, u)[d][c][p]
           y == Ahead(q, u, Advanced(a), d, p)
           k == y \o z
<1>10. /\ Advanced(a) \in Frames /\ Advanced(a).route = a.route /\ Advanced(a).index = a.index + 1
       /\ c \in Routes /\ Height[c] \in Nat /\ Height[a.route] \in Nat /\ Height[c] < Height[a.route]
       /\ x \in Seq(Routes)
       /\ Ahead(q, u, a, d, p) = x \o y
  <2>0. a \in Frames /\ p \in 0 .. Len(u) /\ d \in 0 .. Levels /\ a.index < Len(Children[a.route])
    BY <1>2, <1>3, <1>5, <1>a
  <2> HIDE DEF x, y, k
  <2>1. /\ Advanced(a) \in Frames /\ Advanced(a).route = a.route
        /\ Advanced(a).index = a.index + 1
        /\ NextChild(a) \in Routes
        /\ Height[NextChild(a)] \in Nat /\ Height[a.route] \in Nat
        /\ Height[NextChild(a)] < Height[a.route]
        /\ Walk(q, u)[d][NextChild(a)][p] \in Seq(Routes)
        /\ Ahead(q, u, a, d, p) =
              Walk(q, u)[d][NextChild(a)][p] \o Ahead(q, u, Advanced(a), d, p)
    BY <2>0, AheadMore
  <2> QED BY <2>1 DEF c, x, y
<1>11. y \in Seq(Routes)
  BY <1>2, <1>a, <1>10, AheadType
<1> HIDE DEF x, y
<1>13. k \in Seq(Routes) /\ (x \o y) \o z = x \o k
  <2>1. y \o z \in Seq(Routes)
    BY <1>11, <1>a, ConcatProperties
  <2>0. x \in Seq(Routes) /\ y \in Seq(Routes) /\ z \in Seq(Routes)
    BY <1>10, <1>11, <1>a
  <2> HIDE DEF k
  <2>2. (x \o y) \o z = x \o (y \o z)
    BY <2>0, ConcatAssociative
  <2> QED BY <2>1, <2>2 DEF k
<1>14. l = x \o k
  BY <1>1, <1>a, <1>10, <1>13
<1> HIDE DEF k
<1>15. /\ s \in Seq(Frames) /\ Len(s) = n /\ s[n] = Advanced(a)
       /\ \A i \in 1 .. n - 1 : s[i] = st[i]
  <2>1. /\ Append(Front(st), Advanced(a)) \in Seq(Frames)
        /\ Len(Append(Front(st), Advanced(a))) = (n - 1) + 1
        /\ \A i \in 1 .. n - 1 : Append(Front(st), Advanced(a))[i] = Front(st)[i]
        /\ Append(Front(st), Advanced(a))[(n - 1) + 1] = Advanced(a)
    BY <1>3, <1>10, AppendProperties
  <2>2. (n - 1) + 1 = n
    BY <1>3
  <2> QED BY <1>3, <2>1, <2>2 DEF s
<1> DEFINE left2 == [left EXCEPT ![n] = k]
<1>16. /\ left2 \in [0 .. n -> Seq(Routes)] /\ left2[n] = k
       /\ \A i \in 0 .. n - 1 : left2[i] = left[i]
  <2>1. \A i \in 0 .. n - 1 : i \in 0 .. n /\ i # n
    BY <1>3
  <2> QED BY <1>4, <1>6, <1>13, <2>1
<1> HIDE DEF left2
<1>17. ASSUME NEW i \in 1 .. n PROVE Step(q, u, s, at, left2, i)
  <2>1. CASE i = n
    <3>1. n - 1 \in 0 .. n - 1
      BY <1>3
    <3>2. s[i] = Advanced(a) /\ left2[i] = k /\ left2[i - 1] = z
      BY <1>15, <1>16, <2>1, <3>1 DEF z
    <3>3. Advanced(a).index <= Len(Children[a.route])
      <4>1. Len(Children[a.route]) \in Nat
        BY <1>8, RouteAssumption
      <4> QED BY <1>5, <1>8, <1>10, <4>1
    <3>4. k = Ahead(q, u, Advanced(a), Levels - n, at[n]) \o z
      BY <1>1 DEF k, y, d
    <3> QED BY <1>7, <1>10, <2>1, <3>2, <3>3, <3>4 DEF Step
  <2>2. CASE i # n
    <3>1. i \in 1 .. n - 1 /\ i \in 0 .. n - 1 /\ i - 1 \in 0 .. n - 1
      BY <1>3, <2>2
    <3>2. Step(q, u, st, at, left, i)
      BY <1>4
    <3>3. s[i] = st[i] /\ left2[i] = left[i] /\ left2[i - 1] = left[i - 1]
      BY <1>15, <1>16, <3>1
    <3> QED BY <3>2, <3>3 DEF Step
  <2> QED BY <2>1, <2>2
<1>18. Way(q, u, s, at, left2)
  <2>1. 0 \in 0 .. n - 1
    BY <1>3
  <2> QED BY <1>4, <1>15, <1>16, <1>17, <2>1 DEF Way
<1>19. On(q, u, s, p, k)
  BY <1>1, <1>15, <1>16, <1>18 DEF On
<1>20. Levels - n \in 1 .. Levels /\ Height[c] + n + 1 <= Levels
  <2> DEFINE h == Height[a.route]
             g == Height[c]
  <2>1. h \in Nat /\ g \in Nat /\ g < h /\ h + n <= Levels
    BY <1>7, <1>10
  <2> HIDE DEF h, g
  <2>2. Levels - n \in 1 .. Levels /\ g + n + 1 <= Levels
    BY <1>3, <1>8, <2>1
  <2> QED BY <2>2 DEF g
<1> QED BY <1>14, <1>15, <1>19, <1>20, <1>10 DEF Advances, Forward, Upcoming, s, a, n, c, x, d

(* When all have had their turn, the route is left.                        *)
LEMMA OnPop ==
  ASSUME NEW q, NEW u \in Seq(Characters), NEW st, NEW p, NEW l, On(q, u, st, p, l),
         st # <<>>, Last(st).index = Len(Children[Last(st).route])
  PROVE  On(q, u, Front(st), p - Len(Path[Last(st).route]), l)
<1> DEFINE n == Len(st)
           a == Last(st)
           s == Front(st)
<1>1. PICK at, left : Way(q, u, st, at, left) /\ p = at[n] /\ l = left[n]
  BY DEF On
<1>2. st \in Seq(Frames) /\ p \in 0 .. Len(u) /\ l \in Seq(Routes)
  BY OnType
<1>3. /\ n \in Nat /\ n # 0 /\ a = st[n] /\ a \in Frames
      /\ s \in Seq(Frames) /\ Len(s) = n - 1
      /\ \A i \in 1 .. n - 1 : s[i] = st[i]
  BY <1>2, LastFrame
<1>4. /\ at \in [0 .. n -> 0 .. Len(u)] /\ at[0] = 0
      /\ left \in [0 .. n -> Seq(Routes)] /\ left[0] = <<>>
      /\ \A i \in 1 .. n : Step(q, u, st, at, left, i)
  BY <1>1 DEF Way
<1>5. a.index = Len(Children[a.route])
  OBVIOUS
<1> HIDE DEF n, a, s
<1>6. n \in 0 .. n /\ n \in 1 .. n /\ n - 1 \in 0 .. n
  BY <1>3
<1>7. /\ at[n] = at[n - 1] + Len(Path[a.route])
      /\ left[n] = Ahead(q, u, a, Levels - n, at[n]) \o left[n - 1]
  BY <1>3, <1>4, <1>6 DEF Step
<1>8. left[n - 1] \in Seq(Routes) /\ at[n - 1] \in 0 .. Len(u) /\ Len(Path[a.route]) \in Nat
  <2>1. a.route \in Routes
    BY <1>3 DEF Frames
  <2> QED BY <1>4, <1>6, <2>1, RouteAssumption
<1>9. Ahead(q, u, a, Levels - n, at[n]) = <<>>
  BY <1>3, <1>5, AheadNone
<1>10. l = left[n - 1] /\ p - Len(Path[a.route]) = at[n - 1]
  <2> DEFINE z == left[n - 1]
             b == at[n - 1]
             j == Len(Path[a.route])
  <2>1. z \in Seq(Routes) /\ b \in 0 .. Len(u) /\ j \in Nat /\ l = <<>> \o z /\ p = b + j
    BY <1>1, <1>7, <1>8, <1>9
  <2> HIDE DEF z, b, j
  <2>2. l = z
    BY <2>1, ConcatEmptySeq
  <2>3. p - j = b
    BY <2>1
  <2> QED BY <2>2, <2>3 DEF z, b, j
<1> DEFINE at2 == [i \in 0 .. n - 1 |-> at[i]]
           left2 == [i \in 0 .. n - 1 |-> left[i]]
<1>11. /\ at2 \in [0 .. n - 1 -> 0 .. Len(u)] /\ left2 \in [0 .. n - 1 -> Seq(Routes)]
       /\ \A i \in 0 .. n - 1 : at2[i] = at[i] /\ left2[i] = left[i]
  <2>1. \A i \in 0 .. n - 1 : i \in 0 .. n
    BY <1>3
  <2> QED BY <1>4, <2>1
<1> HIDE DEF at2, left2
<1>12. ASSUME NEW i \in 1 .. n - 1 PROVE Step(q, u, s, at2, left2, i)
  <2>1. i \in 1 .. n /\ i \in 0 .. n - 1 /\ i - 1 \in 0 .. n - 1
    BY <1>3
  <2>2. Step(q, u, st, at, left, i)
    BY <1>4, <2>1
  <2>3. s[i] = st[i] /\ at2[i] = at[i] /\ at2[i - 1] = at[i - 1] /\ left2[i] = left[i] /\ left2[i - 1] = left[i - 1]
    BY <1>3, <1>11, <2>1
  <2> QED BY <2>2, <2>3 DEF Step
<1>13. 0 \in 0 .. n - 1 /\ n - 1 \in 0 .. n - 1
  BY <1>3
<1>14. Way(q, u, s, at2, left2)
  BY <1>3, <1>4, <1>11, <1>12, <1>13 DEF Way
<1>15. On(q, u, s, at[n - 1], left[n - 1])
  <2> DEFINE m == n - 1
  <2>1. Len(s) = m /\ m \in 0 .. m /\ \A i \in 0 .. m : at2[i] = at[i] /\ left2[i] = left[i]
    BY <1>3, <1>11, <1>13
  <2> HIDE DEF m
  <2>2. at2[Len(s)] = at[m] /\ left2[Len(s)] = left[m]
    BY <2>1
  <2>3. On(q, u, s, at[m], left[m])
    BY <1>14, <2>2 DEF On
  <2> QED BY <2>3 DEF m
<1> QED BY <1>10, <1>15 DEF s, a

(* The place is the one behind the paths on the stack.                     *)
Paths(st) == [i \in DOMAIN st |-> Path[st[i].route]]

LEMMA WaySpells ==
  ASSUME NEW q, NEW u \in Seq(Characters), NEW st, NEW p, NEW l, On(q, u, st, p, l)
  PROVE  SubSeq(u, 1, p) = FlattenSeq(Paths(st))
<1> DEFINE n == Len(st)
           paths(m) == [i \in 1 .. m |-> Path[st[i].route]]
<1>1. PICK at, left : Way(q, u, st, at, left) /\ p = at[n] /\ l = left[n]
  BY DEF On
<1>2. st \in Seq(Frames) /\ n \in Nat /\ DOMAIN st = 1 .. n
  BY OnType
<1>3. /\ at \in [0 .. n -> 0 .. Len(u)] /\ at[0] = 0
      /\ \A i \in 1 .. n : Step(q, u, st, at, left, i)
  BY <1>1 DEF Way
<1> HIDE DEF n
<1>4. \A i \in 1 .. n : st[i].route \in Routes /\ Path[st[i].route] \in Seq(Characters)
  <2>1. \A i \in 1 .. n : st[i] \in Frames
    BY <1>2
  <2>2. \A i \in 1 .. n : st[i].route \in Routes
    BY <2>1 DEF Frames
  <2> QED BY <2>2, RouteAssumption
<1>5. ASSUME NEW m \in 0 .. n PROVE paths(m) \in Seq(Seq(Characters)) /\ Len(paths(m)) = m
  <2>1. \A i \in 1 .. m : Path[st[i].route] \in Seq(Characters)
    BY <1>2, <1>4
  <2> QED BY <1>2, <2>1
<1> DEFINE T == {m \in 0 .. n : SubSeq(u, 1, at[m]) = FlattenSeq(paths(m))}
<1>6. 0 \in T
  <2>1. SubSeq(u, 1, 0) = <<>>
    BY SubSeqEmpty
  <2>2. paths(0) \in Seq(Seq(Characters)) /\ Len(paths(0)) = 0 /\ 0 \in 0 .. n
    BY <1>2, <1>5
  <2> HIDE DEF paths
  <2>3. paths(0) = <<>>
    BY <2>2, EmptySeq
  <2>4. SubSeq(u, 1, at[0]) = FlattenSeq(paths(0))
    BY <1>3, <2>1, <2>3, FlattenEmpty
  <2> QED BY <2>2, <2>4
<1>7. ASSUME NEW m \in 1 .. n, m - 1 \in T PROVE m \in T
  <2>1. m - 1 \in 0 .. n /\ m \in 0 .. n
    BY <1>2
  <2>2. SubSeq(u, 1, at[m - 1]) = FlattenSeq(paths(m - 1))
    BY <1>7
  <2>3. at[m] = at[m - 1] + Len(Path[st[m].route]) /\ Path[st[m].route] = SubSeq(u, at[m - 1] + 1, at[m])
    BY <1>3 DEF Step
  <2>4. at[m - 1] \in 0 .. Len(u) /\ at[m] \in 0 .. Len(u) /\ at[m - 1] <= at[m]
    <3>1. Len(Path[st[m].route]) \in Nat
      BY <1>4
    <3>2. at[m - 1] \in 0 .. Len(u) /\ at[m] \in 0 .. Len(u)
      BY <1>3, <2>1
    <3> DEFINE b == at[m - 1]
               e == at[m]
               h == Len(Path[st[m].route])
    <3>3. b \in 0 .. Len(u) /\ e \in 0 .. Len(u) /\ h \in Nat /\ e = b + h
      BY <2>3, <3>1, <3>2
    <3> HIDE DEF b, e, h
    <3>4. b <= e
      BY <3>3
    <3> QED BY <3>3, <3>4 DEF b, e
  <2>5. SubSeq(u, 1, at[m]) = SubSeq(u, 1, at[m - 1]) \o SubSeq(u, at[m - 1] + 1, at[m])
    <3>1. at[m - 1] \in 1 - 1 .. Len(u) /\ at[m] \in at[m - 1] .. Len(u) /\ 1 \in 1 .. Len(u) + 1
      BY <2>4
    <3> QED BY <3>1, ConcatAdjacentSubSeq
  <2>6. paths(m) = Append(paths(m - 1), Path[st[m].route])
    <3>1. paths(m - 1) \in Seq(Seq(Characters)) /\ Len(paths(m - 1)) = m - 1
      BY <1>5, <2>1
    <3>2. paths(m) \in Seq(Seq(Characters)) /\ Len(paths(m)) = m
      BY <1>5, <2>1
    <3>3. \A i \in 1 .. m - 1 : paths(m)[i] = paths(m - 1)[i]
      BY <2>1
    <3>4. paths(m)[m] = Path[st[m].route]
      OBVIOUS
    <3> HIDE DEF paths
    <3> DEFINE w == Append(paths(m - 1), Path[st[m].route])
    <3>5. /\ w \in Seq(Seq(Characters)) /\ Len(w) = (m - 1) + 1
          /\ \A i \in 1 .. m - 1 : w[i] = paths(m - 1)[i]
          /\ w[(m - 1) + 1] = Path[st[m].route]
      BY <1>4, <3>1, AppendProperties
    <3>6. (m - 1) + 1 = m /\ \A i \in 1 .. m : i # m => i \in 1 .. m - 1
      OBVIOUS
    <3> HIDE DEF w
    <3>7. Len(w) = m /\ \A i \in 1 .. m : paths(m)[i] = w[i]
      BY <3>3, <3>4, <3>5, <3>6
    <3>8. paths(m) = w
      BY <3>2, <3>5, <3>7, SeqEqual
    <3> QED BY <3>8 DEF w
  <2>7. paths(m - 1) \in Seq(Seq(Characters))
    BY <1>5, <2>1
  <2> HIDE DEF paths
  <2>8. FlattenSeq(paths(m)) = FlattenSeq(paths(m - 1)) \o Path[st[m].route]
    BY <1>4, <2>6, <2>7, FlattenAppend
  <2>9. SubSeq(u, 1, at[m]) = FlattenSeq(paths(m))
    BY <2>2, <2>3, <2>5, <2>8
  <2> QED BY <2>1, <2>9
<1> HIDE DEF T
<1>8. 0 .. n \subseteq T
  BY <1>2, <1>6, <1>7, UpTo
<1>9. n \in T
  BY <1>2, <1>8
<1> QED BY <1>1, <1>2, <1>9 DEF Paths, T, n

-----------------------------------------------------------------------------
(* The routes that had the transaction and those that are left are those   *)
(* of the walk.                                                            *)
Placed(q, u, st, p, given) ==
  \E l : On(q, u, st, p, l) /\ given \o l = Visits(q, u)

RoutingInv ==
  /\ request \in Requests /\ url = Normalized(request.url)
  /\ phase \in {"new", "routing", "user"}
  /\ charge \in Routes \cup {NULL}
  /\ calls \in Seq(Routes) /\ applied \in Seq(Routes)
  /\ phase = "new" => stack = <<>> /\ pos = 0 /\ applied = <<>>
  /\ phase # "new" => Placed(request, url, stack, pos, applied)

LEMMA RequestUrl ==
  ASSUME request \in Requests, url = Normalized(request.url)
  PROVE  url \in Seq(Characters) /\ OnlyLastDoubled
<1>1. request.url \in Seq(Characters)
  BY RouteAssumption
<1>2. url \in Seq(Characters) /\ (Dotted(request.url) \/ Apart(url))
  BY <1>1, NormalizedUrl
<1> QED BY <1>2 DEF OnlyLastDoubled, Dotted, Apart

LEMMA VisitsType ==
  ASSUME NEW q, NEW u \in Seq(Characters)
  PROVE  Visits(q, u) \in Seq(Routes)
<1>1. Levels \in 0 .. Levels /\ 0 \in 0 .. Len(u) /\ Root \in Routes
  BY LevelsNat, RouteAssumption
<1>2. Walk(q, u)[Levels] \in Tables(u) /\ Visits(q, u) = Walk(q, u)[Levels][Root][0]
  BY <1>1, WalkIs
<1> QED BY <1>1, <1>2 DEF Tables

LEMMA PlacedPrefix ==
  ASSUME NEW S, NEW a \in Seq(S), NEW l \in Seq(S)
  PROVE  IsPrefix(a, a \o l)
<1> DEFINE c == a \o l
           n == Len(a)
<1>1. n \in Nat /\ Len(l) \in Nat /\ 1 \in Int /\ n \in Int /\ n - 1 + 1 = n
      /\ (1 <= n <=> n # 0)
  <2>1. n \in Nat /\ Len(l) \in Nat
    OBVIOUS
  <2> HIDE DEF n
  <2> QED BY <2>1
<1>2. /\ c \in Seq(S) /\ Len(c) = n + Len(l)
      /\ \A i \in 1 .. n + Len(l) : c[i] = IF i <= n THEN a[i] ELSE l[i - n]
  BY ConcatProperties
<1> HIDE DEF c
<1>3. SubSeq(a, 1, n) = a
  BY SubSeqFull
<1>4. \A i \in 1 .. n : c[i] \in S /\ c[i] = a[i]
  <2>1. \A i \in 1 .. n : i \in 1 .. n + Len(l) /\ i <= n /\ a[i] \in S
    BY <1>1
  <2> QED BY <1>2, <2>1
<1>5. /\ SubSeq(c, 1, n) \in Seq(S) /\ Len(SubSeq(c, 1, n)) = n
      /\ \A i \in 1 .. n - 1 + 1 : SubSeq(c, 1, n)[i] = c[1 + i - 1]
  BY <1>1, <1>4, SubSeqProperties
<1>6. \A i \in 1 .. n : SubSeq(c, 1, n)[i] = a[i]
  <2>1. \A i \in 1 .. n : i \in 1 .. n - 1 + 1 /\ 1 + i - 1 = i
    BY <1>1
  <2> QED BY <1>4, <1>5, <2>1
<1>7. SubSeq(c, 1, n) = a
  BY <1>5, <1>6, SeqEqual
<1>8. n <= Len(c)
  BY <1>1, <1>2
<1> QED BY <1>3, <1>7, <1>8 DEF IsPrefix, c, n

LEMMA PlacedIs ==
  ASSUME RoutingInv, tr.state \in HEAD .. END, tr.refs \in Int, tr.pooled \in Nat
  PROVE  VisitsInOrder
<1>1. url \in Seq(Characters) /\ OnlyLastDoubled
  BY RequestUrl DEF RoutingInv
<1>2. PICK l : /\ On(request, url, stack, pos, l)
               /\ phase # "new" => applied \o l = Expected
               /\ phase = "new" => applied = <<>>
  <2>1. CASE phase = "new"
    <3>1. On(request, url, stack, pos, <<>>)
      BY <1>1, <2>1, OnNothing DEF RoutingInv
    <3> QED BY <2>1, <3>1 DEF RoutingInv
  <2>2. CASE phase # "new"
    BY <2>2 DEF RoutingInv, Placed, Expected
  <2> QED BY <2>1, <2>2
<1>3. stack \in Seq(Frames) /\ Len(stack) \in Nat /\ l \in Seq(Routes) /\ (stack = <<>> => l = <<>>)
  BY <1>2, OnType
<1>4. PositionFollowsStack
  <2>1. On(request, url, stack, pos, l)
    BY <1>2
  <2>2. SubSeq(url, 1, pos) = FlattenSeq(Paths(stack))
    BY <1>1, <2>1, WaySpells
  <2> QED BY <2>2 DEF PositionFollowsStack, Paths
<1>5. \A i \in DOMAIN stack :
        stack[i].route \in Routes /\ stack[i].index \in 0 .. Len(Children[stack[i].route])
  <2>1. PICK at, left : Way(request, url, stack, at, left)
    BY <1>2 DEF On
  <2>2. ASSUME NEW i \in DOMAIN stack
        PROVE  stack[i].route \in Routes /\ stack[i].index \in 0 .. Len(Children[stack[i].route])
    <3>1. i \in 1 .. Len(stack) /\ stack[i] \in Frames
      BY <1>3
    <3>2. stack[i].index <= Len(Children[stack[i].route])
      BY <2>1, <3>1 DEF Way, Step
    <3>3. stack[i].route \in Routes /\ stack[i].index \in Nat
      BY <3>1 DEF Frames
    <3>4. Len(Children[stack[i].route]) \in Nat
      BY <3>3, RouteAssumption
    <3> DEFINE k == stack[i].index
               h == Len(Children[stack[i].route])
    <3>5. k \in Nat /\ h \in Nat /\ k <= h
      BY <3>2, <3>3, <3>4
    <3> HIDE DEF k, h
    <3>6. k \in 0 .. h
      BY <3>5
    <3> QED BY <3>3, <3>6 DEF k, h
  <2> QED BY <2>2
<1>6. TypeOK
  <2>1. ToSet(calls) \cup ToSet(applied) \subseteq Routes
    BY DEF RoutingInv, ToSet
  <2> QED BY <1>5, <2>1 DEF TypeOK, RoutingInv
<1>7. applied \in Seq(Routes)
  BY DEF RoutingInv
<1>8. IsPrefix(applied, Expected)
  <2>1. CASE phase # "new"
    BY <1>2, <1>3, <1>7, <2>1, PlacedPrefix
  <2>2. CASE phase = "new"
    <3>1. Expected \in Seq(Routes) /\ <<>> \in Seq(Routes)
      BY <1>1, VisitsType DEF Expected
    <3>2. <<>> \o Expected = Expected
      BY <3>1, ConcatEmptySeq
    <3> QED BY <1>2, <2>2, <3>1, <3>2, PlacedPrefix
  <2> QED BY <2>1, <2>2
<1>9. phase = "user" /\ stack = <<>> => applied = Expected
  <2> SUFFICES ASSUME phase = "user", stack = <<>> PROVE applied = Expected
    OBVIOUS
  <2>1. applied \o <<>> = Expected
    BY <1>2, <1>3
  <2> QED BY <1>7, <2>1, ConcatEmptySeq
<1> QED BY <1>1, <1>4, <1>6, <1>8, <1>9 DEF VisitsInOrder

Regroups(a, b, c, d) == (a \o b) \o (c \o d) = a \o ((b \o c) \o d)

LEMMA Regroup ==
  ASSUME NEW S, NEW a \in Seq(S), NEW b \in Seq(S), NEW c \in Seq(S), NEW d \in Seq(S)
  PROVE  Regroups(a, b, c, d)
<1>1. c \o d \in Seq(S)
  BY ConcatProperties
<1>2. (a \o b) \o (c \o d) = a \o (b \o (c \o d))
  BY <1>1, ConcatAssociative
<1>3. (b \o c) \o d = b \o (c \o d)
  BY ConcatAssociative
<1> QED BY <1>2, <1>3, Zenon DEF Regroups

(* The route whose turn it is goes first.                                  *)
LEMMA PlacedPush ==
  ASSUME NEW q, NEW u \in Seq(Characters), NEW st, NEW p, NEW k, On(q, u, st, p, k),
         NEW r \in Routes, Height[r] + Len(st) + 1 <= Levels, Levels - Len(st) \in 1 .. Levels,
         Matches(q.method, r, SubSeq(u, p + 1, Len(u))),
         NEW given \in Seq(Routes),
         given \o (Walk(q, u)[Levels - Len(st)][r][p] \o k) = Visits(q, u)
  PROVE  Placed(q, u, Append(st, Entry(r)), p + Len(Path[r]), given \o Own(r))
<1> DEFINE n == Len(st)
           d == Levels - n
           z == p + Len(Path[r])
           a == Ahead(q, u, Entry(r), d - 1, z)
<1>1. st \in Seq(Frames) /\ n \in Nat /\ p \in 0 .. Len(u) /\ k \in Seq(Routes)
  BY OnType
<1>2. d - 1 = Levels - (n + 1) /\ d - 1 \in 0 .. Levels /\ d \in 1 .. Levels
  <2>1. d \in 1 .. Levels /\ n \in Nat /\ Levels \in Nat
    BY <1>1, LevelsNat
  <2> HIDE DEF n
  <2> QED BY <2>1
<1>3. On(q, u, Append(st, Entry(r)), z, Ahead(q, u, Entry(r), Levels - (n + 1), z) \o k)
  BY OnPush
<1>4. /\ Entry(r) \in Frames /\ Walk(q, u)[d][r][p] = Own(r) \o a
  <2>0. p \in 0 .. Len(u) /\ d \in 1 .. Levels
    BY <1>1, <1>2
  <2> HIDE DEF d
  <2>1. /\ Entry(r) \in Frames /\ Entry(r).route = r /\ Entry(r).index = 0
        /\ Walk(q, u)[d][r][p] = Own(r) \o Ahead(q, u, Entry(r), d - 1, p + Len(Path[r]))
    BY <2>0, Entered
  <2> QED BY <2>1
<1>5. z \in 0 .. Len(u)
  BY <1>1, Matched
<1>6. a \in Seq(Routes)
  BY <1>2, <1>4, <1>5, AheadType
<1>7. On(q, u, Append(st, Entry(r)), z, a \o k)
  BY <1>2, <1>3
<1>8. given \o ((Own(r) \o a) \o k) = Visits(q, u)
  BY <1>4
<1> HIDE DEF a, z, d, n
<1>9. Own(r) \in Seq(Routes)
  BY DEF Own
<1>10. (given \o Own(r)) \o (a \o k) = Visits(q, u)
  <2> DEFINE o == Own(r)
  <2>1. o \in Seq(Routes) /\ a \in Seq(Routes) /\ k \in Seq(Routes) /\ given \in Seq(Routes)
    BY <1>1, <1>6, <1>9
  <2> HIDE DEF o
  <2>2. Regroups(given, o, a, k)
    BY <2>1, Regroup
  <2> QED BY <1>8, <2>2 DEF o, Regroups
<1> QED BY <1>7, <1>10 DEF Placed, z

(* Push, as a step.                                                        *)
LEMMA PushKeeps ==
  ASSUME RoutingInv, NEW st, NEW k, On(request, url, st, pos, k),
         NEW r \in Routes, Height[r] + Len(st) + 1 <= Levels, Levels - Len(st) \in 1 .. Levels,
         Matches(request.method, r, RouteUrl),
         applied \o (Walk(request, url)[Levels - Len(st)][r][pos] \o k) = Visits(request, url),
         Push(st, r), UNCHANGED <<request, url>>
  PROVE  RoutingInv'
<1>1. url \in Seq(Characters)
  BY RequestUrl DEF RoutingInv
<1>2. applied \in Seq(Routes)
  BY DEF RoutingInv
<1>3. Placed(request, url, Append(st, Entry(r)), pos + Len(Path[r]), applied \o Own(r))
  BY <1>1, <1>2, PlacedPush DEF RouteUrl
<1>4. stack' = Append(st, Entry(r)) /\ pos' = pos + Len(Path[r]) /\ applied' = applied \o Own(r)
  <2>1. stack' = Append(st, Entry(r)) /\ pos' = pos + Len(Path[r])
    BY DEF Push, Entry
  <2>2. CASE Target[r]
    <3>1. applied' = Append(applied, r) /\ Own(r) = <<r>>
      BY <2>2 DEF Push, Own
    <3> QED BY <1>2, <2>1, <3>1, AppendIsConcat
  <2>3. CASE ~Target[r]
    <3>1. applied' = applied /\ Own(r) = <<>>
      BY <2>3 DEF Push, Own
    <3> QED BY <1>2, <2>1, <3>1, ConcatEmptySeq
  <2> QED BY <2>2, <2>3
<1>5. Placed(request, url, stack, pos, applied)'
  BY <1>3, <1>4
<1>6. /\ phase' \in {"routing", "user"} /\ charge' \in Routes \cup {NULL}
      /\ calls' \in Seq(Routes)
  <2>1. calls \in Seq(Routes) /\ charge \in Routes \cup {NULL}
    BY DEF RoutingInv
  <2>2. \/ phase' = "user" /\ calls' = Append(calls, r) /\ charge' = r
        \/ phase' = "routing" /\ calls' = calls /\ charge' = charge
    BY DEF Push
  <2>3. Append(calls, r) \in Seq(Routes)
    BY <2>1, AppendProperties
  <2> QED BY <2>1, <2>2, <2>3
<1>7. applied' \in Seq(Routes)
  <2>1. Own(r) \in Seq(Routes)
    BY DEF Own
  <2> QED BY <1>2, <1>4, <2>1, ConcatProperties
<1>8. phase' # "new"
  BY <1>6
<1> QED BY <1>5, <1>6, <1>7, <1>8 DEF RoutingInv

LEMMA StartKeeps == ASSUME RoutingInv, Start PROVE RoutingInv'
<1>1. url \in Seq(Characters) /\ Len(url) \in Nat /\ 0 \in 0 .. Len(url)
  BY RequestUrl DEF RoutingInv
<1>2. stack = <<>> /\ pos = 0 /\ applied = <<>> /\ phase = "new" /\ UNCHANGED <<request, url>>
  BY DEF RoutingInv, Start
<1>3. SubSeq(url, 0 + 1, Len(url)) = url
  BY <1>1, SubSeqFull
<1>4. On(request, url, <<>>, 0, <<>>)
  BY <1>1, OnNothing
<1>5. Levels \in 0 .. Levels /\ Levels \in 1 .. Levels /\ Root \in Routes /\ Levels = Height[Root] + 1
  <2>1. Height[Root] \in Nat /\ Root \in Routes
    BY RouteAssumption
  <2> QED BY <2>1 DEF Levels
<1>6. /\ Walk(request, url)[Levels] \in Tables(url)
      /\ Visits(request, url) = Walk(request, url)[Levels][Root][0]
  BY <1>1, <1>5, WalkIs
<1>7. Walk(request, url)[Levels][Root][0] \in Seq(Routes)
  BY <1>1, <1>5, <1>6 DEF Tables
<1>8. CASE Matches(request.method, Root, url)
  <2>1. Push(<<>>, Root)
    BY <1>8 DEF Start
  <2> DEFINE w == Walk(request, url)[Levels][Root][0]
  <2>2. w = Visits(request, url) /\ w \in Seq(Routes)
    BY <1>6, <1>7
  <2> HIDE DEF w
  <2>3. <<>> \o (w \o <<>>) = Visits(request, url)
    <3>1. w \o <<>> = w /\ <<>> \o w = w
      BY <2>2, ConcatEmptySeq
    <3> QED BY <2>2, <3>1
  <2>4. Len(<<>>) = 0 /\ Levels - 0 = Levels /\ Height[Root] + 0 + 1 <= Levels
    <3>1. Height[Root] \in Nat /\ Levels \in Nat
      BY LevelsNat, RouteAssumption
    <3> QED BY <1>5, <3>1
  <2>5. applied \o (Walk(request, url)[Levels - Len(<<>>)][Root][pos] \o <<>>) = Visits(request, url)
    BY <1>2, <2>3, <2>4 DEF w
  <2>6. On(request, url, <<>>, pos, <<>>) /\ Matches(request.method, Root, RouteUrl)
    BY <1>2, <1>3, <1>4, <1>8 DEF RouteUrl
  <2>7. Height[Root] + Len(<<>>) + 1 <= Levels /\ Levels - Len(<<>>) \in 1 .. Levels
    BY <1>5, <2>4
  <2> QED BY <1>2, <1>5, <2>1, <2>5, <2>6, <2>7, PushKeeps
<1>9. CASE ~Matches(request.method, Root, url)
  <2>1. NoRoute
    BY <1>9 DEF Start
  <2>2. Walk(request, url)[Levels][Root][0] = <<>>
    <3>1. ~Matches(request.method, Root, SubSeq(url, 0 + 1, Len(url)))
      BY <1>3, <1>9
    <3> QED BY <1>1, <1>5, <3>1, Passed
  <2>3. <<>> \o <<>> = Visits(request, url)
    BY <1>6, <2>2
  <2>4. Placed(request, url, <<>>, 0, <<>>)
    BY <1>4, <2>3 DEF Placed
  <2>5. /\ phase' = "user" /\ charge' = NULL /\ UNCHANGED <<stack, pos, calls, applied, request, url>>
    BY <1>2, <2>1 DEF NoRoute
  <2>6. Placed(request, url, stack, pos, applied)'
    BY <1>2, <2>4, <2>5
  <2> QED BY <2>5, <2>6 DEF RoutingInv
<1> QED BY <1>8, <1>9

LEMMA PopKeeps == ASSUME RoutingInv, Pop PROVE RoutingInv'
<1>1. url \in Seq(Characters)
  BY RequestUrl DEF RoutingInv
<1>2. /\ phase = "routing" /\ stack # <<>> /\ Last(stack).index = Len(Children[Last(stack).route])
      /\ stack' = Front(stack) /\ pos' = pos - Len(Path[Last(stack).route])
      /\ UNCHANGED <<request, url, phase, calls, charge, applied>>
  BY DEF Pop, Current, CurrentLength
<1>3. PICK l : On(request, url, stack, pos, l) /\ applied \o l = Visits(request, url)
  BY <1>2 DEF RoutingInv, Placed
<1>4. On(request, url, Front(stack), pos - Len(Path[Last(stack).route]), l)
  BY <1>1, <1>2, <1>3, OnPop
<1>5. Placed(request, url, stack, pos, applied)'
  BY <1>2, <1>3, <1>4 DEF Placed
<1> QED BY <1>2, <1>5 DEF RoutingInv

LEMMA TryKeeps == ASSUME RoutingInv, TryChild PROVE RoutingInv'
<1> DEFINE r == Upcoming(stack)
           s == Forward(stack)
<1>1. url \in Seq(Characters)
  BY RequestUrl DEF RoutingInv
<1>2. /\ phase = "routing" /\ stack # <<>> /\ Last(stack).index < Len(Children[Last(stack).route])
      /\ UNCHANGED <<request, url>>
      /\ \/ Matches(request.method, r, RouteUrl) /\ Push(s, r)
         \/ /\ ~Matches(request.method, r, RouteUrl)
            /\ stack' = s
            /\ UNCHANGED <<pos, phase, calls, charge, applied>>
  BY DEF TryChild, Current, Upcoming, NextChild, Forward, Advanced
<1>3. PICK l : On(request, url, stack, pos, l) /\ applied \o l = Visits(request, url)
  BY <1>2 DEF RoutingInv, Placed
<1>4. PICK k :
        /\ s \in Seq(Frames) /\ Len(s) = Len(stack)
        /\ r \in Routes /\ Height[r] + Len(stack) + 1 <= Levels
        /\ Levels - Len(stack) \in 1 .. Levels
        /\ On(request, url, s, pos, k)
        /\ l = Walk(request, url)[Levels - Len(stack)][r][pos] \o k
  <2> HIDE DEF r, s
  <2>1. /\ url \in Seq(Characters) /\ On(request, url, stack, pos, l)
        /\ stack # <<>> /\ Last(stack).index < Len(Children[Last(stack).route])
    BY <1>1, <1>2, <1>3
  <2>2. Advances(request, url, stack, pos, l)
    BY <2>1, OnAdvance
  <2> QED BY <2>2 DEF Advances, r, s
<1> HIDE DEF r, s
<1>5. /\ Height[r] + Len(s) + 1 <= Levels /\ Levels - Len(s) \in 1 .. Levels
      /\ applied \o (Walk(request, url)[Levels - Len(s)][r][pos] \o k) = Visits(request, url)
  BY <1>3, <1>4
<1>6. CASE Matches(request.method, r, RouteUrl) /\ Push(s, r)
  BY <1>2, <1>4, <1>5, <1>6, PushKeeps
<1>7. CASE ~Matches(request.method, r, RouteUrl) /\ stack' = s
           /\ UNCHANGED <<pos, phase, calls, charge, applied>>
  <2>1. pos \in 0 .. Len(url) /\ k \in Seq(Routes)
    BY <1>4, OnType
  <2>2. Walk(request, url)[Levels - Len(s)][r][pos] = <<>>
    BY <1>1, <1>4, <1>5, <1>7, <2>1, Passed DEF RouteUrl
  <2>3. applied \o k = Visits(request, url)
    BY <1>5, <2>1, <2>2, ConcatEmptySeq
  <2>4. Placed(request, url, s, pos, applied)
    BY <1>4, <2>3 DEF Placed
  <2>5. Placed(request, url, stack, pos, applied)'
    BY <1>2, <1>7, <2>4
  <2> QED BY <1>2, <1>7, <2>5 DEF RoutingInv
<1> QED BY <1>2, <1>6, <1>7

LEMMA FrontOfRoutes ==
  ASSUME NEW S, NEW s \in Seq(S), s # <<>>
  PROVE  Front(s) \in Seq(S)
<1> DEFINE n == Len(s)
<1>1. n \in Nat /\ \A i \in 1 .. n : s[i] \in S
  OBVIOUS
<1> HIDE DEF n
<1>2. 1 \in Int /\ n - 1 \in Int /\ \A i \in 1 .. n - 1 : s[i] \in S
  BY <1>1
<1>3. SubSeq(s, 1, n - 1) \in Seq(S)
  BY <1>2, SubSeqProperties
<1> QED BY <1>3 DEF Front, n

LEMMA RoutingInit == Init => RoutingInv
BY DEF Init, RoutingInv

LEMMA RoutingStep == RoutingInv /\ [Next]_vars => RoutingInv'
<1> SUFFICES ASSUME RoutingInv, [Next]_vars PROVE RoutingInv'
  OBVIOUS
<1>1. ASSUME UNCHANGED <<request, url, stack, pos, applied>>, phase # "new",
             phase' \in {"routing", "user"}, charge' \in Routes \cup {NULL}, calls' \in Seq(Routes)
      PROVE  RoutingInv'
  <2>1. Placed(request, url, stack, pos, applied)'
    BY <1>1 DEF RoutingInv
  <2> QED BY <1>1, <2>1 DEF RoutingInv
<1>2. charge \in Routes \cup {NULL} /\ calls \in Seq(Routes)
  BY DEF RoutingInv
<1>3. CASE Start
  BY <1>3, StartKeeps
<1>4. CASE Pop
  BY <1>4, PopKeeps
<1>5. CASE TryChild
  BY <1>5, TryKeeps
<1>6. CASE Exhausted
  <2>1. /\ UNCHANGED <<request, url, stack, pos, applied, calls>> /\ phase # "new"
        /\ phase' = "user" /\ charge' = NULL
    BY <1>6 DEF Exhausted, NoRoute
  <2> QED BY <1>1, <1>2, <2>1
<1>7. CASE Return
  <2>1. UNCHANGED <<request, url, stack, pos, applied, phase, charge>> /\ phase = "user"
        /\ calls # <<>> /\ calls' = Front(calls)
    BY <1>7 DEF Return
  <2>2. Front(calls) \in Seq(Routes)
    BY <1>2, <2>1, FrontOfRoutes
  <2> QED BY <1>1, <1>2, <2>1, <2>2
<1>8. CASE DrainPool
  <2>1. UNCHANGED <<request, url, stack, pos, applied, phase, charge, calls>> /\ phase = "user"
    BY <1>8 DEF DrainPool
  <2> QED BY <1>1, <1>2, <2>1
<1>9. ASSUME NEW r \in Routes, NextRoute(r) PROVE RoutingInv'
  <2>1. /\ UNCHANGED <<request, url, stack, pos, applied, calls>> /\ phase # "new"
        /\ phase' \in {"routing", "user"} /\ charge' \in {charge, NULL}
    BY <1>9 DEF NextRoute, Acts, UseAfterFree
  <2> QED BY <1>1, <1>2, <2>1
<1>10. ASSUME NEW r \in Routes, Respond(r) PROVE RoutingInv'
  <2>1. /\ UNCHANGED <<request, url, stack, pos, applied, calls>> /\ phase # "new"
        /\ phase' = "user" /\ charge' \in {charge, NULL}
    BY <1>10 DEF Respond, Acts, UseAfterFree
  <2> QED BY <1>1, <1>2, <2>1
<1>11. CASE UNCHANGED vars
  BY <1>11 DEF vars, RoutingInv
<1> QED BY <1>3, <1>4, <1>5, <1>6, <1>7, <1>8, <1>9, <1>10, <1>11 DEF Next, Routing

(* Whoever passes a transaction on, and when: the middlewares that match   *)
(* get it in the order of a walk through the tree, each once, and find in  *)
(* the url what lies below their route; what was given out, followed by    *)
(* what the routes on the stack have yet to try, is the whole walk.        *)
THEOREM RoutesInOrder == Spec => []VisitsInOrder
<1>1. HttpInv /\ RoutingInv => VisitsInOrder
  <2> SUFFICES ASSUME HttpInv, RoutingInv PROVE VisitsInOrder
    OBVIOUS
  <2>1. tr.state \in HEAD .. END /\ tr.refs \in Int /\ tr.pooled \in Nat
    BY DEF HttpInv, Ordinary, TransactionType
  <2> QED BY <2>1, PlacedIs
<1> QED BY <1>1, HttpInit, HttpStep, RoutingInit, RoutingStep, PTL DEF Spec

-----------------------------------------------------------------------------
(* TCP connections. *)

Stages == {"none", "waiting", "resolving", "connecting", "failed", "open", "freed"}

ConnType ==
  [stage : Stages, stream : BOOLEAN, refs : Int, user : BOOLEAN,
   queue : Seq(Seq(Nat)), done : Nat, ending : BOOLEAN, broken : BOOLEAN, eof : BOOLEAN,
   sent : Seq(Nat), held : Nat, written : Nat, handed : BOOLEAN, answers : Nat]

(* The references are told by the stage: the stream's until it is freed,   *)
(* the one nobody gives back, the program's, and the one the callback      *)
(* still has to give back.                                                 *)
Counts(k, here, due) ==
  k.refs = (IF k.stage = "open" THEN 2 ELSE 1)
           + (IF k.user THEN 1 ELSE 0) + (IF here /\ due THEN 1 ELSE 0)

(* here: the program is in a handler of k; due: its callback gives a       *)
(* reference back; s: the server is known.                                 *)
Owned(k, here, due, s) ==
  /\ k.held = Len(k.queue) + k.done /\ k.held <= MaxPending
  /\ k.ending => ~k.stream
  /\ k.stage \in {"open", "freed"} => Counts(k, here, due)
  /\ k.stage \notin {"open", "freed"} => ~k.stream /\ ~k.user /\ ~k.ending /\ ~here /\ ~k.handed /\ k.held = 0
  /\ k.stage \in {"none", "waiting"} => k.answers = 0
  /\ k.stage = "freed" => ~k.stream /\ k.held = 0
  /\ k.stage \in {"open", "freed"} /\ ~k.handed => k.answers = 0 /\ ~s

(* s is the sequence of n numbers behind m; that of the numbers up to n.   *)
Block(s, m, n) == s = [i \in 1 .. n |-> m + i]
Numbers(s, n) == s = [i \in 1 .. n |-> i]

Ordered(k) ==
  /\ Numbers(k.sent, Len(k.sent))
  /\ ~k.broken => Numbers(k.sent \o FlattenSeq(k.queue), k.written)

(* Bytes are written while there is a stream only.                         *)
Untouched(k) ==
  k.stage \notin {"open", "freed"} => k.queue = <<>> /\ k.sent = <<>> /\ k.written = 0 /\ k.done = 0

Sound(k, here, due, srv) ==
  k \in ConnType /\ Owned(k, here, due, srv) /\ Ordered(k) /\ Untouched(k)

TcpInv ==
  /\ server \in {"starting", "listening", "failed"} /\ serving \in BOOLEAN
  /\ running \in Conns \cup {Nil} /\ releases \in BOOLEAN
  /\ conn \in [Conns -> ConnType]
  /\ \A c \in Conns : Sound(conn[c], running = c, releases, serving)
-----------------------------------------------------------------------------
LEMMA InvStreams == ASSUME ConnAssumption, TcpInv PROVE StreamsOwned
<1> USE ConnAssumption
<1>1. TcpTypeOK
  <2> SUFFICES ASSUME NEW c \in Conns
               PROVE conn[c].stage \in Stages /\ conn[c].held \in 0 .. MaxPending
    BY DEF TcpInv, TcpTypeOK, Stages
  <2>1. conn[c] \in ConnType /\ conn[c].held <= MaxPending
    BY DEF TcpInv, Sound, Owned
  <2> QED BY <2>1 DEF ConnType, ConnAssumption
<1>2. ASSUME NEW c \in Conns
      PROVE  LET k == conn[c] IN
       /\ Reaches(c) => k.refs > (IF k.user THEN 1 ELSE 0)
       /\ k.stage = "open" => k.refs > (IF k.user THEN 1 ELSE 0)
       /\ k.held = Len(k.queue) + k.done
       /\ k.stage = "freed" => ~k.stream /\ k.held = 0
       /\ k.stage \in {"open", "freed"} /\ ~k.handed => k.answers = 0 /\ ~serving
  <2> DEFINE k == conn[c]
  <2>1. k \in ConnType /\ Owned(k, running = c, releases, serving)
    BY DEF TcpInv, Sound
  <2>2. Reaches(c) => k.stage \in {"open", "freed"}
    BY <2>1 DEF Reaches, Owned
  <2> HIDE DEF k
  <2>3. k.stage \in {"open", "freed"} => k.refs > (IF k.user THEN 1 ELSE 0)
    BY <2>1 DEF Owned, Counts, ConnType
  <2>4. /\ k.held = Len(k.queue) + k.done
        /\ k.stage = "freed" => ~k.stream /\ k.held = 0
        /\ k.stage \in {"open", "freed"} /\ ~k.handed => k.answers = 0 /\ ~serving
    BY <2>1 DEF Owned
  <2> QED BY <2>2, <2>3, <2>4 DEF k
<1> QED BY <1>1, <1>2 DEF StreamsOwned

LEMMA InvBytes == ASSUME TcpInv PROVE BytesInOrder
BY DEF TcpInv, Sound, BytesInOrder, Ordered, Numbers
-----------------------------------------------------------------------------
(* Sequences of the numbers up to n. *)
LEMMA NumbersSeq ==
  ASSUME NEW s, NEW n \in Nat, Numbers(s, n)
  PROVE  s \in Seq(Nat) /\ Len(s) = n /\ \A i \in 1 .. n : s[i] = i
<1>1. s = [i \in 1 .. n |-> i]
  BY DEF Numbers
<1>2. [i \in 1 .. n |-> i] \in Seq(Nat) /\ Len([i \in 1 .. n |-> i]) = n
  OBVIOUS
<1> QED BY <1>1, <1>2

LEMMA NumbersMore ==
  ASSUME NEW a, NEW m \in Nat, NEW n \in Nat, Numbers(a, m)
  PROVE  Numbers(a \o [i \in 1 .. n |-> m + i], m + n)
<1> DEFINE b == [i \in 1 .. n |-> m + i]
           d == [i \in 1 .. m + n |-> i]
<1>1. a \in Seq(Nat) /\ Len(a) = m /\ \A i \in 1 .. m : a[i] = i
  BY NumbersSeq
<1>2. b \in Seq(Nat) /\ Len(b) = n /\ \A i \in 1 .. n : b[i] = m + i
  OBVIOUS
<1>3. d \in Seq(Nat) /\ Len(d) = m + n /\ \A i \in 1 .. m + n : d[i] = i
  OBVIOUS
<1> HIDE DEF b, d
<1>4. /\ a \o b \in Seq(Nat) /\ Len(a \o b) = m + n
      /\ \A i \in 1 .. m + n : (a \o b)[i] = IF i <= m THEN a[i] ELSE b[i - m]
  BY <1>1, <1>2, ConcatProperties
<1>5. ASSUME NEW i \in 1 .. m + n PROVE (a \o b)[i] = d[i]
  BY <1>1, <1>2, <1>3, <1>4
<1>6. a \o b = d
  BY <1>3, <1>4, <1>5, SeqEqual
<1> QED BY <1>6 DEF Numbers, b, d

LEMMA NumbersPart ==
  ASSUME NEW a \in Seq(Nat), NEW b \in Seq(Nat), NEW n \in Nat, Numbers(a \o b, n)
  PROVE  Numbers(a, Len(a))
<1> DEFINE d == [i \in 1 .. Len(a) |-> i]
<1>1. Len(a) \in Nat /\ Len(b) \in Nat /\ Len(a \o b) = Len(a) + Len(b)
  OBVIOUS
<1>2. Len(a) + Len(b) = n /\ \A i \in 1 .. n : (a \o b)[i] = i
  BY <1>1, NumbersSeq
<1>3. d \in Seq(Nat) /\ Len(d) = Len(a) /\ \A i \in 1 .. Len(a) : d[i] = i
  BY <1>1
<1> HIDE DEF d
<1>4. ASSUME NEW i \in 1 .. Len(a) PROVE a[i] = d[i]
  <2>1. i \in 1 .. n /\ (a \o b)[i] = a[i]
    BY <1>1, <1>2
  <2> QED BY <1>2, <1>3, <2>1
<1>5. a = d
  BY <1>3, <1>4, SeqEqual
<1> QED BY <1>5 DEF d, Numbers

(* The grouping of three or four parts makes no difference. *)
LEMMA Regrouped ==
  ASSUME NEW a \in Seq(Nat), NEW b \in Seq(Nat), NEW d \in Seq(Nat)
  PROVE  (a \o b) \o d = a \o (b \o d)
OBVIOUS

LEMMA GroupLeft ==
  ASSUME NEW a \in Seq(Nat), NEW b \in Seq(Nat), NEW d \in Seq(Nat), NEW n,
         Numbers(a \o (b \o d), n)
  PROVE  Numbers((a \o b) \o d, n)
BY Regrouped, Zenon

LEMMA GroupRight ==
  ASSUME NEW a \in Seq(Nat), NEW b \in Seq(Nat), NEW d \in Seq(Nat), NEW n,
         Numbers((a \o b) \o d, n)
  PROVE  Numbers(a \o (b \o d), n)
BY Regrouped, Zenon

LEMMA FourParts ==
  ASSUME NEW a \in Seq(Nat), NEW b \in Seq(Nat), NEW d \in Seq(Nat), NEW e \in Seq(Nat),
         NEW n, Numbers(a \o ((b \o d) \o e), n)
  PROVE  Numbers(a \o (b \o (d \o e)), n)
BY Regrouped, Zenon

LEMMA RunOfNumbers ==
  ASSUME NEW m \in Nat, NEW n \in Nat, NEW a \in Seq(Nat), Len(a) = n,
         \A i \in 1 .. n : a[i] = m + i
  PROVE  a = [i \in 1 .. n |-> m + i]
<1> DEFINE b == [i \in 1 .. n |-> m + i]
<1>1. b \in Seq(Nat) /\ Len(b) = n /\ \A i \in 1 .. n : b[i] = m + i
  OBVIOUS
<1> HIDE DEF b
<1>2. a = b
  BY <1>1, SeqEqual
<1> QED BY <1>2 DEF b

(* The bytes of one write, split at r.                                     *)
LEMMA SplitBytes ==
  ASSUME NEW m \in Nat, NEW n \in Nat, NEW r \in 0 .. n
  PROVE  LET bytes == [i \in 1 .. n |-> m + i] IN
         /\ bytes \in Seq(Nat) /\ Len(bytes) = n
         /\ SubSeq(bytes, 1, r) = [i \in 1 .. r |-> m + i]
         /\ SubSeq(bytes, r + 1, n) = [i \in 1 .. n - r |-> (m + r) + i]
         /\ SubSeq(bytes, r + 1, n) \in Seq(Nat) /\ SubSeq(bytes, 1, r) \in Seq(Nat)
         /\ SubSeq(bytes, r + 1, n) = <<>> => r = n
<1> DEFINE bytes == [i \in 1 .. n |-> m + i]
<1>0. r \in Nat /\ n - r \in Nat /\ m + r \in Nat
  OBVIOUS
<1>1. bytes \in Seq(Nat) /\ Len(bytes) = n /\ \A i \in 1 .. n : bytes[i] = m + i
  OBVIOUS
<1> HIDE DEF bytes
<1>2. /\ SubSeq(bytes, 1, r) \in Seq(Nat) /\ Len(SubSeq(bytes, 1, r)) = r
      /\ \A i \in 1 .. r : SubSeq(bytes, 1, r)[i] = m + i
  BY <1>1, SubSeqProperties
<1>3. /\ SubSeq(bytes, r + 1, n) \in Seq(Nat) /\ Len(SubSeq(bytes, r + 1, n)) = n - r
      /\ \A i \in 1 .. n - r : SubSeq(bytes, r + 1, n)[i] = (m + r) + i
  <2> DEFINE t == SubSeq(bytes, r + 1, n)
  <2>1. r + 1 \in Int /\ n \in Int /\ n - (r + 1) + 1 = n - r /\ (r + 1 <= n <=> n - r # 0)
    BY <1>0
  <2>2. \A i \in r + 1 .. n : bytes[i] \in Nat
    BY <1>0, <1>1
  <2>3. /\ t \in Seq(Nat) /\ Len(t) = n - r
        /\ \A i \in 1 .. n - (r + 1) + 1 : t[i] = bytes[(r + 1) + i - 1]
    BY <2>1, <2>2, SubSeqProperties
  <2> HIDE DEF t
  <2>4. ASSUME NEW i \in 1 .. n - r PROVE t[i] = (m + r) + i
    <3>1. i \in 1 .. n - (r + 1) + 1 /\ (r + 1) + i - 1 \in 1 .. n /\ m + ((r + 1) + i - 1) = (m + r) + i
      BY <1>0
    <3>2. t[i] = bytes[(r + 1) + i - 1]
      BY <2>3, <3>1
    <3> QED BY <1>1, <3>1, <3>2
  <2> QED BY <2>3, <2>4 DEF t
<1>4. SubSeq(bytes, 1, r) = [i \in 1 .. r |-> m + i]
  BY <1>2, RunOfNumbers
<1>5. SubSeq(bytes, r + 1, n) = [i \in 1 .. n - r |-> (m + r) + i]
  BY <1>0, <1>3, RunOfNumbers
<1>6. SubSeq(bytes, r + 1, n) = <<>> => r = n
  <2>1. SubSeq(bytes, r + 1, n) = <<>> => Len(SubSeq(bytes, r + 1, n)) = 0
    BY EmptySeq
  <2> QED BY <1>0, <1>3, <2>1
<1> QED BY <1>1, <1>2, <1>3, <1>4, <1>5, <1>6 DEF bytes

-----------------------------------------------------------------------------
(* What a write does to the bytes: those the kernel takes follow those it  *)
(* has, the others those that wait.                                        *)
LEMMA WriteOrder ==
  ASSUME NEW sent \in Seq(Nat), NEW queue \in Seq(Seq(Nat)), NEW m \in Nat, NEW n \in Nat,
         NEW r \in 0 .. n, NEW bytes, Block(bytes, m, n),
         r # 0 => queue = <<>>,
         Numbers(sent \o FlattenSeq(queue), m)
  PROVE  /\ sent \o SubSeq(bytes, 1, r) \in Seq(Nat)
         /\ SubSeq(bytes, r + 1, n) \in Seq(Nat)
         /\ Numbers(sent \o SubSeq(bytes, 1, r), Len(sent \o SubSeq(bytes, 1, r)))
         /\ Numbers((sent \o SubSeq(bytes, 1, r))
                      \o FlattenSeq(Append(queue, SubSeq(bytes, r + 1, n))), m + n)
         /\ SubSeq(bytes, r + 1, n) = <<>> =>
              Numbers((sent \o SubSeq(bytes, 1, r)) \o FlattenSeq(queue), m + n)
<1> DEFINE first == SubSeq(bytes, 1, r)
           rest == SubSeq(bytes, r + 1, n)
           flat == FlattenSeq(queue)
<1>0. r \in Nat /\ r <= n /\ n - r \in Nat /\ m + r \in Nat
  OBVIOUS
<1>1. /\ first = [i \in 1 .. r |-> m + i] /\ first \in Seq(Nat)
      /\ rest = [i \in 1 .. n - r |-> (m + r) + i] /\ rest \in Seq(Nat)
      /\ rest = <<>> => r = n
  BY SplitBytes DEF Block
<1>2. bytes = [i \in 1 .. n |-> m + i] /\ bytes \in Seq(Nat)
  BY DEF Block
<1>3. flat \in Seq(Nat) /\ FlattenSeq(Append(queue, rest)) = flat \o rest
  BY <1>1, FlattenAppend
<1>4. r = 0 => first = <<>> /\ rest = bytes
  BY <1>1, <1>2
<1> HIDE DEF first, rest, flat
<1>5. CASE r = 0
  <2>1. sent \o first = sent
    BY <1>4, <1>5, ConcatEmptySeq
  <2>2. Numbers(sent \o (flat \o rest), m + n)
    <3>1. Numbers(sent \o flat, m)
      BY DEF flat
    <3>2. Numbers((sent \o flat) \o rest, m + n)
      BY <1>2, <1>4, <1>5, <3>1, NumbersMore
    <3> QED BY <1>1, <1>3, <3>2, GroupRight, Zenon
  <2>3. ASSUME rest = <<>> PROVE Numbers(sent \o flat, m + n)
    <3>1. n = 0
      BY <1>1, <1>5, <2>3
    <3> QED BY <2>3, <3>1 DEF flat
  <2>4. Numbers(sent, Len(sent))
    <3>1. flat \in Seq(Nat) /\ Numbers(sent \o flat, m)
      BY <1>3 DEF flat
    <3> QED BY <3>1, NumbersPart
  <2> QED BY <1>1, <1>3, <2>1, <2>2, <2>3, <2>4 DEF first, rest, flat
<1>6. CASE r # 0
  <2>1. queue = <<>> /\ flat = <<>>
    BY <1>6, FlattenEmpty DEF flat
  <2>2. Numbers(sent, m)
    <3>1. sent \o <<>> = sent
      BY ConcatEmptySeq
    <3> QED BY <2>1, <3>1 DEF flat
  <2> DEFINE now == sent \o first
  <2>3. Numbers(now, m + r) /\ now \in Seq(Nat)
    <3>1. Numbers(sent \o first, m + r)
      BY <1>0, <1>1, <2>2, NumbersMore
    <3> QED BY <1>0, <3>1, NumbersSeq
  <2>4. Len(now) = m + r
    BY <1>0, <2>3, NumbersSeq
  <2> HIDE DEF now
  <2>5. flat \o rest = rest /\ now \o <<>> = now
    BY <1>1, <2>1, <2>3, ConcatEmptySeq
  <2>6. Numbers(now \o rest, m + n)
    <3>1. Numbers(now \o rest, (m + r) + (n - r))
      BY <1>0, <1>1, <2>3, NumbersMore
    <3>2. (m + r) + (n - r) = m + n
      BY <1>0
    <3> QED BY <2>3, <3>1, <3>2
  <2>7. rest = <<>> => Numbers(now \o flat, m + n)
    BY <1>1, <2>1, <2>3, <2>5
  <2> QED BY <1>1, <1>3, <2>1, <2>3, <2>4, <2>5, <2>6, <2>7 DEF now, first, rest, flat
<1> QED BY <1>5, <1>6

(* What the kernel takes of the first request in the queue follows what it *)
(* has.                                                                    *)
LEMMA FlushOrder ==
  ASSUME NEW sent \in Seq(Nat), NEW queue \in Seq(Seq(Nat)), NEW m \in Nat,
         queue # <<>>, Numbers(sent \o FlattenSeq(queue), m)
  PROVE  /\ LET now == sent \o Head(queue) IN
            /\ now \in Seq(Nat) /\ Numbers(now, Len(now))
            /\ Numbers(now \o FlattenSeq(Tail(queue)), m)
         /\ \A j \in 0 .. Len(Head(queue)) :
              LET now == sent \o SubSeq(Head(queue), 1, j)
                  rest == [queue EXCEPT ![1] = SubSeq(Head(queue), j + 1, Len(Head(queue)))]
              IN  /\ now \in Seq(Nat) /\ Numbers(now, Len(now))
                  /\ rest \in Seq(Seq(Nat)) /\ Len(rest) = Len(queue)
                  /\ Numbers(now \o FlattenSeq(rest), m)
<1> DEFINE first == Head(queue)
           tail == Tail(queue)
           flat == FlattenSeq(tail)
<1>1. first \in Seq(Nat) /\ tail \in Seq(Seq(Nat)) /\ Len(queue) \in Nat /\ Len(queue) # 0
      /\ Len(tail) = Len(queue) - 1 /\ \A i \in 1 .. Len(queue) - 1 : tail[i] = queue[i + 1]
  BY HeadTailProperties, EmptySeq
<1>2. FlattenSeq(queue) = first \o flat
  BY FlattenHead
<1>3. flat \in Seq(Nat)
  BY <1>1, FlattenAppend, EmptySeq
<1> HIDE DEF first, tail, flat
<1>4. Numbers(sent \o (first \o flat), m)
  BY <1>2
<1>5. ASSUME NEW j \in 0 .. Len(first)
      PROVE  LET now == sent \o SubSeq(first, 1, j)
                 rest == [queue EXCEPT ![1] = SubSeq(first, j + 1, Len(first))]
             IN  /\ now \in Seq(Nat) /\ Numbers(now, Len(now))
                 /\ rest \in Seq(Seq(Nat)) /\ Len(rest) = Len(queue)
                 /\ Numbers(now \o FlattenSeq(rest), m)
  <2> DEFINE a == SubSeq(first, 1, j)
             b == SubSeq(first, j + 1, Len(first))
             rest == [queue EXCEPT ![1] = b]
             now == sent \o a
  <2>1. Len(first) \in Nat /\ j \in Nat /\ j <= Len(first)
    BY <1>1
  <2>2. a \in Seq(Nat)
    BY <1>1, <2>1, SubSeqProperties
  <2>3. b \in Seq(Nat)
    <3>1. \A i \in j + 1 .. Len(first) : first[i] \in Nat
      BY <1>1, <2>1
    <3> QED BY <2>1, <3>1, SubSeqProperties
  <2>4. a \o b = first
    <3>1. 1 \in 1 .. Len(first) + 1 /\ j \in 1 - 1 .. Len(first) /\ Len(first) \in j .. Len(first)
      BY <2>1
    <3>2. first \in Seq(Nat)
      BY <1>1
    <3>3. a \o b = SubSeq(first, 1, Len(first))
      BY ONLY <3>1, <3>2, ConcatAdjacentSubSeq, Zenon
    <3> QED BY <1>1, <3>3, SubSeqFull
  <2> HIDE DEF a, b
  <2>5. rest \in Seq(Seq(Nat)) /\ Len(rest) = Len(queue) /\ rest[1] = b
        /\ \A i \in 2 .. Len(queue) : rest[i] = queue[i]
    <3>1. 1 \in 1 .. Len(queue)
      BY <1>1
    <3> QED BY <2>3, <3>1, ExceptSeq
  <2> HIDE DEF rest
  <2>6. rest # <<>> /\ Head(rest) = b /\ Tail(rest) = tail
    <3>1. rest # <<>>
      BY <1>1, <2>5, EmptySeq
    <3>2. Head(rest) = b /\ Tail(rest) \in Seq(Seq(Nat)) /\ Len(Tail(rest)) = Len(queue) - 1
          /\ \A i \in 1 .. Len(queue) - 1 : Tail(rest)[i] = rest[i + 1]
      BY <2>5, <3>1, HeadTailProperties
    <3>3. ASSUME NEW i \in 1 .. Len(queue) - 1 PROVE Tail(rest)[i] = tail[i]
      <4>1. i + 1 \in 2 .. Len(queue)
        BY <1>1
      <4> QED BY <1>1, <2>5, <3>2, <4>1
    <3> DEFINE t == Tail(rest)
    <3> HIDE DEF t
    <3>4. t = tail
      BY <1>1, <3>2, <3>3, SeqEqual DEF t
    <3> QED BY <3>1, <3>2, <3>4 DEF t
  <2>7. FlattenSeq(rest) = b \o flat
    BY <2>5, <2>6, FlattenHead DEF flat
  <2>8. now \in Seq(Nat) /\ b \o flat \in Seq(Nat)
    BY <1>3, <2>2, <2>3
  <2>9. Numbers(now \o (b \o flat), m)
    <3>1. (a \o b) \o flat = first \o flat
      BY <2>4
    <3>2. Numbers(sent \o (a \o (b \o flat)), m)
      BY <1>3, <1>4, <2>2, <2>3, <3>1, FourParts, Zenon
    <3> QED BY <1>3, <2>2, <2>8, <3>2, GroupLeft, Zenon
  <2> HIDE DEF now
  <2>10. Numbers(now, Len(now))
    BY <2>8, <2>9, NumbersPart
  <2> QED BY <2>5, <2>7, <2>8, <2>9, <2>10 DEF now, rest, a, b
<1> DEFINE now == sent \o first
<1>6. now \in Seq(Nat) /\ Numbers(now \o flat, m)
  <2>1. now \in Seq(Nat)
    BY <1>1
  <2>2. Numbers((sent \o first) \o flat, m)
    BY <1>1, <1>3, <1>4, GroupLeft, Zenon
  <2> QED BY <2>1, <2>2
<1> HIDE DEF now
<1>7. Numbers(now, Len(now))
  BY <1>3, <1>6, NumbersPart
<1> QED BY <1>5, <1>6, <1>7 DEF now, first, tail, flat

-----------------------------------------------------------------------------
(* The methods and callbacks keep a connection as it should be.            *)
(* w differs from k in its bytes and requests at most. *)
Kept(w, k) ==
  /\ w.stage = k.stage /\ w.stream = k.stream /\ w.refs = k.refs /\ w.user = k.user
  /\ w.ending = k.ending /\ w.handed = k.handed /\ w.answers = k.answers

LEMMA KeptOwned ==
  ASSUME NEW k, NEW w, NEW here, NEW due, NEW srv, Kept(w, k), k.stage = "open",
         Owned(k, here, due, srv), w.held = Len(w.queue) + w.done, w.held <= MaxPending
  PROVE  Owned(w, here, due, srv) /\ Untouched(w)
<1>1. Counts(w, here, due)
  <2>1. Counts(k, here, due)
    BY DEF Owned
  <2> QED BY <2>1 DEF Counts, Kept
<1> QED BY <1>1 DEF Owned, Kept, Untouched

LEMMA SoundWrite ==
  ASSUME NEW k, NEW here \in BOOLEAN, NEW due \in BOOLEAN, NEW srv \in BOOLEAN,
         Sound(k, here, due, srv), MaxPending \in Nat, k.held < MaxPending,
         NEW n \in Nat, NEW w \in StreamWrite(k, n)
  PROVE  Sound(w, here, due, srv)
<1>1. CASE ~k.stream
  <2>1. w = k
    BY <1>1 DEF StreamWrite
  <2> QED BY <2>1
<1>2. CASE k.stream
  <2>0. k \in ConnType /\ Owned(k, here, due, srv) /\ Ordered(k) /\ Untouched(k)
    BY DEF Sound
  <2>1. k.queue \in Seq(Seq(Nat)) /\ k.sent \in Seq(Nat) /\ k.written \in Nat /\ k.broken \in BOOLEAN
        /\ k.done \in Nat /\ k.held \in Nat /\ Len(k.queue) \in Nat
    BY <2>0 DEF ConnType
  <2>12. /\ k.done \in Nat /\ k.held \in Nat /\ Len(k.queue) \in Nat
         /\ k.held = Len(k.queue) + k.done /\ k.held < MaxPending /\ MaxPending \in Nat
    BY <2>0, <2>1 DEF Owned
  <2>2. PICK bytes : Block(bytes, k.written, n)
    BY DEF Block
  <2>3. PICK r \in UvTryWrite(k, n) :
          w = UvWrite([k EXCEPT !.written = @ + n, !.held = @ + 1,
                           !.sent = @ \o SubSeq(bytes, 1, r)], SubSeq(bytes, r + 1, n))
    BY <1>2, <2>2 DEF StreamWrite, Block
  <2>4. r \in 0 .. n /\ (r # 0 => k.queue = <<>> /\ ~k.broken)
    BY <2>3 DEF UvTryWrite
  <2> DEFINE now == k.sent \o SubSeq(bytes, 1, r)
             rest == SubSeq(bytes, r + 1, n)
  <2>5. /\ now \in Seq(Nat) /\ rest \in Seq(Nat)
        /\ Numbers(now, Len(now))
        /\ ~k.broken => Numbers(now \o FlattenSeq(Append(k.queue, rest)), k.written + n)
        /\ ~k.broken /\ rest = <<>> => Numbers(now \o FlattenSeq(k.queue), k.written + n)
    <3>1. k.queue \in Seq(Seq(Nat)) /\ k.sent \in Seq(Nat) /\ k.written \in Nat /\ n \in Nat
      BY <2>1
    <3>2. CASE ~k.broken
      <4>1. Numbers(k.sent \o FlattenSeq(k.queue), k.written)
        BY <2>0, <3>2 DEF Ordered
      <4>2. r \in 0 .. n /\ (r # 0 => k.queue = <<>>)
        BY <2>4
      <4> QED BY ONLY <2>2, <3>1, <4>1, <4>2, WriteOrder, Zenon
    <3>3. CASE k.broken
      <4>1. r = 0 /\ rest \in Seq(Nat) /\ SubSeq(bytes, 1, 0) = <<>>
        BY <2>1, <2>2, <2>4, <3>3, SplitBytes DEF Block
      <4>2. now = k.sent
        BY <2>1, <4>1, ConcatEmptySeq
      <4> QED BY <2>0, <2>1, <3>3, <4>1, <4>2 DEF Ordered
    <3> QED BY <3>2, <3>3
  <2>6. PICK v : /\ v = [k EXCEPT !.written = @ + n, !.held = @ + 1, !.sent = now]
                 /\ w = UvWrite(v, rest)
    BY <2>3, Zenon
  <2> HIDE DEF now, rest
  <2>7. v \in ConnType
    <3>1. k \in ConnType /\ k.written + n \in Nat /\ k.held + 1 \in Nat /\ now \in Seq(Nat)
      BY <2>0, <2>1, <2>5
    <3>2. v = [k EXCEPT !.written = @ + n, !.held = @ + 1, !.sent = now]
      BY <2>6
    <3> QED BY ONLY <3>1, <3>2 DEF ConnType
  <2>8. v.queue = k.queue /\ v.done = k.done /\ v.held = k.held + 1
        /\ v.written = k.written + n /\ v.sent = now /\ v.broken = k.broken /\ Kept(v, k)
    BY <2>0, <2>6 DEF ConnType, Kept
  <2>9. k.stage = "open"
    BY <1>2, <2>0 DEF Owned
  <2>10. CASE k.queue = <<>> /\ rest = <<>>
    <3>1. w = [v EXCEPT !.done = @ + 1]
      BY <2>6, <2>8, <2>10 DEF UvWrite
    <3>2. w \in ConnType
      <4>1. v.done + 1 \in Nat
        BY <2>1, <2>8
      <4> QED BY ONLY <2>7, <3>1, <4>1 DEF ConnType
    <3>3. w.queue = k.queue /\ w.done = k.done + 1 /\ w.held = k.held + 1
        /\ w.written = k.written + n /\ w.sent = now /\ w.broken = k.broken /\ Kept(w, k)
      BY <2>7, <2>8, <3>1 DEF ConnType, Kept
    <3>4. w.held = Len(w.queue) + w.done /\ w.held <= MaxPending
      BY ONLY <2>12, <3>3
    <3>5. Ordered(w)
      BY <2>5, <2>10, <3>3 DEF Ordered
    <3> QED BY <2>0, <2>9, <3>2, <3>3, <3>4, <3>5, KeptOwned DEF Sound
  <2>11. CASE ~(k.queue = <<>> /\ rest = <<>>)
    <3>1. PICK q : q = Append(k.queue, rest)
      OBVIOUS
    <3>2. q \in Seq(Seq(Nat)) /\ Len(q) = Len(k.queue) + 1
      BY <2>1, <2>5, <3>1, AppendProperties
    <3>3. w = [v EXCEPT !.queue = q]
      BY <2>6, <2>8, <2>11, <3>1 DEF UvWrite
    <3>4. w \in ConnType
      BY ONLY <2>7, <3>2, <3>3 DEF ConnType
    <3>5. w.queue = q /\ w.done = k.done /\ w.held = k.held + 1
        /\ w.written = k.written + n /\ w.sent = now /\ w.broken = k.broken /\ Kept(w, k)
      BY <2>7, <2>8, <3>3 DEF ConnType, Kept
    <3>6. w.held = Len(w.queue) + w.done /\ w.held <= MaxPending
      <4>1. Len(w.queue) = Len(k.queue) + 1
        BY <3>2, <3>5
      <4> QED BY ONLY <2>12, <3>5, <4>1
    <3>7. Ordered(w)
      BY <2>5, <3>1, <3>5 DEF Ordered
    <3> QED BY <2>0, <2>9, <3>4, <3>5, <3>6, <3>7, KeptOwned DEF Sound
  <2> QED BY <2>10, <2>11
<1> QED BY <1>1, <1>2

(* One request is flushed. *)
LEMMA SoundFlush ==
  ASSUME NEW k, NEW due \in BOOLEAN, NEW srv \in BOOLEAN,
         Sound(k, FALSE, due, srv), MaxPending \in Nat, k.stage = "open", k.queue # <<>>,
         NEW j \in 0 .. Len(Head(k.queue))
  PROVE  Sound(UvFlush(k, j), FALSE, due, srv) /\ UvFlush(k, j).stage = "open"
<1> DEFINE first == Head(k.queue)
           w == UvFlush(k, j)
<1>0. k \in ConnType /\ Owned(k, FALSE, due, srv) /\ Ordered(k) /\ Untouched(k)
  BY DEF Sound
<1>1. k.queue \in Seq(Seq(Nat)) /\ k.sent \in Seq(Nat) /\ k.written \in Nat /\ k.broken \in BOOLEAN
        /\ k.done \in Nat /\ k.held \in Nat
  BY <1>0 DEF ConnType
<1>2. /\ first \in Seq(Nat) /\ Tail(k.queue) \in Seq(Seq(Nat)) /\ Len(k.queue) \in Nat
      /\ Len(k.queue) # 0 /\ Len(Tail(k.queue)) = Len(k.queue) - 1
  BY <1>1, HeadTailProperties, EmptySeq
<1>3. Numbers(k.sent, Len(k.sent)) /\ (~k.broken => Numbers(k.sent \o FlattenSeq(k.queue), k.written))
  BY <1>0 DEF Ordered
<1> DEFINE t == Tail(k.queue)
           now == k.sent \o first
<1>4. ~k.broken => /\ now \in Seq(Nat) /\ Numbers(now, Len(now))
                   /\ Numbers(now \o FlattenSeq(t), k.written)
  BY <1>1, <1>3, FlushOrder
<1> DEFINE part == k.sent \o SubSeq(first, 1, j)
           rest == [k.queue EXCEPT ![1] = SubSeq(first, j + 1, Len(first))]
<1>5. ~k.broken => /\ part \in Seq(Nat) /\ Numbers(part, Len(part))
                   /\ rest \in Seq(Seq(Nat)) /\ Len(rest) = Len(k.queue)
                   /\ Numbers(part \o FlattenSeq(rest), k.written)
  BY <1>1, <1>3, FlushOrder
<1>6. w = IF k.broken THEN [k EXCEPT !.queue = t, !.done = @ + 1]
          ELSE IF j = Len(first) THEN [k EXCEPT !.queue = t, !.done = @ + 1, !.sent = now]
          ELSE [k EXCEPT !.queue = rest, !.sent = part]
  BY DEF UvFlush
<1>7. t \in Seq(Seq(Nat)) /\ Len(t) = Len(k.queue) - 1
  BY <1>2
<1> HIDE DEF w, t, now, part, rest, first
<1>8. /\ w \in ConnType /\ w.held = k.held /\ Len(w.queue) + w.done = Len(k.queue) + k.done
      /\ w.written = k.written /\ w.broken = k.broken /\ Kept(w, k)
  <2>1. CASE k.broken
    <3>1. w = [k EXCEPT !.queue = t, !.done = @ + 1]
      BY <1>6, <2>1
    <3>2. w \in ConnType
      <4>1. k \in ConnType /\ t \in Seq(Seq(Nat)) /\ k.done + 1 \in Nat
        BY <1>0, <1>1, <1>7
      <4> QED BY ONLY <4>1, <3>1 DEF ConnType
    <3>3. w.queue = t /\ w.done = k.done + 1 /\ w.held = k.held
          /\ w.written = k.written /\ w.broken = k.broken /\ Kept(w, k)
      BY <1>0, <3>1 DEF ConnType, Kept
    <3>4. Len(w.queue) + w.done = Len(k.queue) + k.done
      <4>1. Len(w.queue) = Len(k.queue) - 1 /\ Len(k.queue) \in Nat /\ k.done \in Nat
        BY <1>1, <1>2, <1>7, <3>3
      <4>2. w.done = k.done + 1
        BY <3>3
      <4>3. \A a, b \in Nat : (a - 1) + (b + 1) = a + b
        OBVIOUS
      <4> QED BY ONLY <4>1, <4>2, <4>3
    <3> QED BY <3>2, <3>3, <3>4
  <2>2. CASE ~k.broken /\ j = Len(first)
    <3>1. w = [k EXCEPT !.queue = t, !.done = @ + 1, !.sent = now]
      BY <1>6, <2>2
    <3>2. w \in ConnType
      <4>1. k \in ConnType /\ t \in Seq(Seq(Nat)) /\ now \in Seq(Nat) /\ k.done + 1 \in Nat
        BY <1>0, <1>1, <1>4, <1>7, <2>2
      <4> QED BY ONLY <4>1, <3>1 DEF ConnType
    <3>3. w.queue = t /\ w.done = k.done + 1 /\ w.held = k.held
          /\ w.written = k.written /\ w.broken = k.broken /\ Kept(w, k)
      BY <1>0, <3>1 DEF ConnType, Kept
    <3>4. Len(w.queue) + w.done = Len(k.queue) + k.done
      <4>1. Len(w.queue) = Len(k.queue) - 1 /\ Len(k.queue) \in Nat /\ k.done \in Nat
        BY <1>1, <1>2, <1>7, <3>3
      <4>2. w.done = k.done + 1
        BY <3>3
      <4>3. \A a, b \in Nat : (a - 1) + (b + 1) = a + b
        OBVIOUS
      <4> QED BY ONLY <4>1, <4>2, <4>3
    <3> QED BY <3>2, <3>3, <3>4
  <2>3. CASE ~k.broken /\ j # Len(first)
    <3>1. w = [k EXCEPT !.queue = rest, !.sent = part]
      BY <1>6, <2>3
    <3>2. w \in ConnType
      <4>1. k \in ConnType /\ rest \in Seq(Seq(Nat)) /\ part \in Seq(Nat)
        BY <1>0, <1>5, <2>3
      <4> QED BY ONLY <4>1, <3>1 DEF ConnType
    <3>3. w.queue = rest /\ w.done = k.done /\ w.held = k.held
          /\ w.written = k.written /\ w.broken = k.broken /\ Kept(w, k)
      BY <1>0, <3>1 DEF ConnType, Kept
    <3> QED BY <1>1, <1>2, <1>5, <2>3, <3>2, <3>3
  <2> QED BY <2>1, <2>2, <2>3
<1>9. Ordered(w)
  <2>1. CASE k.broken
    <3>1. w.sent = k.sent
      BY <1>0, <1>6, <2>1 DEF ConnType
    <3> QED BY <1>3, <1>8, <2>1, <3>1 DEF Ordered
  <2>2. CASE ~k.broken /\ j = Len(first)
    <3>1. w.sent = now /\ w.queue = t
      BY <1>0, <1>6, <2>2 DEF ConnType
    <3> QED BY <1>4, <1>8, <2>2, <3>1 DEF Ordered
  <2>3. CASE ~k.broken /\ j # Len(first)
    <3>1. w.sent = part /\ w.queue = rest
      BY <1>0, <1>6, <2>3 DEF ConnType
    <3> QED BY <1>5, <1>8, <2>3, <3>1 DEF Ordered
  <2> QED BY <2>1, <2>2, <2>3
<1>10. w.held = Len(w.queue) + w.done /\ w.held <= MaxPending
  BY <1>0, <1>8 DEF Owned
<1>11. Owned(w, FALSE, due, srv) /\ Untouched(w)
  BY <1>0, <1>8, <1>10, KeptOwned
<1>12. w.stage = "open"
  BY <1>8 DEF Kept
<1> QED BY <1>8, <1>9, <1>11, <1>12 DEF Sound, w

-----------------------------------------------------------------------------
(* w differs from k in nothing that the bytes are told by. *)
SameBytes(w, k) ==
  /\ w.queue = k.queue /\ w.done = k.done /\ w.held = k.held
  /\ w.sent = k.sent /\ w.written = k.written

LEMMA SoundSame ==
  ASSUME NEW k, NEW w \in ConnType, NEW here, NEW due, NEW srv, Ordered(k), Untouched(k),
         SameBytes(w, k), w.broken = k.broken \/ w.broken = TRUE,
         w.stage \in {"open", "freed"} \/ k.stage \notin {"open", "freed"},
         Owned(w, here, due, srv)
  PROVE  Sound(w, here, due, srv)
BY DEF Sound, Ordered, Untouched, SameBytes

(* One connection changes. *)
LEMMA OneChanges ==
  ASSUME TcpInv, NEW c \in Conns, NEW k, Becomes(c, k), serving' = serving,
         server' \in {"starting", "listening", "failed"},
         running' \in Conns \cup {Nil}, releases' \in BOOLEAN,
         Sound(k, running' = c, releases', serving),
         \/ running' = running /\ releases' = releases
         \/ running \in {Nil, c} /\ running' \in {Nil, c}
  PROVE  TcpInv'
<1>1. conn' = [conn EXCEPT ![c] = k] /\ k \in ConnType /\ conn \in [Conns -> ConnType]
  BY DEF Becomes, Sound, TcpInv
<1>2. conn' \in [Conns -> ConnType] /\ conn'[c] = k /\ \A d \in Conns \ {c} : conn'[d] = conn[d]
  BY <1>1
<1>3. ASSUME NEW d \in Conns PROVE Sound(conn'[d], running' = d, releases', serving')
  <2>1. CASE d = c
    BY <1>2, <2>1
  <2>2. CASE d # c
    <3>1. Sound(conn[d], running = d, releases, serving) /\ conn'[d] = conn[d]
      BY <1>2, <2>2 DEF TcpInv
    <3>2. CASE running' = running /\ releases' = releases
      BY <3>1, <3>2
    <3>3. CASE running \in {Nil, c} /\ running' \in {Nil, c}
      <4>1. running # d /\ running' # d
        BY <2>2, <3>3, ConnAssumption
      <4>2. Sound(conn[d], FALSE, releases, serving)
        BY <3>1, <4>1
      <4>3. Sound(conn[d], FALSE, releases', serving)
        BY <4>2 DEF Sound, Owned, Counts
      <4> QED BY <3>1, <4>1, <4>3
    <3> QED BY <3>2, <3>3
  <2> QED BY <2>1, <2>2
<1> QED BY <1>2, <1>3 DEF TcpInv

(* The stages before a connection is open. *)
LEMMA SoundEarlier ==
  ASSUME NEW k, NEW w \in ConnType, NEW here, NEW due, NEW srv, Sound(k, here, due, srv),
         k.stage \notin {"open", "freed"}, w.stage \notin {"open", "freed"},
         w.stage \in {"none", "waiting"} => w.answers = 0,
         SameBytes(w, k), w.broken = k.broken, w.stream = k.stream, w.user = k.user,
         w.ending = k.ending, w.handed = k.handed
  PROVE  Sound(w, here, due, srv)
<1>1. k \in ConnType /\ Owned(k, here, due, srv) /\ Ordered(k) /\ Untouched(k)
  BY DEF Sound
<1>2. Owned(w, here, due, srv)
  BY <1>1 DEF Owned, SameBytes
<1> QED BY <1>1, <1>2, SoundSame

(* initWithStream:, for the handlers, and for nobody. *)
LEMMA SoundHanded ==
  ASSUME NEW k, NEW w \in ConnType, NEW srv \in BOOLEAN, Sound(k, FALSE, TRUE, srv),
         k.stage \notin {"open", "freed"},
         SameBytes(w, k), w.broken = k.broken, w.user = k.user, w.ending = k.ending,
         w.stage = "open", w.refs = 3, w.handed = TRUE
  PROVE  Sound(w, TRUE, TRUE, srv)
<1>1. k \in ConnType /\ Owned(k, FALSE, TRUE, srv) /\ Ordered(k) /\ Untouched(k)
  BY DEF Sound
<1>2. ~k.user /\ ~k.ending /\ k.held = Len(k.queue) + k.done /\ k.held <= MaxPending
  BY <1>1 DEF Owned
<1>3. Owned(w, TRUE, TRUE, srv)
  BY <1>2 DEF Owned, Counts, SameBytes
<1> QED BY <1>1, <1>3, SoundSame

LEMMA SoundRefused ==
  ASSUME NEW k, NEW w \in ConnType, NEW due, Sound(k, FALSE, due, FALSE),
         k.stage \notin {"open", "freed"},
         SameBytes(w, k), w.broken = k.broken, w.user = k.user, w.ending = k.ending,
         w.stage = "open", w.refs = 2, w.handed = FALSE, w.answers = 0
  PROVE  Sound(w, FALSE, due, FALSE)
<1>1. k \in ConnType /\ Owned(k, FALSE, due, FALSE) /\ Ordered(k) /\ Untouched(k)
  BY DEF Sound
<1>2. ~k.user /\ ~k.ending /\ k.held = Len(k.queue) + k.done /\ k.held <= MaxPending
  BY <1>1 DEF Owned
<1>3. Owned(w, FALSE, due, FALSE)
  BY <1>2 DEF Owned, Counts, SameBytes
<1> QED BY <1>1, <1>3, SoundSame

-----------------------------------------------------------------------------
LEMMA InvInit == ASSUME ConnAssumption, TcpInit PROVE TcpInv
<1>1. Nothing \in ConnType /\ Nothing.stage = "none" /\ Nothing.queue = <<>> /\ Nothing.done = 0
      /\ Nothing.held = 0 /\ Nothing.sent = <<>> /\ Nothing.written = 0 /\ Nothing.answers = 0
      /\ ~Nothing.stream /\ ~Nothing.user /\ ~Nothing.ending /\ ~Nothing.handed
  BY DEF Nothing, ConnType, Stages
<1>2. ASSUME NEW c \in Conns PROVE Sound(Nothing, running = c, releases, serving)
  <2>1. running # c
    BY DEF TcpInit, ConnAssumption
  <2>2. Len(Nothing.queue) = 0 /\ Len(Nothing.sent) = 0
    BY <1>1
  <2>3. Owned(Nothing, running = c, releases, serving)
    BY <1>1, <2>1, <2>2 DEF Owned, ConnAssumption
  <2>4. Ordered(Nothing)
    <3>1. Numbers(<<>>, 0) /\ <<>> \o <<>> = <<>>
      BY DEF Numbers
    <3> QED BY <1>1, <2>2, <3>1, FlattenEmpty DEF Ordered
  <2> QED BY <1>1, <2>3, <2>4 DEF Sound, Untouched
<1> QED BY <1>1, <1>2 DEF TcpInit, TcpInv

LEMMA InvEarlier ==
  ASSUME TcpInv, NEW c \in Conns, PeerConnects(c) \/ Connect(c)
  PROVE  TcpInv'
<1> DEFINE k == conn[c]
<1>1. k \in ConnType /\ Sound(k, running = c, releases, serving) /\ k.stage = "none" /\ k.answers = 0
  <2>1. k \in ConnType /\ Sound(k, running = c, releases, serving) /\ k.stage = "none"
    BY DEF TcpInv, PeerConnects, Connect
  <2> QED BY <2>1 DEF Sound, Owned
<1>2. PICK st \in {"waiting", "resolving"} : Becomes(c, [k EXCEPT !.stage = st])
  BY DEF PeerConnects, Connect
<1>3. PICK w : w = [k EXCEPT !.stage = st]
  OBVIOUS
<1>4. Becomes(c, w) /\ UNCHANGED <<server, serving, running, releases>>
  BY <1>2, <1>3 DEF PeerConnects, Connect
<1> HIDE DEF k
<1>5. w \in ConnType
  <2>1. st \in Stages
    BY DEF Stages
  <2> QED BY ONLY <1>1, <1>3, <2>1 DEF ConnType
<1>6. w.stage = st /\ w.answers = 0 /\ SameBytes(w, k) /\ w.broken = k.broken
      /\ w.stream = k.stream /\ w.refs = k.refs /\ w.user = k.user
      /\ w.ending = k.ending /\ w.handed = k.handed
  BY <1>1, <1>3 DEF ConnType, SameBytes
<1>7. Sound(w, running = c, releases, serving)
  BY <1>1, <1>5, <1>6, SoundEarlier
<1> QED BY <1>4, <1>7, OneChanges DEF TcpInv

LEMMA InvListen == ASSUME TcpInv, Listen PROVE TcpInv'
BY DEF TcpInv, Listen

LEMMA InvClose == ASSUME TcpInv, Close PROVE TcpInv'
<1>1. \A c \in Conns : Sound(conn[c], running = c, releases, TRUE)
  BY DEF TcpInv, Close
<1>2. \A c \in Conns : Sound(conn[c], running = c, releases, FALSE)
  BY <1>1 DEF Sound, Owned
<1> QED BY <1>2 DEF TcpInv, Close

(* A connection that is not open and comes no further. *)
LEMMA FailedSound ==
  ASSUME TcpInv, NEW c \in Conns, NEW w, NEW a \in Nat,
         conn[c].stage \notin {"open", "freed"},
         \/ w = [conn[c] EXCEPT !.stage = "failed", !.answers = a]
         \/ \E st \in {"failed", "connecting"} : w = [conn[c] EXCEPT !.stage = st]
  PROVE  Sound(w, running = c, releases, serving)
<1> DEFINE k == conn[c]
<1>1. k \in ConnType /\ Sound(k, running = c, releases, serving) /\ k.stage \notin {"open", "freed"}
  BY DEF TcpInv
<1>2. \/ w = [k EXCEPT !.stage = "failed", !.answers = a]
      \/ \E st \in {"failed", "connecting"} : w = [k EXCEPT !.stage = st]
  OBVIOUS
<1> HIDE DEF k
<1>3. w \in ConnType
  <2>1. "failed" \in Stages /\ "connecting" \in Stages
    BY DEF Stages
  <2> QED BY ONLY a \in Nat, <1>1, <1>2, <2>1 DEF ConnType
<1>4. w.stage \in {"failed", "connecting"} /\ SameBytes(w, k) /\ w.broken = k.broken
      /\ w.stream = k.stream /\ w.user = k.user /\ w.ending = k.ending /\ w.handed = k.handed
  BY <1>1, <1>2 DEF ConnType, SameBytes
<1> QED BY <1>1, <1>3, <1>4, SoundEarlier

LEMMA InvHandOver ==
  ASSUME TcpInv, NEW c \in Conns, NEW k0, HandOver(c, k0), NEW a \in Nat,
         k0 = [conn[c] EXCEPT !.answers = a], running = Nil,
         conn[c].stage \notin {"open", "freed"}, UNCHANGED <<server, serving>>
  PROVE  TcpInv'
<1> DEFINE k == conn[c]
<1>1. k \in ConnType /\ Sound(k, FALSE, TRUE, serving) /\ k.stage \notin {"open", "freed"}
  <2>1. k \in ConnType /\ Sound(k, running = c, releases, serving) /\ running # c
    BY ConnAssumption DEF TcpInv
  <2>2. Sound(k, FALSE, releases, serving)
    BY <2>1
  <2> QED BY <2>1, <2>2 DEF Sound, Owned, Counts
<1>2. PICK w : w = [k EXCEPT !.answers = a, !.stage = "open", !.stream = TRUE, !.refs = 3, !.handed = TRUE]
  OBVIOUS
<1>3. Becomes(c, w) /\ running' = c /\ releases' = TRUE
  <2>1. [InitWithStream(k0) EXCEPT !.handed = TRUE] = w
    BY <1>1, <1>2 DEF InitWithStream, ConnType
  <2> QED BY <2>1 DEF HandOver
<1> HIDE DEF k
<1>4. w \in ConnType
  <2>1. "open" \in Stages /\ 3 \in Int
    BY DEF Stages
  <2> QED BY ONLY a \in Nat, <1>1, <1>2, <2>1 DEF ConnType
<1>5. /\ w.stage = "open" /\ w.refs = 3 /\ w.handed = TRUE
      /\ SameBytes(w, k) /\ w.broken = k.broken /\ w.user = k.user /\ w.ending = k.ending
  BY <1>1, <1>2 DEF ConnType, SameBytes
<1>6. Sound(w, TRUE, TRUE, serving)
  <2>1. k.user = FALSE /\ k.ending = FALSE
    BY <1>1 DEF Sound, Owned, ConnType
  <2> QED BY <1>1, <1>4, <1>5, <2>1, SoundHanded DEF TcpInv
<1>7. Sound(w, running' = c, releases', serving)
  BY <1>3, <1>6
<1> QED BY <1>3, <1>7, OneChanges DEF TcpInv

(* k's callback does not run. *)
LEMMA Outside ==
  ASSUME TcpInv, NEW c \in Conns, running = Nil, NEW due
  PROVE  conn[c] \in ConnType /\ Sound(conn[c], FALSE, due, serving)
<1>1. conn[c] \in ConnType /\ Sound(conn[c], running = c, releases, serving) /\ running # c
  BY ConnAssumption DEF TcpInv
<1>2. Sound(conn[c], FALSE, releases, serving)
  BY <1>1
<1> QED BY <1>1, <1>2 DEF Sound, Owned, Counts

LEMMA InvFail ==
  ASSUME TcpInv, NEW c \in Conns, Fail(c), conn[c].stage \notin {"open", "freed"},
         UNCHANGED <<server, serving>>
  PROVE  TcpInv'
<1>1. PICK w : w = [conn[c] EXCEPT !.stage = "failed", !.answers = @ + 1]
  OBVIOUS
<1>2. conn[c].answers + 1 \in Nat
  <2>1. conn[c] \in ConnType
    BY DEF TcpInv
  <2> QED BY <2>1 DEF ConnType
<1>3. Becomes(c, w)
  BY <1>1 DEF Fail
<1>4. Sound(w, running = c, releases, serving)
  BY <1>1, <1>2, FailedSound
<1> QED BY <1>3, <1>4, OneChanges DEF TcpInv, Fail

LEMMA InvAccept == ASSUME TcpInv, NEW c \in Conns, Accept(c) PROVE TcpInv'
<1> DEFINE k == conn[c]
<1>1. k \in ConnType /\ Sound(k, FALSE, releases, serving) /\ k.stage = "waiting" /\ k.answers = 0
  <2>1. k \in ConnType /\ Sound(k, FALSE, releases, serving) /\ k.stage = "waiting"
    BY Outside DEF Accept
  <2> QED BY <2>1 DEF Sound, Owned
<1>2. running = Nil /\ UNCHANGED <<server, serving>> /\ k.stage \notin {"open", "freed"}
  BY <1>1 DEF Accept
<1>3. CASE HandOver(c, conn[c])
  <2>1. conn[c] = [conn[c] EXCEPT !.answers = 0]
    BY <1>1 DEF ConnType
  <2> QED BY <1>2, <1>3, <2>1, InvHandOver
<1>4. CASE /\ ~serving
           /\ Becomes(c, [InitWithStream(conn[c]) EXCEPT !.refs = @ - 1])
           /\ UNCHANGED <<running, releases>>
  <2>1. PICK w : w = [k EXCEPT !.stage = "open", !.stream = TRUE, !.refs = 2]
    OBVIOUS
  <2>2. Becomes(c, w)
    <3>1. PICK u : u = InitWithStream(k)
      OBVIOUS
    <3>2. u = [k EXCEPT !.stage = "open", !.stream = TRUE, !.refs = 3] /\ u.refs = 3
      BY <1>1, <3>1 DEF InitWithStream, ConnType
    <3>3. [u EXCEPT !.refs = 2] = w
      BY <1>1, <2>1, <3>2 DEF ConnType
    <3>4. u.refs - 1 = 2
      BY <3>2
    <3> QED BY <1>4, <3>1, <3>3, <3>4
  <2> HIDE DEF k
  <2>3. w \in ConnType
    <3>1. "open" \in Stages /\ 2 \in Int
      BY DEF Stages
    <3> QED BY ONLY <1>1, <2>1, <3>1 DEF ConnType
  <2>4. /\ w.stage = "open" /\ w.refs = 2 /\ w.handed = k.handed /\ w.answers = k.answers
        /\ SameBytes(w, k) /\ w.broken = k.broken /\ w.user = k.user /\ w.ending = k.ending
    BY <1>1, <2>1 DEF ConnType, SameBytes
  <2>5. serving = FALSE /\ k.handed = FALSE
    BY <1>1, <1>2, <1>4 DEF Sound, Owned, ConnType, TcpInv
  <2>6. Sound(w, FALSE, releases, serving)
    BY <1>1, <1>2, <2>3, <2>4, <2>5, SoundRefused
  <2>7. (running' = c) = FALSE
    BY <1>2, <1>4, ConnAssumption
  <2>8. Sound(w, running' = c, releases', serving)
    BY <1>4, <2>6, <2>7
  <2> QED BY <1>2, <1>4, <2>2, <2>8, OneChanges DEF TcpInv
<1>5. CASE /\ Becomes(c, [conn[c] EXCEPT !.stage = "failed"])
           /\ UNCHANGED <<running, releases>>
  <2>1. PICK w : w = [k EXCEPT !.stage = "failed"]
    OBVIOUS
  <2>2. Sound(w, running = c, releases, serving)
    BY <1>1, <2>1, FailedSound
  <2> QED BY <1>2, <1>5, <2>1, <2>2, OneChanges DEF TcpInv
<1> QED BY <1>3, <1>4, <1>5 DEF Accept

LEMMA InvResolved == ASSUME TcpInv, NEW c \in Conns, Resolved(c) PROVE TcpInv'
<1>1. conn[c].stage \notin {"open", "freed"} /\ UNCHANGED <<server, serving>>
  BY DEF Resolved
<1>2. CASE /\ Becomes(c, [conn[c] EXCEPT !.stage = "connecting"])
           /\ UNCHANGED <<running, releases>>
  <2>1. PICK w : w = [conn[c] EXCEPT !.stage = "connecting"]
    OBVIOUS
  <2>2. Sound(w, running = c, releases, serving)
    BY <1>1, <2>1, FailedSound
  <2> QED BY <1>1, <1>2, <2>1, <2>2, OneChanges DEF TcpInv
<1> QED BY <1>1, <1>2, InvFail DEF Resolved

LEMMA InvConnected == ASSUME TcpInv, NEW c \in Conns, Connected(c) PROVE TcpInv'
<1>1. /\ conn[c].stage \notin {"open", "freed"} /\ UNCHANGED <<server, serving>>
      /\ running = Nil /\ conn[c] \in ConnType
  BY DEF Connected, TcpInv
<1>2. CASE HandOver(c, [conn[c] EXCEPT !.answers = @ + 1])
  <2>1. conn[c].answers + 1 \in Nat
    BY <1>1 DEF ConnType
  <2> QED BY <1>1, <1>2, <2>1, InvHandOver
<1> QED BY <1>1, <1>2, InvFail DEF Connected

(* The callbacks of the requests that are complete, and of the shutdown    *)
(* when nothing is left.                                                   *)
LEMMA SoundDrain ==
  ASSUME NEW k, NEW due, NEW srv, Sound(k, FALSE, due, srv), k.stage = "open"
  PROVE  Sound(UvDrain(WriteCb(k)), FALSE, due, srv)
<1> DEFINE v == WriteCb(k)
           w == UvDrain(v)
<1>1. k \in ConnType /\ Owned(k, FALSE, due, srv) /\ Ordered(k) /\ Untouched(k)
  BY DEF Sound
<1>2. k.held - k.done = Len(k.queue) /\ Len(k.queue) \in Nat /\ k.done \in Nat /\ k.held \in Nat
  BY <1>1 DEF Owned, ConnType
<1>3. v = [k EXCEPT !.held = @ - k.done, !.done = 0]
  BY DEF WriteCb
<1>4. w = IF v.queue = <<>> /\ v.ending
          THEN [v EXCEPT !.stage = "freed", !.ending = FALSE, !.refs = @ - 1] ELSE v
  BY DEF UvDrain, ShutdownCb
<1> HIDE DEF v, w
<1>5. v \in ConnType
  <2>1. k.held - k.done \in Nat /\ 0 \in Nat
    BY <1>2
  <2> QED BY ONLY <1>1, <1>3, <2>1 DEF ConnType
<1>6. /\ v.queue = k.queue /\ v.sent = k.sent /\ v.written = k.written /\ v.broken = k.broken
      /\ v.done = 0 /\ v.held = k.held - k.done /\ Kept(v, k)
  BY <1>1, <1>3 DEF ConnType, Kept
<1>7. v.held = Len(v.queue) + v.done /\ v.held <= MaxPending
  <2>1. k.held <= MaxPending /\ k.held = Len(k.queue) + k.done
    BY <1>1 DEF Owned
  <2>2. v.held = Len(v.queue)
    BY <1>2, <1>6
  <2>3. v.held <= MaxPending
    <3>1. v.held <= k.held
      BY <1>2, <1>6
    <3>2. v.held \in Nat
      BY <1>5 DEF ConnType
    <3> QED BY <1>2, <2>1, <3>1, <3>2, ConnAssumption
  <2> QED BY <1>2, <1>6, <2>2, <2>3
<1>8. Owned(v, FALSE, due, srv) /\ Untouched(v) /\ Ordered(v)
  BY <1>1, <1>6, <1>7, KeptOwned DEF Ordered
<1>9. ASSUME ~(v.queue = <<>> /\ v.ending) PROVE Sound(w, FALSE, due, srv)
  <2>1. w = v
    BY <1>4, <1>9
  <2> QED BY <1>5, <1>8, <2>1 DEF Sound
<1>10. ASSUME v.queue = <<>>, v.ending PROVE Sound(w, FALSE, due, srv)
  <2>1. w = [v EXCEPT !.stage = "freed", !.ending = FALSE, !.refs = @ - 1]
    BY <1>4, <1>10
  <2>2. w \in ConnType
    <3>1. "freed" \in Stages /\ v.refs - 1 \in Int
      BY <1>5 DEF Stages, ConnType
    <3> QED BY ONLY <1>5, <2>1, <3>1 DEF ConnType
  <2>3. /\ w.stage = "freed" /\ w.ending = FALSE /\ w.refs = v.refs - 1
        /\ w.stream = v.stream /\ w.user = v.user /\ w.handed = v.handed
        /\ w.answers = v.answers /\ w.broken = v.broken /\ SameBytes(w, v)
    BY <1>5, <2>1 DEF ConnType, SameBytes
  <2>4. ~v.stream /\ v.held = 0 /\ v.stage = "open"
    <3>1. Len(v.queue) = 0 /\ v.done = 0
      BY <1>6, <1>10
    <3>2. v.held = 0
      BY <1>7, <3>1
    <3> QED BY <1>1, <1>6, <1>8, <1>10, <3>2 DEF Owned, Kept
  <2>5. Counts(w, FALSE, due)
    <3>1. Counts(v, FALSE, due)
      BY <1>8, <2>4 DEF Owned
    <3> QED BY <1>5, <2>3, <2>4, <3>1 DEF Counts, ConnType
  <2>6. Owned(w, FALSE, due, srv)
    BY <1>8, <2>3, <2>4, <2>5 DEF Owned, SameBytes
  <2> QED BY <1>8, <2>2, <2>3, <2>6, SoundSame
<1> QED BY <1>9, <1>10 DEF v, w

LEMMA InvWritable == ASSUME TcpInv, NEW c \in Conns, Writable(c) PROVE TcpInv'
<1> DEFINE k == conn[c]
<1>1. /\ running = Nil /\ k.stage = "open" /\ Sound(k, FALSE, releases, serving)
      /\ UNCHANGED <<server, serving, running, releases>>
  BY Outside DEF Writable
<1>2. PICK w : Sound(w, FALSE, releases, serving) /\ Becomes(c, w)
  <2>1. CASE Becomes(c, UvDrain(WriteCb(k)))
    BY <1>1, <2>1, SoundDrain
  <2>2. CASE k.queue # <<>> /\ \E j \in 0 .. Len(Head(k.queue)) : Becomes(c, UvDrain(WriteCb(UvFlush(k, j))))
    <3>1. PICK j \in 0 .. Len(Head(k.queue)) : Becomes(c, UvDrain(WriteCb(UvFlush(k, j))))
      BY <2>2
    <3>2. releases \in BOOLEAN /\ serving \in BOOLEAN /\ MaxPending \in Nat
      BY ConnAssumption DEF TcpInv
    <3>3. Sound(UvFlush(k, j), FALSE, releases, serving) /\ UvFlush(k, j).stage = "open"
      BY <1>1, <2>2, <3>2, SoundFlush
    <3> QED BY <3>1, <3>3, SoundDrain
  <2> QED BY <2>1, <2>2 DEF Writable
<1>3. (running' = c) = FALSE
  BY <1>1, ConnAssumption
<1>4. Sound(w, running' = c, releases', serving)
  BY <1>1, <1>2, <1>3
<1> QED BY <1>1, <1>2, <1>4, OneChanges DEF TcpInv

(* Nothing changes of what the references are counted by. *)
LEMMA KeptSound ==
  ASSUME NEW k, NEW w \in ConnType, NEW here, NEW due, NEW srv, Sound(k, here, due, srv),
         Kept(w, k), SameBytes(w, k), w.broken = k.broken \/ w.broken = TRUE
  PROVE  Sound(w, here, due, srv)
<1>1. Owned(k, here, due, srv) /\ Ordered(k) /\ Untouched(k)
  BY DEF Sound
<1>2. Owned(w, here, due, srv)
  <2>1. Counts(w, here, due) <=> Counts(k, here, due)
    BY DEF Counts, Kept
  <2> QED BY <1>1, <2>1 DEF Owned, Kept, SameBytes
<1> QED BY <1>1, <1>2, SoundSame DEF Kept

LEMMA InvReadable == ASSUME TcpInv, NEW c \in Conns, Readable(c) PROVE TcpInv'
<1> DEFINE k == conn[c]
<1>1. /\ running = Nil /\ k.stage = "open" /\ Sound(k, FALSE, FALSE, serving) /\ k \in ConnType
      /\ running' = c /\ releases' = FALSE /\ UNCHANGED <<server, serving>>
  BY Outside DEF Readable
<1>2. PICK over \in BOOLEAN : Becomes(c, [k EXCEPT !.eof = over])
  BY DEF Readable
<1> DEFINE w == [k EXCEPT !.eof = over]
<1> HIDE DEF k
<1>3. w \in ConnType
  BY <1>1 DEF ConnType
<1>4. Kept(w, k) /\ SameBytes(w, k) /\ w.broken = k.broken
  BY <1>1 DEF ConnType, Kept, SameBytes
<1> HIDE DEF w
<1>5. Sound(k, TRUE, FALSE, serving)
  BY <1>1 DEF Sound, Owned, Counts
<1>6. Sound(w, TRUE, FALSE, serving)
  BY <1>3, <1>4, <1>5, KeptSound
<1>7. Sound(w, running' = c, releases', serving)
  BY <1>1, <1>6
<1>8. Becomes(c, w)
  BY <1>2 DEF w
<1> QED BY <1>1, <1>7, <1>8, OneChanges DEF TcpInv

LEMMA InvBreak == ASSUME TcpInv, NEW c \in Conns, Break(c) PROVE TcpInv'
<1> DEFINE k == conn[c]
<1>1. /\ Sound(k, running = c, releases, serving) /\ k \in ConnType
      /\ UNCHANGED <<server, serving, running, releases>>
  BY DEF Break, TcpInv
<1>2. PICK w : w = [k EXCEPT !.broken = TRUE] /\ Becomes(c, w)
  BY DEF Break
<1> HIDE DEF k
<1>3. w \in ConnType
  BY ONLY <1>1, <1>2 DEF ConnType
<1>4. Kept(w, k) /\ SameBytes(w, k) /\ w.broken = TRUE
  BY <1>1, <1>2 DEF ConnType, Kept, SameBytes
<1>5. Sound(w, running = c, releases, serving)
  BY <1>1, <1>3, <1>4, KeptSound
<1> QED BY <1>1, <1>2, <1>5, OneChanges DEF TcpInv

LEMMA InvProgramWrites == ASSUME TcpInv, NEW c \in Conns, ProgramWrites(c) PROVE TcpInv'
<1> DEFINE k == conn[c]
<1>1. /\ Sound(k, running = c, releases, serving) /\ k.held < MaxPending
      /\ UNCHANGED <<server, serving, running, releases>>
  BY DEF ProgramWrites, TcpInv
<1>2. PICK n \in 0 .. MaxLength : \E w \in StreamWrite(k, n) : Becomes(c, w)
  BY DEF ProgramWrites
<1>3. PICK w \in StreamWrite(k, n) : Becomes(c, w)
  BY <1>2
<1> HIDE DEF k
<1>4. PICK here \in BOOLEAN : here = (running = c)
  OBVIOUS
<1>5. Sound(w, here, releases, serving)
  <2>1. releases \in BOOLEAN /\ serving \in BOOLEAN /\ MaxPending \in Nat /\ n \in Nat
    BY ConnAssumption DEF TcpInv
  <2>2. Sound(k, here, releases, serving)
    BY <1>1, <1>4
  <2> QED BY ONLY <1>1, <1>3, <2>1, <2>2, here \in BOOLEAN, SoundWrite
<1>6. Sound(w, running = c, releases, serving)
  BY <1>4, <1>5
<1> QED BY <1>1, <1>3, <1>6, OneChanges DEF TcpInv

(* Nothing changes of the bytes, of a connection that is open or freed. *)
LEMMA OwnedSound ==
  ASSUME NEW k, NEW w \in ConnType, NEW here, NEW due, NEW srv, NEW here2, NEW due2,
         Sound(k, here, due, srv), SameBytes(w, k), w.broken = k.broken,
         k.stage \in {"open", "freed"}, w.stage = k.stage, w.handed = k.handed,
         w.answers = k.answers, w.ending => ~w.stream, w.stage = "freed" => ~w.stream,
         Counts(w, here2, due2)
  PROVE  Sound(w, here2, due2, srv)
<1>1. Owned(k, here, due, srv) /\ Ordered(k) /\ Untouched(k)
  BY DEF Sound
<1>2. Owned(w, here2, due2, srv)
  BY <1>1 DEF Owned, SameBytes
<1> QED BY <1>1, <1>2, SoundSame

LEMMA InvProgramEnds == ASSUME TcpInv, NEW c \in Conns, ProgramEnds(c) PROVE TcpInv'
<1> DEFINE k == conn[c]
<1>1. /\ Sound(k, running = c, releases, serving) /\ k \in ConnType
      /\ UNCHANGED <<server, serving, running, releases>>
  BY DEF ProgramEnds, TcpInv
<1>2. PICK w : w = StreamWriteEnd(k)
  OBVIOUS
<1>3. Becomes(c, w)
  BY <1>2 DEF ProgramEnds
<1> HIDE DEF k
<1>4. CASE ~k.stream
  <2>1. w = k
    BY <1>2, <1>4 DEF StreamWriteEnd
  <2> QED BY <1>1, <1>3, <2>1, OneChanges DEF TcpInv
<1>5. CASE k.stream
  <2>1. w = [k EXCEPT !.stream = FALSE, !.ending = TRUE]
    BY <1>2, <1>5 DEF StreamWriteEnd
  <2>2. w \in ConnType
    BY ONLY <1>1, <2>1 DEF ConnType
  <2>3. /\ w.stream = FALSE /\ w.ending = TRUE /\ w.stage = k.stage /\ w.refs = k.refs
        /\ w.user = k.user /\ w.handed = k.handed /\ w.answers = k.answers
        /\ w.broken = k.broken /\ SameBytes(w, k)
    BY <1>1, <2>1 DEF ConnType, SameBytes
  <2>4. k.stage = "open" /\ Counts(k, running = c, releases)
    BY <1>1, <1>5 DEF Sound, Owned
  <2>5. Counts(w, running = c, releases)
    BY <2>3, <2>4 DEF Counts
  <2>6. Sound(w, running = c, releases, serving)
    BY <1>1, <2>2, <2>3, <2>4, <2>5, OwnedSound
  <2> QED BY <1>1, <1>3, <2>6, OneChanges DEF TcpInv
<1> QED BY <1>4, <1>5

LEMMA InvRetain == ASSUME TcpInv, NEW c \in Conns, Retain(c) \/ Release(c) PROVE TcpInv'
<1> DEFINE k == conn[c]
<1>1. /\ Sound(k, running = c, releases, serving) /\ k \in ConnType
      /\ running = c \/ k.user
      /\ UNCHANGED <<server, serving, running, releases>>
  BY DEF Retain, Release, TcpInv
<1>2. PICK w : Becomes(c, w) /\ \/ ~k.user /\ w = [k EXCEPT !.user = TRUE, !.refs = @ + 1]
                                \/ k.user /\ w = [k EXCEPT !.user = FALSE, !.refs = @ - 1]
  BY DEF Retain, Release
<1> HIDE DEF k
<1>3. w \in ConnType
  <2>1. k.refs + 1 \in Int /\ k.refs - 1 \in Int
    BY <1>1 DEF ConnType
  <2> QED BY ONLY <1>1, <1>2, <2>1 DEF ConnType
<1>4. /\ w.stage = k.stage /\ w.stream = k.stream /\ w.ending = k.ending
      /\ w.handed = k.handed /\ w.answers = k.answers
      /\ w.broken = k.broken /\ SameBytes(w, k)
      /\ \/ ~k.user /\ w.user = TRUE /\ w.refs = k.refs + 1
         \/ k.user /\ w.user = FALSE /\ w.refs = k.refs - 1
  BY <1>1, <1>2 DEF ConnType, SameBytes
<1>5. k.stage \in {"open", "freed"} /\ Counts(k, running = c, releases)
      /\ (k.ending => ~k.stream) /\ (k.stage = "freed" => ~k.stream)
  BY <1>1 DEF Sound, Owned
<1>6. Counts(w, running = c, releases)
  BY <1>1, <1>4, <1>5 DEF Counts, ConnType
<1>7. Sound(w, running = c, releases, serving)
  BY <1>1, <1>3, <1>4, <1>5, <1>6, OwnedSound
<1> QED BY <1>1, <1>2, <1>7, OneChanges DEF TcpInv

LEMMA InvHandlerReturns == ASSUME TcpInv, HandlerReturns PROVE TcpInv'
<1>1. PICK c \in Conns : c = running
  BY DEF HandlerReturns, TcpInv
<1> DEFINE k == conn[c]
<1>2. /\ running = c /\ c # Nil /\ running' = Nil /\ releases' = FALSE
      /\ UNCHANGED <<server, serving>>
  BY <1>1 DEF HandlerReturns
<1>3. Sound(k, TRUE, releases, serving) /\ k \in ConnType
  BY <1>2 DEF TcpInv
<1>4. k.stage \in {"open", "freed"} /\ Counts(k, TRUE, releases)
      /\ (k.ending => ~k.stream) /\ (k.stage = "freed" => ~k.stream)
  BY <1>3 DEF Sound, Owned
<1>5. PICK w : /\ Becomes(c, w)
               /\ \/ releases /\ w = [k EXCEPT !.refs = @ - 1]
                  \/ ~releases /\ w = k
  <2>1. CASE releases
    BY <1>2, <2>1 DEF HandlerReturns
  <2>2. CASE ~releases
    <3>1. conn' = [conn EXCEPT ![c] = k]
      BY <1>2, <2>2 DEF HandlerReturns, TcpInv
    <3> QED BY <2>2, <3>1 DEF Becomes
  <2> QED BY <2>1, <2>2
<1> HIDE DEF k
<1>6. w \in ConnType
  <2>1. k.refs - 1 \in Int
    BY <1>3 DEF ConnType
  <2> QED BY ONLY <1>3, <1>5, <2>1 DEF ConnType
<1>7. /\ w.stage = k.stage /\ w.stream = k.stream /\ w.ending = k.ending /\ w.user = k.user
      /\ w.handed = k.handed /\ w.answers = k.answers
      /\ w.broken = k.broken /\ SameBytes(w, k)
      /\ w.refs = IF releases THEN k.refs - 1 ELSE k.refs
  BY <1>3, <1>5 DEF ConnType, SameBytes
<1>8. Counts(w, FALSE, FALSE)
  BY <1>3, <1>4, <1>7 DEF Counts, ConnType
<1>9. Sound(w, FALSE, FALSE, serving)
  BY <1>3, <1>4, <1>6, <1>7, <1>8, OwnedSound
<1>10. (running' = c) = FALSE
  BY <1>2
<1>11. Sound(w, running' = c, releases', serving)
  BY <1>2, <1>9, <1>10
<1> QED BY <1>2, <1>5, <1>11, OneChanges DEF TcpInv

LEMMA TcpInvariant == TcpSpec => []TcpInv
<1> USE ConnAssumption
<1>1. TcpInit => TcpInv
  BY InvInit
<1>2. TcpInv /\ [TcpNext]_tcpVars => TcpInv'
  <2> SUFFICES ASSUME TcpInv, [TcpNext]_tcpVars PROVE TcpInv'
    OBVIOUS
  <2>1. ASSUME NEW c \in Conns, PeerConnects(c) \/ Connect(c) PROVE TcpInv'
    BY <2>1, InvEarlier
  <2>2. ASSUME NEW c \in Conns, Accept(c) \/ Resolved(c) \/ Connected(c) PROVE TcpInv'
    BY <2>2, InvAccept, InvResolved, InvConnected
  <2>3. ASSUME NEW c \in Conns, Readable(c) \/ Writable(c) \/ Break(c) PROVE TcpInv'
    BY <2>3, InvReadable, InvWritable, InvBreak
  <2>4. ASSUME NEW c \in Conns, ProgramWrites(c) \/ ProgramEnds(c) PROVE TcpInv'
    BY <2>4, InvProgramWrites, InvProgramEnds
  <2>5. ASSUME NEW c \in Conns, Retain(c) \/ Release(c) PROVE TcpInv'
    BY <2>5, InvRetain
  <2>6. CASE UNCHANGED tcpVars
    BY <2>6 DEF TcpInv, tcpVars
  <2> QED BY <2>1, <2>2, <2>3, <2>4, <2>5, <2>6, InvListen, InvClose, InvHandlerReturns DEF TcpNext
<1> QED BY <1>1, <1>2, PTL DEF TcpSpec

(* The kernel gets the bytes of a connection in the order of the writes,   *)
(* none twice, and what it did not get is in the queue, however write: and *)
(* libuv split them.                                                       *)
THEOREM WritesInOrder == TcpSpec => []BytesInOrder
BY TcpInvariant, InvBytes, PTL

(* The references keep a connection while the program, a stream or a       *)
(* callback can reach it, and the data of a write until it is done.        *)
THEOREM StreamsKept == TcpSpec => []StreamsOwned
<1>1. TcpInv => StreamsOwned
  BY InvStreams, ConnAssumption
<1> QED BY <1>1, TcpInvariant, PTL
=============================================================================
