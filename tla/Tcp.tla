-------------------------------- MODULE Tcp --------------------------------
(***************************************************************************)
(* A TCP server and its connections, accepted or made by tcpConnectAtPort  *)
(* (MSNode_src/MSTcp.m), on the thread of one loop.  A connection retains  *)
(* itself for its stream, and each write retains its data, until libuv     *)
(* calls back.  Inside a callback the handlers of the program run, which   *)
(* may write, end the connection, and retain or release it.                *)
(*                                                                         *)
(* libuv (deps/libuv/src/unix/stream.c) writes what the kernel takes,      *)
(* keeps the rest in a queue, completes requests in their order, and shuts *)
(* the stream down when the queue is empty.  Bytes are numbered as the     *)
(* program writes them.                                                    *)
(***************************************************************************)
EXTENDS Naturals, Sequences, SequencesExt

CONSTANTS
  Conns,        \* the connections; each is made by a peer or by the program
  Nil,         \* nil
  MaxLength,    \* bounds the length of a buffer
  MaxBytes,     \* bounds the bytes written to a connection
  MaxPending    \* bounds the write requests that are not completed

ASSUME ConnAssumption ==
  Nil \notin Conns /\ MaxLength \in Nat /\ MaxPending \in Nat /\ MaxBytes \in Nat

VARIABLES
  server,    \* libuv: "starting", "listening" or "failed"
  serving,   \* _handle.data of the server is set
  conn,      \* conn[c]: a connection and its stream, a record
  running,   \* the connection in whose handler the program is, or Nil
  releases   \* the callback gives a reference back when the handler returns

tcpVars == <<server, serving, conn, running, releases>>

(* stage: where the connection is; stream: _stream is set; refs: the       *)
(* references to it, user: one of them is the program's.                   *)
(* libuv: queue holds the bytes each write request has left, done counts   *)
(* the requests that are complete and not called back, ending says that a  *)
(* shutdown is requested, broken that writes fail, eof that reading is     *)
(* over; sent are the bytes the kernel took.                               *)
(* held counts the data that requests retain.  History: the bytes written, *)
(* handed: a handler got the connection, answers: the calls of a connect   *)
(* handler.                                                                *)
Nothing ==
  [stage |-> "none", stream |-> FALSE, refs |-> 0, user |-> FALSE,
   queue |-> <<>>, done |-> 0, ending |-> FALSE, broken |-> FALSE, eof |-> FALSE,
   sent |-> <<>>, held |-> 0, written |-> 0, handed |-> FALSE, answers |-> 0]

TcpInit ==
  /\ server = "starting" /\ serving = TRUE
  /\ conn = [c \in Conns |-> Nothing]
  /\ running = Nil /\ releases = FALSE

Becomes(c, k) == conn' = [conn EXCEPT ![c] = k]

-----------------------------------------------------------------------------
(* The methods of a connection. *)

(* initWithStream: one reference of the caller, one for the stream, and a  *)
(* third that nobody gives back.                                           *)
InitWithStream(k) ==
  [k EXCEPT !.stage = "open", !.stream = TRUE, !.refs = 3]

(* uv_write: what the kernel takes at once is part of uv_try_write here.   *)
UvWrite(k, rest) ==
  IF k.queue = <<>> /\ rest = <<>>
  THEN [k EXCEPT !.done = @ + 1]
  ELSE [k EXCEPT !.queue = Append(@, rest)]

(* uv_try_write: what the kernel takes of n bytes, nothing (EAGAIN) while  *)
(* earlier requests wait, or when the write fails.                         *)
UvTryWrite(k, n) == IF k.queue = <<>> /\ ~k.broken THEN 0 .. n ELSE {0}

\* Faulty form: what has been written is not taken off.
StreamWriteAgain(k, n) ==
  IF ~k.stream THEN {k} ELSE
  LET bytes == [i \in 1 .. n |-> k.written + i]
      with(r) == [k EXCEPT !.written = @ + n, !.held = @ + 1,
                           !.sent = @ \o SubSeq(bytes, 1, r)]
  IN  { UvWrite(with(r), bytes) : r \in UvTryWrite(k, n) }

(* write: of n bytes; nothing happens after writeEnd. *)
StreamWrite(k, n) ==
  IF ~k.stream THEN {k} ELSE
  LET bytes == [i \in 1 .. n |-> k.written + i]
      with(r) == [k EXCEPT !.written = @ + n, !.held = @ + 1,
                           !.sent = @ \o SubSeq(bytes, 1, r)]
  IN  { UvWrite(with(r), SubSeq(bytes, r + 1, n)) : r \in UvTryWrite(k, n) }

\* Faulty form: _stream is kept, and a write may follow.
StreamWriteEndKeepsStream(k) ==
  IF k.stream THEN [k EXCEPT !.ending = TRUE] ELSE k

(* writeEnd. *)
StreamWriteEnd(k) ==
  IF k.stream THEN [k EXCEPT !.stream = FALSE, !.ending = TRUE] ELSE k

(* _write_cb, for each request that is complete. *)
WriteCb(k) == [k EXCEPT !.held = @ - k.done, !.done = 0]

(* _shutdown_cb: frees the stream and gives its reference back.            *)
ShutdownCb(k) ==
  [k EXCEPT !.stage = "freed", !.ending = FALSE, !.refs = @ - 1]

(* uv__write: the kernel takes j bytes of the first request, or fails it.  *)
UvFlush(k, j) ==
  LET first == Head(k.queue) IN
  IF k.broken THEN [k EXCEPT !.queue = Tail(@), !.done = @ + 1]
  ELSE IF j = Len(first) THEN [k EXCEPT !.queue = Tail(@), !.done = @ + 1, !.sent = @ \o first]
  ELSE [k EXCEPT !.queue[1] = SubSeq(first, j + 1, Len(first)),
                 !.sent = @ \o SubSeq(first, 1, j)]

(* uv__drain: after the callbacks of the writes, when none is left.        *)
UvDrain(k) == IF k.queue = <<>> /\ k.ending THEN ShutdownCb(k) ELSE k

-----------------------------------------------------------------------------
(* The server. *)

(* _listen_getaddrinfo_cb. *)
Listen ==
  /\ running = Nil /\ server = "starting"
  /\ server' \in {"listening", "failed"}
  /\ UNCHANGED <<serving, conn, running, releases>>

(* close: the shutdown of a listening socket waits to write, and is never  *)
(* done (Windows refuses it), so that all close does is to forget the      *)
(* server; connections are accepted as before.                             *)
Close ==
  /\ serving
  /\ serving' = FALSE
  /\ UNCHANGED <<server, conn, running, releases>>

PeerConnects(c) ==
  /\ server = "listening" /\ conn[c].stage = "none"
  /\ Becomes(c, [conn[c] EXCEPT !.stage = "waiting"])
  /\ UNCHANGED <<server, serving, running, releases>>

(* The handlers get c; then the callback releases it. *)
HandOver(c, k) ==
  /\ Becomes(c, [InitWithStream(k) EXCEPT !.handed = TRUE])
  /\ running' = c /\ releases' = TRUE

(* _connection_cb: uv_accept may fail; without a server the connection is  *)
(* given to nil and released.                                              *)
Accept(c) ==
  /\ running = Nil /\ conn[c].stage = "waiting"
  /\ \/ serving /\ HandOver(c, conn[c])
     \/ /\ ~serving
        /\ Becomes(c, [InitWithStream(conn[c]) EXCEPT !.refs = @ - 1])
        /\ UNCHANGED <<running, releases>>
     \/ /\ Becomes(c, [conn[c] EXCEPT !.stage = "failed"])
        /\ UNCHANGED <<running, releases>>
  /\ UNCHANGED <<server, serving>>

-----------------------------------------------------------------------------
(* tcpConnectAtPort:, and its two callbacks. *)
Connect(c) ==
  /\ conn[c].stage = "none"
  /\ Becomes(c, [conn[c] EXCEPT !.stage = "resolving"])
  /\ UNCHANGED <<server, serving, running, releases>>

(* The handler is called with nil and the error. *)
Fail(c) ==
  /\ Becomes(c, [conn[c] EXCEPT !.stage = "failed", !.answers = @ + 1])
  /\ UNCHANGED <<running, releases>>

\* Faulty form: an error before the connection is made is not told.
ResolvedSilent(c) ==
  /\ running = Nil /\ conn[c].stage = "resolving"
  /\ \E s \in {"connecting", "failed"} : Becomes(c, [conn[c] EXCEPT !.stage = s])
  /\ UNCHANGED <<server, serving, running, releases>>

(* _connect_getaddrinfo_cb: the name, the socket or the connect may fail.  *)
Resolved(c) ==
  /\ running = Nil /\ conn[c].stage = "resolving"
  /\ \/ /\ Becomes(c, [conn[c] EXCEPT !.stage = "connecting"])
        /\ UNCHANGED <<running, releases>>
     \/ Fail(c)
  /\ UNCHANGED <<server, serving>>

(* _connect_cb. *)
Connected(c) ==
  /\ running = Nil /\ conn[c].stage = "connecting"
  /\ HandOver(c, [conn[c] EXCEPT !.answers = @ + 1]) \/ Fail(c)
  /\ UNCHANGED <<server, serving>>

-----------------------------------------------------------------------------
(* The other events of the loop. *)

(* _read_cb, with data or at the end of what the peer sends. *)
Readable(c) ==
  /\ running = Nil /\ conn[c].stage = "open" /\ ~conn[c].eof
  /\ \E over \in BOOLEAN : Becomes(c, [conn[c] EXCEPT !.eof = over])
  /\ running' = c /\ releases' = FALSE
  /\ UNCHANGED <<server, serving>>

(* The stream can be written: one request, then the callbacks. *)
Writable(c) ==
  LET k == conn[c] IN
  /\ running = Nil /\ k.stage = "open"
  /\ \/ k.queue = <<>> /\ (k.done > 0 \/ k.ending) /\ Becomes(c, UvDrain(WriteCb(k)))
     \/ /\ k.queue # <<>>
        /\ \E j \in 0 .. Len(Head(k.queue)) :
             /\ j = 0 => Head(k.queue) = <<>> \/ k.broken
             /\ Becomes(c, UvDrain(WriteCb(UvFlush(k, j))))
  /\ UNCHANGED <<server, serving, running, releases>>

(* The peer resets the connection: writes fail from now on. *)
Break(c) ==
  /\ conn[c].stage = "open" /\ ~conn[c].broken
  /\ Becomes(c, [conn[c] EXCEPT !.broken = TRUE])
  /\ UNCHANGED <<server, serving, running, releases>>

-----------------------------------------------------------------------------
(* The program: in a handler, or elsewhere with a reference of its own.    *)
Reaches(c) == running = c \/ conn[c].user

ProgramWrites(c) ==
  /\ Reaches(c)
  /\ conn[c].held < MaxPending
  /\ \E n \in 0 .. MaxLength :
       /\ conn[c].written + n <= MaxBytes
       /\ \E k \in StreamWrite(conn[c], n) : Becomes(c, k)
  /\ UNCHANGED <<server, serving, running, releases>>

ProgramEnds(c) ==
  /\ Reaches(c)
  /\ Becomes(c, StreamWriteEnd(conn[c]))
  /\ UNCHANGED <<server, serving, running, releases>>

Retain(c) ==
  /\ running = c /\ ~conn[c].user
  /\ Becomes(c, [conn[c] EXCEPT !.user = TRUE, !.refs = @ + 1])
  /\ UNCHANGED <<server, serving, running, releases>>

Release(c) ==
  /\ conn[c].user
  /\ Becomes(c, [conn[c] EXCEPT !.user = FALSE, !.refs = @ - 1])
  /\ UNCHANGED <<server, serving, running, releases>>

(* The handler, and with it the callback, returns. *)
HandlerReturns ==
  /\ running # Nil
  /\ IF releases THEN Becomes(running, [conn[running] EXCEPT !.refs = @ - 1])
     ELSE UNCHANGED conn
  /\ running' = Nil /\ releases' = FALSE
  /\ UNCHANGED <<server, serving>>

TcpNext ==
  \/ Listen \/ Close \/ HandlerReturns
  \/ \E c \in Conns :
       \/ PeerConnects(c) \/ Accept(c)
       \/ Connect(c) \/ Resolved(c) \/ Connected(c)
       \/ Readable(c) \/ Writable(c) \/ Break(c)
       \/ ProgramWrites(c) \/ ProgramEnds(c) \/ Retain(c) \/ Release(c)

(* Handlers return; the loop serves each event that stays due, and others  *)
(* may come between.                                                       *)
TcpFairness ==
  /\ WF_tcpVars(HandlerReturns)
  /\ \A c \in Conns : SF_tcpVars(Resolved(c)) /\ SF_tcpVars(Connected(c)) /\ SF_tcpVars(Writable(c))

TcpSpec == TcpInit /\ [][TcpNext]_tcpVars /\ TcpFairness

-----------------------------------------------------------------------------
TcpTypeOK ==
  /\ server \in {"starting", "listening", "failed"} /\ serving \in BOOLEAN
  /\ running \in Conns \cup {Nil} /\ releases \in BOOLEAN
  /\ \A c \in Conns :
       /\ conn[c].stage \in {"none", "waiting", "resolving", "connecting", "failed",
                             "open", "freed"}
       /\ conn[c].held \in 0 .. MaxPending

(* However the writes were split between the two calls of libuv, the       *)
(* kernel got the bytes in the order of the writes, none twice, and what   *)
(* it did not get is in the queue.                                         *)
BytesInOrder ==
  \A c \in Conns :
    LET k == conn[c]
        all == k.sent \o FlattenSeq(k.queue)
    IN  /\ k.sent = [i \in 1 .. Len(k.sent) |-> i]
        /\ ~k.broken => all = [i \in 1 .. k.written |-> i]

(* Whatever the program retains, releases, writes and ends, inside of      *)
(* callbacks or between them: what can be reached is alive, a stream has   *)
(* its connection, the data of a request lives as long as the request, and *)
(* a freed stream is out of reach.  Only connections that came after close *)
(* are given to nobody.                                                    *)
StreamsOwned ==
  /\ TcpTypeOK
  /\ \A c \in Conns :
       LET k == conn[c] IN
       /\ Reaches(c) => k.refs > (IF k.user THEN 1 ELSE 0)
       /\ k.stage = "open" => k.refs > (IF k.user THEN 1 ELSE 0)
       /\ k.held = Len(k.queue) + k.done
       /\ k.stage = "freed" => ~k.stream /\ k.held = 0
       /\ k.stage \in {"open", "freed"} /\ ~k.handed => k.answers = 0 /\ ~serving

(* A connection that is ended sends all that was written before and frees  *)
(* its stream, unless the peer resets it; the handler of tcpConnectAtPort  *)
(* is called once.                                                         *)
EndsDelivered ==
  \A c \in Conns :
    /\ conn[c].ending ~> \/ conn[c].broken
                         \/ conn[c].stage = "freed" /\ Len(conn[c].sent) = conn[c].written
    /\ conn[c].stage = "resolving" ~> conn[c].answers = 1
=============================================================================
