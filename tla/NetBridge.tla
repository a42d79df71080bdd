----------------------------- MODULE NetBridge -----------------------------
(***************************************************************************)
(* TCP for a contract that has no sockets.  The streams of the sandbox's   *)
(* libuv (deps/uv/src/tcp.c, stream.c) replace each system call by a       *)
(* synchronous call to the host, where PassthroughApi (lib/api/            *)
(* passthrough.js) keeps one FakeSocket (lib/mock/fake_socket.js) per file *)
(* descriptor and net's events fill it.  The sandbox's loop polls every    *)
(* watched stream on each iteration; the host never calls back.            *)
(*                                                                         *)
(* A synchronous call blocks the sandbox's thread until the host answers:  *)
(* what CodiusRpc shows of that exchange is taken as given here.  Between  *)
(* the call and its answer, and at any other time, connections arrive,     *)
(* bring data and end.  The data of a connection are the numbers 1, 2, ... *)
(* in the order the peer sent them.                                        *)
(***************************************************************************)
EXTENDS Integers, Sequences, FiniteSets, SequencesExt

CONSTANTS
  Clients,       \* handles the contract connects, and the connections they make
  Servers,       \* handles the contract listens with
  Peers,         \* handles OnConnection creates for accepted connections
  Arrivals,      \* connections that peers make to the contract's servers
  Named,         \* bound: handles whose peer's name the contract asks for
  None,          \* no handle, no connection
  MaxData,       \* bound: data that peers send, on all connections
  BufLen,        \* size of the buffer uv__read offers
  MaxReads,      \* reads uv__read does in a row (32 in the code)
  AllowHalfOpen  \* does the contract keep a stream that its peer ended?

Handles == Clients \cup Servers \cup Peers
Conns   == Clients \cup Arrivals

ASSUME BridgeAssumption ==
  /\ None \notin Handles \cup Conns
  /\ Clients \cap Servers = {} /\ Peers \cap (Clients \cup Servers) = {}
  /\ Clients \cap Arrivals = {}
  /\ Cardinality(Arrivals) =< Cardinality(Peers)
  /\ MaxData \in Nat /\ BufLen \in Nat \ {0} /\ MaxReads \in Nat \ {0}
  /\ AllowHalfOpen \in BOOLEAN

VARIABLES
  pc,            \* "js", the method whose answer the thread awaits, "aborted"
  cur,           \* the handle of that call
  frame,         \* the uv function under the running JavaScript
  handle,        \* the contract's handles
  answer,        \* the host's answer
  host,          \* is the host process running?
  _connections,  \* the host's sockets, the first for descriptor FirstFd
  net            \* the network: one record per connection

sandboxVars == <<pc, cur, frame, handle>>
vars == <<sandboxVars, answer, host, _connections, net>>

----------------------------------------------------------------------------
FirstFd == 5
EAGAIN  == -11
UV_EOF  == -4095
AF_INET  == 2
AF_INET6 == 10

NoFrame  == [fn |-> "none", h |-> None, count |-> 0, more |-> FALSE]
NoAnswer == [kind |-> "none"]
Value(n) == [kind |-> "int", n |-> n]
Hex(d)   == [kind |-> "hex", data |-> d]
Undefined == [kind |-> "undefined"]
Text == [kind |-> "string"]

FakeSocket(kind, c) ==
  [kind |-> kind, conn |-> c, buffer |-> <<>>, sockets_to_accept |-> <<>>, eof |-> FALSE]

Init ==
  /\ pc = "js" /\ cur = None /\ frame = NoFrame
  /\ handle = [h \in Handles |->
       [state |-> "unused", family |-> AF_INET, fd |-> -1, reading |-> FALSE,
        delivered |-> <<>>, eof |-> FALSE]]
  /\ answer = NoAnswer /\ host = "up" /\ _connections = <<>>
  /\ net = [c \in Conns |->
       [state |-> "none", sent |-> 0, fin |-> FALSE, seen |-> 0]]

(* codius_sync_call: the thread waits for the answer to method. *)
Call(method, h) == pc' = method /\ cur' = h /\ answer' = NoAnswer

(* The FakeSocket of the call in progress. *)
Index == handle[cur].fd - FirstFd + 1
sock  == _connections[Index]

(* Streams and servers the loop watches. *)
Watched(h) == handle[h].reading \/ handle[h].state = "listening"

----------------------------------------------------------------------------
(* The contract's JavaScript, and the loop that polls. *)

(* uv_tcp_connect and uv_tcp_bind first make a socket, of the family of    *)
(* the address.                                                            *)
NewSocket(h, family) ==
  /\ pc = "js" /\ handle[h].state = "unused"
  /\ handle' = [handle EXCEPT ![h].family = family]
  /\ Call("socket", h)
  /\ UNCHANGED <<frame, host, _connections, net>>

(* uv_read_start and uv_read_stop. *)
uv_read_start(h) ==
  /\ pc = "js" /\ handle[h].state = "open" /\ ~handle[h].reading
  /\ handle' = [handle EXCEPT ![h].reading = TRUE]
  /\ UNCHANGED <<pc, cur, frame, answer, host, _connections, net>>

uv_read_stop(h) ==
  /\ pc = "js" /\ handle[h].reading
  /\ handle' = [handle EXCEPT ![h].reading = FALSE]
  /\ UNCHANGED <<pc, cur, frame, answer, host, _connections, net>>

(* uv_write and uv_try_write: an idle stream writes at once. *)
uv_write(h) ==
  /\ pc = "js" /\ handle[h].state = "open"
  /\ Call("write", h)
  /\ UNCHANGED <<frame, handle, host, _connections, net>>

(* uv_tcp_getpeername asks three times: the family, the port, the address. *)
uv_tcp_getpeername(h) ==
  /\ h \in Named /\ pc = "js" /\ handle[h].state = "open"
  /\ Call("getRemoteFamily", h)
  /\ UNCHANGED <<frame, handle, host, _connections, net>>

(* uv_close: reading stops, then the descriptor is closed. *)
uv_close(h) ==
  /\ pc = "js" /\ handle[h].state \in {"open", "listening"}
  /\ Call("close", h)
  /\ handle' = [handle EXCEPT ![h].reading = FALSE]
  /\ UNCHANGED <<frame, host, _connections, net>>

(* uv__io_poll calls the watcher of a stream or of a server. *)
uv__io_poll(h) ==
  /\ pc = "js" /\ frame = NoFrame /\ Watched(h)
  /\ IF handle[h].state = "listening"
       THEN /\ Call("accept", h)
            /\ frame' = [fn |-> "uv__server_io", h |-> h, count |-> 0, more |-> TRUE]
       ELSE /\ Call("read", h)
            /\ frame' = [fn |-> "uv__read", h |-> h, count |-> MaxReads - 1, more |-> FALSE]
  /\ UNCHANGED <<handle, host, _connections, net>>

(* The callback of uv__server_io or uv__read returns.  A server that is    *)
(* still open accepts again; a stream that is still reading and whose      *)
(* buffer was filled reads again, MaxReads times in a row at most.         *)
Again ==
  \/ frame.fn = "uv__server_io" /\ handle[frame.h].fd # -1
  \/ frame.fn = "uv__read" /\ frame.more /\ handle[frame.h].reading /\ frame.count > 0

Return ==
  /\ pc = "js" /\ frame # NoFrame
  /\ IF ~Again
       THEN frame' = NoFrame /\ UNCHANGED <<pc, cur, answer>>
       ELSE IF frame.fn = "uv__server_io"
       THEN Call("accept", frame.h) /\ UNCHANGED frame
       ELSE Call("read", frame.h) /\ frame' = [frame EXCEPT !.count = @ - 1]
  /\ UNCHANGED <<handle, host, _connections, net>>

----------------------------------------------------------------------------
(* The thread goes on when the host has answered. *)

Answered(method) == pc = method /\ answer # NoAnswer

ToJs == pc' = "js" /\ answer' = NoAnswer /\ UNCHANGED <<cur, host, _connections, net>>

(* maybe_new_socket stores the descriptor; connect or bind follows. *)
AfterSocket ==
  /\ Answered("socket")
  /\ handle' = [handle EXCEPT ![cur].fd = answer.n, ![cur].state = "opening"]
  /\ Call(IF cur \in Clients THEN "connect" ELSE "bind", cur)
  /\ UNCHANGED <<frame, host, _connections, net>>

(* uv__tcp_connect calls its callback at once, and the stream reads. *)
AfterConnect ==
  /\ Answered("connect")
  /\ handle' = [handle EXCEPT ![cur].state = "open", ![cur].reading = TRUE]
  /\ ToJs /\ UNCHANGED frame

(* uv_tcp_listen starts the watcher and calls nothing outside. *)
uv_tcp_listen(h) == handle' = [handle EXCEPT ![h].state = "listening"]

(* uv__tcp_bind has its answer; uv_listen follows. *)
AfterBind ==
  /\ Answered("bind")
  /\ uv_tcp_listen(cur)
  /\ ToJs /\ UNCHANGED frame

(* uv_accept, called by OnConnection with a handle it creates: the handle  *)
(* gets the descriptor, and its stream starts to read.                     *)
uv_accept(fd) ==
  \E h \in Peers :
    /\ handle[h].state = "unused"
    /\ handle' = [handle EXCEPT ![h].fd = fd, ![h].state = "open", ![h].reading = TRUE]

(* uv__server_io returns on EAGAIN; else the connection is accepted and    *)
(* its callback runs.                                                      *)
AfterAccept ==
  /\ Answered("accept")
  /\ \/ answer.n = EAGAIN /\ frame' = NoFrame /\ UNCHANGED handle
     \/ answer.n >= 0 /\ uv_accept(answer.n) /\ UNCHANGED frame
  /\ ToJs

(* uv__read passes the data to read_cb. *)
AfterRead ==
  /\ Answered("read") /\ answer.kind = "hex"
  /\ handle' = [handle EXCEPT ![cur].delivered = @ \o answer.data]
  /\ frame' = [frame EXCEPT !.more = (Len(answer.data) = BufLen)]
  /\ ToJs

(* Nothing to read: read_cb is called with 0 and the poll goes on. *)
AfterReadAgain ==
  /\ Answered("read") /\ answer = Value(EAGAIN)
  /\ frame' = NoFrame
  /\ ToJs /\ UNCHANGED handle

(* The end of the stream comes as an error.  read_cb makes net.js destroy  *)
(* a stream that is not half open, which closes it before it returns; then *)
(* uv__read asserts that the watcher was stopped.                          *)
AfterReadEof ==
  /\ Answered("read") /\ answer = Value(UV_EOF)
  /\ handle' = [handle EXCEPT ![cur].eof = TRUE, ![cur].reading = FALSE]
  /\ Call("close", cur) /\ frame' = NoFrame
  /\ UNCHANGED <<host, _connections, net>>

AfterReadHalfOpen ==
  /\ AllowHalfOpen
  /\ Answered("read") /\ answer = Value(UV_EOF)
  /\ handle' = [handle EXCEPT ![cur].eof = TRUE]
  /\ pc' = "aborted"
  /\ UNCHANGED <<cur, frame, answer, host, _connections, net>>

AfterWrite ==
  /\ Answered("write")
  /\ ToJs /\ UNCHANGED <<handle, frame>>

(* uv_tcp_getpeername goes on.  A reply without a result aborts, and so    *)
(* does an address of more than 14 characters.                             *)
AfterRemoteFamily ==
  /\ Answered("getRemoteFamily")
  /\ Call("getRemotePort", cur)
  /\ UNCHANGED <<frame, handle, host, _connections, net>>

AfterRemotePort ==
  /\ Answered("getRemotePort") /\ answer # Undefined
  /\ Call("getRemoteAddress", cur)
  /\ UNCHANGED <<frame, handle, host, _connections, net>>

AfterRemoteAddress ==
  /\ Answered("getRemoteAddress") /\ answer = Text
  /\ ToJs /\ UNCHANGED <<handle, frame>>

PeernameAborts ==
  /\ \/ Answered("getRemotePort") /\ answer = Undefined
     \/ Answered("getRemoteAddress")
  /\ pc' = "aborted"
  /\ UNCHANGED <<cur, frame, handle, answer, host, _connections, net>>

AfterClose ==
  /\ Answered("close")
  /\ handle' = [handle EXCEPT ![cur].state = "closed", ![cur].fd = -1]
  /\ ToJs /\ UNCHANGED frame

----------------------------------------------------------------------------
(* The host: handleCall for api 'net'. *)

Asked(method) == host = "up" /\ pc = method /\ answer = NoAnswer

(* socket: FakeSocket's constructor throws for any family but AF_INET, and *)
(* nothing catches it.                                                     *)
handleSocket ==
  /\ Asked("socket")
  /\ IF handle[cur].family = AF_INET
       THEN /\ _connections' = Append(_connections, FakeSocket("new", None))
            /\ answer' = Value(FirstFd + Len(_connections)) /\ UNCHANGED host
       ELSE host' = "gone" /\ UNCHANGED <<answer, _connections>>
  /\ UNCHANGED <<sandboxVars, net>>

(* connect: the answer waits for the 'connect' event. *)
handleConnect ==
  /\ Asked("connect") /\ sock.kind = "new"
  /\ _connections' = [_connections EXCEPT ![Index].kind = "stream", ![Index].conn = cur]
  /\ net' = [net EXCEPT ![cur].state = "dialing"]
  /\ UNCHANGED <<sandboxVars, answer, host>>

handleBind ==
  /\ Asked("bind")
  /\ _connections' = [_connections EXCEPT ![Index].kind = "server"]
  /\ answer' = Value(0)
  /\ UNCHANGED <<sandboxVars, host, net>>

(* The case for 'accept' has no break: 'write' calls accept once more, and *)
(* drops what it returns.                                                  *)
handleAccept ==
  /\ Asked("accept")
  /\ LET waiting == sock.sockets_to_accept
         left    == [_connections EXCEPT ![Index].sockets_to_accept =
                       SubSeq(@, 3, Len(@))]
     IN  IF waiting = <<>>
           THEN answer' = Value(EAGAIN) /\ UNCHANGED _connections
           ELSE /\ answer' = Value(FirstFd + Len(_connections))
                /\ _connections' = Append(left, FakeSocket("stream", Head(waiting)))
  /\ UNCHANGED <<sandboxVars, host, net>>

(* Faulty variant of handleRead: the end is reported before the data. *)
handleReadEofFirst ==
  /\ Asked("read")
  /\ IF sock.eof \/ sock.buffer = <<>>
       THEN /\ answer' = Value(IF sock.eof THEN UV_EOF ELSE EAGAIN)
            /\ UNCHANGED _connections
       ELSE LET first == Head(sock.buffer) IN
            /\ answer' = Hex(SubSeq(first, 1, IF Len(first) > BufLen THEN BufLen
                                               ELSE Len(first)))
            /\ _connections' = [_connections EXCEPT ![Index].buffer =
                 IF Len(first) > BufLen
                   THEN <<SubSeq(first, BufLen + 1, Len(first))>> \o Tail(@) ELSE Tail(@)]
  /\ UNCHANGED <<sandboxVars, host, net>>

(* read: the first buffer, cut to what the reader has room for. *)
handleRead ==
  /\ Asked("read")
  /\ IF sock.buffer = <<>>
       THEN /\ answer' = Value(IF sock.eof THEN UV_EOF ELSE EAGAIN)
            /\ UNCHANGED _connections
       ELSE LET first == Head(sock.buffer) IN
            /\ answer' = Hex(SubSeq(first, 1, IF Len(first) > BufLen THEN BufLen
                                               ELSE Len(first)))
            /\ _connections' = [_connections EXCEPT ![Index].buffer =
                 IF Len(first) > BufLen
                   THEN <<SubSeq(first, BufLen + 1, Len(first))>> \o Tail(@) ELSE Tail(@)]
  /\ UNCHANGED <<sandboxVars, host, net>>

(* write: a socket whose peer has ended emits 'error', which nothing       *)
(* listens to on a connection that a server got.                           *)
handleWrite ==
  /\ Asked("write")
  /\ IF sock.eof /\ sock.conn \in Arrivals
       THEN host' = "gone" /\ UNCHANGED answer
       ELSE answer' = Value(0) /\ UNCHANGED host
  /\ UNCHANGED <<sandboxVars, _connections, net>>

(* A socket has the name of its peer until it is destroyed: by a reset, or *)
(* after its peer's end, as soon as what was written is sent.  A reset the *)
(* host has not met yet counts as one it has.                              *)
MayBeNamed   == net[sock.conn].state = "up"
MayBeUnnamed == sock.eof \/ net[sock.conn].state = "reset"

(* getRemoteFamily throws without a name, and nothing catches it; the      *)
(* others answer undefined.                                                *)
handleRemoteFamily ==
  /\ Asked("getRemoteFamily")
  /\ \/ MayBeNamed /\ answer' = Value(AF_INET) /\ UNCHANGED host
     \/ MayBeUnnamed /\ host' = "gone" /\ UNCHANGED answer
  /\ UNCHANGED <<sandboxVars, _connections, net>>

handleRemotePort ==
  /\ Asked("getRemotePort")
  /\ \/ MayBeNamed /\ answer' = Value(0)
     \/ MayBeUnnamed /\ answer' = Undefined
  /\ UNCHANGED <<sandboxVars, host, _connections, net>>

handleRemoteAddress ==
  /\ Asked("getRemoteAddress")
  /\ \/ MayBeNamed /\ answer' = Text
     \/ MayBeUnnamed /\ answer' = Undefined
  /\ UNCHANGED <<sandboxVars, host, _connections, net>>

(* Faulty variant of handleClose: the socket is removed from the array. *)
handleCloseSplice ==
  /\ Asked("close")
  /\ _connections' = RemoveAt(_connections, Index)
  /\ answer' = Value(0) /\ UNCHANGED host
  /\ UNCHANGED <<sandboxVars, net>>

(* close: a socket is destroyed.  The server that bind made has no destroy *)
(* method, and the exception ends the host.                                *)
handleClose ==
  /\ Asked("close")
  /\ IF sock.kind = "server"
       THEN host' = "gone" /\ UNCHANGED <<_connections, answer>>
       ELSE /\ _connections' = [_connections EXCEPT ![Index].kind = "destroyed"]
            /\ answer' = Value(0) /\ UNCHANGED host
  /\ UNCHANGED <<sandboxVars, net>>

----------------------------------------------------------------------------
(* The network, and the events it raises in the host. *)

(* 'connect': the answer to the call is given. *)
Establish(c) ==
  /\ host = "up" /\ net[c].state = "dialing"
  /\ net' = [net EXCEPT ![c].state = "up"]
  /\ answer' = Value(0)
  /\ UNCHANGED <<sandboxVars, host, _connections>>

(* Faulty variant of Refuse: nothing listens to 'error'. *)
RefuseUnheard(c) ==
  /\ host = "up" /\ net[c].state = "dialing"
  /\ net' = [net EXCEPT ![c].state = "refused"]
  /\ host' = "gone"
  /\ UNCHANGED <<sandboxVars, answer, _connections>>

(* 'error' on a socket being connected: it is logged. *)
Refuse(c) ==
  /\ host = "up" /\ net[c].state = "dialing"
  /\ net' = [net EXCEPT ![c].state = "refused"]
  /\ UNCHANGED <<sandboxVars, answer, host, _connections>>

(* A peer connects to a server. *)
Incoming(c, i) ==
  /\ host = "up" /\ net[c].state = "none" /\ _connections[i].kind = "server"
  /\ net' = [net EXCEPT ![c].state = "up"]
  /\ _connections' = [_connections EXCEPT ![i].sockets_to_accept = Append(@, c)]
  /\ UNCHANGED <<sandboxVars, answer, host>>

(* A connection is reset.  connect listens to 'error', and logs it; on a   *)
(* connection that a server got nothing does, and the host ends.  What the *)
(* peer sent and 'data' has not brought yet is lost.                       *)
Reset(c) ==
  /\ host = "up" /\ net[c].state = "up"
  /\ \E i \in DOMAIN _connections :
       \/ _connections[i].kind = "stream" /\ _connections[i].conn = c
       \/ c \in ToSet(_connections[i].sockets_to_accept)
  /\ net' = [net EXCEPT ![c].state = "reset"]
  /\ host' = IF c \in Clients THEN "up" ELSE "gone"
  /\ UNCHANGED <<sandboxVars, answer, _connections>>

(* The server of bind cannot listen.  It has no 'error' listener before    *)
(* its first connection.                                                   *)
ListenFails(i) ==
  /\ host = "up" /\ _connections[i].kind = "server"
  /\ \A c \in Arrivals : net[c].state = "none"
  /\ host' = "gone"
  /\ UNCHANGED <<sandboxVars, answer, _connections, net>>

PeerSends(c) ==
  /\ net[c].state = "up" /\ ~net[c].fin
  /\ MapThenSumSet(LAMBDA d : net[d].sent, Conns) < MaxData
  /\ net' = [net EXCEPT ![c].sent = @ + 1]
  /\ UNCHANGED <<sandboxVars, answer, host, _connections>>

PeerEnds(c) ==
  /\ net[c].state = "up" /\ ~net[c].fin
  /\ net' = [net EXCEPT ![c].fin = TRUE]
  /\ UNCHANGED <<sandboxVars, answer, host, _connections>>

(* Faulty variant of DataEvent: nothing listens to 'data'. *)
DataEventUnheard(i, k) ==
  /\ host = "up" /\ _connections[i].kind = "stream"
  /\ LET c == _connections[i].conn IN
     /\ net[c].state = "up" /\ net[c].seen < k /\ k =< net[c].sent
     /\ net' = [net EXCEPT ![c].seen = k]
  /\ UNCHANGED <<sandboxVars, answer, host, _connections>>

(* 'data': everything up to the k-th is put in the buffer.  A connection   *)
(* that was not accepted yet has no listener, and keeps its data.          *)
DataEvent(i, k) ==
  /\ host = "up" /\ _connections[i].kind = "stream"
  /\ LET c == _connections[i].conn IN
     /\ net[c].state = "up" /\ net[c].seen < k /\ k =< net[c].sent
     /\ _connections' = [_connections EXCEPT ![i].buffer =
          Append(@, [j \in 1..(k - net[c].seen) |-> net[c].seen + j])]
     /\ net' = [net EXCEPT ![c].seen = k]
  /\ UNCHANGED <<sandboxVars, answer, host>>

EndEvent(i) ==
  /\ host = "up" /\ _connections[i].kind = "stream" /\ ~_connections[i].eof
  /\ LET c == _connections[i].conn IN
     net[c].state = "up" /\ net[c].fin /\ net[c].seen = net[c].sent
  /\ _connections' = [_connections EXCEPT ![i].eof = TRUE]
  /\ UNCHANGED <<sandboxVars, answer, host, net>>

----------------------------------------------------------------------------
JavaScript ==
  \/ \E h \in Clients \cup Servers, family \in {AF_INET, AF_INET6} : NewSocket(h, family)
  \/ \E h \in Handles :
       \/ uv_read_start(h) \/ uv_read_stop(h) \/ uv_write(h)
       \/ uv_tcp_getpeername(h) \/ uv_close(h)

Continue ==
  \/ AfterSocket \/ AfterConnect \/ AfterBind \/ AfterAccept \/ AfterRead
  \/ AfterReadAgain \/ AfterReadEof \/ AfterReadHalfOpen \/ AfterWrite
  \/ AfterRemoteFamily \/ AfterRemotePort \/ AfterRemoteAddress \/ PeernameAborts
  \/ AfterClose

handleCall ==
  \/ handleSocket \/ handleConnect \/ handleBind \/ handleAccept
  \/ handleRead \/ handleWrite \/ handleClose
  \/ handleRemoteFamily \/ handleRemotePort \/ handleRemoteAddress

Network ==
  \/ \E c \in Clients : Establish(c) \/ Refuse(c)
  \/ \E c \in Conns : PeerSends(c) \/ PeerEnds(c) \/ Reset(c)
  \/ \E i \in DOMAIN _connections :
       \/ \E c \in Arrivals : Incoming(c, i)
       \/ \E k \in 1..MaxData : DataEvent(i, k)
       \/ EndEvent(i)
       \/ ListenFails(i)

Next ==
  \/ JavaScript
  \/ \E h \in Handles : uv__io_poll(h)
  \/ Return
  \/ Continue
  \/ handleCall
  \/ Network

Spec == Init /\ [][Next]_vars

(***************************************************************************)
(* Fairness.  The host handles the call it was sent and raises net's       *)
(* events; the sandbox's thread takes the answer.  uv__io_poll visits      *)
(* every watcher in each iteration, and JavaScript returns to the loop,    *)
(* however often it acts before it does.                                   *)
(***************************************************************************)
Fairness ==
  /\ WF_vars(handleCall) /\ WF_vars(Continue)
  /\ SF_vars(Return)
  /\ \A h \in Clients \cup Peers : SF_vars(uv__io_poll(h))
  /\ \A i \in 1..Cardinality(Handles) :
       WF_vars(i \in DOMAIN _connections /\ \E k \in 1..MaxData : DataEvent(i, k))
  /\ \A c \in Clients : WF_vars(Establish(c) \/ Refuse(c))

FairSpec == Spec /\ Fairness

----------------------------------------------------------------------------
(* Properties. *)

Methods == {"socket", "connect", "bind", "accept", "read", "write", "close",
            "getRemoteFamily", "getRemotePort", "getRemoteAddress"}
Fds     == FirstFd..(FirstFd + Len(_connections) - 1)
Data    == Nat \ {0}

(* Every variable has its type; a descriptor is -1 or one that the host    *)
(* handed out, and never an error code.                                    *)
TypeOK ==
  /\ pc \in Methods \cup {"js", "aborted"}
  /\ cur \in Handles \cup {None}
  /\ frame \in [fn : {"none", "uv__server_io", "uv__read"}, h : Handles \cup {None},
                count : 0..MaxReads, more : BOOLEAN]
  /\ handle \in [Handles -> [state : {"unused", "opening", "open", "listening", "closed"},
                             family : {AF_INET, AF_INET6},
                             fd : Fds \cup {-1}, reading : BOOLEAN,
                             delivered : Seq(Data), eof : BOOLEAN]]
  /\ answer \in {NoAnswer} \cup {Value(n) : n \in Fds \cup {0, AF_INET, EAGAIN, UV_EOF}}
                 \cup {Undefined, Text}
                 \cup [kind : {"hex"}, data : Seq(Data)]
  /\ host \in {"up", "gone"}
  /\ _connections \in Seq([kind : {"new", "stream", "server", "destroyed"},
                           conn : Conns \cup {None}, buffer : Seq(Seq(Data)),
                           sockets_to_accept : Seq(Arrivals), eof : BOOLEAN])
  /\ net \in [Conns -> [state : {"none", "dialing", "refused", "up", "reset"},
                        sent : Nat, fin : BOOLEAN, seen : Nat]]

(* The connection behind a handle that is open. *)
ConnOf(h) == _connections[handle[h].fd - FirstFd + 1].conn

(* The descriptor of an open handle stands for a live FakeSocket of its    *)
(* own: no other open handle has it, a stream's is a stream and a server's *)
(* a server, whatever was opened and closed in the meantime.               *)
OwnSocket ==
  \A h \in Handles :
    (handle[h].state \in {"open", "listening"} /\ ~(pc = "close" /\ cur = h)) =>
      LET i == handle[h].fd - FirstFd + 1 IN
      /\ i \in DOMAIN _connections
      /\ _connections[i].kind = IF handle[h].state = "open" THEN "stream" ELSE "server"
      /\ \A g \in Handles : handle[g].fd = handle[h].fd => g = h

(* Types are right, and every open handle has its own socket. *)
BridgeInv == TypeOK /\ OwnSocket

(* The read callbacks of a stream get what its peer sent, in order, none   *)
(* twice and none left out, however 'data' events and short buffers cut    *)
(* it; the end of the stream is reported after all of it.                  *)
StreamIntact ==
  \A h \in Handles :
    /\ \A j \in DOMAIN handle[h].delivered : handle[h].delivered[j] = j
    /\ handle[h].eof /\ handle[h].state = "open" =>
         net[ConnOf(h)].fin /\ Len(handle[h].delivered) = net[ConnOf(h)].sent

(* The thread waits for a connection that was refused. *)
Blocked == pc = "connect" /\ net[cur].state = "refused"

(* Every stream that is being read has got all that its peer sent. *)
CaughtUp ==
  \A h \in Clients \cup Peers : handle[h].state = "open" /\ handle[h].reading =>
    \/ Len(handle[h].delivered) = net[ConnOf(h)].sent
    \/ net[ConnOf(h)].state = "reset"

(* What peers send is read in the end: again and again all streams that    *)
(* are read have caught up, but for those that were reset, unless the      *)
(* thread cannot go on.                                                    *)
DataRead == []<>(CaughtUp \/ host = "gone" \/ pc = "aborted" \/ Blocked)

(* Every connection that was made to a server of the contract waits to be  *)
(* accepted or has been: FakeSocket.accept and handleCall lose none.       *)
ConnectionKept ==
  \A c \in Arrivals : net[c].state = "up" =>
    \E i \in DOMAIN _connections :
      \/ _connections[i].conn = c
      \/ \E j \in DOMAIN _connections[i].sockets_to_accept :
           _connections[i].sockets_to_accept[j] = c

(* Connecting ends: uv__tcp_connect gets an answer, good or bad. *)
ConnectReturns == pc = "connect" ~> pc # "connect"

(* A contract that is no server ends the host only by a call of its own:   *)
(* a socket for an IPv6 address, or the peer name of a stream that its     *)
(* peer has ended or reset.  While any other call is under way, or none,   *)
(* nothing that its peers, the network and the host's own events do ends   *)
(* it.                                                                     *)
EndedByCall ==
  host = "gone" =>
    \/ \E s \in Servers : handle[s].state # "unused"
    \/ pc = "socket" /\ handle[cur].family = AF_INET6
    \/ pc = "getRemoteFamily" /\ (sock.eof \/ net[sock.conn].state = "reset")

=============================================================================
