-------------------------- MODULE NetBridge_proofs --------------------------
(***************************************************************************)
(* Theorems about NetBridge, for any number of handles and connections,    *)
(* any data and any size of the read buffer.                               *)
(***************************************************************************)
EXTENDS NetBridge, SequenceTheorems, TLAPS

----------------------------------------------------------------------------
(* The inductive invariant. *)

(* The place of a descriptor in _connections, and the newest descriptor. *)
Place(fd) == fd - FirstFd + 1
LastFd    == FirstFd + Len(_connections) - 1

(* What the state of a handle says of its other fields: only a handle that *)
(* is in use has a descriptor, and no two have the same.                   *)
HandleInv ==
  /\ \A h \in Handles :
       /\ handle[h].fd = -1 <=> handle[h].state \in {"unused", "closed"}
       /\ handle[h].state \in {"unused", "opening"} =>
            handle[h].delivered = <<>> /\ ~handle[h].eof
       /\ handle[h].state = "opening" => cur = h /\ pc \in {"connect", "bind"}
       /\ handle[h].state = "open" => h \in Clients \cup Peers
       /\ handle[h].state = "listening" => h \in Servers
       /\ handle[h].reading => handle[h].state = "open"
  /\ \A g, h \in Handles :
       handle[g].fd = handle[h].fd /\ handle[h].fd # -1 => g = h

(* No handle has the newest descriptor yet, which is the host's answer. *)
Fresh(kind) ==
  /\ answer = Value(LastFd) /\ _connections # <<>>
  /\ _connections[Len(_connections)].kind = kind
  /\ \A h \in Handles : handle[h].fd # LastFd

(* Where the call in progress is. *)
CallInv ==
  /\ pc = "js" => answer = NoAnswer
  /\ pc \in Methods => cur \in Handles
  /\ pc = "socket" => /\ cur \in Clients \cup Servers /\ handle[cur].state = "unused"
                      /\ answer = NoAnswer \/ Fresh("new")
  /\ pc = "connect" => /\ cur \in Clients /\ handle[cur].state = "opening"
                       /\ \/ sock.kind = "new" /\ answer = NoAnswer
                          \/ sock.kind = "stream" /\ sock.conn = cur
  /\ pc = "bind" => /\ cur \in Servers /\ handle[cur].state = "opening"
                    /\ sock.kind = IF answer = NoAnswer THEN "new" ELSE "server"
  /\ pc = "accept" => /\ handle[cur].state = "listening"
                      /\ answer \in {NoAnswer, Value(EAGAIN)} \/ Fresh("stream")
  /\ pc \in {"read", "write", "getRemoteFamily", "getRemotePort", "getRemoteAddress"} =>
       handle[cur].state = "open"
  /\ pc = "close" => /\ handle[cur].state \in {"open", "listening"}
                     /\ answer # NoAnswer => sock.kind = "destroyed"
                     /\ ~handle[cur].reading
  /\ frame.fn = "uv__server_io" => frame.h \in Servers
  /\ frame.fn = "uv__read" => frame.h \in Handles

(* The kind of the socket behind a handle. *)
OwnInv ==
  \A h \in Handles :
    /\ handle[h].state = "open" =>
         \/ _connections[Place(handle[h].fd)].kind = "stream"
         \/ /\ _connections[Place(handle[h].fd)].kind = "destroyed"
            /\ pc = "close" /\ cur = h /\ answer # NoAnswer
    /\ handle[h].state = "listening" => _connections[Place(handle[h].fd)].kind = "server"

(* Only a stream has a connection, data and an end. *)
SockInv ==
  \A i \in DOMAIN _connections :
    LET s == _connections[i] IN
    /\ s.conn = None <=> s.kind \in {"new", "server"}
    /\ s.kind \in {"new", "server"} => s.buffer = <<>> /\ ~s.eof

(* A connection is in one place: a socket, or a queue of a server. *)
Waits(c, i, p) ==
  p \in DOMAIN _connections[i].sockets_to_accept /\ _connections[i].sockets_to_accept[p] = c

ConnInv ==
  /\ \A i, j \in DOMAIN _connections :
       _connections[i].conn = _connections[j].conn /\ _connections[i].conn # None => i = j
  /\ \A i \in DOMAIN _connections : _connections[i].conn \in Clients =>
       /\ handle[_connections[i].conn].state # "unused"
       /\ handle[_connections[i].conn].state = "opening" => i = Place(handle[_connections[i].conn].fd)
  /\ \A c \in Arrivals, i, j \in DOMAIN _connections, p, q \in Nat :
       Waits(c, i, p) /\ Waits(c, j, q) => i = j /\ p = q
  /\ \A c \in Arrivals, i, j \in DOMAIN _connections, p \in Nat :
       Waits(c, i, p) => _connections[j].conn # c
  /\ \A c \in Arrivals : net[c].state = "none" => \A i \in DOMAIN _connections :
       _connections[i].conn # c /\ \A p \in Nat : ~Waits(c, i, p)

(* What the network says of a connection. *)
NetInv ==
  /\ \A c \in Clients : net[c].state = "dialing" =>
       pc = "connect" /\ cur = c /\ answer = NoAnswer /\ sock.kind = "stream"
  /\ \A c \in Arrivals : net[c].state # "dialing"
  /\ \A c \in Conns : /\ net[c].seen =< net[c].sent
                      /\ (\A i \in DOMAIN _connections : _connections[i].conn # c) => net[c].seen = 0
  /\ \A i \in DOMAIN _connections : _connections[i].eof =>
       net[_connections[i].conn].fin /\ net[_connections[i].conn].seen = net[_connections[i].conn].sent

(* A buffer holds consecutive data; what comes after it. *)
Consecutive(s) == s # <<>> /\ \A j \in DOMAIN s : s[j] = s[1] + j - 1
After(s)       == s[1] + Len(s)

(* The buffers b hold n + 1, ..., m, in this order. *)
Run(b, n, m) ==
  /\ \A k \in DOMAIN b : Consecutive(b[k])
  /\ \A k \in DOMAIN b : k + 1 \in DOMAIN b => b[k + 1][1] = After(b[k])
  /\ b = <<>> => m = n
  /\ b # <<>> => b[1][1] = n + 1 /\ After(b[Len(b)]) = m + 1

(* Data that is on its way to the read callback of h. *)
Coming(h) == IF pc = "read" /\ cur = h /\ answer.kind = "hex" THEN Len(answer.data) ELSE 0

(* n data of socket i have left it: to its handle, if it has one. *)
Taken(i, n) ==
  \/ \E h \in Handles : handle[h].fd = FirstFd + i - 1 /\ n = Len(handle[h].delivered) + Coming(h)
  \/ (\A h \in Handles : handle[h].fd # FirstFd + i - 1) /\ n = 0

(* A stream holds what its handle has not got of what 'data' brought. *)
StreamInv ==
  \A i \in DOMAIN _connections, n \in Nat :
    /\ _connections[i].kind = "stream" \/ \E h \in Handles : handle[h].state = "open" /\ handle[h].fd = FirstFd + i - 1
    /\ Taken(i, n)
    => Run(_connections[i].buffer, n, net[_connections[i].conn].seen)

(* What a handle has got, and is about to get. *)
DeliveredInv ==
  /\ \A h \in Handles : \A j \in DOMAIN handle[h].delivered : handle[h].delivered[j] = j
  /\ pc = "read" /\ answer.kind = "hex" =>
       \A j \in DOMAIN answer.data : answer.data[j] = Len(handle[cur].delivered) + j
  /\ pc = "read" /\ answer = Value(UV_EOF) => sock.eof /\ sock.buffer = <<>>
  /\ \A h \in Handles : handle[h].eof /\ handle[h].state = "open" =>
       /\ pc = "aborted" \/ (pc = "close" /\ cur = h)
       /\ _connections[Place(handle[h].fd)].eof /\ _connections[Place(handle[h].fd)].buffer = <<>>

(* Servers, and what comes of them. *)
ServerUsed == \E s \in Servers : handle[s].state # "unused"

ServerInv ==
  /\ \A i \in DOMAIN _connections : _connections[i].kind = "server" => ServerUsed
  /\ \A c \in Arrivals : net[c].state # "none" => ServerUsed

IInv == TypeOK /\ HandleInv /\ CallInv /\ OwnInv /\ SockInv /\ ConnInv /\ NetInv /\ StreamInv
          /\ DeliveredInv /\ ServerInv

----------------------------------------------------------------------------
(* Types, by variable. *)
HandleRec == [state : {"unused", "opening", "open", "listening", "closed"},
              family : {AF_INET, AF_INET6},
              fd : Fds \cup {-1}, reading : BOOLEAN, delivered : Seq(Data), eof : BOOLEAN]
SocketRec == [kind : {"new", "stream", "server", "destroyed"},
              conn : Conns \cup {None}, buffer : Seq(Seq(Data)),
              sockets_to_accept : Seq(Arrivals), eof : BOOLEAN]
NetRec    == [state : {"none", "dialing", "refused", "up", "reset"},
              sent : Nat, fin : BOOLEAN, seen : Nat]
Answers   == {NoAnswer} \cup {Value(n) : n \in Fds \cup {0, AF_INET, EAGAIN, UV_EOF}}
               \cup {Undefined, Text}
               \cup [kind : {"hex"}, data : Seq(Data)]

ThreadTypes ==
  /\ pc \in Methods \cup {"js", "aborted"}
  /\ cur \in Handles \cup {None}
  /\ frame \in [fn : {"none", "uv__server_io", "uv__read"}, h : Handles \cup {None},
                count : 0..MaxReads, more : BOOLEAN]
  /\ host \in {"up", "gone"}

LEMMA TypeParts ==
  TypeOK <=> /\ ThreadTypes /\ handle \in [Handles -> HandleRec] /\ answer \in Answers
             /\ _connections \in Seq(SocketRec) /\ net \in [Conns -> NetRec]
BY DEF TypeOK, ThreadTypes, HandleRec, SocketRec, NetRec, Answers

LEMMA TypePartsNext ==
  TypeOK' <=> /\ ThreadTypes' /\ handle' \in [Handles -> HandleRec'] /\ answer' \in Answers'
              /\ _connections' \in Seq(SocketRec) /\ net' \in [Conns -> NetRec]
BY DEF TypeOK, ThreadTypes, HandleRec, SocketRec, NetRec, Answers, Fds

(* The fields of a handle, a socket and a connection. *)
LEMMA Fields ==
  ASSUME TypeOK
  PROVE  /\ \A h \in Handles :
              /\ handle[h].state \in {"unused", "opening", "open", "listening", "closed"}
              /\ handle[h].fd \in Fds \cup {-1} /\ handle[h].fd \in Int
              /\ handle[h].reading \in BOOLEAN /\ handle[h].eof \in BOOLEAN
              /\ handle[h].delivered \in Seq(Data)
         /\ \A i \in DOMAIN _connections :
              /\ _connections[i] \in SocketRec
              /\ _connections[i].kind \in {"new", "stream", "server", "destroyed"}
              /\ _connections[i].conn \in Conns \cup {None}
              /\ _connections[i].buffer \in Seq(Seq(Data))
              /\ _connections[i].sockets_to_accept \in Seq(Arrivals)
              /\ _connections[i].eof \in BOOLEAN
         /\ \A c \in Conns :
              /\ net[c].state \in {"none", "dialing", "refused", "up", "reset"}
              /\ net[c].sent \in Nat /\ net[c].seen \in Nat /\ net[c].fin \in BOOLEAN
         /\ Len(_connections) \in Nat /\ DOMAIN _connections = 1..Len(_connections)
<1>1. /\ handle \in [Handles -> HandleRec] /\ _connections \in Seq(SocketRec)
      /\ net \in [Conns -> NetRec]
  BY TypeParts
<1>2. Len(_connections) \in Nat /\ DOMAIN _connections = 1..Len(_connections)
  BY <1>1
<1>3. \A i \in DOMAIN _connections : _connections[i] \in SocketRec
  BY <1>1
<1>4. \A n \in Fds \cup {-1} : n \in Int
  BY <1>2 DEF Fds, FirstFd
<1>5. \A h \in Handles : handle[h] \in HandleRec
  BY <1>1
<1>6. \A c \in Conns : net[c] \in NetRec
  BY <1>1
<1>7. \A h \in Handles :
              /\ handle[h].state \in {"unused", "opening", "open", "listening", "closed"}
              /\ handle[h].fd \in Fds \cup {-1} /\ handle[h].fd \in Int
              /\ handle[h].reading \in BOOLEAN /\ handle[h].eof \in BOOLEAN
              /\ handle[h].delivered \in Seq(Data)
  BY <1>4, <1>5 DEF HandleRec
<1>8. \A c \in Conns :
              /\ net[c].state \in {"none", "dialing", "refused", "up", "reset"}
              /\ net[c].sent \in Nat /\ net[c].seen \in Nat /\ net[c].fin \in BOOLEAN
  BY <1>6 DEF NetRec
<1>9. \A i \in DOMAIN _connections :
              /\ _connections[i] \in SocketRec
              /\ _connections[i].kind \in {"new", "stream", "server", "destroyed"}
              /\ _connections[i].conn \in Conns \cup {None}
              /\ _connections[i].buffer \in Seq(Seq(Data))
              /\ _connections[i].sockets_to_accept \in Seq(Arrivals)
              /\ _connections[i].eof \in BOOLEAN
  BY <1>3 DEF SocketRec
<1> QED
  BY <1>2, <1>7, <1>8, <1>9

(* A descriptor is the place of a socket. *)
LEMMA Places ==
  ASSUME TypeOK
  PROVE  /\ \A n \in Fds : /\ Place(n) \in DOMAIN _connections /\ n = FirstFd + Place(n) - 1
                           /\ n # -1 /\ n # EAGAIN /\ n # UV_EOF /\ n \in Nat
         /\ \A i \in DOMAIN _connections : FirstFd + i - 1 \in Fds /\ Place(FirstFd + i - 1) = i
<1>1. Len(_connections) \in Nat /\ DOMAIN _connections = 1..Len(_connections)
  BY Fields
<1> QED
  BY <1>1 DEF Fds, Place, FirstFd, EAGAIN, UV_EOF

(* A handle in use has a socket. *)
LEMMA InUse ==
  ASSUME TypeOK, HandleInv, NEW h \in Handles,
         handle[h].state \in {"opening", "open", "listening"}
  PROVE  /\ handle[h].fd \in Fds /\ Place(handle[h].fd) \in DOMAIN _connections
         /\ handle[h].fd = FirstFd + Place(handle[h].fd) - 1
<1>1. handle[h].fd # -1 /\ handle[h].fd \in Fds \cup {-1}
  BY Fields DEF HandleInv
<1> QED
  BY <1>1, Places

LEMMA IndexIs == Index = Place(handle[cur].fd) /\ sock = _connections[Place(handle[cur].fd)]
BY DEF Index, Place, sock

LEMMA NoFrameType ==
  NoFrame \in [fn : {"none", "uv__server_io", "uv__read"}, h : Handles \cup {None},
              count : 0..MaxReads, more : BOOLEAN]
<1>1. 0 \in 0..MaxReads
  BY BridgeAssumption
<1> QED
  BY <1>1 DEF NoFrame

LEMMA AnswerKinds ==
  /\ NoAnswer.kind = "none" /\ \A n : Value(n).kind = "int" /\ Value(n).n = n /\ Value(n) # NoAnswer
  /\ \A d : Hex(d).kind = "hex" /\ Hex(d).data = d /\ Hex(d) # NoAnswer
  /\ \A m, n : Value(m) = Value(n) => m = n
  /\ \A r \in {Undefined, Text} :
       r # NoAnswer /\ r.kind \notin {"int", "hex"} /\ \A n : r # Value(n)
BY DEF NoAnswer, Value, Hex, Undefined, Text

----------------------------------------------------------------------------
(* What a step leaves alone. *)
LEMMA InitHolds == Init => IInv
<1> SUFFICES ASSUME Init PROVE IInv
  OBVIOUS
<1>1. /\ pc = "js" /\ cur = None /\ frame = NoFrame /\ answer = NoAnswer /\ host = "up"
      /\ _connections = <<>> /\ DOMAIN _connections = {}
      /\ \A h \in Handles : /\ handle[h].state = "unused" /\ handle[h].fd = -1 /\ ~handle[h].reading
                            /\ handle[h].delivered = <<>> /\ ~handle[h].eof
      /\ \A c \in Conns : net[c].state = "none" /\ net[c].sent = 0 /\ net[c].seen = 0
  BY DEF Init
<1>2. TypeOK
  <2>1. ThreadTypes
    BY <1>1, BridgeAssumption DEF ThreadTypes, NoFrame
  <2>2. handle \in [Handles -> HandleRec]
    BY DEF Init, HandleRec, Fds
  <2>3. net \in [Conns -> NetRec]
    BY DEF Init, NetRec
  <2> QED
    BY <1>1, <2>1, <2>2, <2>3, TypeParts DEF Answers
<1>3. HandleInv
  BY <1>1 DEF HandleInv
<1>4. CallInv
  BY <1>1 DEF CallInv, NoFrame, Methods
<1>5. OwnInv /\ SockInv
  BY <1>1 DEF OwnInv, SockInv
<1>6. ConnInv
  BY <1>1 DEF ConnInv
<1>7. NetInv
  BY <1>1 DEF NetInv, Conns
<1>8. StreamInv
  BY <1>1 DEF StreamInv
<1>9. DeliveredInv
  BY <1>1 DEF DeliveredInv
<1>10. ServerInv
  BY <1>1 DEF ServerInv, Conns
<1> QED
  BY <1>2, <1>3, <1>4, <1>5, <1>6, <1>7, <1>8, <1>9, <1>10 DEF IInv

LEMMA SockKept ==
  ASSUME SockInv, UNCHANGED _connections
  PROVE  SockInv'
BY DEF SockInv

LEMMA ConnKept ==
  ASSUME ConnInv, UNCHANGED _connections,
         \A h \in Handles : /\ handle'[h].state = "unused" => handle[h].state = "unused"
                            /\ handle'[h].state = "opening" =>
                                 handle[h].state = "opening" /\ handle'[h].fd = handle[h].fd,
         \A c \in Arrivals : net'[c].state = "none" => net[c].state = "none"
  PROVE  ConnInv'
<1>1. \A c, i, p : Waits(c, i, p)' <=> Waits(c, i, p)
  BY DEF Waits
<1>2. \A c \in Clients : c \in Handles
  BY DEF Handles
<1> QED
  BY <1>1, <1>2 DEF ConnInv, Place

LEMMA ServerKept ==
  ASSUME ServerInv,
         \A h \in Handles : handle'[h].state = "unused" => handle[h].state = "unused",
         \A i \in DOMAIN _connections' : _connections'[i].kind = "server" =>
            i \in DOMAIN _connections /\ _connections[i].kind = "server",
         \A c \in Arrivals : net'[c].state # "none" => net[c].state # "none"
  PROVE  ServerInv'
<1>1. ServerUsed => ServerUsed'
  BY DEF ServerUsed, Handles
<1> QED
  BY <1>1 DEF ServerInv

LEMMA TakenKept ==
  ASSUME \A h \in Handles : /\ handle'[h].fd = handle[h].fd /\ handle'[h].delivered = handle[h].delivered
                            /\ Coming(h)' = Coming(h)
  PROVE  \A i, n : Taken(i, n)' <=> Taken(i, n)
BY DEF Taken

LEMMA StreamKept ==
  ASSUME StreamInv, UNCHANGED _connections,
         \A c \in Conns \cup {None} : net'[c].seen = net[c].seen,
         \A i \in DOMAIN _connections : _connections[i].conn \in Conns \cup {None},
         \A h \in Handles : /\ handle'[h].fd = handle[h].fd /\ handle'[h].delivered = handle[h].delivered
                            /\ handle'[h].state = "open" => handle[h].state = "open",
         \A h \in Handles : Coming(h)' = Coming(h)
  PROVE  StreamInv'
<1>1. \A i, n : Taken(i, n)' <=> Taken(i, n)
  BY DEF Taken
<1> QED
  BY <1>1 DEF StreamInv

(* A step of the thread, or an answer, that changes none of the tables. *)
LEMMA Quiet ==
  ASSUME IInv, UNCHANGED <<handle, _connections, net>>,
         pc \notin {"connect", "bind", "close", "aborted"},
         \A h \in Handles : Coming(h) = 0 /\ Coming(h)' = 0,
         ~(pc' = "read" /\ answer'.kind = "hex"),
         (pc' = "read" /\ answer' = Value(UV_EOF)) => sock'.eof /\ sock'.buffer = <<>>
  PROVE  HandleInv' /\ OwnInv' /\ SockInv' /\ ConnInv' /\ NetInv' /\ StreamInv' /\ DeliveredInv' /\ ServerInv'
<1>1. HandleInv' 
  BY DEF IInv, HandleInv
<1>2. OwnInv'
  BY DEF IInv, OwnInv
<1>3. SockInv' /\ ConnInv' /\ ServerInv'
  BY SockKept, ConnKept, ServerKept DEF IInv
<1>4. NetInv'
  BY DEF IInv, NetInv
<1>5. StreamInv'
  <2>1. \A i \in DOMAIN _connections : _connections[i].conn \in Conns \cup {None}
    BY Fields DEF IInv
  <2> QED
    BY <2>1, StreamKept DEF IInv
<1>6. DeliveredInv'
  BY DEF IInv, DeliveredInv
<1> QED
  BY <1>1, <1>2, <1>3, <1>4, <1>5, <1>6

LEMMA NothingComes ==
  /\ \A h : (pc # "read" \/ answer.kind # "hex") => Coming(h) = 0
  /\ \A h : (pc' # "read" \/ answer'.kind # "hex") => Coming(h)' = 0
BY DEF Coming

----------------------------------------------------------------------------
(* Steps that change none of the tables. *)
LEMMA QuietTypes ==
  ASSUME TypeOK, UNCHANGED <<handle, _connections, net>>, ThreadTypes', answer' \in Answers
  PROVE  TypeOK'
<1>1. HandleRec' = HandleRec /\ Answers' = Answers
  BY DEF HandleRec, Answers, Fds
<1> QED
  BY <1>1, TypeParts, TypePartsNext

LEMMA HandleClasses ==
  /\ \A h \in Servers : h \in Handles /\ h \notin Clients /\ h \notin Peers
  /\ \A h \in Clients : h \in Handles /\ h \in Conns /\ h \notin Servers /\ h \notin Arrivals
  /\ \A h \in Peers : h \in Handles /\ h \notin Clients /\ h \notin Servers
  /\ \A h \in Handles : h # None
  /\ \A c \in Conns : c # None
  /\ \A c \in Arrivals : c \in Conns /\ c \notin Clients
BY BridgeAssumption DEF Handles, Conns

(* The contract, or the loop, calls the host. *)
LEMMA CallStep ==
  ASSUME IInv, pc = "js", UNCHANGED <<handle, host, _connections, net>>,
         NEW m \in {"accept", "read", "write", "getRemoteFamily"}, NEW h \in Handles, Call(m, h),
         m = "accept" => handle[h].state = "listening",
         m # "accept" => handle[h].state = "open",
         ThreadTypes',
         frame'.fn = "uv__server_io" => frame'.h \in Servers,
         frame'.fn = "uv__read" => frame'.h \in Handles
  PROVE  IInv'
<1>1. pc' = m /\ cur' = h /\ answer' = NoAnswer /\ answer = NoAnswer
  BY DEF Call, IInv, CallInv
<1>2. \A g : Coming(g) = 0 /\ Coming(g)' = 0
  BY <1>1, NothingComes, AnswerKinds
<1>3. TypeOK'
  BY <1>1, QuietTypes DEF IInv, Answers
<1>4. CallInv'
  BY <1>1 DEF CallInv, Methods
<1>5. answer' # Value(UV_EOF) /\ answer'.kind # "hex"
  BY <1>1, AnswerKinds
<1> QED
  BY <1>2, <1>3, <1>4, <1>5, Quiet DEF IInv

LEMMA JsCalls ==
  ASSUME IInv,
         \/ \E h \in Handles : uv_write(h) \/ uv_tcp_getpeername(h)
         \/ \E h \in Handles : uv__io_poll(h)
         \/ Return
  PROVE  IInv'
<1>0. ThreadTypes /\ MaxReads \in Nat \ {0}
  BY TypeParts, BridgeAssumption DEF IInv
<1>1. ASSUME NEW h \in Handles, uv_tcp_getpeername(h) PROVE IInv'
  <2>1. /\ pc = "js" /\ Call("getRemoteFamily", h) /\ UNCHANGED <<handle, host, _connections, net, frame>>
        /\ handle[h].state = "open" /\ pc' = "getRemoteFamily" /\ cur' = h
    BY <1>1 DEF uv_tcp_getpeername, Call
  <2>2. ThreadTypes'
    BY <1>0, <2>1 DEF ThreadTypes, Methods
  <2> QED
    BY <2>1, <2>2, CallStep DEF IInv, CallInv
<1>2. ASSUME NEW h \in Handles, uv_write(h) PROVE IInv'
  <2>1. /\ pc = "js" /\ Call("write", h) /\ UNCHANGED <<handle, host, _connections, net, frame>>
        /\ handle[h].state = "open" /\ pc' = "write" /\ cur' = h
    BY <1>2 DEF uv_write, Call
  <2>2. ThreadTypes'
    BY <1>0, <2>1 DEF ThreadTypes, Methods
  <2> QED
    BY <2>1, <2>2, CallStep DEF IInv, CallInv
<1>3. ASSUME NEW h \in Handles, uv__io_poll(h) PROVE IInv'
  <2>1. pc = "js" /\ Watched(h) /\ UNCHANGED <<handle, host, _connections, net>>
    BY <1>3 DEF uv__io_poll
  <2>2. CASE handle[h].state = "listening"
    <3>1. Call("accept", h) /\ frame' = [fn |-> "uv__server_io", h |-> h, count |-> 0, more |-> TRUE]
      BY <1>3, <2>2 DEF uv__io_poll
    <3>2. h \in Servers
      BY <2>2 DEF IInv, HandleInv
    <3>3. ThreadTypes'
      BY <1>0, <2>1, <3>1 DEF ThreadTypes, Call, Methods
    <3> QED
      BY <2>1, <2>2, <3>1, <3>2, <3>3, CallStep
  <2>3. CASE handle[h].state # "listening"
    <3>1. Call("read", h) /\ frame' = [fn |-> "uv__read", h |-> h, count |-> MaxReads - 1, more |-> FALSE]
      BY <1>3, <2>3 DEF uv__io_poll
    <3>2. handle[h].state = "open"
      BY <2>1, <2>3 DEF IInv, HandleInv, Watched
    <3>3. ThreadTypes'
      BY <1>0, <2>1, <3>1 DEF ThreadTypes, Call, Methods
    <3> QED
      BY <2>1, <3>1, <3>2, <3>3, CallStep
  <2> QED
    BY <2>2, <2>3
<1>4. CASE Return
  <2>1. pc = "js" /\ frame # NoFrame /\ UNCHANGED <<handle, host, _connections, net>>
    BY <1>4 DEF Return
  <2>2. CASE ~Again
    <3>1. frame' = NoFrame /\ UNCHANGED <<pc, cur, answer>> /\ answer = NoAnswer
      BY <1>4, <2>1, <2>2 DEF Return, IInv, CallInv
    <3>2. \A g : Coming(g) = 0 /\ Coming(g)' = 0
      BY <2>1, <3>1, NothingComes
    <3>3. ThreadTypes'
      BY <1>0, <2>1, <3>1 DEF ThreadTypes, NoFrame
    <3>4. TypeOK'
      BY <2>1, <3>1, <3>3, QuietTypes DEF IInv, Answers
    <3>5. CallInv'
      BY <2>1, <3>1 DEF CallInv, NoFrame, Methods
    <3> QED
      BY <2>1, <3>1, <3>2, <3>4, <3>5, Quiet DEF IInv
  <2>3. CASE Again /\ frame.fn = "uv__server_io"
    <3>1. Call("accept", frame.h) /\ UNCHANGED frame /\ frame.h \in Servers /\ handle[frame.h].fd # -1
      BY <1>4, <2>3 DEF Return, Again, IInv, CallInv
    <3>2. handle[frame.h].state = "listening" /\ frame.h \in Handles
      <4>1. frame.h \in Handles /\ frame.h \notin Clients \cup Peers
        BY <3>1, HandleClasses
      <4>2. handle[frame.h].state \in {"unused", "opening", "open", "listening", "closed"}
        BY <4>1, Fields DEF IInv
      <4> QED
        BY <2>1, <3>1, <4>1, <4>2 DEF IInv, HandleInv
    <3>3. ThreadTypes'
      BY <1>0, <2>1, <3>1, <3>2 DEF ThreadTypes, Call, Methods
    <3> QED
      BY <2>1, <2>3, <3>1, <3>2, <3>3, CallStep
  <2>4. CASE Again /\ frame.fn # "uv__server_io"
    <3>1. /\ Call("read", frame.h) /\ frame' = [frame EXCEPT !.count = @ - 1]
          /\ frame.fn = "uv__read" /\ handle[frame.h].reading /\ frame.count > 0
      BY <1>4, <2>4 DEF Return, Again
    <3>2. frame.h \in Handles
      BY <3>1 DEF IInv, CallInv
    <3>3. handle[frame.h].state = "open"
      BY <3>1, <3>2 DEF IInv, HandleInv
    <3>4. frame' \in [fn : {"none", "uv__server_io", "uv__read"}, h : Handles \cup {None},
                      count : 0..MaxReads, more : BOOLEAN]
          /\ frame'.fn = "uv__read" /\ frame'.h = frame.h
      <4>1. frame.count - 1 \in 0..MaxReads
        BY <1>0, <3>1 DEF ThreadTypes
      <4> QED
        BY <1>0, <3>1, <4>1 DEF ThreadTypes
    <3>5. ThreadTypes'
      BY <1>0, <2>1, <3>1, <3>2, <3>4 DEF ThreadTypes, Call, Methods
    <3> QED
      BY <2>1, <3>1, <3>2, <3>3, <3>4, <3>5, CallStep
  <2> QED
    BY <2>2, <2>3, <2>4
<1> QED
  BY <1>1, <1>2, <1>3, <1>4

(* Steps that take an answer and change nothing but the thread. *)
LEMMA ThreadGoesOn ==
  ASSUME IInv,
         \/ AfterReadAgain \/ AfterWrite \/ AfterRemoteAddress
         \/ Answered("accept") /\ answer.n = EAGAIN /\ frame' = NoFrame /\ UNCHANGED handle /\ ToJs
  PROVE  IInv'
<1>0. ThreadTypes
  BY TypeParts DEF IInv
<1>1. /\ pc' = "js" /\ answer' = NoAnswer /\ UNCHANGED <<cur, host, _connections, net, handle>>
      /\ frame' = NoFrame \/ UNCHANGED frame
      /\ pc \in {"read", "write", "accept", "getRemoteAddress"}
  BY DEF AfterReadAgain, AfterWrite, AfterRemoteAddress, ToJs, Answered
<1>2. pc = "read" => answer.kind # "hex"
  BY AnswerKinds DEF AfterReadAgain, AfterWrite, AfterRemoteAddress, Answered
<1>3. \A g : Coming(g) = 0 /\ Coming(g)' = 0
  BY <1>1, <1>2, NothingComes
<1>4. ThreadTypes'
  BY <1>0, <1>1, NoFrameType DEF ThreadTypes
<1>5. TypeOK'
  BY <1>1, <1>4, QuietTypes DEF IInv, Answers
<1>6. CallInv'
  BY <1>1 DEF IInv, CallInv, NoFrame, Methods
<1> QED
  BY <1>1, <1>3, <1>5, <1>6, Quiet DEF IInv

(* uv_tcp_getpeername makes its next call, or aborts. *)
LEMMA StepsPeername ==
  ASSUME IInv, AfterRemoteFamily \/ AfterRemotePort \/ PeernameAborts
  PROVE  IInv'
<1>0. ThreadTypes /\ answer \in Answers
  BY TypeParts DEF IInv
<1>1. /\ pc \in {"getRemoteFamily", "getRemotePort", "getRemoteAddress"}
      /\ pc' \in {"getRemotePort", "getRemoteAddress", "aborted"}
      /\ UNCHANGED <<cur, frame, handle, host, _connections, net>>
      /\ answer' \in {answer, NoAnswer}
  BY DEF AfterRemoteFamily, AfterRemotePort, PeernameAborts, Answered, Call
<1>2. cur \in Handles /\ handle[cur].state = "open"
  BY <1>1 DEF IInv, CallInv, Methods
<1>3. \A g : Coming(g) = 0 /\ Coming(g)' = 0
  BY <1>1, NothingComes
<1>4. ThreadTypes'
  BY <1>0, <1>1 DEF ThreadTypes, Methods
<1>5. TypeOK'
  BY <1>0, <1>1, <1>4, QuietTypes DEF IInv, Answers
<1>6. CallInv'
  BY <1>1, <1>2 DEF IInv, CallInv, Methods
<1> QED
  BY <1>1, <1>3, <1>5, <1>6, Quiet DEF IInv

(* Answers of the host that change nothing but the answer. *)
LEMMA HostOnlyAnswers ==
  ASSUME IInv,
         \/ handleWrite \/ handleRemoteFamily \/ handleRemotePort \/ handleRemoteAddress
         \/ handleAccept /\ sock.sockets_to_accept = <<>>
         \/ handleRead /\ sock.buffer = <<>>
  PROVE  IInv'
<1>0. ThreadTypes
  BY TypeParts DEF IInv
<1> DEFINE others == {"write", "getRemoteFamily", "getRemotePort", "getRemoteAddress"}
<1>1. /\ UNCHANGED <<sandboxVars, _connections, net>> /\ host' \in {host, "gone"}
      /\ answer = NoAnswer /\ pc \in others \cup {"accept", "read"}
      /\ pc \in others => answer' \in {NoAnswer, Value(0), Value(AF_INET), Undefined, Text}
      /\ pc = "accept" => answer' = Value(EAGAIN)
      /\ pc = "read" => answer' = Value(IF sock.eof THEN UV_EOF ELSE EAGAIN) /\ sock.buffer = <<>>
  BY DEF handleWrite, handleRemoteFamily, handleRemotePort, handleRemoteAddress, handleAccept, handleRead, Asked
<1>2. UNCHANGED <<pc, cur, frame, handle, sock>>
  BY <1>1 DEF sandboxVars, sock, Index
<1>3. answer' \in Answers /\ answer'.kind # "hex"
  BY <1>1, AnswerKinds DEF Answers
<1>4. \A g : Coming(g) = 0 /\ Coming(g)' = 0
  BY <1>1, <1>3, NothingComes, AnswerKinds
<1>5. ThreadTypes'
  BY <1>0, <1>1, <1>2 DEF ThreadTypes
<1>6. TypeOK'
  BY <1>1, <1>2, <1>3, <1>5, QuietTypes DEF IInv
<1>7. CallInv'
  BY <1>1, <1>2 DEF IInv, CallInv
<1>8. (pc' = "read" /\ answer' = Value(UV_EOF)) => sock'.eof /\ sock'.buffer = <<>>
  <2>1. sock.eof \/ EAGAIN # UV_EOF
    BY DEF EAGAIN, UV_EOF
  <2> QED
    BY <1>1, <1>2, <2>1, AnswerKinds DEF EAGAIN, UV_EOF
<1> QED
  BY <1>1, <1>2, <1>3, <1>4, <1>6, <1>7, <1>8, Quiet DEF IInv

----------------------------------------------------------------------------
(* Steps of the thread that change a handle. *)
LEMMA HandleTypes ==
  ASSUME TypeOK, UNCHANGED <<_connections, net>>, ThreadTypes', answer' \in Answers,
         handle' \in [Handles -> HandleRec]
  PROVE  TypeOK'
<1>1. HandleRec' = HandleRec /\ Answers' = Answers
  BY DEF HandleRec, Answers, Fds
<1> QED
  BY <1>1, TypeParts, TypePartsNext

(* uv_read_start, uv_read_stop, uv_close and NewSocket change only the     *)
(* reading or the family of a handle.                                      *)
LEMMA SmallChange ==
  ASSUME IInv, pc = "js", UNCHANGED <<host, _connections, net, frame>>, answer' = NoAnswer,
         NEW h \in Handles, handle' \in [Handles -> HandleRec],
         \A g \in Handles : /\ handle'[g].state = handle[g].state /\ handle'[g].fd = handle[g].fd
                            /\ handle'[g].delivered = handle[g].delivered /\ handle'[g].eof = handle[g].eof
                            /\ handle'[g].reading => handle[g].reading \/ handle[g].state = "open",
         \/ UNCHANGED <<pc, cur>>
         \/ pc' = "close" /\ cur' = h /\ handle[h].state \in {"open", "listening"} /\ ~handle'[h].reading
         \/ pc' = "socket" /\ cur' = h /\ h \in Clients \cup Servers /\ handle[h].state = "unused"
  PROVE  IInv'
<1>0. ThreadTypes /\ answer = NoAnswer
  BY TypeParts DEF IInv, CallInv
<1>1. \A g \in Handles : /\ handle'[g].state = handle[g].state /\ handle'[g].fd = handle[g].fd
                         /\ handle'[g].delivered = handle[g].delivered /\ handle'[g].eof = handle[g].eof
                         /\ handle'[g].reading => handle[g].reading \/ handle[g].state = "open"
  OBVIOUS
<1>2. TypeOK'
  <2>1. ThreadTypes'
    BY <1>0 DEF ThreadTypes, Methods
  <2> QED
    BY <2>1, HandleTypes DEF IInv, Answers
<1>3. HandleInv'
  BY <1>1 DEF IInv, HandleInv
<1>4. CallInv'
  BY <1>1 DEF IInv, CallInv, Methods
<1>5. OwnInv'
  BY <1>1 DEF IInv, OwnInv
<1>6. SockInv' /\ ConnInv' /\ ServerInv'
  BY <1>1, SockKept, ConnKept, ServerKept DEF IInv
<1>7. NetInv'
  BY DEF IInv, NetInv
<1>8. StreamInv'
  <2>1. \A i \in DOMAIN _connections : _connections[i].conn \in Conns \cup {None}
    BY Fields DEF IInv
  <2>2. \A g : Coming(g) = 0 /\ Coming(g)' = 0
    BY <1>0, NothingComes, AnswerKinds
  <2> QED
    BY <1>1, <2>1, <2>2, StreamKept DEF IInv
<1>9. DeliveredInv'
  BY <1>0, <1>1, AnswerKinds DEF IInv, DeliveredInv
<1> QED
  BY <1>2, <1>3, <1>4, <1>5, <1>6, <1>7, <1>8, <1>9 DEF IInv

LEMMA JsReading ==
  ASSUME IInv, NEW h \in Handles, uv_read_start(h) \/ uv_read_stop(h) \/ uv_close(h)
  PROVE  IInv'
<1>1. /\ pc = "js" /\ answer = NoAnswer /\ UNCHANGED <<host, _connections, net, frame>>
      /\ handle \in [Handles -> HandleRec]
  BY TypeParts DEF uv_read_start, uv_read_stop, uv_close, IInv, CallInv
<1> DEFINE Same == \A g \in Handles :
                     /\ handle'[g].state = handle[g].state /\ handle'[g].fd = handle[g].fd
                     /\ handle'[g].delivered = handle[g].delivered /\ handle'[g].eof = handle[g].eof
                     /\ handle'[g].reading => handle[g].reading \/ handle[g].state = "open"
<1>2. CASE uv_read_start(h)
  <2>1. /\ handle' = [handle EXCEPT ![h].reading = TRUE] /\ handle[h].state = "open"
        /\ UNCHANGED <<pc, cur, answer>>
    BY <1>2 DEF uv_read_start
  <2>2. handle' \in [Handles -> HandleRec] /\ Same
    BY <1>1, <2>1 DEF HandleRec
  <2> QED
    BY <1>1, <2>1, <2>2, SmallChange
<1>3. CASE uv_read_stop(h)
  <2>1. handle' = [handle EXCEPT ![h].reading = FALSE] /\ UNCHANGED <<pc, cur, answer>>
    BY <1>3 DEF uv_read_stop
  <2>2. handle' \in [Handles -> HandleRec] /\ Same
    BY <1>1, <2>1 DEF HandleRec
  <2> QED
    BY <1>1, <2>1, <2>2, SmallChange
<1>4. CASE uv_close(h)
  <2>1. /\ handle' = [handle EXCEPT ![h].reading = FALSE] /\ handle[h].state \in {"open", "listening"}
        /\ pc' = "close" /\ cur' = h /\ answer' = NoAnswer
    BY <1>4 DEF uv_close, Call
  <2>2. handle' \in [Handles -> HandleRec] /\ Same /\ ~handle'[h].reading
    BY <1>1, <2>1 DEF HandleRec
  <2> QED
    BY <1>1, <2>1, <2>2, SmallChange
<1> QED
  BY <1>2, <1>3, <1>4

LEMMA StepNewSocket ==
  ASSUME IInv, NEW h \in Clients \cup Servers, NEW family \in {AF_INET, AF_INET6}, NewSocket(h, family)
  PROVE  IInv'
<1>1. /\ h \in Handles /\ handle \in [Handles -> HandleRec]
      /\ pc = "js" /\ UNCHANGED <<host, _connections, net, frame>> /\ answer' = NoAnswer
      /\ pc' = "socket" /\ cur' = h /\ handle[h].state = "unused"
      /\ handle' = [handle EXCEPT ![h].family = family]
  BY TypeParts, HandleClasses DEF NewSocket, Call, IInv
<1>2. /\ handle' \in [Handles -> HandleRec]
      /\ \A g \in Handles : /\ handle'[g].state = handle[g].state /\ handle'[g].fd = handle[g].fd
                             /\ handle'[g].delivered = handle[g].delivered /\ handle'[g].eof = handle[g].eof
                             /\ handle'[g].reading => handle[g].reading \/ handle[g].state = "open"
  BY <1>1 DEF HandleRec
<1> QED
  BY <1>1, <1>2, SmallChange

LEMMA StepAfterSocket ==
  ASSUME IInv, AfterSocket
  PROVE  IInv'
<1>0. /\ pc = "socket" /\ cur \in Clients \cup Servers /\ cur \in Handles /\ handle[cur].state = "unused"
      /\ Fresh("new") /\ UNCHANGED <<frame, host, _connections, net, cur>> /\ answer' = NoAnswer
      /\ pc' = IF cur \in Clients THEN "connect" ELSE "bind"
      /\ handle' = [handle EXCEPT ![cur].fd = answer.n, ![cur].state = "opening"]
      /\ ThreadTypes /\ handle \in [Handles -> HandleRec]
  BY TypeParts DEF AfterSocket, Answered, Call, IInv, CallInv, Methods
<1>1. /\ answer.n = LastFd /\ LastFd \in Fds /\ Place(LastFd) = Len(_connections) /\ Len(_connections) \in DOMAIN _connections
      /\ _connections[Len(_connections)].kind = "new" /\ LastFd # -1
  <2>1. Len(_connections) \in Nat /\ DOMAIN _connections = 1..Len(_connections) /\ _connections \in Seq(SocketRec)
    BY Fields, TypeParts DEF IInv
  <2>2. Len(_connections) # 0
    BY <1>0, <2>1 DEF Fresh
  <2>3. answer.n = LastFd
    BY <1>0, AnswerKinds DEF Fresh
  <2> QED
    BY <1>0, <2>1, <2>2, <2>3 DEF Fresh, LastFd, Place, FirstFd, Fds
<1>2. /\ handle'[cur].fd = LastFd /\ handle'[cur].state = "opening"
      /\ handle'[cur].reading = handle[cur].reading /\ handle'[cur].eof = handle[cur].eof
      /\ handle'[cur].delivered = handle[cur].delivered
      /\ \A g \in Handles : g # cur => handle'[g] = handle[g]
  BY <1>0, <1>1 DEF HandleRec
<1>3. TypeOK'
  <2>1. handle' \in [Handles -> HandleRec]
    BY <1>0, <1>1 DEF HandleRec
  <2>2. ThreadTypes'
    BY <1>0 DEF ThreadTypes, Methods
  <2> QED
    BY <1>0, <2>1, <2>2, HandleTypes DEF IInv, Answers
<1>4. HandleInv'
  <2>1. \A g \in Handles : handle[g].fd # LastFd /\ handle[g].state # "opening"
    BY <1>0 DEF Fresh, IInv, HandleInv
  <2>2. \A g \in Handles : 
       /\ handle'[g].fd = -1 <=> handle'[g].state \in {"unused", "closed"}
       /\ handle'[g].state \in {"unused", "opening"} =>
            handle'[g].delivered = <<>> /\ ~handle'[g].eof
       /\ handle'[g].state = "opening" => cur = g
       /\ handle'[g].state = "open" => g \in Clients \cup Peers
       /\ handle'[g].state = "listening" => g \in Servers
       /\ handle'[g].reading => handle'[g].state = "open"
    BY <1>0, <1>1, <1>2, <2>1 DEF IInv, HandleInv
  <2>3. \A f, g \in Handles : handle'[f].fd = handle'[g].fd /\ handle'[g].fd # -1 => f = g
    BY <1>0, <1>2, <2>1 DEF IInv, HandleInv
  <2> QED
    BY <1>0, <2>2, <2>3 DEF HandleInv
<1>5. sock' = _connections[Len(_connections)] /\ sock'.kind = "new"
  BY <1>0, <1>1, <1>2 DEF sock, Index, Place
<1>6. CallInv'
  BY <1>0, <1>2, <1>5 DEF IInv, CallInv, Methods
<1>7. OwnInv'
  BY <1>0, <1>2 DEF IInv, OwnInv
<1>8. SockInv' /\ ServerInv'
  BY <1>0, <1>2, SockKept, ServerKept DEF IInv
<1>9. ConnInv'
  <2>1. \A c, i, p : Waits(c, i, p)' <=> Waits(c, i, p)
    BY <1>0 DEF Waits
  <2>2. \A c \in Clients : c \in Handles
    BY DEF Handles
  <2>3. \A i \in DOMAIN _connections : _connections[i].conn \in Clients => _connections[i].conn # cur
    BY <1>0 DEF IInv, ConnInv
  <2> QED
    BY <1>0, <1>2, <2>1, <2>2, <2>3 DEF IInv, ConnInv, Place
<1>10. NetInv'
  <2>1. \A c \in Clients : net[c].state # "dialing"
    BY <1>0 DEF IInv, NetInv
  <2> QED
    BY <1>0, <2>1 DEF IInv, NetInv
<1>11. \A g : Coming(g) = 0 /\ Coming(g)' = 0
  BY <1>0, NothingComes
<1>12. StreamInv'
  <2> SUFFICES ASSUME NEW i \in DOMAIN _connections, NEW n \in Nat, Taken(i, n)',
                      _connections[i].kind = "stream" \/ \E h \in Handles : handle'[h].state = "open" /\ handle'[h].fd = FirstFd + i - 1
               PROVE  Run(_connections[i].buffer, n, net[_connections[i].conn].seen)
    BY <1>0 DEF StreamInv
  <2>1. FirstFd + i - 1 \in Fds /\ Place(FirstFd + i - 1) = i /\ FirstFd + i - 1 # -1
    BY Places DEF IInv
  <2>2. CASE FirstFd + i - 1 = LastFd
    <3>1. _connections[i].kind = "new"
      BY <1>1, <2>1, <2>2
    <3>2. PICK h \in Handles : handle'[h].state = "open" /\ handle'[h].fd = LastFd
      BY <2>2, <3>1
    <3> QED
      BY <1>0, <1>2, <3>2 DEF Fresh
  <2>3. CASE FirstFd + i - 1 # LastFd
    <3>1. \A h \in Handles : handle'[h].fd = FirstFd + i - 1 => handle[h].fd = FirstFd + i - 1 /\ h # cur /\ handle'[h] = handle[h]
      BY <1>2, <2>3
    <3>2. \A h \in Handles : handle[h].fd = FirstFd + i - 1 => h # cur /\ handle'[h] = handle[h]
      BY <1>0, <1>2, <2>1 DEF IInv, HandleInv
    <3>3. Taken(i, n)
      BY <1>11, <3>1, <3>2 DEF Taken
    <3> QED
      BY <3>1, <3>3 DEF IInv, StreamInv
  <2> QED
    BY <2>2, <2>3
<1>13. DeliveredInv'
  BY <1>0, <1>2 DEF IInv, DeliveredInv
<1> QED
  BY <1>3, <1>4, <1>6, <1>7, <1>8, <1>9, <1>10, <1>12, <1>13 DEF IInv

(* Connecting or binding is done: the handle is open, or listens. *)
LEMMA OpeningEnds ==
  ASSUME IInv, pc \in {"connect", "bind"}, answer # NoAnswer, ToJs, UNCHANGED frame,
         NEW s \in {"open", "listening"}, NEW b \in BOOLEAN, b => s = "open",
         s = "open" <=> pc = "connect",
         handle' = [handle EXCEPT ![cur].state = s, ![cur].reading = b]
  PROVE  IInv'
<1>0. /\ pc' = "js" /\ answer' = NoAnswer /\ UNCHANGED <<cur, host, _connections, net, frame>>
      /\ cur \in Handles /\ handle[cur].state = "opening"
      /\ pc = "connect" => cur \in Clients /\ sock.kind = "stream"
      /\ pc = "bind" => cur \in Servers /\ sock.kind = "server"
      /\ ThreadTypes /\ handle \in [Handles -> HandleRec]
  BY TypeParts DEF ToJs, IInv, CallInv, Methods
<1>1. /\ handle'[cur].fd = handle[cur].fd /\ handle'[cur].state = s
      /\ handle'[cur].reading = b /\ handle'[cur].eof = handle[cur].eof
      /\ handle'[cur].delivered = handle[cur].delivered
      /\ \A g \in Handles : g # cur => handle'[g] = handle[g]
  BY <1>0 DEF HandleRec
<1>2. sock = _connections[Place(handle[cur].fd)]
  BY IndexIs
<1>3. TypeOK'
  <2>1. handle' \in [Handles -> HandleRec]
    BY <1>0 DEF HandleRec
  <2>2. ThreadTypes'
    BY <1>0 DEF ThreadTypes
  <2> QED
    BY <1>0, <2>1, <2>2, HandleTypes DEF IInv, Answers
<1>4. HandleInv'
  <2>1. \A g \in Handles : g # cur => handle[g].state # "opening"
    BY DEF IInv, HandleInv
  <2> QED
    BY <1>0, <1>1, <2>1 DEF IInv, HandleInv
<1>5. CallInv'
  BY <1>0 DEF IInv, CallInv, Methods
<1>6. OwnInv'
  BY <1>0, <1>1, <1>2 DEF IInv, OwnInv
<1>7. SockInv' /\ ConnInv' /\ ServerInv'
  BY <1>0, <1>1, SockKept, ConnKept, ServerKept DEF IInv
<1>8. NetInv'
  BY <1>0 DEF IInv, NetInv
<1>9. StreamInv'
  <2>1. \A g : Coming(g) = 0 /\ Coming(g)' = 0
    BY <1>0, NothingComes
  <2>2. \A g \in Handles : handle'[g].fd = handle[g].fd /\ handle'[g].delivered = handle[g].delivered
    BY <1>1
  <2>3. \A i, n : Taken(i, n)' <=> Taken(i, n)
    BY <2>1, <2>2, TakenKept
  <2>4. \A i \in DOMAIN _connections : Place(FirstFd + i - 1) = i
    BY Places DEF IInv
  <2>5. ASSUME NEW i \in DOMAIN _connections, NEW h \in Handles, handle'[h].state = "open", handle'[h].fd = FirstFd + i - 1
        PROVE  _connections[i].kind = "stream" \/ handle[h].state = "open"
    BY <1>0, <1>1, <1>2, <2>4, <2>5
  <2> QED
    BY <1>0, <2>2, <2>3, <2>5 DEF IInv, StreamInv
<1>10. DeliveredInv'
  <2>1. ~handle[cur].eof
    BY <1>0 DEF IInv, HandleInv
  <2> QED
    BY <1>0, <1>1, <2>1 DEF IInv, DeliveredInv
<1> QED
  BY <1>3, <1>4, <1>5, <1>6, <1>7, <1>8, <1>9, <1>10 DEF IInv

LEMMA StepsOpening ==
  ASSUME IInv, AfterConnect \/ AfterBind
  PROVE  IInv'
<1>1. CASE AfterConnect
  BY <1>1, OpeningEnds DEF AfterConnect, Answered
<1>2. CASE AfterBind
  <2>1. /\ pc = "bind" /\ answer # NoAnswer /\ ToJs /\ UNCHANGED frame
        /\ handle' = [handle EXCEPT ![cur].state = "listening"]
        /\ cur \in Handles /\ handle \in [Handles -> HandleRec]
    BY <1>2, TypeParts DEF AfterBind, Answered, uv_tcp_listen, IInv, CallInv, Methods
  <2>2. ~handle[cur].reading /\ handle[cur].reading \in BOOLEAN
    BY <2>1, Fields DEF IInv, HandleInv, CallInv
  <2>3. handle' = [handle EXCEPT ![cur].state = "listening", ![cur].reading = FALSE]
    BY <2>1, <2>2 DEF HandleRec
  <2> QED
    BY <2>1, <2>3, OpeningEnds
<1> QED
  BY <1>1, <1>2

(* uv_accept: a new handle gets the newest descriptor. *)
LEMMA StepAfterAccept ==
  ASSUME IInv, AfterAccept
  PROVE  IInv'
<1>a. CASE answer.n = EAGAIN /\ frame' = NoFrame /\ UNCHANGED handle
  BY <1>a, ThreadGoesOn DEF AfterAccept
<1>b. CASE answer.n >= 0 /\ uv_accept(answer.n) /\ UNCHANGED frame
  <2>0. /\ pc = "accept" /\ cur \in Handles /\ handle[cur].state = "listening"
        /\ UNCHANGED <<frame, host, _connections, net, cur>> /\ answer' = NoAnswer /\ pc' = "js"
        /\ ThreadTypes /\ handle \in [Handles -> HandleRec]
    BY <1>b, TypeParts DEF AfterAccept, Answered, ToJs, IInv, CallInv, Methods
  <2>1. Fresh("stream")
    <3>1. answer # NoAnswer /\ answer # Value(EAGAIN)
      BY <1>b, AnswerKinds DEF AfterAccept, Answered, EAGAIN
    <3> QED
      BY <2>0, <3>1 DEF IInv, CallInv
  <2>2. PICK h \in Peers :
          /\ handle[h].state = "unused"
          /\ handle' = [handle EXCEPT ![h].fd = answer.n, ![h].state = "open", ![h].reading = TRUE]
    BY <1>b DEF uv_accept
  <2>3. /\ answer.n = LastFd /\ LastFd \in Fds /\ Place(LastFd) = Len(_connections) /\ Len(_connections) \in DOMAIN _connections
        /\ _connections[Len(_connections)].kind = "stream" /\ LastFd # -1
    <3>1. Len(_connections) \in Nat /\ DOMAIN _connections = 1..Len(_connections) /\ _connections \in Seq(SocketRec)
      BY Fields, TypeParts DEF IInv
    <3>2. Len(_connections) # 0
      BY <2>1, <3>1 DEF Fresh
    <3>3. answer.n = LastFd
      BY <2>1, AnswerKinds DEF Fresh
    <3> QED
      BY <2>1, <3>1, <3>2, <3>3 DEF Fresh, LastFd, Place, FirstFd, Fds
  <2>4. h \in Handles /\ h \notin Clients /\ h \notin Servers
    BY HandleClasses
  <2>5. /\ handle'[h].fd = LastFd /\ handle'[h].state = "open" /\ handle'[h].reading
        /\ handle'[h].eof = handle[h].eof /\ ~handle[h].eof
        /\ handle'[h].delivered = handle[h].delivered /\ handle[h].delivered = <<>> /\ handle[h].fd = -1
        /\ \A g \in Handles : g # h => handle'[g] = handle[g]
    BY <2>0, <2>2, <2>3, <2>4 DEF HandleRec, IInv, HandleInv
  <2>6. TypeOK'
    <3>1. handle' \in [Handles -> HandleRec]
      BY <2>0, <2>2, <2>3, <2>4 DEF HandleRec
    <3>2. ThreadTypes'
      BY <2>0 DEF ThreadTypes
    <3> QED
      BY <2>0, <3>1, <3>2, HandleTypes DEF IInv, Answers
  <2>7. HandleInv'
    <3>1. \A g \in Handles : handle[g].fd # LastFd /\ handle[g].state # "opening"
      BY <2>0, <2>1 DEF Fresh, IInv, HandleInv
    <3>2. \A g \in Handles : 
         /\ handle'[g].fd = -1 <=> handle'[g].state \in {"unused", "closed"}
         /\ handle'[g].state \in {"unused", "opening"} =>
              handle'[g].delivered = <<>> /\ ~handle'[g].eof
         /\ handle'[g].state # "opening"
         /\ handle'[g].state = "open" => g \in Clients \cup Peers
         /\ handle'[g].state = "listening" => g \in Servers
         /\ handle'[g].reading => handle'[g].state = "open"
      BY <2>0, <2>3, <2>5, <3>1 DEF IInv, HandleInv
    <3>3. \A f, g \in Handles : handle'[f].fd = handle'[g].fd /\ handle'[g].fd # -1 => f = g
      BY <2>5, <3>1 DEF IInv, HandleInv
    <3> QED
      BY <3>2, <3>3 DEF HandleInv
  <2>8. CallInv'
    BY <2>0 DEF IInv, CallInv, Methods
  <2>9. OwnInv'
    BY <2>0, <2>3, <2>5 DEF IInv, OwnInv
  <2>10. SockInv' /\ ServerInv' /\ ConnInv'
    BY <2>0, <2>5, SockKept, ServerKept, ConnKept DEF IInv
  <2>11. NetInv'
    BY <2>0 DEF IInv, NetInv
  <2>12. \A g : Coming(g) = 0 /\ Coming(g)' = 0
    BY <2>0, NothingComes
  <2>13. StreamInv'
    <3> SUFFICES ASSUME NEW i \in DOMAIN _connections, NEW n \in Nat, Taken(i, n)',
                        _connections[i].kind = "stream" \/ \E g \in Handles : handle'[g].state = "open" /\ handle'[g].fd = FirstFd + i - 1
                 PROVE  Run(_connections[i].buffer, n, net[_connections[i].conn].seen)
      BY <2>0 DEF StreamInv
    <3>1. FirstFd + i - 1 \in Fds /\ Place(FirstFd + i - 1) = i /\ FirstFd + i - 1 # -1
      BY Places DEF IInv
    <3>2. CASE FirstFd + i - 1 = LastFd
      <4>1. _connections[i].kind = "stream"
        BY <2>3, <3>1, <3>2
      <4>2. \A g \in Handles : handle[g].fd # FirstFd + i - 1 /\ (handle'[g].fd = FirstFd + i - 1 <=> g = h)
        BY <2>1, <2>5, <3>2 DEF Fresh
      <4>3. n = 0
        <5>1. n = Len(handle'[h].delivered) + Coming(h)'
          BY <2>4, <4>2 DEF Taken
        <5> QED
          BY <2>5, <2>12, <5>1
      <4>4. Taken(i, n)
        BY <4>2, <4>3 DEF Taken
      <4> QED
        BY <4>1, <4>4 DEF IInv, StreamInv
    <3>3. CASE FirstFd + i - 1 # LastFd
      <4>1. \A g \in Handles : handle'[g].fd = FirstFd + i - 1 => handle[g].fd = FirstFd + i - 1 /\ g # h /\ handle'[g] = handle[g]
        BY <2>5, <3>3
      <4>2. \A g \in Handles : handle[g].fd = FirstFd + i - 1 => g # h /\ handle'[g] = handle[g]
        BY <2>5, <3>1
      <4>3. Taken(i, n)
        BY <2>12, <4>1, <4>2 DEF Taken
      <4> QED
        BY <4>1, <4>3 DEF IInv, StreamInv
    <3> QED
      BY <3>2, <3>3
  <2>14. DeliveredInv'
    BY <2>0, <2>5 DEF IInv, DeliveredInv
  <2> QED
    BY <2>6, <2>7, <2>8, <2>9, <2>10, <2>11, <2>13, <2>14 DEF IInv
<1> QED
  BY <1>a, <1>b DEF AfterAccept

(* uv__read hands the data to its callback. *)
LEMMA StepAfterRead ==
  ASSUME IInv, AfterRead
  PROVE  IInv'
<1>0. /\ pc = "read" /\ answer.kind = "hex" /\ cur \in Handles /\ handle[cur].state = "open"
      /\ UNCHANGED <<host, _connections, net, cur>> /\ answer' = NoAnswer /\ pc' = "js"
      /\ handle' = [handle EXCEPT ![cur].delivered = @ \o answer.data]
      /\ frame' = [frame EXCEPT !.more = (Len(answer.data) = BufLen)]
      /\ ThreadTypes /\ handle \in [Handles -> HandleRec]
  BY TypeParts DEF AfterRead, Answered, ToJs, IInv, CallInv, Methods
<1>1. answer.data \in Seq(Data)
  <2>1. answer \in Answers
    BY TypeParts DEF IInv
  <2>2. answer \notin {NoAnswer, Undefined, Text} \cup {Value(n) : n \in Fds \cup {0, AF_INET, EAGAIN, UV_EOF}}
    BY <1>0, AnswerKinds
  <2> QED
    BY <2>1, <2>2 DEF Answers
<1> DEFINE new == handle[cur].delivered \o answer.data
<1>2. handle[cur].delivered \in Seq(Data)
  BY <1>0, Fields DEF IInv
<1>3. /\ new \in Seq(Data) /\ Len(new) = Len(handle[cur].delivered) + Len(answer.data)
      /\ \A j \in DOMAIN new : new[j] = j
  <2>1. /\ Len(handle[cur].delivered) \in Nat /\ Len(answer.data) \in Nat
        /\ DOMAIN handle[cur].delivered = 1..Len(handle[cur].delivered)
        /\ DOMAIN answer.data = 1..Len(answer.data)
    BY <1>1, <1>2
  <2>2. /\ new \in Seq(Data) /\ Len(new) = Len(handle[cur].delivered) + Len(answer.data)
        /\ DOMAIN new = 1..Len(new)
    BY <1>1, <1>2
  <2>3. \A j \in 1..Len(new) : new[j] = IF j =< Len(handle[cur].delivered) THEN handle[cur].delivered[j]
                                         ELSE answer.data[j - Len(handle[cur].delivered)]
    BY <1>1, <1>2, <2>1, <2>2
  <2>4. \A j \in DOMAIN handle[cur].delivered : handle[cur].delivered[j] = j
    BY <1>0 DEF IInv, DeliveredInv
  <2>5. \A j \in DOMAIN answer.data : answer.data[j] = Len(handle[cur].delivered) + j
    BY <1>0 DEF IInv, DeliveredInv
  <2> HIDE DEF new
  <2>6. ASSUME NEW j \in 1..Len(new) PROVE new[j] = j
    <3>a. \A a, b \in Nat : \A k \in 1..(a + b) :
            k \in Nat \ {0} /\ (k =< a => k \in 1..a) /\ (~(k =< a) => k - a \in 1..b)
      OBVIOUS
    <3>b. j \in 1..(Len(handle[cur].delivered) + Len(answer.data))
      BY <2>2
    <3>0. /\ j =< Len(handle[cur].delivered) => j \in 1..Len(handle[cur].delivered)
          /\ ~(j =< Len(handle[cur].delivered)) => j - Len(handle[cur].delivered) \in 1..Len(answer.data)
          /\ j \in Nat
      BY <2>1, <3>a, <3>b
    <3>1. CASE j =< Len(handle[cur].delivered)
      <4>1. j \in DOMAIN handle[cur].delivered
        BY <2>1, <3>0, <3>1
      <4> QED
        BY <2>3, <2>4, <3>1, <4>1
    <3>2. CASE ~(j =< Len(handle[cur].delivered))
      <4>1. j - Len(handle[cur].delivered) \in 1..Len(answer.data)
        BY <2>1, <3>0, <3>2
      <4>2. new[j] = Len(handle[cur].delivered) + (j - Len(handle[cur].delivered))
        BY <2>1, <2>3, <2>5, <3>2, <4>1
      <4> QED
        BY <2>1, <3>0, <4>2
    <3> QED
      BY <3>1, <3>2
  <2> QED
    BY <2>2, <2>6
<1> HIDE DEF new
<1>4. /\ handle'[cur].fd = handle[cur].fd /\ handle'[cur].state = handle[cur].state
      /\ handle'[cur].reading = handle[cur].reading /\ handle'[cur].eof = handle[cur].eof
      /\ handle'[cur].delivered = new
      /\ \A g \in Handles : g # cur => handle'[g] = handle[g]
  BY <1>0 DEF HandleRec, new
<1>5. TypeOK'
  <2>1. handle' \in [Handles -> HandleRec]
    <3>1. handle' = [handle EXCEPT ![cur].delivered = new]
      BY <1>0 DEF new, HandleRec
    <3> QED
      BY <1>0, <1>3, <3>1 DEF HandleRec
  <2>2. ThreadTypes'
    BY <1>0 DEF ThreadTypes
  <2> QED
    BY <1>0, <2>1, <2>2, HandleTypes DEF IInv, Answers
<1>6. HandleInv'
  <2>1. \A g \in Handles : /\ handle'[g].state = handle[g].state /\ handle'[g].fd = handle[g].fd
                           /\ handle'[g].reading = handle[g].reading /\ handle'[g].eof = handle[g].eof
                           /\ handle'[g].state \in {"unused", "opening"} => handle'[g].delivered = handle[g].delivered
    BY <1>0, <1>4
  <2>2. \A g \in Handles : handle[g].state # "opening"
    BY <1>0 DEF IInv, HandleInv
  <2> QED
    BY <1>0, <2>1, <2>2 DEF IInv, HandleInv
<1>7. CallInv'
  <2>1. frame'.fn = frame.fn /\ frame'.h = frame.h
    BY <1>0 DEF ThreadTypes
  <2> QED
    BY <1>0, <2>1 DEF IInv, CallInv, Methods
<1>8. OwnInv'
  BY <1>0, <1>4 DEF IInv, OwnInv
<1>9. SockInv' /\ ServerInv' /\ ConnInv'
  BY <1>0, <1>4, SockKept, ServerKept, ConnKept DEF IInv
<1>10. NetInv'
  BY <1>0 DEF IInv, NetInv
<1>11. StreamInv'
  <2>1. Coming(cur) = Len(answer.data) /\ \A g : Coming(g)' = 0 /\ (g # cur => Coming(g) = 0)
    BY <1>0, NothingComes DEF Coming
  <2>2. \A g \in Handles : /\ handle'[g].fd = handle[g].fd /\ handle'[g].state = handle[g].state
                           /\ Len(handle'[g].delivered) + Coming(g)' = Len(handle[g].delivered) + Coming(g)
    <3>1. \A g \in Handles : Len(handle[g].delivered) \in Nat
      BY Fields DEF IInv
    <3>2. Len(answer.data) \in Nat
      BY <1>1
    <3>3. Len(handle'[cur].delivered) + Coming(cur)' = Len(handle[cur].delivered) + Coming(cur)
      <4>1. Len(handle'[cur].delivered) = Len(handle[cur].delivered) + Coming(cur) /\ Coming(cur)' = 0
        BY <1>3, <1>4, <2>1
      <4>2. Len(handle[cur].delivered) \in Nat /\ Coming(cur) \in Nat
        BY <1>0, <2>1, <3>1, <3>2
      <4>3. \A a, b \in Nat : a + b + 0 = a + b
        OBVIOUS
      <4> QED
        BY <4>1, <4>2, <4>3
    <3>4. \A g \in Handles : g # cur => Len(handle'[g].delivered) + Coming(g)' = Len(handle[g].delivered) + Coming(g)
      BY <1>4, <2>1
    <3>5. \A g \in Handles : handle'[g].fd = handle[g].fd /\ handle'[g].state = handle[g].state
      BY <1>4
    <3> QED
      BY <1>0, <3>3, <3>4, <3>5
  <2>3. \A i, n : Taken(i, n)' <=> Taken(i, n)
    BY <2>2 DEF Taken
  <2> QED
    BY <1>0, <2>2, <2>3 DEF IInv, StreamInv
<1>12. DeliveredInv'
  BY <1>0, <1>3, <1>4 DEF IInv, DeliveredInv
<1> QED
  BY <1>5, <1>6, <1>7, <1>8, <1>9, <1>10, <1>11, <1>12 DEF IInv

(* The end of the stream, whether the contract closes it or keeps it. *)
LEMMA StepsReadEof ==
  ASSUME IInv, AfterReadEof \/ AfterReadHalfOpen
  PROVE  IInv'
<1>0. /\ pc = "read" /\ answer = Value(UV_EOF) /\ cur \in Handles /\ handle[cur].state = "open"
      /\ UNCHANGED <<host, _connections, net, cur>>
      /\ frame' = NoFrame \/ UNCHANGED frame
      /\ (answer' = NoAnswer /\ pc' = "close") \/ (UNCHANGED answer /\ pc' = "aborted")
      /\ ThreadTypes /\ handle \in [Handles -> HandleRec] /\ answer \in Answers
  <2>1. CASE AfterReadEof
    BY <2>1, TypeParts DEF AfterReadEof, Answered, Call, IInv, CallInv, Methods
  <2>2. CASE AfterReadHalfOpen
    BY <2>2, TypeParts DEF AfterReadHalfOpen, Answered, Call, IInv, CallInv, Methods
  <2> QED
    BY <2>1, <2>2
<1>1. /\ handle'[cur].fd = handle[cur].fd /\ handle'[cur].state = handle[cur].state
      /\ handle'[cur].reading => handle[cur].reading
      /\ handle'[cur].delivered = handle[cur].delivered
      /\ \A g \in Handles : g # cur => handle'[g] = handle[g]
      /\ handle' \in [Handles -> HandleRec]
      /\ pc' = "close" => ~handle'[cur].reading
  <2>1. CASE AfterReadEof
    <3>1. handle' = [handle EXCEPT ![cur].eof = TRUE, ![cur].reading = FALSE]
      BY <2>1 DEF AfterReadEof
    <3> QED
      BY <1>0, <3>1 DEF HandleRec
  <2>2. CASE AfterReadHalfOpen
    <3>1. handle' = [handle EXCEPT ![cur].eof = TRUE] /\ pc' = "aborted"
      BY <2>2 DEF AfterReadHalfOpen
    <3> QED
      BY <1>0, <3>1 DEF HandleRec
  <2> QED
    BY <2>1, <2>2
<1>2. \A g \in Handles : /\ handle'[g].state = handle[g].state /\ handle'[g].fd = handle[g].fd
                         /\ handle'[g].reading => handle[g].reading
                         /\ handle'[g].delivered = handle[g].delivered
                         /\ g # cur => handle'[g].eof = handle[g].eof
  BY <1>1
<1>3. TypeOK'
  <2>1. ThreadTypes'
    BY <1>0, NoFrameType DEF ThreadTypes, Methods
  <2> QED
    BY <1>0, <1>1, <2>1, HandleTypes DEF IInv, Answers
<1>4. HandleInv'
  <2>1. \A g \in Handles : handle[g].state # "opening"
    BY <1>0 DEF IInv, HandleInv
  <2> QED
    BY <1>0, <1>2, <2>1 DEF IInv, HandleInv
<1>5. CallInv'
  BY <1>0, <1>1, <1>2 DEF IInv, CallInv, Methods, NoFrame
<1>6. OwnInv'
  BY <1>0, <1>2 DEF IInv, OwnInv
<1>7. SockInv' /\ ServerInv' /\ ConnInv'
  BY <1>0, <1>2, SockKept, ServerKept, ConnKept DEF IInv
<1>8. NetInv'
  BY <1>0 DEF IInv, NetInv
<1>9. StreamInv'
  <2>1. \A i \in DOMAIN _connections : _connections[i].conn \in Conns \cup {None}
    BY Fields DEF IInv
  <2>2. \A g : Coming(g) = 0 /\ Coming(g)' = 0
    BY <1>0, NothingComes, AnswerKinds
  <2> QED
    BY <1>0, <1>2, <2>1, <2>2, StreamKept DEF IInv
<1>10. DeliveredInv'
  <2>1. _connections[Place(handle[cur].fd)].eof /\ _connections[Place(handle[cur].fd)].buffer = <<>>
    BY <1>0, IndexIs DEF IInv, DeliveredInv
  <2> QED
    BY <1>0, <1>2, <2>1 DEF IInv, DeliveredInv
<1> QED
  BY <1>3, <1>4, <1>5, <1>6, <1>7, <1>8, <1>9, <1>10 DEF IInv

(* The descriptor is closed. *)
LEMMA StepAfterClose ==
  ASSUME IInv, AfterClose
  PROVE  IInv'
<1>0. /\ pc = "close" /\ answer # NoAnswer /\ cur \in Handles /\ handle[cur].state \in {"open", "listening"}
      /\ sock.kind = "destroyed"
      /\ UNCHANGED <<host, _connections, net, cur, frame>> /\ answer' = NoAnswer /\ pc' = "js"
      /\ handle' = [handle EXCEPT ![cur].state = "closed", ![cur].fd = -1]
      /\ ThreadTypes /\ handle \in [Handles -> HandleRec]
  BY TypeParts DEF AfterClose, Answered, ToJs, IInv, CallInv, Methods
<1>1. handle[cur].state = "open" /\ _connections[Place(handle[cur].fd)].kind = "destroyed" /\ ~handle[cur].reading
  <2>1. _connections[Place(handle[cur].fd)].kind = "destroyed"
    BY <1>0, IndexIs
  <2>2. handle[cur].state = "open"
    BY <1>0, <2>1 DEF IInv, OwnInv
  <2> QED
    BY <1>0, <2>1, <2>2 DEF IInv, CallInv
<1>2. /\ handle'[cur].fd = -1 /\ handle'[cur].state = "closed"
      /\ ~handle'[cur].reading /\ handle'[cur].delivered = handle[cur].delivered
      /\ \A g \in Handles : g # cur => handle'[g] = handle[g]
      /\ handle' \in [Handles -> HandleRec]
  BY <1>0, <1>1 DEF HandleRec
<1>3. TypeOK'
  <2>1. ThreadTypes'
    BY <1>0 DEF ThreadTypes
  <2> QED
    BY <1>0, <1>2, <2>1, HandleTypes DEF IInv, Answers
<1>4. HandleInv'
  <2>1. \A g \in Handles : handle[g].state # "opening"
    BY <1>0 DEF IInv, HandleInv
  <2> QED
    BY <1>0, <1>2, <2>1 DEF IInv, HandleInv
<1>5. CallInv'
  BY <1>0 DEF IInv, CallInv, Methods
<1>6. OwnInv'
  BY <1>0, <1>2 DEF IInv, OwnInv
<1>7. SockInv' /\ ServerInv' /\ ConnInv'
  BY <1>0, <1>2, SockKept, ServerKept, ConnKept DEF IInv
<1>8. NetInv'
  BY <1>0 DEF IInv, NetInv
<1>9. StreamInv'
  <2> SUFFICES ASSUME NEW i \in DOMAIN _connections, NEW n \in Nat, Taken(i, n)',
                      _connections[i].kind = "stream" \/ \E g \in Handles : handle'[g].state = "open" /\ handle'[g].fd = FirstFd + i - 1
               PROVE  Run(_connections[i].buffer, n, net[_connections[i].conn].seen)
    BY <1>0 DEF StreamInv
  <2>1. FirstFd + i - 1 # -1 /\ Place(FirstFd + i - 1) = i
    BY Places DEF IInv
  <2>2. handle[cur].fd # FirstFd + i - 1
    <3>1. CASE _connections[i].kind = "stream"
      BY <1>1, <2>1, <3>1
    <3>2. CASE \E g \in Handles : handle'[g].state = "open" /\ handle'[g].fd = FirstFd + i - 1
      <4>1. PICK g \in Handles : handle'[g].state = "open" /\ handle'[g].fd = FirstFd + i - 1
        BY <3>2
      <4>2. g # cur /\ handle[g].fd = FirstFd + i - 1
        BY <1>2, <4>1
      <4> QED
        BY <1>0, <2>1, <4>2 DEF IInv, HandleInv
    <3> QED
      BY <3>1, <3>2
  <2>3. \A g \in Handles : (handle'[g].fd = FirstFd + i - 1 <=> handle[g].fd = FirstFd + i - 1)
                          /\ (handle'[g].fd = FirstFd + i - 1 => handle'[g] = handle[g])
    BY <1>2, <2>1, <2>2
  <2>4. \A g : Coming(g) = 0 /\ Coming(g)' = 0
    BY <1>0, NothingComes
  <2>5. Taken(i, n)
    BY <2>3, <2>4 DEF Taken
  <2> QED
    BY <2>3, <2>5 DEF IInv, StreamInv
<1>10. DeliveredInv'
  BY <1>0, <1>2 DEF IInv, DeliveredInv
<1> QED
  BY <1>3, <1>4, <1>5, <1>6, <1>7, <1>8, <1>9, <1>10 DEF IInv


----------------------------------------------------------------------------
(* Buffers that hold consecutive data. *)
LEMMA ConsecutiveFacts ==
  ASSUME NEW s \in Seq(Data), Consecutive(s)
  PROVE  /\ Len(s) \in Nat \ {0} /\ DOMAIN s = 1..Len(s) /\ s[1] \in Nat /\ After(s) \in Nat
         /\ \A j \in 1..Len(s) : s[j] = s[1] + j - 1
<1>1. Len(s) \in Nat \ {0} /\ DOMAIN s = 1..Len(s)
  BY EmptySeq DEF Consecutive
<1>2. 1 \in 1..Len(s)
  BY <1>1
<1>3. s[1] \in Nat
  BY <1>1, <1>2 DEF Data
<1>4. \A j \in DOMAIN s : s[j] = s[1] + j - 1
  BY DEF Consecutive
<1> QED
  BY <1>1, <1>3, <1>4 DEF After

LEMMA RunFacts ==
  ASSUME NEW b \in Seq(Seq(Data)), NEW n \in Nat, NEW m \in Nat, Run(b, n, m), b # <<>>
  PROVE  /\ Len(b) \in Nat \ {0} /\ DOMAIN b = 1..Len(b)
         /\ \A k \in 1..Len(b) : b[k] \in Seq(Data) /\ Consecutive(b[k])
         /\ b[1] \in Seq(Data) /\ Consecutive(b[1])
         /\ b[1][1] = n + 1 /\ After(b[Len(b)]) = m + 1
         /\ \A k \in 1..Len(b) : k + 1 \in 1..Len(b) => b[k + 1][1] = After(b[k])
<1>1. Len(b) \in Nat \ {0} /\ DOMAIN b = 1..Len(b)
  BY EmptySeq
<1>2. \A k \in 1..Len(b) : b[k] \in Seq(Data)
  OBVIOUS
<1>3. 1 \in 1..Len(b)
  BY <1>1
<1> QED
  BY <1>1, <1>2, <1>3 DEF Run

(* What the first buffer holds. *)
LEMMA FirstHolds ==
  ASSUME NEW b \in Seq(Seq(Data)), NEW n \in Nat, NEW m \in Nat, Run(b, n, m), b # <<>>
  PROVE  /\ b[1] \in Seq(Data) /\ Len(b[1]) \in Nat \ {0} /\ After(b[1]) = n + Len(b[1]) + 1
         /\ \A j \in 1..Len(b[1]) : b[1][j] = n + j
<1> DEFINE s == b[1]
<1>1. s \in Seq(Data) /\ Consecutive(s) /\ s[1] = n + 1
  BY RunFacts
<1> HIDE DEF s
<1>2. Len(s) \in Nat \ {0} /\ \A j \in 1..Len(s) : s[j] = (n + 1) + j - 1
  BY <1>1, ConsecutiveFacts
<1>3. \A j \in 1..Len(s) : (n + 1) + j - 1 = n + j
  BY <1>2
<1>4. \A j \in 1..Len(s) : s[j] = n + j
  BY <1>2, <1>3
<1>5. After(s) = n + Len(s) + 1
  BY <1>1, <1>2 DEF After
<1> QED
  BY <1>1, <1>2, <1>4, <1>5 DEF s

(* 'data' adds a buffer. *)
LEMMA RunAppend ==
  ASSUME NEW b \in Seq(Seq(Data)), NEW n \in Nat, NEW m \in Nat, NEW k \in Nat, m < k, Run(b, n, m)
  PROVE  /\ Run(Append(b, [j \in 1..(k - m) |-> m + j]), n, k)
         /\ Append(b, [j \in 1..(k - m) |-> m + j]) \in Seq(Seq(Data))
<1> DEFINE new == [j \in 1..(k - m) |-> m + j]
           a   == Append(b, new)
<1>0. k - m \in Nat \ {0} /\ 1 \in 1..(k - m) /\ Len(b) \in Nat
  BY EmptySeq
<1>1. new \in Seq(Data) /\ Consecutive(new) /\ new[1] = m + 1 /\ After(new) = k + 1
  <2>1. \A j \in 1..(k - m) : m + j \in Data
    BY <1>0 DEF Data
  <2>2. new \in Seq(Data) /\ Len(new) = k - m
    BY <1>0, <2>1
  <2>3. DOMAIN new = 1..(k - m) /\ \A j \in 1..(k - m) : new[j] = m + j
    OBVIOUS
  <2>4. \A j \in 1..(k - m) : m + j = (m + 1) + j - 1
    BY <1>0
  <2>5. new # <<>>
    BY <1>0, <2>2
  <2> HIDE DEF new
  <2>6. new[1] = m + 1
    BY <1>0, <2>3
  <2>7. m + 1 + (k - m) = k + 1
    OBVIOUS
  <2> QED
    BY <2>2, <2>3, <2>4, <2>5, <2>6, <2>7 DEF Consecutive, After
<1> HIDE DEF new
<1>2. /\ a \in Seq(Seq(Data)) /\ Len(a) = Len(b) + 1 /\ DOMAIN a = 1..(Len(b) + 1)
      /\ (\A i \in 1..Len(b) : a[i] = b[i]) /\ a[Len(b) + 1] = new
  BY <1>0, <1>1
<1> HIDE DEF a
<1>3. DOMAIN b = 1..Len(b) /\ a # <<>>
  BY <1>0, <1>2
<1>4. \A i \in 1..(Len(b) + 1) : i \in 1..Len(b) \/ i = Len(b) + 1
  BY <1>0
<1>5. \A i \in DOMAIN a : Consecutive(a[i])
  BY <1>1, <1>2, <1>3, <1>4 DEF Run
<1>6. CASE b = <<>>
  <2>1. Len(b) = 0 /\ m = n
    BY <1>6 DEF Run
  <2>2. a[1] = new /\ Len(a) = 1 /\ DOMAIN a = {1}
    BY <1>2, <2>1
  <2>3. Run(a, n, k)
    BY <1>1, <1>3, <1>5, <2>1, <2>2 DEF Run
  <2> QED
    BY <1>2, <2>3 DEF a, new
<1>7. CASE b # <<>>
  <2>1. /\ Len(b) \in Nat \ {0} /\ b[1][1] = n + 1 /\ After(b[Len(b)]) = m + 1
        /\ \A i \in 1..Len(b) : i + 1 \in 1..Len(b) => b[i + 1][1] = After(b[i])
    BY <1>7, RunFacts
  <2>2. \A i \in DOMAIN a : i + 1 \in DOMAIN a => a[i + 1][1] = After(a[i])
    <3> SUFFICES ASSUME NEW i \in DOMAIN a, i + 1 \in DOMAIN a PROVE a[i + 1][1] = After(a[i])
      OBVIOUS
    <3>1. i \in 1..Len(b) /\ (i + 1 \in 1..Len(b) \/ (i = Len(b) /\ i + 1 = Len(b) + 1))
      BY <1>0, <1>2
    <3>2. CASE i + 1 \in 1..Len(b)
      BY <1>2, <2>1, <3>1, <3>2
    <3>3. CASE i = Len(b) /\ i + 1 = Len(b) + 1
      BY <1>1, <1>2, <2>1, <3>1, <3>3
    <3> QED
      BY <3>1, <3>2, <3>3
  <2>3. a[1] = b[1] /\ a[Len(a)] = new
    <3>1. 1 \in 1..Len(b)
      BY <2>1
    <3> QED
      BY <1>2, <3>1
  <2>4. Run(a, n, k)
    BY <1>1, <1>3, <1>5, <2>1, <2>2, <2>3 DEF Run
  <2> QED
    BY <1>2, <2>4 DEF a, new
<1> QED
  BY <1>6, <1>7

(* A read that takes the whole first buffer. *)
LEMMA RunTail ==
  ASSUME NEW b \in Seq(Seq(Data)), NEW n \in Nat, NEW m \in Nat, Run(b, n, m), b # <<>>
  PROVE  Run(Tail(b), n + Len(b[1]), m) /\ Tail(b) \in Seq(Seq(Data))
<1> DEFINE t == Tail(b)
           l == Len(b)
<1>0. /\ l \in Nat \ {0} /\ \A k \in 1..l : Consecutive(b[k])
      /\ b[1][1] = n + 1 /\ After(b[l]) = m + 1
      /\ \A k \in 1..l : k + 1 \in 1..l => b[k + 1][1] = After(b[k])
  BY RunFacts
<1>1. /\ t \in Seq(Seq(Data)) /\ Len(t) = l - 1 /\ DOMAIN t = 1..(l - 1)
      /\ \A k \in 1..(l - 1) : t[k] = b[k + 1]
  BY <1>0
<1>2. Len(b[1]) \in Nat /\ After(b[1]) = n + Len(b[1]) + 1
  BY FirstHolds
<1> HIDE DEF t, l
<1>3. t = <<>> <=> l - 1 = 0
  BY <1>1, EmptySeq
<1>4. \A k \in 1..(l - 1) : k \in 1..l /\ k + 1 \in 1..l
  BY <1>0
<1>5. \A k \in DOMAIN t : Consecutive(t[k])
  BY <1>0, <1>1, <1>4
<1>6. \A k \in DOMAIN t : k + 1 \in DOMAIN t => t[k + 1][1] = After(t[k])
  <2> SUFFICES ASSUME NEW k \in 1..(l - 1), k + 1 \in 1..(l - 1)
               PROVE  t[k + 1][1] = After(t[k])
    BY <1>1
  <2>1. t[k + 1] = b[k + 1 + 1] /\ t[k] = b[k + 1] /\ k + 1 \in 1..l /\ k + 1 + 1 \in 1..l
    BY <1>1, <1>4
  <2>2. b[k + 1 + 1][1] = After(b[k + 1])
    BY <1>0, <2>1
  <2> QED
    BY <2>1, <2>2
<1>7. CASE l = 1
  <2>1. t = <<>>
    BY <1>3, <1>7
  <2>2. n + Len(b[1]) + 1 = m + 1
    BY <1>0, <1>2, <1>7
  <2>3. \A x \in Nat : n + x + 1 = m + 1 => m = n + x
    OBVIOUS
  <2>4. m = n + Len(b[1])
    BY <1>2, <2>2, <2>3
  <2>5. Run(t, n + Len(b[1]), m)
    BY <1>5, <1>6, <2>1, <2>4 DEF Run
  <2> QED
    BY <1>1, <2>5 DEF t
<1>8. CASE l # 1
  <2>1. 1 \in 1..(l - 1) /\ l - 1 \in 1..(l - 1) /\ (l - 1) + 1 = l /\ 1 + 1 = 2 /\ 1 \in 1..l /\ 1 + 1 \in 1..l /\ l - 1 # 0
    BY <1>0, <1>8
  <2>2. t[1] = b[1 + 1] /\ t[l - 1] = b[(l - 1) + 1]
    BY <1>1, <2>1
  <2>3. t[1][1] = n + Len(b[1]) + 1
    BY <1>0, <1>2, <2>1, <2>2
  <2>4. After(t[Len(t)]) = m + 1
    BY <1>0, <1>1, <2>1, <2>2
  <2>5. Run(t, n + Len(b[1]), m)
    BY <1>3, <1>5, <1>6, <2>1, <2>3, <2>4 DEF Run
  <2> QED
    BY <1>1, <2>5 DEF t
<1> QED
  BY <1>7, <1>8

(* A read that cuts the first buffer after q data. *)
LEMMA RunCut ==
  ASSUME NEW b \in Seq(Seq(Data)), NEW n \in Nat, NEW m \in Nat, Run(b, n, m), b # <<>>,
         NEW q \in Nat, q < Len(b[1])
  PROVE  /\ Run(<<SubSeq(b[1], q + 1, Len(b[1]))>> \o Tail(b), n + q, m)
         /\ <<SubSeq(b[1], q + 1, Len(b[1]))>> \o Tail(b) \in Seq(Seq(Data))
<1> DEFINE s == b[1]
           f == SubSeq(s, q + 1, Len(s))
           t == Tail(b)
           c == <<f>> \o t
           l == Len(b)
<1>0. /\ l \in Nat \ {0} /\ \A k \in 1..l : Consecutive(b[k])
      /\ After(b[l]) = m + 1
      /\ \A k \in 1..l : k + 1 \in 1..l => b[k + 1][1] = After(b[k])
  BY RunFacts
<1>a. s \in Seq(Data) /\ Len(s) \in Nat /\ q < Len(s) /\ After(s) = n + Len(s) + 1 /\ \A j \in 1..Len(s) : s[j] = n + j
  BY FirstHolds
<1>2. /\ t \in Seq(Seq(Data)) /\ Len(t) = l - 1
      /\ \A k \in 1..(l - 1) : t[k] = b[k + 1]
  BY <1>0
<1>b. b[1] = s
  OBVIOUS
<1> HIDE DEF s, t, l
<1>1. f \in Seq(Data) /\ Len(f) = Len(s) - q /\ \A j \in 1..(Len(s) - q) : f[j] = s[q + j]
  <2>1. \A i \in (q + 1)..Len(s) : s[i] \in Data
    BY <1>a
  <2>2. /\ f \in Seq(Data)
        /\ Len(f) = IF q + 1 <= Len(s) THEN Len(s) - (q + 1) + 1 ELSE 0
        /\ \A i \in 1..(Len(s) - (q + 1) + 1) : f[i] = s[q + 1 + i - 1]
    BY <1>a, <2>1, SubSeqProperties
  <2>3. \A x, y \in Nat : x < y => /\ (IF x + 1 <= y THEN y - (x + 1) + 1 ELSE 0) = y - x
                                   /\ y - (x + 1) + 1 = y - x
                                   /\ \A i \in 1..(y - x) : x + 1 + i - 1 = x + i
    OBVIOUS
  <2> HIDE DEF f
  <2> QED
    BY <1>a, <2>2, <2>3
<1> HIDE DEF f
<1>3. /\ c \in Seq(Seq(Data)) /\ Len(c) = l /\ DOMAIN c = 1..l
      /\ c[1] = f /\ \A k \in 2..l : c[k] = b[k]
  <2> DEFINE o == <<f>>
  <2>1. o \in Seq(Seq(Data)) /\ Len(o) = 1 /\ o[1] = f /\ Len(t) \in Nat
    BY <1>1, <1>2
  <2>a. c = o \o t
    OBVIOUS
  <2> HIDE DEF o, c
  <2>2. /\ c \in Seq(Seq(Data)) /\ Len(c) = Len(o) + Len(t)
        /\ \A i \in 1..(Len(o) + Len(t)) : c[i] = IF i <= Len(o) THEN o[i] ELSE t[i - Len(o)]
    BY <1>2, <2>1, <2>a, ConcatProperties
  <2>3. Len(o) + Len(t) = l
    BY <1>0, <1>2, <2>1
  <2>4. \A i \in 1..l : c[i] = IF i <= 1 THEN o[i] ELSE t[i - 1]
    BY <2>1, <2>2, <2>3
  <2>5. 1 \in 1..l /\ \A k \in 2..l : k \in 1..l /\ ~(k <= 1) /\ k - 1 \in 1..(l - 1) /\ (k - 1) + 1 = k
    BY <1>0
  <2>6. c[1] = f /\ \A k \in 2..l : c[k] = t[k - 1]
    BY <2>1, <2>4, <2>5
  <2>7. \A k \in 2..l : c[k] = b[k]
    BY <1>2, <2>5, <2>6
  <2>8. DOMAIN c = 1..l
    BY <2>2, <2>3
  <2> QED
    BY <2>2, <2>3, <2>6, <2>7, <2>8
<1> HIDE DEF c
<1>4. Consecutive(f) /\ f[1] = n + q + 1 /\ After(f) = After(s)
  <2>1. Len(s) - q \in Nat \ {0} /\ 1 \in 1..(Len(s) - q) /\ \A j \in 1..(Len(s) - q) : q + j \in 1..Len(s)
    BY <1>a
  <2>2. \A j \in 1..(Len(s) - q) : f[j] = n + (q + j)
    BY <1>a, <1>1, <2>1
  <2>3. n + (q + 1) = n + q + 1 /\ \A j \in 1..(Len(s) - q) : n + (q + j) = (n + q + 1) + j - 1
    BY <2>1
  <2>4. f[1] = n + q + 1 /\ \A j \in 1..(Len(s) - q) : f[j] = f[1] + j - 1
    BY <2>1, <2>2, <2>3
  <2>5. DOMAIN f = 1..(Len(s) - q) /\ f # <<>>
    BY <1>1, <2>1
  <2>6. \A x \in Nat : (n + q + 1) + (x - q) = n + x + 1
    OBVIOUS
  <2>7. After(f) = After(s)
    BY <1>a, <1>1, <2>4, <2>6 DEF After
  <2> QED
    BY <2>4, <2>5, <2>7 DEF Consecutive
<1>6. \A k \in 1..l : k = 1 \/ k \in 2..l
  BY <1>0
<1>c. \A k \in 2..l : k \in 1..l
  BY <1>0
<1>7. \A k \in DOMAIN c : Consecutive(c[k])
  BY <1>0, <1>3, <1>4, <1>6, <1>c
<1>8. \A k \in 1..l : After(c[k]) = After(b[k])
  BY <1>3, <1>4, <1>6, <1>b
<1>9. \A k \in DOMAIN c : k + 1 \in DOMAIN c => c[k + 1][1] = After(c[k])
  <2> SUFFICES ASSUME NEW k \in 1..l, k + 1 \in 1..l PROVE c[k + 1][1] = After(c[k])
    BY <1>3
  <2>1. b[k + 1][1] = After(b[k])
    BY <1>0
  <2>2. k + 1 \in 2..l
    BY <1>0
  <2> QED
    BY <1>3, <1>8, <2>1, <2>2
<1>10. After(c[Len(c)]) = m + 1
  <2>1. l \in 1..l
    BY <1>0
  <2> QED
    BY <1>0, <1>3, <1>8, <2>1
<1>11. c # <<>> /\ c[1][1] = n + q + 1
  BY <1>0, <1>3, <1>4
<1>12. Run(c, n + q, m)
  BY <1>7, <1>9, <1>10, <1>11 DEF Run
<1> QED
  BY <1>3, <1>12 DEF c, f, t, s

----------------------------------------------------------------------------
(* Steps of the host and of the network: the thread does nothing. *)
LEMMA HostTypes ==
  ASSUME TypeOK, UNCHANGED sandboxVars, host' \in {"up", "gone"},
         _connections' \in Seq(SocketRec), Len(_connections') >= Len(_connections),
         net' \in [Conns -> NetRec], answer' \in Answers \/ answer' \in Answers'
  PROVE  TypeOK'
<1>0. UNCHANGED <<pc, cur, frame, handle>>
  BY DEF sandboxVars
<1>1. Len(_connections) \in Nat /\ Len(_connections') \in Nat
  BY Fields
<1>2. \A n \in Fds : n \in Fds'
  BY <1>1 DEF Fds, FirstFd
<1>3. \A h \in Handles : handle[h] \in HandleRec'
  <2>1. \A h \in Handles : handle[h] \in HandleRec
    BY TypeParts
  <2> QED
    BY <1>2, <2>1 DEF HandleRec
<1>4. handle' \in [Handles -> HandleRec']
  BY <1>0, <1>3, TypeParts
<1>5. answer' \in Answers'
  BY <1>2 DEF Answers
<1>6. ThreadTypes'
  BY <1>0, TypeParts DEF ThreadTypes
<1> QED
  BY <1>4, <1>5, <1>6, TypePartsNext

LEMMA RunEmpty == \A b, n : b = <<>> => Run(b, n, n)
<1>1. DOMAIN <<>> = {}
  OBVIOUS
<1> QED
  BY <1>1 DEF Run

(* A new socket is the last; the others keep all but their queue. *)
LEMMA SocketAdded ==
  ASSUME IInv, answer = NoAnswer, pc \in {"socket", "accept"},
         UNCHANGED <<sandboxVars, host, net>>,
         NEW kind \in {"new", "stream"}, NEW c \in Conns \cup {None},
         kind = "new" <=> c = None, kind = "new" <=> pc = "socket",
         c # None => net[c].seen = 0,
         NEW left \in Seq(SocketRec), Len(left) = Len(_connections),
         \A i \in DOMAIN _connections :
           /\ left[i].kind = _connections[i].kind /\ left[i].conn = _connections[i].conn
           /\ left[i].buffer = _connections[i].buffer /\ left[i].eof = _connections[i].eof,
         _connections' = Append(left, FakeSocket(kind, c)),
         answer' = Value(FirstFd + Len(_connections)),
         ConnInv'
  PROVE  IInv'
<1> DEFINE L == Len(_connections)
<1>0. UNCHANGED <<pc, cur, frame, handle, host, net>>
  BY DEF sandboxVars
<1>1. L \in Nat /\ DOMAIN _connections = 1..L
  BY Fields DEF IInv
<1>2. FakeSocket(kind, c) \in SocketRec
  BY DEF FakeSocket, SocketRec
<1>3. /\ _connections' \in Seq(SocketRec) /\ Len(_connections') = L + 1
      /\ DOMAIN _connections' = 1..(L + 1) /\ _connections'[L + 1] = FakeSocket(kind, c)
      /\ \A i \in 1..L : _connections'[i] = left[i]
  BY <1>1, <1>2, AppendProperties
<1>4. \A i \in 1..L :
           /\ _connections'[i].kind = _connections[i].kind /\ _connections'[i].conn = _connections[i].conn
           /\ _connections'[i].buffer = _connections[i].buffer /\ _connections'[i].eof = _connections[i].eof
  BY <1>1, <1>3
<1>5. /\ _connections'[L + 1].kind = kind /\ _connections'[L + 1].conn = c
      /\ _connections'[L + 1].buffer = <<>> /\ ~_connections'[L + 1].eof
  BY <1>3 DEF FakeSocket
<1>6. \A i \in 1..(L + 1) : i \in 1..L \/ i = L + 1
  BY <1>1
<1>s. \A i \in 1..L : i \in 1..(L + 1)
  BY <1>1
<1> HIDE DEF L
<1>7. LastFd' = FirstFd + L /\ FirstFd + L \in Fds' /\ FirstFd + (L + 1) - 1 = FirstFd + L
  BY <1>1, <1>3 DEF LastFd, Fds, FirstFd
<1>8. \A h \in Handles : handle[h].fd # FirstFd + L
  <2>1. \A h \in Handles : handle[h].fd \in Fds \cup {-1}
    BY Fields DEF IInv
  <2> QED
    BY <1>1, <2>1 DEF Fds, FirstFd, L
<1>9. TypeOK'
  <2>1. answer' \in Answers'
    BY <1>7 DEF Answers, L
  <2>2. Len(_connections') >= Len(_connections)
    BY <1>1, <1>3 DEF L
  <2>3. host' \in {"up", "gone"} /\ net' \in [Conns -> NetRec]
    BY <1>0, TypeParts DEF IInv, ThreadTypes
  <2> QED
    BY <1>3, <2>1, <2>2, <2>3, HostTypes DEF IInv
<1>10. HandleInv'
  BY <1>0 DEF IInv, HandleInv
<1>11. Fresh(kind)'
  <2>1. _connections' # <<>>
    BY <1>1, <1>3
  <2> QED
    BY <1>0, <1>3, <1>5, <1>7, <1>8, <2>1 DEF Fresh, L
<1>12. CallInv'
  BY <1>0, <1>11 DEF IInv, CallInv
<1>13. \A h \in Handles : handle[h].state \in {"open", "listening"} => Place(handle[h].fd) \in 1..L
  BY <1>1, InUse DEF IInv
<1>14. OwnInv'
  BY <1>0, <1>4, <1>13 DEF IInv, OwnInv
<1>15. SockInv'
  <2>1. \A i \in 1..L : /\ _connections[i].conn = None <=> _connections[i].kind \in {"new", "server"}
                        /\ _connections[i].kind \in {"new", "server"} => _connections[i].buffer = <<>> /\ ~_connections[i].eof
    BY <1>1 DEF IInv, SockInv
  <2> QED
    BY <1>3, <1>4, <1>5, <1>6, <2>1 DEF SockInv
<1>16. NetInv'
  <2>1. \A d \in Conns : (\A i \in 1..(L + 1) : _connections'[i].conn # d) => \A i \in 1..L : _connections[i].conn # d
    BY <1>4, <1>s
  <2>2. \A d \in Conns : /\ net[d].seen =< net[d].sent
                         /\ (\A i \in 1..L : _connections[i].conn # d) => net[d].seen = 0
    BY <1>1 DEF IInv, NetInv
  <2>3. \A i \in 1..L : _connections[i].eof =>
           net[_connections[i].conn].fin /\ net[_connections[i].conn].seen = net[_connections[i].conn].sent
    BY <1>1 DEF IInv, NetInv
  <2>4. \A i \in 1..(L + 1) : _connections'[i].eof =>
           net[_connections'[i].conn].fin /\ net[_connections'[i].conn].seen = net[_connections'[i].conn].sent
    BY <1>4, <1>5, <1>6, <2>3
  <2>5. \A d \in Conns : net'[d].state # "dialing"
    BY <1>0 DEF IInv, NetInv, Conns
  <2>6. \A d \in Conns : /\ net'[d].seen =< net'[d].sent
                         /\ (\A i \in DOMAIN _connections' : _connections'[i].conn # d) => net'[d].seen = 0
    BY <1>0, <1>3, <2>1, <2>2
  <2>7. \A i \in DOMAIN _connections' : _connections'[i].eof =>
           net'[_connections'[i].conn].fin /\ net'[_connections'[i].conn].seen = net'[_connections'[i].conn].sent
    BY <1>0, <1>3, <2>4
  <2>8. (\A d \in Clients : net'[d].state # "dialing") /\ \A d \in Arrivals : net'[d].state # "dialing"
    BY <2>5, HandleClasses
  <2> QED
    BY <2>6, <2>7, <2>8 DEF NetInv
<1>17. \A g : Coming(g) = 0 /\ Coming(g)' = 0
  BY <1>0, NothingComes
<1>18. \A i, n : Taken(i, n)' <=> Taken(i, n)
  BY <1>0, <1>17, TakenKept
<1>19. StreamInv'
  <2> SUFFICES ASSUME NEW i \in 1..(L + 1), NEW n \in Nat, Taken(i, n),
                      _connections'[i].kind = "stream" \/ \E h \in Handles : handle[h].state = "open" /\ handle[h].fd = FirstFd + i - 1
               PROVE  Run(_connections'[i].buffer, n, net[_connections'[i].conn].seen)
    BY <1>0, <1>3, <1>18 DEF StreamInv
  <2>1. CASE i \in 1..L
    BY <1>1, <1>4, <2>1 DEF IInv, StreamInv
  <2>2. CASE i = L + 1
    <3>1. \A h \in Handles : handle[h].fd # FirstFd + i - 1
      BY <1>7, <1>8, <2>2
    <3>2. n = 0 /\ kind = "stream"
      BY <1>5, <2>2, <3>1 DEF Taken
    <3>3. net[c].seen = 0
      BY <3>2
    <3> QED
      BY <1>5, <2>2, <3>2, <3>3, RunEmpty
  <2> QED
    BY <1>6, <2>1, <2>2
<1>20. DeliveredInv'
  BY <1>0 DEF IInv, DeliveredInv
<1>21. ServerInv'
  <2>1. \A i \in DOMAIN _connections' : _connections'[i].kind = "server" =>
            i \in DOMAIN _connections /\ _connections[i].kind = "server"
    BY <1>1, <1>3, <1>4, <1>5, <1>6
  <2> QED
    BY <1>0, <2>1, ServerKept DEF IInv
<1> QED
  BY <1>9, <1>10, <1>12, <1>14, <1>15, <1>16, <1>19, <1>20, <1>21 DEF IInv

(* socket: the new FakeSocket has no connection. *)
LEMMA SocketMade ==
  ASSUME IInv, handleSocket, handle[cur].family = AF_INET
  PROVE  IInv'
<1> DEFINE L == Len(_connections)
<1>0. /\ UNCHANGED <<sandboxVars, host, net>> /\ UNCHANGED <<pc, cur, frame, handle, host, net>>
      /\ answer = NoAnswer /\ pc = "socket"
      /\ _connections' = Append(_connections, FakeSocket("new", None))
      /\ answer' = Value(FirstFd + Len(_connections))
  BY DEF handleSocket, Asked, sandboxVars
<1>1. L \in Nat /\ DOMAIN _connections = 1..L /\ _connections \in Seq(SocketRec)
  BY Fields, TypeParts DEF IInv
<1>2. FakeSocket("new", None) \in SocketRec
  BY DEF FakeSocket, SocketRec
<1>3. /\ DOMAIN _connections' = 1..(L + 1) /\ _connections'[L + 1] = FakeSocket("new", None)
      /\ \A i \in 1..L : _connections'[i] = _connections[i]
  BY <1>0, <1>1, <1>2, AppendProperties
<1>4. /\ _connections'[L + 1].conn = None /\ _connections'[L + 1].sockets_to_accept = <<>>
  BY <1>3 DEF FakeSocket
<1> HIDE DEF L
<1>5. \A i \in 1..(L + 1) : i \in 1..L \/ i = L + 1
  BY <1>1
<1>6. \A d, p : \A i \in 1..(L + 1) : Waits(d, i, p)' => i \in 1..L /\ Waits(d, i, p)
  <2> SUFFICES ASSUME NEW d, NEW p, NEW i \in 1..(L + 1), Waits(d, i, p)'
               PROVE  i \in 1..L /\ Waits(d, i, p)
    OBVIOUS
  <2>1. /\ p \in DOMAIN _connections'[i].sockets_to_accept
        /\ _connections'[i].sockets_to_accept[p] = d
    BY DEF Waits
  <2>2. DOMAIN <<>> = {}
    OBVIOUS
  <2>3. i \in 1..L
    BY <1>4, <1>5, <2>1, <2>2
  <2> QED
    BY <1>3, <2>1, <2>3 DEF Waits
<1>7. None \notin Clients /\ None \notin Arrivals
  BY HandleClasses
<1>8. ConnInv'
  <2>1. /\ \A i, j \in 1..(L + 1) :
             _connections'[i].conn = _connections'[j].conn /\ _connections'[i].conn # None => i = j
        /\ \A i \in 1..(L + 1) : _connections'[i].conn \in Clients =>
             /\ handle'[_connections'[i].conn].state # "unused"
             /\ handle'[_connections'[i].conn].state = "opening" => i = Place(handle'[_connections'[i].conn].fd)
    BY <1>0, <1>1, <1>3, <1>4, <1>5, <1>7 DEF IInv, ConnInv
  <2>2. ASSUME NEW d \in Arrivals, NEW i \in 1..(L + 1), NEW j \in 1..(L + 1), NEW p \in Nat, NEW q \in Nat,
               Waits(d, i, p)', Waits(d, j, q)'
        PROVE  i = j /\ p = q
    <3>1. i \in 1..L /\ Waits(d, i, p) /\ j \in 1..L /\ Waits(d, j, q)
      BY <1>6, <2>2
    <3> QED
      BY <1>1, <3>1 DEF IInv, ConnInv
  <2>3. ASSUME NEW d \in Arrivals, NEW i \in 1..(L + 1), NEW j \in 1..(L + 1), NEW p \in Nat, Waits(d, i, p)'
        PROVE  _connections'[j].conn # d
    <3>1. i \in 1..L /\ Waits(d, i, p)
      BY <1>6, <2>3
    <3>2. \A k \in 1..L : _connections[k].conn # d
      BY <1>1, <3>1 DEF IInv, ConnInv
    <3> QED
      BY <1>3, <1>4, <1>5, <1>7, <3>2
  <2>4. ASSUME NEW d \in Arrivals, net'[d].state = "none", NEW i \in 1..(L + 1)
        PROVE  _connections'[i].conn # d /\ \A p \in Nat : ~Waits(d, i, p)'
    <3>1. \A k \in 1..L : _connections[k].conn # d /\ \A p \in Nat : ~Waits(d, k, p)
      BY <1>0, <1>1, <2>4 DEF IInv, ConnInv
    <3>2. \A p \in Nat : ~Waits(d, i, p)'
      BY <1>6, <3>1
    <3> QED
      BY <1>3, <1>4, <1>5, <1>7, <3>1, <3>2
  <2> QED
    BY <1>3, <2>1, <2>2, <2>3, <2>4 DEF ConnInv, Place
<1> QED
  BY <1>0, <1>1, <1>8, SocketAdded

LEMMA StepHandleSocket ==
  ASSUME IInv, handleSocket
  PROVE  IInv'
<1>1. CASE handle[cur].family = AF_INET
  BY <1>1, SocketMade
<1>2. CASE handle[cur].family # AF_INET
  <2>0. ThreadTypes /\ answer \in Answers
    BY TypeParts DEF IInv
  <2>1. /\ pc = "socket" /\ answer = NoAnswer /\ host' = "gone"
        /\ UNCHANGED <<pc, cur, frame, handle, answer, _connections, net>>
    BY <1>2 DEF handleSocket, Asked, sandboxVars
  <2>2. \A g : Coming(g) = 0 /\ Coming(g)' = 0
    BY <2>1, NothingComes
  <2>3. TypeOK'
    <3>1. ThreadTypes'
      BY <2>0, <2>1 DEF ThreadTypes
    <3> QED
      BY <2>0, <2>1, <3>1, QuietTypes DEF IInv
  <2>4. CallInv'
    BY <2>1 DEF IInv, CallInv
  <2> QED
    BY <2>1, <2>2, <2>3, <2>4, Quiet DEF IInv
<1> QED
  BY <1>1, <1>2

(* A connection waits once, and has no socket while it does. *)
LEMMA WaitsOnce ==
  ASSUME ConnInv, NEW c \in Arrivals, NEW i \in DOMAIN _connections, NEW p \in Nat, Waits(c, i, p)
  PROVE  /\ \A j \in DOMAIN _connections : \A q \in Nat : Waits(c, j, q) => j = i /\ q = p
         /\ \A j \in DOMAIN _connections : _connections[j].conn # c
BY DEF ConnInv

(* One socket changes. *)
LEMMA SocketSet ==
  ASSUME NEW r \in SocketRec, NEW k \in DOMAIN _connections, TypeOK
  PROVE  /\ [_connections EXCEPT ![k] = r] \in Seq(SocketRec)
         /\ Len([_connections EXCEPT ![k] = r]) = Len(_connections)
         /\ DOMAIN [_connections EXCEPT ![k] = r] = DOMAIN _connections
         /\ [_connections EXCEPT ![k] = r][k] = r
         /\ \A i \in DOMAIN _connections : i # k => [_connections EXCEPT ![k] = r][i] = _connections[i]
<1>1. _connections \in Seq(SocketRec) /\ k \in 1..Len(_connections) /\ DOMAIN _connections = 1..Len(_connections)
  BY TypeParts, Fields
<1> QED
  BY <1>1, ExceptSeq

(* accept: two connections leave the queue, and the first gets a socket. *)
LEMMA StepHandleAccept ==
  ASSUME IInv, handleAccept
  PROVE  IInv'
<1>a. CASE sock.sockets_to_accept = <<>>
  BY <1>a, HostOnlyAnswers
<1>b. CASE sock.sockets_to_accept # <<>>
  <2> DEFINE L    == Len(_connections)
             K    == Place(handle[cur].fd)
             w    == _connections[K].sockets_to_accept
             rest == SubSeq(w, 3, Len(w))
             left == [_connections EXCEPT ![K].sockets_to_accept = rest]
  <2>0. /\ UNCHANGED <<sandboxVars, host, net>> /\ UNCHANGED <<pc, cur, frame, handle, host, net>>
        /\ answer = NoAnswer /\ pc = "accept" /\ cur \in Handles /\ handle[cur].state = "listening"
        /\ answer' = Value(FirstFd + Len(_connections))
    BY <1>b DEF handleAccept, Asked, sandboxVars, IInv, CallInv, Methods
  <2>1. L \in Nat /\ DOMAIN _connections = 1..L /\ _connections \in Seq(SocketRec)
    BY Fields, TypeParts DEF IInv
  <2>2. K \in 1..L /\ K = Index /\ w = sock.sockets_to_accept
    BY <2>0, <2>1, InUse, IndexIs DEF IInv
  <2>3. w \in Seq(Arrivals) /\ w # <<>> /\ Len(w) \in Nat \ {0} /\ DOMAIN w = 1..Len(w) /\ w[1] \in Arrivals
    <3>1. w \in Seq(Arrivals) /\ w # <<>>
      BY <1>b, <2>1, <2>2, Fields DEF IInv
    <3>2. Len(w) \in Nat \ {0} /\ DOMAIN w = 1..Len(w)
      BY <3>1, EmptySeq
    <3>3. 1 \in 1..Len(w)
      BY <3>2
    <3> QED
      BY <3>1, <3>2, <3>3
  <2>4. _connections' = Append(left, FakeSocket("stream", w[1]))
    <3>1. Head(w) = w[1]
      BY <2>3
    <3>2. _connections' = Append([_connections EXCEPT ![Index].sockets_to_accept = SubSeq(@, 3, Len(@))],
                                FakeSocket("stream", Head(sock.sockets_to_accept)))
      BY <1>b DEF handleAccept
    <3> QED
      BY <2>2, <3>1, <3>2
  <2> HIDE DEF w
  <2>5. rest \in Seq(Arrivals) /\ \A p \in DOMAIN rest : p \in Nat /\ p + 2 \in DOMAIN w /\ rest[p] = w[p + 2]
    <3>1. \A i \in 3..Len(w) : w[i] \in Arrivals
      BY <2>3
    <3>2. /\ rest \in Seq(Arrivals) /\ Len(rest) = (IF 3 <= Len(w) THEN Len(w) - 3 + 1 ELSE 0)
          /\ \A i \in 1..(Len(w) - 3 + 1) : rest[i] = w[3 + i - 1]
      BY <2>3, <3>1, SubSeqProperties
    <3> HIDE DEF rest
    <3>3. DOMAIN rest = 1..Len(rest)
      BY <3>2
    <3>4. \A p \in 1..Len(rest) : p \in 1..(Len(w) - 3 + 1) /\ 3 + p - 1 = p + 2 /\ p + 2 \in 1..Len(w) /\ p \in Nat
      <4>1. \A a \in Nat : \A p \in 1..(IF 3 <= a THEN a - 3 + 1 ELSE 0) :
               p \in 1..(a - 3 + 1) /\ 3 + p - 1 = p + 2 /\ p + 2 \in 1..a /\ p \in Nat
        OBVIOUS
      <4> QED
        BY <2>3, <3>2, <4>1
    <3> QED
      BY <2>3, <3>2, <3>3, <3>4
  <2> HIDE DEF rest
  <2>6. /\ left \in Seq(SocketRec) /\ Len(left) = L /\ DOMAIN left = 1..L
        /\ left[K].sockets_to_accept = rest
        /\ \A i \in 1..L : i # K => left[i] = _connections[i]
        /\ \A i \in 1..L :
           /\ left[i].kind = _connections[i].kind /\ left[i].conn = _connections[i].conn
           /\ left[i].buffer = _connections[i].buffer /\ left[i].eof = _connections[i].eof
    <3> DEFINE r == [_connections[K] EXCEPT !.sockets_to_accept = rest]
    <3>1. _connections[K] \in SocketRec
      BY <2>1, <2>2
    <3>2. /\ r \in SocketRec /\ r.sockets_to_accept = rest /\ r.kind = _connections[K].kind
          /\ r.conn = _connections[K].conn /\ r.buffer = _connections[K].buffer /\ r.eof = _connections[K].eof
      BY <2>5, <3>1 DEF SocketRec
    <3>3. left = [_connections EXCEPT ![K] = r]
      OBVIOUS
    <3> HIDE DEF r, left, K
    <3>4. /\ left \in Seq(SocketRec) /\ Len(left) = Len(_connections) /\ DOMAIN left = DOMAIN _connections
          /\ left[K] = r /\ \A i \in DOMAIN _connections : i # K => left[i] = _connections[i]
      BY <2>1, <2>2, <3>2, <3>3, SocketSet DEF IInv
    <3> QED
      BY <2>1, <3>2, <3>4
  <2> HIDE DEF left, L, K
  <2>7. FakeSocket("stream", w[1]) \in SocketRec
    BY <2>3, HandleClasses DEF FakeSocket, SocketRec
  <2>8. /\ DOMAIN _connections' = 1..(L + 1) /\ _connections'[L + 1] = FakeSocket("stream", w[1])
        /\ \A i \in 1..L : _connections'[i] = left[i]
    <3>1. /\ Append(left, FakeSocket("stream", w[1])) \in Seq(SocketRec)
          /\ Len(Append(left, FakeSocket("stream", w[1]))) = Len(left) + 1
          /\ \A i \in 1..Len(left) : Append(left, FakeSocket("stream", w[1]))[i] = left[i]
          /\ Append(left, FakeSocket("stream", w[1]))[Len(left) + 1] = FakeSocket("stream", w[1])
      BY <2>6, <2>7, AppendProperties
    <3> QED
      BY <2>1, <2>4, <2>6, <3>1
  <2>9. _connections'[L + 1].conn = w[1] /\ _connections'[L + 1].sockets_to_accept = <<>>
    BY <2>8 DEF FakeSocket
  <2>10. \A i \in 1..(L + 1) : i \in 1..L \/ i = L + 1
    BY <2>1
  <2>11. Waits(w[1], K, 1)
    <3>1. 1 \in DOMAIN w
      BY <2>3
    <3> QED
      BY <3>1 DEF Waits, w
  <2>12. \A d, p : \A i \in 1..(L + 1) : Waits(d, i, p)' =>
            i \in 1..L /\ p \in Nat /\ \E q \in Nat : /\ Waits(d, i, q) /\ (i = K => q # 1)
                                       /\ q = (IF i = K THEN p + 2 ELSE p)
    <3> SUFFICES ASSUME NEW d, NEW p, NEW i \in 1..(L + 1), Waits(d, i, p)'
                 PROVE  i \in 1..L /\ p \in Nat /\ \E q \in Nat : /\ Waits(d, i, q) /\ (i = K => q # 1)
                                       /\ q = (IF i = K THEN p + 2 ELSE p)
      OBVIOUS
    <3>1. /\ p \in DOMAIN _connections'[i].sockets_to_accept
          /\ _connections'[i].sockets_to_accept[p] = d
      BY DEF Waits
    <3>2. DOMAIN <<>> = {}
      OBVIOUS
    <3>3. i \in 1..L
      BY <2>9, <2>10, <3>1, <3>2
    <3>4. CASE i = K
      <4>1. p \in DOMAIN rest /\ rest[p] = d
        BY <2>6, <2>8, <3>1, <3>3, <3>4
      <4>2. p \in Nat /\ p + 2 \in DOMAIN w /\ w[p + 2] = d
        BY <2>5, <4>1
      <4>3. Waits(d, i, p + 2)
        BY <3>4, <4>2 DEF Waits, w
      <4>4. p + 2 \in Nat /\ p + 2 # 1
        BY <4>2
      <4> QED
        BY <3>3, <3>4, <4>2, <4>3, <4>4
    <3>5. CASE i # K
      <4>1. Waits(d, i, p)
        BY <2>6, <2>8, <3>1, <3>3, <3>5 DEF Waits
      <4>2. p \in Nat
        <5>1. _connections[i].sockets_to_accept \in Seq(Arrivals)
          BY <2>1, <3>3, Fields DEF IInv
        <5>2. DOMAIN _connections[i].sockets_to_accept = 1..Len(_connections[i].sockets_to_accept)
          BY <5>1
        <5> QED
          BY <4>1, <5>1, <5>2 DEF Waits
      <4> QED
        BY <3>3, <3>5, <4>1, <4>2
    <3> QED
      BY <3>4, <3>5
  <2>13. \A i \in 1..L : _connections[i].conn # w[1]
    BY <2>1, <2>2, <2>3, <2>11 DEF IInv, ConnInv
  <2>14. \A i \in 1..L : _connections'[i].conn = _connections[i].conn
    BY <2>6, <2>8
  <2>15. ConnInv'
    <3>1. ASSUME NEW i \in 1..(L + 1), NEW j \in 1..(L + 1),
                 _connections'[i].conn = _connections'[j].conn, _connections'[i].conn # None
          PROVE  i = j
      BY <2>1, <2>9, <2>10, <2>13, <2>14, <3>1 DEF IInv, ConnInv
    <3>2. ASSUME NEW i \in 1..(L + 1), _connections'[i].conn \in Clients
          PROVE  /\ handle'[_connections'[i].conn].state # "unused"
                 /\ handle'[_connections'[i].conn].state = "opening" => i = Place(handle'[_connections'[i].conn].fd)
      <4>1. i \in 1..L
        BY <2>3, <2>9, <2>10, <3>2, HandleClasses
      <4> QED
        BY <2>0, <2>1, <2>14, <3>2, <4>1 DEF IInv, ConnInv
    <3>3. ASSUME NEW d \in Arrivals, NEW i \in 1..(L + 1), NEW j \in 1..(L + 1), NEW p \in Nat, NEW q \in Nat,
                 Waits(d, i, p)', Waits(d, j, q)'
          PROVE  i = j /\ p = q
      <4>1. PICK r \in Nat : i \in 1..L /\ Waits(d, i, r) /\ r = (IF i = K THEN p + 2 ELSE p)
        BY <2>12, <3>3
      <4>2. PICK s \in Nat : j \in 1..L /\ Waits(d, j, s) /\ s = (IF j = K THEN q + 2 ELSE q)
        BY <2>12, <3>3
      <4>3. i = j /\ r = s
        <5>1. ConnInv /\ i \in DOMAIN _connections /\ j \in DOMAIN _connections
          BY <2>1, <4>1, <4>2 DEF IInv
        <5> QED
          BY <4>1, <4>2, <5>1, WaitsOnce
      <4> QED
        BY <4>1, <4>2, <4>3
    <3>4. ASSUME NEW d \in Arrivals, NEW i \in 1..(L + 1), NEW j \in 1..(L + 1), NEW p \in Nat, Waits(d, i, p)'
          PROVE  _connections'[j].conn # d
      <4>1. PICK r \in Nat : i \in 1..L /\ Waits(d, i, r) /\ (i = K => r # 1)
        BY <2>12, <3>4
      <4>2. \A k \in 1..L : _connections[k].conn # d
        BY <2>1, <4>1 DEF IInv, ConnInv
      <4>3. d # w[1]
        <5>1. ConnInv /\ i \in DOMAIN _connections /\ K \in DOMAIN _connections
          BY <2>1, <2>2, <4>1 DEF IInv
        <5>2. SUFFICES ASSUME d = w[1] PROVE FALSE
          OBVIOUS
        <5>3. Waits(d, K, 1) /\ 1 \in Nat
          BY <2>11, <5>2
        <5> QED
          BY <4>1, <5>1, <5>3, WaitsOnce
      <4> QED
        BY <2>9, <2>10, <2>14, <4>2, <4>3
    <3>5. ASSUME NEW d \in Arrivals, net'[d].state = "none", NEW i \in 1..(L + 1)
          PROVE  _connections'[i].conn # d /\ \A p \in Nat : ~Waits(d, i, p)'
      <4>1. \A k \in 1..L : _connections[k].conn # d /\ \A p \in Nat : ~Waits(d, k, p)
        BY <2>0, <2>1, <3>5 DEF IInv, ConnInv
      <4>2. \A p \in Nat : ~Waits(d, i, p)'
        BY <2>12, <4>1
      <4>3. d # w[1]
        BY <2>2, <2>11, <4>1
      <4> QED
        BY <2>9, <2>10, <2>14, <4>1, <4>2, <4>3
    <3> QED
      BY <2>8, <3>1, <3>2, <3>3, <3>4, <3>5 DEF ConnInv, Place
  <2>16. net[w[1]].seen = 0 /\ w[1] \in Conns /\ w[1] # None
    <3>1. w[1] \in Conns /\ w[1] # None
      BY <2>3, HandleClasses
    <3> QED
      BY <2>1, <2>13, <3>1 DEF IInv, NetInv
  <2>17. Len(left) = Len(_connections)
    BY <2>6 DEF L
  <2>18. \A i \in DOMAIN _connections :
           /\ left[i].kind = _connections[i].kind /\ left[i].conn = _connections[i].conn
           /\ left[i].buffer = _connections[i].buffer /\ left[i].eof = _connections[i].eof
    BY <2>1, <2>6
  <2> QED
    BY <2>0, <2>4, <2>6, <2>15, <2>16, <2>17, <2>18, SocketAdded
<1> QED
  BY <1>a, <1>b

(* Handles in use have different sockets. *)
LEMMA OtherPlaces ==
  ASSUME TypeOK, HandleInv, NEW g \in Handles, NEW h \in Handles, g # h,
         handle[g].state \in {"opening", "open", "listening"},
         handle[h].state \in {"opening", "open", "listening"}
  PROVE  Place(handle[g].fd) # Place(handle[h].fd) /\ handle[g].fd # handle[h].fd
<1>1. /\ handle[g].fd \in Fds /\ handle[g].fd = FirstFd + Place(handle[g].fd) - 1
      /\ handle[h].fd \in Fds /\ handle[h].fd = FirstFd + Place(handle[h].fd) - 1
  BY InUse
<1>2. handle[g].fd # handle[h].fd
  BY <1>1, Places DEF HandleInv
<1> QED
  BY <1>1, <1>2

(* The host answers, or not, and changes the socket k to r, which keeps    *)
(* its queue.                                                              *)
LEMMA SocketChanged ==
  ASSUME IInv, UNCHANGED sandboxVars, UNCHANGED host,
         NEW k \in DOMAIN _connections, NEW r \in SocketRec,
         _connections' = [_connections EXCEPT ![k] = r],
         r.sockets_to_accept = _connections[k].sockets_to_accept,
         net' \in [Conns -> NetRec], answer' \in Answers,
         \A c \in Arrivals : net'[c].state = "none" <=> net[c].state = "none",
         r.kind = "server" => ServerUsed,
         r.conn = None <=> r.kind \in {"new", "server"},
         r.kind \in {"new", "server"} => r.buffer = <<>> /\ ~r.eof,
         \/ r.conn = _connections[k].conn
         \/ /\ r.conn \in Clients /\ \A i \in DOMAIN _connections : _connections[i].conn # r.conn
            /\ handle[r.conn].state = "opening" /\ k = Place(handle[r.conn].fd)
  PROVE  /\ TypeOK' /\ HandleInv' /\ SockInv' /\ ConnInv' /\ ServerInv'
         /\ UNCHANGED <<pc, cur, frame, handle>>
         /\ DOMAIN _connections' = DOMAIN _connections /\ _connections'[k] = r
         /\ \A i \in DOMAIN _connections : i # k => _connections'[i] = _connections[i]
<1>0. UNCHANGED <<pc, cur, frame, handle>>
  BY DEF sandboxVars
<1>1. /\ _connections' \in Seq(SocketRec) /\ Len(_connections') = Len(_connections)
      /\ DOMAIN _connections' = DOMAIN _connections /\ _connections'[k] = r
      /\ \A i \in DOMAIN _connections : i # k => _connections'[i] = _connections[i]
  BY SocketSet DEF IInv
<1>2. TypeOK'
  <2>1. Len(_connections') >= Len(_connections)
    BY <1>1, Fields DEF IInv
  <2>2. host' \in {"up", "gone"}
    BY TypeParts DEF IInv, ThreadTypes
  <2> QED
    BY <1>1, <2>1, <2>2, HostTypes DEF IInv
<1>3. HandleInv'
  BY <1>0 DEF IInv, HandleInv
<1>4. SockInv'
  <2>1. \A i \in DOMAIN _connections :
          /\ _connections'[i].conn = None <=> _connections'[i].kind \in {"new", "server"}
          /\ _connections'[i].kind \in {"new", "server"} => _connections'[i].buffer = <<>> /\ ~_connections'[i].eof
    BY <1>1 DEF IInv, SockInv
  <2> QED
    BY <1>1, <2>1 DEF SockInv
<1>5. ConnInv'
  <2>1. \A d, p : \A i \in DOMAIN _connections : Waits(d, i, p)' <=> Waits(d, i, p)
    BY <1>1 DEF Waits
  <2>2. \A i \in DOMAIN _connections : _connections'[i].conn \in Arrivals => _connections'[i].conn = _connections[i].conn
    BY <1>1, HandleClasses
  <2>3. \A i, j \in DOMAIN _connections :
       _connections'[i].conn = _connections'[j].conn /\ _connections'[i].conn # None => i = j
    BY <1>1 DEF IInv, ConnInv
  <2>4. \A i \in DOMAIN _connections : _connections'[i].conn \in Clients =>
       /\ handle[_connections'[i].conn].state # "unused"
       /\ handle[_connections'[i].conn].state = "opening" => i = Place(handle[_connections'[i].conn].fd)
    BY <1>1 DEF IInv, ConnInv
  <2>5. \A c \in Arrivals, i, j \in DOMAIN _connections, p, q \in Nat :
       Waits(c, i, p)' /\ Waits(c, j, q)' => i = j /\ p = q
    BY <2>1 DEF IInv, ConnInv
  <2>6. ASSUME NEW c \in Arrivals, NEW i \in DOMAIN _connections, NEW j \in DOMAIN _connections, NEW p \in Nat,
               Waits(c, i, p)'
        PROVE  _connections'[j].conn # c
    <3>1. Waits(c, i, p) /\ ConnInv
      BY <2>1, <2>6 DEF IInv
    <3>2. _connections[j].conn # c
      BY <3>1, WaitsOnce
    <3> QED
      BY <2>2, <3>2
  <2>7. ASSUME NEW c \in Arrivals, net'[c].state = "none", NEW i \in DOMAIN _connections
        PROVE  _connections'[i].conn # c /\ \A p \in Nat : ~Waits(c, i, p)'
    <3>1. _connections[i].conn # c /\ \A p \in Nat : ~Waits(c, i, p)
      BY <2>7 DEF IInv, ConnInv
    <3> QED
      BY <2>1, <2>2, <3>1
  <2> QED
    BY <1>0, <1>1, <2>3, <2>4, <2>5, <2>6, <2>7 DEF ConnInv, Place
<1>6. ServerInv'
  <2>1. ServerUsed' <=> ServerUsed
    BY <1>0 DEF ServerUsed
  <2>2. \A i \in DOMAIN _connections : _connections'[i].kind = "server" => ServerUsed
    BY <1>1 DEF IInv, ServerInv
  <2> QED
    BY <1>1, <2>1, <2>2 DEF IInv, ServerInv
<1> QED
  BY <1>0, <1>1, <1>2, <1>3, <1>4, <1>5, <1>6

(* connect: the socket gets the connection of its handle. *)
LEMMA StepHandleConnect ==
  ASSUME IInv, handleConnect
  PROVE  IInv'
<1> DEFINE K == Place(handle[cur].fd)
           r == [_connections[K] EXCEPT !.kind = "stream", !.conn = cur]
<1>0. /\ UNCHANGED <<sandboxVars, host, answer>> /\ pc = "connect" /\ answer = NoAnswer
      /\ cur \in Clients /\ cur \in Handles /\ handle[cur].state = "opening"
      /\ net' = [net EXCEPT ![cur].state = "dialing"]
      /\ _connections[K].kind = "new"
      /\ _connections' = [_connections EXCEPT ![K].kind = "stream", ![K].conn = cur]
  BY IndexIs DEF handleConnect, Asked, IInv, CallInv, Methods
<1>1. K \in DOMAIN _connections /\ handle[cur].fd = FirstFd + K - 1
  BY <1>0, InUse DEF IInv
<1>2. _connections' = [_connections EXCEPT ![K] = r]
  BY <1>0
<1>3. _connections[K] \in SocketRec /\ _connections[K].buffer = <<>> /\ ~_connections[K].eof /\ _connections[K].conn = None
  BY <1>0, <1>1, Fields DEF IInv, SockInv
<1>4. /\ r \in SocketRec /\ r.kind = "stream" /\ r.conn = cur /\ r.buffer = <<>> /\ ~r.eof
      /\ r.sockets_to_accept = _connections[K].sockets_to_accept
  BY <1>0, <1>3, HandleClasses DEF SocketRec
<1> HIDE DEF r, K
<1>5. /\ net' \in [Conns -> NetRec] /\ net'[cur].state = "dialing"
      /\ \A c \in Conns : /\ net'[c].seen = net[c].seen /\ net'[c].sent = net[c].sent /\ net'[c].fin = net[c].fin
                          /\ c # cur => net'[c].state = net[c].state
  <2>1. net \in [Conns -> NetRec] /\ cur \in Conns
    BY <1>0, TypeParts, HandleClasses DEF IInv
  <2> QED
    BY <1>0, <2>1 DEF NetRec
<1>6. \A i \in DOMAIN _connections : _connections[i].conn # cur
  <2>1. \A i \in DOMAIN _connections : _connections[i].conn = cur => i = K
    BY <1>0 DEF IInv, ConnInv, K
  <2> QED
    BY <1>0, <1>3, <2>1, HandleClasses
<1>7. /\ TypeOK' /\ HandleInv' /\ SockInv' /\ ConnInv' /\ ServerInv'
      /\ UNCHANGED <<pc, cur, frame, handle>>
      /\ DOMAIN _connections' = DOMAIN _connections /\ _connections'[K] = r
      /\ \A i \in DOMAIN _connections : i # K => _connections'[i] = _connections[i]
  <2>1. \A c \in Arrivals : net'[c].state = "none" <=> net[c].state = "none"
    BY <1>0, <1>5, HandleClasses
  <2>2. answer' \in Answers /\ UNCHANGED sandboxVars /\ UNCHANGED host
    BY <1>0, TypeParts DEF IInv
  <2>3. cur # None /\ handle[r.conn].state = "opening" /\ K = Place(handle[r.conn].fd)
    BY <1>0, <1>4, HandleClasses DEF K
  <2>4. r.conn \in Clients /\ \A i \in DOMAIN _connections : _connections[i].conn # r.conn
    BY <1>0, <1>4, <1>6
  <2>5. /\ r.kind # "server" /\ (r.conn = None <=> r.kind \in {"new", "server"}) /\ r \in SocketRec
        /\ r.kind \notin {"new", "server"} /\ r.sockets_to_accept = _connections[K].sockets_to_accept
    BY <1>4, <2>3
  <2> QED
    BY <1>1, <1>2, <1>5, <2>1, <2>2, <2>3, <2>4, <2>5, SocketChanged
<1>8. sock' = r
  BY <1>7, IndexIs DEF K, sock, Index, Place
<1>9. CallInv'
  BY <1>0, <1>4, <1>7, <1>8 DEF IInv, CallInv
<1>10. OwnInv'
  <2> SUFFICES ASSUME NEW h \in Handles
               PROVE  /\ handle[h].state = "open" => _connections'[Place(handle[h].fd)].kind = "stream"
                      /\ handle[h].state = "listening" => _connections'[Place(handle[h].fd)].kind = "server"
    BY <1>7 DEF OwnInv, Place
  <2>1. ASSUME handle[h].state \in {"open", "listening"}
        PROVE  Place(handle[h].fd) \in DOMAIN _connections /\ Place(handle[h].fd) # K
    BY <1>0, <2>1, InUse, OtherPlaces DEF IInv, K
  <2> QED
    BY <1>0, <1>7, <2>1 DEF IInv, OwnInv
<1>11. NetInv'
  <2>1. ASSUME NEW c \in Clients, net'[c].state = "dialing"
        PROVE  pc' = "connect" /\ cur' = c /\ answer' = NoAnswer /\ sock'.kind = "stream"
    <3>1. c = cur \/ net[c].state = "dialing"
      BY <1>5, <2>1, HandleClasses
    <3> QED
      BY <1>0, <1>4, <1>7, <1>8, <3>1 DEF IInv, NetInv
  <2>2. \A c \in Arrivals : net'[c].state # "dialing"
    BY <1>0, <1>5, HandleClasses DEF IInv, NetInv
  <2>3. ASSUME NEW c \in Conns
        PROVE  /\ net'[c].seen =< net'[c].sent
               /\ (\A i \in DOMAIN _connections' : _connections'[i].conn # c) => net'[c].seen = 0
    <3>1. (\A i \in DOMAIN _connections' : _connections'[i].conn # c) => \A i \in DOMAIN _connections : _connections[i].conn # c
      BY <1>3, <1>6, <1>7, HandleClasses
    <3> QED
      BY <1>5, <3>1 DEF IInv, NetInv
  <2>4. ASSUME NEW i \in DOMAIN _connections', _connections'[i].eof
        PROVE  net'[_connections'[i].conn].fin /\ net'[_connections'[i].conn].seen = net'[_connections'[i].conn].sent
    <3>1. i # K /\ _connections'[i] = _connections[i] /\ i \in DOMAIN _connections
      BY <1>4, <1>7, <2>4
    <3>2. _connections[i].conn \in Conns
      BY <2>4, <3>1, Fields DEF IInv, SockInv
    <3> QED
      BY <1>5, <2>4, <3>1, <3>2 DEF IInv, NetInv
  <2> QED
    BY <2>1, <2>2, <2>3, <2>4 DEF NetInv
<1>12. \A g : Coming(g) = 0 /\ Coming(g)' = 0
  BY <1>0, <1>7, NothingComes
<1>13. StreamInv'
  <2> SUFFICES ASSUME NEW i \in DOMAIN _connections, NEW n \in Nat, Taken(i, n)',
                      _connections'[i].kind = "stream" \/ \E h \in Handles : handle[h].state = "open" /\ handle[h].fd = FirstFd + i - 1
               PROVE  Run(_connections'[i].buffer, n, net'[_connections'[i].conn].seen)
    BY <1>7 DEF StreamInv
  <2>1. Taken(i, n)
    BY <1>7, <1>12, TakenKept
  <2>2. CASE i = K
    <3>1. \A h \in Handles : handle[h].fd = FirstFd + i - 1 => h = cur
      BY <1>0, <1>1, <2>2 DEF IInv, HandleInv
    <3>2. n = Len(handle[cur].delivered) + 0
      BY <1>0, <1>1, <1>12, <2>1, <2>2, <3>1 DEF Taken
    <3>3. n = 0
      BY <1>0, <3>2 DEF IInv, HandleInv
    <3>4. net'[cur].seen = 0
      <4>1. cur \in Conns
        BY <1>0, HandleClasses
      <4> QED
        BY <1>5, <1>6, <4>1 DEF IInv, NetInv
    <3> QED
      BY <1>4, <1>7, <2>2, <3>3, <3>4, RunEmpty
  <2>3. CASE i # K
    <3>1. _connections'[i] = _connections[i]
      BY <1>7, <2>3
    <3>2. Run(_connections[i].buffer, n, net[_connections[i].conn].seen)
      BY <2>1, <3>1 DEF IInv, StreamInv
    <3>3. _connections[i].conn \in Conns
      <4>1. _connections[i].kind \notin {"new", "server"}
        <5>1. CASE _connections[i].kind = "stream"
          BY <5>1
        <5>2. CASE _connections[i].kind # "stream"
          <6>1. PICK h \in Handles : handle[h].state = "open" /\ handle[h].fd = FirstFd + i - 1
            BY <3>1, <5>2
          <6>2. Place(handle[h].fd) = i
            BY <6>1, Places DEF IInv
          <6> QED
            BY <1>0, <6>1, <6>2 DEF IInv, OwnInv
        <5> QED
          BY <5>1, <5>2
      <4> QED
        BY <4>1, Fields DEF IInv, SockInv
    <3> QED
      BY <1>5, <3>1, <3>2, <3>3
  <2> QED
    BY <2>2, <2>3
<1>14. DeliveredInv'
  BY <1>0, <1>7 DEF IInv, DeliveredInv
<1> QED
  BY <1>7, <1>9, <1>10, <1>11, <1>13, <1>14 DEF IInv

(* bind: the socket becomes a server. *)
LEMMA StepHandleBind ==
  ASSUME IInv, handleBind
  PROVE  IInv'
<1> DEFINE K == Place(handle[cur].fd)
           r == [_connections[K] EXCEPT !.kind = "server"]
<1>0. /\ UNCHANGED <<sandboxVars, host, net>> /\ pc = "bind" /\ answer = NoAnswer
      /\ cur \in Servers /\ cur \in Handles /\ handle[cur].state = "opening"
      /\ answer' = Value(0) /\ _connections[K].kind = "new"
      /\ _connections' = [_connections EXCEPT ![K].kind = "server"]
  BY IndexIs DEF handleBind, Asked, IInv, CallInv, Methods
<1>1. K \in DOMAIN _connections /\ handle[cur].fd = FirstFd + K - 1
  BY <1>0, InUse DEF IInv
<1>2. _connections' = [_connections EXCEPT ![K] = r]
  BY <1>0
<1>3. _connections[K] \in SocketRec /\ _connections[K].buffer = <<>> /\ ~_connections[K].eof /\ _connections[K].conn = None
  BY <1>0, <1>1, Fields DEF IInv, SockInv
<1>4. /\ r \in SocketRec /\ r.kind = "server" /\ r.conn = None /\ r.buffer = <<>> /\ ~r.eof
      /\ r.sockets_to_accept = _connections[K].sockets_to_accept /\ r.eof = _connections[K].eof
  BY <1>0, <1>3, HandleClasses DEF SocketRec
<1> HIDE DEF r, K
<1>7. /\ TypeOK' /\ HandleInv' /\ SockInv' /\ ConnInv' /\ ServerInv'
      /\ UNCHANGED <<pc, cur, frame, handle>>
      /\ DOMAIN _connections' = DOMAIN _connections /\ _connections'[K] = r
      /\ \A i \in DOMAIN _connections : i # K => _connections'[i] = _connections[i]
  <2>1. \A c \in Arrivals : net'[c].state = "none" <=> net[c].state = "none"
    BY <1>0
  <2>2. answer' \in Answers /\ UNCHANGED sandboxVars /\ UNCHANGED host /\ net' \in [Conns -> NetRec]
    BY <1>0, TypeParts DEF IInv, Answers
  <2>3. ServerUsed
    BY <1>0 DEF ServerUsed
  <2>4. r.conn = _connections[K].conn
    BY <1>3, <1>4
  <2> QED
    BY <1>1, <1>2, <1>4, <2>1, <2>2, <2>3, <2>4, SocketChanged
<1>8. sock' = r
  BY <1>7, IndexIs DEF K, sock, Index, Place
<1>9. CallInv'
  BY <1>0, <1>4, <1>7, <1>8, AnswerKinds DEF IInv, CallInv
<1>10. OwnInv'
  <2> SUFFICES ASSUME NEW h \in Handles
               PROVE  /\ handle[h].state = "open" => _connections'[Place(handle[h].fd)].kind = "stream"
                      /\ handle[h].state = "listening" => _connections'[Place(handle[h].fd)].kind = "server"
    BY <1>7 DEF OwnInv, Place
  <2>1. ASSUME handle[h].state \in {"open", "listening"}
        PROVE  Place(handle[h].fd) \in DOMAIN _connections /\ Place(handle[h].fd) # K
    BY <1>0, <2>1, InUse, OtherPlaces DEF IInv, K
  <2> QED
    BY <1>0, <1>7, <2>1 DEF IInv, OwnInv
<1>a. \A i \in DOMAIN _connections : /\ _connections'[i].conn = _connections[i].conn /\ _connections'[i].eof = _connections[i].eof
                                     /\ _connections'[i].buffer = _connections[i].buffer
                                     /\ _connections'[i].kind = "stream" => _connections[i].kind = "stream"
  BY <1>3, <1>4, <1>7
<1>11. NetInv'
  <2>1. \A c \in Clients : net[c].state # "dialing"
    BY <1>0 DEF IInv, NetInv
  <2> QED
    BY <1>0, <1>7, <1>a, <2>1 DEF IInv, NetInv
<1>12. \A g : Coming(g) = 0 /\ Coming(g)' = 0
  BY <1>0, <1>7, NothingComes
<1>13. StreamInv'
  <2>1. \A i, n : Taken(i, n)' <=> Taken(i, n)
    BY <1>7, <1>12, TakenKept
  <2> QED
    BY <1>0, <1>7, <1>a, <2>1 DEF IInv, StreamInv
<1>14. DeliveredInv'
  BY <1>0, <1>7 DEF IInv, DeliveredInv
<1> QED
  BY <1>7, <1>9, <1>10, <1>11, <1>13, <1>14 DEF IInv

(* close: the socket is destroyed, or the host ends. *)
LEMMA StepHandleClose ==
  ASSUME IInv, handleClose
  PROVE  IInv'
<1> DEFINE K == Place(handle[cur].fd)
           r == [_connections[K] EXCEPT !.kind = "destroyed"]
<1>0. /\ UNCHANGED <<sandboxVars, net>> /\ UNCHANGED <<pc, cur, frame, handle>>
      /\ pc = "close" /\ answer = NoAnswer /\ sock = _connections[K]
      /\ cur \in Handles /\ handle[cur].state \in {"open", "listening"} /\ ~handle[cur].reading
  BY IndexIs DEF handleClose, Asked, IInv, CallInv, Methods, sandboxVars
<1>1. K \in DOMAIN _connections /\ handle[cur].fd = FirstFd + K - 1
  BY <1>0, InUse DEF IInv
<1>g. \A g : Coming(g) = 0 /\ Coming(g)' = 0
  BY <1>0, NothingComes
<1>t. \A i, n : Taken(i, n)' <=> Taken(i, n)
  BY <1>0, <1>g, TakenKept
<1>d. \A c \in Clients : net[c].state # "dialing"
  BY <1>0 DEF IInv, NetInv
<1>a. CASE sock.kind = "server"
  <2>1. host' = "gone" /\ UNCHANGED <<_connections, answer>>
    BY <1>a DEF handleClose
  <2>2. ServerUsed
    BY <1>0, <1>1, <1>a DEF IInv, ServerInv
  <2>3. TypeOK'
    <3>1. Len(_connections') >= Len(_connections)
      BY <2>1, Fields DEF IInv
    <3> QED
      BY <1>0, <2>1, <3>1, HostTypes, TypeParts DEF IInv
  <2>4. HandleInv'
    BY <1>0 DEF IInv, HandleInv
  <2>5. CallInv'
    BY <1>0, <2>1 DEF IInv, CallInv
  <2>6. OwnInv'
    BY <1>0, <2>1 DEF IInv, OwnInv
  <2>7. SockInv' /\ ConnInv'
    BY <1>0, <2>1, SockKept, ConnKept DEF IInv
  <2>8. NetInv'
    BY <1>0, <1>d, <2>1 DEF IInv, NetInv
  <2>9. StreamInv'
    BY <1>0, <1>t, <2>1 DEF IInv, StreamInv
  <2>10. DeliveredInv'
    BY <1>0, <2>1 DEF IInv, DeliveredInv
  <2>11. ServerInv'
    BY <1>0, <2>1, <2>2 DEF IInv, ServerInv, ServerUsed
  <2> QED
    BY <2>3, <2>4, <2>5, <2>6, <2>7, <2>8, <2>9, <2>10, <2>11 DEF IInv
<1>b. CASE sock.kind # "server"
  <2>0. /\ UNCHANGED host /\ answer' = Value(0)
        /\ _connections' = [_connections EXCEPT ![K].kind = "destroyed"]
    BY <1>b, IndexIs DEF handleClose
  <2>1. handle[cur].state = "open" /\ _connections[K].kind = "stream"
    BY <1>0, <1>b DEF IInv, OwnInv
  <2>2. _connections' = [_connections EXCEPT ![K] = r]
    BY <2>0
  <2>3. _connections[K] \in SocketRec /\ _connections[K].conn # None
    BY <1>1, <2>1, Fields DEF IInv, SockInv
  <2>4. /\ r \in SocketRec /\ r.kind = "destroyed" /\ r.conn = _connections[K].conn
        /\ r.buffer = _connections[K].buffer /\ r.eof = _connections[K].eof
        /\ r.sockets_to_accept = _connections[K].sockets_to_accept
    BY <2>3 DEF SocketRec
  <2> HIDE DEF r, K
  <2>5. /\ TypeOK' /\ HandleInv' /\ SockInv' /\ ConnInv' /\ ServerInv'
        /\ DOMAIN _connections' = DOMAIN _connections /\ _connections'[K] = r
        /\ \A i \in DOMAIN _connections : i # K => _connections'[i] = _connections[i]
    <3>1. \A c \in Arrivals : net'[c].state = "none" <=> net[c].state = "none"
      BY <1>0
    <3>2. answer' \in Answers /\ UNCHANGED sandboxVars /\ UNCHANGED host /\ net' \in [Conns -> NetRec]
      BY <1>0, <2>0, TypeParts DEF IInv, Answers
    <3> QED
      BY <1>1, <2>2, <2>3, <2>4, <3>1, <3>2, SocketChanged
  <2>6. sock' = r
    BY <1>0, <2>5, IndexIs DEF K, sock, Index, Place
  <2>7. CallInv'
    BY <1>0, <2>0, <2>1, <2>4, <2>6 DEF IInv, CallInv
  <2>8. OwnInv'
    <3> SUFFICES ASSUME NEW h \in Handles
                 PROVE  /\ handle[h].state = "open" => \/ _connections'[Place(handle[h].fd)].kind = "stream"
                                                       \/ h = cur /\ _connections'[Place(handle[h].fd)].kind = "destroyed"
                        /\ handle[h].state = "listening" => _connections'[Place(handle[h].fd)].kind = "server"
      BY <1>0, <2>0, AnswerKinds DEF OwnInv, Place
    <3>1. CASE h = cur
      BY <2>1, <2>4, <2>5, <3>1 DEF K
    <3>2. CASE h # cur
      <4>1. ASSUME handle[h].state \in {"open", "listening"}
            PROVE  Place(handle[h].fd) \in DOMAIN _connections /\ Place(handle[h].fd) # K
        BY <1>0, <3>2, <4>1, InUse, OtherPlaces DEF IInv, K
      <4> QED
        BY <1>0, <2>5, <3>2, <4>1 DEF IInv, OwnInv
    <3> QED
      BY <3>1, <3>2
  <2>9. \A i \in DOMAIN _connections : /\ _connections'[i].conn = _connections[i].conn /\ _connections'[i].eof = _connections[i].eof
                                       /\ _connections'[i].buffer = _connections[i].buffer
                                       /\ _connections'[i].kind = "stream" => _connections[i].kind = "stream"
    BY <2>4, <2>5
  <2>10. NetInv'
    BY <1>0, <1>d, <2>5, <2>9 DEF IInv, NetInv
  <2>11. StreamInv'
    BY <1>0, <1>t, <2>5, <2>9 DEF IInv, StreamInv
  <2>12. DeliveredInv'
    <3>1. \A h \in Handles : handle[h].state = "open" => Place(handle[h].fd) \in DOMAIN _connections
      BY InUse DEF IInv
    <3> QED
      BY <1>0, <2>9, <3>1 DEF IInv, DeliveredInv, Place
  <2> QED
    BY <2>5, <2>7, <2>8, <2>10, <2>11, <2>12 DEF IInv
<1> QED
  BY <1>a, <1>b

(* What a read takes from the first buffer, and what it leaves. *)
ReadData(b) == SubSeq(b[1], 1, IF Len(b[1]) > BufLen THEN BufLen ELSE Len(b[1]))
ReadRest(b) == IF Len(b[1]) > BufLen
                 THEN <<SubSeq(b[1], BufLen + 1, Len(b[1]))>> \o Tail(b) ELSE Tail(b)

LEMMA ReadTakes ==
  ASSUME NEW b \in Seq(Seq(Data)), NEW n \in Nat, NEW m \in Nat, Run(b, n, m), b # <<>>
  PROVE  /\ ReadData(b) \in Seq(Data) /\ Len(ReadData(b)) \in Nat
         /\ \A j \in DOMAIN ReadData(b) : ReadData(b)[j] = n + j
         /\ ReadRest(b) \in Seq(Seq(Data)) /\ Run(ReadRest(b), n + Len(ReadData(b)), m)
<1> DEFINE d == ReadData(b)
           rest == ReadRest(b)
           s == b[1]
           q == IF Len(s) > BufLen THEN BufLen ELSE Len(s)
<1>1. s \in Seq(Data) /\ Len(s) \in Nat \ {0} /\ \A j \in 1..Len(s) : s[j] = n + j
  BY FirstHolds
<1>2. BufLen \in Nat
  BY BridgeAssumption
<1>a. d = SubSeq(s, 1, q)
  BY DEF ReadData
<1>b. b[1] = s
  OBVIOUS
<1>c. rest = IF Len(b[1]) > BufLen
               THEN <<SubSeq(b[1], BufLen + 1, Len(b[1]))>> \o Tail(b) ELSE Tail(b)
  BY DEF ReadRest
<1> HIDE DEF s, d, rest
<1>3. q \in Nat /\ q =< Len(s) /\ (Len(s) > BufLen => q = BufLen /\ q < Len(s)) /\ (~(Len(s) > BufLen) => q = Len(s))
  BY <1>1, <1>2
<1> HIDE DEF q
<1>4. d \in Seq(Data) /\ Len(d) = q /\ DOMAIN d = 1..q /\ \A j \in 1..q : d[j] = s[j] /\ j \in 1..Len(s)
  <2>a. \A j \in 1..q : j \in 1..Len(s) /\ 1 + j - 1 = j
    BY <1>1, <1>3
  <2>b. \A j \in 1..Len(s) : s[j] \in Data
    BY <1>1
  <2>1. \A j \in 1..q : j \in 1..Len(s) /\ s[j] \in Data /\ 1 + j - 1 = j
    BY <2>a, <2>b
  <2>2. (IF 1 <= q THEN q - 1 + 1 ELSE 0) = q /\ q - 1 + 1 = q
    BY <1>3
  <2>3. /\ SubSeq(s, 1, q) \in Seq(Data) /\ Len(SubSeq(s, 1, q)) = (IF 1 <= q THEN q - 1 + 1 ELSE 0)
        /\ \A j \in 1..(q - 1 + 1) : SubSeq(s, 1, q)[j] = s[1 + j - 1]
    BY <1>3, <2>1, SubSeqProperties
  <2>4. d \in Seq(Data) /\ Len(d) = q /\ \A j \in 1..q : d[j] = s[j]
    BY <1>a, <2>1, <2>2, <2>3
  <2>5. DOMAIN d = 1..q
    BY <2>4
  <2> QED
    BY <2>1, <2>4, <2>5
<1>5. \A j \in DOMAIN d : d[j] = n + j
  BY <1>1, <1>4
<1>6. CASE Len(s) > BufLen
  <2>1. rest = <<SubSeq(b[1], q + 1, Len(b[1]))>> \o Tail(b) /\ q < Len(b[1]) /\ q \in Nat
    BY <1>3, <1>6, <1>b, <1>c
  <2>2. Run(rest, n + q, m) /\ rest \in Seq(Seq(Data))
    BY <2>1, RunCut
  <2> QED
    BY <1>3, <1>4, <1>5, <2>2 DEF d, rest
<1>7. CASE ~(Len(s) > BufLen)
  <2>1. rest = Tail(b) /\ q = Len(b[1])
    BY <1>3, <1>7, <1>b, <1>c
  <2>2. Run(rest, n + q, m) /\ rest \in Seq(Seq(Data))
    BY <2>1, RunTail
  <2> QED
    BY <1>3, <1>4, <1>5, <2>2 DEF d, rest
<1> QED
  BY <1>6, <1>7

(* read: data leaves the buffer and is on its way. *)
LEMMA StepHandleRead ==
  ASSUME IInv, handleRead
  PROVE  IInv'
<1>a. CASE sock.buffer = <<>>
  BY <1>a, HostOnlyAnswers
<1>b. CASE sock.buffer # <<>>
  <2> DEFINE K == Place(handle[cur].fd)
             b == _connections[K].buffer
             n0 == Len(handle[cur].delivered)
             m == net[_connections[K].conn].seen
             d == ReadData(b)
             rest == ReadRest(b)
             r == [_connections[K] EXCEPT !.buffer = rest]
  <2>0. /\ UNCHANGED <<sandboxVars, host, net>> /\ pc = "read" /\ answer = NoAnswer
        /\ cur \in Handles /\ handle[cur].state = "open" /\ b # <<>>
    BY <1>b, IndexIs DEF handleRead, Asked, IInv, CallInv, Methods
  <2>1. K \in DOMAIN _connections /\ handle[cur].fd = FirstFd + K - 1
    BY <2>0, InUse DEF IInv
  <2>2. /\ _connections[K].kind = "stream" /\ _connections[K] \in SocketRec /\ _connections[K].conn \in Conns
        /\ b \in Seq(Seq(Data)) /\ n0 \in Nat /\ m \in Nat
    <3>1. _connections[K].kind = "stream"
      BY <2>0 DEF IInv, OwnInv
    <3>2. _connections[K].conn \in Conns
      BY <2>1, <3>1, Fields DEF IInv, SockInv
    <3> QED
      BY <2>0, <2>1, <3>1, <3>2, Fields DEF IInv
  <2>3. \A g : Coming(g) = 0
    BY <2>0, NothingComes, AnswerKinds
  <2>4. Taken(K, n0)
    BY <2>0, <2>1, <2>2, <2>3 DEF Taken
  <2>5. Run(b, n0, m)
    BY <2>1, <2>2, <2>4 DEF IInv, StreamInv
  <2>6. answer' = Hex(d) /\ _connections' = [_connections EXCEPT ![K] = r]
    <3>1. Head(b) = b[1]
      BY <2>0, <2>2
    <3>2. /\ answer' = Hex(SubSeq(Head(b), 1, IF Len(Head(b)) > BufLen THEN BufLen ELSE Len(Head(b))))
          /\ _connections' = [_connections EXCEPT ![K].buffer =
                 IF Len(Head(b)) > BufLen
                   THEN <<SubSeq(Head(b), BufLen + 1, Len(Head(b)))>> \o Tail(@) ELSE Tail(@)]
      BY <1>b, IndexIs DEF handleRead
    <3> QED
      BY <3>1, <3>2 DEF ReadData, ReadRest
  <2> HIDE DEF b, n0, m
  <2>e. b \in Seq(Seq(Data)) /\ n0 \in Nat /\ m \in Nat /\ Run(b, n0, m) /\ b # <<>>
    BY <2>0, <2>2, <2>5
  <2>7. /\ d \in Seq(Data) /\ Len(d) \in Nat /\ \A j \in DOMAIN d : d[j] = n0 + j
        /\ rest \in Seq(Seq(Data)) /\ Run(rest, n0 + Len(d), m)
    BY <2>e, ReadTakes
  <2> HIDE DEF d, rest, K
  <2>8. /\ r \in SocketRec /\ r.kind = "stream" /\ r.conn = _connections[K].conn /\ r.buffer = rest
        /\ r.sockets_to_accept = _connections[K].sockets_to_accept /\ r.eof = _connections[K].eof
    BY <2>2, <2>7 DEF SocketRec
  <2> HIDE DEF r
  <2>9. /\ TypeOK' /\ HandleInv' /\ SockInv' /\ ConnInv' /\ ServerInv'
        /\ UNCHANGED <<pc, cur, frame, handle>>
        /\ DOMAIN _connections' = DOMAIN _connections /\ _connections'[K] = r
        /\ \A i \in DOMAIN _connections : i # K => _connections'[i] = _connections[i]
    <3>1. \A c \in Arrivals : net'[c].state = "none" <=> net[c].state = "none"
      BY <2>0
    <3>2. answer' \in Answers /\ UNCHANGED sandboxVars /\ UNCHANGED host /\ net' \in [Conns -> NetRec]
      BY <2>0, <2>6, <2>7, TypeParts DEF IInv, Answers, Hex
    <3>3. r.conn # None
      BY <2>2, <2>8, HandleClasses
    <3> QED
      BY <2>1, <2>6, <2>8, <3>1, <3>2, <3>3, SocketChanged
  <2>10. CallInv'
    BY <2>0, <2>9 DEF IInv, CallInv
  <2>11. \A i \in DOMAIN _connections : /\ _connections'[i].conn = _connections[i].conn /\ _connections'[i].eof = _connections[i].eof
                                        /\ _connections'[i].kind = _connections[i].kind
    BY <2>2, <2>8, <2>9
  <2>12. OwnInv'
    <3>1. \A h \in Handles : handle[h].state \in {"open", "listening"} => Place(handle[h].fd) \in DOMAIN _connections
      BY InUse DEF IInv
    <3> QED
      BY <2>0, <2>9, <2>11, <3>1 DEF IInv, OwnInv, Place
  <2>13. NetInv'
    <3>1. \A c \in Clients : net[c].state # "dialing"
      BY <2>0 DEF IInv, NetInv
    <3> QED
      BY <2>0, <2>9, <2>11, <3>1 DEF IInv, NetInv
  <2>14. \A g \in Handles : Coming(g)' = IF g = cur THEN Len(d) ELSE 0
    BY <2>0, <2>6, <2>9, AnswerKinds DEF Coming
  <2>15. StreamInv'
    <3> SUFFICES ASSUME NEW i \in DOMAIN _connections, NEW n \in Nat, Taken(i, n)',
                        _connections[i].kind = "stream" \/ \E h \in Handles : handle[h].state = "open" /\ handle[h].fd = FirstFd + i - 1
                 PROVE  Run(_connections'[i].buffer, n, net[_connections[i].conn].seen)
      BY <2>0, <2>9, <2>11 DEF StreamInv
    <3>1. CASE i = K
      <4>1. \A h \in Handles : handle[h].fd = FirstFd + i - 1 <=> h = cur
        <5>1. handle[cur].fd # -1
          BY <2>0 DEF IInv, HandleInv
        <5> QED
          BY <2>0, <2>1, <3>1, <5>1 DEF IInv, HandleInv
      <4>2. n = n0 + Len(d)
        BY <2>0, <2>9, <2>14, <4>1 DEF Taken, n0
      <4> QED
        BY <2>7, <2>8, <2>9, <3>1, <4>2 DEF m
    <3>2. CASE i # K
      <4>1. handle[cur].fd # FirstFd + i - 1
        BY <2>1, <3>2, Places DEF IInv, K
      <4>2. Taken(i, n)
        BY <2>3, <2>9, <2>14, <4>1 DEF Taken
      <4> QED
        BY <2>9, <3>2, <4>2 DEF IInv, StreamInv
    <3> QED
      BY <3>1, <3>2
  <2>16. DeliveredInv'
    <3>1. \A j \in DOMAIN answer'.data : answer'.data[j] = Len(handle'[cur'].delivered) + j
      BY <2>6, <2>7, <2>9, AnswerKinds DEF n0
    <3>2. answer' # Value(UV_EOF)
      BY <2>6, AnswerKinds
    <3>3. \A h \in Handles : ~(handle[h].eof /\ handle[h].state = "open")
      BY <2>0 DEF IInv, DeliveredInv
    <3> QED
      BY <2>9, <3>1, <3>2, <3>3 DEF IInv, DeliveredInv
  <2> QED
    BY <2>9, <2>10, <2>12, <2>13, <2>15, <2>16 DEF IInv
<1> QED
  BY <1>a, <1>b

LEMMA StepHost ==
  ASSUME IInv, handleCall
  PROVE  IInv'
BY StepHandleSocket, StepHandleConnect, StepHandleBind, StepHandleAccept, StepHandleRead,
   HostOnlyAnswers, StepHandleClose DEF handleCall

----------------------------------------------------------------------------
(* Steps of the network. *)

(* The network changes, and no socket does. *)
LEMMA NetOnly ==
  ASSUME IInv, UNCHANGED <<sandboxVars, _connections>>,
         net' \in [Conns -> NetRec], host' \in {"up", "gone"},
         \A c \in Conns :
           /\ net'[c].seen = net[c].seen /\ net'[c].seen =< net'[c].sent
           /\ net[c].fin /\ net[c].seen = net[c].sent => net'[c].fin /\ net'[c].sent = net[c].sent
           /\ net'[c].state = "none" <=> net[c].state = "none"
           /\ net'[c].state = "dialing" => net[c].state = "dialing" /\ answer' = answer,
         answer' = answer \/ (answer' = Value(0) /\ pc = "connect" /\ sock.kind = "stream")
  PROVE  IInv'
<1>0. UNCHANGED <<pc, cur, frame, handle, _connections, sock>>
  BY DEF sandboxVars, sock, Index
<1>1. TypeOK'
  <2>1. Len(_connections') >= Len(_connections) /\ _connections' \in Seq(SocketRec)
    BY <1>0, Fields, TypeParts DEF IInv
  <2>2. answer' \in Answers
    BY TypeParts DEF IInv, Answers
  <2> QED
    BY <1>0, <2>1, <2>2, HostTypes DEF IInv
<1>2. HandleInv'
  BY <1>0 DEF IInv, HandleInv
<1>3. CallInv'
  <2>1. CASE answer' = answer
    <3>1. \A k : Fresh(k)' <=> Fresh(k)
      BY <1>0, <2>1 DEF Fresh, LastFd
    <3> QED
      BY <1>0, <2>1, <3>1 DEF IInv, CallInv
  <2>2. CASE answer' = Value(0) /\ pc = "connect" /\ sock.kind = "stream"
    BY <1>0, <2>2 DEF IInv, CallInv
  <2> QED
    BY <2>1, <2>2
<1>4. OwnInv'
  BY <1>0 DEF IInv, OwnInv
<1>5. SockInv' /\ ConnInv'
  <2>1. \A c \in Arrivals : net'[c].state = "none" => net[c].state = "none"
    BY HandleClasses
  <2> QED
    BY <1>0, <2>1, SockKept, ConnKept DEF IInv
<1>6. NetInv'
  <2>1. ASSUME NEW c \in Clients, net'[c].state = "dialing"
        PROVE  pc' = "connect" /\ cur' = c /\ answer' = NoAnswer /\ sock'.kind = "stream"
    <3>1. net[c].state = "dialing" /\ answer' = answer
      BY <2>1, HandleClasses
    <3> QED
      BY <1>0, <3>1 DEF IInv, NetInv
  <2>2. \A c \in Arrivals : net'[c].state # "dialing"
    BY HandleClasses DEF IInv, NetInv
  <2>3. \A c \in Conns : (\A i \in DOMAIN _connections' : _connections'[i].conn # c) => net'[c].seen = 0
    BY <1>0 DEF IInv, NetInv
  <2>4. ASSUME NEW i \in DOMAIN _connections, _connections[i].eof
        PROVE  net'[_connections[i].conn].fin /\ net'[_connections[i].conn].seen = net'[_connections[i].conn].sent
    <3>1. _connections[i].conn \in Conns
      BY <2>4, Fields DEF IInv, SockInv
    <3> QED
      BY <2>4, <3>1 DEF IInv, NetInv
  <2> QED
    BY <1>0, <2>1, <2>2, <2>3, <2>4 DEF NetInv
<1>7. \A g \in Handles : Coming(g)' = Coming(g)
  BY <1>0 DEF Coming
<1>8. StreamInv'
  <2>1. \A i, n : Taken(i, n)' <=> Taken(i, n)
    BY <1>0, <1>7, TakenKept
  <2> SUFFICES ASSUME NEW i \in DOMAIN _connections, NEW n \in Nat, Taken(i, n),
                      _connections[i].kind = "stream" \/ \E h \in Handles : handle[h].state = "open" /\ handle[h].fd = FirstFd + i - 1
               PROVE  Run(_connections[i].buffer, n, net'[_connections[i].conn].seen)
    BY <1>0, <2>1 DEF StreamInv
  <2>2. _connections[i].kind \in {"stream", "destroyed"}
    <3>1. CASE _connections[i].kind = "stream"
      BY <3>1
    <3>2. CASE _connections[i].kind # "stream"
      <4>1. PICK h \in Handles : handle[h].state = "open" /\ handle[h].fd = FirstFd + i - 1
        BY <3>2
      <4>2. Place(handle[h].fd) = i
        BY <4>1, Places DEF IInv
      <4> QED
        BY <4>1, <4>2 DEF IInv, OwnInv
    <3> QED
      BY <3>1, <3>2
  <2>3. _connections[i].conn \in Conns
    BY <2>2, Fields DEF IInv, SockInv
  <2> QED
    BY <2>3 DEF IInv, StreamInv
<1>9. DeliveredInv'
  <2>1. pc = "read" => answer' = answer
    OBVIOUS
  <2> QED
    BY <1>0, <2>1 DEF IInv, DeliveredInv
<1>10. ServerInv'
  <2>1. ServerUsed' <=> ServerUsed
    BY <1>0 DEF ServerUsed
  <2>2. \A c \in Arrivals : net'[c].state # "none" => net[c].state # "none"
    BY HandleClasses
  <2> QED
    BY <1>0, <2>1, <2>2 DEF IInv, ServerInv
<1> QED
  BY <1>1, <1>2, <1>3, <1>4, <1>5, <1>6, <1>8, <1>9, <1>10 DEF IInv

LEMMA NetChanges ==
  ASSUME IInv,
         \/ \E c \in Clients : Establish(c) \/ Refuse(c)
         \/ \E c \in Conns : PeerSends(c) \/ PeerEnds(c) \/ Reset(c)
         \/ \E i \in DOMAIN _connections : ListenFails(i)
  PROVE  IInv'
<1>0. net \in [Conns -> NetRec] /\ host \in {"up", "gone"}
  BY TypeParts DEF IInv, ThreadTypes
<1>f. \A c \in Conns : /\ net[c] \in NetRec /\ net[c].seen \in Nat /\ net[c].sent \in Nat /\ net[c].seen =< net[c].sent
                       /\ net[c].fin \in BOOLEAN
  BY <1>0, Fields DEF IInv, NetInv
<1>1. ASSUME NEW c \in Clients, Establish(c) PROVE IInv'
  <2>0. c \in Conns
    BY HandleClasses
  <2>1. /\ UNCHANGED <<sandboxVars, _connections>> /\ host' = host /\ host = "up" /\ answer' = Value(0)
        /\ net[c].state = "dialing" /\ net' = [net EXCEPT ![c].state = "up"]
    BY <1>1 DEF Establish
  <2>2. /\ net' \in [Conns -> NetRec] /\ net'[c].state = "up"
        /\ \A d \in Conns : /\ net'[d].seen = net[d].seen /\ net'[d].sent = net[d].sent /\ net'[d].fin = net[d].fin
                            /\ d # c => net'[d].state = net[d].state
    BY <1>0, <2>0, <2>1 DEF NetRec
  <2>3. pc = "connect" /\ cur = c /\ sock.kind = "stream" /\ \A d \in Conns : d # c => net[d].state # "dialing"
    BY <2>1 DEF IInv, NetInv, Conns
  <2>4. \A d \in Conns : net'[d].state # "dialing" /\ (net'[d].state = "none" <=> net[d].state = "none")
    BY <2>1, <2>2, <2>3
  <2> QED
    BY <1>f, <2>1, <2>2, <2>3, <2>4, NetOnly
<1>2. ASSUME NEW c \in Clients, Refuse(c) PROVE IInv'
  <2>0. c \in Conns
    BY HandleClasses
  <2>1. /\ UNCHANGED <<sandboxVars, _connections>> /\ host' = host /\ host = "up" /\ answer' = answer
        /\ net[c].state = "dialing" /\ net' = [net EXCEPT ![c].state = "refused"]
    BY <1>2 DEF Refuse
  <2>2. /\ net' \in [Conns -> NetRec] /\ net'[c].state = "refused"
        /\ \A d \in Conns : /\ net'[d].seen = net[d].seen /\ net'[d].sent = net[d].sent /\ net'[d].fin = net[d].fin
                            /\ d # c => net'[d].state = net[d].state
    BY <1>0, <2>0, <2>1 DEF NetRec
  <2> QED
    BY <1>f, <2>1, <2>2, NetOnly
<1>3. ASSUME NEW c \in Conns, PeerSends(c) PROVE IInv'
  <2>1. /\ UNCHANGED <<sandboxVars, _connections>> /\ host' = host /\ answer' = answer
        /\ ~net[c].fin /\ net' = [net EXCEPT ![c].sent = @ + 1]
    BY <1>3 DEF PeerSends
  <2>2. /\ net' \in [Conns -> NetRec] /\ net'[c].sent = net[c].sent + 1 /\ net'[c].seen = net[c].seen
        /\ net'[c].state = net[c].state
        /\ \A d \in Conns : d # c => net'[d] = net[d]
    BY <1>0, <2>1 DEF NetRec
  <2>3. net'[c].seen =< net'[c].sent
    BY <1>f, <2>2
  <2>4. \A d \in Conns :
           /\ net'[d].seen = net[d].seen /\ net'[d].seen =< net'[d].sent
           /\ net[d].fin /\ net[d].seen = net[d].sent => net'[d].fin /\ net'[d].sent = net[d].sent
           /\ net'[d].state = "none" <=> net[d].state = "none"
           /\ net'[d].state = "dialing" => net[d].state = "dialing" /\ answer' = answer
    BY <1>f, <2>1, <2>2, <2>3
  <2>5. host' \in {"up", "gone"}
    BY <1>0, <2>1 DEF IInv, ServerInv
  <2> QED
    BY <2>1, <2>2, <2>4, <2>5, NetOnly
<1>4. ASSUME NEW c \in Conns, PeerEnds(c) PROVE IInv'
  <2>1. /\ UNCHANGED <<sandboxVars, _connections>> /\ host' = host /\ answer' = answer
        /\ net' = [net EXCEPT ![c].fin = TRUE]
    BY <1>4 DEF PeerEnds
  <2>2. /\ net' \in [Conns -> NetRec] /\ net'[c].fin
        /\ \A d \in Conns : /\ net'[d].seen = net[d].seen /\ net'[d].sent = net[d].sent
                            /\ net'[d].state = net[d].state /\ (d # c => net'[d].fin = net[d].fin)
    BY <1>0, <2>1 DEF NetRec
  <2>5. host' \in {"up", "gone"}
    BY <1>0, <2>1 DEF IInv, ServerInv
  <2> QED
    BY <1>f, <2>1, <2>2, <2>5, NetOnly
<1>5. ASSUME NEW c \in Conns, Reset(c) PROVE IInv'
  <2>1. /\ UNCHANGED <<sandboxVars, _connections>> /\ answer' = answer /\ net[c].state = "up"
        /\ net' = [net EXCEPT ![c].state = "reset"] /\ host' = IF c \in Clients THEN "up" ELSE "gone"
    BY <1>5 DEF Reset
  <2>2. /\ net' \in [Conns -> NetRec] /\ net'[c].state = "reset"
        /\ \A d \in Conns : /\ net'[d].seen = net[d].seen /\ net'[d].sent = net[d].sent /\ net'[d].fin = net[d].fin
                            /\ d # c => net'[d].state = net[d].state
    BY <1>0, <2>1 DEF NetRec
  <2>3. host' \in {"up", "gone"}
    <3>1. c \notin Clients => c \in Arrivals
      BY DEF Conns
    <3> QED
      BY <2>1, <3>1 DEF IInv, ServerInv
  <2> QED
    BY <1>f, <2>1, <2>2, <2>3, NetOnly
<1>6. ASSUME NEW i \in DOMAIN _connections, ListenFails(i) PROVE IInv'
  <2>1. /\ UNCHANGED <<sandboxVars, _connections>> /\ net' = net /\ answer' = answer
        /\ host' = "gone" /\ _connections[i].kind = "server"
    BY <1>6 DEF ListenFails
  <2>2. ServerUsed
    BY <2>1 DEF IInv, ServerInv
  <2> QED
    BY <1>0, <1>f, <2>1, <2>2, NetOnly
<1> QED
  BY <1>1, <1>2, <1>3, <1>4, <1>5, <1>6

(* A socket changes, and with it the network; kinds and connections stay. *)
LEMMA KindsKept ==
  ASSUME IInv, UNCHANGED <<sandboxVars, answer, host>>,
         NEW k \in DOMAIN _connections, NEW r \in SocketRec,
         _connections' = [_connections EXCEPT ![k] = r],
         r.kind = _connections[k].kind, r.conn = _connections[k].conn,
         net' \in [Conns -> NetRec]
  PROVE  /\ TypeOK' /\ HandleInv' /\ CallInv' /\ OwnInv'
         /\ UNCHANGED <<pc, cur, frame, handle, answer, host>>
         /\ DOMAIN _connections' = DOMAIN _connections /\ _connections'[k] = r
         /\ \A i \in DOMAIN _connections : i # k => _connections'[i] = _connections[i]
         /\ \A i \in DOMAIN _connections : _connections'[i].kind = _connections[i].kind /\ _connections'[i].conn = _connections[i].conn
         /\ pc \in {"connect", "bind", "close"} => sock'.kind = sock.kind /\ sock'.conn = sock.conn
         /\ \A i, n : Taken(i, n)' <=> Taken(i, n)
<1>0. UNCHANGED <<pc, cur, frame, handle, answer, host>>
  BY DEF sandboxVars
<1>1. /\ _connections' \in Seq(SocketRec) /\ Len(_connections') = Len(_connections)
      /\ DOMAIN _connections' = DOMAIN _connections /\ _connections'[k] = r
      /\ \A i \in DOMAIN _connections : i # k => _connections'[i] = _connections[i]
  BY SocketSet DEF IInv
<1>2. \A i \in DOMAIN _connections : _connections'[i].kind = _connections[i].kind /\ _connections'[i].conn = _connections[i].conn
  BY <1>1
<1>3. TypeOK'
  <2>1. Len(_connections') >= Len(_connections)
    BY <1>1, Fields DEF IInv
  <2>2. host' \in {"up", "gone"} /\ answer' \in Answers
    BY <1>0, TypeParts DEF IInv, ThreadTypes
  <2> QED
    BY <1>1, <2>1, <2>2, HostTypes DEF IInv
<1>4. HandleInv'
  BY <1>0 DEF IInv, HandleInv
<1>5. \A h \in Handles : handle[h].state \in {"opening", "open", "listening"} => Place(handle[h].fd) \in DOMAIN _connections
  BY InUse DEF IInv
<1>6. pc \in {"connect", "bind", "close"} => sock'.kind = sock.kind /\ sock'.conn = sock.conn
  <2>1. SUFFICES ASSUME pc \in {"connect", "bind", "close"} PROVE sock'.kind = sock.kind /\ sock'.conn = sock.conn
    OBVIOUS
  <2>2. cur \in Handles /\ handle[cur].state \in {"opening", "open", "listening"}
    BY <2>1 DEF IInv, CallInv, Methods
  <2>3. sock' = _connections'[Place(handle[cur].fd)]
    BY <1>0 DEF sock, Index, Place
  <2> QED
    BY <1>2, <1>5, <2>2, <2>3, IndexIs
<1>7. CallInv'
  <2>1. \A c : Fresh(c) => Fresh(c)'
    <3> SUFFICES ASSUME NEW c, Fresh(c) PROVE Fresh(c)'
      OBVIOUS
    <3>1. Len(_connections) \in Nat /\ DOMAIN _connections = 1..Len(_connections) /\ _connections \in Seq(SocketRec)
      BY Fields, TypeParts DEF IInv
    <3>2. Len(_connections) # 0
      BY <3>1 DEF Fresh
    <3>3. Len(_connections) \in DOMAIN _connections /\ _connections' # <<>>
      BY <1>1, <3>1, <3>2
    <3> QED
      BY <1>0, <1>1, <1>2, <3>3 DEF Fresh, LastFd
  <2> QED
    BY <1>0, <1>6, <2>1 DEF IInv, CallInv
<1>8. OwnInv'
  BY <1>0, <1>2, <1>5 DEF IInv, OwnInv, Place
<1>9. \A i, n : Taken(i, n)' <=> Taken(i, n)
  <2>1. \A g \in Handles : Coming(g)' = Coming(g)
    BY <1>0 DEF Coming
  <2> QED
    BY <1>0, <2>1, TakenKept
<1> QED
  BY <1>0, <1>1, <1>2, <1>3, <1>4, <1>6, <1>7, <1>8, <1>9

(* A socket of a connection that is not new: kinds, and what a handle has. *)
LEMMA HasConn ==
  ASSUME IInv, NEW i \in DOMAIN _connections,
         _connections[i].kind = "stream" \/ \E h \in Handles : handle[h].state = "open" /\ handle[h].fd = FirstFd + i - 1
  PROVE  _connections[i].conn \in Conns
<1>1. _connections[i].kind \in {"stream", "destroyed"}
  <2>1. CASE _connections[i].kind = "stream"
    BY <2>1
  <2>2. CASE _connections[i].kind # "stream"
    <3>1. PICK h \in Handles : handle[h].state = "open" /\ handle[h].fd = FirstFd + i - 1
      BY <2>2
    <3>2. Place(handle[h].fd) = i
      BY <3>1, Places DEF IInv
    <3> QED
      BY <3>1, <3>2 DEF IInv, OwnInv
  <2> QED
    BY <2>1, <2>2
<1> QED
  BY <1>1, Fields DEF IInv, SockInv

(* 'data': the buffer grows by what had not been seen. *)
LEMMA StepData ==
  ASSUME IInv, NEW i \in DOMAIN _connections, NEW k \in 1..MaxData, DataEvent(i, k)
  PROVE  IInv'
<1> DEFINE c == _connections[i].conn
           m == net[c].seen
           b == _connections[i].buffer
           new == Append(b, [j \in 1..(k - m) |-> m + j])
           r == [_connections[i] EXCEPT !.buffer = new]
<1>0. /\ UNCHANGED <<sandboxVars, answer, host>> /\ _connections[i].kind = "stream"
      /\ net[c].state = "up" /\ m < k /\ k =< net[c].sent
      /\ _connections' = [_connections EXCEPT ![i].buffer = Append(@, [j \in 1..(k - m) |-> m + j])]
      /\ net' = [net EXCEPT ![c].seen = k]
  BY DEF DataEvent
<1>1. _connections' = [_connections EXCEPT ![i] = r]
  BY <1>0
<1>2. /\ c \in Conns /\ b \in Seq(Seq(Data)) /\ m \in Nat /\ k \in Nat /\ _connections[i] \in SocketRec
  <2>1. c \in Conns
    BY <1>0, HasConn
  <2> QED
    BY <2>1, Fields, BridgeAssumption DEF IInv
<1> HIDE DEF m, b, c
<1>3. new \in Seq(Seq(Data)) /\ \A n \in Nat : Run(b, n, m) => Run(new, n, k)
  <2>1. \A n \in Nat : Run(b, n, m) => Run(new, n, k)
    BY <1>0, <1>2, RunAppend
  <2>2. [j \in 1..(k - m) |-> m + j] \in Seq(Data)
    <3>1. k - m \in Nat /\ \A j \in 1..(k - m) : m + j \in Data
      BY <1>0, <1>2 DEF Data
    <3> QED
      BY <3>1
  <2> QED
    BY <1>2, <2>1, <2>2
<1> HIDE DEF new
<1>4. /\ r \in SocketRec /\ r.kind = "stream" /\ r.conn = c /\ r.buffer = new
      /\ r.sockets_to_accept = _connections[i].sockets_to_accept /\ r.eof = _connections[i].eof
  BY <1>0, <1>2, <1>3 DEF SocketRec, c
<1> HIDE DEF r
<1>5. /\ net' \in [Conns -> NetRec] /\ net'[c].seen = k
      /\ \A d \in Conns : /\ net'[d].state = net[d].state /\ net'[d].sent = net[d].sent /\ net'[d].fin = net[d].fin
                          /\ d # c => net'[d].seen = net[d].seen
  <2>1. net \in [Conns -> NetRec]
    BY TypeParts DEF IInv
  <2> QED
    BY <1>0, <1>2, <2>1 DEF NetRec
<1>6. /\ TypeOK' /\ HandleInv' /\ CallInv' /\ OwnInv'
      /\ UNCHANGED <<pc, cur, frame, handle, answer, host>>
      /\ DOMAIN _connections' = DOMAIN _connections /\ _connections'[i] = r
      /\ \A j \in DOMAIN _connections : j # i => _connections'[j] = _connections[j]
      /\ \A j \in DOMAIN _connections : _connections'[j].kind = _connections[j].kind /\ _connections'[j].conn = _connections[j].conn
      /\ pc \in {"connect", "bind", "close"} => sock'.kind = sock.kind /\ sock'.conn = sock.conn
      /\ \A j, n : Taken(j, n)' <=> Taken(j, n)
  BY <1>0, <1>1, <1>4, <1>5, KindsKept DEF c
<1>7. SockInv' /\ ConnInv' /\ ServerInv'
  <2>1. \A d \in Arrivals : net'[d].state = "none" <=> net[d].state = "none"
    BY <1>5, HandleClasses
  <2>2. answer' \in Answers /\ UNCHANGED sandboxVars /\ UNCHANGED host
    BY <1>0, TypeParts DEF IInv
  <2>3. r.conn # None /\ r.conn = _connections[i].conn
    BY <1>2, <1>4, HandleClasses DEF c
  <2> QED
    BY <1>1, <1>4, <1>5, <2>1, <2>2, <2>3, SocketChanged
<1>8. ~_connections[i].eof /\ \A j \in DOMAIN _connections : j # i => _connections[j].conn # c
  <2>1. _connections[i].eof => net[c].seen = net[c].sent
    BY DEF IInv, NetInv, c
  <2>2. net[c].sent \in Nat
    BY <1>2, Fields DEF IInv
  <2>3. net[c].seen # net[c].sent
    BY <1>0, <1>2, <2>2 DEF m
  <2>4. c # None
    BY <1>2, HandleClasses
  <2> QED
    BY <2>1, <2>3, <2>4 DEF IInv, ConnInv, c
<1>9. NetInv'
  <2>1. ASSUME NEW d \in Clients, net'[d].state = "dialing"
        PROVE  pc' = "connect" /\ cur' = d /\ answer' = NoAnswer /\ sock'.kind = "stream"
    <3>1. net[d].state = "dialing"
      BY <1>5, <2>1, HandleClasses
    <3> QED
      BY <1>6, <3>1 DEF IInv, NetInv
  <2>2. \A d \in Arrivals : net'[d].state # "dialing"
    BY <1>5, HandleClasses DEF IInv, NetInv
  <2>3. ASSUME NEW d \in Conns
        PROVE  /\ net'[d].seen =< net'[d].sent
               /\ (\A j \in DOMAIN _connections' : _connections'[j].conn # d) => net'[d].seen = 0
    <3>1. CASE d = c
      <4>1. net'[d].seen =< net'[d].sent
        BY <1>0, <1>2, <1>5, <3>1
      <4>2. ~(\A j \in DOMAIN _connections' : _connections'[j].conn # d)
        BY <1>4, <1>6, <3>1
      <4> QED
        BY <4>1, <4>2
    <3>2. CASE d # c
      BY <1>5, <1>6, <3>2 DEF IInv, NetInv
    <3> QED
      BY <3>1, <3>2
  <2>4. ASSUME NEW j \in DOMAIN _connections', _connections'[j].eof
        PROVE  net'[_connections'[j].conn].fin /\ net'[_connections'[j].conn].seen = net'[_connections'[j].conn].sent
    <3>1. j # i /\ _connections'[j] = _connections[j] /\ j \in DOMAIN _connections
      BY <1>4, <1>6, <1>8, <2>4
    <3>2. _connections[j].conn \in Conns /\ _connections[j].conn # c
      BY <1>8, <2>4, <3>1, Fields DEF IInv, SockInv
    <3> QED
      BY <1>5, <2>4, <3>1, <3>2 DEF IInv, NetInv
  <2> QED
    BY <2>1, <2>2, <2>3, <2>4 DEF NetInv
<1>10. StreamInv'
  <2> SUFFICES ASSUME NEW j \in DOMAIN _connections, NEW n \in Nat, Taken(j, n),
                      _connections[j].kind = "stream" \/ \E h \in Handles : handle[h].state = "open" /\ handle[h].fd = FirstFd + j - 1
               PROVE  Run(_connections'[j].buffer, n, net'[_connections[j].conn].seen)
    BY <1>6 DEF StreamInv
  <2>1. Run(_connections[j].buffer, n, net[_connections[j].conn].seen)
    BY DEF IInv, StreamInv
  <2>2. CASE j = i
    BY <1>3, <1>4, <1>5, <1>6, <2>1, <2>2 DEF b, m, c
  <2>3. CASE j # i
    <3>1. _connections[j].conn \in Conns /\ _connections[j].conn # c
      BY <1>8, <2>3, HasConn
    <3> QED
      BY <1>5, <1>6, <2>1, <2>3, <3>1
  <2> QED
    BY <2>2, <2>3
<1>11. DeliveredInv'
  <2>1. \A h \in Handles : handle[h].state = "open" => Place(handle[h].fd) \in DOMAIN _connections
    BY InUse DEF IInv
  <2>2. \A j \in DOMAIN _connections : _connections[j].eof => j # i /\ _connections'[j] = _connections[j]
    BY <1>6, <1>8
  <2>3. (pc = "read" /\ answer = Value(UV_EOF)) => sock'.eof /\ sock'.buffer = <<>>
    <3> SUFFICES ASSUME pc = "read", answer = Value(UV_EOF) PROVE sock'.eof /\ sock'.buffer = <<>>
      OBVIOUS
    <3>1. cur \in Handles /\ handle[cur].state = "open"
      BY DEF IInv, CallInv, Methods
    <3>2. Place(handle[cur].fd) \in DOMAIN _connections /\ sock' = _connections'[Place(handle[cur].fd)]
      BY <1>6, <2>1, <3>1 DEF sock, Index, Place
    <3>3. sock.eof /\ sock.buffer = <<>>
      BY DEF IInv, DeliveredInv
    <3> QED
      BY <2>2, <3>2, <3>3, IndexIs
  <2>4. \A h \in Handles : handle[h].eof /\ handle[h].state = "open" =>
       /\ pc = "aborted" \/ (pc = "close" /\ cur = h)
       /\ _connections'[Place(handle[h].fd)].eof /\ _connections'[Place(handle[h].fd)].buffer = <<>>
    BY <2>1, <2>2 DEF IInv, DeliveredInv
  <2>5. /\ \A h \in Handles : \A j \in DOMAIN handle[h].delivered : handle[h].delivered[j] = j
        /\ pc = "read" /\ answer.kind = "hex" =>
              \A j \in DOMAIN answer.data : answer.data[j] = Len(handle[cur].delivered) + j
    BY DEF IInv, DeliveredInv
  <2> QED
    BY <1>6, <2>3, <2>4, <2>5 DEF DeliveredInv, Place
<1> QED
  BY <1>6, <1>7, <1>9, <1>10, <1>11 DEF IInv

(* 'end': after all the data was seen. *)
LEMMA StepEnd ==
  ASSUME IInv, NEW i \in DOMAIN _connections, EndEvent(i)
  PROVE  IInv'
<1> DEFINE c == _connections[i].conn
           r == [_connections[i] EXCEPT !.eof = TRUE]
<1>0. /\ UNCHANGED <<sandboxVars, answer, host>> /\ net' = net /\ _connections[i].kind = "stream"
      /\ net[c].fin /\ net[c].seen = net[c].sent
      /\ _connections' = [_connections EXCEPT ![i] = r]
  BY DEF EndEvent
<1>1. c \in Conns /\ _connections[i] \in SocketRec /\ net' \in [Conns -> NetRec]
  BY <1>0, HasConn, Fields, TypeParts DEF IInv
<1>2. /\ r \in SocketRec /\ r.kind = "stream" /\ r.conn = c /\ r.buffer = _connections[i].buffer
      /\ r.sockets_to_accept = _connections[i].sockets_to_accept /\ r.eof
  BY <1>0, <1>1 DEF SocketRec
<1> HIDE DEF r
<1>3. /\ TypeOK' /\ HandleInv' /\ CallInv' /\ OwnInv'
      /\ UNCHANGED <<pc, cur, frame, handle, answer, host>>
      /\ DOMAIN _connections' = DOMAIN _connections /\ _connections'[i] = r
      /\ \A j \in DOMAIN _connections : j # i => _connections'[j] = _connections[j]
      /\ \A j \in DOMAIN _connections : _connections'[j].kind = _connections[j].kind /\ _connections'[j].conn = _connections[j].conn
      /\ pc \in {"connect", "bind", "close"} => sock'.kind = sock.kind /\ sock'.conn = sock.conn
      /\ \A j, n : Taken(j, n)' <=> Taken(j, n)
  BY <1>0, <1>1, <1>2, KindsKept
<1>4. SockInv' /\ ConnInv' /\ ServerInv'
  <2>1. answer' \in Answers /\ UNCHANGED sandboxVars /\ UNCHANGED host
    BY <1>0, TypeParts DEF IInv
  <2>2. r.conn # None
    BY <1>1, <1>2, HandleClasses
  <2> QED
    BY <1>0, <1>1, <1>2, <2>1, <2>2, SocketChanged
<1>5. \A j \in DOMAIN _connections : /\ _connections'[j].buffer = _connections[j].buffer
                                     /\ _connections[j].eof => _connections'[j].eof
                                     /\ _connections'[j].eof => _connections[j].eof \/ j = i
  BY <1>2, <1>3
<1>6. NetInv'
  <2>1. \A d \in Clients : net[d].state = "dialing" =>
          pc' = "connect" /\ cur' = d /\ answer' = NoAnswer /\ sock'.kind = "stream"
    BY <1>3 DEF IInv, NetInv
  <2>2. \A j \in DOMAIN _connections : _connections'[j].eof =>
          net[_connections[j].conn].fin /\ net[_connections[j].conn].seen = net[_connections[j].conn].sent
    BY <1>0, <1>5 DEF IInv, NetInv
  <2> QED
    BY <1>0, <1>3, <2>1, <2>2 DEF IInv, NetInv
<1>7. StreamInv'
  BY <1>0, <1>3, <1>5 DEF IInv, StreamInv
<1>8. DeliveredInv'
  <2>1. \A h \in Handles : handle[h].state = "open" => Place(handle[h].fd) \in DOMAIN _connections
    BY InUse DEF IInv
  <2>2. (pc = "read" /\ answer = Value(UV_EOF)) => sock'.eof /\ sock'.buffer = <<>>
    <3> SUFFICES ASSUME pc = "read", answer = Value(UV_EOF) PROVE sock'.eof /\ sock'.buffer = <<>>
      OBVIOUS
    <3>1. cur \in Handles /\ handle[cur].state = "open"
      BY DEF IInv, CallInv, Methods
    <3>2. Place(handle[cur].fd) \in DOMAIN _connections /\ sock' = _connections'[Place(handle[cur].fd)]
      BY <1>3, <2>1, <3>1 DEF sock, Index, Place
    <3>3. sock.eof /\ sock.buffer = <<>>
      BY DEF IInv, DeliveredInv
    <3> QED
      BY <1>5, <3>2, <3>3, IndexIs
  <2>3. \A h \in Handles : handle[h].eof /\ handle[h].state = "open" =>
       /\ pc = "aborted" \/ (pc = "close" /\ cur = h)
       /\ _connections'[Place(handle[h].fd)].eof /\ _connections'[Place(handle[h].fd)].buffer = <<>>
    BY <1>5, <2>1 DEF IInv, DeliveredInv
  <2>4. /\ \A h \in Handles : \A j \in DOMAIN handle[h].delivered : handle[h].delivered[j] = j
        /\ pc = "read" /\ answer.kind = "hex" =>
              \A j \in DOMAIN answer.data : answer.data[j] = Len(handle[cur].delivered) + j
    BY DEF IInv, DeliveredInv
  <2> QED
    BY <1>3, <2>2, <2>3, <2>4 DEF DeliveredInv, Place
<1> QED
  BY <1>3, <1>4, <1>6, <1>7, <1>8 DEF IInv

(* A peer connects: the connection is the last of the server's queue. *)
LEMMA StepIncoming ==
  ASSUME IInv, NEW c \in Arrivals, NEW i \in DOMAIN _connections, Incoming(c, i)
  PROVE  IInv'
<1> DEFINE w == _connections[i].sockets_to_accept
           r == [_connections[i] EXCEPT !.sockets_to_accept = Append(w, c)]
<1>0. /\ UNCHANGED <<sandboxVars, answer, host>> /\ _connections[i].kind = "server"
      /\ net[c].state = "none" /\ net' = [net EXCEPT ![c].state = "up"]
      /\ _connections' = [_connections EXCEPT ![i] = r]
  BY DEF Incoming
<1>1. c \in Conns /\ c \notin Clients /\ _connections[i] \in SocketRec /\ w \in Seq(Arrivals) /\ net \in [Conns -> NetRec]
  BY HandleClasses, Fields, TypeParts DEF IInv
<1>2. /\ r \in SocketRec /\ r.kind = _connections[i].kind /\ r.conn = _connections[i].conn
      /\ r.buffer = _connections[i].buffer /\ r.eof = _connections[i].eof
      /\ r.sockets_to_accept = Append(w, c)
  <2>1. Append(w, c) \in Seq(Arrivals)
    BY <1>1
  <2> QED
    BY <1>1, <2>1 DEF SocketRec
<1> HIDE DEF r
<1>3. /\ net' \in [Conns -> NetRec] /\ net'[c].state = "up"
      /\ \A d \in Conns : /\ net'[d].seen = net[d].seen /\ net'[d].sent = net[d].sent /\ net'[d].fin = net[d].fin
                          /\ d # c => net'[d].state = net[d].state
  BY <1>0, <1>1 DEF NetRec
<1>4. /\ TypeOK' /\ HandleInv' /\ CallInv' /\ OwnInv'
      /\ UNCHANGED <<pc, cur, frame, handle, answer, host>>
      /\ DOMAIN _connections' = DOMAIN _connections /\ _connections'[i] = r
      /\ \A j \in DOMAIN _connections : j # i => _connections'[j] = _connections[j]
      /\ \A j \in DOMAIN _connections : _connections'[j].kind = _connections[j].kind /\ _connections'[j].conn = _connections[j].conn
      /\ pc \in {"connect", "bind", "close"} => sock'.kind = sock.kind /\ sock'.conn = sock.conn
      /\ \A j, n : Taken(j, n)' <=> Taken(j, n)
  BY <1>0, <1>2, <1>3, KindsKept
<1>5. \A j \in DOMAIN _connections : _connections'[j].buffer = _connections[j].buffer /\ _connections'[j].eof = _connections[j].eof
  BY <1>2, <1>4
<1>6. SockInv'
  BY <1>4, <1>5 DEF IInv, SockInv
<1>7. ConnInv'
  <2>a. /\ Len(w) \in Nat /\ DOMAIN Append(w, c) = 1..(Len(w) + 1) /\ DOMAIN w = 1..Len(w)
        /\ Append(w, c)[Len(w) + 1] = c /\ \A p \in 1..Len(w) : Append(w, c)[p] = w[p]
    BY <1>1
  <2>0. \A p \in 1..(Len(w) + 1) : p \in 1..Len(w) \/ p = Len(w) + 1
    BY <2>a
  <2> HIDE DEF w
  <2>1. \A d, p : \A j \in DOMAIN _connections : Waits(d, j, p)' =>
          Waits(d, j, p) \/ (d = c /\ j = i /\ p = Len(w) + 1)
    <3> SUFFICES ASSUME NEW d, NEW p, NEW j \in DOMAIN _connections, Waits(d, j, p)'
                 PROVE  Waits(d, j, p) \/ (d = c /\ j = i /\ p = Len(w) + 1)
      OBVIOUS
    <3>1. p \in DOMAIN _connections'[j].sockets_to_accept /\ _connections'[j].sockets_to_accept[p] = d
      BY DEF Waits
    <3>2. CASE j # i
      BY <1>4, <3>1, <3>2 DEF Waits
    <3>3. CASE j = i
      <4>1. p \in 1..(Len(w) + 1) /\ Append(w, c)[p] = d
        BY <1>2, <1>4, <2>a, <3>1, <3>3
      <4> QED
        BY <2>0, <2>a, <3>3, <4>1 DEF Waits, w
    <3> QED
      BY <3>2, <3>3
  <2>2. \A j \in DOMAIN _connections : _connections[j].conn # c /\ \A p \in Nat : ~Waits(c, j, p)
    BY <1>0 DEF IInv, ConnInv
  <2>3. ASSUME NEW d \in Arrivals, NEW j \in DOMAIN _connections, NEW k \in DOMAIN _connections, NEW p \in Nat, NEW q \in Nat,
               Waits(d, j, p)', Waits(d, k, q)'
        PROVE  j = k /\ p = q
    <3>1. CASE d = c
      <4>1. j = i /\ p = Len(w) + 1 /\ k = i /\ q = Len(w) + 1
        BY <2>1, <2>2, <2>3, <3>1
      <4> QED
        BY <4>1
    <3>2. CASE d # c
      <4>1. Waits(d, j, p) /\ Waits(d, k, q) /\ ConnInv
        BY <2>1, <2>3, <3>2 DEF IInv
      <4> QED
        BY <4>1, WaitsOnce
    <3> QED
      BY <3>1, <3>2
  <2>4. ASSUME NEW d \in Arrivals, NEW j \in DOMAIN _connections, NEW k \in DOMAIN _connections, NEW p \in Nat, Waits(d, j, p)'
        PROVE  _connections[k].conn # d
    <3>1. CASE d = c
      BY <2>2, <3>1
    <3>2. CASE d # c
      <4>1. Waits(d, j, p) /\ ConnInv
        BY <2>1, <2>4, <3>2 DEF IInv
      <4> QED
        BY <4>1, WaitsOnce
    <3> QED
      BY <3>1, <3>2
  <2>5. ASSUME NEW d \in Arrivals, net'[d].state = "none", NEW j \in DOMAIN _connections
        PROVE  _connections[j].conn # d /\ \A p \in Nat : ~Waits(d, j, p)'
    <3>1. d # c /\ net[d].state = "none"
      BY <1>3, <2>5, HandleClasses
    <3>2. _connections[j].conn # d /\ \A p \in Nat : ~Waits(d, j, p)
      BY <3>1 DEF IInv, ConnInv
    <3> QED
      BY <2>1, <3>1, <3>2
  <2>6. \A j, k \in DOMAIN _connections :
       _connections'[j].conn = _connections'[k].conn /\ _connections'[j].conn # None => j = k
    BY <1>4 DEF IInv, ConnInv
  <2>7. \A j \in DOMAIN _connections : _connections'[j].conn \in Clients =>
       /\ handle'[_connections'[j].conn].state # "unused"
       /\ handle'[_connections'[j].conn].state = "opening" => j = Place(handle'[_connections'[j].conn].fd)
    BY <1>4 DEF IInv, ConnInv
  <2> QED
    BY <1>4, <2>3, <2>4, <2>5, <2>6, <2>7 DEF ConnInv, Place
<1>8. NetInv'
  <2>1. ASSUME NEW d \in Clients, net'[d].state = "dialing"
        PROVE  pc' = "connect" /\ cur' = d /\ answer' = NoAnswer /\ sock'.kind = "stream"
    <3>1. net[d].state = "dialing"
      BY <1>1, <1>3, <2>1, HandleClasses
    <3> QED
      BY <1>4, <3>1 DEF IInv, NetInv
  <2>2. \A d \in Arrivals : net'[d].state # "dialing"
    BY <1>3, HandleClasses DEF IInv, NetInv
  <2>3. \A d \in Conns : /\ net'[d].seen =< net'[d].sent
                         /\ (\A j \in DOMAIN _connections' : _connections'[j].conn # d) => net'[d].seen = 0
    BY <1>3, <1>4 DEF IInv, NetInv
  <2>4. ASSUME NEW j \in DOMAIN _connections, _connections[j].eof
        PROVE  net'[_connections[j].conn].fin /\ net'[_connections[j].conn].seen = net'[_connections[j].conn].sent
    <3>1. _connections[j].conn \in Conns
      BY <2>4, Fields DEF IInv, SockInv
    <3> QED
      BY <1>3, <2>4, <3>1 DEF IInv, NetInv
  <2> QED
    BY <1>4, <1>5, <2>1, <2>2, <2>3, <2>4 DEF NetInv
<1>9. StreamInv'
  <2> SUFFICES ASSUME NEW j \in DOMAIN _connections, NEW n \in Nat, Taken(j, n),
                      _connections[j].kind = "stream" \/ \E h \in Handles : handle[h].state = "open" /\ handle[h].fd = FirstFd + j - 1
               PROVE  Run(_connections[j].buffer, n, net'[_connections[j].conn].seen)
    BY <1>4, <1>5 DEF StreamInv
  <2>1. Run(_connections[j].buffer, n, net[_connections[j].conn].seen)
    BY DEF IInv, StreamInv
  <2>2. _connections[j].conn \in Conns
    BY HasConn
  <2> QED
    BY <1>3, <2>1, <2>2
<1>10. DeliveredInv'
  <2>1. \A h \in Handles : handle[h].state = "open" => Place(handle[h].fd) \in DOMAIN _connections
    BY InUse DEF IInv
  <2>2. (pc = "read" /\ answer = Value(UV_EOF)) => sock'.eof /\ sock'.buffer = <<>>
    <3> SUFFICES ASSUME pc = "read", answer = Value(UV_EOF) PROVE sock'.eof /\ sock'.buffer = <<>>
      OBVIOUS
    <3>1. cur \in Handles /\ handle[cur].state = "open"
      BY DEF IInv, CallInv, Methods
    <3>2. Place(handle[cur].fd) \in DOMAIN _connections /\ sock' = _connections'[Place(handle[cur].fd)]
      BY <1>4, <2>1, <3>1 DEF sock, Index, Place
    <3>3. sock.eof /\ sock.buffer = <<>>
      BY DEF IInv, DeliveredInv
    <3> QED
      BY <1>5, <3>2, <3>3, IndexIs
  <2>3. \A h \in Handles : handle[h].eof /\ handle[h].state = "open" =>
       /\ pc = "aborted" \/ (pc = "close" /\ cur = h)
       /\ _connections'[Place(handle[h].fd)].eof /\ _connections'[Place(handle[h].fd)].buffer = <<>>
    BY <1>5, <2>1 DEF IInv, DeliveredInv
  <2>4. /\ \A h \in Handles : \A j \in DOMAIN handle[h].delivered : handle[h].delivered[j] = j
        /\ pc = "read" /\ answer.kind = "hex" =>
              \A j \in DOMAIN answer.data : answer.data[j] = Len(handle[cur].delivered) + j
    BY DEF IInv, DeliveredInv
  <2> QED
    BY <1>4, <2>2, <2>3, <2>4 DEF DeliveredInv, Place
<1>11. ServerInv'
  <2>1. ServerUsed' <=> ServerUsed
    BY <1>4 DEF ServerUsed
  <2>2. ServerUsed
    BY <1>0 DEF IInv, ServerInv
  <2> QED
    BY <2>1, <2>2 DEF ServerInv
<1> QED
  BY <1>4, <1>6, <1>7, <1>8, <1>9, <1>10, <1>11 DEF IInv

----------------------------------------------------------------------------
(* The invariant is inductive. *)
LEMMA NextHolds == IInv /\ [Next]_vars => IInv'
<1> SUFFICES ASSUME IInv, [Next]_vars PROVE IInv'
  OBVIOUS
<1>1. CASE JavaScript
  <2>1. ASSUME NEW h \in Clients \cup Servers, NEW family \in {AF_INET, AF_INET6}, NewSocket(h, family)
        PROVE  IInv'
    BY <2>1, StepNewSocket
  <2>2. ASSUME NEW h \in Handles,
               uv_read_start(h) \/ uv_read_stop(h) \/ uv_write(h) \/ uv_tcp_getpeername(h) \/ uv_close(h)
        PROVE  IInv'
    BY <2>2, JsCalls, JsReading
  <2> QED
    BY <1>1, <2>1, <2>2 DEF JavaScript
<1>2. CASE \E h \in Handles : uv__io_poll(h)
  BY <1>2, JsCalls
<1>3. CASE Return
  BY <1>3, JsCalls
<1>4. CASE Continue
  BY <1>4, StepAfterSocket, StepsOpening, StepAfterAccept, StepAfterRead, ThreadGoesOn, StepsPeername, StepsReadEof,
     StepAfterClose
     DEF Continue
<1>5. CASE handleCall
  BY <1>5, StepHost
<1>6. CASE Network
  <2>1. ASSUME NEW i \in DOMAIN _connections, NEW c \in Arrivals, Incoming(c, i) PROVE IInv'
    BY <2>1, StepIncoming
  <2>2. ASSUME NEW i \in DOMAIN _connections, NEW k \in 1..MaxData, DataEvent(i, k) PROVE IInv'
    BY <2>2, StepData
  <2>3. ASSUME NEW i \in DOMAIN _connections, EndEvent(i) PROVE IInv'
    BY <2>3, StepEnd
  <2> QED
    BY <1>6, <2>1, <2>2, <2>3, NetChanges DEF Network
<1>7. CASE UNCHANGED vars
  <2>1. UNCHANGED <<sandboxVars, _connections, net, host, answer>>
    BY <1>7 DEF vars
  <2>2. /\ net \in [Conns -> NetRec] /\ host \in {"up", "gone"}
        /\ \A c \in Conns : net[c].seen =< net[c].sent
    BY TypeParts DEF IInv, ThreadTypes, ServerInv, NetInv
  <2> QED
    BY <2>1, <2>2, NetOnly
<1> QED
  BY <1>1, <1>2, <1>3, <1>4, <1>5, <1>6, <1>7 DEF Next

LEMMA Invariance == Spec => []IInv
BY InitHolds, NextHolds, PTL DEF Spec

(* Every open handle has a live FakeSocket of its own, and descriptors are *)
(* descriptors: _connections.push in handleCall, maybe_new_socket and      *)
(* uv_accept never give one twice, whatever was closed in the meantime.    *)
THEOREM OwnSockets == Spec => []BridgeInv
<1>1. IInv => BridgeInv
  <2> SUFFICES ASSUME IInv PROVE OwnSocket
    BY DEF IInv, BridgeInv
  <2> SUFFICES ASSUME NEW h \in Handles, handle[h].state \in {"open", "listening"}, ~(pc = "close" /\ cur = h)
               PROVE  /\ Place(handle[h].fd) \in DOMAIN _connections
                      /\ _connections[Place(handle[h].fd)].kind = IF handle[h].state = "open" THEN "stream" ELSE "server"
                      /\ \A g \in Handles : handle[g].fd = handle[h].fd => g = h
    BY DEF OwnSocket, Place
  <2>1. Place(handle[h].fd) \in DOMAIN _connections
    BY InUse DEF IInv
  <2>2. _connections[Place(handle[h].fd)].kind = IF handle[h].state = "open" THEN "stream" ELSE "server"
    BY DEF IInv, OwnInv
  <2>3. \A g \in Handles : handle[g].fd = handle[h].fd => g = h
    BY DEF IInv, HandleInv
  <2> QED
    BY <2>1, <2>2, <2>3
<1> QED
  BY <1>1, Invariance, PTL

(* FakeSocket.read and uv__read together deliver what the peer sent, in    *)
(* order and whole, and report the end after all of it, for every cutting  *)
(* of the data into 'data' events and read buffers.                        *)
THEOREM StreamsWhole == Spec => []StreamIntact
<1>1. IInv => StreamIntact
  <2> SUFFICES ASSUME IInv, NEW h \in Handles
               PROVE  /\ \A j \in DOMAIN handle[h].delivered : handle[h].delivered[j] = j
                      /\ handle[h].eof /\ handle[h].state = "open" =>
                           net[ConnOf(h)].fin /\ Len(handle[h].delivered) = net[ConnOf(h)].sent
    BY DEF StreamIntact
  <2> DEFINE K == Place(handle[h].fd)
  <2>1. \A j \in DOMAIN handle[h].delivered : handle[h].delivered[j] = j
    BY DEF IInv, DeliveredInv
  <2>2. ASSUME handle[h].eof, handle[h].state = "open"
        PROVE  net[ConnOf(h)].fin /\ Len(handle[h].delivered) = net[ConnOf(h)].sent
    <3>1. K \in DOMAIN _connections /\ handle[h].fd = FirstFd + K - 1 /\ ConnOf(h) = _connections[K].conn
      BY <2>2, InUse DEF IInv, ConnOf, Place
    <3>2. pc # "read" /\ _connections[K].eof /\ _connections[K].buffer = <<>>
      BY <2>2 DEF IInv, DeliveredInv
    <3>3. Len(handle[h].delivered) \in Nat
      BY Fields DEF IInv
    <3>4. Taken(K, Len(handle[h].delivered))
      BY <3>1, <3>2, <3>3, NothingComes DEF Taken
    <3>5. Run(_connections[K].buffer, Len(handle[h].delivered), net[_connections[K].conn].seen)
      BY <2>2, <3>1, <3>3, <3>4 DEF IInv, StreamInv
    <3>6. net[_connections[K].conn].seen = Len(handle[h].delivered)
      BY <3>2, <3>5 DEF Run
    <3>7. net[_connections[K].conn].fin /\ net[_connections[K].conn].seen = net[_connections[K].conn].sent
      BY <3>1, <3>2 DEF IInv, NetInv
    <3> QED
      BY <3>1, <3>6, <3>7
  <2> QED
    BY <2>1, <2>2
<1> QED
  BY <1>1, Invariance, PTL

(* Who has ended the host: a server of the contract, or the call the thread *)
(* awaits.                                                                 *)
OwnCall ==
  /\ answer = NoAnswer
  /\ \/ pc = "socket" /\ handle[cur].family = AF_INET6
     \/ pc = "getRemoteFamily" /\ (sock.eof \/ net[sock.conn].state = "reset")

HostInv == host = "gone" => ServerUsed \/ OwnCall

(* A handle that was used stays so. *)
LEMMA StaysUsed ==
  ASSUME IInv, [Next]_vars, NEW h \in Handles, handle[h].state # "unused"
  PROVE  handle'[h].state # "unused"
<1>0. handle \in [Handles -> HandleRec]
  BY TypeParts DEF IInv
<1>1. CASE JavaScript
  BY <1>0, <1>1 DEF JavaScript, NewSocket, uv_read_start, uv_read_stop, uv_write, uv_tcp_getpeername, uv_close,
                    HandleRec
<1>2. CASE Continue
  <2>1. CASE AfterSocket \/ AfterConnect \/ AfterBind
    BY <1>0, <2>1 DEF AfterSocket, AfterConnect, AfterBind, uv_tcp_listen, HandleRec
  <2>2. CASE AfterAccept
    BY <1>0, <2>2 DEF AfterAccept, uv_accept, HandleRec
  <2>3. CASE AfterRead
    <3>1. handle' = [handle EXCEPT ![cur].delivered = @ \o answer.data]
      BY <2>3 DEF AfterRead
    <3>2. handle'[h].state = handle[h].state
      BY <1>0, <3>1 DEF HandleRec
    <3> QED
      BY <3>2
  <2>6. CASE AfterReadEof \/ AfterReadHalfOpen
    BY <1>0, <2>6 DEF AfterReadEof, AfterReadHalfOpen, HandleRec
  <2>4. CASE AfterClose
    BY <1>0, <2>4 DEF AfterClose, HandleRec
  <2>5. CASE \/ AfterReadAgain \/ AfterWrite \/ AfterRemoteFamily \/ AfterRemotePort
             \/ AfterRemoteAddress \/ PeernameAborts
    BY <2>5 DEF AfterReadAgain, AfterWrite, AfterRemoteFamily, AfterRemotePort, AfterRemoteAddress, PeernameAborts
  <2> QED
    BY <1>2, <2>1, <2>2, <2>3, <2>4, <2>5, <2>6 DEF Continue
<1>3. CASE handleCall \/ Network
  <2>1. UNCHANGED handle
    BY <1>3 DEF handleCall, handleSocket, handleConnect, handleBind, handleAccept, handleRead, handleWrite,
                handleClose, handleRemoteFamily, handleRemotePort, handleRemoteAddress, Network, Establish,
                Refuse, PeerSends, PeerEnds, Reset, Incoming, DataEvent, EndEvent, ListenFails, sandboxVars
  <2> QED
    BY <2>1
<1>4. CASE (\E g \in Handles : uv__io_poll(g)) \/ Return \/ UNCHANGED vars
  BY <1>4 DEF uv__io_poll, Return, vars, sandboxVars
<1> QED
  BY <1>1, <1>2, <1>3, <1>4 DEF Next

(* While the host is up, only these steps end it. *)
LEMMA HostEnds ==
  ASSUME IInv, [Next]_vars, host = "up", host' = "gone"
  PROVE  ServerUsed \/ OwnCall'
<1>1. \/ handleSocket \/ handleWrite \/ handleRemoteFamily \/ handleClose
      \/ \E c \in Conns : Reset(c)
      \/ \E i \in DOMAIN _connections : ListenFails(i)
  <2>1. CASE JavaScript \/ Return \/ Continue \/ (\E h \in Handles : uv__io_poll(h)) \/ UNCHANGED vars
    BY <2>1 DEF JavaScript, NewSocket, uv_read_start, uv_read_stop, uv_write, uv_tcp_getpeername, uv_close,
                Return, Continue, AfterSocket, AfterConnect, AfterBind, AfterAccept, AfterRead, AfterReadAgain,
                AfterReadEof, AfterReadHalfOpen, AfterWrite, AfterRemoteFamily, AfterRemotePort,
                AfterRemoteAddress, PeernameAborts, AfterClose, ToJs, uv__io_poll, vars
  <2>2. CASE handleCall
    BY <2>2 DEF handleCall, handleConnect, handleBind, handleAccept, handleRead, handleRemotePort,
                handleRemoteAddress
  <2>3. CASE Network
    BY <2>3 DEF Network, Establish, Refuse, PeerSends, PeerEnds, Incoming, DataEvent, EndEvent
  <2> QED
    BY <2>1, <2>2, <2>3 DEF Next
<1>2. CASE handleSocket
  <2>1. /\ pc = "socket" /\ answer = NoAnswer /\ UNCHANGED <<pc, cur, handle, answer>> /\ cur \in Handles
        /\ handle[cur].family # AF_INET
    BY <1>2 DEF handleSocket, Asked, sandboxVars, IInv, CallInv, Methods
  <2>2. handle[cur].family \in {AF_INET, AF_INET6}
    BY <2>1, TypeParts DEF IInv, HandleRec
  <2> QED
    BY <2>1, <2>2 DEF OwnCall
<1>3. CASE handleRemoteFamily
  <2>1. /\ pc = "getRemoteFamily" /\ answer = NoAnswer
        /\ UNCHANGED <<pc, cur, handle, answer, _connections, net>>
        /\ MayBeUnnamed
    BY <1>3 DEF handleRemoteFamily, Asked, sandboxVars
  <2> QED
    BY <2>1 DEF OwnCall, MayBeUnnamed, sock, Index
<1>4. CASE handleWrite
  <2>1. /\ pc = "write" /\ answer = NoAnswer /\ sock.conn \in Arrivals
        /\ cur \in Handles /\ handle[cur].state = "open"
    BY <1>4 DEF handleWrite, Asked, IInv, CallInv, Methods
  <2>2. /\ Place(handle[cur].fd) \in DOMAIN _connections
        /\ sock = _connections[Place(handle[cur].fd)]
    BY <2>1, InUse, IndexIs DEF IInv
  <2>3. net[sock.conn].state # "none"
    BY <2>1, <2>2 DEF IInv, ConnInv
  <2> QED
    BY <2>1, <2>3 DEF IInv, ServerInv
<1>5. CASE handleClose
  <2>1. pc = "close" /\ answer = NoAnswer /\ cur \in Handles /\ handle[cur].state \in {"open", "listening"}
        /\ sock.kind = "server"
    BY <1>5 DEF handleClose, Asked, IInv, CallInv, Methods
  <2>2. /\ Place(handle[cur].fd) \in DOMAIN _connections
        /\ sock = _connections[Place(handle[cur].fd)]
    BY <2>1, InUse, IndexIs DEF IInv
  <2> QED
    BY <2>1, <2>2 DEF IInv, ServerInv
<1>6. ASSUME NEW c \in Conns, Reset(c) PROVE ServerUsed
  <2>1. c \in Arrivals /\ net[c].state = "up"
    BY <1>6 DEF Reset, Conns
  <2> QED
    BY <2>1 DEF IInv, ServerInv
<1>7. ASSUME NEW i \in DOMAIN _connections, ListenFails(i) PROVE ServerUsed
  BY <1>7 DEF ListenFails, IInv, ServerInv
<1> QED
  BY <1>1, <1>2, <1>3, <1>4, <1>5, <1>6, <1>7

(* Nothing moves the thread when the host is gone and has not answered. *)
LEMMA OwnCallStays ==
  ASSUME IInv, [Next]_vars, host = "gone", OwnCall
  PROVE  OwnCall'
<1>1. pc \in {"socket", "getRemoteFamily"} /\ answer = NoAnswer
  BY DEF OwnCall
<1>2. CASE JavaScript \/ Return \/ (\E h \in Handles : uv__io_poll(h)) \/ Continue \/ handleCall
  BY <1>1, <1>2 DEF JavaScript, NewSocket, uv_read_start, uv_read_stop, uv_write, uv_tcp_getpeername, uv_close,
                    Return, uv__io_poll, Continue, AfterSocket, AfterConnect, AfterBind, AfterAccept, AfterRead,
                    AfterReadAgain, AfterReadEof, AfterReadHalfOpen, AfterWrite, AfterRemoteFamily,
                    AfterRemotePort, AfterRemoteAddress, PeernameAborts, AfterClose, Answered, handleCall,
                    handleSocket, handleConnect, handleBind, handleAccept, handleRead, handleWrite, handleClose,
                    handleRemoteFamily, handleRemotePort, handleRemoteAddress, Asked
<1>3. CASE UNCHANGED vars \/ Network
  <2>1. /\ UNCHANGED <<pc, cur, handle, answer, _connections>>
        /\ \A c \in Conns : net'[c].state = net[c].state
    <3>0. net \in [Conns -> NetRec]
      BY TypeParts DEF IInv
    <3>1. CASE Network
      <4>1. PICK c \in Conns : PeerSends(c) \/ PeerEnds(c)
        BY <3>1 DEF Network, Establish, Refuse, Reset, Incoming, DataEvent, EndEvent, ListenFails
      <4> QED
        BY <3>0, <4>1 DEF PeerSends, PeerEnds, sandboxVars, NetRec
    <3> QED
      BY <1>3, <3>1 DEF vars, sandboxVars
  <2>2. UNCHANGED sock
    BY <2>1 DEF sock, Index
  <2>3. pc = "getRemoteFamily" => sock.conn \in Conns
    <3> SUFFICES ASSUME pc = "getRemoteFamily" PROVE sock.conn \in Conns
      OBVIOUS
    <3>1. cur \in Handles /\ handle[cur].state = "open"
      BY DEF IInv, CallInv, Methods
    <3>2. Place(handle[cur].fd) \in DOMAIN _connections /\ sock = _connections[Place(handle[cur].fd)]
      BY <3>1, InUse, IndexIs DEF IInv
    <3>3. sock.kind = "stream"
      BY <3>1, <3>2 DEF IInv, OwnInv
    <3> QED
      BY <3>2, <3>3, Fields DEF IInv, SockInv
  <2> QED
    BY <2>1, <2>2, <2>3 DEF OwnCall
<1> QED
  BY <1>2, <1>3 DEF Next

(* A contract that is no server ends the host only by its own call: the    *)
(* exceptions of handleCall's close, of listen, and of unheard 'error'     *)
(* events all need a FakeSocket that bind or accept made, so what is left  *)
(* is FakeSocket's constructor and getRemoteFamily.                        *)
THEOREM HostEndedByCall == Spec => []EndedByCall
<1>1. Init => HostInv
  BY DEF Init, HostInv
<1>2. IInv /\ HostInv /\ [Next]_vars => HostInv'
  <2> SUFFICES ASSUME IInv, HostInv, [Next]_vars, host' = "gone" PROVE ServerUsed' \/ OwnCall'
    BY DEF HostInv
  <2>1. ServerUsed => ServerUsed'
    BY StaysUsed DEF ServerUsed, Handles
  <2>2. CASE host = "up"
    BY <2>1, <2>2, HostEnds
  <2>3. CASE host # "up"
    <3>1. host = "gone"
      BY <2>3, TypeParts DEF IInv, ThreadTypes
    <3> QED
      BY <2>1, <3>1, OwnCallStays DEF HostInv
  <2> QED
    BY <2>2, <2>3
<1>3. HostInv => EndedByCall
  BY DEF HostInv, OwnCall, ServerUsed, EndedByCall
<1> QED
  BY <1>1, <1>2, <1>3, Invariance, PTL DEF Spec
=============================================================================
