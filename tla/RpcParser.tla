----------------------------- MODULE RpcParser -----------------------------
(***************************************************************************)
(* How the host cuts the byte stream of file descriptor 3 into requests:   *)
(* RpcParser in lib/binary/rpc_parser.js, with the byte counting it mixes  *)
(* in from the stream-parser package.  The sandbox writes a header and a   *)
(* body for each request; the socket hands the bytes on in pieces of any   *)
(* length, which may end inside a header or span several requests.         *)
(*                                                                         *)
(* A byte is known by the request, the part and the place it was written   *)
(* at.  CodiusRpc relies on what is shown here when it lets the host take  *)
(* whole requests from the stream.                                         *)
(***************************************************************************)
EXTENDS Naturals, Sequences

CONSTANTS
  HEADER_SIZE,  \* bytes in a header
  MaxSize,      \* bound: bytes in a body
  MaxId,        \* bound: callback ids
  MaxMessages   \* bound: requests the sandbox writes

ASSUME SizesAssumption ==
  /\ HEADER_SIZE \in Nat \ {0}
  /\ MaxSize \in Nat \ {0}
  /\ MaxId \in Nat
  /\ MaxMessages \in Nat

VARIABLES
  sent,         \* the requests written so far
  wire,         \* bytes in the socket
  chunk,        \* bytes of the piece being transformed, not yet counted
  buffered,     \* bytes put aside for the next callback
  bytesLeft,    \* bytes the parser still waits for
  callback,     \* the function those bytes are for; "thrown" or "ended" after an exception
  callback_id,  \* the id bound into onbody
  emitted       \* the 'message' events

vars == <<sent, wire, chunk, buffered, bytesLeft, callback, callback_id, emitted>>

----------------------------------------------------------------------------
Byte(m, part, i) == [msg |-> m, part |-> part, idx |-> i]

(* The bytes of one part, n long, of request m. *)
Part(m, part, n) == [i \in 1..n |-> Byte(m, part, i)]

Messages == [id : 0..MaxId, size : 0..MaxSize]

Lesser(a, b) == IF a =< b THEN a ELSE b

Init ==
  /\ sent = <<>> /\ wire = <<>> /\ chunk = <<>> /\ buffered = <<>>
  /\ bytesLeft = HEADER_SIZE /\ callback = "onheader" /\ callback_id = 0
  /\ emitted = <<>>

(* codius_sync_call, Sync_Call, uv__work_submit or uv__codius_async_io     *)
(* writes a header and a body.  The library's own bodies are JSON;         *)
(* PostMessage takes any string, the empty one as well.                    *)
WriteRequest(m) ==
  /\ Len(sent) < MaxMessages
  /\ sent' = Append(sent, m)
  /\ wire' = wire \o Part(Len(sent'), "header", HEADER_SIZE)
                  \o Part(Len(sent'), "body", m.size)
  /\ UNCHANGED <<chunk, buffered, bytesLeft, callback, callback_id, emitted>>

Parsing == callback \in {"onheader", "onbody"}

(* The socket hands a piece of k bytes to the parser, which has finished   *)
(* with the last one.                                                      *)
Transform(k) ==
  /\ Parsing /\ chunk = <<>> /\ bytesLeft > 0
  /\ chunk' = SubSeq(wire, 1, k)
  /\ wire' = SubSeq(wire, k + 1, Len(wire))
  /\ UNCHANGED <<sent, buffered, bytesLeft, callback, callback_id, emitted>>

(* stream-parser counts off what the parser waits for and puts it aside. *)
Process ==
  /\ Parsing /\ chunk # <<>> /\ bytesLeft > 0
  /\ LET k == Lesser(bytesLeft, Len(chunk)) IN
     /\ buffered' = buffered \o SubSeq(chunk, 1, k)
     /\ chunk' = SubSeq(chunk, k + 1, Len(chunk))
     /\ bytesLeft' = bytesLeft - k
  /\ UNCHANGED <<sent, wire, callback, callback_id, emitted>>

(* The magic bytes are the first of a header; the id and the size are read *)
(* from the places where that header holds them.                           *)
IsHeader(b) == b = Part(b[1].msg, "header", HEADER_SIZE)

(* Faulty variant of onheader: one byte of the body is not waited for. *)
onheaderShort ==
  /\ callback = "onheader" /\ bytesLeft = 0
  /\ IF IsHeader(buffered)
       THEN LET header == sent[buffered[1].msg] IN
            IF header.size > 0
              THEN /\ callback' = "onbody" /\ callback_id' = header.id
                   /\ bytesLeft' = header.size - 1
              ELSE callback' = "ended" /\ UNCHANGED <<callback_id, bytesLeft>>
       ELSE callback' = "thrown" /\ UNCHANGED <<callback_id, bytesLeft>>
  /\ buffered' = <<>>
  /\ UNCHANGED <<sent, wire, chunk, emitted>>

(* Parse a header and wait for its body; anything else is refused.  An     *)
(* empty body cannot be waited for: _bytes(0) throws, and the host ends.   *)
onheader ==
  /\ callback = "onheader" /\ bytesLeft = 0
  /\ IF IsHeader(buffered)
       THEN LET header == sent[buffered[1].msg] IN
            IF header.size > 0
              THEN /\ callback' = "onbody" /\ callback_id' = header.id
                   /\ bytesLeft' = header.size
              ELSE callback' = "ended" /\ UNCHANGED <<callback_id, bytesLeft>>
       ELSE callback' = "thrown" /\ UNCHANGED <<callback_id, bytesLeft>>
  /\ buffered' = <<>>
  /\ UNCHANGED <<sent, wire, chunk, emitted>>

(* Faulty variant of onbody: the parser goes on waiting for bodies. *)
onbodyAgain ==
  /\ callback = "onbody" /\ bytesLeft = 0
  /\ emitted' = Append(emitted, [body |-> buffered, id |-> callback_id])
  /\ buffered' = <<>>
  /\ bytesLeft' = Len(buffered)
  /\ UNCHANGED <<sent, wire, chunk, callback, callback_id>>

(* Faulty variant of onbody: an id of zero is taken for no id. *)
onbodySilent ==
  /\ callback = "onbody" /\ bytesLeft = 0
  /\ emitted' = IF callback_id = 0 THEN emitted
                ELSE Append(emitted, [body |-> buffered, id |-> callback_id])
  /\ buffered' = <<>>
  /\ callback' = "onheader" /\ bytesLeft' = HEADER_SIZE
  /\ UNCHANGED <<sent, wire, chunk, callback_id>>

(* Emit the message and wait for the next header. *)
onbody ==
  /\ callback = "onbody" /\ bytesLeft = 0
  /\ emitted' = Append(emitted, [body |-> buffered, id |-> callback_id])
  /\ buffered' = <<>>
  /\ callback' = "onheader" /\ bytesLeft' = HEADER_SIZE
  /\ UNCHANGED <<sent, wire, chunk, callback_id>>

(* The sandbox has nothing more to say, and the parser nothing to do. *)
Quiet ==
  /\ Len(sent) = MaxMessages
  /\ callback = "ended" \/ (wire = <<>> /\ chunk = <<>> /\ bytesLeft > 0)
  /\ UNCHANGED vars

Parser == Process \/ onheader \/ onbody

Next ==
  \/ \E m \in Messages : WriteRequest(m)
  \/ \E k \in 1..Len(wire) : Transform(k)
  \/ Process
  \/ onheader
  \/ onbody
  \/ Quiet

Spec == Init /\ [][Next]_vars

(* The socket passes on what it holds, in pieces of its choice, and the    *)
(* host's thread finishes the piece it is working on.                      *)
FairSpec ==
  /\ Spec
  /\ WF_vars(\E k \in 1..Len(wire) : Transform(k))
  /\ WF_vars(Parser)

----------------------------------------------------------------------------
(* Properties. *)

Bytes == [msg : 1..MaxMessages, part : {"header", "body"},
          idx : 1..(HEADER_SIZE + MaxSize)]

(* The parser's state has the types stream-parser relies on: bytesLeft is  *)
(* never negative nor more than the part it counts, and the callback is    *)
(* one of the two until an exception.                                      *)
TypeOK ==
  /\ sent \in Seq(Messages)
  /\ wire \in Seq(Bytes) /\ chunk \in Seq(Bytes) /\ buffered \in Seq(Bytes)
  /\ bytesLeft \in 0..(IF callback = "onheader" THEN HEADER_SIZE ELSE MaxSize)
  /\ callback \in {"onheader", "onbody", "thrown", "ended"}
  /\ callback_id \in 0..MaxId
  /\ emitted \in Seq([body : Seq(Bytes), id : 0..MaxId])

(* The 'message' events are the requests in the order they were written,   *)
(* each with its own body and id, wherever the pieces end: the counting    *)
(* never runs over the end of one part into the next.                      *)
FramesIntact ==
  /\ Len(emitted) =< Len(sent)
  /\ \A i \in DOMAIN emitted :
       /\ emitted[i].id = sent[i].id
       /\ emitted[i].body = Part(i, "body", sent[i].size)

(* onheader never throws for the magic bytes: after every body the parser  *)
(* stands at the first byte of a header.  The only exception it meets is   *)
(* that of the first request with an empty body.                           *)
InSync ==
  /\ callback # "thrown"
  /\ callback = "ended" =>
       /\ Len(emitted) < Len(sent)
       /\ sent[Len(emitted) + 1].size = 0
       /\ \A i \in DOMAIN emitted : sent[i].size > 0

(* Types are right, and the parser is in step with the stream. *)
ParserInv == TypeOK /\ InSync

(* Every request before the first empty one is handed to handleCall in the *)
(* end: no tail of the stream is left waiting in the parser.               *)
AllEmitted ==
  \A n \in 1..MaxMessages :
    (n =< Len(sent) /\ \A i \in 1..n : sent[i].size > 0) ~> Len(emitted) >= n

=============================================================================
