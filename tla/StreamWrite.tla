---------------------------- MODULE StreamWrite ----------------------------
(***************************************************************************)
(* Writing on a TCP stream of the sandbox's libuv (deps/uv/src/stream.c):  *)
(* the queue of write requests, the requests that await their callbacks,   *)
(* and how closing the stream cancels what is left.  Each buffer goes to   *)
(* the host in a synchronous call of its own, which always takes all of    *)
(* it.  One thread runs everything; what is hard is that JavaScript runs   *)
(* inside the write callbacks and writes or closes again from there.       *)
(*                                                                         *)
(* A request is known by its place among the writes of the contract.       *)
(* Buffers are lengths.  uv_run goes from phase to phase and JavaScript of *)
(* other handles can run in each of them.                                  *)
(***************************************************************************)
EXTENDS Naturals, FiniteSets, Sequences, SequencesExt

CONSTANTS
  Lens,      \* lengths of buffers, 0 among them
  MaxBufs,   \* bound: buffers of a request
  MaxReqs    \* bound: writes of the contract

ASSUME WriteAssumption ==
  Lens \subseteq Nat /\ MaxBufs \in Nat \ {0} /\ MaxReqs \in Nat

VARIABLES
  pc,         \* "js", or "callbacks" inside uv__write_callbacks
  frame,      \* who called it: "uv__stream_io", "uv__stream_destroy", "none"
  phase,      \* where uv_run is
  flags,      \* "open", "UV_CLOSING", "UV_CLOSED"
  stream,     \* the queues of the stream and the state of its watcher
  submitted,  \* history: the writes of the contract, in order
  fired       \* history: the write callbacks, in order

vars == <<pc, frame, phase, flags, stream, submitted, fired>>

----------------------------------------------------------------------------
ECANCELED == "ECANCELED"

(* The bytes of the buffers from the i-th on, each by buffer and place, and *)
(* their number: uv__count_bufs.                                           *)
Bytes(bufs, i) == UNION {{j} \X (1..bufs[j]) : j \in i..Len(bufs)}
Count(bufs, i) == Cardinality(Bytes(bufs, i))

(* uv__write_req_size: what is left to write of a request. *)
uv__write_req_size(req) == Count(req.bufs, req.write_index)

Request(id, bufs) == [id |-> id, bufs |-> bufs, write_index |-> 1, error |-> "0"]

Init ==
  /\ pc = "js" /\ frame = "none" /\ phase = "pending" /\ flags = "open"
  /\ stream = [write_queue |-> <<>>, write_completed_queue |-> <<>>,
               write_queue_size |-> 0, pollout |-> FALSE, pending |-> FALSE,
               sent |-> <<>>]
  /\ submitted = <<>> /\ fired = <<>>

----------------------------------------------------------------------------
(* The functions of stream.c, from one state of the stream to the next. *)

(* The buffer to go on with once the i-th is written: empty ones are       *)
(* passed over.                                                            *)
NextBuf(bufs, i) ==
  CHOOSE j \in (i + 1)..(Len(bufs) + 1) :
    /\ j = Len(bufs) + 1 \/ bufs[j] # 0
    /\ \A k \in (i + 1)..(j - 1) : bufs[k] = 0

(* The synchronous call that carries one buffer to the host. *)
Sent(s, req) ==
  IF req.bufs[req.write_index] = 0 THEN s.sent
  ELSE Append(s.sent, <<req.id, req.write_index>>)

(* Faulty variant of uv__write_req_finish: uv__io_feed is not called. *)
uv__write_req_finishUnfed(s, req) ==
  [s EXCEPT !.write_queue = Tail(@), !.write_completed_queue = Append(@, req)]

(* uv__write_req_finish: the request awaits its callback. *)
uv__write_req_finish(s, req) ==
  [s EXCEPT !.write_queue = Tail(@), !.write_completed_queue = Append(@, req),
            !.pending = TRUE]

(* Faulty variant of uv__write: a request is done after its first buffer. *)
uv__writeFirst(s) ==
  IF s.write_queue = <<>> THEN s ELSE
  LET req == Head(s.write_queue)
      w   == [s EXCEPT !.sent = Sent(s, req), !.write_queue_size = @ - Count(req.bufs, 1)]
  IN  uv__write_req_finish(w, [req EXCEPT !.write_index = Len(req.bufs) + 1])

(* uv__write: one buffer of the first request is written; the request is   *)
(* finished, or the watcher waits to go on with it.                        *)
uv__write(s) ==
  IF s.write_queue = <<>> THEN s ELSE
  LET req  == Head(s.write_queue)
      next == NextBuf(req.bufs, req.write_index)
      done == [req EXCEPT !.write_index = next]
      w    == [s EXCEPT !.sent = Sent(s, req),
                        !.write_queue_size = @ - req.bufs[req.write_index]]
  IN  IF next > Len(req.bufs) THEN uv__write_req_finish(w, done)
      ELSE [w EXCEPT !.write_queue[1] = done, !.pollout = TRUE]

(* Faulty variant of uv_write2: the write goes out before those waiting. *)
uv_write2Eager(s, req) ==
  uv__write([s EXCEPT !.write_queue = <<req>> \o @,
                      !.write_queue_size = @ + Count(req.bufs, 1)])

(* uv_write2: the request is queued, and written from at once if nothing   *)
(* was left to write.                                                      *)
uv_write2(s, req) ==
  LET q == [s EXCEPT !.write_queue = Append(@, req),
                     !.write_queue_size = @ + Count(req.bufs, 1)]
  IN  IF s.write_queue_size = 0 THEN uv__write(q) ELSE [q EXCEPT !.pollout = TRUE]

(* Without the request id, which is the last of its queue. *)
IsLast(q, id) == q # <<>> /\ Last(q).id = id
QUEUE_REMOVE(q, id) == IF IsLast(q, id) THEN Front(q) ELSE q

(* The request id is taken from the queue it is in, and what it has left   *)
(* from the size.                                                          *)
Unqueue(s, id) ==
  [s EXCEPT !.write_queue = QUEUE_REMOVE(@, id), !.write_completed_queue = QUEUE_REMOVE(@, id),
            !.write_queue_size = IF IsLast(s.write_queue, id)
                                   THEN @ - uv__write_req_size(Last(s.write_queue)) ELSE @]

(* Faulty variant of uv_try_write: what was not written stays counted. *)
uv_try_writeLeak(s, req) ==
  LET t == uv_write2(s, req) IN
  [Unqueue(t, req.id) EXCEPT !.write_queue_size = t.write_queue_size,
                             !.pollout = s.pollout]

(* uv_try_write with nothing left to write: the request is written from    *)
(* and taken back, and the watcher left as it was.                         *)
uv_try_write(s, req) ==
  [Unqueue(uv_write2(s, req), req.id) EXCEPT !.pollout = s.pollout]

(* WriteBuffer and WriteString of StreamWrap try first, and queue what was *)
(* not written; an empty buffer never counts as written.                   *)
TryWrites(s, req) ==
  /\ s.write_queue_size = 0
  /\ \E i \in DOMAIN uv_try_write(s, req).sent :
       uv_try_write(s, req).sent[i] = <<req.id, 1>>

WriteBuffer(s, req) ==
  LET t == IF s.write_queue_size = 0 THEN uv_try_write(s, req) ELSE s
  IN  IF TryWrites(s, req) THEN t ELSE uv_write2(t, req)

----------------------------------------------------------------------------
(* JavaScript, called from anywhere. *)

CanWrite == pc = "js" /\ flags = "open" /\ Len(submitted) < MaxReqs

Submit(bufs, cb) == submitted' = Append(submitted, [bufs |-> bufs, cb |-> cb])

(* A string or a buffer. *)
Write(len) ==
  /\ CanWrite
  /\ LET req == Request(Len(submitted) + 1, <<len>>) IN
     /\ stream' = WriteBuffer(stream, req)
     /\ Submit(req.bufs, ~TryWrites(stream, req))
  /\ UNCHANGED <<pc, frame, phase, flags, fired>>

(* Several chunks at once. *)
Writev(bufs) ==
  /\ CanWrite
  /\ stream' = uv_write2(stream, Request(Len(submitted) + 1, bufs))
  /\ Submit(bufs, TRUE)
  /\ UNCHANGED <<pc, frame, phase, flags, fired>>

(* uv_close: the watcher is stopped and taken from the pending queue, the  *)
(* descriptor closed, and the handle put on the list of closing handles.   *)
uv_close ==
  /\ pc = "js" /\ flags = "open"
  /\ flags' = "UV_CLOSING"
  /\ stream' = [stream EXCEPT !.pollout = FALSE, !.pending = FALSE]
  /\ UNCHANGED <<pc, frame, phase, submitted, fired>>

----------------------------------------------------------------------------
(* uv_run. *)

InLoop == pc = "js" /\ frame = "none"

(* uv__stream_io for an event of the write side. *)
uv__stream_io(s) ==
  /\ stream' = uv__write(s)
  /\ pc' = "callbacks" /\ frame' = "uv__stream_io"
  /\ UNCHANGED <<flags, submitted, fired>>

(* uv__run_pending goes on until the queue is empty. *)
uv__run_pending ==
  /\ InLoop /\ phase = "pending" /\ stream.pending
  /\ uv__stream_io([stream EXCEPT !.pending = FALSE])
  /\ UNCHANGED phase

(* uv__io_poll calls the stream's watcher once. *)
uv__io_poll ==
  /\ InLoop /\ phase = "poll" /\ stream.pollout
  /\ uv__stream_io(stream)
  /\ phase' = "polled"

(* uv__finish_close and uv__stream_destroy: what is queued is cancelled,   *)
(* after what was completed.                                               *)
uv__stream_destroy ==
  /\ flags' = "UV_CLOSED"
  /\ stream' = [stream EXCEPT !.write_queue = <<>>,
       !.write_completed_queue = @ \o
         [i \in DOMAIN stream.write_queue |->
            [stream.write_queue[i] EXCEPT !.error = ECANCELED]]]
  /\ pc' = "callbacks" /\ frame' = "uv__stream_destroy"

(* uv__run_closing_handles takes the handles on the list when it starts. *)
uv__run_closing_handles ==
  /\ InLoop /\ phase = "polled"
  /\ phase' = "closing"
  /\ \/ flags = "UV_CLOSING" /\ uv__stream_destroy
     \/ flags # "UV_CLOSING" /\ UNCHANGED <<pc, frame, flags, stream>>
  /\ UNCHANGED <<submitted, fired>>

(* The next phase: nothing is pending, or the watcher is not active. *)
NextPhase ==
  /\ InLoop
  /\ \/ phase = "pending" /\ ~stream.pending /\ phase' = "poll"
     \/ phase = "poll" /\ ~stream.pollout /\ phase' = "polled"
     \/ phase = "closing" /\ phase' = "pending"
  /\ UNCHANGED <<pc, frame, flags, stream, submitted, fired>>

(* uv__write_callbacks pops a request and calls its callback. *)
WriteCallback ==
  /\ pc = "callbacks" /\ stream.write_completed_queue # <<>>
  /\ LET req == Head(stream.write_completed_queue) IN
     /\ stream' = [stream EXCEPT !.write_completed_queue = Tail(@),
          !.write_queue_size =
            IF req.error = "0" THEN @ ELSE @ - uv__write_req_size(req)]
     /\ fired' = Append(fired, [id |-> req.id, error |-> req.error])
  /\ pc' = "js"
  /\ UNCHANGED <<frame, phase, flags, submitted>>

CallbackReturns ==
  /\ pc = "js" /\ frame # "none"
  /\ pc' = "callbacks"
  /\ UNCHANGED <<frame, phase, flags, stream, submitted, fired>>

(* uv__drain: the watcher stops. *)
uv__drain(s) == [s EXCEPT !.pollout = FALSE]

(* Faulty variant of CallbacksDone: the stream is drained without asking   *)
(* whether a request is still queued.                                      *)
CallbacksDoneDrains ==
  /\ pc = "callbacks" /\ stream.write_completed_queue = <<>>
  /\ stream' = IF frame = "uv__stream_io" THEN uv__drain(stream) ELSE stream
  /\ pc' = "js" /\ frame' = "none"
  /\ UNCHANGED <<phase, flags, submitted, fired>>

(* uv__write_callbacks returns.  uv__stream_io drains a stream with        *)
(* nothing left to write; uv__finish_close calls close_cb.                 *)
CallbacksDone ==
  /\ pc = "callbacks" /\ stream.write_completed_queue = <<>>
  /\ stream' = IF frame = "uv__stream_io" /\ stream.write_queue = <<>>
                 THEN uv__drain(stream) ELSE stream
  /\ pc' = "js" /\ frame' = "none"
  /\ UNCHANGED <<phase, flags, submitted, fired>>

----------------------------------------------------------------------------
Bufs == UNION {[1..n -> Lens] : n \in 1..MaxBufs}

JavaScript ==
  \/ \E len \in Lens : Write(len)
  \/ \E bufs \in Bufs : Writev(bufs)
  \/ uv_close

Loop ==
  \/ uv__run_pending
  \/ uv__io_poll
  \/ uv__run_closing_handles
  \/ NextPhase
  \/ WriteCallback
  \/ CallbackReturns
  \/ CallbacksDone

Next == JavaScript \/ Loop

Spec == Init /\ [][Next]_vars

(* The thread goes on: callbacks return, and requests that are registered  *)
(* keep the loop running.                                                  *)
FairSpec == Spec /\ WF_vars(Loop)

----------------------------------------------------------------------------
(* Properties. *)

Ids   == 1..MaxReqs
Reqs  == [id : Ids, bufs : Bufs, write_index : 1..(MaxBufs + 1),
          error : {"0", ECANCELED}]
Streams == [write_queue : Seq(Reqs), write_completed_queue : Seq(Reqs),
            write_queue_size : Nat, pollout : BOOLEAN, pending : BOOLEAN,
            sent : Seq(Ids \X (1..MaxBufs))]

(* Every variable has its type; write_queue_size, an unsigned size_t, is   *)
(* never taken below zero.                                                 *)
TypeOK ==
  /\ pc \in {"js", "callbacks"}
  /\ frame \in {"none", "uv__stream_io", "uv__stream_destroy"}
  /\ phase \in {"pending", "poll", "polled", "closing"}
  /\ flags \in {"open", "UV_CLOSING", "UV_CLOSED"}
  /\ stream \in Streams
  /\ submitted \in Seq([bufs : Bufs, cb : BOOLEAN])
  /\ fired \in Seq([id : Ids, error : {"0", ECANCELED}])

(* The buffers that hold data, by request and place, and their order. *)
DataOf(id) == {id} \X {i \in DOMAIN submitted[id].bufs : submitted[id].bufs[i] # 0}
Before(a, b) == a[1] < b[1] \/ (a[1] = b[1] /\ a[2] < b[2])
Written(b) == \E k \in DOMAIN stream.sent : stream.sent[k] = b

(* The host gets the data in the order in which the contract wrote it,     *)
(* none twice and none left out, whether it was tried, queued or written   *)
(* from inside a callback.                                                 *)
InOrder ==
  /\ \A i, j \in DOMAIN stream.sent : i < j => Before(stream.sent[i], stream.sent[j])
  /\ \A k \in DOMAIN stream.sent :
       /\ \E id \in DOMAIN submitted : stream.sent[k] \in DataOf(id)
       /\ \A id \in DOMAIN submitted : \A b \in DataOf(id) :
            Before(b, stream.sent[k]) => Written(b)

(* Callbacks run in the order of the writes, each at most once; one that   *)
(* reports success has had all of its data written, one that reports       *)
(* ECANCELED has not.                                                      *)
CallbacksTruthful ==
  /\ \A i, j \in DOMAIN fired : i < j => fired[i].id < fired[j].id
  /\ \A i \in DOMAIN fired :
       LET id == fired[i].id IN
       /\ submitted[id].cb
       /\ fired[i].error = "0" => \A b \in DataOf(id) : Written(b)
       /\ fired[i].error = ECANCELED /\ DataOf(id) # {} => \E b \in DataOf(id) : ~Written(b)

(* write_queue_size, which JavaScript uses for back-pressure, is what the  *)
(* queued requests have left to write, and 0 when the stream is destroyed, *)
(* as the assertion at the end of uv__stream_destroy says.                 *)
Unfinished ==
  ToSet(stream.write_queue) \cup {r \in ToSet(stream.write_completed_queue) : r.error # "0"}
SizeExact ==
  stream.write_queue_size =
    Cardinality(UNION {{r.id} \X Bytes(r.bufs, r.write_index) : r \in Unfinished})

(* No wake-up is lost: outside uv__stream_io an open stream with something *)
(* to write has its watcher active, and one with callbacks to make is in   *)
(* the pending queue.                                                      *)
Woken ==
  flags = "open" /\ frame = "none" =>
    /\ stream.write_queue # <<>> => stream.pollout
    /\ stream.write_completed_queue # <<>> => stream.pending

(* The assertion in uv_read_stop holds wherever net.js can call it, which  *)
(* is outside the write callbacks.                                         *)
ReadStopAllowed ==
  flags = "open" /\ frame = "none" /\ stream.pollout =>
    stream.write_queue # <<>> \/ stream.write_completed_queue # <<>>

(* When close_cb is called every write has had its callback. *)
Settled == flags = "UV_CLOSED" /\ frame = "none" =>
  \A id \in DOMAIN submitted :
    submitted[id].cb => \E i \in DOMAIN fired : fired[i].id = id

(* What holds of the stream's own state: types, the size of the queue, the *)
(* assertion of uv_read_stop, and that closing has settled every write.    *)
WriteInv == TypeOK /\ SizeExact /\ ReadStopAllowed /\ Settled

(* Every write that was not done at once has its callback called in the    *)
(* end, closed or not.                                                     *)
AllCalled ==
  \A id \in Ids :
    (id \in DOMAIN submitted /\ submitted[id].cb)
      ~> (\E i \in DOMAIN fired : fired[i].id = id)

=============================================================================
