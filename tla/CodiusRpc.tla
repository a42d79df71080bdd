----------------------------- MODULE CodiusRpc -----------------------------
(***************************************************************************)
(* The remote-call protocol between a sandboxed contract and the host that *)
(* started it.                                                             *)
(*                                                                         *)
(* The sandbox is one thread.  Its JavaScript makes synchronous calls      *)
(* (codius_sync_call in deps/codius-util/src/codius-util.c, Sync_Call in   *)
(* src/cpp/node_file.cc) and asynchronous ones (PostMessage in             *)
(* src/cpp/node_async.cc, uv__work_submit in deps/uv/src/threadpool.c).    *)
(* Both kinds travel over file descriptor 3.  The host (PassthroughApi in  *)
(* lib/api/passthrough.js) answers a synchronous call when its operation   *)
(* completes, and keeps the answer of an asynchronous one until the        *)
(* sandbox's event loop asks for it with a request_async_response message. *)
(*                                                                         *)
(* The stream to the sandbox is a sequence of units of 12 bytes, the size  *)
(* of a header: a reply is one header unit followed by the units of its    *)
(* body.  The host hands the header and the body to the socket in two      *)
(* writes, and a write reaches the sandbox in pieces of at most Chunk      *)
(* units.  The stream to the host is a sequence of whole requests; that    *)
(* the host reassembles them from any pieces is the subject of RpcParser.  *)
(***************************************************************************)
EXTENDS Naturals, Sequences

CONSTANTS
  Calls,                     \* the calls the contract can make, once each
  None,                      \* no call
  ULONG_MAX,                 \* the callback id that is never handed out
  MaxBody,                   \* bound: units in the body of a reply
  Chunk,                     \* units the socket moves at once
  CODIUS_MAX_RESPONSE_SIZE,  \* the largest body codius_sync_call accepts
  HostMayDie                 \* can the host process end under the sandbox?

ASSUME ConstantsAssumption ==
  /\ None \notin Calls
  /\ ULONG_MAX \in Nat \ {0}
  /\ MaxBody \in Nat \ {0}
  /\ Chunk \in Nat \ {0}
  /\ CODIUS_MAX_RESPONSE_SIZE \in Nat

ASSUME HostMayDieAssumption == HostMayDie \in BOOLEAN

VARIABLES
  pc,               \* where the sandbox's thread is
  phase,            \* which entry point its JavaScript was called from
  call,             \* the synchronous call in progress, or None
  impl,             \* the function that makes it
  rpc_header,       \* the local rpc_header of the read in progress
  got,              \* the body units read so far
  status,           \* what became of each call
  unique_id,        \* the next callback id
  async_callbacks,  \* the tree of (id, work) pairs, never pruned
  active_reqs,      \* the requests that keep the loop alive
  freed,            \* the requests AsyncAfter has deleted
  work,             \* the request whose callback is running, or None
  timer,            \* does an active handle keep the loop alive?
  up,               \* requests on their way to the host
  host,             \* is the host process running?
  pending,          \* operations the host has started
  async_responses,  \* answers waiting for request_async_response
  hostOut,          \* the host's writes that the socket has not taken yet
  down,             \* units the sandbox can read
  completed,        \* history: asynchronous calls in order of completion
  fired             \* history: calls in the order their callbacks ran

sandboxVars == <<pc, phase, call, impl, rpc_header, got, status>>
asyncVars   == <<unique_id, async_callbacks, active_reqs, freed, work, timer, fired>>
hostVars    == <<host, pending, async_responses, completed>>
streamVars  == <<up, hostOut, down>>
vars        == <<sandboxVars, asyncVars, hostVars, streamVars>>

----------------------------------------------------------------------------
(* Messages. *)

Header(id, n)  == [kind |-> "header", id |-> id, size |-> n]
BodyUnit(r, i) == [kind |-> "body", call |-> r, idx |-> i]
Body(r, n)     == [i \in 1..n |-> BodyUnit(r, i)]

Sizes    == 1..MaxBody
Ids      == 0..ULONG_MAX
Headers  == {Header(id, n) : id \in Ids, n \in 0..MaxBody}
Units    == Headers \cup {BodyUnit(r, i) : r \in Calls, i \in Sizes}
(* The message uv__codius_async_io sends to ask for an answer. *)
RequestAsyncResponse == [id |-> 0, call |-> None]
Requests == [id : Ids, call : Calls] \cup {RequestAsyncResponse}

(* What read() leaves in rpc_header at end of file: the header of the      *)
(* request that was just written, whose size is not zero.                  *)
Unread == Header(0, 1)

Lesser(a, b) == IF a =< b THEN a ELSE b

uv__loop_alive == active_reqs # {} \/ timer = "active"

ended == pc \in {"exited", "crashed"}

Init ==
  /\ pc = "js" /\ phase = "main"
  /\ call = None /\ impl = "codius_sync_call"
  /\ rpc_header = Unread /\ got = <<>>
  /\ status = [r \in Calls |-> "idle"]
  /\ unique_id = 1
  /\ async_callbacks = {} /\ active_reqs = {} /\ freed = {}
  /\ work = None /\ timer = "idle" /\ fired = <<>>
  /\ host = "up" /\ pending = {} /\ async_responses = <<>> /\ completed = <<>>
  /\ up = <<>> /\ hostOut = <<>> /\ down = <<>>

----------------------------------------------------------------------------
(* The contract's JavaScript. *)

(* A write on the socket: once the host is gone it raises SIGPIPE, whose   *)
(* default action nothing in the program changes.                          *)
Send(m, next) ==
  IF host = "up" THEN up' = Append(up, m) /\ pc' = next
                 ELSE UNCHANGED up /\ pc' = "crashed"

(* codius_sync_call and Sync_Call: write the request, then block reading   *)
(* the header of the reply.                                                *)
SyncCall(r, f) ==
  /\ pc = "js" /\ status[r] = "idle"
  /\ Send([id |-> 0, call |-> r], "sync_header")
  /\ call' = r /\ impl' = f
  /\ status' = [status EXCEPT ![r] = "sync"]
  /\ UNCHANGED <<phase, rpc_header, got, asyncVars, hostVars, hostOut, down>>

(* Faulty variant of PostMessage: the test for the last id is missing. *)
PostMessageUnchecked(r) ==
  /\ pc = "js" /\ status[r] = "idle"
  /\ active_reqs' = active_reqs \cup {r}
  /\ async_callbacks' = async_callbacks \cup {[id |-> unique_id, work |-> r]}
  /\ unique_id' = unique_id + 1
  /\ Send([id |-> unique_id, call |-> r], "js")
  /\ status' = [status EXCEPT ![r] = "async"]
  /\ UNCHANGED <<phase, call, impl, rpc_header, got, freed, work, timer, fired,
                 hostVars, hostOut, down>>

(* Faulty variant of PostMessage: uv__req_init does not register. *)
PostMessageUnregistered(r) ==
  /\ pc = "js" /\ status[r] = "idle" /\ unique_id # ULONG_MAX
  /\ async_callbacks' = async_callbacks \cup {[id |-> unique_id, work |-> r]}
  /\ unique_id' = unique_id + 1
  /\ Send([id |-> unique_id, call |-> r], "js")
  /\ status' = [status EXCEPT ![r] = "async"]
  /\ UNCHANGED <<phase, call, impl, rpc_header, got, active_reqs, freed, work, timer,
                 fired, hostVars, hostOut, down>>

(* PostMessage, uv_queue_work and uv__work_submit.  The request is         *)
(* registered, entered in the tree under a fresh id and written out.       *)
PostMessage(r) ==
  /\ pc = "js" /\ status[r] = "idle" /\ unique_id # ULONG_MAX
  /\ active_reqs' = active_reqs \cup {r}
  /\ async_callbacks' = async_callbacks \cup {[id |-> unique_id, work |-> r]}
  /\ unique_id' = unique_id + 1
  /\ Send([id |-> unique_id, call |-> r], "js")
  /\ status' = [status EXCEPT ![r] = "async"]
  /\ UNCHANGED <<phase, call, impl, rpc_header, got, freed, work, timer, fired,
                 hostVars, hostOut, down>>

(* uv__work_submit when the ids are used up: done() runs at once with no   *)
(* response, and AsyncAfter dereferences the empty result of parsing it.   *)
PostMessageNoIds(r) ==
  /\ pc = "js" /\ status[r] = "idle" /\ unique_id = ULONG_MAX
  /\ pc' = "crashed"
  /\ status' = [status EXCEPT ![r] = "error"]
  /\ UNCHANGED <<phase, call, impl, rpc_header, got, asyncVars, hostVars, streamVars>>

(* The contract starts a timer: an active handle of the loop. *)
StartTimer ==
  /\ pc = "js" /\ timer = "idle"
  /\ timer' = "active"
  /\ UNCHANGED <<sandboxVars, unique_id, async_callbacks, active_reqs, freed, work,
                 fired, hostVars, streamVars>>

(* Where the thread goes when JavaScript called from phase p returns. *)
ReturnTo(p) ==
  CASE p = "timer"      -> "io_poll"
    [] p = "callback"   -> "timers"
    [] p = "beforeExit" -> IF uv__loop_alive THEN "loop" ELSE "js"
    [] p = "exit"       -> "exited"
    [] OTHER            -> "loop"

(* The JavaScript returns to its caller.  AsyncAfter then deletes the      *)
(* request; Start goes on looping, or emits 'exit' when beforeExit left    *)
(* nothing alive, or ends after 'exit'.                                    *)
Return ==
  /\ pc = "js"
  /\ freed' = IF work = None THEN freed ELSE freed \cup {work}
  /\ work' = None
  /\ pc' = ReturnTo(phase)
  /\ phase' = IF phase = "beforeExit" /\ ~uv__loop_alive THEN "exit" ELSE phase
  /\ UNCHANGED <<call, impl, rpc_header, got, status, unique_id, async_callbacks,
                 active_reqs, timer, fired, hostVars, streamVars>>

(* The JavaScript throws and nothing catches it: FatalException ends the   *)
(* process.                                                                *)
Throw ==
  /\ pc = "js"
  /\ pc' = "crashed"
  /\ UNCHANGED <<phase, call, impl, rpc_header, got, status, asyncVars, hostVars, streamVars>>

----------------------------------------------------------------------------
(* The event loop: uv_run in mode UV_RUN_ONCE checks that something is     *)
(* alive ("loop"), runs the timers that are due, polls ("io_poll"), runs   *)
(* timers again ("timers") and returns.                                    *)

(* uv__run_timers calls a timer's callback. *)
TimerFires ==
  /\ pc \in {"loop", "timers"} /\ timer = "active"
  /\ timer' = "idle" /\ pc' = "js"
  /\ phase' = IF pc = "loop" THEN "timer" ELSE "lateTimer"
  /\ UNCHANGED <<call, impl, rpc_header, got, status, unique_id, async_callbacks,
                 active_reqs, freed, work, fired, hostVars, streamVars>>

(* uv__io_poll calls uv__codius_async_io, which asks for an answer and     *)
(* blocks reading the header of the reply.                                 *)
Poll ==
  /\ \/ pc = "io_poll"
     \/ pc = "loop" /\ uv__loop_alive
  /\ Send(RequestAsyncResponse, "poll_header")
  /\ UNCHANGED <<phase, call, impl, rpc_header, got, status, asyncVars, hostVars,
                 hostOut, down>>

(* No timer is due after the poll. *)
EndIteration ==
  /\ pc = "timers"
  /\ pc' = "loop"
  /\ UNCHANGED <<phase, call, impl, rpc_header, got, status, asyncVars, hostVars, streamVars>>

(* uv_run returned false: Start emits beforeExit. *)
EmitBeforeExit ==
  /\ pc = "loop" /\ ~uv__loop_alive
  /\ pc' = "js" /\ phase' = "beforeExit"
  /\ UNCHANGED <<call, impl, rpc_header, got, status, asyncVars, hostVars, streamVars>>

----------------------------------------------------------------------------
(* The sandbox reads replies. *)

(* Reading a header takes one unit, whatever it is. *)
ReadHeader(at) ==
  /\ pc = at /\ down # <<>>
  /\ down' = Tail(down)
  /\ got' = <<>>

(* codius_sync_call reads a header.  The size is checked against the limit *)
(* once the magic bytes are.                                               *)
SyncHeader ==
  /\ ReadHeader("sync_header") /\ Head(down).kind = "header"
  /\ rpc_header' = Head(down)
  /\ pc' = IF impl = "codius_sync_call" /\ Head(down).size > CODIUS_MAX_RESPONSE_SIZE
             THEN "crashed" ELSE "sync_body"
  /\ UNCHANGED <<phase, call, impl, status, asyncVars, hostVars, up, hostOut>>

(* The unit read is not a header.  codius_sync_call returns -1; Sync_Call  *)
(* goes on with a size made of text, larger than any stack.                *)
SyncBadMagic ==
  /\ ReadHeader("sync_header") /\ Head(down).kind # "header"
  /\ pc' = IF impl = "codius_sync_call" THEN "js" ELSE "crashed"
  /\ status' = [status EXCEPT ![call] = "error"]
  /\ call' = None
  /\ UNCHANGED <<phase, impl, rpc_header, asyncVars, hostVars, up, hostOut>>

(* What a synchronous call that returns these units has become. *)
Outcome(r, units) == IF units = Body(r, Len(units)) /\ Len(units) = rpc_header.size
                       THEN "ok" ELSE "wrong"

(* Reading n units of a body takes those that are there, at least one      *)
(* unless none is asked for.                                               *)
ReadBody(n) ==
  LET k == Lesser(n, Len(down)) IN
  /\ n > 0 => down # <<>>
  /\ down' = SubSeq(down, k + 1, Len(down))
  /\ got' = got \o SubSeq(down, 1, k)

(* codius_sync_call reads the body once and returns it; Sync_Call reads    *)
(* until it has as many bytes as the header announced, and parses them.    *)
SyncBody ==
  /\ pc = "sync_body"
  /\ ReadBody(rpc_header.size - Len(got))
  /\ \/ /\ impl = "codius_sync_call" \/ Len(got') = rpc_header.size
        /\ pc' = "js"
        /\ status' = [status EXCEPT ![call] = Outcome(call, got')]
        /\ call' = None
     \/ /\ impl = "Sync_Call" /\ Len(got') # rpc_header.size
        /\ UNCHANGED <<pc, status, call>>
  /\ UNCHANGED <<phase, impl, rpc_header, asyncVars, hostVars, up, hostOut>>

(* Sync_Call dereferences the empty result of parsing what is no answer. *)
SyncBodyCrash ==
  /\ pc = "sync_body" /\ impl = "Sync_Call"
  /\ ReadBody(rpc_header.size - Len(got))
  /\ Len(got') = rpc_header.size /\ Outcome(call, got') # "ok"
  /\ pc' = "crashed"
  /\ UNCHANGED <<phase, call, impl, rpc_header, status, asyncVars, hostVars, up, hostOut>>

(* uv__codius_async_io reads a header: no answer is waiting, or what was   *)
(* read is not a header.                                                   *)
PollNothing ==
  /\ ReadHeader("poll_header")
  /\ Head(down).kind = "header" => Head(down).size = 0
  /\ pc' = "timers"
  /\ UNCHANGED <<phase, call, impl, rpc_header, status, asyncVars, hostVars, up, hostOut>>

PollHeader ==
  /\ ReadHeader("poll_header") /\ Head(down).kind = "header" /\ Head(down).size # 0
  /\ rpc_header' = Head(down)
  /\ pc' = "poll_body"
  /\ UNCHANGED <<phase, call, impl, status, asyncVars, hostVars, up, hostOut>>

(* uv__codius_async_io reads the body once and calls done() of the entry   *)
(* with the header's id: uv__queue_done unregisters the request, AsyncAfter *)
(* parses the response and calls the contract's callback.                  *)
PollBody ==
  /\ pc = "poll_body"
  /\ ReadBody(rpc_header.size)
  /\ \E c \in async_callbacks :
       /\ c.id = rpc_header.id
       /\ active_reqs' = active_reqs \ {c.work}
       /\ work' = c.work
       /\ fired' = Append(fired, c.work)
       /\ status' = [status EXCEPT ![c.work] = Outcome(c.work, got')]
  /\ pc' = "js" /\ phase' = "callback"
  /\ UNCHANGED <<call, impl, rpc_header, unique_id, async_callbacks, freed, timer,
                 hostVars, up, hostOut>>

(* The response cannot be used: no entry has the header's id, the entry's  *)
(* request has been deleted, or the units read are not one whole answer    *)
(* and parsing them fails.                                                 *)
PollBodyCrash ==
  /\ pc = "poll_body"
  /\ ReadBody(rpc_header.size)
  /\ \A c \in async_callbacks :
       c.id = rpc_header.id => c.work \in freed \/ Outcome(c.work, got') # "ok"
  /\ pc' = "crashed"
  /\ UNCHANGED <<phase, call, impl, rpc_header, status, asyncVars, hostVars, up, hostOut>>

----------------------------------------------------------------------------
(* The host. *)

(* The socket takes the first Chunk units of the host's oldest write. *)
Deliver ==
  /\ host = "up" /\ hostOut # <<>>
  /\ LET w == Head(hostOut)
         k == Lesser(Chunk, Len(w))
     IN  /\ down' = down \o SubSeq(w, 1, k)
         /\ hostOut' = IF k = Len(w) THEN Tail(hostOut)
                       ELSE <<SubSeq(w, k + 1, Len(w))>> \o Tail(hostOut)
  /\ UNCHANGED <<sandboxVars, asyncVars, hostVars, up>>

(* The host's two writes of an answer. *)
Writes(id, r, n) == <<<<Header(id, n)>>, Body(r, n)>>

(* Faulty variant of HandlePoll: the answer is read but not shifted out. *)
HandlePollPeek ==
  /\ host = "up" /\ up # <<>> /\ Head(up) = RequestAsyncResponse
  /\ up' = Tail(up)
  /\ hostOut' = hostOut \o
       IF async_responses = <<>> THEN <<<<Header(0, 0)>>>>
       ELSE LET a == Head(async_responses) IN Writes(a.id, a.call, a.size)
  /\ UNCHANGED <<sandboxVars, asyncVars, hostVars, down>>

(* Faulty variant of HandlePoll: pop instead of shift. *)
HandlePollPop ==
  /\ host = "up" /\ up # <<>> /\ Head(up) = RequestAsyncResponse
  /\ up' = Tail(up)
  /\ IF async_responses = <<>>
       THEN /\ hostOut' = Append(hostOut, <<Header(0, 0)>>)
            /\ UNCHANGED async_responses
       ELSE LET n == Len(async_responses)
                a == async_responses[n]
            IN  /\ hostOut' = hostOut \o Writes(a.id, a.call, a.size)
                /\ async_responses' = SubSeq(async_responses, 1, n - 1)
  /\ UNCHANGED <<sandboxVars, asyncVars, host, pending, completed, down>>

(* handleCall on a request_async_response message: write the oldest        *)
(* answer, or an empty header.                                             *)
HandlePoll ==
  /\ host = "up" /\ up # <<>> /\ Head(up) = RequestAsyncResponse
  /\ up' = Tail(up)
  /\ IF async_responses = <<>>
       THEN /\ hostOut' = Append(hostOut, <<Header(0, 0)>>)
            /\ UNCHANGED async_responses
       ELSE LET a == Head(async_responses) IN
            /\ hostOut' = hostOut \o Writes(a.id, a.call, a.size)
            /\ async_responses' = Tail(async_responses)
  /\ UNCHANGED <<sandboxVars, asyncVars, host, pending, completed, down>>

(* handleCall on any other message: start the operation it names. *)
HandleCall ==
  /\ host = "up" /\ up # <<>> /\ Head(up) # RequestAsyncResponse
  /\ up' = Tail(up)
  /\ pending' = pending \cup {Head(up)}
  /\ UNCHANGED <<sandboxVars, asyncVars, host, async_responses, completed, hostOut, down>>

(* An operation completes: callback id 0 gets its answer written at once. *)
syncCallback(m, n) ==
  /\ host = "up" /\ m \in pending /\ m.id = 0
  /\ pending' = pending \ {m}
  /\ hostOut' = hostOut \o Writes(0, m.call, n)
  /\ UNCHANGED <<sandboxVars, asyncVars, host, async_responses, completed, up, down>>

(* Faulty variant of asyncCallback: the answer is written at once. *)
asyncCallbackUnasked(m, n) ==
  /\ host = "up" /\ m \in pending /\ m.id # 0
  /\ pending' = pending \ {m}
  /\ hostOut' = hostOut \o Writes(m.id, m.call, n)
  /\ completed' = Append(completed, m.call)
  /\ UNCHANGED <<sandboxVars, asyncVars, host, async_responses, up, down>>

(* Faulty variant of asyncCallback: the answer is not stored. *)
asyncCallbackLost(m, n) ==
  /\ host = "up" /\ m \in pending /\ m.id # 0
  /\ pending' = pending \ {m}
  /\ completed' = Append(completed, m.call)
  /\ UNCHANGED <<sandboxVars, asyncVars, host, async_responses, streamVars>>

(* An operation completes: any other id has its answer stored. *)
asyncCallback(m, n) ==
  /\ host = "up" /\ m \in pending /\ m.id # 0
  /\ pending' = pending \ {m}
  /\ async_responses' = Append(async_responses, [id |-> m.id, call |-> m.call, size |-> n])
  /\ completed' = Append(completed, m.call)
  /\ UNCHANGED <<sandboxVars, asyncVars, host, streamVars>>

(* The host process ends; what it had not handed to the socket is lost. *)
HostDies ==
  /\ HostMayDie /\ host = "up" /\ ~ended
  /\ host' = "gone"
  /\ UNCHANGED <<sandboxVars, asyncVars, pending, async_responses, completed, streamVars>>

----------------------------------------------------------------------------
(* Reading from a host that is gone: read() returns 0, or -1 once when the *)
(* host left requests unread, and the local variables keep their values.   *)

EndOfFile == host = "gone" /\ down = <<>>

SyncHeaderEof(failed) ==
  /\ pc = "sync_header" /\ EndOfFile
  /\ failed => up # <<>>
  /\ IF failed /\ impl = "codius_sync_call"
       THEN /\ pc' = "js" /\ call' = None
            /\ status' = [status EXCEPT ![call] = "error"]
            /\ UNCHANGED <<rpc_header, got>>
       ELSE /\ pc' = "sync_body" /\ rpc_header' = Unread /\ got' = <<>>
            /\ UNCHANGED <<call, status>>
  /\ UNCHANGED <<phase, impl, asyncVars, hostVars, streamVars>>

(* Faulty variant of SyncBodyEof: Sync_Call reads the body once as well. *)
SyncBodyEofOnce ==
  /\ pc = "sync_body" /\ EndOfFile
  /\ pc' = "js" /\ call' = None
  /\ status' = [status EXCEPT ![call] = "wrong"]
  /\ UNCHANGED <<phase, impl, rpc_header, got, asyncVars, hostVars, streamVars>>

(* codius_sync_call returns the length of a buffer it has not filled;      *)
(* Sync_Call reads for ever.                                               *)
SyncBodyEof ==
  /\ pc = "sync_body" /\ EndOfFile
  /\ IF impl = "codius_sync_call"
       THEN /\ pc' = "js" /\ call' = None
            /\ status' = [status EXCEPT ![call] = "wrong"]
       ELSE UNCHANGED <<pc, call, status>>
  /\ UNCHANGED <<phase, impl, rpc_header, got, asyncVars, hostVars, streamVars>>

PollEof ==
  /\ pc \in {"poll_header", "poll_body"} /\ EndOfFile
  /\ pc' = "timers"
  /\ UNCHANGED <<phase, call, impl, rpc_header, got, status, asyncVars, hostVars, streamVars>>

(* The sandbox's process has ended. *)
Ended == ended /\ UNCHANGED vars

----------------------------------------------------------------------------
Impls == {"codius_sync_call", "Sync_Call"}

JavaScript ==
  \/ \E r \in Calls, f \in Impls : SyncCall(r, f)
  \/ \E r \in Calls : PostMessage(r)
  \/ \E r \in Calls : PostMessageNoIds(r)
  \/ StartTimer
  \/ Return
  \/ Throw

Loop == TimerFires \/ Poll \/ EndIteration \/ EmitBeforeExit

Reads ==
  \/ SyncHeader \/ SyncBadMagic \/ SyncBody \/ SyncBodyCrash
  \/ PollNothing \/ PollHeader \/ PollBody \/ PollBodyCrash
  \/ \E failed \in BOOLEAN : SyncHeaderEof(failed)
  \/ SyncBodyEof \/ PollEof

Host ==
  \/ Deliver \/ HandlePoll \/ HandleCall
  \/ \E m \in pending, n \in Sizes : syncCallback(m, n)
  \/ \E m \in pending, n \in Sizes : asyncCallback(m, n)
  \/ HostDies

Next == JavaScript \/ Loop \/ Reads \/ Host \/ Ended

Spec == Init /\ [][Next]_vars

(***************************************************************************)
(* Fairness.  The thread of the sandbox keeps running: uv_run's steps and  *)
(* reads that have something to return happen, and a contract's JavaScript *)
(* returns.  The host's event loop handles what arrives, the socket moves  *)
(* what was written, and each operation it started completes.              *)
(***************************************************************************)
Fairness ==
  /\ WF_vars(Return) /\ WF_vars(Loop) /\ WF_vars(Reads)
  /\ WF_vars(Deliver) /\ WF_vars(HandlePoll) /\ WF_vars(HandleCall)
  /\ \A r \in Calls : WF_vars(\E m \in pending, n \in Sizes :
                                 m.call = r /\ (syncCallback(m, n) \/ asyncCallback(m, n)))

FairSpec == Spec /\ Fairness

----------------------------------------------------------------------------
(* Properties. *)

Statuses == {"idle", "sync", "async", "ok", "wrong", "error"}

WaitsForHost == {"sync_header", "sync_body", "poll_header", "poll_body"}
RunsFreely   == {"js", "loop", "io_poll", "timers"}

SandboxTypes ==
  /\ pc \in RunsFreely \cup WaitsForHost \cup {"exited", "crashed"}
  /\ phase \in {"main", "timer", "lateTimer", "callback", "beforeExit", "exit"}
  /\ call \in Calls \cup {None}
  /\ impl \in Impls
  /\ rpc_header \in Headers
  /\ got \in Seq(Units)
  /\ status \in [Calls -> Statuses]

AsyncTypes ==
  /\ unique_id \in 1..ULONG_MAX
  /\ async_callbacks \subseteq [id : Ids, work : Calls]
  /\ active_reqs \subseteq Calls
  /\ freed \subseteq Calls
  /\ work \in Calls \cup {None}
  /\ timer \in {"idle", "active"}
  /\ fired \in Seq(Calls)

HostTypes ==
  /\ host \in {"up", "gone"}
  /\ pending \subseteq [id : Ids, call : Calls]
  /\ async_responses \in Seq([id : Ids, call : Calls, size : Sizes])
  /\ completed \in Seq(Calls)

StreamTypes ==
  /\ up \in Seq(Requests)
  /\ hostOut \in Seq(Seq(Units))
  /\ down \in Seq(Units)

(* Every variable has the type its declaration says; in particular ids     *)
(* stay in range and only whole units are ever on their way.               *)
TypeOK == SandboxTypes /\ AsyncTypes /\ HostTypes /\ StreamTypes

(* A call never returns, and a callback never gets, anything but the whole *)
(* answer to its own request: codius_sync_call and uv__codius_async_io     *)
(* match answers to requests by nothing but their place in the stream.     *)
OwnReply == \A r \in Calls : status[r] # "wrong"

(* While the sandbox runs freely nothing on its way to it is left over and *)
(* no synchronous request is unanswered, so the next header it reads is    *)
(* the one written for its next request.                                   *)
Lockstep ==
  pc \in RunsFreely =>
    /\ down = <<>> /\ hostOut = <<>>
    /\ \A i \in DOMAIN up : up[i].id # 0
    /\ \A m \in pending : m.id # 0

(* When uv__codius_async_io has read a header that announces an answer,    *)
(* find_callback finds an entry and its request has not been deleted.      *)
Dispatchable ==
  pc = "poll_body" =>
    \E c \in async_callbacks : c.id = rpc_header.id /\ c.work \in active_reqs \ freed

(* Callbacks run in the order in which the host completed the operations,  *)
(* none skipped and none repeated: the host's _async_responses queue and   *)
(* the one-answer-per-poll exchange keep that order.  Each finds its       *)
(* request alive.                                                          *)
CallbackOrder ==
  /\ Len(fired) =< Len(completed)
  /\ \A i \in DOMAIN fired : fired[i] = completed[i]
  /\ Dispatchable

(* A callback runs at most once: AsyncAfter deletes the request, and the   *)
(* entry that points to it is never taken out of async_callbacks.          *)
CallbackOnce == \A i, j \in DOMAIN fired : fired[i] = fired[j] => i = j

(* Start emits 'exit' on its own only when every asynchronous call made so *)
(* far has run its callback.                                               *)
ExitComplete ==
  [][phase # "exit" /\ phase' = "exit" => \A r \in Calls : status[r] # "async"]_vars

(* The first call to get something else than its answer gets it from a     *)
(* function that reads a body once: uv__codius_async_io or, also when the  *)
(* host has gone, codius_sync_call, and it got less than the header says.  *)
(* The loop in Sync_Call never starts the confusion.                       *)
FirstWrongIsShort ==
  [][\A r \in Calls : (\A s \in Calls : status[s] # "wrong") /\ status'[r] = "wrong" =>
        /\ Len(got') < rpc_header.size
        /\ status[r] = "sync" => impl = "codius_sync_call"]_vars

(* A synchronous call returns its answer, and an asynchronous one has its  *)
(* callback run with it, unless the process ends first: no answer is lost  *)
(* between _async_responses, the poll and the tree of callbacks.           *)
Answered ==
  \A r \in Calls : status[r] \in {"sync", "async"} ~> (status[r] = "ok" \/ ended)

----------------------------------------------------------------------------
(* The protocol implements CallService when replies are delivered whole    *)
(* and the host stays.                                                     *)

(* Is the answer to the synchronous call r still to be written? *)
Unanswered(r) ==
  LET m == [id |-> 0, call |-> r] IN m \in pending \/ \E i \in DOMAIN up : up[i] = m

Undelivered == SubSeq(completed, Len(fired) + 1, Len(completed))

StageOf(r) ==
  CASE status[r] = "sync"  -> IF Unanswered(r) THEN "sync" ELSE "done"
    [] status[r] = "async" -> IF \E i \in DOMAIN Undelivered : Undelivered[i] = r
                                THEN "done" ELSE "async"
    [] status[r] = "ok"    -> "returned"
    [] status[r] = "error" -> "failed"
    [] OTHER               -> "idle"

Service == INSTANCE CallService
  WITH stage  <- [r \in Calls |-> StageOf(r)],
       queue  <- Undelivered,
       thread <- IF ended THEN "ended" ELSE call

(* Whatever the channel, the polls and the queues do, the contract sees    *)
(* the service of CallService.                                             *)
ImplementsService == Service!Spec

=============================================================================
