# TLA+ models of the Codius sandbox for Node

Codius runs a contract, a Node program, in a Native Client sandbox that has no
files, no network and no threads.  Whatever the contract needs of the outside
world it asks of a host process, over one Unix socket.  This directory models
that exchange and what is built on it: remote calls, the framing of requests,
TCP sockets made out of remote calls, the write queue of a TCP stream, and the
event loop with the timers, immediates and ticks that run JavaScript in it.  It
also models the two concurrent programs that the repository is tested and built
with: the test runner and the loading part of gyp.

File names below are relative to `src/`, the repository's root.

## 1. Inventory

### Parts of the system

| part | state it keeps | operations | source |
|---|---|---|---|
| remote calls, sandbox side | next callback id, tree of callbacks, active requests | `codius_sync_call`, `Sync_Call`, `uv__work_submit`, `uv__codius_async_io`, `AsyncAfter` | `deps/codius-util/src/codius-util.c`, `src/cpp/node_file.cc`, `deps/uv/src/threadpool.c`, `src/cpp/node_async.cc` |
| remote calls, host side | operations under way, queue `_async_responses`, table `_connections` | `handleCall`, `syncCallback`, `asyncCallback` | `lib/api/passthrough.js` |
| request framing | bytes awaited, current callback, callback id | `onheader`, `onbody` | `lib/binary/rpc_parser.js` |
| host sockets | buffer, connections to accept, end of stream | `connect`, `bind`, `accept`, `read`, `write`, `close`; events of `net` | `lib/mock/fake_socket.js` |
| TCP streams of the sandbox | descriptor, watcher, write queues, flags | `uv_tcp_connect`, `uv_tcp_listen`, `uv__server_io`, `uv__read`, `uv_write2`, `uv_try_write`, `uv_close` | `deps/uv/src/tcp.c`, `deps/uv/src/stream.c`, `src/cpp/stream_wrap.cc` |
| event loop of the sandbox | time, timer heap, watchers, closing handles | `uv_run`, `uv__run_timers`, `uv__io_poll`, `uv__run_check`, `uv__run_closing_handles` | `deps/uv/src/core.c`, `deps/uv/src/codius-core.c`, `deps/uv/src/timer.c` |
| nextTick, immediates, JavaScript timers | tick queue and index, queue of immediates, lists of timers by delay | `setTimeout`, `setInterval`, `setImmediate`, `nextTick` and what clears them; `listOnTimeout`, `processImmediate`, `_tickCallback` | `src/js/node.js`, `src/js/timers.js`, `src/cpp/timer_wrap.cc` |
| start and exit | phase of the process | `Start`, `MakeCallback`, `EmitBeforeExit`, `FatalException` | `src/cpp/node.cc` |
| test runner | queue of cases, lock, counters, child processes | `Run`, `RunSingle`, `RunProcess` | `tools/test.py` |
| gyp, loading | files to load, files scheduled, calls pending, error | `LoadTargetBuildFilesParallel`, `LoadTargetBuildFileCallback` | `tools/gyp/pylib/gyp/input.py` |
| gyp, dependency graph | dependency lists, nodes, flat list | the passes of `Load` over dependencies | `tools/gyp/pylib/gyp/input.py` |
| JSON field finder | none | `codius_parse_json_int` and others | `deps/codius-util/src/json.c` |
| launcher | one child process | `run`, `kill` | `sandbox.js` |
| the rest | | bindings, Node's library, V8, OpenSSL, the rest of gyp and others | `src/cpp`, `src/js`, `deps`, `tools` |

### How they interact

* The sandbox is **one thread**.  A synchronous call writes a request on
  descriptor 3 and blocks in `read` until something comes back.  An
  asynchronous call writes a request with a callback id and goes on.
* The host never calls the sandbox.  It answers a synchronous call when the
  operation completes; it keeps the answer of an asynchronous one in
  `_async_responses` until the event loop asks for it with
  `request_async_response`, once in each iteration.
* Both kinds of answer arrive on the **same descriptor**.  A synchronous answer
  has callback id 0 and nothing that names its request.
* A TCP system call in the sandbox is a synchronous call to the host, which
  keeps a `FakeSocket` for each descriptor.  Node's `net` events fill it at any
  time; the sandbox finds out by polling.
* JavaScript runs inside all of this: in timers, in callbacks of calls, in read
  and write callbacks, in `beforeExit` and `exit` handlers.  From each of these
  places it can call, write, close or set timers again, and from each of them it
  can throw, which unwinds frames of `timers.js` and `node.js` half done.
* Most callbacks go through `MakeCallback`, which drains the tick queue
  afterwards; that of an asynchronous call (`AsyncAfter`) does not.
* The test runner is several **threads** with one queue and one lock, and a
  process for each test.  gyp's loader is a main thread, the threads of a
  `multiprocessing.Pool` and its worker **processes**, with one condition.

### What is hard

Answers that are matched by their place alone; operations that complete in any
order; answers in pieces; the end of the host in the middle of an exchange; the
end of the loop while something is owed; connections, data, resets and ends of
streams between polls; a thread that waits for an answer nobody sends; write
callbacks that write and close; timers cleared and set while their list is run,
and exceptions in the middle of it; a deadline that passes while a test exits;
threads and processes that die with a lock, a case or a call; results that ask
for more work.  `PROJECT.json` lists these as hazards, each with its line and
the properties that would show it going wrong.

### What makes each part correct

| part | properties |
|---|---|
| remote calls | each call gets its own whole answer (`OwnReply`, `Lockstep`), callbacks run once and in order, through live requests (`CallbackOnce`, `CallbackOrder`); the process does not finish while a callback is owed (`ExitComplete`); every call is answered (`Answered`); together, the contract sees `CallService` (`ImplementsService`) |
| framing | requests come out as they went in, in order, none lost (`FramesIntact`, `ParserInv`, `AllEmitted`) |
| sockets | a descriptor stands for one live socket (`BridgeInv`), data arrive in order and before the end (`StreamIntact`) and are read in the end (`DataRead`), and a client ends the host only by two calls of its own (`EndedByCall`) |
| write queue | data leave in order (`InOrder`), callbacks tell the truth (`CallbacksTruthful`) and all run (`AllCalled`), sizes and assertions hold (`WriteInv`), no wake-up is lost (`Woken`) |
| event loop, timers, ticks | nothing that is set is forgotten (`LoopInv`, `TicksDrained`, `NothingOwed`), early or repeated (`OnTime`), or out of order (`TickOrder`), and at one time of the clock nothing keeps the loop from going round (`Progress`) |
| test runner | counters are exact (`RunnerInv`), the verdict is true of what was counted (`VerdictSound`), no process is left (`NoOrphans`), the run ends (`RunEnds`) |
| loading | each file once (`LoadedOnce`), calls counted exactly (`LoadInv`), the outcome of the serial loader (`ImplementsLoader`), an end (`LoadEnds`) |
| dependency graph | all come after their dependencies (`GraphInv`), cycles are found exactly (`CycleFound`), settings come once from where they should (`SettingsOnce`), rewritten dependencies build in order (`BuildOrder`) and link completely (`LinkComplete`) |

## 2. Modules

| module | models | uses |
|---|---|---|
| `CodiusRpc` | the remote-call protocol, both processes and the stream between them | `CallService`, by refinement |
| `CallService` | abstract: what the protocol promises a contract | |
| `RpcParser` | the host's request parser | |
| `NetBridge` | TCP over remote calls, both sides and the network | |
| `StreamWrite` | the write queue of one TCP stream | |
| `NodeLoop` | the event loop and what runs JavaScript in it | |
| `TestRunner` | the test runner | |
| `GypLoad` | gyp's parallel loader of build files | `BuildFileLoader`, by refinement |
| `BuildFileLoader` | abstract: loading of build files, as the serial loader does it | |
| `GypGraph` | gyp's passes over the dependencies of targets | |
| `CodiusRpc_proofs`, `RpcParser_proofs`, `NetBridge_proofs`, `StreamWrite_proofs`, `NodeLoop_proofs`, `TestRunner_proofs`, `GypLoad_proofs`, `GypGraph_proofs` | theorems | the module of that name |
| `MC...` | instances for TLC; symmetry sets | the module of that name |

The modules stand on each other by assumption.  `CodiusRpc` lets the host take
whole requests off the stream because `RpcParser` shows that it does; its
requests are not empty.
`NetBridge`, `StreamWrite` and `NodeLoop` make a synchronous call one exchange
because `CodiusRpc` shows that it returns its own answer.  `StreamWrite` looks
inside `uv_write`, which is one call in `NetBridge`.  `NodeLoop` has the order
in which the loop calls JavaScript, where the others have JavaScript that may
act at any place the loop can call it from.  `GypGraph` starts from the build
files that `GypLoad` shows to be loaded.

A definition whose comment begins "Faulty variant of" is a wrong form of the
definition after it and is used by no action.  Put in its place it breaks a
property, which shows that the property depends on that piece of code.

### CodiusRpc

The sandbox's thread is `pc` (where it is) and `phase` (the entry point its
JavaScript was called from: the main script, a timer before or after the poll, a
callback, `beforeExit`, `exit`).

| action | code |
|---|---|
| `SyncCall(r, f)` | `codius_sync_call` or `Sync_Call` (`impl` tells which) write the request |
| `SyncHeader`, `SyncBadMagic` | `read` of the header; magic bytes that are wrong |
| `SyncBody`, `SyncBodyCrash` | `read` of the body: once in `codius_sync_call`, in a loop in `Sync_Call`; `Outcome` says what JavaScript is given |
| `PostMessage`, `PostMessageNoIds` | `uv__work_submit`, and its refusal at `ULONG_MAX` |
| `Poll`, `PollNothing`, `PollHeader`, `PollBody`, `PollBodyCrash` | `uv__codius_async_io`, `find_callback`, `AsyncAfter` |
| `SyncHeaderEof`, `SyncBodyEof`, `PollEof` | `read` returns 0 after the host has ended |
| `StartTimer`, `TimerFires`, `EndIteration`, `EmitBeforeExit`, `Return`, `Throw` | `uv_run`, `Start`, `FatalException` |
| `HandleCall`, `HandlePoll` | the host's `handleCall` |
| `syncCallback`, `asyncCallback` | an operation of the host completes |
| `Deliver`, `HostDies` | external: the socket, the host's process |

Data are abstracted to a call's name, an id and a size.  The stream towards the
sandbox is made of units of 12 bytes, the size of a header, so that a body that
was cut short leaves something that is read as a header.  The history variables
`completed` and `fired` are read by the properties only.

`CallService` has no channel: a call is made, carried out, and returns or runs
its callback, in the order of carrying out.  The mapping takes `queue` to be the
calls completed and not yet fired, and `stage` from `status` and from whether
the host still has to answer.

### RpcParser

A byte is known by the request, part and place it was written at.  `onheader`
and `onbody` are the code; `Transform` and `Process` are the byte counting of
the package `stream-parser` (external).  `Transform(k)` hands over a piece of
any length.  A body may be empty, since `postMessage` takes any string
(`src/cpp/node_async.cc:135`); a header of size 0 makes `_bytes` throw, which
ends the host (`callback = "ended"`).  `FramesIntact` holds to that point and
`AllEmitted` is about the requests before it.

### NetBridge

`handle` is the sandbox's side, `_connections` the host's, `net` the network.
A call has three steps: the sandbox calls (`NewSocket`, `uv__io_poll`,
`uv_write`, `uv_close`), the host handles it (`handleSocket`, `handleConnect`,
and so on), and the sandbox goes on (`AfterSocket`, `AfterRead`, and so on);
network events fall between any two of them: data, ends, resets, refusals, a
server that cannot listen.  `frame` remembers the libuv
function under the JavaScript that runs, since `uv__read` and `uv__server_io` go
on after their callbacks.  The fall-through from the case `'accept'` of
`handleCall` into the next case is in `handleAccept`, as the code has it.  The
data of a connection are the numbers 1, 2, and so on; BufLen and MaxReads stand
for the 64 kB buffer and the 32 reads in a row.  `NewSocket` takes the
family of the address; `FakeSocket`'s constructor throws for any but `AF_INET`,
uncaught, and the host ends (`handleSocket`).  `uv_tcp_getpeername` is three
calls, between which the peer may end: `getRemoteFamily` then throws
in the host, and a port or an address that is undefined aborts the sandbox, as
an address of 15 characters always does (`PeernameAborts`).  AllowHalfOpen also
stands for a stream that its owner has paused with data unread.  A behaviour
ends where the host ends.

### StreamWrite

Functions of `stream.c` are operators from one state of the stream to the next,
under their own names.  `pc` and `frame` say whether JavaScript or
`uv__write_callbacks` runs and who called the latter; `phase` is the phase of
`uv_run`.  JavaScript writes (`Write`, `Writev`) or closes (`uv_close`) in every
phase and inside every write callback.  Buffers are lengths; the synchronous
call that carries one of them always takes all of it, as `uv__write` assumes by
setting `n` to the length.  The size of what a request has left is the number
of bytes in its buffers from `write_index` on (`Bytes`, `Count`), not a sum by
recursion, so that it can be reasoned about.  `uv_try_write` takes its request
back from the end of the queue it is in (`Unqueue`), which is where it has just
been put.

### NodeLoop

`clock` is the time outside, `loop.time` the time that libuv has read.  `base`
is the way in which libuv has called JavaScript, `stack` the frames that lie
above it: functions of the contract (`Js`), `listOnTimeout` at work on a list,
`processImmediate` with the rest of its queue, `_tickCallback`.  `phase` is the
phase of `uv_run`, or of `Start` around it.

| action | code |
|---|---|
| `setTimeout`, `setInterval`, `setImmediate`, `nextTick`, `clearTimeout`, `clearInterval`, `clearImmediate` | the contract's calls, from any function of it |
| `PostMessage`, `OpenSocket`, `CloseSocket` | what else keeps the loop alive |
| `Return`, `ThrowCaught`, `ThrowFatal` | a function returns; it throws, with an `uncaughtException` handler or without one |
| `Unwind`, `_fatalException` | the exception leaves one frame, whose `finally` clause (`Finally`) runs; it has left them all, and an immediate is set for the ticks (`base = "throw"` until then) |
| `listOnTimeout`, `processImmediate`, `_tickCallback`, `CallReturns` | one turn of each loop of `timers.js` and `node.js`; what `MakeCallback` does when its function returns |
| `uv_run`, `uv__run_timers`, `EndTimers`, `PollAsync`, `PollSocket`, `uv__run_check`, `uv__run_closing_handles`, `uv__update_time` | the phases |
| `AfterBeforeExit`, `Exit` | `Start` and `EmitExit` |
| `TimePasses` | external: the clock |

`uv_timer_start`, `active`, `unenroll` and others are operators from one state
of `loop` to the next.  The linked lists of `_linklist.js` are sequences.

### TestRunner

`pc[th]` is the place of thread `th` in `RunSingle` or `Run`.  A counter is read
(`Read`) and written back (`Store`) in two steps, as Python does it, so that the
lock matters.  `Dies` is an exception that leaves `RunSingle`; `Interrupt` the
user's.  `Exits` and `Deadline` are the process's end and the passing of time,
which race.  A test is abstracted to its exit code.

### GypLoad and BuildFileLoader

The main thread is `pc`; `holder` is the condition's lock; each call of
`apply_async` goes through the stages queued, sent, running, result, handling,
done.  A call's arguments are pickled when it is sent and not when it is made
(`Send`), which is when `known` is taken.  What a file evaluates to is the list
of files that it refers to, or an error.  `BuildFileLoader` is
`LoadTargetBuildFile` without an order: it loads any file that is asked for.

### GypGraph

One action for each pass of `Load`, in its order; `Flatten(n)` is one turn of the
loop of `FlattenToList`, for any node of the set that it pops from.  The walks
over the graph (`DeepDependencies`, `AddImported`, `LinkFrom`, `FindCycles`) are
recursive functions, as in the code; the properties define the same sets as
least closed sets.  `merged` records from which targets settings are merged
into which, and leaves the settings out.  `Missing` are names in the lists of
targets, or among the root targets, that no file has; where one is left when the
nodes are made or the targets are pruned, `MakeNodes` or `PruneUnwantedTargets`
ends in the `GypError` of the code.  `bare` are files without `targets`: a
wildcard for one is a `KeyError`, which gyp does not catch.

## 3. Runs

| run | instance | shows | distinct states |
|---|---|---|---|
| `rpc` | 3 calls, ids for 2, bodies of up to 2 units delivered whole | `TypeOK`, `OwnReply`, `Lockstep`, `CallbackOrder`, `ExitComplete`, `ImplementsService`, `Answered` | 246,337 |
| `rpc_failures` | 3 calls, bodies in pieces, the host may end | `CallbackOnce`, `FirstWrongIsShort` | 996,215 |
| `rpc_short_read` | 2 calls, bodies in pieces | **violates** `OwnReply` | |
| `parser` | 3 requests, headers of 3 bytes, bodies of up to 2 | `ParserInv`, `FramesIntact`, `AllEmitted` | 23,821 |
| `net` | a client, a server, an accepted connection, 2 data each | `BridgeInv`, `StreamIntact`, `EndedByCall`, `DataRead` | 851,044 |
| `net_accept` | two connections to one server | **violates** `ConnectionKept` | |
| `net_refused` | one client | **violates** `ConnectReturns` | |
| `stream_write` | 4 writes of up to 2 buffers of length 0 or 2 | `WriteInv`, `InOrder`, `CallbacksTruthful`, `Woken`, `AllCalled` | 309,775 |
| `node_loop` | 2 timers, delays 1 and 2, 4 operations, time 0 to 3 | `LoopInv`, `TicksDrained`, `NothingOwed`, `OnTime`, `TickOrder`, `Progress` | 1,698,555 |
| `test_runner` | 3 threads, 2 cases, one fault | `RunnerInv`, `VerdictSound`, `NoOrphans`, `RunEnds` | 599,300 |
| `gyp_load` | every project of 3 files with given lists, 2 workers, one death | `LoadInv`, `LoadedOnce`, `ImplementsLoader`, `LoadEnds` | 466,249 |
| `gyp_graph` | 4 targets in 3 files, a file without targets, 2 missing names | `GraphInv`, `CycleFound`, `SettingsOnce`, `BuildOrder`, `LinkComplete` | 378,551 |

An invariant whose name ends in `Inv` joins the module's type invariant with the
counts and assertions that its other properties rest on: `InSync` in
`ParserInv`; `OwnSocket` in `BridgeInv`; `SizeExact`, `ReadStopAllowed` and
`Settled` in `WriteInv`; `Armed`, `ImmediatesArmed` and `ListOrder` in
`LoopInv`; `TallyExact` in `RunnerInv`; `PendingExact` in `LoadInv`; `FlatOrder` and
`CyclesReported` in `GraphInv`.

Why the bounds are enough for the cases of interest:

* *Calls.*  With three calls one can be in progress while two operations
  complete in either order, so an answer can be taken for another's and two
  answers can wait in `_async_responses`.  `ULONG_MAX = 3` gives two ids: the
  third call meets the refusal.  In `rpc_failures` it is 4, so that three
  callbacks can run.
* *Bodies.*  Two units and a chunk of one: a body can be cut, and what is left
  over is read as a header and then as a body.
* *Parser.*  A piece can end inside a header, between header and body, and span
  two requests; with three requests an error of the first shows in the others.
  Bodies of 0, 1 and 2 bytes in every order put an empty one first, in the
  middle and last.
* *Sockets.*  One handle of each kind makes three descriptors; two data and a
  buffer of one cut each `data` event; one read in a row is the limit, so that
  what is left waits for the next poll.  Deadlock is not checked: a contract may
  stop, and a thread that waits for a refused connection does stop.  `Named`
  has the client alone: only there can the name of a peer end a host that no
  server would have ended.
* *Writes.*  With four writes, two empty requests can be queued with size 0
  behind one that is half written, which is where `uv_try_write` finds a queue
  that is not empty although its size is 0.
* *Loop.*  Two timers share a list or have one each; with delays of 1 and 2 the
  later one can be due first, together with the other, or while the other's
  function runs.  Four operations are enough for a timer that throws with
  another behind it and a tick, and for an immediate that clears another and
  sets a third.  `CompactAt = 1`, for 1e4, shortens the tick queue at the first
  chance.  `LastStart` keeps due times below the end of the clock.
* *Test runner.*  With three threads and two cases, one thread always finds the
  queue empty; two count at once; one fault can hit any of them anywhere.
* *Loading.*  Three files make chains, cycles, self-references, two files that
  ask for a third, and one file that asks twice.  Two workers return their
  results out of order.  Deadlock is not checked: `Hung` says where it may stop.
* *Graph.*  Every graph of three targets over a fourth has every cycle of up to
  three, with and without a target that leads into it; the acyclic projects have
  diamonds of every type.  A missing name can be excluded before it is looked
  for, be of a file that has targets or of one that has none, and be missed
  between files, between targets or never; a wildcard can be of its own file, of
  a file without `targets`, or of both.  Deadlock is not checked: `Load` ends.

`CallSymmetry` is used in `rpc_failures`, for safety only: the calls are
interchangeable in the specification and in both properties.

### Fairness

* `CodiusRpc`: the sandbox's thread runs (`Loop`, `Reads`), its JavaScript
  returns (`Return`), the socket moves what was written (`Deliver`), the host's
  event loop handles what arrives (`HandlePoll`, `HandleCall`) and every
  operation it started completes.  Node calls the callback of each `fs`, `dns`
  and `crypto` operation used in `passthrough.js`.  `Answered` allows for the
  end of the process, since a contract may throw or exit.
* `RpcParser`: the socket passes on what it holds, and a piece is finished.
* `NetBridge`: weak fairness of the host and of the sandbox's continuation, and
  strong fairness of `Return` and of the poll of each stream: `uv__io_poll` goes
  through all watchers in each iteration, however often JavaScript acts between
  two of them.
* `StreamWrite`: weak fairness of the loop's steps.  JavaScript steps are
  bounded by the number of writes, so they cannot starve it.
* `NodeLoop`: weak fairness of the contract's returns, of the library's loops
  and of the thread.  None of time.  `Progress` is about a clock that stands in
  the end and a contract that sets nothing more, which is what the run's clock
  (0 to 3) and its four operations come to.  It is not true while functions take
  time: an interval is due again its delay after its function has returned,
  `Timer.now` moves the loop's time inside `uv__run_timers`, and of three
  intervals whose functions take longer than their delays one is always due, so
  the poll is never reached.  The second disjunct of `Progress` excepts this.
* `TestRunner`: weak fairness of each thread, of deadlines and of the end of a
  process that was killed.  A test need not end by itself.
* `GypLoad`: weak fairness of the main thread and of the pool.

## 4. Findings

1. `rpc_short_read`: `codius_sync_call` reads a body once
   (`deps/codius-util/src/codius-util.c:71`) and returns the announced length.
   A body in two pieces is returned with its end missing, and the end is taken
   for the next header.  `uv__codius_async_io` does the same; `Sync_Call` loops.
   `FirstWrongIsShort` shows that every confusion starts at one of these two
   functions (proved); with bodies delivered whole and a host that stays there is none
   (`OwnReply`, proved).  At end of file `codius_sync_call` does not fail
   either: `rpc_header` still holds the request's header, and a buffer that was
   never filled is returned.
2. `net_accept`: `case 'accept'` in `handleCall` has no `break`, so `accept` is
   called twice and a second waiting connection is dropped.
3. `net_refused`: a refused connection leaves the sandbox's thread waiting.

What the models also show, as an exception that a property states rather than as
a run of its own:

* Closing a server calls `destroy`, which a `net.Server` does not have; a reset
  of an accepted connection and a server that cannot listen have no `'error'`
  listener; nor is there one for a write to an accepted connection whose peer has
  ended.  Each ends the host (`lib/mock/fake_socket.js:134`, `:81` and `:127`).
  `test/simple/test-net-server-close.js` closes a server.
* A contract without servers ends the host too, by connecting to an IPv6 address
  (`lib/mock/fake_socket.js:4`) or by asking for the address of a peer that has
  gone (`:138`).  `EndedByCall` names these two calls, and shows that there is no
  other way: no event of a client's connection does it.  A server that listens
  on no address meets the first before anything else, since `bind6('::')` is
  tried first (`src/js/net.js:1075`) and the host does not live to the fallback.
* An empty string given to `postMessage` ends the host
  (`lib/binary/rpc_parser.js:31`; `InSync`, `AllEmitted`).
* Intervals whose functions take time can keep the loop from its poll
  (`deps/uv/src/timer.c:151`; `Progress`, see Fairness).
* The end of a stream comes as -4095 and not as 0, so `uv__read` treats it as an
  error; a contract that keeps the stream half open fails the assertion at
  `deps/uv/src/stream.c:924` (`pc = "aborted"` in `DataRead`).
* Ticks that the callback of an asynchronous call queues wait for the next
  callback of another kind (`src/cpp/node_async.cc:71`; `TicksDrained`).
* The timers of different lists that are due together run in the order in which
  libuv's timers were started, which need not be the order of `setTimeout`:
  `ListOrder` speaks of one list.
* When a worker of the test runner dies, the case it had in hand is missing from
  the verdict (`VerdictSound`); when it dies printing, it dies with the lock and
  the run hangs (`Abandoned`).  After an interrupt the other threads go on
  through the queue, since `terminate` is not set (`NoOrphans`).
* gyp waits for ever for a worker that died, and may do so when it is
  interrupted while a callback waits for the condition (`Hung`); interrupted
  before its first call, it fails in its handler, since there is no pool.
* An export that is excluded from the dependencies after the check that it is
  one escapes the order of the build and the pruning (`ExportsAreDependencies`,
  the hypothesis of `BuildOrder`).  A cycle that no file without dependencies
  leads to is an error without a cycle in its message (`CyclesReported`).
  `dependencies/`, a list of regular expressions, fails in
  `QualifyDependencies`, which takes their parts for names.

No run is about this one: `DIFFERENCES` says that asynchronous calls use
descriptor 3 and synchronous ones descriptor 4, while the code uses 3 for both.

## 5. Proofs

The proofs hold for every value of the constants that the module's assumption
allows: any set of calls, handles, threads or files, any size of body, header,
buffer or queue.  The assumptions (`ConstantsAssumption`, `HostMayDieAssumption`
and so on) are types, non-emptiness and names that differ; those of one theorem
alone are among its hypotheses.  Each proofs module starts with its inductive
invariant, followed by a lemma for each action or group of actions, and ends
with the theorems.  TLC has checked each invariant on the instance of the
module's passing run.

| theorem | says | hypotheses |
|---|---|---|
| `CodiusRpc_proofs!TypeCorrect` | `Spec => []TypeOK` | |
| `RepliesMatch` | `Spec => []OwnReply` | bodies whole, host stays |
| `StaysInStep` | `Spec => []Lockstep` | bodies whole, host stays |
| `CallbacksInOrder` | `Spec => []CallbackOrder` | bodies whole, host stays |
| `ProtocolRefines` | `Spec => ImplementsService` | bodies whole, host stays |
| `OneCallback` | `Spec => []CallbackOnce` | |
| `ExitWaits` | `Spec => ExitComplete` | |
| `FirstWrongComesShort` | `Spec => FirstWrongIsShort` | |
| `RpcParser_proofs!StaysInSync` | `Spec => []ParserInv` | |
| `RequestsIntact` | `Spec => []FramesIntact` | |
| `NetBridge_proofs!OwnSockets` | `Spec => []BridgeInv` | |
| `StreamsWhole` | `Spec => []StreamIntact` | |
| `HostEndedByCall` | `Spec => []EndedByCall` | |
| `StreamWrite_proofs!StreamConsistent` | `Spec => []WriteInv` | |
| `DataInOrder` | `Spec => []InOrder` | |
| `CallbacksTellTruth` | `Spec => []CallbacksTruthful` | |
| `NoLostWakeup` | `Spec => []Woken` | |
| `NodeLoop_proofs!LoopSafe` | `Spec => []LoopInv` | |
| `TicksAreDrained` | `Spec => []TicksDrained` | |
| `NothingIsOwed` | `Spec => NothingOwed` | |
| `TimersOnTime` | `Spec => OnTime` | |
| `TicksInOrder` | `Spec => TickOrder` | |
| `TestRunner_proofs!CountsExact` | `Spec => []RunnerInv` | |
| `VerdictTrue` | `Spec => []VerdictSound` | |
| `NoProcessLeft` | `Spec => []NoOrphans` | |
| `GypLoad_proofs!PendingIsExact` | `Spec => []LoadInv` | |
| `EachFileOnce` | `Spec => []LoadedOnce` | |
| `LoaderRefines` | `Spec => ImplementsLoader` | |
| `GypGraph_proofs!CyclesAreFound` | `Spec => []CycleFound` | |
| `FlatListInOrder` | `FlatOrder`, until targets are pruned | |

### CodiusRpc_proofs

"Bodies whole, host stays" is `MaxBody =< Chunk` and `~HostMayDie` (`Whole` in the
lemmas): one `read` can take a body and the host does not end.  Both are needed:
`rpc_short_read` violates `OwnReply` without the first, and so does the instance
of `rpc` with `HostMayDie = TRUE` without the second.

* `TypeCorrect`: `TypeInv` adds to `TypeOK` that the body read so far is no longer
  than announced, since the loop in `Sync_Call` subtracts the one from the other.
* `RepliesMatch` and `StaysInStep`: that an answer is right when it is read
  depends on where the request and its answer were before.  `WireInv` follows
  the one exchange that can be under way.  While the sandbox runs freely nothing
  is coming and no synchronous request is in the host (`FreeInv`).  While it
  waits for a header, its request is the last on the wire, or in the host, or
  its answer is coming in one of the three ways header and body can be split
  between `hostOut` and `down` (`SyncHeaderInv`, `PollHeaderInv`).  While it waits
  for a body, just that body is coming (`SyncBodyInv`, `PollBodyInv`).  `IdInv`
  adds that ids are not reused and that each id in a request or an answer is
  entered in `async_callbacks` for the same call: this is what makes the
  callback that is found the right one.
* `OneCallback` cannot use `WireInv`, since it also holds of a stream that is out
  of step.  `OnceInv` follows an id instead: it is in one request on its way, or
  in one operation, or in one stored answer, or in one header, and in none of
  them once its callback has run (`SentInv`, `AnswerInv`).  A body
  that is read where a header should be has no magic bytes and names no callback.
* `CallbacksInOrder`: what the host completed is, from the oldest on, what has
  run, the answer on its way if there is one, and what is stored (`OrderInv`).
* `ProtocolRefines`: with `WireInv`, `OrderInv` and what the status of a call says
  of its request (`ReqInv`, `CallInv`, `EndedInv`), each action maps to a step of
  `CallService` or to none.
* `ExitWaits`: the loop is left when there is no active request, and the active
  requests are just the calls that wait (`ActiveInv`), whatever was cut short.
* `FirstWrongComesShort` needs `WireInv` where its hypotheses fail.  `InStep` says
  the same with a part of a body for the whole (`BodyArriving`: what has been read,
  what can be read and what is left of the write follow each other in the body)
  and nothing about a host that is gone.  It is no invariant, but it holds as long
  as `OwnReply` does: from it, each step either keeps it or ends a call with too
  few units.  A call that is wrong stays wrong (`MadeInv`), so `OwnReply => InStep`
  is inductive (`FirstInv`).  `OnceInv` makes the callback that is found the right one.

### RpcParser_proofs

The stream is what is put aside, what is in the current piece and what is still
on the wire.  `Framed` says that from each byte of it on its part is complete
and is followed by the next part, without saying what the whole stream is;
`HeadInv` that it begins with the part that the parser is in and that
`bytesLeft` is what that part lacks.  An empty body is a header that the next
header follows (`Ends`).  Without the first, nothing would be known of the bytes
after the current part; without the second, of the number of bytes to take.

### NetBridge_proofs

* `OwnSockets`: a descriptor is a position of an array that only grows, so a new
  one is new, and a handle has one as long as it is open (`HandleInv`).  What an
  answer under way contains is `CallInv`; that it refers to the socket of `cur`
  is what the next state needs.
* `StreamsWhole`: a connection is in one place, a socket or a queue of a server
  (`ConnInv`).  What was delivered, what an answer carries and what the buffer
  holds are consecutive runs of the data of the connection (`StreamInv`,
  `DeliveredInv`), up to what the host has seen, which is all of it when there is
  an end (`NetInv`).
* `HostEndedByCall`: servers and connections to them exist only if the contract
  has used a server, so without one every socket is a client's; and a host that
  is gone does nothing more, so the call in which it ended stays as it was
  (`HostInv`, `OwnCall`).

### StreamWrite_proofs

One action passes through several states of the stream: `uv_try_write` queues a
request, writes from it and takes it back.  The invariant is therefore stated of
any state `s` of the stream, the writes `sub` that were made and the set `F` of
those called back (`Good(s, sub, F)`), and there is a lemma for each of
`uv_write2`, `uv__write` and `Unqueue` before those for the actions.

* `QueueGood`: the queue holds the last of the writes, in order; only the first
  of them is partly written, and it stands at a buffer with data.  Without that
  last part a size of zero would not mean that nothing is left, which is what
  `uv_write2` takes it for.
* `DoneGood`: each other write has had its callback or is completed, in order.
* `SentGood`: what was sent is the data up to the point to which the queue is
  written (`Past`).  `DataInOrder` is this without the queue.
* `SizeGood`: the size is the cardinality of the set of bytes the queue has left.
  Each function adds to that set or takes from it one set disjoint from the
  rest, so its number follows without induction over the queue.
* `Wakes` is the watcher's part, `ClosedGood` what is left of all this when
  `uv__stream_destroy` has cancelled the queue.

### NodeLoop_proofs

As in `StreamWrite_proofs`, the parts of the invariant are statements about a
state `s` of the loop, since `active`, `unenroll` or `Close` make several states
in one action.  `Kept(s, r)` says what all of them guarantee, so that the actions
are proved from it without looking into them.

* `LoopSafe`: `Armed` alone is not inductive.  A timer that is added to a list
  that is in `lists` does not start that list's libuv timer, so an empty list in
  `lists` has to be wired too (`Matters`, `WiredOK`), and a list found there has to
  be open and of the right delay (`RegOK`).  What takes a list out of the heap,
  off the stack or out of the queue of ticks puts it in another of the three
  places or takes it out of `lists`, empty.  `ItemsOK` has the order of a list and
  that its timers have its delay.
* `TicksAreDrained`: `CallOK` says what the stack holds for each way in which libuv
  calls JavaScript; with `base = "ticks"` it begins with `_tickCallback`, which
  returns only with an empty queue.
* `NothingIsOwed`: after `beforeExit` ticks wait only if an immediate is set to run
  them, and immediates wait only while the check handle is active (`ImmOK`), so a
  loop that is not alive has neither; nothing is in the heap and no frame is
  left, so no list is wired, and by `WiredOK` all are empty.
* `TimersOnTime`: a timer in a list has not been called since its start
  (`ItemsOK`), the time that `listOnTimeout` has read is not later than the clock,
  and a delay is at least 1.
* `TicksInOrder`: the ticks of the contract that wait are numbered from `ran + 1`
  on, without gaps and in order, behind `index` (`TicksOK`).

### TestRunner_proofs

The lock is the strengthening: a thread that is about to write a counter back
holds the lock, so what it has read is still right (`LockInv`).  `CaseInv` and
`HandInv` say that a case is in the queue, in one thread's hands or counted;
`ProcInv` that a process that runs has its thread waiting for it, or belongs to
the main thread that was interrupted; `EndInv` how threads end and what they
leave.

### GypLoad_proofs

`PlaceInv`: a file that was asked for is in the list of files to load or in one
call, so none is loaded twice.  `KnownInv`: what a worker is told to be loaded
was loaded by a call that is done, so no worker finds its own file loaded.
`HolderInv` relates the lock of the condition to the places of the main thread;
with it `pending` is counted exactly.  `DoneInv`, `LeftInv` and `scheduled =
Wanted` say what is loaded when the loop is left; they make `LoaderRefines`.

### GypGraph_proofs

The proofs are about any graph `g` and list `l`, and need no induction over
either.  While `FlattenToList` runs, its list is in order (`InOrder`) and the set
that it pops from is just what can be popped: what is not in the list, but all
of whose dependencies are (`Ready`).  `PopReady` is one turn of the loop, for any
node.

* `CyclesAreFound`: `Cyclic` says that some nodes all depend on one of them.  When
  nothing can be popped, the nodes that are left out are such nodes
  (`LeftIsCyclic`).  If no node is left out there are none: of such nodes
  the first in the list depends on another of them, which would have to come
  before it (`OrderedIsAcyclic`).  A list in order repeats nothing, so its length tells
  whether a node is left out (`LengthTells`).  This needs that each dependency is
  a node (`Closed`), which is what the `GypError` of `MakeNodes` is for.
* `FlatListInOrder` ends at `PruneUnwantedTargets`, which keeps what the recursive
  `DeepDependencies` gives.

### Only model-checked

* Liveness (`Answered`, `AllEmitted`, `DataRead`, `AllCalled`, `Progress`,
  `RunEnds`, `LoadEnds`): under fairness, outside the prover's reach.
* `GypGraph`: `FlatOrder` in a list that was pruned, `CyclesReported`,
  `SettingsOnce`, `BuildOrder`, `LinkComplete`, and that lists keep their types.
  They rest on recursive functions and folds over lists (`DeepDependencies`,
  `AddImported`, `LinkFrom`, `FindCycles`, `Unify`), and what those compute would
  need induction over graphs and lists.

## 6. Not modelled

* Timers that are unref'd, domains, async listeners, `uv_stop`, handles that are
  not referenced, a `MakeCallback` inside another; a clock that is set back
  (`deps/uv/src/internal.h:171` reads `gettimeofday`).
* The walk over JSON tokens (`json.c`); the third-party tokenizer under it.
* Addresses and ports in `connect` and `bind`, but for the family; what
  `getpeername` does with the address it gets.
* The message a buffer is written in: its hexadecimal form and the limit
  `UV_SYNC_MAX_MESSAGE_SIZE`.  `uv_shutdown`, which does nothing and never calls
  its callback (`deps/uv/src/stream.c:959`).
* A contract that catches an exception and goes on.
* Pipes and terminals, `send_handle`, writes on a stream that still connects.
* Test runner: how tests are found, status files parsed and results printed.
* gyp: how a build file is evaluated, dictionaries merged and variables expanded;
  validation; the generators, which format what `Load` returns.  They are
  sequential text transformations of a vendored tool.
* The launcher, the bindings other than writes and timers, Node's library, `deps`.

## 7. Plan

Done: the core protocol with its abstract specification, the parser, the
sockets, the write queue, the loop with timers and ticks, the test runner,
gyp's loader and dependency graph.  Proved: all safety properties of the
protocol, of the parser, the sockets, the write queue, the loop, the
test runner and the loader, both refinements, and how gyp sorts files and
targets and finds cycles.  Left:

1. `Addresses`: conversions in `connect`, `bind` and `getpeername`.
2. Buffers: the hexadecimal form of what is written and the limit
   `UV_SYNC_MAX_MESSAGE_SIZE`.
3. gyp: conditions and variables in build files (`ProcessConditionsInDict`,
   `ExpandVariables`).
