------------------------------ MODULE NodeLoop ------------------------------
(***************************************************************************)
(* How JavaScript gets to run in the sandbox: timers, immediates, nextTick *)
(* and the phases of the event loop that call them.                        *)
(*                                                                         *)
(* There is one thread.  libuv calls into JavaScript in four ways: the     *)
(* main script, MakeCallback, the direct call of AsyncAfter, and           *)
(* process.emit at the end.  Inside, frames of timers.js and node.js lie   *)
(* between libuv and the contract's functions; an exception unwinds all of *)
(* them.                                                                   *)
(***************************************************************************)
EXTENDS Integers, Sequences, SequencesExt

CONSTANTS
  Delays,      \* delays, in ticks of the clock
  MaxClock,    \* bound: the last time on the clock
  LastStart,   \* bound: no timer is created after this time
  MaxTimeouts, \* bound: timers the contract creates
  MaxOps,      \* bound: what the contract does, and events it is told of
  CompactAt    \* the 1e4 of _tickCallback

ASSUME Bounds ==
  /\ Delays # {} /\ Delays \subseteq Nat \ {0}
  /\ {MaxClock, LastStart, MaxTimeouts, MaxOps, CompactAt} \subseteq Nat

VARIABLES
  clock,   \* time outside
  loop,    \* state of libuv, timers.js and node.js, see Init
  stack,   \* JavaScript frames, the innermost last
  base,    \* what libuv called: "none" when no JavaScript runs
  phase,   \* where uv_run, or Start around it, is
  ops,     \* operations so far, for the bound
  ran      \* number of the last tick of the contract that ran

vars == <<clock, loop, stack, base, phase, ops, ran>>

NoList == 0
NoTimeout == 0

(* What nextTick queues: a function of the contract, known by its number   *)
(* and by what called the JavaScript that queued it, or the continuation   *)
(* of listOnTimeout or processImmediate after an exception.                *)
UserTick(n)  == [kind |-> "user", n |-> n, from |-> base]
ListTick(l)  == [kind |-> "list", n |-> l, from |-> "throw"]
ImmTick      == [kind |-> "immediates", n |-> 0, from |-> "throw"]

(* The immediate that _fatalException sets: process._tickCallback. *)
TickImmediate == 0

Js(t)       == [f |-> "js", t |-> t]
TickFrame   == [f |-> "ticks"]
ImmFrame(q) == [f |-> "immediates", queue |-> q]
ListFrame(l, now) == [f |-> "list", list |-> l, now |-> now]

Init ==
  /\ clock = 0
  /\ loop = [time |-> 0,                       \* loop->time
             heap |-> <<>>,                    \* active timers, as started
             list |-> <<>>,                    \* Timer objects of timers.js
             lists |-> [d \in Delays |-> NoList],
             timer |-> <<>>,                   \* Timeout objects
             ticks |-> <<>>, index |-> 0, queued |-> 0,
             imm |-> <<>>, need |-> FALSE, set |-> 0,
             reqs |-> 0, socket |-> FALSE, closing |-> {},
             exiting |-> FALSE]
  /\ stack = <<Js(NoTimeout)>>
  /\ base = "main"
  /\ phase = "main"
  /\ ops = 0
  /\ ran = 0

----------------------------------------------------------------------------
(* uv_timer_t, from timer.c.  A Timer of timers.js never repeats.          *)

(* The timeout of a stopped timer is never read: 0 here. *)
uv_timer_stop(s, l) ==
  [s EXCEPT !.heap = RemoveFirst(@, l), !.list[l].timeout = 0]

uv_timer_start(s, l, timeout) ==
  LET r == uv_timer_stop(s, l)
  IN  [r EXCEPT !.list[l].timeout = s.time + timeout, !.heap = Append(@, l)]

(* The least timer: by timeout, then by start_id, the order of the starts. *)
heap_min(s) ==
  s.heap[CHOOSE i \in DOMAIN s.heap :
           \A j \in DOMAIN s.heap :
             LET ti == s.list[s.heap[i]].timeout
                 tj == s.list[s.heap[j]].timeout
             IN  ti < tj \/ (ti = tj /\ i <= j)]

(* HandleWrap::Close, guarded against a second close, then uv_close. *)
Close(s, l) ==
  IF s.list[l].open
  THEN [uv_timer_stop(s, l) EXCEPT !.list[l].open = FALSE,
                                     !.closing = @ \cup {"timer"}]
  ELSE s

uv__loop_alive(s) ==
  s.heap # <<>> \/ s.need \/ s.socket \/ s.reqs > 0 \/ s.closing # {}

----------------------------------------------------------------------------
(* timers.js and _linklist.js.                                             *)

(* L.remove: whatever list the item is in. *)
Unlink(s, t) ==
  [s EXCEPT !.list = [l \in DOMAIN s.list |->
     [s.list[l] EXCEPT !.items = RemoveFirst(@, t)]]]

(* Timer.now() brings the loop's time up to date before the list, when it  *)
(* is new, is started.                                                     *)
active(s, t) ==
  LET d == s.timer[t].after
      r == [Unlink(s, t) EXCEPT !.time = clock, !.timer[t].start = clock]
      n == Len(s.list) + 1
      new == [msecs |-> d, items |-> <<t>>, timeout |-> 0, open |-> TRUE]
  IN  IF r.lists[d] # NoList
      THEN [r EXCEPT !.list[r.lists[d]].items = Append(@, t)]
      ELSE uv_timer_start([r EXCEPT !.list = Append(@, new), !.lists[d] = n],
                          n, d)

unenroll(s, t) ==
  LET r == Unlink(s, t)
      l == IF r.timer[t].after \in Delays THEN r.lists[r.timer[t].after] ELSE NoList
      c == IF l # NoList /\ r.list[l].items = <<>>
           THEN [Close(r, l) EXCEPT !.lists[r.timer[t].after] = NoList]
           ELSE r
  IN  [c EXCEPT !.timer[t].after = -1]

clearTimer(s, t) ==
  IF s.timer[t].on
  THEN unenroll([s EXCEPT !.timer[t].on = FALSE], t)
  ELSE s

----------------------------------------------------------------------------
(* nextTick and setImmediate.                                              *)

pushTick(s, e) == IF s.exiting THEN s ELSE [s EXCEPT !.ticks = Append(@, e)]

(* Faulty variant of tickDone: it resets the index and leaves the queue.   *)
tickDoneKeeps(s) == [s EXCEPT !.index = 0]

(* What has run is cut off the queue.  kLength is the queue's length. *)
tickDone(s) ==
  [s EXCEPT !.ticks = SubSeq(@, s.index + 1, Len(@)), !.index = 0]

pushImmediate(s, e) == [s EXCEPT !.need = TRUE, !.imm = Append(@, e)]

----------------------------------------------------------------------------
(* The contract's JavaScript: from any function of it, it may do any of    *)
(* these and go on, return, or throw.                                      *)

Top == Last(stack)

At(f) == base # "throw" /\ stack # <<>> /\ Top.f = f

Push(frame) == stack' = Append(stack, frame)

Pop == stack' = Front(stack)

InJs == At("js")

(* One operation of the contract, within the bound. *)
Does == InJs /\ ops < MaxOps /\ ops' = ops + 1

Effect(s) == loop' = s /\ UNCHANGED <<clock, stack, base, phase, ran>>

Create(d, repeat) ==
  /\ Does /\ Len(loop.timer) < MaxTimeouts /\ clock <= LastStart
  /\ LET new == [start |-> 0, after |-> d, delay |-> d, on |-> TRUE,
                 repeat |-> repeat, fired |-> -1]
     IN  Effect(active([loop EXCEPT !.timer = Append(@, new)], Len(loop.timer) + 1))

setTimeout(d)  == Create(d, FALSE)

setInterval(d) == Create(d, TRUE)

clearTimeout(t) ==
  Does /\ loop.timer[t].on /\ Effect(clearTimer(loop, t))

clearInterval(t) ==
  /\ Does /\ loop.timer[t].repeat
  /\ Effect(clearTimer([loop EXCEPT !.timer[t].repeat = FALSE], t))

nextTick ==
  /\ Does /\ ~loop.exiting
  /\ Effect([pushTick(loop, UserTick(loop.queued + 1)) EXCEPT !.queued = @ + 1])

setImmediate ==
  Does /\ Effect([pushImmediate(loop, loop.set + 1) EXCEPT !.set = @ + 1])

(* The immediate may be in immediateQueue, in the queue that               *)
(* processImmediate is going through, or in none.                          *)
clearImmediate(i) ==
  /\ Does
  /\ loop' = [loop EXCEPT !.imm = RemoveFirst(@, i),
                          !.need = @ /\ RemoveFirst(loop.imm, i) # <<>>]
  /\ stack' = [k \in DOMAIN stack |->
                 IF stack[k].f = "immediates"
                 THEN ImmFrame(RemoveFirst(stack[k].queue, i))
                 ELSE stack[k]]
  /\ UNCHANGED <<clock, base, phase, ran>>

(* uv_queue_work: an asynchronous call, its answer to come. *)
PostMessage == Does /\ Effect([loop EXCEPT !.reqs = @ + 1])

OpenSocket == Does /\ ~loop.socket /\ Effect([loop EXCEPT !.socket = TRUE])

CloseSocket ==
  /\ Does /\ loop.socket
  /\ Effect([loop EXCEPT !.socket = FALSE, !.closing = @ \cup {"socket"}])

(* A function of the contract returns.  The function of an interval is     *)
(* inside wrapper, which enrolls the timer again.                          *)
Return ==
  /\ InJs
  /\ Pop
  /\ LET t == Top.t
     IN  loop' = IF t # NoTimeout /\ loop.timer[t].repeat
                 THEN active([loop EXCEPT !.timer[t].after = loop.timer[t].delay], t)
                 ELSE loop
  /\ UNCHANGED <<clock, base, phase, ops, ran>>

(* Faulty variant of Finally: listOnTimeout leaves the rest of its list.   *)
FinallyForgets(s, frame) ==
  CASE frame.f = "immediates" /\ frame.queue # <<>> ->
         pushTick([s EXCEPT !.imm = frame.queue \o @], ImmTick)
    [] frame.f = "ticks" -> tickDone(s)
    [] OTHER -> s

(* The finally clauses of the frames that an exception passes. *)
Finally(s, frame) ==
  CASE frame.f = "list" -> pushTick(s, ListTick(frame.list))
    [] frame.f = "immediates" /\ frame.queue # <<>> ->
         pushTick([s EXCEPT !.imm = frame.queue \o @], ImmTick)
    [] frame.f = "ticks" -> tickDone(s)
    [] OTHER -> s

(* An exception that a listener of 'uncaughtException' handles. *)
ThrowCaught ==
  /\ Does
  /\ base' = "throw" /\ Pop
  /\ UNCHANGED <<clock, loop, phase, ran>>

(* It leaves the frames one by one. *)
Unwind ==
  /\ base = "throw" /\ stack # <<>>
  /\ loop' = Finally(loop, Top) /\ Pop
  /\ UNCHANGED <<clock, base, phase, ops, ran>>

(* All frames are gone: an immediate is set to run the ticks, and          *)
(* MakeCallback, AsyncAfter or Load returns.                               *)
_fatalException ==
  /\ base = "throw" /\ stack = <<>>
  /\ loop' = pushImmediate(loop, TickImmediate)
  /\ base' = "none"
  /\ UNCHANGED <<clock, stack, phase, ops, ran>>

(* An exception that nothing handles: FatalException calls exit. *)
ThrowFatal ==
  /\ Does
  /\ phase' = "dead" /\ stack' = <<>> /\ base' = "none"
  /\ UNCHANGED <<clock, loop, ran>>

Contract ==
  \/ \E d \in Delays : setTimeout(d)
  \/ \E d \in Delays : setInterval(d)
  \/ \E t \in DOMAIN loop.timer : clearTimeout(t)
  \/ \E t \in DOMAIN loop.timer : clearInterval(t)
  \/ nextTick
  \/ setImmediate
  \/ \E i \in 1..loop.set : clearImmediate(i)
  \/ PostMessage
  \/ OpenSocket
  \/ CloseSocket
  \/ ThrowCaught
  \/ ThrowFatal

----------------------------------------------------------------------------
(* The frames of node.js and timers.js.                                    *)

(* Calling processImmediate: immediateQueue is taken as a whole. *)
StartImmediates(s) == [s EXCEPT !.imm = <<>>]

(* listOnTimeout asks for the time once, before its loop. *)
StartList(s) == [s EXCEPT !.time = clock]

(* The function of a queued tick is called. *)
CallTick(e, s) ==
  CASE e.kind = "user" -> loop' = s /\ Push(Js(NoTimeout)) /\ ran' = e.n
    [] e.kind = "list" -> loop' = StartList(s) /\ Push(ListFrame(e.n, clock)) /\ UNCHANGED ran
    [] e.kind = "immediates" ->
         loop' = StartImmediates(s) /\ Push(ImmFrame(s.imm)) /\ UNCHANGED ran

(* One turn of _tickCallback: the queue is cut when it has grown long. *)
_tickCallback ==
  /\ At("ticks")
  /\ LET s == IF CompactAt < loop.index THEN tickDone(loop) ELSE loop
     IN  IF s.index < Len(s.ticks)
         THEN CallTick(s.ticks[s.index + 1], [s EXCEPT !.index = @ + 1])
         ELSE Pop /\ loop' = tickDone(s) /\ UNCHANGED ran
  /\ UNCHANGED <<clock, base, phase, ops>>

(* One turn of processImmediate. *)
processImmediate ==
  /\ At("immediates")
  /\ IF Top.queue # <<>>
     THEN /\ loop' = loop
          /\ LET callee == IF Head(Top.queue) = TickImmediate
                           THEN TickFrame ELSE Js(NoTimeout)
             IN  stack' = Append(Append(Front(stack), ImmFrame(Tail(Top.queue))), callee)
     ELSE /\ loop' = [loop EXCEPT !.need = IF loop.imm = <<>> THEN FALSE ELSE @]
          /\ Pop
  /\ UNCHANGED <<clock, base, phase, ops, ran>>

(* Faulty variant of listOnTimeout: it fires without looking at the time.  *)
listOnTimeoutEarly ==
  /\ At("list")
  /\ LET l == Top.list
         first == Head(loop.list[l].items)
     IN  IF loop.list[l].items = <<>>
         THEN Pop /\ loop' = [Close(loop, l) EXCEPT !.lists[loop.list[l].msecs] = NoList]
         ELSE IF loop.timer[first].on
         THEN /\ loop' = [Unlink(loop, first) EXCEPT !.timer[first].fired = clock]
              /\ Push(Js(first))
         ELSE loop' = Unlink(loop, first) /\ UNCHANGED stack
  /\ UNCHANGED <<clock, base, phase, ops, ran>>

(* One turn of listOnTimeout: the list is empty, its first item is not     *)
(* due, or the item is taken out and called, unless it was cleared.        *)
listOnTimeout ==
  /\ At("list")
  /\ LET l == Top.list
         first == Head(loop.list[l].items)
         t == loop.timer[first]
         diff == Top.now - t.start
     IN  IF loop.list[l].items = <<>>
         THEN Pop /\ loop' = [Close(loop, l) EXCEPT !.lists[loop.list[l].msecs] = NoList]
         ELSE IF diff < loop.list[l].msecs
         THEN Pop /\ loop' = uv_timer_start(loop, l, loop.list[l].msecs - diff)
         ELSE IF t.on
         THEN /\ loop' = [Unlink(loop, first) EXCEPT !.timer[first].fired = clock]
              /\ Push(Js(first))
         ELSE loop' = Unlink(loop, first) /\ UNCHANGED stack
  /\ UNCHANGED <<clock, base, phase, ops, ran>>

(* Faulty variant of CallReturns: MakeCallback does not run the ticks. *)
CallReturnsAtOnce ==
  /\ base \notin {"none", "throw"} /\ stack = <<>>
  /\ base' = "none" /\ UNCHANGED stack
  /\ UNCHANGED <<clock, loop, phase, ops, ran>>

(* The function that libuv called has returned: MakeCallback and runMain   *)
(* run the ticks, AsyncAfter does not.                                     *)
CallReturns ==
  /\ base \notin {"none", "throw"} /\ stack = <<>>
  /\ IF base \in {"MakeCallback", "main"} /\ loop.ticks # <<>>
     THEN base' = "ticks" /\ Push(TickFrame)
     ELSE base' = "none" /\ UNCHANGED stack
  /\ UNCHANGED <<clock, loop, phase, ops, ran>>

----------------------------------------------------------------------------
(* uv_run, once in each turn of the loop of Start.                         *)

Idle == base = "none" /\ stack = <<>>

MakeCallback(frame) == base' = "MakeCallback" /\ stack' = <<frame>>

NoCall == UNCHANGED <<base, stack>>

(* The loop is alive, and an iteration starts, or 'beforeExit' is emitted. *)
uv_run ==
  /\ Idle /\ phase \in {"main", "run"}
  /\ loop' = [loop EXCEPT !.time = clock]
  /\ IF uv__loop_alive(loop)
     THEN phase' = "timers" /\ NoCall
     ELSE phase' = "beforeExit" /\ MakeCallback(Js(NoTimeout))
  /\ UNCHANGED <<clock, ops, ran>>

Due(s) == s.heap # <<>> /\ s.list[heap_min(s)].timeout <= s.time

(* A turn of uv__run_timers.  It is called before the poll and at the end  *)
(* of the iteration; what then follows is NextPhase.                       *)
uv__run_timers ==
  /\ Idle /\ phase \in {"timers", "again"}
  /\ Due(loop)
  /\ LET l == heap_min(loop)
     IN  /\ loop' = StartList(uv_timer_stop(loop, l))
         /\ MakeCallback(ListFrame(l, clock))
  /\ UNCHANGED <<clock, phase, ops, ran>>

EndTimers ==
  /\ Idle /\ phase \in {"timers", "again"}
  /\ ~Due(loop)
  /\ IF phase = "timers"
     THEN phase' = "poll" /\ NoCall
     ELSE IF uv__loop_alive(loop)
     THEN phase' = "run" /\ NoCall
     ELSE phase' = "beforeExit" /\ MakeCallback(Js(NoTimeout))
  /\ UNCHANGED <<clock, loop, ops, ran>>

(* The watcher of asynchronous answers comes first in uv__io_poll, and     *)
(* takes one answer, if there is one.                                      *)
PollAsync ==
  /\ Idle /\ phase = "poll"
  /\ phase' = "io"
  /\ \/ /\ loop.reqs > 0
        /\ loop' = [loop EXCEPT !.reqs = @ - 1]
        /\ base' = "AsyncAfter" /\ stack' = <<Js(NoTimeout)>>
     \/ UNCHANGED loop /\ NoCall
  /\ UNCHANGED <<clock, ops, ran>>

(* Then the socket's watcher; its callbacks are made with MakeCallback. *)
PollSocket ==
  /\ Idle /\ phase = "io"
  /\ phase' = "check"
  /\ \/ /\ loop.socket /\ ops < MaxOps /\ ops' = ops + 1
        /\ MakeCallback(Js(NoTimeout))
     \/ UNCHANGED ops /\ NoCall
  /\ UNCHANGED <<clock, loop, ran>>

(* uv__run_check: CheckImmediate, if its handle is active. *)
uv__run_check ==
  /\ Idle /\ phase = "check"
  /\ phase' = "closing"
  /\ IF loop.need
     THEN loop' = StartImmediates(loop) /\ MakeCallback(ImmFrame(loop.imm))
     ELSE UNCHANGED loop /\ NoCall
  /\ UNCHANGED <<clock, ops, ran>>

(* A socket's close callback is JavaScript, that of a Timer is none. *)
uv__run_closing_handles ==
  /\ Idle /\ phase = "closing"
  /\ phase' = "closed"
  /\ loop' = [loop EXCEPT !.closing = {}]
  /\ IF "socket" \in loop.closing THEN MakeCallback(Js(NoTimeout)) ELSE NoCall
  /\ UNCHANGED <<clock, ops, ran>>

uv__update_time ==
  /\ Idle /\ phase = "closed"
  /\ phase' = "again"
  /\ loop' = [loop EXCEPT !.time = clock]
  /\ UNCHANGED <<clock, stack, base, ops, ran>>

(* Faulty variant of AfterBeforeExit: the loop is not asked again. *)
AfterBeforeExitDone ==
  /\ Idle /\ phase = "beforeExit"
  /\ phase' = "exit" /\ MakeCallback(Js(NoTimeout))
  /\ loop' = [loop EXCEPT !.exiting = TRUE]
  /\ UNCHANGED <<clock, ops, ran>>

(* After 'beforeExit', Start goes on if the loop has become alive. *)
AfterBeforeExit ==
  /\ Idle /\ phase = "beforeExit"
  /\ IF uv__loop_alive(loop)
     THEN phase' = "run" /\ UNCHANGED loop /\ NoCall
     ELSE /\ phase' = "exit" /\ MakeCallback(Js(NoTimeout))
          /\ loop' = [loop EXCEPT !.exiting = TRUE]
  /\ UNCHANGED <<clock, ops, ran>>

(* EmitExit has returned: the process is over. *)
Exit ==
  /\ Idle /\ phase = "exit"
  /\ phase' = "done"
  /\ UNCHANGED <<clock, loop, stack, base, ops, ran>>

----------------------------------------------------------------------------
(* Time passes in the contract's functions, and in libuv before something  *)
(* that reads the clock.  Elsewhere it would make no difference.           *)
TimePasses ==
  /\ InJs \/ (Idle /\ phase \in {"timers", "poll", "again"})
  /\ clock < MaxClock
  /\ clock' = clock + 1
  /\ UNCHANGED <<loop, stack, base, phase, ops, ran>>

Over == phase \in {"done", "dead"} /\ UNCHANGED vars

Library ==
  _tickCallback \/ processImmediate \/ listOnTimeout \/ CallReturns \/ Unwind \/ _fatalException

Loop ==
  \/ uv_run \/ uv__run_timers \/ EndTimers \/ PollAsync \/ PollSocket
  \/ uv__run_check \/ uv__run_closing_handles \/ uv__update_time
  \/ AfterBeforeExit \/ Exit

Next == Contract \/ Return \/ Library \/ Loop \/ TimePasses \/ Over

Spec == Init /\ [][Next]_vars

(* A function of the contract returns in the end, and the thread goes on. *)
Fairness == WF_vars(Return) /\ WF_vars(Library) /\ WF_vars(Loop)

FairSpec == Spec /\ Fairness

----------------------------------------------------------------------------
(* Properties. *)

Running == phase \notin {"done", "dead"}

Pending(t) == \E l \in DOMAIN loop.list :
                \E i \in DOMAIN loop.list[l].items : loop.list[l].items[i] = t

Frames ==
  {Js(t) : t \in {NoTimeout} \cup DOMAIN loop.timer} \cup {TickFrame}
    \cup [f : {"immediates"}, queue : Seq(0..loop.set)]
    \cup [f : {"list"}, list : DOMAIN loop.list, now : 0..clock]

Ticks ==
  [kind : {"user", "list", "immediates"}, n : Nat,
   from : {"main", "MakeCallback", "AsyncAfter", "ticks", "throw"}]

Lists == [msecs : Delays, items : Seq(DOMAIN loop.timer), timeout : Nat, open : BOOLEAN]

Timers ==
  [start : 0..clock, after : Delays \cup {-1}, delay : Delays, on : BOOLEAN,
   repeat : BOOLEAN, fired : -1..clock]

(* Every variable has its type; an active timer belongs to an open list,   *)
(* and is active once.                                                     *)
TypeOK ==
  /\ clock \in 0..MaxClock
  /\ loop \in [time : 0..clock, heap : Seq(DOMAIN loop.list), list : Seq(Lists),
               lists : [Delays -> {NoList} \cup DOMAIN loop.list], timer : Seq(Timers),
               ticks : Seq(Ticks), index : 0..Len(loop.ticks), queued : 0..ops,
               imm : Seq(0..loop.set), need : BOOLEAN, set : 0..ops, reqs : 0..ops,
               socket : BOOLEAN, closing : SUBSET {"timer", "socket"}, exiting : BOOLEAN]
  /\ Len(loop.timer) <= MaxTimeouts
  /\ \A i, j \in DOMAIN loop.heap :
       loop.list[loop.heap[i]].open /\ (i # j => loop.heap[i] # loop.heap[j])
  /\ stack \in Seq(Frames)
  /\ base \in {"none", "main", "MakeCallback", "AsyncAfter", "ticks", "throw"}
  /\ phase \in {"main", "run", "timers", "poll", "io", "check", "closing",
                "closed", "again", "beforeExit", "exit", "done", "dead"}
  /\ ops \in 0..MaxOps /\ ran \in 0..loop.queued

(* No timer is forgotten: a list with items in it is open, and its libuv   *)
(* timer is active, or listOnTimeout is at work on it, or a tick is queued *)
(* that will call listOnTimeout again.                                     *)
Armed ==
  Running => \A l \in DOMAIN loop.list : loop.list[l].items # <<>> =>
    /\ loop.list[l].open
    /\ \/ \E i \in DOMAIN loop.heap : loop.heap[i] = l
       \/ \E k \in DOMAIN stack : stack[k].f = "list" /\ stack[k].list = l
       \/ \E k \in DOMAIN loop.ticks : /\ k > loop.index
                                       /\ loop.ticks[k].kind = "list"
                                       /\ loop.ticks[k].n = l

(* Immediates wait only while the check handle is active, so that they are *)
(* run in this iteration or the next and the loop does not end before; or  *)
(* an exception is on its way, after which it will be.                     *)
ImmediatesArmed == Running /\ base # "throw" /\ loop.imm # <<>> => loop.need

(* Between calls from libuv no tick waits, but those that the callback of  *)
(* an asynchronous call has queued, and those left by an exception, for    *)
(* which an immediate is set.                                              *)
TicksDrained ==
  Running /\ Idle => \A k \in DOMAIN loop.ticks :
    \/ loop.ticks[k].from = "AsyncAfter"
    \/ \E i \in DOMAIN loop.imm : loop.imm[i] = TickImmediate

(* The process ends by itself only when nothing is left to run: no tick,   *)
(* no immediate and no timer that was not cleared.                         *)
NothingOwed ==
  [][phase = "beforeExit" /\ phase' = "exit" =>
       /\ loop.ticks = <<>> /\ loop.imm = <<>>
       /\ \A t \in DOMAIN loop.timer : ~(Pending(t) /\ loop.timer[t].on)]_vars

Fires(t) == stack' = Append(stack, Js(t))

(* A timer is never early, and not called twice without time passing       *)
(* between, however stale the loop's own time is.                          *)
OnTime ==
  [][\A t \in DOMAIN loop.timer : Fires(t) =>
       /\ clock - loop.timer[t].start >= loop.timer[t].delay
       /\ loop.timer[t].fired < clock]_vars

(* The items of a list are in the order of their start times, so that      *)
(* listOnTimeout may stop at the first that is not due, and the timers of  *)
(* one list are called in the order in which they were set.                *)
ListOrder ==
  \A l \in DOMAIN loop.list :
    LET items == loop.list[l].items
    IN  \A i, j \in DOMAIN items :
          i < j => /\ items[i] # items[j]
                   /\ loop.timer[items[i]].start <= loop.timer[items[j]].start

(* What is set is not forgotten: types, timers, immediates and the order   *)
(* of the lists.                                                           *)
LoopInv == TypeOK /\ Armed /\ ImmediatesArmed /\ ListOrder

(* Ticks run once each, in the order in which they were queued, whatever   *)
(* throws in between.                                                      *)
TickOrder == [][ran' = ran + 1]_ran

(* The thread comes to its next iteration again and again, or the process  *)
(* ends, once the contract does nothing new and its functions take no      *)
(* time: at one time of the clock neither the timers that are due, nor the *)
(* immediates, nor the ticks keep it for ever.  With time it is different: *)
(* an interval is due again its delay after its function has returned,     *)
(* Timer.now moves the time of the loop inside uv__run_timers, and three   *)
(* intervals whose functions take longer than their delays are due in turn *)
(* and keep the thread from the poll.  That is the second disjunct.        *)
Progress ==
  \/ []<>(phase \in {"run", "done", "dead"})
  \/ []<><<clock' # clock \/ ops' # ops>>_vars

=============================================================================
