----------------------------- MODULE TestRunner -----------------------------
(***************************************************************************)
(* The repository's test runner, tools/test.py: threads that take test     *)
(* cases from one queue, run each in a process of its own with a deadline, *)
(* and count the results under a lock.                                     *)
(*                                                                         *)
(* An exception ends the thread it is raised in: a worker disappears, the  *)
(* main thread leaves Run.  The interpreter exits when all threads have.   *)
(***************************************************************************)
EXTENDS Integers, Sequences, SequencesExt, FiniteSets

CONSTANTS
  Workers,    \* the threads that Run starts, options.j - 1 of them
  Main,       \* the main thread, which works like the others
  Nobody,     \* not a thread: the lock is free
  NCases,     \* cases listed for the run
  Rules,      \* what the rules of the status files may say of a case
  ExitCodes,  \* exit codes of tests; the negative of a signal when killed
  MaxFaults   \* bound: exceptions, the user's interrupt included

ASSUME RunnerAssumption ==
  /\ Main \notin Workers /\ Nobody \notin Workers \cup {Main}
  /\ NCases \in Nat /\ MaxFaults \in Nat
  /\ ExitCodes \subseteq Int
  /\ Rules \subseteq SUBSET {"pass", "fail", "timeout", "crash", "skip", "slow", "okay"}

Threads == Workers \cup {Main}
SIGABRT == 6
SIGTERM == 15

VARIABLES
  outcomes,   \* per case, the outcomes that are expected
  queue,      \* cases not yet taken
  pc,         \* where each thread is
  test,       \* the case each thread has
  output,     \* per case, the CommandOutput of its process
  proc,       \* per case, the state of its process
  due,        \* threads whose deadline is past
  lock,       \* holder of the lock
  tally,      \* succeeded, failed, crashed, remaining
  seen,       \* per thread, the tally it read when it began to count
  terminate,
  verdict,    \* how Run ended for the main thread
  faults,     \* exceptions so far
  counted     \* history: the cases whose result was counted

vars == <<outcomes, queue, pc, test, output, proc, due, lock, tally, seen,
          terminate, verdict, faults, counted>>

Cases == 1..NCases
NoCase == 0
NoOutput == [exit_code |-> 0, timed_out |-> FALSE]

(* ClassifyTests: a case that no rule says anything of is to pass. *)
ClassifyTests(said) == IF said = {} THEN {"pass"} ELSE said

DoSkip(c) == "skip" \in outcomes[c] \/ "slow" \in outcomes[c]

ToRun == {c \in Cases : ~DoSkip(c)}

Init ==
  /\ outcomes \in [Cases -> {ClassifyTests(said) : said \in Rules}]
  /\ queue \in SetToSeqs(ToRun)
  /\ \A i, j \in DOMAIN queue : i < j => queue[i] < queue[j]   \* as listed
  /\ queue # <<>>   \* Main does not call Run with nothing to run
  /\ pc = [th \in Threads |-> IF th = Main THEN "spawn" ELSE "unborn"]
  /\ test = [th \in Threads |-> NoCase]
  /\ output = [c \in Cases |-> NoOutput]
  /\ proc = [c \in Cases |-> "none"]
  /\ due = {}
  /\ lock = Nobody
  /\ tally = [succeeded |-> 0, failed |-> <<>>, crashed |-> 0, remaining |-> Len(queue)]
  /\ seen = [th \in Threads |-> tally]
  /\ terminate = FALSE
  /\ verdict = "none"
  /\ faults = 0
  /\ counted = {}

----------------------------------------------------------------------------
(* TestOutput. *)

HasCrashed(o) == ~o.timed_out /\ o.exit_code < 0 /\ o.exit_code # -SIGABRT

HasTimedOut(o) == o.timed_out

HasFailed(o) == o.exit_code # 0

Outcome(o) ==
  IF HasCrashed(o) THEN "crash"
  ELSE IF HasTimedOut(o) THEN "timeout"
  ELSE IF HasFailed(o) THEN "fail" ELSE "pass"

UnexpectedOutput(c) == Outcome(output[c]) \notin outcomes[c]

----------------------------------------------------------------------------
(* Threads. *)

Goto(th, label) == pc' = [pc EXCEPT ![th] = label]

At(th, label) == pc[th] = label

Dead == {"died", "raised"}

(* RunSingle returns: a worker ends, the main thread goes on to join. *)
ReturnLabel(th) == IF th = Main THEN "join" ELSE "ended"

(* An exception leaves RunSingle.  In the main thread Run catches it, sets *)
(* terminate and raises it again; a worker is gone and nobody is told.     *)
(* A lock that the thread holds stays locked.                              *)
Dies(th) ==
  /\ faults < MaxFaults /\ faults' = faults + 1
  /\ IF th = Main
     THEN Goto(th, "raised") /\ terminate' = TRUE /\ verdict' = "raised"
     ELSE Goto(th, "died") /\ UNCHANGED <<terminate, verdict>>

StartThread(w) ==
  /\ At(Main, "spawn") /\ At(w, "unborn")
  /\ Goto(w, "loop")
  /\ UNCHANGED <<outcomes, queue, test, output, proc, due, lock, tally, seen,
                 terminate, verdict, faults, counted>>

Started ==
  /\ At(Main, "spawn") /\ \A w \in Workers : ~At(w, "unborn")
  /\ Goto(Main, "loop")
  /\ UNCHANGED <<outcomes, queue, test, output, proc, due, lock, tally, seen,
                 terminate, verdict, faults, counted>>

(* while not self.terminate *)
While(th) ==
  /\ At(th, "loop")
  /\ Goto(th, IF terminate THEN ReturnLabel(th) ELSE "get")
  /\ UNCHANGED <<outcomes, queue, test, output, proc, due, lock, tally, seen,
                 terminate, verdict, faults, counted>>

GetNowait(th) ==
  /\ At(th, "get")
  /\ IF queue = <<>>
     THEN Goto(th, ReturnLabel(th)) /\ UNCHANGED <<queue, test>>
     ELSE /\ test' = [test EXCEPT ![th] = Head(queue)]
          /\ queue' = Tail(queue)
          /\ Goto(th, "lock")
  /\ UNCHANGED <<outcomes, output, proc, due, lock, tally, seen, terminate,
                 verdict, faults, counted>>

(* Faulty variant of Acquire: it does not wait. *)
AcquireAnyway(th) ==
  /\ pc[th] \in {"lock", "relock"}
  /\ lock' = th
  /\ Goto(th, IF At(th, "lock") THEN "about" ELSE "count")
  /\ UNCHANGED <<outcomes, queue, test, output, proc, due, tally, seen,
                 terminate, verdict, faults, counted>>

(* The lock is taken before AboutToRun and again before counting. *)
Acquire(th) ==
  /\ pc[th] \in {"lock", "relock"}
  /\ lock = Nobody
  /\ lock' = th
  /\ Goto(th, IF At(th, "lock") THEN "about" ELSE "count")
  /\ UNCHANGED <<outcomes, queue, test, output, proc, due, tally, seen,
                 terminate, verdict, faults, counted>>

(* AboutToRun prints, and the lock is released. *)
AboutToRun(th) ==
  /\ At(th, "about")
  /\ lock' = Nobody
  /\ Goto(th, "popen")
  /\ UNCHANGED <<outcomes, queue, test, output, proc, due, tally, seen,
                 terminate, verdict, faults, counted>>

(* AboutToRun or HasRun cannot print. *)
PrintFails(th) ==
  /\ pc[th] \in {"about", "hasrun"}
  /\ Dies(th)
  /\ UNCHANGED <<outcomes, queue, test, output, proc, due, lock, tally, seen, counted>>

(* RunProcess: the process is started, and its deadline set. *)
Popen(th) ==
  /\ At(th, "popen")
  /\ proc' = [proc EXCEPT ![test[th]] = "running"]
  /\ Goto(th, "wait")
  /\ UNCHANGED <<outcomes, queue, test, output, due, lock, tally, seen,
                 terminate, verdict, faults, counted>>

(* The process is not started, or its output cannot be read.  An IOError   *)
(* is taken for a sign of terminate, and returns when that is set.         *)
CaseFails(th) ==
  /\ pc[th] \in {"popen", "ran"}
  /\ \/ Dies(th)
     \/ /\ terminate
        /\ Goto(th, ReturnLabel(th)) /\ UNCHANGED <<terminate, verdict, faults>>
  /\ UNCHANGED <<outcomes, queue, test, output, proc, due, lock, tally, seen, counted>>

(* The loop of RunProcess: the process has exited within its time ... *)
PollExited(th) ==
  /\ At(th, "wait") /\ th \notin due
  /\ proc[test[th]] = "exited"
  /\ Goto(th, "ran")
  /\ UNCHANGED <<outcomes, queue, test, output, proc, due, lock, tally, seen,
                 terminate, verdict, faults, counted>>

(* Faulty variant of KillProcessWithID: the signal is not sent. *)
KillNot(th) ==
  /\ At(th, "wait") /\ th \in due
  /\ output' = [output EXCEPT ![test[th]].timed_out = TRUE]
  /\ Goto(th, "reap")
  /\ UNCHANGED <<outcomes, queue, test, proc, due, lock, tally, seen, terminate,
                 verdict, faults, counted>>

(* ... or its time is over and it is killed.  It may have exited by itself *)
(* since the last poll.                                                    *)
KillProcessWithID(th) ==
  /\ At(th, "wait") /\ th \in due
  /\ proc' = [proc EXCEPT ![test[th]] = IF @ = "running" THEN "killed" ELSE @]
  /\ output' = [output EXCEPT ![test[th]].timed_out = TRUE]
  /\ Goto(th, "reap")
  /\ UNCHANGED <<outcomes, queue, test, due, lock, tally, seen, terminate,
                 verdict, faults, counted>>

(* Faulty variant of Wait: the killed process is not waited for. *)
WaitNot(th) ==
  /\ At(th, "reap")
  /\ due' = due \ {th}
  /\ Goto(th, "ran")
  /\ UNCHANGED <<outcomes, queue, test, output, proc, lock, tally, seen,
                 terminate, verdict, faults, counted>>

(* process.wait() *)
Wait(th) ==
  /\ At(th, "reap")
  /\ proc[test[th]] = "exited"
  /\ due' = due \ {th}
  /\ Goto(th, "ran")
  /\ UNCHANGED <<outcomes, queue, test, output, proc, lock, tally, seen,
                 terminate, verdict, faults, counted>>

(* case.Run has returned. *)
HasOutput(th) ==
  /\ At(th, "ran")
  /\ Goto(th, IF terminate THEN ReturnLabel(th) ELSE "relock")
  /\ UNCHANGED <<outcomes, queue, test, output, proc, due, lock, tally, seen,
                 terminate, verdict, faults, counted>>

(* The counters are read, changed and written back. *)
Read(th) ==
  /\ At(th, "count")
  /\ seen' = [seen EXCEPT ![th] = tally]
  /\ Goto(th, "store")
  /\ UNCHANGED <<outcomes, queue, test, output, proc, due, lock, tally,
                 terminate, verdict, faults, counted>>

Store(th) ==
  LET c == test[th]
      n == [seen[th] EXCEPT !.remaining = @ - 1]
  IN  /\ At(th, "store")
      /\ tally' = IF UnexpectedOutput(c)
                  THEN [n EXCEPT !.failed = Append(tally.failed, c),
                                 !.crashed = IF HasCrashed(output[c]) THEN @ + 1 ELSE @]
                  ELSE [n EXCEPT !.failed = tally.failed, !.succeeded = @ + 1]
      /\ counted' = counted \cup {c}
      /\ Goto(th, "hasrun")
      /\ UNCHANGED <<outcomes, queue, test, output, proc, due, lock, seen,
                     terminate, verdict, faults>>

(* HasRun prints, and the lock is released. *)
HasRun(th) ==
  /\ At(th, "hasrun")
  /\ lock' = Nobody
  /\ test' = [test EXCEPT ![th] = NoCase]
  /\ Goto(th, "loop")
  /\ UNCHANGED <<outcomes, queue, output, proc, due, tally, seen, terminate,
                 verdict, faults, counted>>

(* Faulty variant of Join: the main thread does not wait for the others. *)
JoinNot ==
  /\ At(Main, "join")
  /\ Goto(Main, "returned")
  /\ verdict' = IF tally.failed = <<>> THEN "succeeded" ELSE "failed"
  /\ UNCHANGED <<outcomes, queue, test, output, proc, due, lock, tally, seen,
                 terminate, faults, counted>>

(* The main thread has waited for the others, prints what has failed, and  *)
(* Run returns.                                                            *)
Join ==
  /\ At(Main, "join") /\ \A w \in Workers : pc[w] \in {"ended", "died"}
  /\ Goto(Main, "returned")
  /\ verdict' = IF tally.failed = <<>> THEN "succeeded" ELSE "failed"
  /\ UNCHANGED <<outcomes, queue, test, output, proc, due, lock, tally, seen,
                 terminate, faults, counted>>

(* The user interrupts the main thread, but not while it waits for the     *)
(* lock.  KeyboardInterrupt is not an Exception: terminate is not set.     *)
Interrupt ==
  /\ pc[Main] \notin {"lock", "relock", "returned", "raised"}
  /\ faults < MaxFaults /\ faults' = faults + 1
  /\ Goto(Main, "raised") /\ verdict' = "interrupted"
  /\ UNCHANGED <<outcomes, queue, test, output, proc, due, lock, tally, seen,
                 terminate, counted>>

----------------------------------------------------------------------------
(* Processes and time. *)

(* A test ends by itself, or because it was killed: of the signal, or with *)
(* an exit code of its own.                                                *)
Exits(c, code) ==
  /\ proc[c] \in {"running", "killed"}
  /\ code \in ExitCodes \cup (IF proc[c] = "killed" THEN {-SIGTERM} ELSE {})
  /\ proc' = [proc EXCEPT ![c] = "exited"]
  /\ output' = [output EXCEPT ![c].exit_code = code]
  /\ UNCHANGED <<outcomes, queue, pc, test, due, lock, tally, seen, terminate,
                 verdict, faults, counted>>

Deadline(th) ==
  /\ At(th, "wait") /\ th \notin due
  /\ due' = due \cup {th}
  /\ UNCHANGED <<outcomes, queue, pc, test, output, proc, lock, tally, seen,
                 terminate, verdict, faults, counted>>

----------------------------------------------------------------------------
Finished ==
  /\ pc[Main] \in {"returned", "raised"}
  /\ \A w \in Workers : pc[w] \in {"unborn", "ended", "died"}

(* The thread that holds the lock is gone. *)
Abandoned == lock # Nobody /\ pc[lock] \in Dead

Over == (Finished \/ Abandoned) /\ UNCHANGED vars

Step(th) ==
  \/ While(th) \/ GetNowait(th) \/ Acquire(th) \/ AboutToRun(th) \/ Popen(th)
  \/ PollExited(th) \/ KillProcessWithID(th) \/ Wait(th) \/ HasOutput(th)
  \/ Read(th) \/ Store(th) \/ HasRun(th)

Spawn == Started \/ \E w \in Workers : StartThread(w)

Fault(th) == PrintFails(th) \/ CaseFails(th)

Killed(c) == proc[c] = "killed" /\ \E code \in ExitCodes \cup {-SIGTERM} : Exits(c, code)

Next ==
  \/ Spawn \/ Join \/ Interrupt \/ Over
  \/ \E th \in Threads : Step(th) \/ Fault(th) \/ Deadline(th)
  \/ \E c \in Cases, code \in ExitCodes \cup {-SIGTERM} : Exits(c, code)

Spec == Init /\ [][Next]_vars

(* Threads go on, deadlines pass, and a process that was killed ends.  A   *)
(* test need not end by itself.                                            *)
FairSpec ==
  /\ Spec
  /\ WF_vars(Spawn) /\ WF_vars(Join)
  /\ \A th \in Threads : WF_vars(Step(th)) /\ WF_vars(Deadline(th))
  /\ \A c \in Cases : WF_vars(Killed(c))

----------------------------------------------------------------------------
(* Properties. *)

Labels ==
  {"spawn", "unborn", "loop", "get", "lock", "about", "popen", "wait", "reap", "ran",
   "relock", "count", "store", "hasrun", "join", "ended", "died", "returned", "raised"}

Tallies == [succeeded : 0..NCases, failed : Seq(Cases), crashed : 0..NCases,
            remaining : 0..NCases]

(* Every variable has its type; the counters stay within the cases. *)
TypeOK ==
  /\ outcomes \in [Cases -> SUBSET {"pass", "fail", "timeout", "crash", "skip", "slow", "okay"}]
  /\ queue \in Seq(Cases)
  /\ pc \in [Threads -> Labels]
  /\ test \in [Threads -> Cases \cup {NoCase}]
  /\ output \in [Cases -> [exit_code : Int, timed_out : BOOLEAN]]
  /\ proc \in [Cases -> {"none", "running", "killed", "exited"}]
  /\ due \subseteq Threads
  /\ lock \in Threads \cup {Nobody}
  /\ tally \in Tallies /\ seen \in [Threads -> Tallies]
  /\ terminate \in BOOLEAN
  /\ verdict \in {"none", "succeeded", "failed", "raised", "interrupted"}
  /\ faults \in 0..MaxFaults
  /\ counted \subseteq Cases

(* The cases whose outcome was not expected, and the crashes among them. *)
Bad == {c \in counted : UnexpectedOutput(c)}
Crashes == {c \in Bad : Outcome(output[c]) = "crash"}

(* The counters agree with the cases that were counted, each once and for  *)
(* what its process did, however the threads interleave.                   *)
TallyExact ==
  /\ ToSet(tally.failed) = Bad /\ Len(tally.failed) = Cardinality(Bad)
  /\ tally.succeeded = Cardinality(counted \ Bad)
  /\ tally.crashed = Cardinality(Crashes)
  /\ tally.remaining = Cardinality(ToRun) - Cardinality(counted)

(* Types are right, and the counters exact. *)
RunnerInv == TypeOK /\ TallyExact

(* "All tests succeeded" is said only if every case that was counted had   *)
(* an outcome expected of it.  When Run returns every case was counted,    *)
(* but for those that a dead worker had in hand: each of them is missing   *)
(* from the verdict.                                                       *)
VerdictSound ==
  /\ verdict = "succeeded" => \A c \in counted : ~UnexpectedOutput(c)
  /\ verdict = "failed" => \E c \in counted : UnexpectedOutput(c)
  /\ At(Main, "returned") => \A c \in ToRun :
       c \in counted \/ \E w \in Workers : At(w, "died") /\ test[w] = c

(* Unless it was interrupted, the runner leaves no process behind: not     *)
(* after a timeout and not when the main thread has raised an exception.   *)
NoOrphans ==
  Finished /\ verdict # "interrupted" => \A c \in Cases : proc[c] \in {"none", "exited"}

(* All threads come to their end, tests that hang included, unless one     *)
(* died with the lock.                                                     *)
RunEnds == <>(Finished \/ Abandoned)

=============================================================================
