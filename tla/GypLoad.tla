------------------------------ MODULE GypLoad ------------------------------
(***************************************************************************)
(* The parallel loader of gyp, which generates the build of this           *)
(* repository (tools/gyp/pylib/gyp/input.py).  The main thread farms build *)
(* files out to a pool of processes; a thread of the pool hands each       *)
(* result to LoadTargetBuildFileCallback, which may find more files to     *)
(* load.  Both work on one ParallelState under a condition variable.       *)
(*                                                                         *)
(* Pool is Python's multiprocessing.Pool, modelled as it is used here:     *)
(* calls are sent to the workers in order, with their arguments as they    *)
(* are at that moment, and come back in any order.                         *)
(***************************************************************************)
EXTENDS Integers, Sequences, SequencesExt, FiniteSets

CONSTANTS
  Files,      \* paths of build files
  Projects,   \* what may be on disk: records of roots, deps, includes, broken
  PoolSize,   \* worker processes
  MaxDeaths   \* bound: worker processes that die

ASSUME LoadAssumption ==
  /\ IsFiniteSet(Files)
  /\ PoolSize \in Nat \ {0} /\ MaxDeaths \in Nat
  /\ \A p \in Projects :
       /\ p.roots \subseteq Files /\ p.roots # {}
       /\ p.deps \in [Files -> Seq(Files)]
       /\ p.broken \subseteq Files

VARIABLES
  project,             \* the build files
  pc,                  \* where the main thread is
  holder,              \* who holds the condition: "main" or "none"
  notified,            \* the main thread is waiting no more
  dependencies, scheduled, pending, error,   \* ParallelState
  target_build_files,  \* data['target_build_files']
  data,                \* keys of data and of aux_data
  pool,                \* "none", "open", "closed", "terminated"
  calls                \* the calls of apply_async so far

vars == <<project, pc, holder, notified, dependencies, scheduled, pending,
          error, target_build_files, data, pool, calls>>

Call(f) == [file |-> f, stage |-> "queued", known |-> {}, ok |-> FALSE]

Is(i, stage) == i \in DOMAIN calls /\ calls[i].stage = stage

(* Calls whose callback has not run. *)
Outstanding == {i \in DOMAIN calls : calls[i].stage # "done"}

Keys(f) == {f} \cup project.includes[f]

Init ==
  /\ project \in Projects
  /\ pc = "start" /\ holder = "none" /\ notified = FALSE
  /\ dependencies = SetToSeq(project.roots)
  /\ scheduled = project.roots
  /\ pending = 0 /\ error = FALSE
  /\ target_build_files = {} /\ data = {}
  /\ pool = "none" /\ calls = <<>>

----------------------------------------------------------------------------
(* The main thread: LoadTargetBuildFilesParallel. *)

AcquireCondition ==
  /\ pc = "start" /\ holder = "none"
  /\ pc' = "loop" /\ holder' = "main"
  /\ UNCHANGED <<project, notified, dependencies, scheduled, pending, error,
                 target_build_files, data, pool, calls>>

(* Faulty variant of Busy: results that are due are not waited for. *)
BusyHasty == dependencies # <<>>

(* The condition of the loop. *)
Busy == dependencies # <<>> \/ pending # 0

(* The pool is made for the first call. *)
ApplyAsync ==
  /\ pc = "loop" /\ Busy /\ ~error /\ dependencies # <<>>
  /\ calls' = Append(calls, Call(Last(dependencies)))
  /\ dependencies' = Front(dependencies)
  /\ pending' = pending + 1
  /\ pool' = "open"
  /\ UNCHANGED <<project, pc, holder, notified, scheduled, error,
                 target_build_files, data>>

ConditionWait ==
  /\ pc = "loop" /\ Busy /\ ~error /\ dependencies = <<>>
  /\ pc' = "waiting" /\ holder' = "none" /\ notified' = FALSE
  /\ UNCHANGED <<project, dependencies, scheduled, pending, error,
                 target_build_files, data, pool, calls>>

Wake ==
  /\ pc = "waiting" /\ notified /\ holder = "none"
  /\ pc' = "loop" /\ holder' = "main"
  /\ UNCHANGED <<project, notified, dependencies, scheduled, pending, error,
                 target_build_files, data, pool, calls>>

(* The loop ends or breaks; the condition is released and the pool closed. *)
LeaveLoop ==
  /\ pc = "loop" /\ (error \/ ~Busy)
  /\ pc' = "join" /\ holder' = "none" /\ pool' = "closed"
  /\ UNCHANGED <<project, notified, dependencies, scheduled, pending, error,
                 target_build_files, data, calls>>

(* pool.join() returns when no call is outstanding. *)
PoolJoin ==
  /\ pc = "join" /\ Outstanding = {}
  /\ pc' = IF error THEN "exit" ELSE "returned"
  /\ UNCHANGED <<project, holder, notified, dependencies, scheduled, pending,
                 error, target_build_files, data, pool, calls>>

(* KeyboardInterrupt in the loop.  The condition is held, after a wait as  *)
(* well, and stays so.  With no pool yet the handler fails by itself.      *)
KeyboardInterrupt ==
  /\ pc = "loop"
  /\ IF pool = "none" THEN pc' = "raised" /\ UNCHANGED <<pool, calls>>
     ELSE /\ pc' = "terminate" /\ pool' = "terminated"
          /\ calls' = [i \in DOMAIN calls |->
                         IF Is(i, "handling") THEN calls[i] ELSE [calls[i] EXCEPT !.stage = "done"]]
  /\ UNCHANGED <<project, holder, notified, dependencies, scheduled, pending,
                 error, target_build_files, data>>

(* pool.terminate() joins the thread that runs the callbacks. *)
Terminated ==
  /\ pc = "terminate" /\ Outstanding = {}
  /\ pc' = "raised"
  /\ UNCHANGED <<project, holder, notified, dependencies, scheduled, pending,
                 error, target_build_files, data, pool, calls>>

----------------------------------------------------------------------------
(* The pool. *)

SetStage(i, stage) == calls' = [calls EXCEPT ![i].stage = stage]

(* The task thread pickles the first call that is queued, with the set of  *)
(* files that are loaded by now.                                           *)
Send(i) ==
  /\ Is(i, "queued") /\ \A j \in 1..(i - 1) : ~Is(j, "queued")
  /\ calls' = [calls EXCEPT ![i].stage = "sent", ![i].known = target_build_files]
  /\ UNCHANGED <<project, pc, holder, notified, dependencies, scheduled,
                 pending, error, target_build_files, data, pool>>

Receive(i) ==
  /\ Is(i, "sent")
  /\ Cardinality({j \in DOMAIN calls : Is(j, "running")}) < PoolSize
  /\ SetStage(i, "running")
  /\ UNCHANGED <<project, pc, holder, notified, dependencies, scheduled,
                 pending, error, target_build_files, data, pool>>

(* Nothing comes of a file that cannot be loaded, nor of one that is       *)
(* loaded already.                                                         *)
CallLoadTargetBuildFile(i) ==
  /\ Is(i, "running")
  /\ calls' = [calls EXCEPT ![i].stage = "result",
                            ![i].ok = calls[i].file \notin calls[i].known \cup project.broken]
  /\ UNCHANGED <<project, pc, holder, notified, dependencies, scheduled,
                 pending, error, target_build_files, data, pool>>

(* A worker process dies, or raises what is not an Exception: its call is  *)
(* lost.                                                                   *)
WorkerDies(i) ==
  /\ Is(i, "running")
  /\ Cardinality({j \in DOMAIN calls : Is(j, "lost")}) < MaxDeaths
  /\ SetStage(i, "lost")
  /\ UNCHANGED <<project, pc, holder, notified, dependencies, scheduled,
                 pending, error, target_build_files, data, pool>>

(* The result thread takes a result and calls the callback. *)
HandleResult(i) ==
  /\ Is(i, "result") /\ \A j \in DOMAIN calls : ~Is(j, "handling")
  /\ SetStage(i, "handling")
  /\ UNCHANGED <<project, pc, holder, notified, dependencies, scheduled,
                 pending, error, target_build_files, data, pool>>

(* Faulty variant of Enqueue: it does not ask what is scheduled. *)
EnqueueAgain(new) ==
  /\ scheduled' = scheduled \cup ToSet(new)
  /\ dependencies' = dependencies \o new

(* Where d is first named in new. *)
FirstAt(new, d) == CHOOSE k \in DOMAIN new : new[k] = d /\ \A j \in 1..(k - 1) : new[j] # d

(* The loop over dependencies0: what was not scheduled is, and is put at   *)
(* the end in the order in which it is named first.                        *)
Enqueue(new) ==
  LET fresh == ToSet(new) \ scheduled
  IN  /\ scheduled' = scheduled \cup fresh
      /\ \E added \in SetToSeqs(fresh) :
           /\ \A i, j \in DOMAIN added : i < j => FirstAt(new, added[i]) < FirstAt(new, added[j])
           /\ dependencies' = dependencies \o added

(* Faulty variant of Notify: nobody is told. *)
NotifyNot == UNCHANGED notified

Notify == notified' = (notified \/ pc = "waiting")

(* Faulty variant of Callback: the call stays counted. *)
CallbackKeeps(i) ==
  /\ Is(i, "handling") /\ holder = "none"
  /\ IF calls[i].ok
     THEN /\ target_build_files' = target_build_files \cup {calls[i].file}
          /\ data' = data \cup Keys(calls[i].file)
          /\ Enqueue(project.deps[calls[i].file])
          /\ UNCHANGED <<error, pending>>
     ELSE /\ error' = TRUE
          /\ UNCHANGED <<target_build_files, data, scheduled, dependencies, pending>>
  /\ Notify
  /\ SetStage(i, "done")
  /\ UNCHANGED <<project, pc, holder, pool>>

(* LoadTargetBuildFileCallback, with the condition held from end to end.   *)
Callback(i) ==
  /\ Is(i, "handling") /\ holder = "none"
  /\ IF calls[i].ok
     THEN /\ target_build_files' = target_build_files \cup {calls[i].file}
          /\ data' = data \cup Keys(calls[i].file)
          /\ Enqueue(project.deps[calls[i].file])
          /\ pending' = pending - 1
          /\ UNCHANGED error
     ELSE /\ error' = TRUE
          /\ UNCHANGED <<target_build_files, data, scheduled, dependencies, pending>>
  /\ Notify
  /\ SetStage(i, "done")
  /\ UNCHANGED <<project, pc, holder, pool>>

----------------------------------------------------------------------------
Ended == pc \in {"returned", "exit", "raised"}

(* A call that is lost is waited for for ever; so is, by pool.terminate(), *)
(* a callback that itself waits for the condition.                         *)
Hung ==
  \/ pc \in {"waiting", "join"} /\ \E i \in DOMAIN calls : Is(i, "lost")
  \/ pc = "terminate" /\ \E i \in DOMAIN calls : Is(i, "handling")

MainStep == AcquireCondition \/ ApplyAsync \/ ConditionWait \/ Wake \/ LeaveLoop \/ PoolJoin \/ Terminated

PoolStep ==
  \E i \in DOMAIN calls :
    Send(i) \/ Receive(i) \/ CallLoadTargetBuildFile(i) \/ HandleResult(i) \/ Callback(i)

Next == MainStep \/ PoolStep \/ KeyboardInterrupt \/ \E i \in DOMAIN calls : WorkerDies(i)

Spec == Init /\ [][Next]_vars

(* The main thread and the pool go on while they can; nobody need          *)
(* interrupt, and no worker need die.                                      *)
FairSpec == Spec /\ WF_vars(MainStep) /\ WF_vars(PoolStep)

----------------------------------------------------------------------------
(* Properties. *)

(* Every variable has its type; pending is never negative. *)
TypeOK ==
  /\ project \in Projects
  /\ pc \in {"start", "loop", "waiting", "join", "terminate", "returned", "exit", "raised"}
  /\ holder \in {"main", "none"} /\ notified \in BOOLEAN
  /\ dependencies \in Seq(Files) /\ scheduled \subseteq Files
  /\ pending \in Nat /\ error \in BOOLEAN
  /\ target_build_files \subseteq Files
  /\ data = UNION {Keys(f) : f \in target_build_files}
  /\ pool \in {"none", "open", "closed", "terminated"}
  /\ calls \in Seq([file : Files, known : SUBSET Files, ok : BOOLEAN,
                    stage : {"queued", "sent", "running", "result", "handling", "lost", "done"}])

(* pending is the number of calls whose callback is still to come, so that *)
(* the loop does not end before the last file that is asked for; a failed  *)
(* call is never taken off, which keeps the loop going to where it looks   *)
(* at error.                                                               *)
PendingExact ==
  pool # "terminated" =>
    IF error THEN pending > Cardinality(Outstanding) ELSE pending = Cardinality(Outstanding)

(* Types are right, and the count of calls is exact. *)
LoadInv == TypeOK /\ PendingExact

(* However many files ask for it, and however late the set of loaded files *)
(* reaches a worker, no file is loaded twice; nor is one taken for an      *)
(* error because it was loaded already.                                    *)
LoadedOnce ==
  /\ \A i, j \in DOMAIN calls : calls[i].file = calls[j].file => i = j
  /\ error => \E i \in DOMAIN calls : Is(i, "done") /\ calls[i].file \in project.broken

Abstract == INSTANCE BuildFileLoader WITH
  loaded <- target_build_files,
  status <- CASE pc \in {"terminate", "raised"} -> "interrupted"
              [] pc \in {"returned", "exit"} -> pc
              [] OTHER -> "loading"

(* The parallel loader does what the serial one does: it returns with all  *)
(* files that are asked for and no other, and exits only for a file that   *)
(* cannot be loaded.                                                       *)
ImplementsLoader == Abstract!Spec

(* The load ends, cyclic references between files included; only the death *)
(* of a worker, or an interrupt that meets a callback, leaves it hanging.  *)
LoadEnds == <>(Ended \/ Hung)

=============================================================================
