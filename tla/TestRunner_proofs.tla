------------------------- MODULE TestRunner_proofs -------------------------
(***************************************************************************)
(* Theorems about TestRunner, for every number of threads, cases, rules    *)
(* and exceptions.                                                         *)
(***************************************************************************)
EXTENDS TestRunner, FiniteSetTheorems, TLAPS

----------------------------------------------------------------------------
(* The inductive invariant. *)

(* Where a thread has the lock. *)
Critical == {"about", "count", "store", "hasrun"}

(* Where a thread has a case that was not counted, by what is known of the *)
(* case's process.                                                         *)
Fresh == {"lock", "about", "popen"}
Busy == {"wait", "reap"}
Complete == {"ran", "relock", "count", "store"}

Leaving == {"join", "ended", "returned"}

(* One thread at a time is where the lock is needed, and the counters it   *)
(* has read are those that it will change.                                 *)
LockInv ==
  \A th \in Threads :
    /\ pc[th] \in Critical => lock = th
    /\ pc[th] = "store" => seen[th] = tally

(* A case is in the queue once, or in the hands of one thread, or counted; *)
(* none is lost.                                                           *)
CaseInv ==
  /\ \A i, j \in DOMAIN queue : queue[i] = queue[j] => i = j
  /\ \A i \in DOMAIN queue : /\ queue[i] \in ToRun /\ queue[i] \notin counted
                             /\ proc[queue[i]] = "none"
                             /\ \A th \in Threads : test[th] # queue[i]
  /\ \A th, ti \in Threads : test[th] = test[ti] /\ test[th] # NoCase => th = ti
  /\ \A c \in ToRun : \/ c \in counted
                      \/ \E i \in DOMAIN queue : queue[i] = c
                      \/ \E th \in Threads : test[th] = c
  /\ counted \subseteq ToRun

(* What a thread has in hand, by where it is. *)
HandInv ==
  \A th \in Threads :
    /\ pc[th] \in {"spawn", "unborn", "loop", "get"} => test[th] = NoCase
    /\ pc[th] \in Fresh \cup Busy \cup Complete =>
         test[th] \in ToRun /\ test[th] \notin counted
    /\ pc[th] \in Fresh => proc[test[th]] = "none"
    /\ pc[th] \in Complete => proc[test[th]] = "exited"
    /\ pc[th] = "hasrun" => test[th] \in counted

(* A case is counted after its process, and a process that runs has a      *)
(* thread that waits for it, or had one that was interrupted.              *)
ProcInv ==
  \A c \in Cases :
    /\ c \in counted => proc[c] = "exited"
    /\ proc[c] \in {"running", "killed"} =>
         \E th \in Threads : /\ test[th] = c
                             /\ pc[th] \in Busy \/ (th = Main /\ verdict = "interrupted")

(* How threads end.  A thread that was not told to stop leaves an empty    *)
(* queue and nothing in its hands.                                         *)
EndInv ==
  /\ \A w \in Workers : pc[w] \notin {"spawn", "join", "returned", "raised"}
  /\ pc[Main] \notin {"unborn", "ended", "died"}
  /\ terminate => pc[Main] = "raised" /\ verdict = "raised"
  /\ verdict = "interrupted" => pc[Main] = "raised"
  /\ verdict \in {"succeeded", "failed"} <=> pc[Main] = "returned"
  /\ pc[Main] = "returned" => \A w \in Workers : pc[w] \in {"ended", "died"}
  /\ ~terminate => \A th \in Threads :
       pc[th] \in Leaving => queue = <<>> /\ test[th] = NoCase

(* What Run said is what the counters say. *)
SaidInv ==
  /\ verdict = "succeeded" => tally.failed = <<>>
  /\ verdict = "failed" => tally.failed # <<>>

IInv == TypeOK /\ LockInv /\ CaseInv /\ HandInv /\ ProcInv /\ EndInv /\ TallyExact /\ SaidInv

----------------------------------------------------------------------------
(* Basic facts. *)

LEMMA CasesFinite ==
  /\ IsFiniteSet(Cases) /\ Cardinality(Cases) = NCases
  /\ \A S \in SUBSET Cases : IsFiniteSet(S) /\ Cardinality(S) \in 0..NCases
<1>1. NCases \in Nat
  BY RunnerAssumption
<1>2. IsFiniteSet(Cases) /\ Cardinality(Cases) = NCases
  BY <1>1, FS_Interval DEF Cases
<1>3. ASSUME NEW S \in SUBSET Cases
      PROVE  IsFiniteSet(S) /\ Cardinality(S) \in 0..NCases
  BY <1>1, <1>2, FS_Subset, FS_CardinalityType
<1> QED
  BY <1>2, <1>3

(* What a queue gives and keeps. *)
LEMMA HeadTail ==
  ASSUME NEW S, NEW q \in Seq(S), q # <<>>
  PROVE  /\ Head(q) \in S /\ Tail(q) \in Seq(S)
         /\ 1 \in DOMAIN q /\ Head(q) = q[1]
         /\ \A i \in DOMAIN Tail(q) : i + 1 \in DOMAIN q /\ i + 1 # 1 /\ Tail(q)[i] = q[i + 1]
         /\ \A i, j \in DOMAIN Tail(q) : i + 1 = j + 1 => i = j
         /\ \A j \in DOMAIN q : j # 1 => \E i \in DOMAIN Tail(q) : Tail(q)[i] = q[j]
<1>1. Len(q) \in Nat \ {0} /\ DOMAIN q = 1..Len(q) /\ DOMAIN Tail(q) = 1..(Len(q) - 1)
  OBVIOUS
<1>2. \A i \in DOMAIN Tail(q) : Tail(q)[i] = q[i + 1]
  OBVIOUS
<1>3. ASSUME NEW j \in DOMAIN q, j # 1
      PROVE  \E i \in DOMAIN Tail(q) : Tail(q)[i] = q[j]
  <2>1. j - 1 \in DOMAIN Tail(q) /\ (j - 1) + 1 = j
    BY <1>1, <1>3
  <2> QED
    BY <2>1, <1>2
<1> QED
  BY <1>1, <1>2, <1>3

LEMMA AppendSet ==
  ASSUME NEW S, NEW s \in Seq(S), NEW e \in S
  PROVE  ToSet(Append(s, e)) = ToSet(s) \cup {e}
<1>1. DOMAIN s = 1..Len(s) /\ Len(s) \in Nat /\ DOMAIN Append(s, e) = 1..(Len(s) + 1)
  OBVIOUS
<1>2. \A i \in DOMAIN s : i \in DOMAIN Append(s, e) /\ Append(s, e)[i] = s[i]
  BY <1>1
<1>3. Len(s) + 1 \in DOMAIN Append(s, e) /\ Append(s, e)[Len(s) + 1] = e
  BY <1>1
<1>4. \A i \in DOMAIN Append(s, e) : i \in DOMAIN s \/ i = Len(s) + 1
  BY <1>1
<1> QED
  BY <1>2, <1>3, <1>4 DEF ToSet

(* The pc of a thread after it goes somewhere. *)
LEMMA GotoType ==
  ASSUME TypeOK, NEW th \in Threads, NEW l \in Labels, Goto(th, l)
  PROVE  pc' \in [Threads -> Labels]
BY DEF TypeOK, Goto

(* The counters stay exact while nothing is counted and the output of what *)
(* was counted stays.                                                      *)
LEMMA TallySame ==
  ASSUME TypeOK, TallyExact, UNCHANGED <<outcomes, tally, counted>>,
         \A c \in counted : output'[c] = output[c]
  PROVE  TallyExact'
<1>1. Bad' = Bad
  BY DEF Bad, UnexpectedOutput
<1>2. Crashes' = Crashes
  BY <1>1 DEF Crashes, Bad
<1>3. ToRun' = ToRun
  BY DEF ToRun, DoSkip
<1> QED
  BY <1>1, <1>2, <1>3 DEF TallyExact

LEMMA InvStartThread ==
  ASSUME NEW w \in Workers, IInv, StartThread(w)
  PROVE  IInv'
<1> USE RunnerAssumption DEF Threads, IInv
<1>1. TypeOK'
  BY DEF StartThread, Goto, At, TypeOK, Labels
<1>2. LockInv'
  BY DEF StartThread, Goto, At, TypeOK, LockInv, Critical
<1>3. CaseInv'
  BY DEF StartThread, Goto, At, TypeOK, CaseInv, HandInv, ToRun, DoSkip, Fresh, Busy, Complete
<1>4. HandInv'
  BY DEF StartThread, Goto, At, TypeOK, HandInv, CaseInv, ToRun, DoSkip, Fresh, Busy, Complete, Critical
<1>5. ProcInv'
  BY DEF StartThread, Goto, At, TypeOK, ProcInv, HandInv, EndInv, Busy, Fresh, Complete, ToRun
<1>6. EndInv'
  BY DEF StartThread, Goto, At, TypeOK, Labels, EndInv, HandInv, Leaving
<1>7. TallyExact'
  BY TallySame DEF StartThread, Goto, At
<1>8. SaidInv'
  BY DEF StartThread, Goto, At, TypeOK, SaidInv, EndInv
<1> QED
  BY <1>1, <1>2, <1>3, <1>4, <1>5, <1>6, <1>7, <1>8

LEMMA InvStarted ==
  ASSUME IInv, Started
  PROVE  IInv'
<1> USE RunnerAssumption DEF Threads, IInv
<1>1. TypeOK'
  BY DEF Started, Goto, At, TypeOK, Labels
<1>2. LockInv'
  BY DEF Started, Goto, At, TypeOK, LockInv, Critical
<1>3. CaseInv'
  BY DEF Started, Goto, At, TypeOK, CaseInv, HandInv, ToRun, DoSkip, Fresh, Busy, Complete
<1>4. HandInv'
  BY DEF Started, Goto, At, TypeOK, HandInv, CaseInv, ToRun, DoSkip, Fresh, Busy, Complete, Critical
<1>5. ProcInv'
  BY DEF Started, Goto, At, TypeOK, ProcInv, HandInv, EndInv, Busy, Fresh, Complete, ToRun
<1>6. EndInv'
  BY DEF Started, Goto, At, TypeOK, Labels, EndInv, HandInv, Leaving
<1>7. TallyExact'
  BY TallySame DEF Started, Goto, At
<1>8. SaidInv'
  BY DEF Started, Goto, At, TypeOK, SaidInv, EndInv
<1> QED
  BY <1>1, <1>2, <1>3, <1>4, <1>5, <1>6, <1>7, <1>8

LEMMA InvWhile ==
  ASSUME NEW th \in Threads, IInv, While(th)
  PROVE  IInv'
<1> USE RunnerAssumption DEF Threads, IInv
<1>1. TypeOK'
  BY DEF While, Goto, At, ReturnLabel, TypeOK, Labels
<1>2. LockInv'
  BY DEF While, Goto, At, ReturnLabel, TypeOK, LockInv, Critical
<1>3. CaseInv'
  BY DEF While, Goto, At, ReturnLabel, TypeOK, CaseInv, HandInv, ToRun, DoSkip, Fresh, Busy, Complete
<1>4. HandInv'
  BY DEF While, Goto, At, ReturnLabel, TypeOK, HandInv, CaseInv, ToRun, DoSkip, Fresh, Busy, Complete, Critical
<1>5. ProcInv'
  BY DEF While, Goto, At, ReturnLabel, TypeOK, ProcInv, HandInv, EndInv, Busy, Fresh, Complete, ToRun
<1>6. EndInv'
  BY DEF While, Goto, At, ReturnLabel, TypeOK, Labels, EndInv, HandInv, Leaving
<1>7. TallyExact'
  BY TallySame DEF While, Goto, At, ReturnLabel
<1>8. SaidInv'
  BY DEF While, Goto, At, ReturnLabel, TypeOK, SaidInv, EndInv
<1> QED
  BY <1>1, <1>2, <1>3, <1>4, <1>5, <1>6, <1>7, <1>8

LEMMA InvGetNowait ==
  ASSUME NEW th \in Threads, IInv, GetNowait(th)
  PROVE  IInv'
<1> USE RunnerAssumption DEF Threads, IInv
<1>1. TypeOK'
  <2>1. CASE queue = <<>>
    BY <2>1 DEF GetNowait, Goto, At, ReturnLabel, TypeOK, Labels
  <2>2. CASE queue # <<>>
    <3>1. Head(queue) \in Cases /\ Tail(queue) \in Seq(Cases)
      BY <2>2, HeadTail DEF TypeOK
    <3>2. test' \in [Threads -> Cases \cup {NoCase}] /\ queue' \in Seq(Cases)
      <4>1. test \in [Threads -> Cases \cup {NoCase}]
        BY DEF TypeOK
      <4>2. test' = [test EXCEPT ![th] = Head(queue)] /\ queue' = Tail(queue)
        BY <2>2 DEF GetNowait
      <4> QED
        BY <3>1, <4>1, <4>2
    <3>3. pc' \in [Threads -> Labels]
      BY <2>2, GotoType DEF GetNowait, Labels
    <3> QED
      BY <3>2, <3>3 DEF GetNowait, TypeOK
  <2> QED
    BY <2>1, <2>2
<1>2. LockInv'
  BY DEF GetNowait, Goto, At, ReturnLabel, TypeOK, LockInv, Critical
<1>3. CaseInv'
  <2>1. CASE queue = <<>>
    BY <2>1 DEF GetNowait, TypeOK, CaseInv, ToRun, DoSkip
  <2>2. CASE queue # <<>>
    <3>1. queue' = Tail(queue) /\ test' = [test EXCEPT ![th] = Head(queue)]
          /\ UNCHANGED <<proc, counted, outcomes>> /\ test[th] = NoCase
      BY <2>2 DEF GetNowait, At, HandInv
    <3>2. ToRun' = ToRun
      BY <3>1 DEF ToRun, DoSkip
    <3>3. queue \in Seq(Cases) /\ test \in [Threads -> Cases \cup {NoCase}]
      BY DEF TypeOK
    <3>4. \A ti \in Threads : test'[ti] = IF ti = th THEN queue[1] ELSE test[ti]
      BY <2>2, <3>1, <3>3, HeadTail
    <3>5. \A i, j \in DOMAIN queue' : queue'[i] = queue'[j] => i = j
      BY <2>2, <3>1, <3>3, HeadTail DEF CaseInv
    <3>6. \A i \in DOMAIN queue' : /\ queue'[i] \in ToRun /\ queue'[i] \notin counted
                                   /\ proc[queue'[i]] = "none"
                                   /\ \A ti \in Threads : test'[ti] # queue'[i]
      BY <2>2, <3>1, <3>3, <3>4, HeadTail DEF CaseInv
    <3>7. \A t1, t2 \in Threads : test'[t1] = test'[t2] /\ test'[t1] # NoCase => t1 = t2
      BY <2>2, <3>3, <3>4, HeadTail DEF CaseInv
    <3>8. ASSUME NEW c \in ToRun, c \notin counted
          PROVE  (\E i \in DOMAIN queue' : queue'[i] = c) \/ \E ti \in Threads : test'[ti] = c
      <4>1. CASE \E i \in DOMAIN queue : queue[i] = c
        BY <2>2, <3>1, <3>3, <3>4, <4>1, HeadTail
      <4>2. CASE \E ti \in Threads : test[ti] = c
        <5>1. c # NoCase
          BY RunnerAssumption DEF ToRun, Cases, NoCase
        <5> QED
          BY <3>1, <3>4, <4>2, <5>1
      <4> QED
        BY <3>8, <4>1, <4>2 DEF CaseInv
    <3> QED
      BY <3>1, <3>2, <3>5, <3>6, <3>7, <3>8 DEF CaseInv
  <2> QED
    BY <2>1, <2>2
<1>4. HandInv'
  BY DEF GetNowait, Goto, At, ReturnLabel, TypeOK, HandInv, CaseInv, ToRun, DoSkip, Fresh, Busy, Complete, Critical
<1>5. ProcInv'
  <2>1. \A c \in Cases : c # NoCase
    BY DEF Cases, NoCase
  <2>2. UNCHANGED <<proc, counted, verdict>> /\ pc[th] = "get" /\ test[th] = NoCase
    BY DEF GetNowait, At, HandInv
  <2>3. \A ti \in Threads : ti # th => test'[ti] = test[ti] /\ pc'[ti] = pc[ti]
    BY DEF GetNowait, Goto, TypeOK
  <2> QED
    BY <2>1, <2>2, <2>3 DEF ProcInv
<1>6. EndInv'
  BY DEF GetNowait, Goto, At, ReturnLabel, TypeOK, Labels, EndInv, HandInv, Leaving
<1>7. TallyExact'
  BY TallySame DEF GetNowait, Goto, At, ReturnLabel
<1>8. SaidInv'
  BY DEF GetNowait, Goto, At, ReturnLabel, TypeOK, SaidInv, EndInv
<1> QED
  BY <1>1, <1>2, <1>3, <1>4, <1>5, <1>6, <1>7, <1>8

LEMMA InvAcquire ==
  ASSUME NEW th \in Threads, IInv, Acquire(th)
  PROVE  IInv'
<1> USE RunnerAssumption DEF Threads, IInv
<1>1. TypeOK'
  BY DEF Acquire, Goto, At, TypeOK, Labels
<1>2. LockInv'
  BY DEF Acquire, Goto, At, TypeOK, LockInv, Critical
<1>3. CaseInv'
  BY DEF Acquire, Goto, At, TypeOK, CaseInv, HandInv, ToRun, DoSkip, Fresh, Busy, Complete
<1>4. HandInv'
  BY DEF Acquire, Goto, At, TypeOK, HandInv, CaseInv, ToRun, DoSkip, Fresh, Busy, Complete, Critical
<1>5. ProcInv'
  BY DEF Acquire, Goto, At, TypeOK, ProcInv, HandInv, EndInv, Busy, Fresh, Complete, ToRun
<1>6. EndInv'
  BY DEF Acquire, Goto, At, TypeOK, Labels, EndInv, HandInv, Leaving
<1>7. TallyExact'
  BY TallySame DEF Acquire, Goto, At
<1>8. SaidInv'
  BY DEF Acquire, Goto, At, TypeOK, SaidInv, EndInv
<1> QED
  BY <1>1, <1>2, <1>3, <1>4, <1>5, <1>6, <1>7, <1>8

LEMMA InvAboutToRun ==
  ASSUME NEW th \in Threads, IInv, AboutToRun(th)
  PROVE  IInv'
<1> USE RunnerAssumption DEF Threads, IInv
<1>1. TypeOK'
  BY DEF AboutToRun, Goto, At, TypeOK, Labels
<1>2. LockInv'
  BY DEF AboutToRun, Goto, At, TypeOK, LockInv, Critical
<1>3. CaseInv'
  BY DEF AboutToRun, Goto, At, TypeOK, CaseInv, HandInv, ToRun, DoSkip, Fresh, Busy, Complete
<1>4. HandInv'
  BY DEF AboutToRun, Goto, At, TypeOK, HandInv, CaseInv, ToRun, DoSkip, Fresh, Busy, Complete, Critical
<1>5. ProcInv'
  BY DEF AboutToRun, Goto, At, TypeOK, ProcInv, HandInv, EndInv, Busy, Fresh, Complete, ToRun
<1>6. EndInv'
  BY DEF AboutToRun, Goto, At, TypeOK, Labels, EndInv, HandInv, Leaving
<1>7. TallyExact'
  BY TallySame DEF AboutToRun, Goto, At
<1>8. SaidInv'
  BY DEF AboutToRun, Goto, At, TypeOK, SaidInv, EndInv
<1> QED
  BY <1>1, <1>2, <1>3, <1>4, <1>5, <1>6, <1>7, <1>8

LEMMA InvPrintFails ==
  ASSUME NEW th \in Threads, IInv, PrintFails(th)
  PROVE  IInv'
<1> USE RunnerAssumption DEF Threads, IInv
<1>1. TypeOK'
  <2>1. faults' \in 0..MaxFaults
    BY DEF PrintFails, Dies, TypeOK
  <2>2. pc' \in [Threads -> Labels]
    BY GotoType DEF PrintFails, Dies, Labels
  <2>3. terminate' \in BOOLEAN /\ verdict' \in {"none", "succeeded", "failed", "raised", "interrupted"}
    BY DEF PrintFails, Dies, TypeOK
  <2> QED
    BY <2>1, <2>2, <2>3 DEF PrintFails, TypeOK
<1>2. LockInv'
  BY DEF PrintFails, Goto, At, Dies, TypeOK, LockInv, Critical
<1>3. CaseInv'
  BY DEF PrintFails, Goto, At, Dies, TypeOK, CaseInv, HandInv, ToRun, DoSkip, Fresh, Busy, Complete
<1>4. HandInv'
  BY DEF PrintFails, Goto, At, Dies, TypeOK, HandInv, CaseInv, ToRun, DoSkip, Fresh, Busy, Complete, Critical
<1>5. ProcInv'
  BY DEF PrintFails, Goto, At, Dies, TypeOK, ProcInv, HandInv, EndInv, Busy, Fresh, Complete, ToRun
<1>6. EndInv'
  BY DEF PrintFails, Goto, At, Dies, TypeOK, Labels, EndInv, HandInv, Leaving
<1>7. TallyExact'
  BY TallySame DEF PrintFails, Goto, At, Dies
<1>8. SaidInv'
  BY DEF PrintFails, Goto, At, Dies, TypeOK, SaidInv, EndInv
<1> QED
  BY <1>1, <1>2, <1>3, <1>4, <1>5, <1>6, <1>7, <1>8

LEMMA InvPopen ==
  ASSUME NEW th \in Threads, IInv, Popen(th)
  PROVE  IInv'
<1> USE RunnerAssumption DEF Threads, IInv
<1>1. TypeOK'
  BY DEF Popen, Goto, At, TypeOK, Labels
<1>2. LockInv'
  BY DEF Popen, Goto, At, TypeOK, LockInv, Critical
<1>3. CaseInv'
  BY DEF Popen, Goto, At, TypeOK, CaseInv, HandInv, ToRun, DoSkip, Fresh, Busy, Complete
<1>4. HandInv'
  <2>1. test[th] \in ToRun /\ test[th] \in Cases /\ test[th] # NoCase
    BY DEF Popen, At, HandInv, Fresh, ToRun, Cases, NoCase
  <2>2. \A ti \in Threads : ti # th => test[ti] # test[th] /\ pc'[ti] = pc[ti]
    BY <2>1 DEF Popen, Goto, CaseInv, TypeOK
  <2>3. \A ti \in Threads : ti # th => proc'[test[ti]] = proc[test[ti]] \/ test[ti] \notin Cases
    BY <2>1, <2>2 DEF Popen, TypeOK
  <2>4. ToRun' = ToRun /\ ToRun \subseteq Cases
    BY DEF Popen, ToRun, DoSkip
  <2>5. pc'[th] = "wait" /\ test' = test /\ counted' = counted
    BY DEF Popen, Goto, TypeOK
  <2>6. test[th] \notin counted
    BY DEF Popen, At, HandInv, Fresh
  <2> QED
    BY <2>1, <2>2, <2>3, <2>4, <2>5, <2>6 DEF HandInv, Fresh, Busy, Complete
<1>5. ProcInv'
  BY DEF Popen, Goto, At, TypeOK, ProcInv, HandInv, EndInv, Busy, Fresh, Complete, ToRun
<1>6. EndInv'
  BY DEF Popen, Goto, At, TypeOK, Labels, EndInv, HandInv, Leaving
<1>7. TallyExact'
  BY TallySame DEF Popen, Goto, At
<1>8. SaidInv'
  BY DEF Popen, Goto, At, TypeOK, SaidInv, EndInv
<1> QED
  BY <1>1, <1>2, <1>3, <1>4, <1>5, <1>6, <1>7, <1>8

LEMMA InvCaseFails ==
  ASSUME NEW th \in Threads, IInv, CaseFails(th)
  PROVE  IInv'
<1> USE RunnerAssumption DEF Threads, IInv
<1>1. TypeOK'
  <2>1. faults' \in 0..MaxFaults
    BY DEF CaseFails, Dies, TypeOK
  <2>2. pc' \in [Threads -> Labels]
    BY GotoType DEF CaseFails, ReturnLabel, Dies, Labels
  <2>3. terminate' \in BOOLEAN /\ verdict' \in {"none", "succeeded", "failed", "raised", "interrupted"}
    BY DEF CaseFails, Dies, TypeOK
  <2> QED
    BY <2>1, <2>2, <2>3 DEF CaseFails, TypeOK
<1>2. LockInv'
  BY DEF CaseFails, Goto, At, ReturnLabel, Dies, TypeOK, LockInv, Critical
<1>3. CaseInv'
  BY DEF CaseFails, Goto, At, ReturnLabel, Dies, TypeOK, CaseInv, HandInv, ToRun, DoSkip, Fresh, Busy, Complete
<1>4. HandInv'
  BY DEF CaseFails, Goto, At, ReturnLabel, Dies, TypeOK, HandInv, CaseInv, ToRun, DoSkip, Fresh, Busy, Complete, Critical
<1>5. ProcInv'
  BY DEF CaseFails, Goto, At, ReturnLabel, Dies, TypeOK, ProcInv, HandInv, EndInv, Busy, Fresh, Complete, ToRun
<1>6. EndInv'
  BY DEF CaseFails, Goto, At, ReturnLabel, Dies, TypeOK, Labels, EndInv, HandInv, Leaving
<1>7. TallyExact'
  BY TallySame DEF CaseFails, Goto, At, ReturnLabel, Dies
<1>8. SaidInv'
  BY DEF CaseFails, Goto, At, ReturnLabel, Dies, TypeOK, SaidInv, EndInv
<1> QED
  BY <1>1, <1>2, <1>3, <1>4, <1>5, <1>6, <1>7, <1>8

LEMMA InvPollExited ==
  ASSUME NEW th \in Threads, IInv, PollExited(th)
  PROVE  IInv'
<1> USE RunnerAssumption DEF Threads, IInv
<1>1. TypeOK'
  BY DEF PollExited, Goto, At, TypeOK, Labels
<1>2. LockInv'
  BY DEF PollExited, Goto, At, TypeOK, LockInv, Critical
<1>3. CaseInv'
  BY DEF PollExited, Goto, At, TypeOK, CaseInv, HandInv, ToRun, DoSkip, Fresh, Busy, Complete
<1>4. HandInv'
  BY DEF PollExited, Goto, At, TypeOK, HandInv, CaseInv, ToRun, DoSkip, Fresh, Busy, Complete, Critical
<1>5. ProcInv'
  BY DEF PollExited, Goto, At, TypeOK, ProcInv, HandInv, EndInv, Busy, Fresh, Complete, ToRun
<1>6. EndInv'
  BY DEF PollExited, Goto, At, TypeOK, Labels, EndInv, HandInv, Leaving
<1>7. TallyExact'
  BY TallySame DEF PollExited, Goto, At
<1>8. SaidInv'
  BY DEF PollExited, Goto, At, TypeOK, SaidInv, EndInv
<1> QED
  BY <1>1, <1>2, <1>3, <1>4, <1>5, <1>6, <1>7, <1>8

LEMMA InvKillProcessWithID ==
  ASSUME NEW th \in Threads, IInv, KillProcessWithID(th)
  PROVE  IInv'
<1> USE RunnerAssumption DEF Threads, IInv
<1>1. TypeOK'
  <2>1. test[th] \in Cases
    BY DEF KillProcessWithID, At, HandInv, Busy, ToRun
  <2>2. output' \in [Cases -> [exit_code : Int, timed_out : BOOLEAN]]
    <3>1. output \in [Cases -> [exit_code : Int, timed_out : BOOLEAN]]
      BY DEF TypeOK
    <3>2. output' = [output EXCEPT ![test[th]].timed_out = TRUE]
      BY DEF KillProcessWithID
    <3>3. [output[test[th]] EXCEPT !.timed_out = TRUE] \in [exit_code : Int, timed_out : BOOLEAN]
      BY <2>1, <3>1
    <3> QED
      BY <2>1, <3>1, <3>2, <3>3
  <2>3. pc' \in [Threads -> Labels] /\ proc' \in [Cases -> {"none", "running", "killed", "exited"}]
    BY <2>1, GotoType DEF KillProcessWithID, TypeOK, Labels
  <2> QED
    BY <2>2, <2>3 DEF KillProcessWithID, TypeOK
<1>2. LockInv'
  BY DEF KillProcessWithID, Goto, At, TypeOK, LockInv, Critical
<1>3. CaseInv'
  BY DEF KillProcessWithID, Goto, At, TypeOK, CaseInv, HandInv, ToRun, DoSkip, Fresh, Busy, Complete
<1>4. HandInv'
  BY DEF KillProcessWithID, Goto, At, TypeOK, HandInv, CaseInv, ToRun, DoSkip, Fresh, Busy, Complete, Critical
<1>5. ProcInv'
  BY DEF KillProcessWithID, Goto, At, TypeOK, ProcInv, HandInv, EndInv, Busy, Fresh, Complete, ToRun
<1>6. EndInv'
  BY DEF KillProcessWithID, Goto, At, TypeOK, Labels, EndInv, HandInv, Leaving
<1>7. TallyExact'
  <2>1. \A c \in counted : output'[c] = output[c]
    BY DEF KillProcessWithID, At, TypeOK, HandInv, Busy
  <2> QED
    BY <2>1, TallySame DEF KillProcessWithID
<1>8. SaidInv'
  BY DEF KillProcessWithID, Goto, At, TypeOK, SaidInv, EndInv
<1> QED
  BY <1>1, <1>2, <1>3, <1>4, <1>5, <1>6, <1>7, <1>8

LEMMA InvWait ==
  ASSUME NEW th \in Threads, IInv, Wait(th)
  PROVE  IInv'
<1> USE RunnerAssumption DEF Threads, IInv
<1>1. TypeOK'
  BY DEF Wait, Goto, At, TypeOK, Labels
<1>2. LockInv'
  BY DEF Wait, Goto, At, TypeOK, LockInv, Critical
<1>3. CaseInv'
  BY DEF Wait, Goto, At, TypeOK, CaseInv, HandInv, ToRun, DoSkip, Fresh, Busy, Complete
<1>4. HandInv'
  BY DEF Wait, Goto, At, TypeOK, HandInv, CaseInv, ToRun, DoSkip, Fresh, Busy, Complete, Critical
<1>5. ProcInv'
  BY DEF Wait, Goto, At, TypeOK, ProcInv, HandInv, EndInv, Busy, Fresh, Complete, ToRun
<1>6. EndInv'
  BY DEF Wait, Goto, At, TypeOK, Labels, EndInv, HandInv, Leaving
<1>7. TallyExact'
  BY TallySame DEF Wait, Goto, At
<1>8. SaidInv'
  BY DEF Wait, Goto, At, TypeOK, SaidInv, EndInv
<1> QED
  BY <1>1, <1>2, <1>3, <1>4, <1>5, <1>6, <1>7, <1>8

LEMMA InvHasOutput ==
  ASSUME NEW th \in Threads, IInv, HasOutput(th)
  PROVE  IInv'
<1> USE RunnerAssumption DEF Threads, IInv
<1>1. TypeOK'
  BY DEF HasOutput, Goto, At, ReturnLabel, TypeOK, Labels
<1>2. LockInv'
  BY DEF HasOutput, Goto, At, ReturnLabel, TypeOK, LockInv, Critical
<1>3. CaseInv'
  BY DEF HasOutput, Goto, At, ReturnLabel, TypeOK, CaseInv, HandInv, ToRun, DoSkip, Fresh, Busy, Complete
<1>4. HandInv'
  BY DEF HasOutput, Goto, At, ReturnLabel, TypeOK, HandInv, CaseInv, ToRun, DoSkip, Fresh, Busy, Complete, Critical
<1>5. ProcInv'
  BY DEF HasOutput, Goto, At, ReturnLabel, TypeOK, ProcInv, HandInv, EndInv, Busy, Fresh, Complete, ToRun
<1>6. EndInv'
  BY DEF HasOutput, Goto, At, ReturnLabel, TypeOK, Labels, EndInv, HandInv, Leaving
<1>7. TallyExact'
  BY TallySame DEF HasOutput, Goto, At, ReturnLabel
<1>8. SaidInv'
  BY DEF HasOutput, Goto, At, ReturnLabel, TypeOK, SaidInv, EndInv
<1> QED
  BY <1>1, <1>2, <1>3, <1>4, <1>5, <1>6, <1>7, <1>8

LEMMA InvRead ==
  ASSUME NEW th \in Threads, IInv, Read(th)
  PROVE  IInv'
<1> USE RunnerAssumption DEF Threads, IInv
<1>1. TypeOK'
  BY DEF Read, Goto, At, TypeOK, Labels
<1>2. LockInv'
  BY DEF Read, Goto, At, TypeOK, LockInv, Critical
<1>3. CaseInv'
  BY DEF Read, Goto, At, TypeOK, CaseInv, HandInv, ToRun, DoSkip, Fresh, Busy, Complete
<1>4. HandInv'
  BY DEF Read, Goto, At, TypeOK, HandInv, CaseInv, ToRun, DoSkip, Fresh, Busy, Complete, Critical
<1>5. ProcInv'
  BY DEF Read, Goto, At, TypeOK, ProcInv, HandInv, EndInv, Busy, Fresh, Complete, ToRun
<1>6. EndInv'
  BY DEF Read, Goto, At, TypeOK, Labels, EndInv, HandInv, Leaving
<1>7. TallyExact'
  BY TallySame DEF Read, Goto, At
<1>8. SaidInv'
  BY DEF Read, Goto, At, TypeOK, SaidInv, EndInv
<1> QED
  BY <1>1, <1>2, <1>3, <1>4, <1>5, <1>6, <1>7, <1>8

LEMMA InvStore ==
  ASSUME NEW th \in Threads, IInv, Store(th)
  PROVE  IInv'
<1> USE RunnerAssumption DEF Threads, IInv
<1> DEFINE c == test[th]
<1>1. c \in ToRun /\ c \in Cases /\ c \notin counted /\ proc[c] = "exited" /\ c # NoCase
  BY DEF Store, At, HandInv, Complete, ToRun, Cases, NoCase
<1>2. lock = th /\ seen[th] = tally /\ pc[th] = "store"
  BY DEF Store, At, LockInv, Critical
<1>3. /\ counted' = counted \cup {c}
      /\ UNCHANGED <<outcomes, queue, test, output, proc, due, lock, seen, terminate, verdict, faults>>
      /\ \A ti \in Threads : pc'[ti] = IF ti = th THEN "hasrun" ELSE pc[ti]
  BY DEF Store, Goto, TypeOK
<1>4. ToRun' = ToRun /\ \A d : UnexpectedOutput(d)' <=> UnexpectedOutput(d)
  BY <1>3 DEF ToRun, DoSkip, UnexpectedOutput
<1>5. /\ counted \subseteq Cases /\ Bad \subseteq counted /\ Crashes \subseteq Bad
      /\ IsFiniteSet(counted) /\ IsFiniteSet(Bad) /\ IsFiniteSet(Crashes)
      /\ IsFiniteSet(counted \ Bad)
  BY CasesFinite DEF TypeOK, Bad, Crashes
<1>6. /\ Cardinality(counted) \in Nat /\ Cardinality(Bad) \in Nat
      /\ Cardinality(Crashes) \in Nat /\ Cardinality(counted \ Bad) \in Nat
      /\ Cardinality(ToRun) \in 0..NCases
  BY <1>5, CasesFinite, FS_CardinalityType DEF ToRun
<1>7. Cardinality(counted') = Cardinality(counted) + 1
  BY <1>1, <1>3, <1>5, FS_AddElement
<1>8. HasCrashed(output[c]) <=> Outcome(output[c]) = "crash"
  BY DEF Outcome
<1>9. tally \in [succeeded : 0..NCases, failed : Seq(Cases), crashed : 0..NCases, remaining : 0..NCases]
  BY DEF TypeOK, Tallies
<1>10. ASSUME UnexpectedOutput(c)
       PROVE  TallyExact' /\ tally'.failed \in Seq(Cases)
  <2>1. tally' = [succeeded |-> tally.succeeded, failed |-> Append(tally.failed, c),
                  crashed |-> IF HasCrashed(output[c]) THEN tally.crashed + 1 ELSE tally.crashed,
                  remaining |-> tally.remaining - 1]
    BY <1>2, <1>9, <1>10 DEF Store
  <2>2. Bad' = Bad \cup {c} /\ counted' \ Bad' = counted \ Bad
    BY <1>1, <1>3, <1>4, <1>10 DEF Bad
  <2>3. Crashes' = IF HasCrashed(output[c]) THEN Crashes \cup {c} ELSE Crashes
    BY <1>3, <1>8, <2>2 DEF Crashes
  <2>4. c \notin Bad /\ c \notin Crashes
    BY <1>1, <1>5
  <2>5. Cardinality(Bad') = Cardinality(Bad) + 1
    BY <1>5, <2>2, <2>4, FS_AddElement
  <2>6. Cardinality(Crashes') = IF HasCrashed(output[c]) THEN Cardinality(Crashes) + 1 ELSE Cardinality(Crashes)
    BY <1>5, <2>3, <2>4, FS_AddElement
  <2>7. tally'.failed \in Seq(Cases) /\ Len(tally'.failed) = Len(tally.failed) + 1
    BY <1>1, <1>9, <2>1
  <2>8. ToSet(tally'.failed) = ToSet(tally.failed) \cup {c}
    BY <1>1, <1>9, <2>1, AppendSet
  <2>9. tally'.remaining = Cardinality(ToRun') - Cardinality(counted')
    BY <1>4, <1>6, <1>7, <1>9, <2>1 DEF TallyExact
  <2>10. tally'.crashed = Cardinality(Crashes') /\ tally'.succeeded = Cardinality(counted' \ Bad')
    BY <1>6, <1>9, <2>1, <2>2, <2>6 DEF TallyExact
  <2>11. ToSet(tally'.failed) = Bad' /\ Len(tally'.failed) = Cardinality(Bad')
    BY <2>2, <2>5, <2>7, <2>8 DEF TallyExact
  <2> QED
    BY <2>7, <2>9, <2>10, <2>11 DEF TallyExact
<1>11. ASSUME ~UnexpectedOutput(c)
       PROVE  TallyExact' /\ tally'.failed \in Seq(Cases)
  <2>1. tally' = [succeeded |-> tally.succeeded + 1, failed |-> tally.failed,
                  crashed |-> tally.crashed, remaining |-> tally.remaining - 1]
    BY <1>2, <1>9, <1>11 DEF Store
  <2>2. Bad' = Bad /\ counted' \ Bad' = (counted \ Bad) \cup {c}
    BY <1>1, <1>3, <1>4, <1>11 DEF Bad
  <2>3. Crashes' = Crashes
    BY <1>3, <2>2 DEF Crashes
  <2>4. Cardinality(counted' \ Bad') = Cardinality(counted \ Bad) + 1
    BY <1>1, <1>5, <2>2, FS_AddElement
  <2>5. TallyExact'
    BY <1>4, <1>6, <1>7, <1>9, <2>1, <2>2, <2>3, <2>4 DEF TallyExact
  <2> QED
    BY <1>9, <2>1, <2>5
<1>12. TallyExact' /\ tally'.failed \in Seq(Cases)
  BY <1>10, <1>11
<1>13. counted' \subseteq ToRun /\ counted' \subseteq Cases
  BY <1>1, <1>3 DEF CaseInv, ToRun
<1>14. tally' \in Tallies
  <2>1. /\ Cardinality(counted' \ Bad') \in 0..NCases /\ Cardinality(Crashes') \in 0..NCases
        /\ Cardinality(counted') \in Nat
    BY <1>13, CasesFinite DEF Bad, Crashes
  <2>2. Cardinality(counted') =< Cardinality(ToRun)
    BY <1>13, CasesFinite, FS_Subset DEF ToRun
  <2>3. tally'.remaining \in 0..NCases /\ tally'.succeeded \in 0..NCases /\ tally'.crashed \in 0..NCases
    BY <1>4, <1>6, <1>12, <2>1, <2>2 DEF TallyExact
  <2>4. tally' = [succeeded |-> tally'.succeeded, failed |-> tally'.failed,
                  crashed |-> tally'.crashed, remaining |-> tally'.remaining]
    BY <1>2, <1>9 DEF Store
  <2> QED
    BY <1>12, <2>3, <2>4 DEF Tallies
<1>15. TypeOK'
  BY <1>13, <1>14 DEF Store, Goto, TypeOK, Labels
<1>16. LockInv'
  BY <1>2, <1>3 DEF LockInv, Critical
<1>17. CaseInv'
  <2>1. \A i \in DOMAIN queue : queue[i] # c
    BY DEF CaseInv
  <2> QED
    BY <1>3, <1>4, <1>13, <2>1 DEF CaseInv
<1>18. HandInv'
  <2>1. \A ti \in Threads : ti # th => test[ti] # c
    BY <1>1 DEF CaseInv
  <2> QED
    BY <1>1, <1>3, <1>4, <2>1 DEF HandInv, Fresh, Busy, Complete
<1>19. ProcInv'
  BY <1>1, <1>2, <1>3 DEF ProcInv, Busy
<1>20. EndInv'
  BY <1>2, <1>3 DEF EndInv, Leaving
<1>21. SaidInv'
  BY <1>2, <1>3 DEF SaidInv, EndInv
<1> QED
  BY <1>12, <1>15, <1>16, <1>17, <1>18, <1>19, <1>20, <1>21

LEMMA InvHasRun ==
  ASSUME NEW th \in Threads, IInv, HasRun(th)
  PROVE  IInv'
<1> USE RunnerAssumption DEF Threads, IInv
<1>1. TypeOK'
  BY DEF HasRun, Goto, At, TypeOK, Labels
<1>2. LockInv'
  BY DEF HasRun, Goto, At, TypeOK, LockInv, Critical
<1>3. CaseInv'
  <2>1. test[th] \in counted /\ UNCHANGED <<queue, counted, proc, outcomes>>
    BY DEF HasRun, At, HandInv
  <2>2. \A ti \in Threads : test'[ti] = IF ti = th THEN NoCase ELSE test[ti]
    BY DEF HasRun, TypeOK
  <2>3. ToRun' = ToRun
    BY <2>1 DEF ToRun, DoSkip
  <2>4. \A i \in DOMAIN queue : queue[i] # NoCase
    BY DEF CaseInv, ToRun, Cases, NoCase
  <2> QED
    BY <2>1, <2>2, <2>3, <2>4 DEF CaseInv
<1>4. HandInv'
  BY DEF HasRun, Goto, At, TypeOK, HandInv, CaseInv, ToRun, DoSkip, Fresh, Busy, Complete, Critical
<1>5. ProcInv'
  <2>1. \A c \in Cases : c # NoCase
    BY DEF Cases, NoCase
  <2>2. UNCHANGED <<proc, counted, verdict>> /\ test[th] \in counted /\ counted \subseteq Cases
    BY DEF HasRun, At, HandInv, TypeOK
  <2>3. \A ti \in Threads : ti # th => test'[ti] = test[ti] /\ pc'[ti] = pc[ti]
    BY DEF HasRun, Goto, TypeOK
  <2>4. proc[test[th]] = "exited"
    BY <2>2 DEF ProcInv
  <2> QED
    BY <2>1, <2>2, <2>3, <2>4 DEF ProcInv
<1>6. EndInv'
  BY DEF HasRun, Goto, At, TypeOK, Labels, EndInv, HandInv, Leaving
<1>7. TallyExact'
  BY TallySame DEF HasRun, Goto, At
<1>8. SaidInv'
  BY DEF HasRun, Goto, At, TypeOK, SaidInv, EndInv
<1> QED
  BY <1>1, <1>2, <1>3, <1>4, <1>5, <1>6, <1>7, <1>8

LEMMA InvJoin ==
  ASSUME IInv, Join
  PROVE  IInv'
<1> USE RunnerAssumption DEF Threads, IInv
<1>1. TypeOK'
  BY DEF Join, Goto, At, TypeOK, Labels
<1>2. LockInv'
  BY DEF Join, Goto, At, TypeOK, LockInv, Critical
<1>3. CaseInv'
  BY DEF Join, Goto, At, TypeOK, CaseInv, HandInv, ToRun, DoSkip, Fresh, Busy, Complete
<1>4. HandInv'
  BY DEF Join, Goto, At, TypeOK, HandInv, CaseInv, ToRun, DoSkip, Fresh, Busy, Complete, Critical
<1>5. ProcInv'
  BY DEF Join, Goto, At, TypeOK, ProcInv, HandInv, EndInv, Busy, Fresh, Complete, ToRun
<1>6. EndInv'
  BY DEF Join, Goto, At, TypeOK, Labels, EndInv, HandInv, Leaving
<1>7. TallyExact'
  BY TallySame DEF Join, Goto, At
<1>8. SaidInv'
  BY DEF Join, Goto, At, TypeOK, SaidInv, EndInv
<1> QED
  BY <1>1, <1>2, <1>3, <1>4, <1>5, <1>6, <1>7, <1>8

LEMMA InvInterrupt ==
  ASSUME IInv, Interrupt
  PROVE  IInv'
<1> USE RunnerAssumption DEF Threads, IInv
<1>1. TypeOK'
  BY DEF Interrupt, Goto, At, TypeOK, Labels
<1>2. LockInv'
  BY DEF Interrupt, Goto, At, TypeOK, LockInv, Critical
<1>3. CaseInv'
  BY DEF Interrupt, Goto, At, TypeOK, CaseInv, HandInv, ToRun, DoSkip, Fresh, Busy, Complete
<1>4. HandInv'
  BY DEF Interrupt, Goto, At, TypeOK, HandInv, CaseInv, ToRun, DoSkip, Fresh, Busy, Complete, Critical
<1>5. ProcInv'
  BY DEF Interrupt, Goto, At, TypeOK, ProcInv, HandInv, EndInv, Busy, Fresh, Complete, ToRun
<1>6. EndInv'
  BY DEF Interrupt, Goto, At, TypeOK, Labels, EndInv, HandInv, Leaving
<1>7. TallyExact'
  BY TallySame DEF Interrupt, Goto, At
<1>8. SaidInv'
  BY DEF Interrupt, Goto, At, TypeOK, SaidInv, EndInv
<1> QED
  BY <1>1, <1>2, <1>3, <1>4, <1>5, <1>6, <1>7, <1>8

LEMMA InvExits ==
  ASSUME NEW c \in Cases, NEW code \in ExitCodes \cup {-SIGTERM}, IInv, Exits(c, code)
  PROVE  IInv'
<1> USE RunnerAssumption DEF Threads, IInv
<1>1. TypeOK'
  <2>1. code \in Int
    BY DEF SIGTERM
  <2>2. output' \in [Cases -> [exit_code : Int, timed_out : BOOLEAN]]
    <3>1. output \in [Cases -> [exit_code : Int, timed_out : BOOLEAN]]
      BY DEF TypeOK
    <3>2. output' = [output EXCEPT ![c].exit_code = code]
      BY DEF Exits
    <3>3. [output[c] EXCEPT !.exit_code = code] \in [exit_code : Int, timed_out : BOOLEAN]
      BY <2>1, <3>1
    <3> QED
      BY <3>1, <3>2, <3>3
  <2>3. proc' \in [Cases -> {"none", "running", "killed", "exited"}]
    BY DEF Exits, TypeOK
  <2> QED
    BY <2>2, <2>3 DEF Exits, TypeOK
<1>2. LockInv'
  BY DEF Exits, Goto, At, TypeOK, LockInv, Critical
<1>3. CaseInv'
  BY DEF Exits, Goto, At, TypeOK, CaseInv, HandInv, ToRun, DoSkip, Fresh, Busy, Complete
<1>4. HandInv'
  BY DEF Exits, Goto, At, TypeOK, HandInv, CaseInv, ToRun, DoSkip, Fresh, Busy, Complete, Critical
<1>5. ProcInv'
  BY DEF Exits, Goto, At, TypeOK, ProcInv, HandInv, EndInv, Busy, Fresh, Complete, ToRun
<1>6. EndInv'
  BY DEF Exits, Goto, At, TypeOK, Labels, EndInv, HandInv, Leaving
<1>7. TallyExact'
  <2>1. \A d \in counted : output'[d] = output[d]
    BY DEF Exits, TypeOK, ProcInv
  <2> QED
    BY <2>1, TallySame DEF Exits
<1>8. SaidInv'
  BY DEF Exits, Goto, At, TypeOK, SaidInv, EndInv
<1> QED
  BY <1>1, <1>2, <1>3, <1>4, <1>5, <1>6, <1>7, <1>8

LEMMA InvDeadline ==
  ASSUME NEW th \in Threads, IInv, Deadline(th)
  PROVE  IInv'
<1> USE RunnerAssumption DEF Threads, IInv
<1>1. TypeOK'
  BY DEF Deadline, Goto, At, TypeOK, Labels
<1>2. LockInv'
  BY DEF Deadline, Goto, At, TypeOK, LockInv, Critical
<1>3. CaseInv'
  BY DEF Deadline, Goto, At, TypeOK, CaseInv, HandInv, ToRun, DoSkip, Fresh, Busy, Complete
<1>4. HandInv'
  BY DEF Deadline, Goto, At, TypeOK, HandInv, CaseInv, ToRun, DoSkip, Fresh, Busy, Complete, Critical
<1>5. ProcInv'
  BY DEF Deadline, Goto, At, TypeOK, ProcInv, HandInv, EndInv, Busy, Fresh, Complete, ToRun
<1>6. EndInv'
  BY DEF Deadline, Goto, At, TypeOK, Labels, EndInv, HandInv, Leaving
<1>7. TallyExact'
  BY TallySame DEF Deadline, Goto, At
<1>8. SaidInv'
  BY DEF Deadline, Goto, At, TypeOK, SaidInv, EndInv
<1> QED
  BY <1>1, <1>2, <1>3, <1>4, <1>5, <1>6, <1>7, <1>8

----------------------------------------------------------------------------
(* The initial state, and the invariant. *)

LEMMA InvInit == Init => IInv
<1> SUFFICES ASSUME Init PROVE IInv
  OBVIOUS
<1> USE RunnerAssumption DEF Threads
<1>1. ToRun \subseteq Cases /\ IsFiniteSet(ToRun) /\ Cardinality(ToRun) \in 0..NCases
  BY CasesFinite DEF ToRun
<1>2. Cardinality(ToRun) \in Nat /\ NCases \in Nat
  BY <1>1
<1>3. /\ queue \in [1..Cardinality(ToRun) -> ToRun]
      /\ \A i, j \in 1..Cardinality(ToRun) : i # j => queue[i] # queue[j]
  BY DEF Init, SetToSeqs
<1>4. queue \in Seq(Cases) /\ Len(queue) = Cardinality(ToRun) /\ DOMAIN queue = 1..Cardinality(ToRun)
  BY <1>1, <1>2, <1>3
<1>5. \A c \in ToRun : \E i \in DOMAIN queue : queue[i] = c
  <2>1. IsFiniteSet(1..Cardinality(ToRun)) /\ Cardinality(1..Cardinality(ToRun)) = Cardinality(ToRun)
    BY <1>2, FS_Interval
  <2>2. queue \in Injection(1..Cardinality(ToRun), ToRun)
    BY <1>3 DEF Injection, IsInjective
  <2>3. queue \in Surjection(1..Cardinality(ToRun), ToRun)
    BY <1>1, <2>1, <2>2, FS_Injection
  <2> QED
    BY <1>4, <2>3 DEF Surjection
<1>6. tally \in Tallies
  BY <1>1, <1>2, <1>4 DEF Init, Tallies
<1>7. TypeOK
  <2>1. outcomes \in [Cases -> SUBSET {"pass", "fail", "timeout", "crash", "skip", "slow", "okay"}]
    <3>1. \A said \in Rules : ClassifyTests(said) \in SUBSET {"pass", "fail", "timeout", "crash", "skip", "slow", "okay"}
      BY DEF ClassifyTests
    <3>2. outcomes \in [Cases -> {ClassifyTests(said) : said \in Rules}]
      BY DEF Init
    <3> QED
      BY <3>1, <3>2
  <2>2. output \in [Cases -> [exit_code : Int, timed_out : BOOLEAN]]
    BY DEF Init, NoOutput
  <2>3. seen \in [Threads -> Tallies]
    BY <1>6 DEF Init
  <2>4. pc \in [Threads -> Labels]
    BY DEF Init, Labels
  <2>5. test \in [Threads -> Cases \cup {NoCase}] /\ proc \in [Cases -> {"none", "running", "killed", "exited"}]
    BY DEF Init
  <2>6. faults \in 0..MaxFaults
    BY DEF Init
  <2>7. terminate \in BOOLEAN
    BY DEF Init
  <2>8. /\ due \subseteq Threads /\ lock \in Threads \cup {Nobody} /\ counted \subseteq Cases
        /\ verdict \in {"none", "succeeded", "failed", "raised", "interrupted"}
    BY DEF Init
  <2> QED
    BY <1>4, <1>6, <2>1, <2>2, <2>3, <2>4, <2>5, <2>6, <2>7, <2>8 DEF TypeOK
<1>8. LockInv
  BY DEF Init, LockInv, Critical
<1>9. CaseInv
  <2>1. \A c \in Cases : c # NoCase
    BY DEF Cases, NoCase
  <2> QED
    BY <1>1, <1>3, <1>4, <1>5, <2>1 DEF Init, CaseInv
<1>10. HandInv
  BY DEF Init, HandInv, Fresh, Busy, Complete
<1>11. ProcInv
  BY DEF Init, ProcInv
<1>12. EndInv
  BY DEF Init, EndInv, Leaving
<1>13. TallyExact
  <2>1. Bad = {} /\ Crashes = {} /\ counted = {} /\ counted \ Bad = {}
    BY DEF Init, Bad, Crashes
  <2>2. tally = [succeeded |-> 0, failed |-> <<>>, crashed |-> 0, remaining |-> Len(queue)]
    BY DEF Init
  <2>3. ToSet(tally.failed) = {} /\ Len(tally.failed) = 0
    BY <2>2 DEF ToSet
  <2>4. Cardinality({}) = 0
    BY FS_EmptySet
  <2> QED
    BY <1>2, <1>4, <2>1, <2>2, <2>3, <2>4 DEF TallyExact
<1>14. SaidInv
  BY DEF Init, SaidInv
<1> QED
  BY <1>7, <1>8, <1>9, <1>10, <1>11, <1>12, <1>13, <1>14 DEF IInv

(* Steps that change nothing. *)
LEMMA InvStutter == IInv /\ UNCHANGED vars => IInv'
<1> SUFFICES ASSUME IInv, UNCHANGED vars PROVE IInv'
  OBVIOUS
<1> USE DEF IInv, vars
<1>1. TypeOK' /\ LockInv'
  BY DEF TypeOK, LockInv
<1>2. CaseInv' /\ HandInv'
  BY DEF CaseInv, HandInv, ToRun, DoSkip
<1>3. ProcInv' /\ EndInv'
  BY DEF ProcInv, EndInv
<1>4. TallyExact' /\ SaidInv'
  BY TallySame DEF SaidInv
<1> QED
  BY <1>1, <1>2, <1>3, <1>4

LEMMA InvNext == IInv /\ [Next]_vars => IInv'
<1> SUFFICES ASSUME IInv, [Next]_vars PROVE IInv'
  OBVIOUS
<1>1. CASE Spawn
  BY <1>1, InvStarted, InvStartThread DEF Spawn
<1>2. CASE Join
  BY <1>2, InvJoin
<1>3. CASE Interrupt
  BY <1>3, InvInterrupt
<1>4. ASSUME NEW th \in Threads, Step(th) PROVE IInv'
  BY <1>4, InvWhile, InvGetNowait, InvAcquire, InvAboutToRun, InvPopen, InvPollExited,
     InvKillProcessWithID, InvWait, InvHasOutput, InvRead, InvStore, InvHasRun DEF Step
<1>5. ASSUME NEW th \in Threads, Fault(th) PROVE IInv'
  BY <1>5, InvPrintFails, InvCaseFails DEF Fault
<1>6. ASSUME NEW th \in Threads, Deadline(th) PROVE IInv'
  BY <1>6, InvDeadline
<1>7. ASSUME NEW c \in Cases, NEW code \in ExitCodes \cup {-SIGTERM}, Exits(c, code) PROVE IInv'
  BY <1>7, InvExits
<1>8. CASE UNCHANGED vars
  BY <1>8, InvStutter
<1> QED
  BY <1>1, <1>2, <1>3, <1>4, <1>5, <1>6, <1>7, <1>8 DEF Next, Over

LEMMA InvAlways == Spec => []IInv
<1> QED
  BY InvInit, InvNext, PTL DEF Spec

----------------------------------------------------------------------------
(* Theorems. *)

(* For every number of threads and cases, and whatever exceptions end      *)
(* which of them, the counters of ProgressIndicator are those of the cases *)
(* that were counted, each once: RunSingle's two sections under the lock   *)
(* are enough.                                                             *)
THEOREM CountsExact == Spec => []RunnerInv
<1>1. IInv => RunnerInv
  BY DEF IInv, RunnerInv
<1> QED
  BY InvAlways, <1>1, PTL

(* What Run returns is true of all cases that were counted, and those are  *)
(* all but the ones in the hands of a dead worker.                         *)
THEOREM VerdictTrue == Spec => []VerdictSound
<1>1. IInv => VerdictSound
  <2> SUFFICES ASSUME IInv PROVE VerdictSound
    OBVIOUS
  <2> USE DEF IInv
  <2>1. ToSet(tally.failed) = Bad /\ tally.failed \in Seq(Cases)
    BY DEF TallyExact, TypeOK, Tallies
  <2>2. tally.failed = <<>> <=> Bad = {}
    <3>1. CASE tally.failed = <<>>
      BY <2>1, <3>1 DEF ToSet
    <3>2. CASE tally.failed # <<>>
      <4>1. 1 \in DOMAIN tally.failed
        BY <2>1, <3>2, HeadTail
      <4> QED
        BY <2>1, <3>2, <4>1 DEF ToSet
    <3> QED
      BY <3>1, <3>2
  <2>3. /\ verdict = "succeeded" => \A c \in counted : ~UnexpectedOutput(c)
        /\ verdict = "failed" => \E c \in counted : UnexpectedOutput(c)
    BY <2>2 DEF SaidInv, Bad
  <2>4. ASSUME At(Main, "returned"), NEW c \in ToRun, c \notin counted
        PROVE  \E w \in Workers : At(w, "died") /\ test[w] = c
    <3>1. ~terminate /\ \A w \in Workers : pc[w] \in {"ended", "died"}
      BY <2>4 DEF At, EndInv
    <3>2. queue = <<>> /\ \A th \in Threads : pc[th] \in Leaving => test[th] = NoCase
      BY <2>4, <3>1 DEF At, EndInv, Leaving, Threads
    <3>3. PICK th \in Threads : test[th] = c
      BY <2>4, <3>2 DEF CaseInv
    <3>4. c # NoCase
      BY DEF ToRun, Cases, NoCase
    <3> QED
      BY <2>4, <3>1, <3>2, <3>3, <3>4 DEF At, Threads, Leaving
  <2> QED
    BY <2>3, <2>4 DEF VerdictSound
<1> QED
  BY InvAlways, <1>1, PTL

(* RunProcess leaves no process behind, whatever deadlines pass and        *)
(* whatever is raised, unless the user has interrupted the main thread.    *)
THEOREM NoProcessLeft == Spec => []NoOrphans
<1>1. IInv => NoOrphans
  <2> SUFFICES ASSUME IInv, Finished, verdict # "interrupted", NEW c \in Cases
               PROVE  proc[c] \in {"none", "exited"}
    BY DEF NoOrphans
  <2>1. \A th \in Threads : pc[th] \notin Busy
    BY DEF Finished, Threads, Busy
  <2>2. proc[c] \in {"none", "running", "killed", "exited"}
    BY DEF IInv, TypeOK
  <2> QED
    BY <2>1, <2>2 DEF IInv, ProcInv
<1> QED
  BY InvAlways, <1>1, PTL

=============================================================================
