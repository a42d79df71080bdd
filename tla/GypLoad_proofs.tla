-------------------------- MODULE GypLoad_proofs --------------------------
(***************************************************************************)
(* Theorems about GypLoad, for every project, every number of workers and  *)
(* of deaths among them.                                                   *)
(***************************************************************************)
EXTENDS GypLoad, FiniteSetTheorems, SequenceTheorems, TLAPS

----------------------------------------------------------------------------
(* The inductive invariant. *)

(* Who has the condition, by where the main thread is; an interrupt leaves *)
(* it held for good.                                                       *)
HolderInv ==
  /\ pc \in {"start", "waiting", "join", "returned", "exit"} => holder = "none"
  /\ pc \in {"loop", "terminate", "raised"} => holder = "main"
  /\ pool = "terminated" => pc \in {"terminate", "raised"}
  /\ pc \in {"returned", "exit"} => Outstanding = {}

(* A file is in one place: still to be asked for, or in one call.          *)
PlaceInv ==
  /\ \A i, j \in DOMAIN dependencies : dependencies[i] = dependencies[j] => i = j
  /\ \A i, j \in DOMAIN calls : calls[i].file = calls[j].file => i = j
  /\ \A i \in DOMAIN dependencies, j \in DOMAIN calls : dependencies[i] # calls[j].file
  /\ scheduled = ToSet(dependencies) \cup {calls[i].file : i \in DOMAIN calls}

(* Only what is scheduled was asked for, and all of that is scheduled.     *)
Wanted == project.roots \cup UNION {ToSet(project.deps[f]) : f \in target_build_files}

(* What a worker is told is loaded is, and what is loaded has come back.   *)
KnownInv ==
  /\ \A i \in DOMAIN calls : calls[i].known \subseteq target_build_files
  /\ \A f \in target_build_files :
       \E i \in DOMAIN calls : Is(i, "done") /\ calls[i].file = f
  /\ \A i \in DOMAIN calls : calls[i].stage \in {"result", "handling"} =>
       (calls[i].ok <=> calls[i].file \notin project.broken)

(* What came back is loaded or was broken, unless the pool was terminated. *)
DoneInv ==
  /\ pool # "terminated" => \A i \in DOMAIN calls :
       Is(i, "done") => calls[i].file \in target_build_files \/ error
  /\ error => \E i \in DOMAIN calls : Is(i, "done") /\ calls[i].file \in project.broken

(* The loop was left for an error, or with nothing more to do. *)
LeftInv == pc \in {"join", "returned", "exit"} => error \/ (dependencies = <<>> /\ pending = 0)

IInv ==
  /\ TypeOK /\ HolderInv /\ PendingExact /\ PlaceInv /\ scheduled = Wanted
  /\ KnownInv /\ DoneInv /\ LeftInv
  /\ pc = "returned" => ~error
  /\ pc = "exit" => error

----------------------------------------------------------------------------
(* Basic facts. *)

(* The calls of the pool. *)
CallType ==
  [file : Files, known : SUBSET Files, ok : BOOLEAN,
   stage : {"queued", "sent", "running", "result", "handling", "lost", "done"}]

Injective(q) == \A i, j \in DOMAIN q : q[i] = q[j] => i = j

(* A sequence of the members of a set, each once, has them all. *)
LEMMA Enumeration ==
  ASSUME NEW S, IsFiniteSet(S), NEW q \in [1..Cardinality(S) -> S], Injective(q)
  PROVE  q \in Seq(S) /\ ToSet(q) = S
<1>1. Cardinality(S) \in Nat
  BY FS_CardinalityType
<1>2. q \in Seq(S) /\ DOMAIN q = 1..Cardinality(S)
  BY <1>1
<1>3. IsFiniteSet(1..Cardinality(S)) /\ Cardinality(1..Cardinality(S)) = Cardinality(S)
  BY <1>1, FS_Interval
<1>4. q \in Injection(1..Cardinality(S), S)
  BY <1>2 DEF Injection, IsInjective, Injective
<1>5. q \in Surjection(1..Cardinality(S), S)
  BY <1>3, <1>4, FS_Injection
<1> QED
  BY <1>2, <1>5 DEF Surjection, ToSet

LEMMA SetToSeqProperties ==
  ASSUME NEW S, IsFiniteSet(S)
  PROVE  /\ SetToSeq(S) \in Seq(S) /\ ToSet(SetToSeq(S)) = S /\ Injective(SetToSeq(S))
<1>1. PICK f \in Bijection(1..Cardinality(S), S) : TRUE
  BY FS_CardinalityType DEF ExistsBijection
<1>2. f \in [1..Cardinality(S) -> S] /\ IsInjective(f)
  BY <1>1 DEF Bijection, Injection
<1>3. SetToSeq(S) \in [1..Cardinality(S) -> S] /\ IsInjective(SetToSeq(S))
  BY <1>2 DEF SetToSeq
<1> QED
  BY <1>3, Enumeration DEF IsInjective, Injective

LEMMA SetToSeqsProperties ==
  ASSUME NEW S, IsFiniteSet(S), NEW q \in SetToSeqs(S)
  PROVE  q \in Seq(S) /\ ToSet(q) = S /\ Injective(q)
<1>1. q \in [1..Cardinality(S) -> S] /\ Injective(q)
  BY DEF SetToSeqs, Injective
<1> QED
  BY <1>1, Enumeration

(* What pop takes off a list, and what it leaves. *)
LEMMA FrontLast ==
  ASSUME NEW S, NEW q \in Seq(S), q # <<>>
  PROVE  /\ Front(q) \in Seq(S) /\ Last(q) \in S
         /\ ToSet(q) = ToSet(Front(q)) \cup {Last(q)}
         /\ Injective(q) => Injective(Front(q)) /\ Last(q) \notin ToSet(Front(q))
<1>1. Len(q) \in Nat \ {0} /\ DOMAIN q = 1..Len(q)
  OBVIOUS
<1>2. Front(q) \in Seq(S) /\ Len(Front(q)) = Len(q) - 1
      /\ DOMAIN Front(q) = 1..(Len(q) - 1)
      /\ \A i \in 1..(Len(q) - 1) : Front(q)[i] = q[i]
  BY <1>1 DEF Front
<1>3. Last(q) = q[Len(q)] /\ Last(q) \in S
  BY <1>1 DEF Last
<1>4. ToSet(q) = ToSet(Front(q)) \cup {Last(q)}
  <2>1. \A i \in DOMAIN q : i \in 1..(Len(q) - 1) \/ i = Len(q)
    BY <1>1
  <2>2. \A i \in 1..(Len(q) - 1) : i \in DOMAIN q
    BY <1>1
  <2>3. Len(q) \in DOMAIN q
    BY <1>1
  <2> QED
    BY <2>1, <2>2, <2>3, <1>2, <1>3 DEF ToSet
<1>5. \A i \in 1..(Len(q) - 1) : i \in DOMAIN q /\ i # Len(q)
  <2>1. \A n \in Nat : \A i \in 1..(n - 1) : i \in 1..n /\ i # n
    OBVIOUS
  <2> QED
    BY ONLY <1>1, <2>1
<1>6. Injective(q) => Injective(Front(q))
  BY <1>2, <1>5 DEF Injective
<1>7. Injective(q) => Last(q) \notin ToSet(Front(q))
  <2>1. SUFFICES ASSUME Injective(q), NEW i \in 1..(Len(q) - 1), Front(q)[i] = Last(q)
                 PROVE  FALSE
    BY <1>2 DEF ToSet
  <2>2. Len(q) \in DOMAIN q
    BY <1>1
  <2>3. q[i] = q[Len(q)]
    BY <1>2, <1>3, <2>1
  <2> QED
    BY <1>5, <2>1, <2>2, <2>3 DEF Injective
<1> QED
  BY <1>2, <1>3, <1>4, <1>6, <1>7

(* A list that is extended. *)
LEMMA ConcatSet ==
  ASSUME NEW S, NEW s \in Seq(S), NEW t \in Seq(S)
  PROVE  /\ s \o t \in Seq(S) /\ ToSet(s \o t) = ToSet(s) \cup ToSet(t)
         /\ Injective(s) /\ Injective(t) /\ ToSet(s) \cap ToSet(t) = {} => Injective(s \o t)
<1> DEFINE n == Len(s)
<1>1. n \in Nat /\ DOMAIN s = 1..n /\ DOMAIN t = 1..Len(t) /\ Len(t) \in Nat
      /\ s \o t \in Seq(S) /\ DOMAIN (s \o t) = 1..(n + Len(t))
  OBVIOUS
<1>2. \A i \in DOMAIN s : i \in DOMAIN (s \o t) /\ (s \o t)[i] = s[i]
  BY <1>1
<1>3. \A i \in DOMAIN t : i + n \in DOMAIN (s \o t) /\ (s \o t)[i + n] = t[i]
  BY <1>1
<1>4. \A k \in DOMAIN (s \o t) : k \in DOMAIN s \/ \E i \in DOMAIN t : k = i + n
  <2>1. SUFFICES ASSUME NEW k \in DOMAIN (s \o t), k \notin DOMAIN s
                 PROVE  \E i \in DOMAIN t : k = i + n
    OBVIOUS
  <2>2. k - n \in DOMAIN t /\ k = (k - n) + n
    BY <1>1, <2>1
  <2> QED
    BY <2>2
<1>5. ToSet(s \o t) = ToSet(s) \cup ToSet(t)
  <2>1. ASSUME NEW x \in ToSet(s \o t)
        PROVE  x \in ToSet(s) \cup ToSet(t)
    <3>1. PICK k \in DOMAIN (s \o t) : x = (s \o t)[k]
      BY DEF ToSet
    <3> QED
      BY <3>1, <1>2, <1>3, <1>4 DEF ToSet
  <2>2. ASSUME NEW x \in ToSet(s) \cup ToSet(t)
        PROVE  x \in ToSet(s \o t)
    BY <1>2, <1>3 DEF ToSet
  <2> QED
    BY <2>1, <2>2
<1>6. ASSUME Injective(s), Injective(t), ToSet(s) \cap ToSet(t) = {},
             NEW i \in DOMAIN (s \o t), NEW j \in DOMAIN (s \o t),
             (s \o t)[i] = (s \o t)[j]
      PROVE  i = j
  <2>1. CASE i \in DOMAIN s /\ j \in DOMAIN s
    BY <1>2, <1>6, <2>1 DEF Injective
  <2>2. CASE i \notin DOMAIN s /\ j \notin DOMAIN s
    <3>1. PICK a \in DOMAIN t, b \in DOMAIN t : i = a + n /\ j = b + n
      BY <1>4, <2>2
    <3>2. a = b
      BY <1>3, <1>6, <3>1 DEF Injective
    <3> QED
      BY <3>1, <3>2
  <2>3. CASE i \in DOMAIN s /\ j \notin DOMAIN s
    <3>1. PICK b \in DOMAIN t : j = b + n
      BY <1>4, <2>3
    <3>2. s[i] = t[b]
      BY <1>2, <1>3, <1>6, <2>3, <3>1
    <3> QED
      BY <1>6, <2>3, <3>2 DEF ToSet
  <2>4. CASE i \notin DOMAIN s /\ j \in DOMAIN s
    <3>1. PICK b \in DOMAIN t : i = b + n
      BY <1>4, <2>4
    <3>2. s[j] = t[b]
      BY <1>2, <1>3, <1>6, <2>4, <3>1
    <3> QED
      BY <1>6, <2>4, <3>2 DEF ToSet
  <2> QED
    BY <2>1, <2>2, <2>3, <2>4
<1>7. Injective(s) /\ Injective(t) /\ ToSet(s) \cap ToSet(t) = {} => Injective(s \o t)
  <2>1. SUFFICES ASSUME Injective(s), Injective(t), ToSet(s) \cap ToSet(t) = {}
                 PROVE  Injective(s \o t)
    OBVIOUS
  <2> QED
    BY <2>1, <1>6 DEF Injective
<1> QED
  BY <1>1, <1>5, <1>7

(* What is on disk. *)
LEMMA ProjectProperties ==
  ASSUME TypeOK
  PROVE  /\ project.roots \subseteq Files /\ IsFiniteSet(project.roots)
         /\ project.deps \in [Files -> Seq(Files)]
         /\ \A f \in Files : ToSet(project.deps[f]) \subseteq Files
<1>1. project.roots \subseteq Files /\ project.deps \in [Files -> Seq(Files)]
  BY LoadAssumption DEF TypeOK
<1>2. IsFiniteSet(project.roots)
  BY <1>1, LoadAssumption, FS_Subset
<1>3. ASSUME NEW f \in Files
      PROVE  ToSet(project.deps[f]) \subseteq Files
  BY <1>1 DEF ToSet
<1> QED
  BY <1>1, <1>2, <1>3

(* The calls are finitely many. *)
LEMMA OutstandingFinite ==
  ASSUME TypeOK
  PROVE  /\ calls \in Seq(CallType) /\ DOMAIN calls = 1..Len(calls) /\ Len(calls) \in Nat
         /\ IsFiniteSet(Outstanding) /\ Cardinality(Outstanding) \in Nat
<1>1. calls \in Seq(CallType)
  BY DEF TypeOK, CallType
<1>2. DOMAIN calls = 1..Len(calls) /\ Len(calls) \in Nat
  BY <1>1
<1>3. IsFiniteSet(DOMAIN calls)
  BY <1>2, FS_Interval
<1>4. IsFiniteSet(Outstanding)
  BY <1>3, FS_Subset DEF Outstanding
<1> QED
  BY <1>1, <1>2, <1>4, FS_CardinalityType

----------------------------------------------------------------------------
(* The invariant holds at the start, and every step keeps it. *)

LEMMA InvInit == Init => IInv
<1> SUFFICES ASSUME Init PROVE IInv
  OBVIOUS
<1>1. project.roots \subseteq Files /\ IsFiniteSet(project.roots)
  BY LoadAssumption, FS_Subset DEF Init
<1>2. /\ dependencies \in Seq(project.roots) /\ ToSet(dependencies) = project.roots
      /\ Injective(dependencies)
  BY <1>1, SetToSeqProperties DEF Init
<1>3. DOMAIN calls = {} /\ calls \in Seq(CallType)
  BY DEF Init
<1>4. TypeOK
  <2>1. dependencies \in Seq(Files)
    BY <1>1, <1>2, SeqMonotonic
  <2> QED
    BY <1>1, <1>3, <2>1 DEF TypeOK, Init, CallType
<1>5. Outstanding = {}
  BY <1>3 DEF Outstanding
<1>6. PendingExact
  BY <1>5, FS_EmptySet DEF PendingExact, Init
<1>7. PlaceInv
  BY <1>2, <1>3 DEF PlaceInv, Injective, Init
<1>8. scheduled = Wanted
  BY DEF Wanted, Init
<1> QED
  BY <1>3, <1>4, <1>5, <1>6, <1>7, <1>8 DEF IInv, HolderInv, KnownInv, DoneInv, LeftInv, Init

(* A step of the main thread that leaves the lists and the calls alone.    *)
LEMMA InvAside ==
  ASSUME IInv,
         UNCHANGED <<project, dependencies, scheduled, pending, error,
                     target_build_files, data, calls>>,
         pool' # "terminated" => pool # "terminated"
  PROVE  PendingExact' /\ PlaceInv' /\ (scheduled = Wanted)' /\ KnownInv' /\ DoneInv'
<1>1. Outstanding' = Outstanding
  BY DEF Outstanding
<1>2. PendingExact'
  BY <1>1 DEF IInv, PendingExact
<1>3. PlaceInv'
  BY DEF IInv, PlaceInv
<1>4. (scheduled = Wanted)'
  BY DEF IInv, Wanted
<1>5. KnownInv'
  BY DEF IInv, KnownInv, Is
<1>6. DoneInv'
  BY DEF IInv, DoneInv, Is
<1> QED
  BY <1>2, <1>3, <1>4, <1>5, <1>6

LEMMA InvAcquireCondition ==
  ASSUME IInv, AcquireCondition
  PROVE  IInv'
<1>1. TypeOK'
  BY DEF IInv, TypeOK, AcquireCondition, Keys
<1>2. HolderInv'
  BY DEF IInv, HolderInv, AcquireCondition, Outstanding
<1>3. LeftInv'
  BY DEF IInv, LeftInv, AcquireCondition, Busy
<1>4. (pc = "returned" => ~error)' /\ (pc = "exit" => error)'
  BY DEF IInv, TypeOK, AcquireCondition
<1>5. PendingExact' /\ PlaceInv' /\ (scheduled = Wanted)' /\ KnownInv' /\ DoneInv'
  BY InvAside DEF IInv, HolderInv, AcquireCondition
<1> QED
  BY <1>1, <1>2, <1>3, <1>4, <1>5 DEF IInv

LEMMA InvConditionWait ==
  ASSUME IInv, ConditionWait
  PROVE  IInv'
<1>1. TypeOK'
  BY DEF IInv, TypeOK, ConditionWait, Keys
<1>2. HolderInv'
  BY DEF IInv, HolderInv, ConditionWait, Outstanding
<1>3. LeftInv'
  BY DEF IInv, LeftInv, ConditionWait, Busy
<1>4. (pc = "returned" => ~error)' /\ (pc = "exit" => error)'
  BY DEF IInv, TypeOK, ConditionWait
<1>5. PendingExact' /\ PlaceInv' /\ (scheduled = Wanted)' /\ KnownInv' /\ DoneInv'
  BY InvAside DEF IInv, HolderInv, ConditionWait
<1> QED
  BY <1>1, <1>2, <1>3, <1>4, <1>5 DEF IInv

LEMMA InvWake ==
  ASSUME IInv, Wake
  PROVE  IInv'
<1>1. TypeOK'
  BY DEF IInv, TypeOK, Wake, Keys
<1>2. HolderInv'
  BY DEF IInv, HolderInv, Wake, Outstanding
<1>3. LeftInv'
  BY DEF IInv, LeftInv, Wake, Busy
<1>4. (pc = "returned" => ~error)' /\ (pc = "exit" => error)'
  BY DEF IInv, TypeOK, Wake
<1>5. PendingExact' /\ PlaceInv' /\ (scheduled = Wanted)' /\ KnownInv' /\ DoneInv'
  BY InvAside DEF IInv, HolderInv, Wake
<1> QED
  BY <1>1, <1>2, <1>3, <1>4, <1>5 DEF IInv

LEMMA InvLeaveLoop ==
  ASSUME IInv, LeaveLoop
  PROVE  IInv'
<1>1. TypeOK'
  BY DEF IInv, TypeOK, LeaveLoop, Keys
<1>2. HolderInv'
  BY DEF IInv, HolderInv, LeaveLoop, Outstanding
<1>3. LeftInv'
  BY DEF IInv, LeftInv, LeaveLoop, Busy
<1>4. (pc = "returned" => ~error)' /\ (pc = "exit" => error)'
  BY DEF IInv, TypeOK, LeaveLoop
<1>5. PendingExact' /\ PlaceInv' /\ (scheduled = Wanted)' /\ KnownInv' /\ DoneInv'
  BY InvAside DEF IInv, HolderInv, LeaveLoop
<1> QED
  BY <1>1, <1>2, <1>3, <1>4, <1>5 DEF IInv

LEMMA InvPoolJoin ==
  ASSUME IInv, PoolJoin
  PROVE  IInv'
<1>1. TypeOK'
  BY DEF IInv, TypeOK, PoolJoin, Keys
<1>2. HolderInv'
  BY DEF IInv, HolderInv, PoolJoin, Outstanding
<1>3. LeftInv'
  BY DEF IInv, LeftInv, PoolJoin, Busy
<1>4. (pc = "returned" => ~error)' /\ (pc = "exit" => error)'
  BY DEF IInv, TypeOK, PoolJoin
<1>5. PendingExact' /\ PlaceInv' /\ (scheduled = Wanted)' /\ KnownInv' /\ DoneInv'
  BY InvAside DEF IInv, HolderInv, PoolJoin
<1> QED
  BY <1>1, <1>2, <1>3, <1>4, <1>5 DEF IInv

LEMMA InvTerminated ==
  ASSUME IInv, Terminated
  PROVE  IInv'
<1>1. TypeOK'
  BY DEF IInv, TypeOK, Terminated, Keys
<1>2. HolderInv'
  BY DEF IInv, HolderInv, Terminated, Outstanding
<1>3. LeftInv'
  BY DEF IInv, LeftInv, Terminated, Busy
<1>4. (pc = "returned" => ~error)' /\ (pc = "exit" => error)'
  BY DEF IInv, TypeOK, Terminated
<1>5. PendingExact' /\ PlaceInv' /\ (scheduled = Wanted)' /\ KnownInv' /\ DoneInv'
  BY InvAside DEF IInv, HolderInv, Terminated
<1> QED
  BY <1>1, <1>2, <1>3, <1>4, <1>5 DEF IInv

(* A call moves on, short of its callback. *)
LEMMA InvCall ==
  ASSUME IInv, NEW i \in DOMAIN calls, NEW c \in CallType,
         calls' = [calls EXCEPT ![i] = c],
         c.file = calls[i].file, c.known \subseteq target_build_files,
         calls[i].stage # "done", c.stage # "done",
         c.stage \in {"result", "handling"} => (c.ok <=> c.file \notin project.broken),
         UNCHANGED <<project, pc, holder, notified, dependencies, scheduled, pending,
                     error, target_build_files, data, pool>>
  PROVE  IInv'
<1>1. /\ calls \in Seq(CallType) /\ calls' \in Seq(CallType)
      /\ DOMAIN calls' = DOMAIN calls /\ calls'[i] = c
      /\ \A j \in DOMAIN calls : j # i => calls'[j] = calls[j]
      /\ \A j \in DOMAIN calls : calls'[j].file = calls[j].file
  BY OutstandingFinite DEF IInv
<1>2. TypeOK'
  BY <1>1 DEF IInv, TypeOK, Keys, CallType
<1>3. Outstanding' = Outstanding
  BY <1>1 DEF Outstanding
<1>4. HolderInv'
  BY <1>3 DEF IInv, HolderInv
<1>5. PendingExact'
  BY <1>3 DEF IInv, PendingExact
<1>6. PlaceInv'
  <2>1. {calls'[j].file : j \in DOMAIN calls'} = {calls[j].file : j \in DOMAIN calls}
    BY <1>1
  <2> QED
    BY <1>1, <2>1 DEF IInv, PlaceInv
<1>7. (scheduled = Wanted)'
  BY DEF IInv, Wanted
<1>8. \A j \in DOMAIN calls : Is(j, "done") => j # i /\ Is(j, "done")' /\ calls'[j] = calls[j]
  BY <1>1 DEF Is
<1>9. KnownInv'
  BY <1>1, <1>8 DEF IInv, KnownInv
<1>10. \A j \in DOMAIN calls : Is(j, "done")' => Is(j, "done")
  BY <1>1 DEF Is
<1>11. DoneInv'
  BY <1>1, <1>8, <1>10 DEF IInv, DoneInv
<1> QED
  BY <1>2, <1>4, <1>5, <1>6, <1>7, <1>9, <1>11 DEF IInv, LeftInv

LEMMA InvReceive ==
  ASSUME IInv, NEW i \in DOMAIN calls, Receive(i)
  PROVE  IInv'
<1> DEFINE c == [calls[i] EXCEPT !.stage = "running"]
<1>1. calls[i] \in CallType /\ calls[i].stage = "sent"
  BY OutstandingFinite DEF IInv, Receive, Is
<1>2. c \in CallType /\ c.stage = "running" /\ c.file = calls[i].file /\ c.known = calls[i].known
      /\ c.ok = calls[i].ok
  BY <1>1 DEF CallType
<1>3. calls' = [calls EXCEPT ![i] = c]
  BY DEF Receive, SetStage
<1>4. c.known \subseteq target_build_files
  BY <1>2 DEF IInv, KnownInv
<1>5. c.stage \in {"result", "handling"} => (c.ok <=> c.file \notin project.broken)
  BY <1>1, <1>2 DEF IInv, KnownInv
<1> HIDE DEF c
<1> QED
  BY <1>1, <1>2, <1>3, <1>4, <1>5, InvCall DEF Receive

LEMMA InvWorkerDies ==
  ASSUME IInv, NEW i \in DOMAIN calls, WorkerDies(i)
  PROVE  IInv'
<1> DEFINE c == [calls[i] EXCEPT !.stage = "lost"]
<1>1. calls[i] \in CallType /\ calls[i].stage = "running"
  BY OutstandingFinite DEF IInv, WorkerDies, Is
<1>2. c \in CallType /\ c.stage = "lost" /\ c.file = calls[i].file /\ c.known = calls[i].known
      /\ c.ok = calls[i].ok
  BY <1>1 DEF CallType
<1>3. calls' = [calls EXCEPT ![i] = c]
  BY DEF WorkerDies, SetStage
<1>4. c.known \subseteq target_build_files
  BY <1>2 DEF IInv, KnownInv
<1>5. c.stage \in {"result", "handling"} => (c.ok <=> c.file \notin project.broken)
  BY <1>1, <1>2 DEF IInv, KnownInv
<1> HIDE DEF c
<1> QED
  BY <1>1, <1>2, <1>3, <1>4, <1>5, InvCall DEF WorkerDies

LEMMA InvHandleResult ==
  ASSUME IInv, NEW i \in DOMAIN calls, HandleResult(i)
  PROVE  IInv'
<1> DEFINE c == [calls[i] EXCEPT !.stage = "handling"]
<1>1. calls[i] \in CallType /\ calls[i].stage = "result"
  BY OutstandingFinite DEF IInv, HandleResult, Is
<1>2. c \in CallType /\ c.stage = "handling" /\ c.file = calls[i].file /\ c.known = calls[i].known
      /\ c.ok = calls[i].ok
  BY <1>1 DEF CallType
<1>3. calls' = [calls EXCEPT ![i] = c]
  BY DEF HandleResult, SetStage
<1>4. c.known \subseteq target_build_files
  BY <1>2 DEF IInv, KnownInv
<1>5. c.stage \in {"result", "handling"} => (c.ok <=> c.file \notin project.broken)
  BY <1>1, <1>2 DEF IInv, KnownInv
<1> HIDE DEF c
<1> QED
  BY <1>1, <1>2, <1>3, <1>4, <1>5, InvCall DEF HandleResult

LEMMA InvSend ==
  ASSUME IInv, NEW i \in DOMAIN calls, Send(i)
  PROVE  IInv'
<1> DEFINE c == [calls[i] EXCEPT !.stage = "sent", !.known = target_build_files]
<1>1. calls[i] \in CallType /\ calls[i].stage = "queued"
  BY OutstandingFinite DEF IInv, Send, Is
<1>2. target_build_files \in SUBSET Files
  BY DEF IInv, TypeOK
<1>3. c \in CallType /\ c.stage = "sent" /\ c.file = calls[i].file
      /\ c.known = target_build_files
  BY <1>1, <1>2 DEF CallType
<1>4. calls' = [calls EXCEPT ![i] = c]
  BY <1>1 DEF Send
<1> HIDE DEF c
<1> QED
  BY <1>1, <1>3, <1>4, InvCall DEF Send

(* A worker that says no has a broken file: none that is running is loaded. *)
LEMMA InvCallLoadTargetBuildFile ==
  ASSUME IInv, NEW i \in DOMAIN calls, CallLoadTargetBuildFile(i)
  PROVE  IInv'
<1> DEFINE ok == calls[i].file \notin calls[i].known \cup project.broken
           c == [calls[i] EXCEPT !.stage = "result", !.ok = ok]
<1>1. calls[i] \in CallType /\ calls[i].stage = "running"
  BY OutstandingFinite DEF IInv, CallLoadTargetBuildFile, Is
<1>2. ok \in BOOLEAN
  OBVIOUS
<1>3. c \in CallType /\ c.stage = "result" /\ c.file = calls[i].file
      /\ c.known = calls[i].known /\ c.ok = ok
  BY <1>1, <1>2 DEF CallType
<1>4. calls' = [calls EXCEPT ![i] = c]
  BY <1>1 DEF CallLoadTargetBuildFile
<1>5. c.known \subseteq target_build_files
  BY <1>3 DEF IInv, KnownInv
<1>6. calls[i].file \notin calls[i].known
  BY <1>1 DEF IInv, KnownInv, PlaceInv, Is
<1>7. c.ok <=> c.file \notin project.broken
  BY <1>3, <1>6
<1> HIDE DEF c
<1> QED
  BY <1>1, <1>3, <1>4, <1>5, <1>7, InvCall DEF CallLoadTargetBuildFile

LEMMA InvApplyAsync ==
  ASSUME IInv, ApplyAsync
  PROVE  IInv'
<1> DEFINE f == Last(dependencies)
           n == Len(calls) + 1
<1>1. dependencies \in Seq(Files) /\ dependencies # <<>> /\ Injective(dependencies)
  BY DEF IInv, TypeOK, PlaceInv, Injective, ApplyAsync
<1>2. /\ dependencies' \in Seq(Files) /\ Injective(dependencies') /\ f \in Files
      /\ ToSet(dependencies) = ToSet(dependencies') \cup {f} /\ f \notin ToSet(dependencies')
  BY <1>1, FrontLast DEF ApplyAsync
<1>3. Call(f) \in CallType
  BY <1>2 DEF Call, CallType
<1> HIDE DEF f
<1>4. calls \in Seq(CallType) /\ DOMAIN calls = 1..Len(calls) /\ Len(calls) \in Nat
      /\ IsFiniteSet(Outstanding) /\ Cardinality(Outstanding) \in Nat
  BY OutstandingFinite DEF IInv
<1>5. calls' = Append(calls, Call(f))
  BY DEF ApplyAsync, f
<1>6. /\ calls' \in Seq(CallType) /\ DOMAIN calls' = DOMAIN calls \cup {n} /\ n \notin DOMAIN calls
      /\ calls'[n] = Call(f)
      /\ \A i \in DOMAIN calls : calls'[i] = calls[i]
  BY <1>3, <1>4, <1>5
<1> HIDE DEF n
<1>7. calls'[n].file = f /\ calls'[n].stage = "queued" /\ calls'[n].known = {}
  BY <1>6 DEF Call
<1>8. TypeOK'
  BY <1>2, <1>6 DEF IInv, TypeOK, ApplyAsync, CallType, Keys
<1>9. HolderInv'
  BY DEF IInv, HolderInv, ApplyAsync
<1>10. PendingExact'
  <2>1. Outstanding' = Outstanding \cup {n} /\ n \notin Outstanding
    BY <1>6, <1>7 DEF Outstanding
  <2>2. Cardinality(Outstanding') = Cardinality(Outstanding) + 1
    BY <1>4, <2>1, FS_AddElement
  <2>3. pool # "terminated" /\ error' = error /\ pending' = pending + 1 /\ pending \in Nat
    BY DEF IInv, HolderInv, TypeOK, ApplyAsync
  <2> QED
    BY <1>4, <2>2, <2>3 DEF IInv, PendingExact
<1>11. PlaceInv'
  <2>1. f \in ToSet(dependencies) /\ \A j \in DOMAIN calls : calls[j].file \notin ToSet(dependencies)
    BY <1>2 DEF IInv, PlaceInv, ToSet
  <2>2. \A i, j \in DOMAIN calls' : calls'[i].file = calls'[j].file => i = j
    BY <1>6, <1>7, <2>1 DEF IInv, PlaceInv
  <2>3. \A j \in DOMAIN calls' : calls'[j].file \notin ToSet(dependencies')
    BY <1>2, <1>6, <1>7, <2>1
  <2>4. \A i \in DOMAIN dependencies', j \in DOMAIN calls' : dependencies'[i] # calls'[j].file
    BY <2>3 DEF ToSet
  <2>5. {calls'[i].file : i \in DOMAIN calls'} = {calls[i].file : i \in DOMAIN calls} \cup {f}
    BY <1>6, <1>7
  <2>6. scheduled' = ToSet(dependencies') \cup {calls'[i].file : i \in DOMAIN calls'}
    BY <1>2, <2>5 DEF IInv, PlaceInv, ApplyAsync
  <2> QED
    BY <1>2, <2>2, <2>4, <2>6 DEF PlaceInv, Injective
<1>12. (scheduled = Wanted)'
  BY DEF IInv, Wanted, ApplyAsync
<1>13. \A i \in DOMAIN calls' : Is(i, "done")' <=> i \in DOMAIN calls /\ Is(i, "done")
  BY <1>6, <1>7 DEF Is
<1>14. KnownInv'
  BY <1>6, <1>7, <1>13 DEF IInv, KnownInv, ApplyAsync
<1>15. DoneInv'
  BY <1>6, <1>13 DEF IInv, DoneInv, HolderInv, ApplyAsync
<1>16. LeftInv' /\ (pc = "returned" => ~error)' /\ (pc = "exit" => error)'
  BY DEF LeftInv, ApplyAsync
<1> QED
  BY <1>8, <1>9, <1>10, <1>11, <1>12, <1>14, <1>15, <1>16 DEF IInv

LEMMA InvKeyboardInterrupt ==
  ASSUME IInv, KeyboardInterrupt
  PROVE  IInv'
<1>1. CASE pool = "none"
  <2>1. pc' = "raised" /\ UNCHANGED <<pool, calls>>
    BY <1>1 DEF KeyboardInterrupt
  <2>2. TypeOK'
    BY <2>1 DEF IInv, TypeOK, KeyboardInterrupt, Keys
  <2>3. HolderInv'
    BY <2>1 DEF IInv, HolderInv, KeyboardInterrupt
  <2>4. PendingExact' /\ PlaceInv' /\ (scheduled = Wanted)' /\ KnownInv' /\ DoneInv'
    BY <2>1, InvAside DEF KeyboardInterrupt
  <2> QED
    BY <2>1, <2>2, <2>3, <2>4 DEF IInv, LeftInv
<1>2. CASE pool # "none"
  <2>1. /\ pc' = "terminate" /\ pool' = "terminated" /\ pc = "loop"
        /\ calls' = [i \in DOMAIN calls |-> IF Is(i, "handling") THEN calls[i]
                                            ELSE [calls[i] EXCEPT !.stage = "done"]]
    BY <1>2 DEF KeyboardInterrupt
  <2>2. calls \in Seq(CallType) /\ DOMAIN calls = 1..Len(calls) /\ Len(calls) \in Nat
    BY OutstandingFinite DEF IInv
  <2>3. ASSUME NEW i \in DOMAIN calls
        PROVE  /\ calls'[i] \in CallType /\ calls'[i].file = calls[i].file
               /\ calls'[i].known = calls[i].known
               /\ Is(i, "done") => calls'[i].stage = "done"
               /\ calls'[i].stage \in {"result", "handling"} => calls'[i] = calls[i]
    <3>1. calls[i] \in CallType
      BY <2>2
    <3>2. [calls[i] EXCEPT !.stage = "done"] \in CallType
      BY <3>1 DEF CallType
    <3> QED
      BY <2>1, <3>1, <3>2 DEF CallType, Is
  <2>4. DOMAIN calls' = DOMAIN calls
    BY <2>1
  <2>5. calls' \in Seq(CallType)
    BY <2>1, <2>2, <2>3, <2>4
  <2>6. TypeOK'
    BY <2>1, <2>5 DEF IInv, TypeOK, KeyboardInterrupt, Keys, CallType
  <2>7. HolderInv'
    BY <2>1 DEF IInv, HolderInv, KeyboardInterrupt
  <2>8. PlaceInv'
    <3>1. {calls'[i].file : i \in DOMAIN calls'} = {calls[i].file : i \in DOMAIN calls}
      BY <2>3, <2>4
    <3> QED
      BY <2>3, <2>4, <3>1 DEF IInv, PlaceInv, KeyboardInterrupt
  <2>9. (scheduled = Wanted)'
    BY DEF IInv, Wanted, KeyboardInterrupt
  <2>10. \A i \in DOMAIN calls : Is(i, "done") => Is(i, "done")'
    BY <2>3, <2>4 DEF Is
  <2>11. KnownInv'
    BY <2>3, <2>4, <2>10 DEF IInv, KnownInv, KeyboardInterrupt
  <2>12. DoneInv'
    BY <2>1, <2>3, <2>4, <2>10 DEF IInv, DoneInv, KeyboardInterrupt
  <2> QED
    BY <2>1, <2>6, <2>7, <2>8, <2>9, <2>11, <2>12 DEF IInv, PendingExact, LeftInv
<1> QED
  BY <1>1, <1>2

(* What the loop over dependencies0 does to the lists. *)
LEMMA EnqueueProperties ==
  ASSUME IInv, NEW new \in Seq(Files), ToSet(new) \subseteq Files, Enqueue(new)
  PROVE  /\ scheduled' = scheduled \cup ToSet(new)
         /\ dependencies' \in Seq(Files) /\ Injective(dependencies')
         /\ ToSet(dependencies') = ToSet(dependencies) \cup (ToSet(new) \ scheduled)
<1> DEFINE fresh == ToSet(new) \ scheduled
<1>1. PICK added \in SetToSeqs(fresh) : dependencies' = dependencies \o added
  BY DEF Enqueue
<1>2. IsFiniteSet(fresh) /\ fresh \subseteq Files
  BY LoadAssumption, FS_Subset
<1>3. added \in Seq(fresh) /\ ToSet(added) = fresh /\ Injective(added)
  BY <1>2, SetToSeqsProperties
<1>4. added \in Seq(Files)
  BY <1>2, <1>3, SeqMonotonic
<1>5. dependencies \in Seq(Files) /\ Injective(dependencies)
  BY DEF IInv, TypeOK, PlaceInv, Injective
<1>6. ToSet(dependencies) \cap ToSet(added) = {}
  BY <1>3 DEF IInv, PlaceInv
<1>7. scheduled' = scheduled \cup ToSet(new)
  BY DEF Enqueue
<1> QED
  BY <1>1, <1>3, <1>4, <1>5, <1>6, <1>7, ConcatSet

LEMMA InvCallback ==
  ASSUME IInv, NEW i \in DOMAIN calls, Callback(i)
  PROVE  IInv'
<1> DEFINE c == [calls[i] EXCEPT !.stage = "done"]
           f == calls[i].file
<1>1. calls \in Seq(CallType) /\ IsFiniteSet(Outstanding) /\ Cardinality(Outstanding) \in Nat
  BY OutstandingFinite DEF IInv
<1>2. calls[i] \in CallType /\ calls[i].stage = "handling" /\ f \in Files
  <2>1. calls[i] \in CallType
    BY <1>1
  <2> QED
    BY <2>1 DEF Callback, Is, CallType
<1>3. c \in CallType /\ c.stage = "done" /\ c.file = f /\ c.known = calls[i].known
  BY <1>2 DEF CallType
<1>4. calls' = [calls EXCEPT ![i] = c]
  BY DEF Callback, SetStage
<1> HIDE DEF c
<1>5. /\ calls' \in Seq(CallType) /\ DOMAIN calls' = DOMAIN calls /\ calls'[i] = c
      /\ \A j \in DOMAIN calls : j # i => calls'[j] = calls[j]
      /\ \A j \in DOMAIN calls : calls'[j].file = calls[j].file /\ calls'[j].known = calls[j].known
  BY <1>1, <1>3, <1>4
<1>6. \A j \in DOMAIN calls : Is(j, "done")' <=> Is(j, "done") \/ j = i
  BY <1>3, <1>5 DEF Is
<1>7. UNCHANGED <<project, pc, holder, pool>> /\ holder = "none" /\ Notify
  BY DEF Callback
<1>8. pc \in {"start", "loop", "waiting", "join", "terminate", "returned", "exit", "raised"}
      /\ notified' \in BOOLEAN
  BY <1>7 DEF IInv, TypeOK, Notify
<1>9. i \in Outstanding
  BY <1>2 DEF Outstanding
<1>10. pool # "terminated" /\ pc \notin {"returned", "exit"} /\ pc \notin {"loop", "terminate", "raised"}
  BY <1>7, <1>9 DEF IInv, HolderInv
<1>11. Outstanding' = Outstanding \ {i}
  BY <1>3, <1>5 DEF Outstanding
<1>12. Cardinality(Outstanding') = Cardinality(Outstanding) - 1 /\ Cardinality(Outstanding) # 0
  <2>1. Cardinality(Outstanding \ {i}) = Cardinality(Outstanding) - 1
    BY <1>1, <1>9, FS_RemoveElement
  <2>2. Cardinality(Outstanding) # 0
    BY <1>1, <1>9, FS_EmptySet
  <2> QED
    BY <1>11, <2>1, <2>2
<1>13. HolderInv'
  BY <1>7, <1>10 DEF IInv, HolderInv
<1>14. {calls'[j].file : j \in DOMAIN calls'} = {calls[j].file : j \in DOMAIN calls}
  BY <1>5
<1>15. CASE calls[i].ok
  <2>1. /\ target_build_files' = target_build_files \cup {f}
        /\ data' = data \cup Keys(f)
        /\ Enqueue(project.deps[f])
        /\ pending' = pending - 1 /\ error' = error
    BY <1>15 DEF Callback
  <2>2. project.deps[f] \in Seq(Files) /\ ToSet(project.deps[f]) \subseteq Files
    BY <1>2, ProjectProperties DEF IInv
  <2>3. /\ scheduled' = scheduled \cup ToSet(project.deps[f])
        /\ dependencies' \in Seq(Files) /\ Injective(dependencies')
        /\ ToSet(dependencies') = ToSet(dependencies) \cup (ToSet(project.deps[f]) \ scheduled)
    BY <2>1, <2>2, EnqueueProperties
  <2>4. pending' \in Nat /\ PendingExact'
    <3>1. pending \in Nat /\ error \in BOOLEAN
      BY DEF IInv, TypeOK
    <3> QED
      BY <3>1, <1>1, <1>7, <1>10, <1>12, <2>1 DEF IInv, PendingExact
  <2>5. data' = (UNION {Keys(g) : g \in target_build_files})'
    BY <1>7, <2>1 DEF IInv, TypeOK, Keys
  <2>6. TypeOK'
    BY <1>2, <1>5, <1>7, <1>8, <2>1, <2>2, <2>3, <2>4, <2>5 DEF IInv, TypeOK, CallType
  <2>7. PlaceInv'
    <3>1. \A j, k \in DOMAIN calls' : calls'[j].file = calls'[k].file => j = k
      BY <1>5 DEF IInv, PlaceInv
    <3>2. \A j \in DOMAIN calls' : calls'[j].file \notin ToSet(dependencies')
      <4>1. \A j \in DOMAIN calls : calls[j].file \notin ToSet(dependencies) /\ calls[j].file \in scheduled
        BY DEF IInv, PlaceInv, ToSet
      <4> QED
        BY <4>1, <1>5, <2>3
    <3>3. \A k \in DOMAIN dependencies', j \in DOMAIN calls' : dependencies'[k] # calls'[j].file
      BY <3>2 DEF ToSet
    <3>4. scheduled' = ToSet(dependencies') \cup {calls'[j].file : j \in DOMAIN calls'}
      BY <1>14, <2>3 DEF IInv, PlaceInv
    <3> QED
      BY <2>3, <3>1, <3>3, <3>4 DEF PlaceInv, Injective
  <2>8. (scheduled = Wanted)'
    BY <1>7, <2>1, <2>3 DEF IInv, Wanted
  <2>9. KnownInv'
    <3>1. \A j \in DOMAIN calls' : calls'[j].known \subseteq target_build_files'
      BY <1>5, <2>1 DEF IInv, KnownInv
    <3>2. \A g \in target_build_files' : \E j \in DOMAIN calls' : Is(j, "done")' /\ calls'[j].file = g
      BY <1>5, <1>6, <2>1 DEF IInv, KnownInv
    <3>3. \A j \in DOMAIN calls' : calls'[j].stage \in {"result", "handling"} =>
            (calls'[j].ok <=> calls'[j].file \notin project'.broken)
      BY <1>3, <1>5, <1>7 DEF IInv, KnownInv
    <3> QED
      BY <3>1, <3>2, <3>3 DEF KnownInv
  <2>10. DoneInv'
    BY <1>5, <1>6, <1>7, <1>10, <2>1 DEF IInv, DoneInv
  <2>11. LeftInv'
    <3>1. pc = "join" => error
      BY <1>1, <1>10, <1>12 DEF IInv, LeftInv, PendingExact
    <3> QED
      BY <3>1, <1>7, <1>10, <2>1 DEF LeftInv
  <2> QED
    BY <1>7, <1>10, <1>13, <2>4, <2>6, <2>7, <2>8, <2>9, <2>10, <2>11 DEF IInv
<1>16. CASE ~calls[i].ok
  <2>1. error' = TRUE /\ UNCHANGED <<target_build_files, data, scheduled, dependencies, pending>>
    BY <1>16 DEF Callback
  <2>2. TypeOK'
    BY <1>5, <1>7, <1>8, <2>1 DEF IInv, TypeOK, CallType, Keys
  <2>3. PendingExact'
    <3>1. pending \in Nat /\ error \in BOOLEAN
      BY DEF IInv, TypeOK
    <3> QED
      BY <3>1, <1>1, <1>7, <1>10, <1>12, <2>1 DEF IInv, PendingExact
  <2>4. PlaceInv'
    BY <1>5, <1>14, <2>1 DEF IInv, PlaceInv
  <2>5. (scheduled = Wanted)'
    BY <1>7, <2>1 DEF IInv, Wanted
  <2>6. KnownInv'
    <3>1. \A j \in DOMAIN calls' : calls'[j].known \subseteq target_build_files'
      BY <1>5, <2>1 DEF IInv, KnownInv
    <3>2. \A g \in target_build_files' : \E j \in DOMAIN calls' : Is(j, "done")' /\ calls'[j].file = g
      BY <1>5, <1>6, <2>1 DEF IInv, KnownInv
    <3>3. \A j \in DOMAIN calls' : calls'[j].stage \in {"result", "handling"} =>
            (calls'[j].ok <=> calls'[j].file \notin project'.broken)
      BY <1>3, <1>5, <1>7 DEF IInv, KnownInv
    <3> QED
      BY <3>1, <3>2, <3>3 DEF KnownInv
  <2>7. DoneInv'
    <3>1. f \in project.broken
      BY <1>2, <1>16 DEF IInv, KnownInv
    <3> QED
      BY <3>1, <1>5, <1>6, <1>7, <2>1 DEF DoneInv
  <2> QED
    BY <1>7, <1>10, <1>13, <2>1, <2>2, <2>3, <2>4, <2>5, <2>6, <2>7 DEF IInv, LeftInv
<1> QED
  BY <1>15, <1>16

LEMMA InvNext == IInv /\ [Next]_vars => IInv'
<1> SUFFICES ASSUME IInv, [Next]_vars PROVE IInv'
  OBVIOUS
<1>1. CASE MainStep
  BY <1>1, InvAcquireCondition, InvApplyAsync, InvConditionWait, InvWake, InvLeaveLoop,
     InvPoolJoin, InvTerminated DEF MainStep
<1>2. CASE PoolStep
  BY <1>2, InvSend, InvReceive, InvCallLoadTargetBuildFile, InvHandleResult, InvCallback
     DEF PoolStep
<1>3. CASE KeyboardInterrupt
  BY <1>3, InvKeyboardInterrupt
<1>4. CASE \E i \in DOMAIN calls : WorkerDies(i)
  BY <1>4, InvWorkerDies
<1>5. CASE UNCHANGED vars
  <2>1. PendingExact' /\ PlaceInv' /\ (scheduled = Wanted)' /\ KnownInv' /\ DoneInv'
    BY <1>5, InvAside DEF vars
  <2> QED
    BY <1>5, <2>1 DEF vars, IInv, TypeOK, HolderInv, LeftInv, Outstanding, Keys
<1> QED
  BY <1>1, <1>2, <1>3, <1>4, <1>5 DEF Next

LEMMA InvAlways == Spec => []IInv
BY InvInit, InvNext, PTL DEF Spec

----------------------------------------------------------------------------
(* The theorems. *)

(* Types are right, and pending counts the calls whose callback is still   *)
(* to come, so that the loop of LoadTargetBuildFilesParallel does not end  *)
(* before the last result.                                                 *)
THEOREM PendingIsExact == Spec => []LoadInv
<1>1. IInv => LoadInv
  BY DEF IInv, LoadInv
<1> QED
  BY <1>1, InvAlways, PTL

(* No build file is loaded twice, and an error is that of a file which     *)
(* cannot be loaded.                                                       *)
THEOREM EachFileOnce == Spec => []LoadedOnce
<1>1. IInv => LoadedOnce
  BY DEF IInv, LoadedOnce, PlaceInv, DoneInv
<1> QED
  BY <1>1, InvAlways, PTL

----------------------------------------------------------------------------
(* The parallel loader implements the serial one. *)

StatusOf ==
  CASE pc \in {"terminate", "raised"} -> "interrupted"
    [] pc \in {"returned", "exit"} -> pc
    [] OTHER -> "loading"

(* A step that neither loads a file nor ends the load. *)
LEMMA StepStutters ==
  ASSUME UNCHANGED <<project, target_build_files>>, pc' = pc \/
           {pc, pc'} \subseteq {"start", "loop", "waiting", "join"} \/
           {pc, pc'} \subseteq {"terminate", "raised"}
  PROVE  UNCHANGED Abstract!vars
BY DEF Abstract!vars

(* A callback with a result loads a file that was asked for and was not    *)
(* loaded.                                                                 *)
LEMMA CallbackLoads ==
  ASSUME IInv, NEW i \in DOMAIN calls, Callback(i)
  PROVE  [Abstract!Next]_(Abstract!vars)
<1> DEFINE f == calls[i].file
<1>1. calls[i].stage = "handling" /\ UNCHANGED <<project, pc>> /\ holder = "none"
  BY DEF Callback, Is
<1>2. CASE calls[i].ok
  <2>1. target_build_files' = target_build_files \cup {f}
    BY <1>2 DEF Callback
  <2>2. f \in Files
    <3>1. calls[i] \in CallType
      BY OutstandingFinite DEF IInv
    <3> QED
      BY <3>1 DEF CallType
  <2>3. f \in Abstract!Asked
    BY DEF IInv, PlaceInv, Wanted, ToSet, Abstract!Asked, Abstract!ToSet
  <2>4. f \notin target_build_files
    BY <1>1 DEF IInv, KnownInv, PlaceInv, Is
  <2>5. f \notin project.broken
    BY <1>1, <1>2 DEF IInv, KnownInv
  <2>6. StatusOf = "loading" /\ StatusOf' = "loading"
    <3>1. i \in Outstanding
      BY <1>1 DEF Outstanding
    <3> QED
      BY <1>1, <3>1 DEF IInv, HolderInv, TypeOK, StatusOf
  <2>7. Abstract!LoadTargetBuildFile(f)
    BY <1>1, <2>1, <2>3, <2>4, <2>5, <2>6 DEF Abstract!LoadTargetBuildFile, StatusOf
  <2> QED
    BY <2>2, <2>7 DEF Abstract!Next
<1>3. CASE ~calls[i].ok
  BY <1>1, <1>3, StepStutters DEF Callback
<1> QED
  BY <1>2, <1>3

(* pool.join() returns to a load that is complete, or that met a file which *)
(* cannot be loaded.                                                       *)
LEMMA PoolJoinEnds ==
  ASSUME IInv, PoolJoin
  PROVE  Abstract!Next
<1>1. /\ pc = "join" /\ Outstanding = {} /\ pc' = IF error THEN "exit" ELSE "returned"
      /\ UNCHANGED <<project, target_build_files>>
  BY DEF PoolJoin
<1>2. pool # "terminated"
  BY <1>1 DEF IInv, HolderInv
<1>3. StatusOf = "loading" /\ StatusOf' = pc'
  BY <1>1 DEF StatusOf
<1>4. \A j \in DOMAIN calls : Is(j, "done")
  BY <1>1 DEF Outstanding, Is
<1>5. scheduled = Abstract!Asked
  BY DEF IInv, Wanted, ToSet, Abstract!Asked, Abstract!ToSet
<1>6. CASE ~error
  <2>1. dependencies = <<>>
    BY <1>1, <1>6 DEF IInv, LeftInv
  <2>2. ToSet(dependencies) = {}
    BY <2>1 DEF ToSet
  <2>3. scheduled \subseteq target_build_files
    BY <1>2, <1>4, <1>6, <2>2 DEF IInv, PlaceInv, DoneInv
  <2>4. Abstract!Return
    BY <1>1, <1>3, <1>5, <1>6, <2>3 DEF Abstract!Return, StatusOf
  <2> QED
    BY <2>4 DEF Abstract!Next
<1>7. CASE error
  <2>1. PICK j \in DOMAIN calls : calls[j].file \in project.broken
    BY <1>7 DEF IInv, DoneInv
  <2>2. calls[j].file \in scheduled
    BY DEF IInv, PlaceInv
  <2>3. Abstract!Fail
    BY <1>1, <1>3, <1>5, <1>7, <2>1, <2>2 DEF Abstract!Fail, StatusOf
  <2> QED
    BY <2>3 DEF Abstract!Next
<1> QED
  BY <1>6, <1>7

LEMMA KeyboardInterruptEnds ==
  ASSUME KeyboardInterrupt
  PROVE  Abstract!Next
<1>1. StatusOf = "loading" /\ StatusOf' = "interrupted" /\ UNCHANGED <<project, target_build_files>>
  BY DEF StatusOf, KeyboardInterrupt
<1>2. Abstract!Interrupt
  BY <1>1 DEF Abstract!Interrupt, StatusOf
<1> QED
  BY <1>2 DEF Abstract!Next

LEMMA RefineNext == IInv /\ [Next]_vars => [Abstract!Next]_(Abstract!vars)
<1> SUFFICES ASSUME IInv, [Next]_vars PROVE [Abstract!Next]_(Abstract!vars)
  OBVIOUS
<1>1. CASE MainStep
  <2>1. CASE PoolJoin
    BY <2>1, PoolJoinEnds
  <2>2. CASE AcquireCondition \/ ApplyAsync \/ ConditionWait \/ Wake \/ LeaveLoop \/ Terminated
    BY <2>2, StepStutters DEF AcquireCondition, ApplyAsync, ConditionWait, Wake, LeaveLoop, Terminated
  <2> QED
    BY <1>1, <2>1, <2>2 DEF MainStep
<1>2. CASE PoolStep
  <2>1. PICK i \in DOMAIN calls :
          Send(i) \/ Receive(i) \/ CallLoadTargetBuildFile(i) \/ HandleResult(i) \/ Callback(i)
    BY <1>2 DEF PoolStep
  <2>2. CASE Callback(i)
    BY <2>2, CallbackLoads
  <2>3. CASE Send(i) \/ Receive(i) \/ CallLoadTargetBuildFile(i) \/ HandleResult(i)
    BY <2>3, StepStutters DEF Send, Receive, CallLoadTargetBuildFile, HandleResult
  <2> QED
    BY <2>1, <2>2, <2>3
<1>3. CASE KeyboardInterrupt
  BY <1>3, KeyboardInterruptEnds
<1>4. CASE \E i \in DOMAIN calls : WorkerDies(i)
  BY <1>4, StepStutters DEF WorkerDies
<1>5. CASE UNCHANGED vars
  BY <1>5, StepStutters DEF vars
<1> QED
  BY <1>1, <1>2, <1>3, <1>4, <1>5 DEF Next

(* LoadTargetBuildFilesParallel does what the recursion of                 *)
(* LoadTargetBuildFile does: it returns with all files that are asked for  *)
(* and no other, and exits only for one that cannot be loaded.             *)
THEOREM LoaderRefines == Spec => ImplementsLoader
<1>1. Init => Abstract!Init
  BY DEF Init, Abstract!Init
<1> QED
  BY <1>1, RefineNext, InvAlways, PTL DEF Spec, ImplementsLoader, Abstract!Spec

=============================================================================
