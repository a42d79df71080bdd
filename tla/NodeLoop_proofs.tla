------------------------- MODULE NodeLoop_proofs ---------------------------
(***************************************************************************)
(* Theorems about NodeLoop, for all delays, every number of timers and     *)
(* operations, and every length of the queue of ticks.                     *)
(***************************************************************************)
EXTENDS NodeLoop, SequenceTheorems, WellFoundedInduction, TLAPS

----------------------------------------------------------------------------
(* The inductive invariant.  Its parts are statements about a state s of   *)
(* the loop, so that they can be used for the states that one action       *)
(* passes through.                                                         *)

FramesOf(s, c) ==
  {Js(t) : t \in {NoTimeout} \cup DOMAIN s.timer} \cup {TickFrame}
    \cup [f : {"immediates"}, queue : Seq(0..s.set)]
    \cup [f : {"list"}, list : DOMAIN s.list, now : 0..c]

TimersAt(c) ==
  [start : 0..c, after : Delays \cup {-1}, delay : Delays, on : BOOLEAN,
   repeat : BOOLEAN, fired : -1..c]

ListsOf(s) == [msecs : Delays, items : Seq(DOMAIN s.timer), timeout : Nat, open : BOOLEAN]

(* The types, at time c, after n operations. *)
StateOK(s, c, n) ==
  s \in [time : 0..c, heap : Seq(DOMAIN s.list), list : Seq(ListsOf(s)),
         lists : [Delays -> {NoList} \cup DOMAIN s.list], timer : Seq(TimersAt(c)),
         ticks : Seq(Ticks), index : 0..Len(s.ticks), queued : 0..n,
         imm : Seq(0..s.set), need : BOOLEAN, set : 0..n, reqs : 0..n,
         socket : BOOLEAN, closing : SUBSET {"timer", "socket"}, exiting : BOOLEAN]

(* A timer that is active belongs to an open list, and is active once. *)
HeapOK(s) ==
  \A i, j \in DOMAIN s.heap :
    s.list[s.heap[i]].open /\ (i # j => s.heap[i] # s.heap[j])

(* A list in lists is open and has the delay under which it is found. *)
RegOK(s) ==
  \A d \in Delays : s.lists[d] # NoList =>
    s.list[s.lists[d]].open /\ s.list[s.lists[d]].msecs = d

InHeap(s, l) == \E i \in DOMAIN s.heap : s.heap[i] = l

(* List l will be looked at. *)
Wired(s, st, l) ==
  \/ InHeap(s, l)
  \/ \E k \in DOMAIN st : st[k].f = "list" /\ st[k].list = l
  \/ \E k \in DOMAIN s.ticks : k > s.index /\ s.ticks[k].kind = "list" /\ s.ticks[k].n = l

(* So are all lists with timers in them, and those where timers may be     *)
(* added without the list's being started.                                 *)
Matters(s, l) == s.list[l].items # <<>> \/ \E d \in Delays : s.lists[d] = l

WiredOK(s, st) == \A l \in DOMAIN s.list : Matters(s, l) => s.list[l].open /\ Wired(s, st, l)

(* The timers in a list have its delay, have not been called since they    *)
(* were started, and are in the order of their starts.                     *)
InOrder(T, msecs, items) ==
  /\ \A i \in DOMAIN items : T[items[i]].delay = msecs /\ T[items[i]].fired <= T[items[i]].start
  /\ \A i, j \in DOMAIN items :
       i < j => items[i] # items[j] /\ T[items[i]].start <= T[items[j]].start

ItemsOK(s) == \A l \in DOMAIN s.list : InOrder(s.timer, s.list[l].msecs, s.list[l].items)

Sound(s, c, n) == StateOK(s, c, n) /\ HeapOK(s) /\ RegOK(s) /\ ItemsOK(s)

User(s, k) == k \in DOMAIN s.ticks /\ k > s.index /\ s.ticks[k].kind = "user"

(* The ticks of the contract that wait are those after r, in order.  A     *)
(* tick that continues a list knows it.                                    *)
TicksOK(s, r) ==
  /\ \A k \in DOMAIN s.ticks : s.ticks[k].kind = "list" => s.ticks[k].n \in DOMAIN s.list
  /\ \A k \in DOMAIN s.ticks : User(s, k) => s.ticks[k].n \in (r + 1)..s.queued
  /\ \A j, k \in DOMAIN s.ticks : User(s, j) /\ User(s, k) /\ j < k => s.ticks[j].n < s.ticks[k].n
  /\ \A n \in (r + 1)..s.queued : \E k \in DOMAIN s.ticks : User(s, k) /\ s.ticks[k].n = n

TickSet(s) == \E i \in DOMAIN s.imm : s.imm[i] = TickImmediate

(* No tick waits but those queued by the callback of an asynchronous call, *)
(* or an immediate is set to run them.                                     *)
Drained(s) == \A k \in DOMAIN s.ticks : s.ticks[k].from = "AsyncAfter" \/ TickSet(s)

Alive(p) == p \notin {"done", "dead"}

(* What runs, by what libuv called: b is the call, st the stack, p the     *)
(* phase.                                                                  *)
CallOK(s, st, b, p) ==
  /\ b = "none" => st = <<>>
  /\ ~Alive(p) => b = "none"
  /\ b = "AsyncAfter" => p = "io" /\ \A k \in DOMAIN st : st[k].f = "js"
  /\ b = "ticks" => IF st = <<>> THEN s.ticks = <<>> ELSE st[1].f = "ticks"
  /\ Alive(p) /\ b \in {"none", "AsyncAfter"} => Drained(s)
  /\ p = "beforeExit" /\ b = "none" => s.ticks = <<>> \/ TickSet(s)

(* At the end nothing waits, and only the listeners of 'exit' run. *)
ExitOK(s, st, p) ==
  /\ s.exiting => p \in {"exit", "done", "dead"}
  /\ p = "exit" => /\ s.exiting /\ s.ticks = <<>>
                   /\ \A k \in DOMAIN st : st[k] = Js(NoTimeout)

(* Immediates wait only while the check handle is active. *)
ImmOK(s, b, p) == Alive(p) /\ b # "throw" /\ s.imm # <<>> => s.need

Bases == {"none", "main", "MakeCallback", "AsyncAfter", "ticks", "throw"}

Phases == {"main", "run", "timers", "poll", "io", "check", "closing",
           "closed", "again", "beforeExit", "exit", "done", "dead"}

(* What holds of state s with stack st and the rest. *)
Holds(s, st, b, p, r) ==
  /\ TicksOK(s, r) /\ (Alive(p) => WiredOK(s, st))
  /\ ImmOK(s, b, p) /\ CallOK(s, st, b, p) /\ ExitOK(s, st, p)

IInv ==
  /\ clock \in 0..MaxClock /\ ops \in 0..MaxOps /\ ran \in 0..loop.queued
  /\ base \in Bases /\ phase \in Phases /\ Len(loop.timer) <= MaxTimeouts
  /\ stack \in Seq(FramesOf(loop, clock))
  /\ Sound(loop, clock, ops) /\ Holds(loop, stack, base, phase, ran)

----------------------------------------------------------------------------
(* How states differ that the functions of timers.js make. *)

(* The sequence r is q without x, and in the order of q. *)
Thinned(q, x, r) ==
  /\ \A i \in DOMAIN r : \E j \in DOMAIN q : r[i] = q[j]
  /\ \A j \in DOMAIN q : q[j] # x => \E i \in DOMAIN r : r[i] = q[j]
  /\ \A i, j \in DOMAIN r : i < j =>
       \E k, m \in DOMAIN q : k < m /\ r[i] = q[k] /\ r[j] = q[m]
  /\ (\A i, j \in DOMAIN q : i < j => q[i] # q[j]) => \A i \in DOMAIN r : r[i] # x

(* Lists L and M have the same items and delays. *)
SameItems(L, M) ==
  /\ DOMAIN M = DOMAIN L
  /\ \A l \in DOMAIN L : M[l].msecs = L[l].msecs /\ M[l].items = L[l].items

(* All but list x are open in one if they are in the other. *)
SameOpen(L, M, x) == \A l \in DOMAIN L : l # x => M[l].open = L[l].open

(* The lists are the same but for when they are due. *)
SameLists(s, r) ==
  /\ SameItems(s.list, r.list) /\ SameOpen(s.list, r.list, NoList)
  /\ r.lists = s.lists /\ r.timer = s.timer

(* What has nothing to do with timers is the same. *)
SameRest(s, r) ==
  /\ r.ticks = s.ticks /\ r.index = s.index /\ r.queued = s.queued /\ r.imm = s.imm
  /\ r.need = s.need /\ r.set = s.set /\ r.reqs = s.reqs /\ r.socket = s.socket
  /\ r.exiting = s.exiting

(* A list that needs looking at in r needed it in s, and is as open and as *)
(* active as it was; or it is open and active now.                         *)
Keeps(s, r) ==
  \A x \in DOMAIN r.list : Matters(r, x) =>
    \/ /\ x \in DOMAIN s.list /\ Matters(s, x) /\ r.list[x].open = s.list[x].open
       /\ InHeap(s, x) => InHeap(r, x)
    \/ r.list[x].open /\ InHeap(r, x)

(* What the functions of timers.js do to a state. *)
Kept(s, r, c, n) ==
  /\ Sound(r, c, n) /\ Keeps(s, r) /\ SameRest(s, r)
  /\ DOMAIN s.list \subseteq DOMAIN r.list /\ DOMAIN r.timer = DOMAIN s.timer

----------------------------------------------------------------------------
(* Facts about numbers and sequences. *)

LEMMA LeastNat ==
  ASSUME NEW S \in SUBSET Nat, S # {}
  PROVE  \E m \in S : \A n \in S : m =< n
<1> DEFINE R == OpToRel(<, Nat)
<1>1. IsWellFoundedOn(R, Nat)
  BY NatLessThanWellFounded
<1>2. \A x, y \in Nat : x < y => <<x, y>> \in R
  BY DEF OpToRel
<1> HIDE DEF R
<1>3. PICK m \in S : \A y \in S : ~(<<y, m>> \in R)
  BY <1>1, WFMin
<1>4. S \subseteq Nat /\ m \in Nat
  OBVIOUS
<1>5. \A n \in S : ~(n < m)
  BY <1>2, <1>3, <1>4
<1>6. \A a, b \in Nat : ~(b < a) => a =< b
  OBVIOUS
<1> QED
  BY <1>4, <1>5, <1>6

(* RemoveFirst leaves a sequence without x alone, and takes one place out  *)
(* of another.                                                             *)
LEMMA RemoveIs ==
  ASSUME NEW S, NEW q \in Seq(S), NEW x
  PROVE  \/ RemoveFirst(q, x) = q /\ \A i \in DOMAIN q : q[i] # x
         \/ \E m \in DOMAIN q :
              /\ q[m] = x
              /\ RemoveFirst(q, x) \in Seq(S)
              /\ Len(RemoveFirst(q, x)) = Len(q) - 1
              /\ \A i \in 1..(Len(q) - 1) :
                   RemoveFirst(q, x)[i] = IF i < m THEN q[i] ELSE q[i + 1]
<1> DEFINE I == {i \in 1..Len(q) : q[i] = x}
<1>1. DOMAIN q = 1..Len(q) /\ Len(q) \in Nat
  OBVIOUS
<1>2. CASE I = {}
  <2>1. \A i \in DOMAIN q : q[i] # x
    BY <1>1, <1>2
  <2> QED
    BY <1>1, <2>1 DEF RemoveFirst
<1>3. CASE I # {}
  <2>1. I \in SUBSET Nat
    BY <1>1
  <2>2. \E m \in I : \A n \in I : m =< n
    BY <1>3, <2>1, LeastNat
  <2>3. PICK m \in I : m = Min(I)
    BY <2>2 DEF Min
  <2>4. SelectInSeq(q, LAMBDA v : v = x) = m
    BY <1>3, <2>3 DEF SelectInSeq
  <2>5. RemoveFirst(q, x) = RemoveAt(q, m)
    BY <1>3, <2>4 DEF RemoveFirst
  <2>6. m \in 1..Len(q) /\ q[m] = x
    BY <2>3
  <2> DEFINE a == SubSeq(q, 1, m - 1)
             b == SubSeq(q, m + 1, Len(q))
  <2>7. /\ a \in Seq(S) /\ Len(a) = m - 1 /\ \A i \in 1..(m - 1) : a[i] = q[i]
        /\ b \in Seq(S) /\ Len(b) = Len(q) - m /\ \A i \in 1..(Len(q) - m) : b[i] = q[m + i]
    <3>1. /\ 1 \in Int /\ m - 1 \in Int /\ m + 1 \in Int /\ Len(q) \in Int
          /\ \A i \in 1..(m - 1) : q[i] \in S
          /\ \A i \in (m + 1)..Len(q) : q[i] \in S
      BY <1>1, <2>6
    <3>2. /\ a \in Seq(S) /\ Len(a) = IF 1 <= m - 1 THEN m - 1 - 1 + 1 ELSE 0
          /\ \A i \in 1..(m - 1 - 1 + 1) : a[i] = q[1 + i - 1]
      BY <3>1, SubSeqProperties
    <3>3. /\ b \in Seq(S) /\ Len(b) = IF m + 1 <= Len(q) THEN Len(q) - (m + 1) + 1 ELSE 0
          /\ \A i \in 1..(Len(q) - (m + 1) + 1) : b[i] = q[m + 1 + i - 1]
      BY <3>1, SubSeqProperties
    <3> HIDE DEF a, b
    <3>4. m - 1 - 1 + 1 = m - 1 /\ Len(q) - (m + 1) + 1 = Len(q) - m
      BY <1>1, <2>6
    <3>5. \A i \in Int : 1 + i - 1 = i /\ m + 1 + i - 1 = m + i
      BY <1>1, <2>6
    <3>6. Len(a) = m - 1 /\ Len(b) = Len(q) - m
      <4>1. m \in Nat /\ 1 <= m /\ m <= Len(q)
        BY <1>1, <2>6
      <4>2. Len(a) = IF 1 <= m - 1 THEN m - 1 ELSE 0
        BY <3>2, <3>4
      <4>3. Len(b) = IF m + 1 <= Len(q) THEN Len(q) - m ELSE 0
        BY <3>3, <3>4
      <4>4. ~(1 <= m - 1) => m - 1 = 0
        BY <4>1
      <4>5. ~(m + 1 <= Len(q)) => Len(q) - m = 0
        <5>1. \A n \in Nat : m <= n /\ ~(m + 1 <= n) => n - m = 0
          BY <4>1
        <5> QED
          BY <1>1, <4>1, <5>1
      <4> QED
        BY <4>2, <4>3, <4>4, <4>5, Zenon
    <3>7. \A i \in 1..(m - 1) : a[i] = q[i]
      <4> TAKE i \in 1..(m - 1)
      <4>1. i \in Int /\ 1 + i - 1 = i
        BY <1>1, <2>6, <3>5
      <4>2. a[i] = q[1 + i - 1]
        BY <3>2, <3>4
      <4> QED
        BY <4>1, <4>2
    <3>8. \A i \in 1..(Len(q) - m) : b[i] = q[m + i]
      <4> TAKE i \in 1..(Len(q) - m)
      <4>1. i \in Int /\ m + 1 + i - 1 = m + i
        BY <1>1, <2>6, <3>5
      <4>2. b[i] = q[m + 1 + i - 1]
        BY <3>3, <3>4
      <4> QED
        BY <4>1, <4>2
    <3> QED
      BY <3>2, <3>3, <3>6, <3>7, <3>8
  <2> HIDE DEF a, b
  <2>8. /\ a \o b \in Seq(S) /\ Len(a \o b) = Len(a) + Len(b)
        /\ \A i \in 1..(Len(a) + Len(b)) :
             (a \o b)[i] = IF i <= Len(a) THEN a[i] ELSE b[i - Len(a)]
    BY <2>7, ConcatProperties
  <2>9. \A i \in 1..(Len(q) - 1) : (a \o b)[i] = IF i < m THEN q[i] ELSE q[i + 1]
    <3> TAKE i \in 1..(Len(q) - 1)
    <3>1. CASE i < m
      BY <1>1, <2>6, <2>7, <2>8, <3>1
    <3>2. CASE ~(i < m)
      <4>1. i - Len(a) \in 1..(Len(q) - m) /\ m + (i - Len(a)) = i + 1 /\ ~(i <= Len(a))
        BY <1>1, <2>6, <2>7, <3>2
      <4>2. b[i - Len(a)] = q[m + (i - Len(a))]
        BY <2>7, <4>1
      <4> QED
        BY <1>1, <2>6, <2>7, <2>8, <3>2, <4>1, <4>2
    <3> QED
      BY <3>1, <3>2
  <2>10. RemoveAt(q, m) = a \o b
    BY DEF RemoveAt, a, b
  <2>11. Len(a) + Len(b) = Len(q) - 1
    BY <1>1, <2>6, <2>7
  <2>12. /\ RemoveFirst(q, x) \in Seq(S) /\ Len(RemoveFirst(q, x)) = Len(q) - 1
         /\ \A i \in 1..(Len(q) - 1) : RemoveFirst(q, x)[i] = IF i < m THEN q[i] ELSE q[i + 1]
    BY <2>5, <2>8, <2>9, <2>10, <2>11
  <2> QED
    BY <1>1, <2>6, <2>12
<1> QED
  BY <1>2, <1>3

(* What is left of a sequence without repetition, and in which order. *)
LEMMA RemoveProps ==
  ASSUME NEW S, NEW q \in Seq(S), NEW x, NEW r, r = RemoveFirst(q, x)
  PROVE  r \in Seq(S) /\ Thinned(q, x, r)
<1>1. DOMAIN q = 1..Len(q) /\ Len(q) \in Nat
  OBVIOUS
<1>2. CASE RemoveFirst(q, x) = q /\ \A i \in DOMAIN q : q[i] # x
  BY <1>2 DEF Thinned
<1>3. ASSUME NEW m \in DOMAIN q, q[m] = x, r \in Seq(S), Len(r) = Len(q) - 1,
             \A i \in 1..(Len(q) - 1) : r[i] = IF i < m THEN q[i] ELSE q[i + 1]
      PROVE  r \in Seq(S) /\ Thinned(q, x, r)
  <2>1. DOMAIN r = 1..(Len(q) - 1) /\ m \in 1..Len(q)
    BY <1>1, <1>3
  <2> DEFINE p(i) == IF i < m THEN i ELSE i + 1
  <2>2. \A i \in DOMAIN r : p(i) \in DOMAIN q /\ r[i] = q[p(i)] /\ p(i) # m
    BY <1>1, <1>3, <2>1
  <2>3. \A i, j \in DOMAIN r : i < j => p(i) < p(j)
    BY <1>1, <2>1
  <2>4. \A j \in DOMAIN q : j # m => \E i \in DOMAIN r : p(i) = j
    <3> TAKE j \in DOMAIN q
    <3> HAVE j # m
    <3>1. CASE j < m
      BY <1>1, <2>1, <3>1
    <3>2. CASE j > m
      <4>1. j - 1 \in DOMAIN r /\ p(j - 1) = j
        BY <1>1, <2>1, <3>2
      <4> QED
        BY <4>1
    <3> QED
      BY <1>1, <2>1, <3>1, <3>2
  <2>5. \A i, j \in DOMAIN q : i < j \/ i = j \/ j < i
    BY <1>1
  <2> HIDE DEF p
  <2>6. \A i \in DOMAIN r : \E j \in DOMAIN q : r[i] = q[j]
    BY <2>2
  <2>7. \A j \in DOMAIN q : q[j] # x => \E i \in DOMAIN r : r[i] = q[j]
    BY <1>3, <2>2, <2>4
  <2>8. \A i, j \in DOMAIN r : i < j =>
          \E k, l \in DOMAIN q : k < l /\ r[i] = q[k] /\ r[j] = q[l]
    BY <2>2, <2>3
  <2>9. (\A i, j \in DOMAIN q : i < j => q[i] # q[j]) => \A i \in DOMAIN r : r[i] # x
    BY <1>3, <2>2, <2>5
  <2> QED
    BY <1>3, <2>6, <2>7, <2>8, <2>9 DEF Thinned
<1> QED
  BY <1>2, <1>3, RemoveIs

LEMMA FrontIs ==
  ASSUME NEW S, NEW q \in Seq(S), q # <<>>
  PROVE  /\ Front(q) \in Seq(S) /\ Len(Front(q)) = Len(q) - 1
         /\ DOMAIN Front(q) = 1..(Len(q) - 1)
         /\ \A i \in 1..(Len(q) - 1) : Front(q)[i] = q[i]
         /\ Len(q) \in DOMAIN q /\ Last(q) = q[Len(q)] /\ Last(q) \in S
         /\ DOMAIN q = 1..Len(q) /\ Len(q) \in Nat \ {0}
         /\ \A i \in DOMAIN q : i \in DOMAIN Front(q) \/ i = Len(q)
<1>1. DOMAIN q = 1..Len(q) /\ Len(q) \in Nat \ {0} /\ Len(q) \in DOMAIN q /\ q[Len(q)] \in S
  OBVIOUS
<1>2. 1 \in Int /\ Len(q) - 1 \in Int /\ \A i \in 1..(Len(q) - 1) : q[i] \in S
  BY <1>1
<1>3. /\ SubSeq(q, 1, Len(q) - 1) \in Seq(S)
      /\ Len(SubSeq(q, 1, Len(q) - 1)) = IF 1 <= Len(q) - 1 THEN Len(q) - 1 - 1 + 1 ELSE 0
      /\ \A i \in 1..(Len(q) - 1 - 1 + 1) : SubSeq(q, 1, Len(q) - 1)[i] = q[1 + i - 1]
  BY <1>2, SubSeqProperties
<1>4. Front(q) = SubSeq(q, 1, Len(q) - 1) /\ Last(q) = q[Len(q)]
  BY DEF Front, Last
<1> DEFINE f == Front(q)
<1>5. /\ f \in Seq(S) /\ Len(f) = IF 1 <= Len(q) - 1 THEN Len(q) - 1 - 1 + 1 ELSE 0
      /\ \A i \in 1..(Len(q) - 1 - 1 + 1) : f[i] = q[1 + i - 1]
  BY <1>3, <1>4
<1> HIDE DEF f
<1>6. Len(q) - 1 - 1 + 1 = Len(q) - 1 /\ \A i \in Int : 1 + i - 1 = i
  BY <1>1
<1>a. Len(f) = Len(q) - 1
  <2>1. Len(f) = IF 1 <= Len(q) - 1 THEN Len(q) - 1 ELSE 0
    BY <1>5, <1>6
  <2>2. ~(1 <= Len(q) - 1) => Len(q) - 1 = 0
    BY <1>1
  <2> QED
    BY <2>1, <2>2, Zenon
<1>b. DOMAIN f = 1..Len(f)
  BY <1>5
<1>c. \A i \in 1..(Len(q) - 1) : f[i] = q[i]
  <2> TAKE i \in 1..(Len(q) - 1)
  <2>1. i \in Int /\ 1 + i - 1 = i
    BY <1>1, <1>6
  <2>2. f[i] = q[1 + i - 1]
    BY <1>5, <1>6
  <2> QED
    BY <2>1, <2>2
<1>7. Len(f) = Len(q) - 1 /\ DOMAIN f = 1..Len(f) /\ \A i \in 1..(Len(q) - 1) : f[i] = q[i]
  BY <1>a, <1>b, <1>c
<1>8. \A i \in DOMAIN q : i \in DOMAIN f \/ i = Len(q)
  BY <1>1, <1>7
<1> QED
  BY <1>1, <1>4, <1>5, <1>7, <1>8 DEF f

----------------------------------------------------------------------------
(* uv_timer_t. *)

(* What the types say of the parts of a state. *)
LEMMA StateFields ==
  ASSUME NEW s, NEW c \in Nat, NEW n \in Nat, StateOK(s, c, n)
  PROVE  /\ s.time \in 0..c /\ s.heap \in Seq(DOMAIN s.list) /\ s.list \in Seq(ListsOf(s))
         /\ s.lists \in [Delays -> {NoList} \cup DOMAIN s.list] /\ s.timer \in Seq(TimersAt(c))
         /\ s.ticks \in Seq(Ticks) /\ s.index \in 0..Len(s.ticks) /\ s.queued \in 0..n
         /\ s.imm \in Seq(0..s.set) /\ s.need \in BOOLEAN /\ s.set \in 0..n /\ s.reqs \in 0..n
         /\ s.socket \in BOOLEAN /\ s.closing \subseteq {"timer", "socket"}
         /\ s.exiting \in BOOLEAN
         /\ DOMAIN s.list = 1..Len(s.list) /\ Len(s.list) \in Nat
         /\ DOMAIN s.timer = 1..Len(s.timer) /\ Len(s.timer) \in Nat
         /\ DOMAIN s.heap = 1..Len(s.heap) /\ Len(s.heap) \in Nat
         /\ \A l \in DOMAIN s.list : s.list[l] \in ListsOf(s) /\ l # NoList
         /\ \A t \in DOMAIN s.timer : s.timer[t] \in TimersAt(c) /\ t # NoTimeout
         /\ \A i \in DOMAIN s.heap : s.heap[i] \in DOMAIN s.list
<1>1. /\ s.time \in 0..c /\ s.heap \in Seq(DOMAIN s.list) /\ s.list \in Seq(ListsOf(s))
      /\ s.lists \in [Delays -> {NoList} \cup DOMAIN s.list] /\ s.timer \in Seq(TimersAt(c))
      /\ s.ticks \in Seq(Ticks) /\ s.index \in 0..Len(s.ticks) /\ s.queued \in 0..n
      /\ s.imm \in Seq(0..s.set) /\ s.need \in BOOLEAN /\ s.set \in 0..n /\ s.reqs \in 0..n
      /\ s.socket \in BOOLEAN /\ s.closing \subseteq {"timer", "socket"}
      /\ s.exiting \in BOOLEAN
  BY DEF StateOK
<1>2. /\ DOMAIN s.list = 1..Len(s.list) /\ Len(s.list) \in Nat
      /\ \A l \in DOMAIN s.list : s.list[l] \in ListsOf(s) /\ l # NoList
  BY <1>1 DEF NoList
<1>3. /\ DOMAIN s.timer = 1..Len(s.timer) /\ Len(s.timer) \in Nat
      /\ \A t \in DOMAIN s.timer : s.timer[t] \in TimersAt(c) /\ t # NoTimeout
  BY <1>1 DEF NoTimeout
<1>4. /\ DOMAIN s.heap = 1..Len(s.heap) /\ Len(s.heap) \in Nat
      /\ \A i \in DOMAIN s.heap : s.heap[i] \in DOMAIN s.list
  BY <1>1
<1> QED
  BY <1>1, <1>2, <1>3, <1>4

LEMMA SeqChange ==
  ASSUME NEW S, NEW q \in Seq(S), NEW i \in 1..Len(q), NEW e \in S, NEW L, L = [q EXCEPT ![i] = e]
  PROVE  L \in Seq(S)
OBVIOUS

(* When a list is due is changed. *)
LEMMA TimeoutChange ==
  ASSUME NEW s, s.list \in Seq(ListsOf(s)), NEW l \in DOMAIN s.list, NEW y \in Nat,
         NEW L, L = [s.list EXCEPT ![l].timeout = y]
  PROVE  L \in Seq(ListsOf(s)) /\ SameItems(s.list, L) /\ SameOpen(s.list, L, NoList)
<1> DEFINE e == [s.list[l] EXCEPT !.timeout = y]
<1>1. s.list[l] \in ListsOf(s) /\ l \in 1..Len(s.list)
  OBVIOUS
<1>2. /\ e \in ListsOf(s) /\ e.msecs = s.list[l].msecs /\ e.items = s.list[l].items
      /\ e.open = s.list[l].open
  BY <1>1 DEF ListsOf
<1>3. L = [s.list EXCEPT ![l] = e]
  OBVIOUS
<1> HIDE DEF e
<1>4. L \in Seq(ListsOf(s)) /\ DOMAIN L = DOMAIN s.list
  BY <1>1, <1>2, <1>3
<1>5. \A x \in DOMAIN s.list : L[x] = IF x = l THEN e ELSE s.list[x]
  BY <1>3
<1> QED
  BY <1>2, <1>4, <1>5 DEF SameItems, SameOpen

(* A list is closed. *)
LEMMA OpenChange ==
  ASSUME NEW s, s.list \in Seq(ListsOf(s)), NEW l \in DOMAIN s.list,
         NEW L, L = [s.list EXCEPT ![l].open = FALSE]
  PROVE  L \in Seq(ListsOf(s)) /\ SameItems(s.list, L) /\ SameOpen(s.list, L, l)
<1> DEFINE e == [s.list[l] EXCEPT !.open = FALSE]
<1>1. s.list[l] \in ListsOf(s) /\ l \in 1..Len(s.list) /\ DOMAIN s.list = 1..Len(s.list)
  OBVIOUS
<1>2. e \in ListsOf(s) /\ e.msecs = s.list[l].msecs /\ e.items = s.list[l].items
  BY <1>1 DEF ListsOf
<1>3. L = [s.list EXCEPT ![l] = e]
  OBVIOUS
<1> HIDE DEF e
<1>a. DOMAIN L = DOMAIN s.list
  BY <1>3
<1>4. L \in Seq(ListsOf(s))
  BY <1>1, <1>2, <1>3, SeqChange, Zenon
<1>5. \A x \in DOMAIN s.list : L[x] = IF x = l THEN e ELSE s.list[x]
  BY <1>3
<1> QED
  BY <1>2, <1>4, <1>5, <1>a DEF SameItems, SameOpen

LEMMA StopOK ==
  ASSUME NEW s, NEW c \in Nat, NEW n \in Nat, StateOK(s, c, n), HeapOK(s), NEW l \in DOMAIN s.list,
         NEW r, r = uv_timer_stop(s, l)
  PROVE  /\ StateOK(r, c, n) /\ HeapOK(r) /\ SameLists(s, r) /\ SameRest(s, r)
         /\ r.time = s.time /\ r.closing = s.closing
         /\ ~InHeap(r, l) /\ \A x : x # l => (InHeap(r, x) <=> InHeap(s, x))
<1> DEFINE h == RemoveFirst(s.heap, l)
           L == [s.list EXCEPT ![l].timeout = 0]
<1>1. /\ s.heap \in Seq(DOMAIN s.list) /\ s.list \in Seq(ListsOf(s))
      /\ DOMAIN s.list = 1..Len(s.list) /\ Len(s.list) \in Nat
      /\ DOMAIN s.heap = 1..Len(s.heap) /\ Len(s.heap) \in Nat
      /\ \A x \in DOMAIN s.list : s.list[x] \in ListsOf(s) /\ x # NoList
  BY StateFields
<1>2. /\ r.heap = h /\ r.list = L /\ r.lists = s.lists /\ r.timer = s.timer
      /\ r.time = s.time /\ r.closing = s.closing /\ SameRest(s, r)
      /\ r = [s EXCEPT !.heap = h, !.list = L]
  BY DEF StateOK, uv_timer_stop, SameRest
<1>h. h = RemoveFirst(s.heap, l) /\ L = [s.list EXCEPT ![l].timeout = 0]
  OBVIOUS
<1> HIDE DEF h, L
<1>t. h \in Seq(DOMAIN s.list) /\ Thinned(s.heap, l, h)
  BY <1>1, <1>h, RemoveProps
<1>3. /\ \A i \in DOMAIN h : \E j \in DOMAIN s.heap : h[i] = s.heap[j]
      /\ \A j \in DOMAIN s.heap : s.heap[j] # l => \E i \in DOMAIN h : h[i] = s.heap[j]
      /\ \A i, j \in DOMAIN h : i < j =>
           \E k, m \in DOMAIN s.heap : k < m /\ h[i] = s.heap[k] /\ h[j] = s.heap[m]
      /\ (\A i, j \in DOMAIN s.heap : i < j => s.heap[i] # s.heap[j])
           => \A i \in DOMAIN h : h[i] # l
  BY <1>t DEF Thinned
<1>4. L \in Seq(ListsOf(s)) /\ SameItems(s.list, L) /\ SameOpen(s.list, L, NoList)
  BY <1>1, <1>h, TimeoutChange
<1>5. ListsOf(r) = ListsOf(s) /\ DOMAIN L = DOMAIN s.list
  BY <1>2, <1>4 DEF ListsOf, SameItems
<1>6. StateOK(r, c, n)
  BY <1>2, <1>t, <1>4, <1>5 DEF StateOK, SameRest
<1>7. \A i, j \in DOMAIN s.heap : i # j => s.heap[i] # s.heap[j]
  BY DEF HeapOK
<1>8. \A i \in DOMAIN h : h[i] # l
  <2>1. \A i, j \in DOMAIN s.heap : i < j => i # j
    BY <1>1
  <2> QED
    BY <1>3, <1>7, <2>1
<1>9. DOMAIN h \subseteq Nat
  BY <1>t
<1>10. \A i, j \in DOMAIN h : i # j => h[i] # h[j]
  <2> SUFFICES ASSUME NEW i \in DOMAIN h, NEW j \in DOMAIN h, i < j PROVE h[i] # h[j]
    BY <1>9
  <2>1. PICK k, m \in DOMAIN s.heap : k < m /\ h[i] = s.heap[k] /\ h[j] = s.heap[m]
    BY <1>3
  <2>2. k # m
    BY <1>1, <2>1
  <2> QED
    BY <1>7, <2>1, <2>2
<1>11. HeapOK(r)
  <2>1. \A i \in DOMAIN s.heap : /\ s.heap[i] \in DOMAIN s.list /\ s.heap[i] # NoList
                                 /\ s.list[s.heap[i]].open
    BY <1>1 DEF HeapOK
  <2>2. \A i \in DOMAIN h : L[h[i]].open
    <3> TAKE i \in DOMAIN h
    <3>1. PICK j \in DOMAIN s.heap : h[i] = s.heap[j]
      BY <1>3
    <3> QED
      BY <1>4, <2>1, <3>1 DEF SameOpen
  <2> QED
    BY <1>2, <1>10, <2>2 DEF HeapOK
<1>12. SameLists(s, r)
  BY <1>2, <1>4 DEF SameLists
<1>13. ~InHeap(r, l) /\ \A x : x # l => (InHeap(r, x) <=> InHeap(s, x))
  BY <1>2, <1>3, <1>8 DEF InHeap
<1> QED
  BY <1>2, <1>6, <1>11, <1>12, <1>13

LEMMA StartOK ==
  ASSUME NEW s, NEW c \in Nat, NEW n \in Nat, StateOK(s, c, n), HeapOK(s), NEW l \in DOMAIN s.list,
         s.list[l].open, NEW d \in Nat, NEW r, r = uv_timer_start(s, l, d)
  PROVE  /\ StateOK(r, c, n) /\ HeapOK(r) /\ SameLists(s, r) /\ SameRest(s, r)
         /\ r.time = s.time /\ r.closing = s.closing
         /\ InHeap(r, l) /\ \A x : InHeap(s, x) => InHeap(r, x)
<1> DEFINE u == uv_timer_stop(s, l)
           h == Append(u.heap, l)
           L == [u.list EXCEPT ![l].timeout = s.time + d]
<1>1. /\ StateOK(u, c, n) /\ HeapOK(u) /\ SameLists(s, u) /\ SameRest(s, u)
      /\ u.time = s.time /\ u.closing = s.closing
      /\ ~InHeap(u, l) /\ \A x : x # l => (InHeap(u, x) <=> InHeap(s, x))
  BY StopOK
<1>2. r = [u EXCEPT !.list[l].timeout = s.time + d, !.heap = Append(@, l)]
  BY DEF uv_timer_start
<1> HIDE DEF u
<1>3. /\ u.heap \in Seq(DOMAIN u.list) /\ u.list \in Seq(ListsOf(u))
      /\ DOMAIN u.list = 1..Len(u.list) /\ Len(u.list) \in Nat
      /\ DOMAIN u.heap = 1..Len(u.heap) /\ Len(u.heap) \in Nat
      /\ \A x \in DOMAIN u.list : u.list[x] \in ListsOf(u) /\ x # NoList
  BY <1>1, StateFields
<1>t. s.time + d \in Nat
  <2>1. s.time \in 0..c
    BY StateFields
  <2> QED
    BY <2>1
<1>4. l \in DOMAIN u.list /\ u.list[l].open
  <2>1. l # NoList
    BY StateFields
  <2> QED
    BY <1>1, <2>1 DEF SameLists, SameItems, SameOpen
<1>5. /\ r.heap = h /\ r.list = L /\ r.lists = u.lists /\ r.timer = u.timer
      /\ r.time = u.time /\ r.closing = u.closing /\ SameRest(u, r)
      /\ r = [u EXCEPT !.heap = h, !.list = L]
  BY <1>1, <1>2 DEF StateOK, SameRest
<1>6. /\ h \in Seq(DOMAIN u.list) /\ Len(h) = Len(u.heap) + 1
      /\ \A i \in DOMAIN u.heap : h[i] = u.heap[i]
      /\ h[Len(u.heap) + 1] = l /\ DOMAIN h = 1..(Len(u.heap) + 1)
  BY <1>3, <1>4
<1>L. L = [u.list EXCEPT ![l].timeout = s.time + d]
  OBVIOUS
<1> HIDE DEF h, L
<1>7. L \in Seq(ListsOf(u)) /\ SameItems(u.list, L) /\ SameOpen(u.list, L, NoList)
  BY <1>3, <1>4, <1>t, <1>L, TimeoutChange
<1>8. ListsOf(r) = ListsOf(u) /\ DOMAIN L = DOMAIN u.list
  BY <1>5, <1>7 DEF ListsOf, SameItems
<1>9. StateOK(r, c, n)
  BY <1>1, <1>5, <1>6, <1>7, <1>8 DEF StateOK, SameRest
<1>10. \A i \in DOMAIN u.heap : u.heap[i] # l /\ u.list[u.heap[i]].open
  BY <1>1 DEF InHeap, HeapOK
<1>11. \A i, j \in DOMAIN u.heap : i # j => u.heap[i] # u.heap[j]
  BY <1>1 DEF HeapOK
<1>12. \A i \in DOMAIN h : i \in DOMAIN u.heap \/ i = Len(u.heap) + 1
  BY <1>3, <1>6
<1>13. \A i \in DOMAIN h : L[h[i]].open
  <2>1. \A i \in DOMAIN u.heap : u.heap[i] \in DOMAIN u.list
    BY <1>3
  <2> QED
    BY <1>3, <1>4, <1>6, <1>7, <1>10, <1>12, <2>1 DEF SameOpen
<1>14. \A i, j \in DOMAIN h : i # j => h[i] # h[j]
  BY <1>6, <1>10, <1>11, <1>12
<1>15. HeapOK(r)
  BY <1>5, <1>13, <1>14 DEF HeapOK
<1>16. SameLists(u, r)
  BY <1>5, <1>7 DEF SameLists
<1>17. InHeap(r, l) /\ \A x : InHeap(u, x) => InHeap(r, x)
  <2>1. Len(u.heap) + 1 \in DOMAIN h /\ DOMAIN u.heap \subseteq DOMAIN h
    BY <1>3, <1>6
  <2> QED
    BY <1>5, <1>6, <2>1 DEF InHeap
<1>18. SameLists(s, r)
  BY <1>1, <1>16 DEF SameLists, SameItems, SameOpen
<1>19. SameRest(s, r)
  BY <1>1, <1>5 DEF SameRest
<1> QED
  BY <1>1, <1>5, <1>9, <1>15, <1>17, <1>18, <1>19

LEMMA CloseOK ==
  ASSUME NEW s, NEW c \in Nat, NEW n \in Nat, StateOK(s, c, n), HeapOK(s), NEW l \in DOMAIN s.list,
         NEW r, r = Close(s, l)
  PROVE  /\ StateOK(r, c, n) /\ HeapOK(r) /\ SameRest(s, r) /\ r.time = s.time
         /\ SameItems(s.list, r.list) /\ SameOpen(s.list, r.list, l)
         /\ r.lists = s.lists /\ r.timer = s.timer
         /\ \A x : x # l => (InHeap(r, x) <=> InHeap(s, x))
<1>1. CASE ~s.list[l].open
  BY <1>1 DEF Close, SameRest, SameItems, SameOpen
<1>2. CASE s.list[l].open
  <2> DEFINE u == uv_timer_stop(s, l)
             L == [u.list EXCEPT ![l].open = FALSE]
             C == u.closing \cup {"timer"}
  <2>1. /\ StateOK(u, c, n) /\ HeapOK(u) /\ SameLists(s, u) /\ SameRest(s, u)
        /\ u.time = s.time /\ u.closing = s.closing
        /\ ~InHeap(u, l) /\ \A x : x # l => (InHeap(u, x) <=> InHeap(s, x))
    BY StopOK
  <2>2. r = [u EXCEPT !.list[l].open = FALSE, !.closing = @ \cup {"timer"}]
    BY <1>2 DEF Close
  <2> HIDE DEF u
  <2>3. /\ u.heap \in Seq(DOMAIN u.list) /\ u.list \in Seq(ListsOf(u))
        /\ \A x \in DOMAIN s.list : x # NoList
        /\ \A i \in DOMAIN u.heap : u.heap[i] \in DOMAIN u.list
        /\ u.closing \subseteq {"timer", "socket"}
    BY <2>1, StateFields
  <2>4. l \in DOMAIN u.list
    BY <2>1 DEF SameLists, SameItems
  <2>5. /\ r.heap = u.heap /\ r.list = L /\ r.lists = u.lists /\ r.timer = u.timer
        /\ r.time = u.time /\ r.closing = C /\ SameRest(u, r)
        /\ r = [u EXCEPT !.closing = C, !.list = L]
    BY <2>1, <2>2 DEF StateOK, SameRest
  <2>7. C \subseteq {"timer", "socket"}
    BY <2>3
  <2>L. L = [u.list EXCEPT ![l].open = FALSE]
    OBVIOUS
  <2> HIDE DEF L, C
  <2>6. L \in Seq(ListsOf(u)) /\ SameItems(u.list, L) /\ SameOpen(u.list, L, l)
    BY <2>3, <2>4, <2>L, OpenChange
  <2>8. ListsOf(r) = ListsOf(u) /\ DOMAIN L = DOMAIN u.list
    BY <2>5, <2>6 DEF ListsOf, SameItems
  <2>9. StateOK(r, c, n)
    BY <2>1, <2>5, <2>6, <2>7, <2>8 DEF StateOK, SameRest
  <2>10. \A x : InHeap(r, x) <=> InHeap(u, x)
    BY <2>5 DEF InHeap
  <2>11. HeapOK(r)
    <3>1. \A i \in DOMAIN u.heap : u.heap[i] # l /\ u.heap[i] \in DOMAIN u.list
      BY <2>1, <2>3 DEF InHeap
    <3> QED
      BY <2>1, <2>5, <2>6, <3>1 DEF HeapOK, SameOpen
  <2>12. SameRest(s, r)
    BY <2>1, <2>5 DEF SameRest
  <2>13. SameItems(s.list, r.list) /\ SameOpen(s.list, r.list, l)
    BY <2>1, <2>3, <2>5, <2>6 DEF SameLists, SameItems, SameOpen
  <2>14. r.lists = s.lists /\ r.timer = s.timer /\ r.time = s.time
    BY <2>1, <2>5 DEF SameLists
  <2> QED
    BY <2>1, <2>9, <2>10, <2>11, <2>12, <2>13, <2>14
<1> QED
  BY <1>1, <1>2

----------------------------------------------------------------------------
(* timers.js. *)

LEMMA KeepsTrans ==
  ASSUME NEW s, NEW u, NEW r, Keeps(s, u), Keeps(u, r)
  PROVE  Keeps(s, r)
<1> SUFFICES ASSUME NEW x \in DOMAIN r.list, Matters(r, x)
             PROVE  \/ /\ x \in DOMAIN s.list /\ Matters(s, x) /\ r.list[x].open = s.list[x].open
                       /\ InHeap(s, x) => InHeap(r, x)
                    \/ r.list[x].open /\ InHeap(r, x)
  BY DEF Keeps
<1>1. CASE r.list[x].open /\ InHeap(r, x)
  BY <1>1
<1>2. CASE /\ x \in DOMAIN u.list /\ Matters(u, x) /\ r.list[x].open = u.list[x].open
           /\ InHeap(u, x) => InHeap(r, x)
  <2>1. \/ /\ x \in DOMAIN s.list /\ Matters(s, x) /\ u.list[x].open = s.list[x].open
           /\ InHeap(s, x) => InHeap(u, x)
        \/ u.list[x].open /\ InHeap(u, x)
    BY <1>2 DEF Keeps
  <2> QED
    BY <1>2, <2>1
<1> QED
  BY <1>1, <1>2 DEF Keeps

LEMMA KeptTrans ==
  ASSUME NEW s, NEW u, NEW r, NEW c, NEW n, NEW b, NEW m, Kept(s, u, b, m), Kept(u, r, c, n)
  PROVE  Kept(s, r, c, n)
<1>1. Keeps(s, r)
  BY KeepsTrans DEF Kept
<1>2. SameRest(s, r)
  BY DEF Kept, SameRest
<1>3. DOMAIN s.list \subseteq DOMAIN r.list /\ DOMAIN r.timer = DOMAIN s.timer
  BY DEF Kept
<1> QED
  BY <1>1, <1>2, <1>3 DEF Kept

LEMMA KeepsWired ==
  ASSUME NEW s, NEW r, NEW st, Keeps(s, r), SameRest(s, r), WiredOK(s, st)
  PROVE  WiredOK(r, st)
<1> SUFFICES ASSUME NEW x \in DOMAIN r.list, Matters(r, x)
             PROVE  r.list[x].open /\ Wired(r, st, x)
  BY DEF WiredOK
<1>1. CASE r.list[x].open /\ InHeap(r, x)
  BY <1>1 DEF Wired
<1>2. CASE /\ x \in DOMAIN s.list /\ Matters(s, x) /\ r.list[x].open = s.list[x].open
           /\ InHeap(s, x) => InHeap(r, x)
  <2>1. s.list[x].open /\ Wired(s, st, x)
    BY <1>2 DEF WiredOK
  <2> QED
    BY <1>2, <2>1 DEF Wired, SameRest
<1> QED
  BY <1>1, <1>2 DEF Keeps

LEMMA SameItemsOK ==
  ASSUME NEW s, NEW r, SameItems(s.list, r.list), r.timer = s.timer, ItemsOK(s)
  PROVE  ItemsOK(r)
BY DEF SameItems, ItemsOK

(* The same lists are as sound as before. *)
LEMMA SameListsSound ==
  ASSUME NEW s, NEW r, NEW c \in Nat, NEW n \in Nat, StateOK(s, c, n), RegOK(s), ItemsOK(s),
         SameLists(s, r)
  PROVE  /\ RegOK(r) /\ ItemsOK(r) /\ \A x \in DOMAIN r.list : Matters(r, x) <=> Matters(s, x)
         /\ \A x \in DOMAIN r.list : x \in DOMAIN s.list /\ r.list[x].open = s.list[x].open
<1>1. s.lists \in [Delays -> {NoList} \cup DOMAIN s.list] /\ \A x \in DOMAIN s.list : x # NoList
  BY StateFields
<1>2. /\ DOMAIN r.list = DOMAIN s.list /\ r.lists = s.lists /\ r.timer = s.timer
      /\ \A l \in DOMAIN s.list : /\ r.list[l].msecs = s.list[l].msecs
                                  /\ r.list[l].items = s.list[l].items
                                  /\ r.list[l].open = s.list[l].open
  BY <1>1 DEF SameLists, SameItems, SameOpen
<1>3. RegOK(r)
  BY <1>1, <1>2 DEF RegOK
<1>4. ItemsOK(r)
  BY <1>2 DEF ItemsOK
<1>5. \A x \in DOMAIN r.list : Matters(r, x) <=> Matters(s, x)
  BY <1>2 DEF Matters
<1> QED
  BY <1>2, <1>3, <1>4, <1>5

LEMMA StartKept ==
  ASSUME NEW s, NEW c \in Nat, NEW n \in Nat, Sound(s, c, n), NEW l \in DOMAIN s.list,
         s.list[l].open, NEW d \in Nat, NEW r, r = uv_timer_start(s, l, d)
  PROVE  Kept(s, r, c, n) /\ InHeap(r, l)
<1>1. /\ StateOK(r, c, n) /\ HeapOK(r) /\ SameLists(s, r) /\ SameRest(s, r)
      /\ InHeap(r, l) /\ \A x : InHeap(s, x) => InHeap(r, x)
  BY StartOK DEF Sound
<1>2. /\ RegOK(r) /\ ItemsOK(r) /\ \A x \in DOMAIN r.list : Matters(r, x) <=> Matters(s, x)
      /\ \A x \in DOMAIN r.list : x \in DOMAIN s.list /\ r.list[x].open = s.list[x].open
  BY <1>1, SameListsSound DEF Sound
<1>3. Keeps(s, r)
  BY <1>1, <1>2 DEF Keeps
<1>4. DOMAIN r.list = DOMAIN s.list /\ DOMAIN r.timer = DOMAIN s.timer
  BY <1>1 DEF SameLists, SameItems
<1> QED
  BY <1>1, <1>2, <1>3, <1>4 DEF Kept, Sound

(* An empty list is closed and no longer found under its delay, nor is any *)
(* other.                                                                  *)
LEMMA RetireKept ==
  ASSUME NEW s, NEW c \in Nat, NEW n \in Nat, Sound(s, c, n), NEW l \in DOMAIN s.list,
         s.list[l].items = <<>>, NEW r, r = [Close(s, l) EXCEPT !.lists[s.list[l].msecs] = NoList]
  PROVE  Kept(s, r, c, n) /\ ~Matters(r, l) /\ r.timer = s.timer
<1> DEFINE u == Close(s, l)
           d == s.list[l].msecs
           M == [u.lists EXCEPT ![d] = NoList]
<1>1. /\ StateOK(u, c, n) /\ HeapOK(u) /\ SameRest(s, u)
      /\ SameItems(s.list, u.list) /\ SameOpen(s.list, u.list, l)
      /\ u.lists = s.lists /\ u.timer = s.timer
      /\ \A x : x # l => (InHeap(u, x) <=> InHeap(s, x))
  BY CloseOK DEF Sound
<1>2. r = [u EXCEPT !.lists = M]
  OBVIOUS
<1>3. d \in Delays /\ \A x \in DOMAIN s.list : x # NoList
  <2>1. s.list[l] \in ListsOf(s) /\ \A x \in DOMAIN s.list : x # NoList
    BY StateFields DEF Sound
  <2> QED
    BY <2>1 DEF ListsOf
<1>4. M = [u.lists EXCEPT ![d] = NoList]
  OBVIOUS
<1> HIDE DEF u, d, M
<1>5. u.lists \in [Delays -> {NoList} \cup DOMAIN u.list]
  BY <1>1, StateFields
<1>6. /\ M \in [Delays -> {NoList} \cup DOMAIN u.list] /\ M[d] = NoList
      /\ \A e \in Delays : e # d => M[e] = u.lists[e]
  BY <1>3, <1>4, <1>5
<1>7. /\ r.heap = u.heap /\ r.list = u.list /\ r.lists = M /\ r.timer = u.timer
      /\ r.time = u.time /\ r.closing = u.closing /\ SameRest(u, r)
  BY <1>1, <1>2 DEF StateOK, SameRest
<1>8. StateOK(r, c, n)
  <2>1. ListsOf(r) = ListsOf(u)
    BY <1>7 DEF ListsOf
  <2> QED
    BY <1>1, <1>2, <1>6, <1>7, <2>1 DEF StateOK, SameRest
<1>9. HeapOK(r)
  BY <1>1, <1>7 DEF HeapOK
<1>10. \A e \in Delays : M[e] # NoList => M[e] # l
  <2> SUFFICES ASSUME NEW e \in Delays, M[e] = l, l # NoList PROVE FALSE
    OBVIOUS
  <2>1. e # d /\ s.lists[e] = l
    BY <1>1, <1>6
  <2>2. s.list[l].msecs = e
    BY <2>1 DEF Sound, RegOK
  <2> QED
    BY <2>1, <2>2 DEF d
<1>11. RegOK(r)
  <2> SUFFICES ASSUME NEW e \in Delays, M[e] # NoList
               PROVE  r.list[M[e]].open /\ r.list[M[e]].msecs = e
    BY <1>7 DEF RegOK
  <2>1. e # d /\ s.lists[e] = M[e] /\ M[e] # l /\ M[e] \in DOMAIN u.list
    BY <1>1, <1>6, <1>10
  <2>2. s.list[M[e]].open /\ s.list[M[e]].msecs = e
    BY <2>1 DEF Sound, RegOK
  <2> QED
    BY <1>1, <1>7, <2>1, <2>2 DEF SameItems, SameOpen
<1>12. ItemsOK(r)
  <2>1. SameItems(s.list, r.list) /\ r.timer = s.timer /\ ItemsOK(s)
    BY <1>1, <1>7 DEF Sound
  <2> QED
    BY <2>1, SameItemsOK
<1>13. ~Matters(r, l)
  <2>1. r.list[l].items = <<>>
    BY <1>1, <1>7 DEF SameItems
  <2>2. \A e \in Delays : M[e] # l
    BY <1>3, <1>10
  <2> QED
    BY <1>7, <2>1, <2>2 DEF Matters
<1>14. Keeps(s, r)
  <2> SUFFICES ASSUME NEW x \in DOMAIN r.list, Matters(r, x), x # l
               PROVE  /\ x \in DOMAIN s.list /\ Matters(s, x) /\ r.list[x].open = s.list[x].open
                      /\ InHeap(s, x) => InHeap(r, x)
    BY <1>13 DEF Keeps
  <2>1. x \in DOMAIN s.list /\ r.list[x].items = s.list[x].items /\ r.list[x].open = s.list[x].open
    BY <1>1, <1>7 DEF SameItems, SameOpen
  <2>2. \A e \in Delays : M[e] = x => s.lists[e] = x
    BY <1>1, <1>3, <1>6, <2>1
  <2>3. Matters(s, x)
    BY <1>7, <2>1, <2>2 DEF Matters
  <2> QED
    BY <1>1, <1>7, <2>1, <2>3 DEF InHeap
<1>15. SameRest(s, r)
  BY <1>1, <1>7 DEF SameRest
<1> QED
  BY <1>1, <1>7, <1>8, <1>9, <1>11, <1>12, <1>13, <1>14, <1>15 DEF Kept, Sound, SameItems

(* Timer t is in no list. *)
Absent(s, t) == \A l \in DOMAIN s.list : \A i \in DOMAIN s.list[l].items : s.list[l].items[i] # t

LEMMA UnlinkKept ==
  ASSUME NEW s, NEW c \in Nat, NEW n \in Nat, Sound(s, c, n), NEW t, NEW r, r = Unlink(s, t)
  PROVE  /\ Kept(s, r, c, n) /\ Absent(r, t) /\ r.timer = s.timer /\ r.lists = s.lists
         /\ DOMAIN r.list = DOMAIN s.list
<1> DEFINE L == [l \in DOMAIN s.list |-> [s.list[l] EXCEPT !.items = RemoveFirst(@, t)]]
<1>1. /\ s.list \in Seq(ListsOf(s)) /\ DOMAIN s.list = 1..Len(s.list) /\ Len(s.list) \in Nat
      /\ s.lists \in [Delays -> {NoList} \cup DOMAIN s.list]
      /\ \A l \in DOMAIN s.list : s.list[l] \in ListsOf(s) /\ l # NoList
      /\ \A i \in DOMAIN s.heap : s.heap[i] \in DOMAIN s.list
  BY StateFields DEF Sound
<1>2. StateOK(s, c, n) /\ HeapOK(s) /\ RegOK(s) /\ ItemsOK(s)
  BY DEF Sound
<1>3. r = [s EXCEPT !.list = L]
  BY DEF Unlink
<1>4. /\ r.heap = s.heap /\ r.list = L /\ r.lists = s.lists /\ r.timer = s.timer
      /\ r.time = s.time /\ r.closing = s.closing /\ SameRest(s, r)
  BY <1>2, <1>3 DEF StateOK, SameRest
<1>5. DOMAIN L = DOMAIN s.list
  OBVIOUS
<1>6. \A l \in DOMAIN s.list :
        /\ L[l] \in ListsOf(s) /\ L[l].msecs = s.list[l].msecs /\ L[l].open = s.list[l].open
        /\ L[l].items \in Seq(DOMAIN s.timer) /\ Thinned(s.list[l].items, t, L[l].items)
  <2> TAKE l \in DOMAIN s.list
  <2>1. s.list[l] \in ListsOf(s)
    BY <1>1
  <2>2. s.list[l].items \in Seq(DOMAIN s.timer)
    BY <2>1 DEF ListsOf
  <2> DEFINE q == RemoveFirst(s.list[l].items, t)
  <2>a. q = RemoveFirst(s.list[l].items, t)
    OBVIOUS
  <2>3. L[l] = [s.list[l] EXCEPT !.items = q]
    OBVIOUS
  <2> HIDE DEF q, L
  <2>4. q \in Seq(DOMAIN s.timer) /\ Thinned(s.list[l].items, t, q)
    BY <2>2, <2>a, RemoveProps
  <2>5. L[l] \in ListsOf(s) /\ L[l].msecs = s.list[l].msecs /\ L[l].open = s.list[l].open /\ L[l].items = q
    BY <2>1, <2>3, <2>4 DEF ListsOf
  <2> QED
    BY <2>4, <2>5
<1> HIDE DEF L
<1>7. L \in Seq(ListsOf(s))
  <2>1. L \in [1..Len(s.list) -> ListsOf(s)]
    <3>1. L = [l \in DOMAIN s.list |-> L[l]]
      BY DEF L
    <3> QED
      BY <1>1, <1>5, <1>6, <3>1
  <2> QED
    BY <1>1, <2>1, SeqDef
<1>8. StateOK(r, c, n)
  <2>1. ListsOf(r) = ListsOf(s)
    BY <1>4 DEF ListsOf
  <2> QED
    BY <1>2, <1>3, <1>4, <1>5, <1>7, <2>1 DEF StateOK, SameRest
<1>9. HeapOK(r)
  <2>1. \A i \in DOMAIN s.heap : L[s.heap[i]].open = s.list[s.heap[i]].open
    BY <1>1, <1>6
  <2> QED
    BY <1>2, <1>4, <2>1 DEF HeapOK
<1>10. RegOK(r)
  <2> SUFFICES ASSUME NEW d \in Delays, s.lists[d] # NoList
               PROVE  L[s.lists[d]].open /\ L[s.lists[d]].msecs = d
    BY <1>4 DEF RegOK
  <2>1. s.lists[d] \in DOMAIN s.list /\ s.list[s.lists[d]].open /\ s.list[s.lists[d]].msecs = d
    BY <1>1, <1>2 DEF RegOK
  <2> QED
    BY <1>6, <2>1
<1>11. \A l \in DOMAIN s.list : InOrder(s.timer, s.list[l].msecs, s.list[l].items)
  BY <1>2 DEF ItemsOK
<1>12. ItemsOK(r) /\ Absent(r, t)
  <2>a. \A l \in DOMAIN s.list : L[l].msecs = s.list[l].msecs
    BY <1>6
  <2> SUFFICES ASSUME NEW l \in DOMAIN s.list
               PROVE  /\ InOrder(s.timer, s.list[l].msecs, L[l].items)
                      /\ \A i \in DOMAIN L[l].items : L[l].items[i] # t
    BY <1>4, <1>5, <2>a DEF ItemsOK, Absent
  <2> DEFINE p == s.list[l].items
             q == L[l].items
  <2>1. InOrder(s.timer, s.list[l].msecs, p)
    BY <1>11
  <2>2. Thinned(p, t, q)
    BY <1>6
  <2> HIDE DEF p, q
  <2>3. /\ \A i \in DOMAIN q : \E j \in DOMAIN p : q[i] = p[j]
        /\ \A i, j \in DOMAIN q : i < j => \E k, m \in DOMAIN p : k < m /\ q[i] = p[k] /\ q[j] = p[m]
        /\ (\A i, j \in DOMAIN p : i < j => p[i] # p[j]) => \A i \in DOMAIN q : q[i] # t
    BY <2>2 DEF Thinned
  <2>4. InOrder(s.timer, s.list[l].msecs, q)
    BY <2>1, <2>3 DEF InOrder
  <2>5. \A i \in DOMAIN q : q[i] # t
    BY <2>1, <2>3 DEF InOrder
  <2> QED
    BY <2>4, <2>5 DEF q
<1>13. Keeps(s, r)
  <2> SUFFICES ASSUME NEW x \in DOMAIN s.list, Matters(r, x)
               PROVE  Matters(s, x) /\ L[x].open = s.list[x].open
    BY <1>4, <1>5 DEF Keeps, InHeap
  <2>1. L[x].open = s.list[x].open /\ Thinned(s.list[x].items, t, L[x].items)
        /\ L[x].items \in Seq(DOMAIN s.timer)
    BY <1>6
  <2>2. CASE L[x].items # <<>>
    <3>1. 1 \in DOMAIN L[x].items
      BY <2>1, <2>2
    <3>2. s.list[x].items # <<>>
      BY <2>1, <3>1 DEF Thinned
    <3> QED
      BY <2>1, <3>2 DEF Matters
  <2>3. CASE L[x].items = <<>>
    BY <1>4, <2>1, <2>3 DEF Matters
  <2> QED
    BY <2>2, <2>3
<1> QED
  BY <1>4, <1>5, <1>8, <1>9, <1>10, <1>12, <1>13 DEF Kept, Sound

LEMMA AppendSeq ==
  ASSUME NEW S, NEW p \in Seq(S), NEW x \in S, NEW q, q = Append(p, x)
  PROVE  /\ q \in Seq(S) /\ DOMAIN q = 1..(Len(p) + 1) /\ Len(p) \in Nat
         /\ q[Len(p) + 1] = x /\ \A i \in DOMAIN p : q[i] = p[i]
         /\ DOMAIN p = 1..Len(p) /\ Len(q) = Len(p) + 1
OBVIOUS

LEMMA SingleSeq ==
  ASSUME NEW S, NEW x \in S
  PROVE  <<x>> \in Seq(S) /\ DOMAIN <<x>> = {1} /\ <<x>>[1] = x
OBVIOUS

(* A timer is taken out of its list and started anew. *)
Restarted(s, t, u, n) ==
  /\ Kept(s, u, clock, n) /\ Absent(u, t) /\ u.lists = s.lists
  /\ DOMAIN u.list = DOMAIN s.list /\ u.timer[t].start = clock
  /\ u.timer[t].delay = s.timer[t].delay /\ u.timer[t].fired = s.timer[t].fired
  /\ u.timer[t].after = s.timer[t].after /\ u.time = clock

LEMMA RestartKept ==
  ASSUME clock \in Nat, NEW s, NEW n \in Nat, Sound(s, clock, n), NEW t \in DOMAIN s.timer,
         NEW u, u = [Unlink(s, t) EXCEPT !.time = clock, !.timer[t].start = clock]
  PROVE  Restarted(s, t, u, n)
<1> DEFINE v == Unlink(s, t)
           e == [v.timer[t] EXCEPT !.start = clock]
           T == [v.timer EXCEPT ![t] = e]
<1>1. /\ Kept(s, v, clock, n) /\ Absent(v, t) /\ v.timer = s.timer /\ v.lists = s.lists
      /\ DOMAIN v.list = DOMAIN s.list
  BY UnlinkKept
<1>2. u = [v EXCEPT !.time = clock, !.timer = T]
  OBVIOUS
<1>e. e = [v.timer[t] EXCEPT !.start = clock] /\ T = [v.timer EXCEPT ![t] = e]
  OBVIOUS
<1> HIDE DEF v, e, T
<1>3. StateOK(v, clock, n) /\ HeapOK(v) /\ RegOK(v) /\ ItemsOK(v)
  BY <1>1 DEF Kept, Sound
<1>4. /\ v.timer \in Seq(TimersAt(clock)) /\ DOMAIN v.timer = 1..Len(v.timer)
      /\ v.list \in Seq(ListsOf(v)) /\ \A l \in DOMAIN v.list : v.list[l] \in ListsOf(v)
  BY <1>3, StateFields
<1>5. v.timer[t] \in TimersAt(clock) /\ t \in 1..Len(v.timer) /\ t \in DOMAIN v.timer
  BY <1>1, <1>4
<1>6. /\ e \in TimersAt(clock) /\ e.start = clock /\ e.delay = v.timer[t].delay
      /\ e.fired = v.timer[t].fired /\ e.after = v.timer[t].after
  BY <1>5, <1>e DEF TimersAt
<1>7. T \in Seq(TimersAt(clock))
  BY <1>4, <1>5, <1>6, <1>e, SeqChange, Zenon
<1>8. DOMAIN T = DOMAIN v.timer /\ T[t] = e /\ \A x \in DOMAIN v.timer : x # t => T[x] = v.timer[x]
  BY <1>5, <1>e
<1>9. /\ u.heap = v.heap /\ u.list = v.list /\ u.lists = v.lists /\ u.timer = T
      /\ u.time = clock /\ u.closing = v.closing /\ SameRest(v, u)
  BY <1>2, <1>3 DEF StateOK, SameRest
<1>10. StateOK(u, clock, n)
  <2>1. ListsOf(u) = ListsOf(v)
    BY <1>8, <1>9 DEF ListsOf
  <2>2. clock \in 0..clock
    OBVIOUS
  <2> QED
    BY <1>2, <1>3, <1>7, <1>8, <1>9, <2>1, <2>2 DEF StateOK, SameRest
<1>11. HeapOK(u) /\ RegOK(u)
  BY <1>3, <1>9 DEF HeapOK, RegOK
<1>12. Absent(u, t)
  BY <1>1, <1>9 DEF Absent
<1>13. ItemsOK(u)
  <2>1. \A l \in DOMAIN v.list : \A i \in DOMAIN v.list[l].items :
          T[v.list[l].items[i]] = v.timer[v.list[l].items[i]]
    <3> TAKE l \in DOMAIN v.list
    <3> TAKE i \in DOMAIN v.list[l].items
    <3>1. v.list[l] \in ListsOf(v)
      BY <1>4
    <3>2. v.list[l].items \in Seq(DOMAIN v.timer)
      BY <3>1 DEF ListsOf
    <3>3. v.list[l].items[i] \in DOMAIN v.timer
      BY <3>2
    <3>4. v.list[l].items[i] # t
      BY <1>1 DEF Absent
    <3> QED
      BY <1>8, <3>3, <3>4
  <2> SUFFICES ASSUME NEW l \in DOMAIN v.list
               PROVE  InOrder(T, v.list[l].msecs, v.list[l].items)
    BY <1>9 DEF ItemsOK
  <2> DEFINE p == v.list[l].items
  <2>2. \A i \in DOMAIN p : T[p[i]] = v.timer[p[i]]
    BY <2>1
  <2>3. InOrder(v.timer, v.list[l].msecs, p)
    BY <1>3 DEF ItemsOK
  <2> HIDE DEF p
  <2>4. InOrder(T, v.list[l].msecs, p)
    BY <2>2, <2>3 DEF InOrder
  <2> QED
    BY <2>4 DEF p
<1>14. Keeps(v, u)
  BY <1>9 DEF Keeps, Matters, InHeap
<1>15. Kept(v, u, clock, n)
  BY <1>8, <1>9, <1>10, <1>11, <1>13, <1>14 DEF Kept, Sound
<1>16. Kept(s, u, clock, n)
  BY <1>1, <1>15, KeptTrans
<1> QED
  BY <1>1, <1>6, <1>8, <1>9, <1>12, <1>16 DEF Restarted

(* A timer that was started just now is appended to a list of its delay. *)
LEMMA AppendKept ==
  ASSUME clock \in Nat, NEW u, NEW n \in Nat, Sound(u, clock, n), NEW t \in DOMAIN u.timer,
         Absent(u, t), NEW l \in DOMAIN u.list, u.timer[t].start = clock,
         u.timer[t].delay = u.list[l].msecs, \E d \in Delays : u.lists[d] = l,
         NEW r, r = [u EXCEPT !.list[l].items = Append(@, t)]
  PROVE  Kept(u, r, clock, n)
<1> DEFINE q == Append(u.list[l].items, t)
           e == [u.list[l] EXCEPT !.items = q]
           L == [u.list EXCEPT ![l] = e]
<1>1. r = [u EXCEPT !.list = L]
  OBVIOUS
<1>e. /\ e = [u.list[l] EXCEPT !.items = q] /\ L = [u.list EXCEPT ![l] = e]
      /\ q = Append(u.list[l].items, t)
  OBVIOUS
<1> HIDE DEF q, e, L
<1>2. StateOK(u, clock, n) /\ HeapOK(u) /\ RegOK(u) /\ ItemsOK(u)
  BY DEF Sound
<1>3. /\ u.list \in Seq(ListsOf(u)) /\ DOMAIN u.list = 1..Len(u.list)
      /\ u.list[l] \in ListsOf(u) /\ u.timer \in Seq(TimersAt(clock))
      /\ \A x \in DOMAIN u.timer : u.timer[x] \in TimersAt(clock)
      /\ u.lists \in [Delays -> {NoList} \cup DOMAIN u.list]
      /\ \A i \in DOMAIN u.heap : u.heap[i] \in DOMAIN u.list
  BY <1>2, StateFields
<1> DEFINE p == u.list[l].items
<1>4. p \in Seq(DOMAIN u.timer)
  BY <1>3 DEF ListsOf
<1>p. q = Append(p, t)
  BY <1>e
<1> HIDE DEF p
<1>5. /\ q \in Seq(DOMAIN u.timer) /\ DOMAIN q = 1..(Len(p) + 1) /\ Len(p) \in Nat
      /\ q[Len(p) + 1] = t /\ \A i \in DOMAIN p : q[i] = p[i]
      /\ DOMAIN p = 1..Len(p)
  BY <1>4, <1>p, AppendSeq
<1>6. \A i \in DOMAIN q : i \in DOMAIN p \/ i = Len(p) + 1
  BY <1>5
<1>7. /\ e \in ListsOf(u) /\ e.items = q /\ e.msecs = u.list[l].msecs /\ e.open = u.list[l].open
  BY <1>3, <1>5, <1>e DEF ListsOf
<1>8. L \in Seq(ListsOf(u))
  BY <1>3, <1>7, <1>e, SeqChange, Zenon
<1>9. DOMAIN L = DOMAIN u.list /\ L[l] = e /\ \A x \in DOMAIN u.list : x # l => L[x] = u.list[x]
  BY <1>e
<1>10. /\ r.heap = u.heap /\ r.list = L /\ r.lists = u.lists /\ r.timer = u.timer
       /\ r.time = u.time /\ r.closing = u.closing /\ SameRest(u, r)
  BY <1>1, <1>2 DEF StateOK, SameRest
<1>11. StateOK(r, clock, n)
  <2>1. ListsOf(r) = ListsOf(u)
    BY <1>10 DEF ListsOf
  <2> QED
    BY <1>1, <1>2, <1>8, <1>9, <1>10, <2>1 DEF StateOK, SameRest
<1>12. \A x \in DOMAIN u.list : L[x].open = u.list[x].open /\ L[x].msecs = u.list[x].msecs
  BY <1>7, <1>9
<1>13. HeapOK(r)
  BY <1>2, <1>3, <1>10, <1>12 DEF HeapOK
<1>14. RegOK(r)
  BY <1>2, <1>3, <1>10, <1>12 DEF RegOK
<1>15. InOrder(u.timer, u.list[l].msecs, p)
  BY <1>2 DEF ItemsOK, p
<1>16. \A i \in DOMAIN p : p[i] # t /\ p[i] \in DOMAIN u.timer
  BY <1>4 DEF Absent, p
<1>17. u.timer[t].fired <= u.timer[t].start /\ \A i \in DOMAIN p : u.timer[p[i]].start <= clock
  <2>1. \A x \in DOMAIN u.timer : u.timer[x].fired \in -1..clock /\ u.timer[x].start \in 0..clock
    BY <1>3 DEF TimersAt
  <2> QED
    BY <1>16, <2>1
<1>18. \A i \in DOMAIN q : /\ u.timer[q[i]].delay = u.list[l].msecs
                           /\ u.timer[q[i]].fired <= u.timer[q[i]].start
  BY <1>5, <1>6, <1>15, <1>17 DEF InOrder
<1>19. \A i, j \in DOMAIN q : i < j => /\ q[i] # q[j]
                                       /\ u.timer[q[i]].start <= u.timer[q[j]].start
  <2> TAKE i, j \in DOMAIN q
  <2> HAVE i < j
  <2>1. i \in DOMAIN p
    BY <1>5
  <2>2. CASE j \in DOMAIN p
    BY <1>5, <1>15, <2>1, <2>2 DEF InOrder
  <2>3. CASE j = Len(p) + 1
    BY <1>5, <1>16, <1>17, <2>1, <2>3
  <2> QED
    BY <1>6, <2>2, <2>3
<1>20. ItemsOK(r)
  <2>a. \A x \in DOMAIN u.list : L[x].msecs = u.list[x].msecs
    BY <1>12
  <2> SUFFICES ASSUME NEW x \in DOMAIN u.list
               PROVE  InOrder(u.timer, u.list[x].msecs, L[x].items)
    BY <1>9, <1>10, <2>a DEF ItemsOK
  <2>1. CASE x = l
    <3>1. InOrder(u.timer, u.list[l].msecs, q)
      BY <1>18, <1>19 DEF InOrder
    <3> QED
      BY <1>7, <1>9, <2>1, <3>1
  <2>2. CASE x # l
    BY <1>2, <1>9, <2>2 DEF ItemsOK
  <2> QED
    BY <2>1, <2>2
<1>21. Keeps(u, r)
  <2> SUFFICES ASSUME NEW x \in DOMAIN u.list, Matters(r, x) PROVE Matters(u, x)
    BY <1>9, <1>10, <1>12 DEF Keeps, InHeap
  <2>1. CASE x = l
    BY <2>1 DEF Matters
  <2>2. CASE x # l
    BY <1>9, <1>10, <2>2 DEF Matters
  <2> QED
    BY <2>1, <2>2
<1> QED
  BY <1>9, <1>10, <1>11, <1>13, <1>14, <1>20, <1>21 DEF Kept, Sound

(* A list is made for a timer that was started just now. *)
LEMMA NewListKept ==
  ASSUME clock \in Nat, NEW u, NEW n \in Nat, Sound(u, clock, n), NEW t \in DOMAIN u.timer,
         Absent(u, t), u.timer[t].start = clock, NEW d \in Delays, u.timer[t].delay = d,
         u.lists[d] = NoList, NEW r,
         r = uv_timer_start(
               [u EXCEPT !.list = Append(@, [msecs |-> d, items |-> <<t>>, timeout |-> 0, open |-> TRUE]),
                         !.lists[d] = Len(u.list) + 1], Len(u.list) + 1, d)
  PROVE  Kept(u, r, clock, n)
<1> DEFINE m == Len(u.list) + 1
           e == [msecs |-> d, items |-> <<t>>, timeout |-> 0, open |-> TRUE]
           L == Append(u.list, e)
           M == [u.lists EXCEPT ![d] = m]
           v == [u EXCEPT !.list = L, !.lists = M]
<1>1. r = uv_timer_start(v, m, d)
  OBVIOUS
<1>e. /\ m = Len(u.list) + 1 /\ L = Append(u.list, e) /\ M = [u.lists EXCEPT ![d] = m]
      /\ v = [u EXCEPT !.list = L, !.lists = M]
      /\ e = [msecs |-> d, items |-> <<t>>, timeout |-> 0, open |-> TRUE]
  OBVIOUS
<1> HIDE DEF m, e, L, M, v
<1>2. StateOK(u, clock, n) /\ HeapOK(u) /\ RegOK(u) /\ ItemsOK(u)
  BY DEF Sound
<1>3. /\ u.list \in Seq(ListsOf(u)) /\ DOMAIN u.list = 1..Len(u.list) /\ Len(u.list) \in Nat
      /\ u.timer \in Seq(TimersAt(clock)) /\ u.timer[t] \in TimersAt(clock)
      /\ u.lists \in [Delays -> {NoList} \cup DOMAIN u.list]
      /\ u.heap \in Seq(DOMAIN u.list)
      /\ \A i \in DOMAIN u.heap : u.heap[i] \in DOMAIN u.list
  BY <1>2, StateFields
<1>4. /\ e \in ListsOf(u) /\ e.items = <<t>> /\ e.msecs = d /\ e.open
  <2>1. <<t>> \in Seq(DOMAIN u.timer)
    BY SingleSeq
  <2> QED
    BY <1>e, <2>1 DEF ListsOf
<1>5. /\ L \in Seq(ListsOf(u)) /\ DOMAIN L = 1..m /\ L[m] = e /\ m \in DOMAIN L
      /\ \A x \in DOMAIN u.list : x \in DOMAIN L /\ L[x] = u.list[x] /\ x # m
      /\ \A x \in DOMAIN L : x \in DOMAIN u.list \/ x = m
  BY <1>3, <1>4, <1>e
<1>6. /\ M \in [Delays -> {NoList} \cup DOMAIN L] /\ M[d] = m
      /\ \A f \in Delays : f # d => M[f] = u.lists[f]
  BY <1>3, <1>5, <1>e
<1>7. /\ v.heap = u.heap /\ v.list = L /\ v.lists = M /\ v.timer = u.timer
      /\ v.time = u.time /\ v.closing = u.closing /\ SameRest(u, v)
  BY <1>2, <1>e DEF StateOK, SameRest
<1>8. StateOK(v, clock, n)
  <2>1. ListsOf(v) = ListsOf(u)
    BY <1>7 DEF ListsOf
  <2>2. u.heap \in Seq(DOMAIN L)
    BY <1>3, <1>5, SeqMonotonic
  <2> QED
    BY <1>2, <1>5, <1>6, <1>7, <1>e, <2>1, <2>2 DEF StateOK, SameRest
<1>9. HeapOK(v)
  <2>1. \A i \in DOMAIN u.heap : L[u.heap[i]] = u.list[u.heap[i]]
    BY <1>3, <1>5
  <2> QED
    BY <1>2, <1>7, <2>1 DEF HeapOK
<1>10. RegOK(v)
  <2> SUFFICES ASSUME NEW f \in Delays, M[f] # NoList PROVE L[M[f]].open /\ L[M[f]].msecs = f
    BY <1>7 DEF RegOK
  <2>1. CASE f = d
    BY <1>4, <1>5, <1>6, <2>1
  <2>2. CASE f # d
    <3>1. M[f] = u.lists[f] /\ u.lists[f] \in DOMAIN u.list
      BY <1>3, <1>6, <2>2
    <3>2. u.list[u.lists[f]].open /\ u.list[u.lists[f]].msecs = f
      BY <1>2, <3>1 DEF RegOK
    <3> QED
      BY <1>5, <3>1, <3>2
  <2> QED
    BY <2>1, <2>2
<1>11. ItemsOK(v)
  <2> SUFFICES ASSUME NEW x \in DOMAIN L PROVE InOrder(u.timer, L[x].msecs, L[x].items)
    BY <1>7 DEF ItemsOK
  <2>1. CASE x = m
    <3>1. DOMAIN <<t>> = {1} /\ <<t>>[1] = t
      OBVIOUS
    <3>2. u.timer[t].fired <= u.timer[t].start
      BY <1>3 DEF TimersAt
    <3>3. InOrder(u.timer, d, <<t>>)
      BY <3>1, <3>2 DEF InOrder
    <3> QED
      BY <1>4, <1>5, <2>1, <3>3
  <2>2. CASE x \in DOMAIN u.list
    BY <1>2, <1>5, <2>2 DEF ItemsOK
  <2> QED
    BY <1>5, <2>1, <2>2
<1>12. Sound(v, clock, n) /\ m \in DOMAIN v.list /\ v.list[m].open /\ d \in Nat
  BY <1>4, <1>5, <1>7, <1>8, <1>9, <1>10, <1>11, Bounds DEF Sound
<1>13. Kept(v, r, clock, n) /\ InHeap(r, m)
  BY <1>1, <1>12, StartKept
<1>14. /\ DOMAIN r.list = DOMAIN L /\ r.lists = M /\ r.timer = u.timer
       /\ \A x \in DOMAIN L : r.list[x].items = L[x].items /\ r.list[x].open = L[x].open
       /\ \A x : InHeap(u, x) => InHeap(r, x)
  <2>1. SameLists(v, r) /\ \A x : InHeap(v, x) => InHeap(r, x)
    BY <1>1, <1>12, StartOK DEF Sound
  <2>2. \A x \in DOMAIN L : x # NoList
    BY <1>5 DEF NoList
  <2>3. \A x : InHeap(u, x) => InHeap(v, x)
    BY <1>7 DEF InHeap
  <2> QED
    BY <1>7, <2>1, <2>2, <2>3 DEF SameLists, SameItems, SameOpen
<1>15. Keeps(u, r)
  <2> SUFFICES ASSUME NEW x \in DOMAIN L, Matters(r, x)
               PROVE  \/ /\ x \in DOMAIN u.list /\ Matters(u, x) /\ r.list[x].open = u.list[x].open
                         /\ InHeap(u, x) => InHeap(r, x)
                      \/ r.list[x].open /\ InHeap(r, x)
    BY <1>14 DEF Keeps
  <2>1. CASE x = m
    BY <1>4, <1>5, <1>13, <1>14, <2>1
  <2>2. CASE x \in DOMAIN u.list
    <3>1. \A f \in Delays : M[f] = x => u.lists[f] = x
      BY <1>5, <1>6, <2>2
    <3> QED
      BY <1>5, <1>14, <2>2, <3>1 DEF Matters
  <2> QED
    BY <1>5, <2>1, <2>2
<1>16. SameRest(u, r)
  BY <1>7, <1>13 DEF Kept, SameRest
<1> QED
  BY <1>5, <1>13, <1>14, <1>15, <1>16 DEF Kept

LEMMA ActiveKept ==
  ASSUME clock \in Nat, NEW s, NEW n \in Nat, Sound(s, clock, n), NEW t \in DOMAIN s.timer,
         s.timer[t].after = s.timer[t].delay, NEW r, r = active(s, t)
  PROVE  Kept(s, r, clock, n)
<1> DEFINE d == s.timer[t].after
           u == [Unlink(s, t) EXCEPT !.time = clock, !.timer[t].start = clock]
<1>u. u = [Unlink(s, t) EXCEPT !.time = clock, !.timer[t].start = clock]
  OBVIOUS
<1> HIDE DEF u
<1>1. /\ Kept(s, u, clock, n) /\ Absent(u, t) /\ u.lists = s.lists
      /\ DOMAIN u.list = DOMAIN s.list /\ u.timer[t].start = clock
      /\ u.timer[t].delay = s.timer[t].delay
  <2>1. Restarted(s, t, u, n)
    BY <1>u, RestartKept
  <2> QED
    BY <2>1 DEF Restarted
<1>2. d \in Delays
  <2>1. s.timer[t] \in TimersAt(clock)
    BY StateFields DEF Sound
  <2> QED
    BY <2>1 DEF TimersAt
<1>3. /\ Len(s.list) \in Nat /\ Len(u.list) \in Nat /\ DOMAIN s.list = 1..Len(s.list)
      /\ DOMAIN u.list = 1..Len(u.list) /\ u.lists \in [Delays -> {NoList} \cup DOMAIN u.list]
  BY <1>1, StateFields DEF Kept, Sound
<1>4. Len(s.list) = Len(u.list) /\ t \in DOMAIN u.timer
  BY <1>1, <1>3 DEF Kept
<1>5. CASE u.lists[d] # NoList
  <2> DEFINE l == u.lists[d]
  <2>1. r = [u EXCEPT !.list[l].items = Append(@, t)]
    BY <1>5 DEF active, u
  <2>2. l \in DOMAIN u.list /\ u.list[l].msecs = d /\ \E f \in Delays : u.lists[f] = l
    BY <1>1, <1>2, <1>3, <1>5 DEF Kept, Sound, RegOK
  <2>a. u.timer[t].delay = u.list[l].msecs
    BY <1>1, <2>2
  <2> HIDE DEF l
  <2>3. Kept(u, r, clock, n)
    <3>1. Sound(u, clock, n)
      BY <1>1 DEF Kept
    <3> QED
      BY <1>1, <1>4, <2>1, <2>2, <2>a, <3>1, AppendKept
  <2> QED
    BY <1>1, <2>3, KeptTrans
<1>6. CASE u.lists[d] = NoList
  <2>1. r = uv_timer_start(
               [u EXCEPT !.list = Append(@, [msecs |-> d, items |-> <<t>>, timeout |-> 0, open |-> TRUE]),
                         !.lists[d] = Len(u.list) + 1], Len(u.list) + 1, d)
    BY <1>4, <1>6 DEF active, u
  <2>2. Kept(u, r, clock, n)
    <3>1. Sound(u, clock, n)
      BY <1>1 DEF Kept
    <3>2. u.timer[t].delay = d
      BY <1>1
    <3> HIDE DEF d
    <3> QED
      BY <1>1, <1>2, <1>4, <1>6, <2>1, <3>1, <3>2, NewListKept
  <2> QED
    BY <1>1, <2>2, KeptTrans
<1> QED
  BY <1>5, <1>6

----------------------------------------------------------------------------
(* A timer is changed: when it is in a list, not what its place there      *)
(* depends on.                                                             *)
Changed(s, t, e, r, c, n) ==
  /\ Kept(s, r, c, n) /\ r.timer[t] = e /\ r.list = s.list /\ r.lists = s.lists
  /\ r.heap = s.heap /\ DOMAIN r.timer = DOMAIN s.timer
  /\ \A x \in DOMAIN s.timer : x # t => r.timer[x] = s.timer[x]

LEMMA TimerKept ==
  ASSUME NEW s, NEW c \in Nat, NEW n \in Nat, Sound(s, c, n), NEW t \in DOMAIN s.timer,
         NEW e \in TimersAt(c),
         \/ Absent(s, t)
         \/ /\ e.start = s.timer[t].start /\ e.delay = s.timer[t].delay
            /\ e.fired = s.timer[t].fired,
         NEW r, r = [s EXCEPT !.timer[t] = e]
  PROVE  Changed(s, t, e, r, c, n)
<1> DEFINE T == [s.timer EXCEPT ![t] = e]
<1>1. r = [s EXCEPT !.timer = T] /\ T = [s.timer EXCEPT ![t] = e]
  OBVIOUS
<1> HIDE DEF T
<1>2. StateOK(s, c, n) /\ HeapOK(s) /\ RegOK(s) /\ ItemsOK(s)
  BY DEF Sound
<1>3. /\ s.timer \in Seq(TimersAt(c)) /\ DOMAIN s.timer = 1..Len(s.timer)
      /\ \A l \in DOMAIN s.list : s.list[l] \in ListsOf(s)
  BY <1>2, StateFields
<1>4. T \in Seq(TimersAt(c))
  BY <1>1, <1>3, SeqChange, Zenon
<1>5. DOMAIN T = DOMAIN s.timer /\ T[t] = e /\ \A x \in DOMAIN s.timer : x # t => T[x] = s.timer[x]
  BY <1>1, <1>3
<1>6. /\ r.heap = s.heap /\ r.list = s.list /\ r.lists = s.lists /\ r.timer = T
      /\ r.time = s.time /\ r.closing = s.closing /\ SameRest(s, r)
  BY <1>1, <1>2 DEF StateOK, SameRest
<1>7. StateOK(r, c, n)
  <2>1. ListsOf(r) = ListsOf(s)
    BY <1>5, <1>6 DEF ListsOf
  <2> QED
    BY <1>1, <1>2, <1>4, <1>6, <2>1 DEF StateOK, SameRest
<1>8. HeapOK(r) /\ RegOK(r)
  BY <1>2, <1>6 DEF HeapOK, RegOK
<1>9. ItemsOK(r)
  <2> SUFFICES ASSUME NEW l \in DOMAIN s.list
               PROVE  InOrder(T, s.list[l].msecs, s.list[l].items)
    BY <1>6 DEF ItemsOK
  <2> DEFINE p == s.list[l].items
  <2>1. p \in Seq(DOMAIN s.timer)
    BY <1>3 DEF ListsOf
  <2>2. Absent(s, t) => \A i \in DOMAIN p : p[i] # t
    BY DEF Absent
  <2>3. InOrder(s.timer, s.list[l].msecs, p)
    BY <1>2 DEF ItemsOK
  <2>p. p = s.list[l].items
    OBVIOUS
  <2> HIDE DEF p
  <2>4. \A i \in DOMAIN p : /\ T[p[i]].start = s.timer[p[i]].start /\ T[p[i]].delay = s.timer[p[i]].delay
                            /\ T[p[i]].fired = s.timer[p[i]].fired
    <3> TAKE i \in DOMAIN p
    <3>1. p[i] \in DOMAIN s.timer
      BY <2>1
    <3>2. CASE p[i] = t
      BY <1>5, <2>2, <3>2
    <3>3. CASE p[i] # t
      BY <1>5, <3>1, <3>3
    <3> QED
      BY <3>2, <3>3
  <2>5. InOrder(T, s.list[l].msecs, p)
    BY <2>3, <2>4 DEF InOrder
  <2> QED
    BY <2>5, <2>p
<1>10. Keeps(s, r)
  BY <1>6 DEF Keeps, Matters, InHeap
<1>11. Kept(s, r, c, n)
  BY <1>5, <1>6, <1>7, <1>8, <1>9, <1>10 DEF Kept, Sound
<1> QED
  BY <1>5, <1>6, <1>11 DEF Changed

LEMMA KeptSelf ==
  ASSUME NEW s, NEW c, NEW n, Sound(s, c, n)
  PROVE  Kept(s, s, c, n)
BY DEF Kept, Keeps, SameRest

LEMMA UnenrollKept ==
  ASSUME NEW s, NEW c \in Nat, NEW n \in Nat, Sound(s, c, n), NEW t \in DOMAIN s.timer,
         NEW r, r = unenroll(s, t)
  PROVE  Kept(s, r, c, n)
<1> DEFINE v == Unlink(s, t)
           d == v.timer[t].after
           l == IF d \in Delays THEN v.lists[d] ELSE NoList
           w == IF l # NoList /\ v.list[l].items = <<>>
                THEN [Close(v, l) EXCEPT !.lists[d] = NoList] ELSE v
           e == [w.timer[t] EXCEPT !.after = -1]
<1>1. r = [w EXCEPT !.timer[t] = e]
  BY DEF unenroll
<1>v. Kept(s, v, c, n) /\ v.timer = s.timer /\ v.lists = s.lists
  BY UnlinkKept
<1>d. /\ d = v.timer[t].after /\ l = IF d \in Delays THEN v.lists[d] ELSE NoList
      /\ w = IF l # NoList /\ v.list[l].items = <<>>
             THEN [Close(v, l) EXCEPT !.lists[d] = NoList] ELSE v
      /\ e = [w.timer[t] EXCEPT !.after = -1]
  OBVIOUS
<1> HIDE DEF v, d, l, w, e
<1>2. Sound(v, c, n) /\ t \in DOMAIN v.timer
  BY <1>v DEF Kept
<1>3. Kept(v, w, c, n) /\ w.timer = v.timer
  <2>1. CASE l # NoList /\ v.list[l].items = <<>>
    <3>1. d \in Delays /\ l = v.lists[d]
      BY <1>d, <2>1
    <3>2. v.lists \in [Delays -> {NoList} \cup DOMAIN v.list]
      BY <1>2, StateFields DEF Sound
    <3>3. l \in DOMAIN v.list /\ v.list[l].msecs = d
      BY <1>2, <2>1, <3>1, <3>2 DEF Sound, RegOK
    <3>4. w = [Close(v, l) EXCEPT !.lists[v.list[l].msecs] = NoList]
      BY <1>d, <2>1, <3>3
    <3> QED
      BY <1>2, <2>1, <3>3, <3>4, RetireKept
  <2>2. CASE ~(l # NoList /\ v.list[l].items = <<>>)
    BY <1>2, <1>d, <2>2, KeptSelf
  <2> QED
    BY <2>1, <2>2
<1>4. Sound(w, c, n) /\ t \in DOMAIN w.timer
  BY <1>2, <1>3 DEF Kept
<1>5. w.timer[t] \in TimersAt(c)
  BY <1>4, StateFields DEF Sound
<1>6. /\ e \in TimersAt(c) /\ e.start = w.timer[t].start /\ e.delay = w.timer[t].delay
      /\ e.fired = w.timer[t].fired
  BY <1>5, <1>d DEF TimersAt
<1>7. Changed(w, t, e, r, c, n)
  BY <1>1, <1>4, <1>6, TimerKept
<1>8. Kept(v, r, c, n)
  BY <1>3, <1>7, KeptTrans DEF Changed
<1> QED
  BY <1>8, <1>v, KeptTrans

LEMMA ClearKept ==
  ASSUME NEW s, NEW c \in Nat, NEW n \in Nat, Sound(s, c, n), NEW t \in DOMAIN s.timer,
         NEW r, r = clearTimer(s, t)
  PROVE  Kept(s, r, c, n)
<1>1. CASE ~s.timer[t].on
  BY <1>1, KeptSelf DEF clearTimer
<1>2. CASE s.timer[t].on
  <2> DEFINE e == [s.timer[t] EXCEPT !.on = FALSE]
             u == [s EXCEPT !.timer[t] = e]
  <2>1. r = unenroll(u, t)
    BY <1>2 DEF clearTimer
  <2>2. e = [s.timer[t] EXCEPT !.on = FALSE] /\ u = [s EXCEPT !.timer[t] = e]
    OBVIOUS
  <2> HIDE DEF e, u
  <2>3. s.timer[t] \in TimersAt(c)
    BY StateFields DEF Sound
  <2>4. /\ e \in TimersAt(c) /\ e.start = s.timer[t].start /\ e.delay = s.timer[t].delay
        /\ e.fired = s.timer[t].fired
    BY <2>2, <2>3 DEF TimersAt
  <2>5. Changed(s, t, e, u, c, n)
    BY <2>2, <2>4, TimerKept
  <2>6. Kept(s, u, c, n) /\ Sound(u, c, n) /\ t \in DOMAIN u.timer
    BY <2>5 DEF Changed, Kept
  <2>7. Kept(u, r, c, n)
    BY <2>1, <2>6, UnenrollKept
  <2> QED
    BY <2>6, <2>7, KeptTrans
<1> QED
  BY <1>1, <1>2

(* The timer of libuv that is due first is an active one. *)
LEMMA HeapMin ==
  ASSUME NEW s, NEW c \in Nat, NEW n \in Nat, StateOK(s, c, n), s.heap # <<>>
  PROVE  heap_min(s) \in DOMAIN s.list /\ InHeap(s, heap_min(s))
<1> DEFINE D == DOMAIN s.heap
           f(i) == s.list[s.heap[i]].timeout
           T == {f(i) : i \in D}
<1>1. D = 1..Len(s.heap) /\ 1 \in D /\ D \subseteq Nat /\ \A i \in D : s.heap[i] \in DOMAIN s.list
  <2>1. s.heap \in Seq(DOMAIN s.list)
    BY StateFields
  <2> QED
    BY <2>1
<1>2. \A i \in D : f(i) \in Nat
  <2> TAKE i \in D
  <2>1. s.list[s.heap[i]] \in ListsOf(s)
    BY <1>1, StateFields
  <2> QED
    BY <2>1 DEF ListsOf
<1> HIDE DEF D, f
<1>3. PICK m \in T : \A y \in T : m =< y
  <2>1. T \in SUBSET Nat /\ T # {}
    BY <1>1, <1>2
  <2> QED
    BY <2>1, LeastNat
<1> DEFINE I == {i \in D : f(i) = m}
<1>4. PICK i \in I : \A j \in I : i =< j
  <2>1. I \in SUBSET Nat /\ I # {}
    BY <1>1, <1>3
  <2> QED
    BY <2>1, LeastNat
<1>5. i \in D /\ \A j \in D : f(i) < f(j) \/ (f(i) = f(j) /\ i <= j)
  <2> SUFFICES ASSUME NEW j \in D PROVE f(i) < f(j) \/ (f(i) = f(j) /\ i <= j)
    BY <1>4
  <2>1. f(i) = m /\ m =< f(j) /\ m \in Nat /\ f(j) \in Nat
    BY <1>2, <1>3, <1>4
  <2>2. CASE f(j) = m
    BY <1>4, <2>1, <2>2
  <2>3. CASE f(j) # m
    BY <2>1, <2>3
  <2> QED
    BY <2>2, <2>3
<1> DEFINE P(x) == \A j \in D : f(x) < f(j) \/ (f(x) = f(j) /\ x <= j)
           k == CHOOSE x \in D : P(x)
<1>6. k \in D
  <2>1. \E x \in D : P(x)
    BY <1>5
  <2> QED
    BY <2>1
<1>7. heap_min(s) = s.heap[k]
  BY DEF heap_min, D, f
<1> HIDE DEF k
<1> QED
  BY <1>1, <1>6, <1>7 DEF InHeap, D

(* Time passes, and operations are counted. *)
LEMMA SoundLater ==
  ASSUME NEW s, NEW c \in Nat, NEW n \in Nat, Sound(s, c, n),
         NEW d \in Nat, NEW m \in Nat, c <= d, n <= m
  PROVE  Sound(s, d, m)
<1>1. 0..c \subseteq 0..d /\ -1..c \subseteq -1..d /\ 0..n \subseteq 0..m
  OBVIOUS
<1>2. TimersAt(c) \subseteq TimersAt(d)
  BY <1>1 DEF TimersAt
<1>3. Seq(TimersAt(c)) \subseteq Seq(TimersAt(d))
  BY <1>2, SeqMonotonic
<1>4. StateOK(s, c, n) => StateOK(s, d, m)
  BY <1>1, <1>3 DEF StateOK
<1> QED
  BY <1>4 DEF Sound

LEMMA FramesLater ==
  ASSUME NEW s, NEW r, NEW c \in Nat, NEW d \in Nat, c <= d, s.set \in Nat, r.set \in Nat,
         s.set <= r.set, DOMAIN s.list \subseteq DOMAIN r.list, DOMAIN s.timer \subseteq DOMAIN r.timer
  PROVE  FramesOf(s, c) \subseteq FramesOf(r, d) /\ Seq(FramesOf(s, c)) \subseteq Seq(FramesOf(r, d))
<1>1. 0..c \subseteq 0..d /\ 0..s.set \subseteq 0..r.set
  OBVIOUS
<1>2. Seq(0..s.set) \subseteq Seq(0..r.set)
  BY <1>1, SeqMonotonic
<1>3. [f : {"immediates"}, queue : Seq(0..s.set)] \subseteq [f : {"immediates"}, queue : Seq(0..r.set)]
  BY <1>2
<1>4. [f : {"list"}, list : DOMAIN s.list, now : 0..c] \subseteq [f : {"list"}, list : DOMAIN r.list, now : 0..d]
  BY <1>1
<1>5. {Js(t) : t \in {NoTimeout} \cup DOMAIN s.timer} \subseteq {Js(t) : t \in {NoTimeout} \cup DOMAIN r.timer}
  OBVIOUS
<1>6. FramesOf(s, c) \subseteq FramesOf(r, d)
  BY <1>3, <1>4, <1>5 DEF FramesOf
<1> QED
  BY <1>6, SeqMonotonic

(* A timer is made. *)
Added(s, e, r, c, n) ==
  /\ Sound(r, c, n) /\ Keeps(s, r) /\ SameRest(s, r) /\ DOMAIN r.list = DOMAIN s.list
  /\ Len(r.timer) = Len(s.timer) + 1 /\ DOMAIN r.timer = 1..(Len(s.timer) + 1)
  /\ r.timer[Len(s.timer) + 1] = e

LEMMA NewTimer ==
  ASSUME NEW s, NEW c \in Nat, NEW n \in Nat, Sound(s, c, n), NEW e \in TimersAt(c),
         NEW r, r = [s EXCEPT !.timer = Append(@, e)]
  PROVE  Added(s, e, r, c, n)
<1> DEFINE T == Append(s.timer, e)
<1>1. r = [s EXCEPT !.timer = T] /\ T = Append(s.timer, e)
  OBVIOUS
<1> HIDE DEF T
<1>2. StateOK(s, c, n) /\ HeapOK(s) /\ RegOK(s) /\ ItemsOK(s)
  BY DEF Sound
<1>3. /\ s.timer \in Seq(TimersAt(c)) /\ s.list \in Seq(ListsOf(s))
      /\ \A l \in DOMAIN s.list : s.list[l] \in ListsOf(s)
  BY <1>2, StateFields
<1>4. /\ T \in Seq(TimersAt(c)) /\ DOMAIN T = 1..(Len(s.timer) + 1) /\ Len(T) = Len(s.timer) + 1
      /\ T[Len(s.timer) + 1] = e /\ \A x \in DOMAIN s.timer : T[x] = s.timer[x]
      /\ DOMAIN s.timer = 1..Len(s.timer) /\ Len(s.timer) \in Nat
  BY <1>1, <1>3, AppendSeq
<1>5. /\ r.heap = s.heap /\ r.list = s.list /\ r.lists = s.lists /\ r.timer = T
      /\ r.time = s.time /\ r.closing = s.closing /\ SameRest(s, r)
  BY <1>1, <1>2 DEF StateOK, SameRest
<1>6. Seq(ListsOf(s)) \subseteq Seq(ListsOf(r))
  <2>1. DOMAIN s.timer \subseteq DOMAIN r.timer
    BY <1>4, <1>5
  <2>2. Seq(DOMAIN s.timer) \subseteq Seq(DOMAIN r.timer)
    BY <2>1, SeqMonotonic
  <2>3. ListsOf(s) \subseteq ListsOf(r)
    BY <2>2 DEF ListsOf
  <2> QED
    BY <2>3, SeqMonotonic
<1>7. StateOK(r, c, n)
  BY <1>1, <1>2, <1>4, <1>5, <1>6 DEF StateOK, SameRest
<1>8. HeapOK(r) /\ RegOK(r)
  BY <1>2, <1>5 DEF HeapOK, RegOK
<1>9. ItemsOK(r)
  <2> SUFFICES ASSUME NEW l \in DOMAIN s.list
               PROVE  InOrder(T, s.list[l].msecs, s.list[l].items)
    BY <1>5 DEF ItemsOK
  <2> DEFINE p == s.list[l].items
  <2>1. p \in Seq(DOMAIN s.timer)
    BY <1>3 DEF ListsOf
  <2>2. InOrder(s.timer, s.list[l].msecs, p)
    BY <1>2 DEF ItemsOK
  <2>p. p = s.list[l].items
    OBVIOUS
  <2> HIDE DEF p
  <2>3. \A i \in DOMAIN p : T[p[i]] = s.timer[p[i]]
    BY <1>4, <2>1
  <2>4. InOrder(T, s.list[l].msecs, p)
    BY <2>2, <2>3 DEF InOrder
  <2> QED
    BY <2>4, <2>p
<1>10. Keeps(s, r)
  BY <1>5 DEF Keeps, Matters, InHeap
<1> QED
  BY <1>4, <1>5, <1>7, <1>8, <1>9, <1>10 DEF Sound, Added

----------------------------------------------------------------------------
(* nextTick and setImmediate. *)

(* The timers and lists are the same. *)
SameCore(s, r) == r.heap = s.heap /\ r.list = s.list /\ r.lists = s.lists /\ r.timer = s.timer

(* All but the queue of ticks is the same. *)
SameOut(s, r) ==
  /\ SameCore(s, r) /\ r.time = s.time /\ r.imm = s.imm /\ r.need = s.need /\ r.set = s.set
  /\ r.reqs = s.reqs /\ r.socket = s.socket /\ r.closing = s.closing /\ r.exiting = s.exiting

LEMMA CoreSound ==
  ASSUME NEW s, NEW r, NEW c, NEW n, NEW d, NEW m, Sound(s, c, n), StateOK(r, d, m), SameCore(s, r)
  PROVE  Sound(r, d, m)
<1>1. HeapOK(r) /\ RegOK(r)
  BY DEF Sound, SameCore, HeapOK, RegOK
<1>2. ItemsOK(r)
  BY DEF Sound, SameCore, ItemsOK
<1> QED
  BY <1>1, <1>2 DEF Sound

LEMMA CoreWired ==
  ASSUME NEW s, NEW r, NEW st, NEW su, WiredOK(s, st), SameCore(s, r),
         \A l \in DOMAIN s.list : Wired(s, st, l) => Wired(r, su, l)
  PROVE  WiredOK(r, su)
<1>1. \A l \in DOMAIN s.list : Matters(r, l) => Matters(s, l)
  BY DEF SameCore, Matters
<1> QED
  BY <1>1 DEF WiredOK, SameCore

(* The sequence r is q without its first i elements. *)
IsTail(q, i, r) ==
  /\ Len(r) = Len(q) - i /\ DOMAIN r = 1..(Len(q) - i)
  /\ \A k \in 1..(Len(q) - i) : r[k] = q[k + i]

LEMMA NoneLeft ==
  ASSUME NEW a \in Nat, NEW b \in Nat, b <= a, ~(b + 1 <= a)
  PROVE  a - b = 0
OBVIOUS

LEMMA TailOf ==
  ASSUME NEW S, NEW q \in Seq(S), NEW i \in 0..Len(q), NEW r, r = SubSeq(q, i + 1, Len(q))
  PROVE  r \in Seq(S) /\ IsTail(q, i, r)
<1>1. DOMAIN q = 1..Len(q) /\ Len(q) \in Nat /\ i \in Nat /\ i <= Len(q)
  OBVIOUS
<1>2. i + 1 \in Int /\ Len(q) \in Int /\ \A k \in (i + 1)..Len(q) : q[k] \in S
  BY <1>1
<1>3. /\ r \in Seq(S)
      /\ Len(r) = IF i + 1 <= Len(q) THEN Len(q) - (i + 1) + 1 ELSE 0
      /\ \A k \in 1..(Len(q) - (i + 1) + 1) : r[k] = q[(i + 1) + k - 1]
  BY <1>2, SubSeqProperties
<1>4. Len(q) - (i + 1) + 1 = Len(q) - i /\ \A k \in Int : (i + 1) + k - 1 = k + i
  BY <1>1
<1>5. Len(r) = Len(q) - i
  <2>1. Len(r) = IF i + 1 <= Len(q) THEN Len(q) - i ELSE 0
    BY <1>3, <1>4
  <2>2. ~(i + 1 <= Len(q)) => Len(q) - i = 0
    BY <1>1, NoneLeft
  <2> QED
    BY <2>1, <2>2, Zenon
<1>6. \A k \in 1..(Len(q) - i) : r[k] = q[k + i]
  <2> TAKE k \in 1..(Len(q) - i)
  <2>1. k \in Int /\ (i + 1) + k - 1 = k + i
    BY <1>1, <1>4
  <2>2. r[k] = q[(i + 1) + k - 1]
    BY <1>3, <1>4
  <2> QED
    BY <2>1, <2>2
<1> QED
  BY <1>3, <1>5, <1>6 DEF IsTail

(* In r the ticks of s that have run are cut off. *)
Cut(s, r) ==
  /\ SameOut(s, r) /\ r.queued = s.queued /\ r.index = 0
  /\ DOMAIN r.ticks = 1..(Len(s.ticks) - s.index)
  /\ \A k \in DOMAIN r.ticks : r.ticks[k] = s.ticks[k + s.index]

LEMMA TickDoneOK ==
  ASSUME NEW s, NEW c \in Nat, NEW n \in Nat, StateOK(s, c, n), NEW r, r = tickDone(s)
  PROVE  /\ StateOK(r, c, n) /\ Cut(s, r) /\ Len(r.ticks) = Len(s.ticks) - s.index
         /\ s.ticks \in Seq(Ticks) /\ r.ticks \in Seq(Ticks) /\ s.index \in 0..Len(s.ticks)
<1> DEFINE q == SubSeq(s.ticks, s.index + 1, Len(s.ticks))
<1>1. r = [s EXCEPT !.ticks = q, !.index = 0] /\ q = SubSeq(s.ticks, s.index + 1, Len(s.ticks))
  BY DEF tickDone
<1> HIDE DEF q
<1>2. s.ticks \in Seq(Ticks) /\ s.index \in 0..Len(s.ticks)
  BY StateFields
<1>3. /\ q \in Seq(Ticks) /\ Len(q) = Len(s.ticks) - s.index /\ DOMAIN q = 1..(Len(s.ticks) - s.index)
      /\ \A k \in 1..(Len(s.ticks) - s.index) : q[k] = s.ticks[k + s.index]
  <2>1. q \in Seq(Ticks) /\ IsTail(s.ticks, s.index, q)
    BY <1>1, <1>2, TailOf
  <2> QED
    BY <2>1 DEF IsTail
<1>4. SameOut(s, r) /\ r.queued = s.queued /\ r.index = 0 /\ r.ticks = q
  BY <1>1 DEF StateOK, SameOut, SameCore
<1>5. StateOK(r, c, n)
  <2>1. ListsOf(r) = ListsOf(s)
    BY <1>4 DEF ListsOf, SameOut, SameCore
  <2>2. 0 \in 0..Len(q)
    BY <1>3
  <2> QED
    BY <1>1, <1>3, <1>4, <2>1, <2>2 DEF StateOK, SameOut, SameCore
<1> QED
  BY <1>2, <1>3, <1>4, <1>5 DEF Cut

LEMMA CutTicks ==
  ASSUME NEW s, NEW r, NEW x, s.ticks \in Seq(Ticks), s.index \in 0..Len(s.ticks), Cut(s, r), TicksOK(s, x)
  PROVE  TicksOK(r, x)
<1> DEFINE i == s.index
           N == Len(s.ticks)
<1>1. /\ i \in Nat /\ N \in Nat /\ DOMAIN s.ticks = 1..N
      /\ DOMAIN r.ticks = 1..(N - i) /\ \A k \in DOMAIN r.ticks : r.ticks[k] = s.ticks[k + i]
      /\ r.queued = s.queued /\ r.index = 0 /\ DOMAIN r.list = DOMAIN s.list
  BY DEF Cut, SameOut, SameCore
<1>i. i = s.index
  OBVIOUS
<1> HIDE DEF i, N
<1>2. \A k \in DOMAIN r.ticks : k + i \in DOMAIN s.ticks /\ k + i > i /\ k > 0
  BY <1>1
<1>3. \A k \in DOMAIN r.ticks : User(r, k) => User(s, k + i)
  BY <1>1, <1>2, <1>i DEF User
<1>4. \A k \in DOMAIN s.ticks : User(s, k) => k - i \in DOMAIN r.ticks /\ (k - i) + i = k
  BY <1>1, <1>i DEF User
<1>5. \A k \in DOMAIN s.ticks : User(s, k) => User(r, k - i) /\ r.ticks[k - i] = s.ticks[k]
  <2> TAKE k \in DOMAIN s.ticks
  <2> HAVE User(s, k)
  <2>1. k - i \in DOMAIN r.ticks /\ (k - i) + i = k
    BY <1>4
  <2>2. r.ticks[k - i] = s.ticks[k]
    BY <1>1, <2>1
  <2>3. k - i > 0
    BY <1>2, <2>1
  <2> QED
    BY <1>1, <2>1, <2>2, <2>3 DEF User
<1>6. \A k \in DOMAIN r.ticks : r.ticks[k].kind = "list" => r.ticks[k].n \in DOMAIN r.list
  BY <1>1, <1>2 DEF TicksOK
<1>7. \A k \in DOMAIN r.ticks : User(r, k) => r.ticks[k].n \in (x + 1)..r.queued
  BY <1>1, <1>2, <1>3 DEF TicksOK
<1>8. \A j, k \in DOMAIN r.ticks : User(r, j) /\ User(r, k) /\ j < k => r.ticks[j].n < r.ticks[k].n
  <2> TAKE j, k \in DOMAIN r.ticks
  <2> HAVE User(r, j) /\ User(r, k) /\ j < k
  <2>1. User(s, j + i) /\ User(s, k + i) /\ j + i < k + i /\ j + i \in DOMAIN s.ticks /\ k + i \in DOMAIN s.ticks
    BY <1>1, <1>2, <1>3
  <2>2. s.ticks[j + i].n < s.ticks[k + i].n
    BY <2>1 DEF TicksOK
  <2> QED
    BY <1>1, <2>2
<1>9. \A m \in (x + 1)..r.queued : \E k \in DOMAIN r.ticks : User(r, k) /\ r.ticks[k].n = m
  <2> TAKE m \in (x + 1)..r.queued
  <2>1. PICK k \in DOMAIN s.ticks : User(s, k) /\ s.ticks[k].n = m
    BY <1>1 DEF TicksOK
  <2> QED
    BY <1>4, <1>5, <2>1
<1> QED
  BY <1>6, <1>7, <1>8, <1>9 DEF TicksOK

LEMMA CutWired ==
  ASSUME NEW s, NEW r, NEW st, s.ticks \in Seq(Ticks), s.index \in 0..Len(s.ticks), Cut(s, r),
         WiredOK(s, st)
  PROVE  WiredOK(r, st)
<1>1. SameCore(s, r)
  BY DEF Cut, SameOut
<1>2. ASSUME NEW l \in DOMAIN s.list, Wired(s, st, l) PROVE Wired(r, st, l)
  <2>1. CASE InHeap(s, l)
    BY <1>1, <2>1 DEF Wired, InHeap, SameCore
  <2>2. CASE \E k \in DOMAIN st : st[k].f = "list" /\ st[k].list = l
    BY <2>2 DEF Wired
  <2>3. CASE \E k \in DOMAIN s.ticks : k > s.index /\ s.ticks[k].kind = "list" /\ s.ticks[k].n = l
    <3>1. PICK k \in DOMAIN s.ticks : k > s.index /\ s.ticks[k].kind = "list" /\ s.ticks[k].n = l
      BY <2>3
    <3>2. k - s.index \in 1..(Len(s.ticks) - s.index) /\ (k - s.index) + s.index = k /\ k - s.index > 0
      BY <3>1
    <3>3. /\ DOMAIN r.ticks = 1..(Len(s.ticks) - s.index) /\ r.index = 0
          /\ \A j \in DOMAIN r.ticks : r.ticks[j] = s.ticks[j + s.index]
      BY DEF Cut
    <3>4. r.ticks[k - s.index] = s.ticks[k]
      BY <3>2, <3>3
    <3> QED
      BY <3>1, <3>2, <3>3, <3>4 DEF Wired
  <2> QED
    BY <1>2, <2>1, <2>2, <2>3 DEF Wired
<1> QED
  BY <1>1, <1>2, CoreWired

(* In r a tick e is queued after those of s. *)
Queued(s, e, r) ==
  /\ SameOut(s, r) /\ r.index = s.index /\ s.ticks \in Seq(Ticks) /\ s.index \in 0..Len(s.ticks)
  /\ DOMAIN r.ticks = 1..(Len(s.ticks) + 1) /\ r.ticks[Len(s.ticks) + 1] = e
  /\ \A k \in DOMAIN s.ticks : r.ticks[k] = s.ticks[k]

WithTick(s, e, m) == [s EXCEPT !.ticks = Append(@, e), !.queued = m]

LEMMA QueuedOK ==
  ASSUME NEW s, NEW c \in Nat, NEW n \in Nat, StateOK(s, c, n), NEW e \in Ticks, NEW m \in Nat, m <= n,
         NEW r, r = WithTick(s, e, m)
  PROVE  StateOK(r, c, n) /\ Queued(s, e, r) /\ r.queued = m
<1> DEFINE q == Append(s.ticks, e)
<1>1. r = [s EXCEPT !.ticks = q, !.queued = m] /\ q = Append(s.ticks, e)
  BY DEF WithTick
<1> HIDE DEF q
<1>m. m \in 0..n
  OBVIOUS
<1>2. s.ticks \in Seq(Ticks) /\ s.index \in 0..Len(s.ticks)
  BY StateFields
<1>3. /\ q \in Seq(Ticks) /\ DOMAIN q = 1..(Len(s.ticks) + 1) /\ Len(s.ticks) \in Nat
      /\ q[Len(s.ticks) + 1] = e /\ \A i \in DOMAIN s.ticks : q[i] = s.ticks[i]
      /\ Len(q) = Len(s.ticks) + 1
  BY <1>1, <1>2, AppendSeq
<1>4. SameOut(s, r) /\ r.queued = m /\ r.index = s.index /\ r.ticks = q
  BY <1>1 DEF StateOK, SameOut, SameCore
<1>5. StateOK(r, c, n)
  <2>1. ListsOf(r) = ListsOf(s)
    BY <1>4 DEF ListsOf, SameOut, SameCore
  <2>2. s.index \in 0..Len(q)
    BY <1>2, <1>3
  <2> QED
    BY <1>1, <1>3, <1>4, <1>m, <2>1, <2>2 DEF StateOK, SameOut, SameCore
<1> QED
  BY <1>2, <1>3, <1>4, <1>5 DEF Queued

LEMMA QueuedTicks ==
  ASSUME NEW s, NEW e, NEW r, NEW x \in Nat, s.queued \in Nat, Queued(s, e, r), TicksOK(s, x), x <= s.queued,
         \/ e.kind = "user" /\ e.n = s.queued + 1 /\ r.queued = s.queued + 1
         \/ e.kind = "list" /\ e.n \in DOMAIN s.list /\ r.queued = s.queued
         \/ e.kind = "immediates" /\ r.queued = s.queued
  PROVE  TicksOK(r, x)
<1> DEFINE N == Len(s.ticks)
           Q == s.queued
<1>1. /\ N \in Nat /\ DOMAIN s.ticks = 1..N /\ DOMAIN r.ticks = 1..(N + 1) /\ r.ticks[N + 1] = e
      /\ \A k \in DOMAIN s.ticks : r.ticks[k] = s.ticks[k] /\ k \in DOMAIN r.ticks /\ k < N + 1
      /\ \A k \in DOMAIN r.ticks : k \in DOMAIN s.ticks \/ k = N + 1
      /\ r.index = s.index /\ DOMAIN r.list = DOMAIN s.list /\ N + 1 > s.index /\ N + 1 \in DOMAIN r.ticks
  BY DEF Queued, SameOut, SameCore
<1>2. Q \in Nat /\ Q = s.queued /\ r.queued \in {Q, Q + 1}
  OBVIOUS
<1> HIDE DEF N, Q
<1>3. \A k \in DOMAIN s.ticks : User(r, k) <=> User(s, k)
  BY <1>1 DEF User
<1>4. User(r, N + 1) <=> e.kind = "user"
  BY <1>1 DEF User
<1>5. \A k \in DOMAIN r.ticks : r.ticks[k].kind = "list" => r.ticks[k].n \in DOMAIN r.list
  BY <1>1 DEF TicksOK
<1>6. \A k \in DOMAIN s.ticks : User(s, k) => s.ticks[k].n \in (x + 1)..Q
  BY <1>2 DEF TicksOK
<1>7. \A k \in DOMAIN r.ticks : User(r, k) => r.ticks[k].n \in (x + 1)..r.queued
  <2> TAKE k \in DOMAIN r.ticks
  <2> HAVE User(r, k)
  <2>1. CASE k \in DOMAIN s.ticks
    BY <1>1, <1>2, <1>3, <1>6, <2>1
  <2>2. CASE k = N + 1
    BY <1>1, <1>2, <1>4, <2>2
  <2> QED
    BY <1>1, <2>1, <2>2
<1>8. \A j, k \in DOMAIN r.ticks : User(r, j) /\ User(r, k) /\ j < k => r.ticks[j].n < r.ticks[k].n
  <2> TAKE j, k \in DOMAIN r.ticks
  <2> HAVE User(r, j) /\ User(r, k) /\ j < k
  <2>1. j \in DOMAIN s.ticks /\ User(s, j) /\ s.ticks[j].n \in (x + 1)..Q /\ r.ticks[j] = s.ticks[j]
    BY <1>1, <1>3, <1>6
  <2>2. CASE k \in DOMAIN s.ticks
    <3>1. s.ticks[j].n < s.ticks[k].n
      BY <1>3, <2>1, <2>2 DEF TicksOK
    <3> QED
      BY <1>1, <2>1, <2>2, <3>1
  <2>3. CASE k = N + 1
    BY <1>1, <1>2, <1>4, <2>1, <2>3
  <2> QED
    BY <1>1, <2>2, <2>3
<1>9. \A m \in (x + 1)..r.queued : \E k \in DOMAIN r.ticks : User(r, k) /\ r.ticks[k].n = m
  <2> TAKE m \in (x + 1)..r.queued
  <2>1. CASE m \in (x + 1)..Q
    <3>1. PICK k \in DOMAIN s.ticks : User(s, k) /\ s.ticks[k].n = m
      BY <1>2, <2>1 DEF TicksOK
    <3> QED
      BY <1>1, <1>3, <3>1
  <2>2. CASE m = Q + 1 /\ r.queued = Q + 1
    BY <1>1, <1>2, <1>4, <2>2
  <2> QED
    BY <1>2, <2>1, <2>2
<1> QED
  BY <1>5, <1>7, <1>8, <1>9 DEF TicksOK

LEMMA QueuedWired ==
  ASSUME NEW s, NEW e, NEW r, Queued(s, e, r), NEW st, NEW l, Wired(s, st, l)
  PROVE  Wired(r, st, l)
<1>1. CASE InHeap(s, l)
  BY <1>1 DEF Queued, SameOut, SameCore, Wired, InHeap
<1>2. CASE \E k \in DOMAIN st : st[k].f = "list" /\ st[k].list = l
  BY <1>2 DEF Wired
<1>3. CASE \E k \in DOMAIN s.ticks : k > s.index /\ s.ticks[k].kind = "list" /\ s.ticks[k].n = l
  <2>1. PICK k \in DOMAIN s.ticks : k > s.index /\ s.ticks[k].kind = "list" /\ s.ticks[k].n = l
    BY <1>3
  <2>2. k \in DOMAIN r.ticks /\ r.ticks[k] = s.ticks[k] /\ r.index = s.index
    BY DEF Queued
  <2> QED
    BY <2>1, <2>2 DEF Wired
<1> QED
  BY <1>1, <1>2, <1>3 DEF Wired

(* The tick e is taken from the queue of s to be called. *)
Taken(s, e, r) ==
  /\ SameOut(s, r) /\ r.ticks = s.ticks /\ r.queued = s.queued /\ r.index = s.index + 1
  /\ s.ticks \in Seq(Ticks) /\ s.index \in Nat /\ s.index + 1 \in DOMAIN s.ticks /\ s.ticks[s.index + 1] = e

LEMMA TakenOK ==
  ASSUME NEW s, NEW c \in Nat, NEW n \in Nat, StateOK(s, c, n), s.index < Len(s.ticks),
         NEW e, e = s.ticks[s.index + 1], NEW r, r = [s EXCEPT !.index = @ + 1]
  PROVE  StateOK(r, c, n) /\ Taken(s, e, r) /\ e \in Ticks
<1>1. s.ticks \in Seq(Ticks) /\ s.index \in 0..Len(s.ticks)
  BY StateFields
<1>2. s.index \in Nat /\ s.index + 1 \in 0..Len(s.ticks) /\ s.index + 1 \in DOMAIN s.ticks /\ e \in Ticks
  BY <1>1
<1>3. SameOut(s, r) /\ r.queued = s.queued /\ r.index = s.index + 1 /\ r.ticks = s.ticks
  BY DEF StateOK, SameOut, SameCore
<1>4. StateOK(r, c, n)
  <2>1. ListsOf(r) = ListsOf(s)
    BY <1>3 DEF ListsOf, SameOut, SameCore
  <2> QED
    BY <1>2, <1>3, <2>1 DEF StateOK, SameOut, SameCore
<1> QED
  BY <1>1, <1>2, <1>3, <1>4 DEF Taken

LEMMA TakenWired ==
  ASSUME NEW s, NEW e, NEW r, Taken(s, e, r), NEW st, NEW l, Wired(s, st, l)
  PROVE  Wired(r, st, l) \/ (e.kind = "list" /\ e.n = l)
<1>1. CASE InHeap(s, l)
  BY <1>1 DEF Taken, SameOut, SameCore, Wired, InHeap
<1>2. CASE \E k \in DOMAIN st : st[k].f = "list" /\ st[k].list = l
  BY <1>2 DEF Wired
<1>3. CASE \E k \in DOMAIN s.ticks : k > s.index /\ s.ticks[k].kind = "list" /\ s.ticks[k].n = l
  <2>1. PICK k \in DOMAIN s.ticks : k > s.index /\ s.ticks[k].kind = "list" /\ s.ticks[k].n = l
    BY <1>3
  <2>2. k = s.index + 1 \/ k > r.index
    BY <2>1 DEF Taken
  <2>3. r.ticks = s.ticks /\ s.ticks[s.index + 1] = e
    BY DEF Taken
  <2> QED
    BY <2>1, <2>2, <2>3 DEF Wired
<1> QED
  BY <1>1, <1>2, <1>3 DEF Wired

(* A tick of the contract is the next in order. *)
LEMMA TakenTicks ==
  ASSUME NEW s, NEW e, NEW r, NEW x \in Nat, s.queued \in Nat, Taken(s, e, r), TicksOK(s, x)
  PROVE  /\ e.kind # "user" => TicksOK(r, x)
         /\ e.kind = "user" => e.n = x + 1 /\ x + 1 <= s.queued /\ TicksOK(r, x + 1)
<1> DEFINE i == s.index + 1
           Q == s.queued
<1>1. /\ r.ticks = s.ticks /\ r.queued = Q /\ r.index = i /\ DOMAIN r.list = DOMAIN s.list
      /\ i \in DOMAIN s.ticks /\ s.ticks[i] = e /\ DOMAIN s.ticks \subseteq Nat /\ s.index \in Nat
  BY DEF Taken, SameOut, SameCore
<1>2. i = s.index + 1 /\ Q = s.queued
  OBVIOUS
<1>q. Q \in Nat
  OBVIOUS
<1> HIDE DEF i, Q
<1>3. \A k \in DOMAIN s.ticks : k > s.index <=> k = i \/ k > i
  BY <1>1, <1>2
<1>4. \A k \in DOMAIN s.ticks : User(r, k) <=> User(s, k) /\ k > i
  BY <1>1, <1>3 DEF User
<1>5. User(s, i) <=> e.kind = "user"
  BY <1>1, <1>3 DEF User
<1>6. /\ \A k \in DOMAIN s.ticks : s.ticks[k].kind = "list" => s.ticks[k].n \in DOMAIN s.list
      /\ \A k \in DOMAIN s.ticks : User(s, k) => s.ticks[k].n \in (x + 1)..Q
      /\ \A j, k \in DOMAIN s.ticks : User(s, j) /\ User(s, k) /\ j < k => s.ticks[j].n < s.ticks[k].n
      /\ \A m \in (x + 1)..Q : \E k \in DOMAIN s.ticks : User(s, k) /\ s.ticks[k].n = m
  BY <1>2 DEF TicksOK
<1>7. CASE e.kind # "user"
  <2>1. \A k \in DOMAIN s.ticks : User(r, k) <=> User(s, k)
    <3> TAKE k \in DOMAIN s.ticks
    <3>1. User(s, k) => k > s.index
      BY DEF User
    <3> QED
      BY <1>3, <1>4, <1>5, <1>7, <3>1
  <2>2. TicksOK(r, x)
    BY <1>1, <1>6, <2>1 DEF TicksOK
  <2> QED
    BY <1>7, <2>2
<1>8. CASE e.kind = "user"
  <2>1. e.n \in (x + 1)..Q
    BY <1>1, <1>5, <1>6, <1>8
  <2>2. x + 1 \in (x + 1)..Q /\ x + 1 <= Q /\ e.n \in Nat
    BY <1>q, <2>1
  <2>3. PICK k \in DOMAIN s.ticks : User(s, k) /\ s.ticks[k].n = x + 1
    BY <1>6, <2>2
  <2>4. k = i
    <3>1. k = i \/ k > i
      BY <1>3, <2>3 DEF User
    <3>2. ASSUME k > i PROVE FALSE
      <4>1. i < k
        BY <1>1, <3>2
      <4>2. e.n < x + 1
        BY <1>1, <1>5, <1>6, <1>8, <2>3, <4>1
      <4> QED
        BY <2>1, <4>2
    <3> QED
      BY <3>1, <3>2
  <2>5. e.n = x + 1
    BY <1>1, <2>3, <2>4
  <2>6. \A j \in DOMAIN s.ticks : User(r, j) => s.ticks[j].n \in (x + 1 + 1)..Q
    <3> TAKE j \in DOMAIN s.ticks
    <3> HAVE User(r, j)
    <3>1. User(s, j) /\ i < j
      BY <1>1, <1>4
    <3>2. e.n < s.ticks[j].n /\ s.ticks[j].n \in (x + 1)..Q
      BY <1>1, <1>5, <1>6, <1>8, <3>1
    <3> QED
      BY <2>5, <3>2, <1>q
  <2>7. \A j, m \in DOMAIN s.ticks : User(r, j) /\ User(r, m) /\ j < m => s.ticks[j].n < s.ticks[m].n
    BY <1>4, <1>6
  <2>8. \A m \in (x + 1 + 1)..Q : \E j \in DOMAIN s.ticks : User(r, j) /\ s.ticks[j].n = m
    <3> TAKE m \in (x + 1 + 1)..Q
    <3>1. m \in (x + 1)..Q /\ m # x + 1
      BY <1>q
    <3>2. PICK j \in DOMAIN s.ticks : User(s, j) /\ s.ticks[j].n = m
      BY <1>6, <3>1
    <3>3. j # i /\ j > s.index
      BY <2>5, <3>1, <3>2, <1>1 DEF User
    <3> QED
      BY <1>3, <1>4, <3>2, <3>3
  <2>9. TicksOK(r, x + 1)
    BY <1>1, <1>6, <2>6, <2>7, <2>8 DEF TicksOK
  <2> QED
    BY <1>2, <1>8, <2>2, <2>5, <2>9
<1> QED
  BY <1>7, <1>8

----------------------------------------------------------------------------
(* The contract's operations. *)

LEMMA Numbers ==
  ASSUME IInv
  PROVE  /\ clock \in Nat /\ ops \in Nat /\ ops <= MaxOps /\ ran \in Nat /\ loop.queued \in Nat
         /\ ran <= loop.queued /\ loop.set \in Nat /\ MaxOps \in Nat /\ ops + 1 \in Nat
         /\ StateOK(loop, clock, ops) /\ Sound(loop, clock, ops + 1)
         /\ StateOK(loop, clock, ops + 1)
<1>1. MaxClock \in Nat /\ MaxOps \in Nat
  BY Bounds
<1>2. clock \in Nat /\ ops \in Nat /\ ops <= MaxOps /\ Sound(loop, clock, ops) /\ ops <= ops + 1 /\ ops + 1 \in Nat
  BY <1>1 DEF IInv
<1>3. loop.queued \in 0..ops /\ loop.set \in 0..ops
  BY <1>2, StateFields DEF Sound
<1>4. loop.queued \in Nat /\ loop.set \in Nat
  BY <1>2, <1>3
<1>5. ran \in Nat /\ ran <= loop.queued
  BY <1>4 DEF IInv
<1>6. Sound(loop, clock, ops + 1)
  <2>1. clock <= clock
    BY <1>2
  <2> QED
    BY <1>2, <2>1, SoundLater
<1> QED
  BY <1>1, <1>2, <1>4, <1>5, <1>6 DEF Sound

(* JavaScript runs. *)
LEMMA Inside ==
  ASSUME IInv, stack # <<>>
  PROVE  /\ base # "none" /\ Alive(phase) /\ WiredOK(loop, stack)
         /\ stack \in Seq(FramesOf(loop, clock))
<1>1. base # "none" /\ Alive(phase)
  BY DEF IInv, Holds, CallOK
<1> QED
  BY <1>1 DEF IInv, Holds

(* What an operation of the contract keeps up. *)
Fine(r) ==
  /\ Sound(r, clock, ops + 1) /\ Len(r.timer) <= MaxTimeouts
  /\ DOMAIN loop.list \subseteq DOMAIN r.list /\ DOMAIN loop.timer \subseteq DOMAIN r.timer
  /\ loop.set <= r.set /\ loop.queued <= r.queued /\ r.exiting = loop.exiting
  /\ TicksOK(r, ran) /\ WiredOK(r, stack) /\ ImmOK(r, base, phase)
  /\ (base = "AsyncAfter" => Drained(r)) /\ (phase = "exit" => r.ticks = <<>>)

LEMMA CallKept ==
  ASSUME NEW s, NEW r, NEW st, NEW b, NEW p, CallOK(s, st, b, p), ExitOK(s, st, p), st # <<>>,
         r.exiting = s.exiting, b = "AsyncAfter" => Drained(r), p = "exit" => r.ticks = <<>>
  PROVE  CallOK(r, st, b, p) /\ ExitOK(r, st, p)
BY DEF CallOK, ExitOK

LEMMA StackLater ==
  ASSUME IInv, NEW r, StateOK(r, clock, ops + 1), loop.set <= r.set,
         DOMAIN loop.list \subseteq DOMAIN r.list, DOMAIN loop.timer \subseteq DOMAIN r.timer
  PROVE  stack \in Seq(FramesOf(r, clock)) /\ Seq(FramesOf(loop, clock)) \subseteq Seq(FramesOf(r, clock))
         /\ FramesOf(loop, clock) \subseteq FramesOf(r, clock)
<1>1. clock \in Nat /\ ops + 1 \in Nat /\ loop.set \in Nat
  BY Numbers
<1>2. r.set \in 0..(ops + 1)
  BY <1>1, StateFields
<1>3. r.set \in Nat /\ clock <= clock
  BY <1>1, <1>2
<1>4. FramesOf(loop, clock) \subseteq FramesOf(r, clock) /\ Seq(FramesOf(loop, clock)) \subseteq Seq(FramesOf(r, clock))
  BY <1>1, <1>3, FramesLater
<1> QED
  BY <1>4 DEF IInv

LEMMA EffectInv ==
  ASSUME IInv, Does, NEW r, Effect(r), Fine(r)
  PROVE  IInv'
<1>1. /\ loop' = r /\ clock' = clock /\ stack' = stack /\ base' = base /\ phase' = phase
      /\ ran' = ran /\ ops' = ops + 1 /\ ops < MaxOps /\ stack # <<>>
  BY DEF Does, Effect, InJs, At
<1>2. ops + 1 \in 0..MaxOps
  BY <1>1, Numbers
<1>3. ran \in 0..r.queued
  <2>1. r.queued \in 0..(ops + 1)
    BY Numbers, StateFields DEF Fine, Sound
  <2>2. loop.queued <= r.queued /\ ran <= loop.queued /\ ran \in Nat /\ loop.queued \in Nat /\ ops \in Nat
    BY Numbers DEF Fine
  <2> QED
    BY <2>1, <2>2
<1>4. stack \in Seq(FramesOf(r, clock))
  BY StackLater DEF Fine, Sound
<1>5. CallOK(r, stack, base, phase) /\ ExitOK(r, stack, phase)
  <2>1. CallOK(loop, stack, base, phase) /\ ExitOK(loop, stack, phase)
    BY DEF IInv, Holds
  <2> QED
    BY <1>1, <2>1, CallKept DEF Fine
<1>6. Holds(r, stack, base, phase, ran)
  BY <1>5 DEF Holds, Fine
<1>7. /\ clock \in 0..MaxClock /\ base \in Bases /\ phase \in Phases
      /\ Sound(r, clock, ops + 1) /\ Len(r.timer) <= MaxTimeouts
  BY DEF IInv, Fine
<1> QED
  BY <1>1, <1>2, <1>3, <1>4, <1>6, <1>7 DEF IInv

(* An operation on timers. *)
LEMMA TimersFine ==
  ASSUME IInv, InJs, NEW r, Sound(r, clock, ops + 1), Keeps(loop, r), SameRest(loop, r),
         DOMAIN loop.list \subseteq DOMAIN r.list, DOMAIN loop.timer \subseteq DOMAIN r.timer,
         Len(r.timer) <= MaxTimeouts
  PROVE  Fine(r)
<1>1. /\ loop.set \in Nat /\ loop.queued \in Nat /\ stack # <<>> /\ WiredOK(loop, stack)
  BY Numbers, Inside DEF InJs, At
<1>2. WiredOK(r, stack)
  BY <1>1, KeepsWired
<1>3. TicksOK(loop, ran) /\ ImmOK(loop, base, phase) /\ CallOK(loop, stack, base, phase)
      /\ ExitOK(loop, stack, phase) /\ Alive(phase)
  BY <1>1, Inside DEF IInv, Holds
<1>4. TicksOK(r, ran)
  <2>1. \A k : User(r, k) <=> User(loop, k)
    BY DEF SameRest, User
  <2> QED
    BY <1>3, <2>1 DEF TicksOK, SameRest
<1>5. ImmOK(r, base, phase)
  BY <1>3 DEF ImmOK, SameRest
<1>6. base = "AsyncAfter" => Drained(r)
  BY <1>3 DEF CallOK, Drained, TickSet, SameRest
<1>7. phase = "exit" => r.ticks = <<>>
  BY <1>3 DEF ExitOK, SameRest
<1>8. loop.set <= r.set /\ loop.queued <= r.queued /\ r.exiting = loop.exiting
  BY <1>1 DEF SameRest
<1> QED
  BY <1>2, <1>4, <1>5, <1>6, <1>7, <1>8 DEF Fine

LEMMA KeptFine ==
  ASSUME IInv, InJs, NEW r, Kept(loop, r, clock, ops + 1)
  PROVE  Fine(r)
<1>1. DOMAIN r.timer = DOMAIN loop.timer
  BY DEF Kept
<1>2. Len(r.timer) <= MaxTimeouts
  <2>1. /\ DOMAIN loop.timer = 1..Len(loop.timer) /\ Len(loop.timer) \in Nat
    BY Numbers, StateFields
  <2>2. /\ DOMAIN r.timer = 1..Len(r.timer) /\ Len(r.timer) \in Nat
    BY Numbers, StateFields DEF Kept, Sound
  <2> QED
    BY <1>1, <2>1, <2>2 DEF IInv
<1> QED
  BY <1>1, <1>2, TimersFine DEF Kept

LEMMA CreateInv ==
  ASSUME IInv, NEW d \in Delays, NEW b \in BOOLEAN, Create(d, b)
  PROVE  IInv'
<1> DEFINE e == [start |-> 0, after |-> d, delay |-> d, on |-> TRUE, repeat |-> b, fired |-> -1]
           v == [loop EXCEPT !.timer = Append(@, e)]
           t == Len(loop.timer) + 1
           r == active(v, t)
<1>1. Does /\ Len(loop.timer) < MaxTimeouts /\ Effect(r)
  BY DEF Create
<1>d. /\ v = [loop EXCEPT !.timer = Append(@, e)] /\ t = Len(loop.timer) + 1 /\ r = active(v, t)
  OBVIOUS
<1>n. clock \in Nat /\ ops + 1 \in Nat /\ Sound(loop, clock, ops + 1)
  BY Numbers
<1>2. e \in TimersAt(clock) /\ e.after = d /\ e.delay = d
  <2>1. 0 \in 0..clock /\ -1 \in -1..clock
    BY <1>n
  <2> QED
    BY <2>1 DEF TimersAt
<1> HIDE DEF e, v, t, r
<1>3. /\ Sound(v, clock, ops + 1) /\ Keeps(loop, v) /\ SameRest(loop, v) /\ DOMAIN v.list = DOMAIN loop.list
      /\ Len(v.timer) = t /\ DOMAIN v.timer = 1..t /\ v.timer[t] = e
  <2>1. Added(loop, e, v, clock, ops + 1)
    BY <1>2, <1>d, <1>n, NewTimer
  <2> QED
    BY <1>d, <2>1 DEF Added
<1>4. /\ DOMAIN loop.timer = 1..Len(loop.timer) /\ Len(loop.timer) \in Nat
  BY Numbers, StateFields
<1>5. t \in DOMAIN v.timer /\ DOMAIN loop.timer \subseteq DOMAIN v.timer /\ t <= MaxTimeouts
  <2>1. MaxTimeouts \in Nat
    BY Bounds
  <2> QED
    BY <1>1, <1>3, <1>4, <1>d, <2>1
<1>6. Kept(v, r, clock, ops + 1)
  BY <1>2, <1>3, <1>5, <1>d, <1>n, ActiveKept
<1>7. Keeps(loop, r) /\ SameRest(loop, r)
  BY <1>3, <1>6, KeepsTrans DEF Kept, SameRest
<1>8. Sound(r, clock, ops + 1) /\ DOMAIN loop.list \subseteq DOMAIN r.list /\ DOMAIN r.timer = 1..t
  BY <1>3, <1>6 DEF Kept
<1>9. Len(r.timer) = t
  <2>1. DOMAIN r.timer = 1..Len(r.timer) /\ Len(r.timer) \in Nat
    BY <1>8, <1>n, StateFields DEF Sound
  <2> QED
    BY <1>4, <1>8, <1>d, <2>1
<1>10. Fine(r)
  BY <1>1, <1>3, <1>5, <1>7, <1>8, <1>9, TimersFine DEF Does
<1> QED
  BY <1>1, <1>10, EffectInv

LEMMA ClearTimeoutInv ==
  ASSUME IInv, NEW t \in DOMAIN loop.timer, clearTimeout(t)
  PROVE  IInv'
<1>1. Does /\ Effect(clearTimer(loop, t))
  BY DEF clearTimeout
<1>2. Kept(loop, clearTimer(loop, t), clock, ops + 1)
  BY Numbers, ClearKept
<1> QED
  BY <1>1, <1>2, KeptFine, EffectInv DEF Does

LEMMA ClearIntervalInv ==
  ASSUME IInv, NEW t \in DOMAIN loop.timer, clearInterval(t)
  PROVE  IInv'
<1> DEFINE e == [loop.timer[t] EXCEPT !.repeat = FALSE]
           u == [loop EXCEPT !.timer[t] = e]
<1>1. Does /\ Effect(clearTimer(u, t))
  BY DEF clearInterval
<1>2. e = [loop.timer[t] EXCEPT !.repeat = FALSE] /\ u = [loop EXCEPT !.timer[t] = e]
  OBVIOUS
<1> HIDE DEF e, u
<1>n. clock \in Nat /\ ops + 1 \in Nat /\ Sound(loop, clock, ops + 1)
  BY Numbers
<1>3. loop.timer[t] \in TimersAt(clock)
  BY <1>n, StateFields DEF Sound
<1>4. /\ e \in TimersAt(clock) /\ e.start = loop.timer[t].start /\ e.delay = loop.timer[t].delay
      /\ e.fired = loop.timer[t].fired
  BY <1>2, <1>3 DEF TimersAt
<1>5. Changed(loop, t, e, u, clock, ops + 1)
  BY <1>2, <1>4, <1>n, TimerKept
<1>6. Kept(loop, u, clock, ops + 1) /\ Sound(u, clock, ops + 1) /\ t \in DOMAIN u.timer
  BY <1>5 DEF Changed, Kept
<1>7. Kept(u, clearTimer(u, t), clock, ops + 1)
  BY <1>6, <1>n, ClearKept
<1>8. Kept(loop, clearTimer(u, t), clock, ops + 1)
  BY <1>6, <1>7, KeptTrans
<1> QED
  BY <1>1, <1>8, KeptFine, EffectInv DEF Does

(* What does not concern timers, ticks or immediates is changed. *)
SameCalls(s, r) ==
  /\ SameCore(s, r) /\ r.ticks = s.ticks /\ r.index = s.index /\ r.queued = s.queued
  /\ r.imm = s.imm /\ r.need = s.need /\ r.set = s.set /\ r.exiting = s.exiting

LEMMA PlainHolds ==
  ASSUME NEW s, NEW r, SameCalls(s, r)
  PROVE  /\ \A x : TicksOK(s, x) => TicksOK(r, x)
         /\ \A st, l : Wired(r, st, l) <=> Wired(s, st, l)
         /\ \A st : WiredOK(s, st) => WiredOK(r, st)
         /\ TickSet(r) <=> TickSet(s)
         /\ Drained(s) => Drained(r)
<1>1. \A k : User(r, k) <=> User(s, k)
  BY DEF SameCalls, User
<1>2. \A x : TicksOK(s, x) => TicksOK(r, x)
  BY <1>1 DEF SameCalls, SameCore, TicksOK
<1>3. \A st, l : Wired(r, st, l) <=> Wired(s, st, l)
  BY DEF SameCalls, SameCore, Wired, InHeap
<1>4. \A st : WiredOK(s, st) => WiredOK(r, st)
  BY <1>3 DEF SameCalls, SameCore, WiredOK, Matters
<1>5. TickSet(r) <=> TickSet(s)
  BY DEF SameCalls, TickSet
<1>6. Drained(s) => Drained(r)
  BY <1>5 DEF SameCalls, Drained
<1> QED
  BY <1>2, <1>3, <1>4, <1>5, <1>6

LEMMA PlainFine ==
  ASSUME IInv, InJs, NEW r, SameCalls(loop, r), StateOK(r, clock, ops + 1)
  PROVE  Fine(r)
<1>1. /\ loop.set \in Nat /\ loop.queued \in Nat /\ stack # <<>> /\ WiredOK(loop, stack) /\ Alive(phase)
  BY Numbers, Inside DEF InJs, At
<1>2. Sound(r, clock, ops + 1)
  BY Numbers, CoreSound DEF SameCalls
<1>3. TicksOK(loop, ran) /\ ImmOK(loop, base, phase) /\ CallOK(loop, stack, base, phase)
      /\ ExitOK(loop, stack, phase) /\ Len(loop.timer) <= MaxTimeouts
  BY DEF IInv, Holds
<1>4. TicksOK(r, ran) /\ WiredOK(r, stack) /\ (Drained(loop) => Drained(r))
  BY <1>1, <1>3, PlainHolds
<1>5. ImmOK(r, base, phase)
  BY <1>3 DEF ImmOK, SameCalls
<1>6. base = "AsyncAfter" => Drained(r)
  BY <1>1, <1>3, <1>4 DEF CallOK
<1>7. phase = "exit" => r.ticks = <<>>
  BY <1>3 DEF ExitOK, SameCalls
<1>8. loop.set <= r.set /\ loop.queued <= r.queued /\ r.exiting = loop.exiting
  BY <1>1 DEF SameCalls
<1>9. /\ DOMAIN loop.list \subseteq DOMAIN r.list /\ DOMAIN loop.timer \subseteq DOMAIN r.timer
      /\ Len(r.timer) <= MaxTimeouts
  BY <1>3 DEF SameCalls, SameCore
<1> QED
  BY <1>2, <1>4, <1>5, <1>6, <1>7, <1>8, <1>9 DEF Fine

LEMMA PostInv ==
  ASSUME IInv, PostMessage \/ OpenSocket \/ CloseSocket
  PROVE  IInv'
<1>n. ops \in Nat /\ clock \in Nat /\ ops + 1 \in Nat /\ StateOK(loop, clock, ops) /\ StateOK(loop, clock, ops + 1)
  BY Numbers
<1>1. CASE PostMessage
  <2> DEFINE r == [loop EXCEPT !.reqs = @ + 1]
  <2>1. Does /\ Effect(r) /\ r = [loop EXCEPT !.reqs = @ + 1]
    BY <1>1 DEF PostMessage
  <2> HIDE DEF r
  <2>2. loop.reqs \in 0..ops
    BY <1>n, StateFields
  <2>3. loop.reqs + 1 \in 0..(ops + 1)
    BY <1>n, <2>2
  <2>4. SameCalls(loop, r) /\ StateOK(r, clock, ops + 1)
    <3>1. SameCalls(loop, r) /\ ListsOf(r) = ListsOf(loop)
      BY <1>n, <2>1 DEF StateOK, SameCalls, SameCore, ListsOf
    <3> QED
      BY <1>n, <2>1, <2>3, <3>1 DEF StateOK, SameCalls, SameCore
  <2> QED
    BY <2>1, <2>4, PlainFine, EffectInv DEF Does
<1>2. CASE OpenSocket
  <2> DEFINE r == [loop EXCEPT !.socket = TRUE]
  <2>1. Does /\ Effect(r) /\ r = [loop EXCEPT !.socket = TRUE]
    BY <1>2 DEF OpenSocket
  <2> HIDE DEF r
  <2>2. SameCalls(loop, r) /\ StateOK(r, clock, ops + 1)
    <3>1. SameCalls(loop, r) /\ ListsOf(r) = ListsOf(loop)
      BY <1>n, <2>1 DEF StateOK, SameCalls, SameCore, ListsOf
    <3> QED
      BY <1>n, <2>1, <3>1 DEF StateOK, SameCalls, SameCore
  <2> QED
    BY <2>1, <2>2, PlainFine, EffectInv DEF Does
<1>3. CASE CloseSocket
  <2> DEFINE r == [loop EXCEPT !.socket = FALSE, !.closing = @ \cup {"socket"}]
  <2>1. Does /\ Effect(r) /\ r = [loop EXCEPT !.socket = FALSE, !.closing = @ \cup {"socket"}]
    BY <1>3 DEF CloseSocket
  <2> HIDE DEF r
  <2>2. SameCalls(loop, r) /\ StateOK(r, clock, ops + 1)
    <3>1. SameCalls(loop, r) /\ ListsOf(r) = ListsOf(loop)
      BY <1>n, <2>1 DEF StateOK, SameCalls, SameCore, ListsOf
    <3>2. loop.closing \cup {"socket"} \in SUBSET {"timer", "socket"}
      BY <1>n, StateFields
    <3> QED
      BY <1>n, <2>1, <3>1, <3>2 DEF StateOK, SameCalls, SameCore
  <2> QED
    BY <2>1, <2>2, PlainFine, EffectInv DEF Does
<1> QED
  BY <1>1, <1>2, <1>3

LEMMA NextTickInv ==
  ASSUME IInv, nextTick
  PROVE  IInv'
<1> DEFINE e == UserTick(loop.queued + 1)
           m == loop.queued + 1
           q == Append(loop.ticks, e)
           r == [loop EXCEPT !.ticks = q, !.queued = m]
<1>n. /\ ops \in Nat /\ clock \in Nat /\ ops + 1 \in Nat /\ StateOK(loop, clock, ops)
      /\ StateOK(loop, clock, ops + 1) /\ Sound(loop, clock, ops + 1)
      /\ ran \in Nat /\ loop.queued \in Nat /\ ran <= loop.queued /\ loop.set \in Nat
  BY Numbers
<1>1. Does /\ ~loop.exiting /\ Effect([pushTick(loop, e) EXCEPT !.queued = @ + 1])
  BY DEF nextTick
<1>2. [pushTick(loop, e) EXCEPT !.queued = @ + 1] = r
  BY <1>1, <1>n DEF pushTick, StateOK
<1>3. r = [loop EXCEPT !.ticks = q, !.queued = m] /\ m = loop.queued + 1 /\ q = Append(loop.ticks, e)
  OBVIOUS
<1>4. /\ stack # <<>> /\ WiredOK(loop, stack) /\ Alive(phase) /\ base # "none"
  BY <1>1, Inside DEF Does, InJs, At
<1>5. e \in Ticks /\ e.kind = "user" /\ e.n = m /\ e.from = base
  BY <1>4, <1>n DEF UserTick, Ticks, IInv, Bases
<1> HIDE DEF e, m, q, r
<1>6. StateOK(r, clock, ops + 1) /\ Queued(loop, e, r) /\ r.queued = m
  <2>1. loop.queued \in 0..ops
    BY <1>n, StateFields
  <2>2. m \in Nat /\ m <= ops + 1
    BY <1>3, <1>n, <2>1
  <2>3. r = WithTick(loop, e, m)
    BY <1>3 DEF WithTick
  <2>5. clock \in Nat /\ ops + 1 \in Nat /\ StateOK(loop, clock, ops + 1) /\ e \in Ticks
    BY <1>5, <1>n
  <2> QED
    BY <2>2, <2>3, <2>5, QueuedOK
<1>7. SameOut(loop, r) /\ SameCore(loop, r)
  BY <1>6 DEF Queued, SameOut
<1>8. Sound(r, clock, ops + 1)
  BY <1>6, <1>7, <1>n, CoreSound
<1>9. TicksOK(loop, ran) /\ ImmOK(loop, base, phase) /\ CallOK(loop, stack, base, phase)
      /\ ExitOK(loop, stack, phase) /\ Len(loop.timer) <= MaxTimeouts
  BY DEF IInv, Holds
<1>10. TicksOK(r, ran)
  BY <1>3, <1>5, <1>6, <1>9, <1>n, QueuedTicks
<1>11. WiredOK(r, stack)
  BY <1>4, <1>6, <1>7, QueuedWired, CoreWired
<1>12. ImmOK(r, base, phase)
  BY <1>7, <1>9 DEF ImmOK, SameOut
<1>13. base = "AsyncAfter" => Drained(r)
  <2> SUFFICES ASSUME base = "AsyncAfter" PROVE Drained(r)
    OBVIOUS
  <2>1. Drained(loop)
    BY <1>4, <1>9 DEF CallOK
  <2>2. TickSet(r) <=> TickSet(loop)
    BY <1>7 DEF SameOut, TickSet
  <2>3. \A k \in DOMAIN r.ticks : (k \in DOMAIN loop.ticks /\ r.ticks[k] = loop.ticks[k]) \/ r.ticks[k] = e
    BY <1>6 DEF Queued
  <2> QED
    BY <1>5, <2>1, <2>2, <2>3 DEF Drained
<1>14. phase # "exit"
  BY <1>1, <1>9 DEF ExitOK
<1>15. loop.set <= r.set /\ loop.queued <= r.queued /\ r.exiting = loop.exiting
  BY <1>3, <1>6, <1>7, <1>n DEF SameOut
<1>16. /\ DOMAIN loop.list \subseteq DOMAIN r.list /\ DOMAIN loop.timer \subseteq DOMAIN r.timer
       /\ Len(r.timer) <= MaxTimeouts
  BY <1>7, <1>9 DEF SameCore
<1>17. Fine(r)
  BY <1>8, <1>10, <1>11, <1>12, <1>13, <1>14, <1>15, <1>16 DEF Fine
<1> QED
  BY <1>1, <1>2, <1>17, EffectInv

(* The immediates are changed, and nothing else that the lists and ticks   *)
(* depend on.                                                              *)
SameTicks(s, r) ==
  /\ SameCore(s, r) /\ r.ticks = s.ticks /\ r.index = s.index /\ r.queued = s.queued
  /\ r.exiting = s.exiting

LEMMA SameTicksHolds ==
  ASSUME NEW s, NEW r, SameTicks(s, r)
  PROVE  /\ \A x : TicksOK(s, x) => TicksOK(r, x)
         /\ \A st, l : Wired(r, st, l) <=> Wired(s, st, l)
         /\ \A st : WiredOK(s, st) => WiredOK(r, st)
         /\ (TickSet(s) => TickSet(r)) /\ Drained(s) => Drained(r)
<1>1. \A k : User(r, k) <=> User(s, k)
  BY DEF SameTicks, User
<1>2. \A x : TicksOK(s, x) => TicksOK(r, x)
  BY <1>1 DEF SameTicks, SameCore, TicksOK
<1>3. \A st, l : Wired(r, st, l) <=> Wired(s, st, l)
  BY DEF SameTicks, SameCore, Wired, InHeap
<1>4. \A st : WiredOK(s, st) => WiredOK(r, st)
  BY <1>3 DEF SameTicks, SameCore, WiredOK, Matters
<1>6. (TickSet(s) => TickSet(r)) /\ Drained(s) => Drained(r)
  BY DEF SameTicks, Drained
<1> QED
  BY <1>2, <1>3, <1>4, <1>6

LEMMA SetImmediateInv ==
  ASSUME IInv, setImmediate
  PROVE  IInv'
<1> DEFINE m == loop.set + 1
           q == Append(loop.imm, m)
           r == [loop EXCEPT !.need = TRUE, !.imm = q, !.set = m]
<1>n. /\ ops \in Nat /\ clock \in Nat /\ ops + 1 \in Nat /\ StateOK(loop, clock, ops)
      /\ StateOK(loop, clock, ops + 1) /\ Sound(loop, clock, ops + 1)
      /\ loop.queued \in Nat /\ loop.set \in Nat
  BY Numbers
<1>1. Does /\ Effect([pushImmediate(loop, m) EXCEPT !.set = @ + 1])
  BY DEF setImmediate
<1>2. [pushImmediate(loop, m) EXCEPT !.set = @ + 1] = r
  BY <1>n DEF pushImmediate, StateOK
<1>3. r = [loop EXCEPT !.need = TRUE, !.imm = q, !.set = m] /\ m = loop.set + 1 /\ q = Append(loop.imm, m)
  OBVIOUS
<1>4. /\ stack # <<>> /\ WiredOK(loop, stack) /\ Alive(phase) /\ base # "none"
  BY <1>1, Inside DEF Does, InJs, At
<1> HIDE DEF m, q, r
<1>5. loop.imm \in Seq(0..loop.set) /\ loop.set \in 0..ops
  BY <1>n, StateFields
<1>6. m \in 0..m /\ m \in 0..(ops + 1) /\ 0..loop.set \subseteq 0..m /\ loop.set <= m
  BY <1>3, <1>5, <1>n
<1>7. loop.imm \in Seq(0..m)
  BY <1>5, <1>6, SeqMonotonic
<1>8. q \in Seq(0..m) /\ DOMAIN q = 1..(Len(loop.imm) + 1) /\ \A i \in DOMAIN loop.imm : q[i] = loop.imm[i]
      /\ DOMAIN loop.imm = 1..Len(loop.imm) /\ Len(loop.imm) \in Nat
  BY <1>3, <1>6, <1>7, AppendSeq
<1>9. SameTicks(loop, r) /\ r.need /\ r.imm = q /\ r.set = m
  BY <1>3, <1>n DEF StateOK, SameTicks, SameCore
<1>10. StateOK(r, clock, ops + 1)
  <2>1. ListsOf(r) = ListsOf(loop)
    BY <1>9 DEF ListsOf, SameTicks, SameCore
  <2> QED
    BY <1>3, <1>6, <1>8, <1>9, <1>n, <2>1 DEF StateOK, SameTicks, SameCore
<1>11. Sound(r, clock, ops + 1)
  BY <1>9, <1>10, <1>n, CoreSound DEF SameTicks
<1>12. TickSet(loop) => TickSet(r)
  BY <1>8, <1>9 DEF TickSet
<1>13. TicksOK(loop, ran) /\ CallOK(loop, stack, base, phase) /\ ExitOK(loop, stack, phase)
       /\ Len(loop.timer) <= MaxTimeouts
  BY DEF IInv, Holds
<1>14. TicksOK(r, ran) /\ WiredOK(r, stack) /\ (Drained(loop) => Drained(r))
  BY <1>4, <1>9, <1>12, <1>13, SameTicksHolds
<1>15. ImmOK(r, base, phase)
  BY <1>9 DEF ImmOK
<1>16. (base = "AsyncAfter" => Drained(r)) /\ (phase = "exit" => r.ticks = <<>>)
  BY <1>4, <1>9, <1>13, <1>14 DEF CallOK, ExitOK, SameTicks
<1>17. loop.set <= r.set /\ loop.queued <= r.queued /\ r.exiting = loop.exiting
  BY <1>6, <1>9, <1>n DEF SameTicks
<1>18. /\ DOMAIN loop.list \subseteq DOMAIN r.list /\ DOMAIN loop.timer \subseteq DOMAIN r.timer
       /\ Len(r.timer) <= MaxTimeouts
  BY <1>9, <1>13 DEF SameTicks, SameCore
<1>19. Fine(r)
  BY <1>11, <1>14, <1>15, <1>16, <1>17, <1>18 DEF Fine
<1> QED
  BY <1>1, <1>2, <1>19, EffectInv

----------------------------------------------------------------------------
(* The stack. *)

LEMMA FrameKinds ==
  ASSUME NEW s, NEW c, NEW x \in FramesOf(s, c)
  PROVE  /\ x.f \in {"js", "ticks", "immediates", "list"}
         /\ x.f = "js" => x = Js(x.t) /\ (x.t # NoTimeout => x.t \in DOMAIN s.timer)
         /\ x.f = "immediates" => x.queue \in Seq(0..s.set)
         /\ x.f = "list" => x.list \in DOMAIN s.list /\ x.now \in 0..c
<1>1. CASE x \in {Js(t) : t \in {NoTimeout} \cup DOMAIN s.timer}
  BY <1>1 DEF Js
<1>2. CASE x = TickFrame
  BY <1>2 DEF TickFrame
<1>3. CASE x \in [f : {"immediates"}, queue : Seq(0..s.set)]
  BY <1>3
<1>4. CASE x \in [f : {"list"}, list : DOMAIN s.list, now : 0..c]
  BY <1>4
<1> QED
  BY <1>1, <1>2, <1>3, <1>4 DEF FramesOf

LEMMA FramesIn ==
  ASSUME NEW s, NEW c
  PROVE  /\ Js(NoTimeout) \in FramesOf(s, c) /\ Js(NoTimeout).f = "js"
         /\ \A t \in DOMAIN s.timer : Js(t) \in FramesOf(s, c) /\ Js(t).f = "js"
         /\ TickFrame \in FramesOf(s, c) /\ TickFrame.f = "ticks"
         /\ \A q \in Seq(0..s.set) : ImmFrame(q) \in FramesOf(s, c) /\ ImmFrame(q).f = "immediates"
         /\ \A l \in DOMAIN s.list, w \in 0..c :
              ListFrame(l, w) \in FramesOf(s, c) /\ ListFrame(l, w).f = "list" /\ ListFrame(l, w).list = l
<1>1. Js(NoTimeout) \in FramesOf(s, c) /\ \A t \in DOMAIN s.timer : Js(t) \in FramesOf(s, c)
  BY DEF FramesOf
<1>2. \A t : Js(t).f = "js"
  BY DEF Js
<1>3. TickFrame \in FramesOf(s, c) /\ TickFrame.f = "ticks"
  BY DEF FramesOf, TickFrame
<1>4. \A q \in Seq(0..s.set) : ImmFrame(q) \in FramesOf(s, c) /\ ImmFrame(q).f = "immediates"
  BY DEF FramesOf, ImmFrame
<1>5. \A l \in DOMAIN s.list, w \in 0..c :
         ListFrame(l, w) \in FramesOf(s, c) /\ ListFrame(l, w).f = "list" /\ ListFrame(l, w).list = l
  BY DEF FramesOf, ListFrame
<1> QED
  BY <1>1, <1>2, <1>3, <1>4, <1>5

LEMMA PopWired ==
  ASSUME NEW F, NEW st \in Seq(F), st # <<>>, NEW s, NEW l, Wired(s, st, l)
  PROVE  Wired(s, Front(st), l) \/ (Last(st).f = "list" /\ Last(st).list = l)
<1>1. CASE \E k \in DOMAIN st : st[k].f = "list" /\ st[k].list = l
  <2>1. PICK k \in DOMAIN st : st[k].f = "list" /\ st[k].list = l
    BY <1>1
  <2>2. \/ k \in DOMAIN Front(st) /\ Front(st)[k] = st[k]
        \/ Last(st) = st[k]
    BY FrontIs
  <2> QED
    BY <2>1, <2>2 DEF Wired
<1> QED
  BY <1>1 DEF Wired

LEMMA PushWired ==
  ASSUME NEW F, NEW st \in Seq(F), NEW x \in F, NEW s, NEW l,
         Wired(s, st, l) \/ (x.f = "list" /\ x.list = l)
  PROVE  Wired(s, Append(st, x), l)
<1> DEFINE q == Append(st, x)
<1>1. /\ DOMAIN q = 1..(Len(st) + 1) /\ Len(st) \in Nat /\ DOMAIN st = 1..Len(st)
      /\ q[Len(st) + 1] = x /\ \A i \in DOMAIN st : q[i] = st[i]
  BY AppendSeq
<1> HIDE DEF q
<1>2. Len(st) + 1 \in DOMAIN q /\ \A i \in DOMAIN st : i \in DOMAIN q
  BY <1>1
<1>3. Wired(s, q, l)
  BY <1>1, <1>2 DEF Wired
<1> QED
  BY <1>3 DEF q

(* A frame that is not a list's is left. *)
LEMMA PopWiredOK ==
  ASSUME NEW F, NEW st \in Seq(F), st # <<>>, NEW s, WiredOK(s, st), Last(st).f # "list"
  PROVE  WiredOK(s, Front(st))
BY PopWired DEF WiredOK

LEMMA PushWiredOK ==
  ASSUME NEW F, NEW st \in Seq(F), NEW x \in F, NEW s, WiredOK(s, st)
  PROVE  WiredOK(s, Append(st, x))
BY PushWired DEF WiredOK

LEMMA PopCall ==
  ASSUME NEW F, NEW st \in Seq(F), st # <<>>, NEW s, NEW r, NEW b, NEW p,
         CallOK(s, st, b, p), ExitOK(s, st, p), b # "none", r.exiting = s.exiting,
         b = "ticks" => r.ticks = <<>> \/ Last(st).f # "ticks",
         b = "AsyncAfter" => Drained(r), p = "exit" => r.ticks = <<>>
  PROVE  CallOK(r, Front(st), b, p) /\ ExitOK(r, Front(st), p)
<1> DEFINE q == Front(st)
<1>1. /\ q \in Seq(F) /\ Len(q) = Len(st) - 1 /\ DOMAIN q = 1..(Len(st) - 1)
      /\ \A i \in 1..(Len(st) - 1) : q[i] = st[i]
      /\ Last(st) = st[Len(st)] /\ DOMAIN st = 1..Len(st) /\ Len(st) \in Nat \ {0}
  BY FrontIs
<1> HIDE DEF q
<1>2. \A k \in DOMAIN q : k \in DOMAIN st /\ q[k] = st[k]
  BY <1>1
<1>3. b = "ticks" => IF q = <<>> THEN r.ticks = <<>> ELSE q[1].f = "ticks"
  <2> SUFFICES ASSUME b = "ticks" PROVE IF q = <<>> THEN r.ticks = <<>> ELSE q[1].f = "ticks"
    OBVIOUS
  <2>1. st[1].f = "ticks"
    BY DEF CallOK
  <2>2. CASE q = <<>>
    <3>1. Len(st) = 1
      BY <1>1, <2>2
    <3> QED
      BY <1>1, <2>1, <2>2, <3>1
  <2>3. CASE q # <<>>
    <3>1. 1 \in DOMAIN q
      BY <1>1, <2>3
    <3> QED
      BY <1>2, <2>1, <2>3, <3>1
  <2> QED
    BY <2>2, <2>3
<1>4. b = "AsyncAfter" => p = "io" /\ \A k \in DOMAIN q : q[k].f = "js"
  BY <1>2 DEF CallOK
<1>5. CallOK(r, q, b, p)
  BY <1>3, <1>4 DEF CallOK
<1>6. ExitOK(r, q, p)
  BY <1>2 DEF ExitOK
<1> QED
  BY <1>5, <1>6 DEF q

LEMMA PushCall ==
  ASSUME NEW F, NEW st \in Seq(F), st # <<>>, NEW x \in F, NEW s, NEW r, NEW b, NEW p,
         CallOK(s, st, b, p), ExitOK(s, st, p), b # "none", b # "AsyncAfter", p # "exit",
         r.exiting = s.exiting
  PROVE  CallOK(r, Append(st, x), b, p) /\ ExitOK(r, Append(st, x), p)
<1> DEFINE q == Append(st, x)
<1>1. q # <<>> /\ q[1] = st[1]
  OBVIOUS
<1> HIDE DEF q
<1>2. CallOK(r, q, b, p)
  BY <1>1 DEF CallOK
<1>3. ExitOK(r, q, p)
  BY DEF ExitOK
<1> QED
  BY <1>2, <1>3 DEF q

----------------------------------------------------------------------------

LEMMA ThrowFatalInv ==
  ASSUME IInv, ThrowFatal
  PROVE  IInv'
<1>1. /\ loop' = loop /\ clock' = clock /\ stack' = <<>> /\ base' = "none" /\ phase' = "dead"
      /\ ran' = ran /\ ops' = ops + 1 /\ ops < MaxOps
  BY DEF ThrowFatal, Does
<1>2. ops + 1 \in 0..MaxOps /\ Sound(loop, clock, ops + 1)
  BY <1>1, Numbers
<1>3. <<>> \in Seq(FramesOf(loop, clock))
  OBVIOUS
<1>4. Holds(loop, <<>>, "none", "dead", ran)
  BY DEF IInv, Holds, Alive, ImmOK, CallOK, ExitOK
<1> QED
  BY <1>1, <1>2, <1>3, <1>4 DEF IInv, Bases, Phases

LEMMA ThrowCaughtInv ==
  ASSUME IInv, ThrowCaught
  PROVE  IInv'
<1> DEFINE st == Front(stack)
<1>1. /\ loop' = loop /\ clock' = clock /\ stack' = st /\ base' = "throw" /\ phase' = phase
      /\ ran' = ran /\ ops' = ops + 1 /\ ops < MaxOps /\ stack # <<>> /\ Last(stack).f = "js"
  BY DEF ThrowCaught, Does, Pop, InJs, At, Top
<1>2. ops + 1 \in 0..MaxOps /\ Sound(loop, clock, ops + 1)
  BY <1>1, Numbers
<1>3. base # "none" /\ Alive(phase) /\ WiredOK(loop, stack) /\ stack \in Seq(FramesOf(loop, clock))
  BY <1>1, Inside
<1>4. st \in Seq(FramesOf(loop, clock)) /\ \A k \in DOMAIN st : k \in DOMAIN stack /\ st[k] = stack[k]
  BY <1>1, <1>3, FrontIs
<1>5. WiredOK(loop, st)
  BY <1>1, <1>3, PopWiredOK
<1> HIDE DEF st
<1>6. ExitOK(loop, st, phase)
  BY <1>4 DEF IInv, Holds, ExitOK
<1>7. Holds(loop, st, "throw", phase, ran)
  <2>1. ImmOK(loop, "throw", phase) /\ CallOK(loop, st, "throw", phase)
    BY <1>3 DEF ImmOK, CallOK
  <2> QED
    BY <1>5, <1>6, <2>1 DEF IInv, Holds
<1> QED
  BY <1>1, <1>2, <1>4, <1>7 DEF IInv, Bases

LEMMA FatalExceptionInv ==
  ASSUME IInv, _fatalException
  PROVE  IInv'
<1> DEFINE q == Append(loop.imm, 0)
           r == [loop EXCEPT !.need = TRUE, !.imm = q]
<1>1. /\ base = "throw" /\ stack = <<>> /\ loop' = r /\ clock' = clock /\ stack' = <<>> /\ base' = "none"
      /\ phase' = phase /\ ran' = ran /\ ops' = ops
  BY DEF _fatalException, pushImmediate, TickImmediate
<1>2. r = [loop EXCEPT !.need = TRUE, !.imm = q] /\ q = Append(loop.imm, 0)
  OBVIOUS
<1> HIDE DEF q, r
<1>n. /\ ops \in Nat /\ clock \in Nat /\ StateOK(loop, clock, ops) /\ loop.set \in Nat /\ Sound(loop, clock, ops)
  BY Numbers DEF IInv
<1>a. loop.imm \in Seq(0..loop.set)
  BY <1>n, StateFields
<1>3. loop.imm \in Seq(0..loop.set) /\ 0 \in 0..loop.set
  BY <1>a, <1>n
<1>4. /\ q \in Seq(0..loop.set) /\ DOMAIN q = 1..(Len(loop.imm) + 1) /\ Len(loop.imm) \in Nat
      /\ q[Len(loop.imm) + 1] = 0
  BY <1>2, <1>3, AppendSeq
<1>5. SameTicks(loop, r) /\ r.need /\ r.imm = q /\ r.set = loop.set
  BY <1>2, <1>n DEF StateOK, SameTicks, SameCore
<1>6. StateOK(r, clock, ops)
  <2>1. ListsOf(r) = ListsOf(loop)
    BY <1>5 DEF ListsOf, SameTicks, SameCore
  <2> QED
    BY <1>2, <1>4, <1>5, <1>n, <2>1 DEF StateOK, SameTicks, SameCore
<1>7. Sound(r, clock, ops)
  BY <1>5, <1>6, <1>n, CoreSound DEF SameTicks
<1>8. TickSet(r)
  <2>1. Len(loop.imm) + 1 \in DOMAIN q
    BY <1>4
  <2> QED
    BY <1>4, <1>5, <2>1 DEF TickSet, TickImmediate
<1>9. Drained(r)
  BY <1>8 DEF Drained
<1>10. /\ TicksOK(loop, ran) /\ Alive(phase) /\ WiredOK(loop, <<>>)
  BY <1>1 DEF IInv, Holds, CallOK
<1>11. TicksOK(r, ran) /\ WiredOK(r, <<>>)
  BY <1>5, <1>10, SameTicksHolds
<1>12. ExitOK(r, <<>>, phase)
  BY <1>5 DEF IInv, Holds, ExitOK, SameTicks
<1>13. CallOK(r, <<>>, "none", phase) /\ ImmOK(r, "none", phase)
  BY <1>5, <1>8, <1>9, <1>10 DEF CallOK, ImmOK
<1>14. Holds(r, <<>>, "none", phase, ran)
  BY <1>11, <1>12, <1>13 DEF Holds
<1>15. /\ r.queued = loop.queued /\ r.timer = loop.timer /\ <<>> \in Seq(FramesOf(r, clock))
  BY <1>5 DEF SameTicks, SameCore
<1> QED
  BY <1>1, <1>7, <1>14, <1>15 DEF IInv, Bases

(* The immediate i is taken out of the queues that are at work. *)
WithoutImm(st, i) ==
  [k \in DOMAIN st |-> IF st[k].f = "immediates"
                       THEN ImmFrame(RemoveFirst(st[k].queue, i)) ELSE st[k]]

(* The same frames but for the immediates in them. *)
SameFrames(st, su) ==
  /\ DOMAIN su = DOMAIN st
  /\ \A k \in DOMAIN st : su[k].f = st[k].f /\ (st[k].f # "immediates" => su[k] = st[k])

LEMMA MapStack ==
  ASSUME NEW s, NEW c, NEW st \in Seq(FramesOf(s, c)), NEW i, NEW su, su = WithoutImm(st, i)
  PROVE  su \in Seq(FramesOf(s, c)) /\ SameFrames(st, su)
<1>0. su = [k \in DOMAIN st |-> IF st[k].f = "immediates"
                                THEN ImmFrame(RemoveFirst(st[k].queue, i)) ELSE st[k]]
  BY DEF WithoutImm
<1> DEFINE F == FramesOf(s, c)
<1>1. DOMAIN st = 1..Len(st) /\ Len(st) \in Nat /\ \A k \in DOMAIN st : st[k] \in F
  OBVIOUS
<1>2. \A k \in DOMAIN st : st[k].f = "immediates" => st[k].queue \in Seq(0..s.set)
  BY <1>1, FrameKinds
<1>3. \A k \in DOMAIN st : st[k].f = "immediates" => RemoveFirst(st[k].queue, i) \in Seq(0..s.set)
  BY <1>2, RemoveProps
<1>4. \A q \in Seq(0..s.set) : ImmFrame(q) \in F /\ ImmFrame(q).f = "immediates"
  BY FramesIn
<1> HIDE DEF F
<1>5. DOMAIN su = DOMAIN st
  BY <1>0
<1>6. \A k \in DOMAIN st : su[k] \in F /\ su[k].f = st[k].f /\ (st[k].f # "immediates" => su[k] = st[k])
  <2> TAKE k \in DOMAIN st
  <2>1. CASE st[k].f = "immediates"
    <3>1. su[k] = ImmFrame(RemoveFirst(st[k].queue, i))
      BY <1>0, <2>1
    <3> QED
      BY <1>3, <1>4, <2>1, <3>1
  <2>2. CASE st[k].f # "immediates"
    BY <1>0, <1>1, <2>2
  <2> QED
    BY <2>1, <2>2
<1>7. su \in Seq(F)
  <2>1. su = [k \in DOMAIN st |-> su[k]]
    BY <1>0
  <2>2. su \in [1..Len(st) -> F]
    BY <1>1, <1>6, <2>1
  <2> QED
    BY <1>1, <2>2, SeqDef
<1> QED
  BY <1>5, <1>6, <1>7 DEF F, SameFrames

LEMMA SameFramesHolds ==
  ASSUME NEW F, NEW st \in Seq(F), NEW su \in Seq(F), SameFrames(st, su), st # <<>>
  PROVE  /\ \A s, l : Wired(s, st, l) => Wired(s, su, l)
         /\ \A s : WiredOK(s, st) => WiredOK(s, su)
         /\ su # <<>> /\ 1 \in DOMAIN st
<1>1. \A s, l : Wired(s, st, l) => Wired(s, su, l)
  <2>1. \A k \in DOMAIN st : st[k].f = "list" => su[k] = st[k] /\ k \in DOMAIN su
    BY DEF SameFrames
  <2> QED
    BY <2>1 DEF Wired
<1>2. \A s : WiredOK(s, st) => WiredOK(s, su)
  BY <1>1 DEF WiredOK
<1>3. 1 \in DOMAIN st
  OBVIOUS
<1>4. su # <<>>
  BY <1>3 DEF SameFrames
<1> QED
  BY <1>1, <1>2, <1>3, <1>4

LEMMA ClearImmediateInv ==
  ASSUME IInv, NEW i \in 1..loop.set, clearImmediate(i)
  PROVE  IInv'
<1> DEFINE q == RemoveFirst(loop.imm, i)
           b == loop.need /\ q # <<>>
           r == [loop EXCEPT !.imm = q, !.need = b]
           st == WithoutImm(stack, i)
<1>1. /\ loop' = r /\ clock' = clock /\ stack' = st /\ base' = base
      /\ phase' = phase /\ ran' = ran /\ ops' = ops + 1 /\ ops < MaxOps /\ stack # <<>>
  BY DEF clearImmediate, Does, InJs, At, WithoutImm
<1>2. /\ r = [loop EXCEPT !.imm = q, !.need = b] /\ q = RemoveFirst(loop.imm, i)
      /\ b = (loop.need /\ q # <<>>)
      /\ st = WithoutImm(stack, i)
  OBVIOUS
<1>m. ops + 1 \in 0..MaxOps
  BY <1>1, Numbers
<1> HIDE DEF q, b, r, st
<1>n. /\ ops + 1 \in Nat /\ clock \in Nat /\ StateOK(loop, clock, ops + 1) /\ loop.set \in Nat
      /\ Sound(loop, clock, ops + 1)
  BY Numbers
<1>3. loop.imm \in Seq(0..loop.set)
  BY <1>n, StateFields
<1>4. q \in Seq(0..loop.set) /\ Thinned(loop.imm, i, q)
  BY <1>2, <1>3, RemoveProps
<1>5. SameTicks(loop, r) /\ r.need = b /\ r.imm = q /\ r.set = loop.set
  BY <1>2, <1>n DEF StateOK, SameTicks, SameCore
<1>b. b \in BOOLEAN /\ (b <=> loop.need /\ q # <<>>)
  BY <1>2
<1>6. StateOK(r, clock, ops + 1)
  <2>1. ListsOf(r) = ListsOf(loop)
    BY <1>5 DEF ListsOf, SameTicks, SameCore
  <2> QED
    BY <1>2, <1>4, <1>5, <1>b, <1>n, <2>1 DEF StateOK, SameTicks, SameCore
<1>7. Sound(r, clock, ops + 1)
  BY <1>5, <1>6, <1>n, CoreSound DEF SameTicks
<1>8. TickSet(loop) => TickSet(r)
  <2>1. i # 0
    OBVIOUS
  <2>2. \A j \in DOMAIN loop.imm : loop.imm[j] # i => \E k \in DOMAIN q : q[k] = loop.imm[j]
    BY <1>4 DEF Thinned
  <2> QED
    BY <1>5, <2>1, <2>2 DEF TickSet, TickImmediate
<1>9. base # "none" /\ Alive(phase) /\ WiredOK(loop, stack) /\ stack \in Seq(FramesOf(loop, clock))
  BY <1>1, Inside
<1>10. st \in Seq(FramesOf(loop, clock)) /\ SameFrames(stack, st)
  BY <1>2, <1>9, MapStack
<1>11. WiredOK(loop, st) /\ st # <<>> /\ 1 \in DOMAIN stack
  BY <1>1, <1>9, <1>10, SameFramesHolds
<1>12. /\ TicksOK(loop, ran) /\ ImmOK(loop, base, phase) /\ CallOK(loop, stack, base, phase)
       /\ ExitOK(loop, stack, phase)
  BY DEF IInv, Holds
<1>13. TicksOK(r, ran) /\ WiredOK(r, st) /\ (Drained(loop) => Drained(r))
  BY <1>5, <1>8, <1>11, <1>12, SameTicksHolds
<1>14. ImmOK(r, base, phase)
  <2> SUFFICES ASSUME Alive(phase), base # "throw", q # <<>> PROVE loop.need
    BY <1>5, <1>b DEF ImmOK
  <2>1. 1 \in DOMAIN q
    BY <1>4
  <2>2. loop.imm # <<>>
    BY <1>4, <2>1 DEF Thinned
  <2> QED
    BY <1>12, <2>2 DEF ImmOK
<1>15. \A k \in DOMAIN st : k \in DOMAIN stack /\ st[k].f = stack[k].f
  BY <1>10 DEF SameFrames
<1>16. CallOK(r, st, base, phase)
  <2>1. base = "AsyncAfter" => Drained(r) /\ phase = "io" /\ \A k \in DOMAIN st : st[k].f = "js"
    BY <1>9, <1>12, <1>13, <1>15 DEF CallOK
  <2>2. base = "ticks" => st[1].f = "ticks"
    BY <1>1, <1>10, <1>11, <1>12, <1>15 DEF CallOK, SameFrames
  <2> QED
    BY <1>9, <1>11, <2>1, <2>2 DEF CallOK
<1>17. ExitOK(r, st, phase)
  <2> SUFFICES ASSUME phase = "exit", NEW k \in DOMAIN st PROVE st[k] = Js(NoTimeout)
    BY <1>5, <1>12 DEF ExitOK, SameTicks
  <2>1. stack[k] = Js(NoTimeout) /\ k \in DOMAIN stack
    BY <1>12, <1>15 DEF ExitOK
  <2>2. stack[k].f # "immediates"
    BY <2>1 DEF Js
  <2> QED
    BY <1>10, <2>1, <2>2 DEF SameFrames
<1>18. Holds(r, st, base, phase, ran)
  BY <1>13, <1>14, <1>16, <1>17 DEF Holds
<1>19. FramesOf(r, clock) = FramesOf(loop, clock) /\ r.queued = loop.queued /\ r.timer = loop.timer
  BY <1>5 DEF FramesOf, SameTicks, SameCore
<1> QED
  BY <1>1, <1>7, <1>10, <1>18, <1>19, <1>m DEF IInv

LEMMA ReturnInv ==
  ASSUME IInv, Return
  PROVE  IInv'
<1> DEFINE st == Front(stack)
           t == Top.t
           r == loop'
<1>1. /\ clock' = clock /\ stack' = st /\ base' = base /\ phase' = phase
      /\ ran' = ran /\ ops' = ops /\ stack # <<>> /\ Last(stack).f = "js" /\ base # "throw"
  BY DEF Return, Pop, InJs, At, Top
<1>n. /\ ops \in Nat /\ clock \in Nat /\ Sound(loop, clock, ops) /\ clock <= clock
      /\ loop.set \in Nat
  BY Numbers DEF IInv
<1>2. base # "none" /\ Alive(phase) /\ WiredOK(loop, stack) /\ stack \in Seq(FramesOf(loop, clock))
  BY <1>1, Inside
<1>3. st \in Seq(FramesOf(loop, clock)) /\ Last(stack) \in FramesOf(loop, clock)
  BY <1>1, <1>2, FrontIs
<1>4. t # NoTimeout => t \in DOMAIN loop.timer
  BY <1>1, <1>3, FrameKinds DEF Top
<1>5. Kept(loop, r, clock, ops)
  <2>1. CASE t # NoTimeout /\ loop.timer[t].repeat
    <3> DEFINE e == [loop.timer[t] EXCEPT !.after = loop.timer[t].delay]
               u == [loop EXCEPT !.timer[t] = e]
    <3>1. r = active(u, t)
      BY <2>1 DEF Return
    <3>2. e = [loop.timer[t] EXCEPT !.after = loop.timer[t].delay] /\ u = [loop EXCEPT !.timer[t] = e]
      OBVIOUS
    <3>3. t \in DOMAIN loop.timer
      BY <1>4, <2>1
    <3> HIDE DEF e, u, t, r
    <3>4. loop.timer[t] \in TimersAt(clock)
      BY <1>n, <3>3, StateFields DEF Sound
    <3>5. /\ e \in TimersAt(clock) /\ e.start = loop.timer[t].start /\ e.delay = loop.timer[t].delay
          /\ e.fired = loop.timer[t].fired /\ e.after = e.delay
      BY <3>2, <3>4 DEF TimersAt
    <3>6. Changed(loop, t, e, u, clock, ops)
      BY <1>n, <3>2, <3>3, <3>5, TimerKept
    <3>7. Kept(loop, u, clock, ops) /\ Sound(u, clock, ops) /\ t \in DOMAIN u.timer /\ u.timer[t] = e
      BY <3>3, <3>6 DEF Changed, Kept
    <3>8. u.timer[t].after = u.timer[t].delay
      BY <3>5, <3>7
    <3>9. Kept(u, r, clock, ops)
      BY <1>n, <3>1, <3>7, <3>8, ActiveKept
    <3> QED
      BY <3>7, <3>9, KeptTrans
  <2>2. CASE ~(t # NoTimeout /\ loop.timer[t].repeat)
    <3>1. r = loop
      BY <2>2 DEF Return
    <3> QED
      BY <1>n, <3>1, KeptSelf
  <2> QED
    BY <2>1, <2>2
<1> HIDE DEF st, t, r
<1>6. /\ Sound(r, clock, ops) /\ Keeps(loop, r) /\ SameRest(loop, r)
      /\ DOMAIN loop.list \subseteq DOMAIN r.list /\ DOMAIN r.timer = DOMAIN loop.timer
  BY <1>5 DEF Kept
<1>7. st \in Seq(FramesOf(r, clock))
  <2>1. loop.set <= r.set /\ r.set \in Nat
    BY <1>6, <1>n DEF SameRest
  <2>2. Seq(FramesOf(loop, clock)) \subseteq Seq(FramesOf(r, clock))
    BY <1>6, <1>n, <2>1, FramesLater
  <2> QED
    BY <1>3, <2>2
<1>8. WiredOK(r, st)
  <2>1. WiredOK(r, stack)
    BY <1>2, <1>6, KeepsWired
  <2> QED
    BY <1>1, <1>2, <2>1, PopWiredOK DEF st
<1>9. /\ TicksOK(loop, ran) /\ ImmOK(loop, base, phase) /\ CallOK(loop, stack, base, phase)
      /\ ExitOK(loop, stack, phase) /\ Len(loop.timer) <= MaxTimeouts
  BY DEF IInv, Holds
<1>10. TicksOK(r, ran)
  <2>1. \A k : User(r, k) <=> User(loop, k)
    BY <1>6 DEF SameRest, User
  <2> QED
    BY <1>6, <1>9, <2>1 DEF TicksOK, SameRest
<1>11. ImmOK(r, base, phase)
  BY <1>6, <1>9 DEF ImmOK, SameRest
<1>12. /\ base = "AsyncAfter" => Drained(r)
       /\ phase = "exit" => r.ticks = <<>>
       /\ r.exiting = loop.exiting
  BY <1>2, <1>6, <1>9 DEF CallOK, ExitOK, Drained, TickSet, SameRest
<1>13. CallOK(r, st, base, phase) /\ ExitOK(r, st, phase)
  BY <1>1, <1>2, <1>9, <1>12, PopCall DEF st
<1>14. Holds(r, st, base, phase, ran)
  BY <1>8, <1>10, <1>11, <1>13 DEF Holds
<1>15. Len(r.timer) <= MaxTimeouts
  <2>1. /\ DOMAIN loop.timer = 1..Len(loop.timer) /\ Len(loop.timer) \in Nat
    BY <1>n, StateFields DEF Sound
  <2>2. /\ DOMAIN r.timer = 1..Len(r.timer) /\ Len(r.timer) \in Nat
    BY <1>6, <1>n, StateFields DEF Sound
  <2> QED
    BY <1>6, <1>9, <2>1, <2>2
<1>16. r.queued = loop.queued
  BY <1>6 DEF SameRest
<1>17. loop' = r
  BY DEF r
<1> QED
  BY <1>1, <1>6, <1>7, <1>14, <1>15, <1>16, <1>17 DEF IInv

----------------------------------------------------------------------------
(* The frames of node.js and timers.js. *)

(* What is left of the invariant when the stack is set aside. *)
Carries(r) ==
  /\ Sound(r, clock, ops) /\ Len(r.timer) <= MaxTimeouts /\ r.exiting = loop.exiting
  /\ r.set = loop.set
  /\ DOMAIN loop.list \subseteq DOMAIN r.list /\ DOMAIN loop.timer \subseteq DOMAIN r.timer

LEMMA CarriesFrames ==
  ASSUME IInv, NEW r, Carries(r)
  PROVE  FramesOf(loop, clock) \subseteq FramesOf(r, clock)
         /\ Seq(FramesOf(loop, clock)) \subseteq Seq(FramesOf(r, clock))
<1>1. clock \in Nat /\ clock <= clock /\ loop.set \in Nat
  BY Numbers
<1>2. r.set \in Nat /\ loop.set <= r.set
  BY <1>1 DEF Carries
<1> QED
  BY <1>1, <1>2, FramesLater DEF Carries

LEMMA SameOutCarries ==
  ASSUME IInv, NEW r, SameOut(loop, r), StateOK(r, clock, ops)
  PROVE  Carries(r)
<1>1. Sound(loop, clock, ops)
  BY DEF IInv
<1>2. Sound(r, clock, ops)
  BY <1>1, CoreSound DEF SameOut
<1> QED
  BY <1>2 DEF Carries, SameOut, SameCore, IInv

LEMMA SameTicksCarries ==
  ASSUME IInv, NEW u, Carries(u), NEW r, SameTicks(u, r), r.set = u.set, StateOK(r, clock, ops)
  PROVE  Carries(r)
<1>1. Sound(r, clock, ops)
  BY CoreSound DEF SameTicks, Carries
<1> QED
  BY <1>1 DEF Carries, SameTicks, SameCore

LEMMA KeptCarries ==
  ASSUME IInv, NEW r, Kept(loop, r, clock, ops), WiredOK(loop, stack)
  PROVE  /\ Carries(r) /\ TicksOK(r, ran) /\ ImmOK(r, base, phase) /\ WiredOK(r, stack)
         /\ r.queued = loop.queued /\ r.ticks = loop.ticks
<1>n. ops \in Nat /\ clock \in Nat /\ Sound(loop, clock, ops)
  BY Numbers DEF IInv
<1>1. /\ Sound(r, clock, ops) /\ Keeps(loop, r) /\ SameRest(loop, r)
      /\ DOMAIN loop.list \subseteq DOMAIN r.list /\ DOMAIN r.timer = DOMAIN loop.timer
  BY DEF Kept
<1>2. WiredOK(r, stack)
  BY <1>1, KeepsWired
<1>3. /\ TicksOK(loop, ran) /\ ImmOK(loop, base, phase) /\ Len(loop.timer) <= MaxTimeouts
  BY DEF IInv, Holds
<1>4. TicksOK(r, ran)
  <2>1. \A k : User(r, k) <=> User(loop, k)
    BY <1>1 DEF SameRest, User
  <2> QED
    BY <1>1, <1>3, <2>1 DEF TicksOK, SameRest
<1>5. ImmOK(r, base, phase)
  BY <1>1, <1>3 DEF ImmOK, SameRest
<1>6. Len(r.timer) <= MaxTimeouts
  <2>1. /\ DOMAIN loop.timer = 1..Len(loop.timer) /\ Len(loop.timer) \in Nat
    BY <1>n, StateFields DEF Sound
  <2>2. /\ DOMAIN r.timer = 1..Len(r.timer) /\ Len(r.timer) \in Nat
    BY <1>1, <1>n, StateFields DEF Sound
  <2> QED
    BY <1>1, <1>3, <2>1, <2>2
<1> QED
  BY <1>1, <1>2, <1>4, <1>5, <1>6 DEF Carries, SameRest

(* A frame that is not the contract's is at work. *)
LEMMA AtWork ==
  ASSUME IInv, stack # <<>>, Last(stack).f # "js"
  PROVE  phase # "exit" /\ base # "AsyncAfter" /\ ~loop.exiting
<1>1. base # "none" /\ Alive(phase) /\ WiredOK(loop, stack) /\ stack \in Seq(FramesOf(loop, clock))
  BY Inside
<1>2. Len(stack) \in DOMAIN stack /\ Last(stack) = stack[Len(stack)]
  BY <1>1, FrontIs
<1>3. CallOK(loop, stack, base, phase) /\ ExitOK(loop, stack, phase)
  BY DEF IInv, Holds
<1>4. base # "AsyncAfter"
  BY <1>2, <1>3 DEF CallOK
<1>5. phase # "exit"
  BY <1>2, <1>3 DEF ExitOK, Js
<1>6. ~loop.exiting
  BY <1>1, <1>3, <1>5 DEF ExitOK, Alive
<1> QED
  BY <1>4, <1>5, <1>6

(* The finally clause of one frame. *)
Unwound(r) ==
  /\ Carries(r) /\ r.queued = loop.queued /\ TicksOK(r, ran) /\ WiredOK(r, Front(stack))
  /\ phase = "exit" => r.ticks = <<>>

LEMMA FinallyTick ==
  ASSUME IInv, NEW u, NEW e \in Ticks, NEW st, WiredOK(u, st) \/ e.kind = "list", Carries(u), ~u.exiting,
         u.queued = loop.queued, TicksOK(u, ran),
         \/ e.kind = "list" /\ e.n \in DOMAIN u.list
         \/ e.kind = "immediates",
         NEW r, r = pushTick(u, e)
  PROVE  /\ Carries(r) /\ r.queued = loop.queued /\ TicksOK(r, ran) /\ Queued(u, e, r)
         /\ WiredOK(u, st) => WiredOK(r, st)
<1>n. /\ ops \in Nat /\ clock \in Nat /\ ran \in Nat /\ loop.queued \in Nat /\ ran <= loop.queued
  BY Numbers
<1>1. Sound(u, clock, ops) /\ StateOK(u, clock, ops)
  BY DEF Carries, Sound
<1>2. u.queued \in Nat /\ u.queued <= ops
  <2>1. u.queued \in 0..ops
    BY <1>1, <1>n, StateFields
  <2> QED
    BY <1>n, <2>1
<1>3. r = WithTick(u, e, u.queued)
  BY <1>1 DEF pushTick, WithTick, StateOK
<1>4. StateOK(r, clock, ops) /\ Queued(u, e, r) /\ r.queued = u.queued
  BY <1>1, <1>2, <1>3, <1>n, QueuedOK
<1>5. SameOut(u, r) /\ SameCore(u, r)
  BY <1>4 DEF Queued, SameOut
<1>6. Sound(r, clock, ops)
  BY <1>1, <1>4, <1>5, CoreSound
<1>7. Carries(r)
  BY <1>5, <1>6 DEF Carries, SameOut, SameCore
<1>8. TicksOK(r, ran)
  BY <1>2, <1>4, <1>n, QueuedTicks
<1>9. WiredOK(u, st) => WiredOK(r, st)
  BY <1>4, <1>5, QueuedWired, CoreWired
<1> QED
  BY <1>4, <1>7, <1>8, <1>9

LEMMA FinallyOK ==
  ASSUME IInv, stack # <<>>, NEW r, r = Finally(loop, Last(stack))
  PROVE  Unwound(r)
<1> DEFINE x == Last(stack)
           st == Front(stack)
<1>n. /\ ops \in Nat /\ clock \in Nat /\ Sound(loop, clock, ops) /\ StateOK(loop, clock, ops)
      /\ loop.set \in Nat
  BY Numbers DEF IInv
<1>1. Alive(phase) /\ WiredOK(loop, stack) /\ stack \in Seq(FramesOf(loop, clock))
  BY Inside
<1>2. x \in FramesOf(loop, clock)
  BY <1>1, FrontIs
<1>3. TicksOK(loop, ran) /\ ExitOK(loop, stack, phase)
  BY DEF IInv, Holds
<1>4. Carries(loop)
  BY DEF IInv, Carries
<1>5. x.f # "list" => WiredOK(loop, st)
  BY <1>1, PopWiredOK
<1>6. \A l : Wired(loop, stack, l) => Wired(loop, st, l) \/ (x.f = "list" /\ x.list = l)
  BY <1>1, PopWired
<1>a. /\ x.f = "immediates" => x.queue \in Seq(0..loop.set)
      /\ x.f = "list" => x.list \in DOMAIN loop.list
  BY <1>2, FrameKinds
<1>w. x.f # "js" => phase # "exit" /\ ~loop.exiting
  BY AtWork
<1>f. r = Finally(loop, x)
  OBVIOUS
<1>g. st = Front(stack)
  OBVIOUS
<1> HIDE DEF x, st
<1>7. CASE x.f = "list"
  <2> DEFINE e == ListTick(x.list)
  <2>1. e \in Ticks /\ e.kind = "list" /\ e.n = x.list
    <3>0. DOMAIN loop.list = 1..Len(loop.list) /\ Len(loop.list) \in Nat
      BY <1>n, StateFields
    <3>1. x.list \in Nat
      BY <1>7, <1>a, <3>0
    <3> QED
      BY <3>1 DEF ListTick, Ticks
  <2>2. r = pushTick(loop, e)
    BY <1>7, <1>f DEF Finally
  <2> HIDE DEF e
  <2>3. Carries(r) /\ r.queued = loop.queued /\ TicksOK(r, ran) /\ Queued(loop, e, r)
    BY <1>3, <1>4, <1>7, <1>a, <1>w, <2>1, <2>2, FinallyTick
  <2>4. ASSUME NEW l \in DOMAIN loop.list, Wired(loop, stack, l) PROVE Wired(r, st, l)
    <3>1. CASE Wired(loop, st, l)
      BY <2>3, <3>1, QueuedWired
    <3>2. CASE l = x.list
      <4>1. /\ Len(loop.ticks) + 1 \in DOMAIN r.ticks /\ r.ticks[Len(loop.ticks) + 1] = e
            /\ Len(loop.ticks) + 1 > r.index
        BY <2>3 DEF Queued
      <4> QED
        BY <2>1, <3>2, <4>1 DEF Wired
    <3> QED
      BY <1>6, <2>4, <3>1, <3>2
  <2>5. WiredOK(r, st)
    <3>1. SameCore(loop, r)
      BY <2>3 DEF Queued, SameOut
    <3> QED
      BY <1>1, <2>4, <3>1, CoreWired
  <2> QED
    BY <1>7, <1>g, <1>w, <2>3, <2>5 DEF Unwound
<1>8. CASE x.f = "immediates" /\ x.queue # <<>>
  <2> DEFINE q == x.queue \o loop.imm
             u == [loop EXCEPT !.imm = q]
             e == ImmTick
  <2>1. e \in Ticks /\ e.kind = "immediates"
    BY DEF ImmTick, Ticks
  <2>2. r = pushTick(u, e)
    BY <1>8, <1>f DEF Finally
  <2>3. u = [loop EXCEPT !.imm = q] /\ q = x.queue \o loop.imm
    OBVIOUS
  <2> HIDE DEF e, q, u
  <2>4. q \in Seq(0..loop.set)
    <3>1. loop.imm \in Seq(0..loop.set) /\ x.queue \in Seq(0..loop.set)
      BY <1>8, <1>a, <1>n, StateFields
    <3> QED
      BY <2>3, <3>1
  <2>5. SameTicks(loop, u) /\ u.imm = q /\ u.set = loop.set
    BY <1>n, <2>3 DEF StateOK, SameTicks, SameCore
  <2>6. StateOK(u, clock, ops)
    <3>1. ListsOf(u) = ListsOf(loop)
      BY <2>5 DEF ListsOf, SameTicks, SameCore
    <3> QED
      BY <1>n, <2>3, <2>4, <2>5, <3>1 DEF StateOK, SameTicks, SameCore
  <2>7. Carries(u)
    BY <1>4, <2>5, <2>6, SameTicksCarries
  <2>8. TicksOK(u, ran) /\ WiredOK(u, st)
    BY <1>3, <1>5, <1>8, <2>5, SameTicksHolds
  <2>9. u.queued = loop.queued /\ ~u.exiting
    BY <1>8, <1>w, <2>5 DEF SameTicks
  <2>10. Carries(r) /\ r.queued = loop.queued /\ TicksOK(r, ran) /\ WiredOK(r, st)
    BY <2>1, <2>2, <2>7, <2>8, <2>9, FinallyTick
  <2> QED
    BY <1>8, <1>g, <1>w, <2>10 DEF Unwound
<1>9. CASE x.f = "ticks"
  <2>1. r = tickDone(loop)
    BY <1>9, <1>f DEF Finally
  <2>2. /\ StateOK(r, clock, ops) /\ Cut(loop, r) /\ loop.ticks \in Seq(Ticks)
        /\ loop.index \in 0..Len(loop.ticks)
    BY <1>n, <2>1, TickDoneOK
  <2>3. Carries(r) /\ r.queued = loop.queued
    BY <2>2, SameOutCarries DEF Cut
  <2>4. TicksOK(r, ran)
    BY <1>3, <2>2, CutTicks
  <2>5. WiredOK(r, st)
    BY <1>5, <1>9, <2>2, CutWired
  <2> QED
    BY <1>9, <1>g, <1>w, <2>3, <2>4, <2>5 DEF Unwound
<1>10. CASE x.f = "js" \/ (x.f = "immediates" /\ x.queue = <<>>)
  <2>1. r = loop
    BY <1>10, <1>f DEF Finally
  <2> QED
    BY <1>3, <1>4, <1>5, <1>10, <1>g, <2>1 DEF Unwound, ExitOK
<1> QED
  <2>1. x.f \in {"js", "ticks", "immediates", "list"}
    BY <1>2, FrameKinds
  <2> QED
    BY <1>7, <1>8, <1>9, <1>10, <2>1

LEMMA UnwindInv ==
  ASSUME IInv, Unwind
  PROVE  IInv'
<1> DEFINE st == Front(stack)
           r == Finally(loop, Last(stack))
<1>1. /\ clock' = clock /\ stack' = st /\ base = "throw" /\ base' = "throw" /\ phase' = phase
      /\ ran' = ran /\ ops' = ops /\ stack # <<>> /\ loop' = r
  BY DEF Unwind, Pop, Top
<1>2. Alive(phase) /\ WiredOK(loop, stack) /\ stack \in Seq(FramesOf(loop, clock))
  BY <1>1, Inside
<1>3. Unwound(r)
  BY <1>1, FinallyOK
<1>4. st \in Seq(FramesOf(loop, clock)) /\ \A k \in DOMAIN st : k \in DOMAIN stack /\ st[k] = stack[k]
  BY <1>1, <1>2, FrontIs
<1>5. st = Front(stack)
  OBVIOUS
<1> HIDE DEF st, r
<1>6. /\ Carries(r) /\ r.queued = loop.queued /\ TicksOK(r, ran) /\ WiredOK(r, st)
      /\ phase = "exit" => r.ticks = <<>>
  BY <1>3, <1>5 DEF Unwound
<1>7. ExitOK(r, st, phase)
  BY <1>4, <1>6 DEF IInv, Holds, ExitOK, Carries
<1>8. ImmOK(r, "throw", phase) /\ CallOK(r, st, "throw", phase)
  BY <1>2 DEF ImmOK, CallOK
<1>9. Holds(r, st, "throw", phase, ran)
  BY <1>6, <1>7, <1>8 DEF Holds
<1>10. st \in Seq(FramesOf(r, clock))
  BY <1>4, <1>6, CarriesFrames
<1> QED
  BY <1>1, <1>6, <1>9, <1>10 DEF IInv, Carries

LEMMA CallReturnsInv ==
  ASSUME IInv, CallReturns
  PROVE  IInv'
<1>1. /\ clock' = clock /\ phase' = phase /\ ran' = ran /\ ops' = ops /\ stack = <<>> /\ loop' = loop
      /\ base \notin {"none", "throw"}
  BY DEF CallReturns
<1>2. /\ TicksOK(loop, ran) /\ ImmOK(loop, base, phase) /\ CallOK(loop, stack, base, phase)
      /\ ExitOK(loop, stack, phase) /\ base \in Bases
  BY DEF IInv, Holds
<1>3. Alive(phase) /\ WiredOK(loop, stack)
  BY <1>1 DEF IInv, Holds, CallOK
<1>4. CASE base \in {"MakeCallback", "main"} /\ loop.ticks # <<>>
  <2>1. base' = "ticks" /\ stack' = Append(stack, TickFrame)
    BY <1>4 DEF CallReturns, Push
  <2>2. stack' = <<TickFrame>>
    BY <1>1, <2>1
  <2>3. TickFrame \in FramesOf(loop, clock) /\ TickFrame.f = "ticks"
    BY FramesIn
  <2>4. /\ stack' \in Seq(FramesOf(loop, clock)) /\ DOMAIN stack' = {1} /\ stack'[1] = TickFrame
        /\ stack' # <<>>
    BY <2>2, <2>3, SingleSeq
  <2>5. WiredOK(loop, stack')
    <3>1. stack \in Seq(FramesOf(loop, clock))
      BY DEF IInv
    <3> QED
      BY <1>3, <2>1, <2>3, <3>1, PushWiredOK
  <2>6. CallOK(loop, stack', "ticks", phase)
    BY <1>3, <2>3, <2>4 DEF CallOK
  <2>7. ExitOK(loop, stack', phase)
    BY <1>2, <1>4 DEF ExitOK
  <2>8. ImmOK(loop, "ticks", phase)
    BY <1>1, <1>2 DEF ImmOK
  <2>9. Holds(loop, stack', "ticks", phase, ran)
    BY <1>2, <2>5, <2>6, <2>7, <2>8 DEF Holds
  <2> QED
    BY <1>1, <2>1, <2>4, <2>9 DEF IInv, Bases
<1>5. CASE ~(base \in {"MakeCallback", "main"} /\ loop.ticks # <<>>)
  <2>1. base' = "none" /\ stack' = stack
    BY <1>5 DEF CallReturns
  <2>2. loop.ticks = <<>> \/ (base = "AsyncAfter" /\ phase = "io")
    BY <1>1, <1>2, <1>5 DEF CallOK, Bases
  <2>3. Drained(loop)
    <3>1. CASE loop.ticks = <<>>
      <4>1. DOMAIN loop.ticks = {}
        BY <3>1
      <4> QED
        BY <4>1 DEF Drained
    <3>2. CASE base = "AsyncAfter"
      BY <1>2, <1>3, <3>2 DEF CallOK
    <3> QED
      BY <2>2, <3>1, <3>2
  <2>4. CallOK(loop, stack, "none", phase)
    BY <1>1, <1>3, <2>2, <2>3 DEF CallOK
  <2>5. ImmOK(loop, "none", phase)
    BY <1>1, <1>2 DEF ImmOK
  <2>6. Holds(loop, stack, "none", phase, ran)
    BY <1>2, <1>3, <2>4, <2>5 DEF Holds
  <2> QED
    BY <1>1, <2>1, <2>6 DEF IInv, Bases
<1> QED
  BY <1>4, <1>5

(* What _tickCallback does first. *)
LEMMA CompactOK ==
  ASSUME IInv, WiredOK(loop, stack), NEW s, s = IF CompactAt < loop.index THEN tickDone(loop) ELSE loop
  PROVE  /\ StateOK(s, clock, ops) /\ SameOut(loop, s) /\ s.queued = loop.queued
         /\ TicksOK(s, ran) /\ WiredOK(s, stack)
<1>n. ops \in Nat /\ clock \in Nat /\ StateOK(loop, clock, ops)
  BY Numbers
<1>1. TicksOK(loop, ran)
  BY DEF IInv, Holds
<1>2. CASE CompactAt < loop.index
  <2>1. /\ StateOK(s, clock, ops) /\ Cut(loop, s) /\ loop.ticks \in Seq(Ticks)
        /\ loop.index \in 0..Len(loop.ticks)
    BY <1>2, <1>n, TickDoneOK
  <2>2. TicksOK(s, ran)
    BY <1>1, <2>1, CutTicks
  <2>3. WiredOK(s, stack)
    BY <2>1, CutWired
  <2> QED
    BY <2>1, <2>2, <2>3 DEF Cut
<1>3. CASE ~(CompactAt < loop.index)
  <2>1. s = loop
    BY <1>3
  <2> QED
    BY <1>1, <1>n, <2>1 DEF SameOut, SameCore
<1> QED
  BY <1>2, <1>3

LEMMA TimeSet ==
  ASSUME NEW s, NEW c \in Nat, NEW n \in Nat, StateOK(s, c, n), NEW r, r = [s EXCEPT !.time = c]
  PROVE  StateOK(r, c, n) /\ SameCalls(s, r) /\ r.reqs = s.reqs /\ r.socket = s.socket /\ r.closing = s.closing
<1>1. /\ SameCalls(s, r) /\ ListsOf(r) = ListsOf(s) /\ r.reqs = s.reqs /\ r.socket = s.socket
      /\ r.closing = s.closing
  BY DEF StateOK, SameCalls, SameCore, ListsOf
<1>2. c \in 0..c
  OBVIOUS
<1>3. StateOK(r, c, n)
  BY <1>1, <1>2 DEF StateOK, SameCalls, SameCore
<1> QED
  BY <1>1, <1>3

LEMMA ImmTaken ==
  ASSUME NEW s, NEW c \in Nat, NEW n \in Nat, StateOK(s, c, n), NEW r, r = StartImmediates(s)
  PROVE  StateOK(r, c, n) /\ SameTicks(s, r) /\ r.imm = <<>> /\ r.set = s.set /\ s.imm \in Seq(0..s.set)
<1>1. /\ SameTicks(s, r) /\ ListsOf(r) = ListsOf(s) /\ r.imm = <<>> /\ r.set = s.set
      /\ r = [s EXCEPT !.imm = <<>>]
  BY DEF StateOK, SameTicks, SameCore, ListsOf, StartImmediates
<1>2. <<>> \in Seq(0..s.set) /\ s.imm \in Seq(0..s.set)
  BY StateFields
<1>3. StateOK(r, c, n)
  BY <1>1, <1>2 DEF StateOK, SameTicks, SameCore
<1> QED
  BY <1>1, <1>2, <1>3

LEMMA TickCallbackInv ==
  ASSUME IInv, _tickCallback
  PROVE  IInv'
<1> DEFINE s == IF CompactAt < loop.index THEN tickDone(loop) ELSE loop
<1>1. /\ clock' = clock /\ phase' = phase /\ base' = base /\ ops' = ops /\ stack # <<>>
      /\ Last(stack).f = "ticks" /\ base # "throw"
  BY DEF _tickCallback, At, Top
<1>n. ops \in Nat /\ clock \in Nat /\ ran \in Nat /\ loop.queued \in Nat /\ StateOK(loop, clock, ops)
  BY Numbers
<1>2. base # "none" /\ Alive(phase) /\ WiredOK(loop, stack) /\ stack \in Seq(FramesOf(loop, clock))
  BY <1>1, Inside
<1>3. phase # "exit" /\ base # "AsyncAfter" /\ ~loop.exiting
  BY <1>1, AtWork
<1>4. /\ StateOK(s, clock, ops) /\ SameOut(loop, s) /\ s.queued = loop.queued
      /\ TicksOK(s, ran) /\ WiredOK(s, stack)
  BY <1>2, CompactOK
<1>5. /\ CallOK(loop, stack, base, phase) /\ ExitOK(loop, stack, phase) /\ ImmOK(loop, base, phase)
  BY DEF IInv, Holds
<1>6. CASE s.index < Len(s.ticks)
  <2> DEFINE e == s.ticks[s.index + 1]
             u == [s EXCEPT !.index = @ + 1]
  <2>1. CallTick(e, u)
    BY <1>6 DEF _tickCallback
  <2> HIDE DEF s
  <2>2. StateOK(u, clock, ops) /\ Taken(s, e, u) /\ e \in Ticks
    BY <1>4, <1>6, <1>n, TakenOK
  <2> HIDE DEF e, u
  <2>3. SameOut(loop, u) /\ u.queued = loop.queued
    BY <1>4, <2>2 DEF Taken, SameOut, SameCore
  <2>4. Carries(u)
    BY <2>2, <2>3, SameOutCarries
  <2>5. /\ e.kind # "user" => TicksOK(u, ran)
        /\ e.kind = "user" => e.n = ran + 1 /\ ran + 1 <= loop.queued /\ TicksOK(u, ran + 1)
    BY <1>4, <1>n, <2>2, TakenTicks
  <2>6. \A l \in DOMAIN s.list :
          Wired(s, stack, l) => Wired(u, stack, l) \/ (e.kind = "list" /\ e.n = l)
    BY <2>2, TakenWired
  <2>7. SameCore(s, u)
    BY <2>2 DEF Taken, SameOut
  <2>8. e.kind # "list" => WiredOK(u, stack)
    BY <1>4, <2>6, <2>7, CoreWired
  <2>9. ImmOK(u, base, phase)
    BY <1>5, <2>3 DEF ImmOK, SameOut
  <2>10. CASE e.kind = "user"
    <3> DEFINE x == Js(NoTimeout)
               st == Append(stack, x)
    <3>1. loop' = u /\ stack' = st /\ ran' = ran + 1
      BY <2>1, <2>5, <2>10 DEF CallTick, Push
    <3>2. x \in FramesOf(loop, clock)
      BY FramesIn
    <3>3. st \in Seq(FramesOf(loop, clock))
      BY <1>2, <3>2
    <3>4. st \in Seq(FramesOf(u, clock))
      BY <2>4, <3>3, CarriesFrames
    <3>5. WiredOK(u, st)
      BY <1>2, <2>8, <2>10, <3>2, PushWiredOK
    <3>6. CallOK(u, st, base, phase) /\ ExitOK(u, st, phase)
      <4>1. u.exiting = loop.exiting
        BY <2>4 DEF Carries
      <4> QED
        BY <1>1, <1>2, <1>3, <1>5, <3>2, <4>1, PushCall
    <3> HIDE DEF st
    <3>7. Holds(u, st, base, phase, ran + 1)
      BY <2>5, <2>9, <2>10, <3>5, <3>6 DEF Holds
    <3>8. ran + 1 \in 0..u.queued
      BY <1>n, <2>3, <2>5, <2>10
    <3> QED
      BY <1>1, <2>4, <3>1, <3>4, <3>7, <3>8 DEF IInv, Carries
  <2>11. CASE e.kind = "list"
    <3> DEFINE x == ListFrame(e.n, clock)
               st == Append(stack, x)
               r == [u EXCEPT !.time = clock]
    <3>1. loop' = r /\ stack' = st /\ ran' = ran
      BY <2>1, <2>11 DEF CallTick, Push, StartList
    <3>2. e.n \in DOMAIN loop.list /\ clock \in 0..clock
      <4>1. s.index + 1 \in DOMAIN s.ticks /\ s.ticks[s.index + 1] = e
        BY <2>2 DEF Taken
      <4>2. e.n \in DOMAIN s.list
        BY <1>4, <2>11, <4>1 DEF TicksOK
      <4> QED
        BY <1>4, <1>n, <4>2 DEF SameOut, SameCore
    <3>3. x \in FramesOf(loop, clock) /\ x.f = "list" /\ x.list = e.n
      BY <3>2 DEF ListFrame, FramesOf
    <3>4. StateOK(r, clock, ops) /\ SameCalls(u, r)
      BY <1>n, <2>2, TimeSet
    <3>5. st \in Seq(FramesOf(loop, clock))
      BY <1>2, <3>3
    <3> HIDE DEF x, r
    <3>6. Carries(r) /\ r.queued = loop.queued
      <4>1. SameTicks(u, r) /\ r.set = u.set /\ r.queued = u.queued
        BY <3>4 DEF SameTicks, SameCalls
      <4> QED
        BY <2>3, <2>4, <3>4, <4>1, SameTicksCarries
    <3>7. st \in Seq(FramesOf(r, clock))
      BY <3>5, <3>6, CarriesFrames
    <3>8. WiredOK(r, st)
      <4>1. ASSUME NEW l \in DOMAIN s.list, Wired(s, stack, l) PROVE Wired(r, st, l)
        <5>1. Wired(u, stack, l) \/ (x.f = "list" /\ x.list = l)
          BY <2>6, <3>3, <4>1
        <5>2. Wired(u, st, l)
          BY <1>2, <3>3, <5>1, PushWired
        <5> QED
          BY <3>4, <5>2, PlainHolds
      <4>2. SameCore(s, r)
        BY <2>7, <3>4 DEF SameCore, SameCalls
      <4> HIDE DEF st
      <4> QED
        BY <1>4, <4>1, <4>2, CoreWired
    <3>9. CallOK(r, st, base, phase) /\ ExitOK(r, st, phase)
      <4>1. r.exiting = loop.exiting
        BY <3>6 DEF Carries
      <4> QED
        BY <1>1, <1>2, <1>3, <1>5, <3>3, <4>1, PushCall
    <3> HIDE DEF st
    <3>10. TicksOK(r, ran) /\ ImmOK(r, base, phase)
      <4>1. TicksOK(r, ran)
        BY <2>5, <2>11, <3>4, PlainHolds
      <4> QED
        BY <2>9, <3>4, <4>1 DEF ImmOK, SameCalls
    <3>11. Holds(r, st, base, phase, ran)
      BY <3>8, <3>9, <3>10 DEF Holds
    <3> QED
      BY <1>1, <3>1, <3>6, <3>7, <3>11 DEF IInv, Carries
  <2>12. CASE e.kind = "immediates"
    <3> DEFINE x == ImmFrame(u.imm)
               st == Append(stack, x)
               r == StartImmediates(u)
    <3>1. loop' = r /\ stack' = st /\ ran' = ran
      BY <2>1, <2>12 DEF CallTick, Push
    <3>2. StateOK(r, clock, ops) /\ SameTicks(u, r) /\ r.imm = <<>> /\ r.set = u.set /\ u.imm \in Seq(0..u.set)
      BY <1>n, <2>2, ImmTaken
    <3>3. x \in FramesOf(loop, clock)
      <4>1. u.imm \in Seq(0..loop.set)
        BY <2>3, <3>2 DEF SameOut
      <4> QED
        BY <4>1, FramesIn
    <3>4. st \in Seq(FramesOf(loop, clock))
      BY <1>2, <3>3
    <3> HIDE DEF x, r
    <3>5. Carries(r) /\ r.queued = loop.queued
      <4>1. r.queued = u.queued
        BY <3>2 DEF SameTicks
      <4> QED
        BY <2>3, <2>4, <3>2, <4>1, SameTicksCarries
    <3>6. st \in Seq(FramesOf(r, clock))
      BY <3>4, <3>5, CarriesFrames
    <3>7. WiredOK(r, st)
      <4>1. WiredOK(u, st)
        BY <1>2, <2>8, <2>12, <3>3, PushWiredOK
      <4> QED
        BY <3>2, <4>1, SameTicksHolds
    <3>8. CallOK(r, st, base, phase) /\ ExitOK(r, st, phase)
      <4>1. r.exiting = loop.exiting
        BY <3>5 DEF Carries
      <4> QED
        BY <1>1, <1>2, <1>3, <1>5, <3>3, <4>1, PushCall
    <3> HIDE DEF st
    <3>9. TicksOK(r, ran) /\ ImmOK(r, base, phase)
      <4>1. TicksOK(r, ran)
        BY <2>5, <2>12, <3>2, SameTicksHolds
      <4> QED
        BY <3>2, <4>1 DEF ImmOK
    <3>10. Holds(r, st, base, phase, ran)
      BY <3>7, <3>8, <3>9 DEF Holds
    <3> QED
      BY <1>1, <3>1, <3>5, <3>6, <3>10 DEF IInv, Carries
  <2>13. e.kind \in {"user", "list", "immediates"}
    BY <2>2 DEF Ticks
  <2> QED
    BY <2>10, <2>11, <2>12, <2>13
<1>7. CASE ~(s.index < Len(s.ticks))
  <2> DEFINE r == tickDone(s)
             st == Front(stack)
  <2>1. loop' = r /\ stack' = st /\ ran' = ran
    BY <1>7 DEF _tickCallback, Pop
  <2> HIDE DEF s
  <2>2. /\ StateOK(r, clock, ops) /\ Cut(s, r) /\ s.ticks \in Seq(Ticks)
        /\ s.index \in 0..Len(s.ticks) /\ Len(r.ticks) = Len(s.ticks) - s.index /\ r.ticks \in Seq(Ticks)
    BY <1>4, <1>n, TickDoneOK
  <2> HIDE DEF r
  <2>3. r.ticks = <<>>
    <3>1. Len(r.ticks) = 0
      BY <1>7, <2>2
    <3> QED
      BY <2>2, <3>1
  <2>4. SameOut(loop, r) /\ r.queued = loop.queued
    BY <1>4, <2>2 DEF Cut, SameOut, SameCore
  <2>5. Carries(r)
    BY <2>2, <2>4, SameOutCarries
  <2>6. TicksOK(r, ran)
    BY <1>4, <2>2, CutTicks
  <2>7. WiredOK(r, st)
    <3>1. WiredOK(r, stack)
      BY <1>4, <2>2, CutWired
    <3> QED
      BY <1>1, <1>2, <3>1, PopWiredOK
  <2>8. st \in Seq(FramesOf(r, clock))
    <3>1. st \in Seq(FramesOf(loop, clock))
      BY <1>1, <1>2, FrontIs
    <3> QED
      BY <2>5, <3>1, CarriesFrames
  <2>9. CallOK(r, st, base, phase) /\ ExitOK(r, st, phase)
    <3>1. r.exiting = loop.exiting
      BY <2>5 DEF Carries
    <3> QED
      BY <1>1, <1>2, <1>3, <1>5, <2>3, <3>1, PopCall
  <2> HIDE DEF st
  <2>10. ImmOK(r, base, phase)
    BY <1>5, <2>4 DEF ImmOK, SameOut
  <2>11. Holds(r, st, base, phase, ran)
    BY <2>6, <2>7, <2>9, <2>10 DEF Holds
  <2> QED
    BY <1>1, <2>1, <2>4, <2>5, <2>8, <2>11 DEF IInv, Carries
<1> QED
  BY <1>6, <1>7

LEMMA TailSeq ==
  ASSUME NEW S, NEW q \in Seq(S), q # <<>>
  PROVE  Tail(q) \in Seq(S)
  OBVIOUS

LEMMA ProcessImmediateInv ==
  ASSUME IInv, processImmediate
  PROVE  IInv'
<1> DEFINE x == Last(stack)
           st == Front(stack)
<1>1. /\ clock' = clock /\ phase' = phase /\ base' = base /\ ops' = ops /\ ran' = ran /\ stack # <<>>
      /\ x.f = "immediates" /\ base # "throw"
  BY DEF processImmediate, At, Top
<1>n. /\ ops \in Nat /\ clock \in Nat /\ StateOK(loop, clock, ops) /\ loop.set \in Nat
      /\ Sound(loop, clock, ops)
  BY Numbers DEF IInv
<1>2. base # "none" /\ Alive(phase) /\ WiredOK(loop, stack) /\ stack \in Seq(FramesOf(loop, clock))
  BY <1>1, Inside
<1>3. phase # "exit" /\ base # "AsyncAfter" /\ ~loop.exiting
  BY <1>1, AtWork
<1>4. /\ st \in Seq(FramesOf(loop, clock)) /\ Len(st) = Len(stack) - 1 /\ Len(stack) \in Nat \ {0}
      /\ \A i \in 1..(Len(stack) - 1) : st[i] = stack[i]
      /\ x = stack[Len(stack)] /\ x \in FramesOf(loop, clock)
  BY <1>1, <1>2, FrontIs
<1>5. WiredOK(loop, st)
  BY <1>1, <1>2, PopWiredOK
<1>6. /\ CallOK(loop, stack, base, phase) /\ ExitOK(loop, stack, phase) /\ ImmOK(loop, base, phase)
      /\ TicksOK(loop, ran)
  BY DEF IInv, Holds
<1>q. x.queue \in Seq(0..loop.set)
  BY <1>1, <1>4, FrameKinds
<1>7. CASE x.queue # <<>>
  <2> DEFINE a == ImmFrame(Tail(x.queue))
             b == IF Head(x.queue) = TickImmediate THEN TickFrame ELSE Js(NoTimeout)
             sa == Append(st, a)
             su == Append(sa, b)
  <2>1. loop' = loop /\ stack' = su
    BY <1>7 DEF processImmediate, Top
  <2>2. a \in FramesOf(loop, clock)
    <3>1. Tail(x.queue) \in Seq(0..loop.set)
      BY <1>7, <1>q, TailSeq
    <3> QED
      BY <3>1, FramesIn
  <2>3. b \in FramesOf(loop, clock)
    BY FramesIn
  <2> HIDE DEF a, b, x, st
  <2>4. sa \in Seq(FramesOf(loop, clock)) /\ sa[1] = IF Len(stack) = 1 THEN a ELSE stack[1]
    BY <1>4, <2>2
  <2>5. sa # <<>>
    BY <1>4
  <2>6. WiredOK(loop, sa)
    BY <1>4, <1>5, <2>2, PushWiredOK
  <2> HIDE DEF sa
  <2>7. su \in Seq(FramesOf(loop, clock)) /\ su[1] = sa[1] /\ su # <<>>
    BY <2>3, <2>4, <2>5
  <2>8. WiredOK(loop, su)
    BY <2>3, <2>4, <2>6, PushWiredOK
  <2> HIDE DEF su
  <2>9. base = "ticks" => su[1].f = "ticks"
    <3> SUFFICES ASSUME base = "ticks" PROVE su[1].f = "ticks"
      OBVIOUS
    <3>1. stack[1].f = "ticks"
      BY <1>1, <1>6 DEF CallOK
    <3>2. Len(stack) # 1
      BY <1>1, <1>4, <3>1
    <3> QED
      BY <2>4, <2>7, <3>1, <3>2
  <2>10. CallOK(loop, su, base, phase)
    BY <1>2, <1>3, <2>7, <2>9 DEF CallOK
  <2>11. ExitOK(loop, su, phase)
    BY <1>3 DEF ExitOK
  <2>12. Holds(loop, su, base, phase, ran)
    BY <1>6, <2>8, <2>10, <2>11 DEF Holds
  <2> QED
    BY <1>1, <2>1, <2>7, <2>12 DEF IInv
<1>8. CASE x.queue = <<>>
  <2> DEFINE d == IF loop.imm = <<>> THEN FALSE ELSE loop.need
             r == [loop EXCEPT !.need = d]
  <2>1. loop' = r /\ stack' = st
    BY <1>8 DEF processImmediate, Pop, Top
  <2>2. d \in BOOLEAN /\ (loop.imm # <<>> => d = loop.need)
    <3>1. loop.need \in BOOLEAN
      BY <1>n, StateFields
    <3> QED
      BY <3>1
  <2>3. r = [loop EXCEPT !.need = d]
    OBVIOUS
  <2> HIDE DEF d, r
  <2>4. SameTicks(loop, r) /\ r.need = d /\ r.imm = loop.imm /\ r.set = loop.set
    BY <1>n, <2>3 DEF StateOK, SameTicks, SameCore
  <2>5. StateOK(r, clock, ops)
    <3>1. ListsOf(r) = ListsOf(loop)
      BY <2>4 DEF ListsOf, SameTicks, SameCore
    <3> QED
      BY <1>n, <2>2, <2>3, <2>4, <3>1 DEF StateOK, SameTicks, SameCore
  <2>6. Carries(r)
    <3>1. Carries(loop)
      BY DEF IInv, Carries
    <3> QED
      BY <2>4, <2>5, <3>1, SameTicksCarries
  <2>7. TicksOK(r, ran) /\ WiredOK(r, st)
    BY <1>5, <1>6, <2>4, SameTicksHolds
  <2>8. ImmOK(r, base, phase)
    BY <1>6, <2>2, <2>4 DEF ImmOK
  <2>9. CallOK(r, st, base, phase) /\ ExitOK(r, st, phase)
    <3>1. r.exiting = loop.exiting
      BY <2>6 DEF Carries
    <3> QED
      BY <1>1, <1>2, <1>3, <1>6, <3>1, PopCall
  <2>10. st \in Seq(FramesOf(r, clock))
    BY <1>4, <2>6, CarriesFrames
  <2> HIDE DEF st
  <2>11. Holds(r, st, base, phase, ran)
    BY <2>7, <2>8, <2>9 DEF Holds
  <2>12. r.queued = loop.queued
    BY <2>4 DEF SameTicks
  <2> QED
    BY <1>1, <2>1, <2>6, <2>10, <2>11, <2>12 DEF IInv, Carries
<1> QED
  BY <1>7, <1>8

(* Where listOnTimeout is. *)
LEMMA AtList ==
  ASSUME IInv, At("list")
  PROVE  /\ stack # <<>> /\ base # "none" /\ base # "throw" /\ base # "AsyncAfter" /\ phase # "exit"
         /\ Alive(phase) /\ WiredOK(loop, stack) /\ stack \in Seq(FramesOf(loop, clock))
         /\ Last(stack).f = "list" /\ Last(stack).list \in DOMAIN loop.list
         /\ Last(stack).now \in 0..clock
         /\ loop.list[Last(stack).list] \in ListsOf(loop)
         /\ loop.list[Last(stack).list].items \in Seq(DOMAIN loop.timer)
<1>1. stack # <<>> /\ base # "throw" /\ Last(stack).f = "list"
  BY DEF At, Top
<1>2. base # "none" /\ Alive(phase) /\ WiredOK(loop, stack) /\ stack \in Seq(FramesOf(loop, clock))
  BY <1>1, Inside
<1>3. phase # "exit" /\ base # "AsyncAfter"
  BY <1>1, AtWork
<1>4. Last(stack) \in FramesOf(loop, clock)
  BY <1>1, <1>2, FrontIs
<1>5. Last(stack).list \in DOMAIN loop.list /\ Last(stack).now \in 0..clock
  BY <1>1, <1>4, FrameKinds
<1>6. loop.list[Last(stack).list] \in ListsOf(loop)
  BY <1>5, Numbers, StateFields
<1>7. loop.list[Last(stack).list].items \in Seq(DOMAIN loop.timer)
  BY <1>6 DEF ListsOf
<1> QED
  BY <1>1, <1>2, <1>3, <1>5, <1>6, <1>7

(* listOnTimeout returns: its list is looked at no more, or active. *)
LEMMA ListPops ==
  ASSUME IInv, At("list"), NEW r, Kept(loop, r, clock, ops),
         ~Matters(r, Last(stack).list) \/ InHeap(r, Last(stack).list),
         loop' = r, Pop, UNCHANGED <<clock, base, phase, ops, ran>>
  PROVE  IInv'
<1> DEFINE st == Front(stack)
           l == Last(stack).list
<1>1. /\ stack # <<>> /\ base # "none" /\ base # "throw" /\ base # "AsyncAfter" /\ phase # "exit"
      /\ Alive(phase) /\ WiredOK(loop, stack) /\ stack \in Seq(FramesOf(loop, clock))
      /\ Last(stack).f = "list"
  BY AtList
<1>2. /\ Carries(r) /\ TicksOK(r, ran) /\ ImmOK(r, base, phase) /\ WiredOK(r, stack)
      /\ r.queued = loop.queued
  BY <1>1, KeptCarries
<1>3. stack' = st
  BY DEF Pop
<1>4. WiredOK(r, st)
  <2> SUFFICES ASSUME NEW y \in DOMAIN r.list, Matters(r, y) PROVE r.list[y].open /\ Wired(r, st, y)
    BY DEF WiredOK
  <2>1. r.list[y].open /\ Wired(r, stack, y)
    BY <1>2 DEF WiredOK
  <2>2. Wired(r, st, y) \/ y = l
    BY <1>1, <2>1, PopWired
  <2>3. y = l => Wired(r, st, y)
    BY DEF Wired
  <2> QED
    BY <2>1, <2>2, <2>3
<1>5. st \in Seq(FramesOf(r, clock))
  <2>1. st \in Seq(FramesOf(loop, clock))
    BY <1>1, FrontIs
  <2> QED
    BY <1>2, <2>1, CarriesFrames
<1>6. CallOK(r, st, base, phase) /\ ExitOK(r, st, phase)
  <2>1. CallOK(loop, stack, base, phase) /\ ExitOK(loop, stack, phase) /\ r.exiting = loop.exiting
    BY <1>2 DEF IInv, Holds, Carries
  <2> QED
    BY <1>1, <2>1, PopCall
<1> HIDE DEF st
<1>7. Holds(r, st, base, phase, ran)
  BY <1>2, <1>4, <1>6 DEF Holds
<1> QED
  BY <1>2, <1>3, <1>5, <1>7 DEF IInv, Carries

LEMMA ListOnTimeoutInv ==
  ASSUME IInv, listOnTimeout
  PROVE  IInv'
<1> DEFINE x == Last(stack)
           l == x.list
           items == loop.list[l].items
           first == Head(items)
           t == loop.timer[first]
           diff == x.now - t.start
<1>1. /\ clock' = clock /\ phase' = phase /\ base' = base /\ ops' = ops /\ ran' = ran
      /\ UNCHANGED <<clock, base, phase, ops, ran>> /\ At("list")
  BY DEF listOnTimeout
<1>n. /\ ops \in Nat /\ clock \in Nat /\ Sound(loop, clock, ops)
  BY Numbers DEF IInv
<1>2. /\ stack # <<>> /\ base # "none" /\ base # "throw" /\ base # "AsyncAfter" /\ phase # "exit"
      /\ Alive(phase) /\ WiredOK(loop, stack) /\ stack \in Seq(FramesOf(loop, clock))
      /\ x.f = "list" /\ l \in DOMAIN loop.list /\ x.now \in 0..clock
      /\ loop.list[l] \in ListsOf(loop) /\ items \in Seq(DOMAIN loop.timer)
  BY <1>1, AtList
<1>3. CASE items = <<>>
  <2> DEFINE r == [Close(loop, l) EXCEPT !.lists[loop.list[l].msecs] = NoList]
  <2>1. loop' = r /\ Pop
    BY <1>3 DEF listOnTimeout, Top
  <2>2. Kept(loop, r, clock, ops) /\ ~Matters(r, l)
    BY <1>2, <1>3, <1>n, RetireKept
  <2> HIDE DEF r
  <2> QED
    BY <1>1, <2>1, <2>2, ListPops
<1>4. ASSUME items # <<>> PROVE IInv'
  <2>1. first \in DOMAIN loop.timer /\ 1 \in DOMAIN items /\ first = items[1]
    BY <1>2, <1>4
  <2>2. t \in TimersAt(clock)
    BY <1>n, <2>1, StateFields DEF Sound
  <2>3. t.start \in 0..clock /\ loop.list[l].msecs \in Nat
    BY <1>2, <2>2, Bounds DEF TimersAt, ListsOf
  <2>4. diff \in Int
    BY <1>2, <1>n, <2>3
  <2>5. CASE diff < loop.list[l].msecs
    <3> DEFINE d == loop.list[l].msecs - diff
               r == uv_timer_start(loop, l, d)
    <3>1. loop' = r /\ Pop
      BY <1>4, <2>5 DEF listOnTimeout, Top
    <3>2. d \in Nat
      BY <2>3, <2>4, <2>5
    <3>3. loop.list[l].open
      BY <1>2, <1>4 DEF WiredOK, Matters
    <3> HIDE DEF d
    <3>4. Kept(loop, r, clock, ops) /\ InHeap(r, l)
      BY <1>2, <1>n, <3>2, <3>3, StartKept
    <3> HIDE DEF r
    <3> QED
      BY <1>1, <3>1, <3>4, ListPops
  <2>6. CASE ~(diff < loop.list[l].msecs) /\ t.on
    <3> DEFINE v == Unlink(loop, first)
               e == [v.timer[first] EXCEPT !.fired = clock]
               r == [v EXCEPT !.timer[first] = e]
               b == Js(first)
               su == Append(stack, b)
    <3>1. loop' = r /\ stack' = su
      BY <1>4, <2>6 DEF listOnTimeout, Top, Push
    <3>2. r = [v EXCEPT !.timer[first] = e] /\ e = [v.timer[first] EXCEPT !.fired = clock] /\ v = Unlink(loop, first)
      OBVIOUS
    <3>3. b \in FramesOf(loop, clock)
      BY <2>1, FramesIn
    <3> HIDE DEF v, e, r, b, first
    <3>4. Kept(loop, v, clock, ops) /\ Absent(v, first) /\ v.timer = loop.timer
      BY <1>n, <3>2, UnlinkKept
    <3>5. Sound(v, clock, ops) /\ first \in DOMAIN v.timer /\ v.timer[first] \in TimersAt(clock)
      BY <2>1, <2>2, <3>4 DEF Kept
    <3>6. e \in TimersAt(clock)
      <4>1. clock \in -1..clock
        BY <1>n
      <4> QED
        BY <3>2, <3>5, <4>1 DEF TimersAt
    <3>7. Changed(v, first, e, r, clock, ops)
      BY <1>n, <3>2, <3>4, <3>5, <3>6, TimerKept
    <3>8. Kept(loop, r, clock, ops)
      BY <3>4, <3>7, KeptTrans DEF Changed
    <3>9. /\ Carries(r) /\ TicksOK(r, ran) /\ ImmOK(r, base, phase) /\ WiredOK(r, stack)
          /\ r.queued = loop.queued
      BY <1>2, <3>8, KeptCarries
    <3>10. su \in Seq(FramesOf(loop, clock))
      BY <1>2, <3>3
    <3>11. su \in Seq(FramesOf(r, clock))
      BY <3>9, <3>10, CarriesFrames
    <3>12. WiredOK(r, su)
      BY <1>2, <3>3, <3>9, PushWiredOK
    <3>13. CallOK(r, su, base, phase) /\ ExitOK(r, su, phase)
      <4>1. CallOK(loop, stack, base, phase) /\ ExitOK(loop, stack, phase) /\ r.exiting = loop.exiting
        BY <3>9 DEF IInv, Holds, Carries
      <4> QED
        BY <1>2, <3>3, <4>1, PushCall
    <3> HIDE DEF su
    <3>14. Holds(r, su, base, phase, ran)
      BY <3>9, <3>12, <3>13 DEF Holds
    <3> QED
      BY <1>1, <3>1, <3>9, <3>11, <3>14 DEF IInv, Carries
  <2>7. CASE ~(diff < loop.list[l].msecs) /\ ~t.on
    <3> DEFINE r == Unlink(loop, first)
    <3>1. loop' = r /\ stack' = stack
      BY <1>4, <2>7 DEF listOnTimeout, Top
    <3>2. Kept(loop, r, clock, ops)
      BY <1>n, UnlinkKept
    <3> HIDE DEF r
    <3>3. /\ Carries(r) /\ TicksOK(r, ran) /\ ImmOK(r, base, phase) /\ WiredOK(r, stack)
          /\ r.queued = loop.queued
      BY <1>2, <3>2, KeptCarries
    <3>4. stack \in Seq(FramesOf(r, clock))
      BY <1>2, <3>3, CarriesFrames
    <3>5. CallOK(r, stack, base, phase) /\ ExitOK(r, stack, phase)
      <4>1. CallOK(loop, stack, base, phase) /\ ExitOK(loop, stack, phase) /\ r.exiting = loop.exiting
        BY <3>3 DEF IInv, Holds, Carries
      <4> QED
        BY <1>2, <4>1, CallKept
    <3>6. Holds(r, stack, base, phase, ran)
      BY <3>3, <3>5 DEF Holds
    <3> QED
      BY <1>1, <3>1, <3>3, <3>4, <3>6 DEF IInv, Carries
  <2> QED
    BY <2>5, <2>6, <2>7
<1> QED
  BY <1>3, <1>4

----------------------------------------------------------------------------
(* The steps of uv_run. *)

(* Between two calls of libuv, before the end. *)
Quiet == Idle /\ phase \notin {"exit", "done", "dead"}

LEMMA AtRest ==
  ASSUME IInv, Quiet
  PROVE  /\ Sound(loop, clock, ops) /\ WiredOK(loop, <<>>) /\ Drained(loop) /\ ~loop.exiting
         /\ TicksOK(loop, ran) /\ (loop.imm # <<>> => loop.need)
         /\ stack = <<>> /\ base = "none" /\ Alive(phase)
         /\ (phase = "beforeExit" => loop.ticks = <<>> \/ TickSet(loop))
<1>1. stack = <<>> /\ base = "none" /\ phase \notin {"exit", "done", "dead"}
  BY DEF Quiet, Idle
<1>2. Alive(phase)
  BY <1>1 DEF Alive
<1>3. Holds(loop, <<>>, "none", phase, ran)
  BY <1>1 DEF IInv
<1>4. TicksOK(loop, ran) /\ WiredOK(loop, <<>>) /\ (loop.imm # <<>> => loop.need)
  BY <1>2, <1>3 DEF Holds, ImmOK
<1>5. Drained(loop) /\ (phase = "beforeExit" => loop.ticks = <<>> \/ TickSet(loop))
  BY <1>2, <1>3 DEF Holds, CallOK
<1>6. ~loop.exiting
  BY <1>1, <1>3 DEF Holds, ExitOK
<1>7. Sound(loop, clock, ops)
  BY DEF IInv
<1> QED
  BY <1>1, <1>2, <1>4, <1>5, <1>6, <1>7

(* The only frame on the stack is one of the contract's functions. *)
LEMMA OneFrame ==
  ASSUME NEW s, NEW c
  PROVE  /\ <<Js(NoTimeout)>> \in Seq(FramesOf(s, c)) /\ <<>> \in Seq(FramesOf(s, c))
         /\ \A k \in DOMAIN <<Js(NoTimeout)>> :
              <<Js(NoTimeout)>>[k] = Js(NoTimeout) /\ <<Js(NoTimeout)>>[k].f = "js"
         /\ <<Js(NoTimeout)>> # <<>>
         /\ WiredOK(s, <<>>) => WiredOK(s, <<Js(NoTimeout)>>)
<1> DEFINE x == Js(NoTimeout)
<1>1. x \in FramesOf(s, c) /\ x.f = "js"
  BY FramesIn
<1> HIDE DEF x
<1>2. <<x>> \in Seq(FramesOf(s, c)) /\ DOMAIN <<x>> = {1} /\ <<x>>[1] = x
  BY <1>1, SingleSeq
<1>3. <<x>> # <<>>
  OBVIOUS
<1>4. <<>> \in Seq(FramesOf(s, c)) /\ Append(<<>>, x) = <<x>>
  OBVIOUS
<1>5. WiredOK(s, <<>>) => WiredOK(s, <<x>>)
  BY <1>1, <1>4, PushWiredOK
<1> QED
  BY <1>1, <1>2, <1>3, <1>4, <1>5 DEF x

(* What libuv may call, when phase p begins. *)
Calls(b, st, p) ==
  \/ b = "none" /\ st = <<>> /\ p # "beforeExit"
  \/ b = "MakeCallback" /\ st = <<Js(NoTimeout)>>
  \/ b = "AsyncAfter" /\ st = <<Js(NoTimeout)>> /\ p = "io"

LEMMA PhaseInv ==
  ASSUME IInv, Quiet, NEW r, SameCalls(loop, r), StateOK(r, clock, ops),
         NEW p \in Phases \ {"exit", "done", "dead"}, NEW b, NEW st, Calls(b, st, p),
         NEW m \in 0..MaxOps, ops <= m,
         loop' = r, phase' = p, base' = b, stack' = st, clock' = clock, ran' = ran, ops' = m
  PROVE  IInv'
<1>1. /\ Sound(loop, clock, ops) /\ WiredOK(loop, <<>>) /\ Drained(loop) /\ ~loop.exiting
      /\ TicksOK(loop, ran) /\ (loop.imm # <<>> => loop.need)
  BY AtRest
<1>2. clock \in Nat /\ ops \in Nat /\ m \in Nat
  <2>1. clock \in Nat /\ ops \in Nat /\ MaxOps \in Nat
    BY Numbers
  <2> QED
    BY <2>1
<1>3. Sound(r, clock, m)
  <2>1. Sound(r, clock, ops)
    BY <1>1, CoreSound DEF SameCalls
  <2> QED
    BY <1>2, <2>1, SoundLater
<1>4. TicksOK(r, ran) /\ WiredOK(r, <<>>) /\ Drained(r)
  BY <1>1, PlainHolds
<1>5. /\ ~r.exiting /\ (r.imm # <<>> => r.need) /\ r.queued = loop.queued
      /\ r.timer = loop.timer
  BY <1>1 DEF SameCalls, SameCore
<1>6. WiredOK(r, st) /\ st \in Seq(FramesOf(r, clock))
  BY <1>4, OneFrame DEF Calls
<1>7. CallOK(r, st, b, p)
  <2>1. st = <<Js(NoTimeout)>> => \A k \in DOMAIN st : st[k].f = "js"
    BY OneFrame
  <2>2. Alive(p)
    BY DEF Alive, Phases
  <2> QED
    BY <1>4, <2>1, <2>2 DEF CallOK, Calls
<1>8. ExitOK(r, st, p) /\ ImmOK(r, b, p)
  BY <1>5 DEF ExitOK, ImmOK
<1>9. Holds(r, st, b, p, ran)
  BY <1>4, <1>6, <1>7, <1>8 DEF Holds
<1>10. b \in Bases /\ p \in Phases
  BY DEF Calls, Bases
<1> QED
  BY <1>3, <1>5, <1>6, <1>9, <1>10 DEF IInv

(* The same state of the loop. *)
LEMMA CallsSelf ==
  ASSUME IInv
  PROVE  SameCalls(loop, loop) /\ StateOK(loop, clock, ops) /\ ops \in 0..MaxOps /\ ops <= ops
<1>1. StateOK(loop, clock, ops) /\ ops \in Nat
  BY Numbers
<1>2. ops <= ops
  BY <1>1
<1> QED
  BY <1>1, <1>2 DEF SameCalls, SameCore, IInv

LEMMA UvRunInv ==
  ASSUME IInv, uv_run
  PROVE  IInv'
<1> DEFINE r == [loop EXCEPT !.time = clock]
           p == IF uv__loop_alive(loop) THEN "timers" ELSE "beforeExit"
           b == IF uv__loop_alive(loop) THEN "none" ELSE "MakeCallback"
           st == IF uv__loop_alive(loop) THEN <<>> ELSE <<Js(NoTimeout)>>
<1>1. /\ Quiet /\ loop' = r /\ phase' = p /\ clock' = clock /\ ops' = ops /\ ran' = ran
      /\ base' = b /\ stack' = st
  BY DEF uv_run, Quiet, Idle, NoCall, MakeCallback
<1>2. clock \in Nat /\ ops \in Nat /\ StateOK(loop, clock, ops)
  BY Numbers
<1>3. StateOK(r, clock, ops) /\ SameCalls(loop, r)
  BY <1>2, TimeSet
<1>4. ops \in 0..MaxOps /\ ops <= ops
  BY CallsSelf
<1>5. p \in Phases \ {"exit", "done", "dead"} /\ Calls(b, st, p)
  BY DEF Phases, Calls
<1> HIDE DEF r, p, b, st
<1> QED
  BY <1>1, <1>3, <1>4, <1>5, PhaseInv

LEMMA EndTimersInv ==
  ASSUME IInv, EndTimers
  PROVE  IInv'
<1> DEFINE go == phase = "timers" \/ uv__loop_alive(loop)
           p == IF phase = "timers" THEN "poll" ELSE IF go THEN "run" ELSE "beforeExit"
           b == IF go THEN "none" ELSE "MakeCallback"
           st == IF go THEN <<>> ELSE <<Js(NoTimeout)>>
<1>1. /\ Quiet /\ loop' = loop /\ phase' = p /\ clock' = clock /\ ops' = ops /\ ran' = ran
      /\ base' = b /\ stack' = st
  BY DEF EndTimers, Quiet, Idle, NoCall, MakeCallback
<1>2. SameCalls(loop, loop) /\ StateOK(loop, clock, ops) /\ ops \in 0..MaxOps /\ ops <= ops
  BY CallsSelf
<1>3. p \in Phases \ {"exit", "done", "dead"} /\ Calls(b, st, p)
  BY DEF Phases, Calls
<1> HIDE DEF p, b, st
<1> QED
  BY <1>1, <1>2, <1>3, PhaseInv

LEMMA PollAsyncInv ==
  ASSUME IInv, PollAsync
  PROVE  IInv'
<1>1. Quiet /\ phase' = "io" /\ clock' = clock /\ ops' = ops /\ ran' = ran
  BY DEF PollAsync, Quiet
<1>2. SameCalls(loop, loop) /\ StateOK(loop, clock, ops) /\ ops \in 0..MaxOps /\ ops <= ops
  BY CallsSelf
<1>3. "io" \in Phases \ {"exit", "done", "dead"}
  BY DEF Phases
<1>4. CASE loop' = loop /\ NoCall
  <2>1. base' = "none" /\ stack' = <<>>
    BY <1>1, <1>4 DEF NoCall, Quiet, Idle
  <2>2. Calls("none", <<>>, "io")
    BY DEF Calls
  <2> QED
    BY <1>1, <1>2, <1>3, <1>4, <2>1, <2>2, PhaseInv
<1>5. CASE /\ loop.reqs > 0 /\ loop' = [loop EXCEPT !.reqs = @ - 1]
           /\ base' = "AsyncAfter" /\ stack' = <<Js(NoTimeout)>>
  <2> DEFINE n == loop.reqs - 1
             r == [loop EXCEPT !.reqs = n]
  <2>1. loop' = r
    BY <1>5
  <2>2. n \in 0..ops
    <3>1. ops \in Nat /\ clock \in Nat
      BY Numbers
    <3>2. loop.reqs \in 0..ops
      BY <1>2, <3>1, StateFields
    <3> QED
      BY <1>5, <3>1, <3>2
  <2>3. r = [loop EXCEPT !.reqs = n]
    OBVIOUS
  <2> HIDE DEF n, r
  <2>4. SameCalls(loop, r)
    BY <1>2, <2>3 DEF StateOK, SameCalls, SameCore
  <2>5. StateOK(r, clock, ops)
    <3>1. ListsOf(r) = ListsOf(loop)
      BY <2>4 DEF ListsOf, SameCalls, SameCore
    <3> QED
      BY <1>2, <2>2, <2>3, <2>4, <3>1 DEF StateOK, SameCalls, SameCore
  <2>6. Calls("AsyncAfter", <<Js(NoTimeout)>>, "io")
    BY DEF Calls
  <2> QED
    BY <1>1, <1>2, <1>3, <1>5, <2>1, <2>4, <2>5, <2>6, PhaseInv
<1> QED
  BY <1>4, <1>5 DEF PollAsync

LEMMA PollSocketInv ==
  ASSUME IInv, PollSocket
  PROVE  IInv'
<1>1. Quiet /\ phase' = "check" /\ clock' = clock /\ loop' = loop /\ ran' = ran
  BY DEF PollSocket, Quiet
<1>2. SameCalls(loop, loop) /\ StateOK(loop, clock, ops) /\ ops \in 0..MaxOps /\ ops <= ops
  BY CallsSelf
<1>3. "check" \in Phases \ {"exit", "done", "dead"}
  BY DEF Phases
<1>4. CASE ops' = ops /\ NoCall
  <2>1. base' = "none" /\ stack' = <<>>
    BY <1>1, <1>4 DEF NoCall, Quiet, Idle
  <2>2. Calls("none", <<>>, "check")
    BY DEF Calls
  <2> QED
    BY <1>1, <1>2, <1>3, <1>4, <2>1, <2>2, PhaseInv
<1>5. CASE loop.socket /\ ops < MaxOps /\ ops' = ops + 1 /\ MakeCallback(Js(NoTimeout))
  <2>1. base' = "MakeCallback" /\ stack' = <<Js(NoTimeout)>>
    BY <1>5 DEF MakeCallback
  <2>2. ops + 1 \in 0..MaxOps /\ ops <= ops + 1
    <3>1. ops \in Nat /\ MaxOps \in Nat
      BY Numbers
    <3> QED
      BY <1>5, <3>1
  <2>3. Calls("MakeCallback", <<Js(NoTimeout)>>, "check")
    BY DEF Calls
  <2> QED
    BY <1>1, <1>2, <1>3, <1>5, <2>1, <2>2, <2>3, PhaseInv
<1> QED
  BY <1>4, <1>5 DEF PollSocket

LEMMA ClosingInv ==
  ASSUME IInv, uv__run_closing_handles
  PROVE  IInv'
<1> DEFINE r == [loop EXCEPT !.closing = {}]
           b == IF "socket" \in loop.closing THEN "MakeCallback" ELSE "none"
           st == IF "socket" \in loop.closing THEN <<Js(NoTimeout)>> ELSE <<>>
<1>1. /\ Quiet /\ loop' = r /\ phase' = "closed" /\ clock' = clock /\ ops' = ops /\ ran' = ran
      /\ base' = b /\ stack' = st
  BY DEF uv__run_closing_handles, Quiet, Idle, NoCall, MakeCallback
<1>2. StateOK(loop, clock, ops) /\ ops \in 0..MaxOps /\ ops <= ops
  BY CallsSelf
<1>3. r = [loop EXCEPT !.closing = {}]
  OBVIOUS
<1>4. "closed" \in Phases \ {"exit", "done", "dead"} /\ Calls(b, st, "closed")
  BY DEF Phases, Calls
<1> HIDE DEF r, b, st
<1>5. SameCalls(loop, r)
  BY <1>2, <1>3 DEF StateOK, SameCalls, SameCore
<1>6. StateOK(r, clock, ops)
  <2>1. ListsOf(r) = ListsOf(loop)
    BY <1>5 DEF ListsOf, SameCalls, SameCore
  <2> QED
    BY <1>2, <1>3, <1>5, <2>1 DEF StateOK, SameCalls, SameCore
<1> QED
  BY <1>1, <1>2, <1>4, <1>5, <1>6, PhaseInv

LEMMA UpdateTimeInv ==
  ASSUME IInv, uv__update_time
  PROVE  IInv'
<1> DEFINE r == [loop EXCEPT !.time = clock]
<1>1. /\ Quiet /\ loop' = r /\ phase' = "again" /\ clock' = clock /\ ops' = ops /\ ran' = ran
      /\ base' = "none" /\ stack' = <<>>
  BY DEF uv__update_time, Quiet, Idle
<1>2. clock \in Nat /\ ops \in Nat /\ StateOK(loop, clock, ops)
  BY Numbers
<1>3. StateOK(r, clock, ops) /\ SameCalls(loop, r)
  BY <1>2, TimeSet
<1>4. ops \in 0..MaxOps /\ ops <= ops
  BY CallsSelf
<1>5. "again" \in Phases \ {"exit", "done", "dead"} /\ Calls("none", <<>>, "again")
  BY DEF Phases, Calls
<1> HIDE DEF r
<1> QED
  BY <1>1, <1>3, <1>4, <1>5, PhaseInv

LEMMA RunTimersInv ==
  ASSUME IInv, uv__run_timers
  PROVE  IInv'
<1> DEFINE l == heap_min(loop)
           u == uv_timer_stop(loop, l)
           r == [u EXCEPT !.time = clock]
           x == ListFrame(l, clock)
           st == <<x>>
<1>1. /\ Quiet /\ loop' = r /\ phase' = phase /\ clock' = clock /\ ops' = ops /\ ran' = ran
      /\ base' = "MakeCallback" /\ stack' = st /\ loop.heap # <<>>
  BY DEF uv__run_timers, Quiet, MakeCallback, StartList, Due
<1>2. /\ clock \in Nat /\ ops \in Nat /\ StateOK(loop, clock, ops) /\ Sound(loop, clock, ops)
  BY Numbers DEF IInv
<1>3. l \in DOMAIN loop.list
  BY <1>1, <1>2, HeapMin
<1>4. /\ WiredOK(loop, <<>>) /\ ~loop.exiting
      /\ TicksOK(loop, ran) /\ (loop.imm # <<>> => loop.need) /\ Alive(phase) /\ phase # "exit"
  BY <1>1, AtRest DEF Quiet
<1>5. u = uv_timer_stop(loop, l) /\ r = [u EXCEPT !.time = clock] /\ x = ListFrame(l, clock)
  OBVIOUS
<1> HIDE DEF u, r, l, x
<1>6. /\ StateOK(u, clock, ops) /\ HeapOK(u) /\ SameLists(loop, u) /\ SameRest(loop, u)
      /\ \A y : y # l => (InHeap(u, y) <=> InHeap(loop, y))
  BY <1>2, <1>3, <1>5, StopOK DEF Sound
<1>7. /\ RegOK(u) /\ ItemsOK(u) /\ \A y \in DOMAIN u.list : Matters(u, y) <=> Matters(loop, y)
      /\ \A y \in DOMAIN u.list : y \in DOMAIN loop.list /\ u.list[y].open = loop.list[y].open
  BY <1>2, <1>6, SameListsSound DEF Sound
<1>8. StateOK(r, clock, ops) /\ SameCalls(u, r)
  BY <1>2, <1>5, <1>6, TimeSet
<1>9. Sound(r, clock, ops)
  <2>1. Sound(u, clock, ops)
    BY <1>6, <1>7 DEF Sound
  <2> QED
    BY <1>8, <2>1, CoreSound DEF SameCalls
<1>10. DOMAIN u.list = DOMAIN loop.list /\ u.timer = loop.timer
  BY <1>6 DEF SameLists, SameItems
<1>11. r.list = u.list /\ r.timer = u.timer
  BY <1>8 DEF SameCalls, SameCore
<1>12. x \in FramesOf(r, clock) /\ x.f = "list" /\ x.list = l
  <2>1. l \in DOMAIN r.list /\ clock \in 0..clock
    BY <1>2, <1>3, <1>10, <1>11
  <2> QED
    BY <1>5, <2>1 DEF FramesOf, ListFrame
<1>13. st \in Seq(FramesOf(r, clock)) /\ st # <<>> /\ st[1] = x /\ DOMAIN st = {1}
  BY <1>12, SingleSeq
<1>14. WiredOK(r, st)
  <2>1. WiredOK(u, st)
    <3> SUFFICES ASSUME NEW y \in DOMAIN u.list, Matters(u, y) PROVE u.list[y].open /\ Wired(u, st, y)
      BY DEF WiredOK
    <3>1. loop.list[y].open /\ Wired(loop, <<>>, y)
      BY <1>4, <1>7 DEF WiredOK
    <3>2. CASE y = l
      BY <1>12, <1>13, <3>1, <3>2, <1>7 DEF Wired
    <3>3. CASE y # l
      <4>1. InHeap(loop, y) => InHeap(u, y)
        BY <1>6, <3>3
      <4>2. u.ticks = loop.ticks /\ u.index = loop.index
        BY <1>6 DEF SameRest
      <4>3. InHeap(loop, y) \/ \E k \in DOMAIN loop.ticks : k > loop.index /\ loop.ticks[k].kind = "list" /\ loop.ticks[k].n = y
        BY <3>1 DEF Wired
      <4> QED
        BY <1>7, <3>1, <4>1, <4>2, <4>3 DEF Wired
    <3> QED
      BY <3>2, <3>3
  <2> QED
    BY <1>8, <2>1, PlainHolds
<1>15. TicksOK(r, ran)
  <2>1. TicksOK(u, ran)
    BY <1>4, <1>6, <1>10 DEF TicksOK, User, SameRest
  <2> QED
    BY <1>8, <2>1, PlainHolds
<1>16. ~r.exiting /\ (r.imm # <<>> => r.need) /\ r.queued = loop.queued
  BY <1>4, <1>6, <1>8 DEF SameRest, SameCalls
<1> HIDE DEF st
<1>17. CallOK(r, st, "MakeCallback", phase)
  BY <1>4, <1>13 DEF CallOK
<1>18. ExitOK(r, st, phase) /\ ImmOK(r, "MakeCallback", phase)
  BY <1>4, <1>16 DEF ExitOK, ImmOK
<1>19. Holds(r, st, "MakeCallback", phase, ran)
  BY <1>14, <1>15, <1>17, <1>18 DEF Holds
<1>20. "MakeCallback" \in Bases
  BY DEF Bases
<1> QED
  BY <1>1, <1>9, <1>10, <1>11, <1>13, <1>16, <1>19, <1>20 DEF IInv

LEMMA RunCheckInv ==
  ASSUME IInv, uv__run_check
  PROVE  IInv'
<1>1. Quiet /\ phase' = "closing" /\ clock' = clock /\ ops' = ops /\ ran' = ran
  BY DEF uv__run_check, Quiet
<1>2. SameCalls(loop, loop) /\ StateOK(loop, clock, ops) /\ ops \in 0..MaxOps /\ ops <= ops
  BY CallsSelf
<1>3. "closing" \in Phases \ {"exit", "done", "dead"}
  BY DEF Phases
<1>4. CASE ~loop.need
  <2>1. base' = "none" /\ stack' = <<>> /\ loop' = loop
    BY <1>1, <1>4 DEF uv__run_check, NoCall, Quiet, Idle
  <2>2. Calls("none", <<>>, "closing")
    BY DEF Calls
  <2> QED
    BY <1>1, <1>2, <1>3, <2>1, <2>2, PhaseInv
<1>5. CASE loop.need
  <2> DEFINE r == StartImmediates(loop)
             x == ImmFrame(loop.imm)
             st == <<x>>
  <2>1. loop' = r /\ base' = "MakeCallback" /\ stack' = st
    BY <1>5 DEF uv__run_check, MakeCallback
  <2>2. clock \in Nat /\ ops \in Nat /\ Sound(loop, clock, ops)
    BY Numbers DEF IInv
  <2>3. StateOK(r, clock, ops) /\ SameTicks(loop, r) /\ r.imm = <<>> /\ r.set = loop.set /\ loop.imm \in Seq(0..loop.set)
    BY <1>2, <2>2, ImmTaken
  <2> HIDE DEF r
  <2>4. x \in FramesOf(r, clock)
    BY <2>3, FramesIn
  <2> HIDE DEF x
  <2>5. st \in Seq(FramesOf(r, clock)) /\ st # <<>> /\ Append(<<>>, x) = st /\ <<>> \in Seq(FramesOf(r, clock))
    BY <2>4, SingleSeq
  <2>6. WiredOK(loop, <<>>) /\ TicksOK(loop, ran) /\ ~loop.exiting
    BY <1>1, AtRest
  <2>7. TicksOK(r, ran) /\ WiredOK(r, <<>>)
    BY <2>3, <2>6, SameTicksHolds
  <2>8. WiredOK(r, st)
    BY <2>4, <2>5, <2>7, PushWiredOK
  <2> HIDE DEF st
  <2>9. ~r.exiting /\ r.queued = loop.queued /\ r.timer = loop.timer
    BY <2>3, <2>6 DEF SameTicks, SameCore
  <2>10. Sound(r, clock, ops)
    BY <2>2, <2>3, CoreSound DEF SameTicks
  <2>11. CallOK(r, st, "MakeCallback", "closing") /\ Alive("closing")
    BY <2>5 DEF CallOK, Alive
  <2>12. ExitOK(r, st, "closing") /\ ImmOK(r, "MakeCallback", "closing")
    BY <2>3, <2>9 DEF ExitOK, ImmOK
  <2>13. Holds(r, st, "MakeCallback", "closing", ran)
    BY <2>7, <2>8, <2>11, <2>12 DEF Holds
  <2>14. "MakeCallback" \in Bases /\ "closing" \in Phases
    BY DEF Bases, Phases
  <2> QED
    BY <1>1, <2>1, <2>5, <2>9, <2>10, <2>13, <2>14 DEF IInv
<1> QED
  BY <1>4, <1>5

(* When the loop is not alive before the end, nothing waits. *)
LEMMA NothingLeft ==
  ASSUME IInv, Idle, phase = "beforeExit", ~uv__loop_alive(loop)
  PROVE  /\ loop.ticks = <<>> /\ loop.imm = <<>>
         /\ \A l \in DOMAIN loop.list : loop.list[l].items = <<>>
<1>1. Quiet
  BY DEF Quiet
<1>2. /\ WiredOK(loop, <<>>) /\ (loop.imm # <<>> => loop.need)
      /\ loop.ticks = <<>> \/ TickSet(loop)
  BY <1>1, AtRest
<1>3. loop.heap = <<>> /\ ~loop.need
  BY DEF uv__loop_alive
<1>4. loop.imm = <<>>
  BY <1>2, <1>3
<1>5. ~TickSet(loop)
  BY <1>4 DEF TickSet
<1>6. loop.ticks = <<>>
  BY <1>2, <1>5
<1>7. ASSUME NEW l \in DOMAIN loop.list PROVE loop.list[l].items = <<>>
  <2> SUFFICES ASSUME loop.list[l].items # <<>> PROVE FALSE
    OBVIOUS
  <2>1. Wired(loop, <<>>, l)
    BY <1>2 DEF WiredOK, Matters
  <2>2. DOMAIN loop.heap = {} /\ DOMAIN loop.ticks = {}
    BY <1>3, <1>6
  <2> QED
    BY <2>1, <2>2 DEF Wired, InHeap
<1> QED
  BY <1>4, <1>6, <1>7

LEMMA AfterBeforeExitInv ==
  ASSUME IInv, AfterBeforeExit
  PROVE  IInv'
<1>1. Quiet /\ phase = "beforeExit" /\ Idle /\ clock' = clock /\ ops' = ops /\ ran' = ran
  BY DEF AfterBeforeExit, Quiet
<1>2. CASE uv__loop_alive(loop)
  <2>1. base' = "none" /\ stack' = <<>> /\ loop' = loop /\ phase' = "run"
    BY <1>1, <1>2 DEF AfterBeforeExit, NoCall, Idle
  <2>2. Calls("none", <<>>, "run") /\ "run" \in Phases \ {"exit", "done", "dead"}
    BY DEF Calls, Phases
  <2>3. SameCalls(loop, loop) /\ StateOK(loop, clock, ops) /\ ops \in 0..MaxOps /\ ops <= ops
    BY CallsSelf
  <2> QED
    BY <1>1, <2>1, <2>2, <2>3, PhaseInv
<1>3. CASE ~uv__loop_alive(loop)
  <2> DEFINE r == [loop EXCEPT !.exiting = TRUE]
             st == <<Js(NoTimeout)>>
  <2>1. loop' = r /\ base' = "MakeCallback" /\ stack' = st /\ phase' = "exit"
    BY <1>3 DEF AfterBeforeExit, MakeCallback
  <2>2. /\ loop.ticks = <<>> /\ loop.imm = <<>>
    BY <1>1, <1>3, NothingLeft
  <2>3. WiredOK(loop, <<>>) /\ TicksOK(loop, ran) /\ Sound(loop, clock, ops)
    BY <1>1, AtRest
  <2>4. StateOK(loop, clock, ops)
    BY <2>3 DEF Sound
  <2>5. r = [loop EXCEPT !.exiting = TRUE]
    OBVIOUS
  <2> HIDE DEF r
  <2>6. /\ SameCore(loop, r) /\ r.exiting = TRUE /\ r.ticks = loop.ticks /\ r.index = loop.index
        /\ r.queued = loop.queued /\ r.imm = loop.imm /\ r.set = loop.set /\ r.timer = loop.timer
    BY <2>4, <2>5 DEF StateOK, SameCore
  <2>7. StateOK(r, clock, ops)
    <3>1. ListsOf(r) = ListsOf(loop)
      BY <2>6 DEF ListsOf
    <3> QED
      BY <2>4, <2>5, <2>6, <3>1 DEF StateOK, SameCore
  <2>8. Sound(r, clock, ops)
    BY <2>3, <2>6, <2>7, CoreSound
  <2>9. WiredOK(r, <<>>)
    <3>1. \A l \in DOMAIN loop.list : Wired(loop, <<>>, l) => Wired(r, <<>>, l)
      BY <2>6 DEF Wired, InHeap, SameCore
    <3> QED
      BY <2>3, <2>6, <3>1, CoreWired
  <2>10. TicksOK(r, ran)
    BY <2>3, <2>6 DEF TicksOK, User, SameCore
  <2>11. /\ st \in Seq(FramesOf(r, clock)) /\ st # <<>> /\ WiredOK(r, st)
         /\ \A k \in DOMAIN st : st[k] = Js(NoTimeout)
    BY <2>9, OneFrame
  <2> HIDE DEF st
  <2>12. CallOK(r, st, "MakeCallback", "exit")
    BY <2>11 DEF CallOK, Alive
  <2>13. ExitOK(r, st, "exit") /\ ImmOK(r, "MakeCallback", "exit")
    BY <2>2, <2>6, <2>11 DEF ExitOK, ImmOK
  <2>14. Holds(r, st, "MakeCallback", "exit", ran)
    BY <2>10, <2>11, <2>12, <2>13 DEF Holds
  <2>15. "MakeCallback" \in Bases /\ "exit" \in Phases
    BY DEF Bases, Phases
  <2> QED
    BY <1>1, <2>1, <2>6, <2>8, <2>11, <2>14, <2>15 DEF IInv
<1> QED
  BY <1>2, <1>3

LEMMA ExitInv ==
  ASSUME IInv, Exit
  PROVE  IInv'
<1>1. /\ clock' = clock /\ loop' = loop /\ stack' = stack /\ base' = base /\ ops' = ops
      /\ ran' = ran /\ phase' = "done" /\ base = "none" /\ phase = "exit" /\ stack = <<>>
  BY DEF Exit, Idle
<1>2. TicksOK(loop, ran) /\ CallOK(loop, stack, base, phase) /\ ExitOK(loop, stack, phase)
  BY DEF IInv, Holds
<1>3. ~Alive("done") /\ "done" \in Phases
  BY DEF Alive, Phases
<1>4. CallOK(loop, stack, base, "done") /\ ExitOK(loop, stack, "done") /\ ImmOK(loop, base, "done")
  BY <1>1, <1>2, <1>3 DEF CallOK, ExitOK, ImmOK
<1>5. Holds(loop, stack, base, "done", ran)
  BY <1>2, <1>3, <1>4 DEF Holds
<1> QED
  BY <1>1, <1>3, <1>5 DEF IInv

LEMMA TimePassesInv ==
  ASSUME IInv, TimePasses
  PROVE  IInv'
<1>1. /\ clock' = clock + 1 /\ clock < MaxClock /\ loop' = loop /\ stack' = stack /\ base' = base
      /\ ops' = ops /\ ran' = ran /\ phase' = phase
  BY DEF TimePasses
<1>2. /\ clock \in Nat /\ ops \in Nat /\ loop.set \in Nat /\ Sound(loop, clock, ops)
  BY Numbers DEF IInv
<1>3. clock + 1 \in 0..MaxClock /\ clock + 1 \in Nat /\ clock <= clock + 1 /\ ops <= ops /\ loop.set <= loop.set
  BY <1>1, <1>2, Bounds
<1>4. Sound(loop, clock + 1, ops)
  BY <1>2, <1>3, SoundLater
<1>5. stack \in Seq(FramesOf(loop, clock + 1))
  <2>1. Seq(FramesOf(loop, clock)) \subseteq Seq(FramesOf(loop, clock + 1))
    BY <1>2, <1>3, FramesLater
  <2> QED
    BY <2>1 DEF IInv
<1> QED
  BY <1>1, <1>3, <1>4, <1>5 DEF IInv

----------------------------------------------------------------------------
(* The invariant holds in every state. *)

LEMMA InitInv == Init => IInv
<1> SUFFICES ASSUME Init PROVE IInv
  OBVIOUS
<1> DEFINE L == [d \in Delays |-> NoList]
           st == <<Js(NoTimeout)>>
<1>1. /\ clock = 0 /\ ops = 0 /\ ran = 0 /\ base = "main" /\ phase = "main" /\ stack = st
      /\ loop.time = 0 /\ loop.heap = <<>> /\ loop.list = <<>> /\ loop.lists = L
      /\ loop.timer = <<>> /\ loop.ticks = <<>> /\ loop.index = 0 /\ loop.queued = 0
      /\ loop.imm = <<>> /\ loop.need = FALSE /\ loop.set = 0 /\ loop.reqs = 0
      /\ loop.socket = FALSE /\ loop.closing = {} /\ loop.exiting = FALSE
  BY DEF Init
<1>2. \A S : <<>> \in Seq(S)
  OBVIOUS
<1>3. DOMAIN loop.list = {} /\ DOMAIN loop.timer = {} /\ DOMAIN loop.heap = {} /\ DOMAIN loop.ticks = {}
      /\ Len(loop.ticks) = 0 /\ Len(loop.timer) = 0
  BY <1>1
<1>4. StateOK(loop, 0, 0)
  <2>1. loop = [time |-> 0, heap |-> <<>>, list |-> <<>>, lists |-> L, timer |-> <<>>,
                ticks |-> <<>>, index |-> 0, queued |-> 0, imm |-> <<>>, need |-> FALSE, set |-> 0,
                reqs |-> 0, socket |-> FALSE, closing |-> {}, exiting |-> FALSE]
    BY DEF Init
  <2>2. L \in [Delays -> {NoList} \cup DOMAIN loop.list]
    OBVIOUS
  <2>3. 0 \in 0..0 /\ FALSE \in BOOLEAN /\ 0 \in 0..Len(loop.ticks)
    BY <1>3
  <2> HIDE DEF L
  <2> QED
    BY <1>2, <2>1, <2>2, <2>3 DEF StateOK
<1>5. Sound(loop, 0, 0)
  <2>1. HeapOK(loop) /\ ItemsOK(loop)
    BY <1>3 DEF HeapOK, ItemsOK
  <2>2. RegOK(loop)
    BY <1>1 DEF RegOK
  <2> QED
    BY <1>4, <2>1, <2>2 DEF Sound
<1>6. WiredOK(loop, st)
  BY <1>3 DEF WiredOK
<1>7. TicksOK(loop, 0)
  <2>1. (0 + 1)..loop.queued = {}
    BY <1>1
  <2> QED
    BY <1>3, <2>1 DEF TicksOK
<1>8. st \in Seq(FramesOf(loop, 0)) /\ st # <<>>
  BY OneFrame
<1> HIDE DEF st
<1>9. Holds(loop, st, "main", "main", 0)
  <2>1. CallOK(loop, st, "main", "main")
    BY DEF CallOK, Alive
  <2>2. ImmOK(loop, "main", "main") /\ ExitOK(loop, st, "main")
    BY <1>1 DEF ImmOK, ExitOK
  <2> QED
    BY <1>6, <1>7, <2>1, <2>2 DEF Holds
<1>10. 0 \in 0..MaxClock /\ 0 \in 0..MaxOps /\ 0 <= MaxTimeouts /\ 0 \in 0..0
  BY Bounds
<1> QED
  BY <1>1, <1>3, <1>5, <1>8, <1>9, <1>10 DEF IInv, Bases, Phases

LEMMA ContractInv ==
  ASSUME IInv, Contract
  PROVE  IInv'
<1>1. CASE \E d \in Delays : setTimeout(d)
  <2>1. PICK d \in Delays : Create(d, FALSE)
    BY <1>1 DEF setTimeout
  <2> QED
    BY <2>1, CreateInv
<1>2. CASE \E d \in Delays : setInterval(d)
  <2>1. PICK d \in Delays : Create(d, TRUE)
    BY <1>2 DEF setInterval
  <2> QED
    BY <2>1, CreateInv
<1>3. CASE \E t \in DOMAIN loop.timer : clearTimeout(t)
  BY <1>3, ClearTimeoutInv
<1>4. CASE \E t \in DOMAIN loop.timer : clearInterval(t)
  BY <1>4, ClearIntervalInv
<1>5. CASE nextTick
  BY <1>5, NextTickInv
<1>6. CASE setImmediate
  BY <1>6, SetImmediateInv
<1>7. CASE \E i \in 1..loop.set : clearImmediate(i)
  BY <1>7, ClearImmediateInv
<1>8. CASE PostMessage \/ OpenSocket \/ CloseSocket
  BY <1>8, PostInv
<1>9. CASE ThrowCaught
  BY <1>9, ThrowCaughtInv
<1>10. CASE ThrowFatal
  BY <1>10, ThrowFatalInv
<1> QED
  BY <1>1, <1>2, <1>3, <1>4, <1>5, <1>6, <1>7, <1>8, <1>9, <1>10 DEF Contract

LEMMA NextInv == IInv /\ [Next]_vars => IInv'
<1> SUFFICES ASSUME IInv, [Next]_vars PROVE IInv'
  OBVIOUS
<1>1. CASE Contract
  BY <1>1, ContractInv
<1>2. CASE Return
  BY <1>2, ReturnInv
<1>3. CASE Library
  BY <1>3, TickCallbackInv, ProcessImmediateInv, ListOnTimeoutInv, CallReturnsInv, UnwindInv,
     FatalExceptionInv DEF Library
<1>4. CASE Loop
  BY <1>4, UvRunInv, RunTimersInv, EndTimersInv, PollAsyncInv, PollSocketInv, RunCheckInv,
     ClosingInv, UpdateTimeInv, AfterBeforeExitInv, ExitInv DEF Loop
<1>5. CASE TimePasses
  BY <1>5, TimePassesInv
<1>6. CASE UNCHANGED vars
  BY <1>6 DEF vars, IInv
<1> QED
  BY <1>1, <1>2, <1>3, <1>4, <1>5, <1>6 DEF Next, Over

(* The inductive invariant holds in every state that NodeLoop reaches. *)
THEOREM Inductive == Spec => []IInv
  BY InitInv, NextInv, PTL DEF Spec

LEMMA IInvLoopInv == IInv => LoopInv
<1> SUFFICES ASSUME IInv PROVE LoopInv
  OBVIOUS
<1>1. Sound(loop, clock, ops) /\ Holds(loop, stack, base, phase, ran)
  BY DEF IInv
<1>2. Running <=> Alive(phase)
  BY DEF Running, Alive
<1>3. TypeOK
  <2>1. Frames = FramesOf(loop, clock) /\ Lists = ListsOf(loop) /\ Timers = TimersAt(clock)
    BY DEF Frames, FramesOf, Lists, ListsOf, Timers, TimersAt
  <2>2. loop \in [time : 0..clock, heap : Seq(DOMAIN loop.list), list : Seq(Lists),
               lists : [Delays -> {NoList} \cup DOMAIN loop.list], timer : Seq(Timers),
               ticks : Seq(Ticks), index : 0..Len(loop.ticks), queued : 0..ops,
               imm : Seq(0..loop.set), need : BOOLEAN, set : 0..ops, reqs : 0..ops,
               socket : BOOLEAN, closing : SUBSET {"timer", "socket"}, exiting : BOOLEAN]
    BY <1>1, <2>1 DEF Sound, StateOK
  <2>3. HeapOK(loop)
    BY <1>1 DEF Sound
  <2> QED
    BY <2>1, <2>2, <2>3 DEF TypeOK, IInv, HeapOK, Bases, Phases
<1>4. Armed
  BY <1>1, <1>2 DEF Armed, Holds, WiredOK, Matters, Wired, InHeap
<1>5. ImmediatesArmed
  BY <1>1, <1>2 DEF ImmediatesArmed, Holds, ImmOK
<1>6. ListOrder
  BY <1>1 DEF ListOrder, Sound, ItemsOK, InOrder
<1> QED
  BY <1>3, <1>4, <1>5, <1>6 DEF LoopInv

(* No timer and no immediate is forgotten: a list with timers in it is     *)
(* open and will be looked at by libuv, by a listOnTimeout at work or by a *)
(* queued tick, whatever was cleared, thrown or set from within callbacks; *)
(* immediates wait only while the check handle is active; and the timers   *)
(* of a list are in the order in which listOnTimeout relies on.            *)
THEOREM LoopSafe == Spec => []LoopInv
  BY Inductive, IInvLoopInv, PTL

(* When libuv has control, no tick waits but those that the callback of an *)
(* asynchronous call queued, for which MakeCallback is not used, and those *)
(* for which _fatalException has set an immediate.                         *)
THEOREM TicksAreDrained == Spec => []TicksDrained
<1>1. IInv => TicksDrained
  <2> SUFFICES ASSUME IInv, Running, Idle PROVE \A k \in DOMAIN loop.ticks :
        \/ loop.ticks[k].from = "AsyncAfter"
        \/ \E i \in DOMAIN loop.imm : loop.imm[i] = TickImmediate
    BY DEF TicksDrained
  <2>1. Alive(phase) /\ base = "none"
    BY DEF Running, Alive, Idle
  <2>2. Drained(loop)
    BY <2>1 DEF IInv, Holds, CallOK
  <2> QED
    BY <2>2 DEF Drained, TickSet
<1> QED
  BY <1>1, Inductive, PTL

----------------------------------------------------------------------------
(* What the steps do. *)

(* Which steps leave the phase before the end. *)
LEMMA ExitStep ==
  ASSUME [Next]_vars, phase = "beforeExit", phase' = "exit"
  PROVE  AfterBeforeExit
<1>1. ~Contract
  BY DEF Contract, setTimeout, setInterval, Create, clearTimeout, clearInterval, nextTick,
     setImmediate, clearImmediate, PostMessage, OpenSocket, CloseSocket, ThrowCaught, ThrowFatal, Effect
<1>2. ~Return /\ ~Library
  BY DEF Return, Library, _tickCallback, processImmediate, listOnTimeout, CallReturns, Unwind, _fatalException
<1>3. ~TimePasses /\ ~(UNCHANGED vars)
  BY DEF TimePasses, vars
<1>4. Loop
  BY <1>1, <1>2, <1>3 DEF Next, Over
<1> QED
  BY <1>4 DEF Loop, uv_run, uv__run_timers, EndTimers, PollAsync, PollSocket, uv__run_check,
     uv__run_closing_handles, uv__update_time, Exit

(* The process ends by itself only when no tick, no immediate and no timer *)
(* that was not cleared is left: the check of uv__loop_alive after         *)
(* 'beforeExit' is enough, although it sees only what libuv knows of.      *)
THEOREM NothingIsOwed == Spec => NothingOwed
<1> DEFINE A == phase = "beforeExit" /\ phase' = "exit" =>
                  /\ loop.ticks = <<>> /\ loop.imm = <<>>
                  /\ \A t \in DOMAIN loop.timer : ~(Pending(t) /\ loop.timer[t].on)
<1>1. IInv /\ [Next]_vars => [A]_vars
  <2> SUFFICES ASSUME IInv, [Next]_vars, phase = "beforeExit", phase' = "exit"
               PROVE  /\ loop.ticks = <<>> /\ loop.imm = <<>>
                      /\ \A t \in DOMAIN loop.timer : ~Pending(t)
    OBVIOUS
  <2>1. AfterBeforeExit
    BY ExitStep
  <2>2. Idle /\ ~uv__loop_alive(loop)
    BY <2>1 DEF AfterBeforeExit
  <2>3. /\ loop.ticks = <<>> /\ loop.imm = <<>>
        /\ \A l \in DOMAIN loop.list : loop.list[l].items = <<>>
    BY <2>2, NothingLeft
  <2>4. \A l \in DOMAIN loop.list : DOMAIN loop.list[l].items = {}
    BY <2>3
  <2>5. \A t \in DOMAIN loop.timer : ~Pending(t)
    BY <2>4 DEF Pending
  <2> QED
    BY <2>3, <2>5
<1>2. Spec => [][A]_vars
  BY <1>1, Inductive, PTL DEF Spec
<1> QED
  BY <1>2 DEF NothingOwed

(* Which steps run a tick of the contract. *)
LEMMA RanStep ==
  ASSUME [Next]_vars
  PROVE  ran' = ran \/ _tickCallback
<1>1. CASE Contract
  BY <1>1 DEF Contract, setTimeout, setInterval, Create, clearTimeout, clearInterval, nextTick,
     setImmediate, clearImmediate, PostMessage, OpenSocket, CloseSocket, ThrowCaught, ThrowFatal, Effect
<1>2. CASE Return \/ Library
  BY <1>2 DEF Return, Library, processImmediate, listOnTimeout, CallReturns, Unwind, _fatalException
<1>3. CASE Loop
  BY <1>3 DEF Loop, uv_run, uv__run_timers, EndTimers, PollAsync, PollSocket, uv__run_check,
     uv__run_closing_handles, uv__update_time, AfterBeforeExit, Exit
<1>4. CASE TimePasses \/ UNCHANGED vars
  BY <1>4 DEF TimePasses, vars
<1> QED
  BY <1>1, <1>2, <1>3, <1>4 DEF Next, Over

LEMMA TickStep ==
  ASSUME IInv, _tickCallback
  PROVE  ran' = ran \/ ran' = ran + 1
<1> DEFINE s == IF CompactAt < loop.index THEN tickDone(loop) ELSE loop
           e == s.ticks[s.index + 1]
           r == [s EXCEPT !.index = @ + 1]
<1>1. At("ticks")
  BY DEF _tickCallback
<1>2. WiredOK(loop, stack)
  BY <1>1, Inside DEF At
<1>3. StateOK(s, clock, ops) /\ TicksOK(s, ran) /\ s.queued = loop.queued
  BY <1>2, CompactOK
<1>4. clock \in Nat /\ ops \in Nat /\ ran \in Nat /\ loop.queued \in Nat
  BY Numbers
<1>5. \/ ran' = ran
      \/ s.index < Len(s.ticks) /\ CallTick(e, r)
  BY DEF _tickCallback
<1>6. ASSUME s.index < Len(s.ticks), CallTick(e, r) PROVE ran' = ran \/ ran' = ran + 1
  <2>0. e = s.ticks[s.index + 1] /\ r = [s EXCEPT !.index = @ + 1]
    OBVIOUS
  <2> HIDE DEF s, e, r
  <2>1. Taken(s, e, r) /\ e \in Ticks
    BY <1>3, <1>4, <1>6, <2>0, TakenOK
  <2>2. e.kind = "user" => e.n = ran + 1
    BY <1>3, <1>4, <2>1, TakenTicks
  <2>3. e.kind \in {"user", "list", "immediates"}
    BY <2>1 DEF Ticks
  <2> QED
    BY <1>6, <2>2, <2>3 DEF CallTick
<1> QED
  BY <1>5, <1>6

(* The ticks of the contract run once each and in the order in which they  *)
(* were queued, although exceptions cut the queue in the middle, the queue *)
(* is compacted while it is worked on, and continuations of listOnTimeout  *)
(* and processImmediate are queued between them.                           *)
THEOREM TicksInOrder == Spec => TickOrder
<1>1. IInv /\ [Next]_vars => [ran' = ran + 1]_ran
  <2> SUFFICES ASSUME IInv, [Next]_vars PROVE ran' = ran + 1 \/ ran' = ran
    OBVIOUS
  <2> QED
    BY RanStep, TickStep
<1>2. Spec => [][ran' = ran + 1]_ran
  BY <1>1, Inductive, PTL DEF Spec
<1> QED
  BY <1>2 DEF TickOrder

(* Whatever x was pushed on gives r. *)
OnlyPush(r, x) == \A G : \A p \in Seq(G) : \A y : r = Append(p, y) => y = x

(* What it means for the stack that a timer is called. *)
LEMMA PushedIs ==
  ASSUME NEW F, NEW q \in Seq(F), NEW x, NEW r, r = Append(q, x)
  PROVE  /\ r # q /\ r # <<>> /\ Len(r) = Len(q) + 1 /\ Len(q) \in Nat /\ DOMAIN r # DOMAIN q
         /\ OnlyPush(r, x)
<1>1. /\ r # q /\ r # <<>> /\ Len(r) = Len(q) + 1 /\ Len(q) \in Nat /\ r[Len(r)] = x
      /\ DOMAIN r = 1..(Len(q) + 1) /\ DOMAIN q = 1..Len(q)
  OBVIOUS
<1>2. DOMAIN r # DOMAIN q
  <2>1. \A n \in Nat : n + 1 \in 1..(n + 1) /\ n + 1 \notin 1..n
    OBVIOUS
  <2> QED
    BY <1>1, <2>1
<1>3. ASSUME NEW G, NEW p \in Seq(G), NEW y, r = Append(p, y) PROVE y = x
  <2>1. r[Len(r)] = y
    BY <1>3
  <2> QED
    BY <1>1, <2>1
<1> QED
  BY <1>1, <1>2, <1>3 DEF OnlyPush

Frozen == stack' = stack \/ stack' = <<>> \/ Pop \/ DOMAIN stack' = DOMAIN stack

LEMMA ContractStack ==
  ASSUME Contract
  PROVE  Frozen
<1>1. CASE \E d \in Delays : setTimeout(d) \/ setInterval(d)
  BY <1>1 DEF setTimeout, setInterval, Create, Effect, Frozen
<1>2. CASE \E t \in DOMAIN loop.timer : clearTimeout(t) \/ clearInterval(t)
  BY <1>2 DEF clearTimeout, clearInterval, Effect, Frozen
<1>3. CASE nextTick \/ setImmediate \/ PostMessage \/ OpenSocket \/ CloseSocket
  BY <1>3 DEF nextTick, setImmediate, PostMessage, OpenSocket, CloseSocket, Effect, Frozen
<1>4. CASE \E i \in 1..loop.set : clearImmediate(i)
  <2>1. PICK i \in 1..loop.set : clearImmediate(i)
    BY <1>4
  <2>2. stack' = WithoutImm(stack, i)
    BY <2>1 DEF clearImmediate, WithoutImm
  <2>3. DOMAIN stack' = DOMAIN stack
    BY <2>2 DEF WithoutImm
  <2> QED
    BY <2>3 DEF Frozen
<1>5. CASE ThrowCaught \/ ThrowFatal
  BY <1>5 DEF ThrowCaught, ThrowFatal, Frozen
<1> QED
  BY <1>1, <1>2, <1>3, <1>4, <1>5 DEF Contract

(* The last frame is pushed by one of these. *)
Pushes(x) ==
  \/ stack' = Append(stack, x)
  \/ \E y \in FramesOf(loop, clock) : stack' = Append(Append(Front(stack), y), x)

LEMMA LibraryStack ==
  ASSUME IInv, Library
  PROVE  \/ Frozen \/ listOnTimeout
         \/ \E x : Pushes(x) /\ stack # <<>> /\ (x = Js(NoTimeout) \/ x.f # "js")
         \/ stack' = Append(stack, TickFrame)
<1>1. CASE _tickCallback
  <2> DEFINE s == IF CompactAt < loop.index THEN tickDone(loop) ELSE loop
             e == s.ticks[s.index + 1]
             r == [s EXCEPT !.index = @ + 1]
  <2>1. stack # <<>>
    BY <1>1 DEF _tickCallback, At
  <2>2. Pop \/ (s.index < Len(s.ticks) /\ CallTick(e, r))
    BY <1>1 DEF _tickCallback
  <2> HIDE DEF e, r
  <2>3. ASSUME s.index < Len(s.ticks), CallTick(e, r)
        PROVE  \E x : stack' = Append(stack, x) /\ (x = Js(NoTimeout) \/ x.f # "js")
    <3>1. ListFrame(e.n, clock).f # "js" /\ ImmFrame(r.imm).f # "js"
      BY DEF ListFrame, ImmFrame
    <3>2. CASE e.kind = "user"
      BY <2>3, <3>2 DEF CallTick, Push
    <3>3. CASE e.kind = "list"
      BY <2>3, <3>1, <3>3 DEF CallTick, Push
    <3>4. CASE e.kind = "immediates"
      BY <2>3, <3>1, <3>4 DEF CallTick, Push
    <3>5. e.kind \in {"user", "list", "immediates"}
      <4>1. WiredOK(loop, stack)
        BY <2>1, Inside
      <4>2. StateOK(s, clock, ops)
        BY <4>1, CompactOK
      <4>3. clock \in Nat /\ ops \in Nat
        BY Numbers
      <4> HIDE DEF s
      <4>4. e = s.ticks[s.index + 1] /\ r = [s EXCEPT !.index = @ + 1]
        BY DEF e, r
      <4>5. e \in Ticks
        BY <2>3, <4>2, <4>3, <4>4, TakenOK
      <4> QED
        BY <4>5 DEF Ticks
    <3> QED
      BY <3>2, <3>3, <3>4, <3>5
  <2> QED
    BY <2>1, <2>2, <2>3 DEF Frozen, Pushes
<1>2. CASE processImmediate
  <2> DEFINE y == ImmFrame(Tail(Top.queue))
             x == IF Head(Top.queue) = TickImmediate THEN TickFrame ELSE Js(NoTimeout)
  <2>1. stack # <<>> /\ Top.f = "immediates"
    BY <1>2 DEF processImmediate, At
  <2>2. Pop \/ (Top.queue # <<>> /\ stack' = Append(Append(Front(stack), y), x))
    BY <1>2 DEF processImmediate
  <2>3. ASSUME Top.queue # <<>> PROVE y \in FramesOf(loop, clock)
    <3>1. stack \in Seq(FramesOf(loop, clock))
      BY <2>1, Inside
    <3>2. Top \in FramesOf(loop, clock)
      BY <2>1, <3>1, FrontIs DEF Top
    <3>3. Top.queue \in Seq(0..loop.set)
      BY <2>1, <3>2, FrameKinds
    <3>4. Tail(Top.queue) \in Seq(0..loop.set)
      BY <2>3, <3>3, TailSeq
    <3> QED
      BY <3>4, FramesIn
  <2>4. x = Js(NoTimeout) \/ x.f # "js"
    BY FramesIn
  <2> HIDE DEF x, y
  <2> QED
    BY <2>1, <2>2, <2>3, <2>4 DEF Frozen, Pushes
<1>3. CASE CallReturns
  BY <1>3 DEF CallReturns, Push, Frozen
<1>4. CASE Unwind \/ _fatalException
  BY <1>4 DEF Unwind, _fatalException, Frozen
<1> QED
  BY <1>1, <1>2, <1>3, <1>4 DEF Library

LEMMA LoopStack ==
  ASSUME Loop
  PROVE  /\ stack = <<>>
         /\ \/ stack' = <<>>
            \/ \E x : stack' = <<x>> /\ (x = Js(NoTimeout) \/ x.f # "js")
<1>1. stack = <<>>
  BY DEF Loop, uv_run, uv__run_timers, EndTimers, PollAsync, PollSocket, uv__run_check,
     uv__run_closing_handles, uv__update_time, AfterBeforeExit, Exit, Idle
<1>2. CASE uv_run \/ EndTimers \/ PollAsync \/ PollSocket
  BY <1>1, <1>2 DEF uv_run, EndTimers, PollAsync, PollSocket, NoCall, MakeCallback
<1>3. CASE uv__run_timers
  <2>1. ListFrame(heap_min(loop), clock).f # "js"
    BY DEF ListFrame
  <2> DEFINE x == ListFrame(heap_min(loop), clock)
  <2>2. stack' = <<x>>
    BY <1>3 DEF uv__run_timers, MakeCallback
  <2> HIDE DEF x
  <2>3. x.f # "js"
    BY <2>1 DEF x
  <2> QED
    BY <1>1, <2>2, <2>3
<1>4. CASE uv__run_check
  <2>1. ImmFrame(loop.imm).f # "js"
    BY DEF ImmFrame
  <2> QED
    BY <1>1, <1>4, <2>1 DEF uv__run_check, MakeCallback, NoCall
<1>5. CASE uv__run_closing_handles \/ uv__update_time \/ AfterBeforeExit \/ Exit
  BY <1>1, <1>5 DEF uv__run_closing_handles, uv__update_time, AfterBeforeExit, Exit, NoCall, MakeCallback
<1> QED
  BY <1>1, <1>2, <1>3, <1>4, <1>5 DEF Loop

LEMMA FireStep ==
  ASSUME IInv, [Next]_vars, NEW t \in DOMAIN loop.timer, Fires(t)
  PROVE  listOnTimeout
<1>1. stack \in Seq(FramesOf(loop, clock)) /\ stack' = Append(stack, Js(t))
  BY DEF IInv, Fires
<1>2. /\ stack' # stack /\ stack' # <<>> /\ Len(stack') = Len(stack) + 1 /\ Len(stack) \in Nat
      /\ DOMAIN stack' # DOMAIN stack
  BY <1>1, PushedIs
<1>3. OnlyPush(stack', Js(t))
  BY <1>1, PushedIs DEF OnlyPush
<1>4. Js(t) # Js(NoTimeout) /\ Js(t).f = "js"
  <2>1. t # NoTimeout
    BY Numbers, StateFields
  <2> QED
    BY <2>1 DEF Js
<1>5. ASSUME Pop, stack # <<>> PROVE FALSE
  <2>1. Len(stack') = Len(stack) - 1
    BY <1>1, <1>5, FrontIs DEF Pop
  <2> QED
    BY <1>2, <2>1
<1>6. ~Contract
  <2> SUFFICES ASSUME Contract PROVE FALSE
    OBVIOUS
  <2>1. Frozen
    BY ContractStack
  <2>2. Pop => stack # <<>>
    BY DEF Contract, setTimeout, setInterval, Create, clearTimeout, clearInterval, nextTick,
       setImmediate, clearImmediate, PostMessage, OpenSocket, CloseSocket, ThrowCaught, ThrowFatal,
       Does, InJs, At
  <2> QED
    BY <1>2, <1>5, <2>1, <2>2 DEF Frozen
<1>7. ~Return
  BY <1>5 DEF Return, InJs, At
<1>8. Library => listOnTimeout
  <2> SUFFICES ASSUME Library, ~listOnTimeout PROVE FALSE
    OBVIOUS
  <2>1. ~Frozen
    <3> SUFFICES ASSUME Frozen PROVE FALSE
      OBVIOUS
    <3>1. Pop /\ stack = <<>>
      BY <1>2, <1>5 DEF Frozen
    <3>2. stack' = <<>>
      BY <3>1 DEF Pop, Front
    <3> QED
      BY <1>2, <3>2
  <2>2. TickFrame.f # "js"
    BY FramesIn
  <2>3. stack' # Append(stack, TickFrame)
    BY <1>1, <1>3, <1>4, <2>2 DEF OnlyPush
  <2>4. PICK x : Pushes(x) /\ stack # <<>> /\ (x = Js(NoTimeout) \/ x.f # "js")
    BY <2>1, <2>3, LibraryStack
  <2>5. stack' # Append(stack, x)
    BY <1>1, <1>3, <1>4, <2>4 DEF OnlyPush
  <2>6. PICK y \in FramesOf(loop, clock) : stack' = Append(Append(Front(stack), y), x)
    BY <2>4, <2>5 DEF Pushes
  <2>7. Front(stack) \in Seq(FramesOf(loop, clock))
    BY <1>1, <2>4, FrontIs
  <2>8. Append(Front(stack), y) \in Seq(FramesOf(loop, clock))
    BY <2>7
  <2>9. x = Js(t)
    BY <1>3, <2>6, <2>8 DEF OnlyPush
  <2> QED
    BY <1>4, <2>4, <2>9
<1>9. ~Loop
  <2> SUFFICES ASSUME Loop PROVE FALSE
    OBVIOUS
  <2>1. PICK x : stack' = <<x>> /\ (x = Js(NoTimeout) \/ x.f # "js")
    BY <1>2, LoopStack
  <2>2. <<x>> = Append(<<>>, x) /\ <<>> \in Seq({})
    OBVIOUS
  <2>3. x = Js(t)
    BY <1>3, <2>1, <2>2 DEF OnlyPush
  <2> QED
    BY <1>4, <2>1, <2>3
<1>10. ~TimePasses /\ ~(UNCHANGED vars)
  BY <1>2 DEF TimePasses, vars
<1> QED
  BY <1>6, <1>7, <1>8, <1>9, <1>10 DEF Next, Over

LEMMA DueTimes ==
  ASSUME NEW c \in Nat, NEW s \in 0..c, NEW f \in -1..c, NEW d \in Nat \ {0}, NEW w \in 0..c,
         ~(w - s < d), f <= s
  PROVE  c - s >= d /\ f < c
OBVIOUS

(* A timer is called no earlier than its delay after its start, and at     *)
(* most once at a time of the clock, although listOnTimeout reads the      *)
(* clock once for a whole list and goes on with a list after an exception, *)
(* and the loop's own time may be stale.                                   *)
THEOREM TimersOnTime == Spec => OnTime
<1> DEFINE A == \A t \in DOMAIN loop.timer : Fires(t) =>
                  /\ clock - loop.timer[t].start >= loop.timer[t].delay
                  /\ loop.timer[t].fired < clock
<1>1. IInv /\ [Next]_vars => [A]_vars
  <2> SUFFICES ASSUME IInv, [Next]_vars, NEW t \in DOMAIN loop.timer, Fires(t)
               PROVE  /\ clock - loop.timer[t].start >= loop.timer[t].delay
                      /\ loop.timer[t].fired < clock
    OBVIOUS
  <2> DEFINE x == Last(stack)
             l == x.list
             items == loop.list[l].items
             first == Head(items)
             diff == x.now - loop.timer[first].start
  <2>1. listOnTimeout
    BY FireStep
  <2>2. /\ stack # <<>> /\ stack \in Seq(FramesOf(loop, clock)) /\ l \in DOMAIN loop.list
        /\ x.now \in 0..clock /\ loop.list[l] \in ListsOf(loop) /\ items \in Seq(DOMAIN loop.timer)
    BY <2>1, AtList DEF listOnTimeout
  <2>3. /\ stack' # stack /\ Len(stack') = Len(stack) + 1 /\ Len(stack) \in Nat
        /\ OnlyPush(stack', Js(t))
    BY <2>2, PushedIs DEF Fires
  <2>4. ~Pop
    <3> SUFFICES ASSUME Pop PROVE FALSE
      OBVIOUS
    <3>1. Len(stack') = Len(stack) - 1
      BY <2>2, FrontIs DEF Pop
    <3> QED
      BY <2>3, <3>1
  <2>5. items # <<>> /\ ~(diff < loop.list[l].msecs) /\ stack' = Append(stack, Js(first))
    BY <2>1, <2>3, <2>4 DEF listOnTimeout, Top, Push
  <2>6. first = t
    <3>1. Js(first) = Js(t)
      BY <2>2, <2>3, <2>5 DEF OnlyPush
    <3> QED
      BY <3>1 DEF Js
  <2>7. 1 \in DOMAIN items /\ items[1] = t
    BY <2>2, <2>5, <2>6
  <2>8. loop.timer[t].delay = loop.list[l].msecs /\ loop.timer[t].fired <= loop.timer[t].start
    <3>1. InOrder(loop.timer, loop.list[l].msecs, items)
      BY <2>2 DEF IInv, Sound, ItemsOK
    <3> QED
      BY <2>7, <3>1 DEF InOrder
  <2>9. clock \in Nat /\ loop.timer[t] \in TimersAt(clock)
    BY Numbers, StateFields
  <2>10. loop.timer[t].start \in 0..clock /\ loop.timer[t].fired \in -1..clock /\ loop.timer[t].delay \in Nat \ {0}
    BY <2>9, Bounds DEF TimersAt
  <2>11. ~(x.now - loop.timer[t].start < loop.timer[t].delay)
    BY <2>5, <2>6, <2>8
  <2> QED
    BY <2>2, <2>8, <2>9, <2>10, <2>11, DueTimes
<1>2. Spec => [][A]_vars
  BY <1>1, Inductive, PTL DEF Spec
<1> QED
  BY <1>2 DEF OnTime
=============================================================================
