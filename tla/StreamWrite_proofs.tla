------------------------ MODULE StreamWrite_proofs -------------------------
(***************************************************************************)
(* Theorems about StreamWrite, for all lengths of buffers, every number of *)
(* buffers in a request and every number of writes.                        *)
(***************************************************************************)
EXTENDS StreamWrite, FiniteSetTheorems, SequenceTheorems, WellFoundedInduction, TLAPS

----------------------------------------------------------------------------
(* The inductive invariant.  While the stream is not destroyed it is a     *)
(* statement about a state s of the stream, the writes sub that were made  *)
(* and the set F of the requests whose callbacks have run, so that it can  *)
(* be used for the states that one action passes through.                  *)

(* The writes that have left the queue are the first ones. *)
Gone(s, sub) == Len(sub) - Len(s.write_queue)

(* The queue holds the last of the writes, in order; only the first of     *)
(* them can have been written from, and it stands at data.                 *)
QueueGood(s, sub) ==
  /\ Len(s.write_queue) =< Len(sub)
  /\ \A j \in DOMAIN s.write_queue :
       LET r == s.write_queue[j] IN
       /\ r.id = Gone(s, sub) + j /\ r.error = "0"
       /\ r.bufs = sub[r.id].bufs /\ sub[r.id].cb
       /\ r.write_index \in DOMAIN r.bufs
       /\ j > 1 => r.write_index = 1
       /\ r.write_index > 1 => r.bufs[r.write_index] # 0

(* Every other write with a callback has had it or is completed, in order. *)
DoneGood(s, sub, F) ==
  LET C == s.write_completed_queue IN
  /\ \A j \in DOMAIN C : C[j].error = "0" /\ C[j].id =< Gone(s, sub) /\ sub[C[j].id].cb
  /\ \A i, j \in DOMAIN C : i < j => C[i].id < C[j].id
  /\ \A f \in F : f =< Gone(s, sub) /\ \A j \in DOMAIN C : f < C[j].id
  /\ \A id \in 1..Gone(s, sub) : sub[id].cb => id \in F \/ \E j \in DOMAIN C : C[j].id = id

IsData(sub, id, i) == id \in DOMAIN sub /\ i \in DOMAIN sub[id].bufs /\ sub[id].bufs[i] # 0

Went(s, id, i) == \E k \in DOMAIN s.sent : s.sent[k] = <<id, i>>

(* Buffer i of write id is behind the point to which the queue is written. *)
Past(s, sub, id, i) ==
  \/ id =< Gone(s, sub)
  \/ id = Gone(s, sub) + 1 /\ i < s.write_queue[1].write_index

(* What was sent is the data up to that point, in order. *)
SentGood(s, sub) ==
  /\ \A k \in DOMAIN s.sent : /\ IsData(sub, s.sent[k][1], s.sent[k][2])
                              /\ Past(s, sub, s.sent[k][1], s.sent[k][2])
  /\ \A id \in DOMAIN sub : \A i \in DOMAIN sub[id].bufs :
       IsData(sub, id, i) /\ Past(s, sub, id, i) => Went(s, id, i)
  /\ \A i, j \in DOMAIN s.sent : i < j => Before(s.sent[i], s.sent[j])

(* The bytes that the requests of a queue have left to write. *)
Rest(r) == {r.id} \X Bytes(r.bufs, r.write_index)
QueueBytes(q) == UNION {Rest(q[n]) : n \in DOMAIN q}

SizeGood(s) == s.write_queue_size = Cardinality(QueueBytes(s.write_queue))

Good(s, sub, F) ==
  /\ s \in Streams /\ Len(sub) =< MaxReqs
  /\ QueueGood(s, sub) /\ DoneGood(s, sub, F) /\ SentGood(s, sub) /\ SizeGood(s)

FiredIds == {fired[i].id : i \in DOMAIN fired}

(* A destroyed stream: what is completed was written, what is cancelled    *)
(* has something left if it has data.                                      *)
ClosedGood ==
  LET C == stream.write_completed_queue IN
  /\ stream.write_queue = <<>> /\ stream.write_queue_size \in Nat
  /\ \A j \in DOMAIN C :
       /\ C[j].id \in DOMAIN submitted /\ submitted[C[j].id].cb
       /\ C[j].error = "0" => \A b \in DataOf(C[j].id) : Written(b)
       /\ C[j].error = ECANCELED =>
            \A b \in DataOf(C[j].id) : (b[2] >= C[j].write_index => ~Written(b))
       /\ C[j].error = ECANCELED /\ C[j].write_index > 1 =>
            <<C[j].id, C[j].write_index>> \in DataOf(C[j].id)
  /\ \A i, j \in DOMAIN C : i < j => C[i].id < C[j].id
  /\ \A i \in DOMAIN fired, j \in DOMAIN C : fired[i].id < C[j].id
  /\ \A id \in DOMAIN submitted : submitted[id].cb =>
       id \in FiredIds \/ \E j \in DOMAIN C : C[j].id = id

(* Where the thread can be. *)
FrameInv ==
  /\ frame = "none" => pc = "js"
  /\ frame = "uv__stream_destroy" => flags = "UV_CLOSED"
  /\ frame = "uv__stream_io" => flags # "UV_CLOSED"
  /\ flags # "open" => ~stream.pollout /\ ~stream.pending
  /\ flags = "UV_CLOSED" /\ frame = "none" => stream.write_completed_queue = <<>>

(* More than k requests have the watcher active; outside uv__stream_io the *)
(* stream with callbacks to make is pending, and no other watcher is       *)
(* active than that of a stream with something to do.                      *)
Wakes(s, fr, k) ==
  /\ Len(s.write_queue) > k => s.pollout
  /\ fr = "none" => /\ s.write_completed_queue # <<>> => s.pending
                    /\ s.pollout => s.write_queue # <<>> \/ s.write_completed_queue # <<>>

(* The callbacks that were made, in order. *)
FiredGood ==
  /\ \A i, j \in DOMAIN fired : i < j => fired[i].id < fired[j].id
  /\ \A i \in DOMAIN fired : fired[i].id \in DOMAIN submitted /\ submitted[fired[i].id].cb

IInv ==
  /\ TypeOK /\ FrameInv /\ FiredGood /\ Len(submitted) =< MaxReqs
  /\ flags = "open" => Wakes(stream, frame, 0)
  /\ flags # "UV_CLOSED" => /\ Good(stream, submitted, FiredIds)
                            /\ \A i \in DOMAIN fired : fired[i].error = "0"
  /\ flags = "UV_CLOSED" => ClosedGood /\ InOrder /\ CallbacksTruthful /\ SizeExact

----------------------------------------------------------------------------
----------------------------------------------------------------------------
(* Facts about numbers, buffers and bytes. *)

LEMMA LeastNat ==
  ASSUME NEW S \in SUBSET Nat, S # {}
  PROVE  \E m \in S : \A n \in S : m =< n
<1> DEFINE R == OpToRel(<, Nat)
<1>1. IsWellFoundedOn(R, Nat)
  BY NatLessThanWellFounded
<1>2. \A x, y \in Nat : x < y => <<x, y>> \in R
  BY DEF OpToRel
<1> HIDE DEF R
<1>3. PICK m \in S : \A y \in S : ~(<<y, m>> \in R)
  BY <1>1, WFMin
<1>4. S \subseteq Nat /\ m \in Nat
  OBVIOUS
<1>5. \A n \in S : ~(n < m)
  BY <1>2, <1>3, <1>4
<1>6. \A a, b \in Nat : ~(b < a) => a =< b
  OBVIOUS
<1> QED
  BY <1>4, <1>5, <1>6

LEMMA BufsType ==
  ASSUME NEW bufs \in Bufs
  PROVE  /\ bufs \in Seq(Nat) /\ Len(bufs) \in 1..MaxBufs /\ DOMAIN bufs = 1..Len(bufs)
         /\ \A i \in DOMAIN bufs : bufs[i] \in Nat
<1>1. PICK n \in 1..MaxBufs : bufs \in [1..n -> Lens]
  BY DEF Bufs
<1>2. n \in Nat /\ Lens \subseteq Nat /\ MaxBufs \in Nat
  BY WriteAssumption
<1>a. bufs \in [1..n -> Nat] /\ DOMAIN bufs = 1..n
  BY <1>1, <1>2
<1>b. bufs \in Seq(Nat)
  BY <1>a, <1>2, SeqDef
<1>3. bufs \in Seq(Nat) /\ Len(bufs) = n
  BY <1>a, <1>b, <1>2, LenProperties
<1> QED
  BY <1>1, <1>2, <1>3

(* The buffer to go on with is the next one with data, or past the end. *)
LEMMA NextBufIs ==
  ASSUME NEW bufs \in Bufs, NEW i \in DOMAIN bufs
  PROVE  /\ NextBuf(bufs, i) \in (i + 1)..(Len(bufs) + 1)
         /\ NextBuf(bufs, i) = Len(bufs) + 1 \/ bufs[NextBuf(bufs, i)] # 0
         /\ \A k \in (i + 1)..(NextBuf(bufs, i) - 1) : bufs[k] = 0
<1> DEFINE S == {j \in (i + 1)..(Len(bufs) + 1) : j = Len(bufs) + 1 \/ bufs[j] # 0}
<1>1. Len(bufs) \in Nat /\ i \in 1..Len(bufs) /\ DOMAIN bufs = 1..Len(bufs)
  BY BufsType
<1>2. Len(bufs) + 1 \in S /\ S \in SUBSET Nat
  BY <1>1
<1>3. PICK m \in S : \A n \in S : m =< n
  BY <1>2, LeastNat
<1>4. \A k \in (i + 1)..(m - 1) : bufs[k] = 0
  <2> SUFFICES ASSUME NEW k \in (i + 1)..(m - 1), bufs[k] # 0 PROVE FALSE
    OBVIOUS
  <2>1. m \in (i + 1)..(Len(bufs) + 1) /\ k \in Nat /\ k < m
    BY <1>1, <1>3
  <2>2. k \in S
    BY <1>1, <2>1
  <2>3. m =< k
    BY <1>3, <2>2
  <2> QED
    BY <1>1, <2>1, <2>3
<1>5. \E j \in (i + 1)..(Len(bufs) + 1) :
        /\ j = Len(bufs) + 1 \/ bufs[j] # 0
        /\ \A k \in (i + 1)..(j - 1) : bufs[k] = 0
  BY <1>3, <1>4
<1> QED
  BY <1>5 DEF NextBuf

LEMMA FiniteImage ==
  ASSUME NEW f, IsFiniteSet(DOMAIN f), f = [x \in DOMAIN f |-> f[x]]
  PROVE  IsFiniteSet({f[x] : x \in DOMAIN f})
<1> DEFINE T == {f[x] : x \in DOMAIN f}
<1>1. f \in Surjection(DOMAIN f, T)
  BY DEF Surjection
<1> QED
  BY <1>1, FS_Surjection

LEMMA BytesFinite ==
  ASSUME NEW bufs \in Bufs, NEW i \in Nat \ {0}
  PROVE  IsFiniteSet(Bytes(bufs, i)) /\ Cardinality(Bytes(bufs, i)) \in Nat
<1> DEFINE f == [j \in i..Len(bufs) |-> {j} \X (1..bufs[j])]
<1>1. Len(bufs) \in Nat /\ IsFiniteSet(i..Len(bufs))
  BY BufsType, FS_Interval
<1>2. \A j \in i..Len(bufs) : IsFiniteSet(f[j])
  <2> SUFFICES ASSUME NEW j \in i..Len(bufs) PROVE IsFiniteSet({j} \X (1..bufs[j]))
    OBVIOUS
  <2>1. bufs[j] \in Nat
    BY BufsType
  <2>2. 1 \in Int /\ bufs[j] \in Int
    BY <2>1
  <2>3. IsFiniteSet(1..bufs[j])
    BY <2>2, FS_Interval
  <2>4. IsFiniteSet({j})
    BY FS_Singleton
  <2> QED
    BY <2>3, <2>4, FS_Product
<1>3. DOMAIN f = i..Len(bufs) /\ f = [x \in DOMAIN f |-> f[x]]
  OBVIOUS
<1>4. Bytes(bufs, i) = UNION {f[x] : x \in DOMAIN f}
  BY DEF Bytes
<1> HIDE DEF f
<1>5. IsFiniteSet({f[x] : x \in DOMAIN f})
  BY <1>1, <1>3, FiniteImage
<1>a. \A T \in {f[x] : x \in DOMAIN f} : IsFiniteSet(T)
  BY <1>2, <1>3
<1>b. IsFiniteSet(UNION {f[x] : x \in DOMAIN f})
  BY <1>5, <1>a, FS_UNION
<1>6. IsFiniteSet(Bytes(bufs, i))
  BY <1>b, <1>4
<1> QED
  BY <1>6, FS_CardinalityType

(* Writing a buffer leaves the bytes from the next one with data on. *)
LEMMA BytesStep ==
  ASSUME NEW bufs \in Bufs, NEW i \in DOMAIN bufs, NEW n, n = NextBuf(bufs, i)
  PROVE  /\ n \in Nat \ {0}
         /\ Cardinality(Bytes(bufs, i)) = bufs[i] + Cardinality(Bytes(bufs, n))
<1> DEFINE B == {i} \X (1..bufs[i])
<1>1. /\ Len(bufs) \in Nat /\ i \in 1..Len(bufs) /\ DOMAIN bufs = 1..Len(bufs)
      /\ \A j \in 1..Len(bufs) : bufs[j] \in Nat
  BY BufsType
<1>2. /\ n \in (i + 1)..(Len(bufs) + 1)
      /\ \A k \in (i + 1)..(n - 1) : bufs[k] = 0
  BY NextBufIs
<1>3. \A b : b \in Bytes(bufs, i) <=> b \in B \/ b \in Bytes(bufs, n)
  <2> TAKE b
  <2>1. b \in Bytes(bufs, i) <=> \E j \in i..Len(bufs) : b \in {j} \X (1..bufs[j])
    BY DEF Bytes
  <2>2. b \in Bytes(bufs, n) <=> \E j \in n..Len(bufs) : b \in {j} \X (1..bufs[j])
    BY DEF Bytes
  <2>3. \A j \in i..Len(bufs) : j = i \/ j \in (i + 1)..(n - 1) \/ j \in n..Len(bufs)
    BY <1>1, <1>2
  <2>4. \A j \in (i + 1)..(n - 1) : b \notin {j} \X (1..bufs[j])
    BY <1>2
  <2>5. i \in i..Len(bufs) /\ n..Len(bufs) \subseteq i..Len(bufs)
    BY <1>1, <1>2
  <2> QED
    BY <2>1, <2>2, <2>3, <2>4, <2>5
<1>4. B \cap Bytes(bufs, n) = {}
  <2> SUFFICES ASSUME NEW b \in B, b \in Bytes(bufs, n) PROVE FALSE
    OBVIOUS
  <2>1. PICK j \in n..Len(bufs) : b \in {j} \X (1..bufs[j])
    BY DEF Bytes
  <2>2. b[1] = i /\ b[1] = j
    BY <2>1
  <2> QED
    BY <1>1, <1>2, <2>2
<1>5. n \in Nat \ {0} /\ IsFiniteSet(Bytes(bufs, n)) /\ Cardinality(Bytes(bufs, n)) \in Nat
  BY <1>1, <1>2, BytesFinite
<1>6. IsFiniteSet(B) /\ Cardinality(B) = bufs[i]
  <2>1. IsFiniteSet({i}) /\ Cardinality({i}) = 1
    BY FS_Singleton
  <2>a. 1 \in Int /\ bufs[i] \in Int /\ bufs[i] \in Nat
    BY <1>1
  <2>b. IsFiniteSet(1..bufs[i]) /\ Cardinality(1..bufs[i]) = IF 1 > bufs[i] THEN 0 ELSE bufs[i] - 1 + 1
    BY <2>a, FS_Interval
  <2>2. bufs[i] \in Nat /\ IsFiniteSet(1..bufs[i]) /\ Cardinality(1..bufs[i]) = bufs[i]
    BY <2>a, <2>b
  <2>3. IsFiniteSet(B) /\ Cardinality(B) = 1 * Cardinality(1..bufs[i])
    BY <2>1, <2>2, FS_Product
  <2> QED
    BY <2>2, <2>3
<1> HIDE DEF B
<1>7. Bytes(bufs, i) = B \cup Bytes(bufs, n)
  BY <1>3
<1>8. Cardinality(B \cup Bytes(bufs, n)) = Cardinality(B) + Cardinality(Bytes(bufs, n)) - Cardinality({})
  BY <1>4, <1>5, <1>6, FS_Union
<1> QED
  BY <1>1, <1>5, <1>6, <1>7, <1>8, FS_EmptySet

(* The rest of a request has as many bytes, under its id. *)
LEMMA RestIs ==
  ASSUME NEW r \in Reqs
  PROVE  /\ IsFiniteSet(Rest(r)) /\ uv__write_req_size(r) \in Nat
         /\ Cardinality(Rest(r)) = uv__write_req_size(r)
         /\ \A b \in Rest(r) : b[1] = r.id
<1>1. r.bufs \in Bufs /\ r.write_index \in Nat \ {0}
  BY WriteAssumption DEF Reqs
<1>2. IsFiniteSet(Bytes(r.bufs, r.write_index)) /\ Cardinality(Bytes(r.bufs, r.write_index)) \in Nat
  BY <1>1, BytesFinite
<1>3. IsFiniteSet({r.id}) /\ Cardinality({r.id}) = 1
  BY FS_Singleton
<1>4. /\ IsFiniteSet(Rest(r))
      /\ Cardinality(Rest(r)) = Cardinality({r.id}) * Cardinality(Bytes(r.bufs, r.write_index))
  BY <1>2, <1>3, FS_Product DEF Rest
<1>5. \A n \in Nat : 1 * n = n
  OBVIOUS
<1>6. Cardinality(Rest(r)) = Cardinality(Bytes(r.bufs, r.write_index))
  BY <1>2, <1>3, <1>4, <1>5
<1> QED
  BY <1>2, <1>4, <1>6 DEF Rest, uv__write_req_size, Count

(* A request that is past its buffers has none left. *)
LEMMA RestDone ==
  ASSUME NEW r \in Reqs, r.write_index = Len(r.bufs) + 1
  PROVE  Rest(r) = {}
<1>1. Len(r.bufs) \in Nat
  BY BufsType DEF Reqs
<1>2. r.write_index..Len(r.bufs) = {}
  BY <1>1
<1> QED
  BY <1>2 DEF Rest, Bytes

LEMMA QueueBytesFinite ==
  ASSUME NEW q \in Seq(Reqs)
  PROVE  IsFiniteSet(QueueBytes(q)) /\ Cardinality(QueueBytes(q)) \in Nat
<1> DEFINE f == [n \in DOMAIN q |-> Rest(q[n])]
<1>1. DOMAIN q = 1..Len(q) /\ Len(q) \in Nat /\ \A n \in DOMAIN q : q[n] \in Reqs
  OBVIOUS
<1>2. IsFiniteSet(DOMAIN q)
  BY <1>1, FS_Interval
<1>3. \A n \in DOMAIN q : IsFiniteSet(f[n])
  BY <1>1, RestIs
<1>4. DOMAIN f = DOMAIN q /\ f = [x \in DOMAIN f |-> f[x]]
  OBVIOUS
<1>5. QueueBytes(q) = UNION {f[x] : x \in DOMAIN f}
  BY DEF QueueBytes
<1> HIDE DEF f
<1>6. IsFiniteSet({f[x] : x \in DOMAIN f})
  BY <1>2, <1>4, FiniteImage
<1>7. IsFiniteSet(QueueBytes(q))
  BY <1>3, <1>4, <1>5, <1>6, FS_UNION
<1> QED
  BY <1>7, FS_CardinalityType

LEMMA QueueBytesIn ==
  ASSUME NEW q, NEW b
  PROVE  b \in QueueBytes(q) <=> \E n \in DOMAIN q : b \in Rest(q[n])
BY DEF QueueBytes

(* The bytes of a queue whose first request has an id of its own. *)
LEMMA QueueBytesFirst ==
  ASSUME NEW q \in Seq(Reqs), q # <<>>, \A n \in DOMAIN q : n > 1 => q[n].id # q[1].id
  PROVE  Cardinality(QueueBytes(q)) = uv__write_req_size(q[1]) + Cardinality(QueueBytes(Tail(q)))
<1>1. /\ DOMAIN q = 1..Len(q) /\ Len(q) \in Nat \ {0} /\ \A n \in DOMAIN q : q[n] \in Reqs
      /\ Tail(q) \in Seq(Reqs) /\ DOMAIN Tail(q) = 1..(Len(q) - 1)
      /\ \A n \in 1..(Len(q) - 1) : Tail(q)[n] = q[n + 1]
  BY EmptySeq
<1>2. \A b : b \in QueueBytes(q) <=> b \in Rest(q[1]) \/ b \in QueueBytes(Tail(q))
  <2> TAKE b
  <2>1. b \in QueueBytes(q) <=> \E n \in 1..Len(q) : b \in Rest(q[n])
    BY <1>1, QueueBytesIn
  <2>a. b \in QueueBytes(Tail(q)) <=> \E n \in DOMAIN Tail(q) : b \in Rest(Tail(q)[n])
    BY QueueBytesIn
  <2>2. b \in QueueBytes(Tail(q)) <=> \E n \in 1..(Len(q) - 1) : b \in Rest(q[n + 1])
    BY <1>1, <2>a, Zenon
  <2>3. \A n \in 1..Len(q) : n = 1 \/ (n - 1 \in 1..(Len(q) - 1) /\ (n - 1) + 1 = n)
    BY <1>1
  <2>4. 1 \in 1..Len(q) /\ \A n \in 1..(Len(q) - 1) : n + 1 \in 1..Len(q)
    BY <1>1
  <2> QED
    BY <2>1, <2>2, <2>3, <2>4
<1>3. Rest(q[1]) \cap QueueBytes(Tail(q)) = {}
  <2> SUFFICES ASSUME NEW b \in Rest(q[1]), b \in QueueBytes(Tail(q)) PROVE FALSE
    OBVIOUS
  <2>a. \E n \in DOMAIN Tail(q) : b \in Rest(Tail(q)[n])
    BY QueueBytesIn
  <2>1. PICK n \in 1..(Len(q) - 1) : b \in Rest(q[n + 1])
    BY <1>1, <2>a, Zenon
  <2>2. n + 1 \in DOMAIN q /\ n + 1 > 1 /\ 1 \in DOMAIN q
    BY <1>1
  <2>3. b[1] = q[1].id /\ b[1] = q[n + 1].id
    BY <1>1, <2>1, <2>2, RestIs
  <2> QED
    BY <2>2, <2>3
<1>4. QueueBytes(q) = Rest(q[1]) \cup QueueBytes(Tail(q))
  BY <1>2
<1>5. /\ IsFiniteSet(Rest(q[1])) /\ Cardinality(Rest(q[1])) = uv__write_req_size(q[1])
      /\ uv__write_req_size(q[1]) \in Nat
  BY <1>1, RestIs
<1>6. IsFiniteSet(QueueBytes(Tail(q))) /\ Cardinality(QueueBytes(Tail(q))) \in Nat
  BY <1>1, QueueBytesFinite
<1>7. Cardinality(Rest(q[1]) \cup QueueBytes(Tail(q)))
        = Cardinality(Rest(q[1])) + Cardinality(QueueBytes(Tail(q))) - Cardinality({})
  BY <1>3, <1>5, <1>6, FS_Union
<1> QED
  BY <1>4, <1>5, <1>6, <1>7, FS_EmptySet

(* A request with an id of its own at the end. *)
LEMMA QueueBytesAppend ==
  ASSUME NEW q \in Seq(Reqs), NEW r \in Reqs, \A n \in DOMAIN q : q[n].id # r.id
  PROVE  Cardinality(QueueBytes(Append(q, r))) = Cardinality(QueueBytes(q)) + uv__write_req_size(r)
<1>1. /\ DOMAIN q = 1..Len(q) /\ Len(q) \in Nat /\ \A n \in DOMAIN q : q[n] \in Reqs
      /\ DOMAIN Append(q, r) = 1..(Len(q) + 1) /\ Append(q, r)[Len(q) + 1] = r
      /\ \A n \in 1..Len(q) : Append(q, r)[n] = q[n]
  BY AppendProperties
<1>2. \A b : b \in QueueBytes(Append(q, r)) <=> b \in QueueBytes(q) \/ b \in Rest(r)
  <2> TAKE b
  <2>1. b \in QueueBytes(q) <=> \E n \in 1..Len(q) : b \in Rest(q[n])
    BY <1>1, QueueBytesIn
  <2>2. b \in QueueBytes(Append(q, r)) <=> \E n \in 1..(Len(q) + 1) : b \in Rest(Append(q, r)[n])
    BY <1>1, QueueBytesIn
  <2>3. \A n \in 1..(Len(q) + 1) : n \in 1..Len(q) \/ n = Len(q) + 1
    BY <1>1
  <2>4. Len(q) + 1 \in 1..(Len(q) + 1) /\ \A n \in 1..Len(q) : n \in 1..(Len(q) + 1)
    BY <1>1
  <2> QED
    BY <1>1, <2>1, <2>2, <2>3, <2>4
<1>3. QueueBytes(q) \cap Rest(r) = {}
  <2> SUFFICES ASSUME NEW b \in Rest(r), b \in QueueBytes(q) PROVE FALSE
    OBVIOUS
  <2>1. PICK n \in DOMAIN q : b \in Rest(q[n])
    BY QueueBytesIn
  <2>2. b[1] = r.id /\ b[1] = q[n].id
    BY <1>1, <2>1, RestIs
  <2> QED
    BY <2>2
<1>4. QueueBytes(Append(q, r)) = QueueBytes(q) \cup Rest(r)
  BY <1>2
<1>5. IsFiniteSet(Rest(r)) /\ Cardinality(Rest(r)) = uv__write_req_size(r) /\ uv__write_req_size(r) \in Nat
  BY RestIs
<1>6. IsFiniteSet(QueueBytes(q)) /\ Cardinality(QueueBytes(q)) \in Nat
  BY QueueBytesFinite
<1>7. Cardinality(QueueBytes(q) \cup Rest(r)) = Cardinality(QueueBytes(q)) + Cardinality(Rest(r)) - Cardinality({})
  BY <1>3, <1>5, <1>6, FS_Union
<1> QED
  BY <1>4, <1>5, <1>6, <1>7, FS_EmptySet

----------------------------------------------------------------------------
(* uv__write. *)

LEMMA StreamType ==
  ASSUME NEW s \in Streams
  PROVE  /\ s.write_queue \in Seq(Reqs) /\ s.write_completed_queue \in Seq(Reqs)
         /\ s.write_queue_size \in Nat /\ s.pollout \in BOOLEAN /\ s.pending \in BOOLEAN
         /\ s.sent \in Seq(Ids \X (1..MaxBufs))
BY DEF Streams

LEMMA ReqType ==
  ASSUME NEW r \in Reqs
  PROVE  /\ r.id \in Ids /\ r.id \in Nat /\ r.bufs \in Bufs /\ r.write_index \in 1..(MaxBufs + 1)
         /\ r.error \in {"0", ECANCELED} /\ MaxBufs \in Nat /\ MaxReqs \in Nat
         /\ \A n \in 1..(MaxBufs + 1) :
              LET d == [r EXCEPT !.write_index = n] IN
              /\ d \in Reqs /\ d.id = r.id /\ d.bufs = r.bufs /\ d.error = r.error
              /\ d.write_index = n
BY WriteAssumption DEF Reqs, Ids

(* The state w that writing a buffer of the request r leaves; r becomes d, *)
(* with n the buffer to go on with.                                        *)
Wrote(s, r, n, d, w) ==
  /\ r \in Reqs /\ d \in Reqs /\ n \in 1..(Len(r.bufs) + 1)
  /\ d.id = r.id /\ d.bufs = r.bufs /\ d.error = r.error /\ d.write_index = n
  /\ w.sent = Sent(s, r) /\ w.sent \in Seq(Ids \X (1..MaxBufs))
  /\ w.write_queue_size = s.write_queue_size - r.bufs[r.write_index]
  /\ n > Len(r.bufs) =>
       /\ w.write_queue = Tail(s.write_queue)
       /\ w.write_completed_queue = Append(s.write_completed_queue, d)
       /\ w.pending = TRUE /\ w.pollout = s.pollout
  /\ ~(n > Len(r.bufs)) =>
       /\ w.write_queue = [s.write_queue EXCEPT ![1] = d]
       /\ w.write_completed_queue = s.write_completed_queue
       /\ w.pending = s.pending /\ w.pollout = TRUE
  /\ w.write_queue_size \in Nat => w \in Streams

LEMMA WriteFields ==
  ASSUME NEW s \in Streams, s.write_queue # <<>>, NEW r, r = s.write_queue[1],
         r.write_index \in DOMAIN r.bufs, NEW n, n = NextBuf(r.bufs, r.write_index),
         NEW d, d = [r EXCEPT !.write_index = n], NEW w, w = uv__write(s)
  PROVE  Wrote(s, r, n, d, w)
<1>1. /\ s.write_queue \in Seq(Reqs) /\ Len(s.write_queue) \in Nat \ {0}
      /\ r \in Reqs /\ Head(s.write_queue) = r /\ Tail(s.write_queue) \in Seq(Reqs)
  BY EmptySeq, StreamType
<1>2. /\ Len(r.bufs) \in 1..MaxBufs /\ DOMAIN r.bufs = 1..Len(r.bufs) /\ r.id \in Ids
      /\ r.bufs[r.write_index] \in Nat /\ MaxBufs \in Nat
  BY <1>1, ReqType, BufsType
<1>3. n \in (r.write_index + 1)..(Len(r.bufs) + 1)
  BY <1>1, NextBufIs, ReqType
<1>4. n \in 1..(Len(r.bufs) + 1) /\ n \in 1..(MaxBufs + 1)
  BY <1>2, <1>3
<1>5. d \in Reqs /\ d.id = r.id /\ d.bufs = r.bufs /\ d.error = r.error /\ d.write_index = n
  BY <1>1, <1>4, ReqType
<1>6. Sent(s, r) \in Seq(Ids \X (1..MaxBufs))
  <2>1. r.write_index \in 1..MaxBufs /\ <<r.id, r.write_index>> \in Ids \X (1..MaxBufs)
    BY <1>2
  <2> QED
    BY <2>1, StreamType, AppendProperties DEF Sent
<1> DEFINE v == [s EXCEPT !.sent = Sent(s, r),
                          !.write_queue_size = @ - r.bufs[r.write_index]]
<1>7. /\ v.sent = Sent(s, r) /\ v.write_queue_size = s.write_queue_size - r.bufs[r.write_index]
      /\ v.write_queue = s.write_queue /\ v.write_completed_queue = s.write_completed_queue
      /\ v.pending = s.pending /\ v.pollout = s.pollout
      /\ v.write_queue_size \in Nat => v \in Streams
      /\ DOMAIN v = DOMAIN s
  BY <1>6 DEF Streams
<1>8. w = IF n > Len(r.bufs) THEN uv__write_req_finish(v, d)
          ELSE [v EXCEPT !.write_queue[1] = d, !.pollout = TRUE]
  BY <1>1 DEF uv__write
<1>9. DOMAIN s = {"write_queue", "write_completed_queue", "write_queue_size", "pollout", "pending", "sent"}
  BY DEF Streams
<1> HIDE DEF v
<1>10. Append(s.write_completed_queue, d) \in Seq(Reqs) /\ [s.write_queue EXCEPT ![1] = d] \in Seq(Reqs)
  BY <1>1, <1>5, StreamType, AppendProperties, ExceptSeq
<1>11. CASE n > Len(r.bufs)
  <2>1. w = [v EXCEPT !.write_queue = Tail(@), !.write_completed_queue = Append(@, d), !.pending = TRUE]
    BY <1>8, <1>11 DEF uv__write_req_finish
  <2>2. /\ w.write_queue = Tail(s.write_queue)
        /\ w.write_completed_queue = Append(s.write_completed_queue, d)
        /\ w.pending = TRUE /\ w.pollout = s.pollout
        /\ w.sent = Sent(s, r) /\ w.write_queue_size = v.write_queue_size
    BY <1>7, <1>9, <2>1
  <2>3. w.write_queue_size \in Nat => w \in Streams
    BY <1>1, <1>7, <1>10, <2>1, <2>2 DEF Streams
  <2> QED
    BY <1>1, <1>4, <1>5, <1>6, <1>7, <1>11, <2>2, <2>3 DEF Wrote
<1>12. CASE ~(n > Len(r.bufs))
  <2>1. w = [v EXCEPT !.write_queue[1] = d, !.pollout = TRUE]
    BY <1>8, <1>12
  <2>2. /\ w.write_queue = [s.write_queue EXCEPT ![1] = d]
        /\ w.write_completed_queue = s.write_completed_queue
        /\ w.pending = s.pending /\ w.pollout = TRUE
        /\ w.sent = Sent(s, r) /\ w.write_queue_size = v.write_queue_size
    BY <1>7, <1>9, <2>1
  <2>3. w.write_queue_size \in Nat => w \in Streams
    BY <1>1, <1>7, <1>10, <2>1, <2>2 DEF Streams
  <2> QED
    BY <1>1, <1>4, <1>5, <1>6, <1>7, <1>12, <2>2, <2>3 DEF Wrote
<1> QED
  BY <1>11, <1>12

(* What Good says of the first request in the queue. *)
LEMMA FirstGood ==
  ASSUME NEW s, NEW sub \in Seq([bufs : Bufs, cb : BOOLEAN]), NEW F, Good(s, sub, F),
         s.write_queue # <<>>, NEW r, r = s.write_queue[1]
  PROVE  /\ s \in Streams /\ r \in Reqs /\ Len(s.write_queue) \in Nat \ {0} /\ Len(sub) \in Nat
         /\ DOMAIN s.write_queue = 1..Len(s.write_queue)
         /\ Gone(s, sub) \in Nat /\ Gone(s, sub) + Len(s.write_queue) = Len(sub)
         /\ r.id = Gone(s, sub) + 1 /\ r.id \in DOMAIN sub /\ r.error = "0"
         /\ r.bufs = sub[r.id].bufs /\ sub[r.id].cb /\ r.bufs \in Bufs
         /\ r.write_index \in DOMAIN r.bufs /\ r.write_index \in 1..Len(r.bufs)
         /\ Len(r.bufs) \in Nat /\ r.bufs[r.write_index] \in Nat
         /\ DOMAIN r.bufs = 1..Len(r.bufs)
<1>1. s \in Streams /\ QueueGood(s, sub) /\ s.write_queue \in Seq(Reqs)
  BY StreamType DEF Good
<1>2. /\ Len(s.write_queue) \in Nat \ {0} /\ Len(sub) \in Nat /\ 1 \in DOMAIN s.write_queue
      /\ DOMAIN s.write_queue = 1..Len(s.write_queue) /\ r \in Reqs
  BY <1>1, EmptySeq
<1>3. Len(s.write_queue) =< Len(sub)
  BY <1>1 DEF QueueGood
<1>4. Gone(s, sub) \in Nat /\ Gone(s, sub) + Len(s.write_queue) = Len(sub)
  BY <1>2, <1>3 DEF Gone
<1>5. /\ r.id = Gone(s, sub) + 1 /\ r.error = "0" /\ r.bufs = sub[r.id].bufs /\ sub[r.id].cb
      /\ r.write_index \in DOMAIN r.bufs
  BY <1>1, <1>2 DEF QueueGood
<1>6. r.id \in 1..Len(sub)
  BY <1>2, <1>4, <1>5
<1>7. r.bufs \in Bufs
  BY <1>2, ReqType
<1>8. /\ Len(r.bufs) \in Nat /\ DOMAIN r.bufs = 1..Len(r.bufs)
      /\ \A i \in DOMAIN r.bufs : r.bufs[i] \in Nat
  BY <1>7, BufsType
<1>9. DOMAIN sub = 1..Len(sub)
  OBVIOUS
<1> QED
  BY <1>1, <1>2, <1>4, <1>5, <1>6, <1>7, <1>8, <1>9

(* What uv__write does with q, the queue, of which g requests are gone: r  *)
(* is the first request and d what it becomes, n the buffer to go on with. *)
Moves(s, sub, w, q, r, n, d, g) ==
  /\ s \in Streams /\ r \in Reqs /\ d \in Reqs
  /\ q = s.write_queue /\ q \in Seq(Reqs) /\ q # <<>> /\ r = q[1]
  /\ Len(q) \in Nat \ {0} /\ DOMAIN q = 1..Len(q) /\ Len(sub) \in Nat
  /\ g = Gone(s, sub) /\ g \in Nat /\ g + Len(q) = Len(sub)
  /\ r.id = g + 1 /\ r.id \in DOMAIN sub /\ r.error = "0" /\ r.bufs = sub[r.id].bufs /\ sub[r.id].cb
  /\ r.bufs \in Bufs /\ Len(r.bufs) \in Nat /\ DOMAIN r.bufs = 1..Len(r.bufs)
  /\ r.write_index \in 1..Len(r.bufs) /\ r.bufs[r.write_index] \in Nat
  /\ n = NextBuf(r.bufs, r.write_index)
  /\ n \in (r.write_index + 1)..(Len(r.bufs) + 1) /\ (n = Len(r.bufs) + 1 \/ r.bufs[n] # 0)
  /\ \A k \in (r.write_index + 1)..(n - 1) : r.bufs[k] = 0
  /\ d.id = g + 1 /\ d.bufs = r.bufs /\ d.error = "0" /\ d.write_index = n
  /\ w.sent = Sent(s, r) /\ w.write_queue_size = s.write_queue_size - r.bufs[r.write_index]
  /\ \/ /\ n = Len(r.bufs) + 1
        /\ w.write_queue = Tail(q) /\ w.write_completed_queue = Append(s.write_completed_queue, d)
        /\ w.pending = TRUE /\ w.pollout = s.pollout
     \/ /\ n \in 1..Len(r.bufs)
        /\ w.write_queue = [q EXCEPT ![1] = d] /\ w.write_completed_queue = s.write_completed_queue
        /\ w.pending = s.pending /\ w.pollout = TRUE
  /\ w.write_queue_size \in Nat => w \in Streams

LEMMA WriteMoves ==
  ASSUME NEW s, NEW sub \in Seq([bufs : Bufs, cb : BOOLEAN]), NEW F, Good(s, sub, F),
         s.write_queue # <<>>, NEW w, w = uv__write(s)
  PROVE  \E q, r, n, d, g : Moves(s, sub, w, q, r, n, d, g)
<1> DEFINE q == s.write_queue
           r == s.write_queue[1]
           n == NextBuf(r.bufs, r.write_index)
           d == [r EXCEPT !.write_index = n]
           g == Gone(s, sub)
<1>6. /\ s \in Streams /\ r \in Reqs /\ Len(q) \in Nat \ {0} /\ Len(sub) \in Nat
      /\ DOMAIN q = 1..Len(q)
      /\ g \in Nat /\ g + Len(q) = Len(sub)
      /\ r.id = g + 1 /\ r.id \in DOMAIN sub /\ r.error = "0"
      /\ r.bufs = sub[r.id].bufs /\ sub[r.id].cb /\ r.bufs \in Bufs
      /\ r.write_index \in DOMAIN r.bufs /\ r.write_index \in 1..Len(r.bufs)
      /\ Len(r.bufs) \in Nat /\ r.bufs[r.write_index] \in Nat
      /\ DOMAIN r.bufs = 1..Len(r.bufs)
  BY FirstGood
<1>7. /\ d \in Reqs /\ n \in 1..(Len(r.bufs) + 1)
      /\ d.id = r.id /\ d.bufs = r.bufs /\ d.error = r.error /\ d.write_index = n
      /\ w.sent = Sent(s, r) /\ w.write_queue_size = s.write_queue_size - r.bufs[r.write_index]
      /\ n > Len(r.bufs) =>
           /\ w.write_queue = Tail(s.write_queue)
           /\ w.write_completed_queue = Append(s.write_completed_queue, d)
           /\ w.pending = TRUE /\ w.pollout = s.pollout
      /\ ~(n > Len(r.bufs)) =>
           /\ w.write_queue = [s.write_queue EXCEPT ![1] = d]
           /\ w.write_completed_queue = s.write_completed_queue
           /\ w.pending = s.pending /\ w.pollout = TRUE
      /\ w.write_queue_size \in Nat => w \in Streams
  <2>1. s \in Streams /\ r.write_index \in DOMAIN r.bufs
    BY <1>6
  <2>2. r = s.write_queue[1] /\ n = NextBuf(r.bufs, r.write_index) /\ d = [r EXCEPT !.write_index = n]
    OBVIOUS
  <2> HIDE DEF n, d, r, g, q
  <2>3. Wrote(s, r, n, d, w)
    BY <2>1, <2>2, WriteFields
  <2> QED
    BY <2>3 DEF Wrote
<1> HIDE DEF n, d, r, g, q
<1>8. /\ n \in (r.write_index + 1)..(Len(r.bufs) + 1) /\ (n = Len(r.bufs) + 1 \/ r.bufs[n] # 0)
      /\ \A k \in (r.write_index + 1)..(n - 1) : r.bufs[k] = 0
  BY <1>6, NextBufIs DEF n
<1>9. q \in Seq(Reqs) /\ q # <<>>
  BY <1>6, StreamType DEF q
<1>c. Len(r.bufs) \in Nat /\ n \in 1..(Len(r.bufs) + 1)
  BY <1>6, <1>7
<1>10. n > Len(r.bufs) => n = Len(r.bufs) + 1
  BY <1>c
<1>11. ~(n > Len(r.bufs)) => n \in 1..Len(r.bufs)
  BY <1>c
<1>12. Moves(s, sub, w, q, r, n, d, g)
  <2>1. q = s.write_queue /\ r = q[1] /\ n = NextBuf(r.bufs, r.write_index) /\ g = Gone(s, sub)
    BY DEF q, r, n, g
  <2> QED
    BY <1>6, <1>7, <1>8, <1>9, <1>10, <1>11, <2>1, Zenon DEF Moves
<1> QED
  BY <1>12

LEMMA WriteQueue ==
  ASSUME NEW s, NEW sub \in Seq([bufs : Bufs, cb : BOOLEAN]), NEW F, Good(s, sub, F),
         NEW w, NEW q, NEW r, NEW n, NEW d, NEW g, Moves(s, sub, w, q, r, n, d, g)
  PROVE  QueueGood(w, sub)
<1>0. /\ q = s.write_queue /\ q \in Seq(Reqs) /\ q # <<>> /\ r = q[1] /\ r \in Reqs /\ d \in Reqs
      /\ Len(q) \in Nat \ {0} /\ DOMAIN q = 1..Len(q) /\ Len(sub) \in Nat
      /\ g = Gone(s, sub) /\ g \in Nat /\ g + Len(q) = Len(sub)
  BY DEF Moves
<1>a. /\ r.id = g + 1 /\ r.error = "0" /\ r.bufs = sub[r.id].bufs /\ sub[r.id].cb
      /\ d.id = g + 1 /\ d.bufs = r.bufs /\ d.error = "0" /\ d.write_index = n
      /\ DOMAIN r.bufs = 1..Len(r.bufs) /\ Len(r.bufs) \in Nat
      /\ n = Len(r.bufs) + 1 \/ r.bufs[n] # 0
  BY DEF Moves
<1>b. \/ n = Len(r.bufs) + 1 /\ w.write_queue = Tail(q)
      \/ n \in 1..Len(r.bufs) /\ w.write_queue = [q EXCEPT ![1] = d]
  BY DEF Moves
<1>1. \A j \in 1..Len(q) :
       /\ q[j].id = g + j /\ q[j].error = "0" /\ q[j].bufs = sub[q[j].id].bufs /\ sub[q[j].id].cb
       /\ q[j].write_index \in DOMAIN q[j].bufs /\ (j > 1 => q[j].write_index = 1)
       /\ (q[j].write_index > 1 => q[j].bufs[q[j].write_index] # 0)
  BY <1>0 DEF Good, QueueGood
<1>2. CASE w.write_queue = Tail(q)
  <2>1. w.write_queue = Tail(q)
    BY <1>2
  <2>2. /\ Len(w.write_queue) = Len(q) - 1 /\ DOMAIN w.write_queue = 1..(Len(q) - 1)
        /\ \A j \in 1..(Len(q) - 1) : w.write_queue[j] = q[j + 1]
    BY <1>0, <2>1
  <2>a. \A a, b, c \in Nat : a + b = c => c - (b - 1) = a + 1 /\ b - 1 =< c
    OBVIOUS
  <2>3. Gone(w, sub) = g + 1 /\ Len(w.write_queue) =< Len(sub)
    <3>1. Gone(w, sub) = Len(sub) - (Len(q) - 1)
      BY <2>2 DEF Gone
    <3>2. g \in Nat /\ Len(q) \in Nat /\ Len(sub) \in Nat /\ g + Len(q) = Len(sub)
      BY <1>0
    <3> QED
      BY <2>2, <2>a, <3>1, <3>2
  <2>4. ASSUME NEW j \in 1..(Len(q) - 1)
        PROVE  LET x == w.write_queue[j] IN
               /\ x.id = (g + 1) + j /\ x.error = "0"
               /\ x.bufs = sub[x.id].bufs /\ sub[x.id].cb
               /\ x.write_index \in DOMAIN x.bufs
               /\ j > 1 => x.write_index = 1
               /\ x.write_index > 1 => x.bufs[x.write_index] # 0
    <3>1. j + 1 \in 1..Len(q) /\ j + 1 > 1 /\ g + (j + 1) = (g + 1) + j
      BY <1>0
    <3>2. w.write_queue[j] = q[j + 1]
      BY <2>2
    <3> QED
      BY <1>1, <3>1, <3>2
  <2> QED
    BY <2>2, <2>3, <2>4 DEF QueueGood
<1>3. CASE n \in 1..Len(r.bufs) /\ w.write_queue = [q EXCEPT ![1] = d]
  <2>1. w.write_queue = [q EXCEPT ![1] = d]
    BY <1>3
  <2>2. /\ Len(w.write_queue) = Len(q) /\ DOMAIN w.write_queue = 1..Len(q)
        /\ \A j \in 1..Len(q) : w.write_queue[j] = IF j = 1 THEN d ELSE q[j]
    BY <1>0, <2>1, ExceptSeq
  <2>3. Gone(w, sub) = g /\ Len(w.write_queue) =< Len(sub)
    <3>1. Gone(w, sub) = Len(sub) - Len(q)
      BY <2>2 DEF Gone
    <3>2. g \in Nat /\ Len(q) \in Nat /\ Len(sub) \in Nat /\ g + Len(q) = Len(sub)
      BY <1>0
    <3> QED
      BY <2>2, <3>1, <3>2
  <2>4. r.bufs[n] # 0
    BY <1>3, <1>a
  <2>5. ASSUME NEW j \in 1..Len(q)
        PROVE  LET x == w.write_queue[j] IN
               /\ x.id = g + j /\ x.error = "0"
               /\ x.bufs = sub[x.id].bufs /\ sub[x.id].cb
               /\ x.write_index \in DOMAIN x.bufs
               /\ j > 1 => x.write_index = 1
               /\ x.write_index > 1 => x.bufs[x.write_index] # 0
    <3>1. CASE j = 1
      <4>1. w.write_queue[j] = d /\ d.id = r.id /\ ~(j > 1)
        BY <1>a, <2>2, <3>1
      <4> QED
        BY <1>3, <1>a, <2>4, <3>1, <4>1
    <3>2. CASE j # 1
      <4>1. w.write_queue[j] = q[j]
        BY <2>2, <3>2
      <4> QED
        BY <1>1, <4>1
    <3> QED
      BY <3>1, <3>2
  <2> QED
    BY <2>2, <2>3, <2>5 DEF QueueGood
<1> QED
  BY <1>b, <1>2, <1>3

LEMMA WriteDone ==
  ASSUME NEW s, NEW sub \in Seq([bufs : Bufs, cb : BOOLEAN]), NEW F \in SUBSET Nat, Good(s, sub, F),
         NEW w, NEW q, NEW r, NEW n, NEW d, NEW g, Moves(s, sub, w, q, r, n, d, g)
  PROVE  DoneGood(w, sub, F)
<1>1. PICK C : C = s.write_completed_queue
  OBVIOUS
<1>0. /\ q = s.write_queue /\ q \in Seq(Reqs) /\ q # <<>> /\ d \in Reqs /\ s \in Streams
      /\ Len(q) \in Nat \ {0} /\ Len(sub) \in Nat
      /\ g = Gone(s, sub) /\ g \in Nat /\ g + Len(q) = Len(sub)
      /\ r.id = g + 1 /\ sub[r.id].cb /\ d.id = g + 1 /\ d.error = "0"
  BY DEF Moves
<1>b. \/ w.write_queue = Tail(q) /\ w.write_completed_queue = Append(C, d)
      \/ w.write_queue = [q EXCEPT ![1] = d] /\ w.write_completed_queue = C
  BY <1>1 DEF Moves
<1>3. /\ \A j \in DOMAIN C : C[j].error = "0" /\ C[j].id =< g /\ sub[C[j].id].cb
      /\ \A i, j \in DOMAIN C : i < j => C[i].id < C[j].id
      /\ \A f \in F : f =< g /\ \A j \in DOMAIN C : f < C[j].id
      /\ \A id \in 1..g : sub[id].cb => id \in F \/ \E j \in DOMAIN C : C[j].id = id
  BY <1>0, <1>1 DEF Good, DoneGood
<1>4. C \in Seq(Reqs) /\ Len(C) \in Nat /\ DOMAIN C = 1..Len(C)
  BY <1>0, <1>1, StreamType
<1>a. \A j \in DOMAIN C : C[j].id \in Nat
  BY <1>4, ReqType
<1>5. CASE w.write_queue = Tail(q) /\ w.write_completed_queue = Append(C, d)
  <2>1. Len(w.write_queue) = Len(q) - 1
    BY <1>0, <1>5
  <2>c. \A a, b, c \in Nat : a + b = c => c - (b - 1) = a + 1
    OBVIOUS
  <2>2. Gone(w, sub) = g + 1
    <3>1. Gone(w, sub) = Len(sub) - (Len(q) - 1)
      BY <2>1 DEF Gone
    <3>2. g \in Nat /\ Len(q) \in Nat /\ Len(sub) \in Nat /\ g + Len(q) = Len(sub)
      BY <1>0
    <3> QED
      BY <2>c, <3>1, <3>2
  <2>a. PICK D : D = w.write_completed_queue
    OBVIOUS
  <2>3. /\ DOMAIN D = 1..(Len(C) + 1) /\ D[Len(C) + 1] = d
        /\ \A j \in 1..Len(C) : D[j] = C[j]
    BY <1>0, <1>4, <1>5, <2>a, AppendProperties
  <2>4. \A j \in DOMAIN D : (j \in DOMAIN C /\ D[j] = C[j]) \/ (j = Len(C) + 1 /\ D[j] = d)
    BY <1>4, <2>3
  <2>b. d.id = g + 1 /\ d.error = "0" /\ sub[g + 1].cb /\ g \in Nat
    BY <1>0
  <2>5. \A j \in DOMAIN D : D[j].error = "0" /\ D[j].id =< g + 1 /\ sub[D[j].id].cb
    BY <1>3, <1>a, <2>4, <2>b
  <2>6. \A i, j \in DOMAIN D : i < j => D[i].id < D[j].id
    <3> SUFFICES ASSUME NEW i \in DOMAIN D, NEW j \in DOMAIN D, i < j PROVE D[i].id < D[j].id
      OBVIOUS
    <3>1. i \in DOMAIN C /\ D[i] = C[i]
      BY <1>4, <2>3
    <3>2. CASE j \in DOMAIN C /\ D[j] = C[j]
      BY <1>3, <3>1, <3>2
    <3>3. CASE D[j] = d
      BY <1>3, <1>a, <2>b, <3>1, <3>3
    <3> QED
      BY <2>4, <3>2, <3>3
  <2>7. \A f \in F : f =< g + 1 /\ \A j \in DOMAIN D : f < D[j].id
    BY <1>3, <2>4, <2>b
  <2>8. \A id \in 1..(g + 1) : sub[id].cb => id \in F \/ \E j \in DOMAIN D : D[j].id = id
    <3> SUFFICES ASSUME NEW id \in 1..(g + 1), sub[id].cb, id \notin F PROVE \E j \in DOMAIN D : D[j].id = id
      OBVIOUS
    <3>1. CASE id = g + 1
      <4>1. Len(C) + 1 \in DOMAIN D
        BY <1>4, <2>3
      <4> QED
        BY <2>3, <2>b, <3>1, <4>1
    <3>2. CASE id # g + 1
      <4>1. id \in 1..g
        BY <2>b, <3>2
      <4>2. PICK j \in DOMAIN C : C[j].id = id
        BY <1>3, <4>1
      <4>3. j \in DOMAIN D /\ D[j] = C[j]
        BY <1>4, <2>3
      <4> QED
        BY <4>2, <4>3
    <3> QED
      BY <3>1, <3>2
  <2> QED
    BY <2>2, <2>5, <2>6, <2>7, <2>8, <2>a DEF DoneGood
<1>6. CASE w.write_queue = [q EXCEPT ![1] = d] /\ w.write_completed_queue = C
  <2>1. w.write_queue = [q EXCEPT ![1] = d] /\ w.write_completed_queue = C
    BY <1>6
  <2>2. Len(w.write_queue) = Len(q)
    BY <1>0, <2>1, ExceptSeq
  <2>3. Gone(w, sub) = g
    BY <1>0, <2>2 DEF Gone
  <2> QED
    BY <1>3, <2>1, <2>3 DEF DoneGood
<1> QED
  BY <1>b, <1>5, <1>6

LEMMA WriteSize ==
  ASSUME NEW s, NEW sub \in Seq([bufs : Bufs, cb : BOOLEAN]), NEW F, Good(s, sub, F),
         NEW w, NEW q, NEW r, NEW n, NEW d, NEW g, Moves(s, sub, w, q, r, n, d, g)
  PROVE  SizeGood(w) /\ w \in Streams
<1>1. PICK k : k = Cardinality(QueueBytes(Tail(q)))
  OBVIOUS
<1>0. /\ q = s.write_queue /\ q \in Seq(Reqs) /\ q # <<>> /\ r = q[1] /\ r \in Reqs /\ d \in Reqs
      /\ Len(q) \in Nat \ {0} /\ DOMAIN q = 1..Len(q) /\ g \in Nat /\ g = Gone(s, sub) /\ r.id = g + 1
      /\ r.bufs \in Bufs /\ Len(r.bufs) \in Nat /\ r.bufs[r.write_index] \in Nat
      /\ r.write_index \in DOMAIN r.bufs /\ n = NextBuf(r.bufs, r.write_index)
      /\ d.id = g + 1 /\ d.bufs = r.bufs /\ d.write_index = n
      /\ w.write_queue_size = s.write_queue_size - r.bufs[r.write_index]
      /\ w.write_queue_size \in Nat => w \in Streams
  BY DEF Moves
<1>b. \/ n = Len(r.bufs) + 1 /\ w.write_queue = Tail(q)
      \/ w.write_queue = [q EXCEPT ![1] = d]
  BY DEF Moves
<1>3. q \in Seq(Reqs) /\ Tail(q) \in Seq(Reqs) /\ q # <<>>
  BY <1>0
<1>4. \A j \in DOMAIN q : j > 1 => q[j].id # q[1].id
  <2>1. \A j \in DOMAIN q : q[j].id = g + j
    BY <1>0 DEF Good, QueueGood
  <2>2. q[1].id = g + 1 /\ g \in Nat /\ DOMAIN q \subseteq Nat
    BY <1>0
  <2>3. \A j \in Nat : j > 1 => g + j # g + 1
    BY <2>2
  <2> QED
    BY <2>1, <2>2, <2>3
<1>5. s.write_queue_size = Cardinality(QueueBytes(q))
  BY <1>0 DEF Good, SizeGood
<1>6. k \in Nat
  BY <1>1, <1>3, QueueBytesFinite
<1>7. uv__write_req_size(r) = r.bufs[r.write_index] + uv__write_req_size(d) /\ uv__write_req_size(d) \in Nat
  <2>1. r.write_index \in DOMAIN r.bufs /\ n = NextBuf(r.bufs, r.write_index) /\ r.bufs \in Bufs
    BY <1>0
  <2>2. Cardinality(Bytes(r.bufs, r.write_index)) = r.bufs[r.write_index] + Cardinality(Bytes(r.bufs, n))
    BY <2>1, BytesStep, Zenon
  <2>3. uv__write_req_size(d) \in Nat
    BY <1>0, RestIs
  <2> QED
    BY <1>0, <2>2, <2>3 DEF uv__write_req_size, Count
<1>8. Cardinality(QueueBytes(q)) = uv__write_req_size(r) + k
  BY <1>0, <1>1, <1>3, <1>4, QueueBytesFirst
<1>c. \A a, b, x, y \in Nat : x = a + y => (x + b) - a = y + b
  OBVIOUS
<1>d. uv__write_req_size(r) \in Nat
  BY <1>0, RestIs
<1>9. w.write_queue_size = uv__write_req_size(d) + k
  <2>1. PICK a, x, y : a = r.bufs[r.write_index] /\ x = uv__write_req_size(r) /\ y = uv__write_req_size(d)
    OBVIOUS
  <2>2. a \in Nat /\ x \in Nat /\ y \in Nat /\ x = a + y
    BY <1>0, <1>7, <1>d, <2>1
  <2>3. w.write_queue_size = (x + k) - a
    <3>1. w.write_queue_size = s.write_queue_size - r.bufs[r.write_index]
      BY <1>0
    <3> QED
      BY <1>5, <1>8, <2>1, <3>1
  <2>4. (x + k) - a = y + k
    BY <1>6, <1>c, <2>2
  <2> QED
    BY <2>1, <2>3, <2>4
<1>e. w.write_queue_size \in Nat
  BY <1>6, <1>7, <1>9
<1>10. w \in Streams
  BY <1>0, <1>e
<1>11. CASE n = Len(r.bufs) + 1 /\ w.write_queue = Tail(q)
  <2>1. w.write_queue = Tail(q)
    BY <1>11
  <2>2. Rest(d) = {}
    BY <1>0, <1>11, RestDone
  <2>3. uv__write_req_size(d) = 0
    BY <1>0, <2>2, RestIs, FS_EmptySet
  <2> QED
    BY <1>1, <1>6, <1>9, <1>10, <2>1, <2>3 DEF SizeGood
<1>12. CASE w.write_queue = [q EXCEPT ![1] = d]
  <2>a. PICK p : p = [q EXCEPT ![1] = d]
    OBVIOUS
  <2>1. /\ p \in Seq(Reqs) /\ Len(p) = Len(q) /\ DOMAIN p = DOMAIN q
        /\ \A j \in DOMAIN q : p[j] = IF j = 1 THEN d ELSE q[j]
    BY <1>0, <2>a, ExceptSeq
  <2>2. p[1] = d /\ p # <<>>
    BY <1>0, <2>1
  <2>c. Tail(p) = Tail(q)
    <3>1. /\ Tail(p) \in Seq(Reqs) /\ Tail(q) \in Seq(Reqs) /\ Len(Tail(p)) = Len(q) - 1 /\ Len(Tail(q)) = Len(q) - 1
          /\ \A j \in 1..(Len(q) - 1) : Tail(p)[j] = p[j + 1] /\ Tail(q)[j] = q[j + 1]
      BY <1>0, <2>1, <2>2
    <3>2. \A j \in 1..(Len(q) - 1) : j + 1 \in DOMAIN q /\ j + 1 # 1
      BY <1>0
    <3> QED
      BY <2>1, <3>1, <3>2, SeqEqual
  <2>3. \A j \in DOMAIN p : j > 1 => p[j].id # p[1].id
    <3>1. d.id = q[1].id /\ \A j \in DOMAIN q : j > 1 => j # 1
      BY <1>0
    <3> QED
      BY <1>4, <2>1, <2>2, <3>1
  <2>4. Cardinality(QueueBytes(p)) = uv__write_req_size(d) + k
    BY <1>1, <2>1, <2>2, <2>c, <2>3, QueueBytesFirst
  <2>5. w.write_queue = p
    BY <1>12, <2>a
  <2> QED
    BY <1>9, <1>10, <2>4, <2>5 DEF SizeGood
<1> QED
  BY <1>b, <1>11, <1>12

(* One buffer more is behind the point to which the queue is written. *)
PastMoves(s, sub, w, r, g) ==
  \A id, i : IsData(sub, id, i) =>
    (Past(w, sub, id, i) <=> Past(s, sub, id, i) \/ (id = g + 1 /\ i = r.write_index))

LEMMA WritePast ==
  ASSUME NEW s, NEW sub \in Seq([bufs : Bufs, cb : BOOLEAN]), NEW F, Good(s, sub, F),
         NEW w, NEW q, NEW r, NEW n, NEW d, NEW g, Moves(s, sub, w, q, r, n, d, g)
  PROVE  PastMoves(s, sub, w, r, g)
<1> SUFFICES ASSUME NEW id, NEW i, IsData(sub, id, i)
             PROVE  Past(w, sub, id, i) <=> Past(s, sub, id, i) \/ (id = g + 1 /\ i = r.write_index)
  BY DEF PastMoves
<1>0. /\ q = s.write_queue /\ q \in Seq(Reqs) /\ q # <<>> /\ r = q[1] /\ r \in Reqs /\ d \in Reqs
      /\ Len(q) \in Nat \ {0} /\ DOMAIN q = 1..Len(q) /\ Len(sub) \in Nat
      /\ g = Gone(s, sub) /\ g \in Nat /\ g + Len(q) = Len(sub)
  BY DEF Moves
<1>1. /\ r.id = g + 1 /\ r.bufs = sub[r.id].bufs /\ d.write_index = n
      /\ DOMAIN r.bufs = 1..Len(r.bufs) /\ Len(r.bufs) \in Nat /\ r.write_index \in 1..Len(r.bufs)
      /\ n \in (r.write_index + 1)..(Len(r.bufs) + 1)
      /\ \A k \in (r.write_index + 1)..(n - 1) : r.bufs[k] = 0
  BY DEF Moves
<1>2. \/ n = Len(r.bufs) + 1 /\ w.write_queue = Tail(q)
      \/ w.write_queue = [q EXCEPT ![1] = d]
  BY DEF Moves
<1>3. id \in 1..Len(sub) /\ i \in DOMAIN sub[id].bufs /\ sub[id].bufs[i] # 0
  BY DEF IsData
<1>4. id \in Nat /\ id > 0 /\ i \in Nat /\ i > 0
  <2>a. sub[id] \in [bufs : Bufs, cb : BOOLEAN]
    BY <1>3, ElementOfSeq
  <2>1. sub[id].bufs \in Bufs
    BY <2>a
  <2>2. DOMAIN sub[id].bufs = 1..Len(sub[id].bufs) /\ Len(sub[id].bufs) \in Nat
    BY <2>1, BufsType
  <2> QED
    BY <1>3, <2>2
<1>5. Past(s, sub, id, i) <=> id =< g \/ (id = g + 1 /\ i < r.write_index)
  BY <1>0 DEF Past
<1>6. id = g + 1 => (i < n <=> i < r.write_index \/ i = r.write_index)
  <2> SUFFICES ASSUME id = g + 1 PROVE i < n <=> i < r.write_index \/ i = r.write_index
    OBVIOUS
  <2>1. i \in 1..Len(r.bufs) /\ r.bufs[i] # 0
    BY <1>1, <1>3
  <2>2. i \notin (r.write_index + 1)..(n - 1)
    BY <1>1, <2>1
  <2> QED
    BY <1>1, <1>4, <2>2
<1>7. CASE n = Len(r.bufs) + 1 /\ w.write_queue = Tail(q)
  <2>1. /\ Len(w.write_queue) = Len(q) - 1
        /\ Len(q) > 1 => w.write_queue[1] = q[2]
    BY <1>0, <1>7
  <2>2. Gone(w, sub) = g + 1
    <3>1. Gone(w, sub) = Len(sub) - (Len(q) - 1)
      BY <2>1 DEF Gone
    <3>2. g \in Nat /\ Len(q) \in Nat /\ Len(sub) \in Nat /\ g + Len(q) = Len(sub)
      BY <1>0
    <3> QED
      BY <3>1, <3>2
  <2>3. Past(w, sub, id, i) <=> id =< g + 1 \/ (id = (g + 1) + 1 /\ i < w.write_queue[1].write_index)
    BY <2>2 DEF Past
  <2>4. id = (g + 1) + 1 => ~(i < w.write_queue[1].write_index)
    <3> SUFFICES ASSUME id = (g + 1) + 1 PROVE ~(i < w.write_queue[1].write_index)
      OBVIOUS
    <3>1. Len(q) > 1 /\ 2 \in DOMAIN q
      BY <1>0, <1>3
    <3>2. q[2].write_index = 1
      <4>1. \A j \in DOMAIN q : j > 1 => q[j].write_index = 1
        BY <1>0 DEF Good, QueueGood
      <4> QED
        BY <3>1, <4>1
    <3> QED
      BY <1>4, <2>1, <3>1, <3>2
  <2>5. id = g + 1 => (i < r.write_index \/ i = r.write_index)
    <3> SUFFICES ASSUME id = g + 1 PROVE i < n
      BY <1>6
    <3>1. i \in 1..Len(r.bufs)
      BY <1>1, <1>3
    <3> QED
      BY <1>1, <1>7, <3>1
  <2> QED
    BY <1>0, <1>4, <1>5, <2>3, <2>4, <2>5
<1>8. CASE w.write_queue = [q EXCEPT ![1] = d]
  <2>1. Len(w.write_queue) = Len(q) /\ w.write_queue[1] = d
    BY <1>0, <1>8, ExceptSeq
  <2>2. Gone(w, sub) = g
    <3>1. Gone(w, sub) = Len(sub) - Len(q)
      BY <2>1 DEF Gone
    <3>2. g \in Nat /\ Len(q) \in Nat /\ Len(sub) \in Nat /\ g + Len(q) = Len(sub)
      BY <1>0
    <3> QED
      BY <3>1, <3>2
  <2>3. Past(w, sub, id, i) <=> id =< g \/ (id = g + 1 /\ i < n)
    BY <1>1, <2>1, <2>2 DEF Past
  <2> QED
    BY <1>5, <1>6, <2>3
<1> QED
  BY <1>2, <1>7, <1>8

LEMMA WriteSent ==
  ASSUME NEW s, NEW sub \in Seq([bufs : Bufs, cb : BOOLEAN]), NEW F, Good(s, sub, F),
         NEW w, NEW q, NEW r, NEW n, NEW d, NEW g, Moves(s, sub, w, q, r, n, d, g)
  PROVE  SentGood(w, sub)
<1>0. /\ s \in Streams /\ r \in Reqs /\ g \in Nat /\ g = Gone(s, sub) /\ r = s.write_queue[1]
      /\ r.id = g + 1 /\ r.id \in DOMAIN sub /\ r.bufs = sub[r.id].bufs
      /\ r.write_index \in DOMAIN r.bufs /\ r.write_index \in Nat
      /\ w.sent = IF r.bufs[r.write_index] = 0 THEN s.sent
                  ELSE Append(s.sent, <<r.id, r.write_index>>)
  BY DEF Moves, Sent
<1>1. /\ \A k \in DOMAIN s.sent : /\ IsData(sub, s.sent[k][1], s.sent[k][2])
                                  /\ Past(s, sub, s.sent[k][1], s.sent[k][2])
      /\ \A id \in DOMAIN sub : \A i \in DOMAIN sub[id].bufs :
           IsData(sub, id, i) /\ Past(s, sub, id, i) => Went(s, id, i)
      /\ \A i, j \in DOMAIN s.sent : i < j => Before(s.sent[i], s.sent[j])
  BY DEF Good, SentGood
<1>2. \A id, i : IsData(sub, id, i) =>
        (Past(w, sub, id, i) <=> Past(s, sub, id, i) \/ (id = g + 1 /\ i = r.write_index))
  <2>1. PastMoves(s, sub, w, r, g)
    BY WritePast
  <2> QED
    BY <2>1 DEF PastMoves
<1>3. /\ s.sent \in Seq(Ids \X (1..MaxBufs)) /\ DOMAIN s.sent = 1..Len(s.sent) /\ Len(s.sent) \in Nat
      /\ \A k \in DOMAIN s.sent : s.sent[k][1] \in Nat /\ s.sent[k][2] \in Nat
  <2>1. s.sent \in Seq(Ids \X (1..MaxBufs))
    BY <1>0, StreamType
  <2>2. Ids \subseteq Nat /\ 1..MaxBufs \subseteq Nat
    BY WriteAssumption DEF Ids
  <2>3. \A k \in DOMAIN s.sent : s.sent[k] \in Ids \X (1..MaxBufs)
    BY <2>1
  <2>4. \A x \in Ids \X (1..MaxBufs) : x[1] \in Nat /\ x[2] \in Nat
    BY <2>2
  <2> QED
    BY <2>1, <2>3, <2>4
<1>4. CASE r.bufs[r.write_index] = 0
  <2>1. w.sent = s.sent
    BY <1>0, <1>4
  <2>2. ~IsData(sub, g + 1, r.write_index)
    BY <1>0, <1>4 DEF IsData
  <2>3. \A id, i : IsData(sub, id, i) => (Past(w, sub, id, i) <=> Past(s, sub, id, i))
    BY <1>2, <2>2
  <2>4. \A id, i : Went(w, id, i) <=> Went(s, id, i)
    BY <2>1 DEF Went
  <2> QED
    BY <1>1, <2>1, <2>3, <2>4 DEF SentGood
<1>5. CASE r.bufs[r.write_index] # 0
  <2>a. PICK b : b = <<g + 1, r.write_index>>
    OBVIOUS
  <2>1. /\ DOMAIN w.sent = 1..(Len(s.sent) + 1) /\ w.sent[Len(s.sent) + 1] = b
        /\ \A k \in 1..Len(s.sent) : w.sent[k] = s.sent[k]
    BY <1>0, <1>3, <1>5, <2>a
  <2>2. \A k \in DOMAIN w.sent : (k \in DOMAIN s.sent /\ w.sent[k] = s.sent[k]) \/ (k = Len(s.sent) + 1 /\ w.sent[k] = b)
    BY <1>3, <2>1
  <2>3. b[1] = g + 1 /\ b[2] = r.write_index /\ IsData(sub, b[1], b[2])
    BY <1>0, <1>5, <2>a DEF IsData
  <2>4. \A k \in DOMAIN w.sent : /\ IsData(sub, w.sent[k][1], w.sent[k][2])
                                 /\ Past(w, sub, w.sent[k][1], w.sent[k][2])
    BY <1>1, <1>2, <2>2, <2>3
  <2>5. ASSUME NEW id \in DOMAIN sub, NEW i \in DOMAIN sub[id].bufs, IsData(sub, id, i), Past(w, sub, id, i)
        PROVE  Went(w, id, i)
    <3>1. CASE id = g + 1 /\ i = r.write_index
      <4>1. Len(s.sent) + 1 \in DOMAIN w.sent
        BY <1>3, <2>1
      <4> QED
        BY <2>1, <2>a, <3>1, <4>1 DEF Went
    <3>2. CASE Past(s, sub, id, i)
      <4>1. PICK k \in DOMAIN s.sent : s.sent[k] = <<id, i>>
        BY <1>1, <2>5, <3>2 DEF Went
      <4>2. k \in DOMAIN w.sent /\ w.sent[k] = s.sent[k]
        BY <1>3, <2>1
      <4> QED
        BY <4>1, <4>2 DEF Went
    <3> QED
      BY <1>2, <2>5, <3>1, <3>2
  <2>6. ASSUME NEW i \in DOMAIN w.sent, NEW j \in DOMAIN w.sent, i < j
        PROVE  Before(w.sent[i], w.sent[j])
    <3>1. i \in DOMAIN s.sent /\ w.sent[i] = s.sent[i]
      BY <1>3, <2>1, <2>6
    <3>2. CASE j \in DOMAIN s.sent /\ w.sent[j] = s.sent[j]
      BY <1>1, <2>6, <3>1, <3>2
    <3>3. CASE w.sent[j] = b
      <4>1. Past(s, sub, s.sent[i][1], s.sent[i][2]) /\ s.sent[i][1] \in Nat /\ s.sent[i][2] \in Nat
        BY <1>1, <1>3, <3>1
      <4>2. s.sent[i][1] =< g \/ (s.sent[i][1] = g + 1 /\ s.sent[i][2] < r.write_index)
        BY <1>0, <4>1 DEF Past
      <4> QED
        BY <1>0, <2>3, <3>1, <3>3, <4>1, <4>2 DEF Before
    <3> QED
      BY <2>2, <3>2, <3>3
  <2> QED
    BY <2>4, <2>5, <2>6 DEF SentGood
<1> QED
  BY <1>4, <1>5

(* uv__write keeps the invariant, whether it finishes the request or not.   *)
(* Only of a queue of several requests must the watcher have been active.  *)
LEMMA WriteGood ==
  ASSUME NEW s, NEW sub \in Seq([bufs : Bufs, cb : BOOLEAN]), NEW F \in SUBSET Nat, Good(s, sub, F)
  PROVE  /\ Good(uv__write(s), sub, F)
         /\ \A fr : Wakes(s, fr, 1) => Wakes(uv__write(s), fr, 0)
<1>0. /\ s \in Streams /\ s.write_queue \in Seq(Reqs) /\ Len(s.write_queue) \in Nat
      /\ s.write_queue = <<>> <=> Len(s.write_queue) = 0
  BY StreamType, EmptySeq DEF Good
<1>1. CASE s.write_queue = <<>>
  <2>1. uv__write(s) = s
    BY <1>1 DEF uv__write
  <2>2. ~(Len(s.write_queue) > 0)
    BY <1>0, <1>1
  <2> QED
    BY <2>1, <2>2 DEF Wakes
<1>2. CASE s.write_queue # <<>>
  <2>a. PICK w : w = uv__write(s)
    OBVIOUS
  <2>1. PICK q, r, n, d, g : Moves(s, sub, w, q, r, n, d, g)
    BY <1>2, <2>a, WriteMoves
  <2>2. QueueGood(w, sub)
    BY <2>1, WriteQueue
  <2>3. DoneGood(w, sub, F)
    BY <2>1, WriteDone
  <2>4. SentGood(w, sub)
    BY <2>1, WriteSent
  <2>5. SizeGood(w) /\ w \in Streams
    BY <2>1, WriteSize
  <2>6. Good(w, sub, F)
    BY <2>2, <2>3, <2>4, <2>5 DEF Good
  <2>b. /\ q = s.write_queue /\ q \in Seq(Reqs) /\ Len(q) \in Nat \ {0} /\ d \in Reqs
        /\ s.write_completed_queue \in Seq(Reqs) /\ s.pollout \in BOOLEAN
        /\ \/ /\ w.write_queue = Tail(q) /\ w.write_completed_queue = Append(s.write_completed_queue, d)
              /\ w.pending = TRUE /\ w.pollout = s.pollout
           \/ /\ w.write_queue = [q EXCEPT ![1] = d] /\ w.write_completed_queue = s.write_completed_queue
              /\ w.pending = s.pending /\ w.pollout = TRUE
    BY <2>1, StreamType DEF Moves
  <2>c. SUFFICES ASSUME NEW fr, Wakes(s, fr, 1) PROVE Wakes(w, fr, 0)
    BY <2>a, <2>6
  <2>7. CASE /\ w.write_queue = Tail(q) /\ w.write_completed_queue = Append(s.write_completed_queue, d)
             /\ w.pending = TRUE /\ w.pollout = s.pollout
    <3>1. w.write_completed_queue # <<>>
      BY <2>b, <2>7, AppendProperties
    <3>2. Len(w.write_queue) = Len(q) - 1
      BY <2>b, <2>7
    <3>3. Len(w.write_queue) > 0 => w.pollout
      BY <2>b, <2>c, <2>7, <3>2 DEF Wakes
    <3> QED
      BY <2>7, <3>1, <3>3 DEF Wakes
  <2>8. CASE /\ w.write_queue = [q EXCEPT ![1] = d] /\ w.write_completed_queue = s.write_completed_queue
             /\ w.pending = s.pending /\ w.pollout = TRUE
    <3>1. w.write_queue # <<>>
      BY <2>b, <2>8, ExceptSeq
    <3> QED
      BY <2>c, <2>8, <3>1 DEF Wakes
  <2> QED
    BY <2>b, <2>7, <2>8
<1> QED
  BY <1>1, <1>2

----------------------------------------------------------------------------
(* uv_write2. *)

Writes == [bufs : Bufs, cb : BOOLEAN]

(* Good says nothing of the watcher. *)
LEMMA GoodSame ==
  ASSUME NEW s, NEW sub, NEW F, Good(s, sub, F), NEW t \in Streams,
         t.write_queue = s.write_queue, t.write_completed_queue = s.write_completed_queue,
         t.write_queue_size = s.write_queue_size, t.sent = s.sent
  PROVE  Good(t, sub, F)
<1>1. Gone(t, sub) = Gone(s, sub)
  BY DEF Gone
<1>2. QueueGood(t, sub)
  BY <1>1 DEF Good, QueueGood
<1>3. DoneGood(t, sub, F)
  BY <1>1 DEF Good, DoneGood
<1>4. \A id, i : (Past(t, sub, id, i) <=> Past(s, sub, id, i)) /\ (Went(t, id, i) <=> Went(s, id, i))
  BY <1>1 DEF Past, Went
<1>5. SentGood(s, sub)
  BY DEF Good
<1>6. SentGood(t, sub)
  BY <1>4, <1>5 DEF SentGood
<1> QED
  BY <1>2, <1>3, <1>6 DEF Good, SizeGood

(* What Good says of the places of the requests. *)
LEMMA GoneIs ==
  ASSUME NEW s, NEW sub \in Seq(Writes), NEW F, Good(s, sub, F)
  PROVE  /\ s \in Streams /\ s.write_queue \in Seq(Reqs) /\ s.write_completed_queue \in Seq(Reqs)
         /\ Len(s.write_queue) \in Nat /\ DOMAIN s.write_queue = 1..Len(s.write_queue)
         /\ Len(sub) \in Nat /\ DOMAIN sub = 1..Len(sub)
         /\ Gone(s, sub) \in Nat /\ Gone(s, sub) + Len(s.write_queue) = Len(sub)
<1>1. s \in Streams /\ s.write_queue \in Seq(Reqs) /\ s.write_completed_queue \in Seq(Reqs)
  BY StreamType DEF Good
<1>2. Len(s.write_queue) \in Nat /\ DOMAIN s.write_queue = 1..Len(s.write_queue)
  BY <1>1
<1>3. Len(sub) \in Nat /\ DOMAIN sub = 1..Len(sub)
  OBVIOUS
<1>4. Len(s.write_queue) =< Len(sub)
  BY DEF Good, QueueGood
<1>5. Gone(s, sub) \in Nat /\ Gone(s, sub) + Len(s.write_queue) = Len(sub)
  BY <1>2, <1>3, <1>4 DEF Gone
<1> QED
  BY <1>1, <1>2, <1>3, <1>5

(* The request of a further write. *)
LEMMA RequestIs ==
  ASSUME NEW sub \in Seq(Writes), Len(sub) < MaxReqs, NEW bufs \in Bufs,
         NEW r, r = Request(Len(sub) + 1, bufs)
  PROVE  /\ r \in Reqs /\ r.id = Len(sub) + 1 /\ r.bufs = bufs /\ r.write_index = 1 /\ r.error = "0"
         /\ uv__write_req_size(r) = Count(bufs, 1) /\ Count(bufs, 1) \in Nat
         /\ 1 \in DOMAIN bufs
<1>1. Len(sub) + 1 \in Ids /\ 1 \in 1..(MaxBufs + 1)
  BY WriteAssumption DEF Ids
<1>2. r \in Reqs /\ r.id = Len(sub) + 1 /\ r.bufs = bufs /\ r.write_index = 1 /\ r.error = "0"
  BY <1>1 DEF Request, Reqs
<1>3. uv__write_req_size(r) = Count(bufs, 1)
  BY <1>2 DEF uv__write_req_size
<1>4. uv__write_req_size(r) \in Nat
  BY <1>2, RestIs
<1>5. 1 \in DOMAIN bufs
  BY BufsType
<1> QED
  BY <1>2, <1>3, <1>4, <1>5

(* The stream with the request r at the end of its queue. *)
Queued(s, r) ==
  [s EXCEPT !.write_queue = Append(@, r), !.write_queue_size = @ + Count(r.bufs, 1)]

QueuedIs(s, r, q) ==
  /\ q \in Streams /\ q.write_queue = Append(s.write_queue, r)
  /\ q.write_queue_size = s.write_queue_size + Count(r.bufs, 1)
  /\ q.write_completed_queue = s.write_completed_queue /\ q.sent = s.sent
  /\ q.pollout = s.pollout /\ q.pending = s.pending

LEMMA QueuedFields ==
  ASSUME NEW s \in Streams, NEW r \in Reqs, Count(r.bufs, 1) \in Nat, NEW q, q = Queued(s, r)
  PROVE  QueuedIs(s, r, q)
<1>1. Append(s.write_queue, r) \in Seq(Reqs) /\ s.write_queue_size + Count(r.bufs, 1) \in Nat
  BY StreamType, AppendProperties
<1> QED
  BY <1>1 DEF Queued, Streams, QueuedIs

(* What queueing the request r of a further write changes. *)
Joins(s, sub, bufs, r, q, sub2) ==
  /\ s \in Streams /\ s.write_queue \in Seq(Reqs) /\ s.write_completed_queue \in Seq(Reqs)
  /\ Len(s.write_queue) \in Nat /\ DOMAIN s.write_queue = 1..Len(s.write_queue)
  /\ Len(sub) \in Nat /\ DOMAIN sub = 1..Len(sub)
  /\ Gone(s, sub) \in Nat /\ Gone(s, sub) + Len(s.write_queue) = Len(sub)
  /\ r \in Reqs /\ r.id = Len(sub) + 1 /\ r.bufs = bufs /\ r.write_index = 1 /\ r.error = "0"
  /\ uv__write_req_size(r) = Count(bufs, 1) /\ Count(bufs, 1) \in Nat /\ 1 \in DOMAIN bufs
  /\ q \in Streams /\ q.write_queue = Append(s.write_queue, r)
  /\ q.write_queue_size = s.write_queue_size + Count(bufs, 1)
  /\ q.write_completed_queue = s.write_completed_queue /\ q.sent = s.sent
  /\ q.pollout = s.pollout /\ q.pending = s.pending
  /\ Len(q.write_queue) = Len(s.write_queue) + 1
  /\ DOMAIN q.write_queue = 1..(Len(s.write_queue) + 1)
  /\ q.write_queue[Len(s.write_queue) + 1] = r
  /\ \A j \in 1..Len(s.write_queue) : q.write_queue[j] = s.write_queue[j]
  /\ Len(sub2) = Len(sub) + 1 /\ DOMAIN sub2 = 1..(Len(sub) + 1)
  /\ sub2[Len(sub) + 1].bufs = bufs /\ sub2[Len(sub) + 1].cb
  /\ \A id \in 1..Len(sub) : sub2[id] = sub[id]
  /\ Gone(q, sub2) = Gone(s, sub)

LEMMA QueuedJoins ==
  ASSUME NEW s, NEW sub \in Seq(Writes), NEW F \in SUBSET Nat, Good(s, sub, F),
         Len(sub) < MaxReqs, NEW bufs \in Bufs,
         NEW r, r = Request(Len(sub) + 1, bufs), NEW q, q = Queued(s, r),
         NEW sub2, sub2 = Append(sub, [bufs |-> bufs, cb |-> TRUE])
  PROVE  Joins(s, sub, bufs, r, q, sub2)
<1>1. /\ s \in Streams /\ s.write_queue \in Seq(Reqs) /\ s.write_completed_queue \in Seq(Reqs)
      /\ Len(s.write_queue) \in Nat /\ DOMAIN s.write_queue = 1..Len(s.write_queue)
      /\ Len(sub) \in Nat /\ DOMAIN sub = 1..Len(sub)
      /\ Gone(s, sub) \in Nat /\ Gone(s, sub) + Len(s.write_queue) = Len(sub)
  BY GoneIs
<1>2. /\ r \in Reqs /\ r.id = Len(sub) + 1 /\ r.bufs = bufs /\ r.write_index = 1 /\ r.error = "0"
      /\ uv__write_req_size(r) = Count(bufs, 1) /\ Count(bufs, 1) \in Nat /\ 1 \in DOMAIN bufs
  BY RequestIs
<1>3. /\ q \in Streams /\ q.write_queue = Append(s.write_queue, r)
      /\ q.write_queue_size = s.write_queue_size + Count(bufs, 1)
      /\ q.write_completed_queue = s.write_completed_queue /\ q.sent = s.sent
      /\ q.pollout = s.pollout /\ q.pending = s.pending
  <2>1. Count(r.bufs, 1) = Count(bufs, 1) /\ Count(r.bufs, 1) \in Nat
    BY <1>2
  <2>2. /\ q \in Streams /\ q.write_queue = Append(s.write_queue, r)
        /\ q.write_queue_size = s.write_queue_size + Count(r.bufs, 1)
        /\ q.write_completed_queue = s.write_completed_queue /\ q.sent = s.sent
        /\ q.pollout = s.pollout /\ q.pending = s.pending
    BY <1>1, <1>2, <2>1, QueuedFields DEF QueuedIs
  <2> QED
    BY <2>1, <2>2
<1>4. /\ Len(q.write_queue) = Len(s.write_queue) + 1
      /\ DOMAIN q.write_queue = 1..(Len(s.write_queue) + 1)
      /\ q.write_queue[Len(s.write_queue) + 1] = r
      /\ \A j \in 1..Len(s.write_queue) : q.write_queue[j] = s.write_queue[j]
  BY <1>1, <1>2, <1>3, AppendProperties
<1>5. /\ Len(sub2) = Len(sub) + 1 /\ DOMAIN sub2 = 1..(Len(sub) + 1)
      /\ sub2[Len(sub) + 1].bufs = bufs /\ sub2[Len(sub) + 1].cb
      /\ \A id \in 1..Len(sub) : sub2[id] = sub[id]
  <2>1. [bufs |-> bufs, cb |-> TRUE] \in Writes
    BY DEF Writes
  <2> QED
    BY <1>1, <2>1, AppendProperties
<1>6. Gone(q, sub2) = Gone(s, sub)
  <2>1. Gone(q, sub2) = (Len(sub) + 1) - (Len(s.write_queue) + 1) /\ Gone(s, sub) = Len(sub) - Len(s.write_queue)
    BY <1>4, <1>5 DEF Gone
  <2>2. \A a, b \in Nat : (a + 1) - (b + 1) = a - b
    OBVIOUS
  <2> QED
    BY <1>1, <2>1, <2>2
<1> QED
  BY <1>1, <1>2, <1>3, <1>4, <1>5, <1>6 DEF Joins

LEMMA QueuedGood ==
  ASSUME NEW s, NEW sub \in Seq(Writes), NEW F \in SUBSET Nat, Good(s, sub, F),
         Len(sub) < MaxReqs, NEW bufs \in Bufs,
         NEW r, NEW q, NEW sub2, Joins(s, sub, bufs, r, q, sub2)
  PROVE  Good(q, sub2, F)
<1>1. /\ s \in Streams /\ s.write_queue \in Seq(Reqs) /\ s.write_completed_queue \in Seq(Reqs)
      /\ Len(s.write_queue) \in Nat /\ DOMAIN s.write_queue = 1..Len(s.write_queue)
      /\ Len(sub) \in Nat /\ DOMAIN sub = 1..Len(sub)
      /\ Gone(s, sub) \in Nat /\ Gone(s, sub) + Len(s.write_queue) = Len(sub)
  BY DEF Joins
<1>2. /\ r \in Reqs /\ r.id = Len(sub) + 1 /\ r.bufs = bufs /\ r.write_index = 1 /\ r.error = "0"
      /\ uv__write_req_size(r) = Count(bufs, 1) /\ Count(bufs, 1) \in Nat /\ 1 \in DOMAIN bufs
  BY DEF Joins
<1>3. /\ q \in Streams /\ q.write_queue = Append(s.write_queue, r)
      /\ q.write_queue_size = s.write_queue_size + Count(bufs, 1)
      /\ q.write_completed_queue = s.write_completed_queue /\ q.sent = s.sent
      /\ q.pollout = s.pollout /\ q.pending = s.pending
  BY DEF Joins
<1>4. /\ Len(q.write_queue) = Len(s.write_queue) + 1
      /\ DOMAIN q.write_queue = 1..(Len(s.write_queue) + 1)
      /\ q.write_queue[Len(s.write_queue) + 1] = r
      /\ \A j \in 1..Len(s.write_queue) : q.write_queue[j] = s.write_queue[j]
  BY DEF Joins
<1>5. /\ Len(sub2) = Len(sub) + 1 /\ DOMAIN sub2 = 1..(Len(sub) + 1)
      /\ sub2[Len(sub) + 1].bufs = bufs /\ sub2[Len(sub) + 1].cb
      /\ \A id \in 1..Len(sub) : sub2[id] = sub[id]
  BY DEF Joins
<1>6. Gone(q, sub2) = Gone(s, sub)
  BY DEF Joins
<1>c. \A j \in 1..(Len(s.write_queue) + 1) : j = Len(s.write_queue) + 1 \/ j \in 1..Len(s.write_queue)
  BY <1>1
<1>7. QueueGood(q, sub2)
  <2>1. Len(q.write_queue) =< Len(sub2)
    BY <1>1, <1>4, <1>5
  <2>a. SUFFICES ASSUME NEW j \in DOMAIN q.write_queue
                 PROVE  LET x == q.write_queue[j] IN
                        /\ x.id = Gone(q, sub2) + j /\ x.error = "0"
                        /\ x.bufs = sub2[x.id].bufs /\ sub2[x.id].cb
                        /\ x.write_index \in DOMAIN x.bufs
                        /\ j > 1 => x.write_index = 1
                        /\ x.write_index > 1 => x.bufs[x.write_index] # 0
    BY <2>1 DEF QueueGood
  <2>b. PICK x : x = q.write_queue[j]
    OBVIOUS
  <2>2. SUFFICES /\ x.id = Gone(s, sub) + j /\ x.error = "0"
                 /\ x.bufs = sub2[x.id].bufs /\ sub2[x.id].cb
                 /\ x.write_index \in DOMAIN x.bufs
                 /\ j > 1 => x.write_index = 1
                 /\ x.write_index > 1 => x.bufs[x.write_index] # 0
    BY <1>6, <2>b
  <2>3. CASE j = Len(s.write_queue) + 1
    <3>1. x = r /\ r.id = Gone(s, sub) + j
      <4>1. \A a, b, c \in Nat : a + b = c => c + 1 = a + (b + 1)
        OBVIOUS
      <4> QED
        BY <1>1, <1>2, <1>4, <2>b, <2>3, <4>1
    <3> QED
      BY <1>2, <1>5, <3>1
  <2>4. CASE j \in 1..Len(s.write_queue)
    <3>1. x = s.write_queue[j] /\ j \in DOMAIN s.write_queue
      BY <1>1, <1>4, <2>b, <2>4
    <3>2. /\ x.id = Gone(s, sub) + j /\ x.error = "0"
          /\ x.bufs = sub[x.id].bufs /\ sub[x.id].cb
          /\ x.write_index \in DOMAIN x.bufs
          /\ j > 1 => x.write_index = 1
          /\ x.write_index > 1 => x.bufs[x.write_index] # 0
      BY <3>1 DEF Good, QueueGood
    <3>3. x.id \in 1..Len(sub)
      BY <1>1, <2>4, <3>2
    <3> QED
      BY <1>5, <3>2, <3>3
  <2> QED
    BY <1>4, <1>c, <2>3, <2>4
<1>8. DoneGood(q, sub2, F)
  <2>a. PICK C : C = s.write_completed_queue /\ C = q.write_completed_queue
    BY <1>3
  <2>b. PICK g : g = Gone(s, sub) /\ g = Gone(q, sub2)
    BY <1>6
  <2>1. /\ \A j \in DOMAIN C : C[j].error = "0" /\ C[j].id =< Gone(s, sub) /\ sub[C[j].id].cb
        /\ \A i, j \in DOMAIN C : i < j => C[i].id < C[j].id
        /\ \A f \in F : f =< Gone(s, sub) /\ \A j \in DOMAIN C : f < C[j].id
        /\ \A id \in 1..Gone(s, sub) : sub[id].cb => id \in F \/ \E j \in DOMAIN C : C[j].id = id
    BY <2>a DEF Good, DoneGood
  <2>2. \A j \in DOMAIN C : C[j].id \in Nat /\ C[j].id > 0
    <3>1. \A j \in DOMAIN C : C[j] \in Reqs
      BY <1>1, <2>a
    <3>2. \A x \in Reqs : x.id \in Nat /\ x.id > 0
      BY WriteAssumption DEF Reqs, Ids
    <3> QED
      BY <3>1, <3>2
  <2>3. \A id \in 1..Gone(s, sub) : id \in 1..Len(sub)
    BY <1>1
  <2>4. \A j \in DOMAIN C : C[j].id \in 1..Gone(s, sub)
    BY <1>1, <2>1, <2>2
  <2>5. \A j \in DOMAIN C : sub2[C[j].id] = sub[C[j].id]
    BY <1>5, <2>3, <2>4
  <2>6. \A id \in 1..Gone(s, sub) : sub2[id] = sub[id]
    BY <1>5, <2>3
  <2>7. \A j \in DOMAIN C : C[j].error = "0" /\ C[j].id =< g /\ sub2[C[j].id].cb
    BY <2>b, <2>1, <2>5
  <2>8. \A i, j \in DOMAIN C : i < j => C[i].id < C[j].id
    BY <2>1
  <2>9. \A f \in F : f =< g /\ \A j \in DOMAIN C : f < C[j].id
    BY <2>b, <2>1
  <2>10. \A id \in 1..g : sub2[id].cb => id \in F \/ \E j \in DOMAIN C : C[j].id = id
    BY <2>b, <2>1, <2>6
  <2>11. C = q.write_completed_queue /\ g = Gone(q, sub2)
    BY <2>a, <2>b
  <2> QED
    BY <2>7, <2>8, <2>9, <2>10, <2>11 DEF DoneGood
<1>9. SentGood(q, sub2)
  <2>1. /\ \A k \in DOMAIN s.sent : /\ IsData(sub, s.sent[k][1], s.sent[k][2])
                                    /\ Past(s, sub, s.sent[k][1], s.sent[k][2])
        /\ \A id \in DOMAIN sub : \A i \in DOMAIN sub[id].bufs :
             IsData(sub, id, i) /\ Past(s, sub, id, i) => Went(s, id, i)
        /\ \A i, j \in DOMAIN s.sent : i < j => Before(s.sent[i], s.sent[j])
    BY DEF Good, SentGood
  <2>2. ASSUME NEW id, NEW i, id \in 1..Len(sub)
        PROVE  /\ IsData(sub2, id, i) <=> IsData(sub, id, i)
               /\ Past(q, sub2, id, i) <=> Past(s, sub, id, i)
    <3>1. IsData(sub2, id, i) <=> IsData(sub, id, i)
      BY <1>1, <1>5, <2>2 DEF IsData
    <3>2. id = Gone(s, sub) + 1 => q.write_queue[1] = s.write_queue[1]
      <4>1. \A a, b, c \in Nat : a + b = c /\ a + 1 \in 1..c => 1 \in 1..b
        OBVIOUS
      <4> QED
        BY <1>1, <1>4, <2>2, <4>1
    <3> QED
      BY <1>6, <3>1, <3>2 DEF Past
  <2>3. ASSUME NEW i, IsData(sub2, Len(sub) + 1, i) PROVE ~Past(q, sub2, Len(sub) + 1, i)
    <3>1. i \in Nat /\ i > 0
      <4>1. i \in DOMAIN bufs
        BY <1>5, <2>3 DEF IsData
      <4> QED
        BY <4>1, BufsType
    <3>2. ~(Len(sub) + 1 =< Gone(s, sub))
      BY <1>1
    <3>3. Len(sub) + 1 = Gone(s, sub) + 1 => q.write_queue[1] = r
      BY <1>1, <1>4
    <3>4. ~(i < r.write_index)
      BY <1>2, <3>1
    <3> QED
      BY <1>6, <3>2, <3>3, <3>4 DEF Past
  <2>4. \A k \in DOMAIN s.sent : s.sent[k][1] \in 1..Len(sub)
    BY <1>1, <2>1 DEF IsData
  <2>5. \A id, i : Went(q, id, i) <=> Went(s, id, i)
    BY <1>3 DEF Went
  <2>6. \A k \in DOMAIN s.sent : /\ IsData(sub2, s.sent[k][1], s.sent[k][2])
                                 /\ Past(q, sub2, s.sent[k][1], s.sent[k][2])
    BY <2>1, <2>2, <2>4
  <2>7. ASSUME NEW id \in DOMAIN sub2, NEW i \in DOMAIN sub2[id].bufs,
               IsData(sub2, id, i), Past(q, sub2, id, i)
        PROVE  Went(q, id, i)
    <3>1. id \in 1..Len(sub) \/ id = Len(sub) + 1
      BY <1>1, <1>5
    <3>2. id # Len(sub) + 1
      BY <2>3, <2>7
    <3>3. IsData(sub, id, i) /\ Past(s, sub, id, i) /\ id \in DOMAIN sub
      BY <1>1, <2>2, <2>7, <3>1, <3>2
    <3>4. i \in DOMAIN sub[id].bufs
      BY <3>3 DEF IsData
    <3> QED
      BY <2>1, <2>5, <3>3, <3>4
  <2> QED
    BY <1>3, <2>1, <2>6, <2>7 DEF SentGood
<1>10. SizeGood(q)
  <2>1. \A n \in DOMAIN s.write_queue : s.write_queue[n].id = Gone(s, sub) + n
    BY DEF Good, QueueGood
  <2>2. \A n \in DOMAIN s.write_queue : s.write_queue[n].id # r.id
    BY <1>1, <1>2, <2>1
  <2>3. Cardinality(QueueBytes(Append(s.write_queue, r)))
          = Cardinality(QueueBytes(s.write_queue)) + uv__write_req_size(r)
    BY <1>1, <1>2, <2>2, QueueBytesAppend
  <2>4. s.write_queue_size = Cardinality(QueueBytes(s.write_queue))
    BY DEF Good, SizeGood
  <2> QED
    BY <1>2, <1>3, <2>3, <2>4 DEF SizeGood
<1>11. Len(sub2) =< MaxReqs
  BY <1>1, <1>5, WriteAssumption
<1> QED
  BY <1>3, <1>7, <1>8, <1>9, <1>10, <1>11 DEF Good

(* A queued write keeps the invariant. *)
LEMMA Write2Good ==
  ASSUME NEW s, NEW sub \in Seq(Writes), NEW F \in SUBSET Nat, Good(s, sub, F),
         Len(sub) < MaxReqs, NEW bufs \in Bufs, NEW r, r = Request(Len(sub) + 1, bufs),
         NEW sub2, sub2 = Append(sub, [bufs |-> bufs, cb |-> TRUE])
  PROVE  /\ Good(uv_write2(s, r), sub2, F)
         /\ \A fr : Wakes(s, fr, 0) => Wakes(uv_write2(s, r), fr, 0)
<1> DEFINE q == Queued(s, r)
<1>1. Good(q, sub2, F)
  <2>1. Joins(s, sub, bufs, r, q, sub2)
    BY QueuedJoins
  <2> QED
    BY <2>1, QueuedGood
<1>2. r \in Reqs /\ r.bufs = bufs /\ Count(bufs, 1) \in Nat
  BY RequestIs
<1>3. s \in Streams /\ s.write_queue \in Seq(Reqs) /\ Len(s.write_queue) \in Nat
  BY GoneIs
<1>4. /\ q \in Streams /\ q.write_queue = Append(s.write_queue, r)
      /\ q.write_completed_queue = s.write_completed_queue
      /\ q.pollout = s.pollout /\ q.pending = s.pending
  BY <1>2, <1>3, QueuedFields DEF QueuedIs
<1>5. Len(q.write_queue) = Len(s.write_queue) + 1 /\ q.write_queue # <<>>
  BY <1>2, <1>3, <1>4, AppendProperties
<1>6. uv_write2(s, r) = IF s.write_queue_size = 0 THEN uv__write(q) ELSE [q EXCEPT !.pollout = TRUE]
  BY DEF uv_write2, Queued
<1>a. sub2 \in Seq(Writes)
  <2>1. [bufs |-> bufs, cb |-> TRUE] \in Writes
    BY DEF Writes
  <2> QED
    BY <2>1, AppendProperties
<1> HIDE DEF q
<1>7. CASE s.write_queue_size = 0
  <2>1. Good(uv__write(q), sub2, F) /\ \A fr : Wakes(q, fr, 1) => Wakes(uv__write(q), fr, 0)
    BY <1>1, <1>a, WriteGood DEF Writes
  <2>2. \A fr : Wakes(s, fr, 0) => Wakes(q, fr, 1)
    BY <1>3, <1>4, <1>5 DEF Wakes
  <2> QED
    BY <1>6, <1>7, <2>1, <2>2
<1>8. CASE s.write_queue_size # 0
  <2>1. PICK t : t = [q EXCEPT !.pollout = TRUE]
    OBVIOUS
  <2>2. /\ t \in Streams /\ t.write_queue = q.write_queue
        /\ t.write_completed_queue = q.write_completed_queue
        /\ t.write_queue_size = q.write_queue_size /\ t.sent = q.sent
        /\ t.pollout = TRUE /\ t.pending = q.pending
    BY <1>4, <2>1 DEF Streams
  <2>3. Good(t, sub2, F)
    BY <1>1, <2>2, GoodSame
  <2>4. \A fr : Wakes(s, fr, 0) => Wakes(t, fr, 0)
    BY <1>4, <1>5, <2>2 DEF Wakes
  <2> QED
    BY <1>6, <1>8, <2>1, <2>3, <2>4
<1> QED
  BY <1>7, <1>8

----------------------------------------------------------------------------
(* uv_try_write. *)

LEMMA FrontLastAppend ==
  ASSUME NEW S, NEW q \in Seq(S), NEW x \in S
  PROVE  Front(Append(q, x)) = q /\ Last(Append(q, x)) = x /\ Append(q, x) # <<>>
<1>1. /\ Append(q, x) \in Seq(S) /\ Len(Append(q, x)) = Len(q) + 1 /\ Len(q) \in Nat
      /\ Append(q, x)[Len(q) + 1] = x /\ \A i \in 1..Len(q) : Append(q, x)[i] = q[i]
  BY AppendProperties
<1>2. (Len(q) + 1) - 1 = Len(q)
  BY <1>1
<1>3. Front(Append(q, x)) = SubSeq(Append(q, x), 1, Len(q))
  BY <1>1, <1>2 DEF Front
<1>4. SubSeq(Append(q, x), 1, Len(q)) = q
  <2>1. /\ SubSeq(Append(q, x), 1, Len(q)) \in Seq(S) /\ Len(SubSeq(Append(q, x), 1, Len(q))) = Len(q)
        /\ \A i \in 1..Len(q) : SubSeq(Append(q, x), 1, Len(q))[i] = Append(q, x)[i]
    BY <1>1
  <2> QED
    BY <1>1, <2>1, SeqEqual
<1>5. Append(q, x) # <<>>
  BY <1>1
<1> QED
  BY <1>1, <1>3, <1>4, <1>5 DEF Last

LEMMA TailAppend ==
  ASSUME NEW S, NEW q \in Seq(S), q # <<>>, NEW x \in S
  PROVE  Tail(Append(q, x)) = Append(Tail(q), x) /\ Tail(q) \in Seq(S)
<1>1. Tail(q) \in Seq(S) /\ Len(q) \in Nat \ {0} /\ Len(Tail(q)) = Len(q) - 1
      /\ \A i \in 1..(Len(q) - 1) : Tail(q)[i] = q[i + 1]
  BY EmptySeq
<1>2. /\ Append(q, x) \in Seq(S) /\ Len(Append(q, x)) = Len(q) + 1
      /\ Append(q, x)[Len(q) + 1] = x /\ \A i \in 1..Len(q) : Append(q, x)[i] = q[i]
  BY AppendProperties
<1>3. /\ Append(Tail(q), x) \in Seq(S) /\ Len(Append(Tail(q), x)) = Len(Tail(q)) + 1
      /\ Append(Tail(q), x)[Len(Tail(q)) + 1] = x
      /\ \A i \in 1..Len(Tail(q)) : Append(Tail(q), x)[i] = Tail(q)[i]
  BY <1>1, AppendProperties
<1>4. Append(q, x) # <<>>
  BY <1>1, <1>2
<1>5. /\ Tail(Append(q, x)) \in Seq(S) /\ Len(Tail(Append(q, x))) = Len(q)
      /\ \A i \in 1..Len(q) : Tail(Append(q, x))[i] = Append(q, x)[i + 1]
  BY <1>1, <1>2, <1>4
<1>6. Len(Append(Tail(q), x)) = Len(q)
  BY <1>1, <1>3
<1>7. \A i \in 1..Len(q) : Tail(Append(q, x))[i] = Append(Tail(q), x)[i]
  <2> SUFFICES ASSUME NEW i \in 1..Len(q) PROVE Append(q, x)[i + 1] = Append(Tail(q), x)[i]
    BY <1>5
  <2>1. CASE i = Len(q)
    BY <1>1, <1>2, <1>3, <2>1
  <2>2. CASE i \in 1..(Len(q) - 1)
    <3>1. i + 1 \in 1..Len(q) /\ i \in 1..Len(Tail(q))
      BY <1>1, <2>2
    <3> QED
      BY <1>1, <1>2, <1>3, <2>2, <3>1
  <2>3. \A n \in Nat \ {0} : \A k \in 1..n : k = n \/ k \in 1..(n - 1)
    OBVIOUS
  <2>4. i = Len(q) \/ i \in 1..(Len(q) - 1)
    BY <1>1, <2>3
  <2> QED
    BY <2>1, <2>2, <2>4
<1> QED
  BY <1>1, <1>3, <1>5, <1>6, <1>7, SeqEqual

(* A request of one buffer. *)
LEMMA OneBuf ==
  ASSUME NEW len \in Lens
  PROVE  /\ <<len>> \in Bufs /\ len \in Nat /\ Count(<<len>>, 1) = len /\ NextBuf(<<len>>, 1) = 2
         /\ Len(<<len>>) = 1 /\ <<len>>[1] = len
<1>1. <<len>> \in [1..1 -> Lens] /\ 1 \in 1..MaxBufs /\ len \in Nat
  BY WriteAssumption
<1>2. <<len>> \in Bufs
  BY <1>1 DEF Bufs
<1>3. NextBuf(<<len>>, 1) \in (1 + 1)..(1 + 1)
  BY <1>2, NextBufIs
<1>4. NextBuf(<<len>>, 1) = 2
  BY <1>3
<1>5. 1 \in DOMAIN <<len>>
  OBVIOUS
<1>6. Cardinality(Bytes(<<len>>, 1)) = <<len>>[1] + Cardinality(Bytes(<<len>>, 2))
  BY <1>2, <1>4, <1>5, BytesStep
<1>7. Bytes(<<len>>, 2) = {}
  <2>1. 2..Len(<<len>>) = {}
    OBVIOUS
  <2> QED
    BY <2>1 DEF Bytes
<1>8. Cardinality({}) = 0
  BY FS_EmptySet
<1> QED
  BY <1>1, <1>2, <1>4, <1>6, <1>7, <1>8 DEF Count

(* The state w that finishing the first request r leaves; r becomes d. *)
Finished(s, r, d, w) ==
  /\ d \in Reqs /\ d.id = r.id
  /\ w.write_queue = Tail(s.write_queue)
  /\ w.write_completed_queue = Append(s.write_completed_queue, d)
  /\ w.pending = TRUE /\ w.pollout = s.pollout
  /\ w.write_queue_size = s.write_queue_size - r.bufs[r.write_index]
  /\ w.sent = Sent(s, r)
  /\ w.write_queue_size \in Nat => w \in Streams

LEMMA WriteFinishes ==
  ASSUME NEW s \in Streams, s.write_queue # <<>>, NEW r, r = s.write_queue[1],
         r.write_index \in DOMAIN r.bufs, Len(r.bufs) \in Nat,
         NextBuf(r.bufs, r.write_index) = Len(r.bufs) + 1,
         NEW d, d = [r EXCEPT !.write_index = Len(r.bufs) + 1]
  PROVE  Finished(s, r, d, uv__write(s))
<1>a. PICK n : n = NextBuf(r.bufs, r.write_index)
  OBVIOUS
<1>b. d = [r EXCEPT !.write_index = n]
  BY <1>a
<1>c. PICK w : w = uv__write(s)
  OBVIOUS
<1>1. Wrote(s, r, n, d, w)
  BY <1>a, <1>b, <1>c, WriteFields
<1>2. n > Len(r.bufs)
  BY <1>a
<1> QED
  BY <1>1, <1>2, <1>c DEF Wrote, Finished

(* What is taken back, field by field. *)
LEMMA TryFields ==
  ASSUME NEW s \in Streams, NEW r, NEW v \in Streams, v = uv_write2(s, r), NEW t, t = uv_try_write(s, r),
         QUEUE_REMOVE(v.write_queue, r.id) \in Seq(Reqs),
         QUEUE_REMOVE(v.write_completed_queue, r.id) \in Seq(Reqs),
         NEW m \in Nat,
         m = IF IsLast(v.write_queue, r.id)
               THEN v.write_queue_size - uv__write_req_size(Last(v.write_queue)) ELSE v.write_queue_size
  PROVE  /\ t \in Streams /\ t.write_queue = QUEUE_REMOVE(v.write_queue, r.id)
         /\ t.write_completed_queue = QUEUE_REMOVE(v.write_completed_queue, r.id)
         /\ t.write_queue_size = m /\ t.pollout = s.pollout /\ t.pending = v.pending /\ t.sent = v.sent
<1>1. t = [Unqueue(v, r.id) EXCEPT !.pollout = s.pollout]
  BY DEF uv_try_write
<1>2. PICK u : u = Unqueue(v, r.id)
  OBVIOUS
<1>3. PICK A, B : A = QUEUE_REMOVE(v.write_queue, r.id) /\ B = QUEUE_REMOVE(v.write_completed_queue, r.id)
  OBVIOUS
<1>4. u = [v EXCEPT !.write_queue = A, !.write_completed_queue = B, !.write_queue_size = m]
  BY <1>2, <1>3 DEF Unqueue
<1>5. /\ u \in Streams /\ u.write_queue = A /\ u.write_completed_queue = B /\ u.write_queue_size = m
      /\ u.pending = v.pending /\ u.sent = v.sent
  BY <1>3, <1>4 DEF Streams
<1>6. s.pollout \in BOOLEAN
  BY StreamType
<1> QED
  BY <1>1, <1>2, <1>3, <1>5, <1>6 DEF Streams

(* A try on an empty queue: nothing is left behind but a pending watcher. *)
TriedEmpty(s, id, len, t) ==
  /\ t \in Streams /\ t.write_queue = <<>> /\ t.write_completed_queue = s.write_completed_queue
  /\ t.write_queue_size = 0 /\ t.pollout = s.pollout /\ t.pending = TRUE
  /\ t.sent = IF len = 0 THEN s.sent ELSE Append(s.sent, <<id, 1>>)

LEMMA TryEmpty ==
  ASSUME NEW s, NEW sub \in Seq(Writes), NEW F, Good(s, sub, F), Len(sub) < MaxReqs,
         NEW len \in Lens, NEW r, r = Request(Len(sub) + 1, <<len>>), s.write_queue = <<>>
  PROVE  /\ TriedEmpty(s, r.id, len, uv_try_write(s, r)) /\ s.write_queue_size = 0
         /\ uv_write2(s, r).write_queue = <<>> /\ uv_write2(s, r).sent = uv_try_write(s, r).sent
<1>1. /\ <<len>> \in Bufs /\ len \in Nat /\ Count(<<len>>, 1) = len /\ NextBuf(<<len>>, 1) = 2
      /\ Len(<<len>>) = 1 /\ <<len>>[1] = len /\ DOMAIN <<len>> = 1..1
  BY OneBuf
<1>2. /\ r \in Reqs /\ r.id = Len(sub) + 1 /\ r.bufs = <<len>> /\ r.write_index = 1 /\ r.error = "0"
      /\ Count(r.bufs, 1) = len /\ Count(r.bufs, 1) \in Nat
  BY <1>1, RequestIs
<1>3. s \in Streams /\ s.write_completed_queue \in Seq(Reqs)
  BY GoneIs
<1>4. s.write_queue_size = 0
  <2>1. QueueBytes(s.write_queue) = {}
    BY QueueBytesIn
  <2> QED
    BY <2>1, FS_EmptySet DEF Good, SizeGood
<1>a. PICK q : q = Queued(s, r)
  OBVIOUS
<1>5. /\ q \in Streams /\ q.write_queue = Append(s.write_queue, r)
      /\ q.write_queue_size = s.write_queue_size + Count(r.bufs, 1)
      /\ q.write_completed_queue = s.write_completed_queue /\ q.sent = s.sent
      /\ q.pollout = s.pollout
  BY <1>2, <1>3, <1>a, QueuedFields DEF QueuedIs
<1>b. PICK v : v = uv_write2(s, r)
  OBVIOUS
<1>6. v = uv__write(q)
  BY <1>4, <1>a, <1>b DEF uv_write2, Queued
<1>7. q.write_queue = <<r>> /\ q.write_queue # <<>> /\ q.write_queue[1] = r /\ Tail(q.write_queue) = <<>>
  BY <1>2, <1>5
<1>8. /\ r.write_index \in DOMAIN r.bufs /\ Len(r.bufs) = 1 /\ Len(r.bufs) \in Nat
      /\ NextBuf(r.bufs, r.write_index) = Len(r.bufs) + 1 /\ r.bufs[r.write_index] = len
  <2>1. /\ DOMAIN r.bufs = DOMAIN <<len>> /\ Len(r.bufs) = Len(<<len>>)
        /\ NextBuf(r.bufs, r.write_index) = NextBuf(<<len>>, 1) /\ r.bufs[r.write_index] = <<len>>[1]
    BY <1>2
  <2>2. r.write_index \in DOMAIN r.bufs
    BY <1>1, <1>2, <2>1
  <2>3. Len(r.bufs) = 1 /\ r.bufs[r.write_index] = len
    BY <1>1, <2>1
  <2>4. NextBuf(r.bufs, r.write_index) = 1 + 1
    BY <1>1, <2>1
  <2>5. Len(r.bufs) \in Nat
    BY <2>3
  <2>6. NextBuf(r.bufs, r.write_index) = Len(r.bufs) + 1
    BY <2>3, <2>4
  <2> QED
    BY <2>2, <2>3, <2>5, <2>6
<1>d. PICK d : d = [r EXCEPT !.write_index = Len(r.bufs) + 1]
  OBVIOUS
<1>9. Finished(q, r, d, v)
  BY <1>5, <1>6, <1>7, <1>8, <1>d, WriteFinishes
<1>10.   /\ d \in Reqs /\ d.id = r.id
         /\ v.write_queue = Tail(q.write_queue)
         /\ v.write_completed_queue = Append(q.write_completed_queue, d)
         /\ v.pending = TRUE /\ v.pollout = q.pollout
         /\ v.write_queue_size = q.write_queue_size - r.bufs[r.write_index]
         /\ v.sent = Sent(q, r)
         /\ v.write_queue_size \in Nat => v \in Streams
  BY <1>9 DEF Finished
<1>11. v.write_queue_size = 0 /\ v \in Streams
  BY <1>1, <1>2, <1>4, <1>5, <1>8, <1>10
<1>12. v.write_queue = <<>> /\ v.write_completed_queue = Append(s.write_completed_queue, d)
  BY <1>5, <1>7, <1>10
<1>13. ~IsLast(v.write_queue, r.id) /\ QUEUE_REMOVE(v.write_queue, r.id) = <<>>
  BY <1>12 DEF IsLast, QUEUE_REMOVE
<1>14. QUEUE_REMOVE(v.write_completed_queue, r.id) = s.write_completed_queue
  <2>1. /\ Front(Append(s.write_completed_queue, d)) = s.write_completed_queue
        /\ Last(Append(s.write_completed_queue, d)) = d /\ Append(s.write_completed_queue, d) # <<>>
    BY <1>3, <1>10, FrontLastAppend
  <2> QED
    BY <1>10, <1>12, <2>1 DEF IsLast, QUEUE_REMOVE
<1>15. <<>> \in Seq(Reqs) /\ 0 \in Nat
  OBVIOUS
<1>c. PICK t : t = uv_try_write(s, r)
  OBVIOUS
<1>16. /\ t \in Streams /\ t.write_queue = QUEUE_REMOVE(v.write_queue, r.id)
       /\ t.write_completed_queue = QUEUE_REMOVE(v.write_completed_queue, r.id)
       /\ t.write_queue_size = 0 /\ t.pollout = s.pollout /\ t.pending = v.pending /\ t.sent = v.sent
  <2>1. 0 = IF IsLast(v.write_queue, r.id)
              THEN v.write_queue_size - uv__write_req_size(Last(v.write_queue)) ELSE v.write_queue_size
    BY <1>11, <1>13
  <2>2. /\ QUEUE_REMOVE(v.write_queue, r.id) \in Seq(Reqs)
        /\ QUEUE_REMOVE(v.write_completed_queue, r.id) \in Seq(Reqs)
    BY <1>3, <1>13, <1>14, <1>15
  <2> QED
    BY <1>3, <1>b, <1>c, <1>11, <1>15, <2>1, <2>2, TryFields
<1>17. v.sent = IF len = 0 THEN s.sent ELSE Append(s.sent, <<r.id, 1>>)
  BY <1>2, <1>5, <1>8, <1>10 DEF Sent
<1>18. TriedEmpty(s, r.id, len, t)
  BY <1>10, <1>13, <1>14, <1>16, <1>17 DEF TriedEmpty
<1> QED
  BY <1>4, <1>12, <1>16, <1>18, <1>b, <1>c

(* A try behind requests with nothing left but empty buffers: the first of *)
(* them is finished, as uv__write does it.                                 *)
TriedQueued(s, w, t) ==
  /\ t \in Streams /\ t.write_queue = w.write_queue /\ t.write_completed_queue = w.write_completed_queue
  /\ t.write_queue_size = w.write_queue_size /\ t.pollout = w.pollout /\ t.pending = w.pending
  /\ t.sent = w.sent /\ t.sent = s.sent

(* With nothing left to write every buffer from the current one on is      *)
(* empty.                                                                  *)
LEMMA NothingLeft ==
  ASSUME NEW s, NEW sub \in Seq(Writes), NEW F, Good(s, sub, F),
         s.write_queue # <<>>, s.write_queue_size = 0, NEW r, r = s.write_queue[1]
  PROVE  r.bufs[r.write_index] = 0 /\ NextBuf(r.bufs, r.write_index) = Len(r.bufs) + 1
<1>1. /\ r \in Reqs /\ r.bufs \in Bufs /\ r.write_index \in DOMAIN r.bufs
      /\ Len(r.bufs) \in Nat /\ r.write_index \in 1..Len(r.bufs) /\ DOMAIN r.bufs = 1..Len(r.bufs)
      /\ 1 \in DOMAIN s.write_queue /\ s.write_queue \in Seq(Reqs)
  <2>1. /\ s \in Streams /\ r \in Reqs /\ Len(s.write_queue) \in Nat \ {0}
        /\ DOMAIN s.write_queue = 1..Len(s.write_queue) /\ r.bufs \in Bufs
        /\ r.write_index \in DOMAIN r.bufs /\ r.write_index \in 1..Len(r.bufs)
        /\ Len(r.bufs) \in Nat /\ DOMAIN r.bufs = 1..Len(r.bufs)
    BY FirstGood DEF Writes
  <2> QED
    BY <2>1, StreamType
<1>2. QueueBytes(s.write_queue) = {}
  <2>1. IsFiniteSet(QueueBytes(s.write_queue)) /\ Cardinality(QueueBytes(s.write_queue)) = 0
    BY <1>1, QueueBytesFinite DEF Good, SizeGood
  <2> QED
    BY <2>1, FS_EmptySet
<1>3. Rest(r) = {}
  BY <1>1, <1>2, QueueBytesIn
<1>4. Bytes(r.bufs, r.write_index) = {}
  <2>1. \A b \in Bytes(r.bufs, r.write_index) : <<r.id, b>> \in {r.id} \X Bytes(r.bufs, r.write_index)
    OBVIOUS
  <2> QED
    BY <1>3, <2>1 DEF Rest
<1>5. ASSUME NEW j \in r.write_index..Len(r.bufs) PROVE r.bufs[j] = 0
  <2>1. r.bufs[j] \in Nat
    BY <1>1, BufsType
  <2>2. {j} \X (1..r.bufs[j]) = {}
    BY <1>4 DEF Bytes
  <2>3. 1 \notin 1..r.bufs[j]
    <3>1. \A S : 1 \in S => <<j, 1>> \in {j} \X S
      OBVIOUS
    <3> QED
      BY <2>2, <3>1
  <2> QED
    BY <2>1, <2>3
<1>6. PICK n : n = NextBuf(r.bufs, r.write_index)
  OBVIOUS
<1>7. n \in (r.write_index + 1)..(Len(r.bufs) + 1) /\ (n = Len(r.bufs) + 1 \/ r.bufs[n] # 0)
  BY <1>1, <1>6, NextBufIs
<1>8. n = Len(r.bufs) + 1 \/ n \in r.write_index..Len(r.bufs)
  BY <1>1, <1>7
<1>9. r.write_index \in r.write_index..Len(r.bufs)
  BY <1>1
<1> QED
  BY <1>5, <1>6, <1>7, <1>8, <1>9

LEMMA TryQueued ==
  ASSUME NEW s, NEW sub \in Seq(Writes), NEW F, Good(s, sub, F), Len(sub) < MaxReqs,
         NEW len \in Lens, NEW r, r = Request(Len(sub) + 1, <<len>>),
         s.write_queue # <<>>, s.write_queue_size = 0
  PROVE  TriedQueued(s, uv__write(s), uv_try_write(s, r))
<1>1. /\ <<len>> \in Bufs /\ len \in Nat /\ Count(<<len>>, 1) = len
  BY OneBuf
<1>2. /\ r \in Reqs /\ r.id = Len(sub) + 1 /\ r.bufs = <<len>>
      /\ Count(r.bufs, 1) = len /\ Count(r.bufs, 1) \in Nat /\ uv__write_req_size(r) = len
  BY <1>1, RequestIs
<1>3. /\ s \in Streams /\ s.write_completed_queue \in Seq(Reqs) /\ s.write_queue \in Seq(Reqs)
      /\ Len(s.write_queue) \in Nat \ {0} /\ Len(sub) \in Nat
  BY GoneIs, EmptySeq
<1>d. PICK x : x = s.write_queue[1]
  OBVIOUS
<1>4. /\ x \in Reqs /\ x.write_index \in DOMAIN x.bufs /\ Len(x.bufs) \in Nat /\ x.id \in DOMAIN sub
      /\ x.bufs[x.write_index] = 0 /\ NextBuf(x.bufs, x.write_index) = Len(x.bufs) + 1
  BY <1>d, NothingLeft, FirstGood DEF Writes
<1>5. x.id # r.id
  BY <1>2, <1>3, <1>4
<1>a. PICK q : q = Queued(s, r)
  OBVIOUS
<1>6. /\ q \in Streams /\ q.write_queue = Append(s.write_queue, r)
      /\ q.write_queue_size = len
      /\ q.write_completed_queue = s.write_completed_queue /\ q.sent = s.sent
      /\ q.pollout = s.pollout
  <2>1. r \in Reqs /\ Count(r.bufs, 1) \in Nat
    BY <1>2
  <2>2. QueuedIs(s, r, q)
    BY <1>3, <1>a, <2>1, QueuedFields
  <2> QED
    BY <1>1, <1>2, <2>2 DEF QueuedIs
<1>b. PICK v, w : v = uv_write2(s, r) /\ w = uv__write(s)
  OBVIOUS
<1>7. v = uv__write(q)
  BY <1>a, <1>b DEF uv_write2, Queued
<1>8. q.write_queue # <<>> /\ x = q.write_queue[1]
  BY <1>2, <1>3, <1>6, <1>d, AppendProperties
<1>e. PICK d : d = [x EXCEPT !.write_index = Len(x.bufs) + 1]
  OBVIOUS
<1>9. Finished(q, x, d, v) /\ Finished(s, x, d, w)
  BY <1>3, <1>4, <1>6, <1>7, <1>8, <1>b, <1>d, <1>e, WriteFinishes
<1>10. /\ d \in Reqs /\ d.id = x.id
       /\ v.write_queue = Tail(q.write_queue)
       /\ v.write_completed_queue = Append(q.write_completed_queue, d)
       /\ v.pending = TRUE
       /\ v.write_queue_size = q.write_queue_size - x.bufs[x.write_index]
       /\ v.sent = Sent(q, x)
       /\ v.write_queue_size \in Nat => v \in Streams
  BY <1>9 DEF Finished
<1>11. /\ w.write_queue = Tail(s.write_queue)
       /\ w.write_completed_queue = Append(s.write_completed_queue, d)
       /\ w.pending = TRUE /\ w.pollout = s.pollout
       /\ w.write_queue_size = s.write_queue_size - x.bufs[x.write_index]
       /\ w.sent = Sent(s, x)
  BY <1>9 DEF Finished
<1>12. v.write_queue_size = len /\ v \in Streams /\ w.write_queue_size = 0
  BY <1>1, <1>4, <1>6, <1>10, <1>11
<1>13. v.sent = s.sent /\ w.sent = s.sent
  BY <1>4, <1>6, <1>10, <1>11 DEF Sent
<1>14. v.write_queue = Append(Tail(s.write_queue), r) /\ Tail(s.write_queue) \in Seq(Reqs)
  BY <1>2, <1>3, <1>6, <1>10, TailAppend
<1>15. IsLast(v.write_queue, r.id) /\ QUEUE_REMOVE(v.write_queue, r.id) = Tail(s.write_queue)
       /\ Last(v.write_queue) = r
  <2>1. /\ Front(Append(Tail(s.write_queue), r)) = Tail(s.write_queue)
        /\ Last(Append(Tail(s.write_queue), r)) = r /\ Append(Tail(s.write_queue), r) # <<>>
    BY <1>2, <1>14, FrontLastAppend
  <2> QED
    BY <1>14, <2>1 DEF IsLast, QUEUE_REMOVE
<1>16. QUEUE_REMOVE(v.write_completed_queue, r.id) = Append(s.write_completed_queue, d)
  <2>1. Last(Append(s.write_completed_queue, d)) = d
    BY <1>3, <1>10, FrontLastAppend
  <2>2. ~IsLast(Append(s.write_completed_queue, d), r.id)
    BY <1>5, <1>10, <2>1 DEF IsLast
  <2> QED
    BY <1>6, <1>10, <2>2 DEF QUEUE_REMOVE
<1>c. PICK t : t = uv_try_write(s, r)
  OBVIOUS
<1>17. /\ t \in Streams /\ t.write_queue = QUEUE_REMOVE(v.write_queue, r.id)
       /\ t.write_completed_queue = QUEUE_REMOVE(v.write_completed_queue, r.id)
       /\ t.write_queue_size = 0 /\ t.pollout = s.pollout /\ t.pending = v.pending /\ t.sent = v.sent
  <2>1. 0 \in Nat /\ 0 = IF IsLast(v.write_queue, r.id)
              THEN v.write_queue_size - uv__write_req_size(Last(v.write_queue)) ELSE v.write_queue_size
    BY <1>1, <1>2, <1>12, <1>15
  <2>2. /\ QUEUE_REMOVE(v.write_queue, r.id) \in Seq(Reqs)
        /\ QUEUE_REMOVE(v.write_completed_queue, r.id) \in Seq(Reqs)
    <3>1. Append(s.write_completed_queue, d) \in Seq(Reqs)
      BY <1>3, <1>10, AppendProperties
    <3> QED
      BY <1>14, <1>15, <1>16, <3>1
  <2> QED
    BY <1>3, <1>b, <1>c, <1>12, <2>1, <2>2, TryFields
<1>18. TriedQueued(s, w, t)
  BY <1>10, <1>11, <1>12, <1>13, <1>15, <1>16, <1>17 DEF TriedQueued
<1> QED
  BY <1>18, <1>b, <1>c

(* What was sent so far is not of a further write. *)
LEMMA NotYetSent ==
  ASSUME NEW s, NEW sub \in Seq(Writes), NEW F, Good(s, sub, F),
         NEW k \in DOMAIN s.sent, NEW i
  PROVE  s.sent[k] # <<Len(sub) + 1, i>>
<1>1. s.sent[k][1] \in 1..Len(sub) /\ Len(sub) \in Nat
  BY DEF Good, SentGood, IsData
<1>2. <<Len(sub) + 1, i>>[1] \notin 1..Len(sub)
  BY <1>1
<1> QED
  BY <1>1, <1>2

(* A buffer that was tried with success needs no callback. *)
LEMMA TriedGood ==
  ASSUME NEW s, NEW sub \in Seq(Writes), NEW F \in SUBSET Nat, Good(s, sub, F),
         s.write_queue = <<>>, s.write_queue_size = 0, NEW bufs,
         NEW w, NEW sub2, Good(w, sub2, F), w.write_queue = <<>>,
         sub2 = Append(sub, [bufs |-> bufs, cb |-> TRUE]),
         NEW sub3, sub3 = Append(sub, [bufs |-> bufs, cb |-> FALSE]),
         NEW t \in Streams, t.write_queue = <<>>, t.write_queue_size = 0,
         t.write_completed_queue = s.write_completed_queue, t.sent = w.sent
  PROVE  Good(t, sub3, F)
<1>1. /\ Len(sub) \in Nat /\ DOMAIN sub = 1..Len(sub) /\ Gone(s, sub) = Len(sub) /\ Len(sub2) =< MaxReqs
      /\ s.write_completed_queue \in Seq(Reqs)
  BY GoneIs DEF Good, Gone
<1>2. /\ Len(sub2) = Len(sub) + 1 /\ DOMAIN sub2 = 1..(Len(sub) + 1)
      /\ Len(sub3) = Len(sub) + 1 /\ DOMAIN sub3 = 1..(Len(sub) + 1)
      /\ \A id \in 1..Len(sub) : sub2[id] = sub[id] /\ sub3[id] = sub[id]
      /\ sub2[Len(sub) + 1].bufs = bufs /\ sub3[Len(sub) + 1].bufs = bufs /\ sub3[Len(sub) + 1].cb = FALSE
  BY <1>1, AppendProperties
<1>3. Gone(t, sub3) = Len(sub) + 1 /\ Gone(w, sub2) = Len(sub) + 1
  BY <1>1, <1>2 DEF Gone
<1>4. QueueGood(t, sub3)
  BY <1>1, <1>2 DEF QueueGood
<1>5. DoneGood(t, sub3, F)
  <2>a. PICK C : C = s.write_completed_queue
    OBVIOUS
  <2>b. PICK g : g = Len(sub) + 1
    OBVIOUS
  <2>1. /\ \A j \in DOMAIN C : C[j].error = "0" /\ C[j].id =< Len(sub) /\ sub[C[j].id].cb
        /\ \A i, j \in DOMAIN C : i < j => C[i].id < C[j].id
        /\ \A f \in F : f =< Len(sub) /\ \A j \in DOMAIN C : f < C[j].id
        /\ \A id \in 1..Len(sub) : sub[id].cb => id \in F \/ \E j \in DOMAIN C : C[j].id = id
    BY <1>1, <2>a DEF Good, DoneGood
  <2>2. \A j \in DOMAIN C : C[j].id \in Nat /\ C[j].id > 0
    <3>1. \A j \in DOMAIN C : C[j] \in Reqs
      BY <1>1, <2>a
    <3>2. \A x \in Reqs : x.id \in Nat /\ x.id > 0
      BY WriteAssumption DEF Reqs, Ids
    <3> QED
      BY <3>1, <3>2
  <2>3. \A j \in DOMAIN C : C[j].id \in 1..Len(sub)
    BY <1>1, <2>1, <2>2
  <2>4. \A j \in DOMAIN C : C[j].error = "0" /\ C[j].id =< g /\ sub3[C[j].id].cb
    <3>1. \A j \in DOMAIN C : sub3[C[j].id] = sub[C[j].id]
      BY <1>2, <2>3
    <3>2. \A j \in DOMAIN C : C[j].id =< g
      BY <1>1, <2>1, <2>2, <2>b
    <3> QED
      BY <2>1, <3>1, <3>2
  <2>5. \A f \in F : f =< g /\ \A j \in DOMAIN C : f < C[j].id
    <3>1. \A f \in F : f =< g
      BY <1>1, <2>1, <2>b
    <3> QED
      BY <2>1, <3>1
  <2>6. \A id \in 1..g : sub3[id].cb => id \in F \/ \E j \in DOMAIN C : C[j].id = id
    <3> SUFFICES ASSUME NEW id \in 1..g, sub3[id].cb PROVE id \in F \/ \E j \in DOMAIN C : C[j].id = id
      OBVIOUS
    <3>1. id # Len(sub) + 1
      BY <1>2
    <3>2. id \in 1..Len(sub)
      BY <1>1, <2>b, <3>1
    <3> QED
      BY <1>2, <2>1, <3>2
  <2>7. t.write_completed_queue = C /\ Gone(t, sub3) = g
    BY <1>3, <2>a, <2>b
  <2> QED
    BY <2>1, <2>4, <2>5, <2>6, <2>7 DEF DoneGood
<1>6. SentGood(t, sub3)
  <2>1. \A id \in DOMAIN sub3 : sub3[id].bufs = sub2[id].bufs
    <3>1. \A id \in 1..(Len(sub) + 1) : id = Len(sub) + 1 \/ id \in 1..Len(sub)
      BY <1>1
    <3> QED
      BY <1>2, <3>1
  <2>2. \A id, i : IsData(sub3, id, i) <=> IsData(sub2, id, i)
    BY <1>2, <2>1 DEF IsData
  <2>3. \A id, i : IsData(sub2, id, i) => Past(t, sub3, id, i) /\ Past(w, sub2, id, i)
    <3> SUFFICES ASSUME NEW id, NEW i, IsData(sub2, id, i) PROVE id =< Len(sub) + 1
      BY <1>3 DEF Past
    <3> QED
      BY <1>1, <1>2 DEF IsData
  <2>4. \A id, i : Went(t, id, i) <=> Went(w, id, i)
    BY DEF Went
  <2>5. SentGood(w, sub2)
    BY DEF Good
  <2>6. /\ \A k \in DOMAIN w.sent : IsData(sub2, w.sent[k][1], w.sent[k][2])
        /\ \A id \in DOMAIN sub2 : \A i \in DOMAIN sub2[id].bufs :
             IsData(sub2, id, i) /\ Past(w, sub2, id, i) => Went(w, id, i)
        /\ \A i, j \in DOMAIN w.sent : i < j => Before(w.sent[i], w.sent[j])
    BY <2>5 DEF SentGood
  <2>7. \A k \in DOMAIN t.sent : IsData(sub3, t.sent[k][1], t.sent[k][2]) /\ Past(t, sub3, t.sent[k][1], t.sent[k][2])
    BY <2>2, <2>3, <2>6
  <2>8. \A id \in DOMAIN sub3 : \A i \in DOMAIN sub3[id].bufs : IsData(sub3, id, i) => Went(t, id, i)
    BY <1>2, <2>1, <2>2, <2>3, <2>4, <2>6
  <2>9. \A i, j \in DOMAIN t.sent : i < j => Before(t.sent[i], t.sent[j])
    BY <2>6
  <2> QED
    BY <2>7, <2>8, <2>9 DEF SentGood
<1>7. SizeGood(t)
  <2>1. QueueBytes(t.write_queue) = {}
    BY QueueBytesIn
  <2> QED
    BY <2>1, FS_EmptySet DEF SizeGood
<1>8. Len(sub3) =< MaxReqs
  BY <1>1, <1>2
<1> QED
  BY <1>4, <1>5, <1>6, <1>7, <1>8 DEF Good

(* A buffer or a string keeps the invariant, tried or queued. *)
LEMMA WriteBufferGood ==
  ASSUME NEW s, NEW sub \in Seq(Writes), NEW F \in SUBSET Nat, Good(s, sub, F), Len(sub) < MaxReqs,
         NEW len \in Lens, NEW r, r = Request(Len(sub) + 1, <<len>>), NEW fr, Wakes(s, fr, 0),
         NEW sub2, sub2 = Append(sub, [bufs |-> <<len>>, cb |-> ~TryWrites(s, r)])
  PROVE  Good(WriteBuffer(s, r), sub2, F) /\ Wakes(WriteBuffer(s, r), fr, 0)
<1>1. <<len>> \in Bufs
  BY OneBuf
<1>a. PICK subT, subF : /\ subT = Append(sub, [bufs |-> <<len>>, cb |-> TRUE])
                        /\ subF = Append(sub, [bufs |-> <<len>>, cb |-> FALSE])
  OBVIOUS
<1>2. ASSUME NEW t, Good(t, sub, F), Wakes(t, fr, 0)
      PROVE  Good(uv_write2(t, r), subT, F) /\ Wakes(uv_write2(t, r), fr, 0)
  BY <1>1, <1>2, <1>a, Write2Good
<1>3. CASE ~TryWrites(s, r)
  <2>1. sub2 = subT
    BY <1>3, <1>a
  <2>2. WriteBuffer(s, r) = uv_write2(IF s.write_queue_size = 0 THEN uv_try_write(s, r) ELSE s, r)
    BY <1>3 DEF WriteBuffer
  <2>3. CASE s.write_queue_size # 0
    BY <1>2, <2>1, <2>2, <2>3
  <2>4. CASE s.write_queue_size = 0
    <3>a. PICK t : t = uv_try_write(s, r)
      OBVIOUS
    <3>1. SUFFICES Good(t, sub, F) /\ Wakes(t, fr, 0)
      BY <1>2, <2>1, <2>2, <2>4, <3>a
    <3>2. CASE s.write_queue = <<>>
      <4>1. TriedEmpty(s, r.id, len, t)
        BY <3>2, <3>a, TryEmpty
      <4>2. len = 0
        <5> SUFFICES ASSUME len # 0 PROVE FALSE
          OBVIOUS
        <5>1. t.sent = Append(s.sent, <<r.id, 1>>)
          BY <4>1 DEF TriedEmpty
        <5>2. s.sent \in Seq(Ids \X (1..MaxBufs))
          BY StreamType DEF Good
        <5>3. Len(s.sent) + 1 \in DOMAIN t.sent /\ t.sent[Len(s.sent) + 1] = <<r.id, 1>>
          BY <5>1, <5>2
        <5> QED
          BY <1>3, <2>4, <3>a, <5>3 DEF TryWrites
      <4>3. /\ t \in Streams /\ t.write_queue = s.write_queue /\ t.write_queue_size = s.write_queue_size
            /\ t.write_completed_queue = s.write_completed_queue /\ t.sent = s.sent
            /\ t.pollout = s.pollout /\ t.pending = TRUE
        BY <2>4, <3>2, <4>1, <4>2 DEF TriedEmpty
      <4>4. Good(t, sub, F)
        BY <4>3, GoodSame
      <4> QED
        BY <4>3, <4>4 DEF Wakes
    <3>3. CASE s.write_queue # <<>>
      <4>a. PICK w : w = uv__write(s)
        OBVIOUS
      <4>1. TriedQueued(s, w, t)
        BY <2>4, <3>3, <3>a, <4>a, TryQueued
      <4>2. Wakes(s, fr, 1)
        <5>1. Len(s.write_queue) \in Nat
          BY GoneIs
        <5> QED
          BY <5>1 DEF Wakes
      <4>3. Good(w, sub, F) /\ Wakes(w, fr, 0)
        BY <4>2, <4>a, WriteGood DEF Writes
      <4>4. Good(t, sub, F)
        BY <4>1, <4>3, GoodSame DEF TriedQueued
      <4> QED
        BY <4>1, <4>3, <4>4 DEF Wakes, TriedQueued
    <3> QED
      BY <3>2, <3>3
  <2> QED
    BY <2>3, <2>4
<1>4. CASE TryWrites(s, r)
  <2>a. PICK t : t = uv_try_write(s, r)
    OBVIOUS
  <2>1. sub2 = subF
    BY <1>4, <1>a
  <2>2. s.write_queue_size = 0 /\ \E k \in DOMAIN t.sent : t.sent[k] = <<r.id, 1>>
    BY <1>4, <2>a DEF TryWrites
  <2>3. WriteBuffer(s, r) = t
    BY <1>4, <2>2, <2>a DEF WriteBuffer
  <2>4. r.id = Len(sub) + 1
    BY DEF Request
  <2>5. s.write_queue = <<>>
    <3> SUFFICES ASSUME s.write_queue # <<>> PROVE FALSE
      OBVIOUS
    <3>1. TriedQueued(s, uv__write(s), t)
      BY <2>2, <2>a, TryQueued
    <3>2. t.sent = s.sent
      BY <3>1 DEF TriedQueued
    <3> QED
      BY <2>2, <2>4, <3>2, NotYetSent
  <2>6. /\ TriedEmpty(s, r.id, len, t) /\ uv_write2(s, r).write_queue = <<>>
        /\ t.sent = uv_write2(s, r).sent
    BY <2>5, <2>a, TryEmpty
  <2>b. PICK w : w = uv_write2(s, r)
    OBVIOUS
  <2>7. Good(w, subT, F)
    BY <1>2, <2>b
  <2>8. /\ t \in Streams /\ t.write_queue = <<>> /\ t.write_queue_size = 0 /\ t.sent = w.sent
        /\ t.write_completed_queue = s.write_completed_queue /\ t.pollout = s.pollout /\ t.pending = TRUE
        /\ w.write_queue = <<>>
    BY <2>6, <2>b DEF TriedEmpty
  <2>9. Good(t, subF, F)
    BY <1>a, <2>2, <2>5, <2>7, <2>8, TriedGood
  <2>10. Wakes(t, fr, 0)
    BY <2>5, <2>8 DEF Wakes
  <2> QED
    BY <2>1, <2>3, <2>9, <2>10
<1> QED
  BY <1>3, <1>4

----------------------------------------------------------------------------
(* What the invariant says of a stream that is not destroyed. *)

LEMMA DataOfIs ==
  ASSUME NEW id \in DOMAIN submitted, NEW b
  PROVE  b \in DataOf(id) <=> \E i : b = <<id, i>> /\ IsData(submitted, id, i)
BY DEF DataOf, IsData

LEMMA SubType ==
  ASSUME submitted \in Seq(Writes), NEW id, NEW i, IsData(submitted, id, i)
  PROVE  id \in Nat /\ i \in Nat /\ id > 0 /\ i > 0 /\ id \in 1..Len(submitted) /\ Len(submitted) \in Nat
<1>1. id \in 1..Len(submitted) /\ Len(submitted) \in Nat /\ i \in DOMAIN submitted[id].bufs
  BY DEF IsData
<1>2. submitted[id] \in Writes
  BY <1>1, ElementOfSeq
<1>3. submitted[id].bufs \in Bufs
  BY <1>2 DEF Writes
<1>4. DOMAIN submitted[id].bufs = 1..Len(submitted[id].bufs) /\ Len(submitted[id].bufs) \in Nat
  BY <1>3, BufsType
<1> QED
  BY <1>1, <1>4

(* The data behind the point to which the queue is written was sent. *)
LEMMA PastWritten ==
  ASSUME submitted \in Seq(Writes), SentGood(stream, submitted),
         NEW id \in DOMAIN submitted, id =< Gone(stream, submitted)
  PROVE  \A b \in DataOf(id) : Written(b)
<1> SUFFICES ASSUME NEW b \in DataOf(id) PROVE Written(b)
  OBVIOUS
<1>1. PICK i : b = <<id, i>> /\ IsData(submitted, id, i)
  BY DataOfIs
<1>2. Past(stream, submitted, id, i)
  BY DEF Past
<1>3. i \in DOMAIN submitted[id].bufs
  BY <1>1 DEF IsData
<1>4. Went(stream, id, i)
  BY <1>1, <1>2, <1>3 DEF SentGood
<1> QED
  BY <1>1, <1>4 DEF Went, Written

LEMMA OpenInOrder ==
  ASSUME submitted \in Seq(Writes), NEW F, Good(stream, submitted, F)
  PROVE  InOrder
<1> USE DEF Writes
<1>1. /\ \A k \in DOMAIN stream.sent : /\ IsData(submitted, stream.sent[k][1], stream.sent[k][2])
                                       /\ Past(stream, submitted, stream.sent[k][1], stream.sent[k][2])
      /\ \A id \in DOMAIN submitted : \A i \in DOMAIN submitted[id].bufs :
           IsData(submitted, id, i) /\ Past(stream, submitted, id, i) => Went(stream, id, i)
      /\ \A i, j \in DOMAIN stream.sent : i < j => Before(stream.sent[i], stream.sent[j])
  BY DEF Good, SentGood
<1>2. /\ Gone(stream, submitted) \in Nat /\ Len(stream.write_queue) \in Nat
      /\ Gone(stream, submitted) + Len(stream.write_queue) = Len(submitted)
  BY GoneIs
<1>3. ASSUME NEW k \in DOMAIN stream.sent, NEW x, x = stream.sent[k]
      PROVE  x = <<x[1], x[2]>>
  <2>1. stream.sent \in Seq(Ids \X (1..MaxBufs))
    BY StreamType DEF Good
  <2>2. x \in Ids \X (1..MaxBufs)
    BY <1>3, <2>1
  <2> QED
    BY <2>2
<1>4. ASSUME NEW k \in DOMAIN stream.sent
      PROVE  \E id \in DOMAIN submitted : stream.sent[k] \in DataOf(id)
  <2>1. PICK x : x = stream.sent[k]
    OBVIOUS
  <2>2. x = <<x[1], x[2]>> /\ IsData(submitted, x[1], x[2])
    BY <1>1, <1>3, <2>1
  <2>3. x[1] \in DOMAIN submitted
    BY <2>2 DEF IsData
  <2>4. x \in DataOf(x[1])
    BY <2>2, <2>3, DataOfIs
  <2> QED
    BY <2>1, <2>3, <2>4
<1>5. ASSUME NEW k \in DOMAIN stream.sent, NEW id \in DOMAIN submitted, NEW b \in DataOf(id),
             Before(b, stream.sent[k])
      PROVE  Written(b)
  <2>1. PICK x : x = stream.sent[k]
    OBVIOUS
  <2>2. PICK i : b = <<id, i>> /\ IsData(submitted, id, i)
    BY DataOfIs
  <2>3. IsData(submitted, x[1], x[2]) /\ Past(stream, submitted, x[1], x[2])
    BY <1>1, <2>1
  <2>4. /\ id \in Nat /\ i \in Nat /\ x[1] \in Nat /\ x[2] \in Nat
        /\ x[1] \in 1..Len(submitted) /\ Len(submitted) \in Nat
    BY <2>2, <2>3, SubType
  <2>5. id < x[1] \/ (id = x[1] /\ i < x[2])
    BY <1>5, <2>1, <2>2 DEF Before
  <2>6. Past(stream, submitted, id, i)
    <3>a. PICK g : g = Gone(stream, submitted)
      OBVIOUS
    <3>1. x[1] =< g \/ (x[1] = g + 1 /\ x[2] < stream.write_queue[1].write_index)
      BY <2>3, <3>a DEF Past
    <3>2. CASE x[1] =< g
      BY <1>2, <2>4, <2>5, <3>2, <3>a DEF Past
    <3>3. CASE x[1] = g + 1 /\ x[2] < stream.write_queue[1].write_index
      <4>1. stream.write_queue # <<>>
        BY <1>2, <2>4, <3>3, <3>a, EmptySeq
      <4>2. PICK m : m = stream.write_queue[1].write_index
        OBVIOUS
      <4>3. m \in Nat
        <5>1. /\ stream.write_queue[1].write_index \in 1..Len(stream.write_queue[1].bufs)
              /\ Len(stream.write_queue[1].bufs) \in Nat
          BY <4>1, FirstGood
        <5> QED
          BY <4>2, <5>1
      <4>4. id =< g \/ (id = g + 1 /\ i < m)
        BY <1>2, <2>4, <2>5, <3>3, <3>a, <4>2, <4>3
      <4> QED
        BY <3>a, <4>2, <4>4 DEF Past
    <3> QED
      BY <3>1, <3>2, <3>3
  <2>7. i \in DOMAIN submitted[id].bufs
    BY <2>2 DEF IsData
  <2> QED
    BY <1>1, <2>2, <2>6, <2>7 DEF Went, Written
<1> QED
  BY <1>1, <1>4, <1>5 DEF InOrder

LEMMA OpenTruthful ==
  ASSUME submitted \in Seq(Writes), Good(stream, submitted, FiredIds), FiredGood,
         \A i \in DOMAIN fired : fired[i].error = "0"
  PROVE  CallbacksTruthful
<1>1. ASSUME NEW i \in DOMAIN fired
      PROVE  /\ submitted[fired[i].id].cb
             /\ \A b \in DataOf(fired[i].id) : Written(b)
             /\ fired[i].error # ECANCELED
  <2>1. fired[i].id \in FiredIds
    BY DEF FiredIds
  <2>2. fired[i].id =< Gone(stream, submitted)
    BY <2>1 DEF Good, DoneGood
  <2>3. fired[i].id \in DOMAIN submitted /\ submitted[fired[i].id].cb
    BY DEF FiredGood
  <2>4. SentGood(stream, submitted)
    BY DEF Good
  <2>5. \A b \in DataOf(fired[i].id) : Written(b)
    BY <2>2, <2>3, <2>4, PastWritten
  <2> QED
    BY <2>3, <2>5 DEF ECANCELED
<1> QED
  BY <1>1 DEF CallbacksTruthful, FiredGood

LEMMA OpenSize ==
  ASSUME submitted \in Seq(Writes), NEW F, Good(stream, submitted, F)
  PROVE  SizeExact
<1>1. \A j \in DOMAIN stream.write_completed_queue : stream.write_completed_queue[j].error = "0"
  BY DEF Good, DoneGood
<1>2. Unfinished = ToSet(stream.write_queue)
  BY <1>1 DEF Unfinished, ToSet
<1>3. UNION {{r.id} \X Bytes(r.bufs, r.write_index) : r \in Unfinished} = QueueBytes(stream.write_queue)
  BY <1>2 DEF ToSet, QueueBytes, Rest
<1> QED
  BY <1>3 DEF Good, SizeGood, SizeExact

----------------------------------------------------------------------------
(* The bytes that cancelled requests have left. *)

LeftOf(C) == UNION {Rest(C[n]) : n \in {k \in DOMAIN C : C[k].error # "0"}}

LEMMA LeftIn ==
  ASSUME NEW C, NEW b
  PROVE  b \in LeftOf(C) <=> \E n \in DOMAIN C : C[n].error # "0" /\ b \in Rest(C[n])
BY DEF LeftOf

LEMMA LeftFinite ==
  ASSUME NEW C \in Seq(Reqs)
  PROVE  IsFiniteSet(LeftOf(C)) /\ Cardinality(LeftOf(C)) \in Nat
<1>1. LeftOf(C) \subseteq QueueBytes(C)
  BY LeftIn, QueueBytesIn
<1>2. IsFiniteSet(LeftOf(C))
  BY <1>1, QueueBytesFinite, FS_Subset
<1> QED
  BY <1>2, FS_CardinalityType

LEMMA LeftIs ==
  ASSUME NEW s, s.write_queue = <<>>
  PROVE  LeftOf(s.write_completed_queue) =
           UNION {{r.id} \X Bytes(r.bufs, r.write_index) : r \in
             ToSet(s.write_queue) \cup {r \in ToSet(s.write_completed_queue) : r.error # "0"}}
<1>a. PICK C : C = s.write_completed_queue
  OBVIOUS
<1>b. PICK U : U = ToSet(s.write_queue) \cup {r \in ToSet(s.write_completed_queue) : r.error # "0"}
  OBVIOUS
<1>1. \A r : r \in U <=> \E n \in DOMAIN C : r = C[n] /\ C[n].error # "0"
  BY <1>a, <1>b DEF ToSet
<1>2. UNION {{r.id} \X Bytes(r.bufs, r.write_index) : r \in U} = UNION {Rest(r) : r \in U}
  BY DEF Rest
<1>3. \A b : b \in UNION {Rest(r) : r \in U} <=> b \in LeftOf(C)
  BY <1>1, LeftIn
<1>4. UNION {Rest(r) : r \in U} = LeftOf(C)
  BY <1>3
<1> QED
  BY <1>2, <1>4, <1>a, <1>b

(* The first of the completed requests, when it has an id of its own. *)
LEMMA LeftFirst ==
  ASSUME NEW C \in Seq(Reqs), C # <<>>, \A n \in DOMAIN C : n > 1 => C[n].id # C[1].id
  PROVE  Cardinality(LeftOf(C)) =
           (IF C[1].error = "0" THEN 0 ELSE uv__write_req_size(C[1])) + Cardinality(LeftOf(Tail(C)))
<1>1. /\ DOMAIN C = 1..Len(C) /\ Len(C) \in Nat \ {0} /\ \A n \in DOMAIN C : C[n] \in Reqs
      /\ Tail(C) \in Seq(Reqs) /\ DOMAIN Tail(C) = 1..(Len(C) - 1)
      /\ \A n \in 1..(Len(C) - 1) : Tail(C)[n] = C[n + 1]
  BY EmptySeq
<1>2. \A b : b \in LeftOf(C) <=> (C[1].error # "0" /\ b \in Rest(C[1])) \/ b \in LeftOf(Tail(C))
  <2> TAKE b
  <2>1. ASSUME NEW n \in DOMAIN C, C[n].error # "0", b \in Rest(C[n])
        PROVE  (C[1].error # "0" /\ b \in Rest(C[1])) \/ b \in LeftOf(Tail(C))
    <3>1. CASE n = 1
      BY <2>1, <3>1
    <3>2. CASE n # 1
      <4>1. n - 1 \in DOMAIN Tail(C) /\ Tail(C)[n - 1] = C[n]
        BY <1>1, <3>2
      <4> QED
        BY <2>1, <4>1, LeftIn
    <3> QED
      BY <3>1, <3>2
  <2>2. ASSUME NEW n \in DOMAIN Tail(C), Tail(C)[n].error # "0", b \in Rest(Tail(C)[n])
        PROVE  b \in LeftOf(C)
    <3>1. n + 1 \in DOMAIN C /\ C[n + 1] = Tail(C)[n]
      BY <1>1
    <3> QED
      BY <2>2, <3>1, LeftIn
  <2>3. 1 \in DOMAIN C
    BY <1>1
  <2> QED
    BY <2>1, <2>2, <2>3, LeftIn
<1>3. IsFiniteSet(LeftOf(Tail(C))) /\ Cardinality(LeftOf(Tail(C))) \in Nat
  BY <1>1, LeftFinite
<1>4. CASE C[1].error = "0"
  <2>1. LeftOf(C) = LeftOf(Tail(C))
    BY <1>2, <1>4
  <2> QED
    BY <1>3, <1>4, <2>1
<1>5. CASE C[1].error # "0"
  <2>1. LeftOf(C) = Rest(C[1]) \cup LeftOf(Tail(C))
    BY <1>2, <1>5
  <2>2. /\ IsFiniteSet(Rest(C[1])) /\ Cardinality(Rest(C[1])) = uv__write_req_size(C[1])
        /\ uv__write_req_size(C[1]) \in Nat /\ \A b \in Rest(C[1]) : b[1] = C[1].id
    BY <1>1, RestIs
  <2>3. Rest(C[1]) \cap LeftOf(Tail(C)) = {}
    <3> SUFFICES ASSUME NEW b \in Rest(C[1]), b \in LeftOf(Tail(C)) PROVE FALSE
      OBVIOUS
    <3>1. PICK n \in DOMAIN Tail(C) : b \in Rest(Tail(C)[n])
      BY LeftIn
    <3>2. n + 1 \in DOMAIN C /\ n + 1 > 1 /\ C[n + 1] = Tail(C)[n] /\ C[n + 1] \in Reqs
      BY <1>1
    <3>3. b[1] = C[n + 1].id
      BY <3>1, <3>2, RestIs
    <3>4. b[1] = C[1].id
      BY <2>2
    <3> QED
      BY <3>2, <3>3, <3>4
  <2>4. Cardinality(Rest(C[1]) \cup LeftOf(Tail(C))) =
          Cardinality(Rest(C[1])) + Cardinality(LeftOf(Tail(C))) - Cardinality(Rest(C[1]) \cap LeftOf(Tail(C)))
    BY <1>3, <2>2, FS_Union
  <2>5. Cardinality(Rest(C[1]) \cap LeftOf(Tail(C))) = 0
    BY <2>3, FS_EmptySet
  <2>6. \A a, b \in Nat : a + b - 0 = a + b
    OBVIOUS
  <2>7. Cardinality(LeftOf(C)) = uv__write_req_size(C[1]) + Cardinality(LeftOf(Tail(C)))
    BY <1>3, <2>1, <2>2, <2>4, <2>5, <2>6
  <2> QED
    BY <1>5, <2>7
<1> QED
  BY <1>4, <1>5

----------------------------------------------------------------------------
(* The actions of JavaScript. *)

(* What a step of a stream that is not destroyed has to show. *)
LEMMA NotDestroyed ==
  ASSUME flags' # "UV_CLOSED", FrameInv', FiredGood',
         pc' \in {"js", "callbacks"}, frame' \in {"none", "uv__stream_io", "uv__stream_destroy"},
         phase' \in {"pending", "poll", "polled", "closing"}, flags' \in {"open", "UV_CLOSING"},
         submitted' \in Seq(Writes), fired' \in Seq([id : Ids, error : {"0", ECANCELED}]),
         flags' = "open" => Wakes(stream', frame', 0),
         Good(stream', submitted', FiredIds'), \A i \in DOMAIN fired' : fired'[i].error = "0"
  PROVE  IInv'
<1>1. stream' \in Streams /\ Len(submitted') =< MaxReqs
  BY DEF Good
<1>2. TypeOK'
  BY <1>1 DEF TypeOK, Writes
<1> QED
  BY <1>1, <1>2 DEF IInv

(* The invariant of an open stream, in the form the actions use. *)
LEMMA OpenFacts ==
  ASSUME IInv
  PROVE  /\ submitted \in Seq(Writes) /\ Len(submitted) \in Nat /\ DOMAIN submitted = 1..Len(submitted)
         /\ fired \in Seq([id : Ids, error : {"0", ECANCELED}]) /\ FiredIds \in SUBSET Nat
         /\ pc \in {"js", "callbacks"} /\ frame \in {"none", "uv__stream_io", "uv__stream_destroy"}
         /\ phase \in {"pending", "poll", "polled", "closing"}
         /\ flags \in {"open", "UV_CLOSING", "UV_CLOSED"} /\ stream \in Streams
         /\ FrameInv /\ FiredGood /\ Len(submitted) =< MaxReqs
         /\ flags = "open" => Wakes(stream, frame, 0)
         /\ flags # "UV_CLOSED" => /\ Good(stream, submitted, FiredIds)
                                   /\ \A i \in DOMAIN fired : fired[i].error = "0"
<1>1. TypeOK
  BY DEF IInv
<1>2. fired \in Seq([id : Ids, error : {"0", ECANCELED}]) /\ submitted \in Seq(Writes)
  BY <1>1 DEF TypeOK, Writes
<1>3. FiredIds \in SUBSET Nat
  <2>1. PICK S : S = [id : Ids, error : {"0", ECANCELED}]
    OBVIOUS
  <2>2. fired \in Seq(S)
    BY <1>2, <2>1
  <2>3. \A i \in DOMAIN fired : fired[i] \in S
    BY <2>2
  <2>4. \A x \in S : x.id \in Nat
    BY <2>1, WriteAssumption DEF Ids
  <2> QED
    BY <2>3, <2>4 DEF FiredIds
<1> QED
  BY <1>1, <1>2, <1>3 DEF IInv, TypeOK

(* A further write leaves the writes that have had their callbacks alone. *)
LEMMA FiredKept ==
  ASSUME submitted \in Seq(Writes), FiredGood, UNCHANGED fired,
         NEW x \in Writes, submitted' = Append(submitted, x)
  PROVE  FiredGood' /\ submitted' \in Seq(Writes) /\ FiredIds' = FiredIds
<1>1. /\ Len(submitted) \in Nat /\ DOMAIN submitted = 1..Len(submitted)
      /\ submitted' \in Seq(Writes) /\ DOMAIN submitted' = 1..(Len(submitted) + 1)
      /\ \A i \in 1..Len(submitted) : submitted'[i] = submitted[i]
  BY AppendProperties
<1>2. \A i \in 1..Len(submitted) : i \in 1..(Len(submitted) + 1)
  BY <1>1
<1> QED
  BY <1>1, <1>2 DEF FiredGood, FiredIds

LEMMA WriteStep ==
  ASSUME IInv, NEW len \in Lens, Write(len)
  PROVE  IInv'
<1>1. /\ submitted \in Seq(Writes) /\ FiredGood /\ FrameInv /\ stream \in Streams
      /\ Good(stream, submitted, FiredIds) /\ FiredIds \in SUBSET Nat /\ Wakes(stream, frame, 0)
      /\ flags = "open" /\ Len(submitted) < MaxReqs
      /\ \A i \in DOMAIN fired : fired[i].error = "0"
  BY OpenFacts DEF Write, CanWrite
<1>a. PICK r : r = Request(Len(submitted) + 1, <<len>>)
  OBVIOUS
<1>2. r.bufs = <<len>>
  BY <1>a DEF Request
<1>3. /\ stream' = WriteBuffer(stream, r)
      /\ submitted' = Append(submitted, [bufs |-> <<len>>, cb |-> ~TryWrites(stream, r)])
      /\ UNCHANGED <<pc, frame, phase, flags, fired>>
  BY <1>2, <1>a DEF Write, Submit
<1>4. Good(stream', submitted', FiredIds) /\ Wakes(stream', frame, 0)
  BY <1>1, <1>3, <1>a, WriteBufferGood
<1>5. [bufs |-> <<len>>, cb |-> ~TryWrites(stream, r)] \in Writes
  <2>1. (~TryWrites(stream, r)) \in BOOLEAN
    OBVIOUS
  <2> QED
    BY <2>1, OneBuf DEF Writes
<1>6. FiredGood' /\ submitted' \in Seq(Writes) /\ FiredIds' = FiredIds
  BY <1>1, <1>3, <1>5, FiredKept
<1>7. FrameInv'
  BY <1>1, <1>3 DEF FrameInv
<1> QED
  BY <1>1, <1>3, <1>4, <1>6, <1>7, OpenFacts, NotDestroyed

LEMMA WritevStep ==
  ASSUME IInv, NEW bufs \in Bufs, Writev(bufs)
  PROVE  IInv'
<1>1. /\ submitted \in Seq(Writes) /\ FiredGood /\ FrameInv /\ stream \in Streams
      /\ Good(stream, submitted, FiredIds) /\ FiredIds \in SUBSET Nat /\ Wakes(stream, frame, 0)
      /\ flags = "open" /\ Len(submitted) < MaxReqs
      /\ \A i \in DOMAIN fired : fired[i].error = "0"
  BY OpenFacts DEF Writev, CanWrite
<1>2. /\ stream' = uv_write2(stream, Request(Len(submitted) + 1, bufs))
      /\ submitted' = Append(submitted, [bufs |-> bufs, cb |-> TRUE])
      /\ UNCHANGED <<pc, frame, phase, flags, fired>>
  BY DEF Writev, Submit
<1>3. Good(stream', submitted', FiredIds) /\ Wakes(stream', frame, 0)
  BY <1>1, <1>2, Write2Good
<1>4. [bufs |-> bufs, cb |-> TRUE] \in Writes
  BY DEF Writes
<1>5. FiredGood' /\ submitted' \in Seq(Writes) /\ FiredIds' = FiredIds
  BY <1>1, <1>2, <1>4, FiredKept
<1>6. FrameInv'
  BY <1>1, <1>2 DEF FrameInv
<1> QED
  BY <1>1, <1>2, <1>3, <1>5, <1>6, OpenFacts, NotDestroyed

LEMMA CloseStep ==
  ASSUME IInv, uv_close
  PROVE  IInv'
<1>1. /\ submitted \in Seq(Writes) /\ FiredGood /\ FrameInv /\ stream \in Streams
      /\ Good(stream, submitted, FiredIds) /\ flags = "open" /\ pc = "js"
      /\ \A i \in DOMAIN fired : fired[i].error = "0"
  BY OpenFacts DEF uv_close
<1>2. /\ stream' = [stream EXCEPT !.pollout = FALSE, !.pending = FALSE] /\ flags' = "UV_CLOSING"
      /\ UNCHANGED <<pc, frame, phase, submitted, fired>>
  BY DEF uv_close
<1>3. /\ stream' \in Streams /\ stream'.write_queue = stream.write_queue
      /\ stream'.write_completed_queue = stream.write_completed_queue
      /\ stream'.write_queue_size = stream.write_queue_size /\ stream'.sent = stream.sent
      /\ stream'.pollout = FALSE /\ stream'.pending = FALSE
  BY <1>1, <1>2 DEF Streams
<1>4. Good(stream', submitted, FiredIds)
  BY <1>1, <1>3, GoodSame
<1>5. FrameInv'
  BY <1>1, <1>2, <1>3 DEF FrameInv
<1>6. FiredGood' /\ FiredIds' = FiredIds
  BY <1>1, <1>2 DEF FiredGood, FiredIds
<1> QED
  BY <1>1, <1>2, <1>4, <1>5, <1>6, OpenFacts, NotDestroyed

----------------------------------------------------------------------------
(* The actions of uv_run. *)

(* uv__stream_io, from a state s with the watcher of several requests      *)
(* active.                                                                 *)
LEMMA StreamIo ==
  ASSUME IInv, flags = "open", NEW s, Good(s, submitted, FiredIds), Wakes(s, "uv__stream_io", 1),
         uv__stream_io(s), phase' \in {"pending", "poll", "polled", "closing"}
  PROVE  IInv'
<1>1. /\ submitted \in Seq(Writes) /\ FiredGood /\ FiredIds \in SUBSET Nat
      /\ \A i \in DOMAIN fired : fired[i].error = "0"
  BY OpenFacts
<1>2. /\ stream' = uv__write(s) /\ pc' = "callbacks" /\ frame' = "uv__stream_io"
      /\ UNCHANGED <<flags, submitted, fired>>
  BY DEF uv__stream_io
<1>3. Good(stream', submitted, FiredIds) /\ Wakes(stream', "uv__stream_io", 0)
  BY <1>1, <1>2, WriteGood DEF Writes
<1>4. FrameInv'
  BY <1>2 DEF FrameInv
<1>5. FiredGood' /\ FiredIds' = FiredIds
  BY <1>1, <1>2 DEF FiredGood, FiredIds
<1> QED
  BY <1>1, <1>2, <1>3, <1>4, <1>5, OpenFacts, NotDestroyed

LEMMA PendingStep ==
  ASSUME IInv, uv__run_pending
  PROVE  IInv'
<1>1. stream.pending /\ flags = "open" /\ Good(stream, submitted, FiredIds) /\ Wakes(stream, frame, 0)
      /\ stream \in Streams /\ submitted \in Seq(Writes)
  BY OpenFacts DEF uv__run_pending, FrameInv
<1>a. PICK s : s = [stream EXCEPT !.pending = FALSE]
  OBVIOUS
<1>2. uv__stream_io(s) /\ phase' \in {"pending", "poll", "polled", "closing"}
  BY <1>a, OpenFacts DEF uv__run_pending
<1>3. /\ s \in Streams /\ s.write_queue = stream.write_queue
      /\ s.write_completed_queue = stream.write_completed_queue
      /\ s.write_queue_size = stream.write_queue_size /\ s.sent = stream.sent
      /\ s.pollout = stream.pollout
  BY <1>1, <1>a DEF Streams
<1>4. Good(s, submitted, FiredIds)
  BY <1>1, <1>3, GoodSame
<1>5. Len(stream.write_queue) \in Nat
  BY <1>1, GoneIs
<1>6. Wakes(s, "uv__stream_io", 1)
  BY <1>1, <1>3, <1>5 DEF Wakes
<1> QED
  BY <1>1, <1>2, <1>4, <1>6, StreamIo

LEMMA PollStep ==
  ASSUME IInv, uv__io_poll
  PROVE  IInv'
<1>1. stream.pollout /\ flags = "open" /\ Good(stream, submitted, FiredIds) /\ Wakes(stream, frame, 0)
  BY OpenFacts DEF uv__io_poll, FrameInv
<1>2. uv__stream_io(stream) /\ phase' \in {"pending", "poll", "polled", "closing"}
  BY DEF uv__io_poll
<1>3. Wakes(stream, "uv__stream_io", 1)
  BY <1>1 DEF Wakes
<1> QED
  BY <1>1, <1>2, <1>3, StreamIo

(* A step that changes where the thread is, but nothing of the stream. *)
LEMMA ThreadStep ==
  ASSUME IInv, UNCHANGED <<flags, stream, submitted, fired>>, FrameInv',
         pc' \in {"js", "callbacks"}, frame' \in {"none", "uv__stream_io", "uv__stream_destroy"},
         phase' \in {"pending", "poll", "polled", "closing"},
         flags = "open" => Wakes(stream, frame', 0)
  PROVE  IInv'
<1>1. TypeOK'
  BY DEF IInv, TypeOK
<1>2. FiredGood' /\ FiredIds' = FiredIds
  BY DEF IInv, FiredGood, FiredIds
<1>3. ClosedGood => ClosedGood'
  <2>1. \A id : DataOf(id)' = DataOf(id)
    BY DEF DataOf
  <2>2. \A b : Written(b)' <=> Written(b)
    BY DEF Written
  <2> QED
    BY <1>2, <2>1, <2>2 DEF ClosedGood
<1>4. (InOrder => InOrder') /\ (CallbacksTruthful => CallbacksTruthful')
  BY DEF InOrder, CallbacksTruthful, DataOf, Written
<1>5. SizeExact => SizeExact'
  BY DEF SizeExact, Unfinished
<1> QED
  BY <1>1, <1>2, <1>3, <1>4, <1>5 DEF IInv

LEMMA PhaseStep ==
  ASSUME IInv, NextPhase
  PROVE  IInv'
<1>1. UNCHANGED <<pc, frame, flags, stream, submitted, fired>> /\ phase' \in {"pending", "poll", "polled", "closing"}
  BY DEF NextPhase
<1>2. FrameInv'
  BY <1>1, OpenFacts DEF FrameInv
<1> QED
  BY <1>1, <1>2, OpenFacts, ThreadStep

LEMMA ReturnStep ==
  ASSUME IInv, CallbackReturns
  PROVE  IInv'
<1>1. UNCHANGED <<frame, phase, flags, stream, submitted, fired>> /\ pc' = "callbacks" /\ frame # "none"
  BY DEF CallbackReturns
<1>2. FrameInv'
  BY <1>1, OpenFacts DEF FrameInv
<1> QED
  BY <1>1, <1>2, OpenFacts, ThreadStep

(* What uv__write_callbacks does with the first request r of the completed *)
(* ones C: t is the stream without it.                                     *)
Popped(C, r, t) ==
  /\ C = stream.write_completed_queue /\ C \in Seq(Reqs) /\ C # <<>> /\ r = C[1] /\ r \in Reqs
  /\ Len(C) \in Nat \ {0} /\ DOMAIN C = 1..Len(C) /\ 1 \in DOMAIN C
  /\ t = Tail(C) /\ t \in Seq(Reqs) /\ DOMAIN t = 1..(Len(C) - 1)
  /\ \A n \in DOMAIN t : n + 1 \in DOMAIN C /\ t[n] = C[n + 1]
  /\ \A n \in DOMAIN C : n = 1 \/ (n - 1 \in DOMAIN t /\ t[n - 1] = C[n])

LEMMA PoppedIs ==
  ASSUME stream \in Streams, stream.write_completed_queue # <<>>,
         NEW C, C = stream.write_completed_queue, NEW r, r = C[1], NEW t, t = Tail(C)
  PROVE  Popped(C, r, t)
<1>1. C \in Seq(Reqs) /\ Len(C) \in Nat \ {0}
  BY StreamType, EmptySeq
<1>2. /\ DOMAIN C = 1..Len(C) /\ 1 \in DOMAIN C /\ r \in Reqs /\ t \in Seq(Reqs)
      /\ DOMAIN t = 1..(Len(C) - 1) /\ \A n \in 1..(Len(C) - 1) : t[n] = C[n + 1]
  BY <1>1, EmptySeq
<1>3. \A n \in DOMAIN t : n + 1 \in DOMAIN C /\ t[n] = C[n + 1]
  BY <1>1, <1>2
<1>4. \A n \in DOMAIN C : n = 1 \/ (n - 1 \in DOMAIN t /\ t[n - 1] = C[n])
  <2> SUFFICES ASSUME NEW n \in DOMAIN C, n # 1 PROVE n - 1 \in DOMAIN t /\ t[n - 1] = C[n]
    OBVIOUS
  <2>1. n - 1 \in 1..(Len(C) - 1) /\ (n - 1) + 1 = n
    BY <1>1, <1>2
  <2> QED
    BY <1>2, <2>1
<1> QED
  BY <1>1, <1>2, <1>3, <1>4 DEF Popped

(* The callback that is made, as the last of fired. *)
LEMMA FiredAppend ==
  ASSUME IInv, NEW r \in Reqs, fired' = Append(fired, [id |-> r.id, error |-> r.error])
  PROVE  /\ fired' \in Seq([id : Ids, error : {"0", ECANCELED}])
         /\ DOMAIN fired = 1..Len(fired) /\ Len(fired) \in Nat
         /\ DOMAIN fired' = 1..(Len(fired) + 1)
         /\ fired'[Len(fired) + 1].id = r.id /\ fired'[Len(fired) + 1].error = r.error
         /\ \A i \in 1..Len(fired) : fired'[i] = fired[i]
         /\ \A i \in DOMAIN fired' : i = Len(fired) + 1 \/ i \in DOMAIN fired
         /\ FiredIds' = FiredIds \cup {r.id}
<1>1. PICK S : S = [id : Ids, error : {"0", ECANCELED}]
  OBVIOUS
<1>2. PICK x : x = [id |-> r.id, error |-> r.error]
  OBVIOUS
<1>3. x \in S /\ x.id = r.id /\ x.error = r.error
  BY <1>1, <1>2, ReqType
<1>4. fired \in Seq(S)
  BY <1>1, OpenFacts
<1>5. /\ fired' \in Seq(S) /\ DOMAIN fired = 1..Len(fired) /\ Len(fired) \in Nat
      /\ DOMAIN fired' = 1..(Len(fired) + 1) /\ fired'[Len(fired) + 1] = x
      /\ \A i \in 1..Len(fired) : fired'[i] = fired[i]
  BY <1>2, <1>3, <1>4, AppendProperties
<1>6. \A i \in DOMAIN fired' : i = Len(fired) + 1 \/ i \in DOMAIN fired
  BY <1>5
<1>7. Len(fired) + 1 \in DOMAIN fired' /\ \A i \in DOMAIN fired : i \in DOMAIN fired'
  BY <1>5
<1>8. FiredIds' = FiredIds \cup {r.id}
  BY <1>3, <1>5, <1>6, <1>7 DEF FiredIds
<1> QED
  BY <1>1, <1>3, <1>5, <1>6, <1>8

(* Callbacks stay in order when the next one is of a later write. *)
LEMMA FiredOrder ==
  ASSUME IInv, NEW r \in Reqs, fired' = Append(fired, [id |-> r.id, error |-> r.error]),
         UNCHANGED submitted, r.id \in DOMAIN submitted, submitted[r.id].cb,
         \A i \in DOMAIN fired : fired[i].id < r.id
  PROVE  FiredGood'
<1>1. /\ DOMAIN fired = 1..Len(fired) /\ Len(fired) \in Nat /\ DOMAIN fired' = 1..(Len(fired) + 1)
      /\ fired'[Len(fired) + 1].id = r.id /\ \A i \in 1..Len(fired) : fired'[i] = fired[i]
      /\ \A i \in DOMAIN fired' : i = Len(fired) + 1 \/ i \in DOMAIN fired
  BY FiredAppend
<1>2. /\ \A i, j \in DOMAIN fired : i < j => fired[i].id < fired[j].id
      /\ \A i \in DOMAIN fired : fired[i].id \in DOMAIN submitted /\ submitted[fired[i].id].cb
  BY OpenFacts DEF FiredGood
<1>3. ASSUME NEW i \in DOMAIN fired', NEW j \in DOMAIN fired', i < j
      PROVE  fired'[i].id < fired'[j].id
  <2>1. i \in DOMAIN fired
    BY <1>1, <1>3
  <2>2. CASE j = Len(fired) + 1
    BY <1>1, <2>1, <2>2
  <2>3. CASE j \in DOMAIN fired
    BY <1>1, <1>2, <1>3, <2>1, <2>3
  <2> QED
    BY <1>1, <2>2, <2>3
<1>4. \A i \in DOMAIN fired' : fired'[i].id \in DOMAIN submitted /\ submitted[fired'[i].id].cb
  BY <1>1, <1>2
<1> QED
  BY <1>3, <1>4 DEF FiredGood

LEMMA PopGood ==
  ASSUME stream \in Streams, submitted \in Seq(Writes), NEW F \in SUBSET Nat,
         Good(stream, submitted, F), NEW C, NEW r, NEW t, Popped(C, r, t),
         NEW w \in Streams, w.write_queue = stream.write_queue, w.write_completed_queue = t,
         w.write_queue_size = stream.write_queue_size, w.sent = stream.sent
  PROVE  Good(w, submitted, F \cup {r.id})
<1>a. PICK g : g = Gone(stream, submitted)
  OBVIOUS
<1>1. /\ \A j \in DOMAIN C : C[j].error = "0" /\ C[j].id =< g /\ submitted[C[j].id].cb
      /\ \A i, j \in DOMAIN C : i < j => C[i].id < C[j].id
      /\ \A f \in F : f =< g /\ \A j \in DOMAIN C : f < C[j].id
      /\ \A id \in 1..g : submitted[id].cb => id \in F \/ \E j \in DOMAIN C : C[j].id = id
  BY <1>a DEF Good, DoneGood, Popped
<1>2. Gone(w, submitted) = g
  BY <1>a DEF Gone
<1>3. /\ 1 \in DOMAIN C /\ r = C[1] /\ DOMAIN t \subseteq Nat \ {0}
      /\ \A n \in DOMAIN t : n + 1 \in DOMAIN C /\ t[n] = C[n + 1]
      /\ \A n \in DOMAIN C : n = 1 \/ (n - 1 \in DOMAIN t /\ t[n - 1] = C[n])
  BY DEF Popped
<1>4. \A j \in DOMAIN t : t[j].error = "0" /\ t[j].id =< g /\ submitted[t[j].id].cb
  BY <1>1, <1>3
<1>5. \A i, j \in DOMAIN t : i < j => t[i].id < t[j].id
  BY <1>1, <1>3
<1>6. \A f \in F \cup {r.id} : f =< g /\ \A j \in DOMAIN t : f < t[j].id
  <2>1. \A j \in DOMAIN t : 1 < j + 1
    BY <1>3
  <2>2. r.id =< g /\ \A j \in DOMAIN t : r.id < t[j].id
    BY <1>1, <1>3, <2>1
  <2>3. \A f \in F : f =< g /\ \A j \in DOMAIN t : f < t[j].id
    BY <1>1, <1>3
  <2> QED
    BY <2>2, <2>3
<1>7. \A id \in 1..g : submitted[id].cb => id \in F \cup {r.id} \/ \E j \in DOMAIN t : t[j].id = id
  BY <1>1, <1>3
<1>8. DoneGood(w, submitted, F \cup {r.id})
  <2>1. PICK G : G = F \cup {r.id}
    OBVIOUS
  <2> QED
    BY <1>2, <1>4, <1>5, <1>6, <1>7, <2>1 DEF DoneGood
<1>9. QueueGood(w, submitted)
  BY <1>2, <1>a DEF Good, QueueGood
<1>10. \A id, i : (Past(w, submitted, id, i) <=> Past(stream, submitted, id, i))
                  /\ (Went(w, id, i) <=> Went(stream, id, i))
  BY <1>2, <1>a DEF Past, Went
<1>11. SentGood(stream, submitted)
  BY DEF Good
<1>12. SentGood(w, submitted)
  BY <1>10, <1>11 DEF SentGood
<1> QED
  BY <1>8, <1>9, <1>12 DEF Good, SizeGood

LEMMA CallbackOpen ==
  ASSUME IInv, WriteCallback, flags # "UV_CLOSED"
  PROVE  IInv'
<1>1. /\ submitted \in Seq(Writes) /\ FiredGood /\ FrameInv /\ stream \in Streams
      /\ Good(stream, submitted, FiredIds) /\ FiredIds \in SUBSET Nat
      /\ \A i \in DOMAIN fired : fired[i].error = "0"
      /\ flags \in {"open", "UV_CLOSING"}
      /\ flags = "open" => Wakes(stream, frame, 0)
  BY OpenFacts
<1>2. pc = "callbacks" /\ stream.write_completed_queue # <<>> /\ pc' = "js"
      /\ UNCHANGED <<frame, phase, flags, submitted>>
  BY DEF WriteCallback
<1>3. frame # "none"
  BY <1>1, <1>2 DEF FrameInv
<1>a. PICK C, r, t : C = stream.write_completed_queue /\ r = C[1] /\ t = Tail(C)
  OBVIOUS
<1>4. Popped(C, r, t)
  BY <1>1, <1>2, <1>a, PoppedIs
<1>5. /\ r \in Reqs /\ 1 \in DOMAIN C /\ Head(C) = r /\ t \in Seq(Reqs)
  BY <1>4 DEF Popped
<1>6. /\ r.error = "0" /\ submitted[r.id].cb /\ r.id =< Gone(stream, submitted)
      /\ \A f \in FiredIds : f < r.id
  BY <1>1, <1>5, <1>a DEF Good, DoneGood
<1>7. /\ stream' = [stream EXCEPT !.write_completed_queue = t,
                                  !.write_queue_size = stream.write_queue_size]
      /\ fired' = Append(fired, [id |-> r.id, error |-> r.error])
  BY <1>5, <1>6, <1>a DEF WriteCallback
<1>8. /\ stream' \in Streams /\ stream'.write_queue = stream.write_queue
      /\ stream'.write_completed_queue = t /\ stream'.pollout = stream.pollout
      /\ stream'.write_queue_size = stream.write_queue_size /\ stream'.sent = stream.sent
      /\ stream'.pending = stream.pending
  BY <1>1, <1>5, <1>7 DEF Streams
<1>9. Good(stream', submitted, FiredIds \cup {r.id})
  BY <1>1, <1>4, <1>8, PopGood
<1>10. r.id \in DOMAIN submitted
  <2>1. /\ Gone(stream, submitted) \in Nat /\ Len(stream.write_queue) \in Nat
        /\ Gone(stream, submitted) + Len(stream.write_queue) = Len(submitted)
        /\ DOMAIN submitted = 1..Len(submitted) /\ Len(submitted) \in Nat
    BY <1>1, GoneIs
  <2>2. r.id \in Nat /\ r.id > 0
    BY <1>5, ReqType DEF Ids
  <2> QED
    BY <1>6, <2>1, <2>2
<1>11. \A i \in DOMAIN fired : fired[i].id < r.id
  BY <1>6 DEF FiredIds
<1>12. FiredGood'
  BY <1>2, <1>5, <1>6, <1>7, <1>10, <1>11, FiredOrder
<1>13. /\ fired' \in Seq([id : Ids, error : {"0", ECANCELED}]) /\ FiredIds' = FiredIds \cup {r.id}
       /\ \A i \in DOMAIN fired' : fired'[i].error = "0"
  <2>1. /\ fired' \in Seq([id : Ids, error : {"0", ECANCELED}]) /\ FiredIds' = FiredIds \cup {r.id}
        /\ DOMAIN fired = 1..Len(fired) /\ fired'[Len(fired) + 1].error = r.error
        /\ \A i \in 1..Len(fired) : fired'[i] = fired[i]
        /\ \A i \in DOMAIN fired' : i = Len(fired) + 1 \/ i \in DOMAIN fired
    BY <1>5, <1>7, FiredAppend
  <2> QED
    BY <1>1, <1>6, <2>1
<1>14. FrameInv'
  BY <1>1, <1>2, <1>3, <1>8 DEF FrameInv
<1>15. flags' = "open" => Wakes(stream', frame', 0)
  BY <1>1, <1>2, <1>3, <1>8 DEF Wakes
<1>16. Good(stream', submitted', FiredIds') /\ submitted' \in Seq(Writes)
  BY <1>1, <1>2, <1>9, <1>13
<1>17. /\ frame' \in {"none", "uv__stream_io", "uv__stream_destroy"}
       /\ phase' \in {"pending", "poll", "polled", "closing"} /\ pc' \in {"js", "callbacks"}
       /\ flags' \in {"open", "UV_CLOSING"} /\ flags' # "UV_CLOSED"
  BY <1>1, <1>2, OpenFacts
<1> QED
  BY <1>12, <1>13, <1>14, <1>15, <1>16, <1>17, NotDestroyed

(* What a step of a destroyed stream has to show: nothing is written and   *)
(* no more is sent.                                                        *)
LEMMA SentKept ==
  ASSUME UNCHANGED submitted, stream'.sent = stream.sent
  PROVE  /\ \A id : DataOf(id)' = DataOf(id)
         /\ \A b : Written(b)' <=> Written(b)
         /\ InOrder => InOrder'
<1>1. \A id : DataOf(id)' = DataOf(id)
  BY DEF DataOf
<1>2. \A b : Written(b)' <=> Written(b)
  BY DEF Written
<1>3. InOrder => InOrder'
  BY <1>1, <1>2 DEF InOrder
<1> QED
  BY <1>1, <1>2, <1>3

(* The request r that is about to be called back tells the truth. *)
Truthful(r) ==
  /\ submitted[r.id].cb
  /\ r.error = "0" => \A b \in DataOf(r.id) : Written(b)
  /\ r.error = ECANCELED /\ DataOf(r.id) # {} => \E b \in DataOf(r.id) : ~Written(b)

LEMMA TruthfulAppend ==
  ASSUME IInv, CallbacksTruthful, NEW r \in Reqs, Truthful(r), FiredGood',
         fired' = Append(fired, [id |-> r.id, error |-> r.error]),
         UNCHANGED submitted, stream'.sent = stream.sent
  PROVE  CallbacksTruthful'
<1>1. /\ DOMAIN fired = 1..Len(fired) /\ fired'[Len(fired) + 1].id = r.id
      /\ fired'[Len(fired) + 1].error = r.error
      /\ \A i \in 1..Len(fired) : fired'[i] = fired[i]
      /\ \A i \in DOMAIN fired' : i = Len(fired) + 1 \/ i \in DOMAIN fired
  BY FiredAppend
<1>3. ASSUME NEW i \in DOMAIN fired', NEW id, id = fired'[i].id, NEW e, e = fired'[i].error
      PROVE  /\ submitted[id].cb
             /\ e = "0" => \A b \in DataOf(id) : Written(b)
             /\ e = ECANCELED /\ DataOf(id) # {} => \E b \in DataOf(id) : ~Written(b)
  <2>1. CASE i = Len(fired) + 1
    <3>1. id = r.id /\ e = r.error
      BY <1>1, <1>3, <2>1
    <3> QED
      BY <3>1 DEF Truthful
  <2>2. CASE i \in DOMAIN fired
    <3>1. id = fired[i].id /\ e = fired[i].error
      BY <1>1, <1>3, <2>2
    <3> QED
      BY <2>2, <3>1 DEF CallbacksTruthful
  <2> QED
    BY <1>1, <2>1, <2>2
<1>4. \A i, j \in DOMAIN fired' : i < j => fired'[i].id < fired'[j].id
  BY DEF FiredGood
<1>5. \A i \in DOMAIN fired' :
        /\ submitted[fired'[i].id].cb
        /\ fired'[i].error = "0" => \A b \in DataOf(fired'[i].id) : Written(b)
        /\ fired'[i].error = ECANCELED /\ DataOf(fired'[i].id) # {} =>
             \E b \in DataOf(fired'[i].id) : ~Written(b)
  BY <1>3
<1> QED
  BY <1>4, <1>5 DEF CallbacksTruthful, DataOf, Written

(* ClosedGood with its parts named. *)
LEMMA ClosedFacts ==
  ASSUME ClosedGood, NEW C, C = stream.write_completed_queue
  PROVE  /\ stream.write_queue = <<>>
         /\ \A j \in DOMAIN C :
              /\ C[j].id \in DOMAIN submitted /\ submitted[C[j].id].cb
              /\ C[j].error = "0" => \A b \in DataOf(C[j].id) : Written(b)
              /\ C[j].error = ECANCELED =>
                   \A b \in DataOf(C[j].id) : (b[2] >= C[j].write_index => ~Written(b))
              /\ C[j].error = ECANCELED /\ C[j].write_index > 1 =>
                   <<C[j].id, C[j].write_index>> \in DataOf(C[j].id)
         /\ \A i, j \in DOMAIN C : i < j => C[i].id < C[j].id
         /\ \A i \in DOMAIN fired, j \in DOMAIN C : fired[i].id < C[j].id
         /\ \A id \in DOMAIN submitted : submitted[id].cb =>
              id \in FiredIds \/ \E j \in DOMAIN C : C[j].id = id
BY DEF ClosedGood

LEMMA ClosedTruthful ==
  ASSUME submitted \in Seq(Writes), ClosedGood, stream \in Streams,
         NEW j \in DOMAIN stream.write_completed_queue,
         NEW r, r = stream.write_completed_queue[j]
  PROVE  Truthful(r)
<1>1. /\ r.id \in DOMAIN submitted /\ submitted[r.id].cb
      /\ r.error = "0" => \A b \in DataOf(r.id) : Written(b)
      /\ r.error = ECANCELED => \A b \in DataOf(r.id) : (b[2] >= r.write_index => ~Written(b))
      /\ r.error = ECANCELED /\ r.write_index > 1 => <<r.id, r.write_index>> \in DataOf(r.id)
  BY ClosedFacts
<1>2. r \in Reqs
  BY StreamType, ElementOfSeq
<1>3. r.write_index \in Nat /\ r.write_index >= 1
  BY <1>2, ReqType
<1>4. ASSUME r.error = ECANCELED, NEW b \in DataOf(r.id) PROVE \E c \in DataOf(r.id) : ~Written(c)
  <2>1. CASE r.write_index > 1
    <3>1. PICK c : c = <<r.id, r.write_index>>
      OBVIOUS
    <3>2. c \in DataOf(r.id) /\ c[2] >= r.write_index
      BY <1>1, <1>3, <1>4, <2>1, <3>1
    <3> QED
      BY <1>1, <1>4, <3>2
  <2>2. CASE r.write_index = 1
    <3>1. PICK i : b = <<r.id, i>> /\ IsData(submitted, r.id, i)
      BY <1>1, DataOfIs
    <3>2. i \in Nat /\ i > 0
      BY <3>1, SubType
    <3>3. b[2] >= r.write_index
      BY <2>2, <3>1, <3>2
    <3> QED
      BY <1>1, <1>4, <3>3
  <2> QED
    BY <1>3, <2>1, <2>2
<1> QED
  BY <1>1, <1>4 DEF Truthful

LEMMA CallbackClosed ==
  ASSUME IInv, WriteCallback, flags = "UV_CLOSED"
  PROVE  IInv'
<1>1. /\ submitted \in Seq(Writes) /\ FiredGood /\ FrameInv /\ stream \in Streams /\ Len(submitted) =< MaxReqs
      /\ ClosedGood /\ InOrder /\ CallbacksTruthful /\ SizeExact
  BY OpenFacts DEF IInv
<1>2. pc = "callbacks" /\ stream.write_completed_queue # <<>> /\ pc' = "js"
      /\ UNCHANGED <<frame, phase, flags, submitted>>
  BY DEF WriteCallback
<1>3. frame # "none"
  BY <1>1, <1>2 DEF FrameInv
<1>a. PICK C, r, t : C = stream.write_completed_queue /\ r = C[1] /\ t = Tail(C)
  OBVIOUS
<1>4. Popped(C, r, t)
  BY <1>1, <1>2, <1>a, PoppedIs
<1>5. /\ r \in Reqs /\ 1 \in DOMAIN C /\ Head(C) = r /\ t \in Seq(Reqs) /\ C \in Seq(Reqs) /\ C # <<>>
      /\ DOMAIN t \subseteq Nat \ {0}
      /\ \A n \in DOMAIN t : n + 1 \in DOMAIN C /\ t[n] = C[n + 1]
      /\ \A n \in DOMAIN C : n = 1 \/ (n - 1 \in DOMAIN t /\ t[n - 1] = C[n])
  BY <1>4 DEF Popped
<1>6. /\ stream.write_queue = <<>>
      /\ \A j \in DOMAIN C :
           /\ C[j].id \in DOMAIN submitted /\ submitted[C[j].id].cb
           /\ C[j].error = "0" => \A b \in DataOf(C[j].id) : Written(b)
           /\ C[j].error = ECANCELED =>
                \A b \in DataOf(C[j].id) : (b[2] >= C[j].write_index => ~Written(b))
           /\ C[j].error = ECANCELED /\ C[j].write_index > 1 =>
                <<C[j].id, C[j].write_index>> \in DataOf(C[j].id)
      /\ \A i, j \in DOMAIN C : i < j => C[i].id < C[j].id
      /\ \A i \in DOMAIN fired, j \in DOMAIN C : fired[i].id < C[j].id
      /\ \A id \in DOMAIN submitted : submitted[id].cb =>
           id \in FiredIds \/ \E j \in DOMAIN C : C[j].id = id
  BY <1>1, <1>a, ClosedFacts
<1>b. PICK m : m = IF r.error = "0" THEN stream.write_queue_size
                   ELSE stream.write_queue_size - uv__write_req_size(r)
  OBVIOUS
<1>7. /\ stream' = [stream EXCEPT !.write_completed_queue = t, !.write_queue_size = m]
      /\ fired' = Append(fired, [id |-> r.id, error |-> r.error])
  BY <1>5, <1>a, <1>b DEF WriteCallback
<1>8. \A x \in Reqs : x.id \in Nat
  BY ReqType
<1>9. m = Cardinality(LeftOf(t)) /\ m \in Nat
  <2>1. \A n \in DOMAIN C : n > 1 => C[n].id # C[1].id
    <3>1. \A n \in DOMAIN C : C[n].id \in Nat
      BY <1>5, <1>8, ElementOfSeq
    <3>2. \A n \in DOMAIN C : n > 1 => C[1].id < C[n].id
      BY <1>5, <1>6
    <3> QED
      BY <1>5, <3>1, <3>2
  <2>2. Cardinality(LeftOf(C)) =
          (IF r.error = "0" THEN 0 ELSE uv__write_req_size(r)) + Cardinality(LeftOf(t))
    BY <1>5, <1>a, <2>1, LeftFirst
  <2>3. stream.write_queue_size = Cardinality(LeftOf(C))
    <3>1. LeftOf(C) = UNION {{x.id} \X Bytes(x.bufs, x.write_index) : x \in Unfinished}
      BY <1>6, <1>a, LeftIs DEF Unfinished
    <3> QED
      BY <1>1, <3>1 DEF SizeExact
  <2>4. Cardinality(LeftOf(t)) \in Nat /\ uv__write_req_size(r) \in Nat
    BY <1>5, LeftFinite, RestIs
  <2> QED
    BY <1>b, <2>2, <2>3, <2>4
<1>10. /\ stream' \in Streams /\ stream'.write_queue = stream.write_queue
       /\ stream'.write_completed_queue = t /\ stream'.pollout = stream.pollout
       /\ stream'.write_queue_size = m /\ stream'.sent = stream.sent
       /\ stream'.pending = stream.pending
  BY <1>1, <1>5, <1>7, <1>9 DEF Streams
<1>11. SizeExact'
  <2>a. PICK w : w = stream'
    OBVIOUS
  <2>1. w.write_queue = <<>> /\ w.write_queue_size = Cardinality(LeftOf(w.write_completed_queue))
    BY <1>6, <1>9, <1>10, <2>a
  <2>2. w.write_queue_size = Cardinality(
          UNION {{x.id} \X Bytes(x.bufs, x.write_index) : x \in
            ToSet(w.write_queue) \cup {x \in ToSet(w.write_completed_queue) : x.error # "0"}})
    BY <2>1, LeftIs
  <2> QED
    BY <2>a, <2>2 DEF SizeExact, Unfinished
<1>12. FiredGood'
  BY <1>2, <1>5, <1>6, <1>7, <1>a, FiredOrder
<1>13. Truthful(r)
  BY <1>1, <1>5, <1>a, ClosedTruthful
<1>14. CallbacksTruthful'
  BY <1>1, <1>2, <1>5, <1>7, <1>10, <1>12, <1>13, TruthfulAppend
<1>15. /\ \A id : DataOf(id)' = DataOf(id)
       /\ \A b : Written(b)' <=> Written(b)
       /\ InOrder'
  BY <1>1, <1>2, <1>10, SentKept
<1>16. ClosedGood'
  <2>1. ASSUME NEW j \in DOMAIN t
        PROVE  /\ t[j].id \in DOMAIN submitted /\ submitted[t[j].id].cb
               /\ t[j].error = "0" => \A b \in DataOf(t[j].id) : Written(b)
               /\ t[j].error = ECANCELED =>
                    \A b \in DataOf(t[j].id) : (b[2] >= t[j].write_index => ~Written(b))
               /\ t[j].error = ECANCELED /\ t[j].write_index > 1 =>
                    <<t[j].id, t[j].write_index>> \in DataOf(t[j].id)
    BY <1>5, <1>6
  <2>2. \A i, j \in DOMAIN t : i < j => t[i].id < t[j].id
    <3> SUFFICES ASSUME NEW i \in DOMAIN t, NEW j \in DOMAIN t, i < j PROVE t[i].id < t[j].id
      OBVIOUS
    <3>1. i + 1 < j + 1 /\ i + 1 \in DOMAIN C /\ j + 1 \in DOMAIN C /\ t[i] = C[i + 1] /\ t[j] = C[j + 1]
      BY <1>5
    <3> QED
      BY <1>6, <3>1
  <2>3. /\ DOMAIN fired = 1..Len(fired) /\ fired'[Len(fired) + 1].id = r.id
        /\ \A i \in 1..Len(fired) : fired'[i] = fired[i]
        /\ \A i \in DOMAIN fired' : i = Len(fired) + 1 \/ i \in DOMAIN fired
        /\ FiredIds' = FiredIds \cup {r.id}
    BY <1>5, <1>7, FiredAppend
  <2>4. \A i \in DOMAIN fired', j \in DOMAIN t : fired'[i].id < t[j].id
    <3> SUFFICES ASSUME NEW i \in DOMAIN fired', NEW j \in DOMAIN t PROVE fired'[i].id < t[j].id
      OBVIOUS
    <3>1. j + 1 \in DOMAIN C /\ t[j] = C[j + 1] /\ 1 < j + 1
      BY <1>5
    <3>2. CASE i = Len(fired) + 1
      BY <1>5, <1>6, <1>a, <2>3, <3>1, <3>2
    <3>3. CASE i \in DOMAIN fired
      BY <1>6, <2>3, <3>1, <3>3
    <3> QED
      BY <2>3, <3>2, <3>3
  <2>5. \A id \in DOMAIN submitted : submitted[id].cb => id \in FiredIds' \/ \E j \in DOMAIN t : t[j].id = id
    <3> SUFFICES ASSUME NEW id \in DOMAIN submitted, submitted[id].cb, id \notin FiredIds, id # r.id
                 PROVE  \E j \in DOMAIN t : t[j].id = id
      BY <2>3
    <3>1. PICK n \in DOMAIN C : C[n].id = id
      BY <1>6
    <3>2. n # 1
      BY <1>a, <3>1
    <3>3. n - 1 \in DOMAIN t /\ t[n - 1] = C[n]
      BY <1>5, <3>2
    <3> QED
      BY <3>1, <3>3
  <2>6. stream'.write_queue = <<>> /\ stream'.write_queue_size \in Nat
    BY <1>6, <1>9, <1>10
  <2> QED
    BY <1>2, <1>10, <1>15, <2>1, <2>2, <2>4, <2>5, <2>6 DEF ClosedGood
<1>17. TypeOK'
  <2>1. fired' \in Seq([id : Ids, error : {"0", ECANCELED}])
    BY <1>5, <1>7, FiredAppend
  <2> QED
    BY <1>1, <1>2, <1>10, <2>1 DEF IInv, TypeOK
<1>18. FrameInv'
  BY <1>1, <1>2, <1>3, <1>10 DEF FrameInv
<1> QED
  BY <1>1, <1>2, <1>11, <1>12, <1>14, <1>15, <1>16, <1>17, <1>18 DEF IInv

(* uv__stream_destroy: D is what was completed, C, and then what was       *)
(* queued, Q, cancelled; g is the number of writes that had left Q.        *)
Destroyed(C, Q, D, g) ==
  /\ C = stream.write_completed_queue /\ Q = stream.write_queue /\ g = Gone(stream, submitted)
  /\ C \in Seq(Reqs) /\ Q \in Seq(Reqs) /\ D \in Seq(Reqs) /\ g \in Nat /\ g + Len(Q) = Len(submitted)
  /\ DOMAIN C = 1..Len(C) /\ Len(C) \in Nat /\ DOMAIN Q = 1..Len(Q) /\ Len(Q) \in Nat
  /\ DOMAIN submitted = 1..Len(submitted) /\ Len(submitted) \in Nat
  /\ \A j \in DOMAIN C : j \in DOMAIN D /\ D[j] = C[j]
  /\ \A i \in DOMAIN Q :
       /\ Len(C) + i \in DOMAIN D /\ D[Len(C) + i].id = g + i /\ D[Len(C) + i].error = ECANCELED
       /\ D[Len(C) + i].bufs = Q[i].bufs /\ D[Len(C) + i].write_index = Q[i].write_index
  /\ \A j \in DOMAIN D : j \in DOMAIN C \/ \E i \in DOMAIN Q : j = Len(C) + i

(* The requests of a queue, cancelled. *)
CancelledIs(Q, E) ==
  /\ E \in Seq(Reqs) /\ Len(E) = Len(Q)
  /\ \A i \in DOMAIN Q : /\ E[i].id = Q[i].id /\ E[i].error = ECANCELED
                         /\ E[i].bufs = Q[i].bufs /\ E[i].write_index = Q[i].write_index

LEMMA Cancelled ==
  ASSUME NEW Q \in Seq(Reqs)
  PROVE  CancelledIs(Q, [i \in DOMAIN Q |-> [Q[i] EXCEPT !.error = ECANCELED]])
<1> DEFINE E == [i \in DOMAIN Q |-> [Q[i] EXCEPT !.error = ECANCELED]]
<1>1. DOMAIN Q = 1..Len(Q) /\ Len(Q) \in Nat /\ \A i \in DOMAIN Q : Q[i] \in Reqs
  OBVIOUS
<1>2. \A x \in Reqs : LET y == [x EXCEPT !.error = ECANCELED] IN
        y \in Reqs /\ y.id = x.id /\ y.bufs = x.bufs /\ y.write_index = x.write_index /\ y.error = ECANCELED
  BY DEF Reqs
<1>3. /\ E \in [1..Len(Q) -> Reqs]
      /\ \A i \in DOMAIN Q : /\ E[i].id = Q[i].id /\ E[i].error = ECANCELED
                             /\ E[i].bufs = Q[i].bufs /\ E[i].write_index = Q[i].write_index
  BY <1>1, <1>2
<1> HIDE DEF E
<1>4. E \in Seq(Reqs) /\ Len(E) = Len(Q)
  BY <1>1, <1>3, SeqDef
<1>5. CancelledIs(Q, E)
  BY <1>3, <1>4 DEF CancelledIs
<1> QED
  BY <1>5 DEF E

(* D is C followed by E. *)
JoinedIs(C, E, D) ==
  /\ D \in Seq(Reqs) /\ Len(D) = Len(C) + Len(E)
  /\ \A j \in 1..(Len(C) + Len(E)) : D[j] = IF j =< Len(C) THEN C[j] ELSE E[j - Len(C)]

LEMMA Joined ==
  ASSUME NEW C \in Seq(Reqs), NEW E \in Seq(Reqs)
  PROVE  JoinedIs(C, E, C \o E)
BY ConcatProperties DEF JoinedIs

LEMMA DestroyedIs ==
  ASSUME submitted \in Seq(Writes), NEW F, Good(stream, submitted, F),
         NEW C, C = stream.write_completed_queue, NEW Q, Q = stream.write_queue,
         NEW g, g = Gone(stream, submitted), NEW E, CancelledIs(Q, E), NEW D, D = C \o E
  PROVE  Destroyed(C, Q, D, g)
<1>1. /\ C \in Seq(Reqs) /\ Q \in Seq(Reqs) /\ g \in Nat /\ g + Len(Q) = Len(submitted)
      /\ DOMAIN Q = 1..Len(Q) /\ Len(Q) \in Nat
      /\ DOMAIN submitted = 1..Len(submitted) /\ Len(submitted) \in Nat
  BY GoneIs
<1>2. DOMAIN C = 1..Len(C) /\ Len(C) \in Nat
  BY <1>1
<1>a. PICK c, m : c = Len(C) /\ m = Len(Q)
  OBVIOUS
<1>3. \A i \in DOMAIN Q : Q[i].id = g + i
  BY DEF Good, QueueGood
<1>4. /\ E \in Seq(Reqs) /\ Len(E) = m
      /\ \A i \in DOMAIN Q : /\ E[i].id = g + i /\ E[i].error = ECANCELED
                             /\ E[i].bufs = Q[i].bufs /\ E[i].write_index = Q[i].write_index
  BY <1>3, <1>a DEF CancelledIs
<1>5. D \in Seq(Reqs) /\ Len(D) = c + m /\ \A j \in 1..(c + m) : D[j] = IF j =< c THEN C[j] ELSE E[j - c]
  <2>1. JoinedIs(C, E, D)
    BY <1>1, <1>4, Joined
  <2> QED
    BY <1>4, <1>a, <2>1 DEF JoinedIs
<1>6. DOMAIN D = 1..(c + m)
  BY <1>5
<1>7. c \in Nat /\ m \in Nat /\ DOMAIN C = 1..c /\ DOMAIN Q = 1..m
  BY <1>1, <1>2, <1>a
<1>8. \A j \in DOMAIN C : j \in DOMAIN D /\ D[j] = C[j]
  <2> TAKE j \in DOMAIN C
  <2>1. j \in 1..(c + m) /\ j =< c
    BY <1>7
  <2> QED
    BY <1>5, <1>6, <2>1
<1>9. \A i \in DOMAIN Q : c + i \in DOMAIN D /\ D[c + i] = E[i]
  <2> TAKE i \in DOMAIN Q
  <2>1. c + i \in 1..(c + m) /\ ~(c + i =< c) /\ (c + i) - c = i
    BY <1>7
  <2> QED
    BY <1>5, <1>6, <2>1
<1>10. \A j \in DOMAIN D : j \in DOMAIN C \/ \E i \in DOMAIN Q : j = c + i
  <2> SUFFICES ASSUME NEW j \in DOMAIN D, j \notin DOMAIN C PROVE \E i \in DOMAIN Q : j = c + i
    OBVIOUS
  <2>1. j - c \in DOMAIN Q /\ j = c + (j - c)
    BY <1>6, <1>7
  <2> QED
    BY <2>1
<1>11. \A i \in DOMAIN Q :
         /\ c + i \in DOMAIN D /\ D[c + i].id = g + i /\ D[c + i].error = ECANCELED
         /\ D[c + i].bufs = Q[i].bufs /\ D[c + i].write_index = Q[i].write_index
  BY <1>4, <1>9
<1> QED
  BY <1>1, <1>2, <1>5, <1>8, <1>10, <1>11, <1>a DEF Destroyed

LEMMA DestroyedClosed ==
  ASSUME IInv, flags # "UV_CLOSED", NEW C, NEW Q, NEW D, NEW g, Destroyed(C, Q, D, g)
  PROVE  /\ \A j \in DOMAIN D :
              /\ D[j].id \in DOMAIN submitted /\ submitted[D[j].id].cb
              /\ D[j].error = "0" => \A b \in DataOf(D[j].id) : Written(b)
              /\ D[j].error = ECANCELED =>
                   \A b \in DataOf(D[j].id) : (b[2] >= D[j].write_index => ~Written(b))
              /\ D[j].error = ECANCELED /\ D[j].write_index > 1 =>
                   <<D[j].id, D[j].write_index>> \in DataOf(D[j].id)
         /\ \A i, j \in DOMAIN D : i < j => D[i].id < D[j].id
         /\ \A i \in DOMAIN fired, j \in DOMAIN D : fired[i].id < D[j].id
         /\ \A id \in DOMAIN submitted : submitted[id].cb =>
              id \in FiredIds \/ \E j \in DOMAIN D : D[j].id = id
         /\ LeftOf(D) = QueueBytes(Q)
<1>1. submitted \in Seq(Writes) /\ Good(stream, submitted, FiredIds) /\ FiredIds \in SUBSET Nat
      /\ SentGood(stream, submitted)
  BY OpenFacts DEF Good
<1>2. /\ C = stream.write_completed_queue /\ Q = stream.write_queue /\ g = Gone(stream, submitted)
      /\ C \in Seq(Reqs) /\ Q \in Seq(Reqs) /\ g \in Nat /\ g + Len(Q) = Len(submitted)
      /\ DOMAIN C = 1..Len(C) /\ Len(C) \in Nat /\ DOMAIN Q = 1..Len(Q) /\ Len(Q) \in Nat
      /\ DOMAIN submitted = 1..Len(submitted) /\ Len(submitted) \in Nat
  BY DEF Destroyed
<1>3. /\ \A j \in DOMAIN C : j \in DOMAIN D /\ D[j] = C[j]
      /\ \A i \in DOMAIN Q :
           /\ Len(C) + i \in DOMAIN D /\ D[Len(C) + i].id = g + i /\ D[Len(C) + i].error = ECANCELED
           /\ D[Len(C) + i].bufs = Q[i].bufs /\ D[Len(C) + i].write_index = Q[i].write_index
      /\ \A j \in DOMAIN D : j \in DOMAIN C \/ \E i \in DOMAIN Q : j = Len(C) + i
  BY DEF Destroyed
<1>4. /\ \A j \in DOMAIN C : C[j].error = "0" /\ C[j].id =< g /\ submitted[C[j].id].cb
      /\ \A i, j \in DOMAIN C : i < j => C[i].id < C[j].id
      /\ \A f \in FiredIds : f =< g /\ \A j \in DOMAIN C : f < C[j].id
      /\ \A id \in 1..g : submitted[id].cb => id \in FiredIds \/ \E j \in DOMAIN C : C[j].id = id
  BY <1>1, <1>2 DEF Good, DoneGood
<1>5. \A i \in DOMAIN Q : /\ Q[i].id = g + i /\ Q[i].bufs = submitted[g + i].bufs /\ submitted[g + i].cb
                          /\ Q[i].write_index \in DOMAIN Q[i].bufs
                          /\ Q[i].write_index > 1 => Q[i].bufs[Q[i].write_index] # 0
  BY <1>1, <1>2 DEF Good, QueueGood
<1>6. \A j \in DOMAIN C : C[j].id \in Nat /\ C[j].id > 0
  <2>1. \A j \in DOMAIN C : C[j] \in Reqs
    BY <1>2
  <2>2. \A x \in Reqs : x.id \in Nat /\ x.id > 0
    BY WriteAssumption DEF Reqs, Ids
  <2> QED
    BY <2>1, <2>2
<1>7. ASSUME NEW j \in DOMAIN C
      PROVE  /\ C[j].id \in DOMAIN submitted
             /\ \A b \in DataOf(C[j].id) : Written(b)
  <2>1. C[j].id \in DOMAIN submitted /\ C[j].id =< g
    BY <1>2, <1>4, <1>6
  <2> QED
    BY <1>1, <1>2, <2>1, PastWritten
<1>8. ASSUME NEW i \in DOMAIN Q
      PROVE  /\ g + i \in DOMAIN submitted
             /\ \A b \in DataOf(g + i) : (b[2] >= Q[i].write_index => ~Written(b))
             /\ Q[i].write_index > 1 => <<g + i, Q[i].write_index>> \in DataOf(g + i)
  <2>1. g + i \in DOMAIN submitted
    BY <1>2
  <2>2. Q[i].write_index > 1 => <<g + i, Q[i].write_index>> \in DataOf(g + i)
    <3>1. Q[i].write_index > 1 => IsData(submitted, g + i, Q[i].write_index)
      BY <1>5, <2>1 DEF IsData
    <3> QED
      BY <2>1, <3>1, DataOfIs
  <2>3. ASSUME NEW b \in DataOf(g + i), b[2] >= Q[i].write_index, Written(b) PROVE FALSE
    <3>1. PICK n : b = <<g + i, n>> /\ IsData(submitted, g + i, n)
      BY <2>1, DataOfIs
    <3>2. PICK k \in DOMAIN stream.sent : stream.sent[k] = <<g + i, n>>
      BY <2>3, <3>1 DEF Written
    <3>3. Past(stream, submitted, g + i, n)
      <4>1. stream.sent[k][1] = g + i /\ stream.sent[k][2] = n
        BY <3>2
      <4>2. Past(stream, submitted, stream.sent[k][1], stream.sent[k][2])
        BY <1>1 DEF SentGood
      <4> QED
        BY <4>1, <4>2
    <3>4. g + i =< g \/ (g + i = g + 1 /\ n < Q[1].write_index)
      BY <1>2, <3>3 DEF Past
    <3>5. i \in Nat /\ i > 0
      BY <1>2
    <3>6. i = 1 /\ n < Q[1].write_index
      BY <1>2, <3>4, <3>5
    <3>7. n \in Nat /\ b[2] = n
      BY <1>1, <3>1, SubType
    <3>8. Q[1].write_index \in Nat
      <4>1. Q[i] \in Reqs
        BY <1>2
      <4> QED
        BY <3>6, <4>1, ReqType
    <3> QED
      BY <2>3, <3>6, <3>7, <3>8
  <2> QED
    BY <2>1, <2>2, <2>3
<1>9. ECANCELED # "0"
  BY DEF ECANCELED
<1>10. ASSUME NEW j \in DOMAIN D
       PROVE  /\ D[j].id \in DOMAIN submitted /\ submitted[D[j].id].cb
              /\ D[j].error = "0" => \A b \in DataOf(D[j].id) : Written(b)
              /\ D[j].error = ECANCELED =>
                   \A b \in DataOf(D[j].id) : (b[2] >= D[j].write_index => ~Written(b))
              /\ D[j].error = ECANCELED /\ D[j].write_index > 1 =>
                   <<D[j].id, D[j].write_index>> \in DataOf(D[j].id)
  <2>1. CASE j \in DOMAIN C
    <3>1. D[j] = C[j] /\ D[j].error = "0"
      BY <1>3, <1>4, <2>1
    <3> QED
      BY <1>4, <1>7, <1>9, <2>1, <3>1
  <2>2. CASE \E i \in DOMAIN Q : j = Len(C) + i
    <3>1. PICK i \in DOMAIN Q : j = Len(C) + i
      BY <2>2
    <3>2. D[j].id = g + i /\ D[j].error = ECANCELED /\ D[j].write_index = Q[i].write_index
      BY <1>3, <3>1
    <3> QED
      BY <1>5, <1>8, <1>9, <3>2
  <2> QED
    BY <1>3, <2>1, <2>2
<1>11. ASSUME NEW i \in DOMAIN D, NEW j \in DOMAIN D, i < j
       PROVE  D[i].id < D[j].id
  <2>1. CASE j \in DOMAIN C
    <3>1. i \in DOMAIN C
      <4>1. ~(\E n \in DOMAIN Q : i = Len(C) + n)
        BY <1>2, <1>11, <2>1
      <4> QED
        BY <1>3, <4>1
    <3> QED
      BY <1>3, <1>4, <1>11, <2>1, <3>1
  <2>2. CASE \E n \in DOMAIN Q : j = Len(C) + n
    <3>1. PICK n \in DOMAIN Q : j = Len(C) + n
      BY <2>2
    <3>2. D[j].id = g + n
      BY <1>3, <3>1
    <3>3. CASE i \in DOMAIN C
      <4>1. D[i].id \in Nat /\ D[i].id =< g
        BY <1>3, <1>4, <1>6, <3>3
      <4> QED
        BY <1>2, <3>2, <4>1
    <3>4. CASE \E m \in DOMAIN Q : i = Len(C) + m
      <4>1. PICK m \in DOMAIN Q : i = Len(C) + m
        BY <3>4
      <4>2. D[i].id = g + m
        BY <1>3, <4>1
      <4>3. m < n
        BY <1>2, <1>11, <3>1, <4>1
      <4> QED
        BY <1>2, <3>2, <4>2, <4>3
    <3> QED
      BY <1>3, <3>3, <3>4
  <2> QED
    BY <1>3, <2>1, <2>2
<1>12. ASSUME NEW i \in DOMAIN fired, NEW j \in DOMAIN D PROVE fired[i].id < D[j].id
  <2>a. PICK f : f = fired[i].id
    OBVIOUS
  <2>1. f \in FiredIds /\ f \in Nat /\ f =< g
    BY <1>1, <1>4, <2>a DEF FiredIds
  <2>2. CASE j \in DOMAIN C
    BY <1>3, <1>4, <2>1, <2>2, <2>a
  <2>3. CASE \E n \in DOMAIN Q : j = Len(C) + n
    <3>1. PICK n \in DOMAIN Q : j = Len(C) + n
      BY <2>3
    <3>2. D[j].id = g + n
      BY <1>3, <3>1
    <3> QED
      BY <1>2, <2>1, <2>a, <3>2
  <2> QED
    BY <1>3, <2>2, <2>3
<1>13. ASSUME NEW id \in DOMAIN submitted, submitted[id].cb, id \notin FiredIds
       PROVE  \E j \in DOMAIN D : D[j].id = id
  <2>1. CASE id =< g
    <3>1. id \in 1..g
      BY <1>2, <2>1
    <3>2. PICK j \in DOMAIN C : C[j].id = id
      BY <1>4, <1>13, <3>1
    <3> QED
      BY <1>3, <3>2
  <2>2. CASE ~(id =< g)
    <3>1. id - g \in DOMAIN Q /\ g + (id - g) = id
      BY <1>2, <2>2
    <3>2. Len(C) + (id - g) \in DOMAIN D /\ D[Len(C) + (id - g)].id = id
      BY <1>3, <3>1
    <3> QED
      BY <3>2
  <2> QED
    BY <2>1, <2>2
<1>14. LeftOf(D) = QueueBytes(Q)
  <2>1. \A i \in DOMAIN Q : Rest(D[Len(C) + i]) = Rest(Q[i])
    BY <1>3, <1>5 DEF Rest
  <2>2. ASSUME NEW b \in LeftOf(D) PROVE b \in QueueBytes(Q)
    <3>1. PICK j \in DOMAIN D : D[j].error # "0" /\ b \in Rest(D[j])
      BY LeftIn
    <3>2. j \notin DOMAIN C
      BY <1>3, <1>4, <3>1
    <3>3. PICK i \in DOMAIN Q : j = Len(C) + i
      BY <1>3, <3>2
    <3> QED
      BY <2>1, <3>1, <3>3, QueueBytesIn
  <2>3. ASSUME NEW b \in QueueBytes(Q) PROVE b \in LeftOf(D)
    <3>1. PICK i \in DOMAIN Q : b \in Rest(Q[i])
      BY QueueBytesIn
    <3>2. PICK j : j = Len(C) + i
      OBVIOUS
    <3>3. j \in DOMAIN D /\ D[j].error # "0" /\ b \in Rest(D[j])
      BY <1>3, <1>9, <2>1, <3>1, <3>2
    <3> QED
      BY <3>3, LeftIn
  <2> QED
    BY <2>2, <2>3
<1> QED
  BY <1>10, <1>11, <1>12, <1>13, <1>14

LEMMA ClosingStep ==
  ASSUME IInv, uv__run_closing_handles
  PROVE  IInv'
<1>0. phase' = "closing" /\ pc = "js" /\ frame = "none" /\ UNCHANGED <<submitted, fired>>
  BY DEF uv__run_closing_handles, InLoop
<1>1. CASE UNCHANGED <<pc, frame, flags, stream>>
  <2>1. FrameInv'
    BY <1>1, OpenFacts DEF FrameInv
  <2> QED
    BY <1>0, <1>1, <2>1, OpenFacts, ThreadStep
<1>2. CASE flags = "UV_CLOSING" /\ uv__stream_destroy
  <2>1. /\ submitted \in Seq(Writes) /\ FiredGood /\ FrameInv /\ stream \in Streams
        /\ Good(stream, submitted, FiredIds) /\ Len(submitted) =< MaxReqs
        /\ \A i \in DOMAIN fired : fired[i].error = "0"
    BY <1>2, OpenFacts
  <2>2. InOrder /\ CallbacksTruthful /\ SizeExact
    BY <2>1, OpenInOrder, OpenTruthful, OpenSize
  <2>a. PICK C, Q, g : C = stream.write_completed_queue /\ Q = stream.write_queue /\ g = Gone(stream, submitted)
    OBVIOUS
  <2>b. PICK E : E = [i \in DOMAIN Q |-> [Q[i] EXCEPT !.error = ECANCELED]]
    OBVIOUS
  <2>c. PICK D : D = C \o E
    OBVIOUS
  <2>3. /\ stream' = [stream EXCEPT !.write_queue = <<>>, !.write_completed_queue = D]
        /\ flags' = "UV_CLOSED" /\ pc' = "callbacks" /\ frame' = "uv__stream_destroy"
    BY <1>2, <2>a, <2>b, <2>c DEF uv__stream_destroy
  <2>4. Destroyed(C, Q, D, g)
    <3>1. Q \in Seq(Reqs)
      BY <2>1, <2>a, StreamType
    <3>2. CancelledIs(Q, E)
      BY <2>b, <3>1, Cancelled
    <3> QED
      BY <2>1, <2>a, <2>c, <3>2, DestroyedIs
  <2>5. D \in Seq(Reqs)
    BY <2>4 DEF Destroyed
  <2>6. /\ stream' \in Streams /\ stream'.write_queue = <<>> /\ stream'.write_completed_queue = D
        /\ stream'.write_queue_size = stream.write_queue_size /\ stream'.sent = stream.sent
        /\ stream'.pollout = stream.pollout /\ stream'.pending = stream.pending
    <3>1. <<>> \in Seq(Reqs)
      OBVIOUS
    <3> QED
      BY <2>1, <2>3, <2>5, <3>1 DEF Streams
  <2>7. /\ \A j \in DOMAIN D :
             /\ D[j].id \in DOMAIN submitted /\ submitted[D[j].id].cb
             /\ D[j].error = "0" => \A b \in DataOf(D[j].id) : Written(b)
             /\ D[j].error = ECANCELED =>
                  \A b \in DataOf(D[j].id) : (b[2] >= D[j].write_index => ~Written(b))
             /\ D[j].error = ECANCELED /\ D[j].write_index > 1 =>
                  <<D[j].id, D[j].write_index>> \in DataOf(D[j].id)
        /\ \A i, j \in DOMAIN D : i < j => D[i].id < D[j].id
        /\ \A i \in DOMAIN fired, j \in DOMAIN D : fired[i].id < D[j].id
        /\ \A id \in DOMAIN submitted : submitted[id].cb =>
             id \in FiredIds \/ \E j \in DOMAIN D : D[j].id = id
        /\ LeftOf(D) = QueueBytes(Q)
    BY <1>2, <2>4, DestroyedClosed
  <2>8. /\ \A id : DataOf(id)' = DataOf(id)
        /\ \A b : Written(b)' <=> Written(b)
        /\ InOrder'
    BY <1>0, <2>2, <2>6, SentKept
  <2>9. CallbacksTruthful'
    BY <1>0, <2>2, <2>6 DEF CallbacksTruthful, DataOf, Written
  <2>10. FiredGood' /\ FiredIds' = FiredIds
    BY <1>0, <2>1 DEF FiredGood, FiredIds
  <2>11. SizeExact'
    <3>a. PICK w : w = stream'
      OBVIOUS
    <3>1. w.write_queue_size = Cardinality(QueueBytes(Q))
      BY <2>1, <2>6, <2>a, <3>a DEF Good, SizeGood
    <3>2. w.write_queue = <<>> /\ LeftOf(w.write_completed_queue) = QueueBytes(Q)
      BY <2>6, <2>7, <3>a
    <3>3. w.write_queue_size = Cardinality(
            UNION {{x.id} \X Bytes(x.bufs, x.write_index) : x \in
              ToSet(w.write_queue) \cup {x \in ToSet(w.write_completed_queue) : x.error # "0"}})
      BY <3>1, <3>2, LeftIs
    <3> QED
      BY <3>a, <3>3 DEF SizeExact, Unfinished
  <2>12. ClosedGood'
    <3>1. stream'.write_queue_size \in Nat
      BY <2>1, <2>6, StreamType
    <3> QED
      BY <1>0, <2>6, <2>7, <2>8, <2>10, <3>1 DEF ClosedGood
  <2>13. TypeOK'
    BY <1>0, <2>3, <2>6 DEF IInv, TypeOK
  <2>14. FrameInv'
    BY <1>2, <2>1, <2>3, <2>6 DEF FrameInv
  <2> QED
    BY <1>0, <2>1, <2>3, <2>8, <2>9, <2>10, <2>11, <2>12, <2>13, <2>14 DEF IInv
<1> QED
  BY <1>1, <1>2 DEF uv__run_closing_handles

LEMMA DoneStep ==
  ASSUME IInv, CallbacksDone
  PROVE  IInv'
<1>0. /\ pc = "callbacks" /\ stream.write_completed_queue = <<>> /\ pc' = "js" /\ frame' = "none"
      /\ UNCHANGED <<phase, flags, submitted, fired>>
  BY DEF CallbacksDone
<1>1. frame # "none" /\ FrameInv /\ stream \in Streams
  BY <1>0, OpenFacts DEF FrameInv
<1>2. CASE frame = "uv__stream_io" /\ stream.write_queue = <<>>
  <2>1. stream' = [stream EXCEPT !.pollout = FALSE] /\ flags # "UV_CLOSED"
    BY <1>1, <1>2 DEF CallbacksDone, uv__drain, FrameInv
  <2>2. /\ stream' \in Streams /\ stream'.write_queue = stream.write_queue
        /\ stream'.write_completed_queue = stream.write_completed_queue
        /\ stream'.write_queue_size = stream.write_queue_size /\ stream'.sent = stream.sent
        /\ stream'.pollout = FALSE /\ stream'.pending = stream.pending
    BY <1>1, <2>1 DEF Streams
  <2>3. /\ submitted \in Seq(Writes) /\ FiredGood /\ Good(stream, submitted, FiredIds)
        /\ \A i \in DOMAIN fired : fired[i].error = "0"
    BY <2>1, OpenFacts
  <2>4. Good(stream', submitted, FiredIds)
    BY <2>2, <2>3, GoodSame
  <2>5. FrameInv'
    BY <1>0, <1>1, <2>1, <2>2 DEF FrameInv
  <2>6. Wakes(stream', "none", 0)
    BY <1>0, <1>2, <2>2 DEF Wakes
  <2>7. FiredGood' /\ FiredIds' = FiredIds
    BY <1>0, <2>3 DEF FiredGood, FiredIds
  <2> QED
    BY <1>0, <2>1, <2>3, <2>4, <2>5, <2>6, <2>7, OpenFacts, NotDestroyed
<1>3. CASE ~(frame = "uv__stream_io" /\ stream.write_queue = <<>>)
  <2>1. stream' = stream
    BY <1>3 DEF CallbacksDone
  <2>2. FrameInv'
    BY <1>0, <1>1, <2>1 DEF FrameInv
  <2>3. flags = "open" => Wakes(stream, frame', 0)
    <3> SUFFICES ASSUME flags = "open" PROVE Wakes(stream, "none", 0)
      BY <1>0
    <3>1. frame = "uv__stream_io" /\ stream.write_queue # <<>>
      BY <1>1, <1>3, OpenFacts DEF FrameInv
    <3>2. Wakes(stream, frame, 0)
      BY OpenFacts
    <3> QED
      BY <1>0, <3>1, <3>2 DEF Wakes
  <2> QED
    BY <1>0, <2>1, <2>2, <2>3, OpenFacts, ThreadStep
<1> QED
  BY <1>2, <1>3

----------------------------------------------------------------------------
(* The theorems. *)

LEMMA InitInv == Init => IInv
<1> SUFFICES ASSUME Init PROVE IInv
  OBVIOUS
<1>1. /\ stream.write_queue = <<>> /\ stream.write_completed_queue = <<>> /\ stream.write_queue_size = 0
      /\ stream.pollout = FALSE /\ stream.pending = FALSE /\ stream.sent = <<>>
      /\ submitted = <<>> /\ fired = <<>> /\ pc = "js" /\ frame = "none" /\ phase = "pending" /\ flags = "open"
  BY DEF Init
<1>2. stream \in Streams
  BY DEF Init, Streams
<1>3. TypeOK
  BY <1>1, <1>2 DEF TypeOK
<1>4. FrameInv /\ FiredGood /\ FiredIds = {}
  BY <1>1 DEF FrameInv, FiredGood, FiredIds
<1>5. Wakes(stream, frame, 0)
  BY <1>1 DEF Wakes
<1>6. Len(submitted) = 0 /\ Len(stream.write_queue) = 0 /\ Gone(stream, submitted) = 0
  BY <1>1 DEF Gone
<1>7. QueueGood(stream, submitted)
  BY <1>1, <1>6 DEF QueueGood
<1>8. DoneGood(stream, submitted, FiredIds)
  BY <1>1, <1>4, <1>6 DEF DoneGood
<1>9. SentGood(stream, submitted)
  BY <1>1 DEF SentGood
<1>10. SizeGood(stream)
  <2>1. QueueBytes(stream.write_queue) = {}
    BY <1>1, QueueBytesIn
  <2> QED
    BY <1>1, <2>1, FS_EmptySet DEF SizeGood
<1>11. Len(submitted) =< MaxReqs
  BY <1>6, WriteAssumption
<1> QED
  BY <1>1, <1>2, <1>3, <1>4, <1>5, <1>7, <1>8, <1>9, <1>10, <1>11 DEF IInv, Good

LEMMA NextInv == IInv /\ [Next]_vars => IInv'
<1> SUFFICES ASSUME IInv, [Next]_vars PROVE IInv'
  OBVIOUS
<1>1. CASE JavaScript
  <2>1. ASSUME NEW len \in Lens, Write(len) PROVE IInv'
    BY <2>1, WriteStep
  <2>2. ASSUME NEW bufs \in Bufs, Writev(bufs) PROVE IInv'
    BY <2>2, WritevStep
  <2> QED
    BY <1>1, <2>1, <2>2, CloseStep DEF JavaScript
<1>2. CASE Loop
  <2>1. CASE WriteCallback
    BY <2>1, CallbackOpen, CallbackClosed
  <2> QED
    BY <1>2, <2>1, PendingStep, PollStep, ClosingStep, PhaseStep, ReturnStep, DoneStep DEF Loop
<1>3. CASE UNCHANGED vars
  <2>1. FrameInv' /\ UNCHANGED <<pc, frame, phase, flags, stream, submitted, fired>>
    BY <1>3, OpenFacts DEF vars, FrameInv
  <2> QED
    BY <2>1, OpenFacts, ThreadStep
<1> QED
  BY <1>1, <1>2, <1>3 DEF Next

LEMMA InvAlways == Spec => []IInv
BY InitInv, NextInv, PTL DEF Spec

(* What the inductive invariant says of the properties. *)
LEMMA InvImplies == IInv => WriteInv /\ InOrder /\ CallbacksTruthful /\ Woken
<1> SUFFICES ASSUME IInv PROVE WriteInv /\ InOrder /\ CallbacksTruthful /\ Woken
  OBVIOUS
<1>1. /\ submitted \in Seq(Writes) /\ FiredGood /\ FrameInv /\ stream \in Streams /\ TypeOK
      /\ flags = "open" => Wakes(stream, frame, 0)
      /\ flags # "UV_CLOSED" => /\ Good(stream, submitted, FiredIds)
                                /\ \A i \in DOMAIN fired : fired[i].error = "0"
  BY OpenFacts DEF IInv
<1>2. InOrder /\ CallbacksTruthful /\ SizeExact
  <2>1. CASE flags = "UV_CLOSED"
    BY <2>1 DEF IInv
  <2>2. CASE flags # "UV_CLOSED"
    BY <1>1, <2>2, OpenInOrder, OpenTruthful, OpenSize
  <2> QED
    BY <2>1, <2>2
<1>3. stream.write_queue # <<>> => Len(stream.write_queue) > 0
  BY <1>1, StreamType, EmptySeq
<1>4. Woken
  BY <1>1, <1>3 DEF Woken, Wakes
<1>5. ReadStopAllowed
  BY <1>1 DEF ReadStopAllowed, Wakes
<1>6. Settled
  <2> SUFFICES ASSUME flags = "UV_CLOSED", frame = "none", NEW id \in DOMAIN submitted, submitted[id].cb
               PROVE  \E i \in DOMAIN fired : fired[i].id = id
    BY DEF Settled
  <2>1. ClosedGood /\ stream.write_completed_queue = <<>>
    BY <1>1 DEF IInv, FrameInv
  <2>2. id \in FiredIds
    BY <2>1 DEF ClosedGood
  <2> QED
    BY <2>2 DEF FiredIds
<1> QED
  BY <1>1, <1>2, <1>4, <1>5, <1>6 DEF WriteInv

(* Every state of the stream is well typed and its size exact: no size_t   *)
(* is taken below zero, the assertions of uv_read_stop and of              *)
(* uv__stream_destroy hold, and close_cb comes after every write callback. *)
THEOREM StreamConsistent == Spec => []WriteInv
BY InvAlways, InvImplies, PTL

(* The host gets the data of the writes in their order, none twice and     *)
(* none left out, although uv_try_write passes the queue by.               *)
THEOREM DataInOrder == Spec => []InOrder
BY InvAlways, InvImplies, PTL

(* Write callbacks come in the order of the writes, and success means that *)
(* all of the data was written, ECANCELED that some was not.               *)
THEOREM CallbacksTellTruth == Spec => []CallbacksTruthful
BY InvAlways, InvImplies, PTL

(* Outside uv__stream_io an open stream with work has its watcher active   *)
(* or pending.                                                             *)
THEOREM NoLostWakeup == Spec => []Woken
BY InvAlways, InvImplies, PTL

=============================================================================
