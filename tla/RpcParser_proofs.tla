------------------------- MODULE RpcParser_proofs --------------------------
(***************************************************************************)
(* Theorems about RpcParser, for every size of headers and of bodies, every *)
(* number of requests and every way of cutting the stream into pieces.     *)
(***************************************************************************)
EXTENDS RpcParser, SequenceTheorems, TLAPS

----------------------------------------------------------------------------
(* The inductive invariant. *)

(* The length of a part of the m-th of the requests s. *)
Size(s, m, part) == IF part = "header" THEN HEADER_SIZE ELSE s[m].size

(* A header announces no byte, or a body is over: the next request follows. *)
Ends(s, m, part) == part = "body" \/ s[m].size = 0

(* Where in w the part of the byte at p ends. *)
End(w, s, p) == p + Size(s, w[p].msg, w[p].part) - w[p].idx

(* w is what is left of the stream of the requests s: from each byte its   *)
(* part goes on to its end, the next part comes after it (that of the next *)
(* request, if the body is empty), and the stream ends with the last one.  *)
FramedAt(w, s, p) ==
  /\ w[p].msg \in 1..Len(s) /\ w[p].part \in {"header", "body"}
  /\ w[p].idx \in 1..Size(s, w[p].msg, w[p].part)
  /\ End(w, s, p) =< Len(w)
  /\ \A q \in p..End(w, s, p) : w[q] = Byte(w[p].msg, w[p].part, w[p].idx + (q - p))
  /\ IF End(w, s, p) = Len(w) THEN Ends(s, w[p].msg, w[p].part) /\ w[p].msg = Len(s)
     ELSE w[End(w, s, p) + 1] = IF Ends(s, w[p].msg, w[p].part)
                                THEN Byte(w[p].msg + 1, "header", 1)
                                ELSE Byte(w[p].msg, "body", 1)

Framed(w, s) == \A p \in DOMAIN w : FramedAt(w, s, p)

(* The bytes that are written and not yet handed to a callback. *)
Stream == buffered \o (chunk \o wire)

(* What the parser is reading. *)
Current == Len(emitted) + 1
CurrentPart == IF callback = "onheader" THEN "header" ELSE "body"

(* Until the host ends, the stream begins with the part that the parser is *)
(* reading, and what is put aside and what it waits for are that part.     *)
HeadInv ==
  Parsing =>
  /\ Stream # <<>> => Stream[1] = Byte(Current, CurrentPart, 1)
  /\ Stream = <<>> => callback = "onheader" /\ Len(emitted) = Len(sent)
  /\ Len(buffered) + bytesLeft = Size(sent, Current, CurrentPart)
  /\ callback = "onbody" => callback_id = sent[Current].id

(* Only requests with a body are emitted. *)
NoneEmpty == \A i \in DOMAIN emitted : sent[i].size > 0

IInv ==
  /\ TypeOK /\ InSync /\ NoneEmpty /\ Len(sent) =< MaxMessages
  /\ Framed(Stream, sent) /\ HeadInv /\ FramesIntact

----------------------------------------------------------------------------
(* Facts about streams. *)

LEMMA ByteFields ==
  \A m, part, i : /\ Byte(m, part, i).msg = m /\ Byte(m, part, i).part = part
                  /\ Byte(m, part, i).idx = i
BY DEF Byte

LEMMA SizeType ==
  ASSUME NEW s \in Seq(Messages), NEW m \in 1..Len(s), NEW part
  PROVE  Size(s, m, part) \in Nat /\ s[m].size \in 0..MaxSize /\ s[m].id \in 0..MaxId
<1>1. s[m] \in Messages
  OBVIOUS
<1>2. s[m].size \in 0..MaxSize /\ s[m].id \in 0..MaxId
  BY <1>1 DEF Messages
<1> QED
  BY <1>2, SizesAssumption DEF Size

(* Of a concatenation. *)
LEMMA ConcatAt ==
  ASSUME NEW S, NEW a \in Seq(S), NEW b \in Seq(S)
  PROVE  /\ a \o b \in Seq(S) /\ Len(a \o b) = Len(a) + Len(b)
         /\ Len(a) \in Nat /\ Len(b) \in Nat
         /\ DOMAIN a = 1..Len(a) /\ DOMAIN b = 1..Len(b)
         /\ DOMAIN (a \o b) = 1..(Len(a) + Len(b))
         /\ \A i \in 1..Len(a) : (a \o b)[i] = a[i]
         /\ \A i \in 1..Len(b) : (a \o b)[Len(a) + i] = b[i]
OBVIOUS

(* What is left of a stream after its first bytes is a stream. *)
LEMMA FramedSuffix ==
  ASSUME NEW a \in Seq(Bytes), NEW b \in Seq(Bytes), NEW s \in Seq(Messages),
         Framed(a \o b, s)
  PROVE  Framed(b, s)
<1> DEFINE w == a \o b
           n == Len(a)
<1>1. /\ n \in Nat /\ Len(b) \in Nat /\ Len(w) = n + Len(b)
      /\ DOMAIN w = 1..(n + Len(b)) /\ DOMAIN b = 1..Len(b)
      /\ \A i \in 1..Len(b) : w[n + i] = b[i]
  BY ConcatAt
<1>2. SUFFICES ASSUME NEW p \in 1..Len(b) PROVE FramedAt(b, s, p)
  BY <1>1 DEF Framed
<1>3. n + p \in DOMAIN w /\ w[n + p] = b[p] /\ FramedAt(w, s, n + p)
  BY <1>1, <1>2 DEF Framed
<1> HIDE DEF w, n
<1> DEFINE z == Size(s, b[p].msg, b[p].part)
           e == End(b, s, p)
<1>4. /\ b[p].msg \in 1..Len(s) /\ b[p].part \in {"header", "body"} /\ b[p].idx \in 1..z
  BY <1>3 DEF FramedAt
<1>5. z \in Nat
  BY <1>4, SizeType
<1>6. e = p + z - b[p].idx /\ e \in Nat /\ p =< e
  BY <1>2, <1>4, <1>5 DEF End
<1>7. End(w, s, n + p) = n + e
  BY <1>1, <1>2, <1>3, <1>4, <1>5, <1>6 DEF End
<1> HIDE DEF z, e
<1>8. e =< Len(b)
  BY <1>1, <1>3, <1>6, <1>7 DEF FramedAt
<1>9. ASSUME NEW q \in p..e
      PROVE  b[q] = Byte(b[p].msg, b[p].part, b[p].idx + (q - p))
  <2>1. q \in 1..Len(b) /\ q \in Nat /\ p \in Nat /\ n + q \in (n + p)..(n + e)
    BY <1>1, <1>6, <1>8
  <2>2. (n + q) - (n + p) = q - p
    BY <1>1, <2>1
  <2>3. w[n + q] = b[q]
    BY <1>1, <2>1
  <2> QED
    BY <2>1, <2>2, <2>3, <1>3, <1>7 DEF FramedAt
<1>10. ASSUME e = Len(b)
       PROVE  Ends(s, b[p].msg, b[p].part) /\ b[p].msg = Len(s)
  BY <1>1, <1>3, <1>7, <1>10 DEF FramedAt
<1>11. ASSUME e # Len(b)
       PROVE  b[e + 1] = IF Ends(s, b[p].msg, b[p].part) THEN Byte(b[p].msg + 1, "header", 1)
                         ELSE Byte(b[p].msg, "body", 1)
  <2>1. n + e # Len(w) /\ e + 1 \in 1..Len(b) /\ (n + e) + 1 = n + (e + 1)
    <3>1. \A i, j, k \in Nat : i =< j /\ i # j =>
            /\ k + i # k + j /\ (k + i) + 1 = k + (i + 1) /\ i + 1 \in 1..j
      OBVIOUS
    <3>2. e \in Nat /\ Len(b) \in Nat /\ n \in Nat /\ e =< Len(b) /\ e # Len(b)
      BY <1>1, <1>6, <1>8, <1>11
    <3>3. n + e # n + Len(b) /\ (n + e) + 1 = n + (e + 1) /\ e + 1 \in 1..Len(b)
      BY ONLY <3>1, <3>2
    <3> QED
      BY <1>1, <3>3
  <2>2. w[(n + e) + 1] = b[e + 1]
    BY <1>1, <2>1
  <2> QED
    BY <2>1, <2>2, <1>3, <1>7 DEF FramedAt
<1> QED
  BY <1>4, <1>8, <1>9, <1>10, <1>11 DEF FramedAt, z, e

(* What WriteRequest adds. *)
Frame(m, n) == Part(n, "header", HEADER_SIZE) \o Part(n, "body", m.size)

LEMMA FrameProperties ==
  ASSUME NEW m \in Messages, NEW n \in 1..MaxMessages
  PROVE  /\ Frame(m, n) \in Seq(Bytes) /\ Len(Frame(m, n)) = HEADER_SIZE + m.size
         /\ Part(n, "header", HEADER_SIZE) \in Seq(Bytes) /\ Part(n, "body", m.size) \in Seq(Bytes)
         /\ \A i \in 1..HEADER_SIZE : Frame(m, n)[i] = Byte(n, "header", i)
         /\ \A i \in 1..m.size : Frame(m, n)[HEADER_SIZE + i] = Byte(n, "body", i)
<1>1. HEADER_SIZE \in Nat \ {0} /\ MaxSize \in Nat \ {0} /\ m.size \in 0..MaxSize
  BY SizesAssumption DEF Messages
<1>2. ASSUME NEW k \in 0..(HEADER_SIZE + MaxSize), NEW part \in {"header", "body"}
      PROVE  /\ Part(n, part, k) \in Seq(Bytes) /\ Len(Part(n, part, k)) = k
             /\ \A i \in 1..k : Part(n, part, k)[i] = Byte(n, part, i)
  <2>1. \A i \in 1..k : i \in 1..(HEADER_SIZE + MaxSize)
    BY <1>1
  <2>2. \A i \in 1..k : Byte(n, part, i) \in Bytes
    BY <2>1 DEF Byte, Bytes
  <2> QED
    BY <1>1, <2>2 DEF Part
<1>3. HEADER_SIZE \in 0..(HEADER_SIZE + MaxSize) /\ m.size \in 0..(HEADER_SIZE + MaxSize)
  BY <1>1
<1>4. /\ Part(n, "header", HEADER_SIZE) \in Seq(Bytes)
      /\ Len(Part(n, "header", HEADER_SIZE)) = HEADER_SIZE
      /\ \A i \in 1..HEADER_SIZE : Part(n, "header", HEADER_SIZE)[i] = Byte(n, "header", i)
  BY <1>2, <1>3
<1>5. /\ Part(n, "body", m.size) \in Seq(Bytes) /\ Len(Part(n, "body", m.size)) = m.size
      /\ \A i \in 1..m.size : Part(n, "body", m.size)[i] = Byte(n, "body", i)
  BY <1>2, <1>3
<1> DEFINE a == Part(n, "header", HEADER_SIZE)
           b == Part(n, "body", m.size)
<1>6. Frame(m, n) = a \o b
  BY DEF Frame
<1> HIDE DEF a, b
<1>7. /\ a \o b \in Seq(Bytes) /\ Len(a \o b) = Len(a) + Len(b)
      /\ \A i \in 1..Len(a) : (a \o b)[i] = a[i]
      /\ \A i \in 1..Len(b) : (a \o b)[Len(a) + i] = b[i]
  BY <1>4, <1>5, ConcatAt DEF a, b
<1> QED
  BY <1>4, <1>5, <1>6, <1>7 DEF a, b

(* A stream goes on with the next request. *)
LEMMA FramedAppend ==
  ASSUME NEW w \in Seq(Bytes), NEW s \in Seq(Messages), NEW m \in Messages,
         Len(s) < MaxMessages, Framed(w, s)
  PROVE  Framed(w \o Frame(m, Len(s) + 1), Append(s, m))
<1> DEFINE n == Len(s) + 1
           v == Frame(m, n)
           x == w \o v
           t == Append(s, m)
           H == HEADER_SIZE
           L == Len(w)
<1>1. /\ MaxMessages \in Nat /\ H \in Nat \ {0} /\ m.size \in Nat
      /\ Len(s) \in Nat /\ n \in 1..MaxMessages
  BY SizesAssumption DEF Messages
<1>2. t \in Seq(Messages) /\ Len(t) = n /\ t[n] = m /\ \A k \in 1..Len(s) : t[k] = s[k]
  OBVIOUS
<1>3. /\ v \in Seq(Bytes) /\ Len(v) = H + m.size
      /\ \A i \in 1..H : v[i] = Byte(n, "header", i)
      /\ \A i \in 1..m.size : v[H + i] = Byte(n, "body", i)
  BY <1>1, FrameProperties
<1> HIDE DEF v
<1>4. /\ L \in Nat /\ Len(x) = L + (H + m.size) /\ DOMAIN w = 1..L
      /\ DOMAIN x = 1..(L + (H + m.size))
      /\ \A i \in 1..L : x[i] = w[i]
      /\ \A i \in 1..(H + m.size) : x[L + i] = v[i]
  BY <1>3, ConcatAt
<1>5. \A i \in 1..H : x[L + i] = Byte(n, "header", i)
  <2>1. \A i \in 1..H : i \in 1..(H + m.size)
    BY <1>1
  <2> QED
    BY <2>1, <1>3, <1>4
<1>6. \A i \in 1..m.size : x[(L + H) + i] = Byte(n, "body", i)
  <2>1. \A i \in 1..m.size : H + i \in 1..(H + m.size) /\ (L + H) + i = L + (H + i)
    BY <1>1, <1>4
  <2> QED
    BY <2>1, <1>3, <1>4
<1> HIDE DEF x, L
<1>7. ASSUME NEW p \in 1..L
      PROVE  FramedAt(x, t, p)
  <2> DEFINE e == End(w, s, p)
             z == Size(s, w[p].msg, w[p].part)
  <2>1. FramedAt(w, s, p) /\ x[p] = w[p]
    BY <1>4 DEF Framed
  <2>2. w[p].msg \in 1..Len(s) /\ w[p].part \in {"header", "body"} /\ w[p].idx \in 1..z
    BY <2>1 DEF FramedAt
  <2>3. Size(t, w[p].msg, w[p].part) = z /\ z \in Nat
    BY <1>2, <2>2, SizeType DEF Size
  <2>4. e \in Nat /\ p =< e /\ e =< L
    BY <2>1, <2>2, <2>3 DEF FramedAt, End, L
  <2>5. End(x, t, p) = e
    BY <2>1, <2>3 DEF End
  <2> HIDE DEF e, z
  <2>6. e =< Len(x) /\ e # Len(x)
    BY <1>1, <1>4, <2>4
  <2>7. ASSUME NEW q \in p..e
        PROVE  x[q] = Byte(x[p].msg, x[p].part, x[p].idx + (q - p))
    <3>1. q \in 1..L
      BY <1>4, <2>4
    <3> QED
      BY <3>1, <1>4, <2>1 DEF FramedAt, e
  <2>10. Ends(t, x[p].msg, x[p].part) = Ends(s, w[p].msg, w[p].part)
    BY <1>2, <2>1, <2>2 DEF Ends
  <2>8. x[e + 1] = IF Ends(t, x[p].msg, x[p].part) THEN Byte(x[p].msg + 1, "header", 1)
                   ELSE Byte(x[p].msg, "body", 1)
    <3>1. CASE e = L
      <4>1. Ends(s, w[p].msg, w[p].part) /\ w[p].msg = Len(s)
        BY <3>1, <2>1 DEF FramedAt, e, L
      <4>2. x[L + 1] = Byte(n, "header", 1)
        BY <1>1, <1>5
      <4> QED
        BY <2>1, <2>10, <3>1, <4>1, <4>2
    <3>2. CASE e # L
      <4>1. e + 1 \in 1..L
        BY <1>4, <2>4, <3>2
      <4> QED
        BY <4>1, <1>4, <2>1, <2>10, <3>2 DEF FramedAt, e, L
    <3> QED
      BY <3>1, <3>2
  <2>9. w[p].msg \in 1..Len(t)
    BY <1>1, <1>2, <2>2
  <2> QED
    BY <2>1, <2>2, <2>3, <2>5, <2>6, <2>7, <2>8, <2>9 DEF FramedAt, z
<1>8. ASSUME NEW i \in 1..H
      PROVE  FramedAt(x, t, L + i)
  <2>1. x[L + i].msg = n /\ x[L + i].part = "header" /\ x[L + i].idx = i
    BY <1>5, ByteFields
  <2>2. Size(t, n, "header") = H
    BY DEF Size
  <2>3. End(x, t, L + i) = L + H
    BY <1>1, <1>4, <2>1, <2>2 DEF End
  <2>4. L + H =< Len(x) /\ (L + H = Len(x) <=> m.size = 0)
    BY <1>1, <1>4
  <2>5. ASSUME NEW q \in (L + i)..(L + H)
        PROVE  x[q] = Byte(n, "header", i + (q - (L + i)))
    <3>1. q - L \in 1..H /\ L + (q - L) = q /\ i + (q - (L + i)) = q - L
      BY <1>1, <1>4
    <3> QED
      BY <3>1, <1>5
  <2>6. m.size # 0 => x[(L + H) + 1] = Byte(n, "body", 1)
    BY <1>1, <1>6
  <2>7. n \in 1..Len(t) /\ i \in 1..H /\ n = Len(t)
    BY <1>1, <1>2
  <2>8. Ends(t, n, "header") <=> m.size = 0
    BY <1>2 DEF Ends
  <2> QED
    BY <2>1, <2>2, <2>3, <2>4, <2>5, <2>6, <2>7, <2>8 DEF FramedAt
<1>9. ASSUME NEW i \in 1..m.size
      PROVE  FramedAt(x, t, (L + H) + i)
  <2>1. x[(L + H) + i].msg = n /\ x[(L + H) + i].part = "body" /\ x[(L + H) + i].idx = i
    BY <1>6, ByteFields
  <2>2. Size(t, n, "body") = m.size
    BY <1>2 DEF Size
  <2>3. End(x, t, (L + H) + i) = (L + H) + m.size
    BY <1>1, <1>4, <2>1, <2>2 DEF End
  <2>4. (L + H) + m.size = Len(x) /\ Len(x) =< Len(x)
    BY <1>1, <1>4
  <2>5. ASSUME NEW q \in ((L + H) + i)..((L + H) + m.size)
        PROVE  x[q] = Byte(n, "body", i + (q - ((L + H) + i)))
    <3>1. q - (L + H) \in 1..m.size /\ (L + H) + (q - (L + H)) = q
          /\ i + (q - ((L + H) + i)) = q - (L + H)
      BY <1>1, <1>4
    <3> QED
      BY <3>1, <1>6
  <2>6. n \in 1..Len(t) /\ i \in 1..m.size /\ n = Len(t)
    BY <1>1, <1>2
  <2> QED
    BY <2>1, <2>2, <2>3, <2>4, <2>5, <2>6 DEF FramedAt, Ends
<1>10. ASSUME NEW p \in DOMAIN x
       PROVE  FramedAt(x, t, p)
  <2>1. p \in 1..L \/ p - L \in 1..H \/ p - (L + H) \in 1..m.size
    <3>1. \A a, b, c, q \in Nat : q \in 1..(a + (b + c)) =>
            q \in 1..a \/ q - a \in 1..b \/ q - (a + b) \in 1..c
      OBVIOUS
    <3>2. p \in Nat /\ p \in 1..(L + (H + m.size))
      BY <1>4
    <3>3. L \in Nat /\ H \in Nat /\ m.size \in Nat
      BY <1>1, <1>4
    <3> QED
      BY ONLY <3>1, <3>2, <3>3
  <2>2. L + (p - L) = p /\ (L + H) + (p - (L + H)) = p
    BY <1>1, <1>4
  <2> QED
    BY <1>7, <1>8, <1>9, <2>1, <2>2
<1> QED
  BY <1>10 DEF Framed, x, v

(* Concatenation, as an operator that the provers do not look into. *)
Cat(a, b) == a \o b

LEMMA CatAssoc ==
  \A a, b, c \in Seq(Bytes) : Cat(Cat(a, b), c) = Cat(a, Cat(b, c)) /\ Cat(a, b) \in Seq(Bytes)
BY ConcatAssociative DEF Cat

LEMMA ConcatAtAll ==
  \A a, b \in Seq(Bytes) :
    /\ Len(a \o b) = Len(a) + Len(b) /\ Len(a) \in Nat /\ Len(b) \in Nat
    /\ DOMAIN a = 1..Len(a)
    /\ \A i \in 1..Len(a) : (a \o b)[i] = a[i]
    /\ \A i \in 1..Len(b) : (a \o b)[Len(a) + i] = b[i]
BY ConcatAt

(* A sequence that is cut in two. *)
LEMMA Cut ==
  ASSUME NEW S, NEW q \in Seq(S), NEW k \in 0..Len(q)
  PROVE  /\ SubSeq(q, 1, k) \in Seq(S) /\ SubSeq(q, k + 1, Len(q)) \in Seq(S)
         /\ Len(SubSeq(q, 1, k)) = k
         /\ SubSeq(q, 1, k) \o SubSeq(q, k + 1, Len(q)) = q
<1>1. Len(q) \in Nat /\ 1 \in 1..(Len(q) + 1) /\ k \in (1 - 1)..Len(q) /\ Len(q) \in k..Len(q)
  OBVIOUS
<1>2. SubSeq(q, 1, k) \o SubSeq(q, k + 1, Len(q)) = SubSeq(q, 1, Len(q))
  BY <1>1, ConcatAdjacentSubSeq
<1>3. SubSeq(q, 1, Len(q)) = q
  BY SubSeqFull
<1>4. /\ SubSeq(q, 1, k) \in Seq(S) /\ Len(SubSeq(q, 1, k)) = k
      /\ SubSeq(q, k + 1, Len(q)) \in Seq(S)
  <2>1. \A i \in 1..Len(q) : q[i] \in S
    OBVIOUS
  <2>2. (\A i \in 1..k : q[i] \in S) /\ (\A i \in (k + 1)..Len(q) : q[i] \in S)
    BY <1>1, <2>1
  <2> QED
    BY <1>1, <2>2, SubSeqProperties
<1> QED
  BY <1>2, <1>3, <1>4

----------------------------------------------------------------------------
(* The invariant holds at the start, and every step keeps it. *)

LEMMA InvInit == Init => IInv
<1> SUFFICES ASSUME Init PROVE IInv
  OBVIOUS
<1>1. Stream = <<>>
  BY DEF Init, Stream
<1>2. Framed(Stream, sent)
  BY <1>1 DEF Framed
<1>3. TypeOK /\ InSync /\ NoneEmpty /\ Len(sent) =< MaxMessages
  BY SizesAssumption DEF Init, TypeOK, InSync, NoneEmpty
<1>4. HeadInv
  BY <1>1, SizesAssumption DEF Init, HeadInv, Size, CurrentPart
<1>5. FramesIntact
  BY DEF Init, FramesIntact
<1> QED
  BY <1>2, <1>3, <1>4, <1>5 DEF IInv

(* Bytes that only move on leave the stream as it is. *)
LEMMA InvMove ==
  ASSUME IInv, Stream' = Stream, UNCHANGED <<sent, callback, callback_id, emitted>>,
         buffered' \in Seq(Bytes), chunk' \in Seq(Bytes), wire' \in Seq(Bytes),
         bytesLeft' \in 0..bytesLeft, Len(buffered') + bytesLeft' = Len(buffered) + bytesLeft
  PROVE  IInv'
<1>1. bytesLeft' \in 0..(IF callback = "onheader" THEN HEADER_SIZE ELSE MaxSize)
  BY SizesAssumption DEF IInv, TypeOK
<1>2. TypeOK'
  BY <1>1 DEF IInv, TypeOK
<1>3. HeadInv'
  BY DEF IInv, HeadInv, Parsing, Current, CurrentPart
<1>4. FramesIntact'
  BY DEF IInv, FramesIntact
<1> QED
  BY <1>2, <1>3, <1>4 DEF IInv, InSync, NoneEmpty

LEMMA InvTransform ==
  ASSUME IInv, NEW k \in 1..Len(wire), Transform(k)
  PROVE  IInv'
<1>1. wire \in Seq(Bytes) /\ k \in 0..Len(wire) /\ chunk = <<>> /\ buffered \in Seq(Bytes)
      /\ bytesLeft \in Nat
  BY SizesAssumption DEF IInv, TypeOK, Transform
<1>2. chunk' \in Seq(Bytes) /\ wire' \in Seq(Bytes) /\ chunk' \o wire' = wire
  BY <1>1, Cut DEF Transform
<1>3. Stream' = Stream
  <2>1. chunk \o wire = wire
    BY <1>1
  <2> QED
    BY <1>2, <2>1 DEF Stream, Transform
<1> QED
  BY <1>1, <1>2, <1>3, InvMove DEF Transform

LEMMA InvProcess ==
  ASSUME IInv, Process
  PROVE  IInv'
<1> DEFINE k == Lesser(bytesLeft, Len(chunk))
           a == SubSeq(chunk, 1, k)
           b == SubSeq(chunk, k + 1, Len(chunk))
<1>1. wire \in Seq(Bytes) /\ chunk \in Seq(Bytes) /\ buffered \in Seq(Bytes) /\ bytesLeft \in Nat
  BY SizesAssumption DEF IInv, TypeOK
<1>2. k \in 0..Len(chunk) /\ k \in 0..bytesLeft
  BY <1>1 DEF Lesser
<1>3. buffered' = buffered \o a /\ chunk' = b /\ bytesLeft' = bytesLeft - k
  BY DEF Process
<1> HIDE DEF k
<1>4. a \in Seq(Bytes) /\ b \in Seq(Bytes) /\ Len(a) = k /\ a \o b = chunk
  BY <1>1, <1>2, Cut
<1> HIDE DEF a, b
<1>5. buffered' \in Seq(Bytes) /\ Len(buffered') = Len(buffered) + k
  BY <1>1, <1>3, <1>4, ConcatProperties
<1>6. Len(buffered') + bytesLeft' = Len(buffered) + bytesLeft /\ bytesLeft' \in 0..bytesLeft
  BY <1>1, <1>2, <1>3, <1>5
<1>7. Stream' = Stream
  <2>1. Stream = Cat(buffered, Cat(Cat(a, b), wire))
    BY <1>4 DEF Stream, Cat
  <2>2. Stream' = Cat(Cat(buffered, a), Cat(b, wire))
    BY <1>3 DEF Stream, Cat, Process
  <2> QED
    BY <1>1, <1>4, <2>1, <2>2, CatAssoc
<1> QED
  BY <1>1, <1>3, <1>4, <1>5, <1>6, <1>7, InvMove DEF Process

(* A part that is complete: what is put aside is all of it and nothing     *)
(* else, and the stream goes on with the part that comes next.             *)
LEMMA PartComplete ==
  ASSUME IInv, Parsing, bytesLeft = 0
  PROVE  /\ Current \in 1..Len(sent)
         /\ buffered = Part(Current, CurrentPart, Size(sent, Current, CurrentPart))
         /\ buffered[1].msg = Current
         /\ chunk \o wire \in Seq(Bytes) /\ Framed(chunk \o wire, sent)
         /\ IF chunk \o wire = <<>>
              THEN Ends(sent, Current, CurrentPart) /\ Current = Len(sent)
              ELSE (chunk \o wire)[1] = IF Ends(sent, Current, CurrentPart)
                                          THEN Byte(Current + 1, "header", 1)
                                          ELSE Byte(Current, "body", 1)
         /\ Size(sent, Current, CurrentPart) > 0
<1> DEFINE n == Size(sent, Current, CurrentPart)
           rest == chunk \o wire
           w == Stream
<1>1. /\ sent \in Seq(Messages) /\ buffered \in Seq(Bytes) /\ chunk \in Seq(Bytes)
      /\ wire \in Seq(Bytes) /\ callback \in {"onheader", "onbody"}
  BY DEF IInv, TypeOK, Parsing
<1>2. rest \in Seq(Bytes) /\ w = buffered \o rest /\ w \in Seq(Bytes)
  BY <1>1 DEF Stream
<1>3. Framed(rest, sent)
  BY <1>1, <1>2, FramedSuffix DEF IInv
<1>4. Len(buffered) = n
  BY <1>1 DEF IInv, HeadInv
<1>5. w # <<>>
  <2>1. SUFFICES ASSUME w = <<>> PROVE FALSE
    OBVIOUS
  <2>2. callback = "onheader"
    BY <2>1 DEF IInv, HeadInv
  <2>3. Len(buffered) # 0
    BY <1>4, <2>2, SizesAssumption DEF Size, CurrentPart
  <2>4. Len(w) = Len(buffered) + Len(rest) /\ Len(buffered) \in Nat /\ Len(rest) \in Nat
    BY <1>1, <1>2
  <2> QED
    BY <2>1, <2>3, <2>4
<1>6. w[1] = Byte(Current, CurrentPart, 1)
  BY <1>5 DEF IInv, HeadInv
<1>7. w[1].msg = Current /\ w[1].part = CurrentPart /\ w[1].idx = 1
  BY <1>6, ByteFields
<1>8. 1 \in DOMAIN w /\ FramedAt(w, sent, 1)
  <2>1. 1 \in DOMAIN w
    BY <1>2, <1>5
  <2> QED
    BY <2>1 DEF IInv, Framed
<1> HIDE DEF w
<1>9. Current \in 1..Len(sent)
  BY <1>7, <1>8 DEF FramedAt
<1>10. n \in Nat \ {0}
  <2>1. n \in Nat
    BY <1>1, <1>9, SizeType
  <2>2. 1 \in 1..n
    BY <1>7, <1>8 DEF FramedAt
  <2> QED
    BY <2>1, <2>2
<1>11. End(w, sent, 1) = n
  BY <1>7, <1>10 DEF End
<1> HIDE DEF n, rest
<1>12. /\ Len(w) = n + Len(rest) /\ Len(rest) \in Nat /\ DOMAIN buffered = 1..n
       /\ \A i \in 1..n : w[i] = buffered[i]
       /\ \A i \in 1..Len(rest) : w[n + i] = rest[i]
  BY <1>1, <1>2, <1>4, ConcatAtAll DEF rest
<1>13. ASSUME NEW i \in 1..n
       PROVE  buffered[i] = Byte(Current, CurrentPart, i)
  <2>1. w[i] = Byte(Current, CurrentPart, 1 + (i - 1))
    BY <1>7, <1>8, <1>11 DEF FramedAt
  <2>2. 1 + (i - 1) = i
    BY <1>10
  <2> QED
    BY <1>12, <2>1, <2>2
<1>14. buffered = Part(Current, CurrentPart, n)
  BY <1>1, <1>12, <1>13 DEF Part
<1>15. buffered[1].msg = Current
  BY <1>10, <1>13, ByteFields
<1>16. CASE rest = <<>>
  <2>1. End(w, sent, 1) = Len(w)
    BY <1>10, <1>11, <1>12, <1>16
  <2>2. Ends(sent, Current, CurrentPart) /\ Current = Len(sent)
    BY <2>1, <1>7, <1>8 DEF FramedAt
  <2> QED
    BY <1>2, <1>3, <1>9, <1>10, <1>14, <1>15, <1>16, <2>2 DEF n, rest
<1>17. CASE rest # <<>>
  <2>1. Len(rest) # 0
    BY <1>2, <1>17 DEF rest
  <2>2. End(w, sent, 1) # Len(w) /\ 1 \in 1..Len(rest)
    BY <1>10, <1>11, <1>12, <2>1
  <2>3. w[n + 1] = IF Ends(sent, Current, CurrentPart) THEN Byte(Current + 1, "header", 1)
                   ELSE Byte(Current, "body", 1)
    BY <2>2, <1>7, <1>8, <1>11 DEF FramedAt
  <2>4. rest[1] = w[n + 1]
    BY <1>12, <2>2
  <2> QED
    BY <1>2, <1>3, <1>9, <1>10, <1>14, <1>15, <1>17, <2>3, <2>4 DEF n, rest
<1> QED
  BY <1>16, <1>17

LEMMA Invonheader ==
  ASSUME IInv, onheader
  PROVE  IInv'
<1> DEFINE rest == chunk \o wire
<1>1. callback = "onheader" /\ bytesLeft = 0 /\ CurrentPart = "header" /\ Parsing
  BY DEF onheader, CurrentPart, Parsing
<1>2. /\ Current \in 1..Len(sent) /\ buffered = Part(Current, "header", HEADER_SIZE)
      /\ buffered[1].msg = Current /\ rest \in Seq(Bytes) /\ Framed(rest, sent)
      /\ sent[Current].size # 0 => rest # <<>> /\ rest[1] = Byte(Current, "body", 1)
  BY <1>1, PartComplete DEF Size, Ends
<1>3. buffered' = <<>> /\ UNCHANGED <<sent, wire, chunk, emitted>>
  BY DEF onheader
<1>4. /\ sent \in Seq(Messages) /\ MaxSize \in Nat /\ HEADER_SIZE \in Nat
      /\ sent[Current].size \in 0..MaxSize /\ sent[Current].id \in 0..MaxId
  BY <1>2, SizeType, SizesAssumption DEF IInv, TypeOK
<1>5. Stream' = rest /\ Framed(Stream', sent')
  BY <1>2, <1>3 DEF Stream
<1>6. FramesIntact' /\ NoneEmpty' /\ Len(sent') =< MaxMessages
  BY <1>3 DEF IInv, FramesIntact, NoneEmpty
<1>7. CASE sent[Current].size # 0
  <2>1. /\ callback' = "onbody" /\ callback_id' = sent[Current].id
        /\ bytesLeft' = sent[Current].size
    BY <1>2, <1>4, <1>7 DEF onheader, IsHeader
  <2>2. Current' = Current /\ CurrentPart' = "body"
    BY <1>3, <2>1 DEF Current, CurrentPart
  <2>3. TypeOK'
    BY <1>3, <1>4, <2>1 DEF IInv, TypeOK
  <2>4. Len(buffered') + bytesLeft' = Size(sent, Current, "body")
    BY <1>3, <1>4, <2>1 DEF Size
  <2>5. HeadInv'
    BY <1>2, <1>3, <1>5, <1>7, <2>1, <2>2, <2>4 DEF HeadInv
  <2> QED
    BY <1>5, <1>6, <2>1, <2>3, <2>5 DEF IInv, InSync
<1>8. CASE sent[Current].size = 0
  <2>1. callback' = "ended" /\ callback_id' = callback_id /\ bytesLeft' = 0
    BY <1>1, <1>2, <1>8 DEF onheader, IsHeader
  <2>2. TypeOK'
    BY <1>3, <1>4, <2>1 DEF IInv, TypeOK
  <2>3. HeadInv'
    BY <2>1 DEF HeadInv, Parsing
  <2>4. Len(emitted) < Len(sent)
    BY <1>2, <1>4 DEF Current, IInv, TypeOK
  <2>5. InSync'
    BY <1>3, <1>8, <2>1, <2>4 DEF InSync, Current, IInv, NoneEmpty
  <2> QED
    BY <1>5, <1>6, <2>2, <2>3, <2>5 DEF IInv
<1> QED
  BY <1>7, <1>8

LEMMA Invonbody ==
  ASSUME IInv, onbody
  PROVE  IInv'
<1> DEFINE rest == chunk \o wire
           message == [body |-> buffered, id |-> callback_id]
<1>1. /\ callback = "onbody" /\ bytesLeft = 0 /\ CurrentPart = "body" /\ Parsing
      /\ emitted' = Append(emitted, message) /\ buffered' = <<>>
      /\ callback' = "onheader" /\ bytesLeft' = HEADER_SIZE
      /\ UNCHANGED <<sent, wire, chunk, callback_id>>
  BY DEF onbody, CurrentPart, Parsing
<1>2. /\ Current \in 1..Len(sent) /\ buffered = Part(Current, "body", sent[Current].size)
      /\ rest \in Seq(Bytes) /\ Framed(rest, sent)
      /\ IF rest = <<>> THEN Current = Len(sent) ELSE rest[1] = Byte(Current + 1, "header", 1)
      /\ sent[Current].size > 0
  BY <1>1, PartComplete DEF Size, Ends
<1>3. /\ emitted \in Seq([body : Seq(Bytes), id : 0..MaxId]) /\ buffered \in Seq(Bytes)
      /\ callback_id \in 0..MaxId /\ callback_id = sent[Current].id
  BY <1>1 DEF IInv, TypeOK, HeadInv
<1>4. message \in [body : Seq(Bytes), id : 0..MaxId]
  BY <1>3
<1>5. /\ emitted' \in Seq([body : Seq(Bytes), id : 0..MaxId])
      /\ Len(emitted) \in Nat /\ Len(emitted') = Len(emitted) + 1
      /\ DOMAIN emitted = 1..Len(emitted) /\ DOMAIN emitted' = 1..(Len(emitted) + 1)
      /\ \A i \in 1..Len(emitted) : emitted'[i] = emitted[i]
      /\ emitted'[Current] = message
  BY <1>1, <1>3, <1>4 DEF Current
<1>6. Stream' = rest
  BY <1>1, <1>2 DEF Stream
<1>7. Current' = Current + 1 /\ CurrentPart' = "header" /\ Len(emitted') = Current
  BY <1>1, <1>5 DEF Current, CurrentPart
<1>8. TypeOK'
  BY <1>1, <1>3, <1>5, SizesAssumption DEF IInv, TypeOK
<1>9. HeadInv'
  <2>1. Len(buffered') + bytesLeft' = Size(sent', Current', CurrentPart')
    BY <1>1, <1>7, SizesAssumption DEF Size
  <2> QED
    BY <1>1, <1>2, <1>6, <1>7, <2>1 DEF HeadInv
<1>10. FramesIntact'
  <2>1. Len(emitted') =< Len(sent')
    BY <1>1, <1>2, <1>7
  <2>2. ASSUME NEW i \in DOMAIN emitted'
        PROVE  emitted'[i].id = sent'[i].id /\ emitted'[i].body = Part(i, "body", sent'[i].size)
    <3>1. i \in DOMAIN emitted \/ i = Current
      BY <1>5 DEF Current
    <3>2. CASE i \in DOMAIN emitted
      BY <1>1, <1>5, <3>2 DEF IInv, FramesIntact
    <3>3. CASE i = Current
      BY <1>1, <1>2, <1>3, <1>5, <3>3
    <3> QED
      BY <3>1, <3>2, <3>3
  <2> QED
    BY <2>1, <2>2 DEF FramesIntact
<1>11. NoneEmpty'
  BY <1>1, <1>2, <1>5 DEF Current, IInv, NoneEmpty
<1> QED
  BY <1>1, <1>2, <1>6, <1>8, <1>9, <1>10, <1>11 DEF IInv, InSync

LEMMA InvWriteRequest ==
  ASSUME IInv, NEW m \in Messages, WriteRequest(m)
  PROVE  IInv'
<1> DEFINE n == Len(sent) + 1
           f == Frame(m, n)
<1>1. /\ sent \in Seq(Messages) /\ buffered \in Seq(Bytes) /\ chunk \in Seq(Bytes)
      /\ wire \in Seq(Bytes) /\ Len(sent) < MaxMessages /\ MaxMessages \in Nat
      /\ emitted \in Seq([body : Seq(Bytes), id : 0..MaxId])
  BY SizesAssumption DEF IInv, TypeOK, WriteRequest
<1>2. sent' \in Seq(Messages) /\ Len(sent') = n /\ n \in 1..MaxMessages
      /\ Len(sent) \in Nat /\ Len(sent') =< MaxMessages
      /\ \A i \in 1..Len(sent) : sent'[i] = sent[i]
  BY <1>1 DEF WriteRequest
<1>3. /\ f \in Seq(Bytes) /\ Len(f) = HEADER_SIZE + m.size
      /\ Part(n, "header", HEADER_SIZE) \in Seq(Bytes) /\ Part(n, "body", m.size) \in Seq(Bytes)
      /\ f[1] = Byte(n, "header", 1) /\ Len(f) \in Nat \ {0}
  <2>1. HEADER_SIZE \in Nat \ {0} /\ m.size \in Nat /\ 1 \in 1..HEADER_SIZE
    BY SizesAssumption DEF Messages
  <2> QED
    BY <1>2, <2>1, FrameProperties
<1>4. wire' = wire \o f
  <2>1. wire' = Cat(Cat(wire, Part(n, "header", HEADER_SIZE)), Part(n, "body", m.size))
    BY <1>2 DEF WriteRequest, Cat
  <2>2. wire \o f = Cat(wire, Cat(Part(n, "header", HEADER_SIZE), Part(n, "body", m.size)))
    BY DEF Frame, Cat
  <2> QED
    BY <1>1, <1>3, <2>1, <2>2, CatAssoc
<1>5. UNCHANGED <<chunk, buffered, bytesLeft, callback, callback_id, emitted>>
      /\ sent' = Append(sent, m)
  BY DEF WriteRequest
<1> HIDE DEF f
<1>6. Stream' = Stream \o f /\ Stream \in Seq(Bytes)
  <2>1. Stream \in Seq(Bytes)
    BY <1>1 DEF Stream
  <2>2. Stream \o f = Cat(Cat(buffered, Cat(chunk, wire)), f)
    BY DEF Stream, Cat
  <2>3. Stream' = Cat(buffered, Cat(chunk, Cat(wire, f)))
    BY <1>4, <1>5 DEF Stream, Cat
  <2> QED
    BY <1>1, <1>3, <2>1, <2>2, <2>3, CatAssoc
<1>7. Framed(Stream', sent')
  BY <1>1, <1>5, <1>6, FramedAppend DEF IInv, f
<1>8. Stream' # <<>> /\ (Stream # <<>> => Stream'[1] = Stream[1])
      /\ (Stream = <<>> => Stream'[1] = f[1])
  <2>1. /\ Len(Stream) \in Nat /\ Len(Stream') = Len(Stream) + Len(f)
        /\ \A i \in 1..Len(Stream) : Stream'[i] = Stream[i]
        /\ \A i \in 1..Len(f) : Stream'[Len(Stream) + i] = f[i]
    BY <1>3, <1>6, ConcatAtAll
  <2>2. Stream' # <<>>
    BY <1>3, <1>6, <2>1
  <2>3. Stream # <<>> => Len(Stream) # 0
    BY <1>6
  <2>4. Stream = <<>> => Len(Stream) = 0
    OBVIOUS
  <2> QED
    BY <1>3, <2>1, <2>2, <2>3, <2>4
<1>9. Current' = Current /\ CurrentPart' = CurrentPart
  BY <1>5 DEF Current, CurrentPart
<1>10. wire' \in Seq(Bytes)
  BY <1>1, <1>3, <1>4
<1>11. TypeOK'
  BY <1>2, <1>5, <1>10 DEF IInv, TypeOK
<1>12. callback = "onbody" => Current \in 1..Len(sent)
  <2>1. SUFFICES ASSUME callback = "onbody" PROVE Current \in 1..Len(sent)
    OBVIOUS
  <2>2. Stream # <<>> /\ Stream[1] = Byte(Current, CurrentPart, 1)
    BY <2>1 DEF IInv, HeadInv, Parsing
  <2>3. 1 \in DOMAIN Stream
    BY <1>6, <2>2
  <2>4. Stream[1].msg \in 1..Len(sent)
    BY <2>3 DEF IInv, Framed, FramedAt
  <2> QED
    BY <2>2, <2>4, ByteFields
<1>13. HeadInv'
  <2>4. SUFFICES ASSUME Parsing
                 PROVE  /\ Stream' # <<>> /\ Stream'[1] = Byte(Current', CurrentPart', 1)
                        /\ Len(buffered') + bytesLeft' = Size(sent', Current', CurrentPart')
                        /\ callback' = "onbody" => callback_id' = sent'[Current'].id
    BY <1>5, <1>8 DEF HeadInv, Parsing
  <2>1. Stream'[1] = Byte(Current, CurrentPart, 1)
    <3>1. CASE Stream # <<>>
      BY <1>8, <2>4, <3>1 DEF IInv, HeadInv
    <3>2. CASE Stream = <<>>
      <4>1. callback = "onheader" /\ Len(emitted) = Len(sent)
        BY <2>4, <3>2 DEF IInv, HeadInv
      <4> QED
        BY <1>3, <1>8, <3>2, <4>1 DEF Current, CurrentPart
    <3> QED
      BY <3>1, <3>2
  <2>2. Size(sent', Current, CurrentPart) = Size(sent, Current, CurrentPart)
    <3>1. callback \in {"onheader", "onbody"}
      BY <2>4 DEF Parsing
    <3> QED
      BY <1>2, <1>12, <3>1 DEF Size, CurrentPart
  <2>3. callback = "onbody" => callback_id = sent'[Current].id
    BY <1>2, <1>12, <2>4 DEF IInv, HeadInv
  <2> QED
    BY <1>5, <1>8, <1>9, <2>1, <2>2, <2>3, <2>4 DEF IInv, HeadInv
<1>14. FramesIntact'
  <2>1. Len(emitted) \in Nat /\ DOMAIN emitted = 1..Len(emitted)
    BY <1>1
  <2>2. Len(emitted) =< Len(sent) /\ Len(emitted') =< Len(sent')
    BY <1>2, <1>5, <2>1 DEF IInv, FramesIntact
  <2>3. \A i \in DOMAIN emitted : i \in 1..Len(sent)
    BY <1>2, <2>1, <2>2
  <2> QED
    BY <1>2, <1>5, <2>2, <2>3 DEF IInv, FramesIntact
<1>15. Len(emitted) \in Nat /\ \A i \in DOMAIN emitted : i \in 1..Len(sent)
  BY <1>1, <1>2 DEF IInv, FramesIntact
<1>16. NoneEmpty'
  BY <1>2, <1>5, <1>15 DEF IInv, NoneEmpty
<1>17. InSync'
  <2>1. callback # "thrown"
    BY DEF IInv, InSync
  <2>2. ASSUME callback = "ended"
        PROVE  Len(emitted) < Len(sent') /\ sent'[Len(emitted) + 1].size = 0
    <3>1. Len(emitted) < Len(sent) /\ sent[Len(emitted) + 1].size = 0
      BY <2>2 DEF IInv, InSync
    <3>2. Len(emitted) + 1 \in 1..Len(sent)
      BY <1>2, <1>15, <3>1
    <3> QED
      BY <1>2, <1>15, <3>1, <3>2
  <2> QED
    BY <1>5, <1>16, <2>1, <2>2 DEF InSync, NoneEmpty
<1> QED
  BY <1>2, <1>5, <1>7, <1>11, <1>13, <1>14, <1>16, <1>17 DEF IInv

LEMMA InvNext == IInv /\ [Next]_vars => IInv'
<1> SUFFICES ASSUME IInv, [Next]_vars PROVE IInv'
  OBVIOUS
<1>1. CASE UNCHANGED vars
  BY <1>1 DEF vars, IInv, TypeOK, InSync, NoneEmpty, HeadInv, Parsing, FramesIntact, Stream, Current, CurrentPart
<1>2. CASE Quiet
  BY <1>1, <1>2 DEF Quiet
<1> QED
  BY <1>1, <1>2, InvWriteRequest, InvTransform, InvProcess, Invonheader, Invonbody DEF Next

LEMMA InvAlways == Spec => []IInv
BY InvInit, InvNext, PTL DEF Spec

----------------------------------------------------------------------------
(* The theorems. *)

(* Wherever the socket cuts the stream, onheader never meets bytes that    *)
(* are not a header: the parser does not throw, and bytesLeft stays within *)
(* the part it counts.                                                     *)
THEOREM StaysInSync == Spec => []ParserInv
<1>1. IInv => ParserInv
  BY DEF IInv, ParserInv
<1> QED
  BY <1>1, InvAlways, PTL

(* The 'message' events are the requests in the order they were written,   *)
(* each with its own id and its whole body.                                *)
THEOREM RequestsIntact == Spec => []FramesIntact
<1>1. IInv => FramesIntact
  BY DEF IInv
<1> QED
  BY <1>1, InvAlways, PTL

=============================================================================
