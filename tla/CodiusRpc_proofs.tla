------------------------- MODULE CodiusRpc_proofs -------------------------
(***************************************************************************)
(* Theorems about CodiusRpc, for every set of calls and every value of its *)
(* other constants.                                                        *)
(***************************************************************************)
EXTENDS CodiusRpc, SequenceTheorems, TLAPS

----------------------------------------------------------------------------
(* Type correctness. *)

(* TypeOK is inductive with one more fact: a read loop never holds more    *)
(* units than the header announced.                                        *)
TypeInv ==
  /\ TypeOK
  /\ pc = "sync_body" => Len(got) =< rpc_header.size

(* Headers have the type of what the sandbox reads. *)
LEMMA HeaderType ==
  ASSUME NEW id \in Ids, NEW n \in 0..MaxBody
  PROVE  Header(id, n) \in Headers /\ <<Header(id, n)>> \in Seq(Units)
BY DEF Headers, Units

(* So has the body of a reply. *)
LEMMA BodyType ==
  ASSUME NEW r \in Calls, NEW n \in Sizes
  PROVE  Body(r, n) \in Seq(Units) /\ Len(Body(r, n)) = n
<1>1. n \in Nat /\ 1..n \subseteq Sizes
  BY ConstantsAssumption DEF Sizes
<1>2. \A i \in 1..n : BodyUnit(r, i) \in Units
  BY <1>1 DEF Units
<1>3. Body(r, n) \in [1..n -> Units]
  BY <1>2 DEF Body
<1> QED
  BY <1>1, <1>3

(* The header a failed read leaves behind is one. *)
LEMMA UnreadType == Unread \in Headers
BY ConstantsAssumption, HeaderType DEF Unread, Ids

(* A unit that is a header has an id and a size. *)
LEMMA UnitCases ==
  ASSUME NEW u \in Units, u.kind = "header"
  PROVE  u \in Headers
BY DEF Units, Headers, Header, BodyUnit

LEMMA HeaderFields ==
  ASSUME NEW h \in Headers
  PROVE  h.id \in Ids /\ h.size \in 0..MaxBody /\ h.size \in Nat
BY ConstantsAssumption DEF Headers, Header

(* ReadBody splits the readable units in two. *)
LEMMA ReadBodyType ==
  ASSUME NEW n \in Nat, down \in Seq(Units), got \in Seq(Units), ReadBody(n)
  PROVE  /\ down' \in Seq(Units) /\ got' \in Seq(Units)
         /\ Len(got') =< Len(got) + n
<1> DEFINE k == Lesser(n, Len(down))
<1>1. k \in Nat /\ k =< Len(down) /\ k =< n
  BY DEF Lesser
<1>2. SubSeq(down, 1, k) \in Seq(Units) /\ Len(SubSeq(down, 1, k)) = k
  BY <1>1
<1>3. SubSeq(down, k + 1, Len(down)) \in Seq(Units)
  BY <1>1
<1> QED
  BY <1>1, <1>2, <1>3 DEF ReadBody

(* A write adds its message to the stream, or ends the process. *)
LEMMA SendType ==
  ASSUME NEW msg \in Requests, NEW next, up \in Seq(Requests), Send(msg, next)
  PROVE  up' \in Seq(Requests) /\ pc' \in {next, "crashed"}
<1>1. CASE host = "up"
  <2>1. up' = Append(up, msg) /\ pc' = next
    BY <1>1 DEF Send
  <2> QED
    BY <2>1
<1>2. CASE host # "up"
  BY <1>2 DEF Send
<1> QED
  BY <1>1, <1>2

(* The initial state has the types. *)
LEMMA TypeInit == Init => TypeInv
<1> SUFFICES ASSUME Init PROVE TypeInv
  OBVIOUS
<1>1. SandboxTypes
  BY UnreadType DEF Init, SandboxTypes, Impls, Statuses, RunsFreely
<1>2. AsyncTypes
  BY ConstantsAssumption DEF Init, AsyncTypes
<1>3. HostTypes
  BY DEF Init, HostTypes
<1>4. StreamTypes
  BY DEF Init, StreamTypes
<1> QED
  BY <1>1, <1>2, <1>3, <1>4 DEF TypeInv, TypeOK, Init

(* The steps of the contract's JavaScript keep the types. *)
LEMMA TypeJavaScript == TypeInv /\ JavaScript => TypeInv'
<1> SUFFICES ASSUME TypeInv, JavaScript PROVE TypeInv'
  OBVIOUS
<1> USE DEF TypeInv, TypeOK
<1>1. ASSUME NEW r \in Calls, NEW f \in Impls, SyncCall(r, f)
      PROVE  TypeInv'
  <2>1. SandboxTypes'
    BY <1>1 DEF SyncCall, Send, SandboxTypes, Statuses, WaitsForHost, RunsFreely
  <2>2. StreamTypes'
    <3>1. [id |-> 0, call |-> r] \in Requests
      BY ConstantsAssumption DEF Requests, Ids
    <3> QED
      BY <1>1, <3>1, SendType DEF SyncCall, StreamTypes
  <2> QED
    BY <1>1, <2>1, <2>2 DEF SyncCall, Send, AsyncTypes, HostTypes, asyncVars, hostVars
<1>2. ASSUME NEW r \in Calls, PostMessage(r)
      PROVE  TypeInv'
  <2>1. SandboxTypes'
    BY <1>2 DEF PostMessage, Send, SandboxTypes, Statuses, RunsFreely
  <2>2. AsyncTypes'
    BY <1>2, ConstantsAssumption DEF PostMessage, AsyncTypes, Ids
  <2>3. StreamTypes'
    <3>1. [id |-> unique_id, call |-> r] \in Requests
      BY ConstantsAssumption DEF Requests, Ids, AsyncTypes
    <3> QED
      BY <1>2, <3>1, SendType DEF PostMessage, StreamTypes
  <2> QED
    BY <1>2, <2>1, <2>2, <2>3 DEF PostMessage, Send, HostTypes, hostVars
<1>3. ASSUME NEW r \in Calls, PostMessageNoIds(r)
      PROVE  TypeInv'
  BY <1>3 DEF PostMessageNoIds, SandboxTypes, AsyncTypes, HostTypes, StreamTypes,
              Statuses, asyncVars, hostVars, streamVars
<1>4. CASE StartTimer
  BY <1>4 DEF StartTimer, SandboxTypes, AsyncTypes, HostTypes, StreamTypes,
              sandboxVars, hostVars, streamVars
<1>5. CASE Return
  <2>1. SandboxTypes'
    BY <1>5 DEF Return, ReturnTo, SandboxTypes, RunsFreely
  <2>2. AsyncTypes'
    BY <1>5 DEF Return, AsyncTypes
  <2>3. pc' # "sync_body"
    BY <1>5 DEF Return, ReturnTo
  <2> QED
    BY <1>5, <2>1, <2>2, <2>3 DEF Return, HostTypes, StreamTypes, hostVars, streamVars
<1>6. CASE Throw
  BY <1>6 DEF Throw, SandboxTypes, AsyncTypes, HostTypes, StreamTypes,
              asyncVars, hostVars, streamVars
<1> QED
  BY <1>1, <1>2, <1>3, <1>4, <1>5, <1>6 DEF JavaScript

(* So do the steps of the event loop. *)
LEMMA TypeLoop == TypeInv /\ Loop => TypeInv'
<1> SUFFICES ASSUME TypeInv, Loop PROVE TypeInv'
  OBVIOUS
<1> USE DEF TypeInv, TypeOK
<1>1. CASE TimerFires
  BY <1>1 DEF TimerFires, SandboxTypes, AsyncTypes, HostTypes, StreamTypes,
              RunsFreely, hostVars, streamVars
<1>2. CASE Poll
  <2>1. up' \in Seq(Requests) /\ pc' \in {"poll_header", "crashed"}
    BY <1>2, SendType DEF Poll, StreamTypes, Requests
  <2> QED
    BY <1>2, <2>1 DEF Poll, SandboxTypes, AsyncTypes, HostTypes, StreamTypes,
                      WaitsForHost, asyncVars, hostVars
<1>3. CASE EndIteration
  BY <1>3 DEF EndIteration, SandboxTypes, AsyncTypes, HostTypes, StreamTypes,
              RunsFreely, asyncVars, hostVars, streamVars
<1>4. CASE EmitBeforeExit
  BY <1>4 DEF EmitBeforeExit, SandboxTypes, AsyncTypes, HostTypes, StreamTypes,
              RunsFreely, asyncVars, hostVars, streamVars
<1> QED
  BY <1>1, <1>2, <1>3, <1>4 DEF Loop

(* Reading a header leaves the rest of the stream. *)
LEMMA ReadHeaderType ==
  ASSUME NEW at, down \in Seq(Units), ReadHeader(at)
  PROVE  /\ Head(down) \in Units /\ down' \in Seq(Units)
         /\ got' = <<>> /\ got' \in Seq(Units) /\ Len(got') = 0
BY DEF ReadHeader

(* A read leaves the types as they are. *)
LEMMA TypeReads == TypeInv /\ Reads => TypeInv'
<1> SUFFICES ASSUME TypeInv, Reads PROVE TypeInv'
  OBVIOUS
<1> USE DEF TypeInv, TypeOK
<1>t. /\ SandboxTypes /\ AsyncTypes /\ HostTypes /\ StreamTypes
      /\ down \in Seq(Units) /\ got \in Seq(Units) /\ rpc_header \in Headers
      /\ rpc_header.size \in Nat
  BY HeaderFields DEF SandboxTypes, StreamTypes
<1>1. CASE SyncHeader
  <2>1. ReadHeader("sync_header") /\ Head(down).kind = "header"
    BY <1>1 DEF SyncHeader
  <2>2. /\ Head(down) \in Units /\ down' \in Seq(Units)
        /\ got' \in Seq(Units) /\ Len(got') = 0
    BY <1>t, <2>1, ReadHeaderType
  <2>3. Head(down) \in Headers
    BY <2>1, <2>2, UnitCases
  <2>4. rpc_header' \in Headers /\ rpc_header'.size \in Nat
    BY <1>1, <2>3, HeaderFields DEF SyncHeader
  <2>5. pc' \in {"crashed", "sync_body"}
    BY <1>1 DEF SyncHeader
  <2>6. UNCHANGED <<phase, call, impl, status, asyncVars, hostVars, up, hostOut>>
    BY <1>1 DEF SyncHeader
  <2>7. SandboxTypes'
    BY <1>t, <2>2, <2>4, <2>5, <2>6 DEF SandboxTypes, WaitsForHost
  <2>8. AsyncTypes' /\ HostTypes' /\ StreamTypes'
    BY <1>t, <2>2, <2>6 DEF AsyncTypes, HostTypes, StreamTypes, asyncVars, hostVars
  <2> QED
    BY <2>2, <2>4, <2>7, <2>8
<1>2. CASE SyncBadMagic
  <2>1. ReadHeader("sync_header")
    BY <1>2 DEF SyncBadMagic
  <2>2. down' \in Seq(Units) /\ got' \in Seq(Units)
    BY <1>t, <2>1, ReadHeaderType
  <2>3. SandboxTypes'
    BY <1>t, <1>2, <2>2 DEF SyncBadMagic, SandboxTypes, RunsFreely, Statuses
  <2> QED
    BY <1>t, <1>2, <2>2, <2>3
       DEF SyncBadMagic, AsyncTypes, HostTypes, StreamTypes, asyncVars, hostVars
<1>3. CASE SyncBody
  <2>1. rpc_header.size - Len(got) \in Nat
    BY <1>t, <1>3 DEF SyncBody
  <2>2. /\ down' \in Seq(Units) /\ got' \in Seq(Units)
        /\ Len(got') =< rpc_header.size
    BY <1>t, <1>3, <2>1, ReadBodyType DEF SyncBody
  <2>3. UNCHANGED <<phase, impl, rpc_header, asyncVars, hostVars, up, hostOut>>
    BY <1>3 DEF SyncBody
  <2>4. /\ pc' \in {"js", pc} /\ call' \in Calls \cup {None}
        /\ status' \in [Calls -> Statuses]
    BY <1>t, <1>3 DEF SyncBody, SandboxTypes, Outcome, Statuses
  <2>5. SandboxTypes'
    BY <1>t, <2>2, <2>3, <2>4 DEF SandboxTypes, RunsFreely
  <2> QED
    BY <1>t, <2>2, <2>3, <2>5
       DEF AsyncTypes, HostTypes, StreamTypes, asyncVars, hostVars
<1>4. CASE SyncBodyCrash
  <2>1. rpc_header.size - Len(got) \in Nat
    BY <1>t, <1>4 DEF SyncBodyCrash
  <2>2. down' \in Seq(Units) /\ got' \in Seq(Units)
    BY <1>t, <1>4, <2>1, ReadBodyType DEF SyncBodyCrash
  <2> QED
    BY <1>t, <1>4, <2>2 DEF SyncBodyCrash, SandboxTypes, AsyncTypes, HostTypes,
                            StreamTypes, asyncVars, hostVars
<1>5. CASE PollNothing
  <2>1. down' \in Seq(Units) /\ got' \in Seq(Units)
    BY <1>t, <1>5, ReadHeaderType DEF PollNothing
  <2> QED
    BY <1>t, <1>5, <2>1 DEF PollNothing, SandboxTypes, AsyncTypes, HostTypes,
                            StreamTypes, RunsFreely, asyncVars, hostVars
<1>6. CASE PollHeader
  <2>1. /\ Head(down) \in Units /\ down' \in Seq(Units) /\ got' \in Seq(Units)
    BY <1>t, <1>6, ReadHeaderType DEF PollHeader
  <2>2. Head(down) \in Headers
    BY <1>6, <2>1, UnitCases DEF PollHeader
  <2> QED
    BY <1>t, <1>6, <2>1, <2>2 DEF PollHeader, SandboxTypes, AsyncTypes, HostTypes,
                            StreamTypes, WaitsForHost, asyncVars, hostVars
<1>7. CASE PollBody
  <2>1. down' \in Seq(Units) /\ got' \in Seq(Units)
    BY <1>t, <1>7, ReadBodyType DEF PollBody
  <2>2. PICK c \in async_callbacks :
          /\ active_reqs' = active_reqs \ {c.work}
          /\ work' = c.work
          /\ fired' = Append(fired, c.work)
          /\ status' = [status EXCEPT ![c.work] = Outcome(c.work, got')]
    BY <1>7 DEF PollBody
  <2>3. c.work \in Calls
    BY <1>t DEF AsyncTypes
  <2>4. SandboxTypes'
    BY <1>t, <1>7, <2>1, <2>2 DEF PollBody, SandboxTypes, Outcome, Statuses, RunsFreely
  <2>5. AsyncTypes'
    BY <1>t, <1>7, <2>2, <2>3 DEF PollBody, AsyncTypes
  <2> QED
    BY <1>t, <1>7, <2>1, <2>4, <2>5 DEF PollBody, HostTypes, StreamTypes, hostVars
<1>8. CASE PollBodyCrash
  <2>1. down' \in Seq(Units) /\ got' \in Seq(Units)
    BY <1>t, <1>8, ReadBodyType DEF PollBodyCrash
  <2> QED
    BY <1>t, <1>8, <2>1 DEF PollBodyCrash, SandboxTypes, AsyncTypes, HostTypes,
                            StreamTypes, asyncVars, hostVars
<1>9. ASSUME NEW failed \in BOOLEAN, SyncHeaderEof(failed)
      PROVE  TypeInv'
  <2>1. UNCHANGED <<phase, impl, asyncVars, hostVars, streamVars>>
    BY <1>9 DEF SyncHeaderEof
  <2>2. CASE pc' = "js"
    BY <1>t, <1>9, <2>1, <2>2
       DEF SyncHeaderEof, SandboxTypes, AsyncTypes, HostTypes, StreamTypes,
           RunsFreely, Statuses, asyncVars, hostVars, streamVars
  <2>3. CASE pc' # "js"
    <3>1. /\ pc' = "sync_body" /\ rpc_header' = Unread /\ got' = <<>>
          /\ UNCHANGED <<call, status>>
      BY <1>9, <2>3 DEF SyncHeaderEof
    <3>2. rpc_header' \in Headers /\ rpc_header'.size \in Nat /\ Len(got') = 0
      BY <3>1, UnreadType, HeaderFields
    <3> QED
      BY <1>t, <2>1, <3>1, <3>2
         DEF SandboxTypes, AsyncTypes, HostTypes, StreamTypes,
             WaitsForHost, asyncVars, hostVars, streamVars
  <2> QED
    BY <2>2, <2>3
<1>10. CASE SyncBodyEof
  BY <1>t, <1>10 DEF SyncBodyEof, SandboxTypes, AsyncTypes, HostTypes, StreamTypes,
               RunsFreely, Statuses, asyncVars, hostVars, streamVars
<1>11. CASE PollEof
  BY <1>t, <1>11 DEF PollEof, SandboxTypes, AsyncTypes, HostTypes, StreamTypes,
               RunsFreely, asyncVars, hostVars, streamVars
<1> QED
  BY <1>1, <1>2, <1>3, <1>4, <1>5, <1>6, <1>7, <1>8, <1>9, <1>10, <1>11 DEF Reads

(* The two writes of an answer have the type of the host's output. *)
LEMMA WritesType ==
  ASSUME NEW id \in Ids, NEW r \in Calls, NEW n \in Sizes
  PROVE  Writes(id, r, n) \in Seq(Seq(Units))
<1>1. n \in 0..MaxBody
  BY ConstantsAssumption DEF Sizes
<1> QED
  BY <1>1, HeaderType, BodyType DEF Writes

(* The host's steps keep the types. *)
LEMMA TypeHost == TypeInv /\ Host => TypeInv'
<1> SUFFICES ASSUME TypeInv, Host PROVE TypeInv'
  OBVIOUS
<1> USE DEF TypeInv, TypeOK
<1>t. SandboxTypes /\ AsyncTypes /\ HostTypes /\ StreamTypes
  OBVIOUS
<1>1. CASE Deliver
  <2> DEFINE w == Head(hostOut)
             k == Lesser(Chunk, Len(w))
  <2>1. w \in Seq(Units) /\ Tail(hostOut) \in Seq(Seq(Units))
    BY <1>t, <1>1 DEF Deliver, StreamTypes
  <2>2. k \in Nat /\ k =< Len(w)
    BY <2>1, ConstantsAssumption DEF Lesser
  <2>3. /\ SubSeq(w, 1, k) \in Seq(Units)
        /\ SubSeq(w, k + 1, Len(w)) \in Seq(Units)
    BY <2>1, <2>2
  <2>4. <<SubSeq(w, k + 1, Len(w))>> \o Tail(hostOut) \in Seq(Seq(Units))
    BY <2>1, <2>3
  <2>5. down' \in Seq(Units)
    BY <1>t, <1>1, <2>3 DEF Deliver, StreamTypes
  <2>6. hostOut' \in Seq(Seq(Units))
    BY <1>1, <2>1, <2>4 DEF Deliver
  <2>7. UNCHANGED <<sandboxVars, asyncVars, hostVars, up>>
    BY <1>1 DEF Deliver
  <2> QED
    BY <1>t, <2>5, <2>6, <2>7
       DEF SandboxTypes, AsyncTypes, HostTypes, StreamTypes,
           sandboxVars, asyncVars, hostVars
<1>2. CASE HandlePoll
  <2>1. up' \in Seq(Requests)
    BY <1>t, <1>2 DEF HandlePoll, StreamTypes
  <2>2. UNCHANGED <<sandboxVars, asyncVars, host, pending, completed, down>>
    BY <1>2 DEF HandlePoll
  <2>3. /\ hostOut' \in Seq(Seq(Units))
        /\ async_responses' \in Seq([id : Ids, call : Calls, size : Sizes])
    <3>1. CASE async_responses = <<>>
      <4>1. <<Header(0, 0)>> \in Seq(Units)
        BY ConstantsAssumption, HeaderType DEF Ids
      <4>2. hostOut' = Append(hostOut, <<Header(0, 0)>>) /\ UNCHANGED async_responses
        BY <1>2, <3>1 DEF HandlePoll
      <4> QED
        BY <1>t, <4>1, <4>2 DEF StreamTypes, HostTypes
    <3>2. CASE async_responses # <<>>
      <4> DEFINE a == Head(async_responses)
      <4> DEFINE Answers == [id : Ids, call : Calls, size : Sizes]
      <4>0. async_responses \in Seq(Answers)
        BY <1>t DEF HostTypes
      <4>h. a \in Answers
        <5> HIDE DEF Answers
        <5> QED
          BY <3>2, <4>0
      <4>1. a \in [id : Ids, call : Calls, size : Sizes]
        BY <4>h
      <4>2. Writes(a.id, a.call, a.size) \in Seq(Seq(Units))
        BY <4>1, WritesType
      <4>3. /\ hostOut' = hostOut \o Writes(a.id, a.call, a.size)
            /\ async_responses' = Tail(async_responses)
        BY <1>2, <3>2 DEF HandlePoll
      <4> QED
        BY <1>t, <3>2, <4>2, <4>3 DEF StreamTypes, HostTypes
    <3> QED
      BY <3>1, <3>2
  <2> QED
    BY <1>t, <2>1, <2>2, <2>3
       DEF SandboxTypes, AsyncTypes, HostTypes, StreamTypes, sandboxVars, asyncVars
<1>3. CASE HandleCall
  <2>1. up' \in Seq(Requests) /\ Head(up) \in Requests
    BY <1>t, <1>3 DEF HandleCall, StreamTypes
  <2>2. Head(up) \in [id : Ids, call : Calls]
    BY <1>3, <2>1 DEF HandleCall, Requests
  <2> QED
    BY <1>t, <1>3, <2>1, <2>2
       DEF HandleCall, SandboxTypes, AsyncTypes, HostTypes, StreamTypes,
           sandboxVars, asyncVars
<1>4. ASSUME NEW m \in pending, NEW n \in Sizes, syncCallback(m, n)
      PROVE  TypeInv'
  <2>1. m \in [id : Ids, call : Calls] /\ 0 \in Ids
    BY <1>t, ConstantsAssumption DEF HostTypes, Ids
  <2>2. Writes(0, m.call, n) \in Seq(Seq(Units))
    BY <2>1, WritesType
  <2>3. hostOut' \in Seq(Seq(Units))
    BY <1>t, <1>4, <2>2 DEF syncCallback, StreamTypes
  <2> QED
    BY <1>t, <1>4, <2>3
       DEF syncCallback, SandboxTypes, AsyncTypes, HostTypes, StreamTypes,
           sandboxVars, asyncVars
<1>5. ASSUME NEW m \in pending, NEW n \in Sizes, asyncCallback(m, n)
      PROVE  TypeInv'
  <2>1. m.id \in Ids /\ m.call \in Calls
    BY <1>t DEF HostTypes
  <2>2. [id |-> m.id, call |-> m.call, size |-> n] \in [id : Ids, call : Calls, size : Sizes]
    BY <2>1
  <2>3. HostTypes'
    BY <1>t, <1>5, <2>1, <2>2 DEF asyncCallback, HostTypes
  <2> QED
    BY <1>t, <1>5, <2>3
       DEF asyncCallback, SandboxTypes, AsyncTypes, StreamTypes,
           sandboxVars, asyncVars, streamVars
<1>6. CASE HostDies
  BY <1>t, <1>6 DEF HostDies, SandboxTypes, AsyncTypes, HostTypes, StreamTypes,
              sandboxVars, asyncVars, streamVars
<1> QED
  BY <1>1, <1>2, <1>3, <1>4, <1>5, <1>6 DEF Host

(* Every step keeps TypeInv. *)
LEMMA TypeStep == TypeInv /\ [Next]_vars => TypeInv'
<1> SUFFICES ASSUME TypeInv, [Next]_vars PROVE TypeInv'
  OBVIOUS
<1>1. CASE UNCHANGED vars
  BY <1>1 DEF TypeInv, TypeOK, SandboxTypes, AsyncTypes, HostTypes, StreamTypes,
              vars, sandboxVars, asyncVars, hostVars, streamVars
<1> QED
  BY <1>1, TypeJavaScript, TypeLoop, TypeReads, TypeHost DEF Next, Ended

(* Type correctness, whatever the sizes of bodies and pieces and whether   *)
(* or not the host may end: callback ids stay in range and every read      *)
(* finds whole units.                                                      *)
THEOREM TypeCorrect == Spec => []TypeOK
<1>1. Init => TypeInv
  BY TypeInit
<1>2. TypeInv /\ [Next]_vars => TypeInv'
  BY TypeStep
<1>3. TypeInv => TypeOK
  BY DEF TypeInv
<1> QED
  BY <1>1, <1>2, <1>3, PTL DEF Spec

----------------------------------------------------------------------------
(***************************************************************************)
(* Replies match requests.  Neither codius_sync_call nor Sync_Call looks   *)
(* at the callback id of a reply: a call takes the next reply in the       *)
(* stream for its own.  That is right only because the sandbox has at most *)
(* one request on the wire that the host answers at once, and reads the    *)
(* whole of one answer before it sends the next such request.  WireInv     *)
(* says where that request or its answer is, for each place the sandbox's  *)
(* thread can be in.  It needs a host that stays and bodies that one read  *)
(* can take; without the second OwnReply is false (run rpc_short_read).    *)
(***************************************************************************)

UpAsync == \A i \in DOMAIN up : up[i].id # 0
PendingAsync == \A m \in pending : m.id # 0

(* Nothing is on its way to the sandbox. *)
Quiet == down = <<>> /\ hostOut = <<>>

(* The request msg, to be answered at once, is the last one sent ... *)
OnWire(msg) ==
  /\ Quiet /\ PendingAsync
  /\ up # <<>> /\ up[Len(up)] = msg
  /\ \A i \in 1..(Len(up) - 1) : up[i].id # 0

(* ... or the host is carrying it out. *)
InHost(msg) ==
  /\ Quiet /\ UpAsync
  /\ msg \in pending /\ \A m \in pending : m.id = 0 => m = msg

(* The answer with header h and body b is on its way, none of it read. *)
Coming(h, b) ==
  /\ UpAsync /\ PendingAsync
  /\ \/ down = <<>> /\ hostOut = <<<<h>>, b>>
     \/ down = <<h>> /\ hostOut = <<b>>
     \/ down = <<h>> \o b /\ hostOut = <<>>

(* Its header has been read. *)
BodyComing(b) ==
  /\ UpAsync /\ PendingAsync
  /\ \/ down = <<>> /\ hostOut = <<b>>
     \/ down = b /\ hostOut = <<>>

NothingComing ==
  /\ UpAsync /\ PendingAsync
  /\ \/ down = <<>> /\ hostOut = <<<<Header(0, 0)>>>>
     \/ down = <<Header(0, 0)>> /\ hostOut = <<>>

FreeInv == pc \in RunsFreely => Quiet /\ UpAsync /\ PendingAsync

SyncHeaderInv ==
  pc = "sync_header" =>
    /\ call \in Calls
    /\ \/ OnWire([id |-> 0, call |-> call])
       \/ InHost([id |-> 0, call |-> call])
       \/ \E n \in Sizes : Coming(Header(0, n), Body(call, n))

SyncBodyInv ==
  pc = "sync_body" =>
    /\ call \in Calls /\ got = <<>> /\ rpc_header.size \in Sizes
    /\ BodyComing(Body(call, rpc_header.size))

PollHeaderInv ==
  pc = "poll_header" =>
    \/ OnWire(RequestAsyncResponse)
    \/ NothingComing
    \/ \E c \in async_callbacks, n \in Sizes : Coming(Header(c.id, n), Body(c.work, n))

PollBodyInv ==
  pc = "poll_body" =>
    /\ got = <<>> /\ rpc_header.size \in Sizes
    /\ \E c \in async_callbacks : /\ c.id = rpc_header.id
                                 /\ BodyComing(Body(c.work, rpc_header.size))

(* Callback ids are never reused, and every asynchronous request or answer *)
(* carries the id its call was entered under.                              *)
Entered(m) == [id |-> m.id, work |-> m.call] \in async_callbacks

IdInv ==
  /\ \A c \in async_callbacks : c.id # 0 /\ c.id < unique_id
  /\ \A c, d \in async_callbacks : c.id = d.id => c = d
  /\ \A i \in DOMAIN up : up[i].id # 0 => Entered(up[i])
  /\ \A m \in pending : m.id # 0 => Entered(m)
  /\ \A i \in DOMAIN async_responses : Entered(async_responses[i])

WireInv ==
  /\ host = "up" /\ OwnReply
  /\ FreeInv /\ SyncHeaderInv /\ SyncBodyInv /\ PollHeaderInv /\ PollBodyInv
  /\ IdInv


(* The hypothesis: the host stays, and one read can take a whole body. *)
Whole == MaxBody =< Chunk /\ ~HostMayDie

----------------------------------------------------------------------------
(* Sequences. *)

LEMMA HeadTail ==
  ASSUME NEW h \in Units, NEW b \in Seq(Units)
  PROVE  /\ Head(<<h>> \o b) = h /\ Tail(<<h>> \o b) = b
         /\ <<h>> \o b # <<>>
<1>1. /\ Len(<<h>> \o b) = Len(b) + 1 /\ (<<h>> \o b)[1] = h
      /\ \A i \in 1..Len(b) : (<<h>> \o b)[i + 1] = b[i]
      /\ <<h>> \o b \in Seq(Units)
  OBVIOUS
<1>2. <<h>> \o b # <<>>
  BY <1>1
<1>3. /\ Tail(<<h>> \o b) \in Seq(Units) /\ Len(Tail(<<h>> \o b)) = Len(b)
      /\ \A i \in 1..Len(b) : Tail(<<h>> \o b)[i] = b[i]
  BY <1>1, <1>2
<1> QED
  BY <1>1, <1>2, <1>3

(* One read takes a body that is there and that it asked for. *)
LEMMA ReadAll ==
  ASSUME NEW b \in Seq(Units), down = b, got = <<>>, ReadBody(Len(b))
  PROVE  down' = <<>> /\ got' = b
<1>1. Lesser(Len(b), Len(down)) = Len(b)
  BY DEF Lesser
<1>2. down' = SubSeq(b, Len(b) + 1, Len(b)) /\ got' = <<>> \o SubSeq(b, 1, Len(b))
  BY <1>1 DEF ReadBody
<1>3. SubSeq(b, Len(b) + 1, Len(b)) = <<>>
  OBVIOUS
<1>4. SubSeq(b, 1, Len(b)) = b
  OBVIOUS
<1>5. <<>> \o b = b
  OBVIOUS
<1> QED
  BY <1>2, <1>3, <1>4, <1>5

(* The socket takes at once a write that is no longer than Chunk. *)
LEMMA DeliverWhole ==
  ASSUME Deliver, Head(hostOut) \in Seq(Units), Len(Head(hostOut)) =< Chunk
  PROVE  down' = down \o Head(hostOut) /\ hostOut' = Tail(hostOut)
<1>1. Lesser(Chunk, Len(Head(hostOut))) = Len(Head(hostOut))
  BY ConstantsAssumption DEF Lesser
<1>2. SubSeq(Head(hostOut), 1, Len(Head(hostOut))) = Head(hostOut)
  OBVIOUS
<1> QED
  BY <1>1, <1>2 DEF Deliver

(* What headers and body units look like to a reader. *)
LEMMA UnitFields ==
  ASSUME NEW id, NEW n
  PROVE  /\ Header(id, n).kind = "header" /\ Header(id, n).id = id
         /\ Header(id, n).size = n
BY DEF Header

LEMMA WireInit == Init => WireInv
BY DEF Init, WireInv, OwnReply, FreeInv, SyncHeaderInv, SyncBodyInv, PollHeaderInv,
       PollBodyInv, IdInv, Quiet, UpAsync, PendingAsync


(* The elements of a sequence with one more at its end. *)
LEMMA AppendFacts ==
  ASSUME NEW S, NEW q \in Seq(S), NEW e \in S
  PROVE  /\ Append(q, e) # <<>>
         /\ Append(q, e)[Len(Append(q, e))] = e
         /\ \A i \in 1..(Len(Append(q, e)) - 1) : i \in DOMAIN q /\ Append(q, e)[i] = q[i]
         /\ \A i \in DOMAIN Append(q, e) :
              (i \in DOMAIN q /\ Append(q, e)[i] = q[i]) \/ Append(q, e)[i] = e
<1>1. /\ Len(q) \in Nat /\ DOMAIN q = 1..Len(q)
      /\ Append(q, e) \in Seq(S) /\ Len(Append(q, e)) = Len(q) + 1
  OBVIOUS
<1>2. DOMAIN Append(q, e) = 1..(Len(q) + 1)
  BY <1>1
<1>3. \A i \in 1..Len(q) : Append(q, e)[i] = q[i]
  BY <1>1
<1>4. Append(q, e)[Len(q) + 1] = e
  BY <1>1
<1>5. \A i \in 1..(Len(q) + 1) : i \in 1..Len(q) \/ i = Len(q) + 1
  BY <1>1
<1>6. Append(q, e) # <<>>
  BY AppendProperties
<1>7. \A i \in 1..(Len(Append(q, e)) - 1) : i \in DOMAIN q /\ Append(q, e)[i] = q[i]
  <2>1. Len(Append(q, e)) - 1 = Len(q)
    BY <1>1
  <2> QED
    BY <1>1, <1>3, <2>1
<1>8. Append(q, e)[Len(Append(q, e))] = e
  BY <1>1, <1>4
<1>9. \A i \in DOMAIN Append(q, e) :
        (i \in DOMAIN q /\ Append(q, e)[i] = q[i]) \/ Append(q, e)[i] = e
  BY <1>1, <1>2, <1>3, <1>4, <1>5
<1> QED
  BY <1>6, <1>7, <1>8, <1>9

(* The elements of a sequence without its first one. *)
LEMMA TailFacts ==
  ASSUME NEW S, NEW q \in Seq(S), q # <<>>
  PROVE  /\ Head(q) = q[1] /\ 1 \in DOMAIN q
         /\ Len(Tail(q)) = Len(q) - 1
         /\ \A i \in DOMAIN Tail(q) : i + 1 \in DOMAIN q /\ Tail(q)[i] = q[i + 1]
<1>1. Len(q) \in Nat /\ Len(q) > 0 /\ DOMAIN q = 1..Len(q)
  OBVIOUS
<1>2. Tail(q) \in Seq(S) /\ Len(Tail(q)) = Len(q) - 1
  BY <1>1
<1>3. DOMAIN Tail(q) = 1..(Len(q) - 1)
  BY <1>1, <1>2
<1>4. \A i \in 1..(Len(q) - 1) : Tail(q)[i] = q[i + 1]
  BY <1>1
<1> QED
  BY <1>1, <1>2, <1>3, <1>4

(* The contract's steps keep WireInv. *)
LEMMA WireJavaScript == TypeInv /\ WireInv /\ JavaScript => WireInv'
<1> SUFFICES ASSUME TypeInv, WireInv, JavaScript PROVE WireInv'
  OBVIOUS
<1>t. /\ host = "up" /\ up \in Seq(Requests) /\ status \in [Calls -> Statuses]
      /\ unique_id \in 1..ULONG_MAX
  BY DEF TypeInv, TypeOK, SandboxTypes, AsyncTypes, StreamTypes, WireInv
<1>1. ASSUME NEW r \in Calls, NEW f \in Impls, SyncCall(r, f)
      PROVE  WireInv'
  <2> DEFINE msg == [id |-> 0, call |-> r]
  <2>1. /\ up' = Append(up, msg) /\ pc' = "sync_header" /\ call' = r
        /\ pc = "js" /\ status' = [status EXCEPT ![r] = "sync"]
        /\ UNCHANGED <<asyncVars, hostVars, hostOut, down>>
    BY <1>t, <1>1 DEF SyncCall, Send
  <2>2. msg \in Requests
    BY ConstantsAssumption DEF Requests, Ids
  <2>3. /\ up' # <<>> /\ up'[Len(up')] = msg
        /\ \A i \in 1..(Len(up') - 1) : i \in DOMAIN up /\ up'[i] = up[i]
        /\ \A i \in DOMAIN up' : (i \in DOMAIN up /\ up'[i] = up[i]) \/ up'[i] = msg
    BY <1>t, <2>1, <2>2, AppendFacts
  <2>4. Quiet /\ UpAsync /\ PendingAsync
    BY <2>1 DEF WireInv, FreeInv, RunsFreely
  <2>5. OnWire(msg)'
    BY <2>1, <2>3, <2>4 DEF OnWire, Quiet, UpAsync, PendingAsync, hostVars
  <2>6. IdInv'
    BY <2>1, <2>3 DEF WireInv, IdInv, Entered, asyncVars, hostVars
  <2>7. OwnReply'
    BY <1>t, <2>1 DEF WireInv, OwnReply
  <2> QED
    BY <1>t, <2>1, <2>5, <2>6, <2>7
       DEF WireInv, FreeInv, SyncHeaderInv, SyncBodyInv, PollHeaderInv, PollBodyInv,
           RunsFreely, hostVars
<1>2. ASSUME NEW r \in Calls, PostMessage(r)
      PROVE  WireInv'
  <2> DEFINE msg == [id |-> unique_id, call |-> r]
             new == [id |-> unique_id, work |-> r]
  <2>1. /\ up' = Append(up, msg) /\ pc' = "js" /\ pc = "js"
        /\ status' = [status EXCEPT ![r] = "async"]
        /\ async_callbacks' = async_callbacks \cup {new}
        /\ unique_id' = unique_id + 1
        /\ UNCHANGED <<hostVars, hostOut, down>>
    BY <1>t, <1>2 DEF PostMessage, Send
  <2>2. msg \in Requests /\ msg.id # 0
    BY <1>t, ConstantsAssumption DEF Requests, Ids
  <2>3. \A i \in DOMAIN up' : (i \in DOMAIN up /\ up'[i] = up[i]) \/ up'[i] = msg
    BY <1>t, <2>1, <2>2, AppendFacts
  <2>4. Quiet /\ UpAsync /\ PendingAsync
    BY <2>1 DEF WireInv, FreeInv, RunsFreely
  <2>5. Quiet' /\ UpAsync' /\ PendingAsync'
    BY <2>1, <2>2, <2>3, <2>4 DEF Quiet, UpAsync, PendingAsync, hostVars
  <2>6. IdInv'
    <3>1. /\ \A c \in async_callbacks : c.id # 0 /\ c.id < unique_id /\ c.id \in Nat
          /\ unique_id \in Nat /\ unique_id # 0
      BY <1>t, ConstantsAssumption
         DEF WireInv, IdInv, TypeInv, TypeOK, AsyncTypes, Ids
    <3>2. \A c \in async_callbacks' : c.id # 0 /\ c.id < unique_id'
      BY <2>1, <3>1
    <3>3. \A c, d \in async_callbacks' : c.id = d.id => c = d
      BY <2>1, <3>1 DEF WireInv, IdInv
    <3>4. \A i \in DOMAIN up' : up'[i].id # 0 => Entered(up[i])' 
      BY <2>1, <2>2, <2>3 DEF WireInv, IdInv, Entered
    <3>5. /\ \A m \in pending' : m.id # 0 => Entered(m)'
          /\ \A i \in DOMAIN async_responses' : Entered(async_responses[i])'
      BY <2>1 DEF WireInv, IdInv, Entered, hostVars
    <3> QED
      BY <3>2, <3>3, <3>4, <3>5 DEF IdInv
  <2>7. OwnReply'
    BY <1>t, <2>1 DEF WireInv, OwnReply
  <2> QED
    BY <1>t, <2>1, <2>5, <2>6, <2>7
       DEF WireInv, FreeInv, SyncHeaderInv, SyncBodyInv, PollHeaderInv, PollBodyInv,
           RunsFreely, hostVars
<1>3. ASSUME NEW r \in Calls, PostMessageNoIds(r)
      PROVE  WireInv'
  <2>1. OwnReply'
    BY <1>t, <1>3 DEF PostMessageNoIds, WireInv, OwnReply
  <2>2. IdInv'
    BY <1>3 DEF PostMessageNoIds, WireInv, IdInv, Entered, asyncVars, hostVars, streamVars
  <2> QED
    BY <1>t, <1>3, <2>1, <2>2
       DEF PostMessageNoIds, WireInv, FreeInv, SyncHeaderInv, SyncBodyInv,
           PollHeaderInv, PollBodyInv, RunsFreely, hostVars
<1>4. ASSUME StartTimer \/ Return \/ Throw
      PROVE  WireInv'
  <2>1. /\ pc = "js"
        /\ UNCHANGED <<status, unique_id, async_callbacks, hostVars, streamVars>>
    BY <1>4 DEF StartTimer, Return, Throw, sandboxVars, asyncVars
  <2>2. pc' \in RunsFreely \cup {"exited", "crashed"}
    BY <1>4, <2>1 DEF StartTimer, Return, ReturnTo, Throw, sandboxVars, RunsFreely
  <2>3. IdInv' /\ OwnReply'
    BY <2>1 DEF WireInv, OwnReply, IdInv, Entered, hostVars, streamVars
  <2>4. Quiet' /\ UpAsync' /\ PendingAsync'
    BY <2>1 DEF WireInv, FreeInv, RunsFreely, Quiet, UpAsync, PendingAsync,
                hostVars, streamVars
  <2> QED
    BY <1>t, <2>1, <2>2, <2>3, <2>4
       DEF WireInv, FreeInv, SyncHeaderInv, SyncBodyInv, PollHeaderInv, PollBodyInv,
           RunsFreely, hostVars
<1> QED
  BY <1>1, <1>2, <1>3, <1>4 DEF JavaScript

(* So do the steps of the event loop. *)
LEMMA WireLoop == TypeInv /\ WireInv /\ Loop => WireInv'
<1> SUFFICES ASSUME TypeInv, WireInv, Loop PROVE WireInv'
  OBVIOUS
<1>t. host = "up" /\ up \in Seq(Requests)
  BY DEF TypeInv, TypeOK, StreamTypes, WireInv
<1>1. CASE Poll
  <2>1. /\ up' = Append(up, RequestAsyncResponse) /\ pc' = "poll_header"
        /\ pc \in RunsFreely
        /\ UNCHANGED <<status, asyncVars, hostVars, hostOut, down>>
    BY <1>t, <1>1 DEF Poll, Send, RunsFreely
  <2>2. /\ up' # <<>> /\ up'[Len(up')] = RequestAsyncResponse
        /\ \A i \in 1..(Len(up') - 1) : i \in DOMAIN up /\ up'[i] = up[i]
        /\ \A i \in DOMAIN up' :
             (i \in DOMAIN up /\ up'[i] = up[i]) \/ up'[i] = RequestAsyncResponse
    BY <1>t, <2>1, AppendFacts DEF Requests
  <2>3. Quiet /\ UpAsync /\ PendingAsync
    BY <2>1 DEF WireInv, FreeInv
  <2>4. OnWire(RequestAsyncResponse)'
    BY <2>1, <2>2, <2>3
       DEF OnWire, Quiet, UpAsync, PendingAsync, hostVars, RequestAsyncResponse
  <2>5. IdInv'
    BY <2>1, <2>2 DEF WireInv, IdInv, Entered, asyncVars, hostVars, RequestAsyncResponse
  <2>6. OwnReply'
    BY <2>1 DEF WireInv, OwnReply
  <2> QED
    BY <1>t, <2>1, <2>4, <2>5, <2>6
       DEF WireInv, FreeInv, SyncHeaderInv, SyncBodyInv, PollHeaderInv, PollBodyInv,
           RunsFreely, hostVars
<1>2. ASSUME TimerFires \/ EndIteration \/ EmitBeforeExit
      PROVE  WireInv'
  <2>1. /\ pc \in RunsFreely /\ pc' \in RunsFreely
        /\ UNCHANGED <<status, unique_id, async_callbacks, hostVars, streamVars>>
    BY <1>2 DEF TimerFires, EndIteration, EmitBeforeExit, asyncVars, RunsFreely
  <2>2. IdInv' /\ OwnReply'
    BY <2>1 DEF WireInv, OwnReply, IdInv, Entered, hostVars, streamVars
  <2>3. Quiet' /\ UpAsync' /\ PendingAsync'
    BY <2>1 DEF WireInv, FreeInv, Quiet, UpAsync, PendingAsync, hostVars, streamVars
  <2> QED
    BY <1>t, <2>1, <2>2, <2>3
       DEF WireInv, FreeInv, SyncHeaderInv, SyncBodyInv, PollHeaderInv, PollBodyInv,
           RunsFreely, hostVars
<1> QED
  BY <1>1, <1>2 DEF Loop


(* Once the process has ended nothing is asked of the stream. *)
LEMMA WireEnded ==
  ASSUME pc' \in {"exited", "crashed"}, host' = "up", OwnReply', IdInv'
  PROVE  WireInv'
BY DEF WireInv, FreeInv, SyncHeaderInv, SyncBodyInv, PollHeaderInv, PollBodyInv, RunsFreely

(* Reads change neither ids nor what the host holds. *)
LEMMA IdUnchanged ==
  ASSUME IdInv, UNCHANGED <<unique_id, async_callbacks, up, pending, async_responses>>
  PROVE  IdInv'
BY DEF IdInv, Entered

(* What a reader of the next header finds. *)
LEMMA ReadComing ==
  ASSUME NEW h \in Headers, NEW b \in Seq(Units), Coming(h, b), down # <<>>,
         down' = Tail(down), UNCHANGED <<up, hostOut, pending>>
  PROVE  Head(down) = h /\ BodyComing(b)'
<1>1. UpAsync' /\ PendingAsync'
  BY DEF Coming, UpAsync, PendingAsync
<1>2. h \in Units
  BY DEF Units
<1>3. CASE down = <<h>> /\ hostOut = <<b>>
  <2>1. Head(down) = h /\ Tail(down) = <<>>
    BY <1>3
  <2> QED
    BY <1>1, <1>3, <2>1 DEF BodyComing
<1>4. CASE down = <<h>> \o b /\ hostOut = <<>>
  BY <1>1, <1>2, <1>4, HeadTail DEF BodyComing
<1> QED
  BY <1>3, <1>4 DEF Coming

(* What a reader of the body finds. *)
LEMMA ReadBodyComing ==
  ASSUME NEW r \in Calls, NEW n \in Sizes, BodyComing(Body(r, n)), got = <<>>,
         ReadBody(n), UNCHANGED <<up, hostOut, pending>>
  PROVE  got' = Body(r, n) /\ Quiet' /\ UpAsync' /\ PendingAsync'
<1>1. Body(r, n) \in Seq(Units) /\ Len(Body(r, n)) = n
  BY BodyType
<1>2. n > 0
  BY ConstantsAssumption DEF Sizes
<1>3. down # <<>>
  BY <1>2 DEF ReadBody
<1>4. down = Body(r, n) /\ hostOut = <<>>
  BY <1>3 DEF BodyComing
<1>5. down' = <<>> /\ got' = Body(r, n)
  <2>1. ReadBody(Len(Body(r, n)))
    BY <1>1
  <2> QED
    BY <1>1, <1>4, <2>1, ReadAll
<1> QED
  BY <1>4, <1>5 DEF BodyComing, Quiet, UpAsync, PendingAsync

(* A whole answer to its own call is an "ok" outcome. *)
LEMMA WholeIsOk ==
  ASSUME NEW r \in Calls, NEW n \in Sizes, rpc_header.size = n
  PROVE  Outcome(r, Body(r, n)) = "ok"
BY BodyType DEF Outcome

(* A header that announces a body is not one that announces none. *)
LEMMA HeaderUnits ==
  ASSUME NEW n \in Sizes, NEW id \in Ids
  PROVE  /\ Header(id, n) \in Headers
         /\ Header(id, n).kind = "header"
         /\ Header(id, n).size = n /\ n # 0
         /\ Header(id, n).id = id
<1>1. n \in 0..MaxBody /\ n # 0
  BY ConstantsAssumption DEF Sizes
<1> QED
  BY <1>1, HeaderType, UnitFields

(* What a synchronous call finds when it reads a header. *)
LEMMA SyncHeaderFinds ==
  ASSUME WireInv, ReadHeader("sync_header"), UNCHANGED <<up, hostOut, pending>>
  PROVE  \E r \in Calls, n \in Sizes :
           r = call /\ Head(down) = Header(0, n) /\ BodyComing(Body(r, n))'
<1>0. 0 \in Ids
  BY ConstantsAssumption DEF Ids
<1>1. pc = "sync_header" /\ down # <<>> /\ down' = Tail(down)
  BY DEF ReadHeader
<1>2. call \in Calls /\ \E n \in Sizes : Coming(Header(0, n), Body(call, n))
  BY <1>1 DEF WireInv, SyncHeaderInv, OnWire, InHost, Quiet
<1>3. PICK r \in Calls : r = call
  BY <1>2
<1>4. PICK n \in Sizes : Coming(Header(0, n), Body(r, n))
  BY <1>2, <1>3
<1>5. Head(down) = Header(0, n) /\ BodyComing(Body(r, n))'
  BY <1>0, <1>1, <1>4, HeaderUnits, BodyType, ReadComing
<1> QED
  BY <1>3, <1>5

LEMMA NoBadMagic == WireInv => ~SyncBadMagic
<1> SUFFICES ASSUME WireInv, SyncBadMagic PROVE FALSE
  OBVIOUS
<1>1. ReadHeader("sync_header") /\ Head(down).kind # "header" /\ UNCHANGED <<up, hostOut, pending>>
  BY DEF SyncBadMagic, hostVars
<1>2. PICK n \in Sizes : Head(down) = Header(0, n)
  BY <1>1, SyncHeaderFinds
<1> QED
  BY <1>1, <1>2, UnitFields

(* A synchronous call reads its whole answer. *)
LEMMA SyncBodyWhole ==
  ASSUME WireInv, pc = "sync_body", ReadBody(rpc_header.size - Len(got)),
         UNCHANGED <<up, hostOut, pending>>
  PROVE  /\ got' = Body(call, rpc_header.size) /\ Outcome(call, got') = "ok"
         /\ Len(got') = rpc_header.size /\ call \in Calls
         /\ Quiet' /\ UpAsync' /\ PendingAsync'
<1>1. /\ call \in Calls /\ got = <<>> /\ rpc_header.size \in Sizes
      /\ BodyComing(Body(call, rpc_header.size))
  BY DEF WireInv, SyncBodyInv
<1>2. PICK r \in Calls, n \in Sizes : r = call /\ n = rpc_header.size
  BY <1>1
<1>3. n - Len(got) = n
  BY <1>1, ConstantsAssumption DEF Sizes
<1>4. got' = Body(r, n) /\ Quiet' /\ UpAsync' /\ PendingAsync'
  BY <1>1, <1>2, <1>3, ReadBodyComing
<1> QED
  BY <1>1, <1>2, <1>4, BodyType, WholeIsOk

LEMMA NoBodyCrash == WireInv => ~SyncBodyCrash
BY SyncBodyWhole DEF SyncBodyCrash, hostVars

(* What a poll finds: nothing, ... *)
LEMMA PollNothingFinds ==
  ASSUME TypeInv, WireInv, PollNothing
  PROVE  NothingComing
<1>1. /\ pc = "poll_header" /\ down # <<>> /\ down' = Tail(down)
      /\ Head(down).kind = "header" => Head(down).size = 0
      /\ UNCHANGED <<pending, up, hostOut>>
  BY DEF PollNothing, ReadHeader, hostVars
<1>2. ASSUME NEW c \in async_callbacks, NEW n \in Sizes,
             Coming(Header(c.id, n), Body(c.work, n))
      PROVE  FALSE
  <2>1. c.id \in Ids /\ c.work \in Calls
    BY DEF TypeInv, TypeOK, AsyncTypes
  <2>2. Head(down) = Header(c.id, n)
    BY <1>1, <1>2, <2>1, HeaderUnits, BodyType, ReadComing
  <2> QED
    BY <1>1, <2>1, <2>2, HeaderUnits
<1> QED
  BY <1>1, <1>2 DEF WireInv, PollHeaderInv, OnWire, Quiet

(* ... or the header of the answer on its way. *)
LEMMA PollHeaderFinds ==
  ASSUME TypeInv, WireInv, PollHeader, NEW c \in async_callbacks, NEW n \in Sizes,
         Coming(Header(c.id, n), Body(c.work, n))
  PROVE  /\ rpc_header'.size = n /\ rpc_header'.id = c.id
         /\ BodyComing(Body(c.work, n))'
<1>1. /\ pc = "poll_header" /\ down # <<>> /\ down' = Tail(down)
      /\ rpc_header' = Head(down) /\ UNCHANGED <<pending, up, hostOut>>
  BY DEF PollHeader, ReadHeader, hostVars
<1>2. c.id \in Ids /\ c.work \in Calls
  BY DEF TypeInv, TypeOK, AsyncTypes
<1>3. Head(down) = Header(c.id, n) /\ BodyComing(Body(c.work, n))'
  BY <1>1, <1>2, HeaderUnits, BodyType, ReadComing
<1> QED
  BY <1>1, <1>2, <1>3, HeaderUnits

LEMMA NotIdleAtHeader ==
  ASSUME PollHeader
  PROVE  ~NothingComing /\ ~Quiet
BY UnitFields DEF PollHeader, ReadHeader, NothingComing, Quiet

(* A poll reads the whole answer and calls back its own call. *)
LEMMA PollBodyWhole ==
  ASSUME TypeInv, WireInv, PollBody
  PROVE  \E c \in async_callbacks :
           /\ c.id = rpc_header.id /\ active_reqs' = active_reqs \ {c.work} /\ work' = c.work
           /\ fired' = Append(fired, c.work) /\ status' = [status EXCEPT ![c.work] = "ok"]
           /\ Quiet' /\ UpAsync' /\ PendingAsync'
<1>1. /\ pc = "poll_body" /\ ReadBody(rpc_header.size)
      /\ UNCHANGED <<pending, up, hostOut>>
  BY DEF PollBody, hostVars
<1>2. PICK c \in async_callbacks :
        c.id = rpc_header.id /\ BodyComing(Body(c.work, rpc_header.size))
  BY <1>1 DEF WireInv, PollBodyInv
<1>3. got = <<>> /\ rpc_header.size \in Sizes
  BY <1>1 DEF WireInv, PollBodyInv
<1>4. PICK n \in Sizes : n = rpc_header.size
  BY <1>3
<1>5. c.work \in Calls
  BY DEF TypeInv, TypeOK, AsyncTypes
<1>6. got' = Body(c.work, n) /\ Quiet' /\ UpAsync' /\ PendingAsync'
  BY <1>1, <1>2, <1>3, <1>4, <1>5, ReadBodyComing
<1>7. Outcome(c.work, got') = "ok"
  BY <1>4, <1>5, <1>6, WholeIsOk
<1>8. PICK d \in async_callbacks :
        /\ d.id = rpc_header.id /\ status' = [status EXCEPT ![d.work] = Outcome(d.work, got')]
        /\ active_reqs' = active_reqs \ {d.work} /\ work' = d.work
        /\ fired' = Append(fired, d.work)
  BY DEF PollBody
<1>9. c = d
  BY <1>2, <1>8 DEF WireInv, IdInv
<1> QED
  BY <1>2, <1>6, <1>7, <1>8, <1>9

(* The host stays, so no read meets the end of the stream. *)
LEMMA NoEof ==
  WireInv => ~((\E failed \in BOOLEAN : SyncHeaderEof(failed)) \/ SyncBodyEof \/ PollEof)
BY DEF WireInv, SyncHeaderEof, SyncBodyEof, PollEof, EndOfFile

(* The sandbox's reads keep WireInv. *)
LEMMA WireReads == TypeInv /\ WireInv /\ Reads => WireInv'
<1> SUFFICES ASSUME TypeInv, WireInv, Reads PROVE WireInv'
  OBVIOUS
<1>t. /\ host = "up" /\ status \in [Calls -> Statuses] /\ OwnReply /\ IdInv
  BY DEF TypeInv, TypeOK, SandboxTypes, WireInv
<1>2. CASE SyncHeader
  <2>1. /\ ReadHeader("sync_header") /\ got' = <<>>
        /\ rpc_header' = Head(down) /\ pc' \in {"crashed", "sync_body"}
        /\ UNCHANGED <<call, status, asyncVars, hostVars, up, hostOut>>
    BY <1>2 DEF SyncHeader, ReadHeader
  <2>2. PICK r \in Calls, n \in Sizes :
          r = call /\ Head(down) = Header(0, n) /\ BodyComing(Body(r, n))'
    BY <2>1, SyncHeaderFinds DEF hostVars
  <2>5. rpc_header'.size = n
    BY <2>1, <2>2, UnitFields
  <2>6. IdInv' /\ OwnReply' /\ host' = "up"
    BY <1>t, <2>1, IdUnchanged DEF OwnReply, asyncVars, hostVars
  <2>7. SyncBodyInv'
    BY <2>1, <2>2, <2>5 DEF SyncBodyInv
  <2> QED
    BY <2>1, <2>6, <2>7
       DEF WireInv, FreeInv, SyncHeaderInv, PollHeaderInv, PollBodyInv, RunsFreely
<1>5. CASE SyncBody
  <2>1. /\ pc = "sync_body" /\ ReadBody(rpc_header.size - Len(got))
        /\ UNCHANGED <<asyncVars, hostVars, up, hostOut>>
    BY <1>5 DEF SyncBody
  <2>2. /\ Outcome(call, got') = "ok" /\ Len(got') = rpc_header.size
        /\ Quiet' /\ UpAsync' /\ PendingAsync'
    BY <2>1, SyncBodyWhole DEF hostVars
  <2>3. pc' = "js" /\ status' = [status EXCEPT ![call] = "ok"]
    BY <1>5, <2>2 DEF SyncBody
  <2>4. IdInv' /\ OwnReply' /\ host' = "up"
    BY <1>t, <2>1, <2>3, IdUnchanged DEF OwnReply, asyncVars, hostVars
  <2> QED
    BY <2>2, <2>3, <2>4
       DEF WireInv, FreeInv, SyncHeaderInv, SyncBodyInv, PollHeaderInv, PollBodyInv,
           RunsFreely
<1>7. CASE PollNothing
  <2>1. /\ pc = "poll_header" /\ down # <<>> /\ down' = Tail(down)
        /\ pc' = "timers" /\ UNCHANGED <<status, asyncVars, hostVars, up, hostOut>>
    BY <1>7 DEF PollNothing, ReadHeader
  <2>3. NothingComing
    BY <1>7, PollNothingFinds
  <2>4. down = <<Header(0, 0)>> /\ hostOut = <<>>
    BY <2>1, <2>3 DEF NothingComing
  <2>5. Quiet' /\ UpAsync' /\ PendingAsync'
    BY <2>1, <2>3, <2>4 DEF Quiet, NothingComing, UpAsync, PendingAsync, hostVars
  <2>6. IdInv' /\ OwnReply' /\ host' = "up"
    BY <1>t, <2>1, IdUnchanged DEF OwnReply, asyncVars, hostVars
  <2> QED
    BY <2>1, <2>5, <2>6
       DEF WireInv, FreeInv, SyncHeaderInv, SyncBodyInv, PollHeaderInv, PollBodyInv,
           RunsFreely
<1>8. CASE PollHeader
  <2>1. /\ pc = "poll_header" /\ got' = <<>>
        /\ pc' = "poll_body" /\ UNCHANGED <<status, asyncVars, hostVars, up, hostOut>>
    BY <1>8 DEF PollHeader, ReadHeader
  <2>2. ~NothingComing /\ ~Quiet
    BY <1>8, NotIdleAtHeader
  <2>3. PICK c \in async_callbacks, n \in Sizes : Coming(Header(c.id, n), Body(c.work, n))
    BY <2>1, <2>2 DEF WireInv, PollHeaderInv, OnWire
  <2>6. /\ rpc_header'.size = n /\ rpc_header'.id = c.id
        /\ BodyComing(Body(c.work, n))'
    BY <1>8, <2>3, PollHeaderFinds
  <2>7. IdInv' /\ OwnReply' /\ host' = "up"
    BY <1>t, <2>1, IdUnchanged DEF OwnReply, asyncVars, hostVars
  <2>8. PollBodyInv'
    BY <2>1, <2>6 DEF PollBodyInv, asyncVars
  <2> QED
    BY <2>1, <2>7, <2>8
       DEF WireInv, FreeInv, SyncHeaderInv, SyncBodyInv, PollHeaderInv, RunsFreely
<1>9. CASE PollBody
  <2>1. pc' = "js" /\ UNCHANGED <<unique_id, async_callbacks, hostVars, up, hostOut>>
    BY <1>9 DEF PollBody
  <2>2. PICK c \in async_callbacks : status' = [status EXCEPT ![c.work] = "ok"]
    BY <1>9, PollBodyWhole
  <2>3. Quiet' /\ UpAsync' /\ PendingAsync'
    BY <1>9, PollBodyWhole
  <2>4. IdInv' /\ OwnReply' /\ host' = "up"
    BY <1>t, <2>1, <2>2, IdUnchanged DEF OwnReply, hostVars
  <2> QED
    BY <2>1, <2>3, <2>4
       DEF WireInv, FreeInv, SyncHeaderInv, SyncBodyInv, PollHeaderInv, PollBodyInv,
           RunsFreely
<1>10. CASE PollBodyCrash
  <2>1. pc' = "crashed" /\ UNCHANGED <<status, asyncVars, hostVars, up>>
    BY <1>10 DEF PollBodyCrash
  <2>2. IdInv' /\ OwnReply' /\ host' = "up"
    BY <1>t, <2>1, IdUnchanged DEF OwnReply, asyncVars, hostVars
  <2> QED
    BY <2>1, <2>2, WireEnded
<1> QED
  BY <1>2, <1>5, <1>7, <1>8, <1>9, <1>10, NoBadMagic, NoBodyCrash, NoEof DEF Reads


(* The socket moves an answer on. *)
LEMMA DeliverComing ==
  ASSUME Whole, Deliver, NEW h \in Units, NEW b \in Seq(Units), Len(b) =< MaxBody,
         Coming(h, b)
  PROVE  Coming(h, b)'
<1>1. UpAsync' /\ PendingAsync' /\ hostOut # <<>>
  BY DEF Deliver, Coming, UpAsync, PendingAsync, hostVars
<1>2. Len(b) =< Chunk /\ 1 =< Chunk
  BY ConstantsAssumption DEF Whole
<1>3. CASE down = <<>> /\ hostOut = <<<<h>>, b>>
  <2>1. Head(hostOut) = <<h>> /\ Tail(hostOut) = <<b>>
    BY <1>3
  <2>2. <<h>> \in Seq(Units) /\ Len(<<h>>) = 1
    OBVIOUS
  <2>3. down' = <<>> \o <<h>> /\ hostOut' = <<b>>
    BY <1>2, <1>3, <2>1, <2>2, DeliverWhole
  <2>4. <<>> \o <<h>> = <<h>>
    BY <2>2, ConcatEmptySeq
  <2> QED
    BY <1>1, <2>3, <2>4 DEF Coming
<1>4. CASE down = <<h>> /\ hostOut = <<b>>
  <2>1. Head(hostOut) = b /\ Tail(hostOut) = <<>>
    BY <1>4
  <2>2. down' = <<h>> \o b /\ hostOut' = <<>>
    BY <1>2, <1>4, <2>1, DeliverWhole
  <2> QED
    BY <1>1, <2>2 DEF Coming
<1> QED
  BY <1>1, <1>3, <1>4 DEF Coming

LEMMA DeliverBody ==
  ASSUME Whole, Deliver, NEW b \in Seq(Units), Len(b) =< MaxBody, BodyComing(b)
  PROVE  BodyComing(b)'
<1>1. UpAsync' /\ PendingAsync' /\ hostOut # <<>>
  BY DEF Deliver, BodyComing, UpAsync, PendingAsync, hostVars
<1>2. Len(b) =< Chunk
  BY ConstantsAssumption DEF Whole
<1>3. down = <<>> /\ hostOut = <<b>>
  BY <1>1 DEF BodyComing
<1>4. Head(hostOut) = b /\ Tail(hostOut) = <<>>
  BY <1>3
<1>5. down' = <<>> \o b /\ hostOut' = <<>>
  BY <1>2, <1>3, <1>4, DeliverWhole
<1>6. <<>> \o b = b
  BY ConcatEmptySeq
<1> QED
  BY <1>1, <1>5, <1>6 DEF BodyComing

LEMMA DeliverNothing ==
  ASSUME Deliver, NothingComing
  PROVE  NothingComing'
<1>1. UpAsync' /\ PendingAsync' /\ hostOut # <<>>
  BY DEF Deliver, NothingComing, UpAsync, PendingAsync, hostVars
<1>2. down = <<>> /\ hostOut = <<<<Header(0, 0)>>>>
  BY <1>1 DEF NothingComing
<1>3. Head(hostOut) = <<Header(0, 0)>> /\ Tail(hostOut) = <<>>
  BY <1>2
<1>4. <<Header(0, 0)>> \in Seq(Units) /\ Len(<<Header(0, 0)>>) = 1 /\ 1 =< Chunk
  BY ConstantsAssumption, HeaderType DEF Ids
<1>5. down' = <<>> \o <<Header(0, 0)>> /\ hostOut' = <<>>
  BY <1>2, <1>3, <1>4, DeliverWhole
<1>6. <<>> \o <<Header(0, 0)>> = <<Header(0, 0)>>
  BY <1>4, ConcatEmptySeq
<1> QED
  BY <1>1, <1>5, <1>6 DEF NothingComing

(* Moving bytes on keeps WireInv. *)
LEMMA WireDeliver == Whole /\ TypeInv /\ WireInv /\ Deliver => WireInv'
<1> SUFFICES ASSUME Whole, TypeInv, WireInv, Deliver PROVE WireInv'
  OBVIOUS
<1>t. /\ pc \in RunsFreely \cup WaitsForHost \cup {"exited", "crashed"}
      /\ hostOut # <<>> /\ async_callbacks \subseteq [id : Ids, work : Calls]
      /\ UNCHANGED <<sandboxVars, asyncVars, hostVars, up>>
  BY DEF TypeInv, TypeOK, SandboxTypes, AsyncTypes, Deliver
<1>1. IdInv' /\ OwnReply' /\ host' = "up" /\ pc' = pc
  BY <1>t, IdUnchanged DEF WireInv, OwnReply, sandboxVars, asyncVars, hostVars
<1>b. \A r \in Calls, n \in Sizes, id \in Ids :
        /\ Body(r, n) \in Seq(Units) /\ Len(Body(r, n)) =< MaxBody
        /\ Header(id, n) \in Units
  <2> SUFFICES ASSUME NEW r \in Calls, NEW n \in Sizes, NEW id \in Ids
               PROVE  /\ Body(r, n) \in Seq(Units) /\ Len(Body(r, n)) =< MaxBody
                      /\ Header(id, n) \in Units
    OBVIOUS
  <2>1. n =< MaxBody /\ n \in 0..MaxBody
    BY ConstantsAssumption DEF Sizes
  <2>2. Header(id, n) \in Units
    BY <2>1, HeaderType DEF Units
  <2> QED
    BY <2>1, <2>2, BodyType
<1>0. 0 \in Ids
  BY ConstantsAssumption DEF Ids
<1>2. FreeInv'
  BY <1>t, <1>1 DEF WireInv, FreeInv, Quiet
<1>3. SyncHeaderInv'
  <2> SUFFICES ASSUME pc = "sync_header" PROVE SyncHeaderInv'
    BY <1>1 DEF SyncHeaderInv
  <2>1. PICK r \in Calls : r = call
    BY DEF WireInv, SyncHeaderInv
  <2>2. PICK n \in Sizes : Coming(Header(0, n), Body(r, n))
    BY <1>t, <2>1 DEF WireInv, SyncHeaderInv, OnWire, InHost, Quiet
  <2>3. Coming(Header(0, n), Body(r, n))'
    BY <1>0, <1>b, <2>2, DeliverComing
  <2> QED
    BY <1>t, <2>1, <2>3 DEF SyncHeaderInv, sandboxVars
<1>4. SyncBodyInv'
  <2> SUFFICES ASSUME pc = "sync_body" PROVE SyncBodyInv'
    BY <1>1 DEF SyncBodyInv
  <2>1. PICK r \in Calls, n \in Sizes : r = call /\ n = rpc_header.size
    BY DEF WireInv, SyncBodyInv
  <2>2. BodyComing(Body(r, n))'
    <3>1. BodyComing(Body(r, n))
      BY <2>1 DEF WireInv, SyncBodyInv
    <3> QED
      BY <1>0, <1>b, <3>1, DeliverBody
  <2> QED
    BY <1>t, <2>1, <2>2 DEF WireInv, SyncBodyInv, sandboxVars
<1>5. PollHeaderInv'
  <2> SUFFICES ASSUME pc = "poll_header" PROVE PollHeaderInv'
    BY <1>1 DEF PollHeaderInv
  <2>1. CASE NothingComing
    BY <2>1, DeliverNothing DEF PollHeaderInv
  <2>2. ASSUME NEW c \in async_callbacks, NEW n \in Sizes,
               Coming(Header(c.id, n), Body(c.work, n))
        PROVE  PollHeaderInv'
    <3>1. c.id \in Ids /\ c.work \in Calls
      BY <1>t
    <3>2. Coming(Header(c.id, n), Body(c.work, n))'
      BY <1>b, <2>2, <3>1, DeliverComing
    <3> QED
      BY <1>t, <3>2 DEF PollHeaderInv, asyncVars
  <2> QED
    BY <1>t, <2>1, <2>2 DEF WireInv, PollHeaderInv, OnWire, Quiet
<1>6. PollBodyInv'
  <2> SUFFICES ASSUME pc = "poll_body" PROVE PollBodyInv'
    BY <1>1 DEF PollBodyInv
  <2>1. PICK n \in Sizes : n = rpc_header.size
    BY DEF WireInv, PollBodyInv
  <2>2. PICK c \in async_callbacks : c.id = rpc_header.id /\ BodyComing(Body(c.work, n))
    BY <2>1 DEF WireInv, PollBodyInv
  <2>3. BodyComing(Body(c.work, n))'
    <3>1. c.work \in Calls
      BY <1>t
    <3> QED
      BY <1>0, <1>b, <2>2, <3>1, DeliverBody
  <2> QED
    BY <1>t, <2>1, <2>2, <2>3 DEF WireInv, PollBodyInv, sandboxVars, asyncVars
<1> QED
  BY <1>1, <1>2, <1>3, <1>4, <1>5, <1>6 DEF WireInv


(* A first element with id 0 is the only one. *)
LEMMA OnWireHead ==
  ASSUME NEW msg, up \in Seq(Requests), OnWire(msg), Head(up).id = 0
  PROVE  Head(up) = msg /\ Tail(up) = <<>>
<1>1. up # <<>> /\ Len(up) \in Nat \ {0}
  BY EmptySeq DEF OnWire
<1>2. Head(up) = up[1]
  BY <1>1, TailFacts
<1>3. \A i \in 1..(Len(up) - 1) : up[i].id # 0
  BY DEF OnWire
<1>4. Len(up) = 1
  <2>1. Len(up) # 1 => 1 \in 1..(Len(up) - 1)
    <3>1. \A k \in Nat \ {0} : k # 1 => 1 \in 1..(k - 1)
      OBVIOUS
    <3> QED
      BY <1>1, <3>1
  <2>2. 1 \notin 1..(Len(up) - 1)
    BY <1>2, <1>3
  <2> QED
    BY <2>1, <2>2
<1>5. Len(Tail(up)) = 0 /\ Tail(up) \in Seq(Requests)
  BY <1>1, <1>4, HeadTailProperties
<1>6. Tail(up) = <<>>
  BY <1>5, EmptySeq
<1>7. up[1] = msg
  BY <1>4 DEF OnWire
<1> QED
  BY <1>2, <1>6, <1>7

(* Taking another first element away leaves the request where it was. *)
LEMMA OnWireTail ==
  ASSUME NEW msg, up \in Seq(Requests), msg.id = 0, OnWire(msg), Head(up).id # 0,
         up' = Tail(up), PendingAsync', UNCHANGED <<down, hostOut>>
  PROVE  OnWire(msg)'
<1>1. /\ Len(up) \in Nat /\ Len(up) > 0 /\ Head(up) = up[1] /\ up[Len(up)] = msg
      /\ \A i \in 1..(Len(up) - 1) : up[i].id # 0
  BY DEF OnWire
<1>2. Len(up) > 1
  BY <1>1
<1>3. /\ Len(up') = Len(up) - 1 /\ up' \in Seq(Requests)
      /\ \A i \in 1..(Len(up) - 1) : up'[i] = up[i + 1]
  BY <1>1, HeadTailProperties DEF OnWire
<1>4. up' # <<>>
  <2>1. Len(up') # 0
    BY <1>1, <1>2, <1>3
  <2>2. Len(<<>>) = 0
    BY EmptySeq
  <2> QED
    BY <2>1, <2>2, Zenon
<1>5. up'[Len(up')] = msg
  BY <1>1, <1>2, <1>3
<1>6. \A i \in 1..(Len(up') - 1) : up'[i].id # 0
  BY <1>1, <1>2, <1>3
<1> QED
  BY <1>4, <1>5, <1>6 DEF OnWire, Quiet

(* Every element of the rest of a sequence is an element of it. *)
LEMMA UpAsyncTail ==
  ASSUME up \in Seq(Requests), up # <<>>, UpAsync, up' = Tail(up)
  PROVE  UpAsync' /\ Head(up).id # 0
<1>1. Head(up) = up[1] /\ 1 \in DOMAIN up
  BY TailFacts
<1>2. \A i \in DOMAIN up' : i + 1 \in DOMAIN up /\ up'[i] = up[i + 1]
  BY TailFacts
<1> QED
  BY <1>1, <1>2 DEF UpAsync

(* Starting an operation keeps WireInv. *)
LEMMA WireHandleCall == TypeInv /\ WireInv /\ HandleCall => WireInv'
<1> SUFFICES ASSUME TypeInv, WireInv, HandleCall PROVE WireInv'
  OBVIOUS
<1>t. /\ up \in Seq(Requests) /\ up # <<>> /\ up' = Tail(up)
      /\ pending' = pending \cup {Head(up)} /\ Head(up) # RequestAsyncResponse
      /\ UNCHANGED <<sandboxVars, asyncVars, host, async_responses, hostOut, down>>
  BY DEF TypeInv, TypeOK, StreamTypes, HandleCall
<1>f. /\ Head(up) = up[1] /\ 1 \in DOMAIN up
      /\ \A i \in DOMAIN up' : i + 1 \in DOMAIN up /\ up'[i] = up[i + 1]
  BY <1>t, TailFacts
<1>1. OwnReply' /\ host' = "up"
  BY <1>t DEF WireInv, OwnReply, sandboxVars
<1>2. IdInv'
  BY <1>t, <1>f DEF WireInv, IdInv, Entered, asyncVars
<1>3. ASSUME UpAsync, PendingAsync PROVE UpAsync' /\ PendingAsync'
  BY <1>3, <1>t, UpAsyncTail DEF PendingAsync
<1>4. FreeInv'
  BY <1>t, <1>3 DEF WireInv, FreeInv, Quiet, sandboxVars
<1>5. SyncHeaderInv'
  <2> SUFFICES ASSUME pc = "sync_header" PROVE SyncHeaderInv'
    BY <1>t DEF SyncHeaderInv, sandboxVars
  <2>1. PICK r \in Calls : r = call
    BY DEF WireInv, SyncHeaderInv
  <2> DEFINE msg == [id |-> 0, call |-> r]
  <2>2. r = call'
    BY <1>t, <2>1 DEF sandboxVars
  <2>3. CASE OnWire(msg) /\ Head(up).id = 0
    <3>1. Head(up) = msg /\ up' = <<>>
      BY <1>t, <2>3, OnWireHead
    <3>2. InHost(msg)'
      BY <1>t, <2>3, <3>1 DEF InHost, OnWire, Quiet, UpAsync, PendingAsync
    <3> QED
      BY <2>2, <3>2 DEF SyncHeaderInv
  <2>4. CASE OnWire(msg) /\ Head(up).id # 0
    <3>1. PendingAsync'
      BY <1>t, <2>4 DEF OnWire, PendingAsync
    <3>2. OnWire(msg)'
      BY <1>t, <2>4, <3>1, OnWireTail
    <3> QED
      BY <2>2, <3>2 DEF SyncHeaderInv
  <2>5. CASE InHost(msg)
    <3>1. UpAsync' /\ Head(up).id # 0
      BY <1>t, <2>5, UpAsyncTail DEF InHost
    <3>2. InHost(msg)'
      BY <1>t, <2>5, <3>1 DEF InHost, Quiet
    <3> QED
      BY <2>2, <3>2 DEF SyncHeaderInv
  <2>6. ASSUME NEW n \in Sizes, Coming(Header(0, n), Body(r, n))
        PROVE  SyncHeaderInv'
    <3>1. Coming(Header(0, n), Body(r, n))'
      BY <1>t, <1>3, <2>6 DEF Coming
    <3> QED
      BY <2>2, <3>1 DEF SyncHeaderInv
  <2> QED
    BY <2>1, <2>3, <2>4, <2>5, <2>6 DEF WireInv, SyncHeaderInv
<1>6. SyncBodyInv'
  BY <1>t, <1>3 DEF WireInv, SyncBodyInv, BodyComing, sandboxVars
<1>7. PollHeaderInv'
  <2> SUFFICES ASSUME pc = "poll_header" PROVE PollHeaderInv'
    BY <1>t DEF PollHeaderInv, sandboxVars
  <2>1. CASE OnWire(RequestAsyncResponse)
    <3>1. Head(up).id # 0
      BY <1>t, <2>1, OnWireHead
    <3>2. PendingAsync'
      BY <1>t, <2>1, <3>1 DEF OnWire, PendingAsync
    <3>3. OnWire(RequestAsyncResponse)'
      BY <1>t, <2>1, <3>1, <3>2, OnWireTail DEF RequestAsyncResponse
    <3> QED
      BY <3>3 DEF PollHeaderInv
  <2>2. CASE NothingComing
    <3>1. NothingComing'
      BY <1>t, <1>3, <2>2 DEF NothingComing
    <3> QED
      BY <3>1 DEF PollHeaderInv
  <2>3. ASSUME NEW c \in async_callbacks, NEW n \in Sizes,
               Coming(Header(c.id, n), Body(c.work, n))
        PROVE  PollHeaderInv'
    <3>1. Coming(Header(c.id, n), Body(c.work, n))'
      BY <1>t, <1>3, <2>3 DEF Coming
    <3> QED
      BY <1>t, <3>1 DEF PollHeaderInv, asyncVars
  <2> QED
    BY <2>1, <2>2, <2>3 DEF WireInv, PollHeaderInv
<1>8. PollBodyInv'
  BY <1>t, <1>3 DEF WireInv, PollBodyInv, BodyComing, sandboxVars, asyncVars
<1> QED
  BY <1>1, <1>2, <1>4, <1>5, <1>6, <1>7, <1>8 DEF WireInv


(* Nothing on its way but the two writes of an answer. *)
LEMMA WritesComing ==
  ASSUME NEW id \in Ids, NEW r \in Calls, NEW n \in Sizes, Quiet,
         hostOut' = hostOut \o Writes(id, r, n), down' = down, UpAsync', PendingAsync'
  PROVE  Coming(Header(id, n), Body(r, n))'
<1>1. <<>> \o Writes(id, r, n) = Writes(id, r, n)
  BY WritesType, ConcatEmptySeq
<1> QED
  BY <1>1 DEF Coming, Quiet, Writes

(* A poll is answered while the sandbox waits for it, with nothing or with *)
(* the oldest stored answer.                                               *)
LEMMA PollAnswered ==
  ASSUME TypeInv, WireInv, HandlePoll, ~ended
  PROVE  /\ pc = "poll_header" /\ OnWire(RequestAsyncResponse) /\ ~UpAsync
         /\ async_responses = <<>> => NothingComing'
         /\ async_responses # <<>> =>
              \E c \in async_callbacks, n \in Sizes :
                /\ c.work = async_responses[1].call
                /\ Coming(Header(c.id, n), Body(c.work, n))'
<1>t. /\ up \in Seq(Requests) /\ up # <<>> /\ up' = Tail(up)
      /\ Head(up) = RequestAsyncResponse
      /\ UNCHANGED <<sandboxVars, asyncVars, host, pending, down>>
      /\ pc \in RunsFreely \cup WaitsForHost
  BY DEF TypeInv, TypeOK, StreamTypes, SandboxTypes, HandlePoll, ended
<1>r. async_responses \in Seq([id : Ids, call : Calls, size : Sizes])
  BY DEF TypeInv, TypeOK, HostTypes
<1>3. ~UpAsync
  <2>1. Head(up) = up[1] /\ 1 \in DOMAIN up
    BY <1>t, TailFacts
  <2> QED
    BY <1>t, <2>1 DEF UpAsync, RequestAsyncResponse
<1>5. pc # "sync_header"
  <2> SUFFICES ASSUME pc = "sync_header" PROVE FALSE
    OBVIOUS
  <2>1. call \in Calls /\ OnWire([id |-> 0, call |-> call])
    BY <1>3 DEF WireInv, SyncHeaderInv, InHost, Coming
  <2>2. PICK r \in Calls : r = call
    BY <2>1
  <2>3. Head(up) = [id |-> 0, call |-> r]
    BY <1>t, <2>1, <2>2, OnWireHead DEF RequestAsyncResponse
  <2> QED
    BY <1>t, <2>3, ConstantsAssumption DEF RequestAsyncResponse
<1>7. pc \notin RunsFreely \cup {"sync_body", "poll_body"}
  BY <1>3 DEF WireInv, FreeInv, SyncBodyInv, PollBodyInv, BodyComing
<1>6. pc = "poll_header"
  BY <1>t, <1>5, <1>7 DEF WaitsForHost
<1>8. OnWire(RequestAsyncResponse)
  BY <1>3, <1>6 DEF WireInv, PollHeaderInv, NothingComing, Coming
<1>9. up' = <<>>
  BY <1>t, <1>8, OnWireHead DEF RequestAsyncResponse
<1>10. Quiet /\ UpAsync' /\ PendingAsync'
  BY <1>t, <1>8, <1>9 DEF OnWire, UpAsync, PendingAsync
<1>11. ASSUME async_responses = <<>> PROVE NothingComing'
  <2>1. hostOut' = Append(hostOut, <<Header(0, 0)>>)
    BY <1>11 DEF HandlePoll
  <2>2. hostOut' = <<<<Header(0, 0)>>>>
    BY <1>10, <2>1 DEF Quiet
  <2> QED
    BY <1>t, <1>10, <2>2 DEF NothingComing, Quiet
<1>12. ASSUME async_responses # <<>>
       PROVE  \E c \in async_callbacks, n \in Sizes :
                /\ c.work = async_responses[1].call
                /\ Coming(Header(c.id, n), Body(c.work, n))'
  <2>1. PICK a : a = Head(async_responses)
    OBVIOUS
  <2>2. a = async_responses[1] /\ 1 \in DOMAIN async_responses
    BY <1>r, <1>12, <2>1, TailFacts
  <2>3. a.id \in Ids /\ a.call \in Calls /\ a.size \in Sizes
    <3> DEFINE Answers == [id : Ids, call : Calls, size : Sizes]
    <3>1. a \in Answers
      <4> HIDE DEF Answers
      <4>1. async_responses \in Seq(Answers)
        BY <1>r DEF Answers
      <4> QED
        BY <1>12, <2>1, <4>1, HeadTailProperties
    <3> QED
      BY <3>1
  <2>4. hostOut' = hostOut \o Writes(a.id, a.call, a.size)
    BY <1>12, <2>1 DEF HandlePoll
  <2>5. Coming(Header(a.id, a.size), Body(a.call, a.size))'
    BY <1>t, <1>10, <2>3, <2>4, WritesComing
  <2>6. PICK c \in async_callbacks : c = [id |-> a.id, work |-> a.call]
    BY <2>2 DEF WireInv, IdInv, Entered
  <2>7. c.id = a.id /\ c.work = a.call
    BY <2>6
  <2> QED
    BY <2>2, <2>3, <2>5, <2>7
<1> QED
  BY <1>3, <1>6, <1>8, <1>11, <1>12

(* Answering a poll keeps WireInv. *)
LEMMA WireHandlePoll == TypeInv /\ WireInv /\ HandlePoll => WireInv'
<1> SUFFICES ASSUME TypeInv, WireInv, HandlePoll PROVE WireInv'
  OBVIOUS
<1>t. /\ up \in Seq(Requests) /\ up # <<>> /\ up' = Tail(up)
      /\ UNCHANGED <<sandboxVars, asyncVars, host, pending, down>>
  BY DEF TypeInv, TypeOK, StreamTypes, HandlePoll
<1>r. async_responses \in Seq([id : Ids, call : Calls, size : Sizes])
  BY DEF TypeInv, TypeOK, HostTypes
<1>f. \A i \in DOMAIN up' : i + 1 \in DOMAIN up /\ up'[i] = up[i + 1]
  BY <1>t, TailFacts
<1>1. OwnReply' /\ host' = "up"
  BY <1>t DEF WireInv, OwnReply, sandboxVars
<1>2. IdInv'
  <2>1. \A i \in DOMAIN async_responses' :
          \E j \in DOMAIN async_responses : async_responses'[i] = async_responses[j]
    <3>1. CASE async_responses = <<>>
      BY <3>1 DEF HandlePoll
    <3>2. CASE async_responses # <<>>
      <4>1. async_responses' = Tail(async_responses)
        BY <3>2 DEF HandlePoll
      <4>2. \A i \in DOMAIN Tail(async_responses) :
              /\ i + 1 \in DOMAIN async_responses
              /\ Tail(async_responses)[i] = async_responses[i + 1]
        BY <1>r, <3>2, TailFacts
      <4> QED
        BY <4>1, <4>2
    <3> QED
      BY <3>1, <3>2
  <2> QED
    BY <1>t, <1>f, <2>1 DEF WireInv, IdInv, Entered, asyncVars
<1>4. CASE ended
  <2>1. pc' \in {"exited", "crashed"}
    BY <1>t, <1>4 DEF sandboxVars, ended
  <2> QED
    BY <1>1, <1>2, <2>1, WireEnded
<1>6. CASE ~ended
  <2>1. pc' = "poll_header"
    BY <1>t, <1>6, PollAnswered DEF sandboxVars
  <2>2. PollHeaderInv'
    <3>1. CASE async_responses = <<>>
      BY <1>6, <3>1, PollAnswered DEF PollHeaderInv
    <3>2. CASE async_responses # <<>>
      <4>1. PICK c \in async_callbacks, n \in Sizes : Coming(Header(c.id, n), Body(c.work, n))'
        BY <1>6, <3>2, PollAnswered
      <4> QED
        BY <1>t, <4>1 DEF PollHeaderInv, asyncVars
    <3> QED
      BY <3>1, <3>2
  <2> QED
    BY <1>1, <1>2, <2>1, <2>2
       DEF WireInv, FreeInv, SyncHeaderInv, SyncBodyInv, PollBodyInv, RunsFreely
<1> QED
  BY <1>4, <1>6

(* A synchronous operation completes while its call waits for it. *)
LEMMA SyncAnswered ==
  ASSUME TypeInv, WireInv, NEW m \in pending, m.id = 0, ~ended
  PROVE  /\ pc = "sync_header" /\ InHost([id |-> 0, call |-> m.call])
         /\ m.call = call /\ m = [id |-> 0, call |-> m.call]
<1>t. /\ pc \in RunsFreely \cup WaitsForHost
      /\ m \in [id : Ids, call : Calls]
  BY DEF TypeInv, TypeOK, SandboxTypes, HostTypes, ended
<1>3. ~PendingAsync
  BY DEF PendingAsync
<1>6. pc \notin RunsFreely \cup {"sync_body", "poll_header", "poll_body"}
  BY <1>3 DEF WireInv, FreeInv, SyncBodyInv, PollHeaderInv, PollBodyInv, BodyComing,
              Coming, NothingComing, OnWire
<1>1. pc = "sync_header"
  BY <1>t, <1>6 DEF WaitsForHost
<1>2. PICK r \in Calls : r = call /\ InHost([id |-> 0, call |-> r])
  BY <1>1, <1>3 DEF WireInv, SyncHeaderInv, OnWire, Coming
<1>4. m = [id |-> 0, call |-> r]
  BY <1>t, <1>2 DEF InHost
<1> QED
  BY <1>1, <1>2, <1>4

(* Completing a synchronous call keeps WireInv. *)
LEMMA WireSyncCallback ==
  ASSUME TypeInv, WireInv, NEW m \in pending, NEW n \in Sizes, syncCallback(m, n)
  PROVE  WireInv'
<1>t. /\ m.id = 0 /\ pending' = pending \ {m}
      /\ hostOut' = hostOut \o Writes(0, m.call, n)
      /\ UNCHANGED <<sandboxVars, asyncVars, host, async_responses, up, down>>
      /\ m.call \in Calls
  BY DEF TypeInv, TypeOK, HostTypes, syncCallback
<1>1. OwnReply' /\ host' = "up"
  BY <1>t DEF WireInv, OwnReply, sandboxVars
<1>2. IdInv'
  BY <1>t DEF WireInv, IdInv, Entered, asyncVars
<1>4. CASE ended
  <2>1. pc' \in {"exited", "crashed"}
    BY <1>t, <1>4 DEF sandboxVars, ended
  <2> QED
    BY <1>1, <1>2, <2>1, WireEnded
<1>5. CASE ~ended
  <2>1. PICK r \in Calls : r = m.call
    BY <1>t
  <2>2. /\ pc = "sync_header" /\ InHost([id |-> 0, call |-> r])
        /\ r = call /\ m = [id |-> 0, call |-> r]
    BY <1>t, <1>5, <2>1, SyncAnswered
  <2>3. Quiet /\ UpAsync' /\ PendingAsync'
    BY <1>t, <2>2 DEF InHost, UpAsync, PendingAsync
  <2>5. Coming(Header(0, n), Body(r, n))'
    <3>1. 0 \in Ids
      BY ConstantsAssumption DEF Ids
    <3> QED
      BY <1>t, <2>1, <2>3, <3>1, WritesComing
  <2>6. SyncHeaderInv'
    BY <1>t, <2>2, <2>5 DEF SyncHeaderInv, sandboxVars
  <2> QED
    BY <1>t, <1>1, <1>2, <2>2, <2>6
       DEF WireInv, FreeInv, SyncBodyInv, PollHeaderInv, PollBodyInv, RunsFreely,
           sandboxVars
<1> QED
  BY <1>4, <1>5

(* Completing an asynchronous call keeps WireInv. *)
LEMMA WireAsyncCallback ==
  ASSUME TypeInv, WireInv, NEW m \in pending, NEW n \in Sizes, asyncCallback(m, n)
  PROVE  WireInv'
<1> DEFINE Answers == [id : Ids, call : Calls, size : Sizes]
           a == [id |-> m.id, call |-> m.call, size |-> n]
<1>t. /\ m.id # 0 /\ pending' = pending \ {m}
      /\ async_responses' = Append(async_responses, a)
      /\ UNCHANGED <<sandboxVars, asyncVars, host, up, down, hostOut>>
      /\ async_responses \in Seq(Answers) /\ a \in Answers
  BY DEF TypeInv, TypeOK, HostTypes, asyncCallback, streamVars
<1>1. OwnReply' /\ host' = "up"
  BY <1>t DEF WireInv, OwnReply, sandboxVars
<1>2. IdInv'
  <2>1. \A i \in DOMAIN async_responses' :
          \/ i \in DOMAIN async_responses /\ async_responses'[i] = async_responses[i]
          \/ async_responses'[i] = a
    <3> HIDE DEF Answers, a
    <3> QED
      BY <1>t, AppendFacts
  <2>2. Entered(m) /\ Entered(a)
    BY <1>t DEF WireInv, IdInv, Entered
  <2> QED
    BY <1>t, <2>1, <2>2 DEF WireInv, IdInv, Entered, asyncVars
<1>3. /\ Quiet => Quiet'
      /\ UpAsync => UpAsync'
      /\ PendingAsync => PendingAsync'
  BY <1>t DEF Quiet, UpAsync, PendingAsync
<1>4. FreeInv'
  BY <1>t, <1>3 DEF WireInv, FreeInv, sandboxVars
<1>5. SyncHeaderInv'
  <2> SUFFICES ASSUME pc = "sync_header" PROVE SyncHeaderInv'
    BY <1>t DEF SyncHeaderInv, sandboxVars
  <2>1. PICK r \in Calls : r = call
    BY DEF WireInv, SyncHeaderInv
  <2> DEFINE msg == [id |-> 0, call |-> r]
  <2>2. OnWire(msg) => OnWire(msg)'
    BY <1>t, <1>3 DEF OnWire
  <2>3. InHost(msg) => InHost(msg)'
    BY <1>t, <1>3 DEF InHost
  <2>4. ASSUME NEW k \in Sizes, Coming(Header(0, k), Body(r, k))
        PROVE  Coming(Header(0, k), Body(r, k))'
    BY <1>t, <1>3, <2>4 DEF Coming
  <2> QED
    BY <1>t, <2>1, <2>2, <2>3, <2>4 DEF WireInv, SyncHeaderInv, sandboxVars
<1>6. SyncBodyInv'
  BY <1>t, <1>3 DEF WireInv, SyncBodyInv, BodyComing, sandboxVars
<1>7. PollHeaderInv'
  BY <1>t, <1>3 DEF WireInv, PollHeaderInv, OnWire, NothingComing, Coming,
                    sandboxVars, asyncVars
<1>8. PollBodyInv'
  BY <1>t, <1>3 DEF WireInv, PollBodyInv, BodyComing, sandboxVars, asyncVars
<1> QED
  BY <1>1, <1>2, <1>4, <1>5, <1>6, <1>7, <1>8 DEF WireInv

(* Every step keeps WireInv. *)
LEMMA WireStep == Whole /\ TypeInv /\ WireInv /\ [Next]_vars => WireInv'
<1> SUFFICES ASSUME Whole, TypeInv, WireInv, [Next]_vars PROVE WireInv'
  OBVIOUS
<1>1. CASE Host
  <2>1. ~HostDies
    BY DEF Whole, HostDies
  <2> QED
    BY <1>1, <2>1, WireDeliver, WireHandlePoll, WireHandleCall, WireSyncCallback,
       WireAsyncCallback DEF Host
<1>2. CASE UNCHANGED vars
  BY <1>2 DEF vars, sandboxVars, asyncVars, hostVars, streamVars, WireInv, OwnReply,
              FreeInv, SyncHeaderInv, SyncBodyInv, PollHeaderInv, PollBodyInv, IdInv,
              Entered, Quiet, UpAsync, PendingAsync, OnWire, InHost, Coming, BodyComing,
              NothingComing
<1> QED
  BY <1>1, <1>2, WireJavaScript, WireLoop, WireReads DEF Next, Ended

LEMMA WireAlways ==
  ASSUME Whole PROVE Spec => [](TypeInv /\ WireInv)
<1>1. Init => TypeInv /\ WireInv
  BY TypeInit, WireInit
<1>2. TypeInv /\ WireInv /\ [Next]_vars => (TypeInv /\ WireInv)'
  BY TypeStep, WireStep
<1> QED
  BY <1>1, <1>2, PTL DEF Spec

(* A call is never given another call's answer or a part of its own, for   *)
(* any number of calls in any interleaving, when the host stays and one    *)
(* read can take a whole body.                                             *)
THEOREM RepliesMatch ==
  ASSUME MaxBody =< Chunk, ~HostMayDie
  PROVE  Spec => []OwnReply
<1>1. Spec => [](TypeInv /\ WireInv)
  BY WireAlways DEF Whole
<1>2. WireInv => OwnReply
  BY DEF WireInv
<1> QED
  BY <1>1, <1>2, PTL

(* Under the same hypotheses the sandbox and the host stay in step: while  *)
(* the sandbox runs nothing it has not read is on its way to it, and no    *)
(* request of its that is answered at once is unanswered.                  *)
THEOREM StaysInStep ==
  ASSUME MaxBody =< Chunk, ~HostMayDie
  PROVE  Spec => []Lockstep
<1>1. Spec => [](TypeInv /\ WireInv)
  BY WireAlways DEF Whole
<1>2. WireInv => Lockstep
  BY DEF WireInv, FreeInv, Quiet, UpAsync, PendingAsync, Lockstep
<1> QED
  BY <1>1, <1>2, PTL

----------------------------------------------------------------------------
(***************************************************************************)
(* A callback runs once.  The entry of a call is never taken out of        *)
(* async_callbacks, so a second answer with its id would run a callback    *)
(* whose request is deleted.  There is none, whatever becomes of the host  *)
(* and of the stream: TokenInv says that the id of a call is in one place  *)
(* on the way to the host, and AnswerInv that it is in one place on the    *)
(* way back.                                                               *)
(***************************************************************************)

TokenInv ==
  /\ \A c \in async_callbacks : c.id # 0 /\ c.id < unique_id /\ status[c.work] # "idle"
  /\ \A c, d \in async_callbacks : c.id = d.id \/ c.work = d.work => c = d
  /\ \A i \in DOMAIN up : up[i].id # 0 => Entered(up[i])
  /\ \A m \in pending : m.id # 0 => Entered(m)
  /\ \A i \in DOMAIN async_responses : Entered(async_responses[i])
  /\ \A i, j \in DOMAIN up : up[i].id # 0 /\ up[i].id = up[j].id => i = j
  /\ \A i \in DOMAIN up, m \in pending : up[i].id # 0 => up[i].id # m.id

(* An operation that was completed is neither asked for nor going on. *)
CompletedInv ==
  /\ \A i, j \in DOMAIN completed : completed[i] = completed[j] => i = j
  /\ \A i \in DOMAIN completed : \E c \in async_callbacks : c.work = completed[i]
  /\ \A i \in DOMAIN completed, j \in DOMAIN up : up[j].id # 0 => up[j].call # completed[i]
  /\ \A i \in DOMAIN completed, m \in pending : m.id # 0 => m.call # completed[i]

Carries(units, id) == \E i \in DOMAIN units : units[i].kind = "header" /\ units[i].id = id

(* The ids of the calls in a sequence of calls. *)
IdsOf(seq) ==
  {id \in Ids : \E c \in async_callbacks : c.id = id /\ \E i \in DOMAIN seq : seq[i] = c.work}

(* The ids whose answer is stored, written, readable, being read, and      *)
(* those whose callback has run.                                           *)
Stored == {id \in Ids : \E i \in DOMAIN async_responses : async_responses[i].id = id}
Written == {id \in Ids \ {0} : \E i \in DOMAIN hostOut : Carries(hostOut[i], id)}
Readable == {id \in Ids \ {0} : Carries(down, id)}
BeingRead == IF pc = "poll_body" THEN {rpc_header.id} \ {0} ELSE {}
Dispatched == IdsOf(fired)
Finished == IdsOf(completed)

OnePlace ==
  /\ Stored \cap (Written \cup Readable \cup BeingRead \cup Dispatched) = {}
  /\ Written \cap (Readable \cup BeingRead \cup Dispatched) = {}
  /\ Readable \cap (BeingRead \cup Dispatched) = {}
  /\ BeingRead \cap Dispatched = {}
  /\ Stored \cup Written \cup Readable \cup BeingRead \cup Dispatched \subseteq Finished

StoredOnce ==
  \A i, j \in DOMAIN async_responses : async_responses[i].id = async_responses[j].id => i = j

WrittenOnce ==
  \A id \in Ids \ {0} : \A i, j \in DOMAIN hostOut :
    Carries(hostOut[i], id) /\ Carries(hostOut[j], id) => i = j

ReadableOnce ==
  \A i, j \in DOMAIN down :
    down[i].kind = "header" /\ down[j].kind = "header" /\ down[i].id # 0 /\ down[i].id = down[j].id
    => i = j

(* A header is written by itself. *)
ShapeInv ==
  \A i \in DOMAIN hostOut :
    Len(hostOut[i]) = 1 \/ \A j \in DOMAIN hostOut[i] : hostOut[i][j].kind # "header"

FiredInv == \A i \in DOMAIN fired : \E c \in async_callbacks : c.work = fired[i]

AnswerInv ==
  OnePlace /\ StoredOnce /\ WrittenOnce /\ ReadableOnce /\ ShapeInv /\ FiredInv /\ CallbackOnce

SentInv == TokenInv /\ CompletedInv

----------------------------------------------------------------------------
(* The way to the host. *)

LEMMA OnceInit == Init => SentInv /\ AnswerInv
<1> SUFFICES ASSUME Init PROVE SentInv /\ AnswerInv
  OBVIOUS
<1>0. /\ pc = "js" /\ async_callbacks = {} /\ up = <<>> /\ pending = {} /\ fired = <<>>
      /\ async_responses = <<>> /\ completed = <<>> /\ hostOut = <<>> /\ down = <<>>
  BY DEF Init
<1>1. SentInv
  BY <1>0 DEF SentInv, TokenInv, CompletedInv, Entered
<1>2. Stored = {} /\ Written = {} /\ Readable = {} /\ BeingRead = {} /\ Dispatched = {}
  BY <1>0 DEF Stored, Written, Readable, BeingRead, Dispatched, Carries, IdsOf
<1>3. OnePlace
  BY <1>2 DEF OnePlace
<1>4. /\ StoredOnce /\ WrittenOnce /\ ReadableOnce /\ ShapeInv /\ FiredInv /\ CallbackOnce
  BY <1>0 DEF StoredOnce, WrittenOnce, ReadableOnce, ShapeInv, FiredInv, CallbackOnce
<1> QED
  BY <1>1, <1>3, <1>4 DEF AnswerInv

(* Steps that send nothing and complete nothing. *)
LEMMA SentFrame ==
  ASSUME SentInv,
         UNCHANGED <<async_callbacks, unique_id, up, pending, async_responses, completed>>,
         \A c \in async_callbacks : status'[c.work] # "idle"
  PROVE  SentInv'
BY DEF SentInv, TokenInv, CompletedInv, Entered

(* A call that has been made stays made. *)
LEMMA StatusKept ==
  ASSUME TypeInv, SentInv, NEW r, NEW s \in Statuses \ {"idle"},
         status' = status \/ status' = [status EXCEPT ![r] = s]
  PROVE  \A c \in async_callbacks : status'[c.work] # "idle"
<1>1. /\ status \in [Calls -> Statuses]
      /\ \A c \in async_callbacks : c.work \in Calls /\ status[c.work] # "idle"
  BY DEF TypeInv, TypeOK, SandboxTypes, AsyncTypes, SentInv, TokenInv
<1> QED
  BY <1>1

(* A request that is answered at once, or a poll, is sent. *)
LEMMA SentAtOnce ==
  ASSUME TypeInv, SentInv, NEW msg \in Requests, msg.id = 0, NEW next, Send(msg, next),
         UNCHANGED <<async_callbacks, unique_id, pending, async_responses, completed>>,
         \A c \in async_callbacks : status'[c.work] # "idle"
  PROVE  SentInv'
<1>0. up \in Seq(Requests)
  BY DEF TypeInv, TypeOK, StreamTypes
<1>1. CASE host = "up"
  <2>1. up' = Append(up, msg)
    BY <1>1 DEF Send
  <2>2. \A i \in DOMAIN up' : (i \in DOMAIN up /\ up'[i] = up[i]) \/ up'[i] = msg
    BY <1>0, <2>1, AppendFacts
  <2>3. \A i \in DOMAIN up' : up'[i].id # 0 => i \in DOMAIN up /\ up'[i] = up[i]
    BY <2>2
  <2>4. TokenInv'
    BY <2>3 DEF SentInv, TokenInv, Entered
  <2>5. CompletedInv'
    BY <2>3 DEF SentInv, CompletedInv
  <2> QED
    BY <2>4, <2>5 DEF SentInv
<1>2. CASE host # "up"
  BY <1>2, SentFrame DEF Send
<1> QED
  BY <1>1, <1>2

(* PostMessage enters its call under a fresh id. *)
LEMMA SentPostMessage ==
  ASSUME TypeInv, SentInv, NEW r \in Calls, PostMessage(r)
  PROVE  SentInv'
<1> DEFINE msg == [id |-> unique_id, call |-> r]
           new == [id |-> unique_id, work |-> r]
<1>0. /\ up \in Seq(Requests) /\ unique_id \in Nat /\ unique_id # 0
      /\ status \in [Calls -> Statuses] /\ \A c \in async_callbacks : c.id \in Nat /\ c.work \in Calls
      /\ unique_id \in Ids
  BY ConstantsAssumption DEF TypeInv, TypeOK, StreamTypes, AsyncTypes, SandboxTypes, Ids
<1>1. /\ async_callbacks' = async_callbacks \cup {new}
      /\ unique_id' = unique_id + 1
      /\ status' = [status EXCEPT ![r] = "async"] /\ status[r] = "idle"
      /\ UNCHANGED <<pending, async_responses, completed>>
  BY DEF PostMessage, hostVars
<1>2. msg \in Requests
  BY <1>0 DEF Requests
<1>3. \A i \in DOMAIN up' :
        \/ i \in DOMAIN up /\ up'[i] = up[i]
        \/ i = Len(up) + 1 /\ up'[i] = msg
  <2>1. CASE host = "up"
    <3>1. up' = Append(up, msg)
      BY <2>1 DEF PostMessage, Send
    <3>2. Len(up) \in Nat /\ DOMAIN up = 1..Len(up) /\ DOMAIN up' = 1..(Len(up) + 1)
      BY <1>0, <1>2, <3>1
    <3>3. (\A i \in 1..Len(up) : up'[i] = up[i]) /\ up'[Len(up) + 1] = msg
      BY <1>0, <1>2, <3>1
    <3> HIDE DEF msg
    <3>4. \A i \in 1..(Len(up) + 1) : i \in 1..Len(up) \/ i = Len(up) + 1
      BY <3>2
    <3> QED
      BY <3>2, <3>3, <3>4
  <2>2. CASE host # "up"
    BY <2>2 DEF PostMessage, Send
  <2> QED
    BY <2>1, <2>2
<1>4. \A c \in async_callbacks : c.id # unique_id /\ c.work # r
  BY <1>0, <1>1 DEF SentInv, TokenInv
<1>5. \A i \in DOMAIN up : up[i].id # 0 => up[i].id # unique_id /\ up[i].call # r
  <2> SUFFICES ASSUME NEW i \in DOMAIN up, up[i].id # 0 PROVE up[i].id # unique_id /\ up[i].call # r
    OBVIOUS
  <2>1. [id |-> up[i].id, work |-> up[i].call] \in async_callbacks
    BY DEF SentInv, TokenInv, Entered
  <2> QED
    BY <1>4, <2>1
<1>6. \A m \in pending : m.id # 0 => m.id # unique_id /\ m.call # r
  <2> SUFFICES ASSUME NEW m \in pending, m.id # 0 PROVE m.id # unique_id /\ m.call # r
    OBVIOUS
  <2>1. [id |-> m.id, work |-> m.call] \in async_callbacks
    BY DEF SentInv, TokenInv, Entered
  <2> QED
    BY <1>4, <2>1
<1>7. \A i \in DOMAIN completed : completed[i] # r
  BY <1>4 DEF SentInv, CompletedInv
<1>8. msg.id = unique_id /\ msg.call = r /\ new.id = unique_id /\ new.work = r
      /\ new = [id |-> msg.id, work |-> msg.call]
  OBVIOUS
<1> HIDE DEF msg, new
<1>9. \A c \in async_callbacks' : c.id # 0 /\ c.id < unique_id' /\ status'[c.work] # "idle"
  <2> SUFFICES ASSUME NEW c \in async_callbacks' PROVE c.id # 0 /\ c.id < unique_id' /\ status'[c.work] # "idle"
    OBVIOUS
  <2>1. CASE c = new
    BY <1>0, <1>1, <1>8, <2>1
  <2>2. CASE c \in async_callbacks
    BY <1>0, <1>1, <2>2 DEF SentInv, TokenInv
  <2> QED
    BY <1>1, <2>1, <2>2
<1>10. \A c, d \in async_callbacks' : c.id = d.id \/ c.work = d.work => c = d
  BY <1>1, <1>4, <1>8 DEF SentInv, TokenInv
<1>12. \A i \in DOMAIN up' : up'[i].id # 0 => [id |-> up'[i].id, work |-> up'[i].call] \in async_callbacks'
  BY <1>1, <1>3, <1>8 DEF SentInv, TokenInv, Entered
<1>13. \A i, j \in DOMAIN up' : up'[i].id # 0 /\ up'[i].id = up'[j].id => i = j
  BY <1>3, <1>5, <1>8 DEF SentInv, TokenInv
<1>14. \A i \in DOMAIN up', m \in pending : up'[i].id # 0 => up'[i].id # m.id
  BY <1>0, <1>3, <1>6, <1>8 DEF SentInv, TokenInv
<1>15. TokenInv'
  BY <1>1, <1>9, <1>10, <1>12, <1>13, <1>14 DEF SentInv, TokenInv, Entered
<1>16. CompletedInv'
  BY <1>1, <1>3, <1>7, <1>8 DEF SentInv, CompletedInv
<1> QED
  BY <1>15, <1>16 DEF SentInv

(* The host takes a request; an asynchronous one is then going on. *)
LEMMA SentHandleCall ==
  ASSUME TypeInv, SentInv, HandleCall
  PROVE  SentInv'
<1>1. /\ up \in Seq(Requests) /\ up # <<>> /\ up' = Tail(up)
      /\ pending' = pending \cup {Head(up)}
      /\ UNCHANGED <<async_callbacks, unique_id, async_responses, completed, status>>
  BY DEF TypeInv, TypeOK, StreamTypes, HandleCall, sandboxVars, asyncVars
<1>2. /\ Head(up) = up[1] /\ 1 \in DOMAIN up
      /\ \A i \in DOMAIN up' : i + 1 \in DOMAIN up /\ up'[i] = up[i + 1]
  BY <1>1, TailFacts
<1>3. \A i \in DOMAIN up' : i \in Nat /\ i + 1 # 1
  <2>1. DOMAIN up' = 1..Len(up')
    BY <1>1
  <2> QED
    BY <1>1, <2>1
<1>4. TokenInv'
  <2>1. \A i, j \in DOMAIN up' : up'[i].id # 0 /\ up'[i].id = up'[j].id => i = j
    <3> SUFFICES ASSUME NEW i \in DOMAIN up', NEW j \in DOMAIN up', up'[i].id # 0, up'[i].id = up'[j].id PROVE i = j
      OBVIOUS
    <3>1. i + 1 = j + 1
      BY <1>2 DEF SentInv, TokenInv
    <3> QED
      BY <1>3, <3>1
  <2>2. \A i \in DOMAIN up', m \in pending' : up'[i].id # 0 => up'[i].id # m.id
    BY <1>1, <1>2, <1>3 DEF SentInv, TokenInv
  <2> QED
    BY <1>1, <1>2, <2>1, <2>2 DEF SentInv, TokenInv, Entered
<1>5. CompletedInv'
  BY <1>1, <1>2 DEF SentInv, CompletedInv
<1> QED
  BY <1>4, <1>5 DEF SentInv

(* The host takes a poll. *)
LEMMA SentHandlePoll ==
  ASSUME TypeInv, SentInv, HandlePoll
  PROVE  SentInv'
<1>1. /\ up \in Seq(Requests) /\ up # <<>> /\ up' = Tail(up)
      /\ UNCHANGED <<async_callbacks, unique_id, pending, completed, status>>
      /\ async_responses \in Seq([id : Ids, call : Calls, size : Sizes])
      /\ \/ UNCHANGED async_responses
         \/ async_responses # <<>> /\ async_responses' = Tail(async_responses)
  BY DEF TypeInv, TypeOK, StreamTypes, HostTypes, HandlePoll, sandboxVars, asyncVars
<1>2. /\ Head(up) = up[1] /\ 1 \in DOMAIN up
      /\ \A i \in DOMAIN up' : i + 1 \in DOMAIN up /\ up'[i] = up[i + 1]
  BY <1>1, TailFacts
<1>3. \A i \in DOMAIN up' : i \in Nat /\ i + 1 # 1
  <2>1. DOMAIN up' = 1..Len(up')
    BY <1>1
  <2> QED
    BY <1>1, <2>1
<1>a. \A i \in DOMAIN async_responses' : \E j \in DOMAIN async_responses : async_responses'[i] = async_responses[j]
  <2>1. CASE UNCHANGED async_responses
    BY <2>1
  <2>2. CASE async_responses # <<>> /\ async_responses' = Tail(async_responses)
    BY <1>1, <2>2, TailFacts
  <2> QED
    BY <1>1, <2>1, <2>2
<1>4. TokenInv'
  <2>1. \A i, j \in DOMAIN up' : up'[i].id # 0 /\ up'[i].id = up'[j].id => i = j
    <3> SUFFICES ASSUME NEW i \in DOMAIN up', NEW j \in DOMAIN up', up'[i].id # 0, up'[i].id = up'[j].id PROVE i = j
      OBVIOUS
    <3>1. i + 1 = j + 1
      BY <1>2 DEF SentInv, TokenInv
    <3> QED
      BY <1>3, <3>1
  <2>2. \A i \in DOMAIN up', m \in pending' : up'[i].id # 0 => up'[i].id # m.id
    BY <1>1, <1>2 DEF SentInv, TokenInv
  <2>3. \A i \in DOMAIN async_responses' : [id |-> async_responses'[i].id, work |-> async_responses'[i].call] \in async_callbacks
    BY <1>a DEF SentInv, TokenInv, Entered
  <2> QED
    BY <1>1, <1>2, <2>1, <2>2, <2>3 DEF SentInv, TokenInv, Entered
<1>5. CompletedInv'
  BY <1>1, <1>2 DEF SentInv, CompletedInv
<1> QED
  BY <1>4, <1>5 DEF SentInv

(* An asynchronous operation completes. *)
LEMMA SentAsyncCallback ==
  ASSUME TypeInv, SentInv, NEW m \in pending, NEW n \in Sizes, asyncCallback(m, n)
  PROVE  /\ SentInv' /\ \A i \in DOMAIN completed : completed[i] # m.call
<1> DEFINE ans == [id |-> m.id, call |-> m.call, size |-> n]
<1>0. /\ async_responses \in Seq([id : Ids, call : Calls, size : Sizes])
      /\ completed \in Seq(Calls) /\ m.id \in Ids /\ m.call \in Calls
  BY DEF TypeInv, TypeOK, HostTypes
<1>1. /\ m.id # 0 /\ pending' = pending \ {m}
      /\ async_responses' = Append(async_responses, ans)
      /\ completed' = Append(completed, m.call)
      /\ UNCHANGED <<async_callbacks, unique_id, status, up>>
  BY DEF asyncCallback, sandboxVars, asyncVars, streamVars
<1>2. ans \in [id : Ids, call : Calls, size : Sizes] /\ ans.id = m.id /\ ans.call = m.call
  BY <1>0
<1>3. \A i \in DOMAIN async_responses' :
        (i \in DOMAIN async_responses /\ async_responses'[i] = async_responses[i]) \/ async_responses'[i] = ans
  BY <1>0, <1>1, <1>2, AppendFacts
<1> HIDE DEF ans
<1>4. /\ Len(completed) \in Nat /\ DOMAIN completed = 1..Len(completed)
      /\ DOMAIN completed' = 1..(Len(completed) + 1)
      /\ (\A i \in 1..Len(completed) : completed'[i] = completed[i])
      /\ completed'[Len(completed) + 1] = m.call
  BY <1>0, <1>1
<1>5. \A i \in 1..(Len(completed) + 1) : i \in 1..Len(completed) \/ i = Len(completed) + 1
  BY <1>4
<1>6. \A i \in DOMAIN completed : completed[i] # m.call
  BY <1>1 DEF SentInv, CompletedInv
<1>e. [id |-> m.id, work |-> m.call] \in async_callbacks
  BY <1>1 DEF SentInv, TokenInv, Entered
<1>7. \A x \in pending' : x.id # 0 => x.call # m.call
  <2> SUFFICES ASSUME NEW x \in pending', x.id # 0, x.call = m.call PROVE FALSE
    OBVIOUS
  <2>1. [id |-> x.id, work |-> x.call] \in async_callbacks
    BY <1>1 DEF SentInv, TokenInv, Entered
  <2>2. [id |-> x.id, work |-> x.call] = [id |-> m.id, work |-> m.call]
    BY <1>e, <2>1 DEF SentInv, TokenInv
  <2>3. x.id = m.id
    BY <2>2
  <2>4. x \in [id : Ids, call : Calls] /\ m \in [id : Ids, call : Calls]
    BY <1>1 DEF TypeInv, TypeOK, HostTypes
  <2>5. x = m
    BY <2>3, <2>4
  <2> QED
    BY <1>1, <2>5
<1>8. \A i \in DOMAIN up : up[i].id # 0 => up[i].call # m.call
  <2> SUFFICES ASSUME NEW i \in DOMAIN up, up[i].id # 0, up[i].call = m.call PROVE FALSE
    OBVIOUS
  <2>1. [id |-> up[i].id, work |-> up[i].call] \in async_callbacks
    BY <1>1 DEF SentInv, TokenInv, Entered
  <2>2. [id |-> up[i].id, work |-> up[i].call] = [id |-> m.id, work |-> m.call]
    BY <1>e, <2>1 DEF SentInv, TokenInv
  <2>3. up[i].id = m.id
    BY <2>2
  <2> QED
    BY <2>3 DEF SentInv, TokenInv
<1>9. TokenInv'
  <2>1. \A i \in DOMAIN async_responses' : [id |-> async_responses'[i].id, work |-> async_responses'[i].call] \in async_callbacks
    BY <1>2, <1>3, <1>e DEF SentInv, TokenInv, Entered
  <2> QED
    BY <1>1, <2>1 DEF SentInv, TokenInv, Entered
<1>10. CompletedInv'
  <2>1. \A i, j \in DOMAIN completed' : completed'[i] = completed'[j] => i = j
    BY <1>4, <1>5, <1>6 DEF SentInv, CompletedInv
  <2>2. \A i \in DOMAIN completed' : \E c \in async_callbacks : c.work = completed'[i]
    <3>1. [id |-> m.id, work |-> m.call].work = m.call
      OBVIOUS
    <3> QED
      BY <1>4, <1>5, <1>e, <3>1 DEF SentInv, CompletedInv
  <2>3. \A i \in DOMAIN completed', j \in DOMAIN up : up[j].id # 0 => up[j].call # completed'[i]
    BY <1>4, <1>5, <1>8 DEF SentInv, CompletedInv
  <2>4. \A i \in DOMAIN completed', x \in pending' : x.id # 0 => x.call # completed'[i]
    BY <1>1, <1>4, <1>5, <1>7 DEF SentInv, CompletedInv
  <2> QED
    BY <1>1, <2>1, <2>2, <2>3, <2>4 DEF CompletedInv
<1> QED
  BY <1>6, <1>9, <1>10 DEF SentInv

----------------------------------------------------------------------------
(* The way back. *)

(* An id that leaves a place, or goes nowhere new, stays in one place. *)
LEMMA PlacesShrink ==
  ASSUME OnePlace, Stored' \subseteq Stored, Written' \subseteq Written,
         Readable' \subseteq Readable, BeingRead' \subseteq BeingRead,
         Dispatched' \subseteq Dispatched, Finished \subseteq Finished'
  PROVE  OnePlace'
<1>1. /\ Stored' \cap (Written' \cup Readable' \cup BeingRead' \cup Dispatched') = {}
      /\ Written' \cap (Readable' \cup BeingRead' \cup Dispatched') = {}
      /\ Readable' \cap (BeingRead' \cup Dispatched') = {}
      /\ BeingRead' \cap Dispatched' = {}
      /\ Stored' \cup Written' \cup Readable' \cup BeingRead' \cup Dispatched' \subseteq Finished'
  BY DEF OnePlace
<1> QED
  BY <1>1 DEF OnePlace

(* The length of what is left of a sequence when its first k are taken. *)
LEMMA RestLength ==
  ASSUME NEW a \in Nat, NEW b \in Nat, a =< b
  PROVE  /\ (IF a + 1 <= b THEN b - (a + 1) + 1 ELSE 0) = b - a
         /\ b - (a + 1) + 1 = b - a
         /\ \A i \in 1..(b - a) : a + 1 + i - 1 = i + a /\ i + a \in 1..b
OBVIOUS

(* The sandbox has read k units. *)
Dropped(k) ==
  /\ k =< Len(down) /\ Len(down') = Len(down) - k
  /\ \A i \in DOMAIN down' : down'[i] = down[i + k]

LEMMA DownDropped ==
  ASSUME NEW k \in Nat, down \in Seq(Units), down' \in Seq(Units), Dropped(k)
  PROVE  /\ Readable' \subseteq Readable
         /\ ReadableOnce => ReadableOnce'
         /\ ReadableOnce /\ k = 1 /\ down[1].kind = "header" => down[1].id \notin Readable'
<1>1. /\ Len(down) \in Nat /\ DOMAIN down = 1..Len(down)
      /\ Len(down') \in Nat /\ DOMAIN down' = 1..Len(down')
  OBVIOUS
<1>2. \A i \in DOMAIN down' :
        i \in Nat /\ i > 0 /\ i + k \in DOMAIN down /\ down'[i] = down[i + k]
  BY <1>1 DEF Dropped
<1>3. Readable' \subseteq Readable
  BY <1>2 DEF Readable, Carries
<1>4. ASSUME ReadableOnce PROVE ReadableOnce'
  <2> SUFFICES ASSUME NEW i \in DOMAIN down', NEW j \in DOMAIN down',
                      down'[i].kind = "header", down'[j].kind = "header",
                      down'[i].id # 0, down'[i].id = down'[j].id
               PROVE  i = j
    BY DEF ReadableOnce
  <2>1. i + k = j + k
    BY <1>2, <1>4 DEF ReadableOnce
  <2> QED
    BY <1>2, <2>1
<1>5. ASSUME ReadableOnce, k = 1, down[1].kind = "header", down[1].id \in Readable'
      PROVE  FALSE
  <2>1. PICK i \in DOMAIN down' : down'[i].kind = "header" /\ down'[i].id = down[1].id
    BY <1>5 DEF Readable, Carries
  <2>2. i + 1 \in DOMAIN down /\ down'[i] = down[i + 1] /\ i + 1 # 1
    BY <1>2, <1>5
  <2>3. 1 \in DOMAIN down
    BY <1>1, <2>2
  <2>4. down[1].id # 0
    BY <1>5 DEF Readable
  <2> QED
    BY <1>5, <2>1, <2>2, <2>3, <2>4 DEF ReadableOnce
<1> QED
  BY <1>3, <1>4, <1>5

(* Steps that do no more than read. *)
LEMMA AnswerFrame ==
  ASSUME TypeInv, TypeInv', AnswerInv, NEW k \in Nat, Dropped(k),
         UNCHANGED <<async_callbacks, async_responses, hostOut, completed, fired>>,
         pc' # "poll_body" \/ UNCHANGED <<pc, rpc_header>>
  PROVE  AnswerInv'
<1>1. down \in Seq(Units) /\ down' \in Seq(Units)
  BY DEF TypeInv, TypeOK, StreamTypes
<1>2. /\ Readable' \subseteq Readable
      /\ ReadableOnce'
  BY <1>1, DownDropped DEF AnswerInv
<1>3. /\ Stored' = Stored /\ Written' = Written /\ Dispatched' = Dispatched
      /\ Finished' = Finished
  BY DEF Stored, Written, Dispatched, Finished, IdsOf, Carries
<1>4. BeingRead' \subseteq BeingRead
  BY DEF BeingRead
<1>5. OnePlace'
  BY <1>2, <1>3, <1>4, PlacesShrink DEF AnswerInv
<1>6. StoredOnce' /\ WrittenOnce' /\ ShapeInv' /\ FiredInv' /\ CallbackOnce'
  BY DEF AnswerInv, StoredOnce, WrittenOnce, ShapeInv, FiredInv, CallbackOnce, Carries
<1> QED
  BY <1>2, <1>5, <1>6 DEF AnswerInv

LEMMA DroppedNone ==
  ASSUME down \in Seq(Units), UNCHANGED down
  PROVE  Dropped(0)
<1>1. DOMAIN down = 1..Len(down) /\ Len(down) \in Nat
  OBVIOUS
<1>2. \A i \in DOMAIN down : i + 0 = i
  BY <1>1
<1> QED
  BY <1>1, <1>2 DEF Dropped

LEMMA DroppedHeader ==
  ASSUME down \in Seq(Units), NEW at, ReadHeader(at)
  PROVE  Dropped(1) /\ Head(down) = down[1] /\ 1 \in DOMAIN down
<1>1. down # <<>> /\ down' = Tail(down)
  BY DEF ReadHeader
<1>2. Len(down) \in Nat /\ Len(down) > 0
  BY <1>1
<1> QED
  BY <1>1, <1>2, TailFacts DEF Dropped

LEMMA DroppedBody ==
  ASSUME down \in Seq(Units), NEW n \in Nat, ReadBody(n)
  PROVE  \E k \in Nat : Dropped(k)
<1> DEFINE k == Lesser(n, Len(down))
<1>1. k \in Nat /\ k =< Len(down)
  BY DEF Lesser
<1>2. down' = SubSeq(down, k + 1, Len(down))
  BY DEF ReadBody
<1> HIDE DEF k
<1>3. Len(down) \in Nat /\ DOMAIN down = 1..Len(down)
  OBVIOUS
<1>4. Len(down') = Len(down) - k /\ DOMAIN down' = 1..(Len(down) - k)
  <2>1. Len(down) - k \in Nat /\ Len(down) - (k + 1) + 1 = Len(down) - k
    BY <1>1, <1>3
  <2>2. down' \in Seq(Units)
    BY <1>1, <1>2, <1>3
  <2>3. Len(down') = Len(down) - k
    <3>1. \A i \in (k + 1)..Len(down) : down[i] \in Units
      BY <1>1, <1>3
    <3>2. Len(SubSeq(down, k + 1, Len(down))) = IF k + 1 <= Len(down) THEN Len(down) - (k + 1) + 1 ELSE 0
      BY <1>1, <1>3, <3>1, SubSeqProperties
    <3> QED
      BY <1>1, <1>2, <1>3, <3>2, RestLength
  <2> QED
    BY <2>2, <2>3
<1>5. \A i \in 1..(Len(down) - k) : down'[i] = down[i + k]
  BY <1>1, <1>2, <1>3
<1> QED
  BY <1>1, <1>4, <1>5 DEF Dropped

(* The contract's and the loop's steps. *)
LEMMA AnswerRuns ==
  ASSUME TypeInv, TypeInv', AnswerInv, pc' # "poll_body",
         UNCHANGED <<async_callbacks, async_responses, hostOut, completed, fired, down>>
  PROVE  AnswerInv'
<1>1. down \in Seq(Units)
  BY DEF TypeInv, TypeOK, StreamTypes
<1> QED
  BY <1>1, AnswerFrame, DroppedNone

LEMMA AnswerPostMessage ==
  ASSUME TypeInv, SentInv, AnswerInv, NEW r \in Calls, PostMessage(r)
  PROVE  AnswerInv'
<1> DEFINE new == [id |-> unique_id, work |-> r]
<1>1. /\ async_callbacks' = async_callbacks \cup {new} /\ new.work = r
      /\ status[r] = "idle" /\ pc' # "poll_body"
      /\ UNCHANGED <<async_responses, hostOut, completed, fired, down>>
  BY DEF PostMessage, hostVars, Send
<1> HIDE DEF new
<1>2. \A c \in async_callbacks : c.work # r
  BY <1>1 DEF SentInv, TokenInv
<1>3. \A i \in DOMAIN fired : fired[i] # r
  BY <1>2 DEF AnswerInv, FiredInv
<1>4. Stored' = Stored /\ Written' = Written /\ Readable' = Readable
  BY <1>1 DEF Stored, Written, Readable, Carries
<1>5. BeingRead' = {}
  BY <1>1 DEF BeingRead
<1>6. Dispatched' \subseteq Dispatched
  BY <1>1, <1>3 DEF Dispatched, IdsOf
<1>7. Finished \subseteq Finished'
  BY <1>1 DEF Finished, IdsOf
<1>8. OnePlace'
  BY <1>4, <1>5, <1>6, <1>7, PlacesShrink DEF AnswerInv
<1>9. /\ StoredOnce' /\ WrittenOnce' /\ ShapeInv' /\ FiredInv' /\ CallbackOnce' /\ ReadableOnce'
  BY <1>1 DEF AnswerInv, StoredOnce, WrittenOnce, ShapeInv, FiredInv, CallbackOnce, Carries,
              ReadableOnce
<1> QED
  BY <1>8, <1>9 DEF AnswerInv

(* The header of an answer is read. *)
LEMMA AnswerPollHeader ==
  ASSUME TypeInv, TypeInv', AnswerInv, PollHeader
  PROVE  AnswerInv'
<1>1. down \in Seq(Units) /\ down' \in Seq(Units)
  BY DEF TypeInv, TypeOK, StreamTypes
<1>2. /\ Dropped(1) /\ Head(down) = down[1] /\ 1 \in DOMAIN down
  BY <1>1, DroppedHeader DEF PollHeader
<1>3. /\ pc # "poll_body" /\ rpc_header' = down[1] /\ down[1].kind = "header"
      /\ UNCHANGED <<async_callbacks, async_responses, hostOut, completed, fired>>
  BY <1>2 DEF PollHeader, ReadHeader, asyncVars, hostVars
<1>4. /\ Readable' \subseteq Readable
      /\ ReadableOnce' /\ down[1].id \notin Readable'
  BY <1>1, <1>2, <1>3, DownDropped DEF AnswerInv
<1>5. /\ Stored' = Stored /\ Written' = Written /\ Dispatched' = Dispatched
      /\ Finished' = Finished
  BY <1>3 DEF Stored, Written, Dispatched, Finished, IdsOf, Carries
<1>6. BeingRead' \subseteq {down[1].id} \ {0}
  BY <1>3 DEF BeingRead
<1>7. down[1].id \in Ids
  BY <1>1, <1>2, <1>3, UnitCases, HeaderFields
<1>8. {down[1].id} \ {0} \subseteq Readable
  BY <1>2, <1>3, <1>7 DEF Readable, Carries
<1>9. OnePlace'
  <2>1. /\ Stored' \cap (Written' \cup Readable' \cup BeingRead' \cup Dispatched') = {}
        /\ Written' \cap (Readable' \cup BeingRead' \cup Dispatched') = {}
        /\ Readable' \cap (BeingRead' \cup Dispatched') = {}
        /\ BeingRead' \cap Dispatched' = {}
        /\ Stored' \cup Written' \cup Readable' \cup BeingRead' \cup Dispatched' \subseteq Finished'
    BY <1>4, <1>5, <1>6, <1>8 DEF AnswerInv, OnePlace
  <2> QED
    BY <2>1 DEF OnePlace
<1>10. /\ StoredOnce' /\ WrittenOnce' /\ ShapeInv' /\ FiredInv' /\ CallbackOnce'
  BY <1>3 DEF AnswerInv, StoredOnce, WrittenOnce, ShapeInv, FiredInv, CallbackOnce, Carries
<1> QED
  BY <1>4, <1>9, <1>10 DEF AnswerInv

(* A callback runs. *)
LEMMA AnswerPollBody ==
  ASSUME TypeInv, TypeInv', SentInv, AnswerInv, PollBody
  PROVE  AnswerInv'
<1>1. /\ down \in Seq(Units) /\ down' \in Seq(Units) /\ rpc_header.size \in Nat
      /\ fired \in Seq(Calls) /\ \A c \in async_callbacks : c.id \in Ids /\ c.work \in Calls
  BY HeaderFields DEF TypeInv, TypeOK, StreamTypes, SandboxTypes, AsyncTypes
<1>2. PICK k \in Nat : Dropped(k)
  BY <1>1, DroppedBody DEF PollBody
<1>3. /\ Readable' \subseteq Readable /\ ReadableOnce'
  BY <1>1, <1>2, DownDropped DEF AnswerInv
<1>4. PICK c \in async_callbacks : c.id = rpc_header.id /\ fired' = Append(fired, c.work)
  BY DEF PollBody
<1>5. /\ pc = "poll_body" /\ pc' = "js"
      /\ UNCHANGED <<async_callbacks, async_responses, hostOut, completed>>
  BY DEF PollBody, hostVars
<1>6. c.id # 0 /\ \A d \in async_callbacks : d.id = c.id \/ d.work = c.work => d = c
  BY DEF SentInv, TokenInv
<1>7. BeingRead = {c.id} /\ BeingRead' = {}
  BY <1>4, <1>5, <1>6 DEF BeingRead
<1>8. c.id \notin Dispatched
  BY <1>7 DEF AnswerInv, OnePlace
<1>9. \A i \in DOMAIN fired : fired[i] # c.work
  BY <1>1, <1>8 DEF Dispatched, IdsOf
<1>a. /\ Len(fired) \in Nat /\ DOMAIN fired = 1..Len(fired) /\ DOMAIN fired' = 1..(Len(fired) + 1)
      /\ (\A i \in 1..Len(fired) : fired'[i] = fired[i]) /\ fired'[Len(fired) + 1] = c.work
  BY <1>1, <1>4
<1>b. \A i \in DOMAIN fired' :
        \/ i \in DOMAIN fired /\ fired'[i] = fired[i]
        \/ i = Len(fired) + 1 /\ fired'[i] = c.work
  <2>1. \A i \in 1..(Len(fired) + 1) : i \in 1..Len(fired) \/ i = Len(fired) + 1
    BY <1>a
  <2> QED
    BY <1>a, <2>1
<1>10. CallbackOnce'
  BY <1>9, <1>b DEF AnswerInv, CallbackOnce
<1>11. FiredInv'
  BY <1>5, <1>b DEF AnswerInv, FiredInv
<1>12. Dispatched' \subseteq Dispatched \cup {c.id}
  BY <1>5, <1>6, <1>b DEF Dispatched, IdsOf
<1>13. /\ Stored' = Stored /\ Written' = Written /\ Finished' = Finished
  BY <1>5 DEF Stored, Written, Finished, IdsOf, Carries
<1>14. OnePlace'
  <2>1. /\ Stored' \cap (Written' \cup Readable' \cup BeingRead' \cup Dispatched') = {}
        /\ Written' \cap (Readable' \cup BeingRead' \cup Dispatched') = {}
        /\ Readable' \cap (BeingRead' \cup Dispatched') = {}
        /\ BeingRead' \cap Dispatched' = {}
        /\ Stored' \cup Written' \cup Readable' \cup BeingRead' \cup Dispatched' \subseteq Finished'
    BY <1>3, <1>7, <1>12, <1>13 DEF AnswerInv, OnePlace
  <2> QED
    BY <2>1 DEF OnePlace
<1>15. /\ StoredOnce' /\ WrittenOnce' /\ ShapeInv'
  BY <1>5 DEF AnswerInv, StoredOnce, WrittenOnce, ShapeInv, Carries
<1> QED
  BY <1>3, <1>10, <1>11, <1>14, <1>15 DEF AnswerInv

(* No header is among the units. *)
NoHeader(units) == \A i \in DOMAIN units : units[i].kind # "header"

(* The socket moves units of the oldest write. *)
LEMMA DeliverMoves ==
  ASSUME TypeInv, ShapeInv, Deliver
  PROVE  /\ 1 \in DOMAIN hostOut
         /\ \A i \in DOMAIN down' :
              \/ i \in DOMAIN down /\ down'[i] = down[i]
              \/ /\ i \in Nat /\ i > Len(down)
                 /\ \/ down'[i].kind # "header"
                    \/ /\ Len(hostOut[1]) = 1 /\ i = Len(down) + 1
                       /\ 1 \in DOMAIN hostOut[1] /\ down'[i] = hostOut[1][1]
         /\ \/ \A i \in DOMAIN hostOut' :
                 i \in Nat /\ i > 0 /\ i + 1 \in DOMAIN hostOut /\ hostOut'[i] = hostOut[i + 1]
            \/ /\ NoHeader(hostOut[1])
               /\ \A i \in DOMAIN hostOut' :
                    i \in DOMAIN hostOut /\ (hostOut'[i] = hostOut[i] \/ NoHeader(hostOut'[i]))
<1> DEFINE w == Head(hostOut)
           k == Lesser(Chunk, Len(w))
           rest == SubSeq(w, k + 1, Len(w))
<1>0. /\ hostOut \in Seq(Seq(Units)) /\ hostOut # <<>> /\ down \in Seq(Units)
  BY DEF TypeInv, TypeOK, StreamTypes, Deliver
<1>1. /\ w = hostOut[1] /\ 1 \in DOMAIN hostOut /\ w \in Seq(Units)
      /\ \A i \in DOMAIN Tail(hostOut) : i + 1 \in DOMAIN hostOut /\ Tail(hostOut)[i] = hostOut[i + 1]
  BY <1>0, TailFacts
<1>2. k \in Nat /\ k =< Len(w) /\ (Len(w) = 1 => k = 1)
  <2>1. Len(w) \in Nat /\ Chunk \in Nat \ {0}
    BY <1>1, ConstantsAssumption
  <2>2. \A l \in Nat, ch \in Nat \ {0} :
          Lesser(ch, l) \in Nat /\ Lesser(ch, l) =< l /\ (l = 1 => Lesser(ch, l) = 1)
    BY DEF Lesser
  <2> HIDE DEF w
  <2> QED
    BY <2>1, <2>2
<1>3. /\ down' = down \o SubSeq(w, 1, k)
      /\ hostOut' = IF k = Len(w) THEN Tail(hostOut) ELSE <<rest>> \o Tail(hostOut)
  BY DEF Deliver
<1>w. Len(w) \in Nat /\ DOMAIN w = 1..Len(w)
  BY <1>1
<1>s. Len(w) = 1 \/ NoHeader(w)
  BY <1>1 DEF ShapeInv, NoHeader
<1> HIDE DEF w, k
<1>4. /\ SubSeq(w, 1, k) \in Seq(Units) /\ Len(SubSeq(w, 1, k)) = k
      /\ \A i \in 1..k : SubSeq(w, 1, k)[i] = w[i]
  BY <1>1, <1>2
<1>5. \A i \in DOMAIN down' :
        \/ i \in DOMAIN down /\ down'[i] = down[i]
        \/ i \in Nat /\ i > Len(down) /\ i - Len(down) \in 1..k /\ down'[i] = w[i - Len(down)]
  <2>1. /\ Len(down) \in Nat /\ DOMAIN down = 1..Len(down)
    BY <1>0
  <2>2. DOMAIN down' = 1..(Len(down) + k)
    BY <1>0, <1>3, <1>4
  <2>3. \A i \in 1..Len(down) : down'[i] = down[i]
    BY <1>0, <1>3, <1>4
  <2>4. \A i \in 1..k : down'[Len(down) + i] = w[i]
    BY <1>0, <1>3, <1>4, <1>2
  <2>5. \A i \in 1..(Len(down) + k) : i \in 1..Len(down) \/ (i > Len(down) /\ i - Len(down) \in 1..k
                                                             /\ i = Len(down) + (i - Len(down)))
    BY <1>2, <2>1
  <2> QED
    BY <1>2, <2>1, <2>2, <2>3, <2>4, <2>5
<1>6. \A i \in DOMAIN down' :
              \/ i \in DOMAIN down /\ down'[i] = down[i]
              \/ /\ i \in Nat /\ i > Len(down)
                 /\ \/ down'[i].kind # "header"
                    \/ /\ Len(w) = 1 /\ i = Len(down) + 1
                       /\ 1 \in DOMAIN w /\ down'[i] = w[1]
  <2>1. CASE Len(w) = 1
    <3>1. k = 1 /\ 1 \in DOMAIN w /\ Len(down) \in Nat
      BY <1>0, <1>2, <1>w, <2>1
    <3>2. \A i \in Nat : i - Len(down) \in 1..k => i - Len(down) = 1 /\ i = Len(down) + 1
      BY <3>1
    <3> QED
      BY <1>5, <2>1, <3>1, <3>2
  <2>2. CASE NoHeader(w)
    <3>1. 1..k \subseteq DOMAIN w
      BY <1>2, <1>w
    <3> QED
      BY <1>5, <2>2, <3>1 DEF NoHeader
  <2> QED
    BY <1>s, <2>1, <2>2
<1>7. CASE k = Len(w)
  <2>1. hostOut' = Tail(hostOut)
    BY <1>3, <1>7
  <2>2. \A i \in DOMAIN hostOut' : i \in Nat /\ i > 0
    BY <1>0, <2>1
  <2>3. \A i \in DOMAIN hostOut' :
                 i \in Nat /\ i > 0 /\ i + 1 \in DOMAIN hostOut /\ hostOut'[i] = hostOut[i + 1]
    BY <1>1, <2>1, <2>2
  <2> QED
    BY <1>1, <1>6, <2>3
<1>8. CASE k # Len(w)
  <2>1. NoHeader(w)
    BY <1>2, <1>8, <1>s
  <2>2. /\ rest \in Seq(Units) /\ DOMAIN rest = 1..Len(rest)
        /\ \A i \in 1..Len(rest) : i + k \in DOMAIN w /\ rest[i] = w[i + k]
    <3>1. \A i \in (k + 1)..Len(w) : w[i] \in Units
      BY <1>1, <1>2, <1>w
    <3>2. /\ rest \in Seq(Units)
          /\ Len(rest) = IF k + 1 <= Len(w) THEN Len(w) - (k + 1) + 1 ELSE 0
          /\ \A i \in 1..(Len(w) - (k + 1) + 1) : rest[i] = w[k + 1 + i - 1]
      BY <1>2, <1>w, <3>1, SubSeqProperties
    <3>3. Len(rest) = Len(w) - k /\ Len(w) - (k + 1) + 1 = Len(w) - k
      BY <1>2, <1>w, <3>2, RestLength
    <3>4. \A i \in 1..Len(rest) : k + 1 + i - 1 = i + k /\ i + k \in 1..Len(w)
      BY <1>2, <1>w, <3>3, RestLength
    <3> HIDE DEF rest
    <3> QED
      BY <1>w, <3>2, <3>3, <3>4
  <2>3. NoHeader(rest)
    BY <2>1, <2>2 DEF NoHeader
  <2>4. hostOut' = <<rest>> \o Tail(hostOut)
    BY <1>3, <1>8
  <2> HIDE DEF rest
  <2>5. Tail(hostOut) \in Seq(Seq(Units)) /\ Len(Tail(hostOut)) = Len(hostOut) - 1 /\ Len(hostOut) \in Nat
    BY <1>0
  <2>6. DOMAIN hostOut' = 1..Len(hostOut) /\ DOMAIN hostOut = 1..Len(hostOut) /\ hostOut'[1] = rest
    BY <1>0, <2>2, <2>4, <2>5
  <2>7. \A i \in 2..Len(hostOut) : hostOut'[i] = hostOut[i]
    <3>1. \A i \in 2..Len(hostOut) : hostOut'[i] = Tail(hostOut)[i - 1]
      BY <1>0, <2>2, <2>4, <2>5
    <3>2. \A i \in 2..Len(hostOut) : i - 1 \in DOMAIN Tail(hostOut) /\ i - 1 + 1 = i
      BY <2>5
    <3> QED
      BY <1>1, <3>1, <3>2
  <2>8. \A i \in 1..Len(hostOut) : i = 1 \/ i \in 2..Len(hostOut)
    BY <2>5
  <2>9. \A i \in DOMAIN hostOut' :
                    i \in DOMAIN hostOut /\ (hostOut'[i] = hostOut[i] \/ NoHeader(hostOut'[i]))
    BY <2>3, <2>6, <2>7, <2>8
  <2> QED
    BY <1>1, <1>6, <2>1, <2>9
<1> QED
  BY <1>7, <1>8

LEMMA AnswerDeliver ==
  ASSUME TypeInv, AnswerInv, Deliver
  PROVE  AnswerInv'
<1> DEFINE Moved == {id \in Ids \ {0} : Carries(hostOut[1], id)}
<1>0. /\ UNCHANGED <<pc, rpc_header, async_callbacks, async_responses, completed, fired>>
      /\ down \in Seq(Units)
  BY DEF TypeInv, TypeOK, StreamTypes, Deliver, sandboxVars, asyncVars, hostVars
<1>s. ShapeInv
  BY DEF AnswerInv
<1>1. 1 \in DOMAIN hostOut
  BY <1>s, DeliverMoves
<1>2. \A i \in DOMAIN down' :
              \/ i \in DOMAIN down /\ down'[i] = down[i]
              \/ /\ i \in Nat /\ i > Len(down)
                 /\ \/ down'[i].kind # "header"
                    \/ /\ Len(hostOut[1]) = 1 /\ i = Len(down) + 1
                       /\ 1 \in DOMAIN hostOut[1] /\ down'[i] = hostOut[1][1]
  BY <1>s, DeliverMoves
<1>3. \/ \A i \in DOMAIN hostOut' :
                 i \in Nat /\ i > 0 /\ i + 1 \in DOMAIN hostOut /\ hostOut'[i] = hostOut[i + 1]
      \/ /\ NoHeader(hostOut[1])
         /\ \A i \in DOMAIN hostOut' :
                    i \in DOMAIN hostOut /\ (hostOut'[i] = hostOut[i] \/ NoHeader(hostOut'[i]))
  BY <1>s, DeliverMoves
<1>4. Moved \subseteq Written
  BY <1>1 DEF Written
<1>5. Readable' \subseteq Readable \cup Moved
  <2> SUFFICES ASSUME NEW id \in Readable', id \notin Readable PROVE id \in Moved
    OBVIOUS
  <2>1. PICK i \in DOMAIN down' : down'[i].kind = "header" /\ down'[i].id = id
    BY DEF Readable, Carries
  <2>2. id \in Ids \ {0}
    BY DEF Readable
  <2>3. ~(i \in DOMAIN down /\ down'[i] = down[i])
    BY <2>1, <2>2 DEF Readable, Carries
  <2> QED
    BY <1>2, <2>1, <2>2, <2>3 DEF Carries
<1>6. Written' \subseteq Written \ Moved
  <2> SUFFICES ASSUME NEW id \in Written' PROVE id \in Written /\ id \notin Moved
    OBVIOUS
  <2>1. PICK i \in DOMAIN hostOut' : Carries(hostOut'[i], id)
    BY DEF Written, Carries
  <2>2. id \in Ids \ {0}
    BY DEF Written
  <2>3. CASE \A j \in DOMAIN hostOut' :
                 j \in Nat /\ j > 0 /\ j + 1 \in DOMAIN hostOut /\ hostOut'[j] = hostOut[j + 1]
    <3>1. i + 1 \in DOMAIN hostOut /\ Carries(hostOut[i + 1], id) /\ i + 1 # 1
      BY <2>1, <2>3
    <3>2. id \in Written
      BY <2>2, <3>1 DEF Written
    <3>3. ~Carries(hostOut[1], id)
      BY <1>1, <2>2, <3>1 DEF AnswerInv, WrittenOnce
    <3> QED
      BY <3>2, <3>3
  <2>4. CASE /\ NoHeader(hostOut[1])
             /\ \A j \in DOMAIN hostOut' :
                    j \in DOMAIN hostOut /\ (hostOut'[j] = hostOut[j] \/ NoHeader(hostOut'[j]))
    <3>1. i \in DOMAIN hostOut /\ Carries(hostOut[i], id)
      BY <2>1, <2>4 DEF NoHeader, Carries
    <3>2. ~Carries(hostOut[1], id)
      BY <2>4 DEF NoHeader, Carries
    <3> QED
      BY <2>2, <3>1, <3>2 DEF Written
  <2> QED
    BY <1>3, <2>3, <2>4
<1>7. ReadableOnce'
  <2> SUFFICES ASSUME NEW i \in DOMAIN down', NEW j \in DOMAIN down',
                      down'[i].kind = "header", down'[j].kind = "header",
                      down'[i].id # 0, down'[i].id = down'[j].id
               PROVE  i = j
    BY DEF ReadableOnce
  <2> DEFINE New(x) == Len(hostOut[1]) = 1 /\ x = Len(down) + 1 /\ 1 \in DOMAIN hostOut[1] /\ down'[x] = hostOut[1][1]
             Old(x) == x \in DOMAIN down /\ down'[x] = down[x]
  <2>1. (Old(i) \/ New(i)) /\ (Old(j) \/ New(j))
    BY <1>2
  <2>2. CASE Old(i) /\ Old(j)
    BY <2>2 DEF AnswerInv, ReadableOnce
  <2>3. CASE New(i) /\ New(j)
    BY <2>3
  <2>4. ASSUME NEW x \in DOMAIN down', NEW y \in DOMAIN down', Old(x), New(y),
               down'[x].kind = "header", down'[y].kind = "header",
               down'[x].id # 0, down'[x].id = down'[y].id
        PROVE  FALSE
    <3>1. down[x].id \in Ids
      <4>1. down[x] \in Units /\ down[x].kind = "header"
        BY <1>0, <2>4
      <4> QED
        BY <4>1, UnitCases, HeaderFields
    <3>2. down[x].id \in Readable
      BY <2>4, <3>1 DEF Readable, Carries
    <3>3. down[x].id \in Moved
      BY <2>4, <3>1 DEF Carries
    <3> QED
      BY <1>4, <3>2, <3>3 DEF AnswerInv, OnePlace
  <2> HIDE DEF New, Old
  <2> QED
    BY <2>1, <2>2, <2>3, <2>4
<1>8. WrittenOnce'
  <2> SUFFICES ASSUME NEW id \in Ids \ {0}, NEW i \in DOMAIN hostOut', NEW j \in DOMAIN hostOut',
                      Carries(hostOut'[i], id), Carries(hostOut'[j], id)
               PROVE  i = j
    BY DEF WrittenOnce, Carries
  <2>3. CASE \A x \in DOMAIN hostOut' :
                 x \in Nat /\ x > 0 /\ x + 1 \in DOMAIN hostOut /\ hostOut'[x] = hostOut[x + 1]
    <3>1. i + 1 = j + 1
      BY <2>3 DEF AnswerInv, WrittenOnce
    <3> QED
      BY <2>3, <3>1
  <2>4. CASE \A x \in DOMAIN hostOut' :
                    x \in DOMAIN hostOut /\ (hostOut'[x] = hostOut[x] \/ NoHeader(hostOut'[x]))
    <3>1. ~NoHeader(hostOut'[i]) /\ ~NoHeader(hostOut'[j])
      BY DEF NoHeader, Carries
    <3> QED
      BY <2>4, <3>1 DEF AnswerInv, WrittenOnce
  <2> QED
    BY <1>3, <2>3, <2>4
<1>9. ShapeInv'
  <2>1. \A i \in DOMAIN hostOut' : NoHeader(hostOut'[i]) \/ \E j \in DOMAIN hostOut : hostOut'[i] = hostOut[j]
    BY <1>3
  <2> QED
    BY <1>s, <2>1 DEF ShapeInv, NoHeader
<1>10. /\ Stored' = Stored /\ Dispatched' = Dispatched /\ Finished' = Finished /\ BeingRead' = BeingRead
  BY <1>0 DEF Stored, Dispatched, Finished, IdsOf, BeingRead
<1>11. OnePlace'
  <2> HIDE DEF Moved
  <2>1. /\ Stored' \cap (Written' \cup Readable' \cup BeingRead' \cup Dispatched') = {}
        /\ Written' \cap (Readable' \cup BeingRead' \cup Dispatched') = {}
        /\ Readable' \cap (BeingRead' \cup Dispatched') = {}
        /\ BeingRead' \cap Dispatched' = {}
        /\ Stored' \cup Written' \cup Readable' \cup BeingRead' \cup Dispatched' \subseteq Finished'
    BY <1>4, <1>5, <1>6, <1>10 DEF AnswerInv, OnePlace
  <2> QED
    BY <2>1 DEF OnePlace
<1>12. StoredOnce' /\ FiredInv' /\ CallbackOnce'
  BY <1>0 DEF AnswerInv, StoredOnce, FiredInv, CallbackOnce
<1> QED
  BY <1>7, <1>8, <1>9, <1>11, <1>12 DEF AnswerInv

(* The host writes an answer: its header by itself, then units that are no *)
(* headers.                                                                *)
LEMMA WrittenAdds ==
  ASSUME hostOut \in Seq(Seq(Units)), NEW id \in Ids, NEW n,
         WrittenOnce, ShapeInv, id \notin Written,
         \A i \in DOMAIN hostOut' :
           \/ i \in DOMAIN hostOut /\ hostOut'[i] = hostOut[i]
           \/ i = Len(hostOut) + 1 /\ hostOut'[i] = <<Header(id, n)>>
           \/ NoHeader(hostOut'[i])
  PROVE  WrittenOnce' /\ ShapeInv' /\ Written' \subseteq Written \cup ({id} \ {0})
<1> DEFINE h == <<Header(id, n)>>
<1>1. Len(h) = 1 /\ \A x : Carries(h, x) => x = id
  BY UnitFields DEF Carries
<1>2. \A i \in DOMAIN hostOut' :
           \/ i \in DOMAIN hostOut /\ hostOut'[i] = hostOut[i]
           \/ i = Len(hostOut) + 1 /\ hostOut'[i] = h
           \/ NoHeader(hostOut'[i])
  OBVIOUS
<1> HIDE DEF h
<1>3. ShapeInv'
  BY <1>1, <1>2 DEF ShapeInv, NoHeader
<1>4. \A x \in Ids \ {0}, i \in DOMAIN hostOut' :
        Carries(hostOut'[i], x) => \/ i \in DOMAIN hostOut /\ Carries(hostOut[i], x)
                                   \/ i = Len(hostOut) + 1 /\ x = id
  BY <1>1, <1>2 DEF NoHeader, Carries
<1>5. Written' \subseteq Written \cup ({id} \ {0})
  BY <1>4 DEF Written, Carries
<1>6. WrittenOnce'
  <2> SUFFICES ASSUME NEW x \in Ids \ {0}, NEW i \in DOMAIN hostOut', NEW j \in DOMAIN hostOut',
                      Carries(hostOut'[i], x), Carries(hostOut'[j], x)
               PROVE  i = j
    BY DEF WrittenOnce, Carries
  <2>1. x = id => ~\E k \in DOMAIN hostOut : Carries(hostOut[k], x)
    BY DEF Written
  <2> QED
    BY <1>4, <2>1 DEF WrittenOnce
<1> QED
  BY <1>3, <1>5, <1>6

(* Writes(id, r, n) is of that form. *)
LEMMA WritesForm ==
  ASSUME hostOut \in Seq(Seq(Units)), NEW id \in Ids, NEW r \in Calls, NEW n \in Sizes,
         hostOut' = hostOut \o Writes(id, r, n)
  PROVE  \A i \in DOMAIN hostOut' :
           \/ i \in DOMAIN hostOut /\ hostOut'[i] = hostOut[i]
           \/ i = Len(hostOut) + 1 /\ hostOut'[i] = <<Header(id, n)>>
           \/ NoHeader(hostOut'[i])
<1> DEFINE h == <<Header(id, n)>>
           b == Body(r, n)
<1>1. h \in Seq(Units) /\ b \in Seq(Units)
  <2>1. n \in 0..MaxBody
    BY ConstantsAssumption DEF Sizes
  <2> QED
    BY <2>1, HeaderType, BodyType
<1>2. NoHeader(b)
  BY DEF NoHeader, Body, BodyUnit
<1>3. hostOut' = hostOut \o <<h, b>>
  BY DEF Writes
<1> HIDE DEF h, b
<1>4. /\ Len(hostOut) \in Nat /\ DOMAIN hostOut = 1..Len(hostOut)
      /\ DOMAIN hostOut' = 1..(Len(hostOut) + 2)
      /\ \A i \in 1..Len(hostOut) : hostOut'[i] = hostOut[i]
      /\ hostOut'[Len(hostOut) + 1] = h
      /\ hostOut'[Len(hostOut) + 2] = b
  BY <1>1, <1>3
<1>5. \A i \in 1..(Len(hostOut) + 2) : i \in 1..Len(hostOut) \/ i = Len(hostOut) + 1 \/ i = Len(hostOut) + 2
  BY <1>4
<1>6. \A i \in DOMAIN hostOut' :
           \/ i \in DOMAIN hostOut /\ hostOut'[i] = hostOut[i]
           \/ i = Len(hostOut) + 1 /\ hostOut'[i] = h
           \/ NoHeader(hostOut'[i])
  BY <1>2, <1>4, <1>5
<1> QED
  BY <1>6 DEF h

(* A synchronous answer has no id that a callback waits for. *)
LEMMA AnswerSyncCallback ==
  ASSUME TypeInv, AnswerInv, NEW m \in pending, NEW n \in Sizes, syncCallback(m, n)
  PROVE  AnswerInv'
<1>1. /\ hostOut \in Seq(Seq(Units)) /\ 0 \in Ids /\ m.call \in Calls
      /\ hostOut' = hostOut \o Writes(0, m.call, n)
      /\ UNCHANGED <<pc, rpc_header, async_callbacks, async_responses, completed, fired, down>>
  BY ConstantsAssumption DEF TypeInv, TypeOK, HostTypes, StreamTypes, Ids, syncCallback,
     sandboxVars, asyncVars
<1>2. 0 \notin Written
  BY DEF Written
<1>3. WrittenOnce' /\ ShapeInv' /\ Written' \subseteq Written
  BY <1>1, <1>2, WritesForm, WrittenAdds DEF AnswerInv
<1>4. /\ Stored' = Stored /\ Dispatched' = Dispatched /\ Finished' = Finished
      /\ BeingRead' = BeingRead /\ Readable' = Readable
  BY <1>1 DEF Stored, Dispatched, Finished, IdsOf, BeingRead, Readable, Carries
<1>5. OnePlace'
  BY <1>3, <1>4, PlacesShrink DEF AnswerInv
<1>6. StoredOnce' /\ ReadableOnce' /\ FiredInv' /\ CallbackOnce'
  BY <1>1 DEF AnswerInv, StoredOnce, ReadableOnce, FiredInv, CallbackOnce
<1> QED
  BY <1>3, <1>5, <1>6 DEF AnswerInv

(* A poll takes an answer out of the store. *)
LEMMA AnswerHandlePoll ==
  ASSUME TypeInv, SentInv, AnswerInv, HandlePoll
  PROVE  AnswerInv'
<1>1. /\ hostOut \in Seq(Seq(Units)) /\ 0 \in Ids
      /\ UNCHANGED <<pc, rpc_header, async_callbacks, completed, fired, down>>
  BY ConstantsAssumption DEF TypeInv, TypeOK, StreamTypes, Ids, HandlePoll, sandboxVars, asyncVars
<1>2. /\ Dispatched' = Dispatched /\ Finished' = Finished
      /\ BeingRead' = BeingRead /\ Readable' = Readable
  BY <1>1 DEF Dispatched, Finished, IdsOf, BeingRead, Readable, Carries
<1>3. ReadableOnce' /\ FiredInv' /\ CallbackOnce'
  BY <1>1 DEF AnswerInv, ReadableOnce, FiredInv, CallbackOnce
<1>4. CASE async_responses = <<>>
  <2>1. UNCHANGED async_responses /\ hostOut' = Append(hostOut, <<Header(0, 0)>>)
    BY <1>4 DEF HandlePoll
  <2>2. <<Header(0, 0)>> \in Seq(Units)
    BY <1>1, ConstantsAssumption, HeaderType
  <2>3. \A i \in DOMAIN hostOut' :
           \/ i \in DOMAIN hostOut /\ hostOut'[i] = hostOut[i]
           \/ i = Len(hostOut) + 1 /\ hostOut'[i] = <<Header(0, 0)>>
    <3> DEFINE h == <<Header(0, 0)>>
    <3>0. h \in Seq(Units) /\ hostOut' = Append(hostOut, h)
      BY <2>1, <2>2
    <3> HIDE DEF h
    <3>1. /\ Len(hostOut) \in Nat /\ DOMAIN hostOut = 1..Len(hostOut)
          /\ DOMAIN hostOut' = 1..(Len(hostOut) + 1)
          /\ (\A i \in 1..Len(hostOut) : hostOut'[i] = hostOut[i])
          /\ hostOut'[Len(hostOut) + 1] = h
      BY <1>1, <3>0
    <3>2. \A i \in 1..(Len(hostOut) + 1) : i \in 1..Len(hostOut) \/ i = Len(hostOut) + 1
      BY <3>1
    <3>3. \A i \in DOMAIN hostOut' :
           \/ i \in DOMAIN hostOut /\ hostOut'[i] = hostOut[i]
           \/ i = Len(hostOut) + 1 /\ hostOut'[i] = h
      BY <3>1, <3>2
    <3> QED
      BY <3>3 DEF h
  <2>4. 0 \notin Written
    BY DEF Written
  <2>5. WrittenOnce' /\ ShapeInv' /\ Written' \subseteq Written
    BY <1>1, <2>3, <2>4, WrittenAdds DEF AnswerInv
  <2>6. Stored' = Stored /\ StoredOnce'
    BY <2>1 DEF Stored, AnswerInv, StoredOnce
  <2>7. OnePlace'
    BY <1>2, <2>5, <2>6, PlacesShrink DEF AnswerInv
  <2> QED
    BY <1>3, <2>5, <2>6, <2>7 DEF AnswerInv
<1>5. CASE async_responses # <<>>
  <2> DEFINE Answers == [id : Ids, call : Calls, size : Sizes]
             a == Head(async_responses)
  <2>0. async_responses \in Seq(Answers)
    BY DEF TypeInv, TypeOK, HostTypes
  <2>a. a \in Answers
    <3> HIDE DEF Answers
    <3> QED
      BY <1>5, <2>0
  <2>1. a.id \in Ids /\ a.call \in Calls /\ a.size \in Sizes
    BY <2>a
  <2>2. /\ hostOut' = hostOut \o Writes(a.id, a.call, a.size)
        /\ async_responses' = Tail(async_responses)
    BY <1>5 DEF HandlePoll
  <2>3. /\ a = async_responses[1] /\ 1 \in DOMAIN async_responses
        /\ \A i \in DOMAIN async_responses' :
             i + 1 \in DOMAIN async_responses /\ async_responses'[i] = async_responses[i + 1]
    BY <1>5, <2>0, <2>2, TailFacts
  <2>4. \A i \in DOMAIN async_responses' : i \in Nat /\ i + 1 # 1
    <3> HIDE DEF Answers
    <3>1. async_responses' \in Seq(Answers)
      BY <1>5, <2>0, <2>2
    <3>2. Len(async_responses') \in Nat /\ DOMAIN async_responses' = 1..Len(async_responses')
      BY <3>1
    <3> QED
      BY <3>2
  <2> HIDE DEF a, Answers
  <2>5. a.id \in Stored
    BY <2>1, <2>3 DEF Stored
  <2>6. a.id \notin Written /\ a.id \notin Readable /\ a.id \notin BeingRead /\ a.id \notin Dispatched
        /\ a.id \in Finished
    BY <2>5 DEF AnswerInv, OnePlace
  <2>7. WrittenOnce' /\ ShapeInv' /\ Written' \subseteq Written \cup {a.id}
    <3>1. \A i \in DOMAIN hostOut' :
            \/ i \in DOMAIN hostOut /\ hostOut'[i] = hostOut[i]
            \/ i = Len(hostOut) + 1 /\ hostOut'[i] = <<Header(a.id, a.size)>>
            \/ NoHeader(hostOut'[i])
      BY <1>1, <2>1, <2>2, WritesForm
    <3>2. WrittenOnce /\ ShapeInv
      BY DEF AnswerInv
    <3> QED
      BY <1>1, <2>1, <2>6, <3>1, <3>2, WrittenAdds
  <2>8. Stored' \subseteq Stored \ {a.id}
    <3> SUFFICES ASSUME NEW id \in Stored' PROVE id \in Stored /\ id # a.id
      OBVIOUS
    <3>1. PICK i \in DOMAIN async_responses' : async_responses'[i].id = id
      BY DEF Stored
    <3>2. i + 1 \in DOMAIN async_responses /\ async_responses[i + 1].id = id /\ i + 1 # 1
      BY <2>3, <2>4, <3>1
    <3>3. id \in Ids
      BY DEF Stored
    <3>4. id # a.id
      BY <2>3, <3>2 DEF AnswerInv, StoredOnce
    <3> QED
      BY <3>2, <3>3, <3>4 DEF Stored
  <2>9. StoredOnce'
    <3> SUFFICES ASSUME NEW i \in DOMAIN async_responses', NEW j \in DOMAIN async_responses',
                        async_responses'[i].id = async_responses'[j].id
                 PROVE  i = j
      BY DEF StoredOnce
    <3>1. i + 1 = j + 1
      BY <2>3 DEF AnswerInv, StoredOnce
    <3> QED
      BY <2>4, <3>1
  <2>10. OnePlace'
    <3>1. /\ Stored' \cap (Written' \cup Readable' \cup BeingRead' \cup Dispatched') = {}
          /\ Written' \cap (Readable' \cup BeingRead' \cup Dispatched') = {}
          /\ Readable' \cap (BeingRead' \cup Dispatched') = {}
          /\ BeingRead' \cap Dispatched' = {}
          /\ Stored' \cup Written' \cup Readable' \cup BeingRead' \cup Dispatched' \subseteq Finished'
      BY <1>2, <2>6, <2>7, <2>8 DEF AnswerInv, OnePlace
    <3> QED
      BY <3>1 DEF OnePlace
  <2> QED
    BY <1>3, <2>7, <2>9, <2>10 DEF AnswerInv
<1> QED
  BY <1>4, <1>5

(* An asynchronous answer is stored. *)
LEMMA AnswerAsyncCallback ==
  ASSUME TypeInv, SentInv, AnswerInv, NEW m \in pending, NEW n \in Sizes, asyncCallback(m, n)
  PROVE  AnswerInv'
<1> DEFINE ans == [id |-> m.id, call |-> m.call, size |-> n]
<1>1. /\ m.id \in Ids /\ m.call \in Calls /\ m.id # 0
      /\ async_responses \in Seq([id : Ids, call : Calls, size : Sizes])
      /\ completed \in Seq(Calls)
      /\ async_responses' = Append(async_responses, ans)
      /\ completed' = Append(completed, m.call)
      /\ UNCHANGED <<pc, rpc_header, async_callbacks, fired, down, hostOut>>
  BY DEF TypeInv, TypeOK, HostTypes, asyncCallback, sandboxVars, asyncVars, streamVars
<1>2. ans \in [id : Ids, call : Calls, size : Sizes] /\ ans.id = m.id
  BY <1>1
<1>3. \A i \in DOMAIN async_responses' :
        \/ i \in DOMAIN async_responses /\ async_responses'[i] = async_responses[i]
        \/ i = Len(async_responses) + 1 /\ async_responses'[i] = ans
  <2> DEFINE Answers == [id : Ids, call : Calls, size : Sizes]
  <2>1. async_responses \in Seq(Answers) /\ ans \in Answers
    BY <1>1, <1>2
  <2> HIDE DEF Answers, ans
  <2>2. /\ Len(async_responses) \in Nat /\ DOMAIN async_responses = 1..Len(async_responses)
        /\ DOMAIN async_responses' = 1..(Len(async_responses) + 1)
        /\ (\A i \in 1..Len(async_responses) : async_responses'[i] = async_responses[i])
        /\ async_responses'[Len(async_responses) + 1] = ans
    BY <1>1, <2>1
  <2>3. \A i \in 1..(Len(async_responses) + 1) :
          i \in 1..Len(async_responses) \/ i = Len(async_responses) + 1
    BY <2>2
  <2> QED
    BY <2>2, <2>3
<1> HIDE DEF ans
<1>4. \A i \in DOMAIN completed : completed[i] # m.call
  BY SentAsyncCallback
<1>5. [id |-> m.id, work |-> m.call] \in async_callbacks
  BY <1>1 DEF SentInv, TokenInv, Entered
<1>6. m.id \notin Finished
  <2> SUFFICES ASSUME NEW c \in async_callbacks, c.id = m.id, NEW i \in DOMAIN completed, completed[i] = c.work
               PROVE  FALSE
    BY DEF Finished, IdsOf
  <2>1. c = [id |-> m.id, work |-> m.call]
    BY <1>5 DEF SentInv, TokenInv
  <2> QED
    BY <1>4, <2>1
<1>7. Finished \cup {m.id} \subseteq Finished'
  <2>1. /\ Len(completed) \in Nat /\ DOMAIN completed = 1..Len(completed)
        /\ DOMAIN completed' = 1..(Len(completed) + 1)
        /\ (\A i \in 1..Len(completed) : completed'[i] = completed[i])
        /\ completed'[Len(completed) + 1] = m.call
    BY <1>1
  <2>2. /\ Len(completed) + 1 \in DOMAIN completed'
        /\ \A i \in DOMAIN completed : i \in DOMAIN completed' /\ completed'[i] = completed[i]
    BY <2>1
  <2>3. [id |-> m.id, work |-> m.call].id = m.id /\ [id |-> m.id, work |-> m.call].work = m.call
    OBVIOUS
  <2>4. m.id \in Finished'
    BY <1>1, <1>5, <2>1, <2>2, <2>3 DEF Finished, IdsOf
  <2>5. Finished \subseteq Finished'
    BY <1>1, <2>2 DEF Finished, IdsOf
  <2> QED
    BY <2>4, <2>5
<1>8. Stored' \subseteq Stored \cup {m.id}
  BY <1>2, <1>3 DEF Stored
<1>9. StoredOnce'
  <2>1. m.id \notin Stored
    BY <1>6 DEF AnswerInv, OnePlace
  <2>2. \A i \in DOMAIN async_responses : async_responses[i].id # m.id
    BY <1>1, <2>1 DEF Stored
  <2> QED
    BY <1>2, <1>3, <2>2 DEF AnswerInv, StoredOnce
<1>10. /\ Written' = Written /\ Dispatched' = Dispatched
       /\ BeingRead' = BeingRead /\ Readable' = Readable
  BY <1>1 DEF Dispatched, Written, IdsOf, BeingRead, Readable, Carries
<1>11. OnePlace'
  <2>1. /\ Stored' \cap (Written' \cup Readable' \cup BeingRead' \cup Dispatched') = {}
        /\ Written' \cap (Readable' \cup BeingRead' \cup Dispatched') = {}
        /\ Readable' \cap (BeingRead' \cup Dispatched') = {}
        /\ BeingRead' \cap Dispatched' = {}
        /\ Stored' \cup Written' \cup Readable' \cup BeingRead' \cup Dispatched' \subseteq Finished'
    BY <1>6, <1>7, <1>8, <1>10 DEF AnswerInv, OnePlace
  <2> QED
    BY <2>1 DEF OnePlace
<1>12. /\ WrittenOnce' /\ ShapeInv' /\ ReadableOnce' /\ FiredInv' /\ CallbackOnce'
  BY <1>1 DEF AnswerInv, WrittenOnce, ShapeInv, ReadableOnce, FiredInv, CallbackOnce, Carries
<1> QED
  BY <1>9, <1>11, <1>12 DEF AnswerInv

OnceInv == TypeInv /\ SentInv /\ AnswerInv

(* Every step keeps the two invariants. *)
LEMMA OnceStep == OnceInv /\ [Next]_vars => OnceInv'
<1> SUFFICES ASSUME OnceInv, [Next]_vars PROVE SentInv' /\ AnswerInv'
  BY TypeStep DEF OnceInv
<1>0. TypeInv /\ TypeInv' /\ SentInv /\ AnswerInv /\ down \in Seq(Units)
  BY TypeStep DEF OnceInv, TypeInv, TypeOK, StreamTypes
<1>f. ASSUME NEW r, NEW s \in Statuses \ {"idle"}, status' = status \/ status' = [status EXCEPT ![r] = s],
             UNCHANGED <<async_callbacks, unique_id, up, pending, async_responses, completed>>
      PROVE  SentInv'
  BY <1>0, <1>f, StatusKept, SentFrame
<1>u. "sync" \in Statuses \ {"idle"} /\ "error" \in Statuses \ {"idle"} /\ "wrong" \in Statuses \ {"idle"}
  BY DEF Statuses
<1>o. \A r, q : Outcome(r, q) \in Statuses \ {"idle"}
  BY DEF Outcome, Statuses
<1>1. CASE JavaScript
  <2>1. ASSUME NEW r \in Calls, NEW f \in Impls, SyncCall(r, f) PROVE SentInv' /\ AnswerInv'
    <3>1. /\ Send([id |-> 0, call |-> r], "sync_header") /\ status' = [status EXCEPT ![r] = "sync"]
          /\ UNCHANGED <<async_callbacks, unique_id, pending, async_responses, completed, hostOut, fired, down>>
          /\ pc' # "poll_body"
      BY <2>1 DEF SyncCall, Send, asyncVars, hostVars
    <3>2. [id |-> 0, call |-> r] \in Requests /\ [id |-> 0, call |-> r].id = 0
      BY ConstantsAssumption DEF Requests, Ids
    <3>3. \A c \in async_callbacks : status'[c.work] # "idle"
      BY <1>0, <1>u, <3>1, StatusKept
    <3> QED
      BY <1>0, <3>1, <3>2, <3>3, SentAtOnce, AnswerRuns
  <2>2. ASSUME NEW r \in Calls, PostMessage(r) PROVE SentInv' /\ AnswerInv'
    BY <1>0, <2>2, SentPostMessage, AnswerPostMessage
  <2>3. ASSUME NEW r \in Calls, PostMessageNoIds(r) PROVE SentInv' /\ AnswerInv'
    <3>1. /\ status' = [status EXCEPT ![r] = "error"] /\ pc' # "poll_body"
          /\ UNCHANGED <<async_callbacks, unique_id, up, pending, async_responses, completed, hostOut, fired, down>>
      BY <2>3 DEF PostMessageNoIds, asyncVars, hostVars, streamVars
    <3> QED
      BY <1>0, <1>f, <1>u, <3>1, AnswerRuns
  <2>4. CASE StartTimer \/ Return \/ Throw
    <3>1. /\ status' = status /\ pc' # "poll_body"
          /\ UNCHANGED <<async_callbacks, unique_id, up, pending, async_responses, completed, hostOut, fired, down>>
      BY <2>4 DEF StartTimer, Return, ReturnTo, Throw, sandboxVars, asyncVars, hostVars, streamVars
    <3> QED
      BY <1>0, <1>f, <1>u, <3>1, AnswerRuns
  <2> QED
    BY <1>1, <2>1, <2>2, <2>3, <2>4 DEF JavaScript
<1>2. CASE Loop
  <2>1. CASE Poll
    <3>1. /\ Send(RequestAsyncResponse, "poll_header") /\ status' = status /\ pc' # "poll_body"
          /\ UNCHANGED <<async_callbacks, unique_id, pending, async_responses, completed, hostOut, fired, down>>
      BY <2>1 DEF Poll, Send, asyncVars, hostVars
    <3>2. RequestAsyncResponse \in Requests /\ RequestAsyncResponse.id = 0
      BY DEF Requests, RequestAsyncResponse
    <3>3. \A c \in async_callbacks : status'[c.work] # "idle"
      BY <1>0, <1>u, <3>1, StatusKept
    <3> QED
      BY <1>0, <3>1, <3>2, <3>3, SentAtOnce, AnswerRuns
  <2>2. CASE TimerFires \/ EndIteration \/ EmitBeforeExit
    <3>1. /\ status' = status /\ pc' # "poll_body"
          /\ UNCHANGED <<async_callbacks, unique_id, up, pending, async_responses, completed, hostOut, fired, down>>
      BY <2>2 DEF TimerFires, EndIteration, EmitBeforeExit, asyncVars, hostVars, streamVars
    <3> QED
      BY <1>0, <1>f, <1>u, <3>1, AnswerRuns
  <2> QED
    BY <1>2, <2>1, <2>2 DEF Loop
<1>3. CASE Reads
  <2>h. ASSUME NEW at, ReadHeader(at), pc' # "poll_body",
               UNCHANGED <<async_callbacks, async_responses, hostOut, completed, fired>>
        PROVE  AnswerInv'
    BY <1>0, <2>h, DroppedHeader, AnswerFrame
  <2>b. ASSUME NEW n \in Nat, ReadBody(n), pc' # "poll_body",
               UNCHANGED <<async_callbacks, async_responses, hostOut, completed, fired>>
        PROVE  AnswerInv'
    <3>1. PICK k \in Nat : Dropped(k)
      BY <1>0, <2>b, DroppedBody
    <3> QED
      BY <1>0, <2>b, <3>1, AnswerFrame
  <2>1. CASE SyncHeader
    <3>1. /\ ReadHeader("sync_header") /\ pc' # "poll_body" /\ status' = status
          /\ UNCHANGED <<async_callbacks, unique_id, up, pending, async_responses, completed, hostOut, fired>>
      BY <2>1 DEF SyncHeader, asyncVars, hostVars
    <3> QED
      BY <1>f, <1>u, <2>h, <3>1
  <2>2. CASE SyncBadMagic
    <3>1. /\ ReadHeader("sync_header") /\ pc' # "poll_body" /\ status' = [status EXCEPT ![call] = "error"]
          /\ UNCHANGED <<async_callbacks, unique_id, up, pending, async_responses, completed, hostOut, fired>>
      BY <2>2 DEF SyncBadMagic, asyncVars, hostVars
    <3> QED
      BY <1>f, <1>u, <2>h, <3>1
  <2>n. /\ rpc_header.size \in Nat /\ Len(got) \in Nat
        /\ pc = "sync_body" => rpc_header.size - Len(got) \in Nat
    <3>1. rpc_header \in Headers /\ got \in Seq(Units) /\ (pc = "sync_body" => Len(got) =< rpc_header.size)
      BY <1>0 DEF TypeInv, TypeOK, SandboxTypes
    <3>2. rpc_header.size \in Nat /\ Len(got) \in Nat
      BY <3>1, HeaderFields
    <3> QED
      BY <3>1, <3>2
  <2>3. CASE SyncBody \/ SyncBodyCrash
    <3>1. /\ pc = "sync_body" /\ ReadBody(rpc_header.size - Len(got)) /\ pc' # "poll_body"
          /\ (status' = status \/ status' = [status EXCEPT ![call] = Outcome(call, got')])
          /\ UNCHANGED <<async_callbacks, unique_id, up, pending, async_responses, completed, hostOut, fired>>
      BY <2>3 DEF SyncBody, SyncBodyCrash, asyncVars, hostVars
    <3>2. Outcome(call, got') \in Statuses \ {"idle"}
      BY <1>o
    <3> QED
      BY <1>f, <2>b, <2>n, <3>1, <3>2
  <2>4. CASE PollNothing
    <3>1. /\ ReadHeader("poll_header") /\ pc' # "poll_body" /\ status' = status
          /\ UNCHANGED <<async_callbacks, unique_id, up, pending, async_responses, completed, hostOut, fired>>
      BY <2>4 DEF PollNothing, asyncVars, hostVars
    <3> QED
      BY <1>f, <1>u, <2>h, <3>1
  <2>5. CASE PollHeader
    <3>1. /\ status' = status
          /\ UNCHANGED <<async_callbacks, unique_id, up, pending, async_responses, completed, hostOut, fired>>
      BY <2>5 DEF PollHeader, asyncVars, hostVars
    <3> QED
      BY <1>0, <1>f, <1>u, <2>5, <3>1, AnswerPollHeader
  <2>6. CASE PollBody
    <3>1. PICK c \in async_callbacks : status' = [status EXCEPT ![c.work] = Outcome(c.work, got')]
      BY <2>6 DEF PollBody
    <3>2. UNCHANGED <<async_callbacks, unique_id, up, pending, async_responses, completed>>
      BY <2>6 DEF PollBody, hostVars
    <3>3. Outcome(c.work, got') \in Statuses \ {"idle"}
      BY <1>o
    <3> QED
      BY <1>0, <1>f, <2>6, <3>1, <3>2, <3>3, AnswerPollBody
  <2>7. CASE PollBodyCrash
    <3>1. /\ ReadBody(rpc_header.size) /\ pc' # "poll_body" /\ status' = status
          /\ UNCHANGED <<async_callbacks, unique_id, up, pending, async_responses, completed, hostOut, fired>>
      BY <2>7 DEF PollBodyCrash, asyncVars, hostVars
    <3> QED
      BY <1>f, <1>u, <2>b, <2>n, <3>1
  <2>8. CASE \/ \E failed \in BOOLEAN : SyncHeaderEof(failed)
             \/ SyncBodyEof \/ PollEof
    <3>1. /\ pc' # "poll_body"
          /\ \/ status' = status \/ status' = [status EXCEPT ![call] = "error"]
             \/ status' = [status EXCEPT ![call] = "wrong"]
          /\ UNCHANGED <<async_callbacks, unique_id, up, pending, async_responses, completed, hostOut, fired, down>>
      BY <2>8 DEF SyncHeaderEof, SyncBodyEof, PollEof, asyncVars, hostVars, streamVars
    <3> QED
      BY <1>0, <1>f, <1>u, <3>1, AnswerRuns
  <2> QED
    BY <1>3, <2>1, <2>2, <2>3, <2>4, <2>5, <2>6, <2>7, <2>8 DEF Reads
<1>4. CASE Host
  <2>1. CASE Deliver
    <3>1. UNCHANGED <<status, async_callbacks, unique_id, up, pending, async_responses, completed>>
      BY <2>1 DEF Deliver, sandboxVars, asyncVars, hostVars
    <3> QED
      BY <1>0, <1>f, <1>u, <2>1, <3>1, AnswerDeliver
  <2>2. CASE HandlePoll
    BY <1>0, <2>2, SentHandlePoll, AnswerHandlePoll
  <2>3. CASE HandleCall
    <3>1. UNCHANGED <<pc, rpc_header, async_callbacks, async_responses, completed, hostOut, fired, down>>
      BY <2>3 DEF HandleCall, sandboxVars, asyncVars
    <3>2. Dropped(0)
      BY <1>0, <3>1, DroppedNone
    <3> QED
      BY <1>0, <2>3, <3>1, <3>2, SentHandleCall, AnswerFrame
  <2>4. ASSUME NEW m \in pending, NEW n \in Sizes, syncCallback(m, n) PROVE SentInv' /\ AnswerInv'
    <3>1. /\ pending' = pending \ {m} /\ UNCHANGED <<status, async_callbacks, unique_id, up, async_responses, completed>>
      BY <2>4 DEF syncCallback, sandboxVars, asyncVars
    <3>2. SentInv'
      BY <1>0, <3>1 DEF SentInv, TokenInv, CompletedInv, Entered
    <3> QED
      BY <1>0, <2>4, <3>2, AnswerSyncCallback
  <2>5. ASSUME NEW m \in pending, NEW n \in Sizes, asyncCallback(m, n) PROVE SentInv' /\ AnswerInv'
    BY <1>0, <2>5, SentAsyncCallback, AnswerAsyncCallback
  <2>6. CASE HostDies
    <3>1. UNCHANGED <<status, pc, rpc_header, async_callbacks, unique_id, up, pending, async_responses, completed, hostOut, fired, down>>
      BY <2>6 DEF HostDies, sandboxVars, asyncVars, streamVars
    <3>2. Dropped(0)
      BY <1>0, <3>1, DroppedNone
    <3> QED
      BY <1>0, <1>f, <1>u, <3>1, <3>2, AnswerFrame
  <2> QED
    BY <1>4, <2>1, <2>2, <2>3, <2>4, <2>5, <2>6 DEF Host
<1>5. CASE UNCHANGED vars
  <2>1. UNCHANGED <<status, pc, rpc_header, async_callbacks, unique_id, up, pending, async_responses, completed, hostOut, fired, down>>
    BY <1>5 DEF vars, sandboxVars, asyncVars, hostVars, streamVars
  <2>2. Dropped(0)
    BY <1>0, <2>1, DroppedNone
  <2> QED
    BY <1>0, <1>f, <1>u, <2>1, <2>2, AnswerFrame
<1> QED
  BY <1>1, <1>2, <1>3, <1>4, <1>5 DEF Next, Ended

LEMMA OnceAlways == Spec => []OnceInv
<1>1. Init => OnceInv
  BY TypeInit, OnceInit DEF OnceInv
<1> QED
  BY <1>1, OnceStep, PTL DEF Spec

(* No callback runs twice, for any number of calls, any sizes of bodies    *)
(* and pieces, and also when reads are short or the host ends: one answer  *)
(* is stored for each id, and one poll takes it.                           *)
THEOREM OneCallback == Spec => []CallbackOnce
<1>1. OnceInv => CallbackOnce
  BY DEF OnceInv, AnswerInv
<1> QED
  BY <1>1, OnceAlways, PTL

----------------------------------------------------------------------------
(***************************************************************************)
(* Callbacks run in order.  What the host completed is, from the oldest    *)
(* on: the calls whose callbacks have run, the call whose answer is on its *)
(* way, if there is one, and the calls whose answers are stored.  That     *)
(* needs WireInv: the answer on its way is the one written for the poll    *)
(* the sandbox waits in.  The invariant also says which calls have a live  *)
(* request, so that the callback finds one, and what the status of a call  *)
(* is, which the refinement of CallService needs.                          *)
(***************************************************************************)

Prefix ==
  /\ Len(fired) =< Len(completed)
  /\ \A i \in DOMAIN fired : fired[i] = completed[i]

(* The stored answers are the last of those completed, k calls after the   *)
(* last one whose callback has run.                                        *)
Aligned(k) ==
  /\ Len(completed) = Len(fired) + k + Len(async_responses)
  /\ \A i \in DOMAIN async_responses :
       completed[Len(fired) + k + i] = async_responses[i].call

(* No answer to an asynchronous call is on its way ... *)
Idle ==
  /\ pc # "poll_body"
  /\ pc = "poll_header" => OnWire(RequestAsyncResponse) \/ NothingComing

(* ... or that of the entry c is. *)
InFlight(c) ==
  \/ pc = "poll_body" /\ c.id = rpc_header.id
  \/ pc = "poll_header" /\ \E n \in Sizes : Coming(Header(c.id, n), Body(c.work, n))

OrderInv ==
  /\ Prefix
  /\ ~ended =>
       \/ Idle /\ Aligned(0)
       \/ \E c \in async_callbacks :
            InFlight(c) /\ Aligned(1) /\ completed[Len(fired) + 1] = c.work

Ran(r) == \E i \in DOMAIN fired : fired[i] = r

(* A request is alive until its callback runs, and its call waits. *)
ReqInv ==
  /\ \A c \in async_callbacks :
       Ran(c.work) \/ (c.work \in active_reqs /\ status[c.work] = "async")
  /\ \A r \in freed : Ran(r)
  /\ work # None => Ran(work)

(* A call stops the contract exactly while it is being made. *)
CallInv ==
  /\ pc \in {"sync_header", "sync_body"} => call \in Calls /\ status[call] = "sync"
  /\ pc \in RunsFreely \cup {"poll_header", "poll_body"} => call = None

(* A process that has ended leaves nothing to be answered at once. *)
EndedInv == ended => UpAsync /\ PendingAsync

OrdInv == OrderInv /\ ReqInv /\ CallInv /\ EndedInv

LEMMA OrdInit == Init => OrdInv
<1> SUFFICES ASSUME Init PROVE OrdInv
  OBVIOUS
<1>1. /\ pc = "js" /\ call = None /\ fired = <<>> /\ completed = <<>> /\ async_responses = <<>>
      /\ async_callbacks = {} /\ freed = {} /\ work = None
  BY DEF Init
<1>2. Prefix /\ Aligned(0) /\ Idle /\ ~ended
  BY <1>1 DEF Prefix, Aligned, Idle, ended
<1> QED
  BY <1>1, <1>2 DEF OrdInv, OrderInv, ReqInv, CallInv, EndedInv, RunsFreely

(* Outside a poll no answer is on its way. *)
LEMMA OrderOutside ==
  ASSUME OrderInv, ~ended, pc \notin {"poll_header", "poll_body"}
  PROVE  Aligned(0)
BY DEF OrderInv, InFlight

(* Steps that complete nothing, run no callback and leave none on its way. *)
LEMMA OrderFrame ==
  ASSUME OrderInv, UNCHANGED <<fired, completed, async_responses>>,
         ended' \/ (Aligned(0) /\ Idle')
  PROVE  OrderInv'
<1>1. Prefix' /\ (Aligned(0) => Aligned(0)')
  BY DEF OrderInv, Prefix, Aligned
<1> QED
  BY <1>1 DEF OrderInv

(* Steps that leave the answer on its way where the sandbox will find it. *)
LEMMA OrderFrameOne ==
  ASSUME OrderInv, NEW c \in async_callbacks, InFlight(c)', Aligned(1),
         completed[Len(fired) + 1] = c.work,
         UNCHANGED <<fired, completed, async_responses, async_callbacks>>
  PROVE  OrderInv'
<1>1. Prefix' /\ Aligned(1)' /\ completed'[Len(fired') + 1] = c.work /\ c \in async_callbacks'
  BY DEF OrderInv, Prefix, Aligned
<1> QED
  BY <1>1 DEF OrderInv

LEMMA ReqFrame ==
  ASSUME TypeInv, ReqInv, UNCHANGED <<async_callbacks, active_reqs, fired, freed, work>>,
         NEW r, NEW s, status' = status \/ (status' = [status EXCEPT ![r] = s] /\ status[r] # "async")
  PROVE  ReqInv'
<1>1. status \in [Calls -> Statuses] /\ \A c \in async_callbacks : c.work \in Calls
  BY DEF TypeInv, TypeOK, SandboxTypes, AsyncTypes
<1>2. \A c \in async_callbacks : status[c.work] = "async" => status'[c.work] = "async"
  BY <1>1
<1> QED
  BY <1>2 DEF ReqInv, Ran

(* The contract's steps. *)
LEMMA OrdJavaScript ==
  ASSUME TypeInv, WireInv, SentInv, OrdInv, JavaScript
  PROVE  OrdInv'
<1>0. /\ pc = "js" /\ ~ended /\ call = None /\ host = "up" /\ status \in [Calls -> Statuses]
      /\ UpAsync /\ PendingAsync
      /\ UNCHANGED <<fired, completed, async_responses, pending>>
  BY DEF JavaScript, SyncCall, PostMessage, PostMessageNoIds, StartTimer, Return, Throw, ended,
         OrdInv, CallInv, RunsFreely, WireInv, FreeInv, hostVars, asyncVars,
         TypeInv, TypeOK, SandboxTypes
<1>1. Aligned(0)
  BY <1>0, OrderOutside DEF OrdInv
<1>2. ASSUME NEW r \in Calls, NEW f \in Impls, SyncCall(r, f) PROVE OrdInv'
  <2>1. /\ pc' = "sync_header" /\ call' = r /\ status' = [status EXCEPT ![r] = "sync"]
        /\ status[r] = "idle" /\ UNCHANGED <<async_callbacks, active_reqs, freed, work>>
    BY <1>0, <1>2 DEF SyncCall, Send, asyncVars
  <2>2. OrderInv'
    BY <1>0, <1>1, <2>1, OrderFrame DEF OrdInv, Idle
  <2>3. ReqInv'
    BY <1>0, <2>1, ReqFrame DEF OrdInv
  <2>4. CallInv' /\ EndedInv'
    BY <1>0, <2>1 DEF CallInv, EndedInv, ended, RunsFreely
  <2> QED
    BY <2>2, <2>3, <2>4 DEF OrdInv
<1>3. ASSUME NEW r \in Calls, PostMessage(r) PROVE OrdInv'
  <2> DEFINE new == [id |-> unique_id, work |-> r]
  <2>1. /\ pc' = "js" /\ call' = None /\ status' = [status EXCEPT ![r] = "async"]
        /\ async_callbacks' = async_callbacks \cup {new} /\ new.work = r
        /\ active_reqs' = active_reqs \cup {r} /\ UNCHANGED <<freed, work>>
    BY <1>0, <1>3 DEF PostMessage, Send
  <2> HIDE DEF new
  <2>2. OrderInv'
    BY <1>0, <1>1, <2>1, OrderFrame DEF OrdInv, Idle
  <2>3. ReqInv'
    <3>1. \A c \in async_callbacks : c.work \in Calls
      BY DEF TypeInv, TypeOK, AsyncTypes
    <3>2. \A c \in async_callbacks' :
            Ran(c.work) \/ (c.work \in active_reqs' /\ status'[c.work] = "async")
      BY <1>0, <2>1, <3>1 DEF OrdInv, ReqInv
    <3> QED
      BY <1>0, <2>1, <3>2 DEF OrdInv, ReqInv, Ran
  <2>4. CallInv' /\ EndedInv'
    BY <2>1 DEF CallInv, EndedInv, ended
  <2> QED
    BY <2>2, <2>3, <2>4 DEF OrdInv
<1>4. ASSUME NEW r \in Calls, PostMessageNoIds(r) PROVE OrdInv'
  <2>1. /\ pc' = "crashed" /\ status' = [status EXCEPT ![r] = "error"] /\ status[r] = "idle"
        /\ UNCHANGED <<async_callbacks, active_reqs, freed, work, up>>
    BY <1>4 DEF PostMessageNoIds, asyncVars, streamVars
  <2>2. OrderInv'
    BY <1>0, <2>1, OrderFrame DEF OrdInv, ended
  <2>3. ReqInv'
    BY <1>0, <2>1, ReqFrame DEF OrdInv
  <2>4. CallInv' /\ EndedInv'
    BY <1>0, <2>1 DEF CallInv, EndedInv, UpAsync, PendingAsync, RunsFreely
  <2> QED
    BY <2>2, <2>3, <2>4 DEF OrdInv
<1>5. CASE StartTimer \/ Return \/ Throw
  <2>1. /\ pc' \in {"js", "io_poll", "timers", "loop", "exited", "crashed"}
        /\ UNCHANGED <<call, status, async_callbacks, active_reqs, up>>
        /\ work' \in {work, None} /\ (freed' = freed \/ (work # None /\ freed' = freed \cup {work}))
    BY <1>0, <1>5 DEF StartTimer, Return, ReturnTo, Throw, sandboxVars, asyncVars, streamVars
  <2>2. OrderInv'
    BY <1>0, <1>1, <2>1, OrderFrame DEF OrdInv, Idle
  <2>3. ReqInv'
    BY <1>0, <2>1 DEF OrdInv, ReqInv, Ran
  <2>4. CallInv' /\ EndedInv'
    BY <1>0, <2>1 DEF CallInv, EndedInv, UpAsync, PendingAsync
  <2> QED
    BY <2>2, <2>3, <2>4 DEF OrdInv
<1> QED
  BY <1>2, <1>3, <1>4, <1>5 DEF JavaScript

(* The loop's steps. *)
LEMMA OrdLoop ==
  ASSUME TypeInv, WireInv, WireInv', OrdInv, Loop
  PROVE  OrdInv'
<1>0. /\ pc \in {"loop", "timers", "io_poll"} /\ ~ended /\ call = None /\ host = "up"
      /\ UNCHANGED <<fired, completed, async_responses, pending, call, status, async_callbacks,
                     active_reqs, freed, work>>
      /\ up \in Seq(Requests)
  BY DEF Loop, TimerFires, Poll, EndIteration, EmitBeforeExit, ended,
         OrdInv, CallInv, RunsFreely, WireInv, hostVars, asyncVars, TypeInv, TypeOK, StreamTypes
<1>1. Aligned(0)
  BY <1>0, OrderOutside DEF OrdInv
<1>2. ReqInv'
  BY <1>0, ReqFrame DEF OrdInv
<1>3. CASE Poll
  <2>1. pc' = "poll_header" /\ up' = Append(up, RequestAsyncResponse)
    BY <1>0, <1>3 DEF Poll, Send
  <2>2. ~UpAsync'
    <3>1. RequestAsyncResponse \in Requests
      BY DEF Requests
    <3>2. Len(up) + 1 \in DOMAIN up' /\ up'[Len(up) + 1] = RequestAsyncResponse
      BY <1>0, <2>1, <3>1
    <3> QED
      BY <3>2 DEF UpAsync, RequestAsyncResponse
  <2>3. OnWire(RequestAsyncResponse)'
    BY <2>1, <2>2 DEF WireInv, PollHeaderInv, NothingComing, Coming
  <2>4. OrderInv'
    BY <1>0, <1>1, <2>1, <2>3, OrderFrame DEF OrdInv, Idle
  <2>5. CallInv' /\ EndedInv'
    BY <1>0, <2>1 DEF CallInv, EndedInv, ended
  <2> QED
    BY <1>2, <2>4, <2>5 DEF OrdInv
<1>4. CASE TimerFires \/ EndIteration \/ EmitBeforeExit
  <2>1. pc' \in {"js", "loop"}
    BY <1>4 DEF TimerFires, EndIteration, EmitBeforeExit
  <2>2. OrderInv'
    BY <1>0, <1>1, <2>1, OrderFrame DEF OrdInv, Idle
  <2>3. CallInv' /\ EndedInv'
    BY <1>0, <2>1 DEF CallInv, EndedInv, ended
  <2> QED
    BY <1>2, <2>2, <2>3 DEF OrdInv
<1> QED
  BY <1>3, <1>4 DEF Loop

(* The sandbox's reads. *)
LEMMA OrdReads ==
  ASSUME TypeInv, WireInv, WireInv', OrdInv, Reads
  PROVE  OrdInv'
<1>0. /\ ~ended /\ pc \in WaitsForHost
      /\ UNCHANGED <<completed, async_responses, pending, up, async_callbacks, freed>>
      /\ status \in [Calls -> Statuses] /\ async_callbacks \subseteq [id : Ids, work : Calls]
  BY NoEof DEF Reads, SyncHeader, SyncBadMagic, SyncBody, SyncBodyCrash, PollNothing, PollHeader,
         PollBody, PollBodyCrash, ReadHeader, ended, WaitsForHost, hostVars, asyncVars,
         TypeInv, TypeOK, SandboxTypes, AsyncTypes
<1>1. CASE SyncHeader
  <2>1. /\ pc = "sync_header" /\ pc' \in {"crashed", "sync_body"}
        /\ UNCHANGED <<call, status, fired, active_reqs, work>>
    BY <1>1 DEF SyncHeader, ReadHeader, asyncVars
  <2>2. OrderInv'
    <3>1. Aligned(0)
      BY <1>0, <2>1, OrderOutside DEF OrdInv
    <3> QED
      BY <1>0, <2>1, <3>1, OrderFrame DEF OrdInv, Idle
  <2>3. ReqInv'
    BY <1>0, <2>1, ReqFrame DEF OrdInv
  <2>4. CallInv'
    BY <2>1 DEF OrdInv, CallInv, RunsFreely
  <2>5. EndedInv'
    <3>1. PICK r \in Calls, n \in Sizes : BodyComing(Body(r, n))'
      BY <1>1, SyncHeaderFinds DEF SyncHeader, hostVars
    <3> QED
      BY <3>1 DEF BodyComing, EndedInv
  <2> QED
    BY <2>2, <2>3, <2>4, <2>5 DEF OrdInv
<1>2. CASE SyncBody
  <2>1. /\ pc = "sync_body" /\ UNCHANGED <<fired, active_reqs, work>>
    BY <1>2 DEF SyncBody, asyncVars
  <2>2. /\ pc' = "js" /\ call' = None /\ status' = [status EXCEPT ![call] = "ok"]
    BY <1>2, SyncBodyWhole DEF SyncBody, hostVars
  <2>3. OrderInv'
    <3>1. Aligned(0)
      BY <1>0, <2>1, OrderOutside DEF OrdInv
    <3> QED
      BY <1>0, <2>1, <2>2, <3>1, OrderFrame DEF OrdInv, Idle
  <2>4. ReqInv'
    <3>1. status[call] # "async"
      BY <2>1 DEF OrdInv, CallInv
    <3> QED
      BY <1>0, <2>1, <2>2, <3>1, ReqFrame DEF OrdInv
  <2>5. CallInv' /\ EndedInv'
    BY <2>2 DEF CallInv, EndedInv, ended
  <2> QED
    BY <2>3, <2>4, <2>5 DEF OrdInv
<1>3. CASE PollNothing
  <2>1. /\ pc = "poll_header" /\ pc' = "timers" /\ UNCHANGED <<call, status, fired, active_reqs, work>>
        /\ down # <<>> /\ down' = Tail(down) /\ UNCHANGED <<pending, up, hostOut>>
        /\ (Head(down).kind = "header" => Head(down).size = 0)
    BY <1>3 DEF PollNothing, ReadHeader, asyncVars, hostVars
  <2>2. Aligned(0)
    <3>1. ASSUME NEW c \in async_callbacks, InFlight(c) PROVE FALSE
      <4>1. PICK n \in Sizes : Coming(Header(c.id, n), Body(c.work, n))
        BY <2>1, <3>1 DEF InFlight
      <4>2. c.id \in Ids /\ c.work \in Calls
        BY <1>0
      <4>3. Head(down) = Header(c.id, n)
        BY <2>1, <4>1, <4>2, HeaderUnits, BodyType, ReadComing
      <4> QED
        BY <2>1, <4>2, <4>3, HeaderUnits
    <3> QED
      BY <1>0, <3>1 DEF OrdInv, OrderInv
  <2>3. OrderInv'
    BY <1>0, <2>1, <2>2, OrderFrame DEF OrdInv, Idle
  <2>4. ReqInv'
    BY <1>0, <2>1, ReqFrame DEF OrdInv
  <2>5. CallInv' /\ EndedInv'
    BY <2>1 DEF OrdInv, CallInv, EndedInv, ended
  <2> QED
    BY <2>3, <2>4, <2>5 DEF OrdInv
<1>4. CASE PollHeader
  <2>1. /\ pc = "poll_header" /\ pc' = "poll_body" /\ UNCHANGED <<call, status, fired, active_reqs, work>>
    BY <1>4 DEF PollHeader, ReadHeader, asyncVars
  <2>2. ~Idle
    BY <1>4, <2>1, NotIdleAtHeader DEF Idle, OnWire
  <2>3. PICK c \in async_callbacks : InFlight(c) /\ Aligned(1) /\ completed[Len(fired) + 1] = c.work
    BY <1>0, <2>2 DEF OrdInv, OrderInv
  <2>4. PICK n \in Sizes : Coming(Header(c.id, n), Body(c.work, n))
    BY <2>1, <2>3 DEF InFlight
  <2>5. InFlight(c)'
    BY <1>4, <2>1, <2>4, PollHeaderFinds DEF InFlight
  <2>6. OrderInv'
    BY <1>0, <2>1, <2>3, <2>5, OrderFrameOne DEF OrdInv
  <2>7. ReqInv'
    BY <1>0, <2>1, ReqFrame DEF OrdInv
  <2>8. CallInv' /\ EndedInv'
    BY <2>1 DEF OrdInv, CallInv, EndedInv, ended
  <2> QED
    BY <2>6, <2>7, <2>8 DEF OrdInv
<1>5. CASE PollBody
  <2>1. /\ pc = "poll_body" /\ pc' = "js" /\ UNCHANGED call
    BY <1>5 DEF PollBody
  <2>2. PICK d \in async_callbacks :
          /\ d.id = rpc_header.id /\ active_reqs' = active_reqs \ {d.work} /\ work' = d.work
          /\ fired' = Append(fired, d.work) /\ status' = [status EXCEPT ![d.work] = "ok"]
    BY <1>5, PollBodyWhole
  <2>3. PICK c \in async_callbacks : InFlight(c) /\ Aligned(1) /\ completed[Len(fired) + 1] = c.work
    BY <1>0, <2>1 DEF OrdInv, OrderInv, Idle
  <2>4. c = d
    BY <2>1, <2>2, <2>3 DEF InFlight, WireInv, IdInv
  <2>5. /\ fired \in Seq(Calls) /\ completed \in Seq(Calls) /\ d.work \in Calls
        /\ async_responses \in Seq([id : Ids, call : Calls, size : Sizes])
    BY DEF TypeInv, TypeOK, AsyncTypes, HostTypes
  <2>6. /\ Len(fired) \in Nat /\ DOMAIN fired = 1..Len(fired)
        /\ Len(fired') = Len(fired) + 1 /\ DOMAIN fired' = 1..(Len(fired) + 1)
        /\ (\A i \in 1..Len(fired) : fired'[i] = fired[i]) /\ fired'[Len(fired) + 1] = d.work
    BY <2>2, <2>5
  <2>7. \A i \in 1..(Len(fired) + 1) : i \in 1..Len(fired) \/ i = Len(fired) + 1
    BY <2>6
  <2>8. Len(completed) \in Nat /\ Len(async_responses) \in Nat
        /\ DOMAIN async_responses = 1..Len(async_responses)
    BY <2>5
  <2>9. Prefix'
    <3>1. \A i \in DOMAIN fired' : fired'[i] = completed[i]
      BY <2>3, <2>4, <2>6, <2>7 DEF OrdInv, OrderInv, Prefix
    <3>2. Len(fired') =< Len(completed)
      BY <2>3, <2>6, <2>8 DEF Aligned
    <3> QED
      BY <1>0, <3>1, <3>2 DEF Prefix
  <2>10. Aligned(0)'
    <3>1. \A i \in 1..Len(async_responses) : Len(fired) + 1 + 0 + i = Len(fired) + 1 + i
      BY <2>6, <2>8
    <3>2. Len(completed) = Len(fired) + 1 + 0 + Len(async_responses)
      BY <2>3, <2>6, <2>8 DEF Aligned
    <3>3. \A i \in DOMAIN async_responses : completed[Len(fired) + 1 + 0 + i] = async_responses[i].call
      BY <2>3, <2>8, <3>1 DEF Aligned
    <3> QED
      BY <1>0, <2>6, <3>2, <3>3 DEF Aligned
  <2>11. OrderInv'
    BY <2>1, <2>9, <2>10 DEF OrderInv, Idle
  <2>12. ReqInv'
    <3>1. Len(fired) + 1 \in DOMAIN fired'
      BY <2>6
    <3>2. \A r : Ran(r) => Ran(r)'
      BY <2>6, <2>7 DEF Ran
    <3>3. Ran(d.work)'
      BY <2>6, <3>1 DEF Ran
    <3>4. \A x \in async_callbacks : x.work # d.work => (x.work \in active_reqs' <=> x.work \in active_reqs)
                                                         /\ status'[x.work] = status[x.work]
      BY <1>0, <2>2
    <3>5. \A x \in async_callbacks :
            Ran(x.work)' \/ (x.work \in active_reqs' /\ status'[x.work] = "async")
      BY <3>2, <3>3, <3>4 DEF OrdInv, ReqInv
    <3>6. \A r \in freed : Ran(r)'
      BY <3>2 DEF OrdInv, ReqInv
    <3>7. Ran(work)'
      BY <2>2, <2>6, <3>1 DEF Ran
    <3> QED
      BY <1>0, <3>5, <3>6, <3>7 DEF ReqInv, Ran
  <2>13. CallInv' /\ EndedInv'
    BY <2>1 DEF OrdInv, CallInv, EndedInv, ended
  <2> QED
    BY <2>11, <2>12, <2>13 DEF OrdInv
<1>6. CASE PollBodyCrash
  <2>1. /\ pc = "poll_body" /\ pc' = "crashed" /\ UNCHANGED <<call, status, fired, active_reqs, work>>
    BY <1>6 DEF PollBodyCrash, asyncVars
  <2>2. OrderInv'
    BY <1>0, <2>1, OrderFrame DEF OrdInv, ended
  <2>3. ReqInv'
    BY <1>0, <2>1, ReqFrame DEF OrdInv
  <2>4. CallInv' /\ EndedInv'
    BY <1>0, <2>1 DEF CallInv, EndedInv, RunsFreely, WireInv, PollBodyInv, BodyComing, UpAsync, PendingAsync
  <2> QED
    BY <2>2, <2>3, <2>4 DEF OrdInv
<1> QED
  BY <1>1, <1>2, <1>3, <1>4, <1>5, <1>6, NoBadMagic, NoBodyCrash, NoEof DEF Reads

(* The socket moves what is on its way, and nothing else. *)
LEMMA OrdDeliver ==
  ASSUME Whole, TypeInv, WireInv, OrdInv, Deliver
  PROVE  OrdInv'
<1>0. /\ hostOut # <<>>
      /\ UNCHANGED <<pc, call, status, rpc_header, fired, completed, async_responses, pending, up,
                     async_callbacks, freed, active_reqs, work>>
  BY DEF Deliver, sandboxVars, asyncVars, hostVars
<1>1. OrderInv'
  <2>1. CASE ended
    BY <1>0, <2>1, OrderFrame DEF OrdInv, ended
  <2>2. CASE Idle /\ Aligned(0)
    <3>1. Idle'
      BY <1>0, <2>2, DeliverNothing DEF Idle, OnWire, Quiet
    <3> QED
      BY <1>0, <2>2, <3>1, OrderFrame DEF OrdInv
  <2>3. ASSUME NEW c \in async_callbacks, InFlight(c), Aligned(1),
               completed[Len(fired) + 1] = c.work
        PROVE  OrderInv'
    <3>1. ASSUME NEW n \in Sizes, Coming(Header(c.id, n), Body(c.work, n))
          PROVE  Coming(Header(c.id, n), Body(c.work, n))'
      <4>1. c.id \in Ids /\ c.work \in Calls
        BY DEF TypeInv, TypeOK, AsyncTypes
      <4>2. n =< MaxBody
        BY ConstantsAssumption DEF Sizes
      <4>3. Header(c.id, n) \in Units
        BY <4>1, HeaderUnits DEF Units
      <4>4. Body(c.work, n) \in Seq(Units) /\ Len(Body(c.work, n)) =< MaxBody
        BY <4>1, <4>2, BodyType
      <4> QED
        BY <3>1, <4>3, <4>4, DeliverComing
    <3>2. InFlight(c)'
      BY <1>0, <2>3, <3>1 DEF InFlight
    <3> QED
      BY <1>0, <2>3, <3>2, OrderFrameOne DEF OrdInv
  <2> QED
    BY <2>1, <2>2, <2>3 DEF OrdInv, OrderInv
<1>2. ReqInv'
  BY <1>0, ReqFrame DEF OrdInv
<1>3. CallInv' /\ EndedInv'
  BY <1>0 DEF OrdInv, CallInv, EndedInv, ended, UpAsync, PendingAsync
<1> QED
  BY <1>1, <1>2, <1>3 DEF OrdInv

(* A poll puts the oldest stored answer on its way. *)
LEMMA OrdHandlePoll ==
  ASSUME TypeInv, WireInv, OrdInv, HandlePoll
  PROVE  OrdInv'
<1>0. /\ up \in Seq(Requests) /\ up # <<>> /\ up' = Tail(up) /\ Head(up) = RequestAsyncResponse
      /\ UNCHANGED <<pc, call, status, rpc_header, fired, completed, pending,
                     async_callbacks, freed, active_reqs, work>>
      /\ fired \in Seq(Calls) /\ completed \in Seq(Calls)
      /\ async_responses \in Seq([id : Ids, call : Calls, size : Sizes])
  BY DEF HandlePoll, sandboxVars, asyncVars, TypeInv, TypeOK, StreamTypes, AsyncTypes, HostTypes
<1>1. ~ended
  <2>1. Head(up) = up[1] /\ 1 \in DOMAIN up
    BY <1>0, TailFacts
  <2> QED
    BY <1>0, <2>1 DEF OrdInv, EndedInv, UpAsync, RequestAsyncResponse
<1>2. pc = "poll_header" /\ ~UpAsync
  BY <1>1, PollAnswered
<1>3. Aligned(0) /\ Prefix
  BY <1>1, <1>2 DEF OrdInv, OrderInv, InFlight, Coming
<1>4. OrderInv'
  <2>1. CASE async_responses = <<>>
    <3>1. UNCHANGED async_responses
      BY <2>1 DEF HandlePoll
    <3>2. Idle'
      BY <1>0, <1>1, <1>2, <2>1, PollAnswered DEF Idle
    <3> QED
      BY <1>0, <1>3, <3>1, <3>2, OrderFrame DEF OrdInv
  <2>2. CASE async_responses # <<>>
    <3>1. async_responses' = Tail(async_responses)
      BY <2>2 DEF HandlePoll
    <3>2. PICK c \in async_callbacks, n \in Sizes :
            /\ c.work = async_responses[1].call
            /\ Coming(Header(c.id, n), Body(c.work, n))'
      BY <1>1, <2>2, PollAnswered
    <3>3. /\ 1 \in DOMAIN async_responses /\ Len(async_responses') = Len(async_responses) - 1
          /\ \A i \in DOMAIN async_responses' :
               i + 1 \in DOMAIN async_responses /\ async_responses'[i] = async_responses[i + 1]
      BY <1>0, <2>2, <3>1, TailFacts
    <3>4. /\ Len(fired) \in Nat /\ Len(completed) \in Nat
          /\ Len(async_responses) \in Nat /\ DOMAIN async_responses = 1..Len(async_responses)
      BY <1>0
    <3>5. completed[Len(fired) + 1] = c.work
      <4>1. Len(fired) + 0 + 1 = Len(fired) + 1
        BY <3>4
      <4> QED
        BY <1>3, <3>2, <3>3, <4>1 DEF Aligned
    <3>6. Aligned(1)'
      <4>1. Len(completed) = Len(fired) + 1 + (Len(async_responses) - 1)
        BY <1>3, <3>4 DEF Aligned
      <4>2. \A i \in DOMAIN async_responses' : Len(fired) + 0 + (i + 1) = Len(fired) + 1 + i
        <5> DEFINE Answers == [id : Ids, call : Calls, size : Sizes]
        <5>1. async_responses \in Seq(Answers)
          BY <1>0
        <5> HIDE DEF Answers
        <5>2. async_responses' \in Seq(Answers)
          BY <2>2, <3>1, <5>1
        <5>3. \A i \in DOMAIN async_responses' : i \in Nat
          BY <5>2
        <5> QED
          BY <3>4, <5>3
      <4>3. \A i \in DOMAIN async_responses' : completed[Len(fired) + 1 + i] = async_responses'[i].call
        BY <1>3, <3>3, <4>2 DEF Aligned
      <4> QED
        BY <1>0, <3>3, <4>1, <4>3 DEF Aligned
    <3>7. InFlight(c)'
      BY <1>0, <1>2, <3>2 DEF InFlight
    <3>8. Prefix'
      BY <1>0, <1>3 DEF Prefix
    <3> QED
      BY <1>0, <3>5, <3>6, <3>7, <3>8 DEF OrderInv
  <2> QED
    BY <2>1, <2>2
<1>5. ReqInv'
  BY <1>0, ReqFrame DEF OrdInv
<1>6. CallInv' /\ EndedInv'
  BY <1>0, <1>1 DEF OrdInv, CallInv, EndedInv, ended
<1> QED
  BY <1>4, <1>5, <1>6 DEF OrdInv

(* The host starts an operation. *)
LEMMA OrdHandleCall ==
  ASSUME TypeInv, WireInv, OrdInv, HandleCall
  PROVE  OrdInv'
<1>0. /\ up \in Seq(Requests) /\ up # <<>> /\ up' = Tail(up) /\ Head(up) # RequestAsyncResponse
      /\ pending' = pending \cup {Head(up)}
      /\ UNCHANGED <<pc, call, status, rpc_header, fired, completed, async_responses,
                     async_callbacks, freed, active_reqs, work, hostOut, down>>
  BY DEF HandleCall, sandboxVars, asyncVars, TypeInv, TypeOK, StreamTypes
<1>1. UpAsync /\ PendingAsync => UpAsync' /\ PendingAsync'
  BY <1>0, UpAsyncTail DEF PendingAsync
<1>2. OnWire(RequestAsyncResponse) => OnWire(RequestAsyncResponse)'
  <2> SUFFICES ASSUME OnWire(RequestAsyncResponse) PROVE OnWire(RequestAsyncResponse)'
    OBVIOUS
  <2>1. Head(up).id # 0
    BY <1>0, OnWireHead
  <2>2. PendingAsync'
    BY <1>0, <2>1 DEF OnWire, PendingAsync
  <2>3. RequestAsyncResponse.id = 0
    BY DEF RequestAsyncResponse
  <2> QED
    BY <1>0, <2>1, <2>2, <2>3, OnWireTail
<1>3. OrderInv'
  <2>1. CASE ended
    BY <1>0, <2>1, OrderFrame DEF OrdInv, ended
  <2>2. CASE Idle /\ Aligned(0)
    <3>1. Idle'
      BY <1>0, <1>1, <1>2, <2>2 DEF Idle, NothingComing
    <3> QED
      BY <1>0, <2>2, <3>1, OrderFrame DEF OrdInv
  <2>3. ASSUME NEW c \in async_callbacks, InFlight(c), Aligned(1),
               completed[Len(fired) + 1] = c.work
        PROVE  OrderInv'
    <3>1. ASSUME NEW n \in Sizes, Coming(Header(c.id, n), Body(c.work, n))
          PROVE  Coming(Header(c.id, n), Body(c.work, n))'
      BY <1>0, <1>1, <3>1 DEF Coming
    <3>2. InFlight(c)'
      BY <1>0, <2>3, <3>1 DEF InFlight
    <3> QED
      BY <1>0, <2>3, <3>2, OrderFrameOne DEF OrdInv
  <2> QED
    BY <2>1, <2>2, <2>3 DEF OrdInv, OrderInv
<1>4. ReqInv'
  BY <1>0, ReqFrame DEF OrdInv
<1>5. CallInv' /\ EndedInv'
  BY <1>0, <1>1 DEF OrdInv, CallInv, EndedInv, ended
<1> QED
  BY <1>3, <1>4, <1>5 DEF OrdInv

LEMMA OrdSyncCallback ==
  ASSUME TypeInv, WireInv, OrdInv, NEW m \in pending, NEW n \in Sizes, syncCallback(m, n)
  PROVE  OrdInv'
<1>0. /\ m.id = 0
      /\ UNCHANGED <<pc, call, status, rpc_header, fired, completed, async_responses,
                     async_callbacks, freed, active_reqs, work>>
  BY DEF syncCallback, sandboxVars, asyncVars
<1>1. ~ended
  BY <1>0 DEF OrdInv, EndedInv, PendingAsync
<1>2. pc = "sync_header"
  BY <1>0, <1>1, SyncAnswered
<1>3. OrderInv'
  <2>1. Aligned(0)
    BY <1>1, <1>2, OrderOutside DEF OrdInv
  <2> QED
    BY <1>0, <1>2, <2>1, OrderFrame DEF OrdInv, Idle
<1>4. ReqInv'
  BY <1>0, ReqFrame DEF OrdInv
<1>5. CallInv' /\ EndedInv'
  BY <1>0, <1>1 DEF OrdInv, CallInv, EndedInv, ended
<1> QED
  BY <1>3, <1>4, <1>5 DEF OrdInv

(* A completed operation is the newest one, and so is its answer. *)
LEMMA OrdAsyncCallback ==
  ASSUME TypeInv, WireInv, OrdInv, NEW m \in pending, NEW n \in Sizes, asyncCallback(m, n)
  PROVE  OrdInv'
<1> DEFINE ans == [id |-> m.id, call |-> m.call, size |-> n]
           Answers == [id : Ids, call : Calls, size : Sizes]
<1>0. /\ m.id # 0 /\ pending' = pending \ {m}
      /\ async_responses' = Append(async_responses, ans)
      /\ completed' = Append(completed, m.call)
      /\ UNCHANGED <<pc, call, status, rpc_header, fired,
                     async_callbacks, freed, active_reqs, work, hostOut, down, up>>
      /\ fired \in Seq(Calls) /\ completed \in Seq(Calls) /\ async_responses \in Seq(Answers)
      /\ ans \in Answers /\ m.call \in Calls /\ ans.call = m.call
  BY DEF asyncCallback, sandboxVars, asyncVars, streamVars, TypeInv, TypeOK, AsyncTypes, HostTypes
<1> HIDE DEF ans, Answers
<1>1. /\ UpAsync => UpAsync'
      /\ PendingAsync => PendingAsync'
  BY <1>0 DEF UpAsync, PendingAsync
<1>c. /\ Len(completed) \in Nat /\ DOMAIN completed = 1..Len(completed)
      /\ Len(completed') = Len(completed) + 1
      /\ (\A i \in 1..Len(completed) : completed'[i] = completed[i])
      /\ completed'[Len(completed) + 1] = m.call
  BY <1>0
<1>a. /\ Len(async_responses) \in Nat /\ DOMAIN async_responses = 1..Len(async_responses)
      /\ Len(async_responses') = Len(async_responses) + 1
      /\ DOMAIN async_responses' = 1..(Len(async_responses) + 1)
      /\ (\A i \in 1..Len(async_responses) : async_responses'[i] = async_responses[i])
      /\ async_responses'[Len(async_responses) + 1] = ans
  BY <1>0
<1>f. Len(fired) \in Nat /\ DOMAIN fired = 1..Len(fired)
  BY <1>0
<1>2. Prefix'
  <2>1. \A i \in 1..Len(fired) : i \in 1..Len(completed)
    BY <1>c, <1>f DEF OrdInv, OrderInv, Prefix
  <2>2. Len(fired) =< Len(completed) + 1
    BY <1>c, <1>f DEF OrdInv, OrderInv, Prefix
  <2>3. \A i \in DOMAIN fired : fired[i] = completed'[i]
    BY <1>c, <1>f, <2>1 DEF OrdInv, OrderInv, Prefix
  <2> QED
    BY <1>0, <1>c, <2>2, <2>3 DEF Prefix
<1>3. ASSUME NEW k \in Nat, Aligned(k) PROVE Aligned(k)'
  <2>1. Len(completed) = Len(fired) + k + Len(async_responses)
    BY <1>3 DEF Aligned
  <2>2. Len(completed) + 1 = Len(fired) + k + (Len(async_responses) + 1)
    BY <1>a, <1>f, <2>1
  <2>3. \A i \in 1..Len(async_responses) : Len(fired) + k + i \in 1..Len(completed)
    BY <1>a, <1>f, <2>1
  <2>4. \A i \in 1..(Len(async_responses) + 1) :
          i \in 1..Len(async_responses) \/ i = Len(async_responses) + 1
    BY <1>a
  <2>5. \A i \in DOMAIN async_responses' : completed'[Len(fired) + k + i] = async_responses'[i].call
    BY <1>0, <1>3, <1>a, <1>c, <2>2, <2>3, <2>4 DEF Aligned
  <2> QED
    BY <1>0, <1>a, <1>c, <2>2, <2>5 DEF Aligned
<1>4. OrderInv'
  <2>1. CASE ended
    BY <1>0, <1>2, <2>1 DEF OrderInv, ended
  <2>2. CASE Idle /\ Aligned(0)
    <3>1. Idle'
      BY <1>0, <1>1, <2>2 DEF Idle, NothingComing, OnWire, Quiet
    <3> QED
      BY <1>2, <1>3, <2>2, <3>1 DEF OrderInv
  <2>3. ASSUME NEW c \in async_callbacks, InFlight(c), Aligned(1),
               completed[Len(fired) + 1] = c.work
        PROVE  OrderInv'
    <3>1. ASSUME NEW x \in Sizes, Coming(Header(c.id, x), Body(c.work, x))
          PROVE  Coming(Header(c.id, x), Body(c.work, x))'
      BY <1>0, <1>1, <3>1 DEF Coming
    <3>2. InFlight(c)'
      BY <1>0, <2>3, <3>1 DEF InFlight
    <3>3. Len(fired) + 1 \in 1..Len(completed)
      BY <1>a, <1>c, <1>f, <2>3 DEF Aligned
    <3>4. completed'[Len(fired') + 1] = c.work
      BY <1>0, <1>c, <2>3, <3>3
    <3> QED
      BY <1>0, <1>2, <1>3, <2>3, <3>2, <3>4 DEF OrderInv
  <2> QED
    BY <2>1, <2>2, <2>3 DEF OrdInv, OrderInv
<1>5. ReqInv'
  BY <1>0, ReqFrame DEF OrdInv
<1>6. CallInv' /\ EndedInv'
  BY <1>0, <1>1 DEF OrdInv, CallInv, EndedInv, ended
<1> QED
  BY <1>4, <1>5, <1>6 DEF OrdInv

AllInv == OnceInv /\ WireInv /\ OrdInv

LEMMA AllStep == Whole /\ AllInv /\ [Next]_vars => AllInv'
<1> SUFFICES ASSUME Whole, AllInv, [Next]_vars PROVE AllInv'
  OBVIOUS
<1>0. TypeInv /\ SentInv /\ WireInv /\ OrdInv /\ OnceInv' /\ WireInv'
  BY OnceStep, WireStep DEF AllInv, OnceInv
<1>1. CASE Host
  <2>1. ~HostDies
    BY DEF Whole, HostDies
  <2> QED
    BY <1>0, <1>1, <2>1, OrdDeliver, OrdHandlePoll, OrdHandleCall, OrdSyncCallback,
       OrdAsyncCallback DEF Host, AllInv
<1>2. CASE UNCHANGED vars
  BY <1>0, <1>2 DEF AllInv, vars, sandboxVars, asyncVars, hostVars, streamVars, OrdInv, OrderInv,
              Prefix, Aligned, Idle, InFlight, ReqInv, Ran, CallInv, EndedInv, ended,
              Quiet, UpAsync, PendingAsync, OnWire, Coming, NothingComing
<1> QED
  BY <1>0, <1>1, <1>2, OrdJavaScript, OrdLoop, OrdReads DEF Next, Ended, AllInv

LEMMA AllAlways ==
  ASSUME Whole PROVE Spec => []AllInv
<1>1. Init => AllInv
  BY TypeInit, OnceInit, WireInit, OrdInit DEF AllInv, OnceInv
<1>2. AllInv /\ [Next]_vars => AllInv'
  BY AllStep
<1> QED
  BY <1>1, <1>2, PTL DEF Spec

(* An answer whose header has been read finds a live request. *)
LEMMA DispatchAlive == AllInv => Dispatchable
<1> SUFFICES ASSUME AllInv, pc = "poll_body"
             PROVE  \E c \in async_callbacks : c.id = rpc_header.id /\ c.work \in active_reqs \ freed
  BY DEF Dispatchable
<1>0. fired \in Seq(Calls) /\ completed \in Seq(Calls) /\ async_responses \in Seq([id : Ids, call : Calls, size : Sizes])
  BY DEF AllInv, OnceInv, TypeInv, TypeOK, AsyncTypes, HostTypes
<1>1. PICK c \in async_callbacks : InFlight(c) /\ Aligned(1) /\ completed[Len(fired) + 1] = c.work
  BY DEF AllInv, OrdInv, OrderInv, Idle, ended
<1>2. c.id = rpc_header.id
  BY <1>1 DEF InFlight
<1>3. /\ Len(fired) \in Nat /\ DOMAIN fired = 1..Len(fired)
      /\ Len(completed) \in Nat /\ DOMAIN completed = 1..Len(completed)
      /\ Len(async_responses) \in Nat
  BY <1>0
<1>4. /\ Len(fired) + 1 \in DOMAIN completed
      /\ \A i \in DOMAIN fired : i \in DOMAIN completed /\ i # Len(fired) + 1
  BY <1>1, <1>3 DEF Aligned
<1>5. ~Ran(c.work)
  BY <1>1, <1>4 DEF Ran, AllInv, OrdInv, OrderInv, Prefix, OnceInv, SentInv, CompletedInv
<1> QED
  BY <1>2, <1>5 DEF AllInv, OrdInv, ReqInv

(* Callbacks run in the order in which the host completed the operations,  *)
(* none skipped and none repeated, and each finds its request alive, for   *)
(* any number of calls in any interleaving, when the host stays and one    *)
(* read can take a whole body.                                             *)
THEOREM CallbacksInOrder ==
  ASSUME MaxBody =< Chunk, ~HostMayDie
  PROVE  Spec => []CallbackOrder
<1>1. Spec => []AllInv
  BY AllAlways DEF Whole
<1>2. AllInv => CallbackOrder
  BY DispatchAlive DEF AllInv, OrdInv, OrderInv, Prefix, CallbackOrder
<1> QED
  BY <1>1, <1>2, PTL

----------------------------------------------------------------------------
(***************************************************************************)
(* The protocol implements CallService, under the same hypotheses.  A      *)
(* synchronous call is carried out when the host completes it and returns  *)
(* when the sandbox has read its body; an asynchronous one is carried out  *)
(* when the host completes it, and its callback runs when a poll has read  *)
(* its answer.  Polls, the moving of answers and the loop are stutters.    *)
(***************************************************************************)

ThreadOf == IF ended THEN "ended" ELSE call

Owed(r) == \E i \in DOMAIN Undelivered : Undelivered[i] = r

LEMMA UndeliveredIs ==
  ASSUME fired \in Seq(Calls), completed \in Seq(Calls), Len(fired) =< Len(completed)
  PROVE  /\ Undelivered \in Seq(Calls) /\ Len(Undelivered) = Len(completed) - Len(fired)
         /\ DOMAIN Undelivered = 1..(Len(completed) - Len(fired))
         /\ \A i \in 1..(Len(completed) - Len(fired)) : Undelivered[i] = completed[Len(fired) + i]
<1>1. Len(fired) \in Nat /\ Len(completed) \in Nat /\ DOMAIN completed = 1..Len(completed)
  OBVIOUS
<1>2. \A i \in (Len(fired) + 1)..Len(completed) : completed[i] \in Calls
  BY <1>1
<1>3. /\ Undelivered \in Seq(Calls)
      /\ Len(Undelivered) = IF Len(fired) + 1 <= Len(completed)
                              THEN Len(completed) - (Len(fired) + 1) + 1 ELSE 0
      /\ \A i \in 1..(Len(completed) - (Len(fired) + 1) + 1) :
           Undelivered[i] = completed[Len(fired) + 1 + i - 1]
  BY <1>1, <1>2, SubSeqProperties DEF Undelivered
<1>4. /\ Len(Undelivered) = Len(completed) - Len(fired)
      /\ Len(completed) - (Len(fired) + 1) + 1 = Len(completed) - Len(fired)
      /\ \A i \in 1..(Len(completed) - Len(fired)) : Len(fired) + 1 + i - 1 = Len(fired) + i
  <2>1. \A a, b \in Nat : a =< b =>
          /\ (IF a + 1 <= b THEN b - (a + 1) + 1 ELSE 0) = b - a
          /\ b - (a + 1) + 1 = b - a
          /\ \A i \in 1..(b - a) : a + 1 + i - 1 = a + i
    OBVIOUS
  <2> QED
    BY <1>1, <1>3, <2>1
<1>5. DOMAIN Undelivered = 1..Len(Undelivered)
  BY <1>3
<1>6. \A i \in 1..(Len(completed) - Len(fired)) : Undelivered[i] = completed[Len(fired) + i]
  BY <1>3, <1>4
<1> QED
  BY <1>3, <1>4, <1>5, <1>6

(* What a call that is owed a callback has completed. *)
LEMMA OwedIs ==
  ASSUME fired \in Seq(Calls), completed \in Seq(Calls), Len(fired) =< Len(completed), NEW r
  PROVE  Owed(r) <=> \E i \in (Len(fired) + 1)..Len(completed) : completed[i] = r
<1>1. Len(fired) \in Nat /\ Len(completed) \in Nat
  OBVIOUS
<1>2. /\ \A i \in 1..(Len(completed) - Len(fired)) :
           Len(fired) + i \in (Len(fired) + 1)..Len(completed)
      /\ \A i \in (Len(fired) + 1)..Len(completed) :
           i - Len(fired) \in 1..(Len(completed) - Len(fired)) /\ Len(fired) + (i - Len(fired)) = i
  BY <1>1
<1> QED
  BY <1>2, UndeliveredIs DEF Owed

LEMMA StageValues ==
  ASSUME NEW r
  PROVE  /\ status[r] = "idle" => StageOf(r) = "idle"
         /\ status[r] = "sync" => StageOf(r) = IF Unanswered(r) THEN "sync" ELSE "done"
         /\ status[r] = "async" => StageOf(r) = IF Owed(r) THEN "done" ELSE "async"
BY DEF StageOf, Owed

LEMMA StageValuesNext ==
  ASSUME NEW r
  PROVE  /\ status'[r] = "sync" => StageOf(r)' = IF Unanswered(r)' THEN "sync" ELSE "done"
         /\ status'[r] = "async" => StageOf(r)' = IF Owed(r)' THEN "done" ELSE "async"
         /\ status'[r] = "ok" => StageOf(r)' = "returned"
         /\ status'[r] = "error" => StageOf(r)' = "failed"
BY DEF StageOf, Owed

LEMMA StageKept ==
  ASSUME NEW r, status'[r] = status[r], Unanswered(r)' <=> Unanswered(r), Owed(r)' <=> Owed(r)
  PROVE  StageOf(r)' = StageOf(r)
BY DEF StageOf, Owed

LEMMA MoveTo ==
  ASSUME NEW x \in Calls, NEW s, StageOf(x)' = s,
         \A r \in Calls \ {x} : StageOf(r)' = StageOf(r)
  PROVE  Service!Move(x, s)
BY DEF Service!Move

(* Steps the contract does not see. *)
LEMMA Stutters ==
  ASSUME UNCHANGED <<status, fired, completed>>, ThreadOf' = ThreadOf,
         \A r \in Calls : Unanswered(r)' <=> Unanswered(r)
  PROVE  UNCHANGED Service!svars
<1>1. Undelivered' = Undelivered
  BY DEF Undelivered
<1>2. \A r \in Calls : StageOf(r)' = StageOf(r)
  BY <1>1, StageKept DEF Owed
<1> QED
  BY <1>1, <1>2 DEF Service!svars, ThreadOf

(* Steps that end the process. *)
LEMMA Ends ==
  ASSUME UNCHANGED <<status, fired, completed, up, pending>>, ended'
  PROVE  Service!Next
<1>1. Undelivered' = Undelivered
  BY DEF Undelivered
<1>2. \A r \in Calls : Unanswered(r)' <=> Unanswered(r)
  BY DEF Unanswered
<1>3. \A r \in Calls : StageOf(r)' = StageOf(r)
  BY <1>1, <1>2, StageKept DEF Owed
<1>4. Service!End
  BY <1>1, <1>3 DEF Service!End
<1> QED
  BY <1>4 DEF Service!Next

(* A request that is sent is the only one that becomes unanswered. *)
LEMMA UnansweredSent ==
  ASSUME up \in Seq(Requests), NEW msg \in Requests, up' = Append(up, msg), UNCHANGED pending
  PROVE  /\ \A r \in Calls : msg # [id |-> 0, call |-> r] => (Unanswered(r)' <=> Unanswered(r))
         /\ \A r \in Calls : msg = [id |-> 0, call |-> r] => Unanswered(r)'
<1>1. /\ Len(up) \in Nat /\ DOMAIN up = 1..Len(up) /\ DOMAIN up' = 1..(Len(up) + 1)
      /\ (\A i \in 1..Len(up) : up'[i] = up[i]) /\ up'[Len(up) + 1] = msg
  OBVIOUS
<1>2. /\ \A i \in 1..(Len(up) + 1) : i \in 1..Len(up) \/ i = Len(up) + 1
      /\ \A i \in 1..Len(up) : i \in 1..(Len(up) + 1)
      /\ Len(up) + 1 \in 1..(Len(up) + 1)
  BY <1>1
<1> QED
  BY <1>1, <1>2 DEF Unanswered

(* Taking a request does not change what is unanswered. *)
LEMMA UnansweredTaken ==
  ASSUME up \in Seq(Requests), up # <<>>, up' = Tail(up),
         pending' = pending \cup {Head(up)} \/ (UNCHANGED pending /\ Head(up) = RequestAsyncResponse)
  PROVE  \A r \in Calls : Unanswered(r)' <=> Unanswered(r)
<1>1. /\ Head(up) = up[1] /\ 1 \in DOMAIN up
      /\ \A i \in DOMAIN up' : i + 1 \in DOMAIN up /\ up'[i] = up[i + 1]
  BY TailFacts
<1>2. \A i \in DOMAIN up : i = 1 \/ (i - 1 \in DOMAIN up' /\ up'[i - 1] = up[i])
  <2>1. Len(up) \in Nat /\ DOMAIN up = 1..Len(up) /\ up' \in Seq(Requests) /\ Len(up') = Len(up) - 1
    BY TailFacts
  <2>2. DOMAIN up' = 1..(Len(up) - 1)
    BY <2>1
  <2>3. \A i \in 1..Len(up) : i = 1 \/ (i - 1 \in 1..(Len(up) - 1) /\ i - 1 + 1 = i)
    BY <2>1
  <2> QED
    BY <1>1, <2>1, <2>2, <2>3
<1>3. \A r \in Calls : RequestAsyncResponse # [id |-> 0, call |-> r]
  BY ConstantsAssumption DEF RequestAsyncResponse
<1> QED
  BY <1>1, <1>2, <1>3 DEF Unanswered

LEMMA ServiceJavaScript ==
  ASSUME AllInv, JavaScript
  PROVE  Service!Next \/ UNCHANGED Service!svars
<1>a. /\ status \in [Calls -> Statuses] /\ up \in Seq(Requests)
      /\ fired \in Seq(Calls) /\ completed \in Seq(Calls)
  BY DEF AllInv, OnceInv, TypeInv, TypeOK, SandboxTypes, AsyncTypes, HostTypes, StreamTypes
<1>b. pc = "js"
  BY DEF JavaScript, SyncCall, PostMessage, PostMessageNoIds, StartTimer, Return, Throw
<1>c. call = None
  BY <1>b DEF AllInv, OrdInv, CallInv, RunsFreely
<1>d. ~ended /\ ThreadOf = None
  BY <1>b, <1>c DEF ended, ThreadOf
<1>e. host = "up"
  BY DEF AllInv, WireInv
<1>f. UNCHANGED <<fired, completed, pending>>
  BY DEF JavaScript, SyncCall, PostMessage, PostMessageNoIds, StartTimer, Return, Throw, hostVars, asyncVars
<1>g. unique_id \in Ids \ {0}
  BY ConstantsAssumption DEF AllInv, OnceInv, TypeInv, TypeOK, SandboxTypes, AsyncTypes, Ids
<1>h. Len(fired) =< Len(completed)
  BY DEF AllInv, OrdInv, OrderInv, Prefix
<1>0. /\ pc = "js" /\ ~ended /\ call = None /\ host = "up" /\ status \in [Calls -> Statuses]
      /\ UNCHANGED <<fired, completed, pending>> /\ ThreadOf = None
      /\ up \in Seq(Requests) /\ fired \in Seq(Calls) /\ completed \in Seq(Calls)
      /\ unique_id \in Ids \ {0} /\ Len(fired) =< Len(completed)
  BY <1>a, <1>b, <1>c, <1>d, <1>e, <1>f, <1>g, <1>h
<1>1. Undelivered' = Undelivered /\ \A r : Owed(r)' <=> Owed(r)
  BY <1>0 DEF Undelivered, Owed
<1>2. ASSUME NEW r \in Calls, NEW f \in Impls, SyncCall(r, f) PROVE Service!Next
  <2>1. /\ pc' = "sync_header" /\ call' = r /\ status' = [status EXCEPT ![r] = "sync"]
        /\ status[r] = "idle" /\ up' = Append(up, [id |-> 0, call |-> r])
    BY <1>0, <1>2 DEF SyncCall, Send
  <2>2. [id |-> 0, call |-> r] \in Requests
    BY ConstantsAssumption DEF Requests, Ids
  <2>3. \A s \in Calls \ {r} : [id |-> 0, call |-> r] # [id |-> 0, call |-> s]
    OBVIOUS
  <2>4. Unanswered(r)' /\ \A s \in Calls \ {r} : Unanswered(s)' <=> Unanswered(s)
    BY <1>0, <2>1, <2>2, <2>3, UnansweredSent
  <2>5. \A s \in Calls \ {r} : StageOf(s)' = StageOf(s)
    BY <1>0, <1>1, <2>1, <2>4, StageKept
  <2>6. StageOf(r) = "idle" /\ StageOf(r)' = "sync"
    BY <1>0, <2>1, <2>4, StageValues, StageValuesNext
  <2>7. Service!Move(r, "sync")
    BY <2>5, <2>6, MoveTo
  <2>8. Service!CallSync(r)
    BY <1>0, <1>1, <2>1, <2>6, <2>7 DEF Service!CallSync, ThreadOf, ended
  <2> QED
    BY <2>8 DEF Service!Next
<1>3. ASSUME NEW r \in Calls, PostMessage(r) PROVE Service!Next
  <2>1. /\ pc' = "js" /\ call' = None /\ status' = [status EXCEPT ![r] = "async"]
        /\ status[r] = "idle" /\ up' = Append(up, [id |-> unique_id, call |-> r])
    BY <1>0, <1>3 DEF PostMessage, Send
  <2>2. [id |-> unique_id, call |-> r] \in Requests
    BY <1>0 DEF Requests
  <2>3. \A s \in Calls : [id |-> unique_id, call |-> r] # [id |-> 0, call |-> s]
    BY <1>0
  <2>4. \A s \in Calls : Unanswered(s)' <=> Unanswered(s)
    BY <1>0, <2>1, <2>2, <2>3, UnansweredSent
  <2>5. \A s \in Calls \ {r} : StageOf(s)' = StageOf(s)
    BY <1>0, <1>1, <2>1, <2>4, StageKept
  <2>6. ~Owed(r)
    <3>1. \A i \in DOMAIN completed : completed[i] # r
      BY <2>1 DEF AllInv, OnceInv, SentInv, TokenInv, CompletedInv
    <3>2. \A i \in (Len(fired) + 1)..Len(completed) : i \in DOMAIN completed
      BY <1>0
    <3> QED
      BY <1>0, <3>1, <3>2, OwedIs
  <2>7. StageOf(r) = "idle" /\ StageOf(r)' = "async"
    BY <1>0, <1>1, <2>1, <2>6, StageValues, StageValuesNext
  <2>8. Service!Move(r, "async")
    BY <2>5, <2>7, MoveTo
  <2>9. Service!CallAsync(r)
    BY <1>0, <1>1, <2>1, <2>7, <2>8 DEF Service!CallAsync, ThreadOf, ended
  <2> QED
    BY <2>9 DEF Service!Next
<1>4. ASSUME NEW r \in Calls, PostMessageNoIds(r) PROVE Service!Next
  <2>1. /\ pc' = "crashed" /\ status' = [status EXCEPT ![r] = "error"] /\ status[r] = "idle"
        /\ UNCHANGED up
    BY <1>4 DEF PostMessageNoIds, streamVars
  <2>2. \A s \in Calls : Unanswered(s)' <=> Unanswered(s)
    BY <1>0, <2>1 DEF Unanswered
  <2>3. \A s \in Calls \ {r} : StageOf(s)' = StageOf(s)
    BY <1>0, <1>1, <2>1, <2>2, StageKept
  <2>4. StageOf(r) = "idle" /\ StageOf(r)' = "failed"
    BY <1>0, <2>1, StageValues, StageValuesNext
  <2>5. Service!Move(r, "failed")
    BY <2>3, <2>4, MoveTo
  <2>6. Service!End
    BY <1>1, <2>1, <2>4, <2>5 DEF Service!End, ended
  <2> QED
    BY <2>6 DEF Service!Next
<1>5. CASE StartTimer \/ Return \/ Throw
  <2>1. UNCHANGED <<call, status, up>>
    BY <1>5 DEF StartTimer, Return, Throw, sandboxVars, streamVars
  <2>2. CASE ended'
    BY <1>0, <2>1, <2>2, Ends
  <2>3. CASE ~ended'
    <3>1. ThreadOf' = ThreadOf
      BY <1>0, <2>1, <2>3 DEF ThreadOf
    <3>2. \A s \in Calls : Unanswered(s)' <=> Unanswered(s)
      BY <1>0, <2>1 DEF Unanswered
    <3> QED
      BY <1>0, <2>1, <3>1, <3>2, Stutters
  <2> QED
    BY <2>2, <2>3
<1> QED
  BY <1>2, <1>3, <1>4, <1>5 DEF JavaScript

LEMMA ServiceLoop ==
  ASSUME AllInv, Loop
  PROVE  UNCHANGED Service!svars
<1>0. /\ ~ended /\ ~ended' /\ host = "up" /\ up \in Seq(Requests)
      /\ UNCHANGED <<call, status, fired, completed, pending>>
  BY DEF Loop, TimerFires, Poll, Send, EndIteration, EmitBeforeExit, ended, AllInv, OnceInv,
         WireInv, hostVars, asyncVars, TypeInv, TypeOK, StreamTypes
<1>1. ThreadOf' = ThreadOf
  BY <1>0 DEF ThreadOf
<1>2. \A s \in Calls : Unanswered(s)' <=> Unanswered(s)
  <2>1. CASE Poll
    <3>1. up' = Append(up, RequestAsyncResponse)
      BY <1>0, <2>1 DEF Poll, Send
    <3>2. RequestAsyncResponse \in Requests
      BY DEF Requests
    <3>3. \A r \in Calls : RequestAsyncResponse # [id |-> 0, call |-> r]
      BY ConstantsAssumption DEF RequestAsyncResponse
    <3> QED
      BY <1>0, <3>1, <3>2, <3>3, UnansweredSent
  <2>2. CASE TimerFires \/ EndIteration \/ EmitBeforeExit
    <3>1. UNCHANGED up
      BY <2>2 DEF TimerFires, EndIteration, EmitBeforeExit, streamVars
    <3> QED
      BY <1>0, <3>1 DEF Unanswered
  <2> QED
    BY <2>1, <2>2 DEF Loop
<1> QED
  BY <1>0, <1>1, <1>2, Stutters

LEMMA ServiceReads ==
  ASSUME AllInv, Reads
  PROVE  Service!Next \/ UNCHANGED Service!svars
<1>0. /\ ~ended /\ WireInv /\ TypeInv /\ OrdInv
      /\ UNCHANGED <<completed, pending, up>>
      /\ status \in [Calls -> Statuses] /\ async_callbacks \subseteq [id : Ids, work : Calls]
      /\ fired \in Seq(Calls) /\ completed \in Seq(Calls) /\ Len(fired) =< Len(completed)
  BY NoEof DEF Reads, SyncHeader, SyncBadMagic, SyncBody, SyncBodyCrash, PollNothing, PollHeader,
         PollBody, PollBodyCrash, ReadHeader, ended, hostVars, AllInv, OnceInv,
         OrdInv, OrderInv, Prefix, TypeInv, TypeOK, SandboxTypes, AsyncTypes, HostTypes
<1>1. \A s \in Calls : Unanswered(s)' <=> Unanswered(s)
  BY <1>0 DEF Unanswered
<1>2. CASE SyncHeader \/ PollNothing \/ PollHeader \/ PollBodyCrash
  <2>1. UNCHANGED <<call, status, fired>>
    BY <1>2 DEF SyncHeader, PollNothing, PollHeader, PollBodyCrash, asyncVars
  <2>2. CASE ended'
    BY <1>0, <2>1, <2>2, Ends
  <2>3. CASE ~ended'
    <3>1. ThreadOf' = ThreadOf
      BY <1>0, <2>1, <2>3 DEF ThreadOf
    <3> QED
      BY <1>0, <1>1, <2>1, <3>1, Stutters
  <2> QED
    BY <2>2, <2>3
<1>3. CASE SyncBody
  <2>1. /\ pc = "sync_body" /\ UNCHANGED fired
    BY <1>3 DEF SyncBody, asyncVars
  <2>2. /\ pc' = "js" /\ call' = None /\ status' = [status EXCEPT ![call] = "ok"]
    BY <1>0, <1>3, SyncBodyWhole DEF SyncBody, hostVars
  <2>3. call \in Calls /\ status[call] = "sync"
    BY <1>0, <2>1 DEF OrdInv, CallInv
  <2>4. PICK r \in Calls : r = call
    BY <2>3
  <2>5. ~Unanswered(r)
    <3>1. UpAsync /\ PendingAsync
      BY <1>0, <2>1 DEF WireInv, SyncBodyInv, BodyComing
    <3>2. [id |-> 0, call |-> r].id = 0
      OBVIOUS
    <3> QED
      BY <3>1, <3>2 DEF Unanswered, UpAsync, PendingAsync
  <2>6. Undelivered' = Undelivered /\ \A s : Owed(s)' <=> Owed(s)
    BY <1>0, <2>1 DEF Undelivered, Owed
  <2>7. \A s \in Calls \ {r} : StageOf(s)' = StageOf(s)
    BY <1>0, <1>1, <2>2, <2>4, <2>6, StageKept
  <2>8. StageOf(r) = "done" /\ StageOf(r)' = "returned"
    BY <1>0, <2>2, <2>3, <2>4, <2>5, StageValues, StageValuesNext
  <2>9. Service!Move(r, "returned")
    BY <2>7, <2>8, MoveTo
  <2>10. Service!ReturnSync(r)
    BY <1>0, <2>2, <2>4, <2>6, <2>8, <2>9 DEF Service!ReturnSync, ended
  <2> QED
    BY <2>10 DEF Service!Next
<1>4. CASE PollBody
  <2>1. /\ pc = "poll_body" /\ pc' = "js" /\ UNCHANGED call
    BY <1>4 DEF PollBody
  <2>2. PICK d \in async_callbacks :
          /\ d.id = rpc_header.id
          /\ fired' = Append(fired, d.work) /\ status' = [status EXCEPT ![d.work] = "ok"]
    BY <1>0, <1>4, PollBodyWhole
  <2>3. PICK c \in async_callbacks : InFlight(c) /\ Aligned(1) /\ completed[Len(fired) + 1] = c.work
    BY <1>0, <2>1 DEF OrdInv, OrderInv, Idle
  <2>4. c = d
    BY <1>0, <2>1, <2>2, <2>3 DEF InFlight, WireInv, IdInv
  <2>5. PICK r \in Calls : r = d.work
    BY <1>0
  <2>6. Len(fired) \in Nat /\ Len(completed) \in Nat /\ Len(fired') = Len(fired) + 1
        /\ fired' \in Seq(Calls) /\ Len(fired) + 1 =< Len(completed)
    <3>1. Len(async_responses) \in Nat
      BY <1>0 DEF TypeInv, TypeOK, HostTypes
    <3>2. Len(fired) \in Nat /\ Len(completed) \in Nat /\ Len(fired') = Len(fired) + 1 /\ fired' \in Seq(Calls)
      BY <1>0, <2>2, <2>5
    <3> QED
      BY <2>3, <3>1, <3>2 DEF Aligned
  <2>7. /\ Undelivered \in Seq(Calls) /\ Len(Undelivered) = Len(completed) - Len(fired)
        /\ DOMAIN Undelivered = 1..(Len(completed) - Len(fired))
        /\ \A i \in 1..(Len(completed) - Len(fired)) : Undelivered[i] = completed[Len(fired) + i]
    BY <1>0, UndeliveredIs
  <2>8. Undelivered # <<>> /\ Head(Undelivered) = r
    <3>1. 1 \in 1..(Len(completed) - Len(fired)) /\ Len(Undelivered) # 0
      BY <2>6, <2>7
    <3>2. Undelivered # <<>> /\ Head(Undelivered) = Undelivered[1]
      BY <2>7, <3>1
    <3> QED
      BY <2>3, <2>4, <2>5, <2>7, <3>1, <3>2
  <2>9. Undelivered' = Tail(Undelivered)
    <3>1. /\ Undelivered' \in Seq(Calls) /\ Len(Undelivered') = Len(completed) - (Len(fired) + 1)
          /\ \A i \in 1..(Len(completed) - (Len(fired) + 1)) : Undelivered'[i] = completed[Len(fired) + 1 + i]
      <4> DEFINE f1 == fired'
                 u1 == SubSeq(completed, Len(f1) + 1, Len(completed))
      <4>1. f1 \in Seq(Calls) /\ Len(f1) = Len(fired) + 1 /\ Undelivered' = u1
        BY <1>0, <2>6 DEF Undelivered
      <4>2. \A i \in (Len(fired) + 1 + 1)..Len(completed) : completed[i] \in Calls
        BY <1>0, <2>6
      <4>3. /\ u1 \in Seq(Calls)
            /\ Len(u1) = IF Len(fired) + 1 + 1 <= Len(completed) THEN Len(completed) - (Len(fired) + 1 + 1) + 1 ELSE 0
            /\ \A i \in 1..(Len(completed) - (Len(fired) + 1 + 1) + 1) : u1[i] = completed[Len(fired) + 1 + 1 + i - 1]
        BY <2>6, <4>1, <4>2, SubSeqProperties
      <4>4. \A a, b \in Nat : a =< b =>
              /\ (IF a + 1 <= b THEN b - (a + 1) + 1 ELSE 0) = b - a
              /\ b - (a + 1) + 1 = b - a
              /\ \A i \in 1..(b - a) : a + 1 + i - 1 = a + i
        OBVIOUS
      <4>5. Len(fired) + 1 \in Nat
        BY <2>6
      <4> HIDE DEF u1, f1
      <4>6. /\ Len(u1) = Len(completed) - (Len(fired) + 1)
            /\ \A i \in 1..(Len(completed) - (Len(fired) + 1)) : u1[i] = completed[Len(fired) + 1 + i]
        BY <2>6, <4>3, <4>4, <4>5
      <4> QED
        BY <4>1, <4>3, <4>6
    <3>2. /\ Tail(Undelivered) \in Seq(Calls) /\ Len(Tail(Undelivered)) = Len(Undelivered) - 1
          /\ \A i \in 1..(Len(Undelivered) - 1) : Tail(Undelivered)[i] = Undelivered[i + 1]
      BY <2>7, <2>8
    <3>3. /\ Len(Undelivered) - 1 = Len(completed) - (Len(fired) + 1)
          /\ \A i \in 1..(Len(completed) - (Len(fired) + 1)) :
               /\ i + 1 \in 1..(Len(completed) - Len(fired))
               /\ Len(fired) + (i + 1) = Len(fired) + 1 + i
      BY <2>6, <2>7
    <3>4. \A i \in 1..(Len(completed) - (Len(fired) + 1)) : Tail(Undelivered)[i] = Undelivered'[i]
      BY <2>7, <3>1, <3>2, <3>3
    <3> QED
      BY <3>1, <3>2, <3>3, <3>4
  <2>10. \A s \in Calls \ {r} : Owed(s)' <=> Owed(s)
    <3>1. \A i \in DOMAIN Tail(Undelivered) : i + 1 \in DOMAIN Undelivered /\ Tail(Undelivered)[i] = Undelivered[i + 1]
      BY <2>7, <2>8, TailFacts
    <3>2. \A i \in DOMAIN Undelivered : i = 1 \/ (i - 1 \in DOMAIN Tail(Undelivered) /\ Tail(Undelivered)[i - 1] = Undelivered[i])
      <4>1. Tail(Undelivered) \in Seq(Calls) /\ Len(Tail(Undelivered)) = Len(Undelivered) - 1 /\ Len(Undelivered) \in Nat
            /\ DOMAIN Undelivered = 1..Len(Undelivered)
        BY <2>7, <2>8
      <4>2. DOMAIN Tail(Undelivered) = 1..(Len(Undelivered) - 1)
        BY <4>1
      <4>3. \A i \in 1..Len(Undelivered) : i = 1 \/ (i - 1 \in 1..(Len(Undelivered) - 1) /\ i - 1 + 1 = i)
        BY <4>1
      <4> QED
        BY <3>1, <4>1, <4>2, <4>3
    <3>3. Undelivered[1] = r
      BY <2>7, <2>8
    <3>4. \A s : Owed(s)' <=> \E i \in DOMAIN Tail(Undelivered) : Tail(Undelivered)[i] = s
      BY <2>9 DEF Owed
    <3>5. ASSUME NEW s \in Calls \ {r}, Owed(s)' PROVE Owed(s)
      <4>1. PICK i \in DOMAIN Tail(Undelivered) : Tail(Undelivered)[i] = s
        BY <3>4, <3>5
      <4>2. i + 1 \in DOMAIN Undelivered /\ Undelivered[i + 1] = s
        BY <3>1, <4>1
      <4> QED
        BY <4>2 DEF Owed
    <3>6. ASSUME NEW s \in Calls \ {r}, Owed(s) PROVE Owed(s)'
      <4>1. PICK i \in DOMAIN Undelivered : Undelivered[i] = s
        BY <3>6 DEF Owed
      <4>2. i # 1
        BY <3>3, <4>1
      <4>3. i - 1 \in DOMAIN Tail(Undelivered) /\ Tail(Undelivered)[i - 1] = s
        BY <3>2, <4>1, <4>2
      <4> QED
        BY <3>4, <4>3
    <3> QED
      BY <3>5, <3>6
  <2>11. \A s \in Calls \ {r} : StageOf(s)' = StageOf(s)
    BY <1>0, <1>1, <2>2, <2>5, <2>10, StageKept
  <2>12. StageOf(r)' = "returned"
    BY <1>0, <2>2, <2>5, StageValuesNext
  <2>13. Service!Move(r, "returned")
    BY <2>11, <2>12, MoveTo
  <2>14. ~ended' /\ call = None /\ call' = None
    BY <1>0, <2>1 DEF ended, OrdInv, CallInv
  <2>15. Service!RunCallback
    BY <1>0, <2>8, <2>9, <2>13, <2>14 DEF Service!RunCallback
  <2> QED
    BY <2>15 DEF Service!Next
<1> QED
  BY <1>0, <1>2, <1>3, <1>4, NoBadMagic, NoBodyCrash, NoEof DEF Reads

LEMMA ServiceHost ==
  ASSUME Whole, AllInv, Host
  PROVE  Service!Next \/ UNCHANGED Service!svars
<1>0. /\ WireInv /\ TypeInv /\ OrdInv /\ SentInv
      /\ up \in Seq(Requests)
      /\ status \in [Calls -> Statuses] /\ pending \subseteq [id : Ids, call : Calls]
      /\ fired \in Seq(Calls) /\ completed \in Seq(Calls) /\ Len(fired) =< Len(completed)
  BY DEF AllInv, OnceInv, OrdInv, OrderInv, Prefix, TypeInv, TypeOK, SandboxTypes, AsyncTypes,
         HostTypes, StreamTypes
<1>u. UNCHANGED <<pc, call, status, fired>> /\ ThreadOf' = ThreadOf
  BY DEF Host, Deliver, HandlePoll, HandleCall, syncCallback, asyncCallback, HostDies, sandboxVars,
         asyncVars, ThreadOf, ended
<1>1. CASE Deliver
  <2>1. UNCHANGED <<up, pending, completed>>
    BY <1>1 DEF Deliver, hostVars
  <2>2. \A s \in Calls : Unanswered(s)' <=> Unanswered(s)
    BY <2>1 DEF Unanswered
  <2> QED
    BY <1>u, <2>1, <2>2, Stutters
<1>2. CASE HandlePoll \/ HandleCall
  <2>1. /\ up # <<>> /\ up' = Tail(up) /\ UNCHANGED completed
        /\ \/ pending' = pending \cup {Head(up)}
           \/ UNCHANGED pending /\ Head(up) = RequestAsyncResponse
    BY <1>2 DEF HandlePoll, HandleCall
  <2>2. \A s \in Calls : Unanswered(s)' <=> Unanswered(s)
    BY <1>0, <2>1, UnansweredTaken
  <2> QED
    BY <1>u, <2>1, <2>2, Stutters
<1>3. ASSUME NEW m \in pending, NEW n \in Sizes, syncCallback(m, n) PROVE Service!Next
  <2>1. m.id = 0 /\ pending' = pending \ {m} /\ UNCHANGED <<up, completed>>
    BY <1>3 DEF syncCallback
  <2>2. ~ended
    BY <1>0, <2>1 DEF OrdInv, EndedInv, PendingAsync
  <2>3. PICK r \in Calls : r = m.call
    BY <1>0
  <2>4. /\ pc = "sync_header" /\ InHost([id |-> 0, call |-> r]) /\ r = call /\ m = [id |-> 0, call |-> r]
    BY <1>0, <2>1, <2>2, <2>3, SyncAnswered
  <2>5. status[r] = "sync"
    BY <1>0, <2>4 DEF OrdInv, CallInv
  <2>6. Unanswered(r) /\ ~Unanswered(r)'
    <3>1. [id |-> 0, call |-> r].id = 0
      OBVIOUS
    <3> QED
      BY <2>1, <2>4, <3>1 DEF Unanswered, InHost, UpAsync
  <2>7. \A s \in Calls \ {r} : Unanswered(s)' <=> Unanswered(s)
    <3>1. \A s \in Calls \ {r} : [id |-> 0, call |-> s] # m
      BY <2>4
    <3> QED
      BY <2>1, <3>1 DEF Unanswered
  <2>8. Undelivered' = Undelivered /\ \A s : Owed(s)' <=> Owed(s)
    BY <1>u, <2>1 DEF Undelivered, Owed
  <2>9. \A s \in Calls \ {r} : StageOf(s)' = StageOf(s)
    BY <1>u, <2>7, <2>8, StageKept
  <2>10. StageOf(r) = "sync" /\ StageOf(r)' = "done"
    BY <1>u, <2>5, <2>6, StageValues, StageValuesNext
  <2>11. Service!Move(r, "done")
    BY <2>9, <2>10, MoveTo
  <2>12. Service!CarryOut(r)
    BY <1>u, <2>8, <2>10, <2>11 DEF Service!CarryOut, ThreadOf
  <2> QED
    BY <2>12 DEF Service!Next
<1>4. ASSUME NEW m \in pending, NEW n \in Sizes, asyncCallback(m, n) PROVE Service!Next
  <2>1. /\ m.id # 0 /\ pending' = pending \ {m} /\ UNCHANGED up
        /\ completed' = Append(completed, m.call)
    BY <1>4 DEF asyncCallback, streamVars
  <2>2. PICK r \in Calls : r = m.call
    BY <1>0
  <2>3. \A i \in DOMAIN completed : completed[i] # r
    BY <1>0, <1>4, <2>2, SentAsyncCallback
  <2>4. status[r] = "async"
    <3>1. PICK c \in async_callbacks : c = [id |-> m.id, work |-> m.call]
      BY <1>0, <2>1 DEF SentInv, TokenInv, Entered
    <3>2. ~Ran(r)
      <4>1. \A i \in DOMAIN fired : i \in DOMAIN completed
        BY <1>0
      <4> QED
        BY <1>0, <2>3, <4>1 DEF Ran, OrdInv, OrderInv, Prefix
    <3>3. c.work = r
      BY <2>2, <3>1
    <3> QED
      BY <1>0, <3>2, <3>3 DEF OrdInv, ReqInv
  <2>5. /\ Len(fired) \in Nat /\ Len(completed) \in Nat /\ DOMAIN completed = 1..Len(completed)
        /\ Len(completed') = Len(completed) + 1 /\ completed' \in Seq(Calls)
        /\ (\A i \in 1..Len(completed) : completed'[i] = completed[i])
        /\ completed'[Len(completed) + 1] = r
    BY <1>0, <2>1, <2>2
  <2>6. ~Owed(r)
    <3>1. \A i \in (Len(fired) + 1)..Len(completed) : i \in DOMAIN completed
      BY <2>5
    <3> QED
      BY <1>0, <2>3, <3>1, OwedIs
  <2>7. Undelivered' = Append(Undelivered, r)
    <3>1. /\ Undelivered \in Seq(Calls) /\ Len(Undelivered) = Len(completed) - Len(fired)
          /\ \A i \in 1..(Len(completed) - Len(fired)) : Undelivered[i] = completed[Len(fired) + i]
      BY <1>0, UndeliveredIs
    <3> DEFINE c1 == completed'
               u1 == SubSeq(c1, Len(fired) + 1, Len(c1))
    <3>2. Undelivered' = u1
      BY <1>u DEF Undelivered
    <3>3. c1 \in Seq(Calls) /\ Len(c1) = Len(completed) + 1 /\ Len(fired) =< Len(c1)
      BY <1>0, <2>5
    <3>4. \A i \in (Len(fired) + 1)..Len(c1) : c1[i] \in Calls
      BY <2>5, <3>3
    <3>5. /\ u1 \in Seq(Calls)
          /\ Len(u1) = IF Len(fired) + 1 <= Len(c1) THEN Len(c1) - (Len(fired) + 1) + 1 ELSE 0
          /\ \A i \in 1..(Len(c1) - (Len(fired) + 1) + 1) : u1[i] = c1[Len(fired) + 1 + i - 1]
      BY <2>5, <3>3, <3>4, SubSeqProperties
    <3>6. \A a, b \in Nat : a =< b =>
              /\ (IF a + 1 <= b THEN b - (a + 1) + 1 ELSE 0) = b - a
              /\ b - (a + 1) + 1 = b - a
              /\ \A i \in 1..(b - a) : a + 1 + i - 1 = a + i
      OBVIOUS
    <3> HIDE DEF u1
    <3>7. Len(c1) \in Nat
      BY <2>5
    <3>8. /\ Len(u1) = Len(c1) - Len(fired)
          /\ \A i \in 1..(Len(c1) - Len(fired)) : u1[i] = c1[Len(fired) + i]
      BY <2>5, <3>3, <3>5, <3>6, <3>7
    <3>9. /\ Append(Undelivered, r) \in Seq(Calls)
          /\ Len(Append(Undelivered, r)) = Len(Undelivered) + 1
          /\ \A i \in 1..Len(Undelivered) : Append(Undelivered, r)[i] = Undelivered[i]
          /\ Append(Undelivered, r)[Len(Undelivered) + 1] = r
      BY <3>1
    <3>a. \A a, b, u \in Nat : (a =< b /\ u = b - a) =>
              /\ (b + 1) - a = u + 1
              /\ \A i \in 1..(u + 1) : i \in 1..u \/ i = u + 1
              /\ a + (u + 1) = b + 1
              /\ \A i \in 1..u : a + i \in 1..b
      OBVIOUS
    <3>b. Len(Undelivered) \in Nat /\ Len(c1) = Len(completed) + 1 /\ Len(fired) =< Len(completed)
      BY <1>0, <2>5, <3>1
    <3>10. /\ Len(c1) - Len(fired) = Len(Undelivered) + 1
           /\ \A i \in 1..(Len(Undelivered) + 1) : i \in 1..Len(Undelivered) \/ i = Len(Undelivered) + 1
           /\ Len(fired) + (Len(Undelivered) + 1) = Len(completed) + 1
           /\ \A i \in 1..Len(Undelivered) : Len(fired) + i \in 1..Len(completed)
      <4>1. Len(fired) \in Nat /\ Len(completed) \in Nat
        BY <2>5
      <4>2. Len(Undelivered) = Len(completed) - Len(fired)
        BY <3>1
      <4>3. /\ (Len(completed) + 1) - Len(fired) = Len(Undelivered) + 1
            /\ \A i \in 1..(Len(Undelivered) + 1) : i \in 1..Len(Undelivered) \/ i = Len(Undelivered) + 1
            /\ Len(fired) + (Len(Undelivered) + 1) = Len(completed) + 1
            /\ \A i \in 1..Len(Undelivered) : Len(fired) + i \in 1..Len(completed)
        BY <3>a, <3>b, <4>1, <4>2
      <4> QED
        BY <3>b, <4>3
    <3>11. \A i \in 1..(Len(Undelivered) + 1) : u1[i] = Append(Undelivered, r)[i]
      BY <2>5, <3>1, <3>8, <3>9, <3>10
    <3>12. u1 = Append(Undelivered, r)
      <4> DEFINE ap == Append(Undelivered, r)
      <4>1. u1 \in Seq(Calls) /\ ap \in Seq(Calls) /\ Len(u1) = Len(ap) /\ \A i \in 1..Len(u1) : u1[i] = ap[i]
        BY <3>5, <3>8, <3>9, <3>10, <3>11
      <4> HIDE DEF ap
      <4>2. u1 = ap
        BY <4>1, SeqEqual
      <4> QED
        BY <4>2 DEF ap
    <3> QED
      BY <3>2, <3>12
  <2>8. Owed(r)' /\ \A s \in Calls \ {r} : Owed(s)' <=> Owed(s)
    <3>0. Undelivered \in Seq(Calls)
      BY <1>0, UndeliveredIs
    <3>1. /\ Len(Undelivered) \in Nat /\ DOMAIN Undelivered = 1..Len(Undelivered)
          /\ DOMAIN Append(Undelivered, r) = 1..(Len(Undelivered) + 1)
          /\ \A i \in 1..Len(Undelivered) : Append(Undelivered, r)[i] = Undelivered[i]
          /\ Append(Undelivered, r)[Len(Undelivered) + 1] = r
      BY <3>0
    <3>2. /\ \A i \in 1..(Len(Undelivered) + 1) : i \in 1..Len(Undelivered) \/ i = Len(Undelivered) + 1
          /\ \A i \in 1..Len(Undelivered) : i \in 1..(Len(Undelivered) + 1)
          /\ Len(Undelivered) + 1 \in 1..(Len(Undelivered) + 1)
      BY <3>1
    <3>3. \A s : Owed(s)' <=> \E i \in DOMAIN Append(Undelivered, r) : Append(Undelivered, r)[i] = s
      BY <2>7 DEF Owed
    <3> QED
      BY <3>1, <3>2, <3>3 DEF Owed
  <2>9. \A s \in Calls : Unanswered(s)' <=> Unanswered(s)
    <3>1. \A s \in Calls : [id |-> 0, call |-> s] # m
      BY <2>1
    <3> QED
      BY <2>1, <3>1 DEF Unanswered
  <2>10. \A s \in Calls \ {r} : StageOf(s)' = StageOf(s)
    BY <1>u, <2>8, <2>9, StageKept
  <2>11. StageOf(r) = "async" /\ StageOf(r)' = "done"
    BY <1>u, <2>4, <2>6, <2>8, StageValues, StageValuesNext
  <2>12. Service!Move(r, "done")
    BY <2>10, <2>11, MoveTo
  <2>13. Service!CarryOut(r)
    BY <1>u, <2>7, <2>11, <2>12 DEF Service!CarryOut, ThreadOf
  <2> QED
    BY <2>13 DEF Service!Next
<1>5. ~HostDies
  BY DEF Whole, HostDies
<1> QED
  BY <1>1, <1>2, <1>3, <1>4, <1>5 DEF Host

(* The contract sees the service of CallService, for any number of calls   *)
(* in any interleaving with the host and the socket, when the host stays   *)
(* and one read can take a whole body: every step of the protocol is one   *)
(* of the service's or changes nothing the contract sees.                  *)
THEOREM ProtocolRefines ==
  ASSUME MaxBody =< Chunk, ~HostMayDie
  PROVE  Spec => ImplementsService
<1>1. Spec => []AllInv
  BY AllAlways DEF Whole
<1>2. Init => Service!Init
  <2> SUFFICES ASSUME Init PROVE Service!Init
    OBVIOUS
  <2>1. /\ completed = <<>> /\ fired = <<>> /\ call = None /\ ~ended
        /\ status = [r \in Calls |-> "idle"]
    BY DEF Init, ended
  <2>2. \A r \in Calls : StageOf(r) = "idle"
    BY <2>1, StageValues
  <2>3. Undelivered = <<>>
    BY <2>1, SubSeqEmpty DEF Undelivered
  <2> QED
    BY <2>1, <2>2, <2>3 DEF Service!Init
<1>3. AllInv /\ [Next]_vars => [Service!Next]_(Service!svars)
  <2> SUFFICES ASSUME AllInv, [Next]_vars PROVE Service!Next \/ UNCHANGED Service!svars
    OBVIOUS
  <2>1. CASE UNCHANGED vars
    <3>1. UNCHANGED <<status, fired, completed, up, pending, pc, call>>
      BY <2>1 DEF vars, sandboxVars, asyncVars, hostVars, streamVars
    <3>2. ThreadOf' = ThreadOf /\ \A r \in Calls : Unanswered(r)' <=> Unanswered(r)
      BY <3>1 DEF ThreadOf, ended, Unanswered
    <3> QED
      BY <3>1, <3>2, Stutters
  <2> QED
    BY <2>1, ServiceJavaScript, ServiceLoop, ServiceReads, ServiceHost DEF Next, Ended, Whole
<1> QED
  BY <1>1, <1>2, <1>3, PTL DEF Spec, ImplementsService, Service!Spec

----------------------------------------------------------------------------
(* ExitComplete.  The requests that keep the loop alive are exactly the    *)
(* asynchronous calls without an answer: PostMessage registers what it     *)
(* sends, and only the step that runs a callback unregisters, the request  *)
(* it gives an outcome.  A synchronous call in progress is none of them.   *)
Registered ==
  /\ active_reqs \subseteq Calls
  /\ \A r \in Calls : r \in active_reqs <=> status[r] = "async"

InCall == pc \in {"sync_header", "sync_body"} => call \in Calls /\ status[call] = "sync"

ActiveInv == TypeOK /\ Registered /\ InCall

LEMMA ActiveKept ==
  ASSUME ActiveInv, UNCHANGED <<active_reqs, status, call>>,
         pc' \in {"sync_header", "sync_body"} => pc \in {"sync_header", "sync_body"}
  PROVE  Registered' /\ InCall'
BY DEF ActiveInv, Registered, InCall

(* A synchronous call that ends leaves the requests as they are. *)
LEMMA ActiveSyncEnds ==
  ASSUME ActiveInv, pc \in {"sync_header", "sync_body"}, pc' \in {"js", "crashed"},
         UNCHANGED active_reqs,
         NEW o \in {"ok", "wrong", "error"}, status' = [status EXCEPT ![call] = o]
  PROVE  Registered' /\ InCall'
<1>1. status \in [Calls -> Statuses] /\ call \in Calls /\ status[call] = "sync"
  BY DEF ActiveInv, InCall, TypeOK, SandboxTypes
<1>2. status'[call] = o /\ \A r \in Calls : r # call => status'[r] = status[r]
  BY <1>1
<1>3. Registered'
  BY <1>1, <1>2 DEF ActiveInv, Registered
<1> QED
  BY <1>3 DEF InCall

LEMMA ActiveJavaScript ==
  ASSUME ActiveInv, JavaScript
  PROVE  Registered' /\ InCall'
<1>0. status \in [Calls -> Statuses] /\ active_reqs \subseteq Calls
  BY DEF ActiveInv, TypeOK, SandboxTypes, AsyncTypes
<1>1. ASSUME NEW r \in Calls, NEW f \in Impls, SyncCall(r, f) PROVE Registered' /\ InCall'
  <2>1. /\ status[r] = "idle" /\ status' = [status EXCEPT ![r] = "sync"] /\ call' = r
        /\ UNCHANGED active_reqs
    BY <1>1 DEF SyncCall, asyncVars
  <2>2. status'[r] = "sync" /\ \A s \in Calls : s # r => status'[s] = status[s]
    BY <1>0, <2>1
  <2>3. Registered'
    BY <1>0, <2>1, <2>2 DEF ActiveInv, Registered
  <2> QED
    BY <2>1, <2>2, <2>3 DEF InCall
<1>2. ASSUME NEW r \in Calls, PostMessage(r) PROVE Registered' /\ InCall'
  <2>1. /\ status[r] = "idle" /\ status' = [status EXCEPT ![r] = "async"]
        /\ active_reqs' = active_reqs \cup {r}
        /\ pc' \in {"js", "crashed"}
    BY <1>2 DEF PostMessage, Send
  <2>2. status'[r] = "async" /\ \A s \in Calls : s # r => status'[s] = status[s]
    BY <1>0, <2>1
  <2>3. Registered'
    BY <1>0, <2>1, <2>2 DEF ActiveInv, Registered
  <2> QED
    BY <2>1, <2>3 DEF InCall
<1>3. ASSUME NEW r \in Calls, PostMessageNoIds(r) PROVE Registered' /\ InCall'
  <2>1. /\ status[r] = "idle" /\ status' = [status EXCEPT ![r] = "error"]
        /\ UNCHANGED active_reqs /\ pc' = "crashed"
    BY <1>3 DEF PostMessageNoIds, asyncVars
  <2>2. status'[r] = "error" /\ \A s \in Calls : s # r => status'[s] = status[s]
    BY <1>0, <2>1
  <2>3. Registered'
    BY <1>0, <2>1, <2>2 DEF ActiveInv, Registered
  <2> QED
    BY <2>1, <2>3 DEF InCall
<1>4. CASE StartTimer \/ Return \/ Throw
  <2>1. UNCHANGED <<active_reqs, status, call>> /\ pc' \notin {"sync_header", "sync_body"}
    BY <1>4 DEF StartTimer, Return, Throw, ReturnTo, sandboxVars, asyncVars
  <2> QED
    BY <2>1, ActiveKept
<1> QED
  BY <1>1, <1>2, <1>3, <1>4 DEF JavaScript

LEMMA ActiveReads ==
  ASSUME ActiveInv, Reads
  PROVE  Registered' /\ InCall'
<1>0. status \in [Calls -> Statuses] /\ active_reqs \subseteq Calls
  BY DEF ActiveInv, TypeOK, SandboxTypes, AsyncTypes
<1>1. CASE SyncHeader \/ SyncBodyCrash \/ PollNothing \/ PollHeader \/ PollBodyCrash \/ PollEof
  <2>1. /\ UNCHANGED <<active_reqs, status, call>>
        /\ pc' \in {"sync_header", "sync_body"} => pc \in {"sync_header", "sync_body"}
    BY <1>1 DEF SyncHeader, SyncBodyCrash, PollNothing, PollHeader, PollBodyCrash, PollEof, ReadHeader, asyncVars
  <2> QED
    BY <2>1, ActiveKept
<1>2. CASE SyncBadMagic
  <2>1. /\ pc = "sync_header" /\ pc' \in {"js", "crashed"} /\ UNCHANGED active_reqs
        /\ status' = [status EXCEPT ![call] = "error"]
    BY <1>2 DEF SyncBadMagic, ReadHeader, asyncVars
  <2> QED
    BY <2>1, ActiveSyncEnds
<1>3. CASE SyncBody
  <2>1. pc = "sync_body" /\ UNCHANGED active_reqs
    BY <1>3 DEF SyncBody, asyncVars
  <2>2. \/ pc' = "js" /\ status' = [status EXCEPT ![call] = Outcome(call, got')]
        \/ UNCHANGED <<pc, status, call>>
    BY <1>3 DEF SyncBody
  <2>3. Outcome(call, got') \in {"ok", "wrong", "error"}
    BY DEF Outcome
  <2> QED
    BY <2>1, <2>2, <2>3, ActiveSyncEnds, ActiveKept
<1>4. CASE PollBody
  <2>1. PICK c \in async_callbacks :
          /\ active_reqs' = active_reqs \ {c.work}
          /\ status' = [status EXCEPT ![c.work] = Outcome(c.work, got')]
    BY <1>4 DEF PollBody
  <2>2. c.work \in Calls /\ pc' = "js"
    BY <1>4 DEF PollBody, ActiveInv, TypeOK, AsyncTypes
  <2>3. Outcome(c.work, got') # "async"
    BY DEF Outcome
  <2>4. status'[c.work] # "async" /\ \A s \in Calls : s # c.work => status'[s] = status[s]
    BY <1>0, <2>1, <2>2, <2>3
  <2>5. Registered'
    BY <1>0, <2>1, <2>2, <2>4 DEF ActiveInv, Registered
  <2> QED
    BY <2>2, <2>5 DEF InCall
<1>5. ASSUME NEW failed \in BOOLEAN, SyncHeaderEof(failed) PROVE Registered' /\ InCall'
  <2>1. pc = "sync_header" /\ UNCHANGED active_reqs
    BY <1>5 DEF SyncHeaderEof, asyncVars
  <2>2. \/ pc' = "js" /\ status' = [status EXCEPT ![call] = "error"]
        \/ UNCHANGED <<status, call>>
    BY <1>5 DEF SyncHeaderEof
  <2> QED
    BY <2>1, <2>2, ActiveSyncEnds, ActiveKept
<1>6. CASE SyncBodyEof
  <2>1. pc = "sync_body" /\ UNCHANGED active_reqs
    BY <1>6 DEF SyncBodyEof, asyncVars
  <2>2. \/ pc' = "js" /\ status' = [status EXCEPT ![call] = "wrong"]
        \/ UNCHANGED <<status, call>>
    BY <1>6 DEF SyncBodyEof
  <2> QED
    BY <2>1, <2>2, ActiveSyncEnds, ActiveKept
<1> QED
  BY <1>1, <1>2, <1>3, <1>4, <1>5, <1>6 DEF Reads

LEMMA ActiveAlways == Spec => []ActiveInv
<1>1. Init => Registered /\ InCall
  BY DEF Init, Registered, InCall
<1>2. ActiveInv /\ [Next]_vars => Registered' /\ InCall'
  <2> SUFFICES ASSUME ActiveInv, [Next]_vars PROVE Registered' /\ InCall'
    OBVIOUS
  <2>1. CASE Loop
    <3>1. UNCHANGED <<active_reqs, status, call>> /\ pc' \notin {"sync_header", "sync_body"}
      BY <2>1 DEF Loop, TimerFires, Poll, Send, EndIteration, EmitBeforeExit, asyncVars
    <3> QED
      BY <3>1, ActiveKept
  <2>2. CASE Host
    <3>1. UNCHANGED <<active_reqs, status, call, pc>>
      BY <2>2 DEF Host, Deliver, HandlePoll, HandleCall, syncCallback, asyncCallback, HostDies,
                  sandboxVars, asyncVars
    <3> QED
      BY <3>1, ActiveKept
  <2>3. CASE UNCHANGED vars
    <3>1. UNCHANGED <<active_reqs, status, call, pc>>
      BY <2>3 DEF vars, sandboxVars, asyncVars
    <3> QED
      BY <3>1, ActiveKept
  <2> QED
    BY <2>1, <2>2, <2>3, ActiveJavaScript, ActiveReads DEF Next, Ended
<1> QED
  BY <1>1, <1>2, TypeCorrect, PTL DEF Spec, ActiveInv

(* Start emits 'exit' of its own accord only when every asynchronous call  *)
(* has run its callback, whatever the host and the socket do: of the steps *)
(* only Return enters the phase, and it has just found the loop not alive, *)
(* so that no request is registered.                                       *)
THEOREM ExitWaits == Spec => ExitComplete
<1>1. ActiveInv /\ [Next]_vars =>
        [phase # "exit" /\ phase' = "exit" => \A r \in Calls : status[r] # "async"]_vars
  <2> SUFFICES ASSUME ActiveInv, Next, phase # "exit", phase' = "exit"
               PROVE  \A r \in Calls : status[r] # "async"
    OBVIOUS
  <2>1. Return
    <3>1. CASE JavaScript
      BY <3>1 DEF JavaScript, SyncCall, PostMessage, PostMessageNoIds, StartTimer, Throw, sandboxVars
    <3>2. ~Loop
      BY DEF Loop, TimerFires, Poll, EndIteration, EmitBeforeExit
    <3>3. ~Reads
      BY DEF Reads, SyncHeader, SyncBadMagic, SyncBody, SyncBodyCrash, PollNothing, PollHeader, PollBody,
             PollBodyCrash, SyncHeaderEof, SyncBodyEof, PollEof
    <3>4. ~Host
      BY DEF Host, Deliver, HandlePoll, HandleCall, syncCallback, asyncCallback, HostDies, sandboxVars
    <3>5. ~Ended
      BY DEF Ended, vars, sandboxVars
    <3> QED
      BY <3>1, <3>2, <3>3, <3>4, <3>5 DEF Next
  <2>2. ~uv__loop_alive
    BY <2>1 DEF Return
  <2> QED
    BY <2>2 DEF uv__loop_alive, ActiveInv, Registered
<1> QED
  BY <1>1, ActiveAlways, PTL DEF Spec, ExitComplete

----------------------------------------------------------------------------
(***************************************************************************)
(* The first wrong answer.  Bodies may come in pieces and the host may     *)
(* end.  As long as no call has got something else than its answer, the    *)
(* sandbox and the host are in step (InStep): what WireInv says, with      *)
(* part of a body for the whole, and nothing about a host that is gone.    *)
(***************************************************************************)

(* Units j + 1 to k of the body of an answer. *)
Part(r, j, k) == [i \in 1..(k - j) |-> BodyUnit(r, j + i)]

(* What is left of the write of a body of n when the socket has taken k. *)
Left(r, k, n) == IF k = n THEN <<>> ELSE <<Part(r, k, n)>>

(* A host that is there has just q to write, and nothing to answer at once. *)
HostHas(q) == host = "up" => hostOut = q /\ UpAsync /\ PendingAsync

Alone == down = <<>> /\ HostHas(<<>>)

(* The answer with header h and a body of n for the call r is on its way, *)
(* none of it read.                                                       *)
Arriving(h, r, n) ==
  \/ down = <<>> /\ HostHas(<<<<h>>, Body(r, n)>>)
  \/ \E k \in 0..n : down = <<h>> \o Part(r, 0, k) /\ HostHas(Left(r, k, n))

(* Its header has been read, and some of its body may have been. *)
BodyArriving(r, n) ==
  \E k \in 0..n : \E j \in 0..k :
    /\ j < n /\ got = Part(r, 0, j) /\ down = Part(r, j, k) /\ HostHas(Left(r, k, n))

NoneArriving ==
  \/ down = <<>> /\ HostHas(<<<<Header(0, 0)>>>>)
  \/ down = <<Header(0, 0)>> /\ HostHas(<<>>)

Asked(msg) == host = "up" /\ (OnWire(msg) \/ InHost(msg))

SyncHeaderStep ==
  pc = "sync_header" =>
    /\ call \in Calls
    /\ Asked([id |-> 0, call |-> call]) \/ \E n \in Sizes : Arriving(Header(0, n), call, n)

SyncBodyStep ==
  pc = "sync_body" =>
    call \in Calls /\ rpc_header.size \in Sizes /\ BodyArriving(call, rpc_header.size)

PollHeaderStep ==
  pc = "poll_header" =>
    \/ host = "up" /\ OnWire(RequestAsyncResponse)
    \/ NoneArriving
    \/ \E c \in async_callbacks, n \in Sizes : Arriving(Header(c.id, n), c.work, n)

PollBodyStep ==
  pc = "poll_body" =>
    /\ got = <<>> /\ rpc_header.size \in Sizes
    /\ \E c \in async_callbacks : c.id = rpc_header.id /\ BodyArriving(c.work, rpc_header.size)

InStep ==
  /\ pc \in RunsFreely => Alone
  /\ SyncHeaderStep /\ SyncBodyStep /\ PollHeaderStep /\ PollBodyStep

(* A call that was made has had its callback or waits for it, or is the    *)
(* synchronous call in progress.                                           *)
MadeInv ==
  /\ \A c \in async_callbacks : status[c.work] = "async" \/ Ran(c.work)
  /\ \A r \in Calls : status[r] = "sync" /\ ~ended => pc \in {"sync_header", "sync_body"} /\ r = call

FirstInv == OnceInv /\ ActiveInv /\ MadeInv /\ (OwnReply => InStep)

(* Parts of a body. *)
LEMMA PartType ==
  ASSUME NEW r \in Calls, NEW n \in Sizes, NEW k \in 0..n, NEW j \in 0..k
  PROVE  /\ Part(r, j, k) \in Seq(Units) /\ Len(Part(r, j, k)) = k - j
         /\ \A i \in 1..(k - j) : Part(r, j, k)[i] = BodyUnit(r, j + i)
<1>1. k - j \in Nat /\ \A i \in 1..(k - j) : j + i \in Sizes
  BY ConstantsAssumption DEF Sizes
<1>2. \A i \in 1..(k - j) : BodyUnit(r, j + i) \in Units
  BY <1>1 DEF Units
<1>3. Part(r, j, k) \in [1..(k - j) -> Units]
  BY <1>2 DEF Part
<1> QED
  BY <1>1, <1>3 DEF Part

LEMMA PartEmpty ==
  ASSUME NEW r \in Calls, NEW n \in Sizes, NEW k \in 0..n
  PROVE  Part(r, k, k) = <<>>
<1>1. k \in 0..k /\ k - k = 0
  BY ConstantsAssumption DEF Sizes
<1>2. Part(r, k, k) \in Seq(Units) /\ Len(Part(r, k, k)) = 0
  BY <1>1, PartType
<1> QED
  BY <1>2, EmptySeq

LEMMA BodyIsPart ==
  ASSUME NEW r \in Calls, NEW n \in Sizes
  PROVE  Body(r, n) = Part(r, 0, n)
<1>1. n \in Nat /\ n - 0 = n /\ \A i \in 1..n : 0 + i = i
  BY ConstantsAssumption DEF Sizes
<1> QED
  BY <1>1 DEF Body, Part

LEMMA PartJoin ==
  ASSUME NEW r \in Calls, NEW n \in Sizes, NEW m \in 0..n, NEW k \in 0..m, NEW j \in 0..k
  PROVE  Part(r, j, k) \o Part(r, k, m) = Part(r, j, m)
<1> DEFINE a == Part(r, j, k)
           b == Part(r, k, m)
           c == Part(r, j, m)
<1>0. /\ n \in Nat /\ m \in Nat /\ k \in Nat /\ j \in Nat /\ j =< k /\ k =< m /\ m =< n
      /\ k \in 0..n /\ j \in 0..m /\ j \in 0..n
  BY ConstantsAssumption DEF Sizes
<1>1. a \in Seq(Units) /\ Len(a) = k - j /\ \A i \in 1..(k - j) : a[i] = BodyUnit(r, j + i)
  BY <1>0, PartType
<1>2. b \in Seq(Units) /\ Len(b) = m - k /\ \A i \in 1..(m - k) : b[i] = BodyUnit(r, k + i)
  BY <1>0, PartType
<1>3. c \in Seq(Units) /\ Len(c) = m - j /\ \A i \in 1..(m - j) : c[i] = BodyUnit(r, j + i)
  BY <1>0, PartType
<1> HIDE DEF a, b, c
<1>4. a \o b \in Seq(Units) /\ Len(a \o b) = m - j
  BY <1>0, <1>1, <1>2
<1>5. \A i \in 1..(m - j) : (a \o b)[i] = c[i]
  <2> SUFFICES ASSUME NEW i \in 1..(m - j) PROVE (a \o b)[i] = c[i]
    OBVIOUS
  <2>1. CASE i =< k - j
    <3>1. i \in 1..(k - j)
      BY <1>0, <2>1
    <3>2. (a \o b)[i] = a[i]
      BY <1>0, <1>1, <1>2, <3>1
    <3> QED
      BY <1>1, <1>3, <3>1, <3>2
  <2>2. CASE i > k - j
    <3>1. i - (k - j) \in 1..(m - k) /\ k + (i - (k - j)) = j + i
      BY <1>0, <2>2
    <3>2. (a \o b)[i] = b[i - (k - j)]
      BY <1>0, <1>1, <1>2, <2>2
    <3>3. b[i - (k - j)] = BodyUnit(r, j + i)
      BY <1>2, <3>1
    <3> QED
      BY <1>3, <3>2, <3>3
  <2>3. i =< k - j \/ i > k - j
    BY <1>0
  <2> QED
    BY <2>1, <2>2, <2>3
<1>6. a \o b = c
  BY <1>3, <1>4, <1>5, SeqEqual
<1> QED
  BY <1>6 DEF a, b, c

LEMMA PartTake ==
  ASSUME NEW r \in Calls, NEW n \in Sizes, NEW m \in 0..n, NEW k \in 0..m, NEW j \in 0..k
  PROVE  /\ SubSeq(Part(r, j, m), 1, k - j) = Part(r, j, k)
         /\ SubSeq(Part(r, j, m), (k - j) + 1, m - j) = Part(r, k, m)
<1> DEFINE a == Part(r, j, k)
           b == Part(r, k, m)
           c == Part(r, j, m)
           d == k - j
           e == m - j
<1>0. /\ n \in Nat /\ m \in Nat /\ k \in Nat /\ j \in Nat /\ j =< k /\ k =< m /\ m =< n
      /\ k \in 0..n /\ j \in 0..m /\ d \in Nat /\ e \in Nat /\ d =< e /\ m - k = e - d
      /\ \A i \in Nat : k + i = j + (d + i)
  BY ConstantsAssumption DEF Sizes
<1>1. a \in Seq(Units) /\ Len(a) = d /\ \A i \in 1..d : a[i] = BodyUnit(r, j + i)
  BY <1>0, PartType
<1>2. b \in Seq(Units) /\ Len(b) = m - k /\ \A i \in 1..(m - k) : b[i] = BodyUnit(r, k + i)
  BY <1>0, PartType
<1>3. c \in Seq(Units) /\ Len(c) = e /\ \A i \in 1..e : c[i] = BodyUnit(r, j + i)
  BY <1>0, PartType
<1> HIDE DEF a, b, c, d, e
<1>4. \A i \in 1..d : i \in 1..e
  BY <1>0
<1>5. \A i \in 1..(e - d) : d + i \in 1..e /\ i \in Nat
  BY <1>0
<1>6. SubSeq(c, 1, d) = a
  <2>1. \A i \in 1..d : c[i] \in Units
    BY <1>3, <1>4
  <2>2. /\ SubSeq(c, 1, d) \in Seq(Units)
        /\ Len(SubSeq(c, 1, d)) = IF 1 <= d THEN d - 1 + 1 ELSE 0
        /\ \A i \in 1..(d - 1 + 1) : SubSeq(c, 1, d)[i] = c[1 + i - 1]
    BY <1>0, <2>1, SubSeqProperties
  <2>3. d - 1 + 1 = d /\ (IF 1 <= d THEN d - 1 + 1 ELSE 0) = d /\ \A i \in 1..d : 1 + i - 1 = i
    BY <1>0
  <2>4. Len(SubSeq(c, 1, d)) = d /\ \A i \in 1..d : SubSeq(c, 1, d)[i] = a[i]
    BY <1>1, <1>3, <1>4, <2>2, <2>3
  <2> QED
    BY <1>1, <2>2, <2>4, SeqEqual
<1>7. SubSeq(c, d + 1, e) = b
  <2>1. \A i \in (d + 1)..e : i \in 1..e
    BY <1>0
  <2>2. \A i \in (d + 1)..e : c[i] \in Units
    BY <1>3, <2>1
  <2>3. /\ SubSeq(c, d + 1, e) \in Seq(Units)
        /\ Len(SubSeq(c, d + 1, e)) = IF d + 1 <= e THEN e - (d + 1) + 1 ELSE 0
        /\ \A i \in 1..(e - (d + 1) + 1) : SubSeq(c, d + 1, e)[i] = c[d + 1 + i - 1]
    BY <1>0, <2>2, SubSeqProperties
  <2>4. /\ (IF d + 1 <= e THEN e - (d + 1) + 1 ELSE 0) = e - d /\ e - (d + 1) + 1 = e - d
        /\ \A i \in 1..(e - d) : d + 1 + i - 1 = d + i
    BY <1>0
  <2>5. Len(SubSeq(c, d + 1, e)) = e - d /\ \A i \in 1..(e - d) : SubSeq(c, d + 1, e)[i] = c[d + i]
    BY <2>3, <2>4
  <2>6. \A i \in 1..(e - d) : SubSeq(c, d + 1, e)[i] = b[i]
    <3> SUFFICES ASSUME NEW i \in 1..(e - d) PROVE SubSeq(c, d + 1, e)[i] = b[i]
      OBVIOUS
    <3>1. c[d + i] = BodyUnit(r, j + (d + i)) /\ i \in Nat
      BY <1>3, <1>5
    <3>2. b[i] = BodyUnit(r, k + i)
      BY <1>0, <1>2
    <3>3. k + i = j + (d + i)
      BY <1>0, <3>1
    <3> QED
      BY <2>5, <3>1, <3>2, <3>3
  <2> QED
    BY <1>0, <1>2, <2>3, <2>5, <2>6, SeqEqual
<1> QED
  BY <1>6, <1>7 DEF a, b, c, d, e

(* The socket takes a part of the body that it has not taken. *)
LEMMA DeliverPart ==
  ASSUME NEW r \in Calls, NEW n \in Sizes, NEW k \in 0..n, Deliver, hostOut = Left(r, k, n)
  PROVE  \E m \in k..n : down' = down \o Part(r, k, m) /\ hostOut' = Left(r, m, n)
<1>0. /\ hostOut # <<>> /\ n \in 0..n /\ n \in Nat /\ k \in Nat
  BY ConstantsAssumption DEF Deliver, Sizes
<1>1. k # n /\ hostOut = <<Part(r, k, n)>>
  BY <1>0 DEF Left
<1> DEFINE w == Part(r, k, n)
           l == Lesser(Chunk, n - k)
           m == k + l
<1>2. Head(hostOut) = w /\ Tail(hostOut) = <<>>
  BY <1>1
<1>3. w \in Seq(Units) /\ Len(w) = n - k
  BY <1>0, PartType
<1>4. l \in Nat /\ l =< n - k /\ l # 0 /\ m \in k..n /\ m \in 0..n /\ k \in 0..m /\ m - k = l
  BY <1>0, <1>1, ConstantsAssumption DEF Lesser
<1> HIDE DEF w, l, m
<1>5. /\ down' = down \o SubSeq(w, 1, l)
      /\ hostOut' = IF l = n - k THEN <<>> ELSE <<SubSeq(w, l + 1, n - k)>> \o <<>>
  BY <1>2, <1>3 DEF Deliver, l
<1>6. SubSeq(w, 1, l) = Part(r, k, m) /\ SubSeq(w, l + 1, n - k) = Part(r, m, n)
  BY <1>0, <1>4, PartTake DEF w
<1>7. l = n - k <=> m = n
  BY <1>0, <1>4
<1>8. <<Part(r, m, n)>> \o <<>> = <<Part(r, m, n)>>
  BY <1>0, <1>4, PartType
<1>9. hostOut' = Left(r, m, n)
  BY <1>5, <1>6, <1>7, <1>8 DEF Left
<1> QED
  BY <1>4, <1>5, <1>6, <1>9

(* What reading a header that is there leaves. *)
LEMMA AfterHeader ==
  ASSUME NEW h \in Headers, NEW r \in Calls, NEW n \in Sizes, NEW k \in 0..n
  PROVE  LET s == <<h>> \o Part(r, 0, k)
         IN  s # <<>> /\ Head(s) = h /\ Tail(s) = Part(r, 0, k)
<1>1. h \in Units /\ Part(r, 0, k) \in Seq(Units)
  <2>1. 0 \in 0..k
    BY ConstantsAssumption DEF Sizes
  <2>2. Part(r, 0, k) \in Seq(Units)
    BY <2>1, PartType
  <2> QED
    BY <2>2 DEF Units
<1> QED
  BY <1>1, HeadTail

(* One read takes all of the body that is there. *)
LEMMA ReadArriving ==
  ASSUME NEW r \in Calls, NEW n \in Sizes, BodyArriving(r, n), ReadBody(n - Len(got)),
         UNCHANGED <<up, hostOut, pending, host>>
  PROVE  \E k \in 0..n : got' = Part(r, 0, k) /\ Len(got') = k /\ down' = <<>> /\ HostHas(Left(r, k, n))'
<1>p. PICK k \in 0..n : \E j \in 0..k :
        /\ j < n /\ got = Part(r, 0, j) /\ down = Part(r, j, k) /\ HostHas(Left(r, k, n))
  BY DEF BodyArriving
<1>1. PICK j \in 0..k :
        /\ j < n /\ got = Part(r, 0, j) /\ down = Part(r, j, k) /\ HostHas(Left(r, k, n))
  BY <1>p
<1>2. /\ n \in Nat /\ k \in Nat /\ j \in Nat /\ j =< k /\ k =< n /\ 0 \in 0..j /\ j \in 0..n /\ j - 0 = j
      /\ 0 \in 0..k /\ k \in 0..k /\ j \in 0..k
  BY <1>1, ConstantsAssumption DEF Sizes
<1>3. Len(got) = j /\ Len(down) = k - j /\ down \in Seq(Units)
  BY <1>1, <1>2, PartType
<1>4. Lesser(n - j, k - j) = k - j
  BY <1>2 DEF Lesser
<1>5. down' = SubSeq(down, (k - j) + 1, k - j) /\ got' = got \o SubSeq(down, 1, k - j)
  BY <1>3, <1>4 DEF ReadBody
<1>6. SubSeq(down, 1, k - j) = Part(r, j, k) /\ SubSeq(down, (k - j) + 1, k - j) = Part(r, k, k)
  BY <1>1, <1>2, PartTake
<1>7. got' = Part(r, 0, k)
  BY <1>1, <1>2, <1>5, <1>6, PartJoin
<1>8. down' = <<>>
  BY <1>2, <1>5, <1>6, PartEmpty
<1>9. Len(got') = k
  BY <1>2, <1>7, PartType
<1>10. HostHas(Left(r, k, n))'
  BY <1>1 DEF HostHas, UpAsync, PendingAsync
<1> QED
  BY <1>7, <1>8, <1>9, <1>10

(* A body that was read in part is a wrong answer, and one read to its end *)
(* is the answer.                                                          *)
LEMMA OutcomeOfPart ==
  ASSUME NEW r \in Calls, NEW n \in Sizes, NEW k \in 0..n, rpc_header.size = n
  PROVE  Outcome(r, Part(r, 0, k)) = IF k = n THEN "ok" ELSE "wrong"
<1>1. Len(Part(r, 0, k)) = k
  <2>1. 0 \in 0..k /\ k - 0 = k
    BY ConstantsAssumption DEF Sizes
  <2> QED
    BY <2>1, PartType
<1>2. CASE k # n
  BY <1>1, <1>2 DEF Outcome
<1>3. CASE k = n
  BY <1>1, <1>3, BodyIsPart DEF Outcome
<1> QED
  BY <1>2, <1>3

(* Steps that neither end a call nor run a callback. *)
LEMMA MadeFrame ==
  ASSUME MadeInv, UNCHANGED <<async_callbacks, fired, status, call>>,
         pc' \notin {"exited", "crashed", "sync_header", "sync_body"} =>
           ~ended /\ pc \notin {"sync_header", "sync_body"},
         pc' \in {"sync_header", "sync_body"} => ~ended
  PROVE  MadeInv'
BY DEF MadeInv, Ran, ended

(* Steps that end the synchronous call in progress. *)
LEMMA MadeSyncEnds ==
  ASSUME TypeInv, ActiveInv, MadeInv, pc \in {"sync_header", "sync_body"},
         UNCHANGED <<async_callbacks, fired>>, NEW o \in {"ok", "wrong", "error"},
         status' = [status EXCEPT ![call] = o]
  PROVE  MadeInv' /\ \A r \in Calls : status[r] = "wrong" => status'[r] = "wrong"
<1>1. status \in [Calls -> Statuses] /\ call \in Calls /\ status[call] = "sync" /\ ~ended
  BY DEF TypeInv, TypeOK, SandboxTypes, ActiveInv, InCall, ended
<1>2. status'[call] = o /\ \A r \in Calls : r # call => status'[r] = status[r]
  BY <1>1
<1>3. \A c \in async_callbacks : c.work \in Calls
  BY DEF TypeInv, TypeOK, AsyncTypes
<1> QED
  BY <1>1, <1>2, <1>3 DEF MadeInv, Ran

LEMMA MadeJavaScript ==
  ASSUME TypeInv, OnceInv, MadeInv, JavaScript
  PROVE  MadeInv' /\ \A r \in Calls : status[r] = "wrong" => status'[r] = "wrong"
<1>0. /\ pc = "js" /\ ~ended /\ status \in [Calls -> Statuses] /\ fired' = fired
      /\ \A c \in async_callbacks : c.work \in Calls /\ status[c.work] # "idle"
  BY DEF JavaScript, SyncCall, PostMessage, PostMessageNoIds, StartTimer, Return, Throw, ended,
         asyncVars, TypeInv, TypeOK, SandboxTypes, AsyncTypes, OnceInv, SentInv, TokenInv
<1>1. ASSUME NEW r \in Calls, NEW s \in Statuses, status[r] = "idle",
             status' = [status EXCEPT ![r] = s]
      PROVE  /\ status'[r] = s /\ \A t \in Calls : t # r => status'[t] = status[t]
             /\ \A c \in async_callbacks : status'[c.work] = status[c.work]
             /\ \A t \in Calls : status[t] = "wrong" => status'[t] = "wrong"
  BY <1>0, <1>1
<1>2. ASSUME NEW r \in Calls, NEW f \in Impls, SyncCall(r, f)
      PROVE  MadeInv' /\ \A t \in Calls : status[t] = "wrong" => status'[t] = "wrong"
  <2>1. /\ pc' \in {"sync_header", "crashed"} /\ call' = r /\ UNCHANGED async_callbacks
        /\ status' = [status EXCEPT ![r] = "sync"] /\ status[r] = "idle" /\ "sync" \in Statuses
    BY <1>2 DEF SyncCall, Send, asyncVars, Statuses
  <2>2. \A t \in Calls : t # r => status[t] # "sync"
    BY <1>0 DEF MadeInv
  <2> QED
    BY <1>0, <1>1, <2>1, <2>2 DEF MadeInv, Ran, ended
<1>3. ASSUME NEW r \in Calls, PostMessage(r)
      PROVE  MadeInv' /\ \A t \in Calls : status[t] = "wrong" => status'[t] = "wrong"
  <2> DEFINE new == [id |-> unique_id, work |-> r]
  <2>1. /\ async_callbacks' = async_callbacks \cup {new} /\ new.work = r
        /\ status' = [status EXCEPT ![r] = "async"] /\ status[r] = "idle" /\ "async" \in Statuses
    BY <1>3 DEF PostMessage, Statuses
  <2> HIDE DEF new
  <2>2. \A t \in Calls : status[t] # "sync"
    BY <1>0 DEF MadeInv
  <2> QED
    BY <1>0, <1>1, <2>1, <2>2 DEF MadeInv, Ran
<1>4. ASSUME NEW r \in Calls, PostMessageNoIds(r)
      PROVE  MadeInv' /\ \A t \in Calls : status[t] = "wrong" => status'[t] = "wrong"
  <2>1. /\ UNCHANGED async_callbacks /\ pc' = "crashed"
        /\ status' = [status EXCEPT ![r] = "error"] /\ status[r] = "idle" /\ "error" \in Statuses
    BY <1>4 DEF PostMessageNoIds, asyncVars, Statuses
  <2> QED
    BY <1>0, <1>1, <2>1 DEF MadeInv, Ran, ended
<1>5. CASE StartTimer \/ Return \/ Throw
  <2>1. /\ UNCHANGED <<async_callbacks, status, call>> /\ pc' \notin {"sync_header", "sync_body"}
    BY <1>5 DEF StartTimer, Return, ReturnTo, Throw, sandboxVars, asyncVars
  <2> QED
    BY <1>0, <2>1, MadeFrame
<1> QED
  BY <1>2, <1>3, <1>4, <1>5 DEF JavaScript

LEMMA MadeReads ==
  ASSUME TypeInv, OnceInv', ActiveInv, MadeInv, Reads
  PROVE  MadeInv' /\ \A r \in Calls : status[r] = "wrong" => status'[r] = "wrong"
<1>0. status \in [Calls -> Statuses] /\ fired \in Seq(Calls)
  BY DEF TypeInv, TypeOK, SandboxTypes, AsyncTypes
<1>1. CASE SyncHeader \/ SyncBodyCrash \/ PollNothing \/ PollHeader \/ PollBodyCrash \/ PollEof
  <2>1. /\ UNCHANGED <<async_callbacks, fired, status, call>>
        /\ pc' \notin {"exited", "crashed", "sync_header", "sync_body"} =>
             ~ended /\ pc \notin {"sync_header", "sync_body"}
        /\ pc' \in {"sync_header", "sync_body"} => ~ended
    BY <1>1 DEF SyncHeader, SyncBodyCrash, PollNothing, PollHeader, PollBodyCrash, PollEof,
                ReadHeader, asyncVars, ended
  <2>2. MadeInv'
    BY <2>1, MadeFrame
  <2> QED
    BY <2>1, <2>2
<1>2. CASE SyncBadMagic
  <2>1. /\ pc = "sync_header" /\ UNCHANGED <<async_callbacks, fired>>
        /\ status' = [status EXCEPT ![call] = "error"]
    BY <1>2 DEF SyncBadMagic, ReadHeader, asyncVars
  <2> QED
    BY <2>1, MadeSyncEnds
<1>3. CASE SyncBody
  <2>1. pc = "sync_body" /\ UNCHANGED <<async_callbacks, fired>>
    BY <1>3 DEF SyncBody, asyncVars
  <2>2. \/ status' = [status EXCEPT ![call] = Outcome(call, got')]
        \/ UNCHANGED <<pc, status, call>>
    BY <1>3 DEF SyncBody
  <2>3. Outcome(call, got') \in {"ok", "wrong", "error"}
    BY DEF Outcome
  <2>4. ASSUME UNCHANGED <<pc, status, call>> PROVE MadeInv'
    BY <2>1, <2>4, MadeFrame DEF ended
  <2> QED
    BY <2>1, <2>2, <2>3, <2>4, MadeSyncEnds
<1>4. CASE PollBody
  <2>1. PICK c \in async_callbacks :
          /\ fired' = Append(fired, c.work)
          /\ status' = [status EXCEPT ![c.work] = Outcome(c.work, got')]
    BY <1>4 DEF PollBody
  <2>2. c.work \in Calls /\ pc = "poll_body" /\ UNCHANGED async_callbacks
    BY <1>4 DEF PollBody, TypeInv, TypeOK, AsyncTypes
  <2>3. /\ \A i \in DOMAIN fired : i \in DOMAIN fired' /\ fired'[i] = fired[i] /\ i # Len(fired) + 1
        /\ Len(fired) + 1 \in DOMAIN fired' /\ fired'[Len(fired) + 1] = c.work
    BY <1>0, <2>1, <2>2
  <2>4. ~Ran(c.work)
    BY <2>3 DEF Ran, OnceInv, AnswerInv, CallbackOnce
  <2>5. status[c.work] = "async"
    BY <2>4 DEF MadeInv
  <2>6. Outcome(c.work, got') \in {"ok", "wrong"}
    BY DEF Outcome
  <2>7. /\ status'[c.work] \in {"ok", "wrong"}
        /\ \A t \in Calls : t # c.work => status'[t] = status[t]
    BY <1>0, <2>1, <2>2, <2>6
  <2>8. \A t : Ran(t) => Ran(t)'
    BY <2>3 DEF Ran
  <2>9. Ran(c.work)'
    BY <2>3 DEF Ran
  <2>10. \A d \in async_callbacks : status'[d.work] = "async" \/ Ran(d.work)'
    <3>1. \A d \in async_callbacks : d.work \in Calls
      BY DEF TypeInv, TypeOK, AsyncTypes
    <3> QED
      BY <2>7, <2>8, <2>9, <3>1 DEF MadeInv
  <2>11. \A r \in Calls : status'[r] # "sync"
    BY <2>2, <2>7 DEF MadeInv, ended
  <2>12. MadeInv'
    BY <2>2, <2>10, <2>11 DEF MadeInv, Ran
  <2> QED
    BY <2>5, <2>7, <2>12
<1>5. ASSUME NEW failed \in BOOLEAN, SyncHeaderEof(failed)
      PROVE  MadeInv' /\ \A r \in Calls : status[r] = "wrong" => status'[r] = "wrong"
  <2>1. pc = "sync_header" /\ UNCHANGED <<async_callbacks, fired>>
    BY <1>5 DEF SyncHeaderEof, asyncVars
  <2>2. \/ status' = [status EXCEPT ![call] = "error"]
        \/ pc' = "sync_body" /\ UNCHANGED <<status, call>>
    BY <1>5 DEF SyncHeaderEof
  <2>3. ASSUME pc' = "sync_body", UNCHANGED <<status, call>> PROVE MadeInv'
    BY <2>1, <2>3, MadeFrame DEF ended
  <2> QED
    BY <2>1, <2>2, <2>3, MadeSyncEnds
<1>6. CASE SyncBodyEof
  <2>1. pc = "sync_body" /\ UNCHANGED <<async_callbacks, fired>>
    BY <1>6 DEF SyncBodyEof, asyncVars
  <2>2. \/ status' = [status EXCEPT ![call] = "wrong"]
        \/ UNCHANGED <<pc, status, call>>
    BY <1>6 DEF SyncBodyEof
  <2>3. ASSUME UNCHANGED <<pc, status, call>> PROVE MadeInv'
    BY <2>1, <2>3, MadeFrame DEF ended
  <2> QED
    BY <2>1, <2>2, <2>3, MadeSyncEnds
<1> QED
  BY <1>1, <1>2, <1>3, <1>4, <1>5, <1>6 DEF Reads

(* A call is wrong for good. *)
LEMMA MadeStep ==
  ASSUME OnceInv, OnceInv', ActiveInv, MadeInv, [Next]_vars
  PROVE  MadeInv' /\ \A r \in Calls : status[r] = "wrong" => status'[r] = "wrong"
<1>0. TypeInv
  BY DEF OnceInv
<1>1. CASE Loop
  <2>1. /\ UNCHANGED <<async_callbacks, fired, status, call>>
        /\ pc' \notin {"sync_header", "sync_body"} /\ ~ended /\ pc \notin {"sync_header", "sync_body"}
    BY <1>1 DEF Loop, TimerFires, Poll, Send, EndIteration, EmitBeforeExit, asyncVars, ended
  <2> QED
    BY <2>1, MadeFrame
<1>2. CASE Host \/ UNCHANGED vars
  <2>1. UNCHANGED <<async_callbacks, fired, status, call, pc>>
    BY <1>2 DEF Host, Deliver, HandlePoll, HandleCall, syncCallback, asyncCallback, HostDies,
                vars, sandboxVars, asyncVars
  <2>2. MadeInv'
    BY <2>1 DEF MadeInv, Ran, ended
  <2> QED
    BY <2>1, <2>2
<1> QED
  BY <1>0, <1>1, <1>2, MadeJavaScript, MadeReads DEF Next, Ended

(* Once the process has ended nothing is asked of the stream. *)
LEMMA StepEnded == pc' \in {"exited", "crashed"} => InStep'
BY DEF InStep, SyncHeaderStep, SyncBodyStep, PollHeaderStep, PollBodyStep, RunsFreely

(* Nor is anything while the sandbox runs but that it is alone. *)
LEMMA StepRuns == pc' \in RunsFreely /\ Alone' => InStep'
BY DEF InStep, SyncHeaderStep, SyncBodyStep, PollHeaderStep, PollBodyStep, RunsFreely

(* A request that is to be answered at once is sent. *)
LEMMA StepAsk ==
  ASSUME NEW msg \in Requests, TypeInv, Alone, host = "up", msg.id = 0, up' = Append(up, msg),
         UNCHANGED <<hostOut, down, pending, host>>
  PROVE  OnWire(msg)'
<1>1. Quiet /\ UpAsync /\ PendingAsync /\ up \in Seq(Requests)
  BY DEF Alone, HostHas, Quiet, TypeInv, TypeOK, StreamTypes
<1>2. /\ up' # <<>> /\ up'[Len(up')] = msg
      /\ \A i \in 1..(Len(up') - 1) : i \in DOMAIN up /\ up'[i] = up[i]
  BY <1>1, AppendFacts
<1> QED
  BY <1>1, <1>2 DEF OnWire, Quiet, UpAsync, PendingAsync

LEMMA StepJavaScript ==
  ASSUME TypeInv, InStep, JavaScript
  PROVE  InStep'
<1>t. /\ pc = "js" /\ Alone /\ up \in Seq(Requests) /\ host \in {"up", "gone"}
      /\ unique_id \in 1..ULONG_MAX /\ UNCHANGED <<hostVars, hostOut, down>>
  BY DEF JavaScript, SyncCall, PostMessage, PostMessageNoIds, StartTimer, Return, Throw,
         streamVars, TypeInv, TypeOK, StreamTypes, HostTypes, AsyncTypes, InStep, RunsFreely
<1>1. ASSUME NEW r \in Calls, NEW f \in Impls, SyncCall(r, f) PROVE InStep'
  <2> DEFINE msg == [id |-> 0, call |-> r]
  <2>1. msg \in Requests /\ msg.id = 0
    BY ConstantsAssumption DEF Requests, Ids
  <2>2. CASE host = "up"
    <3>1. up' = Append(up, msg) /\ pc' = "sync_header" /\ call' = r
      BY <1>1, <2>2 DEF SyncCall, Send
    <3>2. OnWire(msg)'
      BY <1>t, <2>1, <2>2, <3>1, StepAsk DEF hostVars
    <3>3. host' = "up"
      BY <1>t, <2>2 DEF hostVars
    <3> QED
      BY <3>1, <3>2, <3>3
         DEF InStep, SyncHeaderStep, SyncBodyStep, PollHeaderStep, PollBodyStep, RunsFreely, Asked
  <2>3. CASE host = "gone"
    <3>1. pc' = "crashed"
      BY <1>1, <2>3 DEF SyncCall, Send
    <3> QED
      BY <3>1, StepEnded
  <2> QED
    BY <1>t, <2>2, <2>3
<1>2. ASSUME NEW r \in Calls, PostMessage(r) PROVE InStep'
  <2> DEFINE msg == [id |-> unique_id, call |-> r]
  <2>1. msg \in Requests /\ msg.id # 0
    BY <1>t, ConstantsAssumption DEF Requests, Ids
  <2>2. CASE host = "up"
    <3>1. up' = Append(up, msg) /\ pc' = "js"
      BY <1>2, <2>2 DEF PostMessage, Send
    <3>2. \A i \in DOMAIN up' : (i \in DOMAIN up /\ up'[i] = up[i]) \/ up'[i] = msg
      BY <1>t, <2>1, <3>1, AppendFacts
    <3>3. Alone'
      BY <1>t, <2>1, <2>2, <3>2 DEF Alone, HostHas, UpAsync, PendingAsync, hostVars
    <3> QED
      BY <3>1, <3>3, StepRuns DEF RunsFreely
  <2>3. CASE host = "gone"
    <3>1. pc' = "crashed"
      BY <1>2, <2>3 DEF PostMessage, Send
    <3> QED
      BY <3>1, StepEnded
  <2> QED
    BY <1>t, <2>2, <2>3
<1>3. ASSUME NEW r \in Calls, PostMessageNoIds(r) PROVE InStep'
  BY <1>3, StepEnded DEF PostMessageNoIds
<1>4. CASE StartTimer \/ Return \/ Throw
  <2>1. pc' \in RunsFreely \cup {"exited", "crashed"} /\ UNCHANGED up
    BY <1>t, <1>4 DEF StartTimer, Return, ReturnTo, Throw, sandboxVars, streamVars, RunsFreely
  <2>2. Alone'
    BY <1>t, <2>1 DEF Alone, HostHas, UpAsync, PendingAsync, hostVars
  <2> QED
    BY <2>1, <2>2, StepRuns, StepEnded
<1> QED
  BY <1>1, <1>2, <1>3, <1>4 DEF JavaScript

LEMMA StepLoop ==
  ASSUME TypeInv, InStep, Loop
  PROVE  InStep'
<1>t. /\ pc \in RunsFreely /\ Alone /\ host \in {"up", "gone"} /\ UNCHANGED <<hostVars, hostOut, down>>
  BY DEF Loop, TimerFires, Poll, EndIteration, EmitBeforeExit, streamVars, TypeInv, TypeOK,
         HostTypes, InStep, RunsFreely
<1>1. CASE Poll
  <2>1. CASE host = "up"
    <3>1. up' = Append(up, RequestAsyncResponse) /\ pc' = "poll_header"
      BY <1>1, <2>1 DEF Poll, Send
    <3>2. OnWire(RequestAsyncResponse)'
      BY <1>t, <2>1, <3>1, StepAsk DEF hostVars, Requests, RequestAsyncResponse
    <3>3. host' = "up"
      BY <1>t, <2>1 DEF hostVars
    <3> QED
      BY <3>1, <3>2, <3>3
         DEF InStep, SyncHeaderStep, SyncBodyStep, PollHeaderStep, PollBodyStep, RunsFreely
  <2>2. CASE host = "gone"
    <3>1. pc' = "crashed"
      BY <1>1, <2>2 DEF Poll, Send
    <3> QED
      BY <3>1, StepEnded
  <2> QED
    BY <1>t, <2>1, <2>2
<1>2. CASE TimerFires \/ EndIteration \/ EmitBeforeExit
  <2>1. pc' \in RunsFreely /\ UNCHANGED up
    BY <1>2 DEF TimerFires, EndIteration, EmitBeforeExit, streamVars, RunsFreely
  <2>2. Alone'
    BY <1>t, <2>1 DEF Alone, HostHas, UpAsync, PendingAsync, hostVars
  <2> QED
    BY <2>1, <2>2, StepRuns
<1> QED
  BY <1>1, <1>2 DEF Loop

(* What reading a header leaves. *)
LEMMA HeaderRead ==
  ASSUME NEW h \in Headers, NEW r \in Calls, NEW n \in Sizes, Arriving(h, r, n), down # <<>>,
         down' = Tail(down), got' = <<>>, UNCHANGED <<up, hostOut, pending, host>>
  PROVE  Head(down) = h /\ BodyArriving(r, n)'
<1>1. PICK k \in 0..n : down = <<h>> \o Part(r, 0, k) /\ HostHas(Left(r, k, n))
  BY DEF Arriving
<1>2. Head(down) = h /\ Tail(down) = Part(r, 0, k)
  BY <1>1, AfterHeader
<1>3. 0 \in 0..k /\ 0 \in 0..n /\ 0 < n
  BY ConstantsAssumption DEF Sizes
<1>4. got' = Part(r, 0, 0) /\ down' = Part(r, 0, k)
  BY <1>2, <1>3, PartEmpty
<1>5. HostHas(Left(r, k, n))'
  BY <1>1 DEF HostHas, UpAsync, PendingAsync
<1> QED
  BY <1>2, <1>3, <1>4, <1>5 DEF BodyArriving

(* What a synchronous call finds. *)
LEMMA SyncFinds ==
  ASSUME SyncHeaderStep, ReadHeader("sync_header"), UNCHANGED <<up, hostOut, pending, host>>
  PROVE  \E r \in Calls, n \in Sizes : r = call /\ Head(down) = Header(0, n) /\ BodyArriving(r, n)'
<1>1. pc = "sync_header" /\ down # <<>> /\ down' = Tail(down) /\ got' = <<>>
  BY DEF ReadHeader
<1>2. call \in Calls /\ \E n \in Sizes : Arriving(Header(0, n), call, n)
  BY <1>1 DEF SyncHeaderStep, Asked, OnWire, InHost, Quiet
<1>3. PICK r \in Calls : r = call
  BY <1>2
<1>4. PICK n \in Sizes : Arriving(Header(0, n), r, n)
  BY <1>2, <1>3
<1>5. Header(0, n) \in Headers
  BY ConstantsAssumption, HeaderUnits DEF Ids
<1> QED
  BY <1>1, <1>3, <1>4, <1>5, HeaderRead

(* What reading a body in a poll finds. *)
LEMMA PollBodyFinds ==
  ASSUME TypeInv, OnceInv, PollBodyStep, PollBody
  PROVE  \E c \in async_callbacks, n \in Sizes, k \in Nat :
           /\ c.work \in Calls /\ n = rpc_header.size /\ k =< n /\ Len(got') = k
           /\ status' = [status EXCEPT ![c.work] = IF k = n THEN "ok" ELSE "wrong"]
           /\ k = n => Alone'
<1>1. /\ pc = "poll_body" /\ ReadBody(rpc_header.size) /\ UNCHANGED <<pending, up, hostOut, host, rpc_header>>
  BY DEF PollBody, hostVars
<1>2. got = <<>> /\ rpc_header.size \in Sizes
  BY <1>1 DEF PollBodyStep
<1>3. PICK c \in async_callbacks : c.id = rpc_header.id /\ BodyArriving(c.work, rpc_header.size)
  BY <1>1 DEF PollBodyStep
<1>4. PICK n \in Sizes : n = rpc_header.size
  BY <1>2
<1>5. c.work \in Calls
  BY DEF TypeInv, TypeOK, AsyncTypes
<1>6. n - Len(got) = n
  BY <1>2, ConstantsAssumption DEF Sizes
<1>7. PICK k \in 0..n : got' = Part(c.work, 0, k) /\ Len(got') = k /\ down' = <<>>
                        /\ HostHas(Left(c.work, k, n))'
  BY <1>1, <1>3, <1>4, <1>5, <1>6, ReadArriving
<1>8. PICK d \in async_callbacks :
        d.id = rpc_header.id /\ status' = [status EXCEPT ![d.work] = Outcome(d.work, got')]
  BY DEF PollBody
<1>9. c = d
  BY <1>3, <1>8 DEF OnceInv, SentInv, TokenInv
<1>10. Outcome(c.work, got') = IF k = n THEN "ok" ELSE "wrong"
  BY <1>4, <1>5, <1>7, OutcomeOfPart
<1>11. k \in Nat /\ k =< n
  BY ConstantsAssumption DEF Sizes
<1>12. k = n => Alone'
  BY <1>7 DEF Alone, Left
<1> QED
  BY <1>4, <1>5, <1>7, <1>8, <1>9, <1>10, <1>11, <1>12

(* What a synchronous call has after a read of its body. *)
LEMMA SyncBodyFinds ==
  ASSUME SyncBodyStep, pc = "sync_body", ReadBody(rpc_header.size - Len(got)),
         UNCHANGED <<up, hostOut, pending, host, rpc_header>>
  PROVE  \E r \in Calls, n \in Sizes : \E k \in 0..n :
           /\ r = call /\ n = rpc_header.size
           /\ got' = Part(r, 0, k) /\ Len(got') = k /\ down' = <<>> /\ HostHas(Left(r, k, n))'
           /\ Outcome(r, got') = IF k = n THEN "ok" ELSE "wrong"
<1>1. PICK r \in Calls, n \in Sizes : r = call /\ n = rpc_header.size
  BY DEF SyncBodyStep
<1>2. BodyArriving(r, n)
  BY <1>1 DEF SyncBodyStep
<1>3. PICK k \in 0..n : got' = Part(r, 0, k) /\ Len(got') = k /\ down' = <<>> /\ HostHas(Left(r, k, n))'
  BY <1>1, <1>2, ReadArriving
<1>4. Outcome(r, got') = IF k = n THEN "ok" ELSE "wrong"
  BY <1>1, <1>3, OutcomeOfPart
<1> QED
  BY <1>1, <1>3, <1>4

(* The sandbox's reads keep the two in step, or the answer is wrong. *)
LEMMA StepReads ==
  ASSUME TypeInv, OnceInv, ActiveInv, InStep, Reads, OwnReply'
  PROVE  InStep'
<1>t. /\ status \in [Calls -> Statuses] /\ host \in {"up", "gone"} /\ rpc_header \in Headers
      /\ \A c \in async_callbacks : c.work \in Calls /\ c.id \in Ids
      /\ SyncHeaderStep /\ SyncBodyStep /\ PollHeaderStep /\ PollBodyStep
  BY DEF TypeInv, TypeOK, SandboxTypes, AsyncTypes, HostTypes, InStep
<1>1. CASE SyncHeader
  <2>1. /\ ReadHeader("sync_header") /\ rpc_header' = Head(down) /\ pc' \in {"crashed", "sync_body"}
        /\ UNCHANGED <<call, up, hostOut, pending, host>>
    BY <1>1 DEF SyncHeader, hostVars
  <2>2. PICK r \in Calls, n \in Sizes : r = call /\ Head(down) = Header(0, n) /\ BodyArriving(r, n)'
    BY <1>t, <2>1, SyncFinds
  <2>3. rpc_header'.size = n
    BY <2>1, <2>2, UnitFields
  <2>4. SyncBodyStep'
    BY <2>1, <2>2, <2>3 DEF SyncBodyStep
  <2> QED
    BY <2>1, <2>4 DEF InStep, SyncHeaderStep, PollHeaderStep, PollBodyStep, RunsFreely
<1>2. CASE SyncBadMagic
  <2>1. ReadHeader("sync_header") /\ Head(down).kind # "header" /\ UNCHANGED <<up, hostOut, pending, host>>
    BY <1>2 DEF SyncBadMagic, hostVars
  <2>2. PICK n \in Sizes : Head(down) = Header(0, n)
    BY <1>t, <2>1, SyncFinds
  <2> QED
    BY <2>1, <2>2, UnitFields
<1>3. CASE SyncBody
  <2>1. /\ pc = "sync_body" /\ ReadBody(rpc_header.size - Len(got))
        /\ UNCHANGED <<up, hostOut, pending, host, rpc_header>>
    BY <1>3 DEF SyncBody, hostVars
  <2>2. PICK r \in Calls, n \in Sizes : \E k \in 0..n :
           /\ r = call /\ n = rpc_header.size
           /\ got' = Part(r, 0, k) /\ Len(got') = k /\ down' = <<>> /\ HostHas(Left(r, k, n))'
           /\ Outcome(r, got') = IF k = n THEN "ok" ELSE "wrong"
    BY <1>t, <2>1, SyncBodyFinds
  <2>3. PICK k \in 0..n :
           /\ r = call /\ n = rpc_header.size
           /\ got' = Part(r, 0, k) /\ Len(got') = k /\ down' = <<>> /\ HostHas(Left(r, k, n))'
           /\ Outcome(r, got') = IF k = n THEN "ok" ELSE "wrong"
    BY <2>2
  <2>4. CASE pc' = "js" /\ status' = [status EXCEPT ![call] = Outcome(call, got')]
    <3>1. status'[r] = Outcome(r, got')
      BY <1>t, <2>3, <2>4
    <3>2. k = n
      BY <2>3, <3>1 DEF OwnReply
    <3>3. Alone'
      BY <2>3, <3>2 DEF Left, Alone
    <3> QED
      BY <2>4, <3>3, StepRuns DEF RunsFreely
  <2>5. CASE Len(got') # rpc_header.size /\ UNCHANGED <<pc, status, call>>
    <3>1. k < n /\ k \in 0..k
      BY <2>3, <2>5, ConstantsAssumption DEF Sizes
    <3>2. down' = Part(r, k, k)
      BY <2>3, PartEmpty
    <3>3. BodyArriving(r, n)'
      BY <2>3, <3>1, <3>2 DEF BodyArriving
    <3> QED
      BY <2>1, <2>3, <2>5, <3>3
         DEF InStep, SyncHeaderStep, SyncBodyStep, PollHeaderStep, PollBodyStep, RunsFreely
  <2> QED
    BY <1>3, <2>4, <2>5 DEF SyncBody
<1>4. CASE SyncBodyCrash \/ PollBodyCrash
  BY <1>4, StepEnded DEF SyncBodyCrash, PollBodyCrash
<1>5. CASE PollNothing
  <2>1. /\ pc = "poll_header" /\ down # <<>> /\ down' = Tail(down) /\ got' = <<>> /\ pc' = "timers"
        /\ Head(down).kind = "header" => Head(down).size = 0
        /\ UNCHANGED <<up, hostOut, pending, host>>
    BY <1>5 DEF PollNothing, ReadHeader, hostVars
  <2>2. NoneArriving
    <3>1. ASSUME NEW c \in async_callbacks, NEW n \in Sizes, Arriving(Header(c.id, n), c.work, n)
          PROVE  FALSE
      <4>1. Header(c.id, n) \in Headers /\ Header(c.id, n).kind = "header" /\ Header(c.id, n).size # 0
        BY <1>t, HeaderUnits
      <4>2. Head(down) = Header(c.id, n)
        BY <1>t, <2>1, <3>1, <4>1, HeaderRead
      <4> QED
        BY <2>1, <4>1, <4>2
    <3> QED
      BY <1>t, <2>1, <3>1 DEF PollHeaderStep, OnWire, Quiet
  <2>3. down = <<Header(0, 0)>> /\ HostHas(<<>>)
    BY <2>1, <2>2 DEF NoneArriving
  <2>4. Alone'
    BY <2>1, <2>3 DEF Alone, HostHas, UpAsync, PendingAsync
  <2> QED
    BY <2>1, <2>4, StepRuns DEF RunsFreely
<1>6. CASE PollHeader
  <2>1. /\ pc = "poll_header" /\ down # <<>> /\ down' = Tail(down) /\ got' = <<>> /\ pc' = "poll_body"
        /\ Head(down).size # 0 /\ rpc_header' = Head(down)
        /\ UNCHANGED <<up, hostOut, pending, host, async_callbacks>>
    BY <1>6 DEF PollHeader, ReadHeader, hostVars, asyncVars
  <2>2. ~NoneArriving
    BY <2>1, UnitFields DEF NoneArriving
  <2>3. PICK c \in async_callbacks, n \in Sizes : Arriving(Header(c.id, n), c.work, n)
    BY <1>t, <2>1, <2>2 DEF PollHeaderStep, OnWire, Quiet
  <2>4. Header(c.id, n) \in Headers /\ Header(c.id, n).size = n /\ Header(c.id, n).id = c.id
    BY <1>t, <2>3, HeaderUnits
  <2>5. Head(down) = Header(c.id, n) /\ BodyArriving(c.work, n)'
    BY <1>t, <2>1, <2>3, <2>4, HeaderRead
  <2>6. PollBodyStep'
    BY <2>1, <2>3, <2>4, <2>5 DEF PollBodyStep
  <2> QED
    BY <2>1, <2>6 DEF InStep, SyncHeaderStep, SyncBodyStep, PollHeaderStep, RunsFreely
<1>7. CASE PollBody
  <2>1. PICK c \in async_callbacks, n \in Sizes, k \in Nat :
           /\ c.work \in Calls /\ n = rpc_header.size /\ k =< n /\ Len(got') = k
           /\ status' = [status EXCEPT ![c.work] = IF k = n THEN "ok" ELSE "wrong"]
           /\ k = n => Alone'
    BY <1>t, <1>7, PollBodyFinds
  <2>2. status'[c.work] = IF k = n THEN "ok" ELSE "wrong"
    BY <1>t, <2>1
  <2>3. Alone'
    BY <2>1, <2>2 DEF OwnReply
  <2>4. pc' = "js"
    BY <1>7 DEF PollBody
  <2> QED
    BY <2>3, <2>4, StepRuns DEF RunsFreely
<1>8. ASSUME NEW failed \in BOOLEAN, SyncHeaderEof(failed) PROVE InStep'
  <2>1. /\ pc = "sync_header" /\ host = "gone" /\ down = <<>> /\ UNCHANGED <<host, down>>
        /\ call \in Calls
    BY <1>t, <1>8 DEF SyncHeaderEof, EndOfFile, hostVars, streamVars, SyncHeaderStep
  <2>2. CASE pc' = "js"
    BY <2>1, <2>2, StepRuns DEF RunsFreely, Alone, HostHas
  <2>3. CASE pc' = "sync_body" /\ rpc_header' = Unread /\ got' = <<>> /\ call' = call
    <3>1. PICK r \in Calls : r = call
      BY <2>1
    <3>2. 1 \in Sizes /\ 0 \in 0..1 /\ 0 \in 0..0 /\ Unread.size = 1
      BY ConstantsAssumption, UnitFields DEF Sizes, Unread
    <3>3. got' = Part(r, 0, 0) /\ down' = Part(r, 0, 0)
      BY <2>1, <2>3, <3>2, PartEmpty
    <3>4. HostHas(Left(r, 0, 1))'
      BY <2>1 DEF HostHas
    <3>5. BodyArriving(r, 1)'
      BY <3>2, <3>3, <3>4 DEF BodyArriving
    <3> QED
      BY <2>3, <3>1, <3>2, <3>5
         DEF InStep, SyncHeaderStep, SyncBodyStep, PollHeaderStep, PollBodyStep, RunsFreely
  <2> QED
    BY <1>8, <2>2, <2>3 DEF SyncHeaderEof
<1>9. CASE SyncBodyEof
  <2>1. /\ pc = "sync_body" /\ UNCHANGED <<rpc_header, got, host, hostOut, up, pending, down>>
        /\ call \in Calls
    BY <1>t, <1>9 DEF SyncBodyEof, hostVars, streamVars, SyncBodyStep
  <2>2. status' # [status EXCEPT ![call] = "wrong"]
    BY <1>t, <2>1 DEF OwnReply
  <2>3. UNCHANGED <<pc, call>>
    BY <1>9, <2>2 DEF SyncBodyEof
  <2>4. SyncBodyStep'
    BY <1>t, <2>1, <2>3 DEF SyncBodyStep, BodyArriving, HostHas, UpAsync, PendingAsync
  <2> QED
    BY <2>1, <2>3, <2>4 DEF InStep, SyncHeaderStep, PollHeaderStep, PollBodyStep, RunsFreely
<1>10. CASE PollEof
  <2>1. pc' = "timers" /\ host' = "gone" /\ down' = <<>>
    BY <1>10 DEF PollEof, EndOfFile, hostVars, streamVars
  <2> QED
    BY <2>1, StepRuns DEF RunsFreely, Alone, HostHas
<1> QED
  BY <1>1, <1>2, <1>3, <1>4, <1>5, <1>6, <1>7, <1>8, <1>9, <1>10 DEF Reads

(* The socket moves an answer on. *)
LEMMA ArrivingDelivered ==
  ASSUME NEW h \in Headers, NEW r \in Calls, NEW n \in Sizes, Deliver, Arriving(h, r, n)
  PROVE  Arriving(h, r, n)'
<1>0. /\ host = "up" /\ hostOut # <<>> /\ UNCHANGED <<host, up, pending>>
      /\ n \in Nat /\ n # 0 /\ 0 \in 0..n /\ h \in Units /\ n - 0 = n
  BY ConstantsAssumption DEF Deliver, hostVars, Sizes, Units
<1>1. CASE down = <<>> /\ HostHas(<<<<h>>, Body(r, n)>>)
  <2>1. hostOut = <<<<h>>, Body(r, n)>> /\ UpAsync /\ PendingAsync
    BY <1>0, <1>1 DEF HostHas
  <2>2. Head(hostOut) = <<h>> /\ Tail(hostOut) = <<Body(r, n)>>
    BY <2>1
  <2>3. <<h>> \in Seq(Units) /\ Len(<<h>>) = 1 /\ 1 =< Chunk
    BY <1>0, ConstantsAssumption
  <2>4. down' = <<>> \o <<h>> /\ hostOut' = <<Body(r, n)>>
    BY <1>1, <2>2, <2>3, DeliverWhole
  <2>5. <<h>> \o Part(r, 0, 0) = <<h>> /\ <<>> \o <<h>> = <<h>>
    <3>1. Part(r, 0, 0) = <<>>
      BY <1>0, PartEmpty
    <3> QED
      BY <2>3, <3>1, ConcatEmptySeq
  <2>6. hostOut' = Left(r, 0, n)
    BY <1>0, <2>4, BodyIsPart DEF Left
  <2>7. HostHas(Left(r, 0, n))'
    BY <1>0, <2>1, <2>6 DEF HostHas, UpAsync, PendingAsync
  <2> QED
    BY <1>0, <2>4, <2>5, <2>7 DEF Arriving
<1>2. ASSUME NEW k \in 0..n, down = <<h>> \o Part(r, 0, k), HostHas(Left(r, k, n))
      PROVE  Arriving(h, r, n)'
  <2>1. hostOut = Left(r, k, n) /\ UpAsync /\ PendingAsync
    BY <1>0, <1>2 DEF HostHas
  <2>2. PICK m \in k..n : down' = down \o Part(r, k, m) /\ hostOut' = Left(r, m, n)
    BY <2>1, DeliverPart
  <2>3. m \in 0..n /\ k \in 0..m /\ 0 \in 0..k
    BY <1>0
  <2>4. Part(r, 0, k) \in Seq(Units)
    BY <2>3, PartType
  <2>8. Part(r, k, m) \in Seq(Units)
    BY <2>3, PartType
  <2>9. <<h>> \in Seq(Units)
    BY <1>0
  <2>5. down' = <<h>> \o (Part(r, 0, k) \o Part(r, k, m))
    BY <1>2, <2>2, <2>4, <2>8, <2>9, ConcatAssociative
  <2>6. down' = <<h>> \o Part(r, 0, m)
    BY <2>3, <2>5, PartJoin
  <2>7. HostHas(Left(r, m, n))'
    BY <1>0, <2>1, <2>2 DEF HostHas, UpAsync, PendingAsync
  <2> QED
    BY <2>3, <2>6, <2>7 DEF Arriving
<1> QED
  BY <1>1, <1>2 DEF Arriving

LEMMA BodyDelivered ==
  ASSUME NEW r \in Calls, NEW n \in Sizes, Deliver, BodyArriving(r, n)
  PROVE  BodyArriving(r, n)'
<1>0. /\ host = "up" /\ UNCHANGED <<host, up, pending, got>> /\ n \in Nat
  BY ConstantsAssumption DEF Deliver, hostVars, sandboxVars, Sizes
<1>1. PICK k \in 0..n : \E j \in 0..k :
        /\ j < n /\ got = Part(r, 0, j) /\ down = Part(r, j, k) /\ HostHas(Left(r, k, n))
  BY DEF BodyArriving
<1>2. PICK j \in 0..k :
        /\ j < n /\ got = Part(r, 0, j) /\ down = Part(r, j, k) /\ HostHas(Left(r, k, n))
  BY <1>1
<1>3. hostOut = Left(r, k, n) /\ UpAsync /\ PendingAsync
  BY <1>0, <1>2 DEF HostHas
<1>4. PICK m \in k..n : down' = down \o Part(r, k, m) /\ hostOut' = Left(r, m, n)
  BY <1>3, DeliverPart
<1>5. m \in 0..n /\ k \in 0..m /\ j \in 0..m
  BY <1>0
<1>6. down' = Part(r, j, m)
  BY <1>2, <1>4, <1>5, PartJoin
<1>7. HostHas(Left(r, m, n))'
  BY <1>0, <1>3, <1>4 DEF HostHas, UpAsync, PendingAsync
<1> QED
  BY <1>0, <1>2, <1>5, <1>6, <1>7 DEF BodyArriving

LEMMA NoneDelivered ==
  ASSUME Deliver, NoneArriving
  PROVE  NoneArriving'
<1>0. host = "up" /\ hostOut # <<>> /\ UNCHANGED <<host, up, pending>>
  BY DEF Deliver, hostVars
<1>1. down = <<>> /\ hostOut = <<<<Header(0, 0)>>>> /\ UpAsync /\ PendingAsync
  BY <1>0 DEF NoneArriving, HostHas
<1>2. Head(hostOut) = <<Header(0, 0)>> /\ Tail(hostOut) = <<>>
  BY <1>1
<1>3. <<Header(0, 0)>> \in Seq(Units) /\ Len(<<Header(0, 0)>>) = 1 /\ 1 =< Chunk
  BY ConstantsAssumption, HeaderType DEF Ids
<1>4. down' = <<>> \o <<Header(0, 0)>> /\ hostOut' = <<>>
  BY <1>1, <1>2, <1>3, DeliverWhole
<1>5. <<>> \o <<Header(0, 0)>> = <<Header(0, 0)>>
  BY <1>3, ConcatEmptySeq
<1>6. HostHas(<<>>)'
  BY <1>0, <1>1, <1>4 DEF HostHas, UpAsync, PendingAsync
<1> QED
  BY <1>4, <1>5, <1>6 DEF NoneArriving

LEMMA StepDeliver ==
  ASSUME TypeInv, InStep, Deliver
  PROVE  InStep'
<1>t. /\ host = "up" /\ hostOut # <<>>
      /\ UNCHANGED <<pc, call, got, rpc_header, async_callbacks, host>>
      /\ \A c \in async_callbacks : c.work \in Calls /\ c.id \in Ids
      /\ SyncHeaderStep /\ SyncBodyStep /\ PollHeaderStep /\ PollBodyStep
  BY DEF Deliver, sandboxVars, asyncVars, hostVars, TypeInv, TypeOK, AsyncTypes, InStep
<1>1. pc \notin RunsFreely
  BY <1>t DEF InStep, Alone, HostHas
<1>2. SyncHeaderStep'
  <2> SUFFICES ASSUME pc = "sync_header" PROVE SyncHeaderStep'
    BY <1>t DEF SyncHeaderStep
  <2>1. PICK r \in Calls, n \in Sizes : r = call /\ Arriving(Header(0, n), r, n)
    BY <1>t DEF SyncHeaderStep, Asked, OnWire, InHost, Quiet
  <2>2. Header(0, n) \in Headers
    BY ConstantsAssumption, HeaderUnits DEF Ids
  <2>3. Arriving(Header(0, n), r, n)'
    BY <2>1, <2>2, ArrivingDelivered
  <2> QED
    BY <1>t, <2>1, <2>3 DEF SyncHeaderStep
<1>3. SyncBodyStep'
  <2> SUFFICES ASSUME pc = "sync_body" PROVE SyncBodyStep'
    BY <1>t DEF SyncBodyStep
  <2>1. PICK r \in Calls, n \in Sizes : r = call /\ n = rpc_header.size
    BY <1>t DEF SyncBodyStep
  <2>2. BodyArriving(r, n)'
    BY <1>t, <2>1, BodyDelivered DEF SyncBodyStep
  <2> QED
    BY <1>t, <2>1, <2>2 DEF SyncBodyStep
<1>4. PollHeaderStep'
  <2> SUFFICES ASSUME pc = "poll_header" PROVE PollHeaderStep'
    BY <1>t DEF PollHeaderStep
  <2>1. CASE NoneArriving
    BY <2>1, NoneDelivered DEF PollHeaderStep
  <2>2. ASSUME NEW c \in async_callbacks, NEW n \in Sizes, Arriving(Header(c.id, n), c.work, n)
        PROVE  PollHeaderStep'
    <3>1. Header(c.id, n) \in Headers
      BY <1>t, HeaderUnits
    <3>2. Arriving(Header(c.id, n), c.work, n)'
      BY <1>t, <2>2, <3>1, ArrivingDelivered
    <3> QED
      BY <1>t, <3>2 DEF PollHeaderStep
  <2> QED
    BY <1>t, <2>1, <2>2 DEF PollHeaderStep, OnWire, Quiet
<1>5. PollBodyStep'
  <2> SUFFICES ASSUME pc = "poll_body" PROVE PollBodyStep'
    BY <1>t DEF PollBodyStep
  <2>1. PICK n \in Sizes : n = rpc_header.size
    BY <1>t DEF PollBodyStep
  <2>2. PICK c \in async_callbacks : c.id = rpc_header.id /\ BodyArriving(c.work, n)
    BY <1>t, <2>1 DEF PollBodyStep
  <2>3. BodyArriving(c.work, n)'
    BY <1>t, <2>2, BodyDelivered
  <2> QED
    BY <1>t, <2>1, <2>2, <2>3 DEF PollBodyStep
<1> QED
  BY <1>t, <1>1, <1>2, <1>3, <1>4, <1>5 DEF InStep

(* The two writes of an answer, when nothing else is on its way. *)
LEMMA WritesArriving ==
  ASSUME NEW id \in Ids, NEW r \in Calls, NEW n \in Sizes, Quiet,
         hostOut' = hostOut \o Writes(id, r, n), down' = down, UpAsync', PendingAsync'
  PROVE  Arriving(Header(id, n), r, n)'
<1>1. <<>> \o Writes(id, r, n) = Writes(id, r, n)
  BY WritesType, ConcatEmptySeq
<1> QED
  BY <1>1 DEF Arriving, HostHas, Quiet, Writes

LEMMA StepHandlePoll ==
  ASSUME TypeInv, OnceInv, InStep, HandlePoll, ~ended
  PROVE  InStep'
<1>t. /\ host = "up" /\ up \in Seq(Requests) /\ up # <<>> /\ up' = Tail(up)
      /\ Head(up) = RequestAsyncResponse /\ UNCHANGED <<pc, pending, down, host, async_callbacks>>
      /\ pc \in RunsFreely \cup WaitsForHost
      /\ async_responses \in Seq([id : Ids, call : Calls, size : Sizes])
      /\ SyncHeaderStep /\ SyncBodyStep /\ PollHeaderStep /\ PollBodyStep
  BY DEF TypeInv, TypeOK, StreamTypes, SandboxTypes, HostTypes, HandlePoll, ended,
         sandboxVars, asyncVars, InStep
<1>1. ~UpAsync
  <2>1. Head(up) = up[1] /\ 1 \in DOMAIN up
    BY <1>t, TailFacts
  <2> QED
    BY <1>t, <2>1 DEF UpAsync, RequestAsyncResponse
<1>2. \A q : ~HostHas(q)
  BY <1>t, <1>1 DEF HostHas
<1>3. pc # "sync_header"
  <2> SUFFICES ASSUME pc = "sync_header" PROVE FALSE
    OBVIOUS
  <2>1. PICK r \in Calls : r = call /\ OnWire([id |-> 0, call |-> r])
    BY <1>t, <1>1, <1>2 DEF SyncHeaderStep, Asked, InHost, Arriving
  <2>2. Head(up) = [id |-> 0, call |-> r]
    BY <1>t, <2>1, OnWireHead DEF RequestAsyncResponse
  <2> QED
    BY <1>t, <2>2, ConstantsAssumption DEF RequestAsyncResponse
<1>4. pc \notin RunsFreely \cup {"sync_body", "poll_body"}
  BY <1>t, <1>2 DEF InStep, Alone, SyncBodyStep, PollBodyStep, BodyArriving
<1>5. pc = "poll_header" /\ OnWire(RequestAsyncResponse)
  BY <1>t, <1>2, <1>3, <1>4 DEF WaitsForHost, PollHeaderStep, NoneArriving, Arriving
<1>6. up' = <<>>
  BY <1>t, <1>5, OnWireHead DEF RequestAsyncResponse
<1>7. Quiet /\ UpAsync' /\ PendingAsync'
  BY <1>t, <1>5, <1>6 DEF OnWire, UpAsync, PendingAsync
<1>8. PollHeaderStep'
  <2>1. CASE async_responses = <<>>
    <3>1. hostOut' = <<<<Header(0, 0)>>>>
      BY <1>7, <2>1 DEF HandlePoll, Quiet
    <3> QED
      BY <1>t, <1>7, <3>1 DEF PollHeaderStep, NoneArriving, HostHas, Quiet
  <2>2. CASE async_responses # <<>>
    <3> DEFINE Answers == [id : Ids, call : Calls, size : Sizes]
    <3>1. PICK a : a = Head(async_responses)
      OBVIOUS
    <3>2. a \in Answers /\ a = async_responses[1] /\ 1 \in DOMAIN async_responses
      <4> HIDE DEF Answers
      <4>1. async_responses \in Seq(Answers)
        BY <1>t DEF Answers
      <4> QED
        BY <2>2, <3>1, <4>1, HeadTailProperties, TailFacts
    <3>3. hostOut' = hostOut \o Writes(a.id, a.call, a.size)
      BY <2>2, <3>1 DEF HandlePoll
    <3>4. Arriving(Header(a.id, a.size), a.call, a.size)'
      BY <1>t, <1>7, <3>2, <3>3, WritesArriving
    <3>5. PICK c \in async_callbacks : c = [id |-> a.id, work |-> a.call]
      BY <3>2 DEF OnceInv, SentInv, TokenInv, Entered
    <3>6. c.id = a.id /\ c.work = a.call /\ a.size \in Sizes
      BY <3>2, <3>5
    <3> QED
      BY <1>t, <3>4, <3>6 DEF PollHeaderStep
  <2> QED
    BY <2>1, <2>2
<1> QED
  BY <1>t, <1>5, <1>8 DEF InStep, SyncHeaderStep, SyncBodyStep, PollBodyStep, RunsFreely

LEMMA StepHandleCall ==
  ASSUME TypeInv, InStep, HandleCall
  PROVE  InStep'
<1>t. /\ host = "up" /\ up \in Seq(Requests) /\ up # <<>> /\ up' = Tail(up)
      /\ pending' = pending \cup {Head(up)}
      /\ UNCHANGED <<pc, call, got, rpc_header, async_callbacks, host, hostOut, down>>
      /\ SyncHeaderStep /\ SyncBodyStep /\ PollHeaderStep /\ PollBodyStep
  BY DEF TypeInv, TypeOK, StreamTypes, HandleCall, sandboxVars, asyncVars, InStep
<1>1. ASSUME UpAsync, PendingAsync PROVE UpAsync' /\ PendingAsync'
  BY <1>1, <1>t, UpAsyncTail DEF PendingAsync
<1>2. \A q : HostHas(q) => HostHas(q)'
  BY <1>t, <1>1 DEF HostHas
<1>3. \A h, r, n : Arriving(h, r, n) => Arriving(h, r, n)'
  BY <1>t, <1>2 DEF Arriving
<1>4. \A r, n : BodyArriving(r, n) => BodyArriving(r, n)'
  BY <1>t, <1>2 DEF BodyArriving
<1>5. NoneArriving => NoneArriving'
  BY <1>t, <1>2 DEF NoneArriving
<1>6. SyncHeaderStep'
  <2> SUFFICES ASSUME pc = "sync_header" PROVE SyncHeaderStep'
    BY <1>t DEF SyncHeaderStep
  <2>1. PICK r \in Calls : r = call
    BY <1>t DEF SyncHeaderStep
  <2> DEFINE msg == [id |-> 0, call |-> r]
  <2>2. CASE OnWire(msg) /\ Head(up).id = 0
    <3>1. Head(up) = msg /\ up' = <<>>
      BY <1>t, <2>2, OnWireHead
    <3>2. InHost(msg)'
      BY <1>t, <2>2, <3>1 DEF InHost, OnWire, Quiet, UpAsync, PendingAsync
    <3> QED
      BY <1>t, <2>1, <3>2 DEF SyncHeaderStep, Asked
  <2>3. CASE OnWire(msg) /\ Head(up).id # 0
    <3>1. PendingAsync'
      BY <1>t, <2>3 DEF OnWire, PendingAsync
    <3>2. OnWire(msg)'
      BY <1>t, <2>3, <3>1, OnWireTail
    <3> QED
      BY <1>t, <2>1, <3>2 DEF SyncHeaderStep, Asked
  <2>4. CASE InHost(msg)
    <3>1. UpAsync' /\ Head(up).id # 0
      BY <1>t, <2>4, UpAsyncTail DEF InHost
    <3>2. InHost(msg)'
      BY <1>t, <2>4, <3>1 DEF InHost, Quiet
    <3> QED
      BY <1>t, <2>1, <3>2 DEF SyncHeaderStep, Asked
  <2>5. ASSUME NEW n \in Sizes, Arriving(Header(0, n), r, n) PROVE SyncHeaderStep'
    BY <1>t, <1>3, <2>1, <2>5 DEF SyncHeaderStep
  <2> QED
    BY <1>t, <2>1, <2>2, <2>3, <2>4, <2>5 DEF SyncHeaderStep, Asked
<1>7. SyncBodyStep'
  BY <1>t, <1>4 DEF SyncBodyStep
<1>8. PollHeaderStep'
  <2> SUFFICES ASSUME pc = "poll_header" PROVE PollHeaderStep'
    BY <1>t DEF PollHeaderStep
  <2>1. CASE OnWire(RequestAsyncResponse)
    <3>1. Head(up).id # 0
      BY <1>t, <2>1, OnWireHead DEF HandleCall
    <3>2. PendingAsync'
      BY <1>t, <2>1, <3>1 DEF OnWire, PendingAsync
    <3>3. OnWire(RequestAsyncResponse)'
      BY <1>t, <2>1, <3>1, <3>2, OnWireTail DEF RequestAsyncResponse
    <3> QED
      BY <1>t, <3>3 DEF PollHeaderStep
  <2> QED
    BY <1>t, <1>3, <1>5, <2>1 DEF PollHeaderStep
<1>9. PollBodyStep'
  BY <1>t, <1>4 DEF PollBodyStep
<1>10. (pc \in RunsFreely => Alone)'
  BY <1>t, <1>2 DEF InStep, Alone
<1> QED
  BY <1>6, <1>7, <1>8, <1>9, <1>10 DEF InStep

LEMMA StepSyncCallback ==
  ASSUME TypeInv, InStep, NEW m \in pending, NEW n \in Sizes, syncCallback(m, n), ~ended
  PROVE  InStep'
<1>t. /\ host = "up" /\ m.id = 0 /\ pending' = pending \ {m}
      /\ hostOut' = hostOut \o Writes(0, m.call, n)
      /\ UNCHANGED <<pc, call, host, up, down>>
      /\ m \in [id : Ids, call : Calls] /\ m.call \in Calls /\ pc \in RunsFreely \cup WaitsForHost
      /\ SyncHeaderStep /\ SyncBodyStep /\ PollHeaderStep /\ PollBodyStep
  BY DEF TypeInv, TypeOK, HostTypes, SandboxTypes, syncCallback, sandboxVars, ended, InStep
<1>1. ~PendingAsync
  BY <1>t DEF PendingAsync
<1>2. \A q : ~HostHas(q)
  BY <1>t, <1>1 DEF HostHas
<1>3. pc = "sync_header"
  BY <1>t, <1>1, <1>2 DEF InStep, WaitsForHost, Alone, SyncBodyStep, PollHeaderStep, PollBodyStep,
                          BodyArriving, NoneArriving, Arriving, OnWire
<1>4. PICK r \in Calls : r = call /\ InHost([id |-> 0, call |-> r])
  BY <1>t, <1>1, <1>2, <1>3 DEF SyncHeaderStep, Asked, OnWire, Arriving
<1>5. m = [id |-> 0, call |-> r] /\ m.call = r
  BY <1>t, <1>4 DEF InHost
<1>6. Quiet /\ UpAsync' /\ PendingAsync'
  BY <1>t, <1>4, <1>5 DEF InHost, UpAsync, PendingAsync
<1>7. Arriving(Header(0, n), r, n)'
  <2>1. 0 \in Ids /\ hostOut' = hostOut \o Writes(0, r, n)
    BY <1>t, <1>5, ConstantsAssumption DEF Ids
  <2> QED
    BY <1>t, <1>6, <2>1, WritesArriving
<1>8. SyncHeaderStep'
  BY <1>t, <1>4, <1>7 DEF SyncHeaderStep
<1> QED
  BY <1>t, <1>3, <1>8 DEF InStep, SyncBodyStep, PollHeaderStep, PollBodyStep, RunsFreely

LEMMA StepAsyncCallback ==
  ASSUME TypeInv, InStep, NEW m \in pending, NEW n \in Sizes, asyncCallback(m, n)
  PROVE  InStep'
<1>t. /\ m.id # 0 /\ pending' = pending \ {m}
      /\ UNCHANGED <<pc, call, got, rpc_header, async_callbacks, host, up, hostOut, down>>
      /\ SyncHeaderStep /\ SyncBodyStep /\ PollHeaderStep /\ PollBodyStep
  BY DEF asyncCallback, sandboxVars, asyncVars, streamVars, InStep
<1>1. (UpAsync => UpAsync') /\ (PendingAsync => PendingAsync') /\ (Quiet => Quiet')
  BY <1>t DEF UpAsync, PendingAsync, Quiet
<1>2. \A q : HostHas(q) => HostHas(q)'
  BY <1>t, <1>1 DEF HostHas
<1>3. \A h, r, k : Arriving(h, r, k) => Arriving(h, r, k)'
  BY <1>t, <1>2 DEF Arriving
<1>4. \A r, k : BodyArriving(r, k) => BodyArriving(r, k)'
  BY <1>t, <1>2 DEF BodyArriving
<1>5. \A msg : OnWire(msg) => OnWire(msg)'
  BY <1>t, <1>1 DEF OnWire
<1>6. \A r : Asked([id |-> 0, call |-> r]) => Asked([id |-> 0, call |-> r])'
  BY <1>t, <1>1, <1>5 DEF Asked, InHost
<1>7. NoneArriving => NoneArriving'
  BY <1>t, <1>2 DEF NoneArriving
<1> QED
  BY <1>t, <1>2, <1>3, <1>4, <1>5, <1>6, <1>7
     DEF InStep, Alone, SyncHeaderStep, SyncBodyStep, PollHeaderStep, PollBodyStep

(* What a host that ends has not handed to the socket is no longer coming. *)
LEMMA StepHostDies ==
  ASSUME InStep, HostDies
  PROVE  InStep'
<1>t. /\ host' = "gone" /\ UNCHANGED <<pc, call, got, rpc_header, async_callbacks, down>>
      /\ SyncHeaderStep /\ SyncBodyStep /\ PollHeaderStep /\ PollBodyStep
  BY DEF HostDies, sandboxVars, asyncVars, streamVars, InStep
<1>1. \A q : HostHas(q)'
  BY <1>t DEF HostHas
<1>2. \A h, r, n : Arriving(h, r, n) => Arriving(h, r, n)'
  BY <1>t, <1>1 DEF Arriving
<1>3. \A r, n : BodyArriving(r, n) => BodyArriving(r, n)'
  BY <1>t, <1>1 DEF BodyArriving
<1>4. \A h, r, n : down = <<>> => Arriving(h, r, n)'
  BY <1>t, <1>1 DEF Arriving
<1>5. 1 \in Sizes
  BY ConstantsAssumption DEF Sizes
<1>6. SyncHeaderStep'
  BY <1>t, <1>2, <1>4, <1>5 DEF SyncHeaderStep, Asked, OnWire, InHost, Quiet
<1>7. PollHeaderStep'
  BY <1>t, <1>1, <1>2 DEF PollHeaderStep, NoneArriving, OnWire, Quiet
<1> QED
  BY <1>t, <1>1, <1>3, <1>6, <1>7 DEF InStep, Alone, SyncBodyStep, PollBodyStep

LEMMA StepHost ==
  ASSUME TypeInv, OnceInv, InStep, Host
  PROVE  InStep'
<1>1. CASE Deliver \/ HandleCall \/ HostDies
  BY <1>1, StepDeliver, StepHandleCall, StepHostDies
<1>2. CASE HandlePoll
  <2>1. ended => pc' \in {"exited", "crashed"}
    BY <1>2 DEF HandlePoll, sandboxVars, ended
  <2> QED
    BY <1>2, <2>1, StepEnded, StepHandlePoll
<1>3. ASSUME NEW m \in pending, NEW n \in Sizes, syncCallback(m, n) PROVE InStep'
  <2>1. ended => pc' \in {"exited", "crashed"}
    BY <1>3 DEF syncCallback, sandboxVars, ended
  <2> QED
    BY <1>3, <2>1, StepEnded, StepSyncCallback
<1>4. ASSUME NEW m \in pending, NEW n \in Sizes, asyncCallback(m, n) PROVE InStep'
  BY <1>4, StepAsyncCallback
<1> QED
  BY <1>1, <1>2, <1>3, <1>4 DEF Host

(* Until a call has got something else than its answer every step keeps    *)
(* the two in step.                                                        *)
LEMMA InStepStep ==
  ASSUME TypeInv, OnceInv, ActiveInv, InStep, [Next]_vars, OwnReply'
  PROVE  InStep'
<1>1. CASE Ended \/ UNCHANGED vars
  <2>1. UNCHANGED vars
    BY <1>1 DEF Ended
  <2>2. UNCHANGED <<pc, call, got, rpc_header, async_callbacks, host, up, pending, hostOut, down>>
    BY <2>1 DEF vars, sandboxVars, asyncVars, hostVars, streamVars
  <2>3. \A q : HostHas(q) => HostHas(q)'
    BY <2>2 DEF HostHas, UpAsync, PendingAsync
  <2>4. \A h, r, k : Arriving(h, r, k) => Arriving(h, r, k)'
    BY <2>2, <2>3 DEF Arriving
  <2>5. \A r, k : BodyArriving(r, k) => BodyArriving(r, k)'
    BY <2>2, <2>3 DEF BodyArriving
  <2>6. \A msg : (OnWire(msg) => OnWire(msg)') /\ (InHost(msg) => InHost(msg)')
    BY <2>2 DEF OnWire, InHost, Quiet, UpAsync, PendingAsync
  <2>7. \A r : Asked([id |-> 0, call |-> r]) => Asked([id |-> 0, call |-> r])'
    BY <2>2, <2>6 DEF Asked
  <2>8. NoneArriving => NoneArriving'
    BY <2>2, <2>3 DEF NoneArriving
  <2> QED
    BY <2>2, <2>3, <2>4, <2>5, <2>6, <2>7, <2>8
       DEF InStep, Alone, SyncHeaderStep, SyncBodyStep, PollHeaderStep, PollBodyStep
<1> QED
  BY <1>1, StepJavaScript, StepLoop, StepReads, StepHost DEF Next

LEMMA FirstInit == Init => MadeInv /\ InStep
<1> SUFFICES ASSUME Init PROVE MadeInv /\ InStep
  OBVIOUS
<1>0. /\ pc = "js" /\ async_callbacks = {} /\ status = [r \in Calls |-> "idle"]
      /\ up = <<>> /\ pending = {} /\ hostOut = <<>> /\ down = <<>>
  BY DEF Init
<1>1. UpAsync /\ PendingAsync
  BY <1>0 DEF UpAsync, PendingAsync
<1> QED
  BY <1>0, <1>1 DEF MadeInv, InStep, Alone, HostHas, SyncHeaderStep, SyncBodyStep, PollHeaderStep,
                    PollBodyStep

LEMMA FirstAlways == Spec => []FirstInv
<1>1. Init => MadeInv /\ (OwnReply => InStep)
  BY FirstInit
<1>2. /\ OnceInv /\ ActiveInv /\ MadeInv /\ (OwnReply => InStep)
      /\ OnceInv' /\ [Next]_vars
      => (MadeInv /\ (OwnReply => InStep))'
  <2> SUFFICES ASSUME OnceInv, ActiveInv, MadeInv, OwnReply => InStep, OnceInv', [Next]_vars
               PROVE  MadeInv' /\ (OwnReply' => InStep')
    OBVIOUS
  <2>1. MadeInv' /\ \A r \in Calls : status[r] = "wrong" => status'[r] = "wrong"
    BY MadeStep
  <2>2. OwnReply' => OwnReply
    BY <2>1 DEF OwnReply
  <2>3. TypeInv
    BY DEF OnceInv
  <2> QED
    BY <2>1, <2>2, <2>3, InStepStep
<1>3. FirstInv <=> OnceInv /\ ActiveInv /\ MadeInv /\ (OwnReply => InStep)
  BY DEF FirstInv
<1> QED
  BY <1>1, <1>2, <1>3, OnceAlways, ActiveAlways, PTL DEF Spec

(* The first wrong answer is one that is too short. *)
LEMMA FirstIsShort ==
  ASSUME FirstInv, OwnReply, Next, NEW r \in Calls, status'[r] = "wrong"
  PROVE  Len(got') < rpc_header.size /\ (status[r] = "sync" => impl = "codius_sync_call")
<1>t. /\ TypeInv /\ OnceInv /\ MadeInv /\ status \in [Calls -> Statuses] /\ status[r] # "wrong"
      /\ SyncHeaderStep /\ SyncBodyStep /\ PollHeaderStep /\ PollBodyStep
  BY DEF FirstInv, OnceInv, TypeInv, TypeOK, SandboxTypes, OwnReply, InStep
<1>1. CASE JavaScript
  <2>1. \/ UNCHANGED status
        \/ \E q \in Calls, v \in {"sync", "async", "error"} : status' = [status EXCEPT ![q] = v]
    BY <1>1 DEF JavaScript, SyncCall, PostMessage, PostMessageNoIds, StartTimer, Return, Throw, sandboxVars
  <2> QED
    BY <1>t, <2>1
<1>2. CASE Loop \/ Host \/ Ended
  <2>1. UNCHANGED status
    BY <1>2 DEF Loop, TimerFires, Poll, EndIteration, EmitBeforeExit, Host, Deliver, HandlePoll,
                HandleCall, syncCallback, asyncCallback, HostDies, Ended, vars, sandboxVars
  <2> QED
    BY <1>t, <2>1
<1>3. CASE \/ SyncHeader \/ SyncBadMagic \/ SyncBodyCrash \/ PollNothing \/ PollHeader
           \/ PollBodyCrash \/ PollEof \/ \E failed \in BOOLEAN : SyncHeaderEof(failed)
  <2>1. UNCHANGED status \/ status' = [status EXCEPT ![call] = "error"]
    BY <1>3 DEF SyncHeader, SyncBadMagic, SyncBodyCrash, PollNothing, PollHeader, PollBodyCrash,
                PollEof, SyncHeaderEof
  <2> QED
    BY <1>t, <2>1
<1>4. CASE SyncBody
  <2>1. /\ pc = "sync_body" /\ ReadBody(rpc_header.size - Len(got))
        /\ UNCHANGED <<up, hostOut, pending, host, rpc_header>>
    BY <1>4 DEF SyncBody, hostVars
  <2>2. PICK q \in Calls, n \in Sizes : \E k \in 0..n :
           /\ q = call /\ n = rpc_header.size
           /\ got' = Part(q, 0, k) /\ Len(got') = k /\ down' = <<>> /\ HostHas(Left(q, k, n))'
           /\ Outcome(q, got') = IF k = n THEN "ok" ELSE "wrong"
    BY <1>t, <2>1, SyncBodyFinds
  <2>3. PICK k \in 0..n :
           /\ q = call /\ n = rpc_header.size /\ Len(got') = k
           /\ Outcome(q, got') = IF k = n THEN "ok" ELSE "wrong"
    BY <2>2
  <2>4. /\ impl = "codius_sync_call" \/ Len(got') = rpc_header.size
        /\ status' = [status EXCEPT ![call] = Outcome(call, got')]
    BY <1>t, <1>4 DEF SyncBody
  <2>5. k # n
    BY <1>t, <2>3, <2>4
  <2>6. k < n
    BY <2>5, ConstantsAssumption DEF Sizes
  <2> QED
    BY <2>3, <2>4, <2>5, <2>6
<1>5. CASE SyncBodyEof
  <2>1. pc = "sync_body" /\ UNCHANGED got /\ impl = "codius_sync_call"
    BY <1>t, <1>5 DEF SyncBodyEof
  <2>2. PICK q \in Calls, n \in Sizes : q = call /\ n = rpc_header.size
    BY <1>t, <2>1 DEF SyncBodyStep
  <2>3. BodyArriving(q, n)
    BY <1>t, <2>1, <2>2 DEF SyncBodyStep
  <2>4. PICK k \in 0..n : \E j \in 0..k : j < n /\ got = Part(q, 0, j)
    BY <2>3 DEF BodyArriving
  <2>5. PICK j \in 0..k : j < n /\ got = Part(q, 0, j)
    BY <2>4
  <2>6. j \in 0..n /\ 0 \in 0..j /\ j - 0 = j
    BY ConstantsAssumption DEF Sizes
  <2>7. Len(got) = j
    BY <2>5, <2>6, PartType
  <2> QED
    BY <2>1, <2>2, <2>5, <2>7
<1>6. CASE PollBody
  <2>1. PICK c \in async_callbacks, n \in Sizes, k \in Nat :
           /\ c.work \in Calls /\ n = rpc_header.size /\ k =< n /\ Len(got') = k
           /\ status' = [status EXCEPT ![c.work] = IF k = n THEN "ok" ELSE "wrong"]
    BY <1>t, <1>6, PollBodyFinds
  <2>2. k # n
    BY <1>t, <2>1
  <2>3. k < n
    BY <2>1, <2>2, ConstantsAssumption DEF Sizes
  <2>4. status[r] # "sync"
    BY <1>t, <1>6 DEF PollBody, MadeInv, ended
  <2> QED
    BY <2>1, <2>3, <2>4
<1> QED
  BY <1>1, <1>2, <1>3, <1>4, <1>5, <1>6 DEF Next, Reads

(* The first call to get something else than its answer gets too little of *)
(* it, from a read of a body that uv__codius_async_io or codius_sync_call  *)
(* did once, for any sizes of bodies and pieces and whenever the host      *)
(* ends: the loop in Sync_Call never starts the confusion.                 *)
THEOREM FirstWrongComesShort == Spec => FirstWrongIsShort
<1>1. FirstInv /\ [Next]_vars =>
        [\A r \in Calls : (\A s \in Calls : status[s] # "wrong") /\ status'[r] = "wrong" =>
            /\ Len(got') < rpc_header.size
            /\ status[r] = "sync" => impl = "codius_sync_call"]_vars
  BY FirstIsShort DEF OwnReply
<1> QED
  BY <1>1, FirstAlways, PTL DEF Spec, FirstWrongIsShort

=============================================================================
