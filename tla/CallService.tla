---------------------------- MODULE CallService ----------------------------
(***************************************************************************)
(* What the remote-call protocol promises a contract.  The contract is one *)
(* thread.  A synchronous call stops it until the host has carried out the *)
(* operation, and then returns.  An asynchronous call does not stop it;    *)
(* the operation is carried out at some time, and its callback runs later, *)
(* callbacks in the order in which operations were carried out and each    *)
(* exactly once.  Channels, polls and messages do not appear here.         *)
(***************************************************************************)
EXTENDS Naturals, Sequences

CONSTANTS Calls, None

VARIABLES
  stage,   \* how far each call has come
  queue,   \* calls carried out whose callbacks have not run, oldest first
  thread   \* the call that stops the contract, None, or "ended"

svars == <<stage, queue, thread>>

Stages == {"idle", "sync", "async", "done", "returned", "failed"}

Init ==
  /\ stage = [r \in Calls |-> "idle"]
  /\ queue = <<>>
  /\ thread = None

Move(r, s) == stage' = [stage EXCEPT ![r] = s]

(* The contract makes a call. *)
CallSync(r) ==
  /\ thread = None /\ stage[r] = "idle"
  /\ Move(r, "sync") /\ thread' = r
  /\ UNCHANGED queue

CallAsync(r) ==
  /\ thread = None /\ stage[r] = "idle"
  /\ Move(r, "async")
  /\ UNCHANGED <<queue, thread>>

(* The host carries out the operation. *)
CarryOut(r) ==
  /\ stage[r] \in {"sync", "async"}
  /\ queue' = IF stage[r] = "async" THEN Append(queue, r) ELSE queue
  /\ Move(r, "done")
  /\ UNCHANGED thread

(* A synchronous call returns. *)
ReturnSync(r) ==
  /\ thread = r /\ stage[r] = "done"
  /\ Move(r, "returned") /\ thread' = None
  /\ UNCHANGED queue

(* The oldest callback runs. *)
RunCallback ==
  /\ thread = None /\ queue # <<>>
  /\ Move(Head(queue), "returned")
  /\ queue' = Tail(queue)
  /\ UNCHANGED thread

(* The contract's process ends, at the end of its work or in the middle;   *)
(* a call it could not even send may have failed.                          *)
End ==
  /\ thread' = "ended"
  /\ \/ UNCHANGED stage
     \/ \E r \in Calls : stage[r] = "idle" /\ Move(r, "failed")
  /\ UNCHANGED queue

Next ==
  \/ \E r \in Calls : CallSync(r) \/ CallAsync(r) \/ CarryOut(r) \/ ReturnSync(r)
  \/ RunCallback
  \/ End

Spec == Init /\ [][Next]_svars
=============================================================================
