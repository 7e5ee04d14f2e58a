------------------------------ MODULE MsgQueue ------------------------------
(***************************************************************************)
(* One message queue of the IPC system (msg_queue_send, msg_queue_receive  *)
(* of ipc.c) between tasks that are preempted anywhere.                    *)
(*                                                                         *)
(* Everything between spin_lock and spin_unlock is one step: no other code *)
(* touches the queue without the lock except the loop of a blocking call,  *)
(* which reads count alone, in a step of its own.  A blocking call on a    *)
(* full (empty) queue waits for room (a message) without the lock, then    *)
(* tries once more as a non-blocking call, which may fail.                 *)
(*                                                                         *)
(* There is no fairness here: a caller waits by scheduler_yield, and       *)
(* Scheduler shows that a task that yields may never run again             *)
(* (EveryReadyTaskRuns), so no call is sure to return.                     *)
(***************************************************************************)
EXTENDS Integers, Sequences

CONSTANTS
  Sender, Receiver,   \* tasks
  Message,
  Capacity            \* 64 for the queues of a channel

ASSUME MsgQueueAssumption ==
  /\ Capacity \in Nat \ {0}
  /\ Message # {}
  /\ Sender \cap Receiver = {}

Caller == Sender \cup Receiver
Index == 0 .. Capacity - 1

VARIABLES
  buffer, head, tail, count,   \* msg_queue_t
  msg,        \* each task's message
  place,      \* each task: "idle" or inside a call
  blocking,   \* its argument of that name
  overtaken   \* history: another task of its side got through since its
              \* wait ended

ring == <<buffer, head, tail, count>>
msgVars == <<buffer, head, tail, count, msg, place, blocking, overtaken>>

MsgInit ==
  /\ buffer \in [Index -> Message]     \* kmalloc does not clear it
  /\ head = 0 /\ tail = 0 /\ count = 0
  /\ msg \in [Caller -> Message]
  /\ place = [t \in Caller |-> "idle"]
  /\ blocking = [t \in Caller |-> FALSE]
  /\ overtaken = [t \in Caller |-> FALSE]

OwnSide(t) == IF t \in Sender THEN Sender ELSE Receiver
Succ(i) == (i + 1) % Capacity

(* What makes a call of t wait or fail. *)
Blocked(t) == IF t \in Sender THEN count >= Capacity ELSE count = 0

(* Operators X_Y are faulty variants of X, which the properties notice. *)
Put_NextSlot(s) ==
  /\ buffer' = [buffer EXCEPT ![Succ(tail)] = msg[s]]
  /\ tail' = Succ(tail)
  /\ count' = count + 1
  /\ UNCHANGED <<head, msg>>

Put(s) ==
  /\ buffer' = [buffer EXCEPT ![tail] = msg[s]]
  /\ tail' = Succ(tail)
  /\ count' = count + 1
  /\ UNCHANGED <<head, msg>>

Get(r) ==
  /\ msg' = [msg EXCEPT ![r] = buffer[head]]
  /\ head' = Succ(head)
  /\ count' = count - 1
  /\ UNCHANGED <<buffer, tail>>

(* The call returns; what it was called with is forgotten. *)
Finish(t) ==
  /\ place' = [place EXCEPT ![t] = "idle"]
  /\ blocking' = [blocking EXCEPT ![t] = FALSE]

(* A sender prepares a message; a receiver's buffer is what it is. *)
Prepare(s) ==
  /\ place[s] = "idle"
  /\ \E m \in Message : msg' = [msg EXCEPT ![s] = m]
  /\ UNCHANGED <<ring, place, blocking, overtaken>>

Call(t) ==
  /\ place[t] = "idle"
  /\ place' = [place EXCEPT ![t] = "try"]
  /\ \E b \in BOOLEAN : blocking' = [blocking EXCEPT ![t] = b]
  /\ UNCHANGED <<ring, msg, overtaken>>

(* The section under the lock. *)
Trying(t) == place[t] \in {"try", "retry"}

(* The call returns 0. *)
Success(t) ==
  /\ Trying(t) /\ ~Blocked(t)
  /\ IF t \in Sender THEN Put(t) ELSE Get(t)
  /\ Finish(t)
  /\ overtaken' = [u \in Caller |->
       u # t /\ (overtaken[u] \/ (u \in OwnSide(t) /\ place[u] = "retry"))]

(* The call returns -1. *)
WouldBlock(t) ==
  /\ Trying(t) /\ Blocked(t)
  /\ place[t] = "retry" \/ ~blocking[t]
  /\ Finish(t)
  /\ overtaken' = [overtaken EXCEPT ![t] = FALSE]
  /\ UNCHANGED <<ring, msg>>

StartWaiting(t) ==
  /\ place[t] = "try" /\ Blocked(t) /\ blocking[t]
  /\ place' = [place EXCEPT ![t] = "wait"]
  /\ UNCHANGED <<ring, msg, blocking, overtaken>>

EndWaiting_OneYield(t) ==
  /\ place[t] = "wait"
  /\ place' = [place EXCEPT ![t] = "retry"]
  /\ UNCHANGED <<ring, msg, blocking, overtaken>>

(* The loop reads count without the lock; it calls scheduler_yield while   *)
(* there is nothing to do.                                                 *)
EndWaiting(t) ==
  /\ place[t] = "wait" /\ ~Blocked(t)
  /\ place' = [place EXCEPT ![t] = "retry"]
  /\ UNCHANGED <<ring, msg, blocking, overtaken>>

InCall(t) == Success(t) \/ WouldBlock(t) \/ StartWaiting(t) \/ EndWaiting(t)

MsgNext ==
  \/ \E s \in Sender : Prepare(s)
  \/ \E t \in Caller : Call(t) \/ InCall(t)

MsgSpec == MsgInit /\ [][MsgNext]_msgVars

----------------------------------------------------------------------------
(* Properties. *)

MsgTypeOK ==
  /\ buffer \in [Index -> Message]
  /\ head \in Index /\ tail \in Index /\ count \in 0 .. Capacity
  /\ msg \in [Caller -> Message]
  /\ place \in [Caller -> {"idle", "try", "wait", "retry"}]
  /\ blocking \in [Caller -> BOOLEAN]
  /\ overtaken \in [Caller -> BOOLEAN]

(* A blocking call that waited fails for one reason only: between the end  *)
(* of its wait and its second attempt another task of its side took the    *)
(* room or the message it had seen (ipc.c:63-73, 92-102).                  *)
FailsOnlyOvertaken ==
  \A t \in Caller : place[t] = "retry" /\ Blocked(t) => overtaken[t]

(* Refinement: the ring under its lock is a bounded FIFO.                  *)
Fifo == INSTANCE BoundedFifo WITH
  fifo <- [i \in 1 .. count |-> buffer[(head + i - 1) % Capacity]],
  offered <- [s \in Sender |-> msg[s]],
  received <- [r \in Receiver |-> msg[r]]

(* No interleaving of senders and receivers, blocking or not, loses,       *)
(* repeats, reorders or alters a message.                                  *)
ImplementsFifo == Fifo!FifoSpec
=============================================================================
