---------------------------- MODULE BoundedFifo ----------------------------
(***************************************************************************)
(* What a message queue promises its tasks: messages wait in one FIFO of   *)
(* bounded length; a send adds its own message at the end, a receive takes *)
(* the oldest one, and nothing else moves, drops or repeats a message.     *)
(***************************************************************************)
EXTENDS Naturals, Sequences

CONSTANTS
  Sender, Receiver,
  Message,
  Capacity

VARIABLES
  fifo,       \* accepted and not yet received, oldest first
  offered,    \* the message each sender wants to send
  received    \* the last message each receiver got

absVars == <<fifo, offered, received>>

FifoInit ==
  /\ fifo = <<>>
  /\ offered \in [Sender -> Message]
  /\ received \in [Receiver -> Message]

Offer(s, m) ==
  /\ offered' = [offered EXCEPT ![s] = m]
  /\ UNCHANGED <<fifo, received>>

Put(s) ==
  /\ Len(fifo) < Capacity
  /\ fifo' = Append(fifo, offered[s])
  /\ UNCHANGED <<offered, received>>

Get(r) ==
  /\ fifo # <<>>
  /\ received' = [received EXCEPT ![r] = Head(fifo)]
  /\ fifo' = Tail(fifo)
  /\ UNCHANGED offered

FifoNext ==
  \/ \E s \in Sender : Put(s) \/ \E m \in Message : Offer(s, m)
  \/ \E r \in Receiver : Get(r)

FifoSpec == FifoInit /\ [][FifoNext]_absVars
=============================================================================
