----------------------------- MODULE EventFifo -----------------------------
(***************************************************************************)
(* What the window manager's event queue promises to the drawing task,     *)
(* without ring, indices or interrupts: a mouse report becomes its motion  *)
(* and the button edges it brings; these events wait in one FIFO of        *)
(* bounded length; the task holds at most one event, the oldest, while it  *)
(* handles it.  An event that finds the FIFO full is dropped; nothing else *)
(* may remove, change or reorder one.                                      *)
(***************************************************************************)
EXTENDS Naturals, Sequences

CONSTANTS
  Capacity,   \* most events that can wait at once
  None        \* the task holds no event

VARIABLES
  buttons,    \* the buttons held in the latest report
  fifo,       \* accepted and not yet taken, oldest first
  held        \* the event the task is handling, or None

absVars == <<buttons, fifo, held>>

Happened(type, b) == <<[type |-> type, buttons |-> b]>>

Edge(cond, type, b) == IF cond THEN Happened(type, b) ELSE <<>>

Batch(old, new) ==
  Happened("MOUSE", new)
  \o Edge("left" \in new \ old, "PRESS", new)
  \o Edge("left" \in old \ new, "RELEASE", new)
  \o Edge("right" \in new \ old, "PRESS", {"right"})

Prefix(s, n) == IF Len(s) <= n THEN s ELSE SubSeq(s, 1, n)

Report == \E new \in SUBSET {"left", "right"} :
  /\ buttons' = new
  /\ fifo' = Prefix(fifo \o Batch(buttons, new), Capacity)
  /\ UNCHANGED held

Take ==
  /\ held = None
  /\ fifo # <<>>
  /\ held' = Head(fifo)
  /\ fifo' = Tail(fifo)
  /\ UNCHANGED buttons

Finish ==
  /\ held # None
  /\ held' = None
  /\ UNCHANGED <<buttons, fifo>>

FifoInit == buttons = {} /\ fifo = <<>> /\ held = None
FifoNext == Report \/ Take \/ Finish
FifoSpec == FifoInit /\ [][FifoNext]_absVars
=============================================================================
