---------------------------- MODULE WmEventQueue ----------------------------
(***************************************************************************)
(* The mouse event queue of the window manager (wm.c).                     *)
(*                                                                         *)
(* Producer: the PS/2 interrupt (IRQ 12) runs wm_handle_mouse, which turns *)
(* a button/motion report into one to three events and pushes them.  Gates *)
(* are interrupt gates, so the handler is one atomic step.                 *)
(* Consumer: wm_task runs wm_process_events, which pops one event after    *)
(* the other and acts on it.  It runs with interrupts enabled and without  *)
(* a lock, so every access it makes to the shared ring is a step of its    *)
(* own, and an interrupt may fall between any two of them.                 *)
(***************************************************************************)
EXTENDS Integers, Sequences

CONSTANTS
  QueueSize,   \* WM_EVENT_QUEUE_SIZE, 256 in wm.c
  None         \* dragged_window == NULL, no event popped

ASSUME QueueSizeAssumption == QueueSize \in Nat /\ QueueSize >= 2

Buttons == {"left", "right"}            \* bits 0 and 1 of event.buttons
EventTypes == {"MOUSE", "PRESS", "RELEASE"}
Event == [type : EventTypes, buttons : SUBSET Buttons]
Index == 0 .. QueueSize - 1

ASSUME NoneAssumption ==
  /\ \A b \in SUBSET Buttons : b # None
  /\ \A e \in Event : e # None

VARIABLES
  event_queue,        \* the ring's slots
  event_queue_head,   \* next slot to write, moved by the interrupt only
  event_queue_tail,   \* next slot to read, moved by the task only
  mouse_buttons,      \* desktop->mouse_buttons
  pc,                 \* where wm_process_events is
  event,              \* its local variable, filled by wm_pop_event
  dragStart,          \* dragged_window: None, or the buttons of the PRESS
                      \* event that set it
  lostRelease         \* history: the latest RELEASE was dropped by a full ring

ring == <<event_queue, event_queue_head, event_queue_tail>>
vars == <<event_queue, event_queue_head, event_queue_tail,
          mouse_buttons, pc, event, dragStart, lostRelease>>
producerOnly == <<mouse_buttons, lostRelease>>   \* what the task never writes

Blank == [type |-> "MOUSE", buttons |-> {}]   \* zeroed storage (.bss)

Init ==
  /\ event_queue = [i \in Index |-> Blank]
  /\ event_queue_head = 0
  /\ event_queue_tail = 0
  /\ mouse_buttons = {}
  /\ pc = "pop"
  /\ event = Blank
  /\ dragStart = None
  /\ lostRelease = FALSE

----------------------------------------------------------------------------
(* The producer, at interrupt level. *)

(* An operator X_Variant is a faulty X, kept to show that the properties   *)
(* below notice the fault; no specification uses one.                      *)
Succ_NoWrap(i) == i + 1

Succ(i) == (i + 1) % QueueSize

Full(q) == Succ(q.head) = event_queue_tail

Push_NoFullTest(q, e) ==
  [slots |-> [q.slots EXCEPT ![q.head] = e], head |-> Succ(q.head)]

Push_NextSlot(q, e) ==
  IF ~Full(q)
    THEN [slots |-> [q.slots EXCEPT ![Succ(q.head)] = e], head |-> Succ(q.head)]
    ELSE q

(* wm_push_event on a ring value q: a full ring drops the event. *)
Push(q, e) ==
  IF ~Full(q)
    THEN [slots |-> [q.slots EXCEPT ![q.head] = e], head |-> Succ(q.head)]
    ELSE q

PushIf(cond, q, e) == IF cond THEN Push(q, e) ELSE q

Ev(t, b) == [type |-> t, buttons |-> b]

LeftPressed(old, new)  == "left" \in new /\ "left" \notin old
LeftReleased(old, new) == "left" \notin new /\ "left" \in old
RightPressed(old, new) == "right" \in new /\ "right" \notin old

(* The events of one report, in the order they are pushed: the motion, the *)
(* edge of the left button, the press of the right button.                 *)
AfterMotion(q, new) == Push(q, Ev("MOUSE", new))

AfterLeft_OneEdgePerReport(q, old, new) ==
  PushIf(LeftReleased(old, new) /\ ~RightPressed(old, new),
         PushIf(LeftPressed(old, new), AfterMotion(q, new), Ev("PRESS", new)),
         Ev("RELEASE", new))

AfterLeft(q, old, new) ==
  PushIf(LeftReleased(old, new),
         PushIf(LeftPressed(old, new), AfterMotion(q, new), Ev("PRESS", new)),
         Ev("RELEASE", new))

PushReport(q, old, new) ==
  PushIf(RightPressed(old, new), AfterLeft(q, old, new), Ev("PRESS", {"right"}))

wm_handle_mouse(buttons) ==
  LET q0 == [slots |-> event_queue, head |-> event_queue_head]
      q  == PushReport(q0, mouse_buttons, buttons)
  IN  /\ event_queue' = q.slots
      /\ event_queue_head' = q.head
      /\ mouse_buttons' = buttons
      /\ lostRelease' = IF LeftReleased(mouse_buttons, buttons)
                          THEN Full(AfterMotion(q0, buttons))
                          ELSE lostRelease
      /\ UNCHANGED <<event_queue_tail, pc, event, dragStart>>

----------------------------------------------------------------------------
(* The consumer, wm_task inside wm_process_events. *)

Goto(from, to) == pc = from /\ pc' = to

(* wm_pop_event finds the ring empty: leave the loop, draw, come back. *)
PopEmpty ==
  /\ Goto("pop", "draw")
  /\ event_queue_head = event_queue_tail
  /\ UNCHANGED <<ring, producerOnly, event, dragStart>>

NextFrame ==
  /\ Goto("draw", "pop")
  /\ UNCHANGED <<ring, producerOnly, event, dragStart>>

(* The emptiness test of wm_pop_event succeeds: the slot is copied next. *)
PopCheck ==
  /\ Goto("pop", "copy")
  /\ event_queue_head # event_queue_tail
  /\ UNCHANGED <<ring, producerOnly, event, dragStart>>

(* *event = event_queue[tail] is a copy of several words. *)
CopyType ==
  /\ Goto("copy", "copyRest")
  /\ event' = [event EXCEPT !.type = event_queue[event_queue_tail].type]
  /\ UNCHANGED <<ring, producerOnly, dragStart>>

CopyRest ==
  /\ Goto("copyRest", "advance")
  /\ event' = [event EXCEPT !.buttons = event_queue[event_queue_tail].buttons]
  /\ UNCHANGED <<ring, producerOnly, dragStart>>

AdvanceTail_Flush ==
  /\ Goto("advance", "handle")
  /\ event_queue_tail' = event_queue_head
  /\ UNCHANGED <<event_queue, event_queue_head, producerOnly, event, dragStart>>

AdvanceTail ==
  /\ Goto("advance", "handle")
  /\ event_queue_tail' = Succ(event_queue_tail)
  /\ UNCHANGED <<event_queue, event_queue_head, producerOnly, event, dragStart>>

(* wm_process_events on the popped event.  A press is dispatched to the    *)
(* widget under the pointer; only wm_window_on_event, on a title bar away  *)
(* from its three buttons, starts a drag, and it does not look at          *)
(* event->buttons.  A release always ends the drag.  Motion moves the      *)
(* dragged window, or is dispatched; neither changes dragged_window.       *)
HandleMotion ==
  /\ Goto("handle", "pop")
  /\ event.type = "MOUSE"
  /\ UNCHANGED <<ring, producerOnly, event, dragStart>>

HandlePress ==
  /\ Goto("handle", "pop")
  /\ event.type = "PRESS"
  /\ \E onTitleBar \in BOOLEAN :
       dragStart' = IF onTitleBar THEN event.buttons ELSE dragStart
  /\ UNCHANGED <<ring, producerOnly, event>>

HandleRelease ==
  /\ Goto("handle", "pop")
  /\ event.type = "RELEASE"
  /\ dragStart' = None
  /\ UNCHANGED <<ring, producerOnly, event>>

Task ==
  \/ PopEmpty \/ NextFrame \/ PopCheck \/ CopyType \/ CopyRest \/ AdvanceTail
  \/ HandleMotion \/ HandlePress \/ HandleRelease

Mouse == \E b \in SUBSET Buttons : wm_handle_mouse(b)

Next == Mouse \/ Task

Spec == Init /\ [][Next]_vars

(* wm_task is the only task: whenever no interrupt is being served it runs. *)
FairSpec == Spec /\ WF_vars(Task)

----------------------------------------------------------------------------
(* Properties. *)

TypeOK ==
  /\ event_queue \in [Index -> Event]
  /\ event_queue_head \in Index
  /\ event_queue_tail \in Index
  /\ mouse_buttons \in SUBSET Buttons
  /\ pc \in {"pop", "copy", "copyRest", "advance", "handle", "draw"}
  /\ event \in Event
  /\ dragStart \in (SUBSET Buttons) \cup {None}
  /\ lostRelease \in BOOLEAN

Popping == pc \in {"copy", "copyRest", "advance"}

(* The slot wm_pop_event is copying stays unread and unchanged until the   *)
(* tail has moved past it, whatever interrupts fall into the copy: the     *)
(* local event is never a mixture of two events (wm.c:229-242).            *)
PoppedIntact ==
  /\ Popping => event_queue_head # event_queue_tail
  /\ pc \in {"copyRest", "advance"} =>
       event.type = event_queue[event_queue_tail].type
  /\ pc = "advance" => event = event_queue[event_queue_tail]

Drained == pc = "draw" /\ event_queue_head = event_queue_tail

(* When the task has drained the ring, a drag begun with the left button   *)
(* goes on only while that button is held, unless the ring was full when   *)
(* the release arrived: button edges and dragged_window never drift apart  *)
(* through ordering (wm.c:286-303, 1436-1454).                             *)
LeftDragEndsWithButton ==
  Drained /\ dragStart # None /\ "left" \in dragStart
    => "left" \in mouse_buttons \/ lostRelease

Unread(i) ==
  (i - event_queue_tail) % QueueSize
    < (event_queue_head - event_queue_tail) % QueueSize

(* Every accepted event is eventually popped and handled, even if the      *)
(* mouse never stops (wm.c:244-307 under the only task's progress).        *)
AcceptedIsHandled ==
  \A i \in Index :
    Unread(i) ~> (pc = "handle" /\ event_queue_tail = Succ(i))

(* Refinement: the ring with interruptible pops is a bounded FIFO.  The    *)
(* event is taken when the tail moves.                                     *)
Waiting ==
  [k \in 1 .. (event_queue_head - event_queue_tail) % QueueSize |->
     event_queue[(event_queue_tail + k - 1) % QueueSize]]

Fifo == INSTANCE EventFifo WITH
  Capacity <- QueueSize - 1,
  buttons <- mouse_buttons,
  fifo <- Waiting,
  held <- IF pc = "handle" THEN event ELSE None

(* No interleaving of pushes and pops loses, duplicates, reorders or       *)
(* alters an accepted event.                                               *)
ImplementsFifo == Fifo!FifoSpec
=============================================================================
