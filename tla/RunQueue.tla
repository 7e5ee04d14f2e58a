------------------------------ MODULE RunQueue ------------------------------
(***************************************************************************)
(* The list behind run_queue (scheduler.c): tasks linked through their own *)
(* next field, with a head, a tail and a count.  Each operation runs under *)
(* sched_lock, so it is one step.                                          *)
(*                                                                         *)
(* A client adds a task only while it is not in the list; Scheduler's      *)
(* QueuedOnce says where the kernel keeps to that.                         *)
(***************************************************************************)
EXTENDS LinkedLists

CONSTANT Task

ASSUME TaskAssumption == IsFiniteSet(Task) /\ NULL \notin Task

VARIABLES
  next,         \* task->next
  run_queue,    \* its head, tail and count
  started,      \* scheduler_start took its task
  waiting       \* history: the tasks added and not yet taken, in order

queueVars == <<next, run_queue, started, waiting>>

QueueInit ==
  /\ next = [t \in Task |-> NULL]
  /\ run_queue = [head |-> NULL, tail |-> NULL, count |-> 0]
  /\ started = FALSE
  /\ waiting = <<>>

InQueue == ChainFrom(next, run_queue.head)

scheduler_add_task(t) ==
  /\ t \notin ToSet(waiting)
  /\ next' = [u \in Task |-> IF u = t THEN NULL
                             ELSE IF u = run_queue.tail THEN t ELSE next[u]]
  /\ run_queue' = [head  |-> IF run_queue.tail = NULL THEN t ELSE run_queue.head,
                   tail  |-> t,
                   count |-> run_queue.count + 1]
  /\ waiting' = Append(waiting, t)
  /\ UNCHANGED started

Predecessor(t) ==
  IF t = run_queue.head THEN NULL
  ELSE CHOOSE u \in ToSet(InQueue) : next[u] = t

NewTail_Keep(t) == run_queue.tail

(* The tail, once t has been unlinked. *)
NewTail(t) == IF run_queue.tail = t THEN Predecessor(t) ELSE run_queue.tail

scheduler_remove_task(t) ==
  /\ t \in ToSet(InQueue)
  /\ next' = [u \in Task |-> IF u = t THEN NULL
                             ELSE IF u = Predecessor(t) THEN next[t] ELSE next[u]]
  /\ run_queue' = [head  |-> IF Predecessor(t) = NULL THEN next[t] ELSE run_queue.head,
                   tail  |-> NewTail(t),
                   count |-> run_queue.count - 1]
  /\ waiting' = RemoveFirst(waiting, t)
  /\ UNCHANGED started

TakeHead ==
  /\ run_queue.head # NULL
  /\ LET second == next[run_queue.head]
     IN  run_queue' = [head  |-> second,
                       tail  |-> IF second = NULL THEN NULL ELSE run_queue.tail,
                       count |-> run_queue.count - 1]
  /\ waiting' = Tail(waiting)

scheduler_schedule ==
  /\ TakeHead
  /\ next' = [next EXCEPT ![run_queue.head] = NULL]
  /\ UNCHANGED started

(* scheduler_start, once; it leaves the next field of the task it takes.   *)
scheduler_start ==
  /\ ~started
  /\ started' = TRUE
  /\ TakeHead
  /\ UNCHANGED next

QueueNext ==
  \/ \E t \in Task : scheduler_add_task(t) \/ scheduler_remove_task(t)
  \/ scheduler_schedule \/ scheduler_start

QueueSpec == QueueInit /\ [][QueueNext]_queueVars

----------------------------------------------------------------------------
(* Properties. *)

(* The list is the sequence of the tasks added and not yet taken: walking  *)
(* it from head meets each once, in the order they were added; tail is the *)
(* last one and count their number.  A removal at either end or in the     *)
(* middle, the removal of the only task, and the next field that           *)
(* scheduler_start leaves set, keep it so (scheduler.c:201-208, 357-430).  *)
ListIsQueue ==
  /\ InQueue = waiting
  /\ run_queue.count = Len(waiting)
  /\ run_queue.tail = IF waiting = <<>> THEN NULL ELSE Last(waiting)
=============================================================================
