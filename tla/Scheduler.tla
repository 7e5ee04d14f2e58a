----------------------------- MODULE Scheduler -----------------------------
(***************************************************************************)
(* The task scheduler (scheduler.c, context_switch_asm in boot.asm).       *)
(*                                                                         *)
(* One CPU.  The running context is the boot code until the first context  *)
(* switch, then the task current_task names.  It is interrupted between    *)
(* any two of its steps by the timer, which may switch to another task in  *)
(* the middle of a call; the call goes on when its task is switched to     *)
(* again.  int 0x81 and the interrupts run with interrupts off: one step.  *)
(*                                                                         *)
(* sched_lock does not mask interrupts.  An interrupt that needs the lock  *)
(* while the interrupted code holds it spins for ever: halted.  The list   *)
(* surgery under the lock is one step, as nobody else can see its middle.  *)
(*                                                                         *)
(* run_queue is a sequence here; RunQueue shows that the linked list of    *)
(* the code behaves as one as long as no task is added twice, which is     *)
(* QueuedOnce below.                                                       *)
(***************************************************************************)
EXTENDS Integers, SequencesExt

CONSTANTS
  MaxTasks,     \* MAX_TASKS, 256
  Boot,         \* the boot code, as a context
  None,
  HasIdle,      \* scheduler_init ran: slot 0 is the idle task and is queued
  WakeFrom,     \* who calls task_wake: "interrupt", "task" or both
  Killable,     \* slots that task_kill is called for
  MaxQueue,     \* bound: tasks call task_wake while fewer are queued
  NewSlice,     \* time_slice of a new task, 100
  ResetSlice    \* time_slice after a preemption, 10

ASSUME SchedulerAssumption ==
  /\ MaxTasks \in Nat \ {0} /\ NewSlice \in Nat /\ ResetSlice \in Nat
  /\ HasIdle \in BOOLEAN /\ WakeFrom \subseteq {"interrupt", "task"}
  /\ Boot \notin Nat /\ None \notin Nat /\ Boot # None

Slot == 0 .. MaxTasks - 1
Context == Slot \cup {Boot}
Idle == IF HasIdle THEN 0 ELSE None     \* idle_task

States == {"RUNNING", "READY", "BLOCKED", "SLEEPING", "STOPPED", "ZOMBIE"}

VARIABLES
  task_count,
  state, time_slice,
  exited,         \* TASK_FLAG_EXITED
  run_queue,
  current_task,
  sched_lock,
  pc, arg,        \* where each context is, and the task it is about to add
  halted,         \* the CPU spins, or faulted, with interrupts off
  astray          \* history: tasks whose task_sleep, task_wait or task_exit
                  \* came back at once, as there was no task to switch to,
                  \* and tasks that a task_wake made ready whose test was stale

vars == <<task_count, state, time_slice, exited, run_queue, current_task,
          sched_lock, pc, arg, halted, astray>>

Init ==
  /\ task_count = IF HasIdle THEN 1 ELSE 0
  /\ state = [t \in Slot |-> IF t = Idle THEN "READY" ELSE "RUNNING"]
  /\ time_slice = [t \in Slot |-> IF t = Idle THEN ResetSlice ELSE 0]
  /\ exited = {}
  /\ run_queue = IF HasIdle THEN <<0>> ELSE <<>>
  /\ current_task = None
  /\ sched_lock = FALSE
  /\ pc = [c \in Context |-> IF c = Boot THEN "create" ELSE "run"]
  /\ arg = [c \in Context |-> None]
  /\ halted = FALSE
  /\ astray = {}

Running == IF current_task = None THEN Boot ELSE current_task
At(c, label) == ~halted /\ c = Running /\ pc[c] = label
Return(c) == IF c = Boot THEN "start" ELSE "run"
Jump(c, label) == pc' = [pc EXCEPT ![c] = label]

Created == {t \in Slot : t < task_count}

----------------------------------------------------------------------------
(* Switching. *)

(* context_switch_asm writes 1 to new_task->state: TASK_READY. *)
SwitchTo(t) == current_task' = t /\ state' = [state EXCEPT ![t] = "READY"]

(* Operators X_Y are faulty variants of X, which the properties notice.    *)
(* This one puts the previous task back, whatever its state.               *)
scheduler_schedule_Requeue ==
  IF sched_lock
    THEN halted' = TRUE /\ UNCHANGED <<run_queue, current_task, state>>
    ELSE IF run_queue = <<>>
      THEN UNCHANGED <<run_queue, current_task, state, halted>>
      ELSE /\ SwitchTo(Head(run_queue))
           /\ run_queue' = IF current_task = None
                             THEN Tail(run_queue)
                             ELSE Append(Tail(run_queue), current_task)
           /\ UNCHANGED halted

(* scheduler_schedule, with interrupts off.  The previous task goes back   *)
(* into no queue.                                                          *)
scheduler_schedule ==
  IF sched_lock
    THEN halted' = TRUE /\ UNCHANGED <<run_queue, current_task, state>>
    ELSE IF run_queue = <<>>
      THEN UNCHANGED <<run_queue, current_task, state, halted>>
      ELSE /\ SwitchTo(Head(run_queue))
           /\ run_queue' = Tail(run_queue)
           /\ UNCHANGED halted

(* Starts a new slice and forgets to yield. *)
Tick_NoYield ==
  LET left == IF time_slice[current_task] > 0 THEN time_slice[current_task] - 1 ELSE 0
  IN  /\ ~halted
      /\ IF current_task \in {None, Idle}
           THEN scheduler_schedule /\ UNCHANGED time_slice
           ELSE /\ time_slice' = [time_slice EXCEPT ![current_task] =
                                    IF left = 0 THEN ResetSlice ELSE left]
                /\ UNCHANGED <<run_queue, current_task, state, halted>>
      /\ UNCHANGED <<task_count, exited, sched_lock, pc, arg, astray>>

(* scheduler_tick, in the timer interrupt. *)
Tick ==
  LET left == IF time_slice[current_task] > 0 THEN time_slice[current_task] - 1 ELSE 0
  IN  /\ ~halted
      /\ IF current_task \in {None, Idle}
           THEN scheduler_schedule /\ UNCHANGED time_slice
           ELSE IF left = 0
             THEN /\ time_slice' = [time_slice EXCEPT ![current_task] = ResetSlice]
                  /\ scheduler_schedule
             ELSE /\ time_slice' = [time_slice EXCEPT ![current_task] = left]
                  /\ UNCHANGED <<run_queue, current_task, state, halted>>
      /\ UNCHANGED <<task_count, exited, sched_lock, pc, arg, astray>>

(* scheduler_yield, called by task code or at the end of task_exit,        *)
(* task_wait and task_sleep.  With an empty queue it returns.              *)
Yield(c) ==
  /\ At(c, "run") \/ At(c, "yield")
  /\ c # Boot
  /\ scheduler_schedule
  /\ Jump(c, "run")
  /\ astray' = IF pc[c] = "yield" /\ run_queue = <<>>
                      THEN astray \cup {c}
                      ELSE astray
  /\ UNCHANGED <<task_count, time_slice, exited, sched_lock, arg>>

----------------------------------------------------------------------------
(* scheduler_add_task and scheduler_remove_task, in the running context. *)

(* The test of the state comes before the lock. *)
AddTest(c) ==
  /\ At(c, "add")
  /\ IF state[arg[c]] = "READY"
       THEN Jump(c, "addLock") /\ UNCHANGED arg
       ELSE Jump(c, Return(c)) /\ arg' = [arg EXCEPT ![c] = None]
  /\ UNCHANGED <<task_count, state, time_slice, exited, run_queue, current_task,
                 sched_lock, halted, astray>>

Lock(c) ==
  /\ ~sched_lock
  /\ \/ At(c, "addLock") /\ Jump(c, "addLink")
     \/ At(c, "removeLock") /\ Jump(c, "unlink")
  /\ sched_lock' = TRUE
  /\ UNCHANGED <<task_count, state, time_slice, exited, run_queue, current_task,
                 arg, halted, astray>>

Link(c) ==
  /\ At(c, "addLink")
  /\ run_queue' = Append(run_queue, arg[c])
  /\ sched_lock' = FALSE
  /\ arg' = [arg EXCEPT ![c] = None]
  /\ Jump(c, Return(c))
  /\ UNCHANGED <<task_count, state, time_slice, exited, current_task, halted, astray>>

(* Only a task that exits or goes to sleep removes a task: itself. *)
Unlink(c) ==
  /\ At(c, "unlink")
  /\ run_queue' = RemoveFirst(run_queue, c)
  /\ sched_lock' = FALSE
  /\ Jump(c, "yield")
  /\ UNCHANGED <<task_count, state, time_slice, exited, current_task, arg, halted, astray>>

----------------------------------------------------------------------------
(* Task operations. *)

RoomForTask == task_count < MaxTasks

(* task_create up to scheduler_add_task.  When memory runs out it returns  *)
(* -1 and leaves the slot taken, READY and outside the queue.              *)
Create(c) ==
  LET t == task_count
  IN  /\ At(c, "create") \/ At(c, "run")
      /\ RoomForTask
      /\ task_count' = task_count + 1
      /\ state' = [state EXCEPT ![t] = "READY"]
      /\ \/ /\ Jump(c, "add")
            /\ arg' = [arg EXCEPT ![c] = t]
            /\ time_slice' = [time_slice EXCEPT ![t] = NewSlice]
         \/ Jump(c, Return(c)) /\ UNCHANGED <<arg, time_slice>>
      /\ UNCHANGED <<exited, run_queue, current_task, sched_lock, halted, astray>>

(* task_exit, up to scheduler_remove_task. *)
Exit(c) ==
  /\ At(c, "run")
  /\ state' = [state EXCEPT ![c] = "ZOMBIE"]
  /\ exited' = exited \cup {c}
  /\ Jump(c, "removeLock")
  /\ UNCHANGED <<task_count, time_slice, run_queue, current_task, sched_lock, arg, halted, astray>>

(* task_sleep, up to scheduler_remove_task. *)
Sleep(c) ==
  /\ At(c, "run")
  /\ state' = [state EXCEPT ![c] = "SLEEPING"]
  /\ Jump(c, "removeLock")
  /\ UNCHANGED <<task_count, time_slice, exited, run_queue, current_task,
                 sched_lock, arg, halted, astray>>

(* task_wait, up to scheduler_yield. *)
Wait(c) ==
  /\ At(c, "run")
  /\ state' = [state EXCEPT ![c] = "BLOCKED"]
  /\ Jump(c, "yield")
  /\ UNCHANGED <<task_count, time_slice, exited, run_queue, current_task,
                 sched_lock, arg, halted, astray>>

(* task_kill, from a task or from the shell in the keyboard interrupt.  It *)
(* takes its argument as an index of tasks[].                              *)
task_kill(pid) ==
  /\ ~halted
  /\ pid \in Killable /\ pid > 0 /\ pid < task_count
  /\ state' = [state EXCEPT ![pid] = "STOPPED"]
  /\ UNCHANGED <<task_count, time_slice, exited, run_queue, current_task,
                 sched_lock, pc, arg, halted, astray>>

Wakeable_Any(t) == t \in Created

Wakeable(t) == t \in Created /\ state[t] = "SLEEPING"

(* task_wake in an interrupt. *)
InterruptWake(t) ==
  /\ "interrupt" \in WakeFrom /\ ~halted
  /\ Wakeable(t)
  /\ state' = [state EXCEPT ![t] = "READY"]
  /\ IF sched_lock
       THEN halted' = TRUE /\ UNCHANGED run_queue
       ELSE run_queue' = Append(run_queue, t) /\ UNCHANGED halted
  /\ UNCHANGED <<task_count, time_slice, exited, current_task, sched_lock, pc, arg, astray>>

(* task_wake in a task: the test, then the write.  Between the two another *)
(* may have woken the task.                                                *)
WakeTest(c, t) ==
  /\ "task" \in WakeFrom /\ Len(run_queue) < MaxQueue
  /\ At(c, "run")
  /\ Wakeable(t)
  /\ Jump(c, "wake")
  /\ arg' = [arg EXCEPT ![c] = t]
  /\ UNCHANGED <<task_count, state, time_slice, exited, run_queue, current_task,
                 sched_lock, halted, astray>>

WakeSet(c) ==
  /\ At(c, "wake")
  /\ state' = [state EXCEPT ![arg[c]] = "READY"]
  /\ Jump(c, "add")
  /\ astray' = IF state[arg[c]] = "SLEEPING" THEN astray ELSE astray \cup {arg[c]}
  /\ UNCHANGED <<task_count, time_slice, exited, run_queue, current_task,
                 sched_lock, arg, halted>>

----------------------------------------------------------------------------
(* scheduler_start, which takes no lock. *)

StartTake ==
  /\ At(Boot, "start")
  /\ run_queue # <<>>
  /\ arg' = [arg EXCEPT ![Boot] = Head(run_queue)]
  /\ run_queue' = Tail(run_queue)
  /\ Jump(Boot, "switch")
  /\ UNCHANGED <<task_count, state, time_slice, exited, current_task, sched_lock, halted, astray>>

StartSwitch ==
  /\ At(Boot, "switch")
  /\ SwitchTo(arg[Boot])
  /\ UNCHANGED <<task_count, time_slice, exited, run_queue, sched_lock, pc, arg, halted, astray>>

(* Nothing was created: without an idle task, idle_task is a NULL pointer. *)
StartEmpty ==
  /\ At(Boot, "start")
  /\ run_queue = <<>>
  /\ halted' = TRUE
  /\ UNCHANGED <<task_count, state, time_slice, exited, run_queue, current_task,
                 sched_lock, pc, arg, astray>>

Start == StartTake \/ StartSwitch \/ StartEmpty

TaskStep(c) ==
  \/ Yield(c) \/ Create(c) \/ Exit(c) \/ Sleep(c) \/ Wait(c)
  \/ \E t \in Slot : WakeTest(c, t)
  \/ WakeSet(c) \/ AddTest(c) \/ Lock(c) \/ Link(c) \/ Unlink(c)

Next ==
  \/ Tick \/ Start
  \/ \E c \in Context \ {Idle} : TaskStep(c)   \* idle_loop only halts
  \/ \E t \in Slot : task_kill(t) \/ InterruptWake(t)

Spec == Init /\ [][Next]_vars

(* The timer never stops. *)
FairSpec == Spec /\ WF_vars(Tick)

----------------------------------------------------------------------------
(* Properties. *)

TypeOK ==
  /\ task_count \in 0 .. MaxTasks
  /\ state \in [Slot -> States]
  /\ time_slice \in [Slot -> Nat]
  /\ exited \in SUBSET Slot
  /\ run_queue \in Seq(Slot)
  /\ current_task \in Slot \cup {None}
  /\ sched_lock \in BOOLEAN
  /\ pc \in [Context -> {"create", "start", "switch", "run", "yield", "wake", "add",
                         "addLock", "addLink", "removeLock", "unlink"}]
  /\ arg \in [Context -> Slot \cup {None}]
  /\ halted \in BOOLEAN
  /\ astray \in SUBSET Slot

(* No task is in the run queue twice, whatever preemptions and wake-ups    *)
(* fall between the steps of sleep, exit, create and wake: a second        *)
(* scheduler_add_task of a queued task would cut the list behind it        *)
(* (scheduler.c:357-376, 463-481).                                         *)
QueuedOnce ==
  \A i, j \in DOMAIN run_queue :
    run_queue[i] = run_queue[j] => i = j \/ run_queue[i] \in astray

(* Once task_exit has set TASK_FLAG_EXITED, nothing switches to the task   *)
(* any more: no wake-up, kill or late removal brings a dead task, whose    *)
(* stack is about to go, back to the CPU (scheduler.c:298-319).            *)
ExitedNeverRuns ==
  [][current_task' # current_task => current_task' \notin exited \ astray]_vars

(* A queued task gets the CPU (or takes itself off the queue by going to   *)
(* sleep), as long as the CPU does not hang: the queue is first in first   *)
(* out, and the timer takes the CPU from a task that never yields          *)
(* (scheduler.c:413-453).                                                  *)
QueuedIsDispatched ==
  \A t \in Slot : t \in ToSet(run_queue) ~> (t \notin ToSet(run_queue) \/ halted)

(* README.md:59 "Ensures that every task receives a mathematically fair    *)
(* share of the CPU": a task that stays ready (its creation was completed, *)
(* so it has a time slice) gets the CPU again and again.                   *)
EveryReadyTaskRuns ==
  \A t \in Slot :
    <>[](state[t] = "READY" /\ time_slice[t] > 0 /\ ~halted)
      => []<>(current_task = t)

(* shell.c:369 "Killed process %d": a process the kill command reported    *)
(* killed does not run again.                                              *)
KilledNeverRuns ==
  [][current_task' # current_task => state[current_task'] # "STOPPED"]_vars
=============================================================================
