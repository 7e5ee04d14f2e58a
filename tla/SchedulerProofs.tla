-------------------------- MODULE SchedulerProofs --------------------------
(***************************************************************************)
(* For any number of tasks, with or without an idle task, and wake-ups     *)
(* from interrupts, from tasks or from both: the types of the scheduler's  *)
(* state, that no task is queued twice, and that none that exited gets the *)
(* CPU.                                                                    *)
(***************************************************************************)
EXTENDS Scheduler, SequenceLemmas

InQueue(t) == t \in ToSet(run_queue)

(* A context has taken task t and is about to queue it or to switch to it. *)
Pending(c, t) ==
  /\ arg[c] = t
  /\ pc[c] \in {"add", "addLock", "addLink"} \/ (pc[c] = "switch" /\ current_task = None)
Idling(t) == \A c \in Context : ~Pending(c, t)

(* The task is on its way out: until it yields it may be woken and queued. *)
Leaving(t) == pc[t] \in {"removeLock", "unlink", "yield"}

(* Where a task can be at the same time: once in the queue, or in the      *)
(* hands of one context, or on the CPU, and on the CPU beside one of the   *)
(* others only while it is leaving.  A sleeper is in none of them, so that *)
(* waking it is right; an exited task is in none of them for good.         *)
InOnePlace(t) ==
  /\ AtMostOnce(t, run_queue)
  /\ InQueue(t) => state[t] # "SLEEPING" /\ Idling(t)
  /\ \A c \in Context : Pending(c, t) =>
       state[t] # "SLEEPING" /\ \A d \in Context : Pending(d, t) => d = c
  /\ current_task = t /\ ~halted /\ ~Leaving(t) =>
       state[t] # "SLEEPING" /\ ~InQueue(t) /\ Idling(t)
  /\ t \in exited =>
       /\ state[t] # "SLEEPING" /\ ~InQueue(t) /\ Idling(t)
       /\ current_task = t /\ ~halted => Leaving(t)

(* What is queued, held, running, asleep or dead was created. *)
Known(t) ==
  \/ InQueue(t) \/ current_task = t \/ t \in exited \/ state[t] = "SLEEPING"
  \/ \E c \in Context : arg[c] = t
OnlyCreated == \A t \in Slot : Known(t) => t < task_count

(* The boot code makes its own calls only; a call that needs a task has it. *)
CallsInOrder ==
  /\ pc[Boot] \in {"create", "start", "switch", "add", "addLock", "addLink"}
  /\ \A c \in Context :
       pc[c] \in {"wake", "add", "addLock", "addLink", "switch"} => arg[c] # None

SchedInv ==
  /\ TypeOK /\ OnlyCreated /\ CallsInOrder
  /\ \A t \in Slot \ astray : InOnePlace(t)

----------------------------------------------------------------------------
(* A slot is neither the boot code nor no task. *)
LEMMA SlotsAreTasks ==
  /\ \A t \in Slot : t # Boot /\ t # None
  /\ Boot # None /\ Boot \notin Slot /\ None \notin Slot
  /\ Idle \in Slot \cup {None}
BY SchedulerAssumption DEF Slot, Idle

(* What scheduler_schedule may do: nothing, halt, or take the queue's head *)
(* to the CPU.                                                             *)
Dispatched ==
  /\ run_queue # <<>>
  /\ Head(run_queue) \in Slot /\ InQueue(Head(run_queue))
  /\ current_task' = Head(run_queue)
  /\ state' = [state EXCEPT ![Head(run_queue)] = "READY"]
  /\ run_queue' = Tail(run_queue) /\ run_queue' \in Seq(Slot)
  /\ \A t \in Slot : InQueue(t)' => InQueue(t)
  /\ \A t \in Slot : AtMostOnce(t, run_queue) =>
        AtMostOnce(t, run_queue') /\ (t = Head(run_queue) => ~InQueue(t)')
  /\ UNCHANGED halted

(* It does no more than that. *)
LEMMA ScheduleDoes ==
  ASSUME TypeOK, scheduler_schedule
  PROVE  \/ halted' = TRUE /\ UNCHANGED <<run_queue, current_task, state>>
         \/ run_queue = <<>> /\ UNCHANGED <<run_queue, current_task, state, halted>>
         \/ Dispatched
<1>1. run_queue \in Seq(Slot)
  BY DEF TypeOK
<1>2. CASE ~sched_lock /\ run_queue # <<>>
  <2>1. /\ Head(run_queue) \in Slot /\ Tail(run_queue) \in Seq(Slot)
        /\ ToSet(run_queue) = {Head(run_queue)} \cup ToSet(Tail(run_queue))
        /\ \A t : AtMostOnce(t, run_queue) =>
              /\ AtMostOnce(t, Tail(run_queue))
              /\ t = Head(run_queue) => t \notin ToSet(Tail(run_queue))
    BY <1>1, <1>2, TailOnce
  <2> QED BY <1>2, <2>1 DEF scheduler_schedule, SwitchTo, Dispatched, InQueue
<1> QED BY <1>2 DEF scheduler_schedule

----------------------------------------------------------------------------
(* The initial states satisfy the invariant. *)
LEMMA InitInv == Init => SchedInv
<1> SUFFICES ASSUME Init PROVE SchedInv
  OBVIOUS
<1>1. run_queue \in Seq(Slot) /\ \A t \in Slot : InQueue(t) => HasIdle /\ t = 0
  <2>1. 0 \in Slot
    BY SchedulerAssumption DEF Slot
  <2>2. <<0>> \in Seq(Slot) /\ <<>> \in Seq(Slot)
    BY <2>1
  <2>3. ToSet(<<0>>) = {0} /\ ToSet(<<>>) = {}
    BY DEF ToSet
  <2> QED BY <2>2, <2>3 DEF Init, InQueue
<1>2. \A t \in Slot : AtMostOnce(t, run_queue)
  <2>1. DOMAIN <<0>> = {1} /\ DOMAIN <<>> = {}
    OBVIOUS
  <2> QED BY <2>1 DEF Init, AtMostOnce
<1>3. TypeOK
  <2>1. task_count \in 0 .. MaxTasks
    BY SchedulerAssumption DEF Init
  <2>2. state \in [Slot -> States] /\ time_slice \in [Slot -> Nat]
    BY SchedulerAssumption DEF Init, States
  <2>3. pc \in [Context -> {"create", "run"}] /\ arg \in [Context -> {None}]
    BY DEF Init
  <2> QED BY <1>1, <2>1, <2>2, <2>3 DEF Init, TypeOK
<1>4. OnlyCreated /\ CallsInOrder
  BY <1>1, SlotsAreTasks, SchedulerAssumption DEF Init, OnlyCreated, Known, CallsInOrder, Context, Idle
<1>5. \A t \in Slot : InOnePlace(t)
  BY <1>1, <1>2, SlotsAreTasks DEF Init, InOnePlace, Pending, Idling, Context
<1> QED BY <1>3, <1>4, <1>5 DEF SchedInv

----------------------------------------------------------------------------
(* No step leaves the types. *)
LEMMA StepTypeOK ==
  ASSUME TypeOK, CallsInOrder, Next
  PROVE  TypeOK'
<1> USE SlotsAreTasks
<1>1. CASE Tick
  <2>1. ASSUME scheduler_schedule
        PROVE  run_queue' \in Seq(Slot) /\ current_task' \in Slot \cup {None}
               /\ state' \in [Slot -> States] /\ halted' \in BOOLEAN
    BY <2>1, ScheduleDoes DEF TypeOK, Dispatched, States
  <2>2. time_slice' \in [Slot -> Nat]
    BY <1>1, SchedulerAssumption DEF Tick, TypeOK
  <2>3. run_queue' \in Seq(Slot) /\ current_task' \in Slot \cup {None}
        /\ state' \in [Slot -> States] /\ halted' \in BOOLEAN
    BY <1>1, <2>1 DEF Tick, TypeOK
  <2> QED BY <1>1, <2>2, <2>3 DEF Tick, TypeOK
<1>2. CASE Start
  <2>1. CASE StartTake
    <3>1. Head(run_queue) \in Slot /\ Tail(run_queue) \in Seq(Slot)
      BY <2>1, TailOnce DEF StartTake, TypeOK
    <3> QED BY <2>1, <3>1 DEF StartTake, TypeOK, Jump
  <2>2. CASE StartSwitch
    <3>1. arg[Boot] \in Slot
      BY <2>2 DEF StartSwitch, At, TypeOK, CallsInOrder, Context
    <3> QED BY <2>2, <3>1 DEF StartSwitch, SwitchTo, TypeOK, States
  <2>3. CASE StartEmpty
    BY <2>3 DEF StartEmpty, TypeOK
  <2> QED BY <1>2, <2>1, <2>2, <2>3 DEF Start
<1>3. ASSUME NEW c \in Context, TaskStep(c) PROVE TypeOK'
  <2>0. /\ At(c, "run") \/ At(c, "yield") \/ At(c, "removeLock") \/ At(c, "unlink") => c \in Slot
        /\ At(c, "wake") \/ At(c, "add") \/ At(c, "addLink") => arg[c] \in Slot
        /\ Return(c) \in {"start", "run"}
    BY DEF At, Context, CallsInOrder, TypeOK, Return
  <2>1. CASE Yield(c)
    <3>1. run_queue' \in Seq(Slot) /\ current_task' \in Slot \cup {None}
          /\ state' \in [Slot -> States] /\ halted' \in BOOLEAN
      BY <2>1, ScheduleDoes DEF Yield, TypeOK, Dispatched, States
    <3> QED BY <2>0, <2>1, <3>1 DEF Yield, TypeOK, Jump
  <2>2. CASE Create(c)
    <3>1. task_count \in Slot /\ task_count + 1 \in 0 .. MaxTasks
      BY <2>2, SchedulerAssumption DEF Create, RoomForTask, TypeOK, Slot
    <3>2. /\ state' = [state EXCEPT ![task_count] = "READY"]
          /\ UNCHANGED time_slice \/ time_slice' = [time_slice EXCEPT ![task_count] = NewSlice]
      BY <2>2, Zenon DEF Create
    <3>4. state' \in [Slot -> States]
      BY <3>2 DEF TypeOK, States
    <3>5. time_slice' \in [Slot -> Nat]
      BY <3>2, SchedulerAssumption DEF TypeOK
    <3>3. arg' \in [Context -> Slot \cup {None}]
      BY <2>2, <3>1 DEF Create, TypeOK
    <3> QED BY <2>0, <2>2, <3>1, <3>3, <3>4, <3>5 DEF Create, TypeOK, Jump
  <2>3. CASE Exit(c) \/ Sleep(c) \/ Wait(c)
    <3>1. c \in Slot
      BY <2>0, <2>3 DEF Exit, Sleep, Wait
    <3>2. CASE Exit(c)
      BY <3>1, <3>2 DEF Exit, TypeOK, Jump, States
    <3>3. CASE Sleep(c)
      BY <3>1, <3>3 DEF Sleep, TypeOK, Jump, States
    <3>4. CASE Wait(c)
      BY <3>1, <3>4 DEF Wait, TypeOK, Jump, States
    <3> QED BY <2>3, <3>2, <3>3, <3>4
  <2>4. ASSUME NEW t \in Slot, WakeTest(c, t) PROVE TypeOK'
    BY <2>4 DEF WakeTest, TypeOK, Jump
  <2>5. CASE WakeSet(c)
    BY <2>0, <2>5 DEF WakeSet, TypeOK, Jump, States
  <2>6. CASE AddTest(c) \/ Lock(c)
    BY <2>0, <2>6 DEF AddTest, Lock, TypeOK, Jump
  <2>7. CASE Link(c)
    <3>1. Append(run_queue, arg[c]) \in Seq(Slot)
      BY <2>0, <2>7, AppendOnce DEF Link, TypeOK
    <3> QED BY <2>0, <2>7, <3>1 DEF Link, TypeOK, Jump
  <2>8. CASE Unlink(c)
    <3>1. RemoveFirst(run_queue, c) \in Seq(Slot)
      BY RemoveFirstOnce DEF TypeOK
    <3> QED BY <2>8, <3>1 DEF Unlink, TypeOK, Jump
  <2> QED BY <1>3, <2>1, <2>2, <2>3, <2>4, <2>5, <2>6, <2>7, <2>8 DEF TaskStep
<1>4. ASSUME NEW t \in Slot, task_kill(t) \/ InterruptWake(t) PROVE TypeOK'
  <2>1. Append(run_queue, t) \in Seq(Slot)
    BY AppendOnce DEF TypeOK
  <2> QED BY <1>4, <2>1 DEF task_kill, InterruptWake, TypeOK, States
<1> QED BY <1>1, <1>2, <1>3, <1>4 DEF Next

----------------------------------------------------------------------------
(* Every call is made by a context that may make it, with a task to act on. *)
LEMMA StepInOrder ==
  ASSUME TypeOK, CallsInOrder, Next
  PROVE  CallsInOrder'
<1> USE SlotsAreTasks DEF CallsInOrder, TypeOK
<1>1. CASE Tick \/ StartSwitch \/ StartEmpty
  BY <1>1 DEF Tick, StartSwitch, StartEmpty
<1>2. CASE StartTake
  <2>1. Head(run_queue) \in Slot
    BY <1>2, TailOnce DEF StartTake
  <2> QED BY <1>2, <2>1 DEF StartTake, Jump, Context
<1>3. ASSUME NEW c \in Context, TaskStep(c) PROVE CallsInOrder'
  <2>0. /\ At(c, "run") \/ At(c, "yield") \/ At(c, "removeLock") \/ At(c, "unlink") => c # Boot
        /\ Return(c) = IF c = Boot THEN "start" ELSE "run"
        /\ Boot \in Context
    BY DEF At, Return, Context
  <2>1. CASE Yield(c) \/ Exit(c) \/ Sleep(c) \/ Wait(c) \/ Unlink(c)
    BY <2>0, <2>1 DEF Yield, Exit, Sleep, Wait, Unlink, Jump
  <2>2. CASE Create(c)
    <3>1. task_count \in Slot
      BY <2>2, SchedulerAssumption DEF Create, RoomForTask, Slot
    <3> QED BY <2>0, <2>2, <3>1 DEF Create, Jump
  <2>3. ASSUME NEW t \in Slot, WakeTest(c, t) PROVE CallsInOrder'
    BY <2>0, <2>3 DEF WakeTest, Jump
  <2>4. CASE WakeSet(c) \/ AddTest(c) \/ Link(c)
    BY <2>0, <2>4 DEF WakeSet, AddTest, Link, Jump, At
  <2>5. CASE Lock(c)
    BY <2>0, <2>5 DEF Lock, Jump, At
  <2> QED BY <1>3, <2>1, <2>2, <2>3, <2>4, <2>5 DEF TaskStep
<1>4. ASSUME NEW t \in Slot, task_kill(t) \/ InterruptWake(t) PROVE CallsInOrder'
  BY <1>4 DEF task_kill, InterruptWake
<1> QED BY <1>1, <1>2, <1>3, <1>4 DEF Next, Start
(* A step only handles tasks that were created. *)
LEMMA StepOnlyCreated ==
  ASSUME TypeOK, CallsInOrder, OnlyCreated, Next
  PROVE  OnlyCreated'
<1> SUFFICES ASSUME NEW t \in Slot, Known(t)', ~(t < task_count') PROVE FALSE
  BY DEF OnlyCreated
<1> USE SlotsAreTasks
<1>0. task_count \in Nat /\ task_count' \in Nat /\ (t < task_count => t < task_count')
  <2>1. task_count' = task_count \/ task_count' = task_count + 1
    BY DEF Next, Tick, Start, StartTake, StartSwitch, StartEmpty, TaskStep, Yield, Create, Exit,
           Sleep, Wait, WakeTest, WakeSet, AddTest, Lock, Link, Unlink, task_kill, InterruptWake
  <2> QED BY <2>1 DEF TypeOK, Slot
<1>1. ~(t < task_count) /\ ~Known(t)
  BY <1>0 DEF OnlyCreated
<1>2. ASSUME scheduler_schedule, UNCHANGED <<exited, arg>> PROVE FALSE
  BY <1>1, <1>2, ScheduleDoes DEF Known, Dispatched, TypeOK, InQueue
<1>3. CASE Tick
  <2>1. UNCHANGED <<run_queue, current_task, state, exited, arg>>
    BY <1>2, <1>3 DEF Tick
  <2> QED BY <1>1, <2>1 DEF Known, InQueue
<1>4. CASE Start
  <2>1. CASE StartTake
    <3>1. InQueue(Head(run_queue)) /\ (InQueue(t)' => InQueue(t))
      BY <2>1, TailOnce DEF StartTake, TypeOK, InQueue
    <3> QED BY <1>1, <2>1, <3>1 DEF StartTake, Known, TypeOK
  <2>2. CASE StartSwitch
    BY <1>1, <2>2 DEF StartSwitch, SwitchTo, Known, TypeOK, InQueue, Context
  <2>3. CASE StartEmpty
    BY <1>1, <2>3 DEF StartEmpty, Known, InQueue
  <2> QED BY <1>4, <2>1, <2>2, <2>3 DEF Start
<1>5. ASSUME NEW c \in Context, TaskStep(c) PROVE FALSE
  <2>0. At(c, "run") \/ At(c, "unlink") => c \in Slot /\ current_task = c
    BY DEF At, Running, CallsInOrder, TypeOK, Context
  <2>1. CASE Yield(c)
    BY <1>2, <2>1 DEF Yield
  <2>2. CASE Create(c)
    <3>0. task_count' = task_count + 1 /\ task_count < MaxTasks
      BY <2>2 DEF Create, RoomForTask
    <3>1. t # task_count /\ task_count \in Slot
      BY <1>0, <3>0, SchedulerAssumption DEF Slot
    <3>2. state'[t] = state[t] /\ UNCHANGED <<run_queue, current_task, exited>>
      BY <2>2, <3>1 DEF Create, TypeOK
    <3>3. \A d \in Context : arg'[d] = arg[d] \/ arg'[d] = task_count
      BY <2>2 DEF Create, TypeOK
    <3> QED BY <1>1, <3>1, <3>2, <3>3 DEF Known, InQueue
  <2>3. CASE Exit(c) \/ Sleep(c) \/ Wait(c)
    BY <1>1, <2>0, <2>3 DEF Exit, Sleep, Wait, Known, InQueue, TypeOK
  <2>4. ASSUME NEW u \in Slot, WakeTest(c, u) PROVE FALSE
    <3>1. u < task_count /\ t # u
      BY <1>1, <2>4 DEF WakeTest, Wakeable, Created
    <3> QED BY <1>1, <2>4, <3>1 DEF WakeTest, Known, InQueue, TypeOK
  <2>5. CASE WakeSet(c)
    BY <1>1, <2>5 DEF WakeSet, Known, InQueue, TypeOK
  <2>6. CASE AddTest(c) \/ Lock(c)
    BY <1>1, <2>6 DEF AddTest, Lock, Known, InQueue, TypeOK
  <2>7. CASE Link(c)
    <3>1. arg[c] \in Slot /\ Known(arg[c])
      BY <2>7 DEF Link, At, CallsInOrder, TypeOK, Known
    <3>2. InQueue(t)' => InQueue(t) \/ t = arg[c]
      BY <2>7, <3>1, AppendOnce DEF Link, InQueue, TypeOK
    <3> QED BY <1>1, <2>7, <3>1, <3>2 DEF Link, Known, TypeOK
  <2>8. CASE Unlink(c)
    <3>1. InQueue(t)' => InQueue(t)
      BY <2>8, RemoveFirstOnce DEF Unlink, InQueue, TypeOK
    <3> QED BY <1>1, <2>8, <3>1 DEF Unlink, Known
  <2> QED BY <1>5, <2>1, <2>2, <2>3, <2>4, <2>5, <2>6, <2>7, <2>8 DEF TaskStep
<1>6. ASSUME NEW u \in Slot, task_kill(u) PROVE FALSE
  BY <1>1, <1>6 DEF task_kill, Known, InQueue, TypeOK
<1>7. ASSUME NEW u \in Slot, InterruptWake(u) PROVE FALSE
  <2>1. u < task_count
    BY <1>7 DEF InterruptWake, Wakeable, Created
  <2>2. t # u
    BY <1>1, <2>1
  <2>3. run_queue \in Seq(Slot) /\ (run_queue' = run_queue \/ run_queue' = Append(run_queue, u))
    BY <1>7 DEF InterruptWake, TypeOK
  <2>4. ToSet(Append(run_queue, u)) = ToSet(run_queue) \cup {u}
    BY <2>3, AppendOnce
  <2>5. InQueue(t)' => InQueue(t)
    BY <2>2, <2>3, <2>4 DEF InQueue
  <2> QED BY <1>1, <1>7, <2>2, <2>5 DEF InterruptWake, Known, TypeOK
<1> QED BY <1>3, <1>4, <1>5, <1>6, <1>7 DEF Next

----------------------------------------------------------------------------
(* No step puts a task in two places, unless it is one that went astray. *)
LEMMA StepInOnePlace ==
  ASSUME SchedInv, Next, NEW t \in Slot \ astray'
  PROVE  InOnePlace(t)'
<1> USE SlotsAreTasks
<1>0. TypeOK /\ OnlyCreated /\ CallsInOrder
  BY DEF SchedInv
<1>1. astray \subseteq astray'
  BY DEF Next, Tick, Start, StartTake, StartSwitch, StartEmpty, TaskStep, Yield, Create, Exit,
         Sleep, Wait, WakeTest, WakeSet, AddTest, Lock, Link, Unlink, task_kill, InterruptWake
<1>2. InOnePlace(t)
  BY <1>1 DEF SchedInv
<1>3. ASSUME scheduler_schedule, UNCHANGED <<pc, arg, exited>> PROVE InOnePlace(t)'
  <2>1. CASE halted' = TRUE /\ UNCHANGED <<run_queue, current_task, state>>
    BY <1>2, <1>3, <2>1 DEF InOnePlace, InQueue, Idling, Pending, Leaving
  <2>2. CASE run_queue = <<>> /\ UNCHANGED <<run_queue, current_task, state, halted>>
    BY <1>2, <1>3, <2>2 DEF InOnePlace, InQueue, Idling, Pending, Leaving
  <2>3. CASE Dispatched
    <3>1. \A c \in Context : Pending(c, t)' => Pending(c, t)
      BY <1>3, <2>3 DEF Dispatched, Pending
    <3>2. CASE t = Head(run_queue)
      BY <1>0, <1>2, <1>3, <2>3, <3>1, <3>2 DEF Dispatched, InOnePlace, Idling, TypeOK
    <3>3. CASE t # Head(run_queue)
      BY <1>0, <1>2, <1>3, <2>3, <3>1, <3>3 DEF Dispatched, InOnePlace, Idling, TypeOK
    <3> QED BY <3>2, <3>3
  <2> QED BY <1>0, <1>3, <2>1, <2>2, <2>3, ScheduleDoes
<1>4. CASE Tick
  <2>1. CASE UNCHANGED <<run_queue, current_task, state, halted>>
    BY <1>2, <1>4, <2>1 DEF Tick, InOnePlace, InQueue, Idling, Pending, Leaving
  <2> QED BY <1>3, <1>4, <2>1 DEF Tick
<1>5. CASE Start
  <2>1. CASE StartTake
    <3> DEFINE h == Head(run_queue)
    <3>1. h \in Slot /\ InQueue(h)
          /\ (InQueue(t)' => InQueue(t)) /\ AtMostOnce(t, run_queue')
          /\ (t = h => ~InQueue(t)')
      BY <1>0, <1>2, <2>1, TailOnce DEF StartTake, InQueue, TypeOK, InOnePlace
    <3>2. current_task = None
      BY <1>0, <2>1 DEF StartTake, At, Running, TypeOK
    <3>3. \A c \in Context : Pending(c, t)' => Pending(c, t) \/ (c = Boot /\ t = h)
      BY <1>0, <2>1 DEF StartTake, Pending, TypeOK, Jump, Context
    <3> QED BY <1>2, <2>1, <3>1, <3>2, <3>3 DEF StartTake, InOnePlace, Idling
  <2>2. CASE StartSwitch
    <3> DEFINE h == arg[Boot]
    <3>1. h \in Slot /\ current_task = None /\ Boot \in Context /\ Pending(Boot, h)
          /\ pc[Boot] = "switch"
      BY <1>0, <2>2 DEF StartSwitch, At, Running, CallsInOrder, TypeOK, Pending, Context
    <3>2. \A c \in Context : Pending(c, t)' => Pending(c, t) /\ c # Boot
      BY <2>2, <3>1 DEF StartSwitch, SwitchTo, Pending
    <3> QED BY <1>0, <1>2, <2>2, <3>1, <3>2
           DEF StartSwitch, SwitchTo, InOnePlace, Idling, TypeOK, InQueue
  <2>3. CASE StartEmpty
    BY <1>2, <2>3 DEF StartEmpty, InOnePlace, InQueue, Idling, Pending, Leaving
  <2> QED BY <1>5, <2>1, <2>2, <2>3 DEF Start
<1>6. ASSUME NEW c \in Context, TaskStep(c) PROVE InOnePlace(t)'
  <2>r. t \in Context /\ Return(c) \in {"start", "run"}
    BY DEF Context, Return
  <2>0. ~halted /\ c = Running /\ (c # Boot => c \in Slot /\ current_task = c)
    BY <1>0, <1>6 DEF TaskStep, Yield, Create, Exit, Sleep, Wait, WakeTest, WakeSet, AddTest, Lock,
          Link, Unlink, At, Running, TypeOK, Context
  <2>1. CASE Yield(c)
    <3>1. c \in Slot /\ current_task = c /\ UNCHANGED <<arg, exited>>
          /\ pc[c] \in {"run", "yield"} /\ pc' = [pc EXCEPT ![c] = "run"]
      BY <2>0, <2>1 DEF Yield, At, Jump
    <3>2. \A d \in Context : Pending(d, t)' => Pending(d, t) \/ current_task' # current_task
      BY <1>0, <3>1 DEF Pending, TypeOK
    <3>3. CASE halted' = TRUE /\ UNCHANGED <<run_queue, current_task, state>>
      BY <1>2, <3>1, <3>2, <3>3 DEF InOnePlace, InQueue, Idling
    <3>4. CASE run_queue = <<>> /\ UNCHANGED <<run_queue, current_task, state, halted>>
      <4>1. t = c => pc[c] = "run"
        BY <2>1, <3>1, <3>4 DEF Yield
      <4>2. UNCHANGED pc \/ t # c
        BY <1>0, <3>1, <4>1 DEF TypeOK
      <4> QED BY <1>0, <1>2, <2>0, <3>1, <3>2, <3>4, <4>2 DEF InOnePlace, InQueue, Idling, Leaving
    <3>5. CASE Dispatched
      <4>1. \A d \in Context : Pending(d, t)' => Pending(d, t)
        BY <1>0, <3>1, <3>5 DEF Dispatched, Pending, TypeOK
      <4> QED BY <1>0, <1>2, <3>1, <3>5, <4>1 DEF Dispatched, InOnePlace, Idling, TypeOK
    <3> QED BY <1>0, <2>1, <3>3, <3>4, <3>5, ScheduleDoes DEF Yield
  <2>2. CASE Create(c)
    <3> DEFINE u == task_count
    <3>1. u \in Slot
      <4>1. task_count < MaxTasks
        BY <2>2 DEF Create, RoomForTask
      <4> QED BY <1>0, <4>1, SchedulerAssumption DEF TypeOK, Slot
    <3>2. ~Known(u)
      <4>1. ~(u < u)
        BY <3>1 DEF Slot
      <4> QED BY <1>0, <3>1, <4>1 DEF OnlyCreated
    <3>3. /\ pc[c] \in {"create", "run"}
          /\ \/ pc' = [pc EXCEPT ![c] = "add"] /\ arg' = [arg EXCEPT ![c] = u]
             \/ pc' = [pc EXCEPT ![c] = Return(c)] /\ arg' = arg
          /\ state' = [state EXCEPT ![u] = "READY"]
          /\ UNCHANGED <<exited, run_queue, current_task, halted>>
      BY <2>2 DEF Create, At, Jump
    <3>4. /\ \A d \in Context \ {c} : Pending(d, t)' => Pending(d, t)
          /\ Pending(c, t)' => t = u
      BY <1>0, <3>3 DEF Pending, TypeOK, Return
    <3>5. CASE t = u
      BY <1>0, <3>1, <3>2, <3>3, <3>4, <3>5, <1>2 DEF InOnePlace, Known, Idling, Pending, TypeOK, InQueue
    <3>6. CASE t # u
      <4>1. Leaving(t)' <=> Leaving(t)
        BY <1>0, <2>r, <3>3 DEF Leaving, TypeOK
      <4>2. state'[t] = state[t]
        BY <1>0, <3>1, <3>3, <3>6 DEF TypeOK
      <4> QED BY <1>2, <3>3, <3>4, <3>6, <4>1, <4>2 DEF InOnePlace, Idling, InQueue
    <3> QED BY <3>5, <3>6
  <2>3. CASE Exit(c)
    <3>1. c \in Slot /\ current_task = c /\ pc[c] = "run"
          /\ pc' = [pc EXCEPT ![c] = "removeLock"] /\ state' = [state EXCEPT ![c] = "ZOMBIE"]
          /\ exited' = exited \cup {c} /\ UNCHANGED <<run_queue, current_task, arg, halted>>
      BY <1>0, <2>0, <2>3 DEF Exit, At, Jump, CallsInOrder
    <3>2. \A d \in Context : Pending(d, t)' => Pending(d, t)
      BY <1>0, <3>1 DEF Pending, TypeOK
    <3>3. CASE t = c
      BY <1>0, <1>2, <2>0, <3>1, <3>2, <3>3 DEF InOnePlace, Idling, InQueue, Leaving, TypeOK
    <3>4. CASE t # c
      BY <1>0, <1>2, <2>0, <3>1, <3>2, <3>4 DEF InOnePlace, Idling, InQueue, Leaving, TypeOK
    <3> QED BY <3>3, <3>4
  <2>4. CASE Sleep(c)
    <3>1. c \in Slot /\ current_task = c /\ pc[c] = "run"
          /\ pc' = [pc EXCEPT ![c] = "removeLock"] /\ state' = [state EXCEPT ![c] = "SLEEPING"]
          /\ exited' = exited /\ UNCHANGED <<run_queue, current_task, arg, halted>>
      BY <1>0, <2>0, <2>4 DEF Sleep, At, Jump, CallsInOrder
    <3>2. \A d \in Context : Pending(d, t)' => Pending(d, t)
      BY <1>0, <3>1 DEF Pending, TypeOK
    <3>3. CASE t = c
      BY <1>0, <1>2, <2>0, <3>1, <3>2, <3>3 DEF InOnePlace, Idling, InQueue, Leaving, TypeOK
    <3>4. CASE t # c
      BY <1>0, <1>2, <2>0, <3>1, <3>2, <3>4 DEF InOnePlace, Idling, InQueue, Leaving, TypeOK
    <3> QED BY <3>3, <3>4
  <2>5. CASE Wait(c)
    <3>1. c \in Slot /\ current_task = c /\ pc[c] = "run"
          /\ pc' = [pc EXCEPT ![c] = "yield"] /\ state' = [state EXCEPT ![c] = "BLOCKED"]
          /\ exited' = exited /\ UNCHANGED <<run_queue, current_task, arg, halted>>
      BY <1>0, <2>0, <2>5 DEF Wait, At, Jump, CallsInOrder
    <3>2. \A d \in Context : Pending(d, t)' => Pending(d, t)
      BY <1>0, <3>1 DEF Pending, TypeOK
    <3>3. CASE t = c
      BY <1>0, <1>2, <2>0, <3>1, <3>2, <3>3 DEF InOnePlace, Idling, InQueue, Leaving, TypeOK
    <3>4. CASE t # c
      BY <1>0, <1>2, <2>0, <3>1, <3>2, <3>4 DEF InOnePlace, Idling, InQueue, Leaving, TypeOK
    <3> QED BY <3>3, <3>4
  <2>6. ASSUME NEW u \in Slot, WakeTest(c, u) PROVE InOnePlace(t)'
    <3>1. /\ pc[c] = "run" /\ UNCHANGED <<state, exited, run_queue, current_task, halted>>
          /\ pc' = [pc EXCEPT ![c] = "wake"] /\ arg' = [arg EXCEPT ![c] = u]
      BY <2>6 DEF WakeTest, At, Jump
    <3>2. \A d \in Context : Pending(d, t)' => Pending(d, t)
      BY <1>0, <3>1 DEF Pending, TypeOK, Return
    <3>3. Leaving(t)' <=> Leaving(t)
      BY <1>0, <2>r, <3>1 DEF Leaving, TypeOK
    <3> QED BY <1>2, <3>1, <3>2, <3>3 DEF InOnePlace, Idling, InQueue
  <2>7. CASE WakeSet(c)
    <3> DEFINE u == arg[c]
    <3>1. /\ pc[c] = "wake" /\ u \in Slot /\ pc' = [pc EXCEPT ![c] = "add"]
          /\ state' = [state EXCEPT ![u] = "READY"]
          /\ UNCHANGED <<exited, run_queue, current_task, arg, halted>>
          /\ t = u => state[u] = "SLEEPING"
      BY <1>0, <2>7 DEF WakeSet, At, Jump, CallsInOrder, TypeOK
    <3>2. /\ \A d \in Context \ {c} : Pending(d, t)' => Pending(d, t)
          /\ Pending(c, t)' => t = u
      BY <1>0, <3>1 DEF Pending, TypeOK
    <3>3. Leaving(t)' <=> Leaving(t)
      BY <1>0, <3>1 DEF Leaving, TypeOK
    <3>4. CASE t = u
      BY <1>0, <1>2, <3>1, <3>2, <3>3, <3>4 DEF InOnePlace, Idling, InQueue, TypeOK
    <3>5. CASE t # u
      BY <1>0, <1>2, <3>1, <3>2, <3>3, <3>5 DEF InOnePlace, Idling, InQueue, TypeOK
    <3> QED BY <3>4, <3>5
  <2>8. CASE AddTest(c)
    <3>1. /\ pc[c] = "add" /\ UNCHANGED <<state, exited, run_queue, current_task, halted>>
          /\ \/ pc' = [pc EXCEPT ![c] = "addLock"] /\ arg' = arg
             \/ pc' = [pc EXCEPT ![c] = Return(c)] /\ arg' = [arg EXCEPT ![c] = None]
      BY <2>8 DEF AddTest, At, Jump
    <3>2. \A d \in Context : Pending(d, t)' => Pending(d, t)
      BY <1>0, <3>1 DEF Pending, TypeOK, Return
    <3>3. Leaving(t)' <=> Leaving(t)
      BY <1>0, <2>r, <3>1 DEF Leaving, TypeOK
    <3> QED BY <1>2, <3>1, <3>2, <3>3 DEF InOnePlace, Idling, InQueue
  <2>9. CASE Lock(c)
    <3>1. /\ pc[c] \in {"addLock", "removeLock"} /\ UNCHANGED <<state, exited, run_queue, current_task, arg, halted>>
          /\ \/ pc[c] = "addLock" /\ pc' = [pc EXCEPT ![c] = "addLink"]
             \/ pc[c] = "removeLock" /\ pc' = [pc EXCEPT ![c] = "unlink"]
      BY <2>9 DEF Lock, At, Jump
    <3>2. \A d \in Context : Pending(d, t)' => Pending(d, t)
      BY <1>0, <3>1 DEF Pending, TypeOK, Return
    <3>3. Leaving(t)' <=> Leaving(t)
      BY <1>0, <2>r, <3>1 DEF Leaving, TypeOK
    <3> QED BY <1>2, <3>1, <3>2, <3>3 DEF InOnePlace, Idling, InQueue
  <2>10. CASE Link(c)
    <3> DEFINE u == arg[c]
    <3>1. /\ pc[c] = "addLink" /\ u \in Slot /\ pc' = [pc EXCEPT ![c] = Return(c)]
          /\ arg' = [arg EXCEPT ![c] = None] /\ run_queue' = Append(run_queue, u)
          /\ UNCHANGED <<state, exited, current_task, halted>>
      BY <1>0, <2>10 DEF Link, At, Jump, CallsInOrder, TypeOK
    <3>2. /\ InQueue(t)' <=> InQueue(t) \/ t = u
          /\ AtMostOnce(t, run_queue) /\ (t = u => ~InQueue(t)) => AtMostOnce(t, run_queue')
      BY <1>0, <3>1, AppendOnce DEF InQueue, TypeOK
    <3>3. \A d \in Context : Pending(d, t)' => Pending(d, t) /\ d # c
      BY <1>0, <3>1 DEF Pending, TypeOK, Return
    <3>4. Leaving(t)' <=> Leaving(t)
      BY <1>0, <2>r, <3>1 DEF Leaving, TypeOK
    <3>5. t = u => Pending(c, t)
      BY <3>1 DEF Pending
    <3> QED BY <1>2, <2>0, <3>1, <3>2, <3>3, <3>4, <3>5 DEF InOnePlace, Idling
  <2>11. CASE Unlink(c)
    <3>1. /\ pc[c] = "unlink" /\ pc' = [pc EXCEPT ![c] = "yield"]
          /\ run_queue' = RemoveFirst(run_queue, c)
          /\ UNCHANGED <<state, exited, current_task, arg, halted>>
      BY <2>11 DEF Unlink, At, Jump
    <3>2. (InQueue(t)' => InQueue(t)) /\ (AtMostOnce(t, run_queue) => AtMostOnce(t, run_queue'))
      BY <1>0, <3>1, RemoveFirstOnce DEF InQueue, TypeOK
    <3>3. \A d \in Context : Pending(d, t)' => Pending(d, t)
      BY <1>0, <3>1 DEF Pending, TypeOK
    <3>4. Leaving(t)' <=> Leaving(t)
      BY <1>0, <3>1 DEF Leaving, TypeOK
    <3> QED BY <1>2, <3>1, <3>2, <3>3, <3>4 DEF InOnePlace, Idling
  <2> QED BY <1>6, <2>1, <2>2, <2>3, <2>4, <2>5, <2>6, <2>7, <2>8, <2>9, <2>10, <2>11 DEF TaskStep
<1>7. ASSUME NEW u \in Slot, task_kill(u) PROVE InOnePlace(t)'
  BY <1>0, <1>2, <1>7 DEF task_kill, InOnePlace, InQueue, Idling, Pending, Leaving, TypeOK
<1>8. ASSUME NEW u \in Slot, InterruptWake(u) PROVE InOnePlace(t)'
  <2>1. CASE sched_lock
    BY <1>0, <1>2, <1>8, <2>1 DEF InterruptWake, InOnePlace, InQueue, Idling, Pending, Leaving, TypeOK
  <2>2. CASE ~sched_lock
    <3>1. /\ InQueue(t)' <=> InQueue(t) \/ t = u
          /\ AtMostOnce(t, run_queue) /\ (t = u => ~InQueue(t)) => AtMostOnce(t, run_queue')
      <4>1. run_queue' = Append(run_queue, u)
        BY <1>8, <2>2 DEF InterruptWake
      <4> QED BY <1>0, <4>1, AppendOnce DEF InQueue, TypeOK
    <3>2. \A c \in Context : Pending(c, t)' <=> Pending(c, t)
      BY <1>8 DEF InterruptWake, Pending
    <3>3. t = u => state[t] = "SLEEPING" /\ state'[t] = "READY"
      BY <1>0, <1>8 DEF InterruptWake, Wakeable, TypeOK
    <3>4. t # u => state'[t] = state[t]
      BY <1>0, <1>8 DEF InterruptWake, TypeOK
    <3>5. UNCHANGED <<current_task, pc, exited>> /\ (~halted' => ~halted)
      BY <1>8 DEF InterruptWake
    <3> QED BY <1>2, <3>1, <3>2, <3>3, <3>4, <3>5 DEF InOnePlace, Idling, Leaving
  <2> QED BY <2>1, <2>2
<1> QED BY <1>4, <1>5, <1>6, <1>7, <1>8 DEF Next

----------------------------------------------------------------------------
(* Every step keeps the invariant. *)
LEMMA StepInv == SchedInv /\ [Next]_vars => SchedInv'
<1> SUFFICES ASSUME SchedInv, [Next]_vars PROVE SchedInv'
  OBVIOUS
<1>1. CASE Next
  <2>1. TypeOK' /\ CallsInOrder' /\ OnlyCreated'
    BY <1>1, StepTypeOK, StepInOrder, StepOnlyCreated DEF SchedInv
  <2>2. \A t \in Slot \ astray' : InOnePlace(t)'
    BY <1>1, StepInOnePlace
  <2> QED BY <2>1, <2>2 DEF SchedInv
<1>2. CASE UNCHANGED vars
  <2>1. TypeOK' /\ CallsInOrder' /\ OnlyCreated'
    BY <1>2 DEF SchedInv, vars, TypeOK, CallsInOrder, OnlyCreated, Known, InQueue
  <2>2. \A t \in Slot \ astray' : InOnePlace(t)'
    BY <1>2 DEF SchedInv, vars, InOnePlace, InQueue, Idling, Pending, Leaving
  <2> QED BY <2>1, <2>2 DEF SchedInv
<1> QED BY <1>1, <1>2

(* The invariant holds for ever. *)
LEMMA InvHolds == Spec => []SchedInv
<1> QED BY InitInv, StepInv, PTL DEF Spec

(* The scheduler's state is always well formed: the queue holds slots of   *)
(* tasks[], and the task on the CPU is one of them.                        *)
THEOREM TypeCorrect == Spec => []TypeOK
<1>1. SchedInv => TypeOK
  BY DEF SchedInv
<1> QED BY <1>1, InvHolds, PTL

(* No task is linked into the run queue twice, for any number of tasks and *)
(* wherever the timer falls between the steps of create, sleep, wait, exit *)
(* and wake, so that scheduler_add_task never cuts the list behind a task  *)
(* that is in it.                                                          *)
THEOREM NoTaskQueuedTwice == Spec => []QueuedOnce
<1>1. SchedInv => QueuedOnce
  <2> SUFFICES ASSUME SchedInv, NEW i \in DOMAIN run_queue, NEW j \in DOMAIN run_queue,
                      run_queue[i] = run_queue[j], run_queue[i] \notin astray
               PROVE  i = j
    BY DEF QueuedOnce
  <2>1. run_queue[i] \in Slot \ astray
    BY DEF SchedInv, TypeOK
  <2> QED BY <2>1 DEF SchedInv, InOnePlace, AtMostOnce
<1> QED BY <1>1, InvHolds, PTL

(* No context switch goes to a task that has run task_exit: neither the    *)
(* timer, nor a yield, nor scheduler_start, whatever wake-ups and kills    *)
(* came between its exit and its last yield.                               *)
THEOREM ExitedNotDispatched == Spec => ExitedNeverRuns
<1>1. ASSUME SchedInv, [Next]_vars, current_task' # current_task
      PROVE  current_task' \notin exited \ astray
  <2> USE SlotsAreTasks
  <2>0. TypeOK
    BY <1>1 DEF SchedInv
  <2>1. ASSUME scheduler_schedule PROVE current_task' \notin exited \ astray
    <3>1. Dispatched
      BY <1>1, <2>0, <2>1, ScheduleDoes
    <3> QED BY <1>1, <3>1 DEF Dispatched, SchedInv, InOnePlace
  <2>2. ASSUME StartSwitch PROVE current_task' \notin exited \ astray
    <3>1. /\ current_task' = arg[Boot] /\ arg[Boot] \in Slot
          /\ Boot \in Context /\ Pending(Boot, arg[Boot])
      BY <1>1, <2>0, <2>2
         DEF StartSwitch, SwitchTo, At, Running, Pending, SchedInv, CallsInOrder, TypeOK, Context
    <3> QED BY <1>1, <3>1 DEF SchedInv, InOnePlace, Idling
  <2>3. scheduler_schedule \/ StartSwitch
    BY <1>1 DEF Next, vars, Tick, Start, StartTake, StartEmpty, TaskStep, Yield, Create, Exit,
         Sleep, Wait, WakeTest, WakeSet, AddTest, Lock, Link, Unlink, task_kill, InterruptWake
  <2> QED BY <2>1, <2>2, <2>3
<1>2. SchedInv /\ [Next]_vars =>
        [current_task' # current_task => current_task' \notin exited \ astray]_vars
  BY <1>1
<1> QED BY <1>2, InvHolds, PTL DEF Spec, ExitedNeverRuns
=============================================================================
