----------------------------- MODULE EventLoop -----------------------------
(***************************************************************************)
(* Timers of the generic event loop (event_loop.c): a singly linked list   *)
(* that process_timers walks by a pointer to the cell that names the next  *)
(* timer, while the callbacks it calls add and remove timers.              *)
(*                                                                         *)
(* kmalloc never hands out the address of a freed timer again, as kfree    *)
(* records 16 bytes; these overwrite id and fire_time of a freed timer and *)
(* leave its next and repeat.  Time is counted in rounds of the loop.      *)
(***************************************************************************)
EXTENDS LinkedLists

CONSTANTS
  Timer,       \* addresses kmalloc can return
  ListHead,    \* the cell timer_list; the next field of timer t is cell t
  Intervals    \* values of interval_ms, in rounds

ASSUME TimerAssumption ==
  /\ IsFiniteSet(Timer) /\ ListHead \notin Timer
  /\ NULL \notin Timer \cup {ListHead}
  /\ Intervals \subseteq Nat

VARIABLES
  cell,        \* [Timer \cup {ListHead}]: the timer each cell names
  timers,      \* [Timer]: [due, interval, repeat]; due: rounds until fire_time
  fresh,       \* addresses not handed out yet
  current,     \* the cell process_timers looks at, NULL outside of it
  firing,      \* the timer whose callback runs, or NULL
  crashed,     \* process_timers read through a NULL pointer
  wanted,      \* history: the timers added, less those removed or done
  disturbed    \* history: a callback removed its own timer or the one in
               \* front, or added one while a one-shot timer fired first

timerVars == <<cell, timers, fresh, current, firing, crashed, wanted, disturbed>>

TimersInit ==
  /\ cell = [c \in Timer \cup {ListHead} |-> NULL]
  /\ timers = [t \in Timer |-> [due |-> 0, interval |-> 0, repeat |-> FALSE]]
  /\ fresh = Timer
  /\ current = NULL /\ firing = NULL
  /\ crashed = FALSE
  /\ wanted = {} /\ disturbed = FALSE

(* The timers from timer_list on. *)
TimerList == ChainFrom([t \in Timer |-> cell[t]], cell[ListHead])

(* Event handlers run before process_timers, callbacks inside it. *)
Outside == current = NULL
InCallback == firing # NULL /\ ~crashed

event_loop_add_timer(t, interval, repeat) ==
  /\ Outside \/ InCallback
  /\ t \in fresh
  /\ fresh' = fresh \ {t}
  /\ timers' = [timers EXCEPT ![t] =
                  [due |-> interval, interval |-> interval, repeat |-> repeat]]
  /\ cell' = [cell EXCEPT ![t] = cell[ListHead], ![ListHead] = t]
  /\ wanted' = wanted \cup {t}
  /\ disturbed' = (disturbed \/
       (InCallback /\ current = ListHead /\ ~timers[firing].repeat))
  /\ UNCHANGED <<current, firing, crashed>>

(* The cell of the list that names timer t. *)
CellOf(t) == CHOOSE c \in {ListHead} \cup ToSet(TimerList) : cell[c] = t

event_loop_remove_timer(t) ==
  /\ Outside \/ InCallback
  /\ t \in ToSet(TimerList) \cap wanted
  /\ cell' = [cell EXCEPT ![CellOf(t)] = cell[t]]
  /\ wanted' = wanted \ {t}
  /\ disturbed' = (disturbed \/ (InCallback /\ t \in {firing, current}))
  /\ UNCHANGED <<timers, fresh, current, firing, crashed>>

----------------------------------------------------------------------------
(* process_timers. *)

StartRound ==
  /\ Outside
  /\ current' = ListHead
  /\ timers' = [t \in Timer |-> [timers[t] EXCEPT !.due = IF @ > 0 THEN @ - 1 ELSE 0]]
  /\ UNCHANGED <<cell, fresh, firing, crashed, wanted, disturbed>>

AtTimer == current # NULL /\ firing = NULL /\ ~crashed /\ cell[current] # NULL

(* "Fire timer": the callback begins. *)
Fire ==
  /\ AtTimer /\ timers[cell[current]].due = 0
  /\ firing' = cell[current]
  /\ UNCHANGED <<cell, timers, fresh, current, crashed, wanted, disturbed>>

PassBy ==
  /\ AtTimer /\ timers[cell[current]].due > 0
  /\ current' = cell[current]
  /\ UNCHANGED <<cell, timers, fresh, firing, crashed, wanted, disturbed>>

(* Operators X_Y are faulty variants of X, which the properties notice.    *)
AfterRepeat_EndRound == NULL

AfterRepeat == cell[current]

(* "Reschedule": on to the timer behind the one the cell names now.        *)
Reschedule ==
  /\ InCallback /\ timers[firing].repeat
  /\ timers' = [timers EXCEPT ![firing].due = timers[firing].interval]
  /\ crashed' = (cell[current] = NULL)
  /\ current' = AfterRepeat
  /\ firing' = NULL
  /\ UNCHANGED <<cell, fresh, wanted, disturbed>>

Bypass_First == [cell EXCEPT ![ListHead] = cell[firing]]

Bypass == [cell EXCEPT ![current] = cell[firing]]

(* "Remove timer" *)
RemoveFired ==
  /\ InCallback /\ ~timers[firing].repeat
  /\ cell' = Bypass
  /\ wanted' = wanted \ {firing}
  /\ firing' = NULL
  /\ UNCHANGED <<timers, fresh, current, crashed, disturbed>>

EndRound ==
  /\ current # NULL /\ firing = NULL /\ ~crashed
  /\ cell[current] = NULL
  /\ current' = NULL
  /\ UNCHANGED <<cell, timers, fresh, firing, crashed, wanted, disturbed>>

process_timers == StartRound \/ Fire \/ PassBy \/ Reschedule \/ RemoveFired \/ EndRound

TimersNext ==
  \/ \E t \in Timer :
       \/ \E n \in Intervals, r \in BOOLEAN : event_loop_add_timer(t, n, r)
       \/ event_loop_remove_timer(t)
  \/ process_timers

TimersSpec == TimersInit /\ [][TimersNext]_timerVars

(* event_loop_run goes round for ever and callbacks return. *)
TimersFair == WF_timerVars(process_timers)

----------------------------------------------------------------------------
(* Properties. *)

(* Whatever callbacks add and remove, the list holds exactly the timers    *)
(* that were added and are neither removed nor done, each once, as long as *)
(* no callback changes the very cell process_timers is looking at          *)
(* (event_loop.c:177-241).                                                 *)
TimersKept ==
  ~disturbed => /\ ToSet(TimerList) = wanted
                /\ IsInjective(TimerList)
                /\ ~crashed

(* Under the same proviso every timer fires unless it is removed, also     *)
(* when others in front of it fire, repeat, and are removed in every       *)
(* round: no walk skips a timer for ever (event_loop.c:180-208).           *)
AddedTimerFires ==
  \A t \in Timer : t \in wanted ~> (firing = t \/ t \notin wanted \/ disturbed)
=============================================================================
