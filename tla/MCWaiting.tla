----------------------------- MODULE MCWaiting -----------------------------
(***************************************************************************)
(* The components in which something waits for something: an access for    *)
(* its page, a changed window for a frame, a timer for its time.  They     *)
(* share no state: each behaviour is one of one of them, named by          *)
(* component, and the others stay as they began.                           *)
(***************************************************************************)
EXTENDS AddressSpace, FrameLoop, EventLoop

VARIABLE component

vars == <<component, spaceVars, frameVars, timerVars>>

(* Two pages whose page tables differ in the last level only. *)
MCTables == [v \in 0 .. 1 |-> IF v < 1 THEN <<"t1", "t2", "t3">> ELSE <<"t1", "t2", "t4">>]

MCParts == <<"background", "children", "cursor">>

Init ==
  /\ component \in {"space", "frame", "timers"}
  /\ SpaceInit /\ FrameInit /\ TimersInit
  /\ component # "frame" => since_blink = 0

Next ==
  \/ /\ component = "space" /\ SpaceNext
     /\ UNCHANGED <<component, frameVars, timerVars>>
  \/ /\ component = "frame" /\ FrameNext
     /\ UNCHANGED <<component, spaceVars, timerVars>>
  \/ /\ component = "timers" /\ TimersNext
     /\ UNCHANGED <<component, spaceVars, frameVars>>

Spec ==
  /\ Init /\ [][Next]_vars
  /\ WF_spaceVars(component = "space" /\ handle_page_fault)
  /\ WF_frameVars(component = "frame" /\ wm_task)
  /\ WF_frameVars(component = "frame" /\ Tick)
  /\ WF_timerVars(component = "timers" /\ process_timers)
=============================================================================
