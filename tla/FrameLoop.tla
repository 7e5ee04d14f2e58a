----------------------------- MODULE FrameLoop -----------------------------
(***************************************************************************)
(* The frame loop of wm_task (main.c), against the interrupts that change  *)
(* what the desktop shows and the timer.                                   *)
(*                                                                         *)
(* The desktop is drawn part by part into the back buffer, which fb_flip   *)
(* shows.  One change, to any part at any time, is followed on its way to  *)
(* the screen; the others only set needs_redraw.  Times are kept as ticks  *)
(* gone by, up to ForceTicks.                                              *)
(***************************************************************************)
EXTENDS Naturals, Sequences

CONSTANTS
  Parts,        \* in the order of wm_draw_desktop: background, children, ...
  ForceTicks    \* 20

ASSUME ForceAssumption == ForceTicks \in Nat /\ ForceTicks > 1

NoPart == 0

VARIABLES
  needs_redraw,
  since_frame,    \* ticks since last_frame
  since_blink,    \* ticks since last_tick of wm_refresh
  since_now,      \* ticks since the last sample of now
  at,             \* where wm_task is: "refresh", "events", "decide", "draw",
                  \* "flip", "clear"
  part,           \* in "draw", the part to draw next
  changed,        \* the part changed, or NoPart
  change          \* "none", "made", "drawn" (in the back buffer), "shown"

frameVars ==
  <<needs_redraw, since_frame, since_blink, since_now, at, part, changed, change>>

FrameInit ==
  /\ needs_redraw = TRUE
  /\ since_frame = 0 /\ since_blink \in 0 .. ForceTicks /\ since_now = 0
  /\ at = "refresh" /\ part = 1
  /\ changed = NoPart /\ change = "none"

Later(n) == IF n < ForceTicks THEN n + 1 ELSE n

(* The timer interrupt. *)
Tick ==
  /\ since_frame' = Later(since_frame)
  /\ since_blink' = Later(since_blink)
  /\ since_now' = Later(since_now)
  /\ UNCHANGED <<needs_redraw, at, part, changed, change>>

(* A request to redraw, by an interrupt or by an event wm_task handles,    *)
(* for the change that is followed or another one.                         *)
Request ==
  /\ needs_redraw' = TRUE
  /\ \/ UNCHANGED <<changed, change>>
     \/ /\ change = "none"
        /\ changed' \in 1 .. Len(Parts)
        /\ change' = "made"
  /\ UNCHANGED <<since_frame, since_blink, since_now, at, part>>

----------------------------------------------------------------------------
(* wm_task *)

wm_refresh ==
  /\ at = "refresh"
  /\ IF since_blink >= ForceTicks
       THEN needs_redraw' = TRUE /\ since_blink' = 0
       ELSE UNCHANGED <<needs_redraw, since_blink>>
  /\ at' = "events"
  /\ UNCHANGED <<since_frame, since_now, part, changed, change>>

(* wm_process_events returns, the last of its requests made. *)
EventsDone ==
  /\ at = "events"
  /\ at' = "decide"
  /\ UNCHANGED <<needs_redraw, since_frame, since_blink, since_now, part, changed, change>>

(* Operators X_Y are faulty variants of X, which the properties notice.    *)
Due_EachTick == (needs_redraw \/ since_frame >= ForceTicks) /\ since_frame = 1

(* should_redraw and the frame limit *)
Due == (needs_redraw \/ since_frame >= ForceTicks) /\ since_frame >= 1

Decide ==
  /\ at = "decide"
  /\ since_now' = 0
  /\ at' = IF Due THEN "draw" ELSE "refresh"
  /\ part' = 1
  /\ UNCHANGED <<needs_redraw, since_frame, since_blink, changed, change>>

DrawPart ==
  /\ at = "draw"
  /\ change' = IF change = "made" /\ changed = part THEN "drawn" ELSE change
  /\ IF part = Len(Parts) THEN at' = "flip" /\ UNCHANGED part
                          ELSE part' = part + 1 /\ UNCHANGED at
  /\ UNCHANGED <<needs_redraw, since_frame, since_blink, since_now, changed>>

fb_flip ==
  /\ at = "flip"
  /\ change' = IF change = "drawn" THEN "shown" ELSE change
  /\ at' = "clear"
  /\ UNCHANGED <<needs_redraw, since_frame, since_blink, since_now, part, changed>>

(* The request is cleared whoever made it, since the drawing began or      *)
(* before.                                                                 *)
Clear ==
  /\ at = "clear"
  /\ needs_redraw' = FALSE
  /\ since_frame' = since_now
  /\ at' = "refresh"
  /\ UNCHANGED <<since_blink, since_now, part, changed, change>>

wm_task == wm_refresh \/ EventsDone \/ Decide \/ DrawPart \/ fb_flip \/ Clear

FrameNext == Tick \/ Request \/ wm_task

(* Interrupts return and the timer runs.  wm_task runs as long as no other *)
(* task is queued, see Scheduler.                                          *)
FrameFair == WF_frameVars(wm_task) /\ WF_frameVars(Tick)

----------------------------------------------------------------------------
(* Properties. *)

(* A change is shown in the end, whenever the interrupt makes it: also     *)
(* when its part had just been drawn and the request is cleared with those *)
(* the frame did serve, and nothing is requested ever after                *)
(* (main.c:234-244, wm.c:660-675).                                         *)
ChangeIsShown == (change = "made") ~> (change = "shown")
=============================================================================
