----------------------------- MODULE WidgetTree -----------------------------
(***************************************************************************)
(* The children array of the desktop widget (wm.c), which wm_task changes  *)
(* with interrupts enabled and the keyboard interrupt in between.          *)
(*                                                                         *)
(* wm_task's calls are split at every access to the array and the count,   *)
(* in the order of the instructions gcc -Os emits: wm_widget_remove_child  *)
(* reads the count once and writes it back, less one, after the shift;     *)
(* wm_widget_add_child raises the count before it fills the slot.  A call  *)
(* from the interrupt is one step.  Slots are numbered from 1.             *)
(***************************************************************************)
EXTENDS Naturals, FiniteSets, SequencesExt

CONSTANTS
  Widget,        \* windows
  Nobody,        \* NULL
  ChildSlots     \* WM_MAX_CHILDREN

(* wm_create_window stops at half as many windows as there are slots       *)
(* (WM_MAX_WINDOWS in wm.h).                                               *)
ASSUME ChildrenAssumption ==
  /\ Nobody \notin Widget /\ ChildSlots \in Nat
  /\ IsFiniteSet(Widget) /\ Cardinality(Widget) <= ChildSlots

VARIABLES
  children,      \* [1 .. ChildSlots]
  child_count,
  parented,      \* the widgets whose parent is the desktop
  live,          \* history: the windows open
  step,          \* where wm_task is
  op,            \* what it does: [w, call], see Calls
  slot, total, moving,  \* registers of wm_task: index, count, child being shifted
  interfered     \* history: an interrupt changed the array between an access of
                 \* wm_task and a later one that relies on it

treeVars ==
  <<children, child_count, parented, live, step, op, slot, total, moving, interfered>>

TreeInit ==
  /\ children = [k \in 1 .. ChildSlots |-> Nobody]
  /\ child_count = 0
  /\ parented = {} /\ live = {}
  /\ step = "idle" /\ op = [w |-> Nobody, call |-> "none"]
  /\ slot = 1 /\ total = 0 /\ moving = Nobody
  /\ interfered = FALSE

Tree == SubSeq(children, 1, child_count)

----------------------------------------------------------------------------
(* Calls of the keyboard interrupt, on the array as a sequence s. *)

Removed(s, w) == IF w \in ToSet(s) THEN RemoveFirst(s, w) ELSE s
Appended(s, w) == IF Len(s) < ChildSlots THEN Append(s, w) ELSE s

Becomes(s) ==
  /\ child_count' = Len(s)
  /\ children' = [k \in 1 .. ChildSlots |->
       IF k <= Len(s) THEN s[k]
       ELSE IF k <= child_count THEN Nobody ELSE children[k]]

(* In a removal wm_task relies on the count from its first read to the     *)
(* last write of the array, in an addition from the read to the store.     *)
Midway == step \in {"search", "load", "store", "truncate", "erase", "raise", "fill"}

Interrupt(w, call) ==
  /\ \/ call = "open" /\ w \notin live
     \/ call \in {"raise", "destroy"} /\ w \in live
  /\ w # op.w \/ call # "open"
  /\ LET rest == Removed(Tree, w)
     IN  IF call = "destroy" THEN Becomes(rest) ELSE Becomes(Appended(rest, w))
  /\ parented' = IF call = "destroy" THEN parented \ {w} ELSE parented \cup {w}
  /\ live' = IF call = "destroy" THEN live \ {w} ELSE live \cup {w}
  /\ interfered' = (interfered \/ Midway \/ (w = op.w /\ step # "idle"))
  /\ UNCHANGED <<step, op, slot, total, moving>>

----------------------------------------------------------------------------
(* wm_task *)

Goto(s) == step' = s

Begin(w, call) ==
  /\ step = "idle"
  /\ \/ call = "open" /\ w \notin live
     \/ call \in {"raise", "destroy"} /\ w \in live
  /\ op' = [w |-> w, call |-> call]
  /\ Goto(IF call = "open" THEN "add" ELSE "remove")
  /\ UNCHANGED <<children, child_count, parented, live, slot, total, moving, interfered>>

(* wm_widget_remove_child: the count, then the search. *)
ReadCount ==
  /\ step = "remove"
  /\ total' = child_count
  /\ slot' = 1
  /\ Goto("search")
  /\ UNCHANGED <<children, child_count, parented, live, op, moving, interfered>>

AfterRemove ==
  CASE op.call = "destroy" -> "end"
    [] op.call = "rehang"  -> "count"
    [] OTHER               -> "add"

Search ==
  /\ step = "search"
  /\ IF slot > total THEN Goto(AfterRemove) /\ UNCHANGED <<slot, total>>
     ELSE IF children[slot] = op.w THEN total' = total - 1 /\ Goto("load") /\ UNCHANGED slot
     ELSE slot' = slot + 1 /\ UNCHANGED <<step, total>>
  /\ UNCHANGED <<children, child_count, parented, live, op, moving, interfered>>

(* Operators X_Y are faulty variants of X, which the properties notice.    *)
ShiftDone_Early == slot + 1 > total

ShiftDone == slot > total

Load ==
  /\ step = "load"
  /\ IF ShiftDone THEN Goto("truncate") /\ UNCHANGED moving
                  ELSE moving' = children[slot + 1] /\ Goto("store")
  /\ UNCHANGED <<children, child_count, parented, live, op, slot, total, interfered>>

Store ==
  /\ step = "store"
  /\ children' = [children EXCEPT ![slot] = moving]
  /\ slot' = slot + 1
  /\ Goto("load")
  /\ UNCHANGED <<child_count, parented, live, op, total, moving, interfered>>

Truncate ==
  /\ step = "truncate"
  /\ child_count' = total
  /\ Goto("erase")
  /\ UNCHANGED <<children, parented, live, op, slot, total, moving, interfered>>

Erase ==
  /\ step = "erase"
  /\ children' = [children EXCEPT ![total + 1] = Nobody]
  /\ Goto("orphan")
  /\ UNCHANGED <<child_count, parented, live, op, slot, total, moving, interfered>>

Orphan ==
  /\ step = "orphan"
  /\ parented' = parented \ {op.w}
  /\ Goto(AfterRemove)
  /\ UNCHANGED <<children, child_count, live, op, slot, total, moving, interfered>>

(* wm_widget_add_child.  A widget that still has its parent is removed     *)
(* from there first, and the addition goes on behind the test.             *)
TestRoom ==
  /\ step = "add"
  /\ IF child_count < ChildSlots /\ op.w \in parented
       THEN op' = [op EXCEPT !.call = "rehang"] /\ Goto("remove")
       ELSE UNCHANGED op /\ Goto(IF child_count < ChildSlots THEN "count" ELSE "end")
  /\ UNCHANGED <<children, child_count, parented, live, slot, total, moving, interfered>>

CountChild ==
  /\ step = "count"
  /\ total' = child_count
  /\ Goto("raise")
  /\ UNCHANGED <<children, child_count, parented, live, op, slot, moving, interfered>>

RaiseCount ==
  /\ step = "raise"
  /\ child_count' = total + 1
  /\ Goto("fill")
  /\ UNCHANGED <<children, parented, live, op, slot, total, moving, interfered>>

FillSlot ==
  /\ step = "fill"
  /\ children' = [children EXCEPT ![total + 1] = op.w]
  /\ Goto("adopt")
  /\ UNCHANGED <<child_count, parented, live, op, slot, total, moving, interfered>>

Adopt ==
  /\ step = "adopt"
  /\ parented' = parented \cup {op.w}
  /\ Goto("end")
  /\ UNCHANGED <<children, child_count, live, op, slot, total, moving, interfered>>

End ==
  /\ step = "end"
  /\ live' = IF op.call = "destroy" THEN live \ {op.w} ELSE live \cup {op.w}
  /\ op' = [w |-> Nobody, call |-> "none"]
  /\ Goto("idle")
  /\ UNCHANGED <<children, child_count, parented, slot, total, moving, interfered>>

Calls == {"open", "raise", "destroy"}

(* What wm_task does to a tree that was torn is not looked at.             *)
TreeNext ==
  \/ \E w \in Widget, call \in Calls :
       \/ ~interfered /\ Begin(w, call)
       \/ ~interfered /\ Interrupt(w, call)
  \/ ReadCount \/ Search \/ Load \/ Store \/ Truncate \/ Erase \/ Orphan
  \/ TestRoom \/ CountChild \/ RaiseCount \/ FillSlot \/ Adopt \/ End

TreeSpec == TreeInit /\ [][TreeNext]_treeVars

----------------------------------------------------------------------------
(* Properties. *)

(* The array holds every open window once and nothing else between two     *)
(* calls of wm_task, although interrupts open, raise and destroy windows   *)
(* before, after and between its removal and its addition: the only        *)
(* dangerous moments are those between an access and a later one that      *)
(* relies on it, and the only dangerous window is the one wm_task is       *)
(* busy with (wm.c:111-137).                                               *)
TreeWhole ==
  step = "idle" /\ ~interfered =>
    /\ ToSet(Tree) = live /\ IsInjective(Tree)
    /\ parented = live
=============================================================================
