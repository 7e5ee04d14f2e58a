--------------------------- MODULE WindowManager ---------------------------
(***************************************************************************)
(* Windows of the DevilCore desktop (wm.c and the applications' open and   *)
(* event functions): the window list, the widget tree (z-order), the focus *)
(* pointer and the focus flags, minimising, the taskbar, the shortcuts and *)
(* the dispatch of keys and clicks.                                        *)
(*                                                                         *)
(* Two actors call these operations: wm_task, for mouse events, and the    *)
(* keyboard interrupt, for keys.  Each handler is one step here.           *)
(*                                                                         *)
(* A window is identified by its address.  kfree records a freed block as  *)
(* 16 bytes long, so its address is never handed out for a window again,   *)
(* and only its first 16 bytes (id, type, start of the name) are           *)
(* overwritten: the flags of a freed window keep their values, its type no *)
(* longer is WM_WIDGET_WINDOW.                                             *)
(***************************************************************************)
EXTENDS Integers, FiniteSets, SequencesExt

CONSTANTS
  Win,            \* addresses kmalloc can return for a window
  Apps,           \* applications that keep their one window in a static pointer
  Run, Terminal,  \* windows nobody keeps a pointer to
  Menu,           \* the context menu's widget
  None,
  MaxWindows,     \* WM_MAX_WINDOWS, 32
  MaxChildren,    \* WM_MAX_CHILDREN, 64
  FixedChildren   \* taskbar, start menu and icons: below every window, never moved

ASSUME SizesAssumption ==
  /\ {MaxWindows, MaxChildren, FixedChildren} \subseteq Nat
  /\ FixedChildren + 1 + MaxWindows + Cardinality(Apps) <= MaxChildren

Owners == Apps \cup {Run, Terminal}

ASSUME NamesAssumption ==
  /\ IsFiniteSet(Apps) /\ Run \notin Apps /\ Terminal \notin Apps
  /\ Menu \notin Win
  /\ None \notin Win \cup Owners

VARIABLES
  desktop,   \* the fields of *desktop, and of its windows, that matter here
  handle,    \* [Apps]: calc_window, te_window, fm_window, ...
  dragged_window,
  screen     \* desktop->screen

vars == <<desktop, handle, dragged_window, screen>>

Init ==
  /\ desktop = [windows |-> <<>>,          \* desktop->windows
                children |-> <<Menu>>,     \* desktop->widget.children, above the fixed ones
                focused_window |-> None,
                focused   |-> [w \in Win |-> FALSE],   \* widget.focused
                visible   |-> [w \in Win |-> FALSE],   \* widget.visible
                minimized |-> [w \in Win |-> FALSE],
                owner     |-> [w \in Win |-> None],    \* who created it
                freed     |-> {},
                menu      |-> FALSE]       \* context_menu.widget.visible
  /\ handle = [a \in Apps |-> None]
  /\ dragged_window = None
  /\ screen = "DESKTOP"

Fresh(d) == {w \in Win : d.owner[w] = None}
Live(d) == {w \in Win : d.owner[w] # None} \ d.freed

----------------------------------------------------------------------------
(* Operations on the desktop structure d. *)

wm_widget_remove_child(d, w) ==
  [d EXCEPT !.children = RemoveFirst(@, w)]

wm_widget_add_child(d, w) ==
  IF FixedChildren + Len(d.children) >= MaxChildren
    THEN d
    ELSE [d EXCEPT !.children = Append(@, w)]

(* Faulty variants X_Y of an operator X stand before it; no specification  *)
(* uses them, the properties below must notice each.                       *)
Raise_NoRemove(d, w) == wm_widget_add_child(d, w)

Raise(d, w) == wm_widget_add_child(wm_widget_remove_child(d, w), w)

Restore_Invisible(d, w) == [d EXCEPT !.minimized[w] = FALSE]

(* "Un-minimize if minimized" *)
Restore(d, w) ==
  IF d.minimized[w]
    THEN [d EXCEPT !.minimized[w] = FALSE, !.visible[w] = TRUE]
    ELSE d

SetFocus_KeepOldFlag(d, w) ==
  [d EXCEPT !.focused[w] = TRUE, !.focused_window = w]

SetFocus(d, w) ==
  [d EXCEPT !.focused = [x \in Win |-> x = w \/ (d.focused[x] /\ x # d.focused_window)],
            !.focused_window = w]

wm_focus_window(d, w) == Raise(SetFocus(Restore(d, w), w), w)

(* wm_create_window, where window_count permits. *)
wm_create_window(d, w, owner) ==
  LET made == [d EXCEPT !.owner[w] = owner,
                        !.visible[w] = TRUE,
                        !.windows = Append(@, w)]
  IN  wm_focus_window(wm_widget_add_child(made, w), w)

wm_destroy_window_KeepTree(d, w) ==
  LET rest == RemoveFirst(d.windows, w)
  IN  [d EXCEPT
        !.windows = rest,
        !.focused_window = IF @ # w THEN @ ELSE IF rest = <<>> THEN None ELSE Last(rest),
        !.freed = @ \cup {w}]

(* The freed window's flags are not touched, nor is dragged_window; the    *)
(* window that inherits focused_window does not get its flag set.          *)
wm_destroy_window(d, w) ==
  LET rest == RemoveFirst(d.windows, w)
  IN  [wm_widget_remove_child(d, w) EXCEPT
        !.windows = rest,
        !.focused_window = IF @ # w THEN @ ELSE IF rest = <<>> THEN None ELSE Last(rest),
        !.freed = @ \cup {w}]

wm_show_context_menu(d) == Raise([d EXCEPT !.menu = TRUE], Menu)

Minimize(d, w) == [d EXCEPT !.minimized[w] = TRUE, !.visible[w] = FALSE]

----------------------------------------------------------------------------
(* Opening windows: icons, start menu and context menu from the task,      *)
(* shortcuts and the run dialog from the keyboard interrupt.               *)

State(d, h) == [desktop |-> d, handle |-> h]

(* The states after an attempt to create a window: several, as any fresh   *)
(* address may be returned; none when the model has no address left.       *)
Created(d, owner) ==
  IF Len(d.windows) >= MaxWindows
    THEN {[desktop |-> d, window |-> None]}
    ELSE {[desktop |-> wm_create_window(d, w, owner), window |-> w] : w \in Fresh(d)}

(* calc_open, te_open, fm_open, ...: one window per application. *)
OpenApp(d, h, a) ==
  IF h[a] # None
    THEN {State(wm_focus_window(d, h[a]), h)}
    ELSE {State(c.desktop, [h EXCEPT ![a] = c.window]) : c \in Created(d, a)}

(* open_terminal and wm_open_run_dialog: a new window every time. *)
OpenNew(d, h, owner) == {State(c.desktop, h) : c \in Created(d, owner)}

Open(d, h, what) ==
  IF what \in Apps THEN OpenApp(d, h, what) ELSE OpenNew(d, h, what)

Become(s) == desktop' = s.desktop /\ handle' = s.handle

----------------------------------------------------------------------------
(* Key dispatch: wm_widget_dispatch_event walks desktop->widget.children   *)
(* by index while the handlers it calls change that array.                 *)

Keys == {"close", "enter", "other"}   \* q or ESC, return, anything else

KeyTarget(d, i) ==
  /\ d.children[i] # Menu
  /\ d.visible[d.children[i]]
  /\ d.focused[d.children[i]]

(* The event function of window w: an application closes its window and    *)
(* forgets it; the run dialog opens what was typed and closes itself.      *)
HandleKey(s, w, key, typed) ==
  LET owner == s.desktop.owner[w]
  IN  CASE key = "close" /\ owner \in Apps ->
             {State(wm_destroy_window(s.desktop, w), [s.handle EXCEPT ![owner] = None])}
        [] key = "close" /\ owner = Run ->
             {State(wm_destroy_window(s.desktop, w), s.handle)}
        [] key = "enter" /\ owner = Run ->
             {State(wm_destroy_window(o.desktop, w), o.handle)
                : o \in Open(s.desktop, s.handle, typed)}
        [] OTHER -> {s}

(* Where the walk stops next, from index i on; 0 if nowhere. *)
NextTarget(d, i) ==
  LET T == {j \in i .. Len(d.children) : KeyTarget(d, j)}
  IN  IF T = {} THEN 0 ELSE CHOOSE j \in T : \A k \in T : j <= k

(* One round of the walk: from [state, index, windows reached so far].     *)
Walk(r, key, typed) ==
  LET j == NextTarget(r.state.desktop, r.index)
      w == r.state.desktop.children[j]
  IN  IF j = 0
        THEN {r}
        ELSE {[state |-> s, index |-> j + 1, reached |-> Append(r.reached, w)]
                : s \in HandleKey(r.state, w, key, typed)}

(* All outcomes of one key.  A round can make at most one window a new     *)
(* target, so two rounds reach the end of the array.                       *)
Dispatch(d, h, key, typed) ==
  LET start == [state |-> State(d, h), index |-> 1, reached |-> <<>>]
  IN  UNION {Walk(r, key, typed) : r \in Walk(start, key, typed)}

----------------------------------------------------------------------------
(* Mouse events, in wm_task. *)

InTree == ToSet(desktop.children) \ {Menu}
Parts == {"client", "title", "minimize", "close"}

(* wm_window_on_event.  A freed window has no title bar any more. *)
Pressed(d, w, part) ==
  LET f == wm_focus_window(d, w)
  IN  CASE part = "minimize" -> Minimize(f, w)
        [] part = "close"    -> wm_destroy_window(f, w)
        [] OTHER             -> f

(* A press hits a visible window.  wm_process_events shows the context     *)
(* menu after dispatching a press of the right button.                     *)
PressWindow(w, part, right) ==
  /\ w \in InTree /\ desktop.visible[w]
  /\ w \in desktop.freed => part = "client"
  /\ LET d == Pressed(desktop, w, part)
     IN  desktop' = IF right THEN wm_show_context_menu(d) ELSE d
  /\ dragged_window' = IF part = "title" THEN w ELSE dragged_window
  /\ UNCHANGED <<handle, screen>>

(* A press on the wallpaper; with the right button it shows the menu. *)
PressDesktop ==
  /\ desktop' = wm_show_context_menu(desktop)
  /\ UNCHANGED <<handle, dragged_window, screen>>

(* An item of the context menu; "Refresh" and "About" open nothing. *)
PressMenu ==
  /\ desktop.menu
  /\ \/ \E s \in Open(desktop, handle, Terminal) :
          Become([s EXCEPT !.desktop.menu = FALSE])
     \/ Become(State([desktop EXCEPT !.menu = FALSE], handle))
  /\ UNCHANGED <<dragged_window, screen>>

(* An icon, or an entry of the start menu. *)
PressIcon(what) ==
  /\ \E s \in Open(desktop, handle, what) : Become(s)
  /\ UNCHANGED <<dragged_window, screen>>

(* wm_taskbar_on_event, on the tab of window w. *)
PressTab(w) ==
  /\ w \in ToSet(desktop.windows)
  /\ desktop' =
       IF ~desktop.minimized[w] /\ desktop.focused[w]
         THEN [Minimize(desktop, w) EXCEPT !.focused[w] = FALSE]
         ELSE wm_focus_window(desktop, w)
  /\ UNCHANGED <<handle, dragged_window, screen>>

Release ==
  /\ dragged_window # None
  /\ dragged_window' = None
  /\ UNCHANGED <<desktop, handle, screen>>

Mouse ==
  \/ \E w \in Win, part \in Parts, right \in BOOLEAN : PressWindow(w, part, right)
  \/ PressDesktop \/ PressMenu \/ Release
  \/ \E what \in Apps \cup {Terminal} : PressIcon(what)
  \/ \E w \in Win : PressTab(w)

----------------------------------------------------------------------------
(* Keys, in the keyboard interrupt.  On the login screen a key only edits  *)
(* the login form: wm_verify_login accepts nothing (vfs_read returns the   *)
(* number of bytes read, and it treats every non-zero result as failure),  *)
(* so the desktop is not entered again from there.                         *)

PlainKey(key, typed) ==
  /\ screen = "DESKTOP"
  /\ \E r \in Dispatch(desktop, handle, key, typed) : Become(r.state)
  /\ UNCHANGED <<dragged_window, screen>>

(* Win+T, E, N, C, K, I, B, R *)
OpenShortcut(what) ==
  /\ screen = "DESKTOP"
  /\ \E s \in Open(desktop, handle, what) : Become(s)
  /\ UNCHANGED <<dragged_window, screen>>

(* Ctrl+Alt+T opens a terminal and passes the key on. *)
CtrlAltT ==
  /\ screen = "DESKTOP"
  /\ \E s \in Open(desktop, handle, Terminal) :
       \E r \in Dispatch(s.desktop, s.handle, "other", Terminal) : Become(r.state)
  /\ UNCHANGED <<dragged_window, screen>>

(* Win+D *)
ShowDesktop ==
  /\ screen = "DESKTOP"
  /\ desktop' = [desktop EXCEPT
       !.minimized = [w \in Win |-> w \in ToSet(desktop.windows) \/ @[w]]]
  /\ UNCHANGED <<handle, dragged_window, screen>>

(* Win+L *)
LockScreen ==
  /\ screen = "DESKTOP"
  /\ screen' = "LOGIN"
  /\ UNCHANGED <<desktop, handle, dragged_window>>

Keyboard ==
  \/ \E key \in Keys, typed \in Apps \cup {Terminal} : PlainKey(key, typed)
  \/ \E what \in Owners : OpenShortcut(what)
  \/ CtrlAltT \/ ShowDesktop \/ LockScreen

Next == Mouse \/ Keyboard

Spec == Init /\ [][Next]_vars

----------------------------------------------------------------------------
(* Properties. *)

Once(x, s) == Cardinality({i \in DOMAIN s : s[i] = x}) = 1

(* Whatever is opened, raised, closed or reopened, every window that was   *)
(* created and not destroyed stands exactly once in desktop->windows, so   *)
(* the taskbar lists it, and exactly once in the widget tree, so it is     *)
(* drawn and can be clicked; the fixed-size child array always has room    *)
(* for the append that follows a removal (wm.c:111-137, 1309-1312,         *)
(* 1330-1376).                                                             *)
NoWindowLost ==
  /\ ToSet(desktop.windows) = Live(desktop)
  /\ \A w \in Live(desktop) :
       Once(w, desktop.windows) /\ Once(w, desktop.children)

(* At most one window in the tree takes keys, and it is the one            *)
(* focused_window names: flag and pointer are written in five places that  *)
(* each update only part of them (wm.c:910-914, 1346-1370).                *)
OneKeyTarget ==
  \A w \in InTree : desktop.focused[w] => w = desktop.focused_window

(* A live window that is not drawn is marked minimized: otherwise no       *)
(* click or key could ever make it visible again, because both the         *)
(* taskbar and wm_focus_window test minimized, never visible.              *)
HiddenIsRestorable ==
  \A w \in Live(desktop) : ~desktop.visible[w] => desktop.minimized[w]

(* The tree leads to freed memory in one situation only: an application    *)
(* that was closed by its title-bar button is opened again through the     *)
(* pointer it kept.                                                        *)
FreedOnlyByHandle ==
  \A w \in InTree \cap desktop.freed : \E a \in Apps : handle[a] = w

(* wm.c:1335 says of wm_destroy_window "Remove from widget tree": a        *)
(* destroyed window is not in the tree.                                    *)
DestroyedLeavesTree == InTree \cap desktop.freed = {}

(* wm.c:1661 "Dispatch key event to widget tree (focused window)": while   *)
(* a visible window is focused_window, keys reach it.                      *)
FocusedGetsKeys ==
  LET w == desktop.focused_window
  IN  screen = "DESKTOP" /\ w # None /\ desktop.visible[w]
        => \E i \in DOMAIN desktop.children :
             desktop.children[i] = w /\ KeyTarget(desktop, i)

(* wm.c:203 "Key events: dispatch to focused widget": one widget per key. *)
KeyHandledOnce ==
  \A key \in Keys, typed \in Apps \cup {Terminal} :
    \A r \in Dispatch(desktop, handle, key, typed) : Len(r.reached) <= 1
=============================================================================
