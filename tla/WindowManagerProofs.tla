------------------------ MODULE WindowManagerProofs ------------------------
(***************************************************************************)
(* Proofs about the window manager.  First WindowManager, for any number   *)
(* of windows, applications and addresses and any sizes of the two arrays  *)
(* that SizesAssumption allows.  Then WidgetTree, for any number of        *)
(* windows: the children of the desktop, which wm_task changes with        *)
(* interrupts enabled.                                                     *)
(***************************************************************************)
EXTENDS WindowManager, WidgetTree, SequenceLemmas

(* The inductive invariant.  It is stated of any desktop structure d and   *)
(* handles h, as a handler composes several operations on them.            *)
TreeOf(d) == ToSet(d.children) \ {Menu}

Desk ==
  [windows : Seq(Win), children : Seq(Win \cup {Menu}), focused_window : Win \cup {None},
   focused : [Win -> BOOLEAN], visible : [Win -> BOOLEAN], minimized : [Win -> BOOLEAN],
   owner : [Win -> Owners \cup {None}], freed : SUBSET Win, menu : BOOLEAN]

(* The live windows are listed once, and the tree has them and the menu.   *)
Lists(d) ==
  /\ IsInjective(d.windows) /\ IsInjective(d.children)
  /\ ToSet(d.windows) = Live(d) /\ Len(d.windows) <= MaxWindows
  /\ Live(d) \cup {Menu} \subseteq ToSet(d.children)

(* What the tree shows was created; an application's window in it is the   *)
(* one the application keeps, and no other window is shown after its end.  *)
Owned(d, h) ==
  \A w \in TreeOf(d) :
    /\ d.owner[w] # None
    /\ w \in d.freed => d.owner[w] \in Apps
    /\ d.owner[w] \in Apps => h[d.owner[w]] = w

(* An application keeps nobody else's window. *)
Handles(d, h) ==
  /\ h \in [Apps -> Win \cup {None}]
  /\ \A a \in Apps : h[a] # None => d.owner[h[a]] = a

FreshIsBlank(d) == \A w \in Fresh(d) : w \notin d.freed /\ ~d.focused[w]

OneTarget(d) == \A w \in TreeOf(d) : d.focused[w] => w = d.focused_window

Restorable(d) == \A w \in Live(d) : ~d.visible[w] => d.minimized[w]

Good(d, h) ==
  /\ d \in Desk /\ Lists(d) /\ Owned(d, h) /\ Handles(d, h)
  /\ FreshIsBlank(d) /\ OneTarget(d) /\ Restorable(d)

WmInv == Good(desktop, handle)

----------------------------------------------------------------------------
(* The child array has room: what stands in it is the menu, listed, or     *)
(* kept by an application.                                                 *)
Kept(h) == {h[a] : a \in Apps}
Shown(d, h) == {Menu} \cup ToSet(d.windows) \cup Kept(h)

LEMMA ShownBound ==
  ASSUME NEW d, NEW h, Good(d, h)
  PROVE  /\ IsFiniteSet(Shown(d, h))
         /\ Cardinality(Shown(d, h)) <= 1 + Len(d.windows) + Cardinality(Apps)
<1> DEFINE ws == d.windows
           I == 1 .. Len(ws)
           W == ToSet(ws)
           K == Kept(h)
<1>1. Len(ws) \in Nat /\ DOMAIN ws = I /\ ws \in Seq(Win)
  BY DEF Good, Desk
<1>2. IsFiniteSet(I) /\ Cardinality(I) = Len(ws)
  BY <1>1, FS_Interval
<1>3. ws \in Surjection(I, W)
  BY <1>1 DEF Surjection, ToSet
<1>4. h \in Surjection(Apps, K)
  BY DEF Good, Handles, Surjection, Kept
<1> HIDE DEF I, W, K
<1>5. IsFiniteSet(W) /\ Cardinality(W) <= Len(ws)
  BY <1>2, <1>3, FS_Surjection
<1>6. IsFiniteSet(K) /\ Cardinality(K) <= Cardinality(Apps)
  BY <1>4, FS_Surjection, NamesAssumption
<1>7. IsFiniteSet({Menu}) /\ Cardinality({Menu}) = 1
  BY FS_Singleton
<1> DEFINE A == {Menu} \cup W
           B == A \cup K
<1>8. IsFiniteSet(A) /\ Cardinality(A) = 1 + Cardinality(W) - Cardinality({Menu} \cap W)
  BY <1>5, <1>7, FS_Union
<1>9. IsFiniteSet({Menu} \cap W)
  BY <1>5, FS_Intersection
<1> HIDE DEF A
<1>10. IsFiniteSet(B) /\ Cardinality(B) = Cardinality(A) + Cardinality(K) - Cardinality(A \cap K)
  BY <1>6, <1>8, FS_Union
<1>11. IsFiniteSet(A \cap K)
  BY <1>6, <1>8, FS_Intersection
<1>12. /\ Cardinality(W) \in Nat /\ Cardinality(K) \in Nat /\ Cardinality(Apps) \in Nat
       /\ Cardinality(A) \in Nat
       /\ Cardinality({Menu} \cap W) \in Nat /\ Cardinality(A \cap K) \in Nat
  BY <1>5, <1>6, <1>8, <1>9, <1>11, FS_CardinalityType, NamesAssumption
<1>13. Cardinality(A) <= 1 + Len(ws)
  BY <1>1, <1>5, <1>8, <1>12
<1>14. Cardinality(B) <= 1 + Len(ws) + Cardinality(Apps)
  BY <1>1, <1>6, <1>10, <1>12, <1>13
<1> QED BY <1>10, <1>14 DEF Shown, A, W, K

(* So a sequence of such widgets fits into it, with what they leave.       *)
LEMMA TreeSize ==
  ASSUME NEW d, NEW h, Good(d, h),
         NEW t \in Seq(Win \cup {Menu}), IsInjective(t), ToSet(t) \subseteq Shown(d, h)
  PROVE  /\ Len(t) \in Nat /\ Len(t) <= 1 + Len(d.windows) + Cardinality(Apps)
         /\ FixedChildren + Len(t) <= MaxChildren
         /\ Len(d.windows) < MaxWindows => FixedChildren + Len(t) < MaxChildren
<1>1. Len(t) <= Cardinality(Shown(d, h))
  BY ShownBound, InjectiveFits
<1>2. Len(t) \in Nat /\ Len(d.windows) \in Nat /\ Len(d.windows) <= MaxWindows
  BY DEF Good, Desk, Lists
<1>3. Cardinality(Shown(d, h)) \in Nat /\ Cardinality(Apps) \in Nat
  BY ShownBound, FS_CardinalityType, NamesAssumption
<1>4. Len(t) <= 1 + Len(d.windows) + Cardinality(Apps)
  BY <1>1, <1>2, <1>3, ShownBound
<1>5. /\ FixedChildren \in Nat /\ MaxChildren \in Nat /\ MaxWindows \in Nat
      /\ FixedChildren + 1 + MaxWindows + Cardinality(Apps) <= MaxChildren
  BY SizesAssumption
<1> QED BY <1>2, <1>3, <1>4, <1>5

LEMMA TreeIsShown ==
  ASSUME NEW d, NEW h, Good(d, h)
  PROVE  ToSet(d.children) \subseteq Shown(d, h)
<1> SUFFICES ASSUME NEW w \in TreeOf(d) PROVE w \in ToSet(d.windows) \cup Kept(h)
  BY DEF TreeOf, Shown
<1>1. w \in Win
  BY DEF TreeOf, Good, Desk, ToSet
<1>2. CASE w \in d.freed
  BY <1>2 DEF Good, Owned, Kept
<1>3. CASE w \notin d.freed
  BY <1>1, <1>3 DEF Good, Owned, Lists, Live
<1> QED BY <1>2, <1>3

----------------------------------------------------------------------------
(* Each operation keeps the invariant. *)

(* Raising a widget that is shown, or an application's focused window.     *)
LEMMA RaiseGood ==
  ASSUME NEW d, NEW h, Good(d, h), NEW w,
         w \in ToSet(d.children) \/ (w \in Kept(h) /\ w \in Win /\ w = d.focused_window)
  PROVE  /\ Good(Raise(d, w), h)
         /\ w \in ToSet(Raise(d, w).children) /\ Raise(d, w).owner = d.owner
<1> DEFINE S == Win \cup {Menu}
           r == RemoveFirst(d.children, w)
           u == Append(r, w)
           e == [d EXCEPT !.children = u]
<1>1. d \in Desk /\ d.children \in Seq(S) /\ IsInjective(d.children) /\ w \in S
  BY DEF Good, Desk, Lists, ToSet
<1>2. /\ r \in Seq(S) /\ IsInjective(r)
      /\ ToSet(r) = ToSet(d.children) \ {w}
  BY <1>1, InjectiveRemove
<1> HIDE DEF r
<1>3. /\ u \in Seq(S) /\ IsInjective(u) /\ ToSet(u) = ToSet(d.children) \cup {w}
      /\ Len(u) = Len(r) + 1
  BY <1>1, <1>2, InjectiveAppend
<1> HIDE DEF u
<1>4. w \in Shown(d, h)
  BY TreeIsShown DEF Shown
<1>5. FixedChildren + Len(r) < MaxChildren
  <2>1. ToSet(u) \subseteq Shown(d, h)
    BY <1>3, <1>4, TreeIsShown
  <2>2. Len(u) \in Nat /\ FixedChildren + Len(u) <= MaxChildren
    BY <1>3, <2>1, TreeSize
  <2>3. Len(r) \in Nat /\ FixedChildren \in Nat /\ MaxChildren \in Nat
    BY <1>2, SizesAssumption
  <2> QED BY <1>3, <2>2, <2>3
<1>6. Raise(d, w) = e
  <2>1. ~(FixedChildren + Len(r) >= MaxChildren)
    BY <1>2, <1>5, SizesAssumption
  <2> DEFINE f == wm_widget_remove_child(d, w)
  <2>2. f.children = r
    BY <1>1 DEF wm_widget_remove_child, r, Desk
  <2>3. [f EXCEPT !.children = Append(@, w)] = e
    BY <1>1, <2>2 DEF wm_widget_remove_child, Desk, u
  <2> HIDE DEF f
  <2>4. wm_widget_add_child(f, w) = e
    BY <2>1, <2>2, <2>3 DEF wm_widget_add_child
  <2> QED BY <2>4 DEF Raise, f
<1>7. /\ e \in Desk /\ e.children = u /\ e.windows = d.windows /\ e.owner = d.owner
      /\ e.freed = d.freed /\ e.focused = d.focused /\ e.focused_window = d.focused_window
      /\ e.visible = d.visible /\ e.minimized = d.minimized
  BY <1>1, <1>3 DEF Desk
<1> HIDE DEF e
<1>8. Live(e) = Live(d) /\ Fresh(e) = Fresh(d) /\ TreeOf(e) = TreeOf(d) \cup ({w} \ {Menu})
  BY <1>3, <1>7 DEF Live, Fresh, TreeOf
<1>9. Lists(e)
  BY <1>3, <1>7, <1>8 DEF Good, Lists
<1>10. Handles(e, h) /\ FreshIsBlank(e) /\ Restorable(e)
  BY <1>7, <1>8 DEF Good, Handles, FreshIsBlank, Restorable
<1>11. OneTarget(e)
  BY <1>7, <1>8 DEF Good, OneTarget, TreeOf
<1>12. Owned(e, h)
  <2>1. ASSUME w \notin TreeOf(d), w # Menu
        PROVE  /\ d.owner[w] # None
               /\ d.owner[w] \in Apps => h[d.owner[w]] = w
               /\ d.owner[w] \in Apps
    <3>1. PICK a \in Apps : h[a] = w /\ w \in Win
      BY <2>1 DEF TreeOf, Kept
    <3>2. d.owner[w] = a /\ a # None
      BY <3>1, NamesAssumption DEF Good, Handles, Owners
    <3> QED BY <3>1, <3>2
  <2> QED BY <1>7, <1>8, <2>1 DEF Good, Owned
<1> QED BY <1>3, <1>6, <1>7, <1>9, <1>10, <1>11, <1>12 DEF Good

(* Two desktops that differ in flags alone. *)
SameLists(d, e) ==
  /\ e.windows = d.windows /\ e.children = d.children
  /\ e.owner = d.owner /\ e.freed = d.freed

LEMMA FlagsGood ==
  ASSUME NEW d, NEW h, Good(d, h), NEW e, e \in Desk, SameLists(d, e),
         FreshIsBlank(e), OneTarget(e), Restorable(e)
  PROVE  Good(e, h)
<1>1. Live(e) = Live(d) /\ TreeOf(e) = TreeOf(d)
  BY DEF SameLists, Live, TreeOf
<1>2. Lists(e)
  BY <1>1 DEF SameLists, Good, Lists
<1>3. Owned(e, h) /\ Handles(e, h)
  BY <1>1 DEF SameLists, Good, Owned, Handles
<1> QED BY <1>2, <1>3 DEF Good

LEMMA RestoreGood ==
  ASSUME NEW d, NEW h, Good(d, h), NEW w \in Win
  PROVE  Good(Restore(d, w), h) /\ SameLists(d, Restore(d, w))
<1> DEFINE e == [d EXCEPT !.minimized[w] = FALSE, !.visible[w] = TRUE]
<1>1. d \in Desk
  BY DEF Good
<1>2. /\ e \in Desk /\ SameLists(d, e)
      /\ e.focused = d.focused /\ e.focused_window = d.focused_window
      /\ e.visible = [d.visible EXCEPT ![w] = TRUE]
      /\ e.minimized = [d.minimized EXCEPT ![w] = FALSE]
  BY <1>1 DEF Desk, SameLists
<1> HIDE DEF e
<1>3. FreshIsBlank(e) /\ OneTarget(e)
  BY <1>2 DEF Good, FreshIsBlank, OneTarget, SameLists, Fresh, TreeOf
<1>4. Restorable(e)
  BY <1>1, <1>2 DEF Good, Restorable, SameLists, Live, Desk
<1>5. Good(e, h)
  BY <1>2, <1>3, <1>4, FlagsGood
<1> QED BY <1>2, <1>5 DEF Restore, SameLists, e

LEMMA SetFocusGood ==
  ASSUME NEW d, NEW h, Good(d, h), NEW w \in Win, d.owner[w] # None
  PROVE  Good(SetFocus(d, w), h) /\ SameLists(d, SetFocus(d, w))
         /\ SetFocus(d, w).focused_window = w
<1> DEFINE e == SetFocus(d, w)
<1>1. d \in Desk
  BY DEF Good
<1>2. /\ e \in Desk /\ SameLists(d, e) /\ e.focused_window = w
      /\ e.visible = d.visible /\ e.minimized = d.minimized
      /\ \A x \in Win : e.focused[x] <=> x = w \/ (d.focused[x] /\ x # d.focused_window)
  BY <1>1 DEF Desk, SameLists, SetFocus
<1> HIDE DEF e
<1>3. FreshIsBlank(e)
  BY <1>2 DEF Good, FreshIsBlank, SameLists, Fresh
<1>4. OneTarget(e)
  <2>1. TreeOf(e) = TreeOf(d) /\ TreeOf(d) \subseteq Win
    BY <1>1, <1>2 DEF SameLists, TreeOf, Desk, ToSet
  <2> QED BY <1>2, <2>1 DEF Good, OneTarget
<1>5. Restorable(e)
  BY <1>2 DEF Good, Restorable, SameLists, Live
<1>6. Good(e, h)
  BY <1>2, <1>3, <1>4, <1>5, FlagsGood
<1> QED BY <1>2, <1>6 DEF e

(* Focusing a window that is shown, or kept by an application. *)
LEMMA FocusGood ==
  ASSUME NEW d, NEW h, Good(d, h), NEW w \in TreeOf(d) \cup (Kept(h) \ {None})
  PROVE  /\ Good(wm_focus_window(d, w), h)
         /\ w \in TreeOf(wm_focus_window(d, w)) /\ w \in Win
         /\ wm_focus_window(d, w).owner = d.owner
<1> DEFINE e == Restore(d, w)
           f == SetFocus(e, w)
<1>1. w \in Win /\ d.owner[w] # None
  <2>1. CASE w \in TreeOf(d)
    BY <2>1 DEF Good, Owned, TreeOf, Desk, ToSet
  <2>2. CASE w \in Kept(h) /\ w # None
    BY <2>2, NamesAssumption DEF Good, Handles, Kept, Owners
  <2> QED BY <2>1, <2>2
<1>2. Good(e, h) /\ SameLists(d, e) /\ e.owner[w] # None
  BY <1>1, RestoreGood DEF SameLists
<1> HIDE DEF e
<1>3. Good(f, h) /\ SameLists(e, f) /\ f.focused_window = w
  BY <1>1, <1>2, SetFocusGood
<1> HIDE DEF f
<1>4. w \in ToSet(f.children) \/ (w \in Kept(h) /\ w \in Win /\ w = f.focused_window)
  BY <1>1, <1>2, <1>3 DEF SameLists, TreeOf
<1>5. /\ Good(Raise(f, w), h) /\ w \in ToSet(Raise(f, w).children)
      /\ Raise(f, w).owner = d.owner
  BY <1>2, <1>3, <1>4, RaiseGood DEF SameLists
<1> QED BY <1>1, <1>5, NamesAssumption DEF wm_focus_window, TreeOf, e, f

(* Showing the context menu. *)
LEMMA ShowMenuGood ==
  ASSUME NEW d, NEW h, Good(d, h), NEW b \in BOOLEAN
  PROVE  Good([d EXCEPT !.menu = b], h) /\ Good(wm_show_context_menu(d), h)
<1>1. ASSUME NEW c \in BOOLEAN PROVE Good([d EXCEPT !.menu = c], h)
  <2> DEFINE e == [d EXCEPT !.menu = c]
  <2>1. /\ d \in Desk /\ e \in Desk /\ SameLists(d, e) /\ e.focused_window = d.focused_window
        /\ e.visible = d.visible /\ e.minimized = d.minimized /\ e.focused = d.focused
    BY DEF Good, Desk, SameLists
  <2> HIDE DEF e
  <2>2. FreshIsBlank(e) /\ OneTarget(e) /\ Restorable(e)
    BY <2>1 DEF Good, FreshIsBlank, OneTarget, Restorable, SameLists, Fresh, TreeOf, Live
  <2>3. Good(e, h)
    BY <2>1, <2>2, FlagsGood
  <2> QED BY <2>3 DEF e
<1>2. Good(wm_show_context_menu(d), h)
  <2> DEFINE e == [d EXCEPT !.menu = TRUE]
  <2>1. Good(e, h)
    BY <1>1
  <2>2. Menu \in ToSet(e.children)
    BY DEF Good, Lists, Desk
  <2> HIDE DEF e
  <2>3. Good(Raise(e, Menu), h)
    BY <2>1, <2>2, RaiseGood
  <2> QED BY <2>3 DEF wm_show_context_menu, e
<1> QED BY <1>1, <1>2

(* Hiding a window marks it minimized; the tab also takes its flag.        *)
LEMMA MinimizeGood ==
  ASSUME NEW d, NEW h, Good(d, h), NEW w \in Win
  PROVE  /\ Good(Minimize(d, w), h)
         /\ Good([Minimize(d, w) EXCEPT !.focused[w] = FALSE], h)
<1> DEFINE e == Minimize(d, w)
           f == [e EXCEPT !.focused[w] = FALSE]
<1>1. d \in Desk
  BY DEF Good
<1>2. /\ e \in Desk /\ SameLists(d, e) /\ e.focused_window = d.focused_window
      /\ e.focused = d.focused
      /\ e.visible = [d.visible EXCEPT ![w] = FALSE]
      /\ e.minimized = [d.minimized EXCEPT ![w] = TRUE]
  BY <1>1 DEF Desk, SameLists, Minimize
<1> HIDE DEF e
<1>3. /\ f \in Desk /\ SameLists(e, f) /\ f.focused_window = e.focused_window
      /\ f.visible = e.visible /\ f.minimized = e.minimized
      /\ f.focused = [e.focused EXCEPT ![w] = FALSE]
  BY <1>2 DEF Desk, SameLists
<1> HIDE DEF f
<1>4. FreshIsBlank(e) /\ OneTarget(e)
  BY <1>2 DEF Good, FreshIsBlank, OneTarget, SameLists, Fresh, TreeOf
<1>5. Restorable(e)
  BY <1>1, <1>2 DEF Good, Restorable, SameLists, Live, Desk
<1>6. Good(e, h)
  BY <1>2, <1>4, <1>5, FlagsGood
<1>7. \A x \in Win : f.focused[x] => e.focused[x]
  BY <1>2, <1>3 DEF Desk
<1>8. FreshIsBlank(f) /\ OneTarget(f) /\ Restorable(f)
  <2>1. TreeOf(f) = TreeOf(e) /\ TreeOf(e) \subseteq Win /\ Fresh(f) = Fresh(e) /\ Fresh(e) \subseteq Win
        /\ Live(f) = Live(e) /\ f.freed = e.freed
    BY <1>2, <1>3 DEF SameLists, TreeOf, Desk, ToSet, Fresh, Live
  <2> QED BY <1>3, <1>4, <1>5, <1>7, <2>1 DEF FreshIsBlank, OneTarget, Restorable
<1>9. Good(f, h)
  BY <1>3, <1>6, <1>8, FlagsGood
<1> QED BY <1>6, <1>9 DEF e, f

(* A new window enters both lists, and its application's pointer.          *)
Keeping(h, o, w) == IF o \in Apps THEN [h EXCEPT ![o] = w] ELSE h

LEMMA CreateGood ==
  ASSUME NEW d, NEW h, Good(d, h), NEW w \in Fresh(d), NEW o \in Owners,
         Len(d.windows) < MaxWindows, o \in Apps => h[o] = None
  PROVE  /\ Good(wm_create_window(d, w, o), Keeping(h, o, w))
         /\ wm_create_window(d, w, o).owner = [d.owner EXCEPT ![w] = o]
<1> DEFINE S == Win \cup {Menu}
           g == Keeping(h, o, w)
           ws == Append(d.windows, w)
           cs == Append(d.children, w)
           made == [d EXCEPT !.owner[w] = o, !.visible[w] = TRUE, !.windows = Append(@, w)]
           e == [made EXCEPT !.children = cs]
<1>1. d \in Desk /\ w \in Win /\ d.owner[w] = None /\ w # Menu /\ o # None /\ o \in Owners
  BY NamesAssumption DEF Good, Fresh
<1>2. w \notin d.freed /\ ~d.focused[w] /\ w \notin ToSet(d.windows) /\ w \notin ToSet(d.children)
  BY <1>1 DEF Good, FreshIsBlank, Lists, Live, Owned, TreeOf
<1>3. /\ d.windows \in Seq(Win) /\ d.children \in Seq(S)
      /\ IsInjective(d.windows) /\ IsInjective(d.children) /\ w \in S
      /\ ToSet(d.windows) = Live(d) /\ Live(d) \cup {Menu} \subseteq ToSet(d.children)
  BY <1>1 DEF Good, Lists, Desk
<1>4. /\ ws \in Seq(Win) /\ IsInjective(ws) /\ ToSet(ws) = ToSet(d.windows) \cup {w}
      /\ Len(ws) = Len(d.windows) + 1
  BY <1>1, <1>2, <1>3, InjectiveAppend
<1>5. cs \in Seq(S) /\ IsInjective(cs) /\ ToSet(cs) = ToSet(d.children) \cup {w}
  BY <1>2, <1>3, InjectiveAppend
<1>6. ~(FixedChildren + Len(d.children) >= MaxChildren)
  <2>1. FixedChildren + Len(d.children) < MaxChildren /\ Len(d.children) \in Nat
    BY <1>3, TreeIsShown, TreeSize
  <2> QED BY <2>1, SizesAssumption
<1> HIDE DEF ws, cs
<1>7. /\ made \in Desk /\ made.children = d.children /\ made.windows = ws
      /\ made.owner = [d.owner EXCEPT ![w] = o] /\ made.visible = [d.visible EXCEPT ![w] = TRUE]
      /\ made.freed = d.freed /\ made.focused = d.focused
      /\ made.focused_window = d.focused_window /\ made.minimized = d.minimized
  BY <1>1, <1>4 DEF Desk, ws
<1> HIDE DEF made
<1>8. /\ e \in Desk /\ e.children = cs /\ e.windows = ws
      /\ e.owner = [d.owner EXCEPT ![w] = o] /\ e.visible = [d.visible EXCEPT ![w] = TRUE]
      /\ e.freed = d.freed /\ e.focused = d.focused
      /\ e.focused_window = d.focused_window /\ e.minimized = d.minimized
  BY <1>5, <1>7 DEF Desk
<1>9. wm_widget_add_child(made, w) = e
  BY <1>6, <1>7 DEF wm_widget_add_child, Desk, cs
<1> HIDE DEF e
<1>10. /\ e.owner[w] = o /\ \A x \in Win : x # w => e.owner[x] = d.owner[x]
       /\ Live(e) = Live(d) \cup {w} /\ Fresh(e) = Fresh(d) \ {w} /\ TreeOf(e) = TreeOf(d) \cup {w}
  BY <1>1, <1>2, <1>5, <1>8 DEF Live, Fresh, TreeOf, Desk
<1>11. Lists(e)
  <2>1. Len(ws) <= MaxWindows
    BY <1>3, <1>4, SizesAssumption
  <2> QED BY <1>3, <1>4, <1>5, <1>8, <1>10, <2>1 DEF Lists
<1>12. /\ g \in [Apps -> Win \cup {None}]
       /\ o \in Apps => g[o] = w
       /\ \A a \in Apps : a # o => g[a] = h[a]
  BY <1>1 DEF Keeping, Good, Handles
<1> HIDE DEF g
<1>13. Handles(e, g)
  <2> SUFFICES ASSUME NEW a \in Apps, g[a] # None PROVE e.owner[g[a]] = a
    BY <1>12 DEF Handles
  <2>1. CASE a = o
    BY <1>10, <1>12, <2>1
  <2>2. CASE a # o
    <3>1. g[a] = h[a] /\ h[a] \in Win /\ d.owner[h[a]] = a /\ a # None
      BY <1>12, <2>2, NamesAssumption DEF Good, Handles, Owners
    <3> QED BY <1>1, <1>10, <3>1
  <2> QED BY <2>1, <2>2
<1>14. Owned(e, g)
  <2> SUFFICES ASSUME NEW x \in TreeOf(e)
               PROVE  /\ e.owner[x] # None
                      /\ x \in e.freed => e.owner[x] \in Apps
                      /\ e.owner[x] \in Apps => g[e.owner[x]] = x
    BY DEF Owned
  <2>1. CASE x = w
    BY <1>1, <1>2, <1>8, <1>10, <1>12, <2>1
  <2>2. CASE x # w
    <3>0. x \in TreeOf(d) /\ x \in Win
      BY <1>3, <1>10, <2>2, SMTT(30) DEF TreeOf, ToSet
    <3>1. x \in TreeOf(d) /\ x \in Win /\ e.owner[x] = d.owner[x]
      BY <1>10, <2>2, <3>0
    <3>2. /\ d.owner[x] # None
          /\ x \in d.freed => d.owner[x] \in Apps
          /\ d.owner[x] \in Apps => h[d.owner[x]] = x
      BY <3>1 DEF Good, Owned
    <3>3. d.owner[x] \in Apps => d.owner[x] # o
      BY <3>1, <3>2, NamesAssumption
    <3> QED BY <1>8, <1>12, <3>1, <3>2, <3>3
  <2> QED BY <2>1, <2>2
<1>15. FreshIsBlank(e) /\ OneTarget(e)
  BY <1>2, <1>8, <1>10 DEF Good, FreshIsBlank, OneTarget
<1>16. Restorable(e)
  BY <1>1, <1>8, <1>10 DEF Good, Restorable, Desk, Live
<1>17. Good(e, g)
  BY <1>8, <1>11, <1>13, <1>14, <1>15, <1>16 DEF Good
<1>18. Good(wm_focus_window(e, w), g) /\ wm_focus_window(e, w).owner = e.owner
  BY <1>10, <1>17, FocusGood
<1> QED BY <1>8, <1>9, <1>18 DEF wm_create_window, made, g

(* Destroying a window takes it out of both lists. *)
LEMMA DestroyGood ==
  ASSUME NEW d, NEW h, Good(d, h), NEW w \in Win, d.owner[w] # None
  PROVE  /\ Good(wm_destroy_window(d, w), h)
         /\ TreeOf(wm_destroy_window(d, w)) = TreeOf(d) \ {w}
         /\ wm_destroy_window(d, w).owner = d.owner
<1> DEFINE S == Win \cup {Menu}
           rest == RemoveFirst(d.windows, w)
           cs == RemoveFirst(d.children, w)
           next == IF d.focused_window # w THEN d.focused_window
                   ELSE IF rest = <<>> THEN None ELSE Last(rest)
           e == wm_destroy_window(d, w)
<1>1. /\ d \in Desk /\ w # Menu
      /\ d.windows \in Seq(Win) /\ d.children \in Seq(S)
      /\ IsInjective(d.windows) /\ IsInjective(d.children)
      /\ ToSet(d.windows) = Live(d) /\ Live(d) \cup {Menu} \subseteq ToSet(d.children)
      /\ Len(d.windows) <= MaxWindows
  BY NamesAssumption DEF Good, Lists, Desk
<1>2. /\ rest \in Seq(Win) /\ IsInjective(rest) /\ ToSet(rest) = ToSet(d.windows) \ {w}
      /\ Len(rest) <= Len(d.windows)
  BY <1>1, InjectiveRemove
<1>3. cs \in Seq(S) /\ IsInjective(cs) /\ ToSet(cs) = ToSet(d.children) \ {w}
  BY <1>1, InjectiveRemove
<1> HIDE DEF rest, cs
<1>4. rest # <<>> => Last(rest) \in Win
  BY <1>2 DEF Last
<1>5. next \in Win \cup {None} /\ (d.focused_window # w => next = d.focused_window)
  BY <1>1, <1>4 DEF Desk
<1>6. wm_widget_remove_child(d, w) = [d EXCEPT !.children = cs]
  BY DEF wm_widget_remove_child, cs
<1>7. e = [d EXCEPT !.children = cs, !.windows = rest, !.focused_window = next,
                    !.freed = d.freed \cup {w}]
  BY <1>1, <1>6 DEF wm_destroy_window, rest, Desk
<1> HIDE DEF next, e
<1>8. /\ e \in Desk /\ e.children = cs /\ e.windows = rest /\ e.focused_window = next
      /\ e.freed = d.freed \cup {w} /\ e.owner = d.owner /\ e.focused = d.focused
      /\ e.visible = d.visible /\ e.minimized = d.minimized
  BY <1>1, <1>2, <1>3, <1>5, <1>7 DEF Desk
<1>9. Live(e) = Live(d) \ {w} /\ Fresh(e) = Fresh(d) /\ TreeOf(e) = TreeOf(d) \ {w}
      /\ w \notin Fresh(d)
  BY <1>3, <1>8 DEF Live, Fresh, TreeOf
<1>10. Lists(e)
  <2>1. Len(rest) <= MaxWindows
    BY <1>1, <1>2, SizesAssumption
  <2> QED BY <1>1, <1>2, <1>3, <1>8, <1>9, <2>1 DEF Lists
<1>11. Handles(e, h) /\ FreshIsBlank(e) /\ Restorable(e)
  BY <1>8, <1>9 DEF Good, Handles, FreshIsBlank, Restorable
<1>12. Owned(e, h)
  BY <1>8, <1>9 DEF Good, Owned
<1>13. OneTarget(e)
  BY <1>5, <1>8, <1>9 DEF Good, OneTarget
<1> QED BY <1>8, <1>9, <1>10, <1>11, <1>12, <1>13 DEF Good, e

(* An application forgets a window that is no longer shown. *)
LEMMA ForgetGood ==
  ASSUME NEW d, NEW h, Good(d, h), NEW a \in Apps, h[a] \notin TreeOf(d)
  PROVE  Good(d, [h EXCEPT ![a] = None])
<1> DEFINE g == [h EXCEPT ![a] = None]
<1>1. g \in [Apps -> Win \cup {None}] /\ g[a] = None /\ \A b \in Apps : b # a => g[b] = h[b]
  BY DEF Good, Handles
<1> HIDE DEF g
<1>2. Handles(d, g)
  BY <1>1 DEF Good, Handles
<1>3. Owned(d, g)
  <2> SUFFICES ASSUME NEW x \in TreeOf(d), d.owner[x] \in Apps PROVE d.owner[x] # a
    BY <1>1 DEF Good, Owned
  <2> QED BY DEF Good, Owned
<1> QED BY <1>2, <1>3 DEF Good, g

----------------------------------------------------------------------------
(* Opening: whatever is opened, and at whatever address, the invariant     *)
(* holds and what was created keeps its owner.                             *)
StillOwned(d, e) == \A x \in Win : d.owner[x] # None => e.owner[x] = d.owner[x]

LEMMA CreatedGood ==
  ASSUME NEW d, NEW h, Good(d, h), NEW o \in Owners, o \in Apps => h[o] = None,
         NEW c \in Created(d, o)
  PROVE  Good(c.desktop, Keeping(h, o, c.window)) /\ StillOwned(d, c.desktop)
<1>1. CASE Len(d.windows) >= MaxWindows
  <2>1. c = [desktop |-> d, window |-> None]
    BY <1>1 DEF Created
  <2>2. Keeping(h, o, None) = h
    BY DEF Keeping, Good, Handles
  <2> QED BY <2>1, <2>2 DEF StillOwned
<1>2. CASE ~(Len(d.windows) >= MaxWindows)
  <2>1. PICK w \in Fresh(d) : c = [desktop |-> wm_create_window(d, w, o), window |-> w]
    BY <1>2 DEF Created
  <2>2. Len(d.windows) < MaxWindows
    BY <1>2, SizesAssumption DEF Good, Desk
  <2>3. /\ Good(c.desktop, Keeping(h, o, c.window))
        /\ c.desktop.owner = [d.owner EXCEPT ![w] = o]
    BY <2>1, <2>2, CreateGood
  <2>4. d.owner[w] = None
    BY DEF Fresh
  <2> QED BY <2>3, <2>4 DEF StillOwned, Good, Desk
<1> QED BY <1>1, <1>2

LEMMA OpenGood ==
  ASSUME NEW d, NEW h, Good(d, h), NEW what \in Owners, NEW s \in Open(d, h, what)
  PROVE  Good(s.desktop, s.handle) /\ StillOwned(d, s.desktop)
<1>1. CASE what \in Apps /\ h[what] # None
  <2>1. s = State(wm_focus_window(d, h[what]), h)
    BY <1>1 DEF Open, OpenApp
  <2>2. h[what] \in Kept(h) \ {None}
    BY <1>1 DEF Kept
  <2>3. /\ Good(wm_focus_window(d, h[what]), h)
        /\ wm_focus_window(d, h[what]).owner = d.owner
    BY <2>2, FocusGood
  <2> QED BY <2>1, <2>3 DEF State, StillOwned
<1>2. CASE what \in Apps /\ h[what] = None
  <2>1. PICK c \in Created(d, what) : s = State(c.desktop, [h EXCEPT ![what] = c.window])
    BY <1>2 DEF Open, OpenApp
  <2>2. Good(c.desktop, Keeping(h, what, c.window)) /\ StillOwned(d, c.desktop)
    BY <1>2, CreatedGood
  <2> QED BY <1>2, <2>1, <2>2 DEF State, Keeping
<1>3. CASE what \notin Apps
  <2>1. PICK c \in Created(d, what) : s = State(c.desktop, h)
    BY <1>3 DEF Open, OpenNew
  <2>2. Good(c.desktop, Keeping(h, what, c.window)) /\ StillOwned(d, c.desktop)
    BY <1>3, CreatedGood
  <2> QED BY <1>3, <2>1, <2>2 DEF State, Keeping
<1> QED BY <1>1, <1>2, <1>3

----------------------------------------------------------------------------
(* Keys. *)
LEMMA HandleKeyGood ==
  ASSUME NEW s, Good(s.desktop, s.handle), NEW w \in TreeOf(s.desktop),
         NEW key, NEW typed \in Owners, NEW t \in HandleKey(s, w, key, typed)
  PROVE  Good(t.desktop, t.handle)
<1> DEFINE d == s.desktop
           h == s.handle
           a == d.owner[w]
<1>1. w \in Win /\ a # None /\ (a \in Apps => h[a] = w)
  <2>1. d \in Desk /\ Owned(d, h)
    BY DEF Good
  <2>2. w \in ToSet(d.children) /\ w # Menu
    BY DEF TreeOf
  <2>3. \A c \in ToSet(d.children) : c \in Win \cup {Menu}
    BY <2>1 DEF Desk, ToSet
  <2>4. w \in Win
    BY <2>2, <2>3
  <2>5. a # None /\ (a \in Apps => h[a] = w)
    BY <2>1 DEF Owned
  <2> QED BY <2>4, <2>5
<1>2. Run \notin Apps
  BY NamesAssumption
<1>3. CASE key = "close" /\ a \in Apps
  <2>1. t = State(wm_destroy_window(d, w), [h EXCEPT ![a] = None])
    BY <1>2, <1>3 DEF HandleKey
  <2> DEFINE e == wm_destroy_window(d, w)
  <2>2. Good(e, h) /\ TreeOf(e) = TreeOf(d) \ {w}
    BY <1>1, DestroyGood
  <2> HIDE DEF e, d, h, a
  <2>3. Good(e, [h EXCEPT ![a] = None])
    BY <1>1, <1>3, <2>2, ForgetGood
  <2> QED BY <2>1, <2>3 DEF State, e
<1>4. CASE key = "close" /\ a = Run /\ a \notin Apps
  <2>1. t = State(wm_destroy_window(d, w), h)
    BY <1>2, <1>4 DEF HandleKey
  <2>2. Good(wm_destroy_window(d, w), h)
    BY <1>1, DestroyGood
  <2> QED BY <2>1, <2>2 DEF State
<1>5. CASE key = "enter" /\ a = Run
  <2>1. PICK o \in Open(d, h, typed) : t = State(wm_destroy_window(o.desktop, w), o.handle)
    BY <1>2, <1>5 DEF HandleKey
  <2>2. Good(o.desktop, o.handle) /\ StillOwned(d, o.desktop)
    BY OpenGood
  <2>3. Good(wm_destroy_window(o.desktop, w), o.handle)
    BY <1>1, <2>2, DestroyGood DEF StillOwned
  <2> QED BY <2>1, <2>3 DEF State
<1>6. CASE t = s
  BY <1>6
<1> QED BY <1>2, <1>3, <1>4, <1>5, <1>6 DEF HandleKey

(* The walk stops at windows of the tree only. *)
LEMMA NextTargetIs ==
  ASSUME NEW d, d \in Desk, NEW i \in Nat \ {0}
  PROVE  /\ NextTarget(d, i) \in Nat
         /\ NextTarget(d, i) # 0 => d.children[NextTarget(d, i)] \in TreeOf(d)
<1> DEFINE T == {j \in i .. Len(d.children) : KeyTarget(d, j)}
<1>1. CASE T = {}
  BY <1>1 DEF NextTarget
<1>2. CASE T # {}
  <2>1. T \in SUBSET Nat /\ \A j \in T : d.children[j] \in TreeOf(d)
    BY DEF Desk, KeyTarget, TreeOf, ToSet
  <2>2. NextTarget(d, i) = CHOOSE j \in T : \A k \in T : j <= k
    BY <1>2 DEF NextTarget
  <2> HIDE DEF T
  <2>3. \E j \in T : \A k \in T : j <= k
    BY <1>2, <2>1, LeastElement
  <2>4. NextTarget(d, i) \in T
    BY <2>2, <2>3
  <2> QED BY <2>1, <2>4
<1> QED BY <1>1, <1>2

GoodWalk(r) == Good(r.state.desktop, r.state.handle) /\ r.index \in Nat \ {0}

LEMMA WalkGood ==
  ASSUME NEW r, GoodWalk(r), NEW key, NEW typed \in Owners, NEW q \in Walk(r, key, typed)
  PROVE  GoodWalk(q)
<1> DEFINE d == r.state.desktop
           j == NextTarget(d, r.index)
           w == d.children[j]
<1>1. j \in Nat /\ (j # 0 => w \in TreeOf(d))
  BY NextTargetIs DEF GoodWalk, Good
<1>2. CASE j = 0
  BY <1>2 DEF Walk
<1>3. CASE j # 0
  <2>1. PICK s \in HandleKey(r.state, w, key, typed) :
          q = [state |-> s, index |-> j + 1, reached |-> Append(r.reached, w)]
    BY <1>3 DEF Walk
  <2>2. w \in TreeOf(r.state.desktop)
    BY <1>1, <1>3
  <2> HIDE DEF w, j
  <2>3. Good(s.desktop, s.handle)
    BY <2>2, HandleKeyGood DEF GoodWalk
  <2>4. j + 1 \in Nat \ {0}
    BY <1>1
  <2> QED BY <2>1, <2>3, <2>4 DEF GoodWalk
<1> QED BY <1>2, <1>3

LEMMA DispatchGood ==
  ASSUME NEW d, NEW h, Good(d, h), NEW key, NEW typed \in Owners,
         NEW r \in Dispatch(d, h, key, typed)
  PROVE  Good(r.state.desktop, r.state.handle)
<1> DEFINE start == [state |-> State(d, h), index |-> 1, reached |-> <<>>]
<1>1. GoodWalk(start)
  BY DEF GoodWalk, State
<1>2. PICK q \in Walk(start, key, typed) : r \in Walk(q, key, typed)
  BY DEF Dispatch
<1> HIDE DEF start
<1>3. GoodWalk(q)
  BY <1>1, <1>2, WalkGood
<1>4. GoodWalk(r)
  BY <1>2, <1>3, WalkGood
<1> QED BY <1>4 DEF GoodWalk

----------------------------------------------------------------------------
(* Mouse. *)
LEMMA PressedGood ==
  ASSUME NEW d, NEW h, Good(d, h), NEW w \in TreeOf(d), NEW part
  PROVE  Good(Pressed(d, w, part), h)
<1> DEFINE f == wm_focus_window(d, w)
<1>1. Good(f, h) /\ w \in Win /\ f.owner = d.owner
  BY FocusGood
<1>2. d.owner[w] # None
  BY DEF Good, Owned
<1> HIDE DEF f
<1>3. Good(Minimize(f, w), h) /\ Good(wm_destroy_window(f, w), h)
  BY <1>1, <1>2, MinimizeGood, DestroyGood
<1> QED BY <1>1, <1>3 DEF Pressed, f

LEMMA PressWindowGood ==
  ASSUME WmInv, NEW w \in Win, NEW part, NEW right \in BOOLEAN, PressWindow(w, part, right)
  PROVE  WmInv'
<1> DEFINE d == Pressed(desktop, w, part)
<1>1. Good(d, handle)
  BY PressedGood DEF WmInv, PressWindow, InTree, TreeOf
<1>2. /\ desktop' = IF right THEN wm_show_context_menu(d) ELSE d
      /\ handle' = handle
  BY DEF PressWindow
<1> HIDE DEF d
<1>3. Good(wm_show_context_menu(d), handle)
  BY <1>1, ShowMenuGood
<1> QED BY <1>1, <1>2, <1>3 DEF WmInv

LEMMA PressMenuGood ==
  ASSUME WmInv, PressMenu
  PROVE  WmInv'
<1>1. CASE \E s \in Open(desktop, handle, Terminal) : Become([s EXCEPT !.desktop.menu = FALSE])
  <2>1. PICK s \in Open(desktop, handle, Terminal) : Become([s EXCEPT !.desktop.menu = FALSE])
    BY <1>1
  <2>2. Good(s.desktop, s.handle)
    BY OpenGood DEF WmInv, Owners
  <2>3. Good([s.desktop EXCEPT !.menu = FALSE], s.handle)
    BY <2>2, ShowMenuGood
  <2>4. \E d, h : s = [desktop |-> d, handle |-> h]
    BY DEF Open, OpenApp, OpenNew, State
  <2>5. desktop' = [s.desktop EXCEPT !.menu = FALSE] /\ handle' = s.handle
    BY <2>1, <2>4 DEF Become
  <2> QED BY <2>3, <2>5 DEF WmInv
<1>2. CASE Become(State([desktop EXCEPT !.menu = FALSE], handle))
  BY <1>2, ShowMenuGood DEF Become, State, WmInv
<1> QED BY <1>1, <1>2 DEF PressMenu

LEMMA PressTabGood ==
  ASSUME WmInv, NEW w \in Win, PressTab(w)
  PROVE  WmInv'
<1>1. w \in TreeOf(desktop)
  BY NamesAssumption DEF WmInv, Good, Lists, TreeOf, PressTab
<1>2. /\ Good([Minimize(desktop, w) EXCEPT !.focused[w] = FALSE], handle)
      /\ Good(wm_focus_window(desktop, w), handle)
  BY <1>1, MinimizeGood, FocusGood DEF WmInv
<1> QED BY <1>2 DEF PressTab, WmInv

LEMMA MouseGood ==
  ASSUME WmInv, Mouse
  PROVE  WmInv'
<1>1. ASSUME PressDesktop PROVE WmInv'
  BY <1>1, ShowMenuGood DEF PressDesktop, WmInv
<1>2. ASSUME NEW what \in Apps \cup {Terminal}, PressIcon(what) PROVE WmInv'
  BY <1>2, OpenGood DEF PressIcon, Become, WmInv, Owners
<1>3. ASSUME Release PROVE WmInv'
  BY <1>3 DEF Release, WmInv
<1> QED BY <1>1, <1>2, <1>3, PressWindowGood, PressMenuGood, PressTabGood DEF Mouse

(* Keys, and the shortcuts. *)
LEMMA ShowDesktopGood ==
  ASSUME WmInv, ShowDesktop
  PROVE  WmInv'
<1> DEFINE d == desktop
           e == desktop'
<1>1. d \in Desk /\ ToSet(d.windows) \subseteq Win /\ handle' = handle
  BY DEF WmInv, Good, Desk, ToSet, ShowDesktop
<1>2. /\ e \in Desk /\ SameLists(d, e) /\ e.focused_window = d.focused_window
      /\ e.focused = d.focused /\ e.visible = d.visible
      /\ \A w \in Win : d.minimized[w] => e.minimized[w]
  BY <1>1 DEF ShowDesktop, Desk, SameLists
<1> HIDE DEF d, e
<1>3. FreshIsBlank(e) /\ OneTarget(e) /\ Restorable(e)
  BY <1>2 DEF WmInv, Good, d, FreshIsBlank, OneTarget, Restorable, SameLists, Fresh, TreeOf, Live
<1>4. Good(e, handle)
  BY <1>2, <1>3, FlagsGood DEF WmInv, d
<1> QED BY <1>1, <1>4 DEF WmInv, e

LEMMA KeyboardGood ==
  ASSUME WmInv, Keyboard
  PROVE  WmInv'
<1>1. ASSUME NEW key \in Keys, NEW typed \in Apps \cup {Terminal}, PlainKey(key, typed)
      PROVE  WmInv'
  BY <1>1, DispatchGood DEF PlainKey, Become, WmInv, Owners
<1>2. ASSUME NEW what \in Owners, OpenShortcut(what) PROVE WmInv'
  BY <1>2, OpenGood DEF OpenShortcut, Become, WmInv
<1>3. ASSUME CtrlAltT PROVE WmInv'
  <2>1. PICK s \in Open(desktop, handle, Terminal) :
          \E r \in Dispatch(s.desktop, s.handle, "other", Terminal) : Become(r.state)
    BY <1>3 DEF CtrlAltT
  <2>2. Terminal \in Owners
    BY DEF Owners
  <2>3. Good(s.desktop, s.handle)
    BY <2>2, OpenGood DEF WmInv
  <2> QED BY <2>1, <2>2, <2>3, DispatchGood DEF Become, WmInv
<1>4. ASSUME LockScreen PROVE WmInv'
  BY <1>4 DEF LockScreen, WmInv
<1> QED BY <1>1, <1>2, <1>3, <1>4, ShowDesktopGood DEF Keyboard

LEMMA InitGood ==
  ASSUME Init
  PROVE  WmInv
<1>1. desktop \in Desk /\ handle \in [Apps -> Win \cup {None}]
  BY DEF Init, Desk
<1>2. /\ desktop.windows = <<>> /\ desktop.children = <<Menu>> /\ desktop.freed = {}
      /\ \A w \in Win : desktop.owner[w] = None /\ ~desktop.focused[w]
      /\ \A a \in Apps : handle[a] = None
  BY DEF Init
<1>3. Live(desktop) = {} /\ TreeOf(desktop) = {}
  BY <1>2 DEF Live, TreeOf, ToSet
<1>4. Lists(desktop)
  BY <1>2, <1>3, SizesAssumption DEF Lists, ToSet, IsInjective
<1> QED BY <1>1, <1>2, <1>3, <1>4
        DEF WmInv, Good, Owned, Handles, FreshIsBlank, Fresh, OneTarget, Restorable

LEMMA WmInvHolds == Spec => []WmInv
<1>1. Init => WmInv
  BY InitGood
<1>2. WmInv /\ [Next]_vars => WmInv'
  <2> SUFFICES ASSUME WmInv, [Next]_vars PROVE WmInv'
    OBVIOUS
  <2>1. CASE UNCHANGED vars
    BY <2>1 DEF vars, WmInv
  <2> QED BY <2>1, MouseGood, KeyboardGood DEF Next
<1> QED BY <1>1, <1>2, PTL DEF Spec

----------------------------------------------------------------------------
(* Whatever is opened, raised, closed or reopened, every window that was   *)
(* created and not destroyed stands exactly once in the window list and    *)
(* exactly once in the widget tree, and the child array always has room    *)
(* for it (wm.c:111-137, 1309-1312, 1330-1376).                            *)
THEOREM EveryWindowListed == Spec => []NoWindowLost
<1>1. WmInv => NoWindowLost
  <2> SUFFICES ASSUME WmInv, NEW w \in Live(desktop)
               PROVE  Once(w, desktop.windows) /\ Once(w, desktop.children)
    BY DEF NoWindowLost, WmInv, Good, Lists
  <2>1. /\ desktop.windows \in Seq(Win) /\ desktop.children \in Seq(Win \cup {Menu})
        /\ IsInjective(desktop.windows) /\ IsInjective(desktop.children)
        /\ w \in ToSet(desktop.windows) /\ w \in ToSet(desktop.children)
    BY DEF WmInv, Good, Desk, Lists
  <2> QED BY <2>1, InjectiveOccurs DEF Once
<1> QED BY <1>1, WmInvHolds, PTL

(* At most one window in the tree takes keys, the one focused_window       *)
(* names, although flag and pointer are written in five places that each   *)
(* update part of them (wm.c:910-914, 1346-1370).                          *)
THEOREM OneWindowTakesKeys == Spec => []OneKeyTarget
<1>1. WmInv => OneKeyTarget
  BY DEF WmInv, Good, OneTarget, OneKeyTarget, InTree, TreeOf
<1> QED BY <1>1, WmInvHolds, PTL

(* A live window that is not drawn is marked minimized, so that the        *)
(* taskbar and wm_focus_window, which test that mark, can show it again.   *)
THEOREM HiddenComesBack == Spec => []HiddenIsRestorable
<1>1. WmInv => HiddenIsRestorable
  BY DEF WmInv, Good, Restorable, HiddenIsRestorable
<1> QED BY <1>1, WmInvHolds, PTL

(* The tree leads to freed memory in one situation only: an application    *)
(* that was closed by its title-bar button is opened again through the     *)
(* pointer it kept.                                                        *)
THEOREM FreedIsKept == Spec => []FreedOnlyByHandle
<1>1. WmInv => FreedOnlyByHandle
  BY DEF WmInv, Good, Owned, FreedOnlyByHandle, InTree, TreeOf
<1> QED BY <1>1, WmInvHolds, PTL

----------------------------------------------------------------------------
(* The children of the desktop under both contexts. *)

(* The slots at places hold the elements of set, each once. *)
Holds(array, places, set) ==
  /\ \A j \in places : array[j] \in set
  /\ \A x \in set : \E j \in places : array[j] = x
  /\ \A j, l \in places : array[j] = array[l] => j = l

(* Between two accesses: the array holds listed, and parents are set of    *)
(* those in parents.                                                       *)
Whole(listed, parents) ==
  Holds(children, 1 .. child_count, listed) /\ parented = parents

Others == live \ {op.w}

(* What holds at each place of wm_task as long as no interrupt has changed *)
(* the array under it.  While it shifts, the array holds the other windows *)
(* in all slots but the one it will write next.                            *)
AtStep ==
  /\ step = "idle" => Whole(live, live)
  /\ step \in {"remove", "search"} => op.w \in live /\ Whole(live, live)
  /\ step = "search" => /\ total = child_count /\ slot \in 1 .. total + 1
                        /\ \A j \in 1 .. slot - 1 : children[j] # op.w
  /\ step \in {"load", "store"} =>
       /\ op.w \in live /\ parented = live
       /\ child_count = total + 1 /\ total \in Nat /\ slot \in 1 .. total + 1
       /\ Holds(children, (1 .. total + 1) \ {slot}, Others)
  /\ step = "store" => slot <= total /\ moving = children[slot + 1]
  /\ step = "truncate" =>
       /\ op.w \in live /\ parented = live
       /\ child_count = total + 1 /\ total \in Nat
       /\ Holds(children, 1 .. total, Others)
  /\ step = "erase" => op.w \in live /\ Whole(Others, live) /\ child_count = total
                       /\ total < ChildSlots
  /\ step = "orphan" => op.w \in live /\ Whole(Others, live)
  /\ step \in {"add", "count", "raise"} => op.call # "destroy" /\ Whole(Others, Others)
  /\ step = "raise" => total = child_count
  /\ step = "fill" => /\ op.call # "destroy" /\ parented = Others
                      /\ child_count = total + 1 /\ total \in Nat
                      /\ Holds(children, 1 .. total, Others)
  /\ step = "adopt" => op.call # "destroy" /\ Whole(Others \cup {op.w}, Others)
  /\ step = "end" => IF op.call = "destroy" THEN Whole(Others, Others)
                     ELSE Whole(Others \cup {op.w}, Others \cup {op.w})

Steps == {"idle", "remove", "search", "load", "store", "truncate", "erase", "orphan",
          "add", "count", "raise", "fill", "adopt", "end"}

TreeTypeOK ==
  /\ children \in [1 .. ChildSlots -> Widget \cup {Nobody}]
  /\ child_count \in 0 .. ChildSlots
  /\ live \in SUBSET Widget
  /\ step \in Steps
  /\ step # "idle" => op.w \in Widget /\ op.call \in Calls
                      /\ (op.call = "open" <=> op.w \notin live)

TreeInv == ~interfered => TreeTypeOK /\ AtStep

----------------------------------------------------------------------------
(* The array as a sequence. *)

(* A part of the array that holds a set is an injective sequence of it ... *)
LEMMA HoldsSequence ==
  ASSUME NEW array \in [1 .. ChildSlots -> Widget \cup {Nobody}], NEW k \in 0 .. ChildSlots,
         NEW S \in SUBSET Widget, Holds(array, 1 .. k, S)
  PROVE  /\ SubSeq(array, 1, k) \in Seq(Widget) /\ Len(SubSeq(array, 1, k)) = k
         /\ ToSet(SubSeq(array, 1, k)) = S /\ IsInjective(SubSeq(array, 1, k))
<1> DEFINE s == SubSeq(array, 1, k)
<1>1. k \in Nat /\ 1 .. k \subseteq 1 .. ChildSlots
  BY ChildrenAssumption
<1>2. s = [j \in 1 .. k |-> array[j]]
  BY <1>1
<1>3. \A j \in 1 .. k : array[j] \in Widget
  BY DEF Holds
<1>4. s \in Seq(Widget) /\ Len(s) = k
  <2>1. [j \in 1 .. k |-> array[j]] \in [1 .. k -> Widget]
    BY <1>3
  <2> QED BY <1>1, <1>2, <2>1
<1>5. DOMAIN s = 1 .. k /\ \A j \in 1 .. k : s[j] = array[j]
  BY <1>2
<1> HIDE DEF s
<1>6. ToSet(s) = S
  BY <1>5 DEF ToSet, Holds
<1>7. IsInjective(s)
  BY <1>5 DEF IsInjective, Holds
<1> QED BY <1>4, <1>6, <1>7 DEF s

(* ... and there is room for one more window. *)
LEMMA RoomLeft ==
  ASSUME NEW array \in [1 .. ChildSlots -> Widget \cup {Nobody}], NEW k \in 0 .. ChildSlots,
         NEW S \in SUBSET Widget, Holds(array, 1 .. k, S), NEW w \in Widget, w \notin S
  PROVE  k < ChildSlots
<1> DEFINE s == SubSeq(array, 1, k)
<1>1. s \in Seq(Widget) /\ Len(s) = k /\ ToSet(s) = S /\ IsInjective(s)
  BY HoldsSequence
<1> HIDE DEF s
<1>2. IsFiniteSet(Widget \ {w}) /\ Cardinality(Widget \ {w}) = Cardinality(Widget) - 1
  BY ChildrenAssumption, FS_RemoveElement
<1>3. ToSet(s) \subseteq Widget \ {w}
  BY <1>1
<1>4. Len(s) <= Cardinality(Widget \ {w})
  BY <1>1, <1>2, <1>3, InjectiveFits
<1>5. Cardinality(Widget) \in Nat /\ Cardinality(Widget) <= ChildSlots /\ ChildSlots \in Nat
  BY ChildrenAssumption, FS_CardinalityType
<1> QED BY <1>1, <1>2, <1>4, <1>5

(* What a call of the interrupt makes of the array. *)
LEMMA BecomesHolds ==
  ASSUME TreeTypeOK, NEW s \in Seq(Widget), IsInjective(s), Len(s) <= ChildSlots, Becomes(s)
  PROVE  /\ children' \in [1 .. ChildSlots -> Widget \cup {Nobody}]
         /\ child_count' \in 0 .. ChildSlots
         /\ Holds(children', 1 .. child_count', ToSet(s))
<1>1. Len(s) \in Nat /\ DOMAIN s = 1 .. Len(s) /\ \A j \in 1 .. Len(s) : s[j] \in Widget
  OBVIOUS
<1>2. child_count' = Len(s)
  BY DEF Becomes
<1>3. /\ children' = [k \in 1 .. ChildSlots |->
                        IF k <= Len(s) THEN s[k]
                        ELSE IF k <= child_count THEN Nobody ELSE children[k]]
      /\ children \in [1 .. ChildSlots -> Widget \cup {Nobody}]
  BY DEF Becomes, TreeTypeOK
<1>4. ASSUME NEW k \in 1 .. ChildSlots PROVE k <= Len(s) => k \in 1 .. Len(s)
  BY <1>1
<1>5. children' \in [1 .. ChildSlots -> Widget \cup {Nobody}]
  BY <1>1, <1>3, <1>4
<1>6. ChildSlots \in Nat /\ Len(s) \in 0 .. ChildSlots
  BY <1>1, ChildrenAssumption
<1>7. ASSUME NEW j \in 1 .. Len(s) PROVE children'[j] = s[j]
  <2>1. j \in 1 .. ChildSlots /\ j <= Len(s)
    BY <1>6
  <2> QED BY <1>3, <2>1
<1>8. Holds(children', 1 .. Len(s), ToSet(s))
  BY <1>1, <1>7 DEF Holds, ToSet, IsInjective
<1> QED BY <1>2, <1>5, <1>6, <1>8

(* A whole call between two accesses leaves the array whole. *)
LEMMA InterruptHolds ==
  ASSUME TreeTypeOK, NEW w \in Widget, NEW call \in Calls, Interrupt(w, call),
         NEW S \in SUBSET Widget, Holds(children, 1 .. child_count, S)
  PROVE  /\ children' \in [1 .. ChildSlots -> Widget \cup {Nobody}]
         /\ child_count' \in 0 .. ChildSlots
         /\ Holds(children', 1 .. child_count', IF call = "destroy" THEN S \ {w} ELSE S \cup {w})
<1> DEFINE rest == Removed(Tree, w)
<1>1. /\ Tree \in Seq(Widget) /\ ToSet(Tree) = S /\ IsInjective(Tree)
      /\ Len(Tree) <= ChildSlots
  <2>1. child_count \in 0 .. ChildSlots /\ children \in [1 .. ChildSlots -> Widget \cup {Nobody}]
    BY DEF TreeTypeOK
  <2>2. child_count <= ChildSlots
    BY <2>1
  <2> QED BY <2>1, <2>2, HoldsSequence DEF Tree
<1>2. /\ rest \in Seq(Widget) /\ IsInjective(rest) /\ ToSet(rest) = S \ {w}
  <2>1. CASE w \in ToSet(Tree)
    BY <1>1, <2>1, InjectiveRemove DEF Removed
  <2>2. CASE w \notin ToSet(Tree)
    BY <1>1, <2>2 DEF Removed
  <2> QED BY <2>1, <2>2
<1>3. IF call = "destroy" THEN Becomes(rest) ELSE Becomes(Appended(rest, w))
  BY DEF Interrupt
<1> HIDE DEF rest
<1>4. Len(rest) \in Nat /\ ChildSlots \in Nat /\ Len(rest) < ChildSlots
  <2>1. IsFiniteSet(Widget \ {w}) /\ Cardinality(Widget \ {w}) = Cardinality(Widget) - 1
    BY ChildrenAssumption, FS_RemoveElement
  <2>2. ToSet(rest) \subseteq Widget \ {w}
    BY <1>2
  <2>3. Len(rest) <= Cardinality(Widget \ {w})
    BY <1>2, <2>1, <2>2, InjectiveFits
  <2>4. Cardinality(Widget) \in Nat /\ Cardinality(Widget) <= ChildSlots /\ ChildSlots \in Nat
    BY ChildrenAssumption, FS_CardinalityType
  <2>5. Len(rest) \in Nat
    BY <1>2
  <2> QED BY <2>1, <2>3, <2>4, <2>5
<1>5. CASE call = "destroy"
  <2>1. Becomes(rest) /\ Len(rest) <= ChildSlots
    BY <1>3, <1>4, <1>5
  <2> QED BY <1>2, <1>5, <2>1, BecomesHolds
<1>6. CASE call # "destroy"
  <2> DEFINE longer == Append(rest, w)
  <2>1. Becomes(longer)
    BY <1>3, <1>4, <1>6 DEF Appended
  <2>2. /\ longer \in Seq(Widget) /\ IsInjective(longer)
        /\ ToSet(longer) = ToSet(rest) \cup {w} /\ Len(longer) = Len(rest) + 1
    BY <1>2, InjectiveAppend
  <2> HIDE DEF longer
  <2>3. Len(longer) <= ChildSlots
    BY <1>4, <2>2
  <2>4. ToSet(longer) = S \cup {w}
    BY <1>2, <2>2
  <2> QED BY <1>6, <2>1, <2>2, <2>3, <2>4, BecomesHolds
<1> QED BY <1>5, <1>6

----------------------------------------------------------------------------
(* The steps. *)

LEMMA TreeInitial == TreeInit => TreeInv
<1> SUFFICES ASSUME TreeInit PROVE TreeInv
  OBVIOUS
<1>1. /\ children \in [1 .. ChildSlots -> Widget \cup {Nobody}] /\ child_count = 0
      /\ live = {} /\ parented = {} /\ step = "idle"
  BY DEF TreeInit
<1>2. Whole({}, {})
  BY <1>1 DEF Whole, Holds
<1>3. AtStep
  BY <1>1, <1>2 DEF AtStep
<1>4. 0 \in 0 .. ChildSlots
  BY ChildrenAssumption
<1> QED BY <1>1, <1>3, <1>4 DEF TreeInv, TreeTypeOK, Steps

(* Between two accesses that belong together an interrupt may change the   *)
(* array as long as it leaves the window of wm_task alone.                 *)
LEMMA InterruptKeeps ==
  ASSUME TreeTypeOK, AtStep, NEW w \in Widget, NEW call \in Calls, Interrupt(w, call),
         ~interfered'
  PROVE  TreeTypeOK' /\ AtStep'
<1> DEFINE new(S) == IF call = "destroy" THEN S \ {w} ELSE S \cup {w}
<1>1. /\ ~Midway /\ (step # "idle" => w # op.w)
      /\ step' = step /\ op' = op /\ slot' = slot /\ total' = total /\ moving' = moving
      /\ live' = new(live) /\ parented' = new(parented)
      /\ live \in SUBSET Widget /\ step \in Steps
  BY DEF Interrupt, TreeTypeOK
<1>2. step \in {"idle", "remove", "orphan", "add", "count", "adopt", "end"}
  BY <1>1 DEF Midway, Steps
<1>3. ASSUME NEW S \in SUBSET Widget, NEW P, Whole(S, P)
      PROVE  /\ Whole(new(S), new(P))'
             /\ children' \in [1 .. ChildSlots -> Widget \cup {Nobody}]
             /\ child_count' \in 0 .. ChildSlots
  BY <1>1, <1>3, InterruptHolds DEF Whole
<1>4. live' \in SUBSET Widget /\ step' \in Steps
  BY <1>1
<1>5. CASE step = "idle"
  <2>1. Whole(live, live)
    BY <1>5 DEF AtStep
  <2> QED BY <1>1, <1>3, <1>4, <1>5, <2>1 DEF TreeTypeOK, AtStep
<1>6. CASE step # "idle"
  <2>1. w # op.w /\ op.w \in Widget /\ op.call \in Calls /\ (op.call = "open" <=> op.w \notin live)
    BY <1>1, <1>6 DEF TreeTypeOK
  <2>2. (op.w \in live' <=> op.w \in live)
    BY <1>1, <2>1
  <2>3. new(Others) = Others' /\ new(Others \cup {op.w}) = Others' \cup {op.w}
    BY <1>1, <2>1 DEF Others
  <2>4. Others \in SUBSET Widget /\ Others \cup {op.w} \in SUBSET Widget
    BY <1>1, <2>1 DEF Others
  <2> HIDE DEF new
  <2>5. /\ Whole(live, live) => Whole(live, live)'
        /\ Whole(Others, live) => Whole(Others, live)'
        /\ Whole(Others, Others) => Whole(Others, Others)'
        /\ Whole(Others \cup {op.w}, Others) => Whole(Others \cup {op.w}, Others)'
        /\ Whole(Others \cup {op.w}, Others \cup {op.w})
             => Whole(Others \cup {op.w}, Others \cup {op.w})'
    BY <1>1, <1>3, <2>3, <2>4
  <2>6. \E S \in SUBSET Widget : \E P : Whole(S, P)
    BY <1>1, <1>2, <1>6, <2>4 DEF AtStep
  <2>7. TreeTypeOK'
    BY <1>1, <1>3, <1>4, <2>1, <2>2, <2>6 DEF TreeTypeOK
  <2>8. AtStep'
    BY <1>1, <1>2, <1>6, <2>2, <2>5 DEF AtStep
  <2> QED BY <2>7, <2>8
<1> QED BY <1>5, <1>6

(* wm_task starts a call. *)
LEMMA BeginKeeps ==
  ASSUME TreeTypeOK, AtStep, NEW w \in Widget, NEW call \in Calls, Begin(w, call)
  PROVE  TreeTypeOK' /\ AtStep'
<1>1. /\ step = "idle" /\ op' = [w |-> w, call |-> call]
      /\ step' = IF call = "open" THEN "add" ELSE "remove"
      /\ children' = children /\ child_count' = child_count /\ parented' = parented /\ live' = live
      /\ call = "open" <=> w \notin live
  BY DEF Begin, Goto, Calls
<1>2. op'.w = w /\ op'.call = call
  BY <1>1
<1>3. TreeTypeOK'
  BY <1>1, <1>2 DEF TreeTypeOK, Steps
<1>4. Whole(live, live)'
  BY <1>1 DEF AtStep, Whole
<1>5. CASE call = "open"
  <2>1. Others' = live'
    BY <1>1, <1>2, <1>5 DEF Others
  <2> QED BY <1>1, <1>2, <1>3, <1>4, <1>5, <2>1 DEF AtStep
<1>6. CASE call # "open"
  BY <1>1, <1>2, <1>3, <1>4, <1>6 DEF AtStep
<1> QED BY <1>5, <1>6

(* The accesses that take the window out ... *)
LEMMA RemovalKeeps ==
  ASSUME TreeTypeOK, AtStep, ReadCount \/ Search \/ Load \/ Store \/ Truncate \/ Erase \/ Orphan
  PROVE  TreeTypeOK' /\ AtStep'
<1>1. /\ children \in [1 .. ChildSlots -> Widget \cup {Nobody}]
      /\ child_count \in 0 .. ChildSlots /\ live \in SUBSET Widget /\ ChildSlots \in Nat
      /\ step # "idle" => op.w \in Widget /\ op.call \in Calls
                          /\ (op.call = "open" <=> op.w \notin live)
  BY ChildrenAssumption DEF TreeTypeOK
<1>2. CASE ReadCount
  <2>1. /\ step = "remove" /\ step' = "search" /\ total' = child_count /\ slot' = 1
        /\ UNCHANGED <<children, child_count, parented, live, op>>
    BY <1>2 DEF ReadCount, Goto
  <2>2. Whole(live, live)' /\ op.w \in live
    BY <2>1 DEF AtStep, Whole
  <2>3. slot' \in 1 .. total' + 1 /\ 1 .. slot' - 1 = {}
    BY <1>1, <2>1
  <2> QED BY <1>1, <2>1, <2>2, <2>3 DEF TreeTypeOK, AtStep, Steps
<1>3. CASE Search
  <2>1. /\ step = "search" /\ UNCHANGED <<children, child_count, parented, live, op>>
        /\ total = child_count /\ slot \in 1 .. total + 1 /\ total \in Nat
        /\ \A j \in 1 .. slot - 1 : children[j] # op.w
        /\ op.w \in live /\ Whole(live, live)
    BY <1>1, <1>3 DEF Search, AtStep
  <2>2. PICK k \in 1 .. child_count : children[k] = op.w
    BY <2>1 DEF Whole, Holds
  <2>3. ~(slot > total)
    <3>1. ~(k \in 1 .. slot - 1)
      BY <2>1, <2>2
    <3> QED BY <2>1, <3>1
  <2>4. CASE children[slot] = op.w
    <3>1. total' = total - 1 /\ step' = "load" /\ slot' = slot
      BY <1>3, <2>3, <2>4 DEF Search, Goto
    <3>2. /\ child_count' = total' + 1 /\ total' \in Nat /\ slot' \in 1 .. total' + 1
          /\ 1 .. child_count = 1 .. total' + 1 /\ slot \in 1 .. child_count
      BY <2>1, <2>3, <3>1
    <3>3. Holds(children, (1 .. child_count) \ {slot}, Others)
      BY <2>1, <2>4, <3>2 DEF Whole, Holds, Others
    <3>4. Holds(children', (1 .. total' + 1) \ {slot'}, Others')
      BY <2>1, <3>1, <3>2, <3>3 DEF Others
    <3>5. parented' = live'
      BY <2>1 DEF Whole
    <3> QED BY <1>1, <2>1, <3>1, <3>2, <3>4, <3>5 DEF TreeTypeOK, AtStep, Steps
  <2>5. CASE children[slot] # op.w
    <3>1. slot' = slot + 1 /\ step' = "search" /\ total' = total
      BY <1>3, <2>1, <2>3, <2>5 DEF Search, Goto
    <3>2. slot' \in 1 .. total' + 1
      BY <2>1, <2>3, <3>1
    <3>3. ASSUME NEW j \in 1 .. slot' - 1 PROVE children'[j] # op'.w
      <4>1. j \in 1 .. slot - 1 \/ j = slot
        BY <2>1, <3>1
      <4> QED BY <2>1, <2>5, <4>1
    <3>4. Whole(live, live)'
      BY <2>1 DEF Whole
    <3> QED BY <1>1, <2>1, <3>1, <3>2, <3>3, <3>4 DEF TreeTypeOK, AtStep, Steps
  <2> QED BY <2>4, <2>5
<1>4. CASE Load
  <2>1. /\ step = "load" /\ UNCHANGED <<children, child_count, parented, live, op, slot, total>>
        /\ op.w \in live /\ parented = live
        /\ child_count = total + 1 /\ total \in Nat /\ slot \in 1 .. total + 1
        /\ Holds(children, (1 .. total + 1) \ {slot}, Others)
    BY <1>4 DEF Load, AtStep
  <2>2. CASE slot > total
    <3>1. step' = "truncate"
      BY <1>4, <2>2 DEF Load, Goto, ShiftDone
    <3>2. (1 .. total + 1) \ {slot} = 1 .. total
      BY <2>1, <2>2
    <3>3. Holds(children', 1 .. total', Others')
      BY <2>1, <3>2 DEF Others
    <3> QED BY <1>1, <2>1, <3>1, <3>3 DEF TreeTypeOK, AtStep, Steps
  <2>3. CASE ~(slot > total)
    <3>1. step' = "store" /\ moving' = children[slot + 1] /\ slot <= total
      BY <1>4, <2>1, <2>3 DEF Load, Goto, ShiftDone
    <3>2. Holds(children', (1 .. total' + 1) \ {slot'}, Others')
      BY <2>1 DEF Others
    <3> QED BY <1>1, <2>1, <3>1, <3>2 DEF TreeTypeOK, AtStep, Steps
  <2> QED BY <2>2, <2>3
<1>5. CASE Store
  <2>1. /\ step = "store" /\ step' = "load" /\ slot' = slot + 1
        /\ UNCHANGED <<child_count, parented, live, op, total>>
        /\ children' = [children EXCEPT ![slot] = children[slot + 1]]
        /\ op.w \in live /\ parented = live
        /\ child_count = total + 1 /\ total \in Nat /\ slot \in 1 .. total + 1 /\ slot <= total
        /\ Holds(children, (1 .. total + 1) \ {slot}, Others)
    BY <1>5 DEF Store, AtStep, Goto
  <2>2. /\ slot \in 1 .. ChildSlots /\ slot + 1 \in 1 .. ChildSlots
        /\ 1 .. total + 1 \subseteq 1 .. ChildSlots
        /\ slot + 1 \in 1 .. total + 1 /\ slot + 1 # slot /\ slot \in 1 .. total + 1
    BY <1>1, <2>1
  <2>3. /\ children' \in [1 .. ChildSlots -> Widget \cup {Nobody}]
        /\ children'[slot] = children[slot + 1]
        /\ \A j \in 1 .. ChildSlots : j # slot => children'[j] = children[j]
    BY <1>1, <2>1, <2>2
  <2> DEFINE I == 1 .. total + 1
             t == slot + 1
  <2>4. t \in I /\ slot \in I /\ t # slot /\ I \subseteq 1 .. ChildSlots
    BY <2>2
  <2>5. Holds(children, I \ {slot}, Others) /\ children'[slot] = children[t]
    BY <2>1, <2>3
  <2> HIDE DEF I, t
  <2>6. Holds(children', I \ {t}, Others)
    BY <2>3, <2>4, <2>5 DEF Holds
  <2>7. Holds(children', (1 .. total' + 1) \ {slot'}, Others')
    BY <2>1, <2>6 DEF I, t, Others
  <2>8. slot' \in 1 .. total' + 1
    BY <2>1
  <2> QED BY <1>1, <2>1, <2>3, <2>7, <2>8 DEF TreeTypeOK, AtStep, Steps
<1>6. CASE Truncate
  <2>1. /\ step = "truncate" /\ step' = "erase" /\ child_count' = total
        /\ UNCHANGED <<children, parented, live, op, total>>
        /\ op.w \in live /\ parented = live
        /\ child_count = total + 1 /\ total \in Nat
        /\ Holds(children, 1 .. total, Others)
    BY <1>6 DEF Truncate, AtStep, Goto
  <2>2. total \in 0 .. ChildSlots /\ total < ChildSlots
    BY <1>1, <2>1
  <2>3. Whole(Others, live)'
    BY <2>1 DEF Whole, Others
  <2> QED BY <1>1, <2>1, <2>2, <2>3 DEF TreeTypeOK, AtStep, Steps
<1>7. CASE Erase
  <2>1. /\ step = "erase" /\ step' = "orphan" /\ UNCHANGED <<child_count, parented, live, op>>
        /\ children' = [children EXCEPT ![total + 1] = Nobody]
        /\ op.w \in live /\ Whole(Others, live) /\ child_count = total /\ total < ChildSlots
    BY <1>7 DEF Erase, AtStep, Goto
  <2>2. total + 1 \in 1 .. ChildSlots /\ \A j \in 1 .. child_count : j # total + 1 /\ j \in 1 .. ChildSlots
    BY <1>1, <2>1
  <2>3. /\ children' \in [1 .. ChildSlots -> Widget \cup {Nobody}]
        /\ \A j \in 1 .. child_count : children'[j] = children[j]
    BY <1>1, <2>1, <2>2
  <2>4. Whole(Others, live)'
    BY <2>1, <2>3 DEF Whole, Holds, Others
  <2> QED BY <1>1, <2>1, <2>3, <2>4 DEF TreeTypeOK, AtStep, Steps
<1>8. CASE Orphan
  <2>1. /\ step = "orphan" /\ UNCHANGED <<children, child_count, live, op>>
        /\ parented' = parented \ {op.w}
        /\ step' = AfterRemove
        /\ op.w \in live /\ Whole(Others, live)
    BY <1>8 DEF Orphan, AtStep, Goto
  <2>2. Whole(Others, Others)'
    BY <2>1 DEF Whole, Others
  <2>3. op.call \in {"raise", "destroy"}
    BY <1>1, <2>1 DEF Calls
  <2>4. step' = IF op.call = "destroy" THEN "end" ELSE "add"
    BY <2>1, <2>3 DEF AfterRemove
  <2>5. step' \in Steps /\ step' # "idle"
    BY <2>4 DEF Steps
  <2> QED BY <1>1, <2>1, <2>2, <2>3, <2>4, <2>5 DEF TreeTypeOK, AtStep
<1> QED BY <1>2, <1>3, <1>4, <1>5, <1>6, <1>7, <1>8

(* ... and those that put it in. *)
LEMMA AdditionKeeps ==
  ASSUME TreeTypeOK, AtStep, TestRoom \/ CountChild \/ RaiseCount \/ FillSlot \/ Adopt \/ End
  PROVE  TreeTypeOK' /\ AtStep'
<1>1. /\ children \in [1 .. ChildSlots -> Widget \cup {Nobody}]
      /\ child_count \in 0 .. ChildSlots /\ live \in SUBSET Widget /\ ChildSlots \in Nat
      /\ step # "idle" => op.w \in Widget /\ op.call \in Calls
                          /\ (op.call = "open" <=> op.w \notin live)
  BY ChildrenAssumption DEF TreeTypeOK
<1>2. ASSUME step \in {"add", "count", "raise"} PROVE child_count < ChildSlots
  <2>1. Holds(children, 1 .. child_count, Others)
    BY <1>2 DEF AtStep, Whole
  <2>2. Others \in SUBSET Widget /\ op.w \in Widget /\ op.w \notin Others
    BY <1>1, <1>2 DEF Others
  <2> QED BY <1>1, <2>1, <2>2, RoomLeft
<1>3. CASE TestRoom
  <2>1. /\ step = "add" /\ UNCHANGED <<children, child_count, parented, live>>
        /\ op.call # "destroy" /\ Whole(Others, Others)
    BY <1>3 DEF TestRoom, AtStep
  <2>2. child_count < ChildSlots /\ op.w \notin parented
    BY <1>2, <2>1 DEF Whole, Others
  <2>3. op' = op /\ step' = "count"
    BY <1>3, <2>2 DEF TestRoom, Goto
  <2>4. Whole(Others, Others)'
    BY <2>1, <2>3 DEF Whole, Others
  <2> QED BY <1>1, <2>1, <2>3, <2>4 DEF TreeTypeOK, AtStep, Steps
<1>4. CASE CountChild
  <2>1. /\ step = "count" /\ step' = "raise" /\ total' = child_count
        /\ UNCHANGED <<children, child_count, parented, live, op>>
        /\ op.call # "destroy" /\ Whole(Others, Others)
    BY <1>4 DEF CountChild, AtStep, Goto
  <2>2. Whole(Others, Others)'
    BY <2>1 DEF Whole, Others
  <2> QED BY <1>1, <2>1, <2>2 DEF TreeTypeOK, AtStep, Steps
<1>5. CASE RaiseCount
  <2>1. /\ step = "raise" /\ step' = "fill" /\ child_count' = total + 1 /\ total = child_count
        /\ UNCHANGED <<children, parented, live, op, total>>
        /\ op.call # "destroy" /\ Whole(Others, Others)
    BY <1>5 DEF RaiseCount, AtStep, Goto
  <2>2. total + 1 \in 0 .. ChildSlots /\ total \in Nat
    BY <1>1, <1>2, <2>1
  <2>3. Holds(children', 1 .. total', Others') /\ parented' = Others'
    BY <2>1 DEF Whole, Others
  <2> QED BY <1>1, <2>1, <2>2, <2>3 DEF TreeTypeOK, AtStep, Steps
<1>6. CASE FillSlot
  <2>1. /\ step = "fill" /\ step' = "adopt" /\ children' = [children EXCEPT ![total + 1] = op.w]
        /\ UNCHANGED <<child_count, parented, live, op, total>>
        /\ op.call # "destroy" /\ parented = Others
        /\ child_count = total + 1 /\ total \in Nat
        /\ Holds(children, 1 .. total, Others)
    BY <1>6 DEF FillSlot, AtStep, Goto
  <2> DEFINE k == total + 1
  <2>2. /\ k \in 1 .. ChildSlots /\ \A j \in 1 .. total : j # k /\ j \in 1 .. ChildSlots
        /\ 1 .. child_count = (1 .. total) \cup {k}
    BY <1>1, <2>1
  <2>3. op.w \in Widget /\ op.w \notin Others
    BY <1>1, <2>1 DEF Others
  <2>4. /\ children' \in [1 .. ChildSlots -> Widget \cup {Nobody}]
        /\ children'[k] = op.w /\ \A j \in 1 .. total : children'[j] = children[j]
    BY <1>1, <2>1, <2>2, <2>3
  <2> HIDE DEF k
  <2>5. Holds(children', (1 .. total) \cup {k}, Others \cup {op.w})
    BY <2>1, <2>2, <2>3, <2>4 DEF Holds
  <2>6. Whole(Others \cup {op.w}, Others)'
    BY <2>1, <2>2, <2>5 DEF Whole, Others
  <2> QED BY <1>1, <2>1, <2>4, <2>6 DEF TreeTypeOK, AtStep, Steps
<1>7. CASE Adopt
  <2>1. /\ step = "adopt" /\ step' = "end" /\ parented' = parented \cup {op.w}
        /\ UNCHANGED <<children, child_count, live, op>>
        /\ op.call # "destroy" /\ Whole(Others \cup {op.w}, Others)
    BY <1>7 DEF Adopt, AtStep, Goto
  <2>2. Whole(Others \cup {op.w}, Others \cup {op.w})'
    BY <2>1 DEF Whole, Others
  <2> QED BY <1>1, <2>1, <2>2 DEF TreeTypeOK, AtStep, Steps
<1>8. CASE End
  <2>1. /\ step = "end" /\ step' = "idle" /\ UNCHANGED <<children, child_count, parented>>
        /\ live' = IF op.call = "destroy" THEN live \ {op.w} ELSE live \cup {op.w}
        /\ IF op.call = "destroy" THEN Whole(Others, Others)
           ELSE Whole(Others \cup {op.w}, Others \cup {op.w})
    BY <1>8 DEF End, AtStep, Goto
  <2>2. Whole(live, live)'
    BY <2>1 DEF Whole, Others
  <2>3. live' \in SUBSET Widget
    BY <1>1, <2>1
  <2> QED BY <1>1, <2>1, <2>2, <2>3 DEF TreeTypeOK, AtStep, Steps
<1> QED BY <1>3, <1>4, <1>5, <1>6, <1>7, <1>8

(* However many windows there are: as long as no interrupt opens, raises   *)
(* or destroys a window between an access of wm_task to the array and a    *)
(* later one that relies on it, or one that wm_task is busy with, the      *)
(* array is the open windows, once each, whenever wm_task has finished a   *)
(* call, and no addition ever found it full (wm.c:111-137).                *)
THEOREM InterruptsLeaveTreeWhole == TreeSpec => []TreeWhole
<1>1. TreeInit => TreeInv
  BY TreeInitial
<1>2. TreeInv /\ [TreeNext]_treeVars => TreeInv'
  <2> SUFFICES ASSUME TreeInv, [TreeNext]_treeVars, ~interfered' PROVE TreeTypeOK' /\ AtStep'
    BY DEF TreeInv
  <2>1. ASSUME NEW w \in Widget, NEW call \in Calls, ~interfered, Begin(w, call)
        PROVE  TreeTypeOK' /\ AtStep'
    BY <2>1, BeginKeeps DEF TreeInv
  <2>2. ASSUME NEW w \in Widget, NEW call \in Calls, ~interfered, Interrupt(w, call)
        PROVE  TreeTypeOK' /\ AtStep'
    BY <2>2, InterruptKeeps DEF TreeInv
  <2>3. CASE ReadCount \/ Search \/ Load \/ Store \/ Truncate \/ Erase \/ Orphan
    <3>1. ~interfered
      BY <2>3 DEF ReadCount, Search, Load, Store, Truncate, Erase, Orphan
    <3> QED BY <2>3, <3>1, RemovalKeeps DEF TreeInv
  <2>4. CASE TestRoom \/ CountChild \/ RaiseCount \/ FillSlot \/ Adopt \/ End
    <3>1. ~interfered
      BY <2>4 DEF TestRoom, CountChild, RaiseCount, FillSlot, Adopt, End
    <3> QED BY <2>4, <3>1, AdditionKeeps DEF TreeInv
  <2>5. CASE UNCHANGED treeVars
    <3>1. TreeTypeOK /\ AtStep
      BY <2>5 DEF TreeInv, treeVars
    <3>2. UNCHANGED <<children, child_count, parented, live, step, op, slot, total, moving>>
      BY <2>5 DEF treeVars
    <3>3. TreeTypeOK'
      BY <3>1, <3>2 DEF TreeTypeOK
    <3>4. AtStep'
      BY <3>1, <3>2 DEF AtStep, Whole, Others
    <3> QED BY <3>3, <3>4
  <2> QED BY <2>1, <2>2, <2>3, <2>4, <2>5 DEF TreeNext
<1>3. TreeInv => TreeWhole
  <2> SUFFICES ASSUME TreeInv, step = "idle", ~interfered
               PROVE  ToSet(Tree) = live /\ IsInjective(Tree) /\ parented = live
    BY DEF TreeWhole
  <2>1. Whole(live, live) /\ TreeTypeOK
    BY DEF TreeInv, AtStep
  <2> QED BY <2>1, HoldsSequence DEF Whole, Tree, TreeTypeOK
<1> QED BY <1>1, <1>2, <1>3, PTL DEF TreeSpec
=============================================================================
