----------------------------- MODULE Compositor -----------------------------
(***************************************************************************)
(* Surfaces, cursor and damage of the compositor (compositor.c), in one    *)
(* dimension: the screen is a row of columns and every rectangle has its   *)
(* height.  One column, any of them, is followed: what it is to show is the *)
(* stack of layers there, each a surface and which of its own columns it   *)
(* is; new contents of the same layers count as a change as well.          *)
(*                                                                         *)
(* A surface enters the list only through surface_raise, surface_lower and *)
(* surface_set_z_order, which first unlink it; the orders themselves are   *)
(* left out.                                                               *)
(***************************************************************************)
EXTENDS Integers, SequencesExt, LinkedLists

CONSTANTS
  Surface,      \* addresses of surfaces
  Width,        \* of the screen
  Places,       \* values of x
  Widths,       \* of surfaces
  MaxDamage     \* damage rectangles, 64

ASSUME CompAssumption ==
  /\ IsFiniteSet(Surface) /\ NULL \notin Surface
  /\ Width \in Nat \ {0} /\ MaxDamage \in Nat
  /\ Places \subseteq Int /\ Widths \subseteq Nat

VARIABLES
  surf,         \* [Surface]: x, width, visible
  alive,        \* the surfaces created and not destroyed; no pointer to a
                \* destroyed one is left, so its name may be used again
  surfaces,     \* head and tail; next and prev of each surface
  cursor,       \* cursor_surface and cursor_x
  damage,       \* the rectangles, and full_damage
  column,       \* the column that is followed
  stale         \* history: it changed since it was rendered, other than by
                \* the changes that the code is known not to report

compVars == <<surf, alive, surfaces, cursor, damage, column, stale>>

Column == 0 .. Width - 1

CompBlank == [x |-> 0, width |-> 0, visible |-> FALSE]

CompInit ==
  /\ surf = [s \in Surface |-> CompBlank]
  /\ alive = {}
  /\ surfaces = [head |-> NULL, tail |-> NULL,
                 next |-> [s \in Surface |-> NULL], prev |-> [s \in Surface |-> NULL]]
  /\ cursor = [surface |-> NULL, x |-> Width \div 2]
  /\ damage = [rects |-> <<>>, full |-> TRUE]
  /\ column \in Column /\ stale = TRUE

Rect(x, width) == [x |-> x, width |-> width]
RectOf(s) == Rect(surf[s].x, surf[s].width)
Columns(r) == r.x .. r.x + r.width - 1

----------------------------------------------------------------------------
(* Damage. *)

Smaller(a, b) == IF a < b THEN a ELSE b
Larger(a, b) == IF a > b THEN a ELSE b

rects_intersect(a, b) == a.x + a.width > b.x /\ b.x + b.width > a.x
rects_adjacent(a, b) ==
  (IF a.x < b.x THEN b.x - (a.x + a.width) ELSE a.x - (b.x + b.width)) <= 1
rect_merge(a, b) ==
  LET x1 == Smaller(a.x, b.x)
  IN  Rect(x1, Larger(a.x + a.width, b.x + b.width) - x1)

Overflow(d) == [rects |-> <<>>, full |-> TRUE]

compositor_add_damage(d, r) ==
  LET x1   == Larger(r.x, 0)
      x2   == Smaller(r.x + r.width, Width)
      clip == Rect(x1, x2 - x1)
      near == {k \in 1 .. Len(d.rects) :
                 rects_intersect(d.rects[k], clip) \/ rects_adjacent(d.rects[k], clip)}
      k    == Min(near)
  IN  IF d.full \/ x1 >= x2 THEN d
      ELSE IF near # {} THEN [d EXCEPT !.rects[k] = rect_merge(@, clip)]
      ELSE IF Len(d.rects) < MaxDamage THEN [d EXCEPT !.rects = Append(@, clip)]
      ELSE Overflow(d)

compositor_force_redraw(d) == [rects |-> <<>>, full |-> TRUE]

Damaged(d) == IF d.full THEN Column ELSE UNION {Columns(r) : r \in ToSet(d.rects)}

----------------------------------------------------------------------------
(* What the screen is to show. *)

Stack == ChainFrom(surfaces.next, surfaces.head)

Shows(s, x) == surf[s].visible /\ column \in Columns(Rect(x, surf[s].width))

(* compositor_render_region: the layers of the column, which is drawn over *)
(* which, and the cursor on top of them.                                   *)
Scene ==
  LET listed   == {k \in DOMAIN Stack :
                     Stack[k] # cursor.surface /\ Shows(Stack[k], surf[Stack[k]].x)}
      Layer(k) == <<Stack[k], column - surf[Stack[k]].x>>
  IN  [layers  |-> {Layer(k) : k \in listed},
       over    |-> {<<Layer(p[1]), Layer(p[2])>> : p \in {q \in listed \X listed : q[1] > q[2]}},
       pointer |-> IF cursor.surface = NULL \/ ~Shows(cursor.surface, cursor.x)
                   THEN {} ELSE {<<cursor.surface, column - cursor.x>>}]

Seen(s) == \E l \in Scene.layers \cup Scene.pointer : l[1] = s

(* The step may change the column; redrawn says that the contents of a     *)
(* layer do, silent that the code is known not to report every change.     *)
Changes(redrawn, silent) ==
  /\ UNCHANGED column
  /\ stale' = \/ stale
              \/ (redrawn \/ Scene' # Scene) /\ (silent => column \in Damaged(damage)')

----------------------------------------------------------------------------
(* Surfaces. *)

surface_create(s, w) ==
  /\ s \notin alive
  /\ alive' = alive \cup {s}
  /\ surf' = [surf EXCEPT ![s].width = w, ![s].visible = TRUE]
  /\ UNCHANGED <<surfaces, cursor, damage>>
  /\ Changes(FALSE, FALSE)

(* Links are rewritten from prev and next alone; of a surface that is in   *)
(* no list both are NULL, and head and tail with them.                     *)
Unlinked(l, s) ==
  LET p == l.prev[s]   n == l.next[s]
  IN  [l EXCEPT !.head = IF p = NULL THEN n ELSE @,
                !.tail = IF n = NULL THEN p ELSE @,
                !.next = [t \in Surface |-> IF t = p THEN n ELSE @[t]],
                !.prev = [t \in Surface |-> IF t = n THEN p ELSE @[t]]]

(* s between p and n, either of which may be NULL. *)
Linked(l, s, p, n) ==
  [head |-> IF p = NULL THEN s ELSE l.head,
   tail |-> IF n = NULL THEN s ELSE l.tail,
   next |-> [t \in Surface |-> IF t = s THEN n ELSE IF t = p THEN s ELSE l.next[t]],
   prev |-> [t \in Surface |-> IF t = s THEN p ELSE IF t = n THEN s ELSE l.prev[t]]]

InStack(s) == s \in ToSet(Stack)

surface_destroy(s) ==
  /\ s \in alive
  /\ alive' = alive \ {s}
  /\ surfaces' = Unlinked(surfaces, s)
  /\ cursor' = IF cursor.surface = s THEN [cursor EXCEPT !.surface = NULL] ELSE cursor
  /\ UNCHANGED damage
  /\ surf' = [surf EXCEPT ![s] = CompBlank]
  /\ Changes(FALSE, TRUE)

(* Operators X_Y are faulty variants of X, which the properties notice.    *)
MoveDamage_NewOnly(s, x) == compositor_add_damage(damage, Rect(x, surf[s].width))

MoveDamage(s, x) ==
  compositor_add_damage(compositor_add_damage(damage, RectOf(s)), Rect(x, surf[s].width))

surface_move(s, x) ==
  /\ s \in alive
  /\ surf' = [surf EXCEPT ![s].x = x]
  /\ damage' = IF surf[s].visible THEN MoveDamage(s, x) ELSE damage
  /\ UNCHANGED <<alive, surfaces, cursor>>
  /\ Changes(FALSE, FALSE)

(* The buffers are new: all the surface shows changes. *)
surface_resize(s, w) ==
  /\ s \in alive
  /\ surf' = [surf EXCEPT ![s].width = w]
  /\ damage' = compositor_add_damage(damage, Rect(surf[s].x, w))
  /\ UNCHANGED <<alive, surfaces, cursor>>
  /\ Changes(Seen(s), w < surf[s].width \/ s = cursor.surface)

ShowOrHide(s) ==
  /\ s \in alive
  /\ surf' = [surf EXCEPT ![s].visible = ~@]
  /\ damage' = compositor_add_damage(damage, RectOf(s))
  /\ UNCHANGED <<alive, surfaces, cursor>>
  /\ Changes(FALSE, s = cursor.surface)

surface_swap_buffers(s) ==
  /\ s \in alive
  /\ damage' = IF surf[s].visible THEN compositor_add_damage(damage, RectOf(s)) ELSE damage
  /\ UNCHANGED <<surf, alive, surfaces, cursor>>
  /\ Changes(Seen(s), s = cursor.surface)

surface_raise(s) ==
  /\ s \in alive
  /\ LET l == Unlinked(surfaces, s)
     IN  surfaces' = Linked(l, s, l.tail, NULL)
  /\ damage' = compositor_add_damage(damage, RectOf(s))
  /\ UNCHANGED <<surf, alive, cursor>>
  /\ Changes(FALSE, ~InStack(s))

surface_lower(s) ==
  /\ s \in alive
  /\ LET l == Unlinked(surfaces, s)
     IN  surfaces' = Linked(l, s, NULL, l.head)
  /\ damage' = compositor_force_redraw(damage)
  /\ UNCHANGED <<surf, alive, cursor>>
  /\ Changes(FALSE, FALSE)

(* Somewhere in the list, as the orders of the others ask for. *)
surface_set_z_order(s) ==
  /\ s \in alive
  /\ LET l    == Unlinked(surfaces, s)
         rest == ChainFrom(l.next, l.head)
     IN  \E k \in 1 .. Len(rest) + 1 :
           surfaces' = Linked(l, s, IF k = 1 THEN NULL ELSE rest[k - 1],
                                    IF k > Len(rest) THEN NULL ELSE rest[k])
  /\ damage' = compositor_force_redraw(damage)
  /\ UNCHANGED <<surf, alive, cursor>>
  /\ Changes(FALSE, FALSE)

----------------------------------------------------------------------------
(* Cursor, wallpaper, rendering. *)

CursorDamage(d, s, x) ==
  IF s = NULL THEN d ELSE compositor_add_damage(d, Rect(x, surf[s].width))

compositor_set_cursor(s) ==
  /\ s \in alive \cup {NULL}
  /\ cursor' = [cursor EXCEPT !.surface = s]
  /\ damage' = CursorDamage(CursorDamage(damage, cursor.surface, cursor.x), s, cursor.x)
  /\ UNCHANGED <<surf, alive, surfaces>>
  /\ Changes(FALSE, InStack(s) \/ InStack(cursor.surface))

compositor_move_cursor(x) ==
  /\ cursor' = [cursor EXCEPT !.x = x]
  /\ damage' = CursorDamage(CursorDamage(damage, cursor.surface, cursor.x), cursor.surface, x)
  /\ UNCHANGED <<surf, alive, surfaces>>
  /\ Changes(FALSE, FALSE)

compositor_set_wallpaper ==
  /\ damage' = compositor_force_redraw(damage)
  /\ UNCHANGED <<surf, alive, surfaces, cursor>>
  /\ Changes(TRUE, FALSE)

compositor_render ==
  /\ damage.full \/ damage.rects # <<>>
  /\ damage' = [rects |-> <<>>, full |-> FALSE]
  /\ stale' = (stale /\ column \notin Damaged(damage))
  /\ UNCHANGED <<column, surf, alive, surfaces, cursor>>

CompNext ==
  \/ \E s \in Surface :
       \/ surface_destroy(s) \/ ShowOrHide(s) \/ surface_swap_buffers(s)
       \/ surface_raise(s) \/ surface_lower(s) \/ surface_set_z_order(s)
       \/ \E w \in Widths : surface_create(s, w) \/ surface_resize(s, w)
       \/ \E x \in Places : surface_move(s, x)
  \/ \E s \in Surface \cup {NULL} : compositor_set_cursor(s)
  \/ \E x \in Places : compositor_move_cursor(x)
  \/ compositor_set_wallpaper \/ compositor_render

CompSpec == CompInit /\ [][CompNext]_compVars

----------------------------------------------------------------------------
(* Properties. *)

(* A column that looks different from what was last rendered is in a       *)
(* damage rectangle, however the rectangles were clipped, merged and, one  *)
(* too many, given up; so that the next frame shows it.  Not so where a    *)
(* surface disappears with its memory, shrinks, drops the others out of    *)
(* the list, or is the cursor, whose place is not its own: see Changes     *)
(* (compositor.c:146-345, 380-440, 579-604).                               *)
DamageCoversChanges == stale => column \in Damaged(damage)
=============================================================================
