---------------------------- MODULE CfsRunQueue ----------------------------
(***************************************************************************)
(* The red-black tree of the CFS run queue (cfs_scheduler.c).  A node is   *)
(* named by its task: tasks are enqueued once, as cfs_dequeue_task, which  *)
(* the header declares, does not exist; they are numbered in the order in  *)
(* which they are enqueued.  The memory of a node or of a task's sched_data *)
(* may be refused.                                                         *)
(*                                                                         *)
(* Nothing advances vruntime: the functions for it are declared only.  The *)
(* tree is checked for the values a task may have been given elsewhere.    *)
(***************************************************************************)
EXTENDS Totals, SequencesExt

CONSTANTS
  Tasks,        \* how many tasks there are
  Nil,          \* NULL
  VRuntimes,    \* values of vruntime
  Weights,      \* sched_prio_to_weight of the nice values a task is given
  NewWeight,    \* cfs_prio_to_weight(0), 1024
  MaxOdd        \* bound: refused allocations and priority changes, together

ASSUME CfsAssumption ==
  /\ Tasks \in Nat
  /\ Nil \notin Nat /\ Nil \notin [vruntime : Nat, weight : Nat]
  /\ VRuntimes \subseteq Nat /\ 0 \in VRuntimes
  /\ Weights \subseteq Nat /\ NewWeight \in Nat

Node == 1 .. Tasks
Side == {"left", "right"}
Other(side) == IF side = "left" THEN "right" ELSE "left"

VARIABLES
  rq,           \* root, leftmost, nr_running, load_weight, and the nodes:
                \* kid[side][node], parent[node], the set red
  sched_data,   \* [Node]: [vruntime, weight], or Nil
  enqueued,     \* how many tasks were enqueued
  refused,      \* history: those of them without a node
  early,        \* history: a priority was set for a task not enqueued
  faulted,      \* cfs_enqueue_task read through NULL
  odd

cfsVars == <<rq, sched_data, enqueued, refused, early, faulted, odd>>

CfsInit ==
  /\ rq = [root |-> Nil, leftmost |-> Nil, nr_running |-> 0, load_weight |-> 0,
           kid |-> [s \in Side |-> [n \in Node |-> Nil]],
           parent |-> [n \in Node |-> Nil], red |-> {}]
  /\ sched_data = [n \in Node |-> Nil]
  /\ enqueued = 0 /\ refused = {} /\ early = FALSE /\ faulted = FALSE /\ odd = 0

----------------------------------------------------------------------------
(* The tree. *)

(* Operators X_Y are faulty variants of X, which the properties notice.    *)
Hang_NoParent(t, x, p, s) == [t EXCEPT !.kid[s][p] = x]

(* x, or nothing, becomes the child of p on side s. *)
Hang(t, x, p, s) ==
  [t EXCEPT !.kid[s][p] = x,
            !.parent = [n \in Node |-> IF n = x THEN p ELSE @[n]]]

(* The child on the side away from s takes the place of x, and x becomes   *)
(* its child on side s.                                                    *)
Rotate(t, s, x) ==
  LET y     == t.kid[Other(s)][x]
      p     == t.parent[x]
      below == Hang(t, t.kid[s][y], x, Other(s))
      above == IF p = Nil THEN [below EXCEPT !.root = y, !.parent[y] = Nil]
               ELSE Hang(below, y, p, IF t.kid[s][p] = x THEN s ELSE Other(s))
  IN  Hang(above, x, y, s)

ParentIsRed(t, z) == t.parent[z] # Nil /\ t.parent[z] \in t.red

(* One round of the loop: the tree and the node at which the next one is.  *)
FixupRound(t, z) ==
  LET p     == t.parent[z]
      g     == t.parent[p]
      s     == IF t.kid["left"][g] = p THEN "left" ELSE "right"
      uncle == t.kid[Other(s)][g]
      inner == z = t.kid[Other(s)][p]
      t1    == IF inner THEN Rotate(t, s, p) ELSE t
      z1    == IF inner THEN p ELSE z
      p1    == t1.parent[z1]
      t2    == [t1 EXCEPT !.red = (@ \ {p1}) \cup {g}]
  IN  IF uncle # Nil /\ uncle \in t.red
        THEN [tree |-> [t EXCEPT !.red = (@ \ {p, uncle}) \cup {g}], at |-> g]
        ELSE [tree |-> Rotate(t2, Other(s), g), at |-> z1]

(* The loop; it ends before there were as many rounds as tasks. *)
rb_insert_fixup(t, z) ==
  LET done[k \in 0 .. Tasks] ==
        IF k = 0 THEN [tree |-> t, at |-> z]
        ELSE LET d == done[k - 1]
             IN  IF ParentIsRed(d.tree, d.at) THEN FixupRound(d.tree, d.at) ELSE d
      end == done[Tasks].tree
  IN  [end EXCEPT !.red = @ \ {end.root}]

(* The side of n on which vruntime v belongs; one step of the descent; the *)
(* node under which v is inserted, where the descent stays.                *)
SideFor(v, n) == IF v < sched_data[n].vruntime THEN "left" ELSE "right"
Below(t, v, n) ==
  LET k == t.kid[SideFor(v, n)][n] IN IF k = Nil THEN n ELSE k
Place(t, v) ==
  LET down[k \in 0 .. Tasks] == IF k = 0 THEN t.root ELSE Below(t, v, down[k - 1])
  IN  down[Tasks]

cfs_rb_insert(t, z, v) ==
  IF t.root = Nil
    THEN rb_insert_fixup([t EXCEPT !.root = z, !.leftmost = z, !.red = @ \cup {z}], z)
    ELSE LET y == Place(t, v)
             s == SideFor(v, y)
             l == IF s = "left" /\ y = t.leftmost THEN z ELSE t.leftmost
         IN  rb_insert_fixup(
               Hang([t EXCEPT !.leftmost = l, !.red = @ \cup {z}], z, y, s), z)

----------------------------------------------------------------------------
(* The calls. *)

NewData == [vruntime |-> 0, weight |-> NewWeight]

(* What cfs_enqueue_task finds or makes, see VRuntimes. *)
StartData(n) ==
  IF sched_data[n] # Nil THEN {sched_data[n]}
  ELSE {[NewData EXCEPT !.vruntime = v] : v \in VRuntimes}

cfs_pick_next_task == rq.leftmost

(* cfs_enqueue_task, with cfs_post_init_entity and cfs_place_entity; room  *)
(* says whether slab_alloc finds memory for the node.                      *)
cfs_enqueue_task(room) ==
  LET n == enqueued + 1
  IN  /\ ~faulted /\ enqueued < Tasks
      /\ room \/ odd < MaxOdd
      /\ odd' = IF room THEN odd ELSE odd + 1
      /\ \E d \in StartData(n) :
           /\ sched_data' = [sched_data EXCEPT ![n] = d]
           /\ rq' = LET t == IF room THEN cfs_rb_insert(rq, n, d.vruntime) ELSE rq
                    IN  [t EXCEPT !.nr_running = @ + 1, !.load_weight = @ + d.weight]
      /\ refused' = IF room THEN refused ELSE refused \cup {n}
      /\ enqueued' = n
      /\ UNCHANGED <<early, faulted>>

(* Without sched_data, and without memory for it, the weight is read from  *)
(* NULL.                                                                   *)
EnqueueFaults ==
  /\ ~faulted /\ enqueued < Tasks /\ odd < MaxOdd
  /\ sched_data[enqueued + 1] = Nil
  /\ faulted' = TRUE
  /\ odd' = odd + 1
  /\ UNCHANGED <<rq, sched_data, enqueued, refused, early>>

Reweigh_AddOnly(load, old, new) == load + new

Reweigh(load, old, new) == load - old + new

cfs_set_priority(n, weight) ==
  /\ ~faulted /\ odd < MaxOdd
  /\ odd' = odd + 1
  /\ LET d == IF sched_data[n] = Nil THEN NewData ELSE sched_data[n]
     IN  /\ sched_data' = [sched_data EXCEPT ![n] = [d EXCEPT !.weight = weight]]
         /\ rq' = [rq EXCEPT !.load_weight = Reweigh(@, d.weight, weight)]
  /\ early' = (early \/ n > enqueued)
  /\ UNCHANGED <<enqueued, refused, faulted>>

CfsNext ==
  \/ \E room \in BOOLEAN : cfs_enqueue_task(room)
  \/ EnqueueFaults
  \/ \E n \in Node, weight \in Weights : cfs_set_priority(n, weight)

CfsSpec == CfsInit /\ [][CfsNext]_cfsVars

----------------------------------------------------------------------------
(* Properties. *)

Queued == (1 .. enqueued) \ refused

(* The subtree of x from left to right, and its black height, -1 where it  *)
(* has none; to the depth of the number of tasks.                          *)
InOrder ==
  LET walk[k \in 0 .. Tasks] ==
        [x \in Node \cup {Nil} |->
           IF x = Nil \/ k = 0 THEN <<>>
           ELSE walk[k - 1][rq.kid["left"][x]] \o <<x>> \o walk[k - 1][rq.kid["right"][x]]]
  IN  walk[Tasks][rq.root]

BlackHeight ==
  LET height[k \in 0 .. Tasks] ==
        [x \in Node \cup {Nil} |->
           IF x = Nil \/ k = 0 THEN 0
           ELSE LET l == height[k - 1][rq.kid["left"][x]]
                    r == height[k - 1][rq.kid["right"][x]]
                IN  IF l = -1 \/ l # r THEN -1 ELSE l + (IF x \in rq.red THEN 0 ELSE 1)]
  IN  height[Tasks][rq.root]

(* After any insertions the tree holds every task that got a node, once,   *)
(* in the order of vruntime and of arrival among equals; the task that     *)
(* cfs_pick_next_task returns is the first of them; the tree is balanced  *)
(* (no red node has a red child, every path has as many black nodes) and   *)
(* the parent pointers that the next insertion climbs along agree with the *)
(* child pointers (cfs_scheduler.c:71-165).                                *)
TreeIsSortedQueue ==
  /\ LET tasks == InOrder
     IN  /\ ToSet(tasks) = Queued /\ Len(tasks) = Cardinality(Queued)
         /\ \A j, k \in 1 .. Len(tasks) :
              LET m == tasks[j]   n == tasks[k]
              IN  j < k => \/ sched_data[m].vruntime < sched_data[n].vruntime
                           \/ sched_data[m].vruntime = sched_data[n].vruntime /\ m < n
         /\ Queued # {} => cfs_pick_next_task = tasks[1]
  /\ BlackHeight # -1
  /\ \A n \in Queued :
       /\ n \in rq.red => rq.parent[n] \in Queued \ rq.red
       /\ IF rq.parent[n] = Nil THEN rq.root = n
          ELSE \E s \in Side : rq.kid[s][rq.parent[n]] = n

(* nr_running and load_weight are the number and the weight of the tasks   *)
(* enqueued, also of those that got no node, through changes of priority;  *)
(* unless the priority of a task is set before it is enqueued, when the    *)
(* load runs ahead, or below zero (cfs_scheduler.c:190-192, 244-249).      *)
LoadIsSum ==
  /\ rq.nr_running = enqueued
  /\ ~early => rq.load_weight = Total([n \in 1 .. enqueued |-> sched_data[n].weight])
=============================================================================
