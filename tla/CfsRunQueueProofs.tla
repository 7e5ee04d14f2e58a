------------------------- MODULE CfsRunQueueProofs -------------------------
(***************************************************************************)
(* For any number of tasks, and any values of vruntime and of the weights: *)
(* the red-black tree holds the queued tasks in their order and stays      *)
(* balanced, and the load is the sum of the weights.                       *)
(***************************************************************************)
EXTENDS CfsRunQueue, SequenceLemmas

Knot == Node \cup {Nil}
Data == [vruntime : Nat, weight : Nat]
TreeType ==
  [root : Knot, leftmost : Knot, nr_running : Int, load_weight : Int,
   kid : [Side -> [Node -> Knot]], parent : [Node -> Knot], red : SUBSET Node]

(* The order of the queue: by vruntime v, and by arrival among equals; m   *)
(* lies on side s of n.                                                    *)
Before(v, m, n) == v[m] < v[n] \/ (v[m] = v[n] /\ m < n)
On(v, s, m, n) == IF s = "left" THEN Before(v, m, n) ELSE Before(v, n, m)

(* The nodes Q hang on the root, and child and parent pointers agree. *)
Linked(t, Q) ==
  /\ Q \subseteq Node
  /\ t.root = Nil => Q = {}
  /\ t.root # Nil => t.root \in Q /\ t.parent[t.root] = Nil
  /\ \A n \in Q, u \in Side :
       t.kid[u][n] # Nil => t.kid[u][n] \in Q /\ t.parent[t.kid[u][n]] = n
  /\ \A n \in Q :
       n # t.root => t.parent[n] \in Q /\ \E u \in Side : t.kid[u][t.parent[n]] = n
  /\ \A n \in Node \ Q, u \in Side : t.kid[u][n] = Nil

(* sub[n] is the set of the nodes of the subtree under n. *)
Spans(t, Q, sub) ==
  /\ sub \in [Knot -> SUBSET Q]
  /\ \A n \in Knot \ Q : sub[n] = {}
  /\ t.root # Nil => sub[t.root] = Q
  /\ \A n \in Q : \A m \in Q : m \in sub[n] <=> m = n \/ \E u \in Side : m \in sub[t.kid[u][n]]
  /\ \A n \in Q : \A m \in sub[n] : sub[m] \subseteq sub[n]
  /\ \A n \in Q : \A m \in sub[n] : m # n => t.parent[m] \in sub[n]

Sorted(t, Q, sub, v) ==
  \A n \in Q, u \in Side : \A m \in sub[t.kid[u][n]] : On(v, u, m, n)

(* bh[n] is the number of black nodes on every path from n down. *)
Level(t, Q, bh) ==
  /\ bh \in [Knot -> Nat] /\ bh[Nil] = 0
  /\ \A n \in Q, u \in Side : bh[n] = bh[t.kid[u][n]] + (IF n \in t.red THEN 0 ELSE 1)

(* No red node, z aside, is the root or the child of a red one. *)
Reds(t, Q, z) ==
  /\ t.red \subseteq Q
  /\ \A n \in t.red : n # z => t.parent[n] # Nil /\ t.parent[n] \notin t.red

Least(t, Q, v) ==
  /\ Q # {} => t.leftmost \in Q
  /\ \A m \in Q : m # t.leftmost => Before(v, t.leftmost, m)

----------------------------------------------------------------------------
LEMMA SidesAre ==
  /\ \A s \in Side : Other(s) \in Side /\ Other(s) # s /\ Other(Other(s)) = s
  /\ \A s, u \in Side : u = s \/ u = Other(s)
BY DEF Side, Other

LEMMA OrderIs ==
  ASSUME NEW v \in [Node -> Nat]
  PROVE  /\ \A s \in Side, m \in Node : ~On(v, s, m, m)
         /\ \A s \in Side, m, n, o \in Node : On(v, s, m, n) /\ On(v, s, n, o) => On(v, s, m, o)
         /\ \A s \in Side, m, n \in Node : On(v, s, m, n) <=> On(v, Other(s), n, m)
         /\ \A s \in Side, m, n \in Node : ~(On(v, s, m, n) /\ On(v, Other(s), m, n))
         /\ \A s \in Side, m, n \in Node : m = n \/ On(v, s, m, n) \/ On(v, Other(s), m, n)
<1>1. /\ \A m \in Node : ~Before(v, m, m)
      /\ \A m, n, o \in Node : Before(v, m, n) /\ Before(v, n, o) => Before(v, m, o)
      /\ \A m, n \in Node : ~(Before(v, m, n) /\ Before(v, n, m))
      /\ \A m, n \in Node : m = n \/ Before(v, m, n) \/ Before(v, n, m)
  <2>1. \A m \in Node : v[m] \in Nat /\ m \in Int
    BY CfsAssumption DEF Node
  <2> QED BY <2>1 DEF Before
<1> QED BY <1>1 DEF On, Side, Other

----------------------------------------------------------------------------
(* Rotation. *)

Hung(t, r, x, p, s) ==
  /\ r \in TreeType
  /\ \A u \in Side, n \in Node : r.kid[u][n] = IF n = p /\ u = s THEN x ELSE t.kid[u][n]
  /\ \A n \in Node : r.parent[n] = IF n = x THEN p ELSE t.parent[n]
  /\ r.root = t.root /\ r.leftmost = t.leftmost /\ r.red = t.red
  /\ r.nr_running = t.nr_running /\ r.load_weight = t.load_weight

(* Setting the pointers of a tree leaves the rest of it alone. *)
Reset(t, r, k, p) ==
  /\ r \in TreeType /\ r.kid = k /\ r.parent = p
  /\ r.leftmost = t.leftmost /\ r.red = t.red
  /\ r.nr_running = t.nr_running /\ r.load_weight = t.load_weight

SetBoth(t, r, k, p) == r = [t EXCEPT !.kid = k, !.parent = p]
SetRoot(t, r, x, p) == r = [t EXCEPT !.root = x, !.parent = p]

LEMMA ResetIs ==
  ASSUME NEW t \in TreeType, NEW k \in [Side -> [Node -> Knot]], NEW p \in [Node -> Knot],
         NEW r, SetBoth(t, r, k, p)
  PROVE  Reset(t, r, k, p) /\ r.root = t.root
<1> DEFINE KS == [Side -> [Node -> Knot]]
           PS == [Node -> Knot]
           RS == SUBSET Node
<1>1. /\ TreeType = [root : Knot, leftmost : Knot, nr_running : Int, load_weight : Int,
                     kid : KS, parent : PS, red : RS]
      /\ k \in KS /\ p \in PS
  BY DEF TreeType
<1> HIDE DEF KS, PS, RS
<1> QED BY <1>1 DEF Reset, SetBoth

LEMMA ResetRoot ==
  ASSUME NEW t \in TreeType, NEW x \in Knot, NEW p \in [Node -> Knot],
         NEW r, SetRoot(t, r, x, p)
  PROVE  Reset(t, r, t.kid, p) /\ r.root = x
<1> DEFINE KS == [Side -> [Node -> Knot]]
           PS == [Node -> Knot]
           RS == SUBSET Node
<1>1. /\ TreeType = [root : Knot, leftmost : Knot, nr_running : Int, load_weight : Int,
                     kid : KS, parent : PS, red : RS]
      /\ p \in PS
  BY DEF TreeType
<1> HIDE DEF KS, PS, RS
<1> DEFINE r1 == [t EXCEPT !.root = x]
<1>2. /\ r1 \in TreeType /\ r1.root = x /\ r1.kid = t.kid
      /\ r1.leftmost = t.leftmost /\ r1.red = t.red
      /\ r1.nr_running = t.nr_running /\ r1.load_weight = t.load_weight
  BY <1>1
<1>3. r = [r1 EXCEPT !.parent = p]
  BY DEF SetRoot
<1> HIDE DEF r1
<1> QED BY <1>1, <1>2, <1>3 DEF Reset

LEMMA HangIs ==
  ASSUME NEW t \in TreeType, NEW x \in Knot, NEW p \in Node, NEW s \in Side
  PROVE  Hung(t, Hang(t, x, p, s), x, p, s)
<1> DEFINE r == Hang(t, x, p, s)
           k == [t.kid EXCEPT ![s][p] = x]
           q == [n \in Node |-> IF n = x THEN p ELSE t.parent[n]]
<1>1. /\ k \in [Side -> [Node -> Knot]]
      /\ \A u \in Side, n \in Node : k[u][n] = IF n = p /\ u = s THEN x ELSE t.kid[u][n]
  BY DEF TreeType
<1>2. /\ q \in [Node -> Knot]
      /\ \A n \in Node : q[n] = IF n = x THEN p ELSE t.parent[n]
  BY DEF TreeType, Knot
<1>3. SetBoth(t, r, k, q)
  BY Zenon DEF Hang, SetBoth
<1> HIDE DEF r, k, q
<1>4. Reset(t, r, k, q) /\ r.root = t.root
  BY <1>1, <1>2, <1>3, ResetIs
<1> QED BY <1>1, <1>2, <1>4 DEF Hung, Reset, r

Turned(t, r, s, x, y) ==
  LET b == t.kid[s][y]
      p == t.parent[x]
  IN  /\ r \in TreeType
      /\ \A u \in Side, n \in Node : r.kid[u][n] =
           IF n = y /\ u = s THEN x
           ELSE IF n = x /\ u = Other(s) THEN b
           ELSE IF n = p /\ t.kid[u][p] = x THEN y
           ELSE t.kid[u][n]
      /\ \A n \in Node : r.parent[n] =
           IF n = x THEN y ELSE IF n = y THEN p ELSE IF n = b THEN x ELSE t.parent[n]
      /\ r.root = (IF p = Nil THEN y ELSE t.root)
      /\ r.leftmost = t.leftmost /\ r.red = t.red
      /\ r.nr_running = t.nr_running /\ r.load_weight = t.load_weight

LEMMA RotateIs ==
  ASSUME NEW t \in TreeType, NEW s \in Side, NEW x \in Node,
         t.kid[Other(s)][x] \in Node, x # t.kid[Other(s)][x],
         t.parent[x] # x, t.parent[x] # t.kid[Other(s)][x],
         t.parent[x] # Nil => \E u \in Side : t.kid[u][t.parent[x]] = x
                                        /\ t.kid[Other(u)][t.parent[x]] # x
  PROVE  Turned(t, Rotate(t, s, x), s, x, t.kid[Other(s)][x])
<1> DEFINE y  == t.kid[Other(s)][x]
           b  == t.kid[s][y]
           o  == Other(s)
           p  == t.parent[x]
           w  == IF t.kid[s][p] = x THEN s ELSE o
           t1 == Hang(t, b, x, o)
           t2 == IF p = Nil THEN [t1 EXCEPT !.root = y, !.parent[y] = Nil]
                 ELSE Hang(t1, y, p, w)
           r  == Hang(t2, x, y, s)
<1>1. Rotate(t, s, x) = r
  BY Zenon DEF Rotate
<1>2. /\ y \in Node /\ x # y /\ p # x /\ p # y /\ y = t.kid[o][x]
      /\ o \in Side /\ o # s /\ p \in Knot /\ Nil \notin Node
      /\ y \in Knot /\ x \in Knot
  BY SidesAre, CfsAssumption DEF TreeType, Node, Knot
<1> HIDE DEF y
<1>3. b \in Knot
  BY <1>2 DEF TreeType
<1>4. Hung(t, t1, b, x, o)
  BY <1>2, <1>3, HangIs
<1>5. ASSUME p # Nil
      PROVE  /\ p \in Node /\ w \in Side
             /\ \A u \in Side : t.kid[u][p] = x <=> u = w
  <2>1. PICK u \in Side : t.kid[u][p] = x /\ t.kid[Other(u)][p] # x
    BY <1>5
  <2>2. p \in Node
    BY <1>2, <1>5 DEF Knot
  <2> QED BY <2>1, <2>2, SidesAre DEF o
<1> HIDE DEF t1, o, b, p, w
<1>6. t1 \in TreeType
  BY <1>4 DEF Hung
<1>7. /\ t2 \in TreeType
      /\ t2.root = (IF p = Nil THEN y ELSE t.root)
      /\ t2.leftmost = t.leftmost /\ t2.red = t.red
      /\ t2.nr_running = t.nr_running /\ t2.load_weight = t.load_weight
      /\ \A u \in Side, n \in Node : t2.kid[u][n] =
           IF n = p /\ p # Nil /\ u = w THEN y ELSE t1.kid[u][n]
      /\ \A n \in Node : t2.parent[n] = IF n = y THEN p ELSE t1.parent[n]
  <2>1. CASE p = Nil
    <3> DEFINE q == [t1.parent EXCEPT ![y] = Nil]
    <3>1. q \in [Node -> Knot]
      BY <1>6 DEF TreeType, Knot
    <3>2. \A n \in Node : q[n] = IF n = y THEN p ELSE t1.parent[n]
      BY <1>6, <2>1 DEF TreeType
    <3>3. SetRoot(t1, t2, y, q)
      BY <2>1, Zenon DEF SetRoot
    <3> HIDE DEF t2, q
    <3>4. Reset(t1, t2, t1.kid, q) /\ t2.root = y
      BY <1>2, <1>6, <3>1, <3>3, ResetRoot
    <3> QED BY <1>4, <2>1, <3>2, <3>4 DEF Hung, Reset
  <2>2. CASE p # Nil
    <3>1. p \in Node /\ w \in Side
      BY <1>5, <2>2
    <3>2. Hung(t1, Hang(t1, y, p, w), y, p, w)
      BY <1>2, <1>6, <3>1, HangIs
    <3>3. t2 = Hang(t1, y, p, w)
      BY <2>2
    <3> HIDE DEF t2
    <3>4. Hung(t1, t2, y, p, w)
      BY <3>2, <3>3
    <3> QED BY <1>4, <2>2, <3>4 DEF Hung
  <2> QED BY <2>1, <2>2
<1> HIDE DEF t2
<1>8. Hung(t2, r, x, y, s)
  BY <1>2, <1>7, HangIs
<1> HIDE DEF r
<1>9. /\ r \in TreeType
      /\ r.root = (IF p = Nil THEN y ELSE t.root)
      /\ r.leftmost = t.leftmost /\ r.red = t.red
      /\ r.nr_running = t.nr_running /\ r.load_weight = t.load_weight
  BY <1>7, <1>8 DEF Hung
<1>10. \A n \in Node : r.parent[n] =
         IF n = x THEN y ELSE IF n = y THEN p ELSE IF n = b THEN x ELSE t.parent[n]
  BY <1>4, <1>7, <1>8 DEF Hung
<1>11. \A u \in Side, n \in Node : r.kid[u][n] =
         IF n = y /\ u = s THEN x
         ELSE IF n = x /\ u = o THEN b
         ELSE IF n = p /\ t.kid[u][p] = x THEN y
         ELSE t.kid[u][n]
  <2>1. \A u \in Side, n \in Node : r.kid[u][n] =
           IF n = y /\ u = s THEN x ELSE t2.kid[u][n]
    BY <1>8 DEF Hung
  <2>2. \A u \in Side, n \in Node : t1.kid[u][n] =
           IF n = x /\ u = o THEN b ELSE t.kid[u][n]
    BY <1>4 DEF Hung
  <2>3. CASE p = Nil
    BY <1>2, <1>7, <2>1, <2>2, <2>3
  <2>4. CASE p # Nil
    BY <1>2, <1>5, <1>7, <2>1, <2>2, <2>4
  <2> QED BY <2>3, <2>4
<1> QED BY <1>1, <1>9, <1>10, <1>11 DEF Turned, o, b, p, y

Shaped(t, Q, sub, v) ==
  /\ t \in TreeType /\ v \in [Node -> Nat]
  /\ Linked(t, Q) /\ Spans(t, Q, sub) /\ Sorted(t, Q, sub, v)

(* Subtrees of the children of a node are disjoint and without the node. *)
Nested(t, Q, sub) ==
  /\ \A n \in Q : n \in Node /\ n # Nil /\ n \in sub[n] /\ sub[n] \subseteq Q
  /\ \A n \in Q, u \in Side :
       /\ t.kid[u][n] \in Q \cup {Nil}
       /\ n \notin sub[t.kid[u][n]]
       /\ sub[t.kid[u][n]] \subseteq sub[n]
       /\ \A m \in sub[t.kid[u][n]] : m \notin sub[t.kid[Other(u)][n]]
       /\ t.kid[u][n] # Nil => t.kid[u][n] \in sub[t.kid[u][n]] /\ t.kid[u][n] # n
       /\ t.kid[u][n] # Nil => t.kid[u][n] # t.kid[Other(u)][n]
  /\ \A n \in Q : n # t.root =>
       t.parent[n] \in Q /\ t.parent[n] # n /\ t.parent[n] \notin sub[n]

LEMMA SubtreesNest ==
  ASSUME NEW t, NEW Q, NEW sub, NEW v, Shaped(t, Q, sub, v)
  PROVE  Nested(t, Q, sub)
<1>1. \A n \in Q : n \in Node /\ n # Nil /\ n \in sub[n] /\ sub[n] \subseteq Q
  BY CfsAssumption DEF Shaped, Linked, Spans, Node, Knot
<1>2. \A n \in Q, u \in Side : t.kid[u][n] \in Q \cup {Nil}
  BY DEF Shaped, Linked
<1>3. sub[Nil] = {}
  BY <1>1 DEF Shaped, Spans, Knot
<1>4. \A n \in Q, u \in Side : n \notin sub[t.kid[u][n]]
  BY <1>1, OrderIs DEF Shaped, Sorted
<1>5. \A n \in Q, u \in Side : sub[t.kid[u][n]] \subseteq sub[n]
  BY <1>1, <1>2, <1>3 DEF Shaped, Spans
<1>6. ASSUME NEW n \in Q, NEW u \in Side, NEW m \in sub[t.kid[u][n]]
      PROVE  m \notin sub[t.kid[Other(u)][n]]
  <2>1. m \in Node
    BY <1>1, <1>2, <1>3
  <2>2. On(v, u, m, n)
    BY DEF Shaped, Sorted
  <2>3. ~On(v, Other(u), m, n)
    BY <1>1, <2>1, <2>2, OrderIs DEF Shaped
  <2> QED BY <2>3, SidesAre DEF Shaped, Sorted
<1>7. \A n \in Q, u \in Side : t.kid[u][n] # Nil =>
        /\ t.kid[u][n] \in sub[t.kid[u][n]] /\ t.kid[u][n] # n
        /\ t.kid[u][n] # t.kid[Other(u)][n]
  BY <1>1, <1>2, <1>4, <1>6
<1>8. ASSUME NEW n \in Q, n # t.root
      PROVE  t.parent[n] \in Q /\ t.parent[n] # n /\ t.parent[n] \notin sub[n]
  <2>1. t.parent[n] \in Q /\ \E u \in Side : t.kid[u][t.parent[n]] = n
    BY <1>8 DEF Shaped, Linked
  <2> QED BY <2>1, <1>4, <1>1
<1> QED BY <1>1, <1>2, <1>4, <1>5, <1>6, <1>7, <1>8 DEF Nested

LEMMA NodesAre ==
  ASSUME NEW t, NEW Q, NEW sub, NEW v, Shaped(t, Q, sub, v)
  PROVE  Q \subseteq Node /\ Q \subseteq Knot /\ Nil \notin Q /\ Nil \in Knot
BY SubtreesNest DEF Nested, Shaped, Linked, Knot

LEMMA KidsAre ==
  ASSUME NEW t, NEW Q, NEW sub, NEW v, Shaped(t, Q, sub, v)
  PROVE  /\ \A n \in Q, u \in Side : t.kid[u][n] \in Q \cup {Nil} /\ t.kid[u][n] \in Knot
         /\ \A n \in Q, u \in Side : t.kid[u][n] # Nil => t.parent[t.kid[u][n]] = n
<1>1. Linked(t, Q)
  BY DEF Shaped
<1> QED BY <1>1, NodesAre DEF Linked

(* What the nodes hold after x, on side s, came under y. *)
SubTurned(t, sub, s, x, y) ==
  [sub EXCEPT ![y] = sub[x], ![x] = {x} \cup sub[t.kid[s][x]] \cup sub[t.kid[s][y]]]

LEMMA RotationTurns ==
  ASSUME NEW t, NEW Q, NEW sub, NEW v, Shaped(t, Q, sub, v),
         NEW s \in Side, NEW x \in Q, t.kid[Other(s)][x] # Nil
  PROVE  Turned(t, Rotate(t, s, x), s, x, t.kid[Other(s)][x])
<1> DEFINE y == t.kid[Other(s)][x]
           p == t.parent[x]
<1>1. Nested(t, Q, sub) /\ Other(s) \in Side
  BY SubtreesNest, SidesAre
<1>2. t \in TreeType /\ x \in Node /\ y \in Node /\ y \in Q /\ x # y /\ y \in sub[y]
  BY <1>1 DEF Nested, Shaped
<1>3. x \notin sub[y]
  BY <1>1 DEF Nested
<1>4. CASE x = t.root
  <2>1. p = Nil
    BY <1>4 DEF Shaped, Linked
  <2> HIDE DEF y
  <2> QED BY <1>1, <1>2, <2>1, RotateIs DEF Nested, y
<1>5. CASE x # t.root
  <2>1. p \in Q /\ p # x /\ p \notin sub[x]
    BY <1>1, <1>5 DEF Nested
  <2>2. y \in sub[x]
    BY <1>1, <1>2 DEF Nested
  <2>3. PICK u \in Side : t.kid[u][p] = x
    BY <1>5 DEF Shaped, Linked
  <2>4. t.kid[Other(u)][p] # x
    BY <1>1, <1>2, <2>1, <2>3 DEF Nested
  <2>5. p # Nil => \E w \in Side : t.kid[w][p] = x /\ t.kid[Other(w)][p] # x
    BY <2>3, <2>4
  <2> QED BY <1>2, <2>1, <2>2, <2>5, RotateIs
<1> QED BY <1>4, <1>5

LEMMA RotationKeepsLinked ==
  ASSUME NEW t, NEW Q, NEW sub, NEW v, Shaped(t, Q, sub, v), NEW r,
         NEW s \in Side, NEW x \in Q, NEW y, y = t.kid[Other(s)][x], y # Nil,
         Turned(t, r, s, x, y)
  PROVE  Linked(r, Q)
<1> DEFINE o == Other(s)
           b == t.kid[s][y]
           p == t.parent[x]
<1>0. Nested(t, Q, sub)
  BY SubtreesNest
<1>1. /\ Nested(t, Q, sub) /\ o \in Side /\ o # s /\ Other(o) = s /\ y = t.kid[o][x]
      /\ \A u \in Side : u = s \/ u = o
  BY <1>0, SidesAre
<1>2. y \in Q /\ y # x /\ y \in sub[y] /\ x \notin sub[y] /\ y \in sub[x]
  BY <1>1 DEF Nested
<1>3. b # Nil => b \in Q /\ b # y /\ b # x /\ b \in sub[b] /\ b \in sub[y] /\ t.parent[b] = y
  <2>1. b # Nil => b \in Q /\ b # y /\ b \in sub[b] /\ sub[b] \subseteq sub[y]
    BY <1>1, <1>2 DEF Nested
  <2>2. b # Nil => t.parent[b] = y
    BY <1>2 DEF Shaped, Linked
  <2> HIDE DEF b
  <2> QED BY <1>2, <2>1, <2>2
<1>4. t.parent[y] = x
  BY <1>1 DEF Shaped, Linked
<1>5. /\ x = t.root <=> p = Nil
      /\ p # Nil => /\ p \in Q /\ p # x /\ p \notin sub[x] /\ p # y /\ p # b
                    /\ \E u \in Side : t.kid[u][p] = x
  <2>1. x = t.root => p = Nil
    BY DEF Shaped, Linked
  <2>2. x # t.root => p \in Q /\ p # x /\ p \notin sub[x] /\ p # Nil /\ \E u \in Side : t.kid[u][p] = x
    BY <1>1 DEF Nested, Shaped, Linked
  <2>3. b # Nil => b \in sub[x]
    <3>1. sub[y] \subseteq sub[x]
      BY <1>2 DEF Shaped, Spans
    <3> QED BY <1>3, <3>1
  <2> QED BY <1>2, <2>1, <2>2, <2>3
<1>6. /\ \A u \in Side, n \in Node : r.kid[u][n] =
           IF n = y /\ u = s THEN x
           ELSE IF n = x /\ u = o THEN b
           ELSE IF n = p /\ t.kid[u][p] = x THEN y
           ELSE t.kid[u][n]
      /\ \A n \in Node : r.parent[n] =
           IF n = x THEN y ELSE IF n = y THEN p ELSE IF n = b THEN x ELSE t.parent[n]
      /\ r.root = (IF p = Nil THEN y ELSE t.root)
  BY DEF Turned
<1> HIDE DEF o, b, p
<1>7. /\ Q \subseteq Node /\ t.root # Nil /\ t.root \in Q /\ t.parent[t.root] = Nil
      /\ x # Nil
  BY <1>0 DEF Shaped, Linked, Nested
<1>8. r.root \in Q /\ r.parent[r.root] = Nil /\ r.root # Nil
  BY <1>2, <1>3, <1>4, <1>5, <1>6, <1>7 
<1>9. ASSUME NEW n \in Q, NEW u \in Side, r.kid[u][n] # Nil
      PROVE  r.kid[u][n] \in Q /\ r.parent[r.kid[u][n]] = n
  <2> DEFINE c == t.kid[u][n]
  <2>1. c # Nil => c \in Q /\ t.parent[c] = n
    BY DEF Shaped, Linked
  <2>2. CASE n = y /\ u = s
    BY <1>2, <1>6, <1>7, <2>2
  <2>3. CASE n = x /\ u = o
    BY <1>2, <1>3, <1>6, <1>7, <1>9, <2>3
  <2>4. CASE n = p /\ t.kid[u][p] = x
    BY <1>2, <1>3, <1>5, <1>6, <1>7, <2>4
  <2>5. CASE ~(n = y /\ u = s) /\ ~(n = x /\ u = o) /\ ~(n = p /\ t.kid[u][p] = x)
    <3>1. r.kid[u][n] = c /\ c # Nil /\ c \in Q /\ t.parent[c] = n
      BY <1>6, <1>7, <1>9, <2>1, <2>5
    <3> HIDE DEF c
    <3>2. c # x
      BY <2>5, <3>1 DEF c, p
    <3>3. c # y
      <4>1. y # t.kid[s][x]
        BY <1>1 DEF Nested
      <4>2. c = y => n = x
        BY <1>4, <3>1
      <4>3. n = x => u = s
        BY <1>1, <2>5
      <4> QED BY <4>1, <4>2, <4>3 DEF c
    <3>4. c # b
      <4>1. b # Nil => b # t.kid[o][y]
        BY <1>1, <1>2 DEF Nested, b
      <4>2. c = b => n = y
        BY <1>3, <3>1
      <4>3. n = y => u = o
        BY <1>1, <2>5
      <4> QED BY <3>1, <4>1, <4>2, <4>3 DEF c
    <3> QED BY <1>6, <1>7, <3>1, <3>2, <3>3, <3>4
  <2> QED BY <2>2, <2>3, <2>4, <2>5
<1>10. ASSUME NEW n \in Q, n # r.root
       PROVE  r.parent[n] \in Q /\ \E u \in Side : r.kid[u][r.parent[n]] = n
  <2>1. CASE n = x
    BY <1>1, <1>2, <1>6, <1>7, <2>1
  <2>2. CASE n = y
    <3>1. p # Nil /\ r.parent[y] = p
      BY <1>2, <1>6, <1>7, <1>10, <2>2
    <3>2. PICK u \in Side : t.kid[u][p] = x
      BY <1>5, <3>1
    <3>3. r.kid[u][p] = y
      BY <1>5, <1>6, <1>7, <3>1, <3>2
    <3> QED BY <1>5, <2>2, <3>1, <3>3
  <2>3. CASE n = b /\ n # x /\ n # y
    <3>1. r.parent[n] = x /\ r.kid[o][x] = b
      BY <1>1, <1>2, <1>6, <1>7, <2>3
    <3> QED BY <1>1, <2>3, <3>1
  <2>4. CASE n # x /\ n # y /\ n # b
    <3>1. n # t.root
      BY <1>5, <1>6, <1>10, <2>4
    <3>2. r.parent[n] = t.parent[n] /\ t.parent[n] \in Q
      BY <1>6, <1>7, <2>4, <3>1 DEF Shaped, Linked
    <3>3. PICK u \in Side : t.kid[u][t.parent[n]] = n
      BY <3>1 DEF Shaped, Linked
    <3>4. r.kid[u][t.parent[n]] = n
      BY <1>1, <1>6, <1>7, <2>4, <3>2, <3>3 DEF b
    <3> QED BY <3>2, <3>4
  <2> QED BY <2>1, <2>2, <2>3, <2>4
<1>11. \A n \in Node \ Q, u \in Side : r.kid[u][n] = Nil
  BY <1>2, <1>5, <1>6, <1>7 DEF Shaped, Linked
<1> QED BY <1>7, <1>8, <1>9, <1>10, <1>11 DEF Linked

LEMMA RotationKeepsSpans ==
  ASSUME NEW t, NEW Q, NEW sub, NEW v, Shaped(t, Q, sub, v), NEW r,
         NEW s \in Side, NEW x \in Q, NEW y, y = t.kid[Other(s)][x], y # Nil,
         Turned(t, r, s, x, y)
  PROVE  Spans(r, Q, SubTurned(t, sub, s, x, y)) /\ Sorted(r, Q, SubTurned(t, sub, s, x, y), v)
<1> DEFINE o == Other(s)
           a == t.kid[s][x]
           b == t.kid[s][y]
           c == t.kid[o][y]
           p == t.parent[x]
           new == SubTurned(t, sub, s, x, y)
<1>0. Nested(t, Q, sub)
  BY SubtreesNest
<1>1. /\ o \in Side /\ o # s /\ Other(o) = s /\ y = t.kid[o][x] /\ Other(s) = o
      /\ \A u \in Side : u = s \/ u = o
  BY SidesAre
<1>2. y \in Q /\ y # x /\ y \in sub[y] /\ x \notin sub[y] /\ y \in sub[x] /\ sub[y] \subseteq sub[x]
  BY <1>0, <1>1 DEF Nested
<1>3. /\ a \in Knot /\ b \in Knot /\ c \in Knot
      /\ sub \in [Knot -> SUBSET Q] /\ Q \subseteq Node /\ x \in Knot /\ y \in Knot
      /\ Nil \notin Q /\ Q \subseteq Knot
      /\ \A n \in Q, u \in Side : t.kid[u][n] \in Knot
      /\ \A n \in Knot \ Q : sub[n] = {}
  <2>1. Q \subseteq Node /\ Q \subseteq Knot /\ Nil \notin Q
    BY NodesAre
  <2>2. \A n \in Q, u \in Side : t.kid[u][n] \in Knot
    BY KidsAre
  <2>3. sub \in [Knot -> SUBSET Q] /\ \A n \in Knot \ Q : sub[n] = {}
    BY DEF Shaped, Spans
  <2>4. a \in Knot /\ b \in Knot /\ c \in Knot
    BY <1>1, <1>2, <2>2
  <2> QED BY <1>2, <2>1, <2>2, <2>3, <2>4
<1>4. /\ \A m \in Q : m \in sub[x] <=> m = x \/ m \in sub[a] \/ m \in sub[y]
      /\ \A m \in Q : m \in sub[y] <=> m = y \/ m \in sub[b] \/ m \in sub[c]
  <2>1. \A n, m \in Q : m \in sub[n] <=> m = n \/ \E u \in Side : m \in sub[t.kid[u][n]]
    BY DEF Shaped, Spans
  <2>2. \A m \in Q : m \in sub[x] <=> m = x \/ m \in sub[a] \/ m \in sub[y]
    BY <1>1, <2>1
  <2>3. \A m \in Q : m \in sub[y] <=> m = y \/ m \in sub[b] \/ m \in sub[c]
    BY <1>1, <1>2, <2>1
  <2> QED BY <2>2, <2>3
<1>5. /\ new[y] = sub[x]
      /\ \A m \in Q : m \in new[x] <=> m = x \/ m \in sub[a] \/ m \in sub[b]
      /\ \A n \in Knot : n # x /\ n # y => new[n] = sub[n]
      /\ new \in [Knot -> SUBSET Q]
  BY <1>2, <1>3 DEF SubTurned
<1> HIDE DEF new
<1>6. /\ a # x /\ a # y /\ b # x /\ b # y /\ c # x /\ c # y
      /\ new[a] = sub[a] /\ new[b] = sub[b] /\ new[c] = sub[c]
  <2>0. /\ \A n \in Q, u \in Side : t.kid[u][n] # n
        /\ \A n \in Q, u \in Side : t.kid[u][n] # Nil => t.kid[u][n] \in sub[n]
        /\ \A n \in Q, u \in Side : t.kid[u][n] # Nil => t.kid[u][n] # t.kid[Other(u)][n]
    <3>1. \A n \in Q : n # Nil
      BY <1>3
    <3> QED BY <1>0, <3>1 DEF Nested
  <2>1. a # x /\ a # y
    <3>1. a # x
      BY <2>0
    <3>2. y # Nil => y # t.kid[Other(o)][x]
      BY <1>1, <2>0
    <3> QED BY <1>1, <3>1, <3>2
  <2>2. b # y /\ c # y /\ (b # Nil => b \in sub[y]) /\ (c # Nil => c \in sub[y])
    BY <1>1, <1>2, <2>0
  <2>3. b # x /\ c # x
    BY <1>2, <1>3, <2>2
  <2> QED BY <1>3, <1>5, <2>1, <2>2, <2>3
<1>7. /\ p # Nil => /\ p \in Q /\ p # x /\ p \notin sub[x] /\ p # y
      /\ p = Nil <=> x = t.root
      /\ t.parent[y] = x
      /\ b # Nil => t.parent[b] = y
  <2>1. x = t.root => p = Nil
    BY DEF Shaped, Linked
  <2>2. x # t.root => p \in Q /\ p # x /\ p \notin sub[x] /\ p # Nil
    BY <1>0, <1>3 DEF Nested, Shaped, Linked
  <2>3. t.parent[y] = x /\ (b # Nil => t.parent[b] = y)
    <3>1. \A n \in Q, u \in Side : t.kid[u][n] # Nil => t.parent[t.kid[u][n]] = n
      BY KidsAre
    <3> QED BY <1>1, <1>2, <3>1
  <2> QED BY <1>2, <2>1, <2>2, <2>3
<1>8. /\ \A u \in Side, n \in Node : r.kid[u][n] =
           IF n = y /\ u = s THEN x
           ELSE IF n = x /\ u = o THEN b
           ELSE IF n = p /\ t.kid[u][p] = x THEN y
           ELSE t.kid[u][n]
      /\ \A n \in Node : r.parent[n] =
           IF n = x THEN y ELSE IF n = y THEN p ELSE IF n = b THEN x ELSE t.parent[n]
      /\ r.root = (IF p = Nil THEN y ELSE t.root)
  BY DEF Turned
<1> HIDE DEF o, a, b, c, p
<1>9. /\ r.kid[s][y] = x /\ r.kid[o][y] = c /\ r.kid[s][x] = a /\ r.kid[o][x] = b
      /\ \A n \in Q, u \in Side : n # x /\ n # y =>
           \/ r.kid[u][n] = y /\ t.kid[u][n] = x
           \/ r.kid[u][n] = t.kid[u][n] /\ t.kid[u][n] # x /\ t.kid[u][n] # y
  <2>1. r.kid[s][y] = x /\ r.kid[o][y] = c /\ r.kid[s][x] = a /\ r.kid[o][x] = b
    BY <1>1, <1>2, <1>3, <1>7, <1>8 DEF a, c
  <2>2. ASSUME NEW n \in Q, NEW u \in Side, n # x, n # y
        PROVE  \/ r.kid[u][n] = y /\ t.kid[u][n] = x
               \/ r.kid[u][n] = t.kid[u][n] /\ t.kid[u][n] # x /\ t.kid[u][n] # y
    <3>1. t.kid[u][n] # y
      <4>1. t.kid[u][n] # Nil => t.parent[t.kid[u][n]] = n
        BY KidsAre
      <4> QED BY <1>2, <1>3, <1>7, <2>2, <4>1
    <3>2. t.kid[u][n] = x => n = p
      <4>1. t.kid[u][n] # Nil => t.parent[t.kid[u][n]] = n
        BY KidsAre
      <4> QED BY <1>3, <4>1 DEF p
    <3> QED BY <1>3, <1>8, <2>2, <3>1, <3>2
  <2> QED BY <2>1, <2>2
<1>10. \A n \in Q, u \in Side : n # x /\ n # y => new[r.kid[u][n]] = sub[t.kid[u][n]]
  BY <1>3, <1>5, <1>9
<1>11. r.root # Nil => new[r.root] = Q
  <2>1. t.root # Nil /\ t.root \in Q /\ sub[t.root] = Q /\ t.parent[t.root] = Nil
    BY DEF Shaped, Linked, Spans
  <2>2. CASE p = Nil
    BY <1>5, <1>7, <1>8, <2>1, <2>2
  <2>3. CASE p # Nil
    <3>1. t.root # y
      BY <1>3, <1>7, <2>1
    <3> QED BY <1>3, <1>5, <1>7, <1>8, <2>1, <2>3, <3>1
  <2> QED BY <2>2, <2>3
<1>12. ASSUME NEW n \in Q, NEW m \in Q
       PROVE  m \in new[n] <=> m = n \/ \E u \in Side : m \in new[r.kid[u][n]]
  <2>1. CASE n = x
    <3>1. m \in new[x] <=> m = x \/ m \in sub[a] \/ m \in sub[b]
      BY <1>5
    <3>2. (\E u \in Side : m \in new[r.kid[u][x]]) <=> m \in sub[a] \/ m \in sub[b]
      BY <1>1, <1>6, <1>9
    <3> QED BY <2>1, <3>1, <3>2
  <2>2. CASE n = y
    <3>1. m \in new[y] <=> m = x \/ m \in sub[a] \/ m = y \/ m \in sub[b] \/ m \in sub[c]
      BY <1>4, <1>5
    <3>2. (\E u \in Side : m \in new[r.kid[u][y]]) <=> m \in new[x] \/ m \in sub[c]
      BY <1>1, <1>6, <1>9
    <3> QED BY <1>5, <2>2, <3>1, <3>2
  <2>3. CASE n # x /\ n # y
    <3>1. m \in sub[n] <=> m = n \/ \E u \in Side : m \in sub[t.kid[u][n]]
      BY DEF Shaped, Spans
    <3> QED BY <1>3, <1>5, <1>10, <2>3, <3>1
  <2> QED BY <2>1, <2>2, <2>3
<1>13. /\ \A n \in Q : \A m \in sub[n] : sub[m] \subseteq sub[n]
       /\ \A n \in Q : \A m \in sub[n] : m # n => t.parent[m] \in sub[n]
       /\ \A n \in Q : sub[n] \subseteq Q /\ n \in sub[n]
  BY <1>0 DEF Nested, Shaped, Spans
<1>14. new[x] \subseteq sub[x] /\ \A n \in Q : n # x /\ n # y => new[n] = sub[n]
  BY <1>2, <1>3, <1>4, <1>5
<1>15. y \notin sub[a] /\ y \notin sub[b] /\ x \notin sub[a] /\ x \notin sub[b]
  <2>1. /\ \A k \in Q, u \in Side : k \notin sub[t.kid[u][k]]
        /\ \A k \in Q, u \in Side : \A l \in sub[t.kid[u][k]] : l \notin sub[t.kid[Other(u)][k]]
    BY <1>0 DEF Nested
  <2>2. x \notin sub[a] /\ y \notin sub[b]
    BY <1>2, <2>1 DEF a, b
  <2>3. y \notin sub[a]
    <3>1. y \notin sub[t.kid[Other(o)][x]]
      BY <1>1, <1>2, <2>1
    <3> QED BY <1>1, <3>1 DEF a
  <2>4. x \notin sub[b]
    BY <1>2, <1>4
  <2> QED BY <2>2, <2>3, <2>4
<1>16. ASSUME NEW n \in Q, NEW m \in new[n]
       PROVE  new[m] \subseteq new[n]
  <2>1. m \in Q
    BY <1>3, <1>5
  <2>2. CASE n = y
    BY <1>2, <1>3, <1>5, <1>13, <1>14, <2>1, <2>2
  <2>3. CASE n = x
    <3>1. m # y
      BY <1>2, <1>5, <1>15, <2>1, <2>3
    <3>2. m # x => new[m] = sub[m] /\ (m \in sub[a] \/ m \in sub[b])
      BY <1>5, <1>14, <2>1, <2>3, <3>1
    <3>3. /\ a \in Q \/ sub[a] = {}
          /\ b \in Q \/ sub[b] = {}
      BY <1>3
    <3>4. m # x => sub[m] \subseteq sub[a] \/ sub[m] \subseteq sub[b]
      BY <1>13, <3>2, <3>3
    <3> QED BY <1>3, <1>5, <1>13, <2>1, <2>3, <3>2, <3>4
  <2>4. CASE n # x /\ n # y
    <3>1. new[n] = sub[n]
      BY <1>14, <2>4
    <3>2. CASE m = y
      BY <1>5, <1>7, <1>13, <2>4, <3>1, <3>2
    <3>3. CASE m = x
      BY <1>13, <1>14, <3>1, <3>3
    <3>4. CASE m # x /\ m # y
      BY <1>13, <1>14, <2>1, <3>1, <3>4
    <3> QED BY <3>2, <3>3, <3>4
  <2> QED BY <2>2, <2>3, <2>4
<1>17. ASSUME NEW n \in Q, NEW m \in new[n], m # n
       PROVE  r.parent[m] \in new[n]
  <2>1. m \in Q /\ m \in Node
    BY <1>3, <1>5
  <2>2. r.parent[m] = IF m = x THEN y ELSE IF m = y THEN p ELSE IF m = b THEN x ELSE t.parent[m]
    BY <1>8, <2>1
  <2>3. CASE n = y
    <3>1. m \in sub[x] /\ (m # x => t.parent[m] \in sub[x])
      BY <1>5, <1>13, <2>3
    <3> QED BY <1>2, <1>5, <1>13, <1>17, <2>2, <2>3, <3>1
  <2>4. CASE n = x
    <3>1. m \in sub[a] \/ m \in sub[b]
      BY <1>5, <1>17, <2>1, <2>4
    <3>2. m # y /\ m # x
      BY <1>15, <3>1
    <3>3. x \in new[x] /\ sub[a] \subseteq new[x] /\ sub[b] \subseteq new[x]
      BY <1>3, <1>5
    <3>4. CASE m = b
      BY <2>2, <2>4, <3>2, <3>3, <3>4
    <3>5. CASE m # b /\ m \in sub[b]
      <4>1. b \in Q
        BY <1>3, <3>5
      <4> QED BY <1>13, <2>2, <2>4, <3>2, <3>3, <3>5, <4>1
    <3>6. CASE m # b /\ m \in sub[a]
      <4>1. a \in Q
        BY <1>3, <3>6
      <4>2. a # Nil /\ t.parent[a] = x
        BY <1>3, <4>1 DEF Shaped, Linked, a
      <4> QED BY <1>13, <2>2, <2>4, <3>2, <3>3, <3>6, <4>1, <4>2
    <3> QED BY <3>1, <3>4, <3>5, <3>6
  <2>5. CASE n # x /\ n # y
    <3>1. new[n] = sub[n] /\ m \in sub[n] /\ t.parent[m] \in sub[n]
      BY <1>13, <1>14, <1>17, <2>5
    <3>2. CASE m = x
      BY <1>2, <1>13, <2>2, <3>1, <3>2
    <3>3. CASE m = y
      <4>1. x \in sub[n]
        BY <1>7, <3>1, <3>3
      <4>2. p \in sub[n]
        BY <1>13, <2>5, <4>1 DEF p
      <4> QED BY <1>2, <2>2, <3>1, <3>3, <4>2
    <3>4. CASE m = b
      <4>1. y \in sub[n]
        BY <1>3, <1>7, <2>1, <3>1, <3>4
      <4>2. x \in sub[n]
        BY <1>7, <1>13, <2>5, <4>1
      <4> QED BY <1>6, <2>2, <3>1, <3>4, <4>2
    <3>5. CASE m # x /\ m # y /\ m # b
      BY <2>2, <3>1, <3>5
    <3> QED BY <3>2, <3>3, <3>4, <3>5
  <2> QED BY <2>3, <2>4, <2>5
<1>18. Spans(r, Q, new)
  <2>1. \A n \in Knot \ Q : new[n] = {}
    BY <1>2, <1>3, <1>5
  <2> QED BY <1>5, <1>11, <1>12, <1>16, <1>17, <2>1 DEF Spans
<1>19. ASSUME NEW n \in Q, NEW u \in Side, NEW m \in new[r.kid[u][n]]
       PROVE  On(v, u, m, n)
  <2>0. \A k \in Q, w \in Side : \A l \in sub[t.kid[w][k]] : On(v, w, l, k)
    BY DEF Shaped, Sorted
  <2>1. CASE n # x /\ n # y
    BY <1>10, <2>0, <2>1
  <2>2. CASE n = x
    <3>1. CASE u = s
      <4>1. m \in sub[a]
        BY <1>6, <1>9, <2>2, <3>1
      <4> QED BY <2>0, <2>2, <3>1, <4>1 DEF a
    <3>2. CASE u = o
      <4>1. m \in sub[b]
        BY <1>6, <1>9, <2>2, <3>2
      <4>2. m \in sub[y]
        BY <1>3, <1>4, <4>1
      <4> QED BY <1>1, <2>0, <2>2, <3>2, <4>2
    <3> QED BY <1>1, <3>1, <3>2
  <2>3. CASE n = y /\ u = o
    BY <1>6, <1>9, <1>2, <2>0, <2>3 DEF c
  <2>4. CASE n = y /\ u = s
    <3>0. m \in new[x] /\ m \in Q /\ m \in Node /\ x \in Node /\ y \in Node
      <4>1. m \in new[x]
        BY <1>9, <2>4
      <4>2. m \in Q
        BY <1>3, <1>5, <4>1
      <4> QED BY <1>2, <1>3, <4>1, <4>2
    <3>1. On(v, o, y, x)
      BY <1>1, <1>2, <2>0
    <3>2. On(v, s, x, y)
      BY <1>1, <3>0, <3>1, OrderIs DEF Shaped
    <3>3. CASE m = x
      BY <2>4, <3>2, <3>3
    <3>4. CASE m \in sub[b]
      BY <1>2, <2>0, <2>4, <3>4 DEF b
    <3>5. CASE m \in sub[a]
      <4>1. On(v, s, m, x)
        BY <2>0, <3>5 DEF a
      <4> QED BY <2>4, <3>0, <3>2, <4>1, OrderIs DEF Shaped
    <3> QED BY <1>5, <3>0, <3>3, <3>4, <3>5
  <2> QED BY <1>1, <2>1, <2>2, <2>3, <2>4
<1> QED BY <1>18, <1>19 DEF Sorted, new

LEMMA RotationKeeps ==
  ASSUME NEW t, NEW Q, NEW sub, NEW v, Shaped(t, Q, sub, v),
         NEW s \in Side, NEW x \in Q, t.kid[Other(s)][x] # Nil
  PROVE  /\ Shaped(Rotate(t, s, x), Q, SubTurned(t, sub, s, x, t.kid[Other(s)][x]), v)
         /\ Turned(t, Rotate(t, s, x), s, x, t.kid[Other(s)][x])
<1> DEFINE y == t.kid[Other(s)][x]
           r == Rotate(t, s, x)
           new == SubTurned(t, sub, s, x, y)
<1>1. Turned(t, r, s, x, y) /\ y = t.kid[Other(s)][x] /\ y # Nil
  BY RotationTurns
<1> HIDE DEF r, y, new
<1>2. Linked(r, Q)
  BY <1>1, RotationKeepsLinked
<1>3. Spans(r, Q, new) /\ Sorted(r, Q, new, v)
  BY <1>1, RotationKeepsSpans DEF new
<1>4. r \in TreeType
  BY <1>1 DEF Turned
<1> QED BY <1>1, <1>2, <1>3, <1>4 DEF Shaped, r, y, new

----------------------------------------------------------------------------
(* One round of the repair. *)

Balanced(t, Q, sub, bh, v, z) ==
  Shaped(t, Q, sub, v) /\ Level(t, Q, bh) /\ Reds(t, Q, z) /\ z \in t.red

SameCounts(t, r) ==
  /\ r.leftmost = t.leftmost /\ r.nr_running = t.nr_running /\ r.load_weight = t.load_weight

Recolored(t, r, R) ==
  /\ r \in TreeType /\ r.red = R /\ r.kid = t.kid /\ r.parent = t.parent /\ r.root = t.root
  /\ SameCounts(t, r)

LEMMA RecoloredIs ==
  ASSUME NEW t \in TreeType, NEW R \in SUBSET Node
  PROVE  Recolored(t, [t EXCEPT !.red = R], R)
<1> DEFINE KS == [Side -> [Node -> Knot]]
           PS == [Node -> Knot]
           RS == SUBSET Node
<1>1. TreeType = [root : Knot, leftmost : Knot, nr_running : Int, load_weight : Int,
                  kid : KS, parent : PS, red : RS] /\ R \in RS
  BY DEF TreeType
<1> HIDE DEF KS, PS, RS
<1> QED BY <1>1 DEF Recolored, SameCounts

LEMMA RecoloredShaped ==
  ASSUME NEW t, NEW r, NEW R, Recolored(t, r, R), NEW Q, NEW sub, NEW v, Shaped(t, Q, sub, v)
  PROVE  Shaped(r, Q, sub, v)
<1>1. r \in TreeType /\ r.kid = t.kid /\ r.parent = t.parent /\ r.root = t.root
  BY DEF Recolored
<1>2. Linked(r, Q)
  BY <1>1 DEF Shaped, Linked
<1>3. Spans(r, Q, sub)
  BY <1>1 DEF Shaped, Spans
<1> QED BY <1>1, <1>2, <1>3 DEF Shaped, Sorted

(* The facts of the loop: the red parent of z is not the root. *)
Above(t, Q, sub, z, p, g) ==
  /\ z \in Q /\ p \in Q /\ g \in Q /\ p \in t.red /\ g \notin t.red
  /\ p # z /\ g # p /\ g # z
  /\ z \in sub[p] /\ p \in sub[g] /\ \A u \in Side : t.kid[u][g] # g
  /\ \E u \in Side : t.kid[u][p] = z
  /\ \E u \in Side : t.kid[u][g] = p

LEMMA GrandparentIs ==
  ASSUME NEW t, NEW Q, NEW sub, NEW bh, NEW v, NEW z, Balanced(t, Q, sub, bh, v, z),
         ParentIsRed(t, z)
  PROVE  Above(t, Q, sub, z, t.parent[z], t.parent[t.parent[z]])
<1> DEFINE p == t.parent[z]
           g == t.parent[p]
<1>0. Nested(t, Q, sub)
  BY SubtreesNest DEF Balanced
<1>1. z \in Q /\ p \in Q /\ p \in t.red /\ p # Nil /\ p # z
  BY <1>0 DEF Balanced, Reds, ParentIsRed, Nested, Shaped, Linked
<1>2. g # Nil /\ g \notin t.red
  BY <1>1 DEF Balanced, Reds
<1>3. z # t.root /\ p # t.root
  BY <1>1, <1>2 DEF Balanced, Shaped, Linked
<1>4. g \in Q /\ \E u \in Side : t.kid[u][g] = p
  BY <1>1, <1>3 DEF Balanced, Shaped, Linked
<1>5. \E u \in Side : t.kid[u][p] = z
  BY <1>1, <1>3 DEF Balanced, Shaped, Linked
<1>6. z \in sub[p] /\ p \in sub[g] /\ \A u \in Side : t.kid[u][g] # g
  BY <1>0, <1>1, <1>4, <1>5 DEF Nested
<1>7. g # z
  BY <1>1, <1>2 DEF Balanced
<1> QED BY <1>1, <1>2, <1>4, <1>5, <1>6, <1>7 DEF Above

(* p is the red parent of z, on side s of its own parent g. *)
Family(t, z, s, p, g) ==
  /\ ParentIsRed(t, z) /\ p = t.parent[z] /\ g = t.parent[p]
  /\ s \in Side /\ t.kid[s][g] = p

LEMMA FamilyIs ==
  ASSUME NEW t, NEW Q, NEW sub, NEW bh, NEW v, NEW z, Balanced(t, Q, sub, bh, v, z),
         NEW s, NEW p, NEW g, Family(t, z, s, p, g)
  PROVE  /\ t.parent[z] = p /\ t.parent[p] = g /\ s \in Side /\ t.kid[s][g] = p
         /\ z \in Q /\ p \in Q /\ g \in Q /\ p \in t.red /\ g \notin t.red
         /\ p # z /\ g # p /\ g # z /\ z \in sub[p] /\ p \in sub[g]
         /\ \A u \in Side : t.kid[u][g] # g
<1>1. ParentIsRed(t, z) /\ p = t.parent[z] /\ g = t.parent[p] /\ s \in Side /\ t.kid[s][g] = p
  BY DEF Family
<1>2. Above(t, Q, sub, z, t.parent[z], t.parent[t.parent[z]])
  BY <1>1, GrandparentIs
<1>3. Above(t, Q, sub, z, p, g)
  BY <1>1, <1>2, Zenon
<1> QED BY <1>1, <1>3 DEF Above

(* The nodes of a tree and the links between them. *)
(* Going down from n to m, the black nodes are one fewer when n is black. *)
Stepped(t, bh, n, m) ==
  IF n \in t.red THEN bh[n] = bh[m] ELSE bh[n] = bh[m] + 1

LEMMA LevelSteps ==
  ASSUME NEW t, NEW Q, NEW sub, NEW v, Shaped(t, Q, sub, v), NEW bh, Level(t, Q, bh)
  PROVE  /\ bh \in [Knot -> Nat] /\ bh[Nil] = 0
         /\ \A n \in Q, u \in Side : Stepped(t, bh, n, t.kid[u][n])
<1>1. bh \in [Knot -> Nat] /\ bh[Nil] = 0
  BY DEF Level
<1>2. ASSUME NEW n \in Q, NEW u \in Side PROVE Stepped(t, bh, n, t.kid[u][n])
  <2> DEFINE m == bh[t.kid[u][n]]
  <2>1. bh[n] = m + (IF n \in t.red THEN 0 ELSE 1)
    BY DEF Level
  <2>2. m \in Nat
    BY <1>1, KidsAre
  <2> HIDE DEF m
  <2>3. m + 0 = m
    BY <2>2
  <2>4. n \in t.red => bh[n] = m
    BY <2>1, <2>3, Zenon
  <2>5. n \notin t.red => bh[n] = m + 1
    BY <2>1, Zenon
  <2> QED BY <2>4, <2>5, Zenon DEF Stepped, m
<1> QED BY <1>1, <1>2

LEMMA StepsLevel ==
  ASSUME NEW t, NEW Q, Q \subseteq Knot, NEW bh, bh \in [Knot -> Nat], bh[Nil] = 0,
         \A n \in Q, u \in Side : Stepped(t, bh, n, t.kid[u][n])
  PROVE  Level(t, Q, bh)
<1>1. ASSUME NEW n \in Q, NEW u \in Side
      PROVE  bh[n] = bh[t.kid[u][n]] + (IF n \in t.red THEN 0 ELSE 1)
  <2> DEFINE m == bh[t.kid[u][n]]
             h == bh[n]
  <2>1. IF n \in t.red THEN h = m ELSE h = m + 1
    BY Zenon DEF Stepped
  <2>2. h \in Nat
    OBVIOUS
  <2> HIDE DEF m, h
  <2>3. CASE n \in t.red
    <3>1. h = m /\ m + 0 = m
      BY <2>1, <2>2, <2>3
    <3> QED BY <2>3, <3>1, Zenon DEF m, h
  <2>4. CASE n \notin t.red
    <3>1. h = m + 1
      BY <2>1, <2>4, Zenon
    <3> QED BY <2>4, <3>1, Zenon DEF m, h
  <2> QED BY <2>3, <2>4
<1> QED BY <1>1 DEF Level

(* The colours after a round: g is red, p is not, nor is q. *)
Repainted(t, p, q, g) == (t.red \ {p, q}) \cup {g}

LEMMA RepaintedIs ==
  ASSUME NEW t, NEW p, NEW q, NEW g
  PROVE  \A n : n \in Repainted(t, p, q, g) <=> n = g \/ (n \in t.red /\ n # p /\ n # q)
BY DEF Repainted

LEMMA RemovedTwice ==
  ASSUME NEW t, NEW p, NEW g
  PROVE  (t.red \ {p}) \cup {g} = (t.red \ {p, p}) \cup {g}
OBVIOUS

(* The uncle is red: colours change, and the repair goes on at g. *)
LEMMA UncleRed ==
  ASSUME NEW t, NEW Q, NEW sub, NEW bh, NEW v, NEW z, Balanced(t, Q, sub, bh, v, z),
         NEW s, NEW p, NEW g, Family(t, z, s, p, g),
         NEW q, q = t.kid[Other(s)][g], q \in t.red,
         NEW r, Recolored(t, r, Repainted(t, p, q, g))
  PROVE  /\ \E lv : Balanced(r, Q, sub, lv, v, g)
         /\ sub[z] \subseteq sub[g] /\ g \notin sub[z]
<1>0. Nested(t, Q, sub) /\ Shaped(t, Q, sub, v) /\ Level(t, Q, bh) /\ Reds(t, Q, z)
  BY SubtreesNest DEF Balanced
<1>1. /\ t.parent[z] = p /\ t.parent[p] = g /\ s \in Side /\ t.kid[s][g] = p
      /\ z \in Q /\ p \in Q /\ g \in Q /\ p \in t.red /\ g \notin t.red
      /\ p # z /\ g # p /\ g # z /\ z \in sub[p] /\ p \in sub[g]
  BY FamilyIs
<1>k. Q \subseteq Node /\ Q \subseteq Knot /\ Nil \notin Q /\ Nil \in Knot
  BY <1>0, NodesAre
<1>2. q \in Q /\ q # p /\ q # g /\ p # Nil /\ q # Nil /\ t.parent[q] = g
  <2>1. Other(s) \in Side
    BY <1>1, SidesAre
  <2>2. q \in Q /\ q # Nil
    BY <1>0, <1>k DEF Reds
  <2>3. q # g
    BY <1>1
  <2>4. t.parent[q] = g
    BY <1>0, <1>1, <2>1, <2>2, KidsAre
  <2>5. p # Nil /\ t.kid[s][g] # t.kid[Other(s)][g]
    <3>1. p # Nil
      BY <1>1, <1>k
    <3> QED BY <1>0, <1>1, <3>1 DEF Nested
  <2> QED BY <1>1, <2>2, <2>3, <2>4, <2>5
<1>u. \A u \in Side : t.kid[u][g] = p \/ t.kid[u][g] = q
  BY <1>1, SidesAre
<1>3. r.kid = t.kid /\ r.parent = t.parent /\ Shaped(r, Q, sub, v)
  BY <1>0, RecoloredShaped DEF Recolored
<1>r. \A n : n \in r.red <=> n = g \/ (n \in t.red /\ n # p /\ n # q)
  <2>1. r.red = Repainted(t, p, q, g)
    BY DEF Recolored
  <2> QED BY <2>1, RepaintedIs
<1>4. ASSUME NEW n \in Q, NEW u \in Side, n # g
      PROVE  t.kid[u][n] # p /\ t.kid[u][n] # q
  <2>1. t.kid[u][n] # Nil => t.parent[t.kid[u][n]] = n
    BY <1>0, KidsAre
  <2> QED BY <1>1, <1>2, <1>4, <2>1
<1> DEFINE lv == [bh EXCEPT ![p] = bh[p] + 1, ![q] = bh[q] + 1]
<1>5. Level(r, Q, lv)
  <2>1. /\ bh \in [Knot -> Nat] /\ bh[Nil] = 0
        /\ \A n \in Q, u \in Side : Stepped(t, bh, n, t.kid[u][n])
    BY <1>0, LevelSteps
  <2>2. p \in Knot /\ q \in Knot
    BY <1>1, <1>2, <1>k
  <2>3. /\ lv \in [Knot -> Nat] /\ lv[Nil] = 0
        /\ lv[p] = bh[p] + 1 /\ lv[q] = bh[q] + 1
        /\ \A n \in Knot : n # p /\ n # q => lv[n] = bh[n]
    <3> DEFINE a == bh[p] + 1
               b == bh[q] + 1
    <3>1. bh[p] \in Nat /\ bh[q] \in Nat
      BY <2>1, <2>2
    <3>2. a \in Nat /\ b \in Nat
      BY <3>1
    <3> HIDE DEF a, b
    <3>3. /\ lv \in [Knot -> Nat] /\ lv[p] = a /\ lv[q] = b
          /\ \A n \in Knot : n # p /\ n # q => lv[n] = bh[n]
      <4> DEFINE l1 == [bh EXCEPT ![p] = a]
      <4>1. /\ l1 \in [Knot -> Nat] /\ l1[p] = a
            /\ \A n \in Knot : n # p => l1[n] = bh[n]
        BY <2>1, <2>2, <3>2
      <4>2. lv = [l1 EXCEPT ![q] = b]
        BY DEF a, b
      <4> HIDE DEF l1, lv
      <4> QED BY <1>2, <2>2, <3>2, <4>1, <4>2
    <3> HIDE DEF lv
    <3> QED BY <1>2, <1>k, <2>1, <3>3 DEF a, b
  <2> HIDE DEF lv
  <2>4. ASSUME NEW n \in Q, NEW u \in Side
        PROVE  Stepped(r, lv, n, r.kid[u][n])
    <3> DEFINE c == t.kid[u][n]
    <3>1. c \in Knot /\ n \in Knot /\ Stepped(t, bh, n, c) /\ r.kid[u][n] = c
      BY <1>0, <1>3, <1>k, <2>1, KidsAre
    <3>2. n # g => c # p /\ c # q
      BY <1>4
    <3>3. n = g => c = p \/ c = q
      BY <1>u
    <3> HIDE DEF c
    <3>4. CASE n = p \/ n = q
      <4>1. n \in t.red /\ n \notin r.red
        BY <1>1, <1>2, <1>r, <3>4
      <4>2. bh[n] = bh[c]
        BY <3>1, <4>1 DEF Stepped
      <4>3. lv[n] = bh[n] + 1 /\ lv[c] = bh[c]
        BY <1>1, <1>2, <2>3, <3>1, <3>2, <3>4
      <4> QED BY <3>1, <4>1, <4>2, <4>3 DEF Stepped
    <3>5. CASE n = g
      <4>1. n \notin t.red /\ n \in r.red
        BY <1>1, <1>r, <3>5
      <4>2. bh[n] = bh[c] + 1
        BY <3>1, <4>1 DEF Stepped
      <4>3. lv[n] = bh[n] /\ lv[c] = bh[c] + 1
        BY <1>1, <1>2, <2>3, <3>1, <3>3, <3>5
      <4> QED BY <3>1, <4>1, <4>2, <4>3 DEF Stepped
    <3>6. CASE n # p /\ n # q /\ n # g
      <4>1. n \in r.red <=> n \in t.red
        BY <1>r, <3>6
      <4>2. lv[n] = bh[n] /\ lv[c] = bh[c]
        BY <2>3, <3>1, <3>2, <3>6
      <4> QED BY <3>1, <4>1, <4>2 DEF Stepped
    <3> QED BY <3>4, <3>5, <3>6
  <2> QED BY <1>k, <2>3, <2>4, StepsLevel
<1> HIDE DEF lv
<1>6. Reds(r, Q, g)
  <2>0. /\ t.red \subseteq Q
        /\ \A n \in t.red : n # z => t.parent[n] # Nil /\ t.parent[n] \notin t.red
    BY <1>0 DEF Reds
  <2>1. r.red \subseteq Q
    BY <1>1, <1>r, <2>0
  <2>2. ASSUME NEW n \in r.red, n # g
        PROVE  r.parent[n] # Nil /\ r.parent[n] \notin r.red
    <3>1. n \in t.red /\ n # p /\ n # q /\ n \in Q
      BY <1>r, <2>0, <2>2
    <3>2. CASE n = z
      BY <1>1, <1>2, <1>3, <1>r, <3>2
    <3>3. CASE n # z
      <4> DEFINE m == t.parent[n]
      <4>1. m # Nil /\ m \notin t.red
        BY <2>0, <3>1, <3>3
      <4>2. n # t.root /\ \E u \in Side : t.kid[u][m] = n
        <5>1. Linked(t, Q)
          BY <1>0 DEF Shaped
        <5>2. n # t.root
          BY <3>1, <4>1, <5>1 DEF Linked
        <5> QED BY <3>1, <5>1, <5>2 DEF Linked
      <4> HIDE DEF m
      <4>3. m # g
        BY <1>u, <3>1, <4>2
      <4>4. m \notin r.red
        BY <1>r, <4>1, <4>3
      <4> QED BY <1>3, <4>1, <4>4 DEF m
    <3> QED BY <3>2, <3>3
  <2> QED BY <2>1, <2>2 DEF Reds
<1>7. Balanced(r, Q, sub, lv, v, g)
  BY <1>3, <1>5, <1>6, <1>r DEF Balanced
<1>8. sub[z] \subseteq sub[p] /\ sub[p] \subseteq sub[g] /\ g \notin sub[p]
  <2>1. Spans(t, Q, sub)
    BY <1>0 DEF Shaped
  <2>2. sub[z] \subseteq sub[p] /\ sub[p] \subseteq sub[g]
    BY <1>1, <2>1 DEF Spans
  <2>3. g \notin sub[p]
    BY <1>0, <1>1 DEF Nested
  <2> QED BY <2>2, <2>3
<1> QED BY <1>7, <1>8

(* The uncle is black, z and its parent p lie on the same side: colours    *)
(* change, p takes the place of its parent g, and the repair is done.      *)
LEMMA OuterTurn ==
  ASSUME NEW t, NEW Q, NEW sub, NEW bh, NEW v, NEW z, Balanced(t, Q, sub, bh, v, z),
         NEW s, NEW p, NEW g, Family(t, z, s, p, g),
         t.kid[s][p] = z, t.kid[Other(s)][g] \notin t.red,
         NEW t2, Recolored(t, t2, Repainted(t, p, p, g))
  PROVE  LET r == Rotate(t2, Other(s), g)
         IN  /\ \E su, lv : Balanced(r, Q, su, lv, v, z)
             /\ SameCounts(t, r) /\ ~ParentIsRed(r, z)
<1> DEFINE o == Other(s)
           q == t.kid[o][g]
           b == t.kid[o][p]
           r == Rotate(t2, o, g)
           su == SubTurned(t2, sub, o, g, p)
           lv == [bh EXCEPT ![p] = bh[g], ![g] = bh[p]]
<1>0. /\ Nested(t, Q, sub) /\ Shaped(t, Q, sub, v) /\ Level(t, Q, bh) /\ Reds(t, Q, z)
      /\ z \in t.red
  BY SubtreesNest DEF Balanced
<1>1. /\ t.parent[z] = p /\ t.parent[p] = g /\ s \in Side /\ t.kid[s][g] = p /\ t.kid[s][p] = z
      /\ z \in Q /\ p \in Q /\ g \in Q /\ p \in t.red /\ g \notin t.red
      /\ p # z /\ g # p /\ g # z /\ z \in sub[p] /\ p \in sub[g]
  BY FamilyIs
<1>2. o \in Side /\ o # s /\ Other(o) = s /\ \A u \in Side : u = s \/ u = o
  BY <1>1, SidesAre
<1>k. Q \subseteq Node /\ Q \subseteq Knot /\ Nil \notin Q /\ Nil \in Knot
  BY <1>0, NodesAre
<1>n. /\ p # Nil /\ z # Nil /\ g # Nil /\ p \in Knot /\ z \in Knot /\ g \in Knot
      /\ p \in Node /\ z \in Node /\ g \in Node
  BY <1>1, <1>k
<1>3. /\ \A n \in Q, u \in Side : t.kid[u][n] \in Q \cup {Nil} /\ t.kid[u][n] \in Knot
      /\ \A n \in Q, u \in Side : t.kid[u][n] # Nil => t.parent[t.kid[u][n]] = n
  BY <1>0, KidsAre
<1>4. t2.kid = t.kid /\ t2.parent = t.parent /\ Shaped(t2, Q, sub, v) /\ SameCounts(t, t2)
  BY <1>0, RecoloredShaped DEF Recolored
<1>r. \A n : n \in t2.red <=> n = g \/ (n \in t.red /\ n # p)
  <2>1. t2.red = Repainted(t, p, p, g)
    BY DEF Recolored
  <2> QED BY <2>1, RepaintedIs
<1>5. Shaped(r, Q, su, v) /\ Turned(t2, r, o, g, p)
  <2>1. t2.kid[Other(o)][g] = p
    BY <1>1, <1>2, <1>4
  <2> HIDE DEF o
  <2> QED BY <1>1, <1>2, <1>4, <1>n, <2>1, RotationKeeps
<1> HIDE DEF r, su
<1>6. /\ \A u \in Side, n \in Node : r.kid[u][n] =
           IF n = p /\ u = o THEN g
           ELSE IF n = g /\ u = s THEN b
           ELSE IF n = t.parent[g] /\ t.kid[u][t.parent[g]] = g THEN p
           ELSE t.kid[u][n]
      /\ \A n \in Node : r.parent[n] =
           IF n = g THEN p ELSE IF n = p THEN t.parent[g] ELSE IF n = b THEN g ELSE t.parent[n]
  <2>1. t2.parent = t.parent /\ t2.kid = t.kid /\ Other(o) = s
    BY <1>2, <1>4
  <2> DEFINE K == t2.kid
             P == t2.parent
  <2> HIDE DEF o
  <2>2. /\ \A u \in Side, n \in Node : r.kid[u][n] =
             IF n = p /\ u = o THEN g
             ELSE IF n = g /\ u = Other(o) THEN K[o][p]
             ELSE IF n = P[g] /\ K[u][P[g]] = g THEN p
             ELSE K[u][n]
        /\ \A n \in Node : r.parent[n] =
             IF n = g THEN p ELSE IF n = p THEN P[g] ELSE IF n = K[o][p] THEN g ELSE P[n]
    BY <1>5 DEF Turned
  <2>3. K = t.kid /\ P = t.parent /\ K[o][p] = b
    BY <2>1
  <2> HIDE DEF K, P, b
  <2>4. ASSUME NEW u \in Side, NEW n \in Node
        PROVE  r.kid[u][n] =
                 IF n = p /\ u = o THEN g
                 ELSE IF n = g /\ u = s THEN b
                 ELSE IF n = t.parent[g] /\ t.kid[u][t.parent[g]] = g THEN p
                 ELSE t.kid[u][n]
    <3>1. r.kid[u][n] =
            IF n = p /\ u = o THEN g
            ELSE IF n = g /\ u = Other(o) THEN K[o][p]
            ELSE IF n = P[g] /\ K[u][P[g]] = g THEN p
            ELSE K[u][n]
      BY <2>2
    <3> QED BY <2>1, <2>3, <3>1
  <2>5. ASSUME NEW n \in Node
        PROVE  r.parent[n] =
                 IF n = g THEN p ELSE IF n = p THEN t.parent[g]
                 ELSE IF n = b THEN g ELSE t.parent[n]
    <3>1. r.parent[n] =
            IF n = g THEN p ELSE IF n = p THEN P[g] ELSE IF n = K[o][p] THEN g ELSE P[n]
      BY <2>2
    <3> QED BY <2>3, <3>1
  <2> QED BY <2>4, <2>5
<1>s. r.red = t2.red /\ SameCounts(t, r)
  <2>1. r.red = t2.red /\ SameCounts(t2, r)
    BY <1>5 DEF Turned, SameCounts
  <2> QED BY <1>4, <2>1 DEF SameCounts
<1>c. \A n : n \in r.red <=> n = g \/ (n \in t.red /\ n # p)
  BY <1>r, <1>s
<1> HIDE DEF o, q, b
<1>b. /\ b = t.kid[o][p] /\ q = t.kid[o][g] /\ b \in Q \cup {Nil} /\ b \in Knot /\ q \in Knot
      /\ b # Nil => t.parent[b] = p
      /\ q # Nil => t.parent[q] = g
  BY <1>1, <1>2, <1>3 DEF b, q
<1>p. \A u \in Side : t.kid[u][p] # p /\ t.kid[u][g] # g
  <2>1. \A n \in Q, u \in Side : t.kid[u][n] # n
    BY <1>0 DEF Nested
  <2> QED BY <1>1, <2>1
<1>7. b # p /\ b # g /\ b # z /\ q # p /\ q # g
  <2>1. b # p /\ q # g
    BY <1>2, <1>b, <1>p
  <2>2. t.kid[s][p] # t.kid[Other(s)][p] /\ t.kid[s][g] # t.kid[Other(s)][g]
    BY <1>0, <1>1, <1>n DEF Nested
  <2>3. b # z /\ q # p
    BY <1>1, <2>2 DEF b, q, o
  <2>4. sub[b] \subseteq sub[p] /\ g \notin sub[p]
    BY <1>0, <1>1, <1>2, <1>b DEF Nested
  <2>5. b # g
    <3>1. g \in sub[g]
      BY <1>0, <1>1 DEF Nested
    <3> QED BY <2>4, <3>1
  <2> QED BY <2>1, <2>3, <2>5
<1>t. t.parent[g] # g /\ t.parent[g] # p
  <2>1. g = t.root => t.parent[g] = Nil
    BY <1>0, <1>n DEF Shaped, Linked
  <2>2. g # t.root => t.parent[g] # g /\ t.parent[g] \notin sub[g]
    BY <1>0, <1>1 DEF Nested
  <2> QED BY <1>1, <1>n, <2>1, <2>2
<1>8. r.kid[o][p] = g /\ r.kid[s][p] = z /\ r.kid[s][g] = b /\ r.kid[o][g] = q
  <2>1. r.kid[o][p] = g /\ r.kid[s][g] = b
    BY <1>1, <1>2, <1>6, <1>n
  <2>2. r.kid[s][p] = t.kid[s][p]
    BY <1>1, <1>2, <1>6, <1>n, <1>t
  <2>3. r.kid[o][g] = t.kid[o][g]
    BY <1>1, <1>2, <1>6, <1>n, <1>t
  <2> QED BY <1>1, <1>b, <2>1, <2>2, <2>3
<1>w. ASSUME NEW n \in Q, NEW u \in Side, n # p, n # g
      PROVE  \/ r.kid[u][n] = p /\ t.kid[u][n] = g
             \/ r.kid[u][n] = t.kid[u][n] /\ t.kid[u][n] # p /\ t.kid[u][n] # g
  <2> DEFINE c == t.kid[u][n]
  <2>1. (c = p => t.parent[p] = n) /\ (c = g => t.parent[g] = n)
    BY <1>3, <1>n
  <2>2. r.kid[u][n] = IF n = t.parent[g] /\ t.kid[u][t.parent[g]] = g THEN p ELSE c
    <3>1. n \in Node
      BY <1>k
    <3> QED BY <1>6, <1>w, <3>1
  <2>3. n = t.parent[g] => t.kid[u][t.parent[g]] = c
    OBVIOUS
  <2> HIDE DEF c
  <2> QED BY <1>1, <1>w, <2>1, <2>2, <2>3 DEF c
<1>9. Level(r, Q, lv)
  <2>1. /\ bh \in [Knot -> Nat] /\ bh[Nil] = 0
        /\ \A n \in Q, u \in Side : Stepped(t, bh, n, t.kid[u][n])
    BY <1>0, LevelSteps
  <2>2. /\ lv \in [Knot -> Nat] /\ lv[Nil] = 0 /\ lv[p] = bh[g] /\ lv[g] = bh[p]
        /\ \A n \in Knot : n # p /\ n # g => lv[n] = bh[n]
    <3>1. bh[p] \in Nat /\ bh[g] \in Nat
      BY <1>n, <2>1
    <3>2. /\ lv \in [Knot -> Nat] /\ lv[p] = bh[g] /\ lv[g] = bh[p]
          /\ \A n \in Knot : n # p /\ n # g => lv[n] = bh[n]
      BY <1>1, <1>n, <2>1, <3>1
    <3> HIDE DEF lv
    <3> QED BY <1>k, <1>n, <2>1, <3>2
  <2> HIDE DEF lv
  <2> DEFINE h == bh[p]
             y == bh[q]
  <2>3. /\ Stepped(t, bh, p, z) /\ Stepped(t, bh, p, b) /\ Stepped(t, bh, g, p)
        /\ Stepped(t, bh, g, q)
    BY <1>1, <1>2, <1>b, <2>1
  <2>4. bh[z] = h /\ bh[b] = h /\ bh[g] = h + 1 /\ bh[g] = y + 1
    BY <1>1, <2>3 DEF Stepped
  <2>5. h \in Nat /\ y \in Nat
    BY <1>b, <1>n, <2>1
  <2>6. y = h
    <3>1. h \in Nat /\ y \in Nat /\ h + 1 = y + 1
      BY <2>4, <2>5
    <3> HIDE DEF h, y
    <3> QED BY <3>1
  <2>7. lv[z] = h /\ lv[b] = h /\ lv[q] = h /\ lv[g] = h /\ lv[p] = h + 1
    BY <1>1, <1>7, <1>b, <1>n, <2>2, <2>4, <2>6
  <2> HIDE DEF h, y
  <2>8. ASSUME NEW n \in Q, NEW u \in Side
        PROVE  Stepped(r, lv, n, r.kid[u][n])
    <3> DEFINE c == r.kid[u][n]
    <3>1. CASE n = p
      <4>1. n \notin r.red
        BY <1>1, <1>c, <3>1
      <4>2. c = g \/ c = z
        BY <1>2, <1>8, <3>1
      <4> HIDE DEF c
      <4> QED BY <2>7, <3>1, <4>1, <4>2 DEF Stepped, c
    <3>2. CASE n = g
      <4>1. n \in r.red
        BY <1>c, <3>2
      <4>2. c = b \/ c = q
        BY <1>2, <1>8, <3>2
      <4> HIDE DEF c
      <4> QED BY <2>7, <3>2, <4>1, <4>2 DEF Stepped, c
    <3>3. CASE n # p /\ n # g
      <4> DEFINE d == t.kid[u][n]
      <4>1. n \in r.red <=> n \in t.red
        BY <1>c, <3>3
      <4>2. lv[n] = bh[n]
        BY <1>k, <2>2, <3>3
      <4>3. (c = p /\ d = g) \/ (c = d /\ d # p /\ d # g)
        BY <1>w, <3>3
      <4>4. d \in Knot /\ Stepped(t, bh, n, d)
        BY <1>3, <2>1
      <4> HIDE DEF c, d
      <4>5. lv[c] = bh[d]
        BY <2>2, <4>3, <4>4
      <4> QED BY <4>1, <4>2, <4>4, <4>5 DEF Stepped, c
    <3> QED BY <3>1, <3>2, <3>3
  <2> QED BY <1>k, <2>2, <2>8, StepsLevel
<1> HIDE DEF lv
<1>10. /\ t.red \subseteq Q /\ z \in t.red
       /\ \A n \in t.red : n # z => t.parent[n] # Nil /\ t.parent[n] \notin t.red
  BY <1>0 DEF Reds
<1>11. b \notin t.red
  BY <1>1, <1>7, <1>b, <1>k, <1>10
<1>12. ASSUME NEW n \in t.red, t.parent[n] = g PROVE n = p
  <2>1. Linked(t, Q)
    BY <1>0 DEF Shaped
  <2>2. n \in Q /\ n # t.root
    BY <1>10, <1>12, <1>n, <2>1 DEF Linked
  <2>3. PICK u \in Side : t.kid[u][g] = n
    BY <1>12, <2>1, <2>2 DEF Linked
  <2>4. u = s
    <3>1. t.kid[Other(s)][g] # n
      OBVIOUS
    <3> QED BY <1>2, <2>3, <3>1 DEF o
  <2> QED BY <1>1, <2>3, <2>4
<1>13. r.parent[z] = p /\ z \in r.red /\ p \notin r.red
  BY <1>1, <1>6, <1>7, <1>10, <1>c, <1>n
<1>14. Reds(r, Q, z)
  <2>1. r.red \subseteq Q
    BY <1>1, <1>10, <1>c
  <2>2. ASSUME NEW n \in r.red, n # z
        PROVE  r.parent[n] # Nil /\ r.parent[n] \notin r.red
    <3>1. CASE n = g
      <4>1. r.parent[g] = p
        BY <1>6, <1>n
      <4> QED BY <1>13, <1>n, <3>1, <4>1
    <3>2. CASE n # g
      <4>1. n \in t.red /\ n # p /\ n # b /\ n \in Node
        BY <1>10, <1>11, <1>c, <1>k, <2>2, <3>2
      <4>2. r.parent[n] = t.parent[n]
        BY <1>6, <3>2, <4>1
      <4>3. t.parent[n] # Nil /\ t.parent[n] \notin t.red /\ t.parent[n] # g
        BY <1>10, <1>12, <2>2, <4>1
      <4> QED BY <1>c, <4>2, <4>3
    <3> QED BY <3>1, <3>2
  <2> QED BY <2>1, <2>2 DEF Reds
<1>15. Balanced(r, Q, su, lv, v, z)
  BY <1>5, <1>9, <1>13, <1>14 DEF Balanced
<1>16. ~ParentIsRed(r, z)
  BY <1>13 DEF ParentIsRed
<1> QED BY <1>15, <1>16, <1>s DEF r, o

(* They lie on different sides: z takes the place of p first. *)
LEMMA InnerTurn ==
  ASSUME NEW t, NEW Q, NEW sub, NEW bh, NEW v, NEW z, Balanced(t, Q, sub, bh, v, z),
         NEW s, NEW p, NEW g, Family(t, z, s, p, g), t.kid[Other(s)][p] = z
  PROVE  LET r == Rotate(t, s, p)
         IN  /\ \E su : Balanced(r, Q, su, bh, v, p)
             /\ SameCounts(t, r) /\ r.red = t.red
             /\ r.parent[p] = z /\ r.parent[z] = g /\ r.kid[s][z] = p /\ r.kid[s][g] = z
             /\ r.kid[Other(s)][g] = t.kid[Other(s)][g]
<1> DEFINE o == Other(s)
           a == t.kid[s][p]
           b == t.kid[s][z]
           q == t.kid[o][g]
           d == t.kid[o][z]
           r == Rotate(t, s, p)
           su == SubTurned(t, sub, s, p, z)
<1>0. /\ Nested(t, Q, sub) /\ Shaped(t, Q, sub, v) /\ Level(t, Q, bh) /\ Reds(t, Q, z)
      /\ z \in t.red
  BY SubtreesNest DEF Balanced
<1>1. /\ t.parent[z] = p /\ t.parent[p] = g /\ s \in Side /\ t.kid[s][g] = p
      /\ z \in Q /\ p \in Q /\ g \in Q /\ p \in t.red /\ g \notin t.red
      /\ p # z /\ g # p /\ g # z
  BY FamilyIs
<1>2. o \in Side /\ o # s /\ Other(o) = s /\ \A u \in Side : u = s \/ u = o
  BY <1>1, SidesAre
<1>k. Q \subseteq Node /\ Q \subseteq Knot /\ Nil \notin Q /\ Nil \in Knot
  BY <1>0, NodesAre
<1>n. /\ p # Nil /\ z # Nil /\ g # Nil /\ p \in Knot /\ z \in Knot /\ g \in Knot
      /\ p \in Node /\ z \in Node /\ g \in Node
  BY <1>1, <1>k
<1>3. /\ \A n \in Q, u \in Side : t.kid[u][n] \in Q \cup {Nil} /\ t.kid[u][n] \in Knot
      /\ \A n \in Q, u \in Side : t.kid[u][n] # Nil => t.parent[t.kid[u][n]] = n
  BY <1>0, KidsAre
<1>4. Shaped(r, Q, su, v) /\ Turned(t, r, s, p, z)
  BY <1>0, <1>1, <1>n, RotationKeeps
<1> HIDE DEF r, su
<1>5. /\ \A u \in Side, n \in Node : r.kid[u][n] =
           IF n = z /\ u = s THEN p
           ELSE IF n = p /\ u = o THEN b
           ELSE IF n = g /\ t.kid[u][g] = p THEN z
           ELSE t.kid[u][n]
      /\ \A n \in Node : r.parent[n] =
           IF n = p THEN z ELSE IF n = z THEN g ELSE IF n = b THEN p ELSE t.parent[n]
  <2> DEFINE y == t.parent[p]
  <2>1. /\ \A u \in Side, n \in Node : r.kid[u][n] =
             IF n = z /\ u = s THEN p
             ELSE IF n = p /\ u = o THEN b
             ELSE IF n = y /\ t.kid[u][y] = p THEN z
             ELSE t.kid[u][n]
        /\ \A n \in Node : r.parent[n] =
             IF n = p THEN z ELSE IF n = z THEN y ELSE IF n = b THEN p ELSE t.parent[n]
    BY <1>4 DEF Turned
  <2>2. y = g
    BY <1>1
  <2> HIDE DEF o, b, y
  <2>3. \A u \in Side, n \in Node : r.kid[u][n] =
          IF n = z /\ u = s THEN p
          ELSE IF n = p /\ u = o THEN b
          ELSE IF n = g /\ t.kid[u][g] = p THEN z
          ELSE t.kid[u][n]
    BY <2>1, <2>2, Zenon
  <2>4. \A n \in Node : r.parent[n] =
          IF n = p THEN z ELSE IF n = z THEN g ELSE IF n = b THEN p ELSE t.parent[n]
    BY <2>1, <2>2, Zenon
  <2> QED BY <2>3, <2>4, Zenon
<1>s. r.red = t.red /\ SameCounts(t, r)
  BY <1>4 DEF Turned, SameCounts
<1> HIDE DEF o, a, b, q, d
<1>b. /\ a = t.kid[s][p] /\ b = t.kid[s][z] /\ q = t.kid[o][g] /\ d = t.kid[o][z]
      /\ t.kid[o][p] = z /\ b \in Q \cup {Nil} /\ a \in Knot /\ b \in Knot /\ d \in Knot
      /\ b # Nil => t.parent[b] = z
  BY <1>1, <1>2, <1>3 DEF a, b, q, d, o
<1>6. b # p /\ b # z
  <2>1. b # z
    BY <1>0, <1>1, <1>b DEF Nested
  <2> QED BY <1>1, <1>b, <1>n, <2>1
<1>7. q # p
  <2>1. t.kid[s][g] # t.kid[Other(s)][g]
    BY <1>0, <1>1, <1>n DEF Nested
  <2> QED BY <1>1, <2>1 DEF q, o
<1>8. /\ r.kid[s][z] = p /\ r.kid[o][z] = d /\ r.kid[s][p] = a /\ r.kid[o][p] = b
      /\ r.kid[s][g] = z /\ r.kid[o][g] = q
  <2>1. r.kid[s][z] = p /\ r.kid[o][p] = b
    BY <1>1, <1>2, <1>5, <1>n
  <2>2. r.kid[o][z] = t.kid[o][z] /\ r.kid[s][p] = t.kid[s][p]
    BY <1>1, <1>2, <1>5, <1>n
  <2>3. r.kid[s][g] = z
    BY <1>1, <1>5, <1>n
  <2>4. r.kid[o][g] = t.kid[o][g]
    BY <1>1, <1>2, <1>5, <1>7, <1>b, <1>n
  <2> QED BY <1>b, <2>1, <2>2, <2>3, <2>4
<1>w. ASSUME NEW n \in Q, NEW u \in Side, n # p, n # z
      PROVE  \/ r.kid[u][n] = z /\ t.kid[u][n] = p
             \/ r.kid[u][n] = t.kid[u][n]
  <2>1. n \in Node
    BY <1>k
  <2>2. r.kid[u][n] = IF n = g /\ t.kid[u][g] = p THEN z ELSE t.kid[u][n]
    BY <1>5, <1>w, <2>1
  <2> QED BY <2>2, Zenon
<1>9. Level(r, Q, bh)
  <2>1. /\ bh \in [Knot -> Nat] /\ bh[Nil] = 0
        /\ \A n \in Q, u \in Side : Stepped(t, bh, n, t.kid[u][n])
    BY <1>0, LevelSteps
  <2> DEFINE h == bh[p]
  <2>2. /\ Stepped(t, bh, p, z) /\ Stepped(t, bh, p, a)
        /\ Stepped(t, bh, z, b) /\ Stepped(t, bh, z, d)
    BY <1>1, <1>2, <1>b, <2>1
  <2>3. bh[z] = h /\ bh[b] = h /\ bh[a] = h /\ bh[d] = h
    BY <1>0, <1>1, <2>2 DEF Stepped
  <2>4. ASSUME NEW n \in Q, NEW u \in Side
        PROVE  Stepped(r, bh, n, r.kid[u][n])
    <3> DEFINE c == r.kid[u][n]
    <3>1. CASE n = p \/ n = z
      <4>1. n \in r.red /\ bh[n] = h
        BY <1>0, <1>1, <1>s, <2>3, <3>1
      <4>2. c = p \/ c = d \/ c = a \/ c = b
        BY <1>2, <1>8, <3>1
      <4> HIDE DEF c
      <4>3. bh[c] = h
        BY <2>3, <4>2
      <4> QED BY <4>1, <4>3 DEF Stepped, c
    <3>2. CASE n # p /\ n # z
      <4>1. Stepped(t, bh, n, t.kid[u][n])
        BY <2>1
      <4>2. bh[c] = bh[t.kid[u][n]]
        BY <1>w, <2>3, <3>2
      <4> QED BY <1>s, <4>1, <4>2 DEF Stepped
    <3> QED BY <3>1, <3>2
  <2> QED BY <1>k, <2>1, <2>4, StepsLevel
<1>10. /\ t.red \subseteq Q /\ z \in t.red
       /\ \A n \in t.red : n # z => t.parent[n] # Nil /\ t.parent[n] \notin t.red
  BY <1>0 DEF Reds
<1>11. b \notin t.red
  BY <1>6, <1>b, <1>k, <1>10
<1>12. r.parent[p] = z /\ r.parent[z] = g
  BY <1>1, <1>5, <1>n
<1>13. Reds(r, Q, p)
  <2>1. ASSUME NEW n \in t.red, n # p
        PROVE  r.parent[n] # Nil /\ r.parent[n] \notin t.red
    <3>1. CASE n = z
      BY <1>1, <1>12, <1>n, <3>1
    <3>2. CASE n # z
      <4>1. n # b /\ n \in Node
        BY <1>10, <1>11, <1>k
      <4>2. r.parent[n] = t.parent[n]
        BY <1>5, <2>1, <3>2, <4>1
      <4> QED BY <1>10, <3>2, <4>2
    <3> QED BY <3>1, <3>2
  <2> QED BY <1>10, <1>s, <2>1 DEF Reds
<1>14. Balanced(r, Q, su, bh, v, p)
  BY <1>1, <1>4, <1>9, <1>13, <1>s DEF Balanced
<1> QED BY <1>8, <1>12, <1>14, <1>s DEF r, o, q

LEMMA RoundIs ==
  ASSUME NEW t, NEW Q, NEW sub, NEW bh, NEW v, NEW z, Balanced(t, Q, sub, bh, v, z),
         ParentIsRed(t, z)
  PROVE  LET e == FixupRound(t, z)
         IN  /\ e \in [tree : TreeType, at : Node] /\ SameCounts(t, e.tree)
             /\ \E su, lv : /\ Balanced(e.tree, Q, su, lv, v, e.at)
                            /\ ~ParentIsRed(e.tree, e.at)
                               \/ (sub[z] \subseteq su[e.at] /\ e.at \notin sub[z])
<1> DEFINE p     == t.parent[z]
           g     == t.parent[p]
           s     == IF t.kid["left"][g] = p THEN "left" ELSE "right"
           uncle == t.kid[Other(s)][g]
           inner == z = t.kid[Other(s)][p]
           t1    == IF inner THEN Rotate(t, s, p) ELSE t
           z1    == IF inner THEN p ELSE z
           p1    == t1.parent[z1]
           t2    == [t1 EXCEPT !.red = (@ \ {p1}) \cup {g}]
           e     == FixupRound(t, z)
           ra    == [t EXCEPT !.red = (@ \ {p, uncle}) \cup {g}]
           rb    == Rotate(t2, Other(s), g)
<1>1. e = IF uncle # Nil /\ uncle \in t.red THEN [tree |-> ra, at |-> g]
          ELSE [tree |-> rb, at |-> z1]
  BY Zenon DEF FixupRound
<1>0. Nested(t, Q, sub) /\ t \in TreeType /\ Q \subseteq Node /\ t.red \subseteq Q
  BY SubtreesNest DEF Balanced, Shaped, Linked, Reds
<1>2. /\ z \in Q /\ p \in Q /\ g \in Q /\ p \in t.red /\ g \notin t.red
      /\ p # z /\ g # p /\ g # z
      /\ \E u \in Side : t.kid[u][p] = z
      /\ \E u \in Side : t.kid[u][g] = p
  BY GrandparentIs DEF Above
<1> HIDE DEF e, p, g
<1>3. s \in Side /\ t.kid[s][g] = p
  BY <1>2 DEF Side
<1>4. Other(s) \in Side /\ Other(Other(s)) = s /\ \A u \in Side : u = s \/ u = Other(s)
  BY <1>3, SidesAre
<1>f. Family(t, z, s, p, g)
  BY <1>3 DEF Family, p, g
<1> HIDE DEF s
<1>5. CASE uncle # Nil /\ uncle \in t.red
  <2>1. e.tree = ra /\ e.at = g
    BY <1>1, <1>5
  <2> HIDE DEF uncle
  <2>2. Recolored(t, ra, Repainted(t, p, uncle, g))
    <3> DEFINE R == (t.red \ {p, uncle}) \cup {g}
    <3>1. R \in SUBSET Node
      BY <1>0, <1>2
    <3>2. ra = [t EXCEPT !.red = R]
      OBVIOUS
    <3> HIDE DEF R, ra
    <3>3. Recolored(t, ra, R)
      BY <1>0, <3>1, <3>2, RecoloredIs
    <3> QED BY <3>3 DEF R, Repainted
  <2> HIDE DEF ra
  <2>3. /\ \E lv : Balanced(ra, Q, sub, lv, v, g)
        /\ sub[z] \subseteq sub[g] /\ g \notin sub[z]
    <3>1. uncle = t.kid[Other(s)][g] /\ uncle \in t.red
      BY <1>5 DEF uncle
    <3> QED BY <1>f, <2>2, <3>1, UncleRed
  <2>4. SameCounts(t, ra) /\ ra \in TreeType
    BY <2>2 DEF Recolored
  <2>5. e = [tree |-> ra, at |-> g]
    BY <1>1, <1>5
  <2>6. e \in [tree : TreeType, at : Node]
    BY <1>0, <1>2, <2>4, <2>5
  <2> QED BY <2>1, <2>3, <2>4, <2>6 DEF e
<1>6. CASE ~(uncle # Nil /\ uncle \in t.red)
  <2>1. e = [tree |-> rb, at |-> z1] /\ e.tree = rb /\ e.at = z1
    BY <1>1, <1>6
  <2>2. uncle \notin t.red
    <3>1. Nil \notin Node
      BY CfsAssumption DEF Node
    <3> HIDE DEF uncle
    <3> QED BY <1>0, <1>6, <3>1
  <2> DEFINE R == (t.red \ {p1}) \cup {g}
             Goal == /\ z1 \in Q /\ rb \in TreeType
                     /\ \E su, lv : Balanced(rb, Q, su, lv, v, z1)
                     /\ SameCounts(t, rb) /\ ~ParentIsRed(rb, z1)
  <2>3. ASSUME inner PROVE Goal
    <3>1. t.kid[Other(s)][p] = z
      BY <2>3
    <3>2. t1 = Rotate(t, s, p) /\ z1 = p
      BY <2>3
    <3> HIDE DEF t1, inner, z1
    <3>3. /\ \E su : Balanced(t1, Q, su, bh, v, p)
          /\ SameCounts(t, t1) /\ t1.red = t.red
          /\ t1.parent[p] = z /\ t1.parent[z] = g /\ t1.kid[s][z] = p /\ t1.kid[s][g] = z
          /\ t1.kid[Other(s)][g] = uncle
      BY <1>f, <3>1, <3>2, InnerTurn
    <3>4. PICK su : Balanced(t1, Q, su, bh, v, p)
      BY <3>3
    <3>5. ParentIsRed(t1, p)
      BY <1>0, <3>3, <1>2, CfsAssumption DEF ParentIsRed, Balanced, Node
    <3>6. Recolored(t1, t2, Repainted(t1, z, z, g))
      <4> DEFINE RR == (t1.red \ {z}) \cup {g}
      <4>1. p1 = z
        BY <3>2, <3>3
      <4>2. RR \in SUBSET Node /\ t1 \in TreeType
        BY <1>0, <1>2, <3>3, <3>4 DEF Balanced, Shaped
      <4>3. t2 = [t1 EXCEPT !.red = RR]
        BY <4>1
      <4> HIDE DEF RR, t2, p1
      <4>4. Recolored(t1, t2, RR)
        BY <4>2, <4>3, RecoloredIs
      <4> QED BY <4>4, RemovedTwice DEF RR, Repainted
    <3> HIDE DEF t2
    <3>7. /\ \E sw, lv : Balanced(rb, Q, sw, lv, v, p)
          /\ SameCounts(t1, rb) /\ ~ParentIsRed(rb, p)
      <4>1. t1.kid[s][z] = p /\ t1.kid[Other(s)][g] \notin t1.red
        BY <2>2, <3>3
      <4>2. Family(t1, p, s, z, g)
        BY <1>3, <3>3, <3>5 DEF Family
      <4> HIDE DEF uncle
      <4> QED BY <3>4, <3>6, <4>1, <4>2, OuterTurn
    <3>8. SameCounts(t, rb)
      BY <3>3, <3>7 DEF SameCounts
    <3>9. rb \in TreeType
      BY <3>7 DEF Balanced, Shaped
    <3> QED BY <1>2, <3>2, <3>7, <3>8, <3>9
  <2>4. ASSUME ~inner PROVE Goal
    <3>1. t.kid[s][p] = z
      BY <1>2, <1>4, <2>4
    <3>2. t1 = t /\ z1 = z
      BY <2>4
    <3> HIDE DEF t1, inner, z1
    <3>3. Recolored(t, t2, Repainted(t, p, p, g))
      <4> DEFINE RR == (t.red \ {p}) \cup {g}
      <4>1. p1 = p
        BY <3>2 DEF p
      <4>2. RR \in SUBSET Node
        BY <1>0, <1>2
      <4>3. t2 = [t EXCEPT !.red = RR]
        BY <4>1, <3>2
      <4> HIDE DEF RR, t2, p1
      <4>4. Recolored(t, t2, RR)
        BY <1>0, <4>2, <4>3, RecoloredIs
      <4> QED BY <4>4, RemovedTwice DEF RR, Repainted
    <3> HIDE DEF t2
    <3>4. /\ \E sw, lv : Balanced(rb, Q, sw, lv, v, z)
          /\ SameCounts(t, rb) /\ ~ParentIsRed(rb, z)
      <4>1. t.kid[Other(s)][g] \notin t.red
        BY <2>2
      <4> HIDE DEF uncle
      <4> QED BY <1>f, <3>1, <3>3, <4>1, OuterTurn
    <3>5. rb \in TreeType
      BY <3>4 DEF Balanced, Shaped
    <3> QED BY <1>2, <3>2, <3>4, <3>5
  <2>5. Goal
    BY <2>3, <2>4
  <2> HIDE DEF rb, z1
  <2>6. e \in [tree : TreeType, at : Node]
    BY <1>0, <2>1, <2>5
  <2> QED BY <2>1, <2>5, <2>6 DEF e
<1> QED BY <1>5, <1>6

----------------------------------------------------------------------------
(* The repair. *)

(* Applying F from a on, n times. *)
Steps(f, a, n, F) == f = [k \in 0 .. n |-> IF k = 0 THEN a ELSE F[f[k - 1]]]

LEMMA StepsExist ==
  ASSUME NEW S, NEW a \in S, NEW n \in Nat, NEW F \in [S -> S]
  PROVE  \E f \in [0 .. n -> S] : Steps(f, a, n, F)
<1> DEFINE G == [x \in S \X (1 .. n) |-> F[x[1]]]
<1>1. G \in [S \X (1 .. n) -> S]
  OBVIOUS
<1>2. PICK f \in [0 .. n -> S] : Iterates(f, a, n, G)
  <2> HIDE DEF G
  <2> QED BY <1>1, IterationExists
<1>3. ASSUME NEW k \in 0 .. n
      PROVE  f[k] = IF k = 0 THEN a ELSE F[f[k - 1]]
  <2>1. CASE k = 0
    BY <1>2, <2>1 DEF Iterates
  <2>2. CASE k # 0
    <3>1. k - 1 \in 0 .. n /\ k \in 1 .. n
      BY <2>2
    <3> DEFINE x == f[k - 1]
    <3>2. x \in S /\ f[k] = G[<<x, k>>]
      <4> HIDE DEF G
      <4> QED BY <1>2, <2>2, <3>1 DEF Iterates
    <3> HIDE DEF x
    <3>3. G[<<x, k>>] = F[x]
      BY <3>1, <3>2
    <3> QED BY <2>2, <3>2, <3>3 DEF x
  <2> QED BY <2>1, <2>2
<1>4. Steps(f, a, n, F)
  BY <1>3 DEF Steps
<1> QED BY <1>4

Repairing(t, Q, v) ==
  {d \in [tree : TreeType, at : Node] :
     SameCounts(t, d.tree) /\ \E su, lv : Balanced(d.tree, Q, su, lv, v, d.at)}

(* After k rounds the loop has ended, or the node it is at has more than k *)
(* nodes under it.                                                         *)
Climbs(d, Q, v, k) ==
  \/ ~ParentIsRed(d.tree, d.at)
  \/ \E su, lv : Balanced(d.tree, Q, su, lv, v, d.at) /\ k < Cardinality(su[d.at])

Settled(t, Q, sub, bh, v) ==
  Shaped(t, Q, sub, v) /\ Level(t, Q, bh) /\ Reds(t, Q, Nil) /\ t.root \notin t.red

LEMMA SmallerSet ==
  ASSUME NEW A, NEW B, IsFiniteSet(B), A \subseteq B, NEW b \in B, b \notin A
  PROVE  /\ IsFiniteSet(A) /\ Cardinality(A) \in Nat /\ Cardinality(B) \in Nat
         /\ Cardinality(A) < Cardinality(B)
<1>1. IsFiniteSet(A) /\ Cardinality(A) \in Nat /\ Cardinality(B) \in Nat
  BY FS_Subset, FS_CardinalityType
<1>2. Cardinality(A) <= Cardinality(B) /\ (Cardinality(A) = Cardinality(B) => A = B)
  BY FS_Subset
<1> DEFINE m == Cardinality(A)
           n == Cardinality(B)
<1>3. m \in Nat /\ n \in Nat /\ m <= n /\ m # n
  BY <1>1, <1>2
<1> HIDE DEF m, n
<1>4. m < n
  BY <1>3
<1> QED BY <1>1, <1>4 DEF m, n

LEMMA NodesFinite ==
  ASSUME NEW A \in SUBSET Node
  PROVE  IsFiniteSet(A) /\ Cardinality(A) \in 0 .. Tasks
<1>1. IsFiniteSet(Node) /\ Cardinality(Node) = Tasks
  BY FS_Interval, CfsAssumption DEF Node
<1>2. IsFiniteSet(A) /\ Cardinality(A) <= Cardinality(Node) /\ Cardinality(A) \in Nat
  BY <1>1, FS_Subset, FS_CardinalityType
<1> DEFINE m == Cardinality(A)
<1>3. m \in Nat /\ m <= Tasks /\ Tasks \in Nat
  BY <1>1, <1>2, CfsAssumption
<1> HIDE DEF m
<1>4. m \in 0 .. Tasks
  BY <1>3
<1> QED BY <1>2, <1>4 DEF m

(* Making the root black. *)
LEMMA BlackenedIs ==
  ASSUME NEW t, NEW Q, NEW sub, NEW bh, NEW v, NEW z, Balanced(t, Q, sub, bh, v, z),
         ~ParentIsRed(t, z)
  PROVE  LET r == [t EXCEPT !.red = @ \ {t.root}]
         IN  (\E lv : Settled(r, Q, sub, lv, v)) /\ SameCounts(t, r)
<1> DEFINE R == t.red \ {t.root}
           r == [t EXCEPT !.red = @ \ {t.root}]
           w == t.root
<1>0. Nested(t, Q, sub) /\ Shaped(t, Q, sub, v) /\ t \in TreeType
  BY SubtreesNest DEF Balanced, Shaped
<1>1. /\ t.red \subseteq Q /\ z \in t.red /\ Q \subseteq Node
      /\ \A n \in t.red : n # z => t.parent[n] # Nil /\ t.parent[n] \notin t.red
  BY DEF Balanced, Reds, Shaped, Linked
<1>2. Recolored(t, r, R)
  <2>1. R \in SUBSET Node
    BY <1>1
  <2>2. r = [t EXCEPT !.red = R]
    OBVIOUS
  <2> HIDE DEF r, R
  <2> QED BY <1>0, <2>1, <2>2, RecoloredIs
<1> HIDE DEF r
<1>3. /\ r.kid = t.kid /\ r.parent = t.parent /\ r.red = R /\ r.root = w
      /\ Shaped(r, Q, sub, v) /\ SameCounts(t, r)
  BY <1>0, <1>2, RecoloredShaped DEF Recolored
<1>4. \A n \in t.red : n # w => t.parent[n] # Nil /\ t.parent[n] \notin t.red
  <2>1. ASSUME NEW n \in t.red, n # w PROVE t.parent[n] # Nil
    BY <1>0, <1>1, <2>1 DEF Nested
  <2> QED BY <1>1, <2>1 DEF ParentIsRed
<1>5. Reds(r, Q, Nil) /\ r.root \notin r.red
  BY <1>1, <1>3, <1>4 DEF Reds
<1>6. w \in Q /\ \A n \in Q, u \in Side : t.kid[u][n] # w
  <2>1. w \in Q /\ w # Nil /\ t.parent[w] = Nil
    BY <1>0, <1>1 DEF Shaped, Linked, Nested
  <2>2. \A n \in Q : n # Nil
    BY <1>0 DEF Nested
  <2>3. \A n \in Q, u \in Side : t.kid[u][n] # Nil => t.parent[t.kid[u][n]] = n
    BY <1>0 DEF Shaped, Linked
  <2> QED BY <2>1, <2>2, <2>3
<1>7. \E lv : Level(r, Q, lv)
  <2>1. /\ bh \in [Knot -> Nat] /\ bh[Nil] = 0 /\ Q \subseteq Knot /\ Nil \notin Q
        /\ \A n \in Q, u \in Side : t.kid[u][n] \in Knot
        /\ \A n \in Q, u \in Side : bh[n] = bh[t.kid[u][n]] + (IF n \in t.red THEN 0 ELSE 1)
    BY <1>0, <1>1 DEF Balanced, Level, Knot, Nested
  <2>2. CASE w \notin t.red
    <3>1. r.red = t.red
      BY <1>3, <2>2
    <3>2. Level(r, Q, bh)
      BY <1>3, <3>1 DEF Balanced, Level
    <3> QED BY <3>2
  <2>3. CASE w \in t.red
    <3> DEFINE h == bh[w] + 1
               lv == [bh EXCEPT ![w] = h]
    <3>1. bh[w] \in Nat /\ h \in Nat /\ w \in Knot /\ w # Nil
      BY <1>6, <2>1
    <3>2. /\ lv \in [Knot -> Nat] /\ lv[Nil] = 0 /\ lv[w] = h
          /\ \A n \in Knot : n # w => lv[n] = bh[n]
      <4> HIDE DEF h
      <4> QED BY <2>1, <3>1
    <3> HIDE DEF lv
    <3>3. ASSUME NEW n \in Q, NEW u \in Side
          PROVE  lv[n] = lv[r.kid[u][n]] + (IF n \in r.red THEN 0 ELSE 1)
      <4>1. lv[r.kid[u][n]] = bh[t.kid[u][n]] /\ bh[t.kid[u][n]] \in Nat
        BY <1>3, <1>6, <2>1, <3>2
      <4>2. bh[n] = bh[t.kid[u][n]] + (IF n \in t.red THEN 0 ELSE 1)
        BY <2>1
      <4>3. CASE n = w
        <5>1. n \notin r.red /\ n \in t.red
          BY <1>3, <2>3, <4>3
        <5>2. bh[n] = bh[t.kid[u][n]] + 0
          BY <4>2, <5>1
        <5>3. bh[n] = bh[t.kid[u][n]]
          BY <4>1, <5>2
        <5> QED BY <3>2, <4>1, <4>3, <5>1, <5>3
      <4>4. CASE n # w
        <5>1. lv[n] = bh[n] /\ (n \in r.red <=> n \in t.red)
          BY <1>3, <2>1, <3>2, <4>4
        <5> QED BY <4>1, <4>2, <5>1
      <4> QED BY <4>3, <4>4
    <3>4. Level(r, Q, lv)
      BY <3>2, <3>3 DEF Level
    <3> QED BY <3>4
  <2> QED BY <2>2, <2>3
<1> QED BY <1>3, <1>5, <1>7 DEF Settled, r

LEMMA FixupIs ==
  ASSUME NEW t, NEW Q, NEW sub, NEW bh, NEW v, NEW z, Balanced(t, Q, sub, bh, v, z)
  PROVE  LET r == rb_insert_fixup(t, z)
         IN  (\E su, lv : Settled(r, Q, su, lv, v)) /\ SameCounts(t, r)
<1> DEFINE S == Repairing(t, Q, v)
           Round(d) == IF ParentIsRed(d.tree, d.at) THEN FixupRound(d.tree, d.at) ELSE d
           F == [d \in S |-> Round(d)]
           start == [tree |-> t, at |-> z]
<1>0. Tasks \in Nat
  BY CfsAssumption
<1>1. start \in S
  <2>1. t \in TreeType /\ z \in Node
    BY DEF Balanced, Shaped, Linked, Reds
  <2>2. start \in [tree : TreeType, at : Node] /\ start.tree = t /\ start.at = z
    BY <2>1
  <2> HIDE DEF start
  <2> QED BY <2>2 DEF Repairing, SameCounts
<1>2. ASSUME NEW d \in S, NEW k \in Nat, Climbs(d, Q, v, k)
      PROVE  Round(d) \in S /\ Climbs(Round(d), Q, v, k + 1)
  <2>1. d \in [tree : TreeType, at : Node] /\ SameCounts(t, d.tree)
    BY DEF Repairing
  <2>2. CASE ~ParentIsRed(d.tree, d.at)
    BY <2>2 DEF Climbs
  <2>3. CASE ParentIsRed(d.tree, d.at)
    <3> DEFINE x == d.tree
               y == d.at
               e == FixupRound(x, y)
    <3>1. PICK su, lv : Balanced(x, Q, su, lv, v, y) /\ k < Cardinality(su[y])
      BY <1>2, <2>3 DEF Climbs
    <3>2. Round(d) = e /\ SameCounts(t, x) /\ ParentIsRed(x, y)
      BY <2>1, <2>3
    <3> HIDE DEF x, y, Round
    <3>3. /\ e \in [tree : TreeType, at : Node] /\ SameCounts(x, e.tree)
          /\ \E sw, lw : /\ Balanced(e.tree, Q, sw, lw, v, e.at)
                         /\ ~ParentIsRed(e.tree, e.at)
                            \/ (su[y] \subseteq sw[e.at] /\ e.at \notin su[y])
      BY <3>1, <3>2, RoundIs
    <3> HIDE DEF e
    <3>4. PICK sw, lw : /\ Balanced(e.tree, Q, sw, lw, v, e.at)
                        /\ ~ParentIsRed(e.tree, e.at)
                           \/ (su[y] \subseteq sw[e.at] /\ e.at \notin su[y])
      BY <3>3
    <3>5. e \in S
      BY <3>2, <3>3, <3>4 DEF Repairing, SameCounts
    <3>6. ASSUME ParentIsRed(e.tree, e.at) PROVE k + 1 < Cardinality(sw[e.at])
      <4>1. e.at \in sw[e.at] /\ sw[e.at] \subseteq Node /\ su[y] \subseteq sw[e.at] /\ e.at \notin su[y]
        <5>1. Nested(e.tree, Q, sw) /\ e.at \in Q /\ Q \subseteq Node
          BY <3>4, SubtreesNest DEF Balanced, Reds, Shaped, Linked
        <5> QED BY <3>4, <3>6, <5>1 DEF Nested
      <4> DEFINE A == su[y]
                 B == sw[e.at]
                 b == e.at
                 m == Cardinality(A)
                 n == Cardinality(B)
      <4>2. IsFiniteSet(B) /\ A \subseteq B /\ b \in B /\ b \notin A
        BY <4>1, NodesFinite
      <4>3. k < m
        BY <3>1
      <4> HIDE DEF A, B, b
      <4>4. m \in Nat /\ n \in Nat /\ m < n
        BY <4>2, SmallerSet
      <4> HIDE DEF m, n
      <4>5. k + 1 < n
        BY <4>3, <4>4
      <4> QED BY <4>5 DEF n, B
    <3> QED BY <3>2, <3>4, <3>5, <3>6 DEF Climbs
  <2> QED BY <2>2, <2>3
<1>3. ASSUME NEW d \in S PROVE Round(d) \in S
  <2>1. d \in [tree : TreeType, at : Node] /\ SameCounts(t, d.tree)
    BY DEF Repairing
  <2>2. CASE ~ParentIsRed(d.tree, d.at)
    BY <2>2
  <2>3. CASE ParentIsRed(d.tree, d.at)
    <3> DEFINE x == d.tree
               y == d.at
               e == FixupRound(x, y)
    <3>1. PICK su, lv : Balanced(x, Q, su, lv, v, y)
      BY DEF Repairing
    <3>2. Round(d) = e /\ SameCounts(t, x) /\ ParentIsRed(x, y)
      BY <2>1, <2>3
    <3> HIDE DEF x, y, Round
    <3>3. /\ e \in [tree : TreeType, at : Node] /\ SameCounts(x, e.tree)
          /\ \E sw, lw : Balanced(e.tree, Q, sw, lw, v, e.at)
      BY <3>1, <3>2, RoundIs
    <3> HIDE DEF e
    <3> QED BY <3>2, <3>3 DEF Repairing, SameCounts
  <2> QED BY <2>2, <2>3
<1>4. F \in [S -> S]
  <2> HIDE DEF S, Round
  <2> QED BY <1>3
<1>5. PICK f \in [0 .. Tasks -> S] : Steps(f, start, Tasks, F)
  <2> HIDE DEF S, F, start
  <2> QED BY <1>0, <1>1, <1>4, StepsExist
<1>6. ASSUME NEW k \in 0 .. Tasks
      PROVE  /\ f[k] \in S /\ f[k] = IF k = 0 THEN start ELSE Round(f[k - 1])
             /\ k # 0 => k - 1 \in 0 .. Tasks /\ f[k - 1] \in S
  <2> HIDE DEF S, Round, start
  <2>1. f[k] \in S
    BY <1>5
  <2>2. f[k] = IF k = 0 THEN start ELSE F[f[k - 1]]
    BY <1>5 DEF Steps
  <2>3. k # 0 => k - 1 \in 0 .. Tasks
    BY <1>0
  <2>4. k # 0 => f[k - 1] \in S
    BY <1>5, <2>3
  <2> QED BY <2>1, <2>2, <2>3, <2>4
<1>7. f = [k \in 0 .. Tasks |-> IF k = 0 THEN start ELSE Round(f[k - 1])]
  <2> HIDE DEF S, Round, start
  <2> QED BY <1>5, <1>6 DEF Steps
<1> DEFINE done[k \in 0 .. Tasks] == IF k = 0 THEN start ELSE Round(done[k - 1])
           end == done[Tasks].tree
<1>8. done = [k \in 0 .. Tasks |-> IF k = 0 THEN start ELSE Round(done[k - 1])]
  <2> HIDE DEF S, Round, start
  <2> QED BY <1>7
<1>9. rb_insert_fixup(t, z) = [end EXCEPT !.red = @ \ {end.root}]
  BY Zenon DEF rb_insert_fixup
<1> HIDE DEF done
<1> DEFINE T == {k \in Nat : k <= Tasks => done[k] \in S /\ Climbs(done[k], Q, v, k)}
<1>10. T = Nat
  <2>1. 0 \in T
    <3>1. done[0] = start
      BY <1>0, <1>8
    <3>2. Climbs(start, Q, v, 0)
      <4>1. z \in sub[z] /\ sub[z] \subseteq Node
        <5>1. Nested(t, Q, sub) /\ z \in Q /\ Q \subseteq Node
          BY SubtreesNest DEF Balanced, Reds, Shaped, Linked
        <5> QED BY <5>1 DEF Nested
      <4> DEFINE B == sub[z]
                 E == {}
                 n == Cardinality(B)
                 m == Cardinality(E)
      <4>2. IsFiniteSet(B) /\ E \subseteq B /\ z \in B /\ z \notin E /\ m = 0
        BY <4>1, NodesFinite, FS_EmptySet
      <4> HIDE DEF B, E
      <4>3. m < n
        BY <4>2, SmallerSet
      <4> HIDE DEF n, m
      <4>4. 0 < n
        BY <4>2, <4>3
      <4>5. start.tree = t /\ start.at = z
        OBVIOUS
      <4> HIDE DEF start
      <4>6. Balanced(start.tree, Q, sub, bh, v, start.at) /\ 0 < Cardinality(sub[start.at])
        BY <4>4, <4>5 DEF n, B
      <4> QED BY <4>6 DEF Climbs
    <3> HIDE DEF S, start
    <3> QED BY <1>1, <3>1, <3>2
  <2>2. ASSUME NEW k \in T PROVE k + 1 \in T
    <3> SUFFICES ASSUME k + 1 <= Tasks
                 PROVE  done[k + 1] \in S /\ Climbs(done[k + 1], Q, v, k + 1)
      OBVIOUS
    <3>1. k \in Nat /\ k <= Tasks /\ k + 1 \in 0 .. Tasks /\ k + 1 # 0 /\ (k + 1) - 1 = k
      BY <1>0
    <3>2. done[k] \in S /\ Climbs(done[k], Q, v, k)
      BY <3>1
    <3> HIDE DEF S, Round, start
    <3>3. done[k + 1] = Round(done[k])
      BY <1>8, <3>1
    <3> QED BY <1>2, <3>1, <3>2, <3>3
  <2> HIDE DEF T
  <2>3. T \in SUBSET Nat
    BY DEF T
  <2> QED BY <2>1, <2>2, <2>3, SetInduction
<1> DEFINE d == done[Tasks]
<1>11. d \in S /\ Climbs(d, Q, v, Tasks)
  <2>1. Tasks \in T
    BY <1>0, <1>10
  <2> HIDE DEF S
  <2> QED BY <1>0, <2>1
<1> HIDE DEF d
<1>12. ~ParentIsRed(d.tree, d.at)
  <2>1. ASSUME NEW su, NEW lv, Balanced(d.tree, Q, su, lv, v, d.at), Tasks < Cardinality(su[d.at])
        PROVE  FALSE
    <3>1. Nested(d.tree, Q, su) /\ d.at \in Q /\ Q \subseteq Node
      BY <2>1, SubtreesNest DEF Balanced, Reds, Shaped, Linked
    <3> DEFINE B == su[d.at]
               n == Cardinality(B)
    <3>2. B \in SUBSET Node /\ Tasks < n
      BY <2>1, <3>1 DEF Nested
    <3> HIDE DEF B
    <3>3. n \in 0 .. Tasks
      BY <3>2, NodesFinite
    <3> HIDE DEF n
    <3> QED BY <1>0, <3>2, <3>3
  <2> QED BY <1>11, <2>1 DEF Climbs
<1>13. SameCounts(t, d.tree) /\ \E su, lv : Balanced(d.tree, Q, su, lv, v, d.at)
  BY <1>11 DEF Repairing
<1> DEFINE c == d.tree
           r == [c EXCEPT !.red = @ \ {c.root}]
<1>14. SameCounts(t, c) /\ (\E su, lv : Balanced(c, Q, su, lv, v, d.at)) /\ ~ParentIsRed(c, d.at)
  BY <1>12, <1>13
<1>15. rb_insert_fixup(t, z) = r
  BY <1>9 DEF d
<1> HIDE DEF c
<1>16. (\E su, lv : Settled(r, Q, su, lv, v)) /\ SameCounts(c, r)
  BY <1>14, BlackenedIs
<1> HIDE DEF r
<1>17. SameCounts(t, r)
  BY <1>14, <1>16 DEF SameCounts
<1> QED BY <1>15, <1>16, <1>17

----------------------------------------------------------------------------
(* Where z is put. *)

(* z lies to the same side of the other nodes as those under x. *)
Among(Q, sub, v, z, x) ==
  \A m \in Q : m \notin sub[x] =>
    \A c \in sub[x], u \in Side : On(v, u, c, m) => On(v, u, z, m)

(* The tree the arriving node z, with the next of the numbers, is put in. *)
Arrives(t, Q, sub, bh, v, z) ==
  /\ Settled(t, Q, sub, bh, v) /\ t.root # Nil
  /\ z \in Node /\ z \notin Q /\ \A m \in Q : m < z
  /\ \A m \in Q : sched_data[m].vruntime = v[m]

LEMMA SideForIs ==
  ASSUME NEW t, NEW Q, NEW sub, NEW bh, NEW v, NEW z, Arrives(t, Q, sub, bh, v, z), NEW x \in Q
  PROVE  SideFor(v[z], x) \in Side /\ On(v, SideFor(v[z], x), z, x)
<1> DEFINE a == v[z]
           b == v[x]
<1>1. sched_data[x].vruntime = b /\ z \in Int /\ x \in Int /\ x < z /\ a \in Int /\ b \in Int
  BY CfsAssumption DEF Arrives, Settled, Shaped, Linked, Node
<1>2. SideFor(a, x) = IF a < b THEN "left" ELSE "right"
  BY <1>1 DEF SideFor
<1>3. CASE a < b
  BY <1>2, <1>3 DEF Side, On, Before
<1>4. CASE ~(a < b)
  <2>1. b < a \/ b = a
    <3> HIDE DEF a, b
    <3> QED BY <1>1, <1>4
  <2>2. SideFor(a, x) = "right"
    BY <1>2, <1>4
  <2> QED BY <1>1, <2>1, <2>2 DEF Side, On, Before
<1> QED BY <1>3, <1>4

LEMMA BelowIs ==
  ASSUME NEW t, NEW Q, NEW sub, NEW bh, NEW v, NEW z, Arrives(t, Q, sub, bh, v, z), NEW x \in Q
  PROVE  LET y == Below(t, v[z], x)
         IN  /\ y \in Q
             /\ Among(Q, sub, v, z, x) => Among(Q, sub, v, z, y)
             /\ y # x => sub[y] \subseteq sub[x] /\ x \notin sub[y]
             /\ y = x => t.kid[SideFor(v[z], x)][x] = Nil
<1> DEFINE s == SideFor(v[z], x)
           o == Other(s)
           k == t.kid[s][x]
           y == Below(t, v[z], x)
<1>0. Shaped(t, Q, sub, v) /\ Nested(t, Q, sub) /\ v \in [Node -> Nat] /\ z \in Node
  BY SubtreesNest DEF Arrives, Settled, Shaped
<1>1. s \in Side /\ On(v, s, z, x) /\ o \in Side /\ o # s /\ Other(o) = s /\ \A u \in Side : u = s \/ u = o
  BY SideForIs, SidesAre
<1>2. y = IF k = Nil THEN x ELSE k
  BY DEF Below
<1> HIDE DEF s, y
<1>3. /\ k \in Q \cup {Nil} /\ x \notin sub[k] /\ sub[k] \subseteq sub[x] /\ x \in Node
      /\ k # Nil => k # x
      /\ sub[x] \subseteq Node
  BY <1>0, <1>1 DEF Nested, Shaped, Linked
<1>4. ASSUME k # Nil, Among(Q, sub, v, z, x), NEW m \in Q, m \notin sub[k],
             NEW c \in sub[k], NEW u \in Side, On(v, u, c, m)
      PROVE  On(v, u, z, m)
  <2>1. c \in sub[x] /\ c \in Node /\ m \in Node /\ On(v, s, c, x)
    BY <1>0, <1>1, <1>3 DEF Shaped, Sorted, Nested
  <2>2. CASE m \notin sub[x]
    BY <1>4, <2>1, <2>2 DEF Among
  <2>3. ASSUME On(v, s, x, m) PROVE On(v, u, z, m)
    <3>1. On(v, s, c, m) /\ On(v, s, z, m)
      BY <1>0, <1>1, <1>3, <2>1, <2>3, OrderIs
    <3>2. u = s
      BY <1>0, <1>1, <1>4, <2>1, <3>1, OrderIs
    <3> QED BY <3>1, <3>2
  <2>4. CASE m = x
    <3>1. u = s
      BY <1>0, <1>1, <1>3, <1>4, <2>1, <2>4, OrderIs
    <3> QED BY <1>1, <2>4, <3>1
  <2>5. CASE m \in sub[x] /\ m # x
    <3>1. m \in sub[t.kid[o][x]]
      <4>1. \E w \in Side : m \in sub[t.kid[w][x]]
        BY <1>0, <2>5 DEF Shaped, Spans
      <4> QED BY <1>1, <1>4, <4>1
    <3>2. On(v, o, m, x)
      BY <1>0, <1>1, <3>1 DEF Shaped, Sorted
    <3>3. On(v, s, x, m)
      BY <1>0, <1>1, <1>3, <2>1, <3>2, OrderIs
    <3> QED BY <2>3, <3>3
  <2> QED BY <2>2, <2>4, <2>5
<1>5. Among(Q, sub, v, z, x) => Among(Q, sub, v, z, y)
  BY <1>2, <1>4 DEF Among
<1> QED BY <1>2, <1>3, <1>5 DEF s, y

LEMMA PlaceIs ==
  ASSUME NEW t, NEW Q, NEW sub, NEW bh, NEW v, NEW z, Arrives(t, Q, sub, bh, v, z)
  PROVE  LET y == Place(t, v[z])
         IN  y \in Q /\ t.kid[SideFor(v[z], y)][y] = Nil /\ Among(Q, sub, v, z, y)
<1> DEFINE w == v[z]
           F == [x \in Q |-> Below(t, w, x)]
           a == t.root
<1>0. Tasks \in Nat /\ Q \subseteq Node /\ a \in Q /\ sub[a] = Q /\ \A x \in Q : sub[x] \subseteq Q /\ x \in sub[x]
  <2>1. Nested(t, Q, sub)
    BY SubtreesNest DEF Arrives, Settled
  <2> QED BY <2>1, CfsAssumption DEF Arrives, Settled, Shaped, Linked, Spans, Nested
<1>1. ASSUME NEW x \in Q
      PROVE  LET y == Below(t, w, x)
             IN  /\ y \in Q
                 /\ Among(Q, sub, v, z, x) => Among(Q, sub, v, z, y)
                 /\ y # x => sub[y] \subseteq sub[x] /\ x \notin sub[y]
                 /\ y = x => t.kid[SideFor(w, x)][x] = Nil
  BY BelowIs
<1>2. F \in [Q -> Q]
  BY <1>1
<1> HIDE DEF w
<1>3. PICK f \in [0 .. Tasks -> Q] : Steps(f, a, Tasks, F)
  <2> HIDE DEF F, a
  <2> QED BY <1>0, <1>2, StepsExist
<1>4. ASSUME NEW k \in 0 .. Tasks
      PROVE  f[k] = IF k = 0 THEN a ELSE Below(t, w, f[k - 1])
  <2>1. f[k] = IF k = 0 THEN a ELSE F[f[k - 1]]
    <3> HIDE DEF F, a
    <3> QED BY <1>3 DEF Steps
  <2>2. k # 0 => k - 1 \in 0 .. Tasks
    BY <1>0
  <2>3. k # 0 => f[k - 1] \in Q
    BY <1>3, <2>2
  <2> QED BY <2>1, <2>3
<1>5. f = [k \in 0 .. Tasks |-> IF k = 0 THEN a ELSE Below(t, w, f[k - 1])]
  BY <1>3, <1>4
<1> DEFINE down[k \in 0 .. Tasks] == IF k = 0 THEN a ELSE Below(t, w, down[k - 1])
<1>6. down = [k \in 0 .. Tasks |-> IF k = 0 THEN a ELSE Below(t, w, down[k - 1])]
  BY <1>5
<1>7. Place(t, w) = down[Tasks]
  BY Zenon DEF Place
<1> HIDE DEF down, a
<1> DEFINE Digs(x, k) ==
             /\ x \in Q /\ Among(Q, sub, v, z, x)
             /\ Below(t, w, x) = x \/ Cardinality(sub[x]) + k <= Tasks
           T == {k \in Nat : k <= Tasks => Digs(down[k], k)}
<1>8. T = Nat
  <2>1. 0 \in T
    <3>1. down[0] = a
      BY <1>0, <1>6
    <3>2. Among(Q, sub, v, z, a)
      BY <1>0 DEF Among
    <3>3. Cardinality(sub[a]) + 0 <= Tasks
      <4> DEFINE n == Cardinality(Q)
      <4>1. n \in 0 .. Tasks
        BY <1>0, NodesFinite
      <4> HIDE DEF n
      <4>2. n + 0 <= Tasks
        BY <1>0, <4>1
      <4> QED BY <1>0, <4>2 DEF n
    <3> QED BY <1>0, <3>1, <3>2, <3>3
  <2>2. ASSUME NEW k \in T PROVE k + 1 \in T
    <3> SUFFICES ASSUME k + 1 <= Tasks PROVE Digs(down[k + 1], k + 1)
      OBVIOUS
    <3>1. k \in Nat /\ k <= Tasks /\ k + 1 \in 0 .. Tasks /\ k + 1 # 0 /\ (k + 1) - 1 = k
      BY <1>0
    <3> DEFINE x == down[k]
               y == down[k + 1]
    <3>2. Digs(x, k)
      BY <3>1
    <3>3. y = Below(t, w, x)
      BY <1>6, <3>1
    <3> HIDE DEF x, y
    <3>4. y \in Q /\ Among(Q, sub, v, z, y) /\ (y # x => sub[y] \subseteq sub[x] /\ x \notin sub[y])
      BY <1>1, <3>2, <3>3
    <3>5. CASE y = x
      BY <3>2, <3>3, <3>4, <3>5 DEF x, y
    <3>6. CASE y # x
      <4> DEFINE A == sub[y]
                 B == sub[x]
                 m == Cardinality(A)
                 n == Cardinality(B)
      <4>1. A \subseteq B /\ x \in B /\ x \notin A /\ IsFiniteSet(B)
        BY <1>0, <3>2, <3>4, <3>6, NodesFinite
      <4>2. n + k <= Tasks
        BY <3>2, <3>3, <3>6
      <4> HIDE DEF A, B
      <4>3. m \in Nat /\ n \in Nat /\ m < n
        BY <4>1, SmallerSet
      <4> HIDE DEF m, n
      <4>4. m + (k + 1) <= Tasks
        BY <1>0, <3>1, <4>2, <4>3
      <4> QED BY <3>4, <4>4 DEF m, A, y
    <3> QED BY <3>5, <3>6
  <2> HIDE DEF T
  <2>3. T \in SUBSET Nat
    BY DEF T
  <2> QED BY <2>1, <2>2, <2>3, SetInduction
<1> DEFINE y == down[Tasks]
<1>9. Digs(y, Tasks)
  <2>1. Tasks \in T
    BY <1>0, <1>8
  <2> QED BY <1>0, <2>1
<1> HIDE DEF y
<1>10. Below(t, w, y) = y
  <2> DEFINE n == Cardinality(sub[y])
             A == {}
             B == sub[y]
             m == Cardinality(A)
  <2>1. IsFiniteSet(B) /\ A \subseteq B /\ y \in B /\ y \notin A /\ m = 0
    BY <1>0, <1>9, NodesFinite, FS_EmptySet
  <2> HIDE DEF A, B
  <2>2. Cardinality(B) \in Nat /\ m < Cardinality(B)
    BY <2>1, SmallerSet
  <2>3. n \in Nat /\ 0 < n
    BY <2>1, <2>2 DEF B
  <2>4. n + Tasks <= Tasks => FALSE
    <3> HIDE DEF n
    <3> QED BY <1>0, <2>3
  <2> QED BY <1>9, <2>4
<1>11. Place(t, w) = y
  BY <1>7 DEF y
<1>12. y \in Q /\ Among(Q, sub, v, z, y) /\ t.kid[SideFor(w, y)][y] = Nil
  BY <1>1, <1>9, <1>10
<1> QED BY <1>11, <1>12 DEF w

----------------------------------------------------------------------------
(* Hanging z on its place. *)

(* z is queued, red, and l is the leftmost. *)
Marked(t, r, l, R) ==
  /\ r \in TreeType /\ r.leftmost = l /\ r.red = R
  /\ r.kid = t.kid /\ r.parent = t.parent /\ r.root = t.root
  /\ r.nr_running = t.nr_running /\ r.load_weight = t.load_weight

SetMark(t, r, l, R) == r = [t EXCEPT !.leftmost = l, !.red = R]

LEMMA MarkedIs ==
  ASSUME NEW t \in TreeType, NEW l \in Knot, NEW R \in SUBSET Node, NEW r, SetMark(t, r, l, R)
  PROVE  Marked(t, r, l, R)
<1> DEFINE KS == [Side -> [Node -> Knot]]
           PS == [Node -> Knot]
           RS == SUBSET Node
<1>1. TreeType = [root : Knot, leftmost : Knot, nr_running : Int, load_weight : Int,
                  kid : KS, parent : PS, red : RS] /\ R \in RS
  BY DEF TreeType
<1> HIDE DEF KS, PS, RS
<1> QED BY <1>1 DEF Marked, SetMark

(* The sets of the nodes under a node with z under y. *)
Grafted(sub, su, y, z) ==
  \A n \in Knot : su[n] = IF n = z THEN {z} ELSE IF y \in sub[n] THEN sub[n] \cup {z} ELSE sub[n]

LEMMA GraftedShape ==
  ASSUME NEW t, NEW Q, NEW sub, NEW v, Shaped(t, Q, sub, v), t.root # Nil,
         NEW z \in Node, z \notin Q, NEW y \in Q, NEW s \in Side, t.kid[s][y] = Nil,
         On(v, s, z, y), Among(Q, sub, v, z, y),
         NEW r, Hung(t, r, z, y, s),
         NEW su \in [Knot -> SUBSET (Q \cup {z})], Grafted(sub, su, y, z)
  PROVE  Shaped(r, Q \cup {z}, su, v)
<1> DEFINE W == Q \cup {z}
<1>0. Nested(t, Q, sub) /\ t \in TreeType /\ v \in [Node -> Nat]
  BY SubtreesNest DEF Shaped
<1>1. /\ Q \subseteq Node /\ W \subseteq Node /\ W \subseteq Knot /\ Nil \notin W
      /\ Node \subseteq Knot /\ Nil \in Knot /\ z \in W /\ y \in W /\ y # z /\ y # Nil
      /\ \A n \in Q : n # z
  <2>1. Q \subseteq Node /\ z \in Node
    BY DEF Shaped, Linked
  <2>2. Nil \notin Node
    BY CfsAssumption DEF Node
  <2> QED BY <2>1, <2>2 DEF Knot
<1>2. /\ r \in TreeType
      /\ \A u \in Side, n \in Node : r.kid[u][n] = IF n = y /\ u = s THEN z ELSE t.kid[u][n]
      /\ \A n \in Node : r.parent[n] = IF n = z THEN y ELSE t.parent[n]
      /\ r.root = t.root /\ t.root \in Q /\ t.parent[t.root] = Nil /\ sub[t.root] = Q
  BY DEF Hung, Shaped, Linked, Spans
<1>3. /\ sub[Nil] = {} /\ \A n \in Knot \ Q : sub[n] = {}
      /\ \A n \in Knot : sub[n] \subseteq Q
      /\ \A n \in Q : n \in sub[n]
  <2>1. \A n \in Knot \ Q : sub[n] = {}
    BY DEF Shaped, Spans
  <2>2. sub \in [Knot -> SUBSET Q]
    BY DEF Shaped, Spans
  <2> QED BY <1>0, <1>1, <2>1, <2>2 DEF Nested
<1>4. /\ \A n \in Q, u \in Side : t.kid[u][n] \in Q \cup {Nil} /\ t.kid[u][n] \in Knot /\ t.kid[u][n] # z
      /\ \A u \in Side : t.kid[u][z] = Nil
      /\ \A n \in Q, u \in Side : t.kid[u][n] # Nil => t.parent[t.kid[u][n]] = n
  <2>1. \A n \in Q, u \in Side : t.kid[u][n] \in Q \cup {Nil}
    BY <1>0 DEF Nested
  <2>2. \A u \in Side : t.kid[u][z] = Nil
    BY DEF Shaped, Linked
  <2>3. \A n \in Q, u \in Side : t.kid[u][n] # Nil => t.parent[t.kid[u][n]] = n
    BY DEF Shaped, Linked
  <2>4. z # Nil
    BY <1>1
  <2> QED BY <1>1, <2>1, <2>2, <2>3, <2>4
<1>5. Linked(r, W)
  <2>1. r.root \in W /\ r.root # Nil /\ r.parent[r.root] = Nil
    BY <1>1, <1>2
  <2>2. ASSUME NEW n \in W, NEW u \in Side, r.kid[u][n] # Nil
        PROVE  r.kid[u][n] \in W /\ r.parent[r.kid[u][n]] = n
    <3>1. CASE n = y /\ u = s
      <4>1. r.kid[u][n] = z
        BY <1>1, <1>2, <3>1
      <4> QED BY <1>1, <1>2, <3>1, <4>1
    <3>2. CASE ~(n = y /\ u = s)
      <4>1. r.kid[u][n] = t.kid[u][n]
        BY <1>1, <1>2, <3>2
      <4>2. n # z /\ n \in Q
        BY <1>4, <2>2, <4>1
      <4>3. t.kid[u][n] \in Q /\ t.parent[t.kid[u][n]] = n /\ t.kid[u][n] # z
        BY <1>4, <2>2, <4>1, <4>2
      <4> QED BY <1>1, <1>2, <4>1, <4>3
    <3> QED BY <3>1, <3>2
  <2>3. ASSUME NEW n \in W, n # r.root
        PROVE  r.parent[n] \in W /\ \E u \in Side : r.kid[u][r.parent[n]] = n
    <3>1. CASE n = z
      <4>1. r.parent[n] = y /\ r.kid[s][y] = z
        BY <1>1, <1>2, <3>1
      <4> QED BY <1>1, <3>1, <4>1
    <3>2. CASE n # z
      <4>1. n \in Q /\ n # Nil /\ n # t.root /\ r.parent[n] = t.parent[n]
        BY <1>1, <1>2, <2>3, <3>2
      <4>2. t.parent[n] \in Q /\ \E u \in Side : t.kid[u][t.parent[n]] = n
        BY <4>1 DEF Shaped, Linked
      <4>3. PICK u \in Side : t.kid[u][t.parent[n]] = n
        BY <4>2
      <4>4. ~(t.parent[n] = y /\ u = s)
        BY <4>1, <4>3
      <4>5. r.kid[u][t.parent[n]] = n
        BY <1>1, <1>2, <4>2, <4>3, <4>4
      <4> QED BY <4>1, <4>2, <4>5
    <3> QED BY <3>1, <3>2
  <2>4. ASSUME NEW n \in Node \ W, NEW u \in Side PROVE r.kid[u][n] = Nil
    <3>1. n \in Node \ Q /\ n # y
      BY <1>1
    <3>2. t.kid[u][n] = Nil
      BY <3>1 DEF Shaped, Linked
    <3> QED BY <1>2, <3>1, <3>2
  <2> QED BY <1>1, <2>1, <2>2, <2>3, <2>4 DEF Linked
<1>6. /\ su[z] = {z} /\ su[Nil] = {}
      /\ \A n \in Knot : n # z => su[n] = IF y \in sub[n] THEN sub[n] \cup {z} ELSE sub[n]
      /\ \A n \in Knot, m \in Q : n # z => (m \in su[n] <=> m \in sub[n])
      /\ \A n \in Knot : n # z => (z \in su[n] <=> y \in sub[n])
  <2>1. \A n \in Knot : su[n] = IF n = z THEN {z} ELSE IF y \in sub[n] THEN sub[n] \cup {z} ELSE sub[n]
    BY DEF Grafted
  <2>2. \A n \in Knot : z \notin sub[n]
    BY <1>3
  <2> QED BY <1>1, <1>3, <2>1, <2>2
(* What lies under a child of a queued node. *)
<1>7. ASSUME NEW n \in Q, NEW u \in Side
      PROVE  /\ \A m \in Q : m \in su[r.kid[u][n]] <=> m \in sub[t.kid[u][n]]
             /\ z \in su[r.kid[u][n]] <=> (n = y /\ u = s) \/ y \in sub[t.kid[u][n]]
  <2>1. CASE n = y /\ u = s
    <3>1. r.kid[u][n] = z /\ t.kid[u][n] = Nil
      BY <1>1, <1>2, <2>1
    <3> QED BY <1>1, <1>3, <1>6, <2>1, <3>1
  <2>2. CASE ~(n = y /\ u = s)
    <3>1. r.kid[u][n] = t.kid[u][n]
      BY <1>1, <1>2, <2>2
    <3>2. t.kid[u][n] \in Knot /\ t.kid[u][n] # z
      BY <1>4
    <3> QED BY <1>6, <2>2, <3>1, <3>2
  <2> QED BY <2>1, <2>2
<1>8. ASSUME NEW u \in Side PROVE r.kid[u][z] = Nil
  BY <1>1, <1>2, <1>4
<1>9. Spans(r, W, su)
  <2>1. \A n \in Knot \ W : su[n] = {}
    <3>1. ASSUME NEW n \in Knot \ W PROVE su[n] = {}
      <4>1. n # z /\ sub[n] = {}
        BY <1>3
      <4> QED BY <1>6, <4>1
    <3> QED BY <3>1
  <2>2. su[r.root] = W
    BY <1>1, <1>2, <1>6
  <2>3. ASSUME NEW n \in W, NEW m \in W
        PROVE  m \in su[n] <=> m = n \/ \E u \in Side : m \in su[r.kid[u][n]]
    <3>1. CASE n = z
      BY <1>6, <1>8, <3>1
    <3>2. CASE n \in Q /\ m \in Q
      <4>1. m \in su[n] <=> m \in sub[n]
        BY <1>1, <1>6, <3>2
      <4>2. m \in sub[n] <=> m = n \/ \E u \in Side : m \in sub[t.kid[u][n]]
        BY <3>2 DEF Shaped, Spans
      <4> QED BY <1>7, <3>2, <4>1, <4>2
    <3>3. CASE n \in Q /\ m = z
      <4>1. m \in su[n] <=> y \in sub[n]
        BY <1>1, <1>6, <3>3
      <4>2. y \in sub[n] <=> y = n \/ \E u \in Side : y \in sub[t.kid[u][n]]
        BY <3>3 DEF Shaped, Spans
      <4> QED BY <1>1, <1>7, <3>3, <4>1, <4>2
    <3> QED BY <3>1, <3>2, <3>3
  <2>4. ASSUME NEW n \in W, NEW m \in su[n]
        PROVE  su[m] \subseteq su[n] /\ (m # n => r.parent[m] \in su[n])
    <3>1. CASE n = z
      BY <1>6, <3>1
    <3>2. CASE n \in Q /\ m = z
      <4>1. y \in sub[n]
        BY <1>1, <1>6, <3>2
      <4> QED BY <1>1, <1>2, <1>6, <3>2, <4>1
    <3>3. CASE n \in Q /\ m # z
      <4>1. m \in Q /\ n \in Knot /\ n # z /\ m \in Node /\ m \in Knot
        BY <1>1, <3>3
      <4>2. m \in sub[n]
        BY <1>6, <4>1
      <4>3. sub[m] \subseteq sub[n] /\ (m # n => t.parent[m] \in sub[n])
        BY <3>3, <4>2 DEF Shaped, Spans
      <4>4. su[m] \subseteq su[n]
        BY <1>6, <4>1, <4>3
      <4>5. r.parent[m] = t.parent[m]
        BY <1>2, <3>3, <4>1
      <4>6. sub[n] \subseteq su[n]
        BY <1>6, <4>1
      <4> QED BY <4>3, <4>4, <4>5, <4>6
    <3> QED BY <3>1, <3>2, <3>3
  <2> QED BY <2>1, <2>2, <2>3, <2>4 DEF Spans
<1>10. Sorted(r, W, su, v)
  <2>1. ASSUME NEW n \in W, NEW u \in Side, NEW m \in su[r.kid[u][n]]
        PROVE  On(v, u, m, n)
    <3>0. n \in Q
      BY <1>6, <1>8, <2>1
    <3>1. m \in W
      <4>1. r.kid[u][n] \in Knot
        BY <1>1, <1>2 DEF TreeType
      <4> QED BY <4>1
    <3>2. CASE m \in Q
      <4>1. m \in sub[t.kid[u][n]]
        BY <1>7, <3>0, <3>2
      <4> QED BY <3>0, <4>1 DEF Shaped, Sorted
    <3>3. CASE m = z /\ n = y /\ u = s
      BY <3>3
    <3>4. CASE m = z /\ y \in sub[t.kid[u][n]]
      <4> DEFINE k == t.kid[u][n]
      <4>1. On(v, u, y, n)
        BY <3>0, <3>4 DEF Shaped, Sorted
      <4>2. k \in Q /\ n \notin sub[k] /\ y \in sub[k]
        BY <1>0, <1>3, <1>4, <3>0, <3>4 DEF Nested
      <4>3. sub[y] \subseteq sub[k]
        <5> HIDE DEF k
        <5> QED BY <4>2 DEF Shaped, Spans
      <4>4. n \notin sub[y] /\ y \in sub[y]
        BY <1>3, <4>2, <4>3
      <4> QED BY <3>0, <3>4, <4>1, <4>4 DEF Among
    <3> QED BY <1>7, <3>0, <3>1, <3>2, <3>3, <3>4
  <2> QED BY <2>1 DEF Sorted
<1> QED BY <1>0, <1>2, <1>5, <1>9, <1>10 DEF Shaped

LEMMA GraftedBalance ==
  ASSUME NEW t, NEW Q, NEW sub, NEW bh, NEW v, Settled(t, Q, sub, bh, v), t.root # Nil,
         NEW z \in Node, z \notin Q, NEW y \in Q, NEW s \in Side, t.kid[s][y] = Nil,
         On(v, s, z, y), Among(Q, sub, v, z, y),
         NEW l, NEW x, Marked(t, x, l, t.red \cup {z}), NEW r, Hung(x, r, z, y, s)
  PROVE  \E su, lv : Balanced(r, Q \cup {z}, su, lv, v, z)
<1> DEFINE W == Q \cup {z}
           su == [n \in Knot |-> IF n = z THEN {z} ELSE IF y \in sub[n] THEN sub[n] \cup {z} ELSE sub[n]]
           lv == [bh EXCEPT ![z] = 0]
<1>0. /\ Shaped(t, Q, sub, v) /\ Level(t, Q, bh) /\ Reds(t, Q, Nil) /\ t.root \notin t.red
      /\ Nested(t, Q, sub) /\ t \in TreeType
  BY SubtreesNest DEF Settled, Shaped
<1>1. Shaped(x, Q, sub, v) /\ x.root # Nil /\ x.kid[s][y] = Nil
  <2>1. x \in TreeType /\ x.kid = t.kid /\ x.parent = t.parent /\ x.root = t.root
    BY DEF Marked
  <2>2. Linked(x, Q)
    BY <1>0, <2>1 DEF Shaped, Linked
  <2>3. Spans(x, Q, sub)
    BY <1>0, <2>1 DEF Shaped, Spans
  <2> QED BY <1>0, <2>1, <2>2, <2>3 DEF Shaped, Sorted
<1>2. /\ Q \subseteq Node /\ W \subseteq Node /\ W \subseteq Knot /\ Q \subseteq Knot /\ Nil \notin W
      /\ Nil \in Knot /\ z \in Knot /\ y # z /\ z # Nil
  <2>1. Q \subseteq Node /\ z \in Node
    BY <1>0 DEF Shaped, Linked
  <2>2. Nil \notin Node
    BY CfsAssumption DEF Node
  <2> QED BY <2>1, <2>2 DEF Knot
<1>3. su \in [Knot -> SUBSET W] /\ Grafted(sub, su, y, z)
  <2>1. \A n \in Knot : sub[n] \in SUBSET Q
    BY <1>0 DEF Shaped, Spans
  <2> QED BY <2>1 DEF Grafted
<1> HIDE DEF su
<1>4. Shaped(r, W, su, v)
  BY <1>1, <1>3, GraftedShape
<1>5. /\ r.red = t.red \cup {z} /\ r.root = t.root
      /\ \A n \in Node : r.parent[n] = IF n = z THEN y ELSE t.parent[n]
      /\ \A u \in Side, n \in Node : r.kid[u][n] = IF n = y /\ u = s THEN z ELSE t.kid[u][n]
  BY DEF Hung, Marked
<1>6. Reds(r, W, z)
  <2>1. t.red \subseteq Q /\ \A n \in t.red : t.parent[n] # Nil /\ t.parent[n] \notin t.red
    BY <1>0, <1>2 DEF Reds
  <2>2. t.parent[t.root] = Nil /\ \A n \in Q : n # t.root => t.parent[n] \in Q
    BY <1>0 DEF Shaped, Linked
  <2>3. ASSUME NEW n \in r.red, n # z
        PROVE  r.parent[n] # Nil /\ r.parent[n] \notin r.red
    <3>1. n \in t.red /\ n \in Node /\ n \in Q
      BY <1>2, <1>5, <2>1, <2>3
    <3>2. n # t.root /\ t.parent[n] \in Q
      BY <2>1, <2>2, <3>1
    <3> QED BY <1>5, <2>1, <2>3, <3>1, <3>2
  <2> QED BY <1>5, <2>1, <2>3 DEF Reds
<1>7. Level(r, W, lv)
  <2>1. /\ bh \in [Knot -> Nat] /\ bh[Nil] = 0
        /\ \A n \in Q, u \in Side : bh[n] = bh[t.kid[u][n]] + (IF n \in t.red THEN 0 ELSE 1)
        /\ \A n \in Q, u \in Side : t.kid[u][n] \in Knot /\ t.kid[u][n] # z
        /\ \A u \in Side : t.kid[u][z] = Nil
    <3>1. \A n \in Q, u \in Side : t.kid[u][n] \in Q \cup {Nil}
      BY <1>0 DEF Nested
    <3>2. \A u \in Side : t.kid[u][z] = Nil
      BY <1>0 DEF Shaped, Linked
    <3> QED BY <1>0, <1>2, <3>1, <3>2 DEF Level
  <2>2. /\ lv \in [Knot -> Nat] /\ lv[Nil] = 0 /\ lv[z] = 0
        /\ \A n \in Knot : n # z => lv[n] = bh[n]
    BY <1>2, <2>1
  <2> HIDE DEF lv
  <2>3. ASSUME NEW n \in W, NEW u \in Side
        PROVE  lv[n] = lv[r.kid[u][n]] + (IF n \in r.red THEN 0 ELSE 1)
    <3>1. CASE n = z
      <4>1. r.kid[u][n] = Nil /\ n \in r.red
        BY <1>2, <1>5, <2>1, <3>1
      <4> QED BY <2>2, <3>1, <4>1
    <3>2. CASE n # z
      <4>1. n \in Q /\ n \in Knot /\ (n \in r.red <=> n \in t.red)
        BY <1>2, <1>5, <3>2
      <4>2. lv[r.kid[u][n]] = bh[t.kid[u][n]]
        <5>1. CASE n = y /\ u = s
          BY <1>2, <1>5, <2>1, <2>2, <5>1
        <5>2. CASE ~(n = y /\ u = s)
          <6>1. r.kid[u][n] = t.kid[u][n]
            BY <1>2, <1>5, <4>1, <5>2
          <6> QED BY <2>1, <2>2, <4>1, <6>1
        <5> QED BY <5>1, <5>2
      <4>3. lv[n] = bh[n]
        BY <2>2, <3>2, <4>1
      <4>4. bh[n] = bh[t.kid[u][n]] + (IF n \in t.red THEN 0 ELSE 1)
        BY <2>1, <4>1
      <4> QED BY <4>1, <4>2, <4>3, <4>4
    <3> QED BY <3>1, <3>2
  <2> QED BY <2>2, <2>3 DEF Level
<1> QED BY <1>4, <1>5, <1>6, <1>7 DEF Balanced

(* The order puts l, the leftmost of Q and z, first. *)
LEMMA GraftedLeast ==
  ASSUME NEW t, NEW Q, NEW sub, NEW v, Shaped(t, Q, sub, v), Least(t, Q, v),
         NEW z \in Node, z \notin Q, NEW y \in Q, NEW s \in Side, t.kid[s][y] = Nil,
         On(v, s, z, y), Among(Q, sub, v, z, y),
         NEW l, l = IF s = "left" /\ y = t.leftmost THEN z ELSE t.leftmost
  PROVE  l \in Q \cup {z} /\ \A m \in Q \cup {z} : m # l => Before(v, l, m)
<1> DEFINE a == t.leftmost
<1>0. /\ Nested(t, Q, sub) /\ Q \subseteq Node /\ a \in Q /\ v \in [Node -> Nat]
      /\ \A m \in Q : m # a => Before(v, a, m)
      /\ y \in sub[y] /\ sub[Nil] = {}
  <2>1. Nil \in Knot /\ Nil \notin Node
    BY CfsAssumption DEF Node, Knot
  <2>2. Nested(t, Q, sub) /\ Q \subseteq Node /\ v \in [Node -> Nat]
    BY SubtreesNest DEF Shaped, Linked
  <2>3. \A n \in Knot \ Q : sub[n] = {}
    BY DEF Shaped, Spans
  <2>4. y \in sub[y]
    BY <2>2 DEF Nested
  <2>5. a \in Q /\ \A m \in Q : m # a => Before(v, a, m)
    BY DEF Least
  <2> QED BY <2>1, <2>2, <2>3, <2>4, <2>5
<1> HIDE DEF a
<1>1. /\ \A m, n, o \in Node : Before(v, m, n) /\ Before(v, n, o) => Before(v, m, o)
      /\ \A m, n \in Node : ~(Before(v, m, n) /\ Before(v, n, m))
      /\ \A m \in Node : ~Before(v, m, m)
  <2>1. /\ \A m \in Node : ~On(v, "left", m, m)
        /\ \A m, n, o \in Node : On(v, "left", m, n) /\ On(v, "left", n, o) => On(v, "left", m, o)
        /\ \A m, n \in Node : On(v, "left", m, n) <=> On(v, Other("left"), n, m)
        /\ \A m, n \in Node : ~(On(v, "left", m, n) /\ On(v, Other("left"), m, n))
    BY <1>0, OrderIs DEF Side
  <2> QED BY <2>1 DEF On, Other
<1>2. CASE s = "left" /\ y = a
  <2>1. Before(v, z, a) /\ l = z
    BY <1>2 DEF On, a
  <2> QED BY <1>0, <1>1, <2>1
<1>3. CASE ~(s = "left" /\ y = a)
  <2>1. l = a
    BY <1>3 DEF a
  <2>2. Before(v, a, z)
    <3>1. CASE a = y
      <4>1. s = "right"
        BY <1>3, <3>1 DEF Side
      <4> QED BY <3>1, <4>1 DEF On
    <3>2. CASE a \notin sub[y]
      <4>1. On(v, "right", y, a)
        BY <1>0, <3>2 DEF On
      <4>2. On(v, "right", z, a)
        BY <1>0, <3>2, <4>1 DEF Among, Side
      <4> QED BY <4>2 DEF On
    <3>3. CASE a \in sub[y] /\ a # y
      <4>1. PICK u \in Side : a \in sub[t.kid[u][y]]
        BY <1>0, <3>3 DEF Shaped, Spans
      <4>2. On(v, u, a, y)
        BY <4>1 DEF Shaped, Sorted
      <4>3. Before(v, a, y)
        BY <1>0, <3>3
      <4>4. u = "left"
        BY <1>0, <1>1, <4>2, <4>3 DEF On, Side
      <4>5. s # "left"
        BY <1>0, <4>1, <4>4
      <4>6. Before(v, y, z)
        BY <4>5 DEF On
      <4> QED BY <1>0, <1>1, <4>3, <4>6
    <3> QED BY <3>1, <3>2, <3>3
  <2> QED BY <1>0, <2>1, <2>2
<1> QED BY <1>2, <1>3

----------------------------------------------------------------------------
(* The first node. *)
SetFirst(t, r, x, R) == r = [t EXCEPT !.root = x, !.leftmost = x, !.red = R]

LEMMA FirstIs ==
  ASSUME NEW t \in TreeType, NEW x \in Knot, NEW R \in SUBSET Node, NEW r, SetFirst(t, r, x, R)
  PROVE  /\ r \in TreeType /\ r.leftmost = x /\ r.root = x /\ r.red = R
         /\ r.kid = t.kid /\ r.parent = t.parent
         /\ r.nr_running = t.nr_running /\ r.load_weight = t.load_weight
<1> DEFINE KS == [Side -> [Node -> Knot]]
           PS == [Node -> Knot]
           RS == SUBSET Node
<1>1. TreeType = [root : Knot, leftmost : Knot, nr_running : Int, load_weight : Int,
                  kid : KS, parent : PS, red : RS] /\ R \in RS
  BY DEF TreeType
<1> HIDE DEF KS, PS, RS
<1> QED BY <1>1 DEF SetFirst

LEMMA FirstBalanced ==
  ASSUME NEW t \in TreeType, NEW v \in [Node -> Nat], NEW z \in Node,
         \A n \in Node : t.parent[n] = Nil /\ \A u \in Side : t.kid[u][n] = Nil,
         NEW r, SetFirst(t, r, z, {z})
  PROVE  \E su, lv : Balanced(r, {z}, su, lv, v, z)
<1> DEFINE Q  == {z}
           su == [n \in Knot |-> IF n = z THEN {z} ELSE {}]
           lv == [n \in Knot |-> 0]
<1>1. z \in Knot /\ Nil \in Knot /\ z # Nil /\ {z} \in SUBSET Node
  BY CfsAssumption DEF Node, Knot
<1>2. /\ r \in TreeType /\ r.root = z /\ r.red = {z}
      /\ r.kid = t.kid /\ r.parent = t.parent
  BY <1>1, FirstIs
<1>3. /\ su \in [Knot -> SUBSET Q] /\ su[z] = {z} /\ su[Nil] = {}
      /\ \A n \in Knot \ Q : su[n] = {}
  BY <1>1
<1>4. lv \in [Knot -> Nat] /\ lv[Nil] = 0 /\ lv[z] = 0
  BY <1>1
<1> HIDE DEF su, lv
<1>5. \A u \in Side : r.kid[u][z] = Nil
  BY <1>2
<1>6. Linked(r, Q)
  BY <1>1, <1>2, <1>5 DEF Linked
<1>7. Spans(r, Q, su)
  BY <1>1, <1>2, <1>3, <1>5 DEF Spans
<1>8. Sorted(r, Q, su, v)
  BY <1>3, <1>5 DEF Sorted
<1>9. Level(r, Q, lv)
  BY <1>2, <1>4, <1>5 DEF Level
<1>10. Reds(r, Q, z)
  BY <1>2 DEF Reds
<1> QED BY <1>2, <1>6, <1>7, <1>8, <1>9, <1>10 DEF Balanced, Shaped

(* A queue that no node was put in. *)
Unused(t) == t.root = Nil => \A n \in Node : t.parent[n] = Nil

(* cfs_rb_insert keeps the tree sorted and balanced. *)
LEMMA InsertIs ==
  ASSUME NEW t, NEW Q, NEW sub, NEW bh, NEW v, Settled(t, Q, sub, bh, v), Least(t, Q, v), Unused(t),
         NEW z \in Node, z \notin Q, \A m \in Q : m < z,
         \A m \in Q : sched_data[m].vruntime = v[m]
  PROVE  LET r == cfs_rb_insert(t, z, v[z])
         IN  /\ \E su, lv : Settled(r, Q \cup {z}, su, lv, v)
             /\ Least(r, Q \cup {z}, v) /\ Unused(r)
             /\ r.nr_running = t.nr_running /\ r.load_weight = t.load_weight
<1> DEFINE W == Q \cup {z}
           r == cfs_rb_insert(t, z, v[z])
           R == t.red \cup {z}
<1>0. /\ Shaped(t, Q, sub, v) /\ t \in TreeType /\ v \in [Node -> Nat] /\ Q \subseteq Node
      /\ t.red \subseteq Q /\ R \in SUBSET Node /\ t.root \in Knot
  BY DEF Settled, Shaped, Linked, Reds, TreeType
<1>1. ASSUME NEW x, NEW su, NEW lv, Balanced(x, W, su, lv, v, z), r = rb_insert_fixup(x, z),
             x.leftmost \in W, \A m \in W : m # x.leftmost => Before(v, x.leftmost, m),
             x.nr_running = t.nr_running, x.load_weight = t.load_weight
      PROVE  /\ \E sw, lw : Settled(r, W, sw, lw, v)
             /\ Least(r, W, v) /\ Unused(r)
             /\ r.nr_running = t.nr_running /\ r.load_weight = t.load_weight
  <2> HIDE DEF r, W
  <2>1. (\E sw, lw : Settled(r, W, sw, lw, v)) /\ SameCounts(x, r)
    BY <1>1, FixupIs
  <2>2. r.root # Nil
    BY <2>1 DEF Settled, Shaped, Linked, W
  <2> QED BY <1>1, <2>1, <2>2 DEF SameCounts, Least, Unused
<1>2. CASE t.root = Nil
  <2> DEFINE x == [t EXCEPT !.root = z, !.leftmost = z, !.red = @ \cup {z}]
  <2>1. r = rb_insert_fixup(x, z)
    BY <1>2 DEF cfs_rb_insert
  <2>2. /\ Q = {} /\ W = {z} /\ R = {z}
        /\ \A n \in Node : t.parent[n] = Nil /\ \A u \in Side : t.kid[u][n] = Nil
    BY <1>0, <1>2 DEF Shaped, Linked, Unused
  <2>3. SetFirst(t, x, z, R)
    BY Zenon DEF SetFirst
  <2> HIDE DEF x, r, R, W
  <2>4. \E su, lv : Balanced(x, W, su, lv, v, z)
    BY <1>0, <2>2, <2>3, FirstBalanced
  <2>5. /\ x.leftmost = z /\ x.nr_running = t.nr_running /\ x.load_weight = t.load_weight
    <3>1. z \in Knot
      BY DEF Knot
    <3> QED BY <1>0, <2>3, <3>1, FirstIs
  <2>6. x.leftmost \in W /\ \A m \in W : m # x.leftmost => Before(v, x.leftmost, m)
    BY <2>2, <2>5
  <2> QED BY <1>1, <2>1, <2>4, <2>5, <2>6 DEF r, W
<1>3. CASE t.root # Nil
  <2> DEFINE y == Place(t, v[z])
             s == SideFor(v[z], y)
             l == IF s = "left" /\ y = t.leftmost THEN z ELSE t.leftmost
             x == [t EXCEPT !.leftmost = l, !.red = @ \cup {z}]
             h == Hang(x, z, y, s)
  <2>0. Arrives(t, Q, sub, bh, v, z)
    BY <1>3 DEF Arrives
  <2>1. r = rb_insert_fixup(h, z)
    BY <1>3, Zenon DEF cfs_rb_insert
  <2>2. y \in Q /\ t.kid[s][y] = Nil /\ Among(Q, sub, v, z, y)
    BY <2>0, PlaceIs
  <2> HIDE DEF y
  <2>3. s \in Side /\ On(v, s, z, y)
    BY <2>0, <2>2, SideForIs
  <2> HIDE DEF s
  <2>4. l \in W /\ \A m \in W : m # l => Before(v, l, m)
    <3> HIDE DEF W
    <3>1. l \in Q \cup {z} /\ \A m \in Q \cup {z} : m # l => Before(v, l, m)
      BY <1>0, <2>2, <2>3, GraftedLeast
    <3> QED BY <3>1 DEF W
  <2>5. SetMark(t, x, l, R)
    BY Zenon DEF SetMark
  <2>6. l \in Knot
    BY <1>0, <2>4 DEF Knot
  <2> HIDE DEF x, l, R
  <2>7. Marked(t, x, l, R)
    BY <1>0, <2>5, <2>6, MarkedIs
  <2>8. z \in Knot /\ y \in Node /\ x \in TreeType
    BY <1>0, <2>2, <2>7 DEF Knot, Marked
  <2>9. Hung(x, h, z, y, s)
    BY <2>3, <2>8, HangIs
  <2> HIDE DEF h
  <2>10. \E su, lv : Balanced(h, W, su, lv, v, z)
    <3> HIDE DEF W
    <3>1. Marked(t, x, l, t.red \cup {z})
      BY <2>7 DEF R
    <3>2. \E su, lv : Balanced(h, Q \cup {z}, su, lv, v, z)
      BY <1>3, <2>2, <2>3, <2>9, <3>1, GraftedBalance
    <3> QED BY <3>2 DEF W
  <2>11. h.leftmost = l /\ h.nr_running = t.nr_running /\ h.load_weight = t.load_weight
    BY <2>7, <2>9 DEF Hung, Marked
  <2> QED BY <1>1, <2>1, <2>4, <2>10, <2>11
<1> QED BY <1>2, <1>3

----------------------------------------------------------------------------
(* The invariant. *)

KeyOf(d) == [n \in Node |-> IF d[n] \in Data THEN d[n].vruntime ELSE 0]

CfsType ==
  /\ rq \in TreeType
  /\ sched_data \in [Node -> Data \cup {Nil}]
  /\ enqueued \in 0 .. Tasks /\ refused \subseteq 1 .. enqueued
  /\ early \in BOOLEAN
  /\ \A n \in 1 .. enqueued : sched_data[n] \in Data
  /\ ~early => \A n \in Node : n > enqueued => sched_data[n] = Nil

TreeSettled ==
  /\ Unused(rq) /\ Least(rq, Queued, KeyOf(sched_data))
  /\ \E sub, bh : Settled(rq, Queued, sub, bh, KeyOf(sched_data))

CfsInv == CfsType /\ TreeSettled /\ LoadIsSum

LEMMA KeyOfIs ==
  ASSUME NEW d \in [Node -> Data \cup {Nil}]
  PROVE  KeyOf(d) \in [Node -> Nat] /\ \A n \in Node : d[n] \in Data => KeyOf(d)[n] = d[n].vruntime
BY DEF KeyOf, Data

(* Only the keys of the queued matter. *)
LEMMA KeysAgree ==
  ASSUME NEW t, NEW Q, NEW sub, NEW bh, NEW v, Settled(t, Q, sub, bh, v), Least(t, Q, v),
         NEW w \in [Node -> Nat], \A m \in Q : w[m] = v[m]
  PROVE  Settled(t, Q, sub, bh, w) /\ Least(t, Q, w)
<1>1. Nested(t, Q, sub) /\ Shaped(t, Q, sub, v)
  BY SubtreesNest DEF Settled
<1>2. \A m, n \in Q, u \in Side : Before(v, m, n) <=> Before(w, m, n)
  BY DEF Before
<1>3. \A m, n \in Q, u \in Side : On(v, u, m, n) <=> On(w, u, m, n)
  BY <1>2 DEF On
<1>4. Least(t, Q, w)
  BY <1>2, SidesAre DEF Least, Side
<1>5. Sorted(t, Q, sub, w)
  <2>1. ASSUME NEW n \in Q, NEW u \in Side, NEW m \in sub[t.kid[u][n]] PROVE On(w, u, m, n)
    <3>1. m \in Q
      BY <1>1 DEF Nested
    <3>2. On(v, u, m, n)
      BY <1>1 DEF Shaped, Sorted
    <3> QED BY <1>3, <3>1, <3>2
  <2> QED BY <2>1 DEF Sorted
<1> QED BY <1>1, <1>4, <1>5 DEF Settled, Shaped

(* The counters are not part of the tree. *)
Counted(t, r, n, w) == r = [t EXCEPT !.nr_running = n, !.load_weight = w]

LEMMA CountedIs ==
  ASSUME NEW t \in TreeType, NEW n \in Int, NEW w \in Int, NEW r, Counted(t, r, n, w)
  PROVE  /\ r \in TreeType /\ r.nr_running = n /\ r.load_weight = w
         /\ r.root = t.root /\ r.leftmost = t.leftmost /\ r.kid = t.kid
         /\ r.parent = t.parent /\ r.red = t.red
<1> DEFINE KS == [Side -> [Node -> Knot]]
           PS == [Node -> Knot]
           RS == SUBSET Node
<1>1. TreeType = [root : Knot, leftmost : Knot, nr_running : Int, load_weight : Int,
                  kid : KS, parent : PS, red : RS]
  BY DEF TreeType
<1> HIDE DEF KS, PS, RS
<1> QED BY <1>1 DEF Counted

LEMMA CountedTree ==
  ASSUME NEW t \in TreeType, NEW n \in Int, NEW w \in Int, NEW r, Counted(t, r, n, w),
         NEW Q, NEW v, Unused(t), Least(t, Q, v), \E sub, bh : Settled(t, Q, sub, bh, v)
  PROVE  Unused(r) /\ Least(r, Q, v) /\ \E sub, bh : Settled(r, Q, sub, bh, v)
<1>1. /\ r \in TreeType
      /\ r.root = t.root /\ r.leftmost = t.leftmost /\ r.kid = t.kid
      /\ r.parent = t.parent /\ r.red = t.red
  BY CountedIs
<1>2. PICK sub, bh : Settled(t, Q, sub, bh, v)
  OBVIOUS
<1>3. Linked(r, Q)
  BY <1>1, <1>2 DEF Settled, Shaped, Linked
<1>4. Spans(r, Q, sub)
  BY <1>1, <1>2 DEF Settled, Shaped, Spans
<1>5. Sorted(r, Q, sub, v) /\ Level(r, Q, bh) /\ Reds(r, Q, Nil)
  BY <1>1, <1>2 DEF Settled, Shaped, Sorted, Level, Reds
<1>6. Settled(r, Q, sub, bh, v)
  BY <1>1, <1>2, <1>3, <1>4, <1>5 DEF Settled, Shaped
<1> QED BY <1>1, <1>6 DEF Unused, Least

----------------------------------------------------------------------------
LEMMA CfsStarts ==
  CfsInit => CfsInv
<1> SUFFICES ASSUME CfsInit PROVE CfsInv
  OBVIOUS
<1> DEFINE v == KeyOf(sched_data)
           sub == [n \in Knot |-> {}]
           bh == [n \in Knot |-> 0]
<1>1. rq \in TreeType /\ rq.root = Nil /\ rq.red = {} /\ rq.nr_running = 0 /\ rq.load_weight = 0
      /\ \A n \in Node : rq.parent[n] = Nil /\ \A u \in Side : rq.kid[u][n] = Nil
  BY DEF CfsInit, TreeType, Knot
<1>2. CfsType
  <2>1. enqueued = 0 /\ refused = {} /\ early = FALSE /\ sched_data = [n \in Node |-> Nil]
    BY DEF CfsInit
  <2>2. enqueued \in 0 .. Tasks
    BY <2>1, CfsAssumption
  <2>3. 1 .. enqueued = {}
    BY <2>1
  <2>4. \A n \in Node : sched_data[n] = Nil
    BY <2>1
  <2> QED BY <1>1, <2>1, <2>2, <2>3, <2>4 DEF CfsType
<1>3. v \in [Node -> Nat]
  BY <1>2, KeyOfIs DEF CfsType
<1> HIDE DEF v
<1>4. Queued = {}
  BY DEF CfsInit, Queued
<1>5. Unused(rq) /\ Least(rq, {}, v)
  BY <1>1 DEF Unused, Least
<1>6. Linked(rq, {})
  BY <1>1 DEF Linked
<1>7. Spans(rq, {}, sub)
  BY <1>1 DEF Spans
<1>8. Sorted(rq, {}, sub, v) /\ Level(rq, {}, bh) /\ Reds(rq, {}, Nil) /\ rq.root \notin rq.red
  BY <1>1 DEF Sorted, Level, Reds, Knot
<1>9. Settled(rq, {}, sub, bh, v)
  BY <1>1, <1>3, <1>6, <1>7, <1>8 DEF Settled, Shaped
<1>10. TreeSettled
  BY <1>4, <1>5, <1>9 DEF TreeSettled, v
<1>11. LoadIsSum
  <2> DEFINE w == [n \in 1 .. enqueued |-> sched_data[n].weight]
  <2>1. w = << >>
    BY DEF CfsInit
  <2> HIDE DEF w
  <2>2. w \in Seq(Int) /\ Len(w) = 0
    BY <2>1
  <2>3. PICK f : AddsUp(w, f)
    BY <2>2, SumsExist
  <2>4. Total(w) = 0
    BY <2>2, <2>3, TotalIs DEF AddsUp
  <2> QED BY <1>1, <2>4 DEF CfsInit, LoadIsSum, w
<1> QED BY <1>2, <1>10, <1>11 DEF CfsInv

(* What a task is given when it is enqueued. *)
LEMMA StartDataIs ==
  ASSUME CfsType, NEW n \in Node, NEW d \in StartData(n)
  PROVE  d \in Data
<1>1. NewData \in Data
  BY CfsAssumption DEF NewData, Data
<1>2. ASSUME NEW x \in Nat PROVE [NewData EXCEPT !.vruntime = x] \in Data
  BY <1>1, <1>2 DEF Data
<1>3. VRuntimes \subseteq Nat
  BY CfsAssumption
<1>4. CASE sched_data[n] # Nil
  BY <1>4 DEF CfsType, StartData
<1>5. CASE sched_data[n] = Nil
  <2>1. PICK x \in VRuntimes : d = [NewData EXCEPT !.vruntime = x]
    BY <1>5 DEF StartData
  <2> QED BY <1>2, <1>3, <2>1
<1> QED BY <1>4, <1>5

LEMMA EnqueueKeeps ==
  ASSUME CfsInv, NEW room \in BOOLEAN, cfs_enqueue_task(room)
  PROVE  CfsInv'
<1> DEFINE z == enqueued + 1
           Q == Queued
           v == KeyOf(sched_data)
<1>1. PICK d \in StartData(z) :
        /\ sched_data' = [sched_data EXCEPT ![z] = d]
        /\ rq' = LET t == IF room THEN cfs_rb_insert(rq, z, d.vruntime) ELSE rq
                 IN  [t EXCEPT !.nr_running = @ + 1, !.load_weight = @ + d.weight]
  BY DEF cfs_enqueue_task
<1>2. /\ enqueued < Tasks /\ enqueued' = z /\ early' = early
      /\ refused' = IF room THEN refused ELSE refused \cup {z}
  BY DEF cfs_enqueue_task
<1>3. CfsType /\ LoadIsSum
  BY DEF CfsInv
<1>4. enqueued \in Nat /\ Tasks \in Nat /\ z \in Node /\ z \notin 1 .. enqueued /\ 1 .. z = (1 .. enqueued) \cup {z}
  BY <1>2, <1>3, CfsAssumption DEF CfsType, Node
<1>5. d \in Data
  BY <1>3, <1>4, StartDataIs
<1>6. /\ sched_data' \in [Node -> Data \cup {Nil}]
      /\ sched_data'[z] = d /\ \A n \in Node : n # z => sched_data'[n] = sched_data[n]
  BY <1>1, <1>3, <1>4, <1>5 DEF CfsType
<1>7. /\ refused \subseteq 1 .. enqueued /\ \A n \in 1 .. enqueued : n \in Node /\ sched_data[n] \in Data /\ n < z
  BY <1>2, <1>3, <1>4 DEF CfsType, Node
<1> DEFINE w == KeyOf(sched_data')
<1>8. /\ v \in [Node -> Nat] /\ w \in [Node -> Nat] /\ w[z] = d.vruntime
      /\ \A n \in 1 .. enqueued : v[n] = sched_data[n].vruntime /\ w[n] = v[n]
  <2>1. v \in [Node -> Nat] /\ \A n \in Node : sched_data[n] \in Data => v[n] = sched_data[n].vruntime
    BY <1>3, KeyOfIs DEF CfsType
  <2>2. w \in [Node -> Nat] /\ \A n \in Node : sched_data'[n] \in Data => w[n] = sched_data'[n].vruntime
    BY <1>6, KeyOfIs
  <2> HIDE DEF v, w
  <2> QED BY <1>4, <1>5, <1>6, <1>7, <2>1, <2>2
<1>9. /\ Unused(rq) /\ Least(rq, Q, w) /\ \E sub, bh : Settled(rq, Q, sub, bh, w)
  <2>1. Unused(rq) /\ Least(rq, Q, v)
    BY DEF CfsInv, TreeSettled
  <2>2. PICK sub, bh : Settled(rq, Q, sub, bh, v)
    BY DEF CfsInv, TreeSettled
  <2>3. \A m \in Q : w[m] = v[m]
    BY <1>8 DEF Queued
  <2> HIDE DEF Q, v, w
  <2> QED BY <1>8, <2>1, <2>2, <2>3, KeysAgree
<1> DEFINE t == IF room THEN cfs_rb_insert(rq, z, d.vruntime) ELSE rq
           W == IF room THEN Q \cup {z} ELSE Q
           nn == rq.nr_running + 1
           ww == rq.load_weight + d.weight
<1>10. Queued' = W
  BY <1>2, <1>4, <1>7 DEF Queued
<1> HIDE DEF w, v
<1>11. /\ t \in TreeType /\ t.nr_running = rq.nr_running /\ t.load_weight = rq.load_weight
       /\ Unused(t) /\ Least(t, W, w) /\ \E sub, bh : Settled(t, W, sub, bh, w)
  <2>1. CASE ~room
    BY <1>3, <1>9, <2>1 DEF CfsType
  <2>2. CASE room
    <3>1. \A m \in Q : m < z /\ m \in Node /\ sched_data[m].vruntime = w[m]
      BY <1>7, <1>8 DEF Queued
    <3>2. z \notin Q
      BY <1>4 DEF Queued
    <3>3. PICK sub, bh : Settled(rq, Q, sub, bh, w)
      BY <1>9
    <3> DEFINE r == cfs_rb_insert(rq, z, w[z])
    <3>4. t = r /\ W = Q \cup {z}
      BY <1>8, <2>2
    <3> HIDE DEF t, W, Q, z
    <3>5. /\ \E su, lv : Settled(r, Q \cup {z}, su, lv, w)
          /\ Least(r, Q \cup {z}, w) /\ Unused(r)
          /\ r.nr_running = rq.nr_running /\ r.load_weight = rq.load_weight
      BY <1>4, <1>9, <3>1, <3>2, <3>3, InsertIs
    <3>6. r \in TreeType
      BY <3>5 DEF Settled, Shaped
    <3> QED BY <3>4, <3>5, <3>6
  <2> QED BY <2>1, <2>2
<1>12. Counted(t, rq', nn, ww) /\ nn \in Int /\ ww \in Int
  <2>1. rq' = [t EXCEPT !.nr_running = @ + 1, !.load_weight = @ + d.weight]
    BY <1>1, Zenon
  <2>2. nn \in Int /\ ww \in Int
    BY <1>3, <1>5 DEF CfsType, TreeType, Data
  <2>3. rq' = [t EXCEPT !.nr_running = t.nr_running + 1, !.load_weight = t.load_weight + d.weight]
    BY <2>1, Zenon
  <2> HIDE DEF t
  <2> QED BY <1>11, <2>2, <2>3 DEF Counted
<1> HIDE DEF t, W, Q, nn, ww
<1>13. /\ rq' \in TreeType /\ rq'.nr_running = nn /\ rq'.load_weight = ww
       /\ Unused(rq') /\ Least(rq', W, w) /\ \E sub, bh : Settled(rq', W, sub, bh, w)
  <2> DEFINE r == rq'
  <2>1. Counted(t, r, nn, ww)
    BY <1>12
  <2> HIDE DEF r
  <2>2. r \in TreeType /\ r.nr_running = nn /\ r.load_weight = ww
    BY <1>11, <1>12, <2>1, CountedIs
  <2>3. Unused(r) /\ Least(r, W, w) /\ \E sub, bh : Settled(r, W, sub, bh, w)
    BY <1>11, <1>12, <2>1, CountedTree
  <2> QED BY <2>2, <2>3 DEF r
<1>14. TreeSettled'
  <2>1. (Unused(rq))' <=> Unused(rq')
    BY DEF Unused
  <2>2. (Least(rq, Queued, KeyOf(sched_data)))' <=> Least(rq', W, w)
    BY <1>10 DEF Least, w, KeyOf, Before
  <2>3. (\E sub, bh : Settled(rq, Queued, sub, bh, KeyOf(sched_data)))' <=> \E sub, bh : Settled(rq', W, sub, bh, w)
    BY <1>10 DEF w
  <2> QED BY <1>13, <2>1, <2>2, <2>3 DEF TreeSettled
<1>15. CfsType'
  <2>1. enqueued' \in 0 .. Tasks /\ refused' \subseteq 1 .. enqueued' /\ early' \in BOOLEAN
    BY <1>2, <1>3, <1>4, <1>7 DEF CfsType
  <2>2. \A n \in 1 .. enqueued' : sched_data'[n] \in Data
    BY <1>2, <1>4, <1>5, <1>6, <1>7
  <2>3. ASSUME ~early', NEW n \in Node, n > enqueued' PROVE sched_data'[n] = Nil
    <3>1. n # z /\ n > enqueued
      BY <1>2, <1>4, <2>3 DEF Node
    <3> QED BY <1>2, <1>3, <1>6, <2>3, <3>1 DEF CfsType
  <2> QED BY <1>6, <1>13, <2>1, <2>2, <2>3 DEF CfsType
<1>16. LoadIsSum'
  <2> DEFINE a == [n \in 1 .. enqueued |-> sched_data[n].weight]
             b == [n \in 1 .. z |-> sched_data'[n].weight]
  <2>1. \A n \in 1 .. enqueued : sched_data[n].weight \in Int
    BY <1>7 DEF Data
  <2>2. \A n \in 1 .. z : sched_data'[n].weight \in Int
    BY <1>2, <1>4, <1>15 DEF CfsType, Data
  <2>3. z \in Nat
    BY <1>4
  <2>4. a \in Seq(Int) /\ Len(a) = enqueued
    BY <1>4, <2>1
  <2>5. b \in Seq(Int) /\ Len(b) = z
    <3> HIDE DEF z
    <3> QED BY <2>2, <2>3
  <2>6. b[z] = d.weight /\ \A n \in 1 .. enqueued : b[n] = a[n]
    <3>1. z \in 1 .. z /\ \A n \in 1 .. enqueued : n \in 1 .. z /\ n # z
      BY <1>4
    <3> HIDE DEF z
    <3> QED BY <1>6, <1>7, <3>1
  <2> HIDE DEF a, b
  <2>7. Total(a) \in Int /\ Total(b) = Total(a) + d.weight
    BY <2>4, <2>5, <2>6, TotalGrows
  <2>8. rq.nr_running = enqueued /\ (~early => rq.load_weight = Total(a))
    BY <1>3 DEF LoadIsSum, a
  <2>9. rq'.nr_running = enqueued'
    BY <1>2, <1>13, <2>8 DEF nn
  <2>10. ASSUME ~early' PROVE rq'.load_weight = Total(b)
    BY <1>2, <1>13, <2>7, <2>8, <2>10 DEF ww
  <2>11. b = [n \in 1 .. enqueued' |-> sched_data'[n].weight]
    BY <1>2 DEF b
  <2> QED BY <2>9, <2>10, <2>11 DEF LoadIsSum
<1> QED BY <1>14, <1>15, <1>16 DEF CfsInv

LEMMA PriorityKeeps ==
  ASSUME CfsInv, NEW n \in Node, NEW weight \in Weights, cfs_set_priority(n, weight)
  PROVE  CfsInv'
<1> DEFINE d == IF sched_data[n] = Nil THEN NewData ELSE sched_data[n]
           e == [d EXCEPT !.weight = weight]
           v == KeyOf(sched_data)
           ww == Reweigh(rq.load_weight, d.weight, weight)
           Q == Queued
<1>1. /\ sched_data' = [sched_data EXCEPT ![n] = e]
      /\ rq' = [rq EXCEPT !.load_weight = Reweigh(@, d.weight, weight)]
      /\ early' = (early \/ n > enqueued) /\ enqueued' = enqueued /\ refused' = refused
  BY DEF cfs_set_priority
<1>2. CfsType /\ LoadIsSum
  BY DEF CfsInv
<1>3. d \in Data /\ weight \in Nat /\ (sched_data[n] = Nil => d.vruntime = 0)
  <2>1. NewData \in Data /\ NewData.vruntime = 0
    BY CfsAssumption DEF NewData, Data
  <2>2. weight \in Nat
    BY CfsAssumption
  <2>3. sched_data[n] \in Data \cup {Nil}
    BY <1>2 DEF CfsType
  <2> QED BY <2>1, <2>2, <2>3
<1> HIDE DEF d
<1>4. e \in Data /\ e.vruntime = d.vruntime /\ e.weight = weight
  BY <1>3 DEF Data
<1> HIDE DEF e
<1>5. /\ sched_data' \in [Node -> Data \cup {Nil}] /\ sched_data'[n] = e
      /\ \A m \in Node : m # n => sched_data'[m] = sched_data[m]
  BY <1>1, <1>2, <1>4 DEF CfsType
<1>6. KeyOf(sched_data') = v
  <2>1. ASSUME NEW m \in Node
        PROVE  (IF sched_data'[m] \in Data THEN sched_data'[m].vruntime ELSE 0)
                 = (IF sched_data[m] \in Data THEN sched_data[m].vruntime ELSE 0)
    <3>1. CASE m # n
      BY <1>5, <3>1
    <3>2. CASE m = n /\ sched_data[n] = Nil
      <4>1. Nil \notin Data
        BY CfsAssumption DEF Data
      <4> QED BY <1>3, <1>4, <1>5, <3>2, <4>1
    <3>3. CASE m = n /\ sched_data[n] # Nil
      <4>1. d = sched_data[n]
        BY <3>3 DEF d
      <4> QED BY <1>3, <1>4, <1>5, <3>3, <4>1
    <3> QED BY <3>1, <3>2, <3>3
  <2> QED BY <2>1 DEF KeyOf
<1>7. rq \in TreeType /\ rq.nr_running \in Int /\ ww \in Int
  <2>1. rq \in TreeType /\ rq.nr_running \in Int /\ rq.load_weight \in Int /\ d.weight \in Nat
    BY <1>2, <1>3 DEF CfsType, TreeType, Data
  <2>2. ww \in Int
    BY <1>3, <2>1 DEF Reweigh
  <2> QED BY <2>1, <2>2
<1>8. Counted(rq, rq', rq.nr_running, ww)
  <2>1. rq' = [rq EXCEPT !.load_weight = ww]
    BY <1>1, Zenon
  <2>2. rq = [rq EXCEPT !.nr_running = rq.nr_running]
    BY <1>7 DEF TreeType
  <2> HIDE DEF ww
  <2>3. rq' = [rq EXCEPT !.nr_running = rq.nr_running, !.load_weight = ww]
    BY <2>1, <2>2
  <2> QED BY <2>3 DEF Counted
<1> HIDE DEF ww
<1>9. Queued' = Q
  BY <1>1 DEF Queued
<1>10. /\ Unused(rq) /\ Least(rq, Q, v) /\ \E sub, bh : Settled(rq, Q, sub, bh, v)
  BY DEF CfsInv, TreeSettled
<1> HIDE DEF v, Q
<1>11. /\ rq' \in TreeType /\ rq'.nr_running = rq.nr_running /\ rq'.load_weight = ww
       /\ Unused(rq') /\ Least(rq', Q, v) /\ \E sub, bh : Settled(rq', Q, sub, bh, v)
  <2> DEFINE r == rq'
             nn == rq.nr_running
  <2>1. Counted(rq, r, nn, ww) /\ nn \in Int
    BY <1>7, <1>8
  <2> HIDE DEF r, nn
  <2>2. r \in TreeType /\ r.nr_running = nn /\ r.load_weight = ww
    BY <1>7, <2>1, CountedIs
  <2>3. Unused(r) /\ Least(r, Q, v) /\ \E sub, bh : Settled(r, Q, sub, bh, v)
    BY <1>7, <1>10, <2>1, CountedTree
  <2> QED BY <2>2, <2>3 DEF r, nn
<1>12. TreeSettled'
  <2>1. (Unused(rq))' <=> Unused(rq')
    BY DEF Unused
  <2>2. (Least(rq, Queued, KeyOf(sched_data)))' <=> Least(rq', Q, v)
    <3>1. (Least(rq, Queued, KeyOf(sched_data)))' <=> Least(rq', Queued', KeyOf(sched_data'))
      BY DEF Least, KeyOf, Before
    <3> QED BY <1>6, <1>9, <3>1
  <2>3. (\E sub, bh : Settled(rq, Queued, sub, bh, KeyOf(sched_data)))' <=> \E sub, bh : Settled(rq', Q, sub, bh, v)
    BY <1>6, <1>9
  <2> QED BY <1>11, <2>1, <2>2, <2>3 DEF TreeSettled
<1>13. CfsType'
  <2>1. \A m \in 1 .. enqueued : m \in Node
    BY <1>2, CfsAssumption DEF CfsType, Node
  <2>2. \A m \in 1 .. enqueued' : sched_data'[m] \in Data
    BY <1>1, <1>2, <1>4, <1>5, <2>1 DEF CfsType
  <2>3. ASSUME ~early', NEW m \in Node, m > enqueued' PROVE sched_data'[m] = Nil
    <3>1. ~early /\ m # n /\ m > enqueued
      BY <1>1, <2>3
    <3> QED BY <1>2, <1>5, <3>1 DEF CfsType
  <2> QED BY <1>1, <1>2, <1>5, <1>11, <2>2, <2>3 DEF CfsType
<1>14. LoadIsSum'
  <2> DEFINE a == [m \in 1 .. enqueued |-> sched_data[m].weight]
             b == [m \in 1 .. enqueued |-> sched_data'[m].weight]
  <2>0. enqueued \in Nat
    BY <1>2 DEF CfsType
  <2>1. \A m \in 1 .. enqueued : sched_data[m].weight \in Int
    BY <1>2 DEF CfsType, Data
  <2>2. \A m \in 1 .. enqueued : sched_data'[m].weight \in Int
    BY <1>1, <1>13 DEF CfsType, Data
  <2>3. a \in Seq(Int) /\ Len(a) = enqueued /\ b \in Seq(Int) /\ Len(b) = enqueued
    BY <2>0, <2>1, <2>2
  <2>4. rq.nr_running = enqueued /\ (~early => rq.load_weight = Total(a))
    BY <1>2 DEF LoadIsSum
  <2>5. ASSUME ~early' PROVE rq'.load_weight = Total(b)
    <3>1. ~early /\ n \in 1 .. enqueued
      <4>1. ~early /\ ~(n > enqueued)
        BY <1>1, <2>5
      <4>2. n \in Int /\ n >= 1
        BY CfsAssumption DEF Node
      <4> QED BY <2>0, <4>1, <4>2
    <3>2. sched_data[n] \in Data
      BY <1>2, <3>1 DEF CfsType
    <3>3. Nil \notin Data
      BY CfsAssumption DEF Data
    <3>4. d = sched_data[n]
      BY <3>2, <3>3 DEF d
    <3>5. a[n] = d.weight /\ b[n] = weight
      BY <1>4, <1>5, <3>1, <3>4
    <3>6. \A m \in 1 .. enqueued : m # n => b[m] = a[m]
      <4>1. \A m \in 1 .. enqueued : m \in Node
        BY <1>2, CfsAssumption DEF CfsType, Node
      <4> QED BY <1>5, <4>1
    <3> HIDE DEF a, b
    <3>7. Total(b) = Total(a) - d.weight + weight
      BY <2>3, <3>1, <3>5, <3>6, TotalChanges
    <3> QED BY <1>11, <2>4, <3>1, <3>7 DEF ww, Reweigh
  <2>6. b = [m \in 1 .. enqueued' |-> sched_data'[m].weight]
    BY <1>1
  <2>7. rq'.nr_running = enqueued'
    BY <1>1, <1>11, <2>4
  <2> QED BY <2>5, <2>6, <2>7 DEF LoadIsSum
<1> QED BY <1>12, <1>13, <1>14 DEF CfsInv

LEMMA CfsInvariant ==
  CfsSpec => []CfsInv
<1>1. CfsInit => CfsInv
  BY CfsStarts
<1>2. CfsInv /\ [CfsNext]_cfsVars => CfsInv'
  <2> SUFFICES ASSUME CfsInv, [CfsNext]_cfsVars PROVE CfsInv'
    OBVIOUS
  <2>1. ASSUME NEW room \in BOOLEAN, cfs_enqueue_task(room) PROVE CfsInv'
    BY <2>1, EnqueueKeeps
  <2>2. ASSUME NEW n \in Node, NEW weight \in Weights, cfs_set_priority(n, weight) PROVE CfsInv'
    BY <2>2, PriorityKeeps
  <2>3. CASE UNCHANGED <<rq, sched_data, enqueued, refused, early>>
    <3>1. CfsType' /\ LoadIsSum'
      BY <2>3 DEF CfsInv, CfsType, LoadIsSum
    <3>2. TreeSettled'
      <4>1. Queued' = Queued
        BY <2>3 DEF Queued
      <4> QED BY <2>3, <4>1 DEF CfsInv, TreeSettled, Least, KeyOf, Before, Unused
    <3> QED BY <3>1, <3>2 DEF CfsInv
  <2>4. CASE EnqueueFaults
    BY <2>3, <2>4 DEF EnqueueFaults
  <2>5. CASE UNCHANGED cfsVars
    BY <2>3, <2>5 DEF cfsVars
  <2> QED BY <2>1, <2>2, <2>4, <2>5 DEF CfsNext
<1> QED BY <1>1, <1>2, PTL DEF CfsSpec

(* nr_running is the number of the tasks enqueued, load_weight the sum of  *)
(* their weights, whichever nodes were refused and however priorities were *)
(* set, as long as none was set for a task not enqueued.                   *)
THEOREM RunQueueLoad ==
  CfsSpec => []LoadIsSum
BY CfsInvariant, PTL DEF CfsInv

----------------------------------------------------------------------------
(* The tree from left to right. *)

Ordered(s, v) == \A j, k \in 1 .. Len(s) : j < k => Before(v, s[j], s[k])

(* r is a joined with b, two ordered sequences the first of which ends     *)
(* before the second begins.                                               *)
Joins(r, a, b, v) ==
  /\ r = a \o b /\ a \in Seq(Node) /\ b \in Seq(Node) /\ Ordered(a, v) /\ Ordered(b, v)
  /\ \A m \in ToSet(a), n \in ToSet(b) : Before(v, m, n)

LEMMA OrderedJoin ==
  ASSUME NEW v, NEW a, NEW b, NEW r, Joins(r, a, b, v)
  PROVE  r \in Seq(Node) /\ Ordered(r, v) /\ ToSet(r) = ToSet(a) \cup ToSet(b)
<1> DEFINE m == Len(a)
           n == Len(b)
<1>0. /\ r = a \o b /\ a \in Seq(Node) /\ b \in Seq(Node) /\ Ordered(a, v) /\ Ordered(b, v)
      /\ \A x \in ToSet(a), y \in ToSet(b) : Before(v, x, y)
  BY DEF Joins
<1>1. /\ r \in Seq(Node) /\ Len(r) = m + n /\ m \in Nat /\ n \in Nat
      /\ \A i \in 1 .. m + n : r[i] = IF i <= m THEN a[i] ELSE b[i - m]
  <2>1. /\ a \o b \in Seq(Node) /\ Len(a \o b) = m + n /\ m \in Nat /\ n \in Nat
        /\ \A i \in 1 .. m + n : (a \o b)[i] = IF i <= m THEN a[i] ELSE b[i - m]
    BY <1>0, ConcatProperties
  <2> QED BY <1>0, <2>1, Zenon
<1>2. DOMAIN r = 1 .. m + n /\ DOMAIN a = 1 .. m /\ DOMAIN b = 1 .. n
  BY <1>0, <1>1
<1> HIDE DEF m, n
<1>3. ASSUME NEW i \in 1 .. m + n
      PROVE  \/ i <= m /\ i \in 1 .. m /\ r[i] = a[i]
             \/ i > m /\ i - m \in 1 .. n /\ r[i] = b[i - m]
  <2>1. CASE i <= m
    BY <1>1, <2>1
  <2>2. CASE ~(i <= m)
    <3>1. i > m /\ i - m \in 1 .. n
      BY <1>1, <2>2
    <3> QED BY <1>1, <2>2, <3>1
  <2> QED BY <2>1, <2>2
<1>4. /\ \A i \in 1 .. m : i \in 1 .. m + n /\ r[i] = a[i]
      /\ \A i \in 1 .. n : m + i \in 1 .. m + n /\ r[m + i] = b[i]
  <2>1. ASSUME NEW i \in 1 .. n PROVE m + i \in 1 .. m + n /\ r[m + i] = b[i]
    <3>1. m + i \in 1 .. m + n /\ ~(m + i <= m) /\ (m + i) - m = i
      BY <1>1
    <3> QED BY <1>1, <3>1
  <2>2. ASSUME NEW i \in 1 .. m PROVE i \in 1 .. m + n /\ r[i] = a[i]
    <3>1. i \in 1 .. m + n /\ i <= m
      BY <1>1
    <3> QED BY <1>1, <3>1
  <2> QED BY <2>1, <2>2
<1>5. ToSet(r) = ToSet(a) \cup ToSet(b)
  BY <1>2, <1>3, <1>4 DEF ToSet
<1>6. ASSUME NEW i \in 1 .. m + n, NEW j \in 1 .. m + n, i < j PROVE Before(v, r[i], r[j])
  <2>1. i \in Int /\ j \in Int /\ m \in Int
    BY <1>1
  <2>2. CASE j <= m
    <3>1. i <= m /\ ~(i > m) /\ ~(j > m)
      BY <1>6, <2>1, <2>2
    <3>2. i \in 1 .. m /\ r[i] = a[i] /\ j \in 1 .. m /\ r[j] = a[j]
      BY <1>3, <3>1
    <3>3. m = Len(a)
      BY DEF m
    <3> QED BY <1>0, <1>6, <3>2, <3>3 DEF Ordered
  <2>3. CASE i > m
    <3>1. j > m /\ ~(i <= m) /\ ~(j <= m) /\ i - m < j - m
      BY <1>6, <2>1, <2>3
    <3>2. i - m \in 1 .. n /\ r[i] = b[i - m] /\ j - m \in 1 .. n /\ r[j] = b[j - m]
      BY <1>3, <3>1
    <3>3. n = Len(b)
      BY DEF n
    <3> QED BY <1>0, <3>1, <3>2, <3>3 DEF Ordered
  <2>4. CASE ~(j <= m) /\ ~(i > m)
    <3>1. r[i] \in ToSet(a) /\ r[j] \in ToSet(b)
      BY <1>2, <1>3, <2>4 DEF ToSet
    <3> QED BY <1>0, <3>1
  <2> QED BY <2>2, <2>3, <2>4
<1>7. Ordered(r, v)
  BY <1>1, <1>6 DEF Ordered
<1> QED BY <1>1, <1>5, <1>7

Around(s, a, x, b) == s = a \o <<x>> \o b
Amid(a, x, b, v) == /\ \A m \in ToSet(a) : Before(v, m, x)
                    /\ \A n \in ToSet(b) : Before(v, x, n)

LEMMA OrderedAround ==
  ASSUME NEW v \in [Node -> Nat], NEW a \in Seq(Node), NEW b \in Seq(Node), NEW x \in Node,
         Ordered(a, v), Ordered(b, v),
         Amid(a, x, b, v), NEW s, Around(s, a, x, b)
  PROVE  s \in Seq(Node) /\ Ordered(s, v) /\ ToSet(s) = ToSet(a) \cup {x} \cup ToSet(b)
<1> DEFINE o == <<x>>
           c == a \o o
<1>1. o \in Seq(Node) /\ ToSet(o) = {x} /\ Ordered(o, v)
  <2>1. o \in Seq(Node) /\ Len(o) = 1 /\ DOMAIN o = {1} /\ o[1] = x
    OBVIOUS
  <2> HIDE DEF o
  <2>2. ToSet(o) = {x}
    BY <2>1 DEF ToSet
  <2>3. Ordered(o, v)
    BY <2>1 DEF Ordered
  <2> QED BY <2>1, <2>2, <2>3
<1> HIDE DEF o
<1>2. c \in Seq(Node) /\ Ordered(c, v) /\ ToSet(c) = ToSet(a) \cup {x}
  <2>1. \A m \in ToSet(a), n \in ToSet(o) : Before(v, m, n)
    BY <1>1 DEF Amid
  <2>2. Joins(c, a, o, v)
    BY <1>1, <2>1 DEF Joins
  <2>3. c \in Seq(Node) /\ Ordered(c, v) /\ ToSet(c) = ToSet(a) \cup ToSet(o)
    <3> HIDE DEF c
    <3> QED BY <2>2, OrderedJoin
  <2> QED BY <1>1, <2>3
<1>3. ASSUME NEW m \in ToSet(a), NEW n \in ToSet(b) PROVE Before(v, m, n)
  <2>1. m \in Node /\ n \in Node
    BY DEF ToSet
  <2>2. On(v, "left", m, x) /\ On(v, "left", x, n)
    BY DEF On, Amid
  <2>3. On(v, "left", m, n)
    BY <2>1, <2>2, OrderIs DEF Side
  <2> QED BY <2>3 DEF On
<1>4. \A m \in ToSet(c), n \in ToSet(b) : Before(v, m, n)
  BY <1>2, <1>3 DEF Amid
<1> HIDE DEF c
<1>5. Joins(s, c, b, v)
  <2>1. s = c \o b
    BY DEF Around, c, o
  <2> QED BY <1>2, <1>4, <2>1 DEF Joins
<1>6. s \in Seq(Node) /\ Ordered(s, v) /\ ToSet(s) = ToSet(c) \cup ToSet(b)
  BY <1>5, OrderedJoin
<1> QED BY <1>2, <1>6

(* The walk below each node, by the depth it is taken to. *)
Joined(w, t, x) == w[t.kid["left"][x]] \o <<x>> \o w[t.kid["right"][x]]
Walk(f, t) ==
  f = [k \in 0 .. Tasks |-> [x \in Knot |-> IF x = Nil \/ k = 0 THEN << >> ELSE Joined(f[k - 1], t, x)]]

LEMMA WalkExists ==
  ASSUME NEW t \in TreeType
  PROVE  \E f \in [0 .. Tasks -> [Knot -> Seq(Node)]] : Walk(f, t)
<1> DEFINE S == [Knot -> Seq(Node)]
           a == [x \in Knot |-> << >>]
           Next1(w) == [x \in Knot |-> IF x = Nil THEN << >> ELSE Joined(w, t, x)]
           F == [w \in S |-> Next1(w)]
<1>0. Tasks \in Nat
  BY CfsAssumption
<1>1. a \in S
  OBVIOUS
<1>2. ASSUME NEW w \in S PROVE Next1(w) \in S
  <2>1. ASSUME NEW x \in Knot, x # Nil PROVE Joined(w, t, x) \in Seq(Node)
    <3>1. x \in Node /\ t.kid["left"][x] \in Knot /\ t.kid["right"][x] \in Knot
      BY <2>1 DEF Knot, TreeType, Side
    <3>2. w[t.kid["left"][x]] \in Seq(Node) /\ w[t.kid["right"][x]] \in Seq(Node) /\ <<x>> \in Seq(Node)
      BY <3>1
    <3> QED BY <3>2, ConcatProperties DEF Joined
  <2> QED BY <2>1
<1>3. F \in [S -> S]
  <2> HIDE DEF S, Next1
  <2> QED BY <1>2
<1>4. PICK f \in [0 .. Tasks -> S] : Steps(f, a, Tasks, F)
  <2> HIDE DEF S, F, a
  <2> QED BY <1>0, <1>1, <1>3, StepsExist
<1>5. ASSUME NEW k \in 0 .. Tasks
      PROVE  f[k] = [x \in Knot |-> IF x = Nil \/ k = 0 THEN << >> ELSE Joined(f[k - 1], t, x)]
  <2>1. f[k] = IF k = 0 THEN a ELSE F[f[k - 1]]
    <3> HIDE DEF S, F, a
    <3> QED BY <1>4 DEF Steps
  <2>2. CASE k = 0
    BY <2>1, <2>2
  <2>3. CASE k # 0
    <3>1. k - 1 \in 0 .. Tasks
      BY <1>0, <2>3
    <3> DEFINE w == f[k - 1]
    <3>2. w \in S
      <4> HIDE DEF S
      <4> QED BY <1>4, <3>1
    <3> HIDE DEF w
    <3>3. F[w] = Next1(w)
      <4> HIDE DEF S, Next1
      <4> QED BY <3>2
    <3>4. f[k] = Next1(w)
      <4> HIDE DEF F, Next1
      <4> QED BY <2>1, <2>3, <3>3 DEF w
    <3> QED BY <2>3, <3>4 DEF w
  <2> QED BY <2>2, <2>3
<1>6. Walk(f, t)
  BY <1>4, <1>5 DEF Walk
<1> QED BY <1>4, <1>6

LEMMA WalkIs ==
  ASSUME NEW t, NEW Q, NEW sub, NEW bh, NEW v, Settled(t, Q, sub, bh, v),
         NEW f, Walk(f, t)
  PROVE  LET s == f[Tasks][t.root]
         IN  s \in Seq(Node) /\ ToSet(s) = Q /\ Ordered(s, v)
<1> DEFINE U == Q \cup {Nil}
           Good(k) == /\ \A x \in Knot : f[k][x] \in Seq(Node)
                      /\ \A x \in U : Cardinality(sub[x]) <= k =>
                           ToSet(f[k][x]) = sub[x] /\ Ordered(f[k][x], v)
           T == {k \in Nat : k <= Tasks => Good(k)}
<1>0. /\ Tasks \in Nat /\ v \in [Node -> Nat] /\ Nested(t, Q, sub) /\ Shaped(t, Q, sub, v)
  BY CfsAssumption, SubtreesNest DEF Settled, Shaped
<1>1. /\ Q \subseteq Node /\ Q \subseteq Knot /\ Nil \in Knot /\ Nil \notin Q /\ U \subseteq Knot
      /\ sub[Nil] = {} /\ \A x \in U : sub[x] \subseteq Q
      /\ \A x \in Q, u \in Side : t.kid[u][x] \in U /\ x \notin sub[t.kid[u][x]] /\ sub[t.kid[u][x]] \subseteq sub[x]
      /\ \A x \in Q : x \in sub[x]
      /\ \A x \in Q : \A m \in Q : m \in sub[x] <=> m = x \/ \E u \in Side : m \in sub[t.kid[u][x]]
  <2>1. Q \subseteq Node /\ \A x \in Q : x \in sub[x] /\ sub[x] \subseteq Q
    BY <1>0 DEF Nested
  <2>2. Nil \notin Node
    BY CfsAssumption DEF Node
  <2>3. Nil \in Knot /\ Q \subseteq Knot
    BY <2>1 DEF Knot
  <2>4. sub[Nil] = {}
    BY <1>0, <2>1, <2>2, <2>3 DEF Shaped, Spans
  <2>5. \A x \in Q, u \in Side : t.kid[u][x] \in U /\ x \notin sub[t.kid[u][x]] /\ sub[t.kid[u][x]] \subseteq sub[x]
    BY <1>0 DEF Nested
  <2>6. \A x \in Q : \A m \in Q : m \in sub[x] <=> m = x \/ \E u \in Side : m \in sub[t.kid[u][x]]
    BY <1>0 DEF Shaped, Spans
  <2> QED BY <2>1, <2>2, <2>3, <2>4, <2>5, <2>6
<1>2. ASSUME NEW k \in 0 .. Tasks, NEW x \in Knot
      PROVE  f[k][x] = IF x = Nil \/ k = 0 THEN << >> ELSE Joined(f[k - 1], t, x)
  <2>1. f[k] = [y \in Knot |-> IF y = Nil \/ k = 0 THEN << >> ELSE Joined(f[k - 1], t, y)]
    BY DEF Walk
  <2> QED BY <2>1
<1>3. ToSet(<< >>) = {} /\ Ordered(<< >>, v)
  BY DEF ToSet, Ordered
<1>4. T = Nat
  <2>1. 0 \in T
    <3>1. ASSUME NEW x \in U, Cardinality(sub[x]) <= 0 PROVE sub[x] = {} /\ f[0][x] = << >>
      <4>1. IsFiniteSet(sub[x]) /\ Cardinality(sub[x]) \in Nat
        BY <1>1, NodesFinite, FS_CardinalityType
      <4>2. Cardinality(sub[x]) = 0
        BY <3>1, <4>1
      <4>3. f[0][x] = << >>
        BY <1>0, <1>1, <1>2
      <4> QED BY <4>1, <4>2, <4>3, FS_EmptySet
    <3>2. ASSUME NEW x \in Knot PROVE f[0][x] \in Seq(Node)
      <4>1. f[0][x] = << >>
        BY <1>0, <1>2
      <4> QED BY <4>1
    <3> QED BY <1>3, <3>1, <3>2
  <2>2. ASSUME NEW k \in T PROVE k + 1 \in T
    <3> SUFFICES ASSUME k + 1 <= Tasks PROVE Good(k + 1)
      OBVIOUS
    <3>1. k \in Nat /\ k <= Tasks /\ k \in 0 .. Tasks /\ k + 1 \in 0 .. Tasks /\ k + 1 # 0 /\ (k + 1) - 1 = k
      BY <1>0
    <3>2. Good(k)
      BY <3>1
    <3>3. ASSUME NEW x \in Q, Cardinality(sub[x]) <= k + 1
          PROVE  ToSet(f[k + 1][x]) = sub[x] /\ Ordered(f[k + 1][x], v)
      <4>1. ASSUME NEW u \in Side
            PROVE  LET c == t.kid[u][x]
                   IN  /\ c \in U /\ f[k][c] \in Seq(Node) /\ ToSet(f[k][c]) = sub[c]
                       /\ Ordered(f[k][c], v) /\ \A m \in sub[c] : On(v, u, m, x)
        <5> DEFINE c == t.kid[u][x]
                   A == sub[c]
                   B == sub[x]
                   m == Cardinality(A)
                   n == Cardinality(B)
        <5>1. c \in U /\ A \subseteq B /\ x \in B /\ x \notin A /\ B \in SUBSET Node
          BY <1>1
        <5>2. IsFiniteSet(B)
          BY <5>1, NodesFinite
        <5>3. n <= k + 1
          BY <3>3
        <5>4. \A y \in A : On(v, u, y, x)
          BY <1>0 DEF Shaped, Sorted
        <5> HIDE DEF A, B
        <5>5. m \in Nat /\ n \in Nat /\ m < n
          BY <5>1, <5>2, SmallerSet
        <5> HIDE DEF m, n
        <5>6. m <= k
          BY <3>1, <5>3, <5>5
        <5>7. ToSet(f[k][c]) = sub[c] /\ Ordered(f[k][c], v)
          BY <3>2, <5>1, <5>6 DEF m, A
        <5>8. f[k][c] \in Seq(Node)
          BY <1>1, <3>2, <5>1
        <5> QED BY <5>1, <5>4, <5>7, <5>8 DEF A
      <4> DEFINE l == t.kid["left"][x]
                 r == t.kid["right"][x]
                 a == f[k][l]
                 b == f[k][r]
      <4>2. /\ l \in U /\ a \in Seq(Node) /\ ToSet(a) = sub[l] /\ Ordered(a, v)
            /\ \A m \in sub[l] : Before(v, m, x)
        BY <4>1 DEF Side, On
      <4>3. /\ r \in U /\ b \in Seq(Node) /\ ToSet(b) = sub[r] /\ Ordered(b, v)
            /\ \A m \in sub[r] : Before(v, x, m)
        <5>1. /\ r \in U /\ b \in Seq(Node) /\ ToSet(b) = sub[r] /\ Ordered(b, v)
              /\ \A m \in sub[r] : On(v, "right", m, x)
          BY <4>1 DEF Side
        <5> QED BY <5>1 DEF On
      <4>4. f[k + 1][x] = a \o <<x>> \o b
        <5>1. x \in Knot /\ x # Nil
          BY <1>1
        <5>2. f[k + 1][x] = Joined(f[(k + 1) - 1], t, x)
          BY <1>2, <3>1, <5>1
        <5> QED BY <3>1, <5>2 DEF Joined
      <4>5. sub[x] = sub[l] \cup {x} \cup sub[r]
        <5>1. \A m \in Q : m \in sub[x] <=> m = x \/ m \in sub[l] \/ m \in sub[r]
          BY <1>1 DEF Side
        <5>2. x \in Q /\ sub[x] \subseteq Q /\ sub[l] \subseteq Q /\ sub[r] \subseteq Q
          BY <1>1, <4>2, <4>3
        <5> HIDE DEF l, r
        <5> QED BY <5>1, <5>2
      <4> HIDE DEF a, b, l, r
      <4>6. x \in Node
        BY <1>1
      <4> DEFINE c == f[k + 1][x]
      <4>7. Ordered(c, v) /\ ToSet(c) = ToSet(a) \cup {x} \cup ToSet(b)
        <5>1. v \in [Node -> Nat] /\ a \in Seq(Node) /\ b \in Seq(Node) /\ Ordered(a, v) /\ Ordered(b, v)
          BY <1>0, <4>2, <4>3
        <5>2. Amid(a, x, b, v)
          BY <4>2, <4>3 DEF Amid
        <5>3. Around(c, a, x, b)
          BY <4>4 DEF Around
        <5> HIDE DEF c
        <5>4. ToSet(c) = ToSet(a) \cup {x} \cup ToSet(b) /\ Ordered(c, v)
          <6>1. /\ v \in [Node -> Nat] /\ a \in Seq(Node) /\ b \in Seq(Node) /\ x \in Node
                /\ Ordered(a, v) /\ Ordered(b, v) /\ Around(c, a, x, b) /\ Amid(a, x, b, v)
            BY <4>6, <5>1, <5>2, <5>3
          <6> QED BY <6>1, OrderedAround
        <5> QED BY <5>4
      <4> QED BY <4>2, <4>3, <4>4, <4>5, <4>7
    <3>4. ToSet(f[k + 1][Nil]) = sub[Nil] /\ Ordered(f[k + 1][Nil], v)
      BY <1>1, <1>2, <1>3, <3>1
    <3>5. ASSUME NEW x \in Knot PROVE f[k + 1][x] \in Seq(Node)
      <4>1. CASE x = Nil
        <5>1. f[k + 1][x] = << >>
          BY <1>2, <3>1, <4>1
        <5> QED BY <5>1
      <4>2. CASE x # Nil
        <5>1. f[k + 1][x] = Joined(f[(k + 1) - 1], t, x)
          BY <1>2, <3>1, <4>2
        <5>2. x \in Node /\ t.kid["left"][x] \in Knot /\ t.kid["right"][x] \in Knot
          BY <1>0, <4>2 DEF Shaped, TreeType, Knot, Side
        <5>3. f[k][t.kid["left"][x]] \in Seq(Node) /\ f[k][t.kid["right"][x]] \in Seq(Node) /\ <<x>> \in Seq(Node)
          BY <3>2, <5>2
        <5>4. Joined(f[k], t, x) \in Seq(Node)
          BY <5>3, ConcatProperties DEF Joined
        <5> QED BY <3>1, <5>1, <5>4
      <4> QED BY <4>1, <4>2
    <3> QED BY <3>3, <3>4, <3>5
  <2> HIDE DEF T
  <2>3. T \in SUBSET Nat
    BY DEF T
  <2> QED BY <2>1, <2>2, <2>3, SetInduction
<1>5. Good(Tasks)
  <2>1. Tasks \in T
    BY <1>0, <1>4
  <2> QED BY <1>0, <2>1
<1>6. t.root \in U /\ sub[t.root] = Q
  <2>1. CASE t.root = Nil
    BY <1>0, <1>1, <2>1 DEF Shaped, Linked
  <2>2. CASE t.root # Nil
    BY <1>0, <2>2 DEF Shaped, Linked, Spans
  <2> QED BY <2>1, <2>2
<1>7. Cardinality(Q) <= Tasks
  <2> DEFINE n == Cardinality(Q)
  <2>1. n \in 0 .. Tasks
    BY <1>1, NodesFinite
  <2> HIDE DEF n
  <2>2. n <= Tasks
    BY <1>0, <2>1
  <2> QED BY <2>2 DEF n
<1>8. f[Tasks][t.root] \in Seq(Node)
  <2>1. Tasks \in 0 .. Tasks
    BY <1>0
  <2> QED BY <1>1, <1>5, <1>6, <2>1
<1> QED BY <1>5, <1>6, <1>7, <1>8

LEMMA InOrderIs ==
  ASSUME NEW Q, NEW sub, NEW bh, NEW v, Settled(rq, Q, sub, bh, v)
  PROVE  InOrder \in Seq(Node) /\ ToSet(InOrder) = Q /\ Ordered(InOrder, v)
<1>1. PICK f \in [0 .. Tasks -> [Knot -> Seq(Node)]] : Walk(f, rq)
  BY WalkExists DEF Settled, Shaped
<1> DEFINE walk[k \in 0 .. Tasks] ==
             [x \in Node \cup {Nil} |->
                IF x = Nil \/ k = 0 THEN <<>>
                ELSE walk[k - 1][rq.kid["left"][x]] \o <<x>> \o walk[k - 1][rq.kid["right"][x]]]
<1>2. walk = [k \in 0 .. Tasks |->
               [x \in Node \cup {Nil} |->
                  IF x = Nil \/ k = 0 THEN <<>>
                  ELSE walk[k - 1][rq.kid["left"][x]] \o <<x>> \o walk[k - 1][rq.kid["right"][x]]]]
  <2>1. f = [k \in 0 .. Tasks |->
               [x \in Node \cup {Nil} |->
                  IF x = Nil \/ k = 0 THEN <<>>
                  ELSE f[k - 1][rq.kid["left"][x]] \o <<x>> \o f[k - 1][rq.kid["right"][x]]]]
    BY <1>1 DEF Walk, Joined, Knot
  <2> QED BY <2>1
<1>3. InOrder = walk[Tasks][rq.root]
  BY Zenon DEF InOrder
<1> HIDE DEF walk
<1>4. Walk(walk, rq)
  BY <1>2 DEF Walk, Joined, Knot
<1>5. /\ walk[Tasks][rq.root] \in Seq(Node) /\ ToSet(walk[Tasks][rq.root]) = Q
      /\ Ordered(walk[Tasks][rq.root], v)
  BY <1>4, WalkIs
<1> QED BY <1>3, <1>5

----------------------------------------------------------------------------
(* The black height. *)
Heightened(w, t, x) ==
  LET l == w[t.kid["left"][x]]
      r == w[t.kid["right"][x]]
  IN  IF l = -1 \/ l # r THEN -1 ELSE l + (IF x \in t.red THEN 0 ELSE 1)
Heights(f, t) ==
  f = [k \in 0 .. Tasks |-> [x \in Knot |-> IF x = Nil \/ k = 0 THEN 0 ELSE Heightened(f[k - 1], t, x)]]

LEMMA HeightsExist ==
  ASSUME NEW t \in TreeType
  PROVE  \E f : Heights(f, t)
<1> DEFINE S == [Knot -> Int]
           a == [x \in Knot |-> 0]
           Next1(w) == [x \in Knot |-> IF x = Nil THEN 0 ELSE Heightened(w, t, x)]
           F == [w \in S |-> Next1(w)]
<1>0. Tasks \in Nat
  BY CfsAssumption
<1>1. a \in S
  OBVIOUS
<1>2. ASSUME NEW w \in S PROVE Next1(w) \in S
  <2>1. ASSUME NEW x \in Knot, x # Nil PROVE Heightened(w, t, x) \in Int
    <3>1. x \in Node /\ t.kid["left"][x] \in Knot /\ t.kid["right"][x] \in Knot
      BY <2>1 DEF Knot, TreeType, Side
    <3>2. w[t.kid["left"][x]] \in Int /\ w[t.kid["right"][x]] \in Int
      BY <3>1
    <3> QED BY <3>2 DEF Heightened
  <2> QED BY <2>1
<1>3. F \in [S -> S]
  <2> HIDE DEF S, Next1
  <2> QED BY <1>2
<1>4. PICK f \in [0 .. Tasks -> S] : Steps(f, a, Tasks, F)
  <2> HIDE DEF S, F, a
  <2> QED BY <1>0, <1>1, <1>3, StepsExist
<1>5. ASSUME NEW k \in 0 .. Tasks
      PROVE  f[k] = [x \in Knot |-> IF x = Nil \/ k = 0 THEN 0 ELSE Heightened(f[k - 1], t, x)]
  <2>1. f[k] = IF k = 0 THEN a ELSE F[f[k - 1]]
    <3> HIDE DEF S, F, a
    <3> QED BY <1>4 DEF Steps
  <2>2. CASE k = 0
    BY <2>1, <2>2
  <2>3. CASE k # 0
    <3>1. k - 1 \in 0 .. Tasks
      BY <1>0, <2>3
    <3> DEFINE w == f[k - 1]
    <3>2. w \in S
      <4> HIDE DEF S
      <4> QED BY <1>4, <3>1
    <3> HIDE DEF w
    <3>3. F[w] = Next1(w)
      <4> HIDE DEF S, Next1
      <4> QED BY <3>2
    <3>4. f[k] = Next1(w)
      <4> HIDE DEF F, Next1
      <4> QED BY <2>1, <2>3, <3>3 DEF w
    <3> QED BY <2>3, <3>4 DEF w
  <2> QED BY <2>2, <2>3
<1>6. Heights(f, t)
  BY <1>4, <1>5 DEF Heights
<1> QED BY <1>6

LEMMA HeightsAre ==
  ASSUME NEW t, NEW Q, NEW sub, NEW bh, NEW v, Settled(t, Q, sub, bh, v),
         NEW f, Heights(f, t)
  PROVE  f[Tasks][t.root] \in Nat
<1> DEFINE U == Q \cup {Nil}
           Good(k) == \A x \in U : Cardinality(sub[x]) <= k => f[k][x] = bh[x]
           T == {k \in Nat : k <= Tasks => Good(k)}
<1>0. /\ Tasks \in Nat /\ v \in [Node -> Nat] /\ Nested(t, Q, sub) /\ Shaped(t, Q, sub, v)
  BY CfsAssumption, SubtreesNest DEF Settled, Shaped
<1>1. /\ Q \subseteq Node /\ Q \subseteq Knot /\ Nil \in Knot /\ Nil \notin Q /\ U \subseteq Knot
      /\ \A x \in U : sub[x] \subseteq Q
      /\ \A x \in Q, u \in Side : t.kid[u][x] \in U /\ x \notin sub[t.kid[u][x]] /\ sub[t.kid[u][x]] \subseteq sub[x]
      /\ \A x \in Q : x \in sub[x]
  <2>1. Q \subseteq Node /\ \A x \in Q : x \in sub[x] /\ sub[x] \subseteq Q
    BY <1>0 DEF Nested
  <2>2. Nil \notin Node
    BY CfsAssumption DEF Node
  <2>3. Nil \in Knot /\ Q \subseteq Knot
    BY <2>1 DEF Knot
  <2>4. sub[Nil] = {}
    BY <1>0, <2>1, <2>2, <2>3 DEF Shaped, Spans
  <2>5. \A x \in Q, u \in Side : t.kid[u][x] \in U /\ x \notin sub[t.kid[u][x]] /\ sub[t.kid[u][x]] \subseteq sub[x]
    BY <1>0 DEF Nested
  <2> QED BY <2>1, <2>2, <2>3, <2>4, <2>5
<1>2. ASSUME NEW k \in 0 .. Tasks, NEW x \in Knot
      PROVE  f[k][x] = IF x = Nil \/ k = 0 THEN 0 ELSE Heightened(f[k - 1], t, x)
  <2>1. f[k] = [y \in Knot |-> IF y = Nil \/ k = 0 THEN 0 ELSE Heightened(f[k - 1], t, y)]
    BY DEF Heights
  <2> QED BY <2>1
<1>3. /\ \A x \in U : bh[x] \in Nat
      /\ bh[Nil] = 0
      /\ \A n \in Q, u \in Side : bh[n] = bh[t.kid[u][n]] + (IF n \in t.red THEN 0 ELSE 1)
  BY <1>1 DEF Settled, Level
<1>4. T = Nat
  <2>1. 0 \in T
    <3>1. ASSUME NEW x \in U, Cardinality(sub[x]) <= 0 PROVE f[0][x] = bh[x]
      <4>1. IsFiniteSet(sub[x]) /\ Cardinality(sub[x]) \in Nat
        BY <1>1, NodesFinite, FS_CardinalityType
      <4>2. Cardinality(sub[x]) = 0
        BY <3>1, <4>1
      <4>3. sub[x] = {}
        BY <4>1, <4>2, FS_EmptySet
      <4>4. x = Nil
        BY <1>1, <4>3
      <4>5. f[0][Nil] = 0
        BY <1>0, <1>1, <1>2
      <4> QED BY <1>3, <4>4, <4>5
    <3> QED BY <3>1
  <2>2. ASSUME NEW k \in T PROVE k + 1 \in T
    <3> SUFFICES ASSUME k + 1 <= Tasks PROVE Good(k + 1)
      OBVIOUS
    <3>1. k \in Nat /\ k <= Tasks /\ k \in 0 .. Tasks /\ k + 1 \in 0 .. Tasks /\ k + 1 # 0 /\ (k + 1) - 1 = k
      BY <1>0
    <3>2. Good(k)
      BY <3>1
    <3>3. ASSUME NEW x \in Q, Cardinality(sub[x]) <= k + 1
          PROVE  f[k + 1][x] = bh[x]
      <4>1. ASSUME NEW u \in Side
            PROVE  f[k][t.kid[u][x]] = bh[t.kid[u][x]] /\ t.kid[u][x] \in U
        <5> DEFINE c == t.kid[u][x]
                   A == sub[c]
                   B == sub[x]
                   m == Cardinality(A)
                   n == Cardinality(B)
        <5>1. c \in U /\ A \subseteq B /\ x \in B /\ x \notin A /\ B \in SUBSET Node
          BY <1>1
        <5>2. IsFiniteSet(B)
          BY <5>1, NodesFinite
        <5>3. n <= k + 1
          BY <3>3
        <5> HIDE DEF A, B
        <5>5. m \in Nat /\ n \in Nat /\ m < n
          BY <5>1, <5>2, SmallerSet
        <5> HIDE DEF m, n
        <5>6. m <= k
          BY <3>1, <5>3, <5>5
        <5>7. f[k][c] = bh[c]
          BY <3>2, <5>1, <5>6 DEF m, A
        <5> QED BY <5>1, <5>7
      <4> DEFINE l == t.kid["left"][x]
                 r == t.kid["right"][x]
                 a == f[k][l]
                 b == f[k][r]
                 e == IF x \in t.red THEN 0 ELSE 1
      <4>2. a = bh[l] /\ b = bh[r] /\ bh[x] = bh[l] + e /\ bh[x] = bh[r] + e /\ a \in Nat /\ b \in Nat
        BY <1>3, <4>1 DEF Side
      <4>3. f[k + 1][x] = IF a = -1 \/ a # b THEN -1 ELSE a + e
        <5>1. x \in Knot /\ x # Nil
          BY <1>1
        <5>2. f[k + 1][x] = Heightened(f[(k + 1) - 1], t, x)
          BY <1>2, <3>1, <5>1
        <5>3. f[k + 1][x] = Heightened(f[k], t, x)
          BY <3>1, <5>2
        <5> QED BY <5>3, Zenon DEF Heightened
      <4>4. e \in Nat
        OBVIOUS
      <4> HIDE DEF a, b, l, r, e
      <4>5. a = b /\ a # -1
        BY <4>2, <4>4
      <4> QED BY <4>2, <4>3, <4>5
    <3>4. f[k + 1][Nil] = bh[Nil]
      BY <1>1, <1>2, <1>3, <3>1
    <3> QED BY <3>3, <3>4
  <2> HIDE DEF T
  <2>3. T \in SUBSET Nat
    BY DEF T
  <2> QED BY <2>1, <2>2, <2>3, SetInduction
<1>5. Good(Tasks)
  <2>1. Tasks \in T
    BY <1>0, <1>4
  <2> QED BY <1>0, <2>1
<1>6. t.root \in U
  BY <1>0, <1>1 DEF Shaped, Linked
<1>7. Cardinality(sub[t.root]) <= Tasks
  <2> DEFINE n == Cardinality(sub[t.root])
  <2>1. n \in 0 .. Tasks
    BY <1>1, <1>6, NodesFinite
  <2> HIDE DEF n
  <2>2. n <= Tasks
    BY <1>0, <2>1
  <2> QED BY <2>2 DEF n
<1> QED BY <1>3, <1>5, <1>6, <1>7

LEMMA BlackHeightIs ==
  ASSUME NEW Q, NEW sub, NEW bh, NEW v, Settled(rq, Q, sub, bh, v)
  PROVE  BlackHeight \in Nat
<1>1. PICK f : Heights(f, rq)
  BY HeightsExist DEF Settled, Shaped
<1> DEFINE height[k \in 0 .. Tasks] ==
             [x \in Node \cup {Nil} |->
                IF x = Nil \/ k = 0 THEN 0
                ELSE LET l == height[k - 1][rq.kid["left"][x]]
                         r == height[k - 1][rq.kid["right"][x]]
                     IN  IF l = -1 \/ l # r THEN -1 ELSE l + (IF x \in rq.red THEN 0 ELSE 1)]
<1>2. height = [k \in 0 .. Tasks |->
             [x \in Node \cup {Nil} |->
                IF x = Nil \/ k = 0 THEN 0
                ELSE LET l == height[k - 1][rq.kid["left"][x]]
                         r == height[k - 1][rq.kid["right"][x]]
                     IN  IF l = -1 \/ l # r THEN -1 ELSE l + (IF x \in rq.red THEN 0 ELSE 1)]]
  <2>1. f = [k \in 0 .. Tasks |->
             [x \in Node \cup {Nil} |->
                IF x = Nil \/ k = 0 THEN 0
                ELSE LET l == f[k - 1][rq.kid["left"][x]]
                         r == f[k - 1][rq.kid["right"][x]]
                     IN  IF l = -1 \/ l # r THEN -1 ELSE l + (IF x \in rq.red THEN 0 ELSE 1)]]
    BY <1>1, Zenon DEF Heights, Heightened, Knot
  <2> QED BY <2>1
<1>3. BlackHeight = height[Tasks][rq.root]
  BY Zenon DEF BlackHeight
<1> HIDE DEF height
<1>4. Heights(height, rq)
  BY <1>2, Zenon DEF Heights, Heightened, Knot
<1>5. height[Tasks][rq.root] \in Nat
  BY <1>4, HeightsAre
<1> QED BY <1>3, <1>5

----------------------------------------------------------------------------
LEMMA SettledIsSorted ==
  ASSUME CfsType, TreeSettled
  PROVE  TreeIsSortedQueue
<1> DEFINE v == KeyOf(sched_data)
           Q == Queued
           s == InOrder
<1>1. PICK sub, bh : Settled(rq, Q, sub, bh, v)
  BY DEF TreeSettled
<1>2. Least(rq, Q, v) /\ Q \subseteq Node
  BY <1>1 DEF TreeSettled, Settled, Shaped, Linked
<1>3. v \in [Node -> Nat] /\ \A m \in Q : v[m] = sched_data[m].vruntime /\ m \in Node
  <2>1. v \in [Node -> Nat] /\ \A n \in Node : sched_data[n] \in Data => v[n] = sched_data[n].vruntime
    BY KeyOfIs DEF CfsType
  <2>2. \A m \in Q : sched_data[m] \in Data
    BY DEF CfsType, Queued
  <2> HIDE DEF v, Q
  <2> QED BY <1>2, <2>1, <2>2
<1> HIDE DEF v, Q
<1>4. s \in Seq(Node) /\ ToSet(s) = Q /\ Ordered(s, v)
  BY <1>1, InOrderIs
<1>5. BlackHeight # -1
  <2>1. BlackHeight \in Nat
    BY <1>1, BlackHeightIs
  <2> HIDE DEF BlackHeight
  <2> QED BY <2>1
<1> HIDE DEF s
<1>6. Len(s) \in Nat /\ DOMAIN s = 1 .. Len(s) /\ \A i \in 1 .. Len(s) : s[i] \in Q /\ s[i] \in Node
  <2>1. Len(s) \in Nat /\ DOMAIN s = 1 .. Len(s)
    BY <1>4
  <2> QED BY <1>2, <1>4, <2>1 DEF ToSet
<1>7. \A m \in Node : ~Before(v, m, m)
  <2>1. \A m \in Node : ~On(v, "left", m, m)
    BY <1>3, OrderIs DEF Side
  <2> QED BY <2>1 DEF On
<1>8. \A m, n \in Node : ~(Before(v, m, n) /\ Before(v, n, m))
  <2>1. \A m, n \in Node : ~(On(v, "left", m, n) /\ On(v, Other("left"), m, n))
    BY <1>3, OrderIs DEF Side
  <2> QED BY <2>1 DEF On, Other
<1>9. Len(s) = Cardinality(Q)
  <2>1. ASSUME NEW i \in 1 .. Len(s), NEW j \in 1 .. Len(s), s[i] = s[j] PROVE i = j
    <3>1. ~(i < j) /\ ~(j < i)
      BY <1>4, <1>6, <1>7, <2>1 DEF Ordered
    <3> QED BY <1>6, <3>1
  <2>2. IsInjective(s)
    BY <1>6, <2>1 DEF IsInjective
  <2> QED BY <1>4, <2>2, InjectiveSize
<1>10. ASSUME NEW j \in 1 .. Len(s), NEW k \in 1 .. Len(s), j < k
       PROVE  \/ sched_data[s[j]].vruntime < sched_data[s[k]].vruntime
              \/ sched_data[s[j]].vruntime = sched_data[s[k]].vruntime /\ s[j] < s[k]
  <2>1. Before(v, s[j], s[k]) /\ s[j] \in Q /\ s[k] \in Q
    BY <1>4, <1>6, <1>10 DEF Ordered
  <2> QED BY <1>3, <2>1 DEF Before
<1>11. ASSUME Q # {} PROVE rq.leftmost = s[1]
  <2>1. rq.leftmost \in Q /\ \A m \in Q : m # rq.leftmost => Before(v, rq.leftmost, m)
    BY <1>2, <1>11 DEF Least
  <2>2. PICK i \in 1 .. Len(s) : s[i] = rq.leftmost
    BY <1>4, <1>6, <2>1 DEF ToSet
  <2>3. CASE i = 1
    BY <2>2, <2>3
  <2>4. CASE i # 1
    <3>1. 1 \in 1 .. Len(s) /\ 1 < i
      BY <1>6, <2>4
    <3>2. Before(v, s[1], s[i]) /\ s[1] \in Q /\ s[1] \in Node /\ s[i] \in Node
      BY <1>4, <1>6, <3>1 DEF Ordered
    <3>3. s[1] # rq.leftmost
      BY <1>7, <2>2, <3>2
    <3> QED BY <1>8, <2>1, <2>2, <3>2, <3>3
  <2> QED BY <2>3, <2>4
<1>12. ASSUME NEW n \in Q
       PROVE  /\ n \in rq.red => rq.parent[n] \in Q \ rq.red
              /\ IF rq.parent[n] = Nil THEN rq.root = n
                 ELSE \E u \in Side : rq.kid[u][rq.parent[n]] = n
  <2>1. n # Nil /\ Nil \notin Q
    <3>1. Nil \notin Node
      BY CfsAssumption DEF Node
    <3> QED BY <1>2, <3>1
  <2>2. /\ n # rq.root => rq.parent[n] \in Q /\ \E u \in Side : rq.kid[u][rq.parent[n]] = n
        /\ n = rq.root => rq.parent[n] = Nil
    BY <1>1, <2>1 DEF Settled, Shaped, Linked
  <2>3. n \in rq.red => rq.parent[n] # Nil /\ rq.parent[n] \notin rq.red
    BY <1>1, <2>1 DEF Settled, Reds
  <2> QED BY <2>1, <2>2, <2>3
<1> QED BY <1>4, <1>5, <1>9, <1>10, <1>11, <1>12 DEF TreeIsSortedQueue, s, Q, cfs_pick_next_task

(* After any insertions the tree of the run queue holds the tasks that got *)
(* a node, once and in the order of vruntime and arrival; its leftmost is  *)
(* the first of them; and it is a balanced red-black tree.                 *)
THEOREM RunQueueIsSorted ==
  CfsSpec => []TreeIsSortedQueue
BY CfsInvariant, SettledIsSorted, PTL DEF CfsInv
=============================================================================
