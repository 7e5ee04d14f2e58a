----------------------------- MODULE ListProofs -----------------------------
(***************************************************************************)
(* Theorems about the lists the kernel links by hand: the run queue        *)
(* (RunQueue), the blocks of the heap (Heap), the timers of the event loop *)
(* (EventLoop), the slabs of a cache (SlabCache), the nodes of the file    *)
(* tree (Vfs) and the surfaces of the compositor (Compositor), for any     *)
(* number of tasks, granules, timers, pages, nodes and surfaces.           *)
(*                                                                         *)
(* What they share: when the links follow a sequence, walking the list     *)
(* gives that sequence.  Each proof then carries the sequence along, the   *)
(* way the operations change it.                                           *)
(***************************************************************************)
EXTENDS RunQueue, Heap, EventLoop, SlabCache, Vfs, Compositor, SequenceLemmas

(* The node at place i of a sequence, NULL behind its end. *)
NodeAt(s, i) == IF i \in DOMAIN s THEN s[i] ELSE NULL

(* The links of a list lead through s, from p on. *)
LinkedAs(link, p, s) ==
  /\ p = NodeAt(s, 1)
  /\ \A i \in DOMAIN s : link[s[i]] = NodeAt(s, i + 1)

(* The walk from p on, f, over n nodes at most. *)
WalkIs(link, p, n, f) ==
  f = [k \in 0 .. n |-> IF k = 0 THEN p ELSE NextNode(link, f[k - 1])]

(* ChainFrom lists the nodes of walk f. *)
ChainListsWalk(link, p, n, f) ==
  ChainFrom(link, p) =
    [i \in 1 .. Cardinality({k \in 0 .. n - 1 : f[k] # NULL}) |-> f[i - 1]]

(* If there is a walk at all, ChainFrom lists its nodes. *)
LEMMA ChainIsWalk ==
  ASSUME NEW link, NEW p, NEW n, n = Cardinality(DOMAIN link), NEW g, WalkIs(link, p, n, g)
  PROVE  \E f : WalkIs(link, p, n, f) /\ ChainListsWalk(link, p, n, f)
<1> DEFINE node[k \in 0 .. n] == IF k = 0 THEN p ELSE NextNode(link, node[k - 1])
<1>1. node = [k \in 0 .. n |-> IF k = 0 THEN p ELSE NextNode(link, node[k - 1])]
  BY DEF WalkIs
<1>2. ChainListsWalk(link, p, n, node)
  BY DEF ChainFrom, ChainListsWalk
<1>3. WalkIs(link, p, n, node)
  BY <1>1, Zenon DEF WalkIs
<1> HIDE DEF node
<1> QED BY <1>2, <1>3, Zenon

(* There is one walk only. *)
LEMMA OneWalk ==
  ASSUME NEW link, NEW p, NEW n \in Nat, NEW f, NEW g, WalkIs(link, p, n, f), WalkIs(link, p, n, g)
  PROVE  f = g
<1> DEFINE T == {k \in Nat : k \in 0 .. n => f[k] = g[k]}
<1>1. 0 \in T
  BY DEF WalkIs
<1>2. ASSUME NEW k \in T PROVE k + 1 \in T
  <2>1. CASE k + 1 \in 0 .. n
    <3>1. k \in 0 .. n /\ f[k] = g[k] /\ k + 1 # 0 /\ (k + 1) - 1 = k
      BY <1>2, <2>1
    <3>2. f[k + 1] = NextNode(link, f[k]) /\ g[k + 1] = NextNode(link, g[k])
      BY <3>1, <2>1 DEF WalkIs
    <3> QED BY <3>1, <3>2
  <2>2. CASE k + 1 \notin 0 .. n
    BY <2>2
  <2> QED BY <2>1, <2>2
<1>3. T = Nat
  <2> HIDE DEF T
  <2> QED BY <1>1, <1>2, SetInduction, T \in SUBSET Nat DEF T
<1>4. \A k \in 0 .. n : f[k] = g[k]
  BY <1>3
<1>5. DOMAIN f = 0 .. n /\ DOMAIN g = 0 .. n
     /\ f = [k \in DOMAIN f |-> f[k]] /\ g = [k \in DOMAIN g |-> g[k]]
  BY DEF WalkIs
<1> QED BY <1>4, <1>5

(* Links that lead through s, an injective sequence of nodes, list s.      *)
LEMMA ChainIs ==
  ASSUME NEW S, IsFiniteSet(S), NULL \notin S,
         NEW link, DOMAIN link = S, NEW p,
         NEW s \in Seq(S), IsInjective(s), LinkedAs(link, p, s)
  PROVE  ChainFrom(link, p) = s
<1> DEFINE n == Cardinality(S)
           g == [k \in 0 .. n |-> NodeAt(s, k + 1)]
<1>1. n \in Nat /\ Len(s) \in Nat /\ DOMAIN s = 1 .. Len(s) /\ \A i \in DOMAIN s : s[i] \in S
  BY FS_CardinalityType
<1>2. Len(s) <= n
  <2>1. ToSet(s) \subseteq S
    BY <1>1 DEF ToSet
  <2> QED BY <2>1, InjectiveFits
<1>3. WalkIs(link, p, n, g)
  <2>1. g[0] = p
    <3>1. 0 \in 0 .. n /\ 0 + 1 = 1
      BY <1>1
    <3> QED BY <3>1 DEF LinkedAs
  <2>2. ASSUME NEW k \in 0 .. n, k # 0
        PROVE  g[k] = NextNode(link, g[k - 1])
    <3>1. k - 1 \in 0 .. n /\ (k - 1) + 1 = k
      BY <2>2, <1>1
    <3>2. g[k - 1] = NodeAt(s, k) /\ g[k] = NodeAt(s, k + 1)
      BY <3>1, <2>2
    <3>3. CASE k \in DOMAIN s
      <4>1. NodeAt(s, k) = s[k] /\ s[k] # NULL /\ link[s[k]] = NodeAt(s, k + 1)
        BY <3>3, <1>1 DEF NodeAt, LinkedAs
      <4> QED BY <3>2, <4>1 DEF NextNode
    <3>4. CASE k \notin DOMAIN s
      <4>1. k + 1 \notin DOMAIN s
        BY <3>4, <2>2, <1>1
      <4>2. NodeAt(s, k) = NULL /\ NodeAt(s, k + 1) = NULL
        BY <3>4, <4>1 DEF NodeAt
      <4> QED BY <3>2, <4>2 DEF NextNode
    <3> QED BY <3>3, <3>4
  <2>3. g = [k \in 0 .. n |-> IF k = 0 THEN p ELSE NextNode(link, g[k - 1])]
    <3>1. \A k \in 0 .. n : g[k] = IF k = 0 THEN p ELSE NextNode(link, g[k - 1])
      BY <2>1, <2>2
    <3> QED BY <3>1
  <2> QED BY <2>3 DEF WalkIs
<1> HIDE DEF g
<1>4. PICK f : WalkIs(link, p, n, f) /\ ChainListsWalk(link, p, n, f)
  <2>1. n = Cardinality(DOMAIN link)
    OBVIOUS
  <2> HIDE DEF n
  <2> QED BY <1>3, <2>1, ChainIsWalk
<1>5. f = g
  BY <1>1, <1>3, <1>4, OneWalk
<1>6. Cardinality({k \in 0 .. n - 1 : g[k] # NULL}) = Len(s)
  <2>1. ASSUME NEW k \in 0 .. n - 1 PROVE g[k] # NULL <=> k \in 0 .. Len(s) - 1
    <3>1. k \in 0 .. n /\ (k + 1 \in DOMAIN s <=> k \in 0 .. Len(s) - 1)
      BY <1>1
    <3>2. g[k] = NodeAt(s, k + 1)
      BY <3>1 DEF g
    <3> QED BY <3>1, <3>2, <1>1 DEF NodeAt
  <2>2. 0 .. Len(s) - 1 \subseteq 0 .. n - 1
    BY <1>1, <1>2
  <2>3. {k \in 0 .. n - 1 : g[k] # NULL} = 0 .. Len(s) - 1
    BY <2>1, <2>2
  <2>4. Cardinality(0 .. Len(s) - 1) = Len(s)
    <3> DEFINE e == Len(s) - 1
    <3>1. 0 \in Int /\ e \in Int /\ (0 > e => Len(s) = 0) /\ (~(0 > e) => e - 0 + 1 = Len(s))
      BY <1>1
    <3> HIDE DEF e
    <3>2. Cardinality(0 .. e) = IF 0 > e THEN 0 ELSE e - 0 + 1
      BY <3>1, FS_Interval
    <3>3. Cardinality(0 .. e) = Len(s)
      BY <3>1, <3>2
    <3> QED BY <3>3 DEF e
  <2> QED BY <2>3, <2>4
<1>7. ASSUME NEW i \in 1 .. Len(s) PROVE g[i - 1] = s[i]
  <2>1. i - 1 \in 0 .. n /\ (i - 1) + 1 = i /\ i \in DOMAIN s
    BY <1>1, <1>2
  <2> QED BY <2>1 DEF g, NodeAt
<1>8. ChainFrom(link, p) = [i \in 1 .. Len(s) |-> g[i - 1]]
  BY <1>4, <1>5, <1>6 DEF ChainListsWalk
<1> QED BY <1>7, <1>8, <1>1

----------------------------------------------------------------------------
(* What the operations on a list do to the sequence its links lead through.*)

(* Links of other nodes do not matter. *)
LEMMA LinkedAgree ==
  ASSUME NEW link, NEW new, NEW p, NEW s,
         LinkedAs(link, p, s), \A i \in DOMAIN s : new[s[i]] = link[s[i]]
  PROVE  LinkedAs(new, p, s)
BY DEF LinkedAs

(* A list is empty when its head is NULL, and starts with its head.        *)
LEMMA LinkedHead ==
  ASSUME NEW S, NULL \notin S, NEW s \in Seq(S), NEW link, NEW p, LinkedAs(link, p, s)
  PROVE  /\ p = NULL <=> s = <<>>
         /\ s # <<>> => p = Head(s) /\ p \in ToSet(s) /\ p \in S
<1>1. CASE s = <<>>
  BY <1>1 DEF LinkedAs, NodeAt
<1>2. CASE s # <<>>
  <2>1. 1 \in DOMAIN s /\ s[1] \in S /\ Head(s) = s[1]
    BY <1>2
  <2> QED BY <1>2, <2>1 DEF LinkedAs, NodeAt, ToSet
<1> QED BY <1>1, <1>2

(* Taking the first node. *)
LEMMA LinkedTail ==
  ASSUME NEW S, NEW s \in Seq(S), s # <<>>, NEW link, NEW p, LinkedAs(link, p, s)
  PROVE  LinkedAs(link, link[p], Tail(s))
<1>1. /\ 1 \in DOMAIN s /\ Len(Tail(s)) = Len(s) - 1 /\ Len(s) \in Nat
      /\ DOMAIN s = 1 .. Len(s) /\ DOMAIN Tail(s) = 1 .. Len(s) - 1
      /\ \A i \in 1 .. Len(s) - 1 : Tail(s)[i] = s[i + 1]
  OBVIOUS
<1>2. ASSUME NEW i \in Nat, i >= 1 PROVE NodeAt(Tail(s), i) = NodeAt(s, i + 1)
  <2>1. i \in DOMAIN Tail(s) <=> i + 1 \in DOMAIN s
    BY <1>1, <1>2
  <2> QED BY <1>1, <2>1 DEF NodeAt
<1>3. p = s[1] /\ link[p] = NodeAt(s, 2)
  BY <1>1 DEF LinkedAs, NodeAt
<1>4. link[p] = NodeAt(Tail(s), 1)
  BY <1>2, <1>3
<1>5. ASSUME NEW i \in DOMAIN Tail(s) PROVE link[Tail(s)[i]] = NodeAt(Tail(s), i + 1)
  <2>1. i + 1 \in DOMAIN s /\ Tail(s)[i] = s[i + 1] /\ i + 1 \in Nat /\ i + 1 >= 1
    BY <1>1, <1>5
  <2>2. link[s[i + 1]] = NodeAt(s, (i + 1) + 1)
    BY <2>1 DEF LinkedAs
  <2> QED BY <1>2, <2>1, <2>2
<1> QED BY <1>4, <1>5 DEF LinkedAs

(* A new first node. *)
LEMMA LinkedPush ==
  ASSUME NEW S, NEW s \in Seq(S), NEW link, NEW new, NEW p, LinkedAs(link, p, s),
         NEW x \in S, new[x] = p, \A i \in DOMAIN s : new[s[i]] = link[s[i]]
  PROVE  LinkedAs(new, x, <<x>> \o s)
<1> DEFINE r == <<x>> \o s
<1>1. /\ Len(s) \in Nat /\ DOMAIN s = 1 .. Len(s) /\ r \in Seq(S) /\ DOMAIN r = 1 .. Len(s) + 1
      /\ r[1] = x /\ \A i \in 1 .. Len(s) : r[i + 1] = s[i]
  OBVIOUS
<1>2. ASSUME NEW i \in Nat, i >= 1 PROVE NodeAt(r, i + 1) = NodeAt(s, i)
  <2>1. i \in DOMAIN s <=> i + 1 \in DOMAIN r
    BY <1>1, <1>2
  <2> QED BY <1>1, <2>1 DEF NodeAt
<1> HIDE DEF r
<1>3. x = NodeAt(r, 1) /\ new[r[1]] = NodeAt(r, 1 + 1)
  <2>1. 1 \in DOMAIN r
    BY <1>1
  <2>2. p = NodeAt(s, 1)
    BY DEF LinkedAs
  <2> QED BY <1>1, <1>2, <2>1, <2>2 DEF NodeAt
<1>4. ASSUME NEW i \in DOMAIN r, i # 1 PROVE new[r[i]] = NodeAt(r, i + 1)
  <2>1. i - 1 \in DOMAIN s /\ r[i] = s[i - 1] /\ (i - 1) + 1 = i /\ i \in Nat /\ i >= 1
    <3>1. i - 1 \in 1 .. Len(s) /\ (i - 1) + 1 = i
      BY <1>1, <1>4
    <3> QED BY <1>1, <3>1
  <2>2. new[s[i - 1]] = NodeAt(s, i)
    BY <2>1 DEF LinkedAs
  <2> QED BY <1>2, <2>1, <2>2
<1> QED BY <1>3, <1>4 DEF LinkedAs, r

(* A new last node. *)
LEMMA LinkedAppend ==
  ASSUME NEW S, NEW s \in Seq(S), IsInjective(s), NEW link, NEW new, NEW p, NEW q,
         LinkedAs(link, p, s), NEW x \in S, new[x] = NULL,
         s = <<>> => q = x,
         s # <<>> => q = p /\ new[s[Len(s)]] = x,
         \A i \in DOMAIN s : i # Len(s) => new[s[i]] = link[s[i]]
  PROVE  LinkedAs(new, q, Append(s, x))
<1> DEFINE r == Append(s, x)
           n == Len(s)
<1>1. /\ n \in Nat /\ DOMAIN s = 1 .. n /\ r \in Seq(S) /\ DOMAIN r = 1 .. n + 1
      /\ r[n + 1] = x /\ \A i \in 1 .. n : r[i] = s[i]
      /\ s = <<>> <=> n = 0
  OBVIOUS
<1> HIDE DEF r
<1>2. q = NodeAt(r, 1)
  <2>1. 1 \in DOMAIN r
    BY <1>1
  <2>2. CASE s = <<>>
    BY <1>1, <2>1, <2>2 DEF NodeAt
  <2>3. CASE s # <<>>
    <3>1. 1 \in DOMAIN s /\ r[1] = s[1]
      BY <1>1, <2>3
    <3> QED BY <2>1, <2>3, <3>1 DEF NodeAt, LinkedAs
  <2> QED BY <2>2, <2>3
<1>3. ASSUME NEW i \in DOMAIN r PROVE new[r[i]] = NodeAt(r, i + 1)
  <2>1. CASE i = n + 1
    <3>1. i + 1 \notin DOMAIN r
      BY <1>1, <2>1
    <3> QED BY <1>1, <2>1, <3>1 DEF NodeAt
  <2>2. CASE i = n
    <3>1. i \in DOMAIN s /\ r[i] = s[n] /\ i + 1 \in DOMAIN r /\ s # <<>>
      BY <1>1, <2>2, <1>3
    <3> QED BY <1>1, <2>2, <3>1 DEF NodeAt
  <2>3. CASE i # n /\ i # n + 1
    <3>1. i \in DOMAIN s /\ i + 1 \in DOMAIN s /\ i + 1 \in DOMAIN r
          /\ r[i] = s[i] /\ r[i + 1] = s[i + 1]
      BY <1>1, <2>3, <1>3
    <3> QED BY <2>3, <3>1 DEF NodeAt, LinkedAs
  <2> QED BY <2>1, <2>2, <2>3
<1> QED BY <1>2, <1>3 DEF LinkedAs, r

(* r is s without the node at place k. *)
CutsOut(s, k, r) ==
  /\ Len(r) = Len(s) - 1
  /\ \A i \in 1 .. k - 1 : r[i] = s[i]
  /\ \A i \in k .. Len(s) - 1 : r[i] = s[i + 1]

(* The links lead past the node at place k of s. *)
LeadsPast(link, p, new, q, s, k) ==
  /\ k = 1 => q = link[s[k]]
  /\ k # 1 => q = p /\ new[s[k - 1]] = link[s[k]]
  /\ \A i \in DOMAIN s : i # k /\ i + 1 # k => new[s[i]] = link[s[i]]

(* Taking out the node at place k. *)
LEMMA LinkedRemove ==
  ASSUME NEW S, NEW s \in Seq(S), NEW k \in DOMAIN s, NEW r \in Seq(S), CutsOut(s, k, r),
         NEW link, NEW new, NEW p, NEW q, LinkedAs(link, p, s), LeadsPast(link, p, new, q, s, k)
  PROVE  LinkedAs(new, q, r)
<1> USE DEF CutsOut, LeadsPast
<1> DEFINE n == Len(s)
<1>1. /\ n \in Nat /\ DOMAIN s = 1 .. n /\ DOMAIN r = 1 .. n - 1 /\ k \in 1 .. n
  OBVIOUS
<1>2. ASSUME NEW i \in Nat, i >= 1
      PROVE  /\ i < k => NodeAt(r, i) = NodeAt(s, i)
             /\ i >= k => NodeAt(r, i) = NodeAt(s, i + 1)
  <2>1. CASE i < k
    <3>1. i \in DOMAIN r /\ i \in DOMAIN s /\ i \in 1 .. k - 1
      BY <1>1, <1>2, <2>1
    <3>2. ~(i >= k)
      BY <1>1, <2>1
    <3> QED BY <3>1, <3>2 DEF NodeAt
  <2>2. CASE i >= k
    <3>1. i \in DOMAIN r <=> i + 1 \in DOMAIN s
      BY <1>1, <1>2, <2>2
    <3>2. i \in DOMAIN r => i \in k .. n - 1
      BY <1>1, <2>2
    <3>3. ~(i < k)
      BY <1>1, <2>2
    <3> QED BY <3>1, <3>2, <3>3 DEF NodeAt
  <2> QED BY <1>1, <2>1, <2>2
<1>3. link[s[k]] = NodeAt(s, k + 1)
  BY DEF LinkedAs
<1>4. q = NodeAt(r, 1)
  <2>1. CASE k = 1
    BY <1>1, <1>2, <1>3, <2>1
  <2>2. CASE k # 1
    <3>1. 1 < k
      BY <1>1, <2>2
    <3> QED BY <1>2, <2>2, <3>1 DEF LinkedAs
  <2> QED BY <2>1, <2>2
<1>5. ASSUME NEW i \in DOMAIN r PROVE new[r[i]] = NodeAt(r, i + 1)
  <2>1. CASE i + 1 < k
    <3>1. i \in DOMAIN s /\ i \in 1 .. k - 1 /\ i # k /\ i + 1 # k /\ i + 1 \in Nat /\ i + 1 >= 1
      BY <1>1, <1>5, <2>1
    <3> QED BY <1>2, <2>1, <3>1 DEF LinkedAs
  <2>2. CASE i + 1 = k
    <3>1. k # 1 /\ k - 1 = i /\ i \in 1 .. k - 1 /\ i + 1 \in Nat /\ i + 1 >= 1 /\ k >= k
      BY <1>1, <1>5, <2>2
    <3>2. NodeAt(r, i + 1) = NodeAt(s, k + 1)
      BY <1>2, <2>2, <3>1
    <3> QED BY <1>3, <3>1, <3>2
  <2>3. CASE i >= k
    <3>1. /\ i + 1 \in DOMAIN s /\ i \in k .. n - 1 /\ i + 1 # k /\ (i + 1) + 1 # k
          /\ i + 1 \in Nat /\ i + 1 >= 1 /\ i + 1 >= k
      BY <1>1, <1>5, <2>3
    <3>2. new[s[i + 1]] = NodeAt(s, (i + 1) + 1)
      BY <3>1 DEF LinkedAs
    <3> QED BY <1>2, <3>1, <3>2
  <2> QED BY <1>1, <1>5, <2>1, <2>2, <2>3
<1> QED BY <1>4, <1>5 DEF LinkedAs

(* Taking out node t with RemoveFirst. *)
LEMMA LinkedRemoveFirst ==
  ASSUME NEW S, NEW s \in Seq(S), IsInjective(s), NEW k \in DOMAIN s, NEW t, s[k] = t,
         NEW link, NEW new, NEW p, NEW q, LinkedAs(link, p, s), LeadsPast(link, p, new, q, s, k)
  PROVE  /\ LinkedAs(new, q, RemoveFirst(s, t))
         /\ CutsOut(s, k, RemoveFirst(s, t))
         /\ RemoveFirst(s, t) \in Seq(S)
<1> DEFINE r == RemoveFirst(s, t)
           n == Len(s)
<1>0. t \in ToSet(s)
  BY DEF ToSet
<1>1. n \in Nat /\ DOMAIN s = 1 .. n /\ \A i, j \in DOMAIN s : s[i] = s[j] => i = j
  BY DEF IsInjective
<1>2. PICK l \in 1 .. Len(s) :
        /\ s[l] = t /\ \A j \in 1 .. l - 1 : s[j] # t
        /\ Len(r) = Len(s) - 1
        /\ \A i \in 1 .. Len(s) - 1 : r[i] = s[IF i < l THEN i ELSE i + 1]
  BY <1>0, RemoveFirstIs
<1>3. l = k
  BY <1>1, <1>2
<1>4. r \in Seq(S)
  BY RemoveFirstIs
<1> HIDE DEF r
<1>5. CutsOut(s, k, r)
  <2>1. /\ \A i \in 1 .. k - 1 : r[i] = s[i]
        /\ \A i \in k .. n - 1 : r[i] = s[i + 1]
    BY <1>1, <1>2, <1>3
  <2> QED BY <1>2, <2>1 DEF CutsOut
<1>6. LinkedAs(new, q, r)
  BY <1>4, <1>5, LinkedRemove
<1> QED BY <1>4, <1>5, <1>6 DEF r

----------------------------------------------------------------------------
(* The run queue. *)

QueueInv ==
  /\ next \in [Task -> Task \cup {NULL}]
  /\ run_queue = [head |-> run_queue.head, tail |-> run_queue.tail, count |-> run_queue.count]
  /\ waiting \in Seq(Task) /\ IsInjective(waiting)
  /\ LinkedAs(next, run_queue.head, waiting)
  /\ run_queue.count = Len(waiting)
  /\ run_queue.tail = IF waiting = <<>> THEN NULL ELSE Last(waiting)

LEMMA QueueIsWaiting ==
  ASSUME QueueInv
  PROVE  InQueue = waiting
<1>1. DOMAIN next = Task
  BY DEF QueueInv
<1> QED BY <1>1, TaskAssumption, ChainIs DEF QueueInv, InQueue

LEMMA QueueInitial == QueueInit => QueueInv
<1> SUFFICES ASSUME QueueInit PROVE QueueInv
  OBVIOUS
<1>1. IsInjective(<<>>) /\ <<>> \in Seq(Task) /\ Len(<<>>) = 0 /\ DOMAIN <<>> = {}
  BY DEF IsInjective
<1>2. LinkedAs(next, run_queue.head, waiting)
  BY <1>1 DEF QueueInit, LinkedAs, NodeAt
<1> QED BY <1>1, <1>2 DEF QueueInit, QueueInv

LEMMA AddKeeps ==
  ASSUME QueueInv, NEW t \in Task, scheduler_add_task(t)
  PROVE  QueueInv'
<1> DEFINE w == waiting
<1>1. /\ w \in Seq(Task) /\ IsInjective(w) /\ t \notin ToSet(w)
      /\ waiting' = Append(w, t) /\ LinkedAs(next, run_queue.head, w)
  BY DEF QueueInv, scheduler_add_task
<1>2. waiting' \in Seq(Task) /\ IsInjective(waiting') /\ Len(waiting') = Len(w) + 1
  BY <1>1, InjectiveAppend
<1>3. waiting' # <<>> /\ Last(waiting') = t
  BY <1>1, <1>2 DEF Last
<1>4. /\ next' \in [Task -> Task \cup {NULL}]
      /\ run_queue' = [head |-> run_queue'.head, tail |-> run_queue'.tail, count |-> run_queue'.count]
      /\ run_queue'.count = Len(w) + 1 /\ run_queue'.tail = t
      /\ run_queue'.head = IF run_queue.tail = NULL THEN t ELSE run_queue.head
  BY DEF QueueInv, scheduler_add_task
<1>5. DOMAIN w = 1 .. Len(w) /\ Len(w) \in Nat /\ \A i \in DOMAIN w : w[i] \in Task /\ w[i] # t /\ w[i] # NULL
  BY <1>1, TaskAssumption DEF ToSet
<1>6. w = <<>> => run_queue'.head = t
  BY <1>4 DEF QueueInv
<1>7. w # <<>> => /\ Len(w) \in DOMAIN w /\ run_queue.tail = w[Len(w)]
                  /\ run_queue'.head = run_queue.head /\ next'[w[Len(w)]] = t
  <2> SUFFICES ASSUME w # <<>>
               PROVE  /\ Len(w) \in DOMAIN w /\ run_queue.tail = w[Len(w)]
                      /\ run_queue'.head = run_queue.head /\ next'[w[Len(w)]] = t
    OBVIOUS
  <2>1. Len(w) \in DOMAIN w
    BY <1>1, <1>5
  <2>2. run_queue.tail = w[Len(w)]
    BY DEF QueueInv, Last
  <2>3. w[Len(w)] \in Task /\ w[Len(w)] # t /\ w[Len(w)] # NULL
    BY <1>5, <2>1
  <2> QED BY <1>4, <2>1, <2>2, <2>3 DEF scheduler_add_task
<1>8. next'[t] = NULL
  BY DEF scheduler_add_task
<1>9. \A i \in DOMAIN w : i # Len(w) => next'[w[i]] = next[w[i]]
  <2> SUFFICES ASSUME NEW i \in DOMAIN w, i # Len(w) PROVE next'[w[i]] = next[w[i]]
    OBVIOUS
  <2>1. w # <<>> /\ Len(w) \in DOMAIN w
    BY <1>1, <1>5
  <2>2. w[i] # w[Len(w)]
    BY <1>1, <2>1 DEF IsInjective
  <2>3. run_queue.tail # w[i] /\ w[i] \in Task /\ w[i] # t
    BY <1>5, <1>7, <2>1, <2>2
  <2> QED BY <2>3 DEF scheduler_add_task
<1>10. LinkedAs(next', run_queue'.head, waiting')
  BY <1>1, <1>6, <1>7, <1>8, <1>9, LinkedAppend
<1> QED BY <1>2, <1>3, <1>4, <1>10 DEF QueueInv

LEMMA RemoveKeeps ==
  ASSUME QueueInv, NEW t \in Task, scheduler_remove_task(t)
  PROVE  QueueInv'
<1> DEFINE w == waiting
           n == Len(w)
           u == Predecessor(t)
<1>1. /\ w \in Seq(Task) /\ IsInjective(w) /\ InQueue = w /\ t \in ToSet(w)
      /\ waiting' = RemoveFirst(w, t) /\ LinkedAs(next, run_queue.head, w)
  BY QueueIsWaiting DEF QueueInv, scheduler_remove_task
<1>2. waiting' \in Seq(Task) /\ IsInjective(waiting')
  BY <1>1, InjectiveRemove
<1>3. PICK k \in 1 .. n : w[k] = t
  BY <1>1 DEF ToSet
<1>4. /\ n \in Nat /\ DOMAIN w = 1 .. n /\ \A i \in DOMAIN w : w[i] \in Task /\ w[i] # NULL
      /\ w # <<>> /\ \A i, j \in DOMAIN w : w[i] = w[j] => i = j
  BY <1>1, <1>3, TaskAssumption DEF IsInjective
<1>5. run_queue.head = w[1]
  <2>1. 1 \in DOMAIN w
    BY <1>3, <1>4
  <2> QED BY <1>1, <2>1 DEF LinkedAs, NodeAt
<1>6. k = 1 => u = NULL
  BY <1>3, <1>5 DEF Predecessor
<1>7. k # 1 => u = w[k - 1]
  <2> SUFFICES ASSUME k # 1 PROVE u = w[k - 1]
    OBVIOUS
  <2>1. k - 1 \in DOMAIN w /\ (k - 1) + 1 = k /\ 1 \in DOMAIN w /\ k \in DOMAIN w
    BY <1>3, <1>4
  <2>2. t # run_queue.head
    BY <1>3, <1>4, <1>5, <2>1
  <2>3. next[w[k - 1]] = t
    BY <1>1, <1>3, <2>1 DEF LinkedAs, NodeAt
  <2>4. ASSUME NEW x \in ToSet(w), next[x] = t PROVE x = w[k - 1]
    <3>1. PICK i \in DOMAIN w : w[i] = x
      BY DEF ToSet
    <3>2. NodeAt(w, i + 1) = t /\ t # NULL
      BY <1>1, <1>3, <1>4, <2>4, <3>1 DEF LinkedAs
    <3>3. i + 1 \in DOMAIN w /\ w[i + 1] = w[k]
      BY <1>3, <3>2 DEF NodeAt
    <3>4. i + 1 = k
      BY <1>4, <2>1, <3>3
    <3>5. i = k - 1
      BY <1>4, <3>4, <3>1
    <3> QED BY <3>1, <3>5
  <2>5. w[k - 1] \in ToSet(w)
    BY <2>1 DEF ToSet
  <2> QED BY <1>1, <2>2, <2>3, <2>4, <2>5 DEF Predecessor
<1> HIDE DEF u
<1>8. /\ next' = [x \in Task |-> IF x = t THEN NULL ELSE IF x = u THEN next[t] ELSE next[x]]
      /\ run_queue' = [head  |-> IF u = NULL THEN next[t] ELSE run_queue.head,
                       tail  |-> IF run_queue.tail = t THEN u ELSE run_queue.tail,
                       count |-> run_queue.count - 1]
  BY DEF scheduler_remove_task, NewTail, u
<1>9. k = 1 => run_queue'.head = next[w[k]]
  BY <1>3, <1>6, <1>8
<1>10. k # 1 => run_queue'.head = run_queue.head /\ next'[w[k - 1]] = next[w[k]]
  <2> SUFFICES ASSUME k # 1
               PROVE  run_queue'.head = run_queue.head /\ next'[w[k - 1]] = next[w[k]]
    OBVIOUS
  <2>1. k - 1 \in DOMAIN w /\ k \in DOMAIN w /\ k - 1 # k
    BY <1>3, <1>4
  <2>2. w[k - 1] # t /\ w[k - 1] \in Task /\ u # NULL
    BY <1>3, <1>4, <1>7, <2>1
  <2> QED BY <1>3, <1>7, <1>8, <2>2
<1>11. \A i \in DOMAIN w : i # k /\ i + 1 # k => next'[w[i]] = next[w[i]]
  <2> SUFFICES ASSUME NEW i \in DOMAIN w, i # k, i + 1 # k PROVE next'[w[i]] = next[w[i]]
    OBVIOUS
  <2>1. k \in DOMAIN w
    BY <1>3, <1>4
  <2>2. w[i] # t /\ w[i] \in Task /\ w[i] # NULL
    BY <1>3, <1>4, <2>1
  <2>3. w[i] # u
    <3>1. CASE k = 1
      BY <1>6, <2>2, <3>1
    <3>2. CASE k # 1
      <4>1. k - 1 \in DOMAIN w /\ i # k - 1
        BY <1>3, <1>4, <3>2
      <4> QED BY <1>4, <1>7, <3>2, <4>1
    <3> QED BY <3>1, <3>2
  <2> QED BY <1>8, <2>2, <2>3
<1>12. LinkedAs(next', run_queue'.head, waiting') /\ CutsOut(w, k, waiting')
  <2>1. k \in DOMAIN w
    BY <1>3, <1>4
  <2>2. LeadsPast(next, run_queue.head, next', run_queue'.head, w, k)
    BY <1>9, <1>10, <1>11 DEF LeadsPast
  <2> QED BY <1>1, <1>3, <2>1, <2>2, LinkedRemoveFirst
<1>13. /\ Len(waiting') = n - 1
       /\ \A i \in 1 .. k - 1 : waiting'[i] = w[i]
       /\ \A i \in k .. n - 1 : waiting'[i] = w[i + 1]
  BY <1>12 DEF CutsOut
<1>14. next' \in [Task -> Task \cup {NULL}]
  <2>1. next[t] \in Task \cup {NULL}
    BY DEF QueueInv
  <2>2. next \in [Task -> Task \cup {NULL}]
    BY DEF QueueInv
  <2> QED BY <1>8, <2>1, <2>2
<1>15. run_queue'.count = Len(waiting')
  BY <1>13, <1>8 DEF QueueInv
<1>16. run_queue'.tail = IF waiting' = <<>> THEN NULL ELSE Last(waiting')
  <2>1. run_queue.tail = w[n] /\ n \in DOMAIN w /\ k \in DOMAIN w
    BY <1>3, <1>4 DEF QueueInv, Last
  <2>2. CASE k = n /\ n = 1
    <3>1. waiting' = <<>>
      BY <1>2, <1>13, <2>2
    <3> QED BY <1>3, <1>6, <1>8, <2>1, <2>2, <3>1
  <2>3. CASE k = n /\ n # 1
    <3>1. waiting' # <<>> /\ Last(waiting') = waiting'[n - 1] /\ n - 1 \in 1 .. k - 1
      BY <1>2, <1>3, <1>4, <1>13, <2>3 DEF Last
    <3> QED BY <1>3, <1>13, <1>7, <1>8, <2>1, <2>3, <3>1
  <2>4. CASE k # n
    <3>0. PICK m \in k .. n - 1 : m = n - 1 /\ m + 1 = n /\ m # 0
      <4>1. n \in Nat /\ k \in 1 .. n
        BY <1>3, <1>4
      <4>2. ASSUME NEW a \in Nat, NEW b \in 1 .. a, b # a
            PROVE  a - 1 \in b .. a - 1 /\ (a - 1) + 1 = a /\ a - 1 # 0
        BY <4>2
      <4> HIDE DEF n
      <4>3. n - 1 \in k .. n - 1 /\ (n - 1) + 1 = n /\ n - 1 # 0
        BY <2>4, <4>1, <4>2
      <4> QED BY <4>3
    <3>1. waiting' # <<>> /\ Last(waiting') = waiting'[m]
      BY <1>2, <1>13, <3>0 DEF Last
    <3>2. w[n] # t
      BY <1>3, <1>4, <2>1, <2>4
    <3>3. waiting'[m] = w[m + 1]
      BY <1>12 DEF CutsOut
    <3> QED BY <1>8, <2>1, <3>0, <3>1, <3>2, <3>3
  <2> QED BY <2>2, <2>3, <2>4
<1>17. run_queue' = [head |-> run_queue'.head, tail |-> run_queue'.tail, count |-> run_queue'.count]
  BY <1>8
<1> QED BY <1>2, <1>12, <1>14, <1>15, <1>16, <1>17 DEF QueueInv

(* Taking the head, whether or not its next field is cleared. *)
LEMMA TakeKeeps ==
  ASSUME QueueInv, TakeHead,
         next' = next \/ next' = [next EXCEPT ![run_queue.head] = NULL]
  PROVE  QueueInv'
<1> DEFINE w == waiting
           n == Len(w)
           h == run_queue.head
<1>1. /\ w \in Seq(Task) /\ IsInjective(w) /\ waiting' = Tail(w) /\ LinkedAs(next, h, w) /\ h # NULL
      /\ run_queue' = [head |-> next[h], tail |-> IF next[h] = NULL THEN NULL ELSE run_queue.tail,
                       count |-> run_queue.count - 1]
      /\ next \in [Task -> Task \cup {NULL}]
  BY DEF QueueInv, TakeHead
<1>2. w # <<>> /\ h = Head(w) /\ h \in Task
  BY <1>1, LinkedHead, TaskAssumption
<1>3. /\ n \in Nat /\ DOMAIN w = 1 .. n /\ n # 0 /\ h = w[1]
      /\ Tail(w) \in Seq(Task) /\ Len(Tail(w)) = n - 1 /\ DOMAIN Tail(w) = 1 .. n - 1
      /\ \A i \in 1 .. n - 1 : Tail(w)[i] = w[i + 1] /\ i + 1 \in DOMAIN w /\ i + 1 # 1
      /\ \A i, j \in DOMAIN w : w[i] = w[j] => i = j
  BY <1>1, <1>2 DEF IsInjective
<1>4. IsInjective(waiting')
  BY <1>1, <1>2, InjectiveTail
<1>5. LinkedAs(next, next[h], Tail(w))
  BY <1>1, <1>2, LinkedTail
<1>6. \A i \in DOMAIN Tail(w) : next'[Tail(w)[i]] = next[Tail(w)[i]]
  <2> SUFFICES ASSUME NEW i \in 1 .. n - 1 PROVE next'[Tail(w)[i]] = next[Tail(w)[i]]
    BY <1>3
  <2>1. 1 \in DOMAIN w
    BY <1>3
  <2>2. Tail(w)[i] # h
    BY <1>3, <2>1
  <2> QED BY <1>1, <1>2, <2>2
<1>7. LinkedAs(next', run_queue'.head, waiting')
  BY <1>1, <1>5, <1>6, LinkedAgree
<1>8. next' \in [Task -> Task \cup {NULL}]
  BY <1>1, <1>2
<1>9. run_queue'.count = Len(waiting')
  BY <1>1, <1>3 DEF QueueInv
<1>10. run_queue'.tail = IF waiting' = <<>> THEN NULL ELSE Last(waiting')
  <2>1. next[h] = NULL <=> waiting' = <<>>
    <3> DEFINE rest == Tail(w)
               second == next[h]
    <3>1. NULL \notin Task /\ rest \in Seq(Task) /\ LinkedAs(next, second, rest)
      BY <1>3, <1>5, TaskAssumption
    <3> HIDE DEF rest, second
    <3>2. second = NULL <=> rest = <<>>
      BY <3>1, LinkedHead
    <3> QED BY <1>1, <3>2 DEF rest, second
  <2>2. CASE waiting' = <<>>
    BY <1>1, <2>1, <2>2
  <2>3. CASE waiting' # <<>>
    <3>1. Last(waiting') = Tail(w)[n - 1] /\ n - 1 \in 1 .. n - 1 /\ (n - 1) + 1 = n
      BY <1>1, <1>3, <2>3 DEF Last
    <3>2. run_queue.tail = w[n]
      BY <1>2 DEF QueueInv, Last
    <3> QED BY <1>1, <1>3, <2>1, <2>3, <3>1, <3>2
  <2> QED BY <2>2, <2>3
<1>11. run_queue' = [head |-> run_queue'.head, tail |-> run_queue'.tail, count |-> run_queue'.count]
  BY <1>1
<1> QED BY <1>1, <1>3, <1>4, <1>7, <1>8, <1>9, <1>10, <1>11 DEF QueueInv

(* The list behind run_queue is, whatever is added, removed and taken in   *)
(* whatever order, the sequence of the tasks waiting: no task is lost by   *)
(* the unlinking in the middle or at either end, none is met twice, and    *)
(* tail and count agree with it (scheduler.c:201-208, 357-430).            *)
THEOREM RunQueueIsSequence == QueueSpec => []ListIsQueue
<1>1. QueueInit => QueueInv
  BY QueueInitial
<1>2. QueueInv /\ [QueueNext]_queueVars => QueueInv'
  <2> SUFFICES ASSUME QueueInv, [QueueNext]_queueVars PROVE QueueInv'
    OBVIOUS
  <2>1. ASSUME NEW t \in Task, scheduler_add_task(t) PROVE QueueInv'
    BY <2>1, AddKeeps
  <2>2. ASSUME NEW t \in Task, scheduler_remove_task(t) PROVE QueueInv'
    BY <2>2, RemoveKeeps
  <2>3. CASE scheduler_schedule
    BY <2>3, TakeKeeps DEF scheduler_schedule
  <2>4. CASE scheduler_start
    BY <2>4, TakeKeeps DEF scheduler_start
  <2>5. CASE UNCHANGED queueVars
    BY <2>5 DEF queueVars, QueueInv, LinkedAs
  <2> QED BY <2>1, <2>2, <2>3, <2>4, <2>5 DEF QueueNext
<1>3. QueueInv => ListIsQueue
  BY QueueIsWaiting DEF QueueInv, ListIsQueue
<1> QED BY <1>1, <1>2, <1>3, PTL DEF QueueSpec

----------------------------------------------------------------------------
(* The heap: blocks in use are disjoint. *)

HeapTypeOK ==
  /\ heap_offset \in 0 .. HeapSize
  /\ free_list \in HeapAddress \cup {NULL}
  /\ next_block \in [HeapAddress -> HeapAddress \cup {NULL}]
  /\ heap_lock \in BOOLEAN
  /\ pc \in {"idle", "walk", "unlink", "push"}
  /\ pc = "walk" => request \in Size
  /\ pc \in {"unlink", "push"} => request \in HeapAddress
  /\ in_use \in [HeapAddress -> Nat]
  /\ raced \in BOOLEAN

(* The addresses of blocks that somebody can still name. *)
Known ==
  {a \in HeapAddress :
     \/ a = free_list
     \/ \E c \in HeapAddress : next_block[c] = a
     \/ pc \in {"unlink", "push"} /\ request = a
     \/ in_use[a] > 0}

(* Every block lies below heap_offset, and no address that somebody can    *)
(* name lies inside a block in use that starts elsewhere.                  *)
BlocksApart ==
  /\ \A a \in Known : a < heap_offset
  /\ \A b \in HeapAddress : in_use[b] > 0 => b + in_use[b] <= heap_offset
  /\ \A a \in Known, b \in HeapAddress : a # b => ~(b < a /\ a < b + in_use[b])

(* A step that hands out nothing names no new address. *)
LEMMA NoNewBlock ==
  ASSUME HeapTypeOK, HeapTypeOK', BlocksApart, Known' \subseteq Known,
         heap_offset' = heap_offset,
         \A a \in HeapAddress : in_use'[a] = in_use[a] \/ in_use'[a] = 0
  PROVE  BlocksApart'
<1>1. \A a \in HeapAddress : a \in Int /\ in_use[a] \in Nat /\ in_use'[a] \in Nat
  BY HeapAssumption DEF HeapTypeOK, HeapAddress
<1>2. ASSUME NEW b \in HeapAddress, in_use'[b] > 0 PROVE b + in_use'[b] <= heap_offset'
  <2>1. in_use'[b] = in_use[b]
    BY <1>1, <1>2
  <2> QED BY <1>2, <2>1 DEF BlocksApart
<1>3. ASSUME NEW a \in Known', NEW b \in HeapAddress, a # b, b < a, a < b + in_use'[b]
      PROVE  FALSE
  <2>1. a \in Known /\ ~(b < a /\ a < b + in_use[b]) /\ a \in HeapAddress
    BY <1>3 DEF BlocksApart, Known
  <2>2. in_use'[b] = 0
    BY <1>3, <2>1
  <2> QED BY <1>1, <1>3, <2>1, <2>2
<1> QED BY <1>2, <1>3 DEF BlocksApart

(* A block of one granule handed out again. *)
LEMMA OldBlock ==
  ASSUME HeapTypeOK, HeapTypeOK', BlocksApart, Known' \subseteq Known,
         heap_offset' = heap_offset,
         NEW x \in Known, in_use' = [in_use EXCEPT ![x] = 1]
  PROVE  BlocksApart'
<1>1. /\ \A a \in HeapAddress : a \in Int /\ in_use[a] \in Nat /\ in_use'[a] \in Nat
      /\ heap_offset \in Int /\ x \in HeapAddress
      /\ in_use'[x] = 1 /\ \A a \in HeapAddress : a # x => in_use'[a] = in_use[a]
  BY HeapAssumption DEF HeapTypeOK, HeapAddress, Known
<1>2. ASSUME NEW b \in HeapAddress, in_use'[b] > 0 PROVE b + in_use'[b] <= heap_offset'
  <2>1. CASE b = x
    <3>1. x < heap_offset
      BY DEF BlocksApart
    <3> QED BY <1>1, <2>1, <3>1
  <2>2. CASE b # x
    BY <1>1, <1>2, <2>2 DEF BlocksApart
  <2> QED BY <2>1, <2>2
<1>3. ASSUME NEW a \in Known', NEW b \in HeapAddress, a # b, b < a, a < b + in_use'[b]
      PROVE  FALSE
  <2>1. a \in Known /\ ~(b < a /\ a < b + in_use[b]) /\ a \in Int /\ b \in Int
    BY <1>1, <1>3 DEF BlocksApart, Known
  <2>2. b = x
    BY <1>1, <1>3, <2>1
  <2>3. in_use'[b] = 1
    BY <1>1, <2>2
  <2> QED BY <1>3, <2>1, <2>3
<1> QED BY <1>2, <1>3 DEF BlocksApart

(* A new block, from the end of the heap. *)
LEMMA NewBlock ==
  ASSUME HeapTypeOK, HeapTypeOK', BlocksApart, NEW size \in Size, Bump(size),
         Known' \subseteq Known \cup (IF HeapFull(size) THEN {} ELSE {heap_offset})
  PROVE  BlocksApart'
<1>1. CASE HeapFull(size)
  BY <1>1, NoNewBlock DEF Bump
<1>2. CASE ~HeapFull(size)
  <2>1. /\ \A a \in HeapAddress : a \in Int /\ in_use[a] \in Nat /\ in_use'[a] \in Nat
        /\ heap_offset \in HeapAddress /\ heap_offset \in Int /\ size \in Int /\ size >= 1
        /\ heap_offset' = heap_offset + size
        /\ in_use'[heap_offset] = size
        /\ \A a \in HeapAddress : a # heap_offset => in_use'[a] = in_use[a]
    BY <1>2, HeapAssumption DEF HeapTypeOK, HeapAddress, Bump, HandOut, HeapFull, Size
  <2>2. ASSUME NEW b \in HeapAddress, in_use'[b] > 0 PROVE b + in_use'[b] <= heap_offset'
    <3>1. CASE b = heap_offset
      BY <2>1, <3>1
    <3>2. CASE b # heap_offset
      <4>1. b + in_use[b] <= heap_offset
        BY <2>1, <2>2, <3>2 DEF BlocksApart
      <4> QED BY <2>1, <3>2, <4>1
    <3> QED BY <3>1, <3>2
  <2>3. ASSUME NEW a \in Known' PROVE a \in HeapAddress /\ a < heap_offset'
                                     /\ (a \in Known \/ a = heap_offset)
    <3>1. CASE a \in Known
      <4>1. a < heap_offset /\ a \in HeapAddress
        BY <3>1 DEF BlocksApart, Known
      <4> QED BY <2>1, <3>1, <4>1
    <3>2. CASE a = heap_offset
      BY <2>1, <3>2
    <3> QED BY <1>2, <2>3, <3>1, <3>2
  <2>4. ASSUME NEW a \in Known', NEW b \in HeapAddress, a # b, b < a, a < b + in_use'[b]
        PROVE  FALSE
    <3>1. CASE b = heap_offset
      <4>1. a \in Known
        BY <2>3, <2>4, <3>1
      <4>2. a < heap_offset /\ a \in Int
        BY <2>1, <2>3, <4>1 DEF BlocksApart
      <4> QED BY <2>1, <2>4, <3>1, <4>2
    <3>2. CASE b # heap_offset /\ a = heap_offset
      <4>1. in_use'[b] = in_use[b] /\ b \in Int /\ in_use[b] \in Nat
        BY <2>1, <3>2
      <4>2. in_use[b] > 0
        BY <2>1, <2>4, <3>2, <4>1
      <4>3. b + in_use[b] <= heap_offset
        BY <4>2 DEF BlocksApart
      <4> QED BY <2>1, <2>4, <3>2, <4>1, <4>3
    <3>3. CASE b # heap_offset /\ a # heap_offset
      <4>1. a \in Known /\ in_use'[b] = in_use[b]
        BY <2>1, <2>3, <2>4, <3>3
      <4> QED BY <2>4, <4>1 DEF BlocksApart
    <3> QED BY <3>1, <3>2, <3>3
  <2> QED BY <2>2, <2>3, <2>4 DEF BlocksApart
<1> QED BY <1>1, <1>2

HeapInv ==
  /\ HeapTypeOK
  /\ pc \in {"walk", "unlink"} => heap_lock
  /\ BlocksApart

LEMMA HeapInitial == HeapInit => HeapInv
<1> SUFFICES ASSUME HeapInit PROVE HeapInv
  OBVIOUS
<1>1. HeapTypeOK
  <2>1. 0 \in 0 .. HeapSize
    BY HeapAssumption
  <2> QED BY <2>1 DEF HeapInit, HeapTypeOK
<1>2. Known = {}
  BY HeapAssumption DEF HeapInit, Known, HeapAddress
<1>3. \A b \in HeapAddress : ~(in_use[b] > 0)
  BY DEF HeapInit
<1>4. BlocksApart
  BY <1>2, <1>3 DEF BlocksApart
<1> QED BY <1>1, <1>4 DEF HeapInv, HeapInit

(* The two ways kmalloc gets a block. *)
LEMMA TakeBlockApart ==
  ASSUME HeapInv, HeapTypeOK', NEW size \in Size, TakeBlock(size), UNCHANGED <<pc, request>>
  PROVE  BlocksApart'
<1>1. CASE Fits(size) /\ free_list' = next_block[free_list] /\ HandOut(free_list, size)
           /\ UNCHANGED <<heap_offset, next_block>>
  <2>1. free_list \in HeapAddress
    BY <1>1 DEF Fits, HeapInv, HeapTypeOK
  <2>2. size = 1
    BY <1>1 DEF Fits, FreeSize, Size
  <2>3. free_list \in Known
    BY <2>1 DEF Known
  <2>4. in_use' = [in_use EXCEPT ![free_list] = 1]
    BY <1>1, <2>2 DEF HandOut
  <2>5. Known' \subseteq Known
    <3> SUFFICES ASSUME NEW a \in HeapAddress, a \in Known' PROVE a \in Known
      BY DEF Known
    <3>1. CASE in_use'[a] > 0
      <4>1. CASE a = free_list
        BY <2>3, <4>1
      <4>2. CASE a # free_list
        BY <2>4, <3>1, <4>2 DEF Known, HeapInv, HeapTypeOK
      <4> QED BY <4>1, <4>2
    <3>2. CASE ~(in_use'[a] > 0)
      BY <1>1, <2>1, <3>2 DEF Known
    <3> QED BY <3>1, <3>2
  <2> QED BY <1>1, <2>3, <2>4, <2>5, OldBlock DEF HeapInv
<1>2. CASE ~Fits(size) /\ Bump(size) /\ UNCHANGED list
  <2>1. Known' \subseteq Known \cup (IF HeapFull(size) THEN {} ELSE {heap_offset})
    <3> SUFFICES ASSUME NEW a \in HeapAddress, a \in Known', a \notin Known
                 PROVE  ~HeapFull(size) /\ a = heap_offset
      BY DEF Known
    <3>1. in_use'[a] > 0 /\ ~(in_use[a] > 0)
      BY <1>2 DEF Known, list
    <3> QED BY <1>2, <3>1 DEF Bump, HandOut, HeapInv, HeapTypeOK
  <2> QED BY <1>2, <2>1, NewBlock DEF HeapInv
<1> QED BY <1>1, <1>2 DEF TakeBlock

LEMMA TaskApart ==
  ASSUME HeapInv, TaskCalls
  PROVE  HeapInv'
<1> USE DEF HeapInv
<1>1. ASSUME NEW size \in Size, LockForMalloc(size) PROVE HeapInv'
  <2>1. HeapTypeOK'
    BY <1>1 DEF HeapTypeOK, LockForMalloc, list
  <2>2. Known' \subseteq Known
    BY <1>1 DEF Known, LockForMalloc, list
  <2>3. BlocksApart'
    BY <1>1, <2>1, <2>2, NoNewBlock DEF LockForMalloc, list
  <2> QED BY <1>1, <2>1, <2>3 DEF LockForMalloc
<1>2. ASSUME Walk, Fits(request) PROVE HeapInv'
  <2>1. free_list \in HeapAddress
    BY <1>2 DEF HeapTypeOK, Fits
  <2>2. HeapTypeOK'
    BY <1>2, <2>1 DEF HeapTypeOK, Walk, list
  <2>3. Known' \subseteq Known
    BY <1>2, <2>1 DEF Known, Walk, list
  <2>4. BlocksApart'
    BY <1>2, <2>2, <2>3, NoNewBlock DEF Walk, list
  <2> QED BY <1>2, <2>2, <2>4 DEF Walk
<1>3. ASSUME Walk, ~Fits(request) PROVE HeapInv'
  <2>1. request \in Size /\ Bump(request) /\ pc' = "idle" /\ UNCHANGED <<list, raced>> /\ heap_lock' = FALSE
    BY <1>3 DEF HeapTypeOK, Walk
  <2>2. heap_offset' \in 0 .. HeapSize
    BY <2>1, HeapAssumption DEF HeapTypeOK, Bump, HeapFull, Size
  <2>3. in_use' \in [HeapAddress -> Nat]
    BY <2>1 DEF HeapTypeOK, Bump, HandOut, Size
  <2>4. HeapTypeOK'
    BY <2>1, <2>2, <2>3 DEF HeapTypeOK, list
  <2>5. Known' \subseteq Known \cup (IF HeapFull(request) THEN {} ELSE {heap_offset})
    <3> SUFFICES ASSUME NEW a \in HeapAddress, a \in Known', a \notin Known
                 PROVE  ~HeapFull(request) /\ a = heap_offset
      BY DEF Known
    <3>1. in_use'[a] > 0 /\ ~(in_use[a] > 0)
      BY <2>1 DEF Known, list
    <3> QED BY <2>1, <3>1 DEF Bump, HandOut, HeapTypeOK
  <2>6. BlocksApart'
    BY <2>1, <2>4, <2>5, NewBlock
  <2> QED BY <2>1, <2>4, <2>6
<1>4. ASSUME UnlinkFound PROVE HeapInv'
  <2>1. request \in HeapAddress /\ in_use' = [in_use EXCEPT ![request] = 1] /\ request \in Known
    BY <1>4 DEF HeapTypeOK, UnlinkFound, HandOut, Known
  <2>2. HeapTypeOK'
    BY <1>4, <2>1 DEF HeapTypeOK, UnlinkFound
  <2>3. Known' \subseteq Known
    <3> SUFFICES ASSUME NEW a \in HeapAddress, a \in Known' PROVE a \in Known
      BY DEF Known
    <3>1. CASE in_use'[a] > 0
      BY <2>1, <3>1 DEF Known, HeapTypeOK
    <3>2. CASE ~(in_use'[a] > 0)
      BY <1>4, <2>1, <3>2 DEF Known, UnlinkFound
    <3> QED BY <3>1, <3>2
  <2>4. BlocksApart'
    BY <1>4, <2>1, <2>2, <2>3, OldBlock DEF UnlinkFound
  <2> QED BY <1>4, <2>2, <2>4 DEF UnlinkFound
<1>5. ASSUME FreeEnd PROVE HeapInv'
  <2>1. HeapTypeOK'
    BY <1>5 DEF HeapTypeOK, FreeEnd
  <2>2. Known' \subseteq Known
    BY <1>5 DEF Known, FreeEnd
  <2>3. BlocksApart'
    BY <1>5, <2>1, <2>2, NoNewBlock DEF FreeEnd
  <2> QED BY <1>5, <2>1, <2>3 DEF FreeEnd
<1>6. ASSUME NEW a \in HeapAddress, FreeBegin(a) PROVE HeapInv'
  <2>1. HeapTypeOK'
    BY <1>6 DEF HeapTypeOK, FreeBegin
  <2>2. \A b \in HeapAddress : in_use'[b] = in_use[b] \/ in_use'[b] = 0
    BY <1>6 DEF HeapTypeOK, FreeBegin
  <2>3. Known' \subseteq Known
    <3> SUFFICES ASSUME NEW b \in HeapAddress, b \in Known', b \notin Known PROVE FALSE
      BY DEF Known
    <3>1. a \in Known
      BY <1>6 DEF Known, FreeBegin
    <3>2. b # a /\ ~(in_use'[b] > 0) /\ b # free_list'
      BY <1>6, <2>2, <3>1 DEF Known, FreeBegin
    <3>3. PICK c \in HeapAddress : next_block'[c] = b
      BY <1>6, <3>2 DEF Known, FreeBegin
    <3> QED BY <1>6, <3>3 DEF Known, FreeBegin, HeapTypeOK
  <2>4. BlocksApart'
    BY <1>6, <2>1, <2>2, <2>3, NoNewBlock DEF FreeBegin
  <2> QED BY <1>6, <2>1, <2>4 DEF FreeBegin
<1> QED BY <1>1, <1>2, <1>3, <1>4, <1>5, <1>6 DEF TaskCalls

LEMMA InterruptApart ==
  ASSUME HeapInv, InterruptCalls
  PROVE  HeapInv'
<1> USE DEF HeapInv
<1>1. ASSUME NEW size \in Size, InterruptMalloc(size), heap_lock PROVE HeapInv'
  <2>1. HeapTypeOK'
    BY <1>1 DEF HeapTypeOK, InterruptMalloc, list
  <2>2. Known' \subseteq Known
    BY <1>1 DEF Known, InterruptMalloc, list
  <2>3. BlocksApart'
    BY <1>1, <2>1, <2>2, NoNewBlock DEF InterruptMalloc, list
  <2> QED BY <1>1, <2>1, <2>3 DEF InterruptMalloc
<1>2. ASSUME NEW size \in Size, InterruptMalloc(size), ~heap_lock PROVE HeapInv'
  <2>1. TakeBlock(size) /\ UNCHANGED <<heap_lock, pc, request>> /\ raced' \in BOOLEAN
    BY <1>2 DEF InterruptMalloc, HeapTypeOK
  <2>2. heap_offset' \in 0 .. HeapSize
    BY <2>1, HeapAssumption DEF HeapTypeOK, TakeBlock, Bump, HeapFull, Size
  <2>3. in_use' \in [HeapAddress -> Nat]
    BY <2>1 DEF HeapTypeOK, TakeBlock, Bump, HandOut, Size
  <2>4. free_list' \in HeapAddress \cup {NULL} /\ next_block' = next_block
    BY <2>1 DEF HeapTypeOK, TakeBlock, Fits, list
  <2>5. HeapTypeOK'
    BY <2>1, <2>2, <2>3, <2>4 DEF HeapTypeOK
  <2> QED BY <2>1, <2>5, TakeBlockApart
<1>3. ASSUME NEW a \in HeapAddress, InterruptFree(a) PROVE HeapInv'
  <2>1. HeapTypeOK'
    BY <1>3 DEF HeapTypeOK, InterruptFree
  <2>2. \A b \in HeapAddress : in_use'[b] = in_use[b] \/ in_use'[b] = 0
    BY <1>3 DEF HeapTypeOK, InterruptFree
  <2>3. Known' \subseteq Known
    <3> SUFFICES ASSUME NEW b \in HeapAddress, b \in Known', b \notin Known PROVE FALSE
      BY DEF Known
    <3>1. a \in Known
      BY <1>3 DEF Known, InterruptFree
    <3>2. b # a /\ ~(in_use'[b] > 0) /\ b # free_list'
      BY <1>3, <2>2, <3>1 DEF Known, InterruptFree
    <3>3. PICK c \in HeapAddress : next_block'[c] = b
      BY <1>3, <3>2 DEF Known, InterruptFree
    <3> QED BY <1>3, <3>3 DEF Known, InterruptFree, HeapTypeOK
  <2>4. BlocksApart'
    BY <1>3, <2>1, <2>2, <2>3, NoNewBlock DEF InterruptFree
  <2> QED BY <1>3, <2>1, <2>4 DEF InterruptFree
<1> QED BY <1>1, <1>2, <1>3 DEF InterruptCalls

LEMMA HeapInvHolds == HeapSpec => []HeapInv
<1>1. HeapInv /\ [HeapNext]_heapVars => HeapInv'
  <2> SUFFICES ASSUME HeapInv, [HeapNext]_heapVars PROVE HeapInv'
    OBVIOUS
  <2>1. CASE HeapNext
    BY <2>1, TaskApart, InterruptApart DEF HeapNext
  <2>2. CASE UNCHANGED heapVars
    BY <2>2 DEF heapVars, list, HeapInv, HeapTypeOK, BlocksApart, Known
  <2> QED BY <2>1, <2>2
<1> QED BY <1>1, HeapInitial, PTL DEF HeapSpec

(* Two blocks in use never share a granule, for a heap and requests of any *)
(* size, whatever the keyboard interrupt allocates and frees between two   *)
(* steps of the task, and also when it has raced with a kfree of the task  *)
(* and a block in use is on the list: kmalloc then may hand out the same   *)
(* block twice, never a part of another (memory.c:225-285).                *)
THEOREM BlocksInUseDisjoint == HeapSpec => []BlocksDisjoint
<1>1. HeapInv => BlocksDisjoint
  <2> SUFFICES ASSUME HeapInv, NEW a \in HeapAddress, NEW b \in HeapAddress, a # b,
                      NEW x \in Granules(a), x \in Granules(b)
               PROVE  FALSE
    BY DEF BlocksDisjoint
  <2>1. /\ a \in Int /\ b \in Int /\ in_use[a] \in Nat /\ in_use[b] \in Nat
        /\ a <= x /\ x < a + in_use[a] /\ b <= x /\ x < b + in_use[b] /\ x \in Int
    BY HeapAssumption DEF HeapInv, HeapTypeOK, HeapAddress, Granules
  <2>2. in_use[a] > 0 /\ in_use[b] > 0
    BY <2>1
  <2>3. a \in Known /\ b \in Known
    BY <2>2 DEF Known
  <2>4. ~(b < a /\ a < b + in_use[b]) /\ ~(a < b /\ b < a + in_use[a])
    BY <2>3 DEF HeapInv, BlocksApart
  <2> QED BY <2>1, <2>4
<1> QED BY <1>1, HeapInvHolds, PTL

----------------------------------------------------------------------------
(* The heap: the list leads to free blocks.                                *)

(* The links lead from p to NULL through nodes of F, each met once. *)
LeadsThrough(link, p, F) ==
  \E s \in Seq(F) : IsInjective(s) /\ LinkedAs(link, p, s)

LEMMA ThroughMore ==
  ASSUME NEW F, NEW G, F \subseteq G, NEW link, NEW new, NEW p,
         LeadsThrough(link, p, F), \A x \in F : new[x] = link[x]
  PROVE  LeadsThrough(new, p, G)
<1>1. PICK s \in Seq(F) : IsInjective(s) /\ LinkedAs(link, p, s)
  BY DEF LeadsThrough
<1>2. s \in Seq(G) /\ \A i \in DOMAIN s : s[i] \in F
  <2>1. \A i \in DOMAIN s : s[i] \in F
    BY <1>1
  <2>2. s \in [1 .. Len(s) -> G] /\ Len(s) \in Nat
    BY <1>1, <2>1
  <2> QED BY <2>1, <2>2
<1>3. LinkedAs(new, p, s)
  BY <1>1, <1>2, LinkedAgree
<1> QED BY <1>1, <1>2, <1>3 DEF LeadsThrough

LEMMA ThroughPop ==
  ASSUME NEW F, NULL \notin F, NEW link, NEW p, p # NULL, LeadsThrough(link, p, F)
  PROVE  p \in F /\ LeadsThrough(link, link[p], F \ {p})
<1>1. PICK s \in Seq(F) : IsInjective(s) /\ LinkedAs(link, p, s)
  BY DEF LeadsThrough
<1>2. s # <<>> /\ p = Head(s) /\ p \in F
  BY <1>1, LinkedHead
<1>3. LinkedAs(link, link[p], Tail(s))
  BY <1>1, <1>2, LinkedTail
<1>4. Tail(s) \in Seq(F) /\ IsInjective(Tail(s)) /\ ToSet(Tail(s)) = ToSet(s) \ {p}
  BY <1>1, <1>2, InjectiveTail
<1>5. Tail(s) \in Seq(F \ {p})
  <2> DEFINE r == Tail(s)
  <2>1. r \in Seq(F) /\ \A i \in DOMAIN r : r[i] # p
    BY <1>4 DEF ToSet
  <2> HIDE DEF r
  <2>2. r \in [1 .. Len(r) -> F \ {p}] /\ Len(r) \in Nat
    BY <2>1
  <2>3. r \in Seq(F \ {p})
    BY <2>2
  <2> QED BY <2>3 DEF r
<1> QED BY <1>2, <1>3, <1>4, <1>5 DEF LeadsThrough

LEMMA ThroughPush ==
  ASSUME NEW F, NEW G, F \subseteq G, NEW x \in G, x \notin F, NEW link, NEW p,
         LeadsThrough(link, p, F), link[x] = p
  PROVE  LeadsThrough(link, x, G)
<1>1. PICK s \in Seq(F) : IsInjective(s) /\ LinkedAs(link, p, s)
  BY DEF LeadsThrough
<1>2. Len(s) \in Nat /\ \A i \in DOMAIN s : s[i] \in F /\ s[i] \in G
  BY <1>1
<1>3. s \in Seq(G) /\ x \notin ToSet(s)
  <2>1. s \in [1 .. Len(s) -> G]
    BY <1>1, <1>2
  <2> QED BY <1>2, <2>1 DEF ToSet
<1>4. LinkedAs(link, x, <<x>> \o s)
  BY <1>1, <1>3, LinkedPush
<1>5. <<x>> \o s \in Seq(G) /\ IsInjective(<<x>> \o s)
  BY <1>1, <1>3, InjectivePrepend
<1> QED BY <1>4, <1>5 DEF LeadsThrough

(* The free blocks, but for one that is being freed. *)
Spare ==
  {a \in HeapAddress : a < heap_offset /\ in_use[a] = 0 /\ ~(pc = "push" /\ request = a)}

(* Also a block found and not yet unlinked is free, and both it and the    *)
(* next of a block being freed lead on through free blocks.                *)
FreeInv ==
  ~raced =>
    /\ LeadsThrough(next_block, free_list, Spare)
    /\ pc = "unlink" => LeadsThrough(next_block, request, Spare)
    /\ pc = "push" =>
         in_use[request] = 0 /\ LeadsThrough(next_block, next_block[request], Spare)

LEMMA FreeInitial == HeapInit => FreeInv
<1> SUFFICES ASSUME HeapInit PROVE FreeInv
  OBVIOUS
<1>1. <<>> \in Seq(Spare) /\ IsInjective(<<>>)
  BY DEF IsInjective
<1>2. LinkedAs(next_block, free_list, <<>>)
  BY DEF LinkedAs, NodeAt, HeapInit
<1>3. LeadsThrough(next_block, free_list, Spare)
  BY <1>1, <1>2 DEF LeadsThrough
<1> QED BY <1>3 DEF FreeInv, HeapInit

(* Allocating from the end of the heap disturbs no free block. *)
LEMMA SpareAfterBump ==
  ASSUME HeapInv, NEW size \in Size, Bump(size),
         pc' = "push" => pc = "push" /\ request' = request
  PROVE  Spare \subseteq Spare' /\ \A a \in Spare : in_use'[a] = in_use[a]
<1>1. /\ heap_offset \in Int /\ heap_offset' \in Int /\ heap_offset <= heap_offset'
      /\ \A a \in HeapAddress : a \in Int /\ (a < heap_offset => in_use'[a] = in_use[a])
  <2>1. size \in Int /\ size >= 1 /\ heap_offset \in Int /\ \A a \in HeapAddress : a \in Int
    BY HeapAssumption DEF Size, HeapInv, HeapTypeOK, HeapAddress
  <2>2. CASE HeapFull(size)
    BY <2>1, <2>2 DEF Bump
  <2>3. CASE ~HeapFull(size)
    <3>1. heap_offset' = heap_offset + size /\ in_use' = [in_use EXCEPT ![heap_offset] = size]
      BY <2>3 DEF Bump, HandOut
    <3>2. \A a \in HeapAddress : a < heap_offset => a # heap_offset
      BY <2>1
    <3>3. \A a \in HeapAddress : a < heap_offset => in_use'[a] = in_use[a]
      BY <3>1, <3>2 DEF HeapInv, HeapTypeOK
    <3> QED BY <2>1, <3>1, <3>3
  <2> QED BY <2>2, <2>3
<1>2. ASSUME NEW a \in Spare PROVE a \in Spare' /\ in_use'[a] = in_use[a]
  <2>1. a \in HeapAddress /\ a < heap_offset /\ in_use[a] = 0 /\ ~(pc = "push" /\ request = a)
    BY DEF Spare
  <2>2. a < heap_offset'
    BY <1>1, <2>1
  <2> QED BY <1>1, <2>1, <2>2 DEF Spare
<1> QED BY <1>2

(* The block that a kfree, which writes its next first, gives to the list. *)
LEMMA PushFreed ==
  ASSUME HeapInv, NEW a \in HeapAddress, in_use[a] > 0,
         in_use' = [in_use EXCEPT ![a] = 0],
         next_block' = [next_block EXCEPT ![a] = free_list],
         heap_offset' = heap_offset,
         \A b \in HeapAddress : pc' = "push" /\ request' = b => b = a \/ (pc = "push" /\ request = b)
  PROVE  /\ a \notin Spare /\ a < heap_offset /\ Spare \subseteq Spare'
         /\ in_use'[a] = 0 /\ next_block'[a] = free_list
         /\ \A b \in HeapAddress : b # a => next_block'[b] = next_block[b] /\ in_use'[b] = in_use[b]
<1>1. a \notin Spare /\ a \in Known
  BY DEF Spare, Known, HeapInv, HeapTypeOK
<1>2. a < heap_offset
  BY <1>1 DEF HeapInv, BlocksApart
<1>3. /\ in_use'[a] = 0 /\ next_block'[a] = free_list
      /\ \A b \in HeapAddress : b # a => next_block'[b] = next_block[b] /\ in_use'[b] = in_use[b]
  BY DEF HeapInv, HeapTypeOK
<1>4. Spare \subseteq Spare'
  BY <1>1, <1>3 DEF Spare
<1> QED BY <1>1, <1>2, <1>3, <1>4

LEMMA SpareIsNode == NULL \notin Spare
BY HeapAssumption DEF Spare, HeapAddress

(* What the list loses with its first block. *)
LEMMA PopFree ==
  ASSUME HeapInv, NEW p, p # NULL, LeadsThrough(next_block, p, Spare),
         next_block' = next_block, heap_offset' = heap_offset,
         in_use' = [in_use EXCEPT ![p] = 1], pc' # "push"
  PROVE  LeadsThrough(next_block, next_block[p], Spare')
<1>1. p \in Spare /\ LeadsThrough(next_block, next_block[p], Spare \ {p})
  BY SpareIsNode, ThroughPop
<1>2. Spare \ {p} \subseteq Spare'
  BY <1>1 DEF Spare, HeapInv, HeapTypeOK
<1> DEFINE second == next_block[p]
           rest == Spare \ {p}
           all == Spare'
<1>3. LeadsThrough(next_block, second, rest) /\ rest \subseteq all
  BY <1>1, <1>2
<1> HIDE DEF second, rest, all
<1>4. LeadsThrough(next_block, second, all)
  BY <1>3, ThroughMore
<1> QED BY <1>4 DEF second, all

LEMMA TaskKeepsFree ==
  ASSUME HeapInv, FreeInv, TaskCalls, ~raced'
  PROVE  FreeInv'
<1>1. ~raced
  BY DEF TaskCalls, LockForMalloc, Walk, UnlinkFound, FreeEnd, FreeBegin
<1>2. /\ LeadsThrough(next_block, free_list, Spare)
      /\ pc = "unlink" => LeadsThrough(next_block, request, Spare)
      /\ pc = "push" =>
           in_use[request] = 0 /\ LeadsThrough(next_block, next_block[request], Spare)
  BY <1>1 DEF FreeInv
<1>3. ASSUME NEW size \in Size, LockForMalloc(size) PROVE FreeInv'
  <2>1. Spare' = Spare
    BY <1>3 DEF Spare, LockForMalloc, list
  <2> QED BY <1>2, <1>3, <2>1 DEF FreeInv, LockForMalloc, list
<1>4. ASSUME Walk, Fits(request) PROVE FreeInv'
  <2>1. Spare' = Spare
    BY <1>4 DEF Spare, Walk, list
  <2> QED BY <1>2, <1>4, <2>1 DEF FreeInv, Walk, list
<1>5. ASSUME Walk, ~Fits(request) PROVE FreeInv'
  <2>1. request \in Size /\ Bump(request) /\ pc' = "idle" /\ free_list' = free_list /\ next_block' = next_block
    BY <1>5 DEF HeapInv, HeapTypeOK, Walk, list
  <2>2. Spare \subseteq Spare'
    BY <2>1, SpareAfterBump
  <2>3. LeadsThrough(next_block', free_list', Spare')
    BY <1>2, <2>1, <2>2, ThroughMore
  <2> QED BY <2>1, <2>3 DEF FreeInv
<1>6. ASSUME UnlinkFound PROVE FreeInv'
  <2>1. /\ LeadsThrough(next_block, request, Spare) /\ request \in HeapAddress
        /\ next_block' = next_block /\ heap_offset' = heap_offset
        /\ in_use' = [in_use EXCEPT ![request] = 1] /\ pc' = "idle" /\ free_list' = next_block[request]
    BY <1>2, <1>6 DEF UnlinkFound, HandOut, HeapInv, HeapTypeOK
  <2>2. request # NULL /\ pc' # "push"
    BY <2>1, HeapAssumption DEF HeapAddress
  <2>3. LeadsThrough(next_block, next_block[request], Spare')
    BY <2>1, <2>2, PopFree
  <2> QED BY <2>1, <2>3 DEF FreeInv
<1>7. ASSUME FreeEnd PROVE FreeInv'
  <2>1. /\ pc = "push" /\ pc' = "idle" /\ free_list' = request /\ request \in HeapAddress
        /\ UNCHANGED <<heap_offset, next_block, in_use>>
        /\ in_use[request] = 0 /\ LeadsThrough(next_block, next_block[request], Spare)
    BY <1>2, <1>7 DEF FreeEnd, HeapInv, HeapTypeOK
  <2>2. request < heap_offset
    <3>1. request \in Known
      BY <2>1 DEF Known
    <3> QED BY <3>1 DEF HeapInv, BlocksApart
  <2>3. request \notin Spare /\ request \in Spare' /\ Spare \subseteq Spare'
    BY <2>1, <2>2 DEF Spare
  <2> DEFINE second == next_block[request]
             all == Spare'
  <2>4. LeadsThrough(next_block, second, Spare) /\ second = next_block[request]
        /\ request \in all /\ Spare \subseteq all
    BY <2>1, <2>3
  <2> HIDE DEF second, all
  <2>5. LeadsThrough(next_block, request, all)
    BY <2>3, <2>4, ThroughPush
  <2> QED BY <2>1, <2>5 DEF FreeInv, all
<1>8. ASSUME NEW a \in HeapAddress, FreeBegin(a) PROVE FreeInv'
  <2>1. /\ in_use[a] > 0 /\ in_use' = [in_use EXCEPT ![a] = 0]
        /\ next_block' = [next_block EXCEPT ![a] = free_list]
        /\ heap_offset' = heap_offset /\ free_list' = free_list
        /\ pc' = "push" /\ request' = a
    BY <1>8 DEF FreeBegin
  <2>2. /\ a \notin Spare /\ Spare \subseteq Spare' /\ in_use'[a] = 0 /\ next_block'[a] = free_list
        /\ \A b \in HeapAddress : b # a => next_block'[b] = next_block[b]
    BY <2>1, PushFreed
  <2>3. \A x \in Spare : next_block'[x] = next_block[x]
    BY <2>2 DEF Spare
  <2>4. LeadsThrough(next_block', free_list, Spare')
    BY <1>2, <2>2, <2>3, ThroughMore
  <2> QED BY <2>1, <2>2, <2>4 DEF FreeInv
<1> QED BY <1>3, <1>4, <1>5, <1>6, <1>7, <1>8 DEF TaskCalls

LEMMA InterruptKeepsFree ==
  ASSUME HeapInv, FreeInv, InterruptCalls, ~raced'
  PROVE  FreeInv'
<1>1. ~raced
  BY DEF InterruptCalls, InterruptMalloc, InterruptFree
<1>2. /\ LeadsThrough(next_block, free_list, Spare)
      /\ pc = "unlink" => LeadsThrough(next_block, request, Spare)
      /\ pc = "push" =>
           in_use[request] = 0 /\ LeadsThrough(next_block, next_block[request], Spare)
  BY <1>1 DEF FreeInv
<1>3. ASSUME NEW size \in Size, InterruptMalloc(size), heap_lock PROVE FreeInv'
  <2>1. Spare' = Spare
    BY <1>3 DEF Spare, InterruptMalloc, list
  <2> QED BY <1>2, <1>3, <2>1 DEF FreeInv, InterruptMalloc, list
<1>4. ASSUME NEW size \in Size, InterruptMalloc(size), ~heap_lock PROVE FreeInv'
  <2>1. /\ TakeBlock(size) /\ pc' = pc /\ request' = request /\ pc # "unlink"
        /\ ~(pc = "push" /\ Fits(size))
    BY <1>4 DEF InterruptMalloc, HeapInv
  <2>2. CASE Fits(size)
    <3>1. /\ free_list # NULL /\ size = 1 /\ pc # "push"
          /\ next_block' = next_block /\ heap_offset' = heap_offset
          /\ free_list' = next_block[free_list] /\ in_use' = [in_use EXCEPT ![free_list] = 1]
      BY <2>1, <2>2 DEF TakeBlock, HandOut, Fits, FreeSize, Size
    <3>2. LeadsThrough(next_block, next_block[free_list], Spare')
      BY <1>2, <2>1, <3>1, PopFree
    <3> QED BY <2>1, <3>1, <3>2 DEF FreeInv
  <2>3. CASE ~Fits(size)
    <3>1. Bump(size) /\ free_list' = free_list /\ next_block' = next_block
      BY <2>1, <2>3 DEF TakeBlock, list
    <3>2. Spare \subseteq Spare'
      BY <2>1, <3>1, SpareAfterBump
    <3>3. LeadsThrough(next_block', free_list', Spare')
      BY <1>2, <3>1, <3>2, ThroughMore
    <3>4. ASSUME pc = "push"
          PROVE  in_use'[request] = 0 /\ LeadsThrough(next_block', next_block[request], Spare')
      <4>1. LeadsThrough(next_block', next_block[request], Spare')
        <5> DEFINE second == next_block[request]
                   all == Spare'
        <5>1. LeadsThrough(next_block, second, Spare) /\ Spare \subseteq all
          BY <1>2, <3>2, <3>4
        <5> HIDE DEF second, all
        <5>2. LeadsThrough(next_block, second, all)
          BY <5>1, ThroughMore
        <5> QED BY <3>1, <5>2 DEF second, all
      <4>2. request \in Known /\ request \in HeapAddress
        BY <3>4 DEF Known, HeapInv, HeapTypeOK
      <4>3. request < heap_offset /\ heap_offset \in Int
        BY <4>2 DEF HeapInv, BlocksApart, HeapTypeOK
      <4>4. request # heap_offset
        BY <4>2, <4>3, HeapAssumption DEF HeapAddress
      <4>5. in_use'[request] = in_use[request]
        BY <3>1, <4>2, <4>4 DEF Bump, HandOut, HeapInv, HeapTypeOK
      <4> QED BY <1>2, <3>4, <4>1, <4>5
    <3> QED BY <2>1, <3>1, <3>3, <3>4 DEF FreeInv
  <2> QED BY <2>2, <2>3
<1>5. ASSUME NEW a \in HeapAddress, InterruptFree(a) PROVE FreeInv'
  <2>1. /\ in_use[a] > 0 /\ in_use' = [in_use EXCEPT ![a] = 0]
        /\ next_block' = [next_block EXCEPT ![a] = free_list]
        /\ heap_offset' = heap_offset /\ free_list' = a /\ pc' = pc /\ request' = request
    BY <1>5 DEF InterruptFree
  <2>2. /\ a \notin Spare /\ a < heap_offset /\ Spare \subseteq Spare'
        /\ in_use'[a] = 0 /\ next_block'[a] = free_list
        /\ \A b \in HeapAddress : b # a => next_block'[b] = next_block[b] /\ in_use'[b] = in_use[b]
    BY <2>1, PushFreed
  <2>3. \A x \in Spare : next_block'[x] = next_block[x]
    BY <2>2 DEF Spare
  <2>4. pc = "push" => request # a /\ request \in HeapAddress
    BY <1>2, <2>1 DEF HeapInv, HeapTypeOK
  <2>5. a \in Spare'
    BY <2>1, <2>2, <2>4 DEF Spare
  <2>6. LeadsThrough(next_block', a, Spare')
    <3> DEFINE all == Spare'
               link == next_block'
    <3>1. LeadsThrough(link, free_list, Spare)
      BY <1>2, <2>3, ThroughMore
    <3>2. Spare \subseteq all /\ a \in all /\ link[a] = free_list
      BY <2>2, <2>5
    <3> HIDE DEF all, link
    <3>3. LeadsThrough(link, a, all)
      BY <2>2, <3>1, <3>2, ThroughPush
    <3> QED BY <3>3 DEF all, link
  <2>7. pc = "unlink" => LeadsThrough(next_block', request, Spare')
    BY <1>2, <2>2, <2>3, ThroughMore
  <2>8. ASSUME pc = "push" PROVE in_use'[request] = 0 /\ LeadsThrough(next_block', next_block'[request], Spare')
    <3>1. in_use'[request] = 0 /\ next_block'[request] = next_block[request]
      BY <1>2, <2>2, <2>4, <2>8
    <3> DEFINE all == Spare'
               link == next_block'
               second == next_block[request]
    <3>2. LeadsThrough(next_block, second, Spare) /\ Spare \subseteq all /\ \A x \in Spare : link[x] = next_block[x]
      BY <1>2, <2>2, <2>3, <2>8
    <3> HIDE DEF all, link, second
    <3>3. LeadsThrough(link, second, all)
      BY <3>2, ThroughMore
    <3> QED BY <3>1, <3>3 DEF all, link, second
  <2> QED BY <2>1, <2>6, <2>7, <2>8 DEF FreeInv
<1> QED BY <1>3, <1>4, <1>5 DEF InterruptCalls

(* The free list leads to free blocks only, and kmalloc never hands out a  *)
(* block in use, as long as no interrupt takes a block from the list       *)
(* between the two writes of a kfree of the task; an interrupt that frees  *)
(* blocks there, or between a kmalloc's walk and its unlinking, does no    *)
(* such harm: the blocks it freed are lost to the list                     *)
(* (memory.c:225-285).                                                     *)
THEOREM FreeListLeadsToFree == HeapSpec => []FreeListIsFree
<1>1. HeapInv /\ FreeInv /\ [HeapNext]_heapVars => FreeInv'
  <2> SUFFICES ASSUME HeapInv, FreeInv, [HeapNext]_heapVars, ~raced' PROVE FreeInv'
    BY DEF FreeInv
  <2>1. CASE HeapNext
    BY <2>1, TaskKeepsFree, InterruptKeepsFree DEF HeapNext
  <2>2. CASE UNCHANGED heapVars
    BY <2>2 DEF heapVars, list, FreeInv, Spare
  <2> QED BY <2>1, <2>2
<1>2. HeapInv /\ FreeInv => FreeListIsFree
  <2> SUFFICES ASSUME HeapInv, FreeInv, ~raced
               PROVE  /\ \A a \in OnList : in_use[a] = 0
                      /\ pc = "push" => in_use[request] = 0 /\ request \notin OnList
    BY DEF FreeListIsFree
  <2>1. PICK s \in Seq(Spare) : IsInjective(s) /\ LinkedAs(next_block, free_list, s)
    BY DEF FreeInv, LeadsThrough
  <2>2. IsFiniteSet(HeapAddress) /\ NULL \notin HeapAddress /\ DOMAIN next_block = HeapAddress
    <3>1. IsFiniteSet(0 .. HeapSize - 1)
      BY HeapAssumption, FS_Interval
    <3> QED BY <3>1, HeapAssumption DEF HeapAddress, HeapInv, HeapTypeOK
  <2>3. s \in Seq(HeapAddress) /\ \A i \in DOMAIN s : s[i] \in Spare
    <3>1. Spare \subseteq HeapAddress /\ \A i \in DOMAIN s : s[i] \in Spare
      BY <2>1 DEF Spare
    <3>2. s \in [1 .. Len(s) -> HeapAddress] /\ Len(s) \in Nat
      BY <2>1, <3>1
    <3> QED BY <3>1, <3>2
  <2>4. ChainFrom(next_block, free_list) = s
    BY <2>1, <2>2, <2>3, ChainIs
  <2>5. OnList \subseteq Spare
    BY <2>3, <2>4 DEF OnList, ToSet
  <2> QED BY <2>5 DEF Spare, FreeInv
<1> QED BY <1>1, <1>2, FreeInitial, HeapInvHolds, PTL DEF HeapSpec

----------------------------------------------------------------------------
(* The timers of the event loop. *)

TimersTypeOK ==
  /\ cell \in [Timer \cup {ListHead} -> Timer \cup {NULL}]
  /\ timers \in [Timer -> [due : Nat, interval : Nat, repeat : BOOLEAN]]
  /\ fresh \subseteq Timer
  /\ wanted \subseteq Timer \ fresh
  /\ disturbed \in BOOLEAN /\ crashed \in BOOLEAN
  /\ current \in Timer \cup {ListHead, NULL}
  /\ firing \in Timer \cup {NULL}
  /\ firing # NULL => current # NULL

(* The list is a sequence of the timers of T. *)
ListHolds(link, T) ==
  \E s \in Seq(Timer) : IsInjective(s) /\ ToSet(s) = T /\ LinkedAs(link, link[ListHead], s)

(* process_timers stands at the head or at a timer of the list, and when   *)
(* it calls back, the timer it calls for is in the list; it is the next    *)
(* one unless that is a timer which the callback of a repeating one has    *)
(* put in front.                                                           *)
LoopInv ==
  ~disturbed =>
    /\ ~crashed
    /\ ListHolds(cell, wanted)
    /\ current \in wanted \cup {ListHead, NULL}
    /\ firing # NULL =>
         /\ firing \in wanted
         /\ current # ListHead \/ ~timers[firing].repeat => cell[current] = firing

(* From the head or from a timer of the list, its cell leads to another    *)
(* timer of the list or to the end.                                        *)
LEMMA CellLeads ==
  ASSUME NEW T, NEW link, ListHolds(link, T), NEW c \in T \cup {ListHead}, link[c] # NULL
  PROVE  link[c] \in T /\ link[c] \in Timer /\ link[c] # c
<1>1. PICK s \in Seq(Timer) : IsInjective(s) /\ ToSet(s) = T /\ LinkedAs(link, link[ListHead], s)
  BY DEF ListHolds
<1>2. Len(s) \in Nat /\ DOMAIN s = 1 .. Len(s) /\ \A i \in DOMAIN s : s[i] \in Timer /\ s[i] \in T
  BY <1>1 DEF ToSet
<1>3. CASE c = ListHead
  <2>1. 1 \in DOMAIN s /\ link[c] = s[1]
    BY <1>1, <1>3 DEF LinkedAs, NodeAt
  <2>2. s[1] \in Timer /\ s[1] \in T
    BY <1>2, <2>1
  <2> QED BY <1>3, <2>1, <2>2, TimerAssumption
<1>4. CASE c # ListHead
  <2>1. PICK i \in DOMAIN s : s[i] = c
    BY <1>1, <1>4 DEF ToSet
  <2>2. i + 1 \in DOMAIN s /\ link[c] = s[i + 1]
    BY <1>1, <2>1 DEF LinkedAs, NodeAt
  <2>3. i + 1 # i
    BY <1>2
  <2>4. s[i + 1] # s[i]
    BY <1>1, <2>2, <2>3 DEF IsInjective
  <2>5. s[i + 1] \in Timer /\ s[i + 1] \in T
    BY <1>2, <2>2
  <2> QED BY <2>1, <2>2, <2>4, <2>5
<1> QED BY <1>3, <1>4

(* Some cell names each timer of the list. *)
LEMMA CellExists ==
  ASSUME NEW T, NEW link, ListHolds(link, T), NEW t \in T
  PROVE  \E c \in T \cup {ListHead} : link[c] = t
<1>1. PICK s \in Seq(Timer) : IsInjective(s) /\ ToSet(s) = T /\ LinkedAs(link, link[ListHead], s)
  BY DEF ListHolds
<1>2. PICK k \in DOMAIN s : s[k] = t
  BY <1>1 DEF ToSet
<1>3. Len(s) \in Nat /\ DOMAIN s = 1 .. Len(s) /\ k \in 1 .. Len(s)
  OBVIOUS
<1>4. CASE k = 1
  BY <1>1, <1>2, <1>4 DEF LinkedAs, NodeAt
<1>5. CASE k # 1
  <2>1. k - 1 \in DOMAIN s /\ (k - 1) + 1 = k
    BY <1>3, <1>5
  <2>2. link[s[k - 1]] = t /\ s[k - 1] \in T
    BY <1>1, <1>2, <2>1 DEF LinkedAs, NodeAt, ToSet
  <2> QED BY <2>2
<1> QED BY <1>4, <1>5

(* A new timer at the head. *)
LEMMA HoldsMore ==
  ASSUME NEW T, T \subseteq Timer, NEW link \in [Timer \cup {ListHead} -> Timer \cup {NULL}],
         ListHolds(link, T), NEW t \in Timer, t \notin T
  PROVE  ListHolds([link EXCEPT ![t] = link[ListHead], ![ListHead] = t], T \cup {t})
<1> DEFINE new == [link EXCEPT ![t] = link[ListHead], ![ListHead] = t]
           p == link[ListHead]
<1>1. PICK s \in Seq(Timer) : IsInjective(s) /\ ToSet(s) = T /\ LinkedAs(link, p, s)
  BY DEF ListHolds
<1>2. /\ new[t] = p /\ new[ListHead] = t
      /\ \A x \in Timer : x # t => new[x] = link[x]
  BY TimerAssumption
<1>3. \A i \in DOMAIN s : s[i] \in Timer /\ s[i] # t
  BY <1>1 DEF ToSet
<1> HIDE DEF new, p
<1>4. LinkedAs(new, t, <<t>> \o s)
  BY <1>1, <1>2, <1>3, LinkedPush
<1>5. <<t>> \o s \in Seq(Timer) /\ IsInjective(<<t>> \o s) /\ ToSet(<<t>> \o s) = T \cup {t}
  BY <1>1, InjectivePrepend
<1>6. ListHolds(new, T \cup {t})
  BY <1>2, <1>4, <1>5 DEF ListHolds
<1> QED BY <1>6 DEF new

(* Making the cell that names timer t name the next one takes t out. *)
LEMMA HoldsLess ==
  ASSUME NEW T, T \subseteq Timer, NEW link \in [Timer \cup {ListHead} -> Timer \cup {NULL}],
         ListHolds(link, T), NEW t \in Timer, NEW c \in T \cup {ListHead}, link[c] = t
  PROVE  /\ t \in T /\ c # t
         /\ ListHolds([link EXCEPT ![c] = link[t]], T \ {t})
<1> DEFINE new == [link EXCEPT ![c] = link[t]]
           p == link[ListHead]
           q == new[ListHead]
<1>1. t \in T /\ c # t
  BY CellLeads, TimerAssumption
<1>2. PICK s \in Seq(Timer) : IsInjective(s) /\ ToSet(s) = T /\ LinkedAs(link, p, s)
  BY DEF ListHolds
<1>3. PICK k \in DOMAIN s : s[k] = t
  BY <1>1, <1>2 DEF ToSet
<1>4. /\ Len(s) \in Nat /\ DOMAIN s = 1 .. Len(s) /\ k \in 1 .. Len(s)
      /\ \A i \in DOMAIN s : s[i] \in Timer /\ s[i] # NULL /\ s[i] # ListHead
      /\ \A i, j \in DOMAIN s : s[i] = s[j] => i = j
  BY <1>2, TimerAssumption DEF IsInjective
<1>5. new[c] = link[t] /\ \A x \in Timer \cup {ListHead} : x # c => new[x] = link[x]
  BY TimerAssumption
<1>6. \A i \in DOMAIN s : i + 1 # k => link[s[i]] # t
  <2> SUFFICES ASSUME NEW i \in DOMAIN s, i + 1 # k, link[s[i]] = t PROVE FALSE
    OBVIOUS
  <2>1. NodeAt(s, i + 1) = t /\ t # NULL
    BY <1>2, TimerAssumption DEF LinkedAs
  <2>2. i + 1 \in DOMAIN s /\ s[i + 1] = s[k]
    BY <1>3, <2>1 DEF NodeAt
  <2> QED BY <1>4, <2>2
<1>7. p = s[1]
  <2>1. 1 \in DOMAIN s
    BY <1>4
  <2> QED BY <1>2, <2>1 DEF LinkedAs, NodeAt
<1>8. k = 1 => c = ListHead
  <2> SUFFICES ASSUME k = 1, c # ListHead PROVE FALSE
    OBVIOUS
  <2>1. PICK i \in DOMAIN s : s[i] = c
    BY <1>2 DEF ToSet
  <2>2. i + 1 # k
    BY <1>4
  <2> QED BY <1>6, <2>1, <2>2
<1>9. k # 1 => k - 1 \in DOMAIN s /\ c = s[k - 1]
  <2> SUFFICES ASSUME k # 1 PROVE k - 1 \in DOMAIN s /\ c = s[k - 1]
    OBVIOUS
  <2>1. k - 1 \in DOMAIN s /\ 1 \in DOMAIN s
    BY <1>4
  <2>2. c # ListHead
    BY <1>3, <1>4, <1>7, <2>1
  <2>3. PICK i \in DOMAIN s : s[i] = c
    BY <1>2, <2>2 DEF ToSet
  <2>4. i + 1 = k
    BY <1>6, <2>3
  <2>5. i = k - 1
    BY <1>4, <2>4
  <2> QED BY <2>1, <2>3, <2>5
<1> HIDE DEF new
<1>10. k = 1 => q = link[s[k]]
  BY <1>3, <1>5, <1>8
<1>11. k # 1 => q = p /\ new[s[k - 1]] = link[s[k]]
  <2> SUFFICES ASSUME k # 1 PROVE q = p /\ new[s[k - 1]] = link[s[k]]
    OBVIOUS
  <2>1. c # ListHead
    BY <1>4, <1>9
  <2> QED BY <1>3, <1>5, <1>9, <2>1
<1>12. \A i \in DOMAIN s : i # k /\ i + 1 # k => new[s[i]] = link[s[i]]
  <2> SUFFICES ASSUME NEW i \in DOMAIN s, i # k, i + 1 # k PROVE new[s[i]] = link[s[i]]
    OBVIOUS
  <2>1. s[i] # c
    BY <1>6
  <2>2. s[i] \in Timer
    BY <1>4
  <2> QED BY <1>5, <2>1, <2>2
<1> HIDE DEF p, q
<1>13. LeadsPast(link, p, new, q, s, k)
  BY <1>10, <1>11, <1>12 DEF LeadsPast
<1> DEFINE r == RemoveFirst(s, t)
<1>14. LinkedAs(new, q, r) /\ r \in Seq(Timer)
  BY <1>2, <1>3, <1>13, LinkedRemoveFirst
<1>15. IsInjective(r) /\ ToSet(r) = T \ {t}
  BY <1>2, InjectiveRemove
<1>16. ListHolds(new, T \ {t})
  BY <1>14, <1>15 DEF ListHolds, q
<1> QED BY <1>1, <1>16 DEF new

LEMMA TimerListHolds ==
  ASSUME TimersTypeOK, NEW T, ListHolds(cell, T)
  PROVE  ToSet(TimerList) = T /\ IsInjective(TimerList)
<1>1. PICK s \in Seq(Timer) : IsInjective(s) /\ ToSet(s) = T /\ LinkedAs(cell, cell[ListHead], s)
  BY DEF ListHolds
<1> DEFINE link == [t \in Timer |-> cell[t]]
           p == cell[ListHead]
<1>2. \A i \in DOMAIN s : link[s[i]] = cell[s[i]]
  BY <1>1
<1>3. IsFiniteSet(Timer) /\ NULL \notin Timer /\ DOMAIN link = Timer
  BY TimerAssumption
<1> HIDE DEF link, p
<1>4. LinkedAs(link, p, s)
  BY <1>1, <1>2, LinkedAgree DEF p
<1>5. ChainFrom(link, p) = s
  BY <1>1, <1>3, <1>4, ChainIs
<1>6. TimerList = s
  BY <1>5 DEF TimerList, link, p
<1> QED BY <1>1, <1>6

LEMMA TimersTyped ==
  ASSUME TimersTypeOK, [TimersNext]_timerVars
  PROVE  TimersTypeOK'
<1> USE DEF TimersTypeOK
<1>1. ASSUME NEW t \in Timer, NEW n \in Intervals, NEW r \in BOOLEAN, event_loop_add_timer(t, n, r)
      PROVE  TimersTypeOK'
  <2>1. n \in Nat
    BY TimerAssumption
  <2>2. cell' \in [Timer \cup {ListHead} -> Timer \cup {NULL}]
    BY <1>1, TimerAssumption DEF event_loop_add_timer
  <2>3. timers' \in [Timer -> [due : Nat, interval : Nat, repeat : BOOLEAN]]
    BY <1>1, <2>1 DEF event_loop_add_timer
  <2>4. disturbed' \in BOOLEAN
    BY <1>1 DEF event_loop_add_timer
  <2> QED BY <1>1, <2>2, <2>3, <2>4 DEF event_loop_add_timer
<1>2. ASSUME NEW t \in Timer, event_loop_remove_timer(t) PROVE TimersTypeOK'
  <2>1. cell' \in [Timer \cup {ListHead} -> Timer \cup {NULL}]
    BY <1>2 DEF event_loop_remove_timer
  <2>2. disturbed' \in BOOLEAN
    BY <1>2 DEF event_loop_remove_timer
  <2> QED BY <1>2, <2>1, <2>2 DEF event_loop_remove_timer
<1>3. CASE StartRound
  <2>1. \A t \in Timer : timers'[t] = [timers[t] EXCEPT !.due = IF @ > 0 THEN @ - 1 ELSE 0]
    BY <1>3 DEF StartRound
  <2>2. ASSUME NEW t \in Timer
        PROVE  [timers[t] EXCEPT !.due = IF @ > 0 THEN @ - 1 ELSE 0]
                 \in [due : Nat, interval : Nat, repeat : BOOLEAN]
    <3> DEFINE d == timers[t].due
               e == IF d > 0 THEN d - 1 ELSE 0
    <3>1. d \in Nat
      OBVIOUS
    <3>2. e \in Nat
      BY <3>1
    <3> HIDE DEF e
    <3>3. [timers[t] EXCEPT !.due = e] \in [due : Nat, interval : Nat, repeat : BOOLEAN]
      BY <3>2
    <3> QED BY <3>3 DEF e
  <2>3. timers' \in [Timer -> [due : Nat, interval : Nat, repeat : BOOLEAN]]
    BY <1>3, <2>2 DEF StartRound
  <2> QED BY <1>3, <2>3, TimerAssumption DEF StartRound
<1>4. CASE Fire \/ PassBy \/ EndRound
  BY <1>4 DEF Fire, PassBy, EndRound, AtTimer
<1>5. CASE Reschedule
  <2>0. firing \in Timer /\ cell[current] \in Timer \cup {NULL}
    BY <1>5 DEF Reschedule, InCallback
  <2>1. timers' \in [Timer -> [due : Nat, interval : Nat, repeat : BOOLEAN]]
    BY <1>5 DEF Reschedule
  <2> QED BY <1>5, <2>0, <2>1 DEF Reschedule, AfterRepeat
<1>6. CASE RemoveFired
  <2>1. firing \in Timer /\ cell[firing] \in Timer \cup {NULL}
    BY <1>6 DEF RemoveFired, InCallback
  <2>2. cell' \in [Timer \cup {ListHead} -> Timer \cup {NULL}]
    BY <1>6, <2>1 DEF RemoveFired, Bypass
  <2> QED BY <1>6, <2>2 DEF RemoveFired
<1>7. CASE UNCHANGED timerVars
  BY <1>7 DEF timerVars
<1> QED BY <1>1, <1>2, <1>3, <1>4, <1>5, <1>6, <1>7 DEF TimersNext, process_timers

LEMMA AddTimerKeeps ==
  ASSUME TimersTypeOK, LoopInv, NEW t \in Timer, NEW n \in Intervals, NEW r \in BOOLEAN,
         event_loop_add_timer(t, n, r)
  PROVE  LoopInv'
<1> SUFFICES ASSUME ~disturbed' PROVE LoopInv'
  BY DEF LoopInv
<1>1. /\ ~disturbed /\ t \in fresh /\ wanted' = wanted \cup {t}
      /\ cell' = [cell EXCEPT ![t] = cell[ListHead], ![ListHead] = t]
      /\ UNCHANGED <<current, firing, crashed>>
      /\ current = NULL \/ firing # NULL
      /\ InCallback => ~(current = ListHead /\ ~timers[firing].repeat)
  BY DEF event_loop_add_timer, Outside, InCallback, TimersTypeOK
<1>2. /\ ~crashed /\ ListHolds(cell, wanted) /\ current \in wanted \cup {ListHead, NULL}
      /\ firing # NULL => firing \in wanted
                         /\ (current # ListHead \/ ~timers[firing].repeat => cell[current] = firing)
  BY <1>1 DEF LoopInv
<1>3. t \notin wanted /\ t # NULL /\ t # ListHead /\ wanted \subseteq Timer
  BY <1>1, TimerAssumption DEF TimersTypeOK
<1>4. ListHolds(cell', wanted')
  BY <1>1, <1>2, <1>3, HoldsMore DEF TimersTypeOK
<1>5. ASSUME firing # NULL
      PROVE  \/ current # ListHead /\ cell'[current] = cell[current]
             \/ current = ListHead /\ timers'[firing].repeat
  <2>1. CASE current = ListHead
    <3>1. timers[firing].repeat /\ firing # t /\ firing \in Timer
      BY <1>1, <1>2, <1>3, <1>5, <2>1 DEF InCallback, TimersTypeOK
    <3>2. timers'[firing] = timers[firing]
      BY <3>1 DEF event_loop_add_timer, TimersTypeOK
    <3> QED BY <2>1, <3>1, <3>2
  <2>2. CASE current # ListHead
    <3>1. current # t /\ current \in Timer
      BY <1>2, <1>3, <1>5, <2>2 DEF TimersTypeOK
    <3>2. cell'[current] = cell[current]
      BY <1>1, <2>2, <3>1 DEF TimersTypeOK
    <3> QED BY <2>2, <3>2
  <2> QED BY <2>1, <2>2
<1> QED BY <1>1, <1>2, <1>4, <1>5 DEF LoopInv

LEMMA RemoveTimerKeeps ==
  ASSUME TimersTypeOK, LoopInv, NEW t \in Timer, event_loop_remove_timer(t)
  PROVE  LoopInv'
<1> SUFFICES ASSUME ~disturbed' PROVE LoopInv'
  BY DEF LoopInv
<1> DEFINE c == CellOf(t)
<1>1. /\ ~disturbed /\ wanted' = wanted \ {t} /\ t \in wanted
      /\ cell' = [cell EXCEPT ![c] = cell[t]]
      /\ UNCHANGED <<timers, current, firing, crashed>>
      /\ InCallback => t \notin {firing, current}
      /\ current = NULL \/ firing # NULL
  BY DEF event_loop_remove_timer, Outside, InCallback, TimersTypeOK
<1>2. /\ ~crashed /\ ListHolds(cell, wanted) /\ current \in wanted \cup {ListHead, NULL}
      /\ firing # NULL => firing \in wanted
                         /\ (current # ListHead \/ ~timers[firing].repeat => cell[current] = firing)
  BY <1>1 DEF LoopInv
<1>3. c \in wanted \cup {ListHead} /\ cell[c] = t
  <2>1. ToSet(TimerList) = wanted
    BY <1>2, TimerListHolds
  <2>2. \E x \in wanted \cup {ListHead} : cell[x] = t
    BY <1>1, <1>2, CellExists
  <2> QED BY <2>1, <2>2 DEF CellOf
<1> HIDE DEF c
<1>4. ListHolds(cell', wanted')
  <2>1. wanted \subseteq Timer /\ cell \in [Timer \cup {ListHead} -> Timer \cup {NULL}]
    BY DEF TimersTypeOK
  <2> QED BY <1>1, <1>2, <1>3, <2>1, HoldsLess
<1>5. ASSUME firing # NULL PROVE firing # t /\ current # t
  BY <1>1, <1>2, <1>5 DEF InCallback
<1>6. current = NULL => firing = NULL
  BY DEF TimersTypeOK
<1>7. current # NULL => current # t
  BY <1>1, <1>5
<1>8. ASSUME firing # NULL, current # ListHead \/ ~timers[firing].repeat PROVE cell'[current] = firing
  <2>1. cell[current] = firing /\ firing # t
    BY <1>2, <1>5, <1>8
  <2>2. current # c
    BY <1>3, <2>1
  <2>3. current \in Timer \cup {ListHead}
    BY <1>6, <1>8 DEF TimersTypeOK
  <2> QED BY <1>1, <2>1, <2>2, <2>3 DEF TimersTypeOK
<1> QED BY <1>1, <1>2, <1>4, <1>5, <1>7, <1>8 DEF LoopInv

LEMMA ProcessKeeps ==
  ASSUME TimersTypeOK, LoopInv, process_timers
  PROVE  LoopInv'
<1> SUFFICES ASSUME ~disturbed' PROVE LoopInv'
  BY DEF LoopInv
<1>1. ~disturbed
  BY DEF process_timers, StartRound, Fire, PassBy, Reschedule, RemoveFired, EndRound
<1>2. /\ ~crashed /\ ListHolds(cell, wanted) /\ current \in wanted \cup {ListHead, NULL}
      /\ firing # NULL => firing \in wanted
                         /\ (current # ListHead \/ ~timers[firing].repeat => cell[current] = firing)
  BY <1>1 DEF LoopInv
<1>3. CASE StartRound
  BY <1>1, <1>2, <1>3 DEF StartRound, LoopInv, Outside, TimersTypeOK
<1>4. CASE Fire
  <2>1. cell[current] # NULL /\ current \in wanted \cup {ListHead}
    BY <1>2, <1>4 DEF Fire, AtTimer
  <2>2. cell[current] \in wanted
    BY <1>2, <2>1, CellLeads
  <2> QED BY <1>1, <1>2, <1>4, <2>2 DEF Fire, LoopInv
<1>5. CASE PassBy
  <2>1. cell[current] # NULL /\ current \in wanted \cup {ListHead}
    BY <1>2, <1>5 DEF PassBy, AtTimer
  <2>2. cell[current] \in wanted
    BY <1>2, <2>1, CellLeads
  <2> QED BY <1>1, <1>2, <1>5, <2>2 DEF PassBy, LoopInv, AtTimer
<1>6. CASE EndRound
  BY <1>1, <1>2, <1>6 DEF EndRound, LoopInv
<1>7. CASE Reschedule
  <2>1. firing \in wanted /\ current \in wanted \cup {ListHead} /\ firing # NULL
    BY <1>2, <1>7 DEF Reschedule, InCallback, TimersTypeOK
  <2>2. cell[current] # NULL
    <3>1. CASE current # ListHead
      BY <1>2, <2>1, <3>1
    <3>2. CASE current = ListHead
      <4>1. PICK s \in Seq(Timer) : IsInjective(s) /\ ToSet(s) = wanted /\ LinkedAs(cell, cell[ListHead], s)
        BY <1>2 DEF ListHolds
      <4>2. s # <<>>
        BY <2>1, <4>1 DEF ToSet
      <4> DEFINE p == cell[ListHead]
      <4>3. LinkedAs(cell, p, s) /\ NULL \notin Timer
        BY <4>1, TimerAssumption
      <4> HIDE DEF p
      <4>4. p # NULL
        BY <4>1, <4>2, <4>3, LinkedHead
      <4> QED BY <3>2, <4>4 DEF p
    <3> QED BY <3>1, <3>2
  <2>3. cell[current] \in wanted
    BY <1>2, <2>1, <2>2, CellLeads
  <2> QED BY <1>1, <1>2, <1>7, <2>2, <2>3 DEF Reschedule, AfterRepeat, LoopInv
<1>8. CASE RemoveFired
  <2>1. /\ firing \in wanted /\ current \in wanted \cup {ListHead} /\ firing # NULL
        /\ cell[current] = firing /\ firing \in Timer
        /\ cell' = [cell EXCEPT ![current] = cell[firing]] /\ wanted' = wanted \ {firing}
    BY <1>2, <1>8 DEF RemoveFired, InCallback, TimersTypeOK, Bypass
  <2>2. wanted \subseteq Timer /\ cell \in [Timer \cup {ListHead} -> Timer \cup {NULL}]
    BY DEF TimersTypeOK
  <2>3. ListHolds(cell', wanted') /\ current # firing
    BY <1>2, <2>1, <2>2, HoldsLess
  <2> QED BY <1>1, <1>2, <1>8, <2>1, <2>3 DEF RemoveFired, LoopInv
<1> QED BY <1>3, <1>4, <1>5, <1>6, <1>7, <1>8 DEF process_timers

(* Whatever timers callbacks and event handlers add and remove, and        *)
(* however many there are, the list holds exactly those added and neither  *)
(* removed nor done, and process_timers never follows a NULL pointer, as   *)
(* long as no callback changes the cell process_timers stands at           *)
(* (event_loop.c:177-241).                                                 *)
THEOREM TimerListWhole == TimersSpec => []TimersKept
<1>1. TimersInit => TimersTypeOK /\ LoopInv
  <2> SUFFICES ASSUME TimersInit PROVE TimersTypeOK /\ LoopInv
    OBVIOUS
  <2>1. TimersTypeOK
    BY TimerAssumption DEF TimersInit, TimersTypeOK
  <2>2. <<>> \in Seq(Timer) /\ IsInjective(<<>>) /\ ToSet(<<>>) = {} /\ DOMAIN <<>> = {}
    BY DEF IsInjective, ToSet
  <2>3. LinkedAs(cell, cell[ListHead], <<>>)
    BY <2>2 DEF LinkedAs, NodeAt, TimersInit
  <2>4. ListHolds(cell, wanted)
    BY <2>2, <2>3 DEF ListHolds, TimersInit
  <2> QED BY <2>1, <2>4 DEF LoopInv, TimersInit
<1>2. TimersTypeOK /\ LoopInv /\ [TimersNext]_timerVars => TimersTypeOK' /\ LoopInv'
  <2> SUFFICES ASSUME TimersTypeOK, LoopInv, [TimersNext]_timerVars PROVE LoopInv'
    BY TimersTyped
  <2>1. ASSUME NEW t \in Timer, NEW n \in Intervals, NEW r \in BOOLEAN, event_loop_add_timer(t, n, r)
        PROVE  LoopInv'
    BY <2>1, AddTimerKeeps
  <2>2. ASSUME NEW t \in Timer, event_loop_remove_timer(t) PROVE LoopInv'
    BY <2>2, RemoveTimerKeeps
  <2>3. CASE process_timers
    BY <2>3, ProcessKeeps
  <2>4. CASE UNCHANGED timerVars
    BY <2>4 DEF timerVars, LoopInv
  <2> QED BY <2>1, <2>2, <2>3, <2>4 DEF TimersNext
<1>3. TimersTypeOK /\ LoopInv => TimersKept
  BY TimerListHolds DEF LoopInv, TimersKept
<1> QED BY <1>1, <1>2, <1>3, PTL DEF TimersSpec

----------------------------------------------------------------------------
(* The lists of slabs: doubly linked, three heads over the same nodes.     *)

Heads == {"full", "partial", "empty"}

(* Every node of s names the one before it. *)
BackLinked(link, s) == \A i \in DOMAIN s : link[s[i]] = NodeAt(s, i - 1)

DoublyLinked(l, h, s) ==
  /\ s \in Seq(Page) /\ IsInjective(s)
  /\ LinkedAs(l.next, l.head[h], s) /\ BackLinked(l.prev, s)

ListTypes(l) ==
  l \in [head : [Heads -> Page \cup {NULL}],
         next : [Page -> Page \cup {NULL}], prev : [Page -> Page \cup {NULL}]]

(* The list of each head holds its set of slabs. *)
ListsHold(l, S) ==
  /\ ListTypes(l)
  /\ \A h \in Heads : \E s : DoublyLinked(l, h, s) /\ ToSet(s) = S[h]
  /\ \A h, g \in Heads : h # g => S[h] \cap S[g] = {}

(* The neighbours of a node are on its list, if there are any.             *)
LEMMA Neighbours ==
  ASSUME NEW l, NEW h, NEW s, DoublyLinked(l, h, s), NEW x \in ToSet(s)
  PROVE  /\ l.next[x] \in ToSet(s) \cup {NULL} /\ l.prev[x] \in ToSet(s) \cup {NULL}
         /\ l.head[h] \in ToSet(s)
<1>1. PICK k \in DOMAIN s : s[k] = x
  BY DEF ToSet
<1>2. l.next[x] = NodeAt(s, k + 1) /\ l.prev[x] = NodeAt(s, k - 1) /\ l.head[h] = NodeAt(s, 1)
  BY <1>1 DEF DoublyLinked, LinkedAs, BackLinked
<1>3. 1 \in DOMAIN s
  BY <1>1 DEF DoublyLinked
<1> QED BY <1>2, <1>3 DEF NodeAt, ToSet

LEMMA PushHere ==
  ASSUME NEW l, ListTypes(l), NEW h \in Heads, NEW s, DoublyLinked(l, h, s),
         NEW x \in Page, x \notin ToSet(s)
  PROVE  /\ DoublyLinked(PushFront(l, h, x), h, <<x>> \o s)
         /\ ToSet(<<x>> \o s) = ToSet(s) \cup {x}
<1> DEFINE m == PushFront(l, h, x)
           r == <<x>> \o s
           old == l.head[h]
<1>1. /\ m.head = [l.head EXCEPT ![h] = x] /\ m.next = [l.next EXCEPT ![x] = old]
      /\ m.prev = [n \in DOMAIN l.prev |-> IF n = x THEN NULL
                                           ELSE IF n = old THEN x ELSE l.prev[n]]
  BY DEF PushFront
<1>2. r \in Seq(Page) /\ IsInjective(r) /\ ToSet(r) = ToSet(s) \cup {x}
  BY InjectivePrepend DEF DoublyLinked
<1>3. /\ Len(s) \in Nat /\ DOMAIN s = 1 .. Len(s) /\ DOMAIN r = 1 .. Len(s) + 1
      /\ r[1] = x /\ \A i \in 1 .. Len(s) : r[i + 1] = s[i]
  BY DEF DoublyLinked
<1>4. \A i \in DOMAIN s : s[i] \in Page /\ s[i] # x
  BY DEF DoublyLinked, ToSet
<1> HIDE DEF r, m
<1>5. LinkedAs(m.next, m.head[h], r)
  <2>1. m.next[x] = old /\ m.head[h] = x /\ \A i \in DOMAIN s : m.next[s[i]] = l.next[s[i]]
    BY <1>1, <1>4 DEF ListTypes
  <2>2. LinkedAs(l.next, old, s) /\ s \in Seq(Page)
    BY DEF DoublyLinked
  <2> DEFINE a == l.next
             b == m.next
  <2>3. b[x] = old /\ (\A i \in DOMAIN s : b[s[i]] = a[s[i]]) /\ LinkedAs(a, old, s)
    BY <2>1, <2>2
  <2> HIDE DEF a, b, old
  <2>4. LinkedAs(b, x, <<x>> \o s)
    BY <2>2, <2>3, LinkedPush
  <2> QED BY <2>1, <2>4 DEF b, r
<1>6. BackLinked(m.prev, r)
  <2> SUFFICES ASSUME NEW i \in DOMAIN r PROVE m.prev[r[i]] = NodeAt(r, i - 1)
    BY DEF BackLinked
  <2>1. CASE i = 1
    <3>1. m.prev[r[i]] = NULL
      BY <1>1, <1>3, <2>1 DEF ListTypes
    <3>2. 0 \notin DOMAIN r /\ i - 1 = 0
      BY <1>3, <2>1
    <3> QED BY <3>1, <3>2 DEF NodeAt
  <2>2. CASE i = 2
    <3>1. 1 \in DOMAIN s /\ r[i] = s[1] /\ NodeAt(r, i - 1) = x
      <4>1. 1 \in 1 .. Len(s) /\ 1 + 1 = 2 /\ i - 1 = 1 /\ 1 \in DOMAIN r
        BY <1>3, <2>2
      <4> QED BY <1>3, <2>2, <4>1 DEF NodeAt
    <3>2. old = s[1]
      BY <3>1 DEF DoublyLinked, LinkedAs, NodeAt
    <3> QED BY <1>1, <1>4, <3>1, <3>2 DEF ListTypes
  <2>3. CASE i # 1 /\ i # 2
    <3> DEFINE j == i - 1
    <3>1. j \in DOMAIN s /\ j # 1 /\ 1 \in DOMAIN s /\ j - 1 \in 1 .. Len(s) /\ (j - 1) + 1 = j /\ j + 1 = i
          /\ j \in DOMAIN r
      BY <1>3, <2>3
    <3>2. r[i] = s[j] /\ NodeAt(r, j) = s[j - 1]
      BY <1>3, <3>1 DEF NodeAt
    <3>3. s[j] # old
      BY <3>1 DEF DoublyLinked, LinkedAs, NodeAt, IsInjective
    <3>4. l.prev[s[j]] = s[j - 1]
      BY <1>3, <3>1 DEF DoublyLinked, BackLinked, NodeAt
    <3> QED BY <1>1, <1>4, <3>1, <3>2, <3>3, <3>4 DEF ListTypes
  <2> QED BY <2>1, <2>2, <2>3
<1> QED BY <1>2, <1>5, <1>6 DEF DoublyLinked, m, r

LEMMA PushElsewhere ==
  ASSUME NEW l, ListTypes(l), NEW h \in Heads, NEW x \in Page,
         NEW g \in Heads, g # h, NEW s, DoublyLinked(l, g, s),
         x \notin ToSet(s), l.head[h] \notin ToSet(s)
  PROVE  DoublyLinked(PushFront(l, h, x), g, s)
<1> DEFINE m == PushFront(l, h, x)
<1>1. \A i \in DOMAIN s : s[i] \in Page /\ s[i] # x /\ s[i] # l.head[h]
  BY DEF DoublyLinked, ToSet
<1>2. /\ m.head[g] = l.head[g]
      /\ \A i \in DOMAIN s : m.next[s[i]] = l.next[s[i]] /\ m.prev[s[i]] = l.prev[s[i]]
  BY <1>1 DEF PushFront, ListTypes
<1> HIDE DEF m
<1> QED BY <1>2 DEF DoublyLinked, LinkedAs, BackLinked, m

(* Pushing a slab that is on no list. *)
LEMMA PushHolds ==
  ASSUME NEW l, NEW S \in [Heads -> SUBSET Page], ListsHold(l, S), NEW h \in Heads,
         NEW x \in Page, \A g \in Heads : x \notin S[g]
  PROVE  ListsHold(PushFront(l, h, x), [S EXCEPT ![h] = @ \cup {x}])
<1> DEFINE m == PushFront(l, h, x)
           T == [S EXCEPT ![h] = @ \cup {x}]
<1>1. ListTypes(l)
  BY DEF ListsHold
<1>2. ListTypes(m)
  BY <1>1 DEF ListTypes, PushFront
<1>3. \E s : DoublyLinked(m, h, s) /\ ToSet(s) = T[h]
  <2>1. PICK s : DoublyLinked(l, h, s) /\ ToSet(s) = S[h]
    BY DEF ListsHold
  <2> DEFINE r == <<x>> \o s
  <2>2. x \notin ToSet(s)
    BY <2>1
  <2>3. DoublyLinked(m, h, r) /\ ToSet(r) = ToSet(s) \cup {x}
    BY <1>1, <2>1, <2>2, PushHere
  <2>4. T[h] = S[h] \cup {x}
    OBVIOUS
  <2> HIDE DEF r, m, T
  <2> QED BY <2>1, <2>3, <2>4
<1>4. ASSUME NEW g \in Heads, g # h PROVE \E s : DoublyLinked(m, g, s) /\ ToSet(s) = T[g]
  <2>1. PICK s : DoublyLinked(l, g, s) /\ ToSet(s) = S[g]
    BY DEF ListsHold
  <2>2. PICK t : DoublyLinked(l, h, t) /\ ToSet(t) = S[h]
    BY DEF ListsHold
  <2>3. l.head[h] \notin ToSet(s)
    <3>1. NULL \notin ToSet(s)
      BY <2>1, SlabAssumption DEF DoublyLinked, ToSet
    <3>2. l.head[h] \in ToSet(t) \cup {NULL}
      BY <2>2 DEF DoublyLinked, LinkedAs, NodeAt, ToSet
    <3> QED BY <1>4, <2>1, <2>2, <3>1, <3>2 DEF ListsHold
  <2>4. DoublyLinked(m, g, s)
    BY <1>1, <1>4, <2>1, <2>3, PushElsewhere
  <2> QED BY <1>4, <2>1, <2>4
<1>5. \A f, g \in Heads : f # g => T[f] \cap T[g] = {}
  BY DEF ListsHold
<1> HIDE DEF m, T
<1>6. ListsHold(m, T)
  BY <1>2, <1>3, <1>4, <1>5 DEF ListsHold
<1> QED BY <1>6 DEF m, T

(* Taking the node at place k out of its list by its own fields ... *)
LEMMA UnlinkHere ==
  ASSUME NEW l, ListTypes(l), NEW h \in Heads, NEW s, DoublyLinked(l, h, s), NEW x \in ToSet(s)
  PROVE  /\ DoublyLinked(Unlink(l, h, x), h, RemoveFirst(s, x))
         /\ ToSet(RemoveFirst(s, x)) = ToSet(s) \ {x}
<1> DEFINE m == Unlink(l, h, x)
           r == RemoveFirst(s, x)
           p == l.prev[x]
           n == l.next[x]
<1>1. /\ m.head = [l.head EXCEPT ![h] = IF p = NULL THEN n ELSE @]
      /\ m.next = [y \in DOMAIN l.next |-> IF y = p THEN n ELSE l.next[y]]
      /\ m.prev = [y \in DOMAIN l.prev |-> IF y = n THEN p ELSE l.prev[y]]
  BY DEF Unlink
<1>2. s \in Seq(Page) /\ IsInjective(s) /\ LinkedAs(l.next, l.head[h], s) /\ BackLinked(l.prev, s)
  BY DEF DoublyLinked
<1>3. PICK k \in DOMAIN s : s[k] = x
  BY DEF ToSet
<1>4. r \in Seq(Page) /\ IsInjective(r) /\ ToSet(r) = ToSet(s) \ {x}
  BY <1>2, InjectiveRemove
<1>5. /\ Len(s) \in Nat /\ DOMAIN s = 1 .. Len(s) /\ k \in 1 .. Len(s)
      /\ \A i \in DOMAIN s : s[i] \in Page /\ s[i] # NULL
      /\ \A i, j \in DOMAIN s : s[i] = s[j] => i = j
  BY <1>2, SlabAssumption DEF IsInjective
<1>6. p = NodeAt(s, k - 1) /\ n = NodeAt(s, k + 1)
  BY <1>2, <1>3 DEF LinkedAs, BackLinked
<1>7. /\ \A i \in DOMAIN s : i + 1 # k => s[i] # p
      /\ \A i \in DOMAIN s : i # k + 1 => s[i] # n
  <2>1. ASSUME NEW i \in DOMAIN s, i + 1 # k PROVE s[i] # p
    <3>1. i # k - 1
      BY <1>5, <2>1
    <3> QED BY <1>5, <1>6, <3>1 DEF NodeAt
  <2>2. ASSUME NEW i \in DOMAIN s, i # k + 1 PROVE s[i] # n
    BY <1>5, <1>6, <2>2 DEF NodeAt
  <2> QED BY <2>1, <2>2
<1> HIDE DEF m, r, p, n
<1>8. LeadsPast(l.next, l.head[h], m.next, m.head[h], s, k)
  <2>1. k = 1 => m.head[h] = l.next[s[k]]
    <3> SUFFICES ASSUME k = 1 PROVE m.head[h] = n
      BY <1>3 DEF n
    <3>1. k - 1 \notin DOMAIN s
      BY <1>5
    <3>2. p = NULL
      BY <1>6, <3>1 DEF NodeAt
    <3> QED BY <1>1, <3>2 DEF ListTypes
  <2>2. k # 1 => m.head[h] = l.head[h] /\ m.next[s[k - 1]] = l.next[s[k]]
    <3> SUFFICES ASSUME k # 1 PROVE m.head[h] = l.head[h] /\ m.next[s[k - 1]] = n
      BY <1>3 DEF n
    <3>1. k - 1 \in DOMAIN s
      BY <1>5
    <3>2. p = s[k - 1] /\ p # NULL /\ p \in Page
      BY <1>5, <1>6, <3>1 DEF NodeAt
    <3> QED BY <1>1, <3>2 DEF ListTypes
  <2>3. \A i \in DOMAIN s : i # k /\ i + 1 # k => m.next[s[i]] = l.next[s[i]]
    BY <1>1, <1>5, <1>7 DEF ListTypes
  <2> QED BY <2>1, <2>2, <2>3 DEF LeadsPast
<1>9. LinkedAs(m.next, m.head[h], r) /\ CutsOut(s, k, r)
  <2> DEFINE a == l.next
             b == m.next
             c == l.head[h]
             d == m.head[h]
  <2>1. LinkedAs(a, c, s) /\ LeadsPast(a, c, b, d, s, k)
    BY <1>2, <1>8
  <2> HIDE DEF a, b, c, d
  <2>2. LinkedAs(b, d, r) /\ CutsOut(s, k, r)
    BY <1>2, <1>3, <2>1, LinkedRemoveFirst DEF r
  <2> QED BY <2>2 DEF b, d
<1>10. BackLinked(m.prev, r)
  <2> SUFFICES ASSUME NEW i \in DOMAIN r PROVE m.prev[r[i]] = NodeAt(r, i - 1)
    BY DEF BackLinked
  <2>1. /\ DOMAIN r = 1 .. Len(s) - 1 /\ i \in 1 .. Len(s) - 1
        /\ \A j \in 1 .. k - 1 : r[j] = s[j]
        /\ \A j \in k .. Len(s) - 1 : r[j] = s[j + 1]
    <3>1. Len(r) = Len(s) - 1
      BY <1>9 DEF CutsOut
    <3>2. DOMAIN r = 1 .. Len(s) - 1
      BY <1>4, <3>1
    <3> QED BY <1>9, <3>2 DEF CutsOut
  <2>2. CASE i < k
    <3>1. /\ i \in 1 .. k - 1 /\ i \in DOMAIN s /\ i # k + 1
          /\ (i - 1 \in DOMAIN s <=> i - 1 \in DOMAIN r)
          /\ (i - 1 \in DOMAIN s => i - 1 \in 1 .. k - 1)
      BY <1>5, <2>1, <2>2
    <3>2. r[i] = s[i]
      BY <2>1, <3>1
    <3> DEFINE j == i - 1
    <3>3. NodeAt(r, j) = NodeAt(s, j)
      <4>1. (j \in DOMAIN s <=> j \in DOMAIN r) /\ (j \in DOMAIN s => r[j] = s[j])
        BY <2>1, <3>1
      <4> HIDE DEF j
      <4> QED BY <4>1 DEF NodeAt
    <3>4. m.prev[s[i]] = l.prev[s[i]]
      BY <1>1, <1>5, <1>7, <3>1 DEF ListTypes
    <3>5. l.prev[s[i]] = NodeAt(s, j)
      BY <1>2, <3>1 DEF BackLinked
    <3> QED BY <3>2, <3>3, <3>4, <3>5
  <2>3. CASE i = k
    <3>1. /\ k \in k .. Len(s) - 1 /\ k + 1 \in DOMAIN s
          /\ (k - 1 \in DOMAIN s <=> k - 1 \in DOMAIN r)
          /\ (k - 1 \in DOMAIN s => k - 1 \in 1 .. k - 1)
      BY <1>5, <2>1, <2>3
    <3>2. r[i] = s[k + 1] /\ NodeAt(r, i - 1) = NodeAt(s, k - 1)
      BY <2>1, <2>3, <3>1 DEF NodeAt
    <3>3. n = s[k + 1]
      BY <1>6, <3>1 DEF NodeAt
    <3> QED BY <1>1, <1>5, <1>6, <3>1, <3>2, <3>3 DEF ListTypes
  <2>4. CASE i > k
    <3> DEFINE j == i + 1
    <3>1. /\ i \in k .. Len(s) - 1 /\ i - 1 \in k .. Len(s) - 1 /\ j \in DOMAIN s /\ i \in DOMAIN s
          /\ j # k + 1 /\ i - 1 \in DOMAIN r /\ j - 1 = i /\ (i - 1) + 1 = i
      BY <1>5, <2>1, <2>4
    <3>2. r[i] = s[j] /\ NodeAt(r, i - 1) = s[i]
      <4> DEFINE q == i - 1
      <4>1. r[i] = s[j]
        BY <2>1, <3>1
      <4>2. q \in DOMAIN r /\ q \in k .. Len(s) - 1 /\ q + 1 = i
        BY <3>1
      <4> HIDE DEF j, q
      <4>3. r[q] = s[i]
        BY <2>1, <4>2
      <4>4. NodeAt(r, q) = s[i]
        BY <4>2, <4>3 DEF NodeAt
      <4> QED BY <4>1, <4>4 DEF q
    <3>3. l.prev[s[j]] = s[i]
      BY <1>2, <3>1 DEF BackLinked, NodeAt
    <3>4. m.prev[s[j]] = l.prev[s[j]]
      BY <1>1, <1>5, <1>7, <3>1 DEF ListTypes
    <3> QED BY <3>2, <3>3, <3>4
  <2> QED BY <1>5, <2>1, <2>2, <2>3, <2>4
<1>11. DoublyLinked(m, h, r)
  BY <1>4, <1>9, <1>10 DEF DoublyLinked
<1> QED BY <1>4, <1>11 DEF m, r

(* ... leaves the other lists alone. *)
LEMMA UnlinkElsewhere ==
  ASSUME NEW l, ListTypes(l), NEW h \in Heads, NEW x \in Page,
         NEW g \in Heads, g # h, NEW s, DoublyLinked(l, g, s),
         l.prev[x] \notin ToSet(s), l.next[x] \notin ToSet(s)
  PROVE  DoublyLinked(Unlink(l, h, x), g, s)
<1> DEFINE m == Unlink(l, h, x)
<1>1. \A i \in DOMAIN s : s[i] \in Page /\ s[i] # l.prev[x] /\ s[i] # l.next[x]
  BY DEF DoublyLinked, ToSet
<1>2. /\ m.head[g] = l.head[g]
      /\ \A i \in DOMAIN s : m.next[s[i]] = l.next[s[i]] /\ m.prev[s[i]] = l.prev[s[i]]
  BY <1>1 DEF Unlink, ListTypes
<1> HIDE DEF m
<1> QED BY <1>2 DEF DoublyLinked, LinkedAs, BackLinked, m

LEMMA UnlinkHolds ==
  ASSUME NEW l, NEW S \in [Heads -> SUBSET Page], ListsHold(l, S), NEW h \in Heads,
         NEW x \in S[h]
  PROVE  ListsHold(Unlink(l, h, x), [S EXCEPT ![h] = @ \ {x}])
<1> DEFINE m == Unlink(l, h, x)
           T == [S EXCEPT ![h] = @ \ {x}]
<1>1. ListTypes(l) /\ x \in Page
  BY DEF ListsHold
<1>2. PICK t : DoublyLinked(l, h, t) /\ ToSet(t) = S[h]
  BY DEF ListsHold
<1>3. /\ l.next[x] \in S[h] \cup {NULL} /\ l.prev[x] \in S[h] \cup {NULL}
  BY <1>2, Neighbours
<1>4. ListTypes(m)
  <2>1. l.next[x] \in Page \cup {NULL} /\ l.prev[x] \in Page \cup {NULL}
    BY <1>1 DEF ListTypes
  <2> QED BY <1>1, <2>1 DEF ListTypes, Unlink
<1>5. \E s : DoublyLinked(m, h, s) /\ ToSet(s) = T[h]
  <2> DEFINE r == RemoveFirst(t, x)
  <2>1. x \in ToSet(t)
    BY <1>2
  <2>2. DoublyLinked(m, h, r) /\ ToSet(r) = ToSet(t) \ {x}
    BY <1>1, <1>2, <2>1, UnlinkHere
  <2>3. T[h] = S[h] \ {x}
    OBVIOUS
  <2> HIDE DEF r, m, T
  <2> QED BY <1>2, <2>2, <2>3
<1>6. ASSUME NEW g \in Heads, g # h PROVE \E s : DoublyLinked(m, g, s) /\ ToSet(s) = T[g]
  <2>1. PICK s : DoublyLinked(l, g, s) /\ ToSet(s) = S[g]
    BY DEF ListsHold
  <2>2. NULL \notin ToSet(s)
    BY <2>1, SlabAssumption DEF DoublyLinked, ToSet
  <2>3. l.prev[x] \notin ToSet(s) /\ l.next[x] \notin ToSet(s)
    BY <1>3, <1>6, <2>1, <2>2 DEF ListsHold
  <2>4. DoublyLinked(m, g, s)
    BY <1>1, <1>6, <2>1, <2>3, UnlinkElsewhere
  <2> QED BY <1>6, <2>1, <2>4
<1>7. \A f, g \in Heads : f # g => T[f] \cap T[g] = {}
  BY DEF ListsHold
<1> HIDE DEF m, T
<1>8. ListsHold(m, T)
  BY <1>4, <1>5, <1>6, <1>7 DEF ListsHold
<1> QED BY <1>8 DEF m, T

(* Moving a slab from one list to another. *)
LEMMA MoveHolds ==
  ASSUME NEW l, NEW S \in [Heads -> SUBSET Page], ListsHold(l, S),
         NEW from \in Heads, NEW to \in Heads, from # to, NEW x \in S[from]
  PROVE  ListsHold(Move(l, from, to, x),
                   [S EXCEPT ![from] = @ \ {x}, ![to] = @ \cup {x}])
<1> DEFINE m == Unlink(l, from, x)
           T == [S EXCEPT ![from] = @ \ {x}]
<1>1. ListsHold(m, T)
  BY UnlinkHolds
<1>2. x \in Page /\ T \in [Heads -> SUBSET Page]
  OBVIOUS
<1>3. \A g \in Heads : x \notin T[g]
  BY DEF ListsHold
<1>4. [T EXCEPT ![to] = @ \cup {x}] = [S EXCEPT ![from] = @ \ {x}, ![to] = @ \cup {x}]
  OBVIOUS
<1>5. Move(l, from, to, x) = PushFront(m, to, x)
  BY DEF Move
<1> HIDE DEF m, T
<1>6. ListsHold(PushFront(m, to, x), [T EXCEPT ![to] = @ \cup {x}])
  BY <1>1, <1>2, <1>3, PushHolds
<1> QED BY <1>4, <1>5, <1>6

(* Where a slab with k of n objects free belongs. *)
Belongs(h, k, n) ==
  /\ n > 0
  /\ h = "full" => k = 0
  /\ h = "partial" => k > 0 /\ k < n
  /\ h = "empty" => k = n

(* Slab x aside, each is in the list where it belongs. *)
PlacedBut(f, n, S, x) == \A h \in Heads : \A y \in S[h] : y = x \/ Belongs(h, f[y], n)

Placed(f, n, S) == \A h \in Heads : \A y \in S[h] : Belongs(h, f[y], n)

(* A is the set of the slabs that are on some list. *)
Are(S, A) == \A y : y \in A <=> \E h \in Heads : y \in S[h]

Listed(A) ==
  \E S \in [Heads -> SUBSET Page] :
    ListsHold(slabs, S) /\ Placed(free_count, objects_per_slab, S) /\ Are(S, A)

(* What the bitmaps and the counters say of the slabs of A: the objects    *)
(* handed out are those the bitmaps mark, and a page that is no slab has   *)
(* none, which is why a new slab starts with all its objects free.         *)
Marked == \A s \in Page, i \in Nat : <<s, i>> \in held <=> i \in bitmap[s]

CountsAre(A) ==
  counts = [total_slabs   |-> Cardinality(A),
            free_objects  |-> objects_per_slab * Cardinality(A) - Cardinality(held),
            total_objects |-> objects_per_slab * Cardinality(A)]

Accounted(A) ==
  /\ bitmap \in [Page -> SUBSET (0 .. objects_per_slab - 1)]
  /\ \A s \in Page \ A : bitmap[s] = {}
  /\ held \subseteq Page \X (0 .. objects_per_slab - 1) /\ Marked
  /\ \A s \in A : free_count[s] = objects_per_slab - Cardinality(bitmap[s])
  /\ CountsAre(A)

SlabTypes == objects_per_slab \in Nat /\ free_count \in [Page -> Int]

SlabInv == SlabTypes /\ \E A \in SUBSET Page : Listed(A) /\ Accounted(A)

(* Walking a list gives the sequence its links lead through. *)
LEMMA ListChain ==
  ASSUME NEW l, ListTypes(l), NEW h \in Heads, NEW s, DoublyLinked(l, h, s)
  PROVE  Chain(l, h) = s
<1> DEFINE a == l.next
           p == l.head[h]
<1>1. IsFiniteSet(Page) /\ NULL \notin Page /\ DOMAIN a = Page
  BY SlabAssumption DEF ListTypes
<1>2. s \in Seq(Page) /\ IsInjective(s) /\ LinkedAs(a, p, s)
  BY DEF DoublyLinked
<1> HIDE DEF a, p
<1>3. ChainFrom(a, p) = s
  BY <1>1, <1>2, ChainIs
<1> QED BY <1>3 DEF Chain, a, p

(* What walking one list gives, and that its links are whole. *)
LEMMA ListRead ==
  ASSUME NEW l, ListTypes(l), NEW h \in Heads, NEW s, DoublyLinked(l, h, s)
  PROVE  Nodes(l, h) = ToSet(s) /\ WellLinked(l, h)
<1> DEFINE a == l.next
           p == l.head[h]
<1>2. s \in Seq(Page) /\ IsInjective(s) /\ LinkedAs(a, p, s)
  BY DEF DoublyLinked
<1> HIDE DEF a, p
<1>4. Chain(l, h) = s
  BY ListChain
<1>5. Len(s) \in Nat /\ DOMAIN s = 1 .. Len(s)
  BY <1>2
<1>6. ASSUME s # <<>> PROVE l.next[Last(s)] = NULL
  <2>1. Len(s) \in DOMAIN s /\ Len(s) + 1 \notin DOMAIN s
    BY <1>2, <1>5, <1>6
  <2>2. a[s[Len(s)]] = NodeAt(s, Len(s) + 1)
    BY <1>2, <2>1 DEF LinkedAs
  <2> QED BY <2>1, <2>2 DEF NodeAt, Last, a
<1>7. ASSUME NEW i \in DOMAIN s PROVE l.prev[s[i]] = IF i = 1 THEN NULL ELSE s[i - 1]
  <2>1. l.prev[s[i]] = NodeAt(s, i - 1)
    BY DEF DoublyLinked, BackLinked
  <2>2. i - 1 \in DOMAIN s <=> i # 1
    BY <1>5
  <2> QED BY <2>1, <2>2 DEF NodeAt
<1> QED BY <1>2, <1>4, <1>6, <1>7 DEF Nodes, WellLinked

(* The slabs of each list, as the module reads them. *)
LEMMA SlabsRead ==
  ASSUME NEW S \in [Heads -> SUBSET Page], ListsHold(slabs, S)
  PROVE  /\ DOMAIN slabs.head = Heads
         /\ \A h \in Heads : SlabsOf(h) = S[h] /\ WellLinked(slabs, h)
         /\ AllSlabs = UNION {S[h] : h \in Heads}
<1>1. ListTypes(slabs) /\ DOMAIN slabs.head = Heads
  BY DEF ListsHold, ListTypes
<1>2. ASSUME NEW h \in Heads PROVE SlabsOf(h) = S[h] /\ WellLinked(slabs, h)
  <2>1. PICK s : DoublyLinked(slabs, h, s) /\ ToSet(s) = S[h]
    BY DEF ListsHold
  <2> QED BY <1>1, <2>1, ListRead DEF SlabsOf
<1>3. AllSlabs = UNION {S[h] : h \in Heads}
  BY <1>1, <1>2 DEF AllSlabs
<1> QED BY <1>1, <1>2, <1>3

(* The slabs of the cache, once their set is known. *)
LEMMA SlabsAre ==
  ASSUME NEW A, Listed(A)
  PROVE  AllSlabs = A
<1>1. PICK S \in [Heads -> SUBSET Page] : ListsHold(slabs, S) /\ Are(S, A)
  BY DEF Listed
<1>2. AllSlabs = UNION {S[h] : h \in Heads}
  BY <1>1, SlabsRead
<1> QED BY <1>1, <1>2 DEF Are

(* A list whose head is NULL has no slab. *)
LEMMA EmptyList ==
  ASSUME NEW S \in [Heads -> SUBSET Page], ListsHold(slabs, S),
         NEW h \in Heads, slabs.head[h] = NULL
  PROVE  S[h] = {}
<1>1. PICK s : DoublyLinked(slabs, h, s) /\ ToSet(s) = S[h]
  BY DEF ListsHold
<1>2. s \in Seq(Page) /\ NodeAt(s, 1) = NULL
  BY <1>1 DEF DoublyLinked, LinkedAs
<1>3. 1 \notin DOMAIN s
  BY <1>2, SlabAssumption DEF NodeAt
<1>4. s = <<>>
  BY <1>2, <1>3
<1> QED BY <1>1, <1>4 DEF ToSet

(* The head of a list that is not empty is one of its slabs. *)
LEMMA FirstSlab ==
  ASSUME NEW S \in [Heads -> SUBSET Page], ListsHold(slabs, S),
         NEW h \in Heads, slabs.head[h] # NULL
  PROVE  slabs.head[h] \in S[h]
<1>1. PICK s : DoublyLinked(slabs, h, s) /\ ToSet(s) = S[h]
  BY DEF ListsHold
<1> QED BY <1>1 DEF DoublyLinked, LinkedAs, NodeAt, ToSet

(* A slab that goes from one list to the other leaves the others placed.   *)
LEMMA MovePlaces ==
  ASSUME NEW l, NEW f, NEW n, NEW S \in [Heads -> SUBSET Page], ListsHold(l, S),
         NEW from \in Heads, NEW to \in Heads, from # to, NEW x \in S[from],
         PlacedBut(f, n, S, x), NEW A, Are(S, A)
  PROVE  \E T \in [Heads -> SUBSET Page] :
           /\ ListsHold(Move(l, from, to, x), T) /\ x \in T[to]
           /\ PlacedBut(f, n, T, x) /\ Are(T, A)
<1> DEFINE T == [S EXCEPT ![from] = @ \ {x}, ![to] = @ \cup {x}]
<1>1. x \in Page /\ T \in [Heads -> SUBSET Page] /\ x \in T[to]
  OBVIOUS
<1>2. ListsHold(Move(l, from, to, x), T)
  BY MoveHolds
<1>3. \A h \in Heads : T[h] \subseteq S[h] \cup {x}
  OBVIOUS
<1>4. PlacedBut(f, n, T, x)
  BY <1>3 DEF PlacedBut
<1>5. Are(T, A)
  <2>1. ASSUME NEW y PROVE (\E h \in Heads : y \in T[h]) <=> \E h \in Heads : y \in S[h]
    <3>1. CASE y = x
      BY <1>1, <3>1
    <3>2. CASE y # x
      <4>1. \A h \in Heads : y \in T[h] <=> y \in S[h]
        BY <3>2
      <4> HIDE DEF T
      <4> QED BY <4>1
    <3> QED BY <3>1, <3>2
  <2> HIDE DEF T
  <2> QED BY <2>1 DEF Are
<1> HIDE DEF T
<1> QED BY <1>1, <1>2, <1>4, <1>5

(* Slab x is in one list only, so that its own place completes the others. *)
LEMMA PlacesAll ==
  ASSUME NEW l, NEW f \in [Page -> Int], NEW n, NEW S \in [Heads -> SUBSET Page],
         ListsHold(l, S), NEW h \in Heads, NEW x \in S[h], PlacedBut(f, n, S, x),
         NEW k \in Int, Belongs(h, k, n)
  PROVE  Placed([f EXCEPT ![x] = k], n, S)
<1> SUFFICES ASSUME NEW g \in Heads, NEW y \in S[g]
             PROVE  Belongs(g, [f EXCEPT ![x] = k][y], n)
  BY DEF Placed
<1>1. CASE y = x
  <2>1. g = h
    BY <1>1 DEF ListsHold
  <2> QED BY <1>1, <2>1
<1>2. CASE y # x
  BY <1>2 DEF PlacedBut
<1> QED BY <1>1, <1>2

(* Taking an object from a slab of the list "partial". *)
LEMMA TakePlaces ==
  ASSUME SlabTypes, NEW l, NEW total, NEW free, NEW A,
         NEW S \in [Heads -> SUBSET Page], ListsHold(l, S), Are(S, A), NEW s \in S["partial"],
         PlacedBut(free_count, objects_per_slab, S, s),
         NEW left \in 1 .. objects_per_slab,
         Take(s, l, total, free, left), UNCHANGED objects_per_slab
  PROVE  SlabTypes' /\ Listed(A)'
<1> DEFINE n == objects_per_slab
<1>1. n \in Nat /\ free_count \in [Page -> Int] /\ left \in Nat /\ left > 0 /\ left <= n /\ n > 0
  BY DEF SlabTypes
<1>2. /\ free_count' = [free_count EXCEPT ![s] = left - 1] /\ s \in Page /\ left - 1 \in Int
      /\ slabs' = IF left = 1 THEN Move(l, "partial", "full", s) ELSE l
  BY <1>1 DEF Take, Heads
<1>3. SlabTypes'
  BY <1>1, <1>2 DEF SlabTypes
<1>4. CASE left = 1
  <2>1. Belongs("full", left - 1, n)
    BY <1>1, <1>4 DEF Belongs
  <2>2. PICK T \in [Heads -> SUBSET Page] :
          /\ ListsHold(slabs', T) /\ s \in T["full"]
          /\ PlacedBut(free_count, n, T, s) /\ Are(T, A)
    <3> DEFINE r == Move(l, "partial", "full", s)
    <3>1. \E T \in [Heads -> SUBSET Page] :
            ListsHold(r, T) /\ s \in T["full"] /\ PlacedBut(free_count, n, T, s) /\ Are(T, A)
      BY <1>2, MovePlaces DEF Heads
    <3> QED BY <1>2, <1>4, <3>1
  <2>3. Placed(free_count', n, T)
    BY <1>1, <1>2, <2>1, <2>2, PlacesAll DEF Heads
  <2> QED BY <1>3, <2>2, <2>3 DEF Listed
<1>5. CASE left # 1
  <2>1. Belongs("partial", left - 1, n)
    BY <1>1, <1>5 DEF Belongs
  <2>2. ListsHold(slabs', S)
    BY <1>2, <1>5
  <2>3. Placed(free_count', n, S)
    BY <1>1, <1>2, <2>1, PlacesAll DEF Heads
  <2> QED BY <1>3, <2>2, <2>3 DEF Listed
<1> QED BY <1>4, <1>5

(* The slabs and the objects in use are finitely many. *)
LEMMA HeldFinite ==
  ASSUME SlabTypes, NEW A \in SUBSET Page, Accounted(A)
  PROVE  /\ IsFiniteSet(A) /\ Cardinality(A) \in Nat
         /\ IsFiniteSet(held) /\ Cardinality(held) \in Nat
         /\ \A s \in Page : IsFiniteSet(bitmap[s]) /\ Cardinality(bitmap[s]) \in Nat
<1> DEFINE I == 0 .. objects_per_slab - 1
<1>1. IsFiniteSet(I)
  BY FS_Interval DEF SlabTypes
<1>2. bitmap \in [Page -> SUBSET I] /\ held \subseteq Page \X I
  BY DEF Accounted
<1> HIDE DEF I
<1>3. IsFiniteSet(A)
  BY SlabAssumption, FS_Subset
<1>4. IsFiniteSet(Page \X I)
  BY <1>1, SlabAssumption, FS_Product
<1>5. IsFiniteSet(held)
  BY <1>2, <1>4, FS_Subset
<1>6. \A s \in Page : IsFiniteSet(bitmap[s])
  BY <1>1, <1>2, FS_Subset
<1> QED BY <1>3, <1>5, <1>6, FS_CardinalityType

(* A slab that is not full has a first free object. *)
LEMMA FirstFreeIs ==
  ASSUME SlabTypes, NEW A \in SUBSET Page, Accounted(A), NEW s \in Page,
         Cardinality(bitmap[s]) < objects_per_slab
  PROVE  FirstFree(s) \in 0 .. objects_per_slab - 1 /\ FirstFree(s) \notin bitmap[s]
<1> DEFINE n == objects_per_slab
           I == 0 .. n - 1
           D == I \ bitmap[s]
           IsFirst(k) == k \notin bitmap[s] /\ \A j \in 0 .. k - 1 : j \in bitmap[s]
<1>1. n \in Nat
  BY DEF SlabTypes
<1>2. Cardinality(I) = n
  <2> DEFINE e == n - 1
  <2>1. e \in Int /\ (0 > e => n = 0) /\ (~(0 > e) => e - 0 + 1 = n) /\ 0 \in Int
    BY <1>1
  <2> HIDE DEF e
  <2>2. Cardinality(0 .. e) = IF 0 > e THEN 0 ELSE e - 0 + 1
    BY <2>1, FS_Interval
  <2>3. Cardinality(0 .. e) = n
    BY <2>1, <2>2
  <2> QED BY <2>3 DEF e
<1>3. bitmap[s] \subseteq I
  BY DEF Accounted
<1>4. D # {}
  <2> SUFFICES ASSUME D = {} PROVE FALSE
    OBVIOUS
  <2>1. bitmap[s] = I
    BY <1>3
  <2> QED BY <1>1, <1>2, <2>1
<1>5. D \in SUBSET Nat
  OBVIOUS
<1>6. PICK k \in D : \A j \in D : k <= j
  <2> HIDE DEF D
  <2> QED BY <1>4, <1>5, LeastElement
<1>7. k \in I /\ IsFirst(k)
  BY <1>1, <1>6
<1>8. FirstFree(s) \in I /\ IsFirst(FirstFree(s))
  BY <1>7 DEF FirstFree
<1> QED BY <1>8

(* One more object in use, in a slab that may be new. *)
LEMMA TakeAccounts ==
  ASSUME SlabTypes, NEW A \in SUBSET Page, Accounted(A), NEW s \in Page, NEW l,
         NEW total, total = Cardinality(A \cup {s}),
         NEW free, free = objects_per_slab * total - Cardinality(held),
         NEW left \in 1 .. objects_per_slab, left = objects_per_slab - Cardinality(bitmap[s]),
         Take(s, l, total, free, left), UNCHANGED objects_per_slab
  PROVE  Accounted(A \cup {s})'
<1> DEFINE n == objects_per_slab
           I == 0 .. n - 1
           i == FirstFree(s)
           B == A \cup {s}
           c == Cardinality(bitmap[s])
<1>1. /\ n \in Nat /\ c \in Nat /\ IsFiniteSet(bitmap[s]) /\ IsFiniteSet(held)
      /\ Cardinality(held) \in Nat /\ c < n /\ free_count \in [Page -> Int]
  BY HeldFinite DEF SlabTypes
<1>2. i \in I /\ i \notin bitmap[s]
  BY <1>1, FirstFreeIs
<1>3. /\ bitmap' = [bitmap EXCEPT ![s] = @ \cup {i}]
      /\ free_count' = [free_count EXCEPT ![s] = left - 1]
      /\ counts' = [total_slabs |-> total, free_objects |-> free - 1, total_objects |-> n * total]
      /\ held' = held \cup {<<s, i>>}
  BY DEF Take
<1>4. /\ bitmap \in [Page -> SUBSET I] /\ \A x \in Page \ A : bitmap[x] = {}
      /\ held \subseteq Page \X I
      /\ \A x \in Page, k \in Nat : <<x, k>> \in held <=> k \in bitmap[x]
      /\ \A x \in A : free_count[x] = n - Cardinality(bitmap[x])
  BY DEF Accounted, Marked
<1>5. I \subseteq Nat
  BY <1>1
<1> HIDE DEF I, i, n
<1>6. i \in Nat /\ <<s, i>> \notin held
  BY <1>2, <1>4, <1>5
<1>7. /\ bitmap' \in [Page -> SUBSET I] /\ held' \subseteq Page \X I
      /\ \A x \in Page \ B : bitmap'[x] = {}
  BY <1>2, <1>3, <1>4
<1>8. \A x \in Page, k \in Nat : <<x, k>> \in held' <=> k \in bitmap'[x]
  BY <1>3, <1>4
<1>9. Cardinality(held') = Cardinality(held) + 1
  BY <1>1, <1>3, <1>6, FS_AddElement
<1>10. Cardinality(bitmap'[s]) = c + 1
  <2>1. bitmap'[s] = bitmap[s] \cup {i}
    BY <1>3, <1>4
  <2> QED BY <1>1, <1>2, <2>1, FS_AddElement
<1>11. ASSUME NEW x \in B PROVE free_count'[x] = n - Cardinality(bitmap'[x])
  <2>1. CASE x = s
    <3>1. free_count'[s] = left - 1
      BY <1>1, <1>3
    <3>2. left - 1 = n - (c + 1)
      BY <1>1 DEF n
    <3> QED BY <1>10, <2>1, <3>1, <3>2
  <2>2. CASE x # s
    <3>1. free_count'[x] = free_count[x] /\ bitmap'[x] = bitmap[x]
      BY <1>1, <1>3, <1>4, <2>2
    <3> QED BY <1>4, <2>2, <3>1
  <2> QED BY <2>1, <2>2
<1>12. counts' = [total_slabs   |-> Cardinality(B),
                  free_objects  |-> n * Cardinality(B) - Cardinality(held'),
                  total_objects |-> n * Cardinality(B)]
  <2>2. total = Cardinality(B) /\ total \in Nat
    <3>1. IsFiniteSet(B)
      BY SlabAssumption, FS_Subset
    <3> QED BY <3>1, FS_CardinalityType
  <2> DEFINE m == n * total
             h == Cardinality(held)
  <2>3. m \in Int /\ h \in Nat /\ free = m - h
    BY <1>1, <2>2 DEF n
  <2> HIDE DEF m, h
  <2>4. free - 1 = m - (h + 1)
    BY <2>3
  <2> QED BY <1>3, <1>9, <2>2, <2>4 DEF m, h
<1>13. n' = n
  BY DEF n
<1> QED BY <1>7, <1>8, <1>11, <1>12, <1>13 DEF Accounted, Marked, CountsAre, I, n

LEMMA TakeKeepsSlabs ==
  ASSUME SlabTypes, NEW A \in SUBSET Page, Accounted(A), NEW l,
         NEW S \in [Heads -> SUBSET Page], ListsHold(l, S), NEW s \in S["partial"],
         Are(S, A \cup {s}), PlacedBut(free_count, objects_per_slab, S, s),
         NEW total, total = Cardinality(A \cup {s}),
         NEW free, free = objects_per_slab * total - Cardinality(held),
         NEW left \in 1 .. objects_per_slab, left = objects_per_slab - Cardinality(bitmap[s]),
         Take(s, l, total, free, left), UNCHANGED objects_per_slab
  PROVE  SlabInv'
<1> DEFINE B == A \cup {s}
<1>1. s \in Page /\ B \in SUBSET Page
  BY DEF Heads
<1>2. Accounted(B)'
  BY <1>1, TakeAccounts
<1>3. SlabTypes' /\ Listed(B)'
  <2> HIDE DEF B
  <2>1. Are(S, B)
    BY DEF B
  <2> QED BY <2>1, TakePlaces
<1> HIDE DEF B
<1> QED BY <1>1, <1>2, <1>3 DEF SlabInv

(* Nothing is free while every slab is in the list "full". *)
LEMMA FullIsFull ==
  ASSUME SlabTypes, NEW A \in SUBSET Page, Accounted(A), \A s \in A : free_count[s] = 0
  PROVE  counts.free_objects = 0
<1> DEFINE n == objects_per_slab
           I == 0 .. n - 1
<1>1. /\ n \in Nat /\ IsFiniteSet(A) /\ Cardinality(A) \in Nat
      /\ \A s \in Page : IsFiniteSet(bitmap[s]) /\ Cardinality(bitmap[s]) \in Nat
  BY HeldFinite DEF SlabTypes
<1>2. IsFiniteSet(I) /\ Cardinality(I) = n
  <2> DEFINE e == n - 1
  <2>1. e \in Int /\ (0 > e => n = 0) /\ (~(0 > e) => e - 0 + 1 = n) /\ 0 \in Int
    BY <1>1
  <2> HIDE DEF e
  <2>2. IsFiniteSet(0 .. e) /\ Cardinality(0 .. e) = IF 0 > e THEN 0 ELSE e - 0 + 1
    BY <2>1, FS_Interval
  <2>3. Cardinality(0 .. e) = n
    BY <2>1, <2>2
  <2> QED BY <2>2, <2>3 DEF e
<1>3. /\ bitmap \in [Page -> SUBSET I] /\ \A x \in Page \ A : bitmap[x] = {}
      /\ held \subseteq Page \X I
      /\ \A x \in Page, k \in Nat : <<x, k>> \in held <=> k \in bitmap[x]
      /\ \A x \in A : free_count[x] = n - Cardinality(bitmap[x])
  BY DEF Accounted, Marked
<1>4. I \subseteq Nat
  BY <1>1
<1>5. counts.free_objects = n * Cardinality(A) - Cardinality(held)
  BY DEF Accounted, CountsAre
<1> HIDE DEF I, n
<1>6. ASSUME NEW s \in A PROVE bitmap[s] = I
  <2> DEFINE c == Cardinality(bitmap[s])
  <2>1. c \in Nat /\ 0 = n - c
    BY <1>1, <1>3
  <2> HIDE DEF c
  <2>2. c = n
    BY <1>1, <2>1
  <2> QED BY <1>2, <1>3, <2>2, FS_Subset DEF c
<1>7. held = A \X I
  <2>1. ASSUME NEW o \in held PROVE o \in A \X I
    <3>1. PICK s \in Page, k \in I : o = <<s, k>>
      BY <1>3
    <3>2. k \in bitmap[s]
      BY <1>3, <1>4, <3>1
    <3> QED BY <1>3, <3>1, <3>2
  <2>2. ASSUME NEW s \in A, NEW k \in I PROVE <<s, k>> \in held
    BY <1>3, <1>4, <1>6
  <2> QED BY <2>1, <2>2
<1>8. Cardinality(held) = Cardinality(A) * n
  BY <1>1, <1>2, <1>7, FS_Product
<1> DEFINE a == Cardinality(A)
<1>9. a \in Nat /\ counts.free_objects = n * a - a * n
  BY <1>1, <1>5, <1>8
<1> HIDE DEF a
<1>10. n * a - a * n = 0
  BY <1>1, <1>9
<1> QED BY <1>9, <1>10

(* slab_alloc, wherever it finds the slab. *)
LEMMA AllocKeeps ==
  ASSUME SlabInv, AllocPartial \/ AllocEmpty \/ AllocNew, UNCHANGED objects_per_slab
  PROVE  SlabInv'
<1> DEFINE n == objects_per_slab
<1>1. PICK A \in SUBSET Page : Listed(A) /\ Accounted(A)
  BY DEF SlabInv
<1>2. PICK S \in [Heads -> SUBSET Page] :
        ListsHold(slabs, S) /\ Placed(free_count, n, S) /\ Are(S, A)
  BY <1>1 DEF Listed
<1>3. /\ SlabTypes /\ n \in Nat /\ free_count \in [Page -> Int]
      /\ \A x : PlacedBut(free_count, n, S, x)
  BY <1>2 DEF SlabInv, SlabTypes, Placed, PlacedBut
<1>4. /\ IsFiniteSet(A) /\ Cardinality(A) \in Nat /\ CountsAre(A)
      /\ \A x \in A : free_count[x] = n - Cardinality(bitmap[x])
      /\ \A x \in Page \ A : bitmap[x] = {}
  BY <1>1, <1>3, HeldFinite DEF Accounted
<1>5. ASSUME NEW s \in A
      PROVE  /\ A \cup {s} = A /\ counts.total_slabs = Cardinality(A \cup {s})
             /\ counts.free_objects = n * counts.total_slabs - Cardinality(held)
             /\ free_count[s] = n - Cardinality(bitmap[s])
  <2>1. A \cup {s} = A
    OBVIOUS
  <2> QED BY <1>4, <2>1 DEF CountsAre
<1>6. CASE AllocPartial
  <2> DEFINE s == slabs.head["partial"]
             left == free_count[s]
             total == counts.total_slabs
             free == counts.free_objects
  <2>1. s \in S["partial"]
    BY <1>2, <1>6, FirstSlab DEF AllocPartial, Heads
  <2>2. left \in 1 .. n /\ s \in A
    BY <1>2, <1>3, <2>1 DEF Placed, Belongs, Heads, Are
  <2>3. Take(s, slabs, total, free, left)
    BY <1>6 DEF AllocPartial
  <2>4. /\ Are(S, A \cup {s}) /\ total = Cardinality(A \cup {s})
        /\ free = n * total - Cardinality(held) /\ left = n - Cardinality(bitmap[s])
    <3> HIDE DEF s
    <3> QED BY <1>2, <1>5, <2>2
  <2> HIDE DEF s, left, total, free
  <2> QED BY <1>1, <1>2, <1>3, <2>1, <2>2, <2>3, <2>4, TakeKeepsSlabs
<1>7. CASE AllocEmpty
  <2> DEFINE s == slabs.head["empty"]
             l == Move(slabs, "empty", "partial", s)
             left == free_count[s]
             total == counts.total_slabs
             free == counts.free_objects
  <2>1. s \in S["empty"]
    BY <1>2, <1>7, FirstSlab DEF AllocEmpty, UseEmpty, Heads
  <2>2. left \in 1 .. n /\ s \in A
    BY <1>2, <1>3, <2>1 DEF Placed, Belongs, Heads, Are
  <2>3. Take(s, l, total, free, left)
    BY <1>7 DEF AllocEmpty
  <2>4. /\ A \cup {s} = A /\ total = Cardinality(A \cup {s})
        /\ free = n * total - Cardinality(held) /\ left = n - Cardinality(bitmap[s])
    <3> HIDE DEF s
    <3> QED BY <1>5, <2>2
  <2> HIDE DEF s, left, total, free
  <2>5. PICK T \in [Heads -> SUBSET Page] :
          /\ ListsHold(l, T) /\ s \in T["partial"]
          /\ PlacedBut(free_count, n, T, s) /\ Are(T, A)
    BY <1>2, <1>3, <2>1, MovePlaces DEF Heads
  <2>6. Are(T, A \cup {s})
    BY <2>4, <2>5
  <2> HIDE DEF l
  <2> QED BY <1>1, <1>3, <2>2, <2>3, <2>4, <2>5, <2>6, TakeKeepsSlabs
<1>8. CASE AllocNew
  <2>1. PICK s \in Page \ AllSlabs :
          Take(s, PushFront(slabs, "partial", s),
               counts.total_slabs + 1, counts.free_objects + n, n)
    BY <1>8 DEF AllocNew
  <2> DEFINE l == PushFront(slabs, "partial", s)
             T == [S EXCEPT !["partial"] = @ \cup {s}]
             total == counts.total_slabs + 1
             free == counts.free_objects + n
  <2>2. \A g \in Heads : s \notin S[g]
    BY <1>2, <2>1, SlabsRead
  <2>3. ListsHold(l, T)
    BY <1>2, <2>1, <2>2, PushHolds DEF Heads
  <2>4. T \in [Heads -> SUBSET Page] /\ s \in T["partial"]
    BY <2>1 DEF Heads
  <2>5. PlacedBut(free_count, n, T, s)
    <3>1. \A h \in Heads : T[h] \subseteq S[h] \cup {s}
      OBVIOUS
    <3> QED BY <1>2, <3>1 DEF Placed, PlacedBut
  <2>6. Are(T, A \cup {s})
    <3>1. ASSUME NEW y PROVE (\E h \in Heads : y \in T[h]) <=> y = s \/ \E h \in Heads : y \in S[h]
      <4>1. CASE y = s
        BY <2>4, <4>1 DEF Heads
      <4>2. CASE y # s
        <5>1. \A h \in Heads : y \in T[h] <=> y \in S[h]
          BY <4>2
        <5> HIDE DEF T
        <5> QED BY <4>2, <5>1
      <4> QED BY <4>1, <4>2
    <3> HIDE DEF T
    <3> QED BY <1>2, <3>1 DEF Are
  <2>7. s \notin A /\ s \in Page
    BY <1>2, <2>1, <2>2 DEF Are
  <2>8. n \in 1 .. n
    BY <1>3, <1>8 DEF AllocNew
  <2>9. Take(s, l, total, free, n)
    BY <2>1
  <2>10. total = Cardinality(A \cup {s})
    <3>1. Cardinality(A \cup {s}) = Cardinality(A) + 1
      BY <1>4, <2>7, FS_AddElement
    <3> QED BY <1>4, <3>1 DEF CountsAre
  <2>11. free = n * total - Cardinality(held)
    <3> DEFINE a == Cardinality(A)
               h == Cardinality(held)
    <3>1. a \in Nat /\ h \in Nat
      BY <1>1, <1>3, HeldFinite
    <3>2. total = a + 1 /\ counts.free_objects = n * a - h
      BY <1>4 DEF CountsAre
    <3> HIDE DEF a, h
    <3>3. n * (a + 1) = n * a + n /\ n * a \in Int
      BY <1>3, <3>1
    <3>4. free = (n * a - h) + n /\ n * total = n * (a + 1)
      BY <3>2
    <3> QED BY <1>3, <3>1, <3>3, <3>4 DEF h
  <2>12. n = n - Cardinality(bitmap[s])
    BY <1>3, <1>4, <2>7, FS_EmptySet
  <2> HIDE DEF l, T, total, free
  <2> QED BY <1>1, <1>3, <2>3, <2>4, <2>5, <2>6, <2>8, <2>9, <2>10, <2>11, <2>12, TakeKeepsSlabs
<1> QED BY <1>6, <1>7, <1>8

(* Freeing moves a slab on at both boundaries ... *)
LEMMA FreePlaces ==
  ASSUME SlabTypes, NEW A, Listed(A), NEW s, NEW i, slab_free(s, i), UNCHANGED objects_per_slab
  PROVE  SlabTypes' /\ Listed(A)' /\ s \in A
<1> DEFINE n == objects_per_slab
           k == free_count[s] + 1
           Holds(l, h) ==
             \E T \in [Heads -> SUBSET Page] :
               /\ ListsHold(l, T) /\ s \in T[h]
               /\ PlacedBut(free_count, n, T, s) /\ Are(T, A)
           l1 == IF WasFull(k) THEN Move(slabs, "full", "partial", s) ELSE slabs
<1>1. PICK S \in [Heads -> SUBSET Page] :
        ListsHold(slabs, S) /\ Placed(free_count, n, S) /\ Are(S, A)
  BY DEF Listed
<1>2. n \in Nat /\ free_count \in [Page -> Int] /\ \A x : PlacedBut(free_count, n, S, x)
  BY <1>1 DEF SlabTypes, Placed, PlacedBut
<1>3. /\ free_count' = [free_count EXCEPT ![s] = k]
      /\ slabs' = IF k = n THEN Move(l1, "partial", "empty", s) ELSE l1
      /\ s \in S["partial"] \cup S["full"]
  BY <1>1, SlabsRead DEF slab_free, AfterFree, Heads
<1>4. /\ s \in Page /\ free_count[s] \in Int /\ k \in Int /\ k > 0 /\ k <= n
      /\ (s \in S["full"] <=> k = 1) /\ s \in A
  <2>1. s \in Page /\ free_count[s] \in Int /\ s \in A
    BY <1>1, <1>2, <1>3 DEF Heads, Are
  <2>2. s \in S["full"] => free_count[s] = 0 /\ n > 0
    BY <1>1 DEF Placed, Belongs, Heads
  <2>3. s \in S["partial"] => free_count[s] > 0 /\ free_count[s] < n
    BY <1>1 DEF Placed, Belongs, Heads
  <2> QED BY <1>2, <1>3, <2>1, <2>2, <2>3
<1>5. Holds(l1, "partial")
  <2>1. CASE k = 1
    BY <1>1, <1>2, <1>4, <2>1, MovePlaces DEF Heads, WasFull
  <2>2. CASE k # 1
    BY <1>1, <1>2, <1>3, <1>4, <2>2 DEF WasFull
  <2> QED BY <2>1, <2>2
<1> HIDE DEF l1
<1>6. SlabTypes'
  BY <1>2, <1>3, <1>4 DEF SlabTypes
<1> HIDE DEF k
<1>7. CASE k = n
  <2>1. PICK S1 \in [Heads -> SUBSET Page] :
          /\ ListsHold(l1, S1) /\ s \in S1["partial"]
          /\ PlacedBut(free_count, n, S1, s) /\ Are(S1, A)
    BY <1>5
  <2>2. PICK T \in [Heads -> SUBSET Page] :
          /\ ListsHold(slabs', T) /\ s \in T["empty"]
          /\ PlacedBut(free_count, n, T, s) /\ Are(T, A)
    <3> DEFINE r == Move(l1, "partial", "empty", s)
    <3>1. \E T \in [Heads -> SUBSET Page] :
            ListsHold(r, T) /\ s \in T["empty"] /\ PlacedBut(free_count, n, T, s) /\ Are(T, A)
      BY <2>1, MovePlaces DEF Heads
    <3> QED BY <1>3, <1>7, <3>1
  <2>3. Belongs("empty", k, n)
    BY <1>4, <1>7 DEF Belongs
  <2>4. Placed(free_count', n, T)
    BY <1>2, <1>3, <1>4, <2>2, <2>3, PlacesAll DEF Heads
  <2> QED BY <1>4, <1>6, <2>2, <2>4 DEF Listed
<1>8. CASE k # n
  <2>1. PICK T \in [Heads -> SUBSET Page] :
          /\ ListsHold(l1, T) /\ s \in T["partial"]
          /\ PlacedBut(free_count, n, T, s) /\ Are(T, A)
    BY <1>5
  <2>2. Belongs("partial", k, n)
    BY <1>2, <1>4, <1>8 DEF Belongs
  <2>3. Placed(free_count', n, T)
    BY <1>2, <1>3, <1>4, <2>1, <2>2, PlacesAll DEF Heads
  <2>4. slabs' = l1
    BY <1>3, <1>8
  <2> QED BY <1>4, <1>6, <2>1, <2>3, <2>4 DEF Listed
<1> QED BY <1>7, <1>8

(* ... and leaves one object less in use. *)
LEMMA FreeAccounts ==
  ASSUME SlabTypes, NEW A \in SUBSET Page, Accounted(A), NEW s \in A, NEW i, <<s, i>> \in held,
         slab_free(s, i), UNCHANGED objects_per_slab
  PROVE  Accounted(A)'
<1> DEFINE n == objects_per_slab
           I == 0 .. n - 1
           c == Cardinality(bitmap[s])
           h == Cardinality(held)
<1>1. /\ n \in Nat /\ c \in Nat /\ IsFiniteSet(bitmap[s]) /\ IsFiniteSet(held) /\ h \in Nat
      /\ free_count \in [Page -> Int]
  BY HeldFinite DEF SlabTypes
<1>2. /\ bitmap' = [bitmap EXCEPT ![s] = @ \ {i}]
      /\ free_count' = [free_count EXCEPT ![s] = @ + 1]
      /\ counts' = [counts EXCEPT !.free_objects = @ + 1]
      /\ held' = held \ {<<s, i>>}
  BY DEF slab_free
<1>3. /\ bitmap \in [Page -> SUBSET I] /\ \A x \in Page \ A : bitmap[x] = {}
      /\ held \subseteq Page \X I
      /\ \A x \in Page, k \in Nat : <<x, k>> \in held <=> k \in bitmap[x]
      /\ \A x \in A : free_count[x] = n - Cardinality(bitmap[x])
  BY DEF Accounted, Marked
<1>4. I \subseteq Nat
  BY <1>1
<1> HIDE DEF I
<1>5. i \in I /\ i \in bitmap[s] /\ s \in Page
  BY <1>3, <1>4
<1>6. /\ bitmap' \in [Page -> SUBSET I] /\ held' \subseteq Page \X I
      /\ \A x \in Page \ A : bitmap'[x] = {}
  BY <1>2, <1>3
<1>7. \A x \in Page, k \in Nat : <<x, k>> \in held' <=> k \in bitmap'[x]
  BY <1>2, <1>3
<1>8. Cardinality(held') = h - 1
  BY <1>1, <1>2, FS_RemoveElement
<1>9. Cardinality(bitmap'[s]) = c - 1
  <2> DEFINE B == bitmap[s]
  <2>1. bitmap'[s] = B \ {i}
    BY <1>2, <1>3, <1>5
  <2>2. IsFiniteSet(B) /\ i \in B
    BY <1>1, <1>5
  <2> HIDE DEF B
  <2>3. Cardinality(B \ {i}) = Cardinality(B) - 1
    BY <2>2, FS_RemoveElement
  <2> QED BY <2>1, <2>3 DEF B
<1>10. ASSUME NEW x \in A PROVE free_count'[x] = n - Cardinality(bitmap'[x])
  <2>1. CASE x = s
    <3>1. free_count'[s] = free_count[s] + 1 /\ free_count[s] = n - c
      BY <1>1, <1>2, <1>3, <1>5
    <3> HIDE DEF c
    <3>2. (n - c) + 1 = n - (c - 1)
      BY <1>1
    <3> QED BY <1>9, <2>1, <3>1, <3>2
  <2>2. CASE x # s
    <3>1. free_count'[x] = free_count[x] /\ bitmap'[x] = bitmap[x]
      BY <1>1, <1>2, <1>3, <2>2
    <3> QED BY <1>3, <2>2, <3>1
  <2> QED BY <2>1, <2>2
<1>11. Cardinality(A) \in Nat
  BY HeldFinite
<1>12. n' = n
  OBVIOUS
<1>13. CountsAre(A)'
  <2> DEFINE m == n * Cardinality(A)
  <2>1. counts = [total_slabs |-> Cardinality(A), free_objects |-> m - h, total_objects |-> m]
    BY DEF Accounted, CountsAre
  <2>2. counts' = [total_slabs |-> Cardinality(A), free_objects |-> (m - h) + 1, total_objects |-> m]
    <3> HIDE DEF m, h
    <3> QED BY <1>2, <2>1
  <2>3. m \in Int
    BY <1>1, <1>11
  <2> HIDE DEF m, h
  <2>4. (m - h) + 1 = m - (h - 1)
    BY <1>1, <2>3
  <2>5. (m - h) + 1 = m - Cardinality(held')
    BY <1>8, <2>4 DEF h
  <2> QED BY <1>12, <2>2, <2>5 DEF CountsAre, m
<1> QED BY <1>6, <1>7, <1>10, <1>12, <1>13 DEF Accounted, Marked, I

(* Lists without nodes. *)
LEMMA NoSlabs ==
  ASSUME NEW l, ListTypes(l), \A h \in Heads : l.head[h] = NULL, NEW f, NEW n
  PROVE  \E S \in [Heads -> SUBSET Page] : ListsHold(l, S) /\ Placed(f, n, S) /\ Are(S, {})
<1> DEFINE S == [h \in Heads |-> {}]
<1>1. \A h \in Heads : DoublyLinked(l, h, <<>>) /\ ToSet(<<>>) = S[h]
  BY DEF DoublyLinked, LinkedAs, BackLinked, NodeAt, IsInjective, ToSet
<1>2. S \in [Heads -> SUBSET Page] /\ \A h \in Heads : S[h] = {}
  OBVIOUS
<1> HIDE DEF S
<1>3. ListsHold(l, S) /\ Placed(f, n, S) /\ Are(S, {})
  BY <1>1, <1>2 DEF ListsHold, Placed, Are
<1> QED BY <1>2, <1>3

(* The slabs that slab_cache_destroy goes through, one list after another. *)
LEMMA WalkedAll ==
  ASSUME NEW A, NEW S \in [Heads -> SUBSET Page], ListsHold(slabs, S), Are(S, A)
  PROVE  \E s \in Seq(Page) :
           /\ s = Chain(slabs, "full") \o Chain(slabs, "partial") \o Chain(slabs, "empty")
           /\ IsInjective(s) /\ ToSet(s) = A
<1> DEFINE x == Chain(slabs, "full")
           y == Chain(slabs, "partial")
           z == Chain(slabs, "empty")
           xy == x \o y
<1>1. ASSUME NEW h \in Heads
      PROVE  /\ Chain(slabs, h) \in Seq(Page) /\ IsInjective(Chain(slabs, h))
             /\ ToSet(Chain(slabs, h)) = S[h]
  <2>1. PICK s : DoublyLinked(slabs, h, s) /\ ToSet(s) = S[h]
    BY DEF ListsHold
  <2>2. Chain(slabs, h) = s
    BY <2>1, ListChain DEF ListsHold
  <2> QED BY <2>1, <2>2 DEF DoublyLinked
<1>2. /\ x \in Seq(Page) /\ IsInjective(x) /\ ToSet(x) = S["full"]
      /\ y \in Seq(Page) /\ IsInjective(y) /\ ToSet(y) = S["partial"]
      /\ z \in Seq(Page) /\ IsInjective(z) /\ ToSet(z) = S["empty"]
  BY <1>1 DEF Heads
<1>3. /\ S["full"] \cap S["partial"] = {} /\ S["full"] \cap S["empty"] = {}
      /\ S["partial"] \cap S["empty"] = {}
  BY DEF ListsHold, Heads
<1> HIDE DEF x, y, z
<1>4. xy \in Seq(Page) /\ IsInjective(xy) /\ ToSet(xy) = S["full"] \cup S["partial"]
  BY <1>2, <1>3, InjectiveConcat
<1> HIDE DEF xy
<1>5. /\ xy \o z \in Seq(Page) /\ IsInjective(xy \o z)
      /\ ToSet(xy \o z) = S["full"] \cup S["partial"] \cup S["empty"]
  <2>1. ToSet(xy) \cap ToSet(z) = {}
    BY <1>2, <1>3, <1>4
  <2> QED BY <1>2, <1>4, <2>1, InjectiveConcat
<1>6. A = S["full"] \cup S["partial"] \cup S["empty"]
  BY DEF Are, Heads
<1> QED BY <1>5, <1>6 DEF x, y, z, xy

(* The free objects of all slabs are those of the cache. *)
LEMMA FreeAddsUp ==
  ASSUME SlabTypes, NEW A \in SUBSET Page, Accounted(A),
         NEW s \in Seq(Page), IsInjective(s), ToSet(s) = A,
         NEW w, w = [k \in 1 .. Len(s) |-> free_count[s[k]]]
  PROVE  Total(w) = objects_per_slab * Cardinality(A) - Cardinality(held)
<1> DEFINE n == objects_per_slab
           m == Len(s)
           I == 0 .. n - 1
           Of(k) == {o \in held : \E j \in 1 .. k : o[1] = s[j]}
           f == [k \in 0 .. m |-> n * k - Cardinality(Of(k))]
<1>1. /\ n \in Nat /\ IsFiniteSet(held)
      /\ free_count \in [Page -> Int]
      /\ \A x \in Page : IsFiniteSet(bitmap[x]) /\ Cardinality(bitmap[x]) \in Nat
  BY HeldFinite DEF SlabTypes
<1>2. m \in Nat /\ DOMAIN s = 1 .. m /\ \A k \in 1 .. m : s[k] \in A
  BY DEF ToSet
<1>3. /\ bitmap \in [Page -> SUBSET I] /\ held \subseteq Page \X I
      /\ \A x \in Page, k \in Nat : <<x, k>> \in held <=> k \in bitmap[x]
      /\ \A x \in Page \ A : bitmap[x] = {}
      /\ \A x \in A : free_count[x] = n - Cardinality(bitmap[x])
  BY DEF Accounted, Marked
<1>4. I \subseteq Nat
  BY <1>1
<1> HIDE DEF I, m, n
<1>5. \A k \in 0 .. m : IsFiniteSet(Of(k)) /\ Cardinality(Of(k)) \in Nat
  <2> TAKE k \in 0 .. m
  <2>1. Of(k) \subseteq held
    OBVIOUS
  <2> HIDE DEF Of
  <2> QED BY <1>1, <2>1, FS_Subset, FS_CardinalityType
<1>6. ASSUME NEW k \in 1 .. m
      PROVE  Cardinality(Of(k)) = Cardinality(Of(k - 1)) + Cardinality(bitmap[s[k]])
  <2> DEFINE x == s[k]
             X == {x} \X bitmap[x]
  <2>1. x \in A /\ x \in Page /\ k - 1 \in 0 .. m /\ k - 1 \in Nat
    BY <1>2
  <2>2. Of(k) = Of(k - 1) \cup X
    <3>1. ASSUME NEW o \in Of(k) PROVE o \in Of(k - 1) \cup X
      <4>1. PICK j \in 1 .. k : o[1] = s[j]
        OBVIOUS
      <4>2. CASE j = k
        <5>1. PICK y \in Page, i \in I : o = <<y, i>>
          BY <1>3
        <5>2. y = x
          BY <4>1, <4>2, <5>1
        <5>3. i \in bitmap[x]
          BY <1>3, <1>4, <5>1, <5>2
        <5> QED BY <5>1, <5>2, <5>3
      <4>3. CASE j # k
        <5>1. j \in 1 .. k - 1
          BY <4>3
        <5> QED BY <4>1, <5>1
      <4> QED BY <4>2, <4>3
    <3>2. ASSUME NEW o \in Of(k - 1) PROVE o \in Of(k)
      <4>1. PICK j \in 1 .. k - 1 : o[1] = s[j]
        OBVIOUS
      <4>2. j \in 1 .. k
        OBVIOUS
      <4> QED BY <4>1, <4>2
    <3>3. ASSUME NEW i \in bitmap[x] PROVE <<x, i>> \in Of(k)
      <4>1. <<x, i>> \in held
        BY <1>3, <1>4, <2>1
      <4>2. k \in 1 .. k
        BY <1>2
      <4> QED BY <4>1, <4>2
    <3> HIDE DEF Of
    <3> QED BY <3>1, <3>2, <3>3
  <2>3. Of(k - 1) \cap X = {}
    <3> SUFFICES ASSUME NEW o \in Of(k - 1), o \in X PROVE FALSE
      OBVIOUS
    <3>1. PICK j \in 1 .. k - 1 : o[1] = s[j]
      OBVIOUS
    <3>2. s[j] = s[k]
      BY <3>1
    <3>3. j \in 1 .. m /\ j # k
      BY <1>2
    <3> QED BY <1>2, <3>2, <3>3 DEF IsInjective
  <2>4. IsFiniteSet(X) /\ Cardinality(X) = Cardinality(bitmap[x])
    <3> DEFINE B == bitmap[x]
               c == Cardinality(B)
    <3>1. IsFiniteSet(B) /\ c \in Nat /\ IsFiniteSet({x}) /\ Cardinality({x}) = 1
      BY <1>1, <2>1, FS_Singleton
    <3> HIDE DEF B, x
    <3>2. IsFiniteSet({x} \X B) /\ Cardinality({x} \X B) = 1 * c
      BY <3>1, FS_Product DEF c
    <3> HIDE DEF c
    <3> QED BY <3>1, <3>2 DEF B, c
  <2>5. IsFiniteSet(Of(k - 1)) /\ Cardinality(Of(k - 1)) \in Nat
    BY <1>5, <2>1
  <2> HIDE DEF Of, X
  <2>6. /\ Cardinality(Of(k - 1) \cup X)
             = Cardinality(Of(k - 1)) + Cardinality(X) - Cardinality(Of(k - 1) \cap X)
    BY <2>4, <2>5, FS_Union
  <2>7. Cardinality(Of(k - 1) \cap X) = 0
    BY <2>3, FS_EmptySet
  <2> HIDE DEF x
  <2>8. Cardinality(X) \in Nat
    BY <2>4, FS_CardinalityType
  <2>9. Cardinality(Of(k)) = Cardinality(Of(k - 1)) + Cardinality(X)
    BY <2>2, <2>5, <2>6, <2>7, <2>8
  <2> QED BY <2>4, <2>9 DEF x
<1> HIDE DEF Of
<1>7. AddsUp(w, f)
  <2>1. w \in Seq(Int) /\ Len(w) = m
    <3>1. \A k \in 1 .. m : free_count[s[k]] \in Int
      BY <1>1, <1>2
    <3> QED BY <1>2, <3>1 DEF m
  <2>2. f \in [0 .. m -> Int]
    <3>1. ASSUME NEW k \in 0 .. m PROVE n * k - Cardinality(Of(k)) \in Int
      BY <1>1, <1>5
    <3> QED BY <3>1
  <2>3. f[0] = 0
    <3>1. Of(0) = {}
      BY DEF Of
    <3>2. 0 \in 0 .. m /\ n * 0 = 0
      BY <1>1, <1>2
    <3>3. f[0] = n * 0 - Cardinality(Of(0))
      BY <3>2
    <3>4. Cardinality(Of(0)) = 0
      BY <3>1, FS_EmptySet
    <3> QED BY <3>2, <3>3, <3>4
  <2>4. ASSUME NEW k \in 1 .. m PROVE f[k] = f[k - 1] + w[k]
    <3> DEFINE j == k - 1
               c == Cardinality(bitmap[s[k]])
               d == Cardinality(Of(j))
    <3>1. k \in 0 .. m /\ j \in 0 .. m /\ j \in Nat /\ k = j + 1 /\ s[k] \in Page
      BY <1>2
    <3>2. w[k] = n - c
      BY <1>2, <1>3 DEF m
    <3>3. f[k] = n * k - (d + c) /\ c \in Nat /\ d \in Nat
      BY <1>1, <1>5, <1>6, <3>1
    <3>4. f[j] = n * j - d
      BY <3>1
    <3> HIDE DEF f, j, c, d
    <3>5. n * k = n * j + n /\ n * j \in Int
      BY <1>1, <3>1
    <3>6. f[k] = f[j] + w[k]
      BY <1>1, <3>2, <3>3, <3>4, <3>5
    <3> QED BY <3>6 DEF j
  <2> HIDE DEF f
  <2> QED BY <2>1, <2>2, <2>3, <2>4 DEF AddsUp
<1>8. w \in Seq(Int) /\ Len(w) = m
  <2>1. \A k \in 1 .. m : free_count[s[k]] \in Int
    BY <1>1, <1>2
  <2> QED BY <1>2, <2>1 DEF m
<1>9. Total(w) = f[m]
  <2> HIDE DEF f
  <2> QED BY <1>7, <1>8, TotalIs
<1>10. Of(m) = held
  <2>1. ASSUME NEW o \in held PROVE o \in Of(m)
    <3>1. PICK x \in Page, i \in I : o = <<x, i>>
      BY <1>3
    <3>2. i \in bitmap[x]
      BY <1>3, <1>4, <3>1
    <3>3. x \in A
      BY <1>3, <3>2
    <3>4. PICK j \in 1 .. m : s[j] = x
      BY <1>2, <3>3 DEF ToSet
    <3> QED BY <3>1, <3>4 DEF Of
  <2> QED BY <2>1 DEF Of
<1>11. m = Cardinality(A)
  BY InjectiveSize DEF m
<1>12. f[m] = n * m - Cardinality(Of(m))
  BY <1>2
<1> QED BY <1>9, <1>10, <1>11, <1>12 DEF n

LEMMA DestroyKeeps ==
  ASSUME SlabInv, slab_cache_destroy, UNCHANGED objects_per_slab
  PROVE  SlabInv'
<1> DEFINE n == objects_per_slab
           gone == Chain(slabs, "full") \o Chain(slabs, "partial") \o Chain(slabs, "empty")
           free == [k \in 1 .. Len(gone) |-> free_count[gone[k]]]
<1>1. PICK A \in SUBSET Page : Listed(A) /\ Accounted(A)
  BY DEF SlabInv
<1>2. PICK S \in [Heads -> SUBSET Page] :
        ListsHold(slabs, S) /\ Placed(free_count, n, S) /\ Are(S, A)
  BY <1>1 DEF Listed
<1>3. SlabTypes /\ n \in Nat
  BY DEF SlabInv, SlabTypes
<1>4. /\ slabs' = [slabs EXCEPT !.head = [h \in DOMAIN slabs.head |-> NULL]]
      /\ counts' = [total_slabs   |-> counts.total_slabs - Len(gone),
                    free_objects  |-> counts.free_objects - Total(free),
                    total_objects |-> counts.total_objects - n * Len(gone)]
      /\ bitmap' = [s \in Page |-> {}] /\ held' = {} /\ free_count' = free_count /\ n' = n
  BY DEF slab_cache_destroy
<1>5. gone \in Seq(Page) /\ IsInjective(gone) /\ ToSet(gone) = A
  BY <1>2, WalkedAll
<1> DEFINE total == Total(free)
<1> HIDE DEF gone
<1>6. total = n * Cardinality(A) - Cardinality(held)
  <2> DEFINE w == free
  <2>1. w = [k \in 1 .. Len(gone) |-> free_count[gone[k]]]
    OBVIOUS
  <2> HIDE DEF w
  <2>2. Total(w) = objects_per_slab * Cardinality(A) - Cardinality(held)
    BY <1>1, <1>3, <1>5, <2>1, FreeAddsUp
  <2> QED BY <2>2 DEF w
<1>7. Len(gone) = Cardinality(A) /\ Cardinality(A) \in Nat /\ Cardinality(held) \in Nat
  BY <1>1, <1>3, <1>5, InjectiveSize, HeldFinite
<1> HIDE DEF total
<1>8. counts' = [total_slabs |-> 0, free_objects |-> 0, total_objects |-> 0]
  <2> DEFINE a == Cardinality(A)
             m == n * a
             h == Cardinality(held)
  <2>1. counts = [total_slabs |-> a, free_objects |-> m - h, total_objects |-> m]
    BY <1>1 DEF Accounted, CountsAre
  <2>2. counts' = [total_slabs   |-> counts.total_slabs - a,
                   free_objects  |-> counts.free_objects - total,
                   total_objects |-> counts.total_objects - m]
    BY <1>4, <1>7 DEF total
  <2>3. total = m - h /\ a \in Nat /\ m \in Int /\ h \in Nat
    BY <1>3, <1>6, <1>7
  <2> HIDE DEF a, m, h
  <2>4. a - a = 0 /\ (m - h) - total = 0 /\ m - m = 0
    BY <2>3
  <2> QED BY <2>1, <2>2, <2>4
<1>9. Accounted({})'
  <2>1. Cardinality({}) = 0 /\ n * 0 = 0 /\ 0 - 0 = 0
    BY <1>3, FS_EmptySet
  <2>2. CountsAre({})'
    BY <1>4, <1>8, <2>1 DEF CountsAre
  <2> QED BY <1>4, <2>2 DEF Accounted, Marked
<1>10. Listed({})'
  <2>1. ListTypes(slabs)
    BY <1>2 DEF ListsHold
  <2>2. slabs' = [slabs EXCEPT !.head = [h \in Heads |-> NULL]]
    BY <1>4, <2>1 DEF ListTypes
  <2>3. ListTypes(slabs') /\ \A h \in Heads : slabs'.head[h] = NULL
    BY <2>1, <2>2 DEF ListTypes
  <2> QED BY <2>3, NoSlabs DEF Listed
<1>11. SlabTypes'
  BY <1>3, <1>4 DEF SlabTypes
<1> QED BY <1>9, <1>10, <1>11 DEF SlabInv

LEMMA SlabsInitial == SlabInit => SlabInv
<1> SUFFICES ASSUME SlabInit PROVE SlabInv
  OBVIOUS
<1>1. ListTypes(slabs) /\ \A h \in Heads : slabs.head[h] = NULL
  BY DEF SlabInit, ListTypes, Heads
<1>2. SlabTypes
  BY SlabAssumption DEF SlabInit, SlabTypes
<1>3. Listed({})
  BY <1>1, NoSlabs DEF Listed
<1>4. Accounted({})
  <2>1. Cardinality({}) = 0 /\ objects_per_slab * 0 = 0 /\ 0 - 0 = 0
    BY <1>2, FS_EmptySet DEF SlabTypes
  <2>2. CountsAre({})
    BY <2>1 DEF SlabInit, CountsAre
  <2> QED BY <2>2 DEF SlabInit, Accounted, Marked
<1> QED BY <1>2, <1>3, <1>4 DEF SlabInv

LEMMA SlabStep == SlabInv /\ [SlabNext]_slabVars => SlabInv'
<1> SUFFICES ASSUME SlabInv, [SlabNext]_slabVars PROVE SlabInv'
  OBVIOUS
<1>1. CASE UNCHANGED slabVars
  BY <1>1 DEF slabVars, SlabInv, SlabTypes, Listed, Accounted, Marked, CountsAre
<1>2. CASE (AllocPartial \/ AllocEmpty \/ AllocNew) /\ UNCHANGED objects_per_slab
  BY <1>2, AllocKeeps
<1>3. ASSUME NEW o \in held, slab_free(o[1], o[2]), UNCHANGED objects_per_slab PROVE SlabInv'
  <2>1. PICK A \in SUBSET Page : Listed(A) /\ Accounted(A)
    BY DEF SlabInv
  <2>2. SlabTypes /\ o = <<o[1], o[2]>>
    BY <2>1 DEF SlabInv, Accounted
  <2>3. SlabTypes' /\ Listed(A)' /\ o[1] \in A
    BY <1>3, <2>1, <2>2, FreePlaces
  <2>4. Accounted(A)'
    <3> DEFINE s == o[1]
               i == o[2]
    <3>1. s \in A /\ <<s, i>> \in held /\ slab_free(s, i)
      BY <1>3, <2>2, <2>3
    <3> HIDE DEF s, i
    <3> QED BY <1>3, <2>1, <2>2, <3>1, FreeAccounts
  <2> QED BY <2>3, <2>4 DEF SlabInv
<1>4. CASE slab_cache_destroy /\ UNCHANGED objects_per_slab
  BY <1>4, DestroyKeeps
<1> QED BY <1>1, <1>2, <1>3, <1>4 DEF SlabNext

(* After any sequence of slab_alloc, slab_free and slab_cache_destroy a    *)
(* slab is in exactly one list, the one its number of free objects asks    *)
(* for, and the links of the three lists are whole (slab.c:206-258,        *)
(* 329-355).                                                               *)
THEOREM SlabsAreListed == SlabSpec => []SlabsInTheirList
<1>1. SlabInv => SlabsInTheirList
  <2> SUFFICES ASSUME SlabInv PROVE SlabsInTheirList
    OBVIOUS
  <2>1. PICK S \in [Heads -> SUBSET Page] :
          ListsHold(slabs, S) /\ Placed(free_count, objects_per_slab, S)
    BY DEF SlabInv, Listed
  <2>2. /\ DOMAIN slabs.head = Heads /\ AllSlabs = UNION {S[h] : h \in Heads}
        /\ \A h \in Heads : SlabsOf(h) = S[h] /\ WellLinked(slabs, h)
    BY <2>1, SlabsRead
  <2>3. ASSUME NEW x \in AllSlabs, NEW h \in Heads
        PROVE  x \in SlabsOf(h) <=>
                 h = CASE free_count[x] = 0                -> "full"
                       [] free_count[x] = objects_per_slab -> "empty"
                       [] OTHER                            -> "partial"
    <3>1. PICK g \in Heads : x \in S[g]
      BY <2>2
    <3>2. x \in SlabsOf(h) <=> h = g
      BY <2>1, <2>2, <3>1 DEF ListsHold
    <3>3. Belongs(g, free_count[x], objects_per_slab) /\ objects_per_slab \in Nat
      BY <2>1, <3>1 DEF Placed, SlabInv, SlabTypes
    <3>4. g = CASE free_count[x] = 0                -> "full"
                [] free_count[x] = objects_per_slab -> "empty"
                [] OTHER                            -> "partial"
      BY <3>3 DEF Belongs, Heads
    <3> QED BY <3>2, <3>4
  <2> QED BY <2>2, <2>3 DEF SlabsInTheirList
<1> QED BY <1>1, SlabsInitial, SlabStep, PTL DEF SlabSpec

(* What the bitmaps, the counters of the slabs and the counters of the     *)
(* cache say is what the clients hold, after any sequence of calls, also   *)
(* when the cache was destroyed in between: no object is handed out twice  *)
(* or lost (slab.c:236-241, 312-318, 176-179, 360-383).                    *)
THEOREM SlabObjectsCounted == SlabSpec => []ObjectsAccounted
<1>1. SlabInv => ObjectsAccounted
  <2> SUFFICES ASSUME SlabInv PROVE ObjectsAccounted
    OBVIOUS
  <2>1. PICK A \in SUBSET Page : Listed(A) /\ Accounted(A)
    BY DEF SlabInv
  <2>2. AllSlabs = A
    BY <2>1, SlabsAre
  <2>3. held = UNION {{s} \X bitmap[s] : s \in A}
    <3> DEFINE I == 0 .. objects_per_slab - 1
    <3>1. /\ bitmap \in [Page -> SUBSET I] /\ held \subseteq Page \X I
          /\ \A x \in Page, k \in Nat : <<x, k>> \in held <=> k \in bitmap[x]
          /\ \A x \in Page \ A : bitmap[x] = {}
      BY <2>1 DEF Accounted, Marked
    <3>2. I \subseteq Nat
      BY DEF SlabInv, SlabTypes
    <3> HIDE DEF I
    <3>3. ASSUME NEW o \in held PROVE \E s \in A : o \in {s} \X bitmap[s]
      <4>1. PICK x \in Page, k \in I : o = <<x, k>>
        BY <3>1
      <4> QED BY <3>1, <3>2, <4>1
    <3>4. ASSUME NEW s \in A, NEW o \in {s} \X bitmap[s] PROVE o \in held
      <4>1. PICK k \in bitmap[s] : o = <<s, k>>
        OBVIOUS
      <4> QED BY <3>1, <3>2, <4>1
    <3> QED BY <3>3, <3>4
  <2>4. \A s \in A : free_count[s] = objects_per_slab - Cardinality(bitmap[s])
    BY <2>1 DEF Accounted
  <2>5. /\ counts.total_slabs = Cardinality(A)
        /\ counts.total_objects = objects_per_slab * counts.total_slabs
        /\ counts.free_objects = counts.total_objects - Cardinality(held)
    BY <2>1 DEF Accounted, CountsAre
  <2> QED BY <2>2, <2>3, <2>4, <2>5 DEF ObjectsAccounted
<1> QED BY <1>1, SlabsInitial, SlabStep, PTL DEF SlabSpec

(* A page is taken from the frame allocator only when every object of      *)
(* every slab is in use (slab.c:201-234).                                  *)
THEOREM NewSlabsAreNeeded == SlabSpec => NewSlabOnlyWhenFull
<1>1. SlabInv /\ [SlabNext]_slabVars
        => (counts'.total_slabs > counts.total_slabs => counts.free_objects = 0)
  <2> SUFFICES ASSUME SlabInv, [SlabNext]_slabVars, counts'.total_slabs > counts.total_slabs
               PROVE  counts.free_objects = 0
    OBVIOUS
  <2>1. PICK A \in SUBSET Page : Listed(A) /\ Accounted(A)
    BY DEF SlabInv
  <2>2. PICK S \in [Heads -> SUBSET Page] :
          ListsHold(slabs, S) /\ Placed(free_count, objects_per_slab, S) /\ Are(S, A)
    BY <2>1 DEF Listed
  <2>3. SlabTypes /\ counts.total_slabs \in Nat
    <3>1. SlabTypes
      BY DEF SlabInv
    <3> QED BY <2>1, <3>1, HeldFinite DEF Accounted, CountsAre
  <2>4. counts'.total_slabs # counts.total_slabs
    BY <2>3
  <2>5. CASE AllocNew
    <3>1. slabs.head["partial"] = NULL /\ slabs.head["empty"] = NULL
      BY <2>5 DEF AllocNew, UseEmpty
    <3>2. S["partial"] = {} /\ S["empty"] = {}
      BY <2>2, <3>1, EmptyList DEF Heads
    <3>3. ASSUME NEW s \in A PROVE free_count[s] = 0
      <4>1. s \in S["full"]
        BY <2>2, <3>2 DEF Are, Heads
      <4> QED BY <2>2, <4>1 DEF Placed, Belongs, Heads
    <3> QED BY <2>1, <2>3, <3>3, FullIsFull
  <2>6. CASE AllocPartial
    BY <2>4, <2>6 DEF AllocPartial, Take
  <2>7. CASE AllocEmpty
    BY <2>4, <2>7 DEF AllocEmpty, Take
  <2>8. CASE \E o \in held : slab_free(o[1], o[2])
    BY <2>4, <2>8 DEF slab_free
  <2>9. CASE slab_cache_destroy
    <3> DEFINE gone == Chain(slabs, "full") \o Chain(slabs, "partial") \o Chain(slabs, "empty")
    <3>1. counts'.total_slabs = counts.total_slabs - Len(gone)
      BY <2>9 DEF slab_cache_destroy
    <3>2. Len(gone) \in Nat
      BY <2>2, WalkedAll
    <3> HIDE DEF gone
    <3> QED BY <2>3, <3>1, <3>2
  <2>10. CASE UNCHANGED slabVars
    BY <2>4, <2>10 DEF slabVars
  <2> QED BY <2>5, <2>6, <2>7, <2>8, <2>9, <2>10 DEF SlabNext
<1> QED BY <1>1, SlabsInitial, SlabStep, PTL DEF SlabSpec, NewSlabOnlyWhenFull

----------------------------------------------------------------------------
(* The tree of files. *)

(* The fields of the nodes: parents exist. *)
Fields(f) ==
  /\ f \in [name : Seq(Name \cup {"/"}), type : Seq(Kind), parent : Seq(Nat \cup {NULL}),
            sibling : Seq(Nat \cup {NULL}), child : Seq(Nat \cup {NULL})]
  /\ Len(f.name) = Len(f.type) /\ Len(f.parent) = Len(f.type)
  /\ Len(f.sibling) = Len(f.type) /\ Len(f.child) = Len(f.type)
  /\ vfs_root \in DOMAIN f.type
  /\ \A n \in DOMAIN f.type : f.parent[n] \in DOMAIN f.type \cup {NULL}

(* The links of d lead through s, the nodes whose parent it is. *)
Hangs(f, d, s) ==
  /\ s \in Seq(DOMAIN f.type) /\ IsInjective(s)
  /\ LinkedAs(f.sibling, f.child[d], s)
  /\ ToSet(s) = {n \in DOMAIN f.type : f.parent[n] = d}
  /\ s # <<>> => f.type[d] = "dir"

FilesHold(f) == Fields(f) /\ \A d \in DOMAIN f.type : \E s : Hangs(f, d, s)

(* What the fields are, for a file system of n nodes. *)
LEMMA FieldsAre ==
  ASSUME NEW f, Fields(f)
  PROVE  \E n \in Nat :
           /\ DOMAIN f.type = 1 .. n /\ Len(f.type) = n
           /\ f.type \in [1 .. n -> Kind] /\ f.parent \in [1 .. n -> (1 .. n) \cup {NULL}]
           /\ f.sibling \in [1 .. n -> Nat \cup {NULL}] /\ f.child \in [1 .. n -> Nat \cup {NULL}]
<1>1. Len(f.type) \in Nat /\ DOMAIN f.type = 1 .. Len(f.type)
  BY DEF Fields
<1>2. f.type \in [1 .. Len(f.type) -> Kind]
  BY DEF Fields
<1>3. /\ f.sibling \in [1 .. Len(f.type) -> Nat \cup {NULL}]
      /\ f.child \in [1 .. Len(f.type) -> Nat \cup {NULL}]
  <2>1. ASSUME NEW S, NEW q \in Seq(S), Len(q) = Len(f.type)
        PROVE  q \in [1 .. Len(f.type) -> S]
    BY <2>1
  <2>2. f.sibling \in Seq(Nat \cup {NULL}) /\ Len(f.sibling) = Len(f.type)
    BY DEF Fields
  <2>3. f.child \in Seq(Nat \cup {NULL}) /\ Len(f.child) = Len(f.type)
    BY DEF Fields
  <2> DEFINE T == Nat \cup {NULL}
  <2> HIDE DEF T
  <2>4. f.sibling \in [1 .. Len(f.type) -> T]
    BY <2>1, <2>2 DEF T
  <2>5. f.child \in [1 .. Len(f.type) -> T]
    BY <2>1, <2>3 DEF T
  <2> QED BY <2>4, <2>5 DEF T
<1>4. f.parent \in [1 .. Len(f.type) -> (1 .. Len(f.type)) \cup {NULL}]
  <2>1. f.parent \in [1 .. Len(f.type) -> Nat \cup {NULL}]
    BY DEF Fields
  <2>2. \A n \in 1 .. Len(f.type) : f.parent[n] \in (1 .. Len(f.type)) \cup {NULL}
    <3>1. \A n \in DOMAIN f.type : f.parent[n] \in DOMAIN f.type \cup {NULL}
      BY DEF Fields
    <3> QED BY <1>1, <3>1
  <2> QED BY <2>1, <2>2
<1> QED BY <1>1, <1>2, <1>3, <1>4

(* Walking the children of d. *)
LEMMA ChildrenAre ==
  ASSUME Fields(fs), NEW d, NEW s, Hangs(fs, d, s)
  PROVE  Children(d) = s
<1> DEFINE link == fs.sibling
           p == fs.child[d]
           S == DOMAIN fs.type
<1>1. PICK n \in Nat : S = 1 .. n /\ DOMAIN link = 1 .. n
  BY FieldsAre
<1>2. IsFiniteSet(S) /\ NULL \notin S /\ DOMAIN link = S
  BY <1>1, VfsAssumption, FS_Interval
<1>3. s \in Seq(S) /\ IsInjective(s) /\ LinkedAs(link, p, s)
  BY DEF Hangs
<1> HIDE DEF link, p, S
<1>4. ChainFrom(link, p) = s
  BY <1>2, <1>3, ChainIs
<1> QED BY <1>4 DEF Children, link, p

(* A new node without a parent ... *)
LEMMA CreateHolds ==
  ASSUME NEW f, FilesHold(f), NEW m \in Name \cup {"/"}, NEW t \in Kind
  PROVE  /\ FilesHold(vfs_create_node(f, m, t))
         /\ DOMAIN vfs_create_node(f, m, t).type = 1 .. Len(f.type) + 1
         /\ vfs_create_node(f, m, t).parent[Len(f.type) + 1] = NULL
         /\ Hangs(vfs_create_node(f, m, t), Len(f.type) + 1, <<>>)
<1> DEFINE g == vfs_create_node(f, m, t)
<1>1. PICK n \in Nat :
        /\ DOMAIN f.type = 1 .. n /\ Len(f.type) = n
        /\ f.parent \in [1 .. n -> (1 .. n) \cup {NULL}]
  BY FieldsAre DEF FilesHold
<1>2. Fields(g)
  <2>1. /\ g \in [name : Seq(Name \cup {"/"}), type : Seq(Kind), parent : Seq(Nat \cup {NULL}),
                  sibling : Seq(Nat \cup {NULL}), child : Seq(Nat \cup {NULL})]
    BY DEF FilesHold, Fields, vfs_create_node
  <2>2. /\ Len(g.name) = n + 1 /\ Len(g.type) = n + 1 /\ Len(g.parent) = n + 1
        /\ Len(g.sibling) = n + 1 /\ Len(g.child) = n + 1
    BY <1>1 DEF FilesHold, Fields, vfs_create_node
  <2>3. DOMAIN g.type = 1 .. n + 1 /\ vfs_root \in 1 .. n + 1
    BY <2>1, <2>2, <1>1 DEF FilesHold, Fields, vfs_root
  <2>4. ASSUME NEW k \in 1 .. n + 1 PROVE g.parent[k] \in 1 .. n + 1 \cup {NULL}
    <3>1. g.parent = Append(f.parent, NULL) /\ f.parent \in Seq(Nat \cup {NULL}) /\ Len(f.parent) = n
      BY <1>1 DEF vfs_create_node, FilesHold, Fields
    <3>2. CASE k = n + 1
      BY <3>1, <3>2
    <3>3. CASE k # n + 1
      <4>1. k \in 1 .. n
        BY <3>3
      <4> QED BY <1>1, <3>1, <4>1
    <3> QED BY <3>2, <3>3
  <2> HIDE DEF g
  <2>5. \A k \in DOMAIN g.type : g.parent[k] \in DOMAIN g.type \cup {NULL}
    BY <2>3, <2>4
  <2> QED BY <2>1, <2>2, <2>3, <2>5 DEF Fields
<1>3. /\ DOMAIN g.type = 1 .. n + 1
      /\ \A k \in 1 .. n : /\ g.type[k] = f.type[k] /\ g.parent[k] = f.parent[k]
                           /\ g.sibling[k] = f.sibling[k] /\ g.child[k] = f.child[k]
      /\ g.parent[n + 1] = NULL /\ g.child[n + 1] = NULL
  <2>1. DOMAIN g.type = 1 .. n + 1
    BY <1>1 DEF vfs_create_node, FilesHold, Fields
  <2>2. ASSUME NEW S, NEW q \in Seq(S), NEW v \in S, Len(q) = n
        PROVE  Append(q, v)[n + 1] = v /\ \A k \in 1 .. n : Append(q, v)[k] = q[k]
    BY <2>2
  <2>3. \A k \in 1 .. n : g.type[k] = f.type[k]
    <3>1. g.type = Append(f.type, t) /\ f.type \in Seq(Kind) /\ Len(f.type) = n
      BY <1>1 DEF vfs_create_node, FilesHold, Fields
    <3> QED BY <2>2, <3>1
  <2>4. g.parent[n + 1] = NULL /\ \A k \in 1 .. n : g.parent[k] = f.parent[k]
    <3>1. /\ g.parent = Append(f.parent, NULL)
          /\ f.parent \in Seq(Nat \cup {NULL}) /\ Len(f.parent) = n
      BY <1>1 DEF vfs_create_node, FilesHold, Fields
    <3> QED BY <2>2, <3>1
  <2>5. \A k \in 1 .. n : g.sibling[k] = f.sibling[k]
    <3>1. /\ g.sibling = Append(f.sibling, NULL)
          /\ f.sibling \in Seq(Nat \cup {NULL}) /\ Len(f.sibling) = n
      BY <1>1 DEF vfs_create_node, FilesHold, Fields
    <3> QED BY <2>2, <3>1
  <2>6. g.child[n + 1] = NULL /\ \A k \in 1 .. n : g.child[k] = f.child[k]
    <3>1. /\ g.child = Append(f.child, NULL)
          /\ f.child \in Seq(Nat \cup {NULL}) /\ Len(f.child) = n
      BY <1>1 DEF vfs_create_node, FilesHold, Fields
    <3> QED BY <2>2, <3>1
  <2> QED BY <2>1, <2>3, <2>4, <2>5, <2>6
<1> HIDE DEF g
<1>4. ASSUME NEW d \in 1 .. n PROVE \E s : Hangs(g, d, s)
  <2>1. PICK s : Hangs(f, d, s)
    BY <1>1 DEF FilesHold
  <2>2. s \in Seq(1 .. n) /\ \A i \in DOMAIN s : s[i] \in 1 .. n
    BY <1>1, <2>1 DEF Hangs
  <2>3. s \in Seq(1 .. n + 1)
    BY <2>2
  <2>4. LinkedAs(g.sibling, g.child[d], s)
    BY <1>3, <2>1, <2>2 DEF Hangs, LinkedAs
  <2>5. ToSet(s) = {k \in 1 .. n + 1 : g.parent[k] = d}
    <3>1. NULL # d
      BY VfsAssumption
    <3>2. \A k \in 1 .. n + 1 : k = n + 1 \/ k \in 1 .. n
      OBVIOUS
    <3>3. \A k \in 1 .. n : k \in 1 .. n + 1
      OBVIOUS
    <3> QED BY <1>1, <1>3, <2>1, <3>1, <3>2, <3>3 DEF Hangs
  <2> QED BY <1>3, <2>1, <2>3, <2>4, <2>5 DEF Hangs
<1>5. Hangs(g, n + 1, <<>>)
  <2>1. \A k \in 1 .. n + 1 : g.parent[k] # n + 1
    <3>1. NULL # n + 1 /\ \A k \in 1 .. n : k # n + 1
      BY VfsAssumption
    <3>2. \A k \in 1 .. n + 1 : k = n + 1 \/ k \in 1 .. n
      OBVIOUS
    <3> QED BY <1>1, <1>3, <3>1, <3>2
  <2> QED BY <1>3, <2>1 DEF Hangs, LinkedAs, NodeAt, IsInjective, ToSet
<1>6. \A d \in 1 .. n + 1 : d = n + 1 \/ d \in 1 .. n
  OBVIOUS
<1>7. FilesHold(g)
  BY <1>2, <1>3, <1>4, <1>5, <1>6 DEF FilesHold
<1> QED BY <1>1, <1>3, <1>5, <1>7 DEF g

(* ... becomes the first child of d, if that is a directory. *)
LEMMA AddHolds ==
  ASSUME NEW f, FilesHold(f), NEW d \in DOMAIN f.type, NEW c \in DOMAIN f.type,
         c # d, f.parent[c] = NULL, Hangs(f, c, <<>>)
  PROVE  FilesHold(vfs_add_child(f, d, c))
<1> DEFINE g == vfs_add_child(f, d, c)
<1> SUFFICES ASSUME f.type[d] = "dir" PROVE FilesHold(g)
  BY DEF vfs_add_child
<1>1. PICK n \in Nat :
        /\ DOMAIN f.type = 1 .. n /\ Len(f.type) = n
        /\ f.type \in [1 .. n -> Kind] /\ f.parent \in [1 .. n -> (1 .. n) \cup {NULL}]
        /\ f.sibling \in [1 .. n -> Nat \cup {NULL}] /\ f.child \in [1 .. n -> Nat \cup {NULL}]
  BY FieldsAre DEF FilesHold
<1>2. g = [f EXCEPT !.parent[c] = d, !.sibling[c] = f.child[d], !.child[d] = c]
  BY DEF vfs_add_child
<1>3. /\ g.name = f.name /\ g.type = f.type
      /\ g.parent = [f.parent EXCEPT ![c] = d]
      /\ g.sibling = [f.sibling EXCEPT ![c] = f.child[d]]
      /\ g.child = [f.child EXCEPT ![d] = c]
      /\ g = [name |-> g.name, type |-> g.type, parent |-> g.parent,
              sibling |-> g.sibling, child |-> g.child]
  BY <1>2 DEF FilesHold, Fields
<1> HIDE DEF g
<1>4. Fields(g)
  <2>1. /\ g.parent \in Seq(Nat \cup {NULL}) /\ Len(g.parent) = n
        /\ g.sibling \in Seq(Nat \cup {NULL}) /\ Len(g.sibling) = n
        /\ g.child \in Seq(Nat \cup {NULL}) /\ Len(g.child) = n
    BY <1>1, <1>3 DEF FilesHold, Fields
  <2>2. \A k \in 1 .. n : g.parent[k] \in 1 .. n \cup {NULL}
    BY <1>1, <1>3
  <2> QED BY <1>1, <1>3, <2>1, <2>2 DEF FilesHold, Fields
<1>5. \E s : Hangs(g, d, s)
  <2>1. PICK s : Hangs(f, d, s)
    BY DEF FilesHold
  <2> DEFINE r == <<c>> \o s
             p == f.child[d]
             link == f.sibling
             new == g.sibling
  <2>2. c \notin ToSet(s) /\ NULL # d
    BY <1>1, <2>1, VfsAssumption DEF Hangs
  <2>3. r \in Seq(1 .. n) /\ IsInjective(r) /\ ToSet(r) = ToSet(s) \cup {c}
    BY <1>1, <2>1, <2>2, InjectivePrepend DEF Hangs
  <2>4. \A i \in DOMAIN s : s[i] \in 1 .. n /\ s[i] # c
    BY <1>1, <2>1, <2>2 DEF Hangs, ToSet
  <2>5. /\ s \in Seq(1 .. n) /\ LinkedAs(link, p, s) /\ c \in 1 .. n
        /\ new[c] = p /\ \A i \in DOMAIN s : new[s[i]] = link[s[i]]
    BY <1>1, <1>3, <2>1, <2>4 DEF Hangs
  <2> HIDE DEF p, link, new
  <2>6. LinkedAs(new, c, <<c>> \o s)
    BY <2>5, LinkedPush
  <2>7. g.child[d] = c
    BY <1>1, <1>3
  <2>8. ToSet(r) = {k \in 1 .. n : g.parent[k] = d}
    <3>1. ASSUME NEW k \in 1 .. n
          PROVE  g.parent[k] = d <=> k = c \/ f.parent[k] = d
      BY <1>1, <1>3
    <3>2. \A k : k \in ToSet(s) <=> k \in 1 .. n /\ f.parent[k] = d
      BY <1>1, <2>1 DEF Hangs
    <3>3. \A k : k \in ToSet(r) <=> k \in ToSet(s) \/ k = c
      BY <2>3
    <3>4. c \in 1 .. n
      BY <1>1
    <3> HIDE DEF r
    <3> QED BY <3>1, <3>2, <3>3, <3>4
  <2> HIDE DEF r
  <2>9. Hangs(g, d, r)
    BY <1>1, <1>3, <2>3, <2>6, <2>7, <2>8 DEF Hangs, r, new
  <2> QED BY <2>9
<1>6. ASSUME NEW e \in 1 .. n, e # d PROVE \E s : Hangs(g, e, s)
  <2>1. PICK s : Hangs(f, e, s)
    BY <1>1 DEF FilesHold
  <2>2. \A i \in DOMAIN s : s[i] \in 1 .. n /\ s[i] # c
    <3>1. NULL # e
      BY VfsAssumption
    <3> QED BY <1>1, <2>1, <3>1 DEF Hangs, ToSet
  <2>3. LinkedAs(g.sibling, g.child[e], s)
    BY <1>1, <1>3, <1>6, <2>1, <2>2 DEF Hangs, LinkedAs
  <2>4. ToSet(s) = {k \in 1 .. n : g.parent[k] = e}
    <3>1. NULL # e
      BY VfsAssumption
    <3> QED BY <1>1, <1>3, <1>6, <2>1, <3>1 DEF Hangs
  <2> QED BY <1>1, <1>3, <2>1, <2>3, <2>4 DEF Hangs
<1>7. \A e \in 1 .. n : \E s : Hangs(g, e, s)
  BY <1>5, <1>6
<1>8. DOMAIN g.type = 1 .. n
  BY <1>1, <1>3
<1> QED BY <1>4, <1>7, <1>8 DEF FilesHold

(* What vfs_mkdir, vfs_create and the reading of a directory do. *)
LEMMA GrowHolds ==
  ASSUME NEW f, FilesHold(f), NEW d \in DOMAIN f.type, NEW m \in Name, NEW t \in Kind
  PROVE  /\ FilesHold(vfs_add_child(vfs_create_node(f, m, t), d, Len(f.type) + 1))
         /\ d \in DOMAIN vfs_add_child(vfs_create_node(f, m, t), d, Len(f.type) + 1).type
<1> DEFINE g == vfs_create_node(f, m, t)
           c == Len(f.type) + 1
<1>1. FilesHold(g) /\ DOMAIN g.type = 1 .. c /\ g.parent[c] = NULL /\ Hangs(g, c, <<>>)
  BY CreateHolds
<1>2. Len(f.type) \in Nat /\ DOMAIN f.type = 1 .. Len(f.type)
  BY DEF FilesHold, Fields
<1>3. c \in DOMAIN g.type /\ d \in DOMAIN g.type /\ c # d
  BY <1>1, <1>2
<1> HIDE DEF g, c
<1>4. FilesHold(vfs_add_child(g, d, c))
  BY <1>1, <1>3, AddHolds
<1>5. vfs_add_child(g, d, c).type = g.type
  BY <1>1 DEF vfs_add_child, FilesHold, Fields
<1> QED BY <1>3, <1>4, <1>5 DEF g, c

(* Taking node c out from between its siblings. *)
LEMMA RemoveHolds ==
  ASSUME FilesHold(fs), NEW d \in Created, NEW c \in Created, vfs_remove_child(d, c)
  PROVE  FilesHold(fs')
<1>1. PICK n \in Nat :
        /\ DOMAIN fs.type = 1 .. n /\ Len(fs.type) = n
        /\ fs.type \in [1 .. n -> Kind] /\ fs.parent \in [1 .. n -> (1 .. n) \cup {NULL}]
        /\ fs.sibling \in [1 .. n -> Nat \cup {NULL}] /\ fs.child \in [1 .. n -> Nat \cup {NULL}]
  BY FieldsAre DEF FilesHold
<1>2. PICK s : Hangs(fs, d, s)
  BY DEF FilesHold, Created
<1>3. Children(d) = s
  BY <1>2, ChildrenAre DEF FilesHold
<1>4. /\ s \in Seq(1 .. n) /\ IsInjective(s) /\ Len(s) \in Nat /\ DOMAIN s = 1 .. Len(s)
      /\ \A i \in DOMAIN s : s[i] \in 1 .. n /\ s[i] # NULL
      /\ \A i, j \in DOMAIN s : s[i] = s[j] => i = j
  BY <1>1, <1>2, VfsAssumption DEF Hangs, IsInjective
<1>5. c \in ToSet(s) /\ c \in 1 .. n /\ d \in 1 .. n
  BY <1>1, <1>3 DEF vfs_remove_child, Created
<1>6. PICK k \in DOMAIN s : s[k] = c
  BY <1>5 DEF ToSet
<1>7. fs.child[d] = s[1] /\ 1 \in DOMAIN s
  <2>1. 1 \in DOMAIN s
    BY <1>4
  <2> QED BY <1>2, <2>1 DEF Hangs, LinkedAs, NodeAt
<1> DEFINE before == CHOOSE x \in ToSet(s) : fs.sibling[x] = c
<1>8. k # 1 => k - 1 \in DOMAIN s /\ before = s[k - 1] /\ before # c
  <2> SUFFICES ASSUME k # 1 PROVE k - 1 \in DOMAIN s /\ before = s[k - 1] /\ before # c
    OBVIOUS
  <2>1. k - 1 \in DOMAIN s /\ (k - 1) + 1 = k /\ k - 1 # k
    BY <1>4
  <2>2. s[k - 1] \in ToSet(s) /\ fs.sibling[s[k - 1]] = c
    BY <1>2, <1>6, <2>1 DEF Hangs, LinkedAs, NodeAt, ToSet
  <2>3. ASSUME NEW x \in ToSet(s), fs.sibling[x] = c PROVE x = s[k - 1]
    <3>1. PICK i \in DOMAIN s : s[i] = x
      BY DEF ToSet
    <3>2. NodeAt(s, i + 1) = c
      BY <1>2, <2>3, <3>1 DEF Hangs, LinkedAs
    <3>3. i + 1 \in DOMAIN s /\ s[i + 1] = c
      BY <1>4, <1>6, <3>2 DEF NodeAt
    <3>4. i + 1 = k
      BY <1>4, <1>6, <3>3
    <3>5. i = k - 1
      BY <1>4, <3>4
    <3> QED BY <3>1, <3>5
  <2>4. before = s[k - 1]
    BY <2>2, <2>3
  <2> QED BY <1>4, <1>6, <2>1, <2>4
<1> HIDE DEF before
<1>9. /\ fs'.name = fs.name /\ fs'.type = fs.type
      /\ fs'.parent = [fs.parent EXCEPT ![c] = NULL]
      /\ fs'.child = [fs.child EXCEPT ![d] = IF k = 1 THEN fs.sibling[c] ELSE @]
      /\ \A x \in 1 .. n : fs'.sibling[x] =
           IF x = c THEN NULL ELSE IF k # 1 /\ x = before THEN fs.sibling[c] ELSE fs.sibling[x]
      /\ fs'.sibling \in Seq(Nat \cup {NULL}) /\ Len(fs'.sibling) = n
      /\ fs' = [name |-> fs'.name, type |-> fs'.type, parent |-> fs'.parent,
                sibling |-> fs'.sibling, child |-> fs'.child]
  <2>0. fs \in [name : Seq(Name \cup {"/"}), type : Seq(Kind), parent : Seq(Nat \cup {NULL}),
                sibling : Seq(Nat \cup {NULL}), child : Seq(Nat \cup {NULL})]
        /\ Len(fs.sibling) = n
    BY <1>1 DEF FilesHold, Fields
  <2>1. CASE k = 1
    <3>1. fs.child[d] = c
      BY <1>6, <1>7, <2>1
    <3>2. fs' = [[fs EXCEPT !.child[d] = fs.sibling[c]] EXCEPT !.parent[c] = NULL, !.sibling[c] = NULL]
      BY <3>1 DEF vfs_remove_child
    <3>3. /\ fs'.name = fs.name /\ fs'.type = fs.type
          /\ fs'.parent = [fs.parent EXCEPT ![c] = NULL]
          /\ fs'.child = [fs.child EXCEPT ![d] = fs.sibling[c]]
          /\ fs'.sibling = [fs.sibling EXCEPT ![c] = NULL]
          /\ fs' = [name |-> fs'.name, type |-> fs'.type, parent |-> fs'.parent,
                    sibling |-> fs'.sibling, child |-> fs'.child]
      BY <2>0, <3>2
    <3>4. fs'.sibling \in Seq(Nat \cup {NULL}) /\ Len(fs'.sibling) = n
      <4> DEFINE r == fs.sibling
                 T == Nat \cup {NULL}
      <4>1. r \in Seq(T) /\ NULL \in T /\ Len(r) = n /\ fs'.sibling = [r EXCEPT ![c] = NULL]
        BY <2>0, <3>3
      <4> HIDE DEF r, T
      <4>2. fs'.sibling \in Seq(T) /\ Len(fs'.sibling) = n
        BY <4>1, SeqUpdate
      <4> QED BY <4>2 DEF T
    <3>5. \A x \in 1 .. n : fs'.sibling[x] = IF x = c THEN NULL ELSE fs.sibling[x]
      BY <1>1, <3>3
    <3> QED BY <2>1, <3>3, <3>4, <3>5
  <2>2. CASE k # 1
    <3>1. fs.child[d] # c
      BY <1>4, <1>6, <1>7, <2>2
    <3>2. fs' = [[fs EXCEPT !.sibling[before] = fs.sibling[c]] EXCEPT !.parent[c] = NULL, !.sibling[c] = NULL]
      BY <1>3, <3>1 DEF vfs_remove_child, before
    <3>3. /\ fs'.name = fs.name /\ fs'.type = fs.type
          /\ fs'.parent = [fs.parent EXCEPT ![c] = NULL]
          /\ fs'.child = fs.child
          /\ fs'.sibling = [[fs.sibling EXCEPT ![before] = fs.sibling[c]] EXCEPT ![c] = NULL]
          /\ fs' = [name |-> fs'.name, type |-> fs'.type, parent |-> fs'.parent,
                    sibling |-> fs'.sibling, child |-> fs'.child]
      BY <2>0, <3>2
    <3>4. fs'.sibling \in Seq(Nat \cup {NULL}) /\ Len(fs'.sibling) = n
      <4> DEFINE y == fs.sibling[c]
                 r == fs.sibling
                 t == [r EXCEPT ![before] = y]
                 T == Nat \cup {NULL}
      <4>1. y \in T /\ NULL \in T /\ r \in Seq(T) /\ Len(r) = n
            /\ fs'.sibling = [t EXCEPT ![c] = NULL]
        BY <1>1, <1>5, <2>0, <3>3
      <4> HIDE DEF y, r, T
      <4>2. t \in Seq(T) /\ Len(t) = n
        BY <4>1, SeqUpdate
      <4> HIDE DEF t
      <4>3. fs'.sibling \in Seq(T) /\ Len(fs'.sibling) = n
        BY <4>1, <4>2, SeqUpdate
      <4> QED BY <4>3 DEF T
    <3>5. \A x \in 1 .. n : fs'.sibling[x] =
            IF x = c THEN NULL ELSE IF x = before THEN fs.sibling[c] ELSE fs.sibling[x]
      BY <1>1, <3>3
    <3>6. fs'.child = [fs.child EXCEPT ![d] = fs.child[d]]
      BY <1>1, <3>3
    <3> QED BY <2>2, <3>3, <3>4, <3>5, <3>6
  <2> QED BY <2>1, <2>2
<1>10. Fields(fs')
  <2>1. /\ fs'.parent \in Seq(Nat \cup {NULL}) /\ Len(fs'.parent) = n
        /\ \A x \in 1 .. n : fs'.parent[x] \in 1 .. n \cup {NULL}
    <3> DEFINE r == fs.parent
               T == Nat \cup {NULL}
    <3>1. r \in Seq(T) /\ NULL \in T /\ Len(r) = n /\ fs'.parent = [r EXCEPT ![c] = NULL]
      BY <1>1, <1>9 DEF FilesHold, Fields
    <3>2. \A x \in 1 .. n : fs'.parent[x] \in 1 .. n \cup {NULL}
      BY <1>1, <1>9
    <3> HIDE DEF r, T
    <3>3. fs'.parent \in Seq(T) /\ Len(fs'.parent) = n
      BY <3>1, SeqUpdate
    <3> QED BY <3>2, <3>3 DEF T
  <2>3. fs'.child \in Seq(Nat \cup {NULL}) /\ Len(fs'.child) = n
    <3> DEFINE r == fs.child
               y == IF k = 1 THEN fs.sibling[c] ELSE r[d]
               T == Nat \cup {NULL}
    <3>1. r \in Seq(T) /\ Len(r) = n /\ fs'.child = [r EXCEPT ![d] = y]
      BY <1>1, <1>9 DEF FilesHold, Fields
    <3>2. y \in T
      BY <1>1, <1>5
    <3> HIDE DEF r, y, T
    <3>3. fs'.child \in Seq(T) /\ Len(fs'.child) = n
      BY <3>1, <3>2, SeqUpdate
    <3> QED BY <3>3 DEF T
  <2> QED BY <1>1, <1>9, <2>1, <2>3 DEF FilesHold, Fields
<1>11. \E r : Hangs(fs', d, r)
  <2> DEFINE r == RemoveFirst(s, c)
             link == fs.sibling
             new == fs'.sibling
             p == fs.child[d]
             q == fs'.child[d]
  <2>1. \A i \in DOMAIN s : i # k /\ i + 1 # k => new[s[i]] = link[s[i]]
    <3> SUFFICES ASSUME NEW i \in DOMAIN s, i # k, i + 1 # k PROVE new[s[i]] = link[s[i]]
      OBVIOUS
    <3>1. s[i] # c
      BY <1>4, <1>6
    <3>2. k # 1 => s[i] # before
      <4>1. k # 1 => i # k - 1
        BY <1>4
      <4> QED BY <1>4, <1>8, <4>1
    <3> QED BY <1>4, <1>9, <3>1, <3>2
  <2>2. k = 1 => q = link[s[k]]
    BY <1>1, <1>5, <1>6, <1>9
  <2>3. k # 1 => q = p /\ new[s[k - 1]] = link[s[k]]
    <3> SUFFICES ASSUME k # 1 PROVE q = p /\ new[s[k - 1]] = link[s[k]]
      OBVIOUS
    <3>1. before \in 1 .. n /\ before # c /\ before = s[k - 1]
      BY <1>4, <1>8
    <3> QED BY <1>1, <1>5, <1>6, <1>9, <3>1
  <2>4. LinkedAs(link, p, s)
    BY <1>2 DEF Hangs
  <2> HIDE DEF link, new, p, q
  <2>5. LeadsPast(link, p, new, q, s, k)
    BY <2>1, <2>2, <2>3 DEF LeadsPast
  <2>6. LinkedAs(new, q, r)
    BY <1>4, <1>6, <2>4, <2>5, LinkedRemoveFirst
  <2>7. r \in Seq(1 .. n) /\ IsInjective(r) /\ ToSet(r) = ToSet(s) \ {c}
    BY <1>4, InjectiveRemove
  <2>8. ToSet(r) = {x \in 1 .. n : fs'.parent[x] = d}
    <3>1. NULL # d
      BY <1>5, VfsAssumption
    <3> QED BY <1>1, <1>2, <1>9, <2>7, <3>1 DEF Hangs
  <2>9. fs'.type[d] = "dir"
    BY <1>2, <1>7, <1>9 DEF Hangs
  <2> HIDE DEF r
  <2>10. Hangs(fs', d, r)
    BY <1>1, <1>9, <2>6, <2>7, <2>8, <2>9 DEF Hangs, new, q
  <2> QED BY <2>10
<1>12. ASSUME NEW e \in 1 .. n, e # d PROVE \E r : Hangs(fs', e, r)
  <2>1. PICK r : Hangs(fs, e, r)
    BY <1>1 DEF FilesHold
  <2>2. NULL # e /\ fs.parent[c] = d
    BY <1>1, <1>2, <1>5, VfsAssumption DEF Hangs
  <2>3. \A i \in DOMAIN r : r[i] \in 1 .. n /\ r[i] # c /\ fs.parent[r[i]] = e
    BY <1>1, <1>12, <2>1, <2>2 DEF Hangs, ToSet
  <2>4. k # 1 => fs.parent[before] = d
    <3>1. k # 1 => before \in ToSet(s)
      BY <1>8 DEF ToSet
    <3> QED BY <1>2, <3>1 DEF Hangs
  <2>5. \A i \in DOMAIN r : fs'.sibling[r[i]] = fs.sibling[r[i]]
    BY <1>9, <1>12, <2>3, <2>4
  <2>6. fs'.child[e] = fs.child[e]
    BY <1>1, <1>9, <1>12
  <2>7. LinkedAs(fs'.sibling, fs'.child[e], r)
    BY <2>1, <2>5, <2>6 DEF Hangs, LinkedAs
  <2>8. ToSet(r) = {x \in 1 .. n : fs'.parent[x] = e}
    BY <1>1, <1>9, <1>12, <2>1, <2>2 DEF Hangs
  <2> QED BY <1>1, <1>9, <2>1, <2>7, <2>8 DEF Hangs
<1>13. \A e \in 1 .. n : \E r : Hangs(fs', e, r)
  BY <1>11, <1>12
<1>14. DOMAIN fs'.type = 1 .. n
  BY <1>1, <1>9
<1> QED BY <1>10, <1>13, <1>14 DEF FilesHold

(* A path leads to a node, or nowhere. *)
LEMMA PathLeads ==
  ASSUME FilesHold(fs), NEW p \in Path
  PROVE  parse_path(p) \in Created \cup {NULL}
<1> DEFINE S == Created \cup {NULL}
           last == Len(p.names)
           Next(x, i) ==
             IF x = NULL THEN NULL
             ELSE LET c == ChildNamed(x, p.names[i])
                  IN  IF /\ c # NULL
                         /\ i < last \/ p.slash
                         /\ fs.type[c] # "dir"
                      THEN NULL ELSE c
           G == [x \in S \X (1 .. last) |-> Next(x[1], x[2])]
<1>1. last \in Nat
  <2>1. PICK m \in 0 .. MaxDepth : p.names \in [1 .. m -> Name]
    BY DEF Path, BoundedSeq, SeqOf
  <2>2. m \in Nat /\ p.names \in Seq(Name)
    BY <2>1, VfsAssumption
  <2> QED BY <2>2
<1>2. ASSUME NEW x \in S, NEW i PROVE Next(x, i) \in S
  <2> SUFFICES ASSUME x # NULL PROVE ChildNamed(x, p.names[i]) \in S
    OBVIOUS
  <2>1. PICK s : Hangs(fs, x, s)
    BY DEF FilesHold, Created
  <2>2. Children(x) = s
    BY <2>1, ChildrenAre DEF FilesHold
  <2> DEFINE m == p.names[i]
             found == {k \in DOMAIN s : fs.name[s[k]] = m}
  <2>3. s \in Seq(Created) /\ found \in SUBSET Nat
    BY <2>1 DEF Hangs, Created
  <2>4. CASE found = {}
    BY <2>2, <2>4 DEF ChildNamed
  <2>5. CASE found # {}
    <3>1. \E k \in found : \A j \in found : k <= j
      <4> HIDE DEF found
      <4> QED BY <2>3, <2>5, LeastElement
    <3>2. Min(found) \in found
      <4> HIDE DEF found
      <4> QED BY <3>1 DEF Min
    <3>3. s[Min(found)] \in Created
      BY <2>3, <3>2
    <3>4. ChildNamed(x, m) = s[Min(found)]
      BY <2>2, <2>5 DEF ChildNamed
    <3> QED BY <3>3, <3>4
  <2> QED BY <2>4, <2>5
<1>3. vfs_root \in S
  BY DEF Created, FilesHold, Fields
<1>4. G \in [S \X (1 .. last) -> S]
  BY <1>2
<1>5. PICK f \in [0 .. last -> S] : Iterates(f, vfs_root, last, G)
  <2> HIDE DEF S, G, last
  <2> QED BY <1>1, <1>3, <1>4, IterationExists
<1>6. ASSUME NEW i \in 0 .. last
      PROVE  f[i] = IF i = 0 THEN vfs_root ELSE Next(f[i - 1], i)
  <2>1. CASE i = 0
    BY <1>5, <2>1 DEF Iterates
  <2>2. CASE i # 0
    <3>1. i - 1 \in 0 .. last /\ i \in 1 .. last
      BY <1>1, <2>2
    <3> DEFINE x == f[i - 1]
    <3>2. x \in S /\ f[i] = G[<<x, i>>]
      <4> HIDE DEF G, S, last
      <4> QED BY <1>5, <2>2, <3>1 DEF Iterates
    <3> HIDE DEF x
    <3>3. G[<<x, i>>] = Next(x, i)
      BY <3>1, <3>2
    <3> QED BY <2>2, <3>2, <3>3 DEF x
  <2> QED BY <2>1, <2>2
<1>7. f = [i \in 0 .. last |-> IF i = 0 THEN vfs_root ELSE Next(f[i - 1], i)]
  <2> HIDE DEF Next, S, last
  <2> QED BY <1>6
<1> DEFINE walk[i \in 0 .. last] == IF i = 0 THEN vfs_root ELSE Next(walk[i - 1], i)
<1>8. walk = [i \in 0 .. last |-> IF i = 0 THEN vfs_root ELSE Next(walk[i - 1], i)]
  <2> HIDE DEF Next, S, last
  <2> QED BY <1>7
<1>9. parse_path(p) = walk[last]
  BY Zenon DEF parse_path
<1>10. walk[last] \in S
  <2> DEFINE T == {i \in Nat : i <= last => walk[i] \in S}
  <2> HIDE DEF Next, S, last, walk
  <2>1. 0 \in T
    BY <1>1, <1>3, <1>8
  <2>2. ASSUME NEW i \in T PROVE i + 1 \in T
    <3> SUFFICES ASSUME i + 1 <= last PROVE walk[i + 1] \in S
      OBVIOUS
    <3>1. i + 1 \in 0 .. last /\ i + 1 # 0 /\ (i + 1) - 1 = i /\ i <= last
      BY <1>1
    <3>2. walk[i + 1] = Next(walk[i], i + 1)
      BY <1>8, <3>1
    <3>3. walk[i] \in S
      BY <3>1
    <3> QED BY <1>2, <3>2, <3>3
  <2>3. last \in T
    <3> HIDE DEF T
    <3> QED BY <1>1, <2>1, <2>2, SetInduction, T \in SUBSET Nat DEF T
  <2> QED BY <1>1, <2>3
<1> QED BY <1>9, <1>10

(* Reading a directory adds a node for each entry. *)
LEMMA ReadHolds ==
  ASSUME FilesHold(fs), NEW d \in Created, NEW entries \in Seq(Name \X Kind),
         fat_read_directory(d, entries)
  PROVE  FilesHold(fs')
<1> DEFINE n == Len(entries)
           U == [name : Seq(Name \cup {"/"}), type : Seq(Kind), parent : Seq(Nat \cup {NULL}),
                 sibling : Seq(Nat \cup {NULL}), child : Seq(Nat \cup {NULL})]
           S == {g \in U : FilesHold(g) /\ d \in DOMAIN g.type}
           Next(g, k) == vfs_add_child(vfs_create_node(g, entries[k][1], entries[k][2]),
                                       d, Len(g.type) + 1)
           G == [x \in S \X (1 .. n) |-> Next(x[1], x[2])]
<1>1. n \in Nat /\ \A k \in 1 .. n : entries[k] \in Name \X Kind
  OBVIOUS
<1>2. fs \in S
  BY DEF Created, FilesHold, Fields
<1>3. ASSUME NEW g \in S, NEW k \in 1 .. n PROVE Next(g, k) \in S
  <2>1. entries[k][1] \in Name /\ entries[k][2] \in Kind
    BY <1>1
  <2>2. FilesHold(Next(g, k)) /\ d \in DOMAIN Next(g, k).type
    <3> DEFINE m == entries[k][1]
               t == entries[k][2]
    <3>1. m \in Name /\ t \in Kind /\ FilesHold(g) /\ d \in DOMAIN g.type
      BY <2>1
    <3> HIDE DEF m, t, S, U
    <3> QED BY <3>1, GrowHolds
  <2> HIDE DEF Next
  <2> QED BY <2>2 DEF FilesHold, Fields
<1>4. G \in [S \X (1 .. n) -> S]
  <2> HIDE DEF S, Next
  <2> QED BY <1>3
<1>5. PICK f \in [0 .. n -> S] : Iterates(f, fs, n, G)
  <2> HIDE DEF S, G, n
  <2> QED BY <1>1, <1>2, <1>4, IterationExists
<1>6. ASSUME NEW k \in 0 .. n
      PROVE  f[k] = IF k = 0 THEN fs ELSE Next(f[k - 1], k)
  <2>1. CASE k = 0
    BY <1>5, <2>1 DEF Iterates
  <2>2. CASE k # 0
    <3>1. k - 1 \in 0 .. n /\ k \in 1 .. n
      BY <1>1, <2>2
    <3> DEFINE x == f[k - 1]
    <3>2. x \in S /\ f[k] = G[<<x, k>>]
      <4> HIDE DEF G, S, n
      <4> QED BY <1>5, <2>2, <3>1 DEF Iterates
    <3> HIDE DEF x, S, Next
    <3>3. G[<<x, k>>] = Next(x, k)
      BY <3>1, <3>2
    <3> QED BY <2>2, <3>2, <3>3 DEF x
  <2> QED BY <2>1, <2>2
<1>7. f = [k \in 0 .. n |-> IF k = 0 THEN fs ELSE Next(f[k - 1], k)]
  <2> HIDE DEF Next, S, n
  <2> QED BY <1>6
<1> DEFINE read[k \in 0 .. n] == IF k = 0 THEN fs ELSE Next(read[k - 1], k)
<1>8. read = [k \in 0 .. n |-> IF k = 0 THEN fs ELSE Next(read[k - 1], k)]
  <2> HIDE DEF Next, S, n
  <2> QED BY <1>7
<1>9. fs' = read[n]
  BY Zenon DEF fat_read_directory
<1>10. read[n] \in S
  <2> DEFINE T == {k \in Nat : k <= n => read[k] \in S}
  <2> HIDE DEF Next, S, n, read
  <2>1. 0 \in T
    BY <1>1, <1>2, <1>8
  <2>2. ASSUME NEW k \in T PROVE k + 1 \in T
    <3> SUFFICES ASSUME k + 1 <= n PROVE read[k + 1] \in S
      OBVIOUS
    <3>1. k + 1 \in 0 .. n /\ k + 1 \in 1 .. n /\ (k + 1) - 1 = k /\ k <= n /\ k + 1 # 0
      BY <1>1
    <3>2. read[k + 1] = Next(read[k], k + 1)
      BY <1>8, <3>1
    <3>3. read[k] \in S
      BY <3>1
    <3> QED BY <1>3, <3>1, <3>2, <3>3
  <2>3. n \in T
    <3> HIDE DEF T
    <3> QED BY <1>1, <2>1, <2>2, SetInduction, T \in SUBSET Nat DEF T
  <2> QED BY <1>1, <2>3
<1> QED BY <1>9, <1>10

LEMMA FilesInitial == VfsInit => FilesHold(fs)
<1> SUFFICES ASSUME VfsInit PROVE FilesHold(fs)
  OBVIOUS
<1>1. /\ fs \in [name : Seq(Name \cup {"/"}), type : Seq(Kind), parent : Seq(Nat \cup {NULL}),
                 sibling : Seq(Nat \cup {NULL}), child : Seq(Nat \cup {NULL})]
      /\ Len(fs.name) = 1 /\ Len(fs.type) = 1 /\ Len(fs.parent) = 1
      /\ Len(fs.sibling) = 1 /\ Len(fs.child) = 1
      /\ fs.parent[1] = NULL /\ fs.child[1] = NULL
  BY DEF VfsInit, Kind
<1>2. DOMAIN fs.type = {1}
  BY <1>1
<1>3. Fields(fs)
  BY <1>1, <1>2 DEF Fields, vfs_root
<1>4. Hangs(fs, 1, <<>>)
  <2>1. {n \in DOMAIN fs.type : fs.parent[n] = 1} = {}
    BY <1>1, <1>2, VfsAssumption
  <2>2. ToSet(<<>>) = {} /\ <<>> \in Seq(DOMAIN fs.type) /\ IsInjective(<<>>)
    BY DEF ToSet, IsInjective
  <2>3. LinkedAs(fs.sibling, fs.child[1], <<>>)
    BY <1>1 DEF LinkedAs, NodeAt
  <2> QED BY <2>1, <2>2, <2>3 DEF Hangs
<1> QED BY <1>2, <1>3, <1>4 DEF FilesHold

(* Making and detaching, wherever the path leads. *)
LEMMA MakeHolds ==
  ASSUME FilesHold(fs), NEW p \in Path, NEW kind \in Kind, Make(p, kind)
  PROVE  FilesHold(fs')
<1> DEFINE d == parse_path(p)
           m == Last(p.names)
<1>1. d \in Created
  BY PathLeads DEF Make
<1>2. m \in Name
  <2>1. p.names \in Seq(Name) /\ p.names # <<>>
    <3>1. PICK k \in 0 .. MaxDepth : p.names \in [1 .. k -> Name]
      BY DEF Path, BoundedSeq, SeqOf
    <3>2. k \in Nat
      BY VfsAssumption
    <3> QED BY <3>1, <3>2 DEF Make
  <2>2. Len(p.names) \in DOMAIN p.names
    BY <2>1
  <2> QED BY <2>1, <2>2 DEF Last
<1>3. fs' = vfs_add_child(vfs_create_node(fs, m, kind), d, Len(fs.type) + 1)
  BY DEF Make
<1> HIDE DEF d, m
<1> QED BY <1>1, <1>2, <1>3, GrowHolds DEF Created

LEMMA DetachHolds ==
  ASSUME FilesHold(fs), NEW p \in Path, NEW kind, Detach(p, kind)
  PROVE  FilesHold(fs')
<1> DEFINE c == parse_path(p)
           d == fs.parent[c]
<1>1. c \in Created /\ d # NULL /\ vfs_remove_child(d, c)
  BY PathLeads DEF Detach
<1>2. d \in Created
  BY <1>1 DEF FilesHold, Fields, Created
<1> HIDE DEF c, d
<1> QED BY <1>1, <1>2, RemoveHolds

(* Whatever is created, read in twice or taken out from between its        *)
(* siblings, the links of the nodes stay a tree: the walk of a directory's *)
(* children ends and meets each node that names it as its parent once, and *)
(* only directories have children (vfs.c).                                 *)
THEOREM FileTreeLinked == VfsSpec => []TreeLinked
<1>1. VfsInit => FilesHold(fs)
  BY FilesInitial
<1>2. FilesHold(fs) /\ [VfsNext]_vfsVars => FilesHold(fs)'
  <2> SUFFICES ASSUME FilesHold(fs), [VfsNext]_vfsVars PROVE FilesHold(fs')
    OBVIOUS
  <2>1. ASSUME NEW p \in Path, vfs_mkdir(p) \/ vfs_create(p) PROVE FilesHold(fs')
    BY <2>1, MakeHolds DEF vfs_mkdir, vfs_create, Kind
  <2>2. ASSUME NEW p \in Path, vfs_rmdir(p) \/ vfs_unlink(p) PROVE FilesHold(fs')
    BY <2>2, DetachHolds DEF vfs_rmdir, vfs_unlink
  <2>3. ASSUME NEW p \in Path, NEW entries \in SeqOf(Name \X Kind, 2) \ {<<>>},
               vfs_mount_filesystem(p, entries)
        PROVE  FilesHold(fs')
    <3>1. parse_path(p) \in Created
      BY <2>3, PathLeads DEF vfs_mount_filesystem
    <3>2. entries \in Seq(Name \X Kind)
      <4>1. PICK k \in 0 .. 2 : entries \in [1 .. k -> Name \X Kind]
        BY DEF SeqOf
      <4>2. k \in Nat
        OBVIOUS
      <4> QED BY <4>1, <4>2
    <3> QED BY <2>3, <3>1, <3>2, ReadHolds DEF vfs_mount_filesystem
  <2>4. CASE UNCHANGED vfsVars
    BY <2>4 DEF vfsVars
  <2> QED BY <2>1, <2>2, <2>3, <2>4 DEF VfsNext
<1>3. FilesHold(fs) => TreeLinked
  <2> SUFFICES ASSUME FilesHold(fs), NEW d \in Created
               PROVE  /\ ToSet(Children(d)) = {n \in Created : fs.parent[n] = d}
                      /\ IsInjective(Children(d))
                      /\ Children(d) # <<>> => /\ fs.type[d] = "dir"
                                               /\ fs.sibling[Last(Children(d))] = NULL
    BY DEF TreeLinked
  <2>1. PICK s : Hangs(fs, d, s)
    BY DEF FilesHold, Created
  <2>2. Children(d) = s
    BY <2>1, ChildrenAre DEF FilesHold
  <2>3. s # <<>> => fs.sibling[Last(s)] = NULL
    <3> SUFFICES ASSUME s # <<>> PROVE fs.sibling[Last(s)] = NULL
      OBVIOUS
    <3>1. Len(s) \in DOMAIN s /\ Len(s) + 1 \notin DOMAIN s
      BY <2>1 DEF Hangs
    <3> QED BY <2>1, <3>1 DEF Hangs, LinkedAs, NodeAt, Last
  <2> QED BY <2>1, <2>2, <2>3 DEF Hangs, Created
<1> QED BY <1>1, <1>2, <1>3, PTL DEF VfsSpec

----------------------------------------------------------------------------
(* Surfaces and damage of the compositor. *)

(* The list of surfaces holds at most one surface, h. *)
Sole(l, h) ==
  l = [head |-> h, tail |-> h, next |-> [s \in Surface |-> NULL], prev |-> [s \in Surface |-> NULL]]

Alone(h) == IF h = NULL THEN <<>> ELSE <<h>>

LEMMA SoleChain ==
  ASSUME NEW l, NEW h \in Surface \cup {NULL}, Sole(l, h)
  PROVE  ChainFrom(l.next, l.head) = Alone(h)
<1> DEFINE link == l.next
           p == l.head
           s == Alone(h)
<1>1. /\ link = [t \in Surface |-> NULL] /\ DOMAIN link = Surface /\ p = h
      /\ IsFiniteSet(Surface) /\ NULL \notin Surface
  BY CompAssumption DEF Sole
<1> HIDE DEF link, p
<1>2. s \in Seq(Surface) /\ IsInjective(s) /\ LinkedAs(link, p, s)
  <2>1. CASE h = NULL
    <3>1. s = <<>> /\ s \in Seq(Surface) /\ DOMAIN s = {}
      BY <2>1 DEF Alone
    <3> HIDE DEF s
    <3> QED BY <1>1, <2>1, <3>1 DEF IsInjective, LinkedAs, NodeAt
  <2>2. CASE h # NULL
    <3>1. s = <<h>> /\ s \in Seq(Surface) /\ DOMAIN s = {1} /\ s[1] = h
      BY <2>2 DEF Alone
    <3>2. 1 + 1 \notin {1}
      OBVIOUS
    <3> HIDE DEF s
    <3> QED BY <1>1, <2>2, <3>1, <3>2 DEF IsInjective, LinkedAs, NodeAt
  <2> QED BY <2>1, <2>2
<1> HIDE DEF s
<1>3. ChainFrom(link, p) = s
  BY <1>1, <1>2, ChainIs
<1> QED BY <1>3 DEF link, p, s

(* Unlinking empties the list, whether or not s was in it. *)
LEMMA UnlinkedSole ==
  ASSUME NEW l, NEW h, Sole(l, h), NEW s \in Surface
  PROVE  Sole(Unlinked(l, s), NULL)
<1>1. l.prev[s] = NULL /\ l.next[s] = NULL
  BY DEF Sole
<1>2. \A t \in Surface : t # NULL
  BY CompAssumption
<1>3. Unlinked(l, s) = [l EXCEPT !.head = NULL, !.tail = NULL,
                                 !.next = [t \in Surface |-> IF t = NULL THEN NULL ELSE l.next[t]],
                                 !.prev = [t \in Surface |-> IF t = NULL THEN NULL ELSE l.prev[t]]]
  BY <1>1 DEF Unlinked
<1>4. /\ [t \in Surface |-> IF t = NULL THEN NULL ELSE l.next[t]] = [t \in Surface |-> NULL]
      /\ [t \in Surface |-> IF t = NULL THEN NULL ELSE l.prev[t]] = [t \in Surface |-> NULL]
  BY <1>2 DEF Sole
<1> QED BY <1>3, <1>4 DEF Sole

LEMMA LinkedSole ==
  ASSUME NEW l, Sole(l, NULL), NEW s \in Surface
  PROVE  Sole(Linked(l, s, NULL, NULL), s)
BY CompAssumption DEF Sole, Linked

(* What a column shows, of surfaces sf, a list st and a cursor cu. *)
Visible(sf, s, x, col) == sf[s].visible /\ col \in Columns(Rect(x, sf[s].width))

Picture(sf, st, cu, col) ==
  LET listed   == {k \in DOMAIN st : st[k] # cu.surface /\ Visible(sf, st[k], sf[st[k]].x, col)}
      Layer(k) == <<st[k], col - sf[st[k]].x>>
  IN  [layers  |-> {Layer(k) : k \in listed},
       over    |-> {<<Layer(p[1]), Layer(p[2])>> : p \in {q \in listed \X listed : q[1] > q[2]}},
       pointer |-> IF cu.surface = NULL \/ ~Visible(sf, cu.surface, cu.x, col)
                   THEN {} ELSE {<<cu.surface, col - cu.x>>}]

LayerOf(sf, h, cu, col) ==
  IF h # NULL /\ h # cu.surface /\ Visible(sf, h, sf[h].x, col)
  THEN {<<h, col - sf[h].x>>} ELSE {}

PointerOf(sf, cu, col) ==
  IF cu.surface = NULL \/ ~Visible(sf, cu.surface, cu.x, col)
  THEN {} ELSE {<<cu.surface, col - cu.x>>}

LEMMA PictureIs ==
  ASSUME NEW sf, NEW h, NEW cu, NEW col
  PROVE  Picture(sf, Alone(h), cu, col) =
           [layers |-> LayerOf(sf, h, cu, col), over |-> {}, pointer |-> PointerOf(sf, cu, col)]
<1> DEFINE st == Alone(h)
           listed == {k \in DOMAIN st : st[k] # cu.surface /\ Visible(sf, st[k], sf[st[k]].x, col)}
           Layer(k) == <<st[k], col - sf[st[k]].x>>
<1>1. /\ {Layer(k) : k \in listed} = LayerOf(sf, h, cu, col)
      /\ {q \in listed \X listed : q[1] > q[2]} = {}
  <2>1. CASE h = NULL
    <3>1. DOMAIN st = {}
      BY <2>1 DEF Alone
    <3>2. listed = {} /\ LayerOf(sf, h, cu, col) = {}
      BY <2>1, <3>1 DEF LayerOf
    <3> HIDE DEF listed, Layer
    <3> QED BY <3>2
  <2>2. CASE h # NULL
    <3>1. DOMAIN st = {1} /\ st[1] = h
      BY <2>2 DEF Alone
    <3> HIDE DEF st
    <3>2. listed = IF h # cu.surface /\ Visible(sf, h, sf[h].x, col) THEN {1} ELSE {}
      BY <3>1
    <3>3. Layer(1) = <<h, col - sf[h].x>>
      BY <3>1
    <3> HIDE DEF listed, Layer
    <3>4. \A q \in {1} \X {1} : ~(q[1] > q[2])
      OBVIOUS
    <3> QED BY <2>2, <3>2, <3>3, <3>4 DEF LayerOf
  <2> QED BY <2>1, <2>2
<1> HIDE DEF st, listed, Layer
<1>2. Picture(sf, st, cu, col) =
        [layers |-> {Layer(k) : k \in listed},
         over |-> {<<Layer(p[1]), Layer(p[2])>> : p \in {q \in listed \X listed : q[1] > q[2]}},
         pointer |-> PointerOf(sf, cu, col)]
  BY DEF Picture, PointerOf, st, listed, Layer
<1> QED BY <1>1, <1>2 DEF st

----------------------------------------------------------------------------
(* Damage. *)
RectType == [x : Int, width : Int]
DamageType == [rects : Seq(RectType), full : BOOLEAN]

(* A damage rectangle is added, clipped to the screen and merged, and      *)
(* nothing that was damaged is lost.                                       *)
LEMMA MergeCovers ==
  ASSUME NEW a \in RectType, NEW b \in RectType
  PROVE  /\ rect_merge(a, b) \in RectType
         /\ Columns(a) \subseteq Columns(rect_merge(a, b))
         /\ Columns(b) \subseteq Columns(rect_merge(a, b))
<1> DEFINE m == rect_merge(a, b)
           x1 == Smaller(a.x, b.x)
           x2 == Larger(a.x + a.width, b.x + b.width)
<1>1. a.x \in Int /\ a.width \in Int /\ b.x \in Int /\ b.width \in Int
  BY DEF RectType
<1>2. /\ x1 \in Int /\ x1 <= a.x /\ x1 <= b.x
      /\ x2 \in Int /\ x2 >= a.x + a.width /\ x2 >= b.x + b.width
  BY <1>1 DEF Smaller, Larger
<1>3. m = [x |-> x1, width |-> x2 - x1]
  BY DEF rect_merge, Rect
<1> HIDE DEF x1, x2
<1>4. m \in RectType /\ Columns(m) = x1 .. x1 + (x2 - x1) - 1
  BY <1>2, <1>3 DEF RectType, Columns
<1>5. Columns(a) \subseteq Columns(m) /\ Columns(b) \subseteq Columns(m)
  <2>1. x1 + (x2 - x1) - 1 = x2 - 1
    BY <1>2
  <2>2. ASSUME NEW c \in Int, a.x <= c, c <= a.x + a.width - 1 PROVE x1 <= c /\ c <= x2 - 1
    BY <1>1, <1>2, <2>2
  <2>3. ASSUME NEW c \in Int, b.x <= c, c <= b.x + b.width - 1 PROVE x1 <= c /\ c <= x2 - 1
    BY <1>1, <1>2, <2>3
  <2>4. \A c \in Columns(a) : c \in Int /\ a.x <= c /\ c <= a.x + a.width - 1
    BY <1>1 DEF Columns
  <2>5. \A c \in Columns(b) : c \in Int /\ b.x <= c /\ c <= b.x + b.width - 1
    BY <1>1 DEF Columns
  <2>6. \A c \in Int : x1 <= c /\ c <= x2 - 1 => c \in Columns(m)
    <3> HIDE DEF m
    <3> QED BY <1>2, <1>4, <2>1
  <2> HIDE DEF m
  <2> QED BY <2>2, <2>3, <2>4, <2>5, <2>6
<1> QED BY <1>4, <1>5

LEMMA AddDamage ==
  ASSUME NEW d \in DamageType, NEW r \in RectType
  PROVE  /\ compositor_add_damage(d, r) \in DamageType
         /\ \A c \in Column : c \in Damaged(d) \/ c \in Columns(r) =>
              c \in Damaged(compositor_add_damage(d, r))
<1> DEFINE e == compositor_add_damage(d, r)
           x1 == Larger(r.x, 0)
           x2 == Smaller(r.x + r.width, Width)
           clip == Rect(x1, x2 - x1)
           near == {k \in 1 .. Len(d.rects) :
                      rects_intersect(d.rects[k], clip) \/ rects_adjacent(d.rects[k], clip)}
           k == Min(near)
<1>1. r.x \in Int /\ r.width \in Int /\ Width \in Int
  BY CompAssumption DEF RectType
<1>2. x1 \in Int /\ x2 \in Int /\ clip \in RectType
  BY <1>1 DEF Larger, Smaller, Rect, RectType
<1>3. \A c \in Column : c \in Columns(r) => x1 < x2 /\ c \in Columns(clip)
  BY <1>1 DEF Column, Columns, Larger, Smaller, Rect
<1>4. d.rects \in Seq(RectType) /\ d.full \in BOOLEAN /\ d = [rects |-> d.rects, full |-> d.full]
      /\ Len(d.rects) \in Nat
  BY DEF DamageType
<1>5. e = IF d.full \/ x1 >= x2 THEN d
          ELSE IF near # {} THEN [d EXCEPT !.rects[k] = rect_merge(@, clip)]
          ELSE IF Len(d.rects) < MaxDamage THEN [d EXCEPT !.rects = Append(@, clip)]
          ELSE Overflow(d)
  BY DEF compositor_add_damage
<1> HIDE DEF e, clip, near
<1>6. CASE d.full \/ x1 >= x2
  <2>1. e = d
    BY <1>5, <1>6
  <2>2. CASE d.full
    BY <1>4, <2>1, <2>2 DEF Damaged, e
  <2>3. CASE x1 >= x2
    <3>1. \A c \in Column : c \notin Columns(r)
      BY <1>2, <1>3, <2>3
    <3> QED BY <2>1, <3>1 DEF e
  <2> QED BY <1>6, <2>1, <2>2, <2>3 DEF e
<1>7. CASE ~(d.full \/ x1 >= x2) /\ near # {}
  <2>1. near \in SUBSET (1 .. Len(d.rects)) /\ near \in SUBSET Nat
    BY DEF near
  <2>2. \E i \in near : \A j \in near : i <= j
    BY <1>7, <2>1, LeastElement
  <2>3. k \in near
    BY <2>2 DEF Min
  <2> DEFINE q == d.rects
             m == rect_merge(q[k], clip)
  <2>4. k \in 1 .. Len(q) /\ q[k] \in RectType /\ q \in Seq(RectType)
    BY <1>4, <2>1, <2>3
  <2>5. m \in RectType /\ Columns(q[k]) \subseteq Columns(m) /\ Columns(clip) \subseteq Columns(m)
    <3> DEFINE a == q[k]
    <3>1. a \in RectType
      BY <2>4
    <3> HIDE DEF a
    <3> QED BY <1>2, <3>1, MergeCovers DEF a
  <2>6. e = [d EXCEPT !.rects[k] = m]
    BY <1>5, <1>7
  <2>7. e.full = d.full /\ e.rects = [q EXCEPT ![k] = m]
        /\ e = [rects |-> e.rects, full |-> e.full]
    BY <1>4, <2>6
  <2> HIDE DEF m, k, q
  <2>8. e.rects \in Seq(RectType) /\ Len(e.rects) = Len(q)
    BY <2>4, <2>5, <2>7, SeqUpdate
  <2>9. e \in DamageType
    BY <1>4, <2>7, <2>8 DEF DamageType
  <2>10. e.rects[k] = m /\ \A i \in 1 .. Len(q) : i # k => e.rects[i] = q[i]
    BY <2>4, <2>7
  <2>11. DOMAIN e.rects = 1 .. Len(q) /\ DOMAIN q = 1 .. Len(q)
    BY <2>4, <2>8
  <2>12. m \in ToSet(e.rects)
    BY <2>4, <2>10, <2>11 DEF ToSet
  <2>13. \A c : c \in Columns(m) => c \in Damaged(e)
    BY <1>7, <2>7, <2>12 DEF Damaged
  <2>14. ASSUME NEW c, c \in Damaged(d) PROVE c \in Damaged(e)
    <3>1. PICK i \in DOMAIN q : c \in Columns(q[i])
      BY <1>7, <2>14 DEF Damaged, ToSet, q
    <3>2. CASE i = k
      BY <2>5, <2>13, <3>1, <3>2
    <3>3. CASE i # k
      <4>1. q[i] \in ToSet(e.rects)
        BY <2>10, <2>11, <3>1, <3>3 DEF ToSet
      <4> QED BY <1>7, <2>7, <3>1, <4>1 DEF Damaged
    <3> QED BY <3>2, <3>3
  <2> QED BY <1>3, <2>5, <2>9, <2>13, <2>14 DEF e
<1>8. CASE ~(d.full \/ x1 >= x2) /\ near = {} /\ Len(d.rects) < MaxDamage
  <2> DEFINE q == d.rects
  <2>1. e = [d EXCEPT !.rects = Append(@, clip)]
    BY <1>5, <1>8
  <2>2. e.full = d.full /\ e.rects = Append(q, clip) /\ e = [rects |-> e.rects, full |-> e.full]
    BY <1>4, <2>1
  <2>3. q \in Seq(RectType)
    BY <1>4
  <2> HIDE DEF q
  <2>4. /\ e.rects \in Seq(RectType) /\ Len(q) + 1 \in DOMAIN e.rects /\ e.rects[Len(q) + 1] = clip
        /\ \A i \in DOMAIN q : i \in DOMAIN e.rects /\ e.rects[i] = q[i]
    BY <1>2, <2>2, <2>3
  <2>5. e \in DamageType
    BY <1>4, <2>2, <2>4 DEF DamageType
  <2>6. \A c : c \in Columns(clip) => c \in Damaged(e)
    BY <1>8, <2>2, <2>4 DEF Damaged, ToSet
  <2>7. ASSUME NEW c, c \in Damaged(d) PROVE c \in Damaged(e)
    <3>1. PICK i \in DOMAIN q : c \in Columns(q[i])
      BY <1>8, <2>7 DEF Damaged, ToSet, q
    <3> QED BY <1>8, <2>2, <2>4, <3>1 DEF Damaged, ToSet
  <2> QED BY <1>3, <2>5, <2>6, <2>7 DEF e
<1>9. CASE ~(d.full \/ x1 >= x2) /\ near = {} /\ ~(Len(d.rects) < MaxDamage)
  <2>1. e = [rects |-> <<>>, full |-> TRUE]
    BY <1>5, <1>9 DEF Overflow
  <2>2. e \in DamageType /\ Damaged(e) = Column
    BY <2>1 DEF DamageType, Damaged
  <2> QED BY <2>2 DEF e
<1> QED BY <1>6, <1>7, <1>8, <1>9

----------------------------------------------------------------------------
(* The steps. *)
SurfaceType == [x : Int, width : Int, visible : BOOLEAN]

CompShape ==
  /\ alive \subseteq Surface
  /\ surf \in [Surface -> SurfaceType]
  /\ surfaces.head \in alive \cup {NULL} /\ Sole(surfaces, surfaces.head)
  /\ cursor \in [surface : alive \cup {NULL}, x : Int]
  /\ damage \in DamageType
  /\ column \in Column

CompInv == CompShape /\ DamageCoversChanges

SceneOf(sf, h, cu, col) ==
  [layers |-> LayerOf(sf, h, cu, col), over |-> {}, pointer |-> PointerOf(sf, cu, col)]

LEMMA SceneBefore ==
  ASSUME CompShape
  PROVE  Scene = SceneOf(surf, surfaces.head, cursor, column) /\ Stack = Alone(surfaces.head)
<1>1. Stack = Alone(surfaces.head)
  <2> DEFINE h == surfaces.head
  <2>1. h \in Surface \cup {NULL} /\ Sole(surfaces, h)
    BY DEF CompShape
  <2> HIDE DEF h
  <2>2. ChainFrom(surfaces.next, surfaces.head) = Alone(h)
    BY <2>1, SoleChain
  <2> QED BY <2>2 DEF Stack, h
<1>2. Scene = Picture(surf, Stack, cursor, column)
  BY DEF Scene, Picture, Shows, Visible
<1> QED BY <1>1, <1>2, PictureIs DEF SceneOf

LEMMA SceneAfter ==
  ASSUME CompShape'
  PROVE  Scene' = SceneOf(surf', surfaces'.head, cursor', column')
<1>1. Stack' = Alone(surfaces'.head)
  <2> DEFINE h == surfaces'.head
             l == surfaces'
  <2>1. h \in Surface \cup {NULL} /\ Sole(l, h)
    BY DEF CompShape, Sole
  <2> HIDE DEF h, l
  <2>2. ChainFrom(l.next, l.head) = Alone(h)
    BY <2>1, SoleChain
  <2> QED BY <2>2 DEF Stack, h, l
<1>2. Scene' = Picture(surf', Stack', cursor', column')
  BY DEF Scene, Picture, Shows, Visible
<1> QED BY <1>1, <1>2, PictureIs DEF SceneOf

(* What a step has to do. *)
LEMMA StepCovers ==
  ASSUME CompInv, CompShape', NEW redrawn, NEW silent, Changes(redrawn, silent),
         column \in Damaged(damage) => column \in Damaged(damage'),
         silent \/ ((redrawn \/ Scene' # Scene) => column \in Damaged(damage'))
  PROVE  CompInv'
<1>1. Damaged(damage)' = Damaged(damage')
  BY DEF Damaged
<1>2. column' = column
  BY DEF Changes
<1>3. stale' => column \in Damaged(damage')
  BY <1>1 DEF Changes, CompInv, DamageCoversChanges
<1> QED BY <1>1, <1>2, <1>3 DEF CompInv, DamageCoversChanges

(* The damage of a rectangle that is as wide as a surface. *)
LEMMA RectCovers ==
  ASSUME CompShape, NEW d \in DamageType, NEW x \in Int, NEW w \in Int
  PROVE  /\ compositor_add_damage(d, Rect(x, w)) \in DamageType
         /\ column \in Damaged(d) => column \in Damaged(compositor_add_damage(d, Rect(x, w)))
         /\ column \in Columns(Rect(x, w)) =>
              column \in Damaged(compositor_add_damage(d, Rect(x, w)))
<1> DEFINE r == Rect(x, w)
<1>1. r \in RectType
  BY DEF Rect, RectType
<1> HIDE DEF r
<1> QED BY <1>1, AddDamage DEF CompShape, r

LEMMA CreateCovers ==
  ASSUME CompInv, NEW s \in Surface, NEW w \in Widths, surface_create(s, w)
  PROVE  CompInv'
<1> USE DEF CompInv
<1>1. w \in Int
  BY CompAssumption
<1>2. CompShape'
  BY <1>1 DEF CompShape, surface_create, Changes, SurfaceType
<1>3. surfaces.head # s /\ cursor.surface # s /\ \A t \in Surface \ {s} : surf'[t] = surf[t]
  BY CompAssumption DEF CompShape, surface_create
<1>4. Scene' = Scene
  <2>1. surfaces.head \in Surface \cup {NULL} /\ cursor.surface \in Surface \cup {NULL}
    BY DEF CompShape
  <2>2. SceneOf(surf', surfaces.head, cursor, column) = SceneOf(surf, surfaces.head, cursor, column)
    BY <1>3, <2>1 DEF SceneOf, LayerOf, PointerOf, Visible
  <2> QED BY <1>2, <2>2, SceneBefore, SceneAfter DEF surface_create, Changes
<1> QED BY <1>2, <1>4, StepCovers DEF surface_create

LEMMA DestroyCovers ==
  ASSUME CompInv, NEW s \in Surface, surface_destroy(s)
  PROVE  CompInv'
<1> USE DEF CompInv
<1>1. Sole(surfaces', NULL)
  BY UnlinkedSole DEF CompShape, surface_destroy
<1>2. surfaces'.head = NULL
  BY <1>1 DEF Sole
<1>3. cursor' \in [surface : alive' \cup {NULL}, x : Int]
  BY DEF CompShape, surface_destroy
<1>4. CompShape'
  BY <1>1, <1>2, <1>3 DEF CompShape, surface_destroy, Changes, CompBlank, SurfaceType
<1> QED BY <1>4, StepCovers DEF surface_destroy

LEMMA MoveCovers ==
  ASSUME CompInv, NEW s \in Surface, NEW x \in Places, surface_move(s, x)
  PROVE  CompInv'
<1> USE DEF CompInv
<1> DEFINE w == surf[s].width
           y == surf[s].x
           h == surfaces.head
           d1 == compositor_add_damage(damage, Rect(y, w))
           d2 == compositor_add_damage(d1, Rect(x, w))
<1>1. x \in Int /\ w \in Int /\ y \in Int /\ damage \in DamageType
  BY CompAssumption DEF CompShape, SurfaceType
<1>2. d1 \in DamageType /\ d2 \in DamageType
      /\ (column \in Damaged(damage) => column \in Damaged(d2))
      /\ (column \in Columns(Rect(y, w)) => column \in Damaged(d2))
      /\ (column \in Columns(Rect(x, w)) => column \in Damaged(d2))
  <2> HIDE DEF w, y
  <2>1. /\ d1 \in DamageType
        /\ column \in Damaged(damage) => column \in Damaged(d1)
        /\ column \in Columns(Rect(y, w)) => column \in Damaged(d1)
    BY <1>1, RectCovers
  <2> HIDE DEF d1
  <2>2. /\ d2 \in DamageType
        /\ column \in Damaged(d1) => column \in Damaged(d2)
        /\ column \in Columns(Rect(x, w)) => column \in Damaged(d2)
    BY <1>1, <2>1, RectCovers
  <2> QED BY <2>1, <2>2
<1>3. damage' = IF surf[s].visible THEN d2 ELSE damage
  BY DEF surface_move, MoveDamage, RectOf
<1> HIDE DEF d1, d2
<1>4. damage' \in DamageType /\ (column \in Damaged(damage) => column \in Damaged(damage'))
  BY <1>1, <1>2, <1>3
<1>5. CompShape'
  BY <1>1, <1>4 DEF CompShape, surface_move, Changes, SurfaceType
<1>6. /\ \A t \in Surface : surf'[t].visible = surf[t].visible /\ surf'[t].width = surf[t].width
      /\ \A t \in Surface : t # s => surf'[t].x = surf[t].x
      /\ surf'[s].x = x
  BY DEF surface_move, CompShape, SurfaceType
<1>7. cursor' = cursor /\ surfaces' = surfaces /\ column' = column
  BY DEF surface_move, Changes
<1>8. h \in Surface \cup {NULL} /\ cursor.surface \in Surface \cup {NULL}
  BY DEF CompShape
<1>9. PointerOf(surf', cursor, column) = PointerOf(surf, cursor, column)
  BY <1>6, <1>8 DEF PointerOf, Visible
<1>10. LayerOf(surf', h, cursor, column) # LayerOf(surf, h, cursor, column)
         => column \in Damaged(damage')
  <2>1. CASE h # s \/ ~surf[s].visible
    BY <1>6, <1>8, <2>1 DEF LayerOf, Visible
  <2>2. CASE h = s /\ surf[s].visible
    <3>1. column \in Columns(Rect(y, w)) \/ column \in Columns(Rect(x, w)) => column \in Damaged(damage')
      BY <1>2, <1>3, <2>2
    <3>2. column \notin Columns(Rect(y, w)) /\ column \notin Columns(Rect(x, w))
            => LayerOf(surf', h, cursor, column) = LayerOf(surf, h, cursor, column)
      BY <1>6, <2>2 DEF LayerOf, Visible
    <3> QED BY <3>1, <3>2
  <2> QED BY <2>1, <2>2
<1>11. Scene' # Scene => column \in Damaged(damage')
  BY <1>5, <1>7, <1>9, <1>10, SceneBefore, SceneAfter DEF SceneOf
<1> QED BY <1>4, <1>5, <1>11, StepCovers DEF surface_move

(* A surface that the column shows. *)
LEMMA SeenIs ==
  ASSUME CompShape, NEW s \in Surface, Seen(s), s # cursor.surface
  PROVE  surfaces.head = s /\ surf[s].visible /\ column \in Columns(Rect(surf[s].x, surf[s].width))
<1> DEFINE h == surfaces.head
<1>1. /\ Scene.layers = LayerOf(surf, h, cursor, column)
      /\ Scene.pointer = PointerOf(surf, cursor, column)
  BY SceneBefore DEF SceneOf
<1>2. PICK l \in LayerOf(surf, h, cursor, column) \cup PointerOf(surf, cursor, column) : l[1] = s
  BY <1>1 DEF Seen
<1>3. l \notin PointerOf(surf, cursor, column)
  BY <1>2 DEF PointerOf
<1> QED BY <1>2, <1>3 DEF LayerOf, Visible

LEMMA ResizeCovers ==
  ASSUME CompInv, NEW s \in Surface, NEW w \in Widths, surface_resize(s, w)
  PROVE  CompInv'
<1> USE DEF CompInv
<1> DEFINE v == surf[s].width
           y == surf[s].x
           h == surfaces.head
<1>1. w \in Int /\ v \in Int /\ y \in Int /\ damage \in DamageType
  BY CompAssumption DEF CompShape, SurfaceType
<1>2. /\ damage' \in DamageType
      /\ column \in Damaged(damage) => column \in Damaged(damage')
      /\ column \in Columns(Rect(y, w)) => column \in Damaged(damage')
  <2>1. damage' = compositor_add_damage(damage, Rect(y, w))
    BY DEF surface_resize
  <2> HIDE DEF y
  <2> QED BY <1>1, <2>1, RectCovers
<1>3. CompShape'
  BY <1>1, <1>2 DEF CompShape, surface_resize, Changes, SurfaceType
<1>4. CASE w < v \/ s = cursor.surface
  BY <1>2, <1>3, <1>4, StepCovers DEF surface_resize
<1>5. CASE ~(w < v \/ s = cursor.surface)
  <2>1. \A c : c \in Columns(Rect(y, v)) => c \in Columns(Rect(y, w))
    BY <1>1, <1>5 DEF Columns, Rect
  <2>2. /\ \A t \in Surface : surf'[t].visible = surf[t].visible /\ surf'[t].x = surf[t].x
        /\ \A t \in Surface : t # s => surf'[t].width = surf[t].width
        /\ surf'[s].width = w
    BY DEF surface_resize, CompShape, SurfaceType
  <2>3. h \in Surface \cup {NULL} /\ cursor.surface \in Surface \cup {NULL}
    BY DEF CompShape
  <2>4. PointerOf(surf', cursor, column) = PointerOf(surf, cursor, column)
    BY <1>5, <2>2, <2>3 DEF PointerOf, Visible
  <2>5. LayerOf(surf', h, cursor, column) # LayerOf(surf, h, cursor, column)
          => column \in Columns(Rect(y, w))
    <3>1. CASE h # s
      BY <2>2, <2>3, <3>1 DEF LayerOf, Visible
    <3>2. CASE h = s
      BY <2>1, <2>2, <3>2 DEF LayerOf, Visible
    <3> QED BY <3>1, <3>2
  <2>6. cursor' = cursor /\ surfaces' = surfaces /\ column' = column
    BY DEF surface_resize, Changes
  <2>7. Scene' # Scene => column \in Damaged(damage')
    BY <1>2, <1>3, <2>4, <2>5, <2>6, SceneBefore, SceneAfter DEF SceneOf
  <2>8. Seen(s) => column \in Damaged(damage')
    BY <1>2, <1>5, <2>1, SeenIs
  <2> QED BY <1>2, <1>3, <2>7, <2>8, StepCovers DEF surface_resize
<1> QED BY <1>4, <1>5

LEMMA ShowOrHideCovers ==
  ASSUME CompInv, NEW s \in Surface, ShowOrHide(s)
  PROVE  CompInv'
<1> USE DEF CompInv
<1> DEFINE w == surf[s].width
           y == surf[s].x
           h == surfaces.head
<1>1. w \in Int /\ y \in Int /\ damage \in DamageType
  BY DEF CompShape, SurfaceType
<1>2. /\ damage' \in DamageType
      /\ column \in Damaged(damage) => column \in Damaged(damage')
      /\ column \in Columns(Rect(y, w)) => column \in Damaged(damage')
  <2>1. damage' = compositor_add_damage(damage, Rect(y, w))
    BY DEF ShowOrHide, RectOf
  <2> HIDE DEF y, w
  <2> QED BY <1>1, <2>1, RectCovers
<1>3. CompShape'
  BY <1>1, <1>2 DEF CompShape, ShowOrHide, Changes, SurfaceType
<1>4. CASE s = cursor.surface
  BY <1>2, <1>3, <1>4, StepCovers DEF ShowOrHide
<1>5. CASE s # cursor.surface
  <2>1. /\ \A t \in Surface : surf'[t].width = surf[t].width /\ surf'[t].x = surf[t].x
        /\ \A t \in Surface : t # s => surf'[t].visible = surf[t].visible
    BY DEF ShowOrHide, CompShape, SurfaceType
  <2>2. h \in Surface \cup {NULL} /\ cursor.surface \in Surface \cup {NULL}
    BY DEF CompShape
  <2>3. PointerOf(surf', cursor, column) = PointerOf(surf, cursor, column)
    BY <1>5, <2>1, <2>2 DEF PointerOf, Visible
  <2>4. LayerOf(surf', h, cursor, column) # LayerOf(surf, h, cursor, column)
          => column \in Columns(Rect(y, w))
    <3>1. CASE h # s
      BY <2>1, <2>2, <3>1 DEF LayerOf, Visible
    <3>2. CASE h = s
      BY <2>1, <3>2 DEF LayerOf, Visible
    <3> QED BY <3>1, <3>2
  <2>5. cursor' = cursor /\ surfaces' = surfaces /\ column' = column
    BY DEF ShowOrHide, Changes
  <2>6. Scene' # Scene => column \in Damaged(damage')
    BY <1>2, <1>3, <2>3, <2>4, <2>5, SceneBefore, SceneAfter DEF SceneOf
  <2> QED BY <1>2, <1>3, <2>6, StepCovers DEF ShowOrHide
<1> QED BY <1>4, <1>5

LEMMA SwapCovers ==
  ASSUME CompInv, NEW s \in Surface, surface_swap_buffers(s)
  PROVE  CompInv'
<1> USE DEF CompInv
<1> DEFINE w == surf[s].width
           y == surf[s].x
<1>1. w \in Int /\ y \in Int /\ damage \in DamageType
  BY DEF CompShape, SurfaceType
<1>2. /\ damage' \in DamageType
      /\ column \in Damaged(damage) => column \in Damaged(damage')
      /\ surf[s].visible /\ column \in Columns(Rect(y, w)) => column \in Damaged(damage')
  <2>1. damage' = IF surf[s].visible THEN compositor_add_damage(damage, Rect(y, w)) ELSE damage
    BY DEF surface_swap_buffers, RectOf
  <2> HIDE DEF y, w
  <2> QED BY <1>1, <2>1, RectCovers
<1>3. CompShape'
  BY <1>2 DEF CompShape, surface_swap_buffers, Changes
<1>4. Scene' = Scene
  BY <1>3, SceneBefore, SceneAfter DEF surface_swap_buffers, Changes
<1>5. s # cursor.surface /\ Seen(s) => column \in Damaged(damage')
  BY <1>2, SeenIs
<1> QED BY <1>2, <1>3, <1>4, <1>5, StepCovers DEF surface_swap_buffers

(* A surface that is in the list is its only one: raising it leaves it so. *)
LEMMA RaiseCovers ==
  ASSUME CompInv, NEW s \in Surface, surface_raise(s)
  PROVE  CompInv'
<1> USE DEF CompInv
<1> DEFINE w == surf[s].width
           y == surf[s].x
           l == Unlinked(surfaces, s)
<1>1. w \in Int /\ y \in Int /\ damage \in DamageType
  BY DEF CompShape, SurfaceType
<1>2. damage' \in DamageType /\ (column \in Damaged(damage) => column \in Damaged(damage'))
  <2>1. damage' = compositor_add_damage(damage, Rect(y, w))
    BY DEF surface_raise, RectOf
  <2> HIDE DEF y, w
  <2> QED BY <1>1, <2>1, RectCovers
<1>3. Sole(surfaces', s)
  <2>1. Sole(l, NULL)
    BY UnlinkedSole DEF CompShape
  <2>2. surfaces' = Linked(l, s, NULL, NULL)
    BY <2>1 DEF surface_raise, Sole
  <2> HIDE DEF l
  <2> QED BY <2>1, <2>2, LinkedSole
<1>4. surfaces'.head = s
  BY <1>3 DEF Sole
<1>5. CompShape'
  BY <1>2, <1>3, <1>4 DEF CompShape, surface_raise, Changes
<1>6. InStack(s) => surfaces.head = s
  <2>1. Stack = Alone(surfaces.head)
    BY SceneBefore
  <2> QED BY <2>1 DEF InStack, Alone, ToSet
<1>7. InStack(s) => Scene' = Scene
  BY <1>4, <1>5, <1>6, SceneBefore, SceneAfter DEF surface_raise, Changes
<1> QED BY <1>2, <1>5, <1>7, StepCovers DEF surface_raise

(* A step after which the whole screen is drawn. *)
LEMMA RedrawCovers ==
  ASSUME CompInv, damage' = compositor_force_redraw(damage), NEW redrawn, NEW silent,
         Changes(redrawn, silent),
         CompShape' \/ (UNCHANGED <<surf, alive, cursor>> /\ \E s \in alive : Sole(surfaces', s))
  PROVE  CompInv'
<1> USE DEF CompInv
<1>1. damage' \in DamageType /\ Damaged(damage') = Column
  BY DEF compositor_force_redraw, DamageType, Damaged
<1>2. CompShape'
  BY <1>1 DEF CompShape, Changes, Sole
<1>3. column \in Damaged(damage')
  BY <1>1 DEF CompShape
<1> QED BY <1>2, <1>3, StepCovers

LEMMA LowerCovers ==
  ASSUME CompInv, NEW s \in Surface, surface_lower(s) \/ surface_set_z_order(s)
  PROVE  CompInv'
<1> DEFINE l == Unlinked(surfaces, s)
           rest == ChainFrom(l.next, l.head)
<1>1. Sole(l, NULL) /\ l.head = NULL
  <2>1. Sole(l, NULL)
    BY UnlinkedSole DEF CompInv, CompShape
  <2> QED BY <2>1 DEF Sole
<1>2. rest = <<>>
  <2> HIDE DEF l
  <2> QED BY <1>1, SoleChain DEF Alone
<1>3. surfaces' = Linked(l, s, NULL, NULL)
  <2>1. CASE surface_lower(s)
    BY <1>1, <2>1 DEF surface_lower
  <2>2. CASE surface_set_z_order(s)
    <3>1. PICK k \in 1 .. Len(rest) + 1 :
            surfaces' = Linked(l, s, IF k = 1 THEN NULL ELSE rest[k - 1],
                                     IF k > Len(rest) THEN NULL ELSE rest[k])
      BY <2>2 DEF surface_set_z_order
    <3>2. k = 1 /\ k > Len(rest)
      <4> HIDE DEF rest
      <4> QED BY <1>2
    <3> HIDE DEF l, rest
    <3> QED BY <3>1, <3>2
  <2> QED BY <2>1, <2>2
<1>4. Sole(surfaces', s)
  <2> HIDE DEF l
  <2> QED BY <1>1, <1>3, LinkedSole
<1>5. /\ s \in alive /\ damage' = compositor_force_redraw(damage)
      /\ UNCHANGED <<surf, alive, cursor>> /\ Changes(FALSE, FALSE)
  BY DEF surface_lower, surface_set_z_order
<1> QED BY <1>4, <1>5, RedrawCovers

(* What the cursor left and where it comes to. *)
LEMMA CursorDamageCovers ==
  ASSUME CompShape, NEW d \in DamageType, NEW s \in Surface \cup {NULL}, NEW x \in Int
  PROVE  /\ CursorDamage(d, s, x) \in DamageType
         /\ column \in Damaged(d) => column \in Damaged(CursorDamage(d, s, x))
         /\ s # NULL /\ column \in Columns(Rect(x, surf[s].width)) =>
              column \in Damaged(CursorDamage(d, s, x))
<1>1. CASE s = NULL
  BY <1>1 DEF CursorDamage
<1>2. CASE s # NULL
  <2> DEFINE w == surf[s].width
  <2>1. w \in Int
    BY <1>2 DEF CompShape, SurfaceType
  <2>2. CursorDamage(d, s, x) = compositor_add_damage(d, Rect(x, w))
    BY <1>2 DEF CursorDamage
  <2> HIDE DEF w
  <2>3. /\ CursorDamage(d, s, x) \in DamageType
        /\ column \in Damaged(d) => column \in Damaged(CursorDamage(d, s, x))
        /\ column \in Columns(Rect(x, w)) => column \in Damaged(CursorDamage(d, s, x))
    BY <2>1, <2>2, RectCovers
  <2> QED BY <2>3 DEF w
<1> QED BY <1>1, <1>2

(* The cursor is surface s, where x is, instead of what it was. *)
LEMMA CursorCovers ==
  ASSUME CompInv, NEW s \in alive \cup {NULL}, NEW x \in Int, NEW silent,
         cursor' = [surface |-> s, x |-> x],
         damage' = CursorDamage(CursorDamage(damage, cursor.surface, cursor.x), s, x),
         UNCHANGED <<surf, alive, surfaces>>, Changes(FALSE, silent),
         silent \/ s = cursor.surface \/ (surfaces.head = NULL \/ surfaces.head \notin {s, cursor.surface})
  PROVE  CompInv'
<1> USE DEF CompInv
<1> DEFINE c == cursor.surface
           y == cursor.x
           h == surfaces.head
           d1 == CursorDamage(damage, c, y)
<1>1. /\ c \in Surface \cup {NULL} /\ y \in Int /\ s \in Surface \cup {NULL}
      /\ damage \in DamageType /\ h \in Surface \cup {NULL}
  BY DEF CompShape
<1>2. /\ d1 \in DamageType
      /\ column \in Damaged(damage) => column \in Damaged(d1)
      /\ c # NULL /\ column \in Columns(Rect(y, surf[c].width)) => column \in Damaged(d1)
  <2> HIDE DEF c, y
  <2> QED BY <1>1, CursorDamageCovers
<1>3. /\ damage' \in DamageType
      /\ column \in Damaged(d1) => column \in Damaged(damage')
      /\ s # NULL /\ column \in Columns(Rect(x, surf[s].width)) => column \in Damaged(damage')
  <2>1. damage' = CursorDamage(d1, s, x)
    OBVIOUS
  <2> HIDE DEF d1
  <2> QED BY <1>1, <1>2, <2>1, CursorDamageCovers
<1> HIDE DEF d1
<1>4. CompShape'
  BY <1>3 DEF CompShape, Changes
<1>5. silent \/ LayerOf(surf, h, cursor', column) = LayerOf(surf, h, cursor, column)
  BY DEF LayerOf
<1>6. PointerOf(surf, cursor', column) # PointerOf(surf, cursor, column)
        => column \in Damaged(damage')
  <2>1. PointerOf(surf, cursor', column) # PointerOf(surf, cursor, column)
          => \/ c # NULL /\ column \in Columns(Rect(y, surf[c].width))
             \/ s # NULL /\ column \in Columns(Rect(x, surf[s].width))
    BY DEF PointerOf, Visible
  <2> QED BY <1>2, <1>3, <2>1
<1>7. silent \/ (Scene' # Scene => column \in Damaged(damage'))
  BY <1>4, <1>5, <1>6, SceneBefore, SceneAfter DEF SceneOf, Changes
<1> QED BY <1>2, <1>3, <1>4, <1>7, StepCovers

LEMMA SetCursorCovers ==
  ASSUME CompInv, NEW s \in Surface \cup {NULL}, compositor_set_cursor(s)
  PROVE  CompInv'
<1> DEFINE h == surfaces.head
           silent == InStack(s) \/ InStack(cursor.surface)
<1>1. /\ s \in alive \cup {NULL} /\ cursor.x \in Int
      /\ cursor' = [surface |-> s, x |-> cursor.x]
      /\ damage' = CursorDamage(CursorDamage(damage, cursor.surface, cursor.x), s, cursor.x)
      /\ UNCHANGED <<surf, alive, surfaces>> /\ Changes(FALSE, silent)
  BY DEF compositor_set_cursor, CompInv, CompShape
<1>2. silent \/ h = NULL \/ h \notin {s, cursor.surface}
  <2> SUFFICES ASSUME h # NULL PROVE h \in ToSet(Stack)
    BY DEF InStack
  <2>1. Stack = <<h>>
    BY SceneBefore DEF CompInv, Alone
  <2> QED BY <2>1 DEF ToSet
<1> HIDE DEF silent
<1> DEFINE x == cursor.x
<1>3. /\ x \in Int /\ cursor' = [surface |-> s, x |-> x]
      /\ damage' = CursorDamage(CursorDamage(damage, cursor.surface, cursor.x), s, x)
  BY <1>1
<1> HIDE DEF x
<1> QED BY <1>1, <1>2, <1>3, CursorCovers

LEMMA MoveCursorCovers ==
  ASSUME CompInv, NEW x \in Places, compositor_move_cursor(x)
  PROVE  CompInv'
<1> DEFINE s == cursor.surface
<1>1. /\ s \in alive \cup {NULL} /\ x \in Int /\ cursor' = [surface |-> s, x |-> x]
      /\ damage' = CursorDamage(CursorDamage(damage, cursor.surface, cursor.x), s, x)
      /\ UNCHANGED <<surf, alive, surfaces>> /\ Changes(FALSE, FALSE) /\ s = cursor.surface
  BY CompAssumption DEF compositor_move_cursor, CompInv, CompShape
<1> HIDE DEF s
<1> QED BY <1>1, CursorCovers

LEMMA RenderCovers ==
  ASSUME CompInv, compositor_render
  PROVE  CompInv'
<1> USE DEF CompInv
<1>1. CompShape'
  BY DEF CompShape, compositor_render, DamageType
<1>2. ~stale'
  BY DEF compositor_render, DamageCoversChanges
<1> QED BY <1>1, <1>2 DEF DamageCoversChanges

(* A column that is to look different from what was last drawn there lies  *)
(* in a rectangle the next frame draws, however rectangles are clipped to  *)
(* the screen, merged, and given up for the whole screen when one too many *)
(* comes; but for the changes the code is known not to report              *)
(* (compositor.c:146-345, 380-440, 579-604).                               *)
THEOREM DamageIsComplete == CompSpec => []DamageCoversChanges
<1>1. CompInit => CompInv
  <2> SUFFICES ASSUME CompInit PROVE CompInv
    OBVIOUS
  <2>1. Width \div 2 \in Int
    BY CompAssumption
  <2>2. damage \in DamageType /\ Damaged(damage) = Column
    BY DEF CompInit, DamageType, Damaged
  <2>3. cursor \in [surface : alive \cup {NULL}, x : Int]
    BY <2>1 DEF CompInit
  <2>4. CompShape
    BY <2>2, <2>3 DEF CompInit, CompShape, Sole, CompBlank, SurfaceType
  <2> QED BY <2>2, <2>4 DEF CompInv, CompInit, DamageCoversChanges
<1>2. CompInv /\ [CompNext]_compVars => CompInv'
  <2> SUFFICES ASSUME CompInv, [CompNext]_compVars PROVE CompInv'
    OBVIOUS
  <2>1. ASSUME NEW s \in Surface, surface_destroy(s) PROVE CompInv'
    BY <2>1, DestroyCovers
  <2>2. ASSUME NEW s \in Surface, ShowOrHide(s) PROVE CompInv'
    BY <2>2, ShowOrHideCovers
  <2>3. ASSUME NEW s \in Surface, surface_swap_buffers(s) PROVE CompInv'
    BY <2>3, SwapCovers
  <2>4. ASSUME NEW s \in Surface, surface_raise(s) PROVE CompInv'
    BY <2>4, RaiseCovers
  <2>5. ASSUME NEW s \in Surface, surface_lower(s) \/ surface_set_z_order(s) PROVE CompInv'
    BY <2>5, LowerCovers
  <2>6. ASSUME NEW s \in Surface, NEW w \in Widths, surface_create(s, w) PROVE CompInv'
    BY <2>6, CreateCovers
  <2>7. ASSUME NEW s \in Surface, NEW w \in Widths, surface_resize(s, w) PROVE CompInv'
    BY <2>7, ResizeCovers
  <2>8. ASSUME NEW s \in Surface, NEW x \in Places, surface_move(s, x) PROVE CompInv'
    BY <2>8, MoveCovers
  <2>9. ASSUME NEW s \in Surface \cup {NULL}, compositor_set_cursor(s) PROVE CompInv'
    BY <2>9, SetCursorCovers
  <2>10. ASSUME NEW x \in Places, compositor_move_cursor(x) PROVE CompInv'
    BY <2>10, MoveCursorCovers
  <2>11. CASE compositor_set_wallpaper
    <3>1. CompShape'
      BY <2>11 DEF CompInv, CompShape, compositor_set_wallpaper, Changes, compositor_force_redraw, DamageType
    <3> QED BY <2>11, <3>1, RedrawCovers DEF compositor_set_wallpaper
  <2>12. CASE compositor_render
    BY <2>12, RenderCovers
  <2>13. CASE UNCHANGED compVars
    BY <2>13 DEF compVars, CompInv, CompShape, DamageCoversChanges, Damaged
  <2> QED BY <2>1, <2>2, <2>3, <2>4, <2>5, <2>6, <2>7, <2>8, <2>9, <2>10, <2>11, <2>12, <2>13
          DEF CompNext
<1>3. CompInv => DamageCoversChanges
  BY DEF CompInv
<1> QED BY <1>1, <1>2, <1>3, PTL DEF CompSpec
=============================================================================
