---------------------------- MODULE LinkedLists ----------------------------
(***************************************************************************)
(* Doubly linked lists as the kernel writes them by hand: every node has   *)
(* a next and a prev field, several heads may share the nodes.  A set of   *)
(* such lists is a record [head, next, prev] of functions.                 *)
(***************************************************************************)
EXTENDS Integers, FiniteSets, SequencesExt

CONSTANT NULL

NextNode(next, x) == IF x = NULL THEN NULL ELSE next[x]

(* The nodes met from p on, at most as many as there are nodes.            *)
ChainFrom(next, p) ==
  LET n == Cardinality(DOMAIN next)
      node[k \in 0 .. n] == IF k = 0 THEN p ELSE NextNode(next, node[k - 1])
  IN  [i \in 1 .. Cardinality({k \in 0 .. n - 1 : node[k] # NULL}) |-> node[i - 1]]

Chain(lists, h) == ChainFrom(lists.next, lists.head[h])
Nodes(lists, h) == ToSet(Chain(lists, h))

(* Push node x at the front of list h. *)
PushFront(lists, h, x) ==
  LET old == lists.head[h]
  IN  [head |-> [lists.head EXCEPT ![h] = x],
       next |-> [lists.next EXCEPT ![x] = old],
       prev |-> [n \in DOMAIN lists.prev |-> IF n = x THEN NULL
                                             ELSE IF n = old THEN x ELSE lists.prev[n]]]

(* Take node x out of list h, going by its own fields: they keep their     *)
(* values.                                                                 *)
Unlink(lists, h, x) ==
  LET p == lists.prev[x]
      n == lists.next[x]
  IN  [head |-> [lists.head EXCEPT ![h] = IF p = NULL THEN n ELSE @],
       next |-> [y \in DOMAIN lists.next |-> IF y = p THEN n ELSE lists.next[y]],
       prev |-> [y \in DOMAIN lists.prev |-> IF y = n THEN p ELSE lists.prev[y]]]

(* Walking list h ends, meets no node twice, and every prev names the node *)
(* before.                                                                 *)
WellLinked(lists, h) ==
  LET c == Chain(lists, h)
  IN  /\ IsInjective(c)
      /\ c # <<>> => lists.next[Last(c)] = NULL
      /\ \A i \in DOMAIN c : lists.prev[c[i]] = IF i = 1 THEN NULL ELSE c[i - 1]
=============================================================================
