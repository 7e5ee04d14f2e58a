--------------------------- MODULE SequenceLemmas ---------------------------
(***************************************************************************)
(* What the proofs of several components need to know of numbers and of    *)
(* sequences: a least number, what RemoveFirst leaves of a sequence, how   *)
(* often an element occurs after an append or a removal, what stays of an  *)
(* injective sequence, the sequence that a ring buffer holds between its   *)
(* two indices, that a step taken n times leads somewhere, and what a      *)
(* sequence of numbers adds up to.                                         *)
(***************************************************************************)
EXTENDS Integers, SequencesExt, Totals, SequenceTheorems, FiniteSetTheorems, WellFoundedInduction, TLAPS

(* A set of numbers that is not empty has a least element. *)
LEMMA LeastElement ==
  ASSUME NEW T \in SUBSET Nat, T # {}
  PROVE  \E x \in T : \A y \in T : x <= y
<1> DEFINE below == OpToRel(<, Nat)
<1>1. \A x, y \in Nat : y < x => <<y, x>> \in below
  BY DEF OpToRel
<1>2. IsWellFoundedOn(below, Nat)
  BY NatLessThanWellFounded
<1> HIDE DEF below
<1>3. PICK x \in T : \A y \in T : ~(<<y, x>> \in below)
  BY <1>2, WFMin
<1>4. \A y \in T : ~(y < x)
  BY <1>1, <1>3, Zenon
<1> QED BY <1>4

(* Induction, for a set of numbers instead of a predicate. *)
LEMMA SetInduction ==
  ASSUME NEW T \in SUBSET Nat, 0 \in T, \A n \in T : n + 1 \in T
  PROVE  T = Nat
<1> SUFFICES ASSUME Nat \ T # {} PROVE FALSE
  OBVIOUS
<1>1. PICK x \in Nat \ T : \A y \in Nat \ T : x <= y
  BY LeastElement
<1>2. x # 0 /\ x - 1 \in Nat
  BY <1>1
<1>3. x - 1 \in T
  BY <1>1, <1>2
<1> QED BY <1>1, <1>3

----------------------------------------------------------------------------
(* RemoveFirst takes out one element, the first that is e, and closes up.  *)
LEMMA RemoveFirstIs ==
  ASSUME NEW S, NEW s \in Seq(S), NEW e
  PROVE  /\ RemoveFirst(s, e) \in Seq(S)
         /\ e \notin ToSet(s) => RemoveFirst(s, e) = s
         /\ e \in ToSet(s) =>
              \E k \in 1 .. Len(s) :
                /\ s[k] = e /\ \A j \in 1 .. k - 1 : s[j] # e
                /\ Len(RemoveFirst(s, e)) = Len(s) - 1
                /\ \A i \in 1 .. Len(s) - 1 :
                     RemoveFirst(s, e)[i] = s[IF i < k THEN i ELSE i + 1]
<1>0. Len(s) \in Nat /\ DOMAIN s = 1 .. Len(s) /\ \A i \in 1 .. Len(s) : s[i] \in S
  OBVIOUS
<1>1. CASE e \notin ToSet(s)
  BY <1>0, <1>1 DEF RemoveFirst, ToSet
<1>2. CASE e \in ToSet(s)
  <2> DEFINE I == {i \in 1 .. Len(s) : s[i] = e}
             k == CHOOSE x \in I : \A y \in I : x <= y
             r == SubSeq(s, 1, k - 1) \o SubSeq(s, k + 1, Len(s))
  <2>1. I \in SUBSET Nat /\ I # {}
    BY <1>0, <1>2 DEF ToSet
  <2>2. k \in I /\ \A y \in I : k <= y
    BY <2>1, LeastElement
  <2>3. RemoveFirst(s, e) = r
    <3>1. SelectInSeq(s, LAMBDA v : v = e) = k
      BY <2>1 DEF SelectInSeq, Min
    <3> HIDE DEF k
    <3> QED BY <2>1, <3>1 DEF RemoveFirst, RemoveAt
  <2> HIDE DEF k
  <2>4. k \in 1 .. Len(s) /\ s[k] = e /\ \A j \in 1 .. k - 1 : s[j] # e
    BY <1>0, <2>2
  <2> DEFINE front == SubSeq(s, 1, k - 1)
             back  == SubSeq(s, k + 1, Len(s))
  <2>5. /\ front \in Seq(S) /\ Len(front) = k - 1
        /\ \A i \in 1 .. k - 1 : front[i] = s[i]
    BY <1>0, <2>4, SubSeqProperties
  <2>6. /\ back \in Seq(S) /\ Len(back) = Len(s) - k
        /\ \A i \in 1 .. Len(s) - k : back[i] = s[k + i]
    <3>1. \A i \in k + 1 .. Len(s) : s[i] \in S
      BY <1>0, <2>4
    <3>2. k + 1 \in Int /\ Len(s) \in Int
      BY <1>0, <2>4
    <3>3. /\ back \in Seq(S)
          /\ Len(back) = IF k + 1 <= Len(s) THEN Len(s) - (k + 1) + 1 ELSE 0
          /\ \A i \in 1 .. Len(s) - (k + 1) + 1 : back[i] = s[(k + 1) + i - 1]
      BY <3>1, <3>2, SubSeqProperties
    <3>4. ASSUME NEW i \in 1 .. Len(s) - k
          PROVE  back[i] = s[k + i]
      <4>1. i \in 1 .. Len(s) - (k + 1) + 1 /\ (k + 1) + i - 1 = k + i
        BY <1>0, <2>4
      <4> QED BY <3>3, <4>1
    <3>7. k \in Nat /\ Len(s) \in Nat /\ k <= Len(s)
      BY <1>0, <2>4
    <3>5. /\ k + 1 <= Len(s) => Len(s) - (k + 1) + 1 = Len(s) - k
          /\ ~(k + 1 <= Len(s)) => Len(s) - k = 0
      BY <3>7
    <3>6. Len(back) = Len(s) - k
      BY <3>3, <3>5, Zenon
    <3> QED BY <3>3, <3>4, <3>6
  <2> HIDE DEF front, back
  <2>7. /\ front \o back \in Seq(S) /\ Len(front \o back) = Len(s) - 1
        /\ \A i \in 1 .. Len(s) - 1 :
             (front \o back)[i] = IF i < k THEN front[i] ELSE back[i - (k - 1)]
    <3>1. /\ front \o back \in Seq(S) /\ Len(front \o back) = Len(front) + Len(back)
          /\ \A i \in 1 .. Len(front) + Len(back) :
               (front \o back)[i] = IF i <= Len(front) THEN front[i] ELSE back[i - Len(front)]
      BY <2>5, <2>6, ConcatProperties
    <3>2. Len(front) + Len(back) = Len(s) - 1 /\ Len(front) = k - 1
      BY <1>0, <2>4, <2>5, <2>6
    <3>3. ASSUME NEW i \in 1 .. Len(s) - 1
          PROVE  (front \o back)[i] = IF i < k THEN front[i] ELSE back[i - (k - 1)]
      <4>1. i <= k - 1 <=> i < k
        BY <1>0, <2>4
      <4> QED BY <3>1, <3>2, <4>1
    <3> QED BY <3>1, <3>2, <3>3
  <2>8. \A i \in 1 .. Len(s) - 1 :
          (front \o back)[i] = s[IF i < k THEN i ELSE i + 1]
    <3> TAKE i \in 1 .. Len(s) - 1
    <3>1. CASE i < k
      BY <1>0, <2>4, <2>5, <2>7, <3>1
    <3>2. CASE ~(i < k)
      <4>1. i - (k - 1) \in 1 .. Len(s) - k /\ k + (i - (k - 1)) = i + 1
        BY <1>0, <2>4, <3>2
      <4>2. back[i - (k - 1)] = s[i + 1]
        BY <2>6, <4>1
      <4> QED BY <2>7, <3>2, <4>2
    <3> QED BY <3>1, <3>2
  <2>9. r = front \o back
    BY DEF front, back
  <2> HIDE DEF r
  <2> QED BY <1>2, <2>3, <2>4, <2>7, <2>8, <2>9
<1> QED BY <1>1, <1>2

----------------------------------------------------------------------------
(* Elements that occur at most once. *)
AtMostOnce(x, s) == \A i, j \in DOMAIN s : s[i] = x /\ s[j] = x => i = j

(* Append adds one element at the end, the only new one. *)
LEMMA AppendOnce ==
  ASSUME NEW S, NEW s \in Seq(S), NEW a \in S
  PROVE  /\ Append(s, a) \in Seq(S)
         /\ ToSet(Append(s, a)) = ToSet(s) \cup {a}
         /\ \A x : AtMostOnce(x, s) /\ (x = a => x \notin ToSet(s)) =>
                    AtMostOnce(x, Append(s, a))
<1>1. Len(s) \in Nat /\ DOMAIN s = 1 .. Len(s) /\ DOMAIN Append(s, a) = 1 .. Len(s) + 1
  OBVIOUS
<1>2. /\ \A i \in 1 .. Len(s) : Append(s, a)[i] = s[i]
      /\ Append(s, a)[Len(s) + 1] = a
  OBVIOUS
<1>3. \A i \in 1 .. Len(s) + 1 : i \in 1 .. Len(s) \/ i = Len(s) + 1
  BY <1>1
<1>4. ToSet(Append(s, a)) = ToSet(s) \cup {a}
  BY <1>1, <1>2, <1>3 DEF ToSet
<1>5. ASSUME NEW x, AtMostOnce(x, s), x = a => x \notin ToSet(s)
      PROVE  AtMostOnce(x, Append(s, a))
  BY <1>1, <1>2, <1>3, <1>5 DEF AtMostOnce, ToSet
<1> QED BY <1>4, <1>5

(* Tail drops the head, and the head alone. *)
LEMMA TailOnce ==
  ASSUME NEW S, NEW s \in Seq(S), s # <<>>
  PROVE  /\ Head(s) \in S /\ Tail(s) \in Seq(S)
         /\ ToSet(s) = {Head(s)} \cup ToSet(Tail(s))
         /\ \A x : AtMostOnce(x, s) =>
                     AtMostOnce(x, Tail(s)) /\ (x = Head(s) => x \notin ToSet(Tail(s)))
<1>1. /\ Len(s) \in Nat \ {0} /\ DOMAIN s = 1 .. Len(s) /\ DOMAIN Tail(s) = 1 .. Len(s) - 1
      /\ Head(s) = s[1] /\ Head(s) \in S /\ Tail(s) \in Seq(S)
  OBVIOUS
<1>2. \A i \in 1 .. Len(s) - 1 : Tail(s)[i] = s[i + 1] /\ i + 1 \in 1 .. Len(s) /\ i + 1 # 1
  BY <1>1
<1>3. \A i \in 1 .. Len(s) : i = 1 \/ (i - 1 \in 1 .. Len(s) - 1 /\ Tail(s)[i - 1] = s[i])
  BY <1>1
<1>4. ToSet(s) = {Head(s)} \cup ToSet(Tail(s))
  <2>1. ASSUME NEW i \in 1 .. Len(s) PROVE s[i] \in {Head(s)} \cup ToSet(Tail(s))
    BY <1>1, <1>3 DEF ToSet
  <2>2. ASSUME NEW i \in 1 .. Len(s) - 1 PROVE Tail(s)[i] \in ToSet(s)
    BY <1>1, <1>2 DEF ToSet
  <2>3. Head(s) \in ToSet(s)
    BY <1>1 DEF ToSet
  <2> QED BY <1>1, <2>1, <2>2, <2>3 DEF ToSet
<1>5. ASSUME NEW x, AtMostOnce(x, s)
      PROVE  AtMostOnce(x, Tail(s)) /\ (x = Head(s) => x \notin ToSet(Tail(s)))
  <2>1. ASSUME NEW i \in 1 .. Len(s) - 1, NEW j \in 1 .. Len(s) - 1,
               Tail(s)[i] = x, Tail(s)[j] = x
        PROVE  i = j
    <3>1. i + 1 = j + 1
      BY <1>1, <1>2, <1>5, <2>1 DEF AtMostOnce
    <3> QED BY <3>1
  <2>2. ASSUME NEW i \in 1 .. Len(s) - 1, Tail(s)[i] = x PROVE x # Head(s)
    <3>1. 1 \in 1 .. Len(s)
      BY <1>1
    <3> QED BY <1>1, <1>2, <1>5, <2>2, <3>1 DEF AtMostOnce
  <2> QED BY <1>1, <2>1, <2>2 DEF AtMostOnce, ToSet
<1> QED BY <1>1, <1>4, <1>5

(* RemoveFirst drops e where it occurs first, and repeats nothing. *)
LEMMA RemoveFirstOnce ==
  ASSUME NEW S, NEW s \in Seq(S), NEW e
  PROVE  /\ RemoveFirst(s, e) \in Seq(S)
         /\ ToSet(RemoveFirst(s, e)) \subseteq ToSet(s)
         /\ ToSet(s) \subseteq ToSet(RemoveFirst(s, e)) \cup {e}
         /\ AtMostOnce(e, s) => e \notin ToSet(RemoveFirst(s, e))
         /\ \A x : AtMostOnce(x, s) => AtMostOnce(x, RemoveFirst(s, e))
         /\ Len(RemoveFirst(s, e)) = Len(s) - (IF e \in ToSet(s) THEN 1 ELSE 0)
<1> DEFINE r == RemoveFirst(s, e)
<1>1. CASE e \notin ToSet(s)
  BY <1>1, RemoveFirstIs
<1>2. CASE e \in ToSet(s)
  <2>1. PICK k \in 1 .. Len(s) :
          /\ s[k] = e /\ \A j \in 1 .. k - 1 : s[j] # e
          /\ Len(r) = Len(s) - 1
          /\ \A i \in 1 .. Len(s) - 1 : r[i] = s[IF i < k THEN i ELSE i + 1]
    BY <1>2, RemoveFirstIs
  <2>2. r \in Seq(S)
    BY RemoveFirstIs
  <2> HIDE DEF r
  <2>3. DOMAIN s = 1 .. Len(s) /\ DOMAIN r = 1 .. Len(s) - 1 /\ Len(s) \in Nat
    BY <2>1, <2>2
  <2> DEFINE old(i) == IF i < k THEN i ELSE i + 1
             new(j) == IF j < k THEN j ELSE j - 1
  <2>4. \A i \in 1 .. Len(s) - 1 : old(i) \in 1 .. Len(s) /\ old(i) # k /\ r[i] = s[old(i)]
    BY <2>1, <2>3
  <2>5. \A i, j \in 1 .. Len(s) - 1 : old(i) = old(j) => i = j
    BY <2>3
  <2>6. \A j \in 1 .. Len(s) : j # k => new(j) \in 1 .. Len(s) - 1 /\ old(new(j)) = j
    BY <2>1, <2>3
  <2> HIDE DEF old, new
  <2>7. \A i \in 1 .. Len(s) - 1 : r[i] \in ToSet(s)
    BY <2>3, <2>4 DEF ToSet
  <2>8. \A j \in 1 .. Len(s) : s[j] \in ToSet(r) \cup {e}
    <3> TAKE j \in 1 .. Len(s)
    <3>1. CASE j = k
      BY <2>1, <3>1
    <3>2. CASE j # k
      BY <2>3, <2>4, <2>6, <3>2 DEF ToSet
    <3> QED BY <3>1, <3>2
  <2>9. AtMostOnce(e, s) => e \notin ToSet(r)
    BY <2>1, <2>3, <2>4 DEF AtMostOnce, ToSet
  <2>10. \A x : AtMostOnce(x, s) => AtMostOnce(x, r)
    BY <2>3, <2>4, <2>5 DEF AtMostOnce
  <2>11. ToSet(r) \subseteq ToSet(s)
    BY <2>3, <2>7 DEF ToSet
  <2>12. ToSet(s) \subseteq ToSet(r) \cup {e}
    BY <2>3, <2>8 DEF ToSet
  <2> QED BY <1>2, <2>1, <2>2, <2>9, <2>10, <2>11, <2>12 DEF r
<1> QED BY <1>1, <1>2

----------------------------------------------------------------------------
(* The first n elements of a sequence. *)
Cut(s, n) == IF Len(s) <= n THEN s ELSE SubSeq(s, 1, n)

LEMMA CutIs ==
  ASSUME NEW S, NEW s \in Seq(S), NEW n \in Nat
  PROVE  /\ Cut(s, n) \in Seq(S)
         /\ Len(s) <= n => Cut(s, n) = s
         /\ ~(Len(s) <= n) => Len(Cut(s, n)) = n /\ \A i \in 1 .. n : Cut(s, n)[i] = s[i]
<1>1. CASE Len(s) <= n
  BY <1>1 DEF Cut
<1>2. CASE ~(Len(s) <= n)
  <2>1. Len(s) \in Nat /\ 1 \in Int /\ n \in Int /\ \A i \in 1 .. n : s[i] \in S
    BY <1>2
  <2>2. /\ SubSeq(s, 1, n) \in Seq(S) /\ Len(SubSeq(s, 1, n)) = n
        /\ \A i \in 1 .. n : SubSeq(s, 1, n)[i] = s[i]
    BY <1>2, <2>1, SubSeqProperties
  <2> QED BY <1>2, <2>2 DEF Cut
<1> QED BY <1>1, <1>2

(* Cutting twice, before and after something is added, is cutting once. *)
LEMMA CutConcat ==
  ASSUME NEW S, NEW a \in Seq(S), NEW b \in Seq(S), NEW n \in Nat
  PROVE  Cut(Cut(a, n) \o b, n) = Cut(a \o b, n)
<1>1. CASE Len(a) <= n
  BY <1>1, CutIs
<1>2. CASE ~(Len(a) <= n)
  <2> DEFINE c == Cut(a, n)
  <2>1. c \in Seq(S) /\ Len(c) = n /\ \A i \in 1 .. n : c[i] = a[i]
    BY <1>2, CutIs
  <2> HIDE DEF c
  <2>2. /\ c \o b \in Seq(S) /\ a \o b \in Seq(S)
        /\ Len(c \o b) = n + Len(b) /\ Len(a \o b) = Len(a) + Len(b)
        /\ \A i \in 1 .. n : (c \o b)[i] = c[i] /\ (a \o b)[i] = a[i]
    <3>1. Len(a) \in Nat /\ Len(b) \in Nat /\ n < Len(a) /\ Len(c) \in Nat
      BY <1>2, <2>1
    <3>2. /\ c \o b \in Seq(S) /\ Len(c \o b) = n + Len(b)
          /\ \A i \in 1 .. n + Len(b) : (c \o b)[i] = IF i <= n THEN c[i] ELSE b[i - n]
      BY <2>1, <3>1, ConcatProperties
    <3>3. /\ a \o b \in Seq(S) /\ Len(a \o b) = Len(a) + Len(b)
          /\ \A i \in 1 .. Len(a) + Len(b) :
               (a \o b)[i] = IF i <= Len(a) THEN a[i] ELSE b[i - Len(a)]
      BY <3>1, ConcatProperties
    <3>4. \A i \in 1 .. n :
            /\ i <= n /\ i \in 1 .. n + Len(b)
            /\ i <= Len(a) /\ i \in 1 .. Len(a) + Len(b)
      BY <3>1
    <3> QED BY <3>2, <3>3, <3>4
  <2>3. /\ Cut(a \o b, n) \in Seq(S) /\ Len(Cut(a \o b, n)) = n
        /\ \A i \in 1 .. n : Cut(a \o b, n)[i] = a[i]
    <3>1. ~(Len(a \o b) <= n)
      BY <1>2, <2>2
    <3> QED BY <2>2, <3>1, CutIs
  <2>4. /\ Cut(c \o b, n) \in Seq(S) /\ Len(Cut(c \o b, n)) = n
        /\ \A i \in 1 .. n : Cut(c \o b, n)[i] = a[i]
    <3>1. CASE Len(b) = 0
      <4>1. Len(c \o b) <= n /\ Len(c \o b) = n
        BY <2>2, <3>1
      <4>2. Cut(c \o b, n) = c \o b
        BY <2>2, <4>1, CutIs
      <4> QED BY <2>1, <2>2, <4>1, <4>2
    <3>2. CASE Len(b) # 0
      <4>1. ~(Len(c \o b) <= n)
        BY <2>2, <3>2
      <4>2. /\ Cut(c \o b, n) \in Seq(S) /\ Len(Cut(c \o b, n)) = n
            /\ \A i \in 1 .. n : Cut(c \o b, n)[i] = (c \o b)[i]
        BY <2>2, <4>1, CutIs
      <4> QED BY <2>1, <2>2, <4>2
    <3> QED BY <3>1, <3>2
  <2>5. Cut(c \o b, n) = Cut(a \o b, n)
    BY <2>3, <2>4
  <2> QED BY <2>5 DEF c
<1> QED BY <1>1, <1>2

----------------------------------------------------------------------------
(* Sequences without repetition: what Append and RemoveFirst leave of      *)
(* them, how often an element occurs, and how long they can be.            *)
LEMMA InjectiveOnce ==
  ASSUME NEW s
  PROVE  IsInjective(s) <=> \A x : AtMostOnce(x, s)
BY DEF IsInjective, AtMostOnce

LEMMA InjectiveAppend ==
  ASSUME NEW S, NEW s \in Seq(S), IsInjective(s), NEW a \in S, a \notin ToSet(s)
  PROVE  /\ Append(s, a) \in Seq(S) /\ IsInjective(Append(s, a))
         /\ ToSet(Append(s, a)) = ToSet(s) \cup {a}
         /\ Len(Append(s, a)) = Len(s) + 1
<1>1. /\ Append(s, a) \in Seq(S) /\ ToSet(Append(s, a)) = ToSet(s) \cup {a}
      /\ \A x : AtMostOnce(x, s) => AtMostOnce(x, Append(s, a))
  BY AppendOnce
<1>2. IsInjective(Append(s, a))
  BY <1>1, InjectiveOnce
<1> QED BY <1>1, <1>2

LEMMA InjectivePrepend ==
  ASSUME NEW S, NEW s \in Seq(S), IsInjective(s), NEW a \in S, a \notin ToSet(s)
  PROVE  /\ <<a>> \o s \in Seq(S) /\ IsInjective(<<a>> \o s)
         /\ ToSet(<<a>> \o s) = ToSet(s) \cup {a}
<1> DEFINE r == <<a>> \o s
<1>1. /\ Len(s) \in Nat /\ DOMAIN s = 1 .. Len(s) /\ r \in Seq(S) /\ DOMAIN r = 1 .. Len(s) + 1
      /\ r[1] = a /\ \A i \in 1 .. Len(s) : r[i + 1] = s[i]
  OBVIOUS
<1> HIDE DEF r
<1>2. ASSUME NEW k \in DOMAIN r, k # 1
      PROVE  k - 1 \in DOMAIN s /\ r[k] = s[k - 1] /\ r[k] # a
  <2>1. k - 1 \in 1 .. Len(s) /\ (k - 1) + 1 = k
    BY <1>1, <1>2
  <2> QED BY <1>1, <2>1 DEF ToSet
<1>3. IsInjective(r)
  <2> SUFFICES ASSUME NEW i \in DOMAIN r, NEW j \in DOMAIN r, r[i] = r[j] PROVE i = j
    BY DEF IsInjective
  <2>1. CASE i = 1 \/ j = 1
    BY <1>1, <1>2, <2>1
  <2>2. CASE i # 1 /\ j # 1
    <3>1. i - 1 = j - 1
      BY <1>2, <2>2 DEF IsInjective
    <3> QED BY <1>1, <3>1
  <2> QED BY <2>1, <2>2
<1>4. ToSet(r) = ToSet(s) \cup {a}
  <2>1. ToSet(r) \subseteq ToSet(s) \cup {a}
    BY <1>1, <1>2 DEF ToSet
  <2>2. a \in ToSet(r)
    <3>1. 1 \in DOMAIN r
      BY <1>1
    <3> QED BY <1>1, <3>1 DEF ToSet
  <2>3. ASSUME NEW x \in ToSet(s) PROVE x \in ToSet(r)
    <3>1. PICK i \in DOMAIN s : s[i] = x
      BY DEF ToSet
    <3>2. i + 1 \in DOMAIN r /\ r[i + 1] = x
      BY <1>1, <3>1
    <3> QED BY <3>2 DEF ToSet
  <2> QED BY <2>1, <2>2, <2>3
<1> QED BY <1>1, <1>3, <1>4 DEF r

LEMMA InjectiveTail ==
  ASSUME NEW S, NEW s \in Seq(S), IsInjective(s), s # <<>>
  PROVE  /\ Tail(s) \in Seq(S) /\ IsInjective(Tail(s))
         /\ ToSet(Tail(s)) = ToSet(s) \ {Head(s)}
<1>1. /\ \A x : AtMostOnce(x, s) => AtMostOnce(x, Tail(s))
      /\ ToSet(s) = {Head(s)} \cup ToSet(Tail(s)) /\ Tail(s) \in Seq(S)
      /\ AtMostOnce(Head(s), s) => Head(s) \notin ToSet(Tail(s))
  BY TailOnce
<1>2. \A x : AtMostOnce(x, s)
  BY InjectiveOnce
<1>3. IsInjective(Tail(s))
  BY <1>1, <1>2, InjectiveOnce
<1> QED BY <1>1, <1>2, <1>3

LEMMA InjectiveRemove ==
  ASSUME NEW S, NEW s \in Seq(S), IsInjective(s), NEW e
  PROVE  /\ RemoveFirst(s, e) \in Seq(S) /\ IsInjective(RemoveFirst(s, e))
         /\ ToSet(RemoveFirst(s, e)) = ToSet(s) \ {e}
         /\ Len(RemoveFirst(s, e)) <= Len(s)
<1> DEFINE r == RemoveFirst(s, e)
<1>1. \A x : AtMostOnce(x, s)
  BY InjectiveOnce
<1>2. /\ r \in Seq(S)
      /\ ToSet(r) \subseteq ToSet(s) /\ ToSet(s) \subseteq ToSet(r) \cup {e}
      /\ e \notin ToSet(r)
      /\ \A x : AtMostOnce(x, r)
      /\ Len(r) = Len(s) - (IF e \in ToSet(s) THEN 1 ELSE 0)
  BY <1>1, RemoveFirstOnce
<1> HIDE DEF r
<1>3. IsInjective(r)
  BY <1>2, InjectiveOnce
<1>4. Len(r) <= Len(s)
  BY <1>2
<1> QED BY <1>2, <1>3, <1>4 DEF r

LEMMA InjectiveOccurs ==
  ASSUME NEW S, NEW s \in Seq(S), IsInjective(s), NEW x \in ToSet(s)
  PROVE  Cardinality({i \in DOMAIN s : s[i] = x}) = 1
<1>1. PICK i \in DOMAIN s : s[i] = x
  BY DEF ToSet
<1>2. {j \in DOMAIN s : s[j] = x} = {i}
  BY <1>1 DEF IsInjective
<1> QED BY <1>2, FS_Singleton

LEMMA InjectiveFits ==
  ASSUME NEW S, NEW s \in Seq(S), IsInjective(s), NEW A, IsFiniteSet(A), ToSet(s) \subseteq A
  PROVE  Len(s) <= Cardinality(A)
<1> DEFINE n == Len(s)
           I == 1 .. n
<1>1. n \in Nat /\ DOMAIN s = I
  OBVIOUS
<1>2. s \in [I -> A]
  BY <1>1 DEF ToSet
<1>3. ASSUME NEW i \in I, NEW j \in I, i # j PROVE s[i] # s[j]
  BY <1>1, <1>3 DEF IsInjective
<1> HIDE DEF n
<1>4. IsFiniteSet(I) /\ Cardinality(I) = n
  BY <1>1, FS_Interval
<1> HIDE DEF I
<1>5. ~(Cardinality(A) < Cardinality(I))
  BY <1>2, <1>3, <1>4, FS_PigeonHole
<1>6. Cardinality(A) \in Nat
  BY FS_CardinalityType
<1> QED BY <1>1, <1>4, <1>5, <1>6 DEF n

(* Inserting an element keeps the others.                                  *)
LEMMA InsertAtIs ==
  ASSUME NEW S, NEW s \in Seq(S), NEW e \in S, NEW k \in 1 .. Len(s) + 1
  PROVE  /\ InsertAt(s, k, e) \in Seq(S)
         /\ ToSet(InsertAt(s, k, e)) = ToSet(s) \cup {e}
<1> DEFINE front == SubSeq(s, 1, k - 1)
           back  == SubSeq(s, k, Len(s))
           start == front \o <<e>>
           r     == start \o back
<1>1. Len(s) \in Nat /\ DOMAIN s = 1 .. Len(s) /\ k \in Nat /\ k >= 1 /\ k <= Len(s) + 1
  OBVIOUS
<1>2. /\ front \in Seq(S) /\ Len(front) = k - 1
      /\ \A i \in 1 .. k - 1 : front[i] = s[i]
  BY <1>1
<1>3. /\ back \in Seq(S) /\ Len(back) = Len(s) - k + 1
      /\ \A i \in 1 .. Len(s) - k + 1 : back[i] = s[i + k - 1]
  BY <1>1
<1> HIDE DEF front, back
<1>4. /\ start \in Seq(S) /\ Len(start) = k /\ start[k] = e
      /\ \A i \in 1 .. k - 1 : start[i] = s[i]
  BY <1>1, <1>2
<1> HIDE DEF start
<1>5. /\ r \in Seq(S) /\ Len(r) = Len(s) + 1 /\ r[k] = e
      /\ \A i \in 1 .. k - 1 : r[i] = s[i]
      /\ \A i \in k + 1 .. Len(s) + 1 : r[i] = s[i - 1]
  <2>0. /\ r \in Seq(S) /\ Len(r) = Len(start) + Len(back)
        /\ \A i \in 1 .. Len(start) + Len(back) :
             r[i] = IF i <= Len(start) THEN start[i] ELSE back[i - Len(start)]
    BY <1>3, <1>4, ConcatProperties
  <2> HIDE DEF r
  <2>1. r \in Seq(S) /\ Len(r) = Len(s) + 1
    <3>1. k + (Len(s) - k + 1) = Len(s) + 1
      BY <1>1
    <3> QED BY <1>3, <1>4, <2>0, <3>1
  <2>2. ASSUME NEW i \in 1 .. k PROVE r[i] = start[i]
    <3>1. i \in 1 .. Len(start) + Len(back) /\ i <= Len(start)
      BY <1>1, <1>3, <1>4
    <3> QED BY <2>0, <3>1
  <2>3. ASSUME NEW i \in k + 1 .. Len(s) + 1 PROVE r[i] = s[i - 1]
    <3>0. i \in 1 .. Len(start) + Len(back) /\ ~(i <= Len(start)) /\ Len(start) = k
      BY <1>1, <1>3, <1>4
    <3>1. r[i] = back[i - k]
      BY <2>0, <3>0
    <3>2. i - k \in 1 .. Len(s) - k + 1 /\ (i - k) + k - 1 = i - 1
      BY <1>1
    <3> QED BY <1>3, <3>1, <3>2
  <2> QED BY <1>1, <1>4, <2>1, <2>2, <2>3
<1>6. InsertAt(s, k, e) = r
  BY Zenon DEF InsertAt, r, start, front, back
<1> HIDE DEF r
<1>7. DOMAIN r = 1 .. Len(s) + 1
  BY <1>5
<1>8. ASSUME NEW x \in ToSet(r) PROVE x \in ToSet(s) \cup {e}
  <2>1. PICK i \in 1 .. Len(s) + 1 : r[i] = x
    BY <1>7 DEF ToSet
  <2>2. CASE i < k
    BY <1>1, <1>5, <2>1, <2>2 DEF ToSet
  <2>3. CASE i > k
    <3>1. i - 1 \in DOMAIN s /\ i \in k + 1 .. Len(s) + 1
      BY <1>1, <2>3
    <3> QED BY <1>5, <2>1, <3>1 DEF ToSet
  <2> QED BY <1>1, <1>5, <2>1, <2>2, <2>3
<1>9. ASSUME NEW x \in ToSet(s) PROVE x \in ToSet(r)
  <2>1. PICK i \in 1 .. Len(s) : s[i] = x
    BY <1>1 DEF ToSet
  <2>2. CASE i < k
    BY <1>1, <1>5, <1>7, <2>1, <2>2 DEF ToSet
  <2>3. CASE i >= k
    <3>1. i + 1 \in k + 1 .. Len(s) + 1 /\ i + 1 \in DOMAIN r /\ (i + 1) - 1 = i
      BY <1>1, <1>7, <2>3
    <3> QED BY <1>5, <2>1, <3>1 DEF ToSet
  <2> QED BY <1>1, <2>1, <2>2, <2>3
<1>10. e \in ToSet(r)
  BY <1>1, <1>5, <1>7 DEF ToSet
<1> QED BY <1>5, <1>6, <1>8, <1>9, <1>10

----------------------------------------------------------------------------
(* Remainders of numbers that are less than one turn away. *)
Turn(x, n) == x % n

LEMMA TurnIs ==
  ASSUME NEW n \in Nat \ {0}, NEW x \in Int, -n <= x, x < n + n
  PROVE  /\ 0 <= x /\ x < n => Turn(x, n) = x
         /\ x < 0 => Turn(x, n) = x + n
         /\ n <= x => Turn(x, n) = x - n
<1>1. ASSUME 0 <= x, x < n PROVE Turn(x, n) = x
  BY <1>1 DEF Turn
<1>2. ASSUME x < 0 PROVE Turn(x, n) = x + n
  BY <1>2 DEF Turn
<1>3. ASSUME n <= x PROVE Turn(x, n) = x - n
  BY <1>3 DEF Turn
<1> QED BY <1>1, <1>2, <1>3

(* In a ring of n slots: how far it is from index t to index h, the index  *)
(* after i, and the k-th index from t.                                     *)
Distance(t, h, n) == Turn(h - t, n)
After(i, n) == Turn(i + 1, n)
RingPlace(t, k, n) == Turn(t + k - 1, n)

(* They are what they are called. *)
LEMMA RingDistance ==
  ASSUME NEW n \in Nat \ {0}, NEW t \in 0 .. n - 1, NEW h \in 0 .. n - 1
  PROVE  /\ t <= h => Distance(t, h, n) = h - t
         /\ h < t => Distance(t, h, n) = h - t + n
<1> DEFINE x == h - t
<1>1. x \in Int /\ -n <= x /\ x < n /\ x < n + n
  OBVIOUS
<1>2. (t <= h => 0 <= x) /\ (h < t => x < 0)
  OBVIOUS
<1> HIDE DEF x
<1>3. (0 <= x => Turn(x, n) = x) /\ (x < 0 => Turn(x, n) = x + n)
  BY <1>1, TurnIs
<1> QED BY <1>2, <1>3 DEF x, Distance

LEMMA RingNext ==
  ASSUME NEW n \in Nat \ {0}, NEW h \in 0 .. n - 1
  PROVE  /\ h + 1 < n => After(h, n) = h + 1
         /\ h + 1 = n => After(h, n) = 0
         /\ h + 1 < n \/ h + 1 = n
<1> DEFINE x == h + 1
<1>1. x \in Int /\ -n <= x /\ 0 <= x /\ x < n + n /\ (x < n \/ x = n)
  OBVIOUS
<1> HIDE DEF x
<1>2. (x < n => Turn(x, n) = x) /\ (n <= x => Turn(x, n) = x - n)
  BY <1>1, TurnIs
<1>3. x = n => n <= x /\ x - n = 0
  BY <1>1
<1> QED BY <1>1, <1>2, <1>3 DEF x, After

LEMMA RingIndex ==
  ASSUME NEW n \in Nat \ {0}, NEW t \in 0 .. n - 1, NEW k \in 1 .. n
  PROVE  /\ t + k - 1 < n => RingPlace(t, k, n) = t + k - 1
         /\ n <= t + k - 1 => RingPlace(t, k, n) = t + k - 1 - n
<1> DEFINE x == t + k - 1
<1>1. x \in Int /\ -n <= x /\ 0 <= x /\ x < n + n
  OBVIOUS
<1> HIDE DEF x
<1>2. (x < n => Turn(x, n) = x) /\ (n <= x => Turn(x, n) = x - n)
  BY <1>1, TurnIs
<1> QED BY <1>2 DEF x, RingPlace

(* Places follow each other, the first is t, and they are all different.   *)
LEMMA PlacesAre ==
  ASSUME NEW n \in Nat \ {0}, NEW t \in 0 .. n - 1
  PROVE  /\ \A k \in 1 .. n : RingPlace(t, k, n) \in 0 .. n - 1
         /\ RingPlace(t, 1, n) = t
         /\ \A k, l \in 1 .. n : RingPlace(t, k, n) = RingPlace(t, l, n) => k = l
         /\ \A k \in 1 .. n - 1 : RingPlace(After(t, n), k, n) = RingPlace(t, k + 1, n)
         /\ \A k \in 1 .. n - 1 : After(RingPlace(t, k, n), n) = RingPlace(t, k + 1, n)
         /\ After(t, n) \in 0 .. n - 1
<1>1. ASSUME NEW k \in 1 .. n
      PROVE  \/ t + k - 1 < n /\ RingPlace(t, k, n) = t + k - 1
             \/ n <= t + k - 1 /\ RingPlace(t, k, n) = t + k - 1 - n
  <2>1. t + k - 1 < n \/ n <= t + k - 1
    OBVIOUS
  <2> QED BY <2>1, RingIndex
<1>2. ASSUME NEW i \in 0 .. n - 1
      PROVE  (i + 1 < n /\ After(i, n) = i + 1) \/ (i + 1 = n /\ After(i, n) = 0)
  BY RingNext
<1>3. \A k \in 1 .. n : RingPlace(t, k, n) \in 0 .. n - 1
  BY <1>1
<1>4. RingPlace(t, 1, n) = t
  <2>1. 1 \in 1 .. n
    OBVIOUS
  <2>2. \/ t + 1 - 1 < n /\ RingPlace(t, 1, n) = t + 1 - 1
        \/ n <= t + 1 - 1 /\ RingPlace(t, 1, n) = t + 1 - 1 - n
    BY <1>1, <2>1
  <2> QED BY <2>2
<1>5. ASSUME NEW k \in 1 .. n, NEW l \in 1 .. n, RingPlace(t, k, n) = RingPlace(t, l, n)
      PROVE  k = l
  <2>1. \/ t + k - 1 < n /\ RingPlace(t, k, n) = t + k - 1
        \/ n <= t + k - 1 /\ RingPlace(t, k, n) = t + k - 1 - n
    BY <1>1
  <2>2. \/ t + l - 1 < n /\ RingPlace(t, l, n) = t + l - 1
        \/ n <= t + l - 1 /\ RingPlace(t, l, n) = t + l - 1 - n
    BY <1>1
  <2> QED BY <1>5, <2>1, <2>2
<1>6. ASSUME NEW k \in 1 .. n - 1
      PROVE  /\ RingPlace(After(t, n), k, n) = RingPlace(t, k + 1, n)
             /\ After(RingPlace(t, k, n), n) = RingPlace(t, k + 1, n)
  <2> DEFINE l == k + 1
             g == After(t, n)
             j == RingPlace(t, k, n)
  <2>1. k \in 1 .. n /\ l \in 1 .. n /\ l = k + 1
    OBVIOUS
  <2>2. g \in 0 .. n - 1 /\ ((t + 1 < n /\ g = t + 1) \/ (t + 1 = n /\ g = 0))
    BY RingNext
  <2>3. \/ t + k - 1 < n /\ j = t + k - 1
        \/ n <= t + k - 1 /\ j = t + k - 1 - n
    BY <1>1, <2>1
  <2> HIDE DEF l, g, j
  <2>4. \/ t + l - 1 < n /\ RingPlace(t, l, n) = t + l - 1
        \/ n <= t + l - 1 /\ RingPlace(t, l, n) = t + l - 1 - n
    BY <1>1, <2>1
  <2>5. (g + k - 1 < n => RingPlace(g, k, n) = g + k - 1)
        /\ (n <= g + k - 1 => RingPlace(g, k, n) = g + k - 1 - n)
    BY <2>1, <2>2, RingIndex
  <2>6. j \in 0 .. n - 1
    BY <2>1, <2>3
  <2>7. (j + 1 < n /\ After(j, n) = j + 1) \/ (j + 1 = n /\ After(j, n) = 0)
    BY <1>2, <2>6
  <2>8. RingPlace(g, k, n) = RingPlace(t, l, n)
    BY <2>1, <2>2, <2>4, <2>5
  <2>9. After(j, n) = RingPlace(t, l, n)
    BY <2>1, <2>3, <2>4, <2>7
  <2> QED BY <2>8, <2>9 DEF l, g, j
<1>7. After(t, n) \in 0 .. n - 1
  BY RingNext
<1> QED BY <1>3, <1>4, <1>5, <1>6, <1>7

(* The index after the last of all n is the first. *)
LEMMA RingCloses ==
  ASSUME NEW n \in Nat \ {0}, NEW t \in 0 .. n - 1
  PROVE  /\ After(RingPlace(t, n, n), n) = t
         /\ RingPlace(After(t, n), n, n) = t
<1> DEFINE g == After(t, n)
           j == RingPlace(t, n, n)
<1>1. g \in 0 .. n - 1 /\ ((t + 1 < n /\ g = t + 1) \/ (t + 1 = n /\ g = 0))
  BY RingNext
<1>2. n \in 1 .. n
  OBVIOUS
<1>3. /\ t + n - 1 < n => j = t + n - 1
      /\ n <= t + n - 1 => j = t + n - 1 - n
  BY <1>2, RingIndex
<1> HIDE DEF g, j
<1>4. j \in 0 .. n - 1 /\ ((t = 0 /\ j = n - 1) \/ (t > 0 /\ j = t - 1))
  BY <1>3
<1>5. (j + 1 < n /\ After(j, n) = j + 1) \/ (j + 1 = n /\ After(j, n) = 0)
  BY <1>4, RingNext
<1>6. /\ g + n - 1 < n => RingPlace(g, n, n) = g + n - 1
      /\ n <= g + n - 1 => RingPlace(g, n, n) = g + n - 1 - n
  BY <1>1, <1>2, RingIndex
<1>7. After(j, n) = t
  BY <1>4, <1>5
<1>8. RingPlace(g, n, n) = t
  BY <1>1, <1>6
<1> QED BY <1>7, <1>8 DEF g, j

(* d elements of a ring of n slots, from index t on. *)
RingRun(slots, t, d, n) == [k \in 1 .. d |-> slots[RingPlace(t, k, n)]]

LEMMA RingRunLen ==
  ASSUME NEW n, NEW t, NEW slots, NEW d \in Nat
  PROVE  Len(RingRun(slots, t, d, n)) = d
BY DEF RingRun

LEMMA RingRunIs ==
  ASSUME NEW n \in Nat \ {0}, NEW S, NEW slots \in [0 .. n - 1 -> S],
         NEW t \in 0 .. n - 1, NEW d \in 0 .. n
  PROVE  RingRun(slots, t, d, n) \in Seq(S)
<1>1. \A k \in 1 .. d : k \in 1 .. n
  OBVIOUS
<1>2. \A k \in 1 .. d : RingPlace(t, k, n) \in 0 .. n - 1
  BY <1>1, PlacesAre
<1>3. RingRun(slots, t, d, n) \in [1 .. d -> S]
  BY <1>2 DEF RingRun
<1> QED BY <1>3

(* Writing behind the last of them appends, as long as there is room. *)
RunAppends(slots, t, d, n, e) ==
  RingRun([slots EXCEPT ![RingPlace(t, d + 1, n)] = e], t, d + 1, n)
    = Append(RingRun(slots, t, d, n), e)

LEMMA RunAppend ==
  ASSUME NEW n \in Nat \ {0}, NEW S, NEW slots \in [0 .. n - 1 -> S],
         NEW t \in 0 .. n - 1, NEW d \in 0 .. n - 1, NEW e \in S
  PROVE  RunAppends(slots, t, d, n, e)
<1> DEFINE h == RingPlace(t, d + 1, n)
           new == [slots EXCEPT ![h] = e]
           r == RingRun(slots, t, d, n)
           u == RingRun(new, t, d + 1, n)
<1>1. d \in 0 .. n /\ d + 1 \in 0 .. n /\ d + 1 \in 1 .. n /\ d \in Nat
  OBVIOUS
<1>2. h \in 0 .. n - 1
  BY <1>1, PlacesAre
<1>3. new \in [0 .. n - 1 -> S]
  OBVIOUS
<1>4. r \in Seq(S) /\ Len(r) = d
  BY <1>1, RingRunIs, RingRunLen
<1>5. u \in Seq(S) /\ Len(u) = d + 1
  <2> DEFINE dd == d + 1
  <2>1. dd \in 0 .. n /\ dd \in Nat
    BY <1>1
  <2> HIDE DEF new, dd
  <2>2. RingRun(new, t, dd, n) \in Seq(S) /\ Len(RingRun(new, t, dd, n)) = dd
    BY <1>3, <2>1, RingRunIs, RingRunLen
  <2> QED BY <2>2 DEF dd
<1>6. ASSUME NEW k \in 1 .. d PROVE u[k] = r[k]
  <2>1. k \in 1 .. n /\ k \in 1 .. d + 1 /\ k # d + 1
    OBVIOUS
  <2>2. RingPlace(t, k, n) \in 0 .. n - 1 /\ RingPlace(t, k, n) # h
    <3>1. /\ \A l \in 1 .. n : RingPlace(t, l, n) \in 0 .. n - 1
          /\ \A l, m \in 1 .. n : RingPlace(t, l, n) = RingPlace(t, m, n) => l = m
      BY PlacesAre
    <3>2. k \in 1 .. n /\ d + 1 \in 1 .. n /\ k # d + 1
      BY <1>1, <2>1
    <3> QED BY <3>1, <3>2
  <2>3. u[k] = new[RingPlace(t, k, n)] /\ r[k] = slots[RingPlace(t, k, n)]
    BY <2>1 DEF RingRun
  <2> QED BY <2>2, <2>3
<1>7. u[d + 1] = e
  <2>1. d + 1 \in 1 .. d + 1
    BY <1>1
  <2>2. u[d + 1] = new[h]
    BY <2>1 DEF RingRun
  <2> QED BY <1>2, <2>2
<1> HIDE DEF r, u
<1>8. u = Append(r, e)
  BY <1>1, <1>4, <1>5, <1>6, <1>7
<1> QED BY <1>8 DEF r, u, RunAppends

(* Moving t on takes the head. *)
LEMMA RunTail ==
  ASSUME NEW n \in Nat \ {0}, NEW S, NEW slots \in [0 .. n - 1 -> S],
         NEW t \in 0 .. n - 1, NEW d \in 1 .. n
  PROVE  /\ RingRun(slots, t, d, n) # <<>>
         /\ Head(RingRun(slots, t, d, n)) = slots[t]
         /\ RingRun(slots, After(t, n), d - 1, n) = Tail(RingRun(slots, t, d, n))
<1> DEFINE g == After(t, n)
           c == d - 1
           r == RingRun(slots, t, d, n)
           u == RingRun(slots, g, c, n)
<1>1. c \in 0 .. n /\ d \in 0 .. n /\ d = c + 1 /\ c \in 0 .. n - 1 /\ c \in Nat /\ d \in Nat
  OBVIOUS
<1>2. g \in 0 .. n - 1 /\ RingPlace(t, 1, n) = t
  BY PlacesAre
<1> HIDE DEF c
<1>3. r \in Seq(S) /\ Len(r) = d
  BY <1>1, RingRunIs, RingRunLen
<1>4. u \in Seq(S) /\ Len(u) = c
  <2> HIDE DEF g
  <2> QED BY <1>1, <1>2, RingRunIs, RingRunLen
<1>5. ASSUME NEW k \in 1 .. c PROVE u[k] = r[k + 1]
  <2>1. k \in 1 .. n - 1 /\ k + 1 \in 1 .. d
    BY <1>1
  <2>2. RingPlace(g, k, n) = RingPlace(t, k + 1, n)
    BY <2>1, PlacesAre
  <2>3. u[k] = slots[RingPlace(g, k, n)] /\ r[k + 1] = slots[RingPlace(t, k + 1, n)]
    BY <2>1 DEF RingRun
  <2> QED BY <2>2, <2>3
<1>6. r[1] = slots[t]
  <2>1. 1 \in 1 .. d
    OBVIOUS
  <2>2. r[1] = slots[RingPlace(t, 1, n)]
    BY <2>1 DEF RingRun
  <2> QED BY <1>2, <2>2
<1> HIDE DEF r, u
<1>7. r # <<>> /\ Head(r) = slots[t] /\ u = Tail(r)
  BY <1>1, <1>3, <1>4, <1>5, <1>6
<1> QED BY <1>7 DEF r, u, g, c

----------------------------------------------------------------------------
(* A ring that is told apart by two indices, t and h: at most n - 1 slots  *)
(* are in use; none when h is t, that many when the index after h is t.    *)
LEMMA RingLength ==
  ASSUME NEW n \in Nat \ {0}, NEW t \in 0 .. n - 1, NEW h \in 0 .. n - 1
  PROVE  /\ Distance(t, h, n) \in 0 .. n - 1
         /\ Distance(t, h, n) = 0 <=> h = t
         /\ Distance(t, h, n) = n - 1 <=> After(h, n) = t
<1> DEFINE d == Distance(t, h, n)
           g == After(h, n)
<1>1. (t <= h => d = h - t) /\ (h < t => d = h - t + n)
  BY RingDistance
<1>2. g \in 0 .. n - 1 /\ ((h + 1 < n /\ g = h + 1) \/ (h + 1 = n /\ g = 0))
  BY RingNext
<1> HIDE DEF d, g
<1>3. d \in 0 .. n - 1 /\ (d = 0 <=> h = t)
  BY <1>1
<1>4. d = n - 1 <=> g = t
  BY <1>1, <1>2
<1> QED BY <1>3, <1>4 DEF d, g

(* Moving h on adds a slot, moving t on drops one; h is behind the last.   *)
LEMMA RingGrows ==
  ASSUME NEW n \in Nat \ {0}, NEW t \in 0 .. n - 1, NEW h \in 0 .. n - 1
  PROVE  /\ After(h, n) # t => Distance(t, After(h, n), n) = Distance(t, h, n) + 1
         /\ h # t => Distance(After(t, n), h, n) = Distance(t, h, n) - 1
         /\ RingPlace(t, Distance(t, h, n) + 1, n) = h
<1> DEFINE d == Distance(t, h, n)
           g == After(h, n)
           f == After(t, n)
           e == d + 1
<1>1. (t <= h => d = h - t) /\ (h < t => d = h - t + n)
  BY RingDistance
<1>2. g \in 0 .. n - 1 /\ ((h + 1 < n /\ g = h + 1) \/ (h + 1 = n /\ g = 0))
  BY RingNext
<1>3. f \in 0 .. n - 1 /\ ((t + 1 < n /\ f = t + 1) \/ (t + 1 = n /\ f = 0))
  BY RingNext
<1> HIDE DEF d, g, f
<1>4. (t <= g => Distance(t, g, n) = g - t) /\ (g < t => Distance(t, g, n) = g - t + n)
  BY <1>2, RingDistance
<1>5. (f <= h => Distance(f, h, n) = h - f) /\ (h < f => Distance(f, h, n) = h - f + n)
  BY <1>3, RingDistance
<1>6. d \in 0 .. n - 1
  BY <1>1
<1>7. g # t => Distance(t, g, n) = d + 1
  BY <1>1, <1>2, <1>4
<1>8. h # t => Distance(f, h, n) = d - 1
  BY <1>1, <1>3, <1>5
<1>9. e \in 1 .. n /\ e = d + 1
  BY <1>6
<1> HIDE DEF e
<1>10. /\ t + e - 1 < n => RingPlace(t, e, n) = t + e - 1
       /\ n <= t + e - 1 => RingPlace(t, e, n) = t + e - 1 - n
  BY <1>9, RingIndex
<1>11. RingPlace(t, e, n) = h
  BY <1>1, <1>6, <1>9, <1>10
<1> QED BY <1>7, <1>8, <1>11 DEF d, e, f, g

(* What such a ring holds: the elements from t up to, and without, h. *)
RingSeq(slots, t, h, n) == RingRun(slots, t, Distance(t, h, n), n)

LEMMA RingSeqLen ==
  ASSUME NEW n \in Nat \ {0}, NEW t \in 0 .. n - 1, NEW h \in 0 .. n - 1, NEW slots
  PROVE  Len(RingSeq(slots, t, h, n)) = Distance(t, h, n)
<1>1. Distance(t, h, n) \in Nat
  <2> DEFINE d == Distance(t, h, n)
  <2>1. d \in 0 .. n - 1
    BY RingLength
  <2> HIDE DEF d
  <2>2. d \in Nat
    BY <2>1
  <2> QED BY <2>2 DEF d
<1> QED BY <1>1, RingRunLen DEF RingSeq

LEMMA RingSeqIs ==
  ASSUME NEW n \in Nat \ {0}, NEW S, NEW slots \in [0 .. n - 1 -> S],
         NEW t \in 0 .. n - 1, NEW h \in 0 .. n - 1
  PROVE  RingSeq(slots, t, h, n) \in Seq(S)
<1> DEFINE d == Distance(t, h, n)
<1>1. d \in 0 .. n - 1
  BY RingLength
<1> HIDE DEF d
<1>2. d \in 0 .. n
  BY <1>1
<1> QED BY <1>2, RingRunIs DEF RingSeq, d

(* Writing at h and moving h on appends, as long as there is room. *)
WriteAppends(slots, t, h, n, e) ==
  RingSeq([slots EXCEPT ![h] = e], t, After(h, n), n) = Append(RingSeq(slots, t, h, n), e)

LEMMA RingAppend ==
  ASSUME NEW n \in Nat \ {0}, NEW S, NEW slots \in [0 .. n - 1 -> S],
         NEW t \in 0 .. n - 1, NEW h \in 0 .. n - 1, NEW e \in S, After(h, n) # t
  PROVE  WriteAppends(slots, t, h, n, e)
<1> DEFINE d == Distance(t, h, n)
           c == Distance(t, After(h, n), n)
<1>1. /\ d \in 0 .. n - 1 /\ d # n - 1
      /\ c = d + 1 /\ RingPlace(t, d + 1, n) = h
  BY RingLength, RingGrows
<1> HIDE DEF d, c
<1>2. RunAppends(slots, t, d, n, e)
  BY <1>1, RunAppend
<1>3. RingRun([slots EXCEPT ![h] = e], t, c, n) = Append(RingRun(slots, t, d, n), e)
  BY <1>1, <1>2 DEF RunAppends
<1> QED BY <1>3 DEF WriteAppends, RingSeq, c, d

(* Moving t on takes the head. *)
LEMMA RingTail ==
  ASSUME NEW n \in Nat \ {0}, NEW S, NEW slots \in [0 .. n - 1 -> S],
         NEW t \in 0 .. n - 1, NEW h \in 0 .. n - 1, h # t
  PROVE  /\ After(t, n) \in 0 .. n - 1
         /\ RingSeq(slots, t, h, n) # <<>>
         /\ Head(RingSeq(slots, t, h, n)) = slots[t]
         /\ RingSeq(slots, After(t, n), h, n) = Tail(RingSeq(slots, t, h, n))
<1> DEFINE d == Distance(t, h, n)
           c == Distance(After(t, n), h, n)
<1>1. /\ d \in 0 .. n - 1 /\ d # 0
      /\ c = d - 1
  <2>1. d \in 0 .. n - 1 /\ d # 0
    BY RingLength
  <2>2. c = d - 1
    BY RingGrows
  <2> QED BY <2>1, <2>2
<1> HIDE DEF d, c
<1>2. d \in 1 .. n
  BY <1>1
<1>3. After(t, n) \in 0 .. n - 1
  BY PlacesAre
<1>4. /\ RingRun(slots, t, d, n) # <<>>
      /\ Head(RingRun(slots, t, d, n)) = slots[t]
      /\ RingRun(slots, After(t, n), c, n) = Tail(RingRun(slots, t, d, n))
  BY <1>1, <1>2, RunTail
<1> QED BY <1>3, <1>4 DEF RingSeq, c, d

(* A sequence with one element replaced. *)
LEMMA SeqUpdate ==
  ASSUME NEW S, NEW s \in Seq(S), NEW k, NEW v \in S
  PROVE  [s EXCEPT ![k] = v] \in Seq(S) /\ Len([s EXCEPT ![k] = v]) = Len(s)
<1> DEFINE r == [s EXCEPT ![k] = v]
<1>1. Len(s) \in Nat /\ s \in [1 .. Len(s) -> S]
  OBVIOUS
<1>2. r \in [1 .. Len(s) -> S]
  BY <1>1
<1>3. DOMAIN r = 1 .. Len(s)
  BY <1>2
<1> HIDE DEF r
<1>4. r \in Seq(S)
  BY <1>1, <1>2
<1>5. Len(r) = Len(s)
  BY <1>1, <1>3, <1>4
<1> QED BY <1>4, <1>5 DEF r

(* Applying the steps of G one after the other, n times. *)
Iterates(f, a, n, G) == f = [k \in 0 .. n |-> IF k = 0 THEN a ELSE G[<<f[k - 1], k>>]]

LEMMA IterationExists ==
  ASSUME NEW S, NEW a \in S, NEW n \in Nat, NEW G \in [S \X (1 .. n) -> S]
  PROVE  \E f \in [0 .. n -> S] : Iterates(f, a, n, G)
<1> DEFINE Steps(f, m) ==
             f \in [0 .. m -> S] /\ f[0] = a /\ \A k \in 1 .. m : f[k] = G[<<f[k - 1], k>>]
           T == {m \in Nat : m <= n => \E f : Steps(f, m)}
<1>1. 0 \in T
  <2>1. Steps([k \in 0 .. 0 |-> a], 0)
    OBVIOUS
  <2> QED BY <2>1
<1>2. ASSUME NEW m \in T PROVE m + 1 \in T
  <2> SUFFICES ASSUME m + 1 <= n PROVE \E f : Steps(f, m + 1)
    OBVIOUS
  <2>1. m \in Nat /\ m <= n /\ m + 1 \in 1 .. n
    OBVIOUS
  <2>2. PICK f : Steps(f, m)
    BY <2>1
  <2> DEFINE g == [k \in 0 .. m + 1 |-> IF k = m + 1 THEN G[<<f[m], m + 1>>] ELSE f[k]]
  <2>3. m \in 0 .. m /\ \A k \in 0 .. m : k \in 0 .. m + 1 /\ k # m + 1
    BY <2>1
  <2>4. f[m] \in S /\ G[<<f[m], m + 1>>] \in S
    BY <2>1, <2>2, <2>3
  <2>5. g[m + 1] = G[<<f[m], m + 1>>] /\ \A k \in 0 .. m : g[k] = f[k]
    BY <2>1, <2>3
  <2>6. g \in [0 .. m + 1 -> S]
    <3>1. ASSUME NEW k \in 0 .. m + 1, k # m + 1 PROVE k \in 0 .. m
      BY <2>1, <3>1
    <3> QED BY <2>2, <2>4, <3>1
  <2>7. g[0] = a
    <3>1. 0 \in 0 .. m
      BY <2>1
    <3> QED BY <2>2, <2>5, <3>1
  <2>8. ASSUME NEW k \in 1 .. m + 1 PROVE g[k] = G[<<g[k - 1], k>>]
    <3>1. CASE k = m + 1
      <4>1. k - 1 = m
        BY <2>1, <3>1
      <4> QED BY <2>3, <2>5, <3>1, <4>1
    <3>2. CASE k # m + 1
      <4>1. k \in 1 .. m /\ k \in 0 .. m /\ k - 1 \in 0 .. m
        BY <2>1, <3>2
      <4> QED BY <2>2, <2>5, <4>1
    <3> QED BY <3>1, <3>2
  <2> HIDE DEF g
  <2> QED BY <2>6, <2>7, <2>8
<1>3. n \in T
  <2> HIDE DEF T
  <2> QED BY <1>1, <1>2, SetInduction, T \in SUBSET Nat DEF T
<1>4. PICK f : Steps(f, n)
  BY <1>3
<1>5. \A k \in 0 .. n : f[k] = IF k = 0 THEN a ELSE G[<<f[k - 1], k>>]
  BY <1>4
<1>6. f = [k \in 0 .. n |-> f[k]]
  BY <1>4
<1>7. Iterates(f, a, n, G)
  BY <1>5, <1>6 DEF Iterates
<1> QED BY <1>4, <1>7

(* What each place adds, followed by what the place it goes on to adds.    *)
IsChain(f, D, stop, part, next) ==
  f = [x \in D |-> IF x \in stop THEN part[x] ELSE part[x] \o f[next[x]]]

(* Such a function exists when going on comes closer to an end, and then   *)
(* every such function has sequences as values.                            *)
LEMMA ChainExists ==
  ASSUME NEW D, NEW V, NEW M \in Nat, NEW rank \in [D -> 0 .. M], NEW next \in [D -> D],
         NEW part \in [D -> Seq(V)], NEW stop,
         \A x \in D : x \notin stop => rank[next[x]] < rank[x]
  PROVE  \E f : IsChain(f, D, stop, part, next)
<1> DEFINE Value(f, x) == IF x \in stop THEN part[x] ELSE part[x] \o f[next[x]]
           Upto(f, m) == \A x \in D : rank[x] < m => f[x] = Value(f, x)
           T == {m \in Nat : \E f \in [D -> Seq(V)] : Upto(f, m)}
<1>0. \A f \in [D -> Seq(V)], x \in D : Value(f, x) \in Seq(V)
  OBVIOUS
<1>1. 0 \in T
  <2>1. \A x \in D : ~(rank[x] < 0)
    OBVIOUS
  <2>2. Upto(part, 0)
    BY <2>1
  <2> QED BY <2>2
<1>2. ASSUME NEW m \in T PROVE m + 1 \in T
  <2>1. PICK f \in [D -> Seq(V)] : Upto(f, m)
    OBVIOUS
  <2> DEFINE g == [x \in D |-> Value(f, x)]
  <2>2. g \in [D -> Seq(V)] /\ \A x \in D : g[x] = Value(f, x)
    BY <1>0
  <2> HIDE DEF g
  <2>3. ASSUME NEW x \in D, rank[x] < m + 1 PROVE g[x] = Value(g, x)
    <3>1. CASE x \in stop
      BY <2>2, <3>1
    <3>2. CASE x \notin stop
      <4>1. m \in Nat /\ rank[x] \in Nat /\ rank[next[x]] \in Nat /\ next[x] \in D
        OBVIOUS
      <4>2. rank[next[x]] < rank[x]
        BY <3>2
      <4>3. rank[next[x]] < m
        BY <4>1, <4>2, <2>3
      <4>4. f[next[x]] = Value(f, next[x])
        BY <2>1, <4>1, <4>3
      <4>5. g[next[x]] = f[next[x]]
        BY <2>2, <4>1, <4>4
      <4> QED BY <2>2, <3>2, <4>5
    <3> QED BY <3>1, <3>2
  <2>4. Upto(g, m + 1)
    BY <2>3
  <2> HIDE DEF Upto
  <2>5. m + 1 \in Nat
    OBVIOUS
  <2> QED BY <2>2, <2>4, <2>5
<1> HIDE DEF Upto
<1>3. M + 1 \in T
  <2>1. T \in SUBSET Nat
    OBVIOUS
  <2> HIDE DEF T
  <2> QED BY <1>1, <1>2, <2>1, SetInduction
<1>4. PICK f \in [D -> Seq(V)] : Upto(f, M + 1)
  BY <1>3
<1>5. \A x \in D : rank[x] < M + 1
  OBVIOUS
<1>6. \A x \in D : f[x] = Value(f, x)
  BY <1>4, <1>5 DEF Upto
<1>7. f = [x \in D |-> Value(f, x)]
  BY <1>6
<1> QED BY <1>7 DEF IsChain

LEMMA ChainOfSequences ==
  ASSUME NEW D, NEW V, NEW M \in Nat, NEW rank \in [D -> 0 .. M], NEW next \in [D -> D],
         NEW part \in [D -> Seq(V)], NEW stop,
         \A x \in D : x \notin stop => rank[next[x]] < rank[x],
         NEW f, IsChain(f, D, stop, part, next)
  PROVE  f \in [D -> Seq(V)]
<1> DEFINE T == {m \in Nat : \A x \in D : rank[x] < m => f[x] \in Seq(V)}
<1>0. \A x \in D : f[x] = IF x \in stop THEN part[x] ELSE part[x] \o f[next[x]]
  BY DEF IsChain
<1>1. 0 \in T
  <2>1. \A x \in D : ~(rank[x] < 0)
    OBVIOUS
  <2> QED BY <2>1
<1>2. ASSUME NEW m \in T PROVE m + 1 \in T
  <2>1. ASSUME NEW x \in D, rank[x] < m + 1 PROVE f[x] \in Seq(V)
    <3>1. CASE x \in stop
      BY <1>0, <3>1
    <3>2. CASE x \notin stop
      <4>1. m \in Nat /\ rank[x] \in Nat /\ rank[next[x]] \in Nat /\ next[x] \in D
        OBVIOUS
      <4>2. rank[next[x]] < rank[x]
        BY <3>2
      <4>3. rank[next[x]] < m
        BY <4>1, <4>2, <2>1
      <4>4. f[next[x]] \in Seq(V)
        BY <4>1, <4>3
      <4>5. part[x] \in Seq(V) /\ f[x] = part[x] \o f[next[x]]
        BY <1>0, <3>2
      <4> QED BY <4>4, <4>5
    <3> QED BY <3>1, <3>2
  <2>2. m + 1 \in Nat
    OBVIOUS
  <2> QED BY <2>1, <2>2
<1>3. M + 1 \in T
  <2>1. T \in SUBSET Nat
    OBVIOUS
  <2> HIDE DEF T
  <2> QED BY <1>1, <1>2, <2>1, SetInduction
<1>4. \A x \in D : rank[x] < M + 1
  OBVIOUS
<1>5. \A x \in D : f[x] \in Seq(V)
  BY <1>3, <1>4
<1>6. f = [x \in D |-> f[x]]
  BY DEF IsChain
<1> QED BY <1>5, <1>6

----------------------------------------------------------------------------
(* An injective sequence is as long as its set is large. *)
LEMMA InjectiveSize ==
  ASSUME NEW S, NEW s \in Seq(S), IsInjective(s)
  PROVE  IsFiniteSet(ToSet(s)) /\ Cardinality(ToSet(s)) = Len(s)
<1> DEFINE n == Len(s)
           I == 1 .. n
           T == ToSet(s)
<1>1. n \in Nat /\ DOMAIN s = I
  OBVIOUS
<1>2. s \in [I -> T] /\ \A t \in T : \E i \in I : s[i] = t
  BY <1>1 DEF ToSet
<1> HIDE DEF T, n
<1>3. s \in Bijection(I, T)
  BY <1>2 DEF Bijection, Injection, Surjection
<1>4. ExistsBijection(I, T)
  BY <1>3 DEF ExistsBijection
<1>5. IsFiniteSet(T) /\ Cardinality(T) = n
  BY <1>1, <1>4, FS_NatBijection, FS_CountingElements
<1> QED BY <1>5 DEF T, n

(* Sequences without a common element, one after the other.                *)
LEMMA InjectiveConcat ==
  ASSUME NEW S, NEW s \in Seq(S), NEW t \in Seq(S), IsInjective(s), IsInjective(t),
         ToSet(s) \cap ToSet(t) = {}
  PROVE  /\ s \o t \in Seq(S) /\ IsInjective(s \o t)
         /\ ToSet(s \o t) = ToSet(s) \cup ToSet(t)
<1> DEFINE r == s \o t
           m == Len(s)
           n == Len(t)
<1>1. /\ r \in Seq(S) /\ Len(r) = m + n /\ m \in Nat /\ n \in Nat
      /\ \A i \in 1 .. m + n : r[i] = IF i <= m THEN s[i] ELSE t[i - m]
  BY ConcatProperties
<1>2. DOMAIN r = 1 .. m + n /\ DOMAIN s = 1 .. m /\ DOMAIN t = 1 .. n
  BY <1>1
<1> HIDE DEF r, m, n
<1>3. ASSUME NEW i \in DOMAIN r
      PROVE  \/ i \in DOMAIN s /\ r[i] = s[i] /\ i <= m
             \/ i - m \in DOMAIN t /\ r[i] = t[i - m] /\ i > m
  BY <1>1, <1>2
<1>4. /\ \A i \in DOMAIN s : i \in DOMAIN r /\ r[i] = s[i]
      /\ \A i \in DOMAIN t : m + i \in DOMAIN r /\ r[m + i] = t[i]
  <2>1. ASSUME NEW i \in DOMAIN t PROVE m + i \in DOMAIN r /\ r[m + i] = t[i]
    <3>1. m + i \in 1 .. m + n /\ ~(m + i <= m) /\ (m + i) - m = i
      BY <1>1, <1>2
    <3> QED BY <1>1, <1>2, <3>1
  <2> QED BY <1>1, <1>2, <2>1
<1>5. ToSet(r) = ToSet(s) \cup ToSet(t)
  BY <1>3, <1>4 DEF ToSet
<1>6. ASSUME NEW i \in DOMAIN r, NEW j \in DOMAIN r, r[i] = r[j] PROVE i = j
  <2>1. CASE i <= m /\ j <= m
    BY <1>1, <1>2, <1>3, <1>6, <2>1 DEF IsInjective
  <2>2. CASE i > m /\ j > m
    <3>1. i - m \in DOMAIN t /\ j - m \in DOMAIN t /\ t[i - m] = t[j - m]
      BY <1>1, <1>2, <1>3, <1>6, <2>2
    <3>2. i - m = j - m
      BY <3>1 DEF IsInjective
    <3> QED BY <1>1, <1>2, <3>2
  <2>3. CASE ~(i <= m /\ j <= m) /\ ~(i > m /\ j > m)
    <3>1. (r[i] \in ToSet(s) /\ r[j] \in ToSet(t)) \/ (r[i] \in ToSet(t) /\ r[j] \in ToSet(s))
      BY <1>1, <1>2, <1>3, <2>3 DEF ToSet
    <3> QED BY <1>6, <3>1
  <2> QED BY <2>1, <2>2, <2>3
<1>7. IsInjective(r)
  BY <1>6 DEF IsInjective
<1> QED BY <1>1, <1>5, <1>7 DEF r

----------------------------------------------------------------------------
(* What a sequence of numbers adds up to: the last of its partial sums.    *)
AddsUp(w, f) ==
  /\ f \in [0 .. Len(w) -> Int] /\ f[0] = 0
  /\ \A k \in 1 .. Len(w) : f[k] = f[k - 1] + w[k]

LEMMA SumsExist ==
  ASSUME NEW w \in Seq(Int)
  PROVE  \E f : AddsUp(w, f)
<1> DEFINE n == Len(w)
           G == [x \in Int \X (1 .. n) |-> x[1] + w[x[2]]]
<1>1. n \in Nat /\ \A k \in 1 .. n : w[k] \in Int
  OBVIOUS
<1> HIDE DEF n
<1>2. G \in [Int \X (1 .. n) -> Int]
  BY <1>1
<1>3. PICK f \in [0 .. n -> Int] : Iterates(f, 0, n, G)
  <2> DEFINE Z == Int
             a == 0
  <2>1. a \in Z /\ G \in [Z \X (1 .. n) -> Z]
    BY <1>2
  <2> HIDE DEF G, Z, a
  <2>2. \E f \in [0 .. n -> Z] : Iterates(f, a, n, G)
    BY <1>1, <2>1, IterationExists
  <2> QED BY <2>2 DEF Z, a
<1>4. f[0] = 0
  BY <1>1, <1>3 DEF Iterates
<1>5. ASSUME NEW k \in 1 .. n PROVE f[k] = f[k - 1] + w[k]
  <2>1. k \in 0 .. n /\ k # 0 /\ k - 1 \in 0 .. n
    BY <1>1
  <2>2. f[k] = G[<<f[k - 1], k>>]
    <3> HIDE DEF G
    <3> QED BY <1>3, <2>1 DEF Iterates
  <2> DEFINE x == f[k - 1]
  <2>3. x \in Int /\ <<x, k>> \in Int \X (1 .. n)
    BY <1>3, <2>1
  <2> HIDE DEF x
  <2>4. G[<<x, k>>] = x + w[k]
    BY <2>3
  <2> QED BY <2>2, <2>4 DEF x
<1> QED BY <1>3, <1>4, <1>5 DEF AddsUp, n

LEMMA TotalIs ==
  ASSUME NEW w \in Seq(Int), NEW f, AddsUp(w, f)
  PROVE  Total(w) = f[Len(w)]
<1> DEFINE n == Len(w)
           sum[k \in 0 .. n] == IF k = 0 THEN 0 ELSE sum[k - 1] + w[k]
<1>1. n \in Nat
  OBVIOUS
<1>2. f = [k \in 0 .. n |-> IF k = 0 THEN 0 ELSE f[k - 1] + w[k]]
  <2>1. \A k \in 0 .. n : f[k] = IF k = 0 THEN 0 ELSE f[k - 1] + w[k]
    <3>1. ASSUME NEW k \in 0 .. n, k # 0 PROVE k \in 1 .. n
      BY <1>1, <3>1
    <3> QED BY <3>1 DEF AddsUp
  <2> QED BY <2>1 DEF AddsUp
<1>3. sum = [k \in 0 .. n |-> IF k = 0 THEN 0 ELSE sum[k - 1] + w[k]]
  BY <1>2
<1>4. Total(w) = sum[n]
  BY Zenon DEF Total
<1> HIDE DEF sum
<1> DEFINE T == {k \in Nat : k <= n => sum[k] = f[k]}
<1>5. 0 \in T
  BY <1>1, <1>2, <1>3
<1>6. ASSUME NEW k \in T PROVE k + 1 \in T
  <2> SUFFICES ASSUME k + 1 <= n PROVE sum[k + 1] = f[k + 1]
    OBVIOUS
  <2>1. k + 1 \in 0 .. n /\ (k + 1) - 1 = k /\ k <= n /\ k + 1 # 0
    BY <1>1
  <2>2. sum[k + 1] = sum[k] + w[k + 1] /\ f[k + 1] = f[k] + w[k + 1]
    BY <1>2, <1>3, <2>1
  <2> QED BY <2>1, <2>2
<1>7. n \in T
  <2> HIDE DEF T
  <2> QED BY <1>1, <1>5, <1>6, SetInduction, T \in SUBSET Nat DEF T
<1> QED BY <1>1, <1>4, <1>7

(* One number more, and one number changed. *)
LEMMA TotalGrows ==
  ASSUME NEW w \in Seq(Int), NEW x \in Seq(Int), Len(x) = Len(w) + 1,
         \A k \in 1 .. Len(w) : x[k] = w[k]
  PROVE  Total(w) \in Int /\ Total(x) = Total(w) + x[Len(x)]
<1> DEFINE n == Len(w)
           m == n + 1
           e == x[m]
<1>1. PICK f : AddsUp(w, f)
  BY SumsExist
<1> DEFINE g == [k \in 0 .. m |-> IF k = m THEN f[n] + e ELSE f[k]]
<1>2. n \in Nat /\ Len(x) = m /\ m \in 1 .. m /\ m \in 0 .. m
  OBVIOUS
<1>3. e \in Int /\ (\A k \in 1 .. n : x[k] = w[k] /\ w[k] \in Int)
  BY <1>2
<1>4. f \in [0 .. n -> Int] /\ f[0] = 0 /\ \A k \in 1 .. n : f[k] = f[k - 1] + w[k]
  BY <1>1 DEF AddsUp
<1> HIDE DEF e, n
<1>5. f[n] \in Int
  BY <1>2, <1>4
<1>6. \A k \in 0 .. m : k # m => k \in 0 .. n
  BY <1>2
<1>7. g \in [0 .. m -> Int] /\ g[m] = f[n] + e /\ \A k \in 0 .. n : g[k] = f[k]
  <2>1. \A k \in 0 .. n : k \in 0 .. m /\ k # m
    BY <1>2
  <2>2. \A k \in 0 .. m : k # m => f[k] \in Int
    BY <1>4, <1>6
  <2> QED BY <1>2, <1>3, <1>5, <2>1, <2>2
<1> HIDE DEF g
<1>8. ASSUME NEW k \in 1 .. m PROVE g[k] = g[k - 1] + x[k]
  <2>1. CASE k = m
    <3>1. k - 1 = n /\ n \in 0 .. n
      BY <1>2, <2>1
    <3> QED BY <1>7, <2>1, <3>1 DEF e
  <2>2. CASE k # m
    <3>1. k \in 1 .. n /\ k \in 0 .. n /\ k - 1 \in 0 .. n
      BY <1>2, <2>2
    <3> QED BY <1>3, <1>4, <1>7, <3>1
  <2> QED BY <2>1, <2>2
<1>9. AddsUp(x, g)
  <2>1. 0 \in 0 .. n
    BY <1>2
  <2> QED BY <1>2, <1>4, <1>7, <1>8, <2>1 DEF AddsUp
<1>10. Total(w) = f[n] /\ Total(x) = g[m]
  BY <1>1, <1>2, <1>9, TotalIs DEF n
<1> QED BY <1>2, <1>5, <1>7, <1>10 DEF e

LEMMA TotalChanges ==
  ASSUME NEW w \in Seq(Int), NEW x \in Seq(Int), Len(x) = Len(w), NEW j \in 1 .. Len(w),
         \A k \in 1 .. Len(w) : k # j => x[k] = w[k]
  PROVE  Total(w) \in Int /\ Total(x) = Total(w) - w[j] + x[j]
<1> DEFINE n == Len(w)
           d == x[j] - w[j]
<1>1. PICK f : AddsUp(w, f)
  BY SumsExist
<1> DEFINE g == [k \in 0 .. n |-> IF k < j THEN f[k] ELSE f[k] + d]
<1>2. /\ n \in Nat /\ Len(x) = n /\ j \in 1 .. n
      /\ \A k \in 1 .. n : x[k] \in Int /\ w[k] \in Int /\ (k # j => x[k] = w[k])
  OBVIOUS
<1>3. f \in [0 .. n -> Int] /\ f[0] = 0 /\ \A k \in 1 .. n : f[k] = f[k - 1] + w[k]
  BY <1>1 DEF AddsUp
<1>4. x[j] = w[j] + d /\ d \in Int
  BY <1>2
<1> HIDE DEF n, d
<1>5. /\ g \in [0 .. n -> Int]
      /\ \A k \in 0 .. n : k < j => g[k] = f[k]
      /\ \A k \in 0 .. n : ~(k < j) => g[k] = f[k] + d
  <2>1. \A k \in 0 .. n : f[k] \in Int
    BY <1>3
  <2>2. \A k \in 0 .. n : f[k] + d \in Int
    BY <1>4, <2>1
  <2> QED BY <2>1, <2>2
<1> HIDE DEF g
<1>6. ASSUME NEW k \in 1 .. n PROVE g[k] = g[k - 1] + x[k]
  <2>0. n \in Nat /\ j \in 1 .. n
    BY <1>2
  <2>1. k \in 0 .. n /\ k - 1 \in 0 .. n /\ k \in Int /\ j \in Int
    BY <2>0
  <2>2. f[k] = f[k - 1] + w[k] /\ f[k] \in Int /\ f[k - 1] \in Int /\ w[k] \in Int
    BY <1>2, <1>3, <2>1
  <2> DEFINE a == f[k - 1]
             b == w[k]
  <2>3. f[k] = a + b /\ a \in Int /\ b \in Int
    BY <2>2
  <2> HIDE DEF a, b
  <2>4. CASE k < j
    <3>1. k - 1 < j /\ k # j
      BY <2>1, <2>4
    <3> QED BY <1>2, <1>5, <2>1, <2>3, <2>4, <3>1 DEF a, b
  <2>5. CASE k = j
    <3>1. k - 1 < j /\ ~(k < j)
      BY <2>1, <2>5
    <3>2. g[k] = (a + b) + d /\ g[k - 1] = a /\ x[k] = b + d
      BY <1>4, <1>5, <2>1, <2>3, <2>5, <3>1 DEF a, b
    <3> QED BY <1>4, <2>3, <3>2
  <2>6. CASE ~(k < j) /\ k # j
    <3>1. ~(k - 1 < j)
      <4>1. k \in Int /\ j \in Int
        BY <2>1
      <4> QED BY <2>6, <4>1
    <3>2. g[k] = (a + b) + d /\ g[k - 1] = a + d /\ x[k] = b
      BY <1>2, <1>5, <2>1, <2>3, <2>6, <3>1 DEF a, b
    <3> QED BY <1>4, <2>3, <3>2
  <2> QED BY <2>4, <2>5, <2>6
<1>7. g[0] = 0 /\ g[n] = f[n] + d /\ f[n] \in Int
  <2>1. 0 \in 0 .. n /\ n \in 0 .. n /\ 0 < j /\ ~(n < j)
    BY <1>2
  <2> QED BY <1>3, <1>5, <2>1
<1>8. AddsUp(x, g)
  BY <1>2, <1>5, <1>6, <1>7 DEF AddsUp
<1>9. Total(w) = f[n] /\ Total(x) = g[n]
  BY <1>1, <1>2, <1>8, TotalIs DEF n
<1> DEFINE a == f[n]
           b == w[j]
           c == x[j]
<1>10. b \in Int /\ a \in Int /\ Total(w) = a /\ Total(x) = a + d /\ c = b + d
  BY <1>2, <1>4, <1>7, <1>9
<1> HIDE DEF a, b, c
<1>11. a + d = (a - b) + c
  BY <1>4, <1>10
<1> QED BY <1>10, <1>11 DEF b, c

----------------------------------------------------------------------------
(* A sequence with its elements from .. to replaced by those of new. *)
Spliced(t, from, to, new) ==
  SubSeq(t, 1, from - 1) \o new \o SubSeq(t, to + 1, Len(t))

ReadsAs(r, t, from, to, new) ==
  /\ from \in 1 .. Len(t) + 1 /\ to \in from - 1 .. Len(t)
  /\ Len(r) = from - 1 + Len(new) + Len(t) - to
  /\ \A i \in 1 .. from - 1 : r[i] = t[i]
  /\ \A i \in 1 .. Len(new) : r[from - 1 + i] = new[i]
  /\ \A i \in 1 .. Len(t) - to : r[from - 1 + Len(new) + i] = t[to + i]

LEMMA IsSpliced ==
  ASSUME NEW S, NEW t \in Seq(S), NEW new \in Seq(S), NEW r \in Seq(S),
         NEW from, NEW to, ReadsAs(r, t, from, to, new)
  PROVE  r = Spliced(t, from, to, new)
<1> USE DEF ReadsAs
<1> DEFINE a == SubSeq(t, 1, from - 1)
           b == SubSeq(t, to + 1, Len(t))
<1> DEFINE m == Len(t)
           n == Len(new)
<1>1. m \in Nat /\ n \in Nat /\ from \in 1 .. m + 1 /\ to \in from - 1 .. m
  OBVIOUS
<1>2. \A i \in 1 .. m : t[i] \in S
  OBVIOUS
<1>20. \A i \in 1 .. from - 1 : t[i] \in S
  BY <1>1, <1>2
<1>3. a \in Seq(S) /\ Len(a) = from - 1 /\ \A i \in 1 .. from - 1 : a[i] = t[i]
  <2>1. /\ a \in Seq(S) /\ Len(a) = IF 1 <= from - 1 THEN from - 1 - 1 + 1 ELSE 0
        /\ \A i \in 1 .. from - 1 - 1 + 1 : a[i] = t[1 + i - 1]
    <3>1. 1 \in Int /\ from - 1 \in Int
      BY <1>1
    <3> QED BY <1>20, <3>1, SubSeqProperties
  <2>2. (1 <= from - 1 => from - 1 - 1 + 1 = from - 1) /\ (~(1 <= from - 1) => 0 = from - 1)
    BY <1>1
  <2>3. Len(a) = from - 1
    BY <2>1, <2>2, Zenon
  <2> HIDE DEF a
  <2>4. ASSUME NEW i \in 1 .. from - 1 PROVE a[i] = t[i]
    <3>1. i \in 1 .. from - 1 - 1 + 1 /\ 1 + i - 1 = i
      BY <1>1
    <3> QED BY <2>1, <3>1
  <2> QED BY <2>1, <2>3, <2>4
<1>4. b \in Seq(S) /\ Len(b) = m - to /\ \A i \in 1 .. m - to : b[i] = t[to + i]
  <2>1. /\ b \in Seq(S) /\ Len(b) = IF to + 1 <= m THEN m - (to + 1) + 1 ELSE 0
        /\ \A i \in 1 .. m - (to + 1) + 1 : b[i] = t[to + 1 + i - 1]
    <3> DEFINE lo == to + 1
    <3>1. lo \in Int /\ m \in Int /\ \A i \in lo .. m : t[i] \in S
      BY <1>1, <1>2
    <3>2. b = SubSeq(t, lo, m)
      OBVIOUS
    <3> HIDE DEF lo, m, b
    <3>3. /\ b \in Seq(S) /\ Len(b) = IF lo <= m THEN m - lo + 1 ELSE 0
          /\ \A i \in 1 .. m - lo + 1 : b[i] = t[lo + i - 1]
      BY <3>1, <3>2, SubSeqProperties
    <3> QED BY <3>3, Zenon DEF lo
  <2> HIDE DEF b
  <2>2. (to + 1 <= m => m - (to + 1) + 1 = m - to) /\ (~(to + 1 <= m) => 0 = m - to)
    <3> HIDE DEF m
    <3> QED BY <1>1
  <2>3. Len(b) = m - to
    BY <2>1, <2>2, Zenon
  <2>4. ASSUME NEW i \in 1 .. m - to PROVE b[i] = t[to + i]
    <3> HIDE DEF m
    <3>1. i \in 1 .. m - (to + 1) + 1 /\ to + 1 + i - 1 = to + i
      BY <1>1
    <3> QED BY <2>1, <3>1
  <2> QED BY <2>1, <2>3, <2>4
<1> HIDE DEF a, b
<1>5. /\ a \o new \in Seq(S) /\ Len(a \o new) = from - 1 + n
      /\ \A i \in 1 .. from - 1 + n :
           (a \o new)[i] = IF i <= from - 1 THEN a[i] ELSE new[i - (from - 1)]
  <2>1. /\ a \o new \in Seq(S) /\ Len(a \o new) = Len(a) + Len(new)
        /\ \A i \in 1 .. Len(a) + Len(new) :
             (a \o new)[i] = IF i <= Len(a) THEN a[i] ELSE new[i - Len(a)]
    BY <1>3, ConcatProperties
  <2> QED BY <1>3, <2>1
<1> DEFINE front == a \o new
<1>5a. front \in Seq(S) /\ Len(front) = from - 1 + n
  BY <1>5
<1>5b. \A i \in 1 .. from - 1 + n : front[i] = IF i <= from - 1 THEN a[i] ELSE new[i - (from - 1)]
  BY <1>5
<1> HIDE DEF front
<1> DEFINE whole == front \o b
<1>6. /\ whole \in Seq(S) /\ Len(whole) = from - 1 + n + (m - to)
      /\ \A i \in 1 .. from - 1 + n + (m - to) :
           whole[i] = IF i <= from - 1 + n THEN front[i] ELSE b[i - (from - 1 + n)]
  <2>0. front \in Seq(S) /\ b \in Seq(S)
    BY <1>4, <1>5a
  <2>1. /\ whole \in Seq(S) /\ Len(whole) = Len(front) + Len(b)
        /\ \A i \in 1 .. Len(front) + Len(b) :
             whole[i] = IF i <= Len(front) THEN front[i] ELSE b[i - Len(front)]
    BY <2>0, ConcatProperties
  <2> HIDE DEF whole, n, m
  <2> QED BY <1>4, <1>5a, <2>1
<1> HIDE DEF whole
<1>7. Len(r) = from - 1 + n + (m - to)
  BY <1>1
<1>8. ASSUME NEW i \in 1 .. Len(r) PROVE r[i] = whole[i]
  <2> HIDE DEF m, n
  <2>0. i \in 1 .. from - 1 + n + (m - to) /\ i \in Int
    BY <1>7
  <2>1. CASE i <= from - 1
    <3>1. i <= from - 1 + n /\ i \in 1 .. from - 1 /\ i \in 1 .. from - 1 + n
      BY <1>1, <2>0, <2>1
    <3>2. whole[i] = front[i] /\ front[i] = a[i] /\ a[i] = t[i] /\ r[i] = t[i]
      BY <1>3, <1>5b, <1>6, <2>0, <2>1, <3>1
    <3> QED BY <3>2
  <2>2. CASE ~(i <= from - 1) /\ i <= from - 1 + n
    <3> DEFINE k == i - (from - 1)
    <3>1. k \in 1 .. n /\ from - 1 + k = i /\ i \in 1 .. from - 1 + n
      BY <1>1, <2>0, <2>2
    <3> HIDE DEF k
    <3>2. r[i] = new[k]
      <4>1. \A j \in 1 .. n : r[from - 1 + j] = new[j]
        BY DEF n
      <4> QED BY <3>1, <4>1
    <3>3. whole[i] = front[i] /\ front[i] = new[i - (from - 1)]
      BY <1>5b, <1>6, <2>0, <2>2, <3>1
    <3> QED BY <3>2, <3>3 DEF k
  <2>3. CASE ~(i <= from - 1 + n)
    <3> DEFINE k == i - (from - 1 + n)
    <3>1. k \in 1 .. m - to /\ from - 1 + n + k = i
      BY <1>1, <2>0, <2>3
    <3> HIDE DEF k
    <3>2. r[i] = t[to + k] /\ b[k] = t[to + k]
      <4>1. \A j \in 1 .. m - to : r[from - 1 + n + j] = t[to + j]
        BY DEF m, n
      <4> QED BY <1>4, <3>1, <4>1
    <3>3. whole[i] = b[i - (from - 1 + n)]
      BY <1>6, <2>0, <2>3
    <3> QED BY <3>2, <3>3 DEF k
  <2> QED BY <2>0, <2>1, <2>2, <2>3
<1>9. r = whole
  BY <1>6, <1>7, <1>8, SeqEqual
<1> QED BY <1>9 DEF whole, front, a, b, Spliced

(* One element replaced. *)
LEMMA OneReplaced ==
  ASSUME NEW S, NEW t \in Seq(S), NEW n \in 1 .. Len(t), NEW x \in S, NEW r \in Seq(S),
         Len(r) = Len(t), r[n] = x, \A i \in 1 .. Len(t) : i # n => r[i] = t[i]
  PROVE  r = Spliced(t, n, n, <<x>>)
<1> DEFINE m == Len(t)
           new == <<x>>
<1>1. new \in Seq(S) /\ Len(new) = 1 /\ new[1] = x
  OBVIOUS
<1>2. m \in Nat /\ n \in 1 .. m
  OBVIOUS
<1>3. \A i \in 1 .. m : i # n => r[i] = t[i]
  OBVIOUS
<1> HIDE DEF m, new
<1>4. /\ n \in 1 .. m + 1 /\ n \in n - 1 .. m /\ m = n - 1 + 1 + m - n
      /\ \A i \in 1 .. n - 1 : i \in 1 .. m /\ i # n
      /\ \A i \in 1 .. 1 : n - 1 + i = n /\ i = 1
      /\ \A i \in 1 .. m - n : n - 1 + 1 + i = n + i /\ n + i \in 1 .. m /\ n + i # n
  BY <1>2
<1>5. /\ \A i \in 1 .. n - 1 : r[i] = t[i]
      /\ \A i \in 1 .. Len(new) : r[n - 1 + i] = new[i]
      /\ \A i \in 1 .. m - n : r[n - 1 + Len(new) + i] = t[n + i]
  BY <1>1, <1>3, <1>4
<1>6. n \in 1 .. Len(t) + 1 /\ n \in n - 1 .. Len(t)
  BY <1>4 DEF m
<1>7. Len(r) = n - 1 + Len(new) + Len(t) - n
  <2>1. Len(r) = m
    BY DEF m
  <2>2. m = n - 1 + Len(new) + m - n
    BY <1>1, <1>4
  <2> QED BY <2>1, <2>2 DEF m
<1>8. ReadsAs(r, t, n, n, new)
  BY <1>5, <1>6, <1>7 DEF ReadsAs, m
<1>9. r = Spliced(t, n, n, new)
  BY <1>1, <1>8, IsSpliced
<1> QED BY <1>9 DEF new

(* Two elements replaced by one. *)
LEMMA TwoReplaced ==
  ASSUME NEW S, NEW t \in Seq(S), NEW n \in 2 .. Len(t), NEW x \in S, NEW r \in Seq(S),
         Len(r) = Len(t) - 1, r[n - 1] = x,
         \A i \in 1 .. n - 2 : r[i] = t[i],
         \A i \in n .. Len(t) - 1 : r[i] = t[i + 1]
  PROVE  r = Spliced(t, n - 1, n, <<x>>)
<1> DEFINE m == Len(t)
           new == <<x>>
<1>1. new \in Seq(S) /\ Len(new) = 1 /\ new[1] = x
  OBVIOUS
<1>2. m \in Nat /\ n \in 2 .. m
  OBVIOUS
<1>3. \A i \in n .. m - 1 : r[i] = t[i + 1]
  OBVIOUS
<1> HIDE DEF m, new
<1>4. /\ n - 1 \in 1 .. m + 1 /\ n \in n - 1 - 1 .. m /\ m - 1 = n - 1 - 1 + 1 + m - n
      /\ n - 1 - 1 = n - 2
      /\ \A i \in 1 .. 1 : n - 1 - 1 + i = n - 1 /\ i = 1
      /\ \A i \in 1 .. m - n : /\ n - 1 - 1 + 1 + i = n - 1 + i
                               /\ n - 1 + i \in n .. m - 1 /\ n - 1 + i + 1 = n + i
  BY <1>2
<1>5. \A i \in 1 .. Len(new) : r[n - 1 - 1 + i] = new[i]
  BY <1>1, <1>4
<1>6. \A i \in 1 .. m - n : r[n - 1 - 1 + Len(new) + i] = t[n + i]
  <2> TAKE i \in 1 .. m - n
  <2> DEFINE k == n - 1 + i
  <2>1. k \in n .. m - 1 /\ k + 1 = n + i /\ n - 1 - 1 + 1 + i = k
    BY <1>4
  <2> HIDE DEF k
  <2>2. r[k] = t[k + 1]
    BY <1>3, <2>1
  <2> QED BY <1>1, <2>1, <2>2
<1>7. n - 1 \in 1 .. Len(t) + 1 /\ n \in n - 1 - 1 .. Len(t)
  BY <1>4 DEF m
<1>8. Len(r) = n - 1 - 1 + Len(new) + Len(t) - n
  <2>1. Len(r) = m - 1
    BY DEF m
  <2>2. m - 1 = n - 1 - 1 + Len(new) + m - n
    BY <1>1, <1>4
  <2> QED BY <2>1, <2>2 DEF m
<1>9. \A i \in 1 .. n - 1 - 1 : r[i] = t[i]
  BY <1>4
<1> DEFINE before == n - 1
<1>10. /\ before \in 1 .. Len(t) + 1 /\ n \in before - 1 .. Len(t)
       /\ Len(r) = before - 1 + Len(new) + Len(t) - n
       /\ \A i \in 1 .. before - 1 : r[i] = t[i]
       /\ \A i \in 1 .. Len(new) : r[before - 1 + i] = new[i]
       /\ \A i \in 1 .. Len(t) - n : r[before - 1 + Len(new) + i] = t[n + i]
  BY <1>5, <1>6, <1>7, <1>8, <1>9 DEF m
<1> HIDE DEF before
<1>11. ReadsAs(r, t, before, n, new)
  BY <1>10 DEF ReadsAs
<1>12. r = Spliced(t, before, n, new)
  BY <1>1, <1>11, IsSpliced
<1> QED BY <1>12 DEF before, new

(* One element replaced by two. *)
TwoForOne(r, t, n, x, y) ==
  /\ n \in 1 .. Len(t) /\ Len(r) = Len(t) + 1 /\ r[n] = x /\ r[n + 1] = y
  /\ \A i \in 1 .. n - 1 : r[i] = t[i]
  /\ \A i \in n + 2 .. Len(t) + 1 : r[i] = t[i - 1]

LEMMA ReplacedByTwo ==
  ASSUME NEW S, NEW t \in Seq(S), NEW n, NEW x \in S, NEW y \in S, NEW r \in Seq(S),
         TwoForOne(r, t, n, x, y)
  PROVE  r = Spliced(t, n, n, <<x, y>>)
<1> USE DEF TwoForOne
<1> DEFINE m == Len(t)
           new == <<x, y>>
<1>1. new \in Seq(S) /\ Len(new) = 2 /\ new[1] = x /\ new[2] = y
  OBVIOUS
<1>2. m \in Nat /\ n \in 1 .. m
  OBVIOUS
<1>3. \A i \in n + 2 .. m + 1 : r[i] = t[i - 1]
  OBVIOUS
<1> HIDE DEF m, new
<1>4. /\ n \in 1 .. m + 1 /\ n \in n - 1 .. m /\ m + 1 = n - 1 + 2 + m - n
      /\ \A i \in 1 .. 2 : (i = 1 /\ n - 1 + i = n) \/ (i = 2 /\ n - 1 + i = n + 1)
  BY <1>2
<1>5. \A i \in 1 .. Len(new) : r[n - 1 + i] = new[i]
  BY <1>1, <1>4
<1>6. \A i \in 1 .. m - n : r[n - 1 + Len(new) + i] = t[n + i]
  <2> TAKE i \in 1 .. m - n
  <2> DEFINE k == n + i + 1
  <2>1. k \in n + 2 .. m + 1 /\ k - 1 = n + i /\ n - 1 + 2 + i = k
    BY <1>2
  <2> HIDE DEF k
  <2>2. r[k] = t[k - 1]
    BY <1>3, <2>1
  <2> QED BY <1>1, <2>1, <2>2
<1>7. n \in 1 .. Len(t) + 1 /\ n \in n - 1 .. Len(t)
  BY <1>4 DEF m
<1>8. Len(r) = n - 1 + Len(new) + Len(t) - n
  <2>1. Len(r) = m + 1
    BY DEF m
  <2>2. m + 1 = n - 1 + Len(new) + m - n
    BY <1>1, <1>4
  <2> QED BY <2>1, <2>2 DEF m
<1>9. \A i \in 1 .. n - 1 : r[i] = t[i]
  OBVIOUS
<1>10. ReadsAs(r, t, n, n, new)
  BY <1>5, <1>6, <1>7, <1>8, <1>9 DEF ReadsAs, m
<1>11. r = Spliced(t, n, n, new)
  BY <1>1, <1>10, IsSpliced
<1> QED BY <1>11 DEF new

(* One element put in behind the first n. *)
LEMMA OneInserted ==
  ASSUME NEW S, NEW s \in Seq(S), NEW n \in 0 .. Len(s), NEW c \in S, NEW r \in Seq(S),
         Len(r) = Len(s) + 1, r[n + 1] = c,
         \A i \in 1 .. n : r[i] = s[i],
         \A i \in n + 2 .. Len(s) + 1 : r[i] = s[i - 1]
  PROVE  r = SubSeq(s, 1, n) \o <<c>> \o SubSeq(s, n + 1, Len(s))
<1> DEFINE m == Len(s)
           new == <<c>>
           k == n + 1
<1>1. new \in Seq(S) /\ Len(new) = 1 /\ new[1] = c
  OBVIOUS
<1>2. m \in Nat /\ n \in 0 .. m
  OBVIOUS
<1>3. \A i \in n + 2 .. m + 1 : r[i] = s[i - 1]
  OBVIOUS
<1> HIDE DEF m, new, k
<1>4. /\ k \in 1 .. m + 1 /\ n \in k - 1 .. m /\ m + 1 = k - 1 + 1 + m - n /\ k - 1 = n
      /\ \A i \in 1 .. 1 : k - 1 + i = n + 1 /\ i = 1
  BY <1>2 DEF k
<1>5. \A i \in 1 .. Len(new) : r[k - 1 + i] = new[i]
  BY <1>1, <1>4
<1>6. \A i \in 1 .. m - n : r[k - 1 + Len(new) + i] = s[n + i]
  <2> TAKE i \in 1 .. m - n
  <2> DEFINE j == n + i + 1
  <2>1. j \in n + 2 .. m + 1 /\ j - 1 = n + i /\ k - 1 + 1 + i = j
    BY <1>2 DEF k
  <2> HIDE DEF j
  <2>2. r[j] = s[j - 1]
    BY <1>3, <2>1
  <2> QED BY <1>1, <2>1, <2>2
<1>7. k \in 1 .. Len(s) + 1 /\ n \in k - 1 .. Len(s)
  BY <1>4 DEF m
<1>8. Len(r) = k - 1 + Len(new) + Len(s) - n
  <2>1. Len(r) = m + 1
    BY DEF m
  <2>2. m + 1 = k - 1 + Len(new) + m - n
    BY <1>1, <1>4
  <2> QED BY <2>1, <2>2 DEF m
<1>9. \A i \in 1 .. k - 1 : r[i] = s[i]
  BY <1>4
<1>10. ReadsAs(r, s, k, n, new)
  BY <1>5, <1>6, <1>7, <1>8, <1>9 DEF ReadsAs, m
<1>11. r = Spliced(s, k, n, new)
  BY <1>1, <1>10, IsSpliced
<1> QED BY <1>4, <1>11 DEF Spliced, new

(* The first n elements without the last of them. *)
LEMMA OneDropped ==
  ASSUME NEW S, NEW s \in Seq(S), NEW n \in 1 .. Len(s), NEW r \in Seq(S),
         Len(r) = Len(s) - 1,
         \A i \in 1 .. n - 1 : r[i] = s[i],
         \A i \in n .. Len(s) - 1 : r[i] = s[i + 1]
  PROVE  r = Front(SubSeq(s, 1, n)) \o SubSeq(s, n + 1, Len(s))
<1> DEFINE m == Len(s)
           new == << >>
<1>1. new \in Seq(S) /\ Len(new) = 0 /\ \A i \in 1 .. 0 : FALSE
  OBVIOUS
<1>2. m \in Nat /\ n \in 1 .. m
  OBVIOUS
<1>3. \A i \in n .. m - 1 : r[i] = s[i + 1]
  OBVIOUS
<1> HIDE DEF m, new
<1>4. n \in 1 .. m + 1 /\ n \in n - 1 .. m /\ m - 1 = n - 1 + 0 + m - n
  BY <1>2
<1>5. \A i \in 1 .. Len(new) : r[n - 1 + i] = new[i]
  BY <1>1
<1>6. \A i \in 1 .. m - n : r[n - 1 + Len(new) + i] = s[n + i]
  <2> TAKE i \in 1 .. m - n
  <2> DEFINE j == n - 1 + i
  <2>1. j \in n .. m - 1 /\ j + 1 = n + i /\ n - 1 + 0 + i = j
    BY <1>2
  <2> HIDE DEF j
  <2>2. r[j] = s[j + 1]
    BY <1>3, <2>1
  <2> QED BY <1>1, <2>1, <2>2
<1>7. n \in 1 .. Len(s) + 1 /\ n \in n - 1 .. Len(s)
  BY <1>4 DEF m
<1>8. Len(r) = n - 1 + Len(new) + Len(s) - n
  <2>1. Len(r) = m - 1
    BY DEF m
  <2>2. m - 1 = n - 1 + Len(new) + m - n
    BY <1>1, <1>4
  <2> QED BY <2>1, <2>2 DEF m
<1>9. r = Spliced(s, n, n, new)
  <2>1. \A i \in 1 .. n - 1 : r[i] = s[i]
    OBVIOUS
  <2>2. ReadsAs(r, s, n, n, new)
    BY <1>5, <1>6, <1>7, <1>8, <2>1 DEF ReadsAs, m
  <2>3. new \in Seq(S)
    BY <1>1
  <2> QED BY <2>2, <2>3, IsSpliced
<1> DEFINE first == SubSeq(s, 1, n - 1)
           all == SubSeq(s, 1, n)
<1>10. first \in Seq(S) /\ first \o new = first
  <2>1. \A i \in 1 .. n - 1 : s[i] \in S
    BY <1>2 DEF m
  <2>2. 1 \in Int /\ n - 1 \in Int
    BY <1>2
  <2>3. first \in Seq(S)
    BY <2>1, <2>2, SubSeqProperties
  <2> HIDE DEF first
  <2> QED BY <2>3, ConcatEmptySeq DEF new
<1>11. Front(all) = first
  <2>1. \A i \in 1 .. n : s[i] \in S
    BY <1>2 DEF m
  <2>2. /\ all \in Seq(S) /\ Len(all) = IF 1 <= n THEN n - 1 + 1 ELSE 0
        /\ \A i \in 1 .. n - 1 + 1 : all[i] = s[1 + i - 1]
    BY <1>2, <2>1, SubSeqProperties
  <2>3. Len(all) = n
    BY <1>2, <2>2
  <2>4. \A i \in 1 .. n - 1 : all[i] = s[i]
    <3> HIDE DEF all
    <3> TAKE i \in 1 .. n - 1
    <3>1. i \in 1 .. n - 1 + 1 /\ 1 + i - 1 = i
      BY <1>2
    <3> QED BY <2>2, <3>1
  <2> HIDE DEF all
  <2>5. Front(all) = SubSeq(all, 1, n - 1)
    BY <2>3 DEF Front
  <2>6. /\ SubSeq(all, 1, n - 1) \in Seq(S) /\ first \in Seq(S)
        /\ Len(SubSeq(all, 1, n - 1)) = Len(first)
        /\ \A i \in 1 .. n - 1 - 1 + 1 :
             SubSeq(all, 1, n - 1)[i] = all[1 + i - 1] /\ first[i] = s[1 + i - 1]
        /\ Len(first) = IF 1 <= n - 1 THEN n - 1 - 1 + 1 ELSE 0
    <3>1. 1 \in Int /\ n - 1 \in Int
      BY <1>2
    <3>2. \A i \in 1 .. n - 1 : all[i] \in S /\ s[i] \in S
      BY <1>2, <2>4 DEF m
    <3>3. /\ SubSeq(all, 1, n - 1) \in Seq(S)
          /\ Len(SubSeq(all, 1, n - 1)) = IF 1 <= n - 1 THEN n - 1 - 1 + 1 ELSE 0
          /\ \A i \in 1 .. n - 1 - 1 + 1 : SubSeq(all, 1, n - 1)[i] = all[1 + i - 1]
      BY <3>1, <3>2, SubSeqProperties
    <3>4. /\ first \in Seq(S)
          /\ Len(first) = IF 1 <= n - 1 THEN n - 1 - 1 + 1 ELSE 0
          /\ \A i \in 1 .. n - 1 - 1 + 1 : first[i] = s[1 + i - 1]
      BY <3>1, <3>2, SubSeqProperties
    <3> HIDE DEF first
    <3> QED BY <3>3, <3>4, Zenon
  <2> HIDE DEF first
  <2>7. Len(first) = n - 1
    BY <1>2, <2>6
  <2>8. ASSUME NEW i \in 1 .. Len(first) PROVE SubSeq(all, 1, n - 1)[i] = first[i]
    <3>1. i \in 1 .. n - 1 - 1 + 1 /\ 1 + i - 1 = i /\ i \in 1 .. n - 1
      BY <1>2, <2>7
    <3> QED BY <2>4, <2>6, <3>1
  <2> QED BY <2>5, <2>6, <2>8, SeqEqual
<1> HIDE DEF first, all
<1>12. Spliced(s, n, n, new) = first \o new \o SubSeq(s, n + 1, Len(s))
  BY DEF Spliced, first
<1> QED BY <1>9, <1>10, <1>11, <1>12 DEF all

(* The part of a sequence from .. to. *)
LEMMA IsPart ==
  ASSUME NEW S, NEW s \in Seq(S), NEW r \in Seq(S),
         NEW from \in 1 .. Len(s) + 1, NEW to \in from - 1 .. Len(s),
         Len(r) = to - from + 1,
         \A i \in 1 .. to - from + 1 : r[i] = s[from - 1 + i]
  PROVE  r = SubSeq(s, from, to)
<1> DEFINE b == SubSeq(s, from, to)
           m == Len(s)
<1>1. m \in Nat /\ from \in 1 .. m + 1 /\ to \in from - 1 .. m
  OBVIOUS
<1>2. from \in Int /\ to \in Int /\ \A i \in from .. to : s[i] \in S
  <2>1. \A i \in 1 .. m : s[i] \in S
    OBVIOUS
  <2> HIDE DEF m
  <2> QED BY <1>1, <2>1
<1>3. /\ b \in Seq(S) /\ Len(b) = IF from <= to THEN to - from + 1 ELSE 0
      /\ \A i \in 1 .. to - from + 1 : b[i] = s[from + i - 1]
  BY <1>2, SubSeqProperties
<1> HIDE DEF b, m
<1>4. /\ ~(from <= to) => to - from + 1 = 0
      /\ \A i \in 1 .. to - from + 1 : from + i - 1 = from - 1 + i
  BY <1>1
<1>5. Len(b) = Len(r)
  BY <1>3, <1>4, Zenon
<1>6. \A i \in 1 .. Len(r) : r[i] = b[i]
  BY <1>3, <1>4
<1> QED BY <1>3, <1>5, <1>6, SeqEqual DEF b

LEMMA IsConcat ==
  ASSUME NEW S, NEW s \in Seq(S), NEW t \in Seq(S), NEW r \in Seq(S),
         Len(r) = Len(s) + Len(t),
         \A i \in 1 .. Len(s) : r[i] = s[i],
         \A i \in 1 .. Len(t) : r[Len(s) + i] = t[i]
  PROVE  r = s \o t
<1>1. /\ s \o t \in Seq(S) /\ Len(s \o t) = Len(s) + Len(t)
      /\ \A i \in 1 .. Len(s) + Len(t) : (s \o t)[i] = IF i <= Len(s) THEN s[i] ELSE t[i - Len(s)]
  BY ConcatProperties
<1> DEFINE m == Len(s)
           n == Len(t)
           w == s \o t
<1>2. m \in Nat /\ n \in Nat
  OBVIOUS
<1>3. /\ \A i \in 1 .. m : r[i] = s[i]
      /\ \A i \in 1 .. n : r[m + i] = t[i]
      /\ \A i \in 1 .. m + n : w[i] = IF i <= m THEN s[i] ELSE t[i - m]
  BY <1>1
<1>4. Len(r) = m + n /\ w \in Seq(S) /\ Len(w) = m + n
  BY <1>1
<1> HIDE DEF m, n, w
<1>5. ASSUME NEW i \in 1 .. m + n PROVE r[i] = w[i]
  <2>1. CASE i <= m
    <3>1. i \in 1 .. m
      BY <1>2, <2>1
    <3> QED BY <1>3, <2>1, <3>1
  <2>2. CASE ~(i <= m)
    <3>1. i - m \in 1 .. n /\ m + (i - m) = i
      BY <1>2, <2>2
    <3>2. r[m + (i - m)] = t[i - m]
      BY <1>3, <3>1
    <3> QED BY <1>3, <2>2, <3>1, <3>2
  <2> QED BY <2>1, <2>2
<1> QED BY <1>4, <1>5, SeqEqual DEF w
=============================================================================
