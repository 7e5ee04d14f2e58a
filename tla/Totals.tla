------------------------------- MODULE Totals -------------------------------
(***************************************************************************)
(* Adding up a sequence of numbers, from its front.  A recursive function, *)
(* not an operator: theorems about the modules that use it can be stated.  *)
(***************************************************************************)
EXTENDS Integers, Sequences

Total(w) ==
  LET sum[k \in 0 .. Len(w)] == IF k = 0 THEN 0 ELSE sum[k - 1] + w[k]
  IN  sum[Len(w)]
=============================================================================
