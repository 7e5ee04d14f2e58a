-------------------------- MODULE MCWindowManager --------------------------
(***************************************************************************)
(* The window manager with three window addresses and room for two windows *)
(* at a time: the limit is met, windows are closed and addresses used up,  *)
(* and the child array is as small as SizesAssumption allows.              *)
(***************************************************************************)
EXTENDS WindowManager, TLC

CONSTANTS w1, w2, w3, calc, notes

MCWin == {w1, w2, w3}
MCApps == {calc, notes}
MCMaxWindows == 2
MCFixedChildren == 3
MCMaxChildren == MCFixedChildren + 1 + MCMaxWindows + Cardinality(MCApps)

(* Addresses, and applications, are interchangeable. *)
Symmetry == Permutations(MCWin) \cup Permutations(MCApps)
=============================================================================
