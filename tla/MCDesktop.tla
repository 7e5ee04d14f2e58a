----------------------------- MODULE MCDesktop -----------------------------
(***************************************************************************)
(* The two components that keep a stack of what the screen shows, the      *)
(* windows of wm.c and the surfaces of compositor.c, side by side.  They   *)
(* share no state: each behaviour is one of one of them, named by          *)
(* component, and the other stays as it began.                             *)
(***************************************************************************)
EXTENDS MCWindowManager, Compositor

VARIABLE component

MCPlaces == {-1, 3}

DesktopInit ==
  /\ component \in {"windows", "surfaces"}
  /\ Init
  /\ CompInit /\ (component # "surfaces" => column = 0)

DesktopNext ==
  \/ component = "windows" /\ Next /\ UNCHANGED <<component, compVars>>
  \/ component = "surfaces" /\ CompNext /\ UNCHANGED <<component, vars>>

DesktopSpec == DesktopInit /\ [][DesktopNext]_<<component, vars, compVars>>
=============================================================================
