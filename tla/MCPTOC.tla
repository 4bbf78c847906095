------------------------------- MODULE MCPTOC -------------------------------
(***************************************************************************)
(* PTOC for TLC: two channels and two currents above pickup.  The fields   *)
(* that nobody sets start as no number, below 0, at 0 or above any limit.  *)
(***************************************************************************)
EXTENDS PTOC

CONSTANTS low, high

Curve == [l \in {low, high} |-> IF l = low THEN 6 ELSE 2]

Hopeless == -9
Leftovers == {Hopeless, -1, 0, 7}
=============================================================================
