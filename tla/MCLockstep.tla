----------------------------- MODULE MCLockstep -----------------------------
(***************************************************************************)
(* Lockstep for TLC: a merging unit with two measured values, and an IED   *)
(* that has only a switch.                                                 *)
(***************************************************************************)
EXTENDS Lockstep

CONSTANTS mu, brk, amp, vol, cbr

MuAndBreaker == <<amp, vol, cbr>>
Ends == [c \in {amp, vol, cbr} |-> IF c = cbr THEN brk ELSE mu]
=============================================================================
