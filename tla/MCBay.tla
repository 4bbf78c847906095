------------------------------- MODULE MCBay -------------------------------
(***************************************************************************)
(* Bay for TLC: a breaker and an isolator.                                 *)
(***************************************************************************)
EXTENDS Bay

CONSTANTS cb, ds1

OneIsolator == <<ds1>>
=============================================================================
