------------------------------- MODULE MCRREC -------------------------------
(***************************************************************************)
(* RREC for TLC: the count starts below 0, at 0, one shot used, or beyond  *)
(* the lock.                                                               *)
(***************************************************************************)
EXTENDS RREC

Leftovers == {-1, 0, 1, RREC_MAX_TripCnt + 2}
=============================================================================
