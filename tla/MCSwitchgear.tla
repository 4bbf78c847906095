---------------------------- MODULE MCSwitchgear ----------------------------
(***************************************************************************)
(* Switchgear for TLC.  The properties are about one switch at a time and  *)
(* the switches share nothing, so one of them, a breaker with all inputs,  *)
(* is enough; the bay has several.                                         *)
(***************************************************************************)
EXTENDS Switchgear
=============================================================================
