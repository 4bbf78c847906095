-------------------------------- MODULE CSWI --------------------------------
(***************************************************************************)
(* The switch controllers of one IED (LNs/CSWI.c).                         *)
(*                                                                         *)
(* A client operates a switch through the control object CSWI.Pos of the   *)
(* MMS library.  The library asks checkHandler whether the control may     *)
(* start, and then calls controlHandlerForBinaryOutput again and again, on *)
(* the one MMS thread of the server, until it answers OK or FAILED.  The   *)
(* position of the switch, the releases of CILO and the local/remote state *)
(* arrive on other threads, between any two reads of the handler.          *)
(***************************************************************************)
EXTENDS Naturals

CONSTANTS
  Ctl,       (* the CSWI instances                                        *)
  MaxWait    (* the calls after which the handler gives up: 1000 in the   *)
             (* code, a bound here                                        *)

ASSUME MaxWaitAssumption == MaxWait \in Nat \ {0}

VARIABLES
  currentValue,     (* CSWI.currentValue: the position last heard         *)
  timeout,          (* CSWI.timeout: calls of the handler so far          *)
  EnaOpn, EnaCls,   (* CSWI.EnaOpn, CSWI.EnaCls: the releases of CILO     *)
  Loc,              (* CSWI.Loc                                           *)
  OpOpn, OpCls,     (* the published OpOpn.general and OpCls.general      *)
  control,          (* the library's control object: the value it is      *)
                    (* executing, or "idle"                               *)
  result,           (* how the last control that was executed ended       *)
  mms               (* where the MMS thread is: in its loop, or inside    *)
                    (* the control handler of one controller              *)

inputs == <<currentValue, EnaOpn, EnaCls, Loc>>
vars == <<currentValue, timeout, EnaOpn, EnaCls, Loc, OpOpn, OpCls,
          control, result, mms>>

Dbpos == {"intermediate", "off", "on", "bad"}
Goal == {"off", "on"}
InLoop == [pc |-> "loop"]

Init ==
  /\ currentValue = [c \in Ctl |-> "intermediate"]
  /\ timeout = [c \in Ctl |-> 0]
  /\ EnaOpn = [c \in Ctl |-> TRUE]
  /\ EnaCls = [c \in Ctl |-> TRUE]
  /\ Loc = [c \in Ctl |-> FALSE]
  /\ OpOpn = [c \in Ctl |-> FALSE]
  /\ OpCls = [c \in Ctl |-> FALSE]
  /\ control = [c \in Ctl |-> "idle"]
  /\ result = [c \in Ctl |-> "none"]
  /\ mms = InLoop

-----------------------------------------------------------------------------
(* The callbacks of the inputs.                                            *)

CSWI_currentValue_callback(c, value) ==
  /\ currentValue' = [currentValue EXCEPT ![c] = value]
  /\ UNCHANGED <<timeout, EnaOpn, EnaCls, Loc, OpOpn, OpCls, control, result, mms>>

CSWI_EnaOpn_callback(c, value) ==
  /\ EnaOpn' = [EnaOpn EXCEPT ![c] = value]
  /\ UNCHANGED <<currentValue, timeout, EnaCls, Loc, OpOpn, OpCls, control, result, mms>>

CSWI_EnaCls_callback(c, value) ==
  /\ EnaCls' = [EnaCls EXCEPT ![c] = value]
  /\ UNCHANGED <<currentValue, timeout, EnaOpn, Loc, OpOpn, OpCls, control, result, mms>>

CSWI_Loc_callback(c, value) ==
  /\ Loc' = [Loc EXCEPT ![c] = value]
  /\ UNCHANGED <<currentValue, timeout, EnaOpn, EnaCls, OpOpn, OpCls, control, result, mms>>

-----------------------------------------------------------------------------
(* A client's operate on a control object that is not executing one.  The  *)
(* library calls checkHandler; a refusal changes nothing here.             *)

Accepted(c, goal) ==
  /\ ~Loc[c]
  /\ IF goal = "off" THEN EnaOpn[c] ELSE EnaCls[c]

checkHandler(c, goal) ==
  /\ mms = InLoop
  /\ control[c] = "idle"
  /\ Accepted(c, goal)
  /\ control' = [control EXCEPT ![c] = goal]
  /\ UNCHANGED <<inputs, timeout, OpOpn, OpCls, result, mms>>

-----------------------------------------------------------------------------
(* controlHandlerForBinaryOutput, one step for each read of the position:  *)
(* the pulse on the first call, the test for the goal, then the reset of   *)
(* the pulse or the test for the bad state.                                *)

(* Mutant: the pulse lasts one call of the handler. *)
HandlerPulse_off(c) ==
  /\ mms = InLoop
  /\ control[c] # "idle"
  /\ OpOpn' = [OpOpn EXCEPT ![c] = timeout[c] = 0 /\ control[c] = "off"]
  /\ OpCls' = [OpCls EXCEPT ![c] = timeout[c] = 0 /\ control[c] = "on"]
  /\ mms' = [pc |-> "test", ctl |-> c]
  /\ UNCHANGED <<inputs, timeout, control, result>>

HandlerPulse(c) ==
  /\ mms = InLoop
  /\ control[c] # "idle"
  /\ OpOpn' = [OpOpn EXCEPT ![c] = @ \/ (timeout[c] = 0 /\ control[c] = "off")]
  /\ OpCls' = [OpCls EXCEPT ![c] = @ \/ (timeout[c] = 0 /\ control[c] = "on")]
  /\ mms' = [pc |-> "test", ctl |-> c]
  /\ UNCHANGED <<inputs, timeout, control, result>>

(* The control is over: back to the library with the result. *)
Return(c, res) ==
  /\ control' = [control EXCEPT ![c] = "idle"]
  /\ result' = [result EXCEPT ![c] = res]
  /\ mms' = InLoop

Testing(c) == mms = [pc |-> "test", ctl |-> c]
Reached(c) == currentValue[c] = control[c]

(* Mutant: the counter is not reset when the position is reached. *)
HandlerReached_count(c) ==
  /\ Testing(c)
  /\ Reached(c)
  /\ mms' = [pc |-> "release", ctl |-> c]
  /\ UNCHANGED <<inputs, timeout, OpOpn, OpCls, control, result>>

HandlerReached(c) ==
  /\ Testing(c)
  /\ Reached(c)
  /\ timeout' = [timeout EXCEPT ![c] = 0]
  /\ mms' = [pc |-> "release", ctl |-> c]
  /\ UNCHANGED <<inputs, OpOpn, OpCls, control, result>>

(* pulseOp(inst, inst->currentValue, false): the pulse that belongs to the
   position of this moment, none if the switch has left its rest again. *)
HandlerRelease(c) ==
  /\ mms = [pc |-> "release", ctl |-> c]
  /\ OpOpn' = [OpOpn EXCEPT ![c] = @ /\ currentValue[c] # "off"]
  /\ OpCls' = [OpCls EXCEPT ![c] = @ /\ currentValue[c] # "on"]
  /\ Return(c, "ok")
  /\ UNCHANGED <<inputs, timeout>>

(* Not there yet; the position is read once more for the bad state. *)
HandlerNotReached(c) ==
  /\ Testing(c)
  /\ ~Reached(c)
  /\ mms' = [pc |-> "bad", ctl |-> c]
  /\ UNCHANGED <<inputs, timeout, OpOpn, OpCls, control, result>>

TestingBad(c) == mms = [pc |-> "bad", ctl |-> c]
GivesUp(c) == currentValue[c] = "bad" \/ timeout[c] + 1 >= MaxWait

(* Mutant: only the control's own pulse is taken back. *)
HandlerFail_own(c) ==
  /\ TestingBad(c)
  /\ GivesUp(c)
  /\ timeout' = [timeout EXCEPT ![c] = 0]
  /\ OpOpn' = [OpOpn EXCEPT ![c] = @ /\ control[c] # "off"]
  /\ OpCls' = [OpCls EXCEPT ![c] = @ /\ control[c] # "on"]
  /\ Return(c, "failed")
  /\ UNCHANGED inputs

(* A bad position, or the last call: both pulses are taken back. *)
HandlerFail(c) ==
  /\ TestingBad(c)
  /\ GivesUp(c)
  /\ timeout' = [timeout EXCEPT ![c] = 0]
  /\ OpOpn' = [OpOpn EXCEPT ![c] = FALSE]
  /\ OpCls' = [OpCls EXCEPT ![c] = FALSE]
  /\ Return(c, "failed")
  /\ UNCHANGED inputs

(* Mutant: the calls are not counted. *)
HandlerWait_uncounted(c) ==
  /\ TestingBad(c)
  /\ ~GivesUp(c)
  /\ mms' = InLoop
  /\ UNCHANGED <<inputs, timeout, OpOpn, OpCls, control, result>>

(* Sleep 10 ms and let the library call again. *)
HandlerWait(c) ==
  /\ TestingBad(c)
  /\ ~GivesUp(c)
  /\ timeout' = [timeout EXCEPT ![c] = @ + 1]
  /\ mms' = InLoop
  /\ UNCHANGED <<inputs, OpOpn, OpCls, control, result>>

-----------------------------------------------------------------------------

Handler(c) ==
  \/ HandlerReached(c)
  \/ HandlerRelease(c)
  \/ HandlerNotReached(c)
  \/ HandlerFail(c)
  \/ HandlerWait(c)

Next ==
  \E c \in Ctl :
    \/ \E p \in Dbpos : CSWI_currentValue_callback(c, p)
    \/ \E v \in BOOLEAN :
         \/ CSWI_EnaOpn_callback(c, v)
         \/ CSWI_EnaCls_callback(c, v)
         \/ CSWI_Loc_callback(c, v)
    \/ \E g \in Goal : checkHandler(c, g)
    \/ HandlerPulse(c)
    \/ Handler(c)

(* The MMS thread finishes a handler it has entered, and its loop visits
   every control object that is executing a control. *)
Fairness == \A c \in Ctl : SF_vars(HandlerPulse(c)) /\ WF_vars(Handler(c))

Spec == Init /\ [][Next]_vars /\ Fairness

-----------------------------------------------------------------------------
(* Properties.                                                             *)

TypeOK ==
  /\ currentValue \in [Ctl -> Dbpos]
  /\ timeout \in [Ctl -> 0 .. MaxWait - 1]
  /\ EnaOpn \in [Ctl -> BOOLEAN]
  /\ EnaCls \in [Ctl -> BOOLEAN]
  /\ Loc \in [Ctl -> BOOLEAN]
  /\ OpOpn \in [Ctl -> BOOLEAN]
  /\ OpCls \in [Ctl -> BOOLEAN]
  /\ control \in [Ctl -> Goal \cup {"idle"}]
  /\ result \in [Ctl -> {"none", "ok", "failed"}]
  /\ mms \in {InLoop} \cup [pc : {"test", "bad", "release"}, ctl : Ctl]

(* While a control is executed its own pulse stands: from the first call
   of the handler to the last, whatever the position does meanwhile. *)
Executing(c) == control[c] # "idle" /\ (timeout[c] > 0 \/ (mms # InLoop /\ mms.ctl = c))
PulseStands ==
  \A c \in Ctl : Executing(c) =>
    IF control[c] = "off" THEN OpOpn[c] ELSE OpCls[c]

(* Between controls the counter is zero, so that the next control gives its
   pulse and has its full waiting time. *)
CounterStartsAtZero == \A c \in Ctl : control[c] = "idle" => timeout[c] = 0

(* After a control that failed no pulse is left standing. *)
FailureTakesPulsesBack ==
  \A c \in Ctl : control[c] = "idle" /\ result[c] = "failed" =>
    ~OpOpn[c] /\ ~OpCls[c]

(* Every control that was accepted ends, whatever the switch does. *)
ControlsEnd == \A c \in Ctl : control[c] # "idle" ~> control[c] = "idle"

=============================================================================
