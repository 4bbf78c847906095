-------------------------------- MODULE PTOC --------------------------------
(***************************************************************************)
(* Time overcurrent protection (LNs/PTOC.c), with the inverse curve.       *)
(*                                                                         *)
(* Every set of sampled values runs the callback once, on the thread of    *)
(* the SV receiver.  Each channel adds the time since the last call to its *)
(* progress, in proportion to how fast its current has to trip, or to the  *)
(* time it has been below the pickup current.  A current is abstracted to  *)
(* the operate time the curve and its limits give for it, so that a client *)
(* that writes StrVal is one more reason for a current to change.          *)
(*                                                                         *)
(* PTOC_init leaves progress, reset_timer and prevTime as malloc found     *)
(* them: any float, or any time, until the callback first sets them.       *)
(***************************************************************************)
EXTENDS Integers

CONSTANTS
  Channel,
  Level,          (* the currents above pickup that are told apart        *)
  OperateTime,    (* their operate times, in ms                           *)
  MinOpTmms, MaxOpTmms,
  RsDlTmms,       (* the reset delay                                      *)
  Unit,           (* progress is counted in units of 1 / Unit             *)
  Deltas,         (* the times between two calls, in ms                   *)
  FirstDeltas,    (* what the first call takes for such a time: prevTime  *)
                  (* is not initialised                                   *)
  InitialProgress, InitialTimers,  (* what malloc left in the two fields  *)
  Stuck           (* a float this far below 0, or no number at all, that  *)
                  (* an addition leaves as it is                          *)

ASSUME PTOCAssumption ==
  /\ {MinOpTmms, MaxOpTmms, RsDlTmms} \subseteq Nat \ {0}
  /\ OperateTime \in [Level -> MinOpTmms..MaxOpTmms]
  /\ Unit \in Nat \ {0}
  /\ \A l \in Level : Unit % OperateTime[l] = 0
  /\ Deltas \subseteq Nat \ {0} /\ FirstDeltas \subseteq Nat
  /\ InitialProgress \subseteq Int /\ InitialTimers \subseteq Int
  /\ Stuck \in Int /\ Stuck < 0

Below == "below"
ASSUME Below \notin Level

VARIABLES
  trip,           (* PTOC.trip                                            *)
  Op_general,
  progress,       (* PTOC.progress, no higher than Unit                   *)
  reset_timer,    (* PTOC.reset_timer                                     *)
  prevTime,       (* PTOC.prevTime has been set                           *)
  above,          (* history: time above pickup since the channel was     *)
                  (* last below it for RsDlTmms, as the code measured it  *)
  below,          (* history: time below pickup since it was above,       *)
                  (* no longer than RsDlTmms                              *)
  settled         (* history: the channels whose progress is the code's   *)
                  (* own: reset once, or 0 to begin with                  *)

vars == <<trip, Op_general, progress, reset_timer, prevTime, above, below, settled>>

AtMost(n, bound) == IF n > bound THEN bound ELSE n

(* The sum of floats: NaN stays NaN, minus infinity what it is, and to a
   large negative number a few milliseconds make no difference. *)
Plus(n, d) == IF n <= Stuck THEN n ELSE n + d

Init ==
  /\ trip = FALSE /\ Op_general = FALSE
  /\ progress \in [Channel -> InitialProgress]
  /\ reset_timer \in [Channel -> InitialTimers]
  /\ prevTime = FALSE
  /\ above = [c \in Channel |-> 0]
  /\ below = [c \in Channel |-> RsDlTmms]
  /\ settled = {c \in Channel : progress[c] = 0}

-----------------------------------------------------------------------------
(* PTOC_Update_algorithm.                                                  *)

Resets(c, I, delta) == I[c] = Below /\ Plus(reset_timer[c], delta) >= RsDlTmms

(* Mutant: a current that falls below pickup starts again from nothing. *)
Progress_dropped(c, I, delta) ==
  IF I[c] = Below THEN 0
  ELSE AtMost(Plus(progress[c], delta * (Unit \div OperateTime[I[c]])), Unit)

(* Mutant: the reset of the progress is missing. *)
Progress_kept(c, I, delta) ==
  IF I[c] = Below THEN progress[c]
  ELSE AtMost(Plus(progress[c], delta * (Unit \div OperateTime[I[c]])), Unit)

Progress(c, I, delta) ==
  IF I[c] = Below THEN IF Resets(c, I, delta) THEN 0 ELSE progress[c]
  ELSE AtMost(Plus(progress[c], delta * (Unit \div OperateTime[I[c]])), Unit)

ResetTimer(c, I, delta) ==
  IF I[c] # Below \/ Resets(c, I, delta) THEN 0 ELSE Plus(reset_timer[c], delta)

Trips(c, I, delta) == I[c] # Below /\ Progress(c, I, delta) >= Unit

-----------------------------------------------------------------------------

(* Mutant: a trip is never taken back. *)
Trip_latched(I, delta) ==
  trip \/ \E c \in Channel : Trips(c, I, delta)

(* PTOC_callback_SMV: what trip becomes. *)
Trip(I, delta) ==
  \/ \E c \in Channel : Trips(c, I, delta)
  \/ trip /\ ~ \E c \in Channel : Resets(c, I, delta)

(* Op.general is published, and PTRC called, when trip changes. *)
PTOC_callback_SMV(I, delta) ==
  /\ trip' = Trip(I, delta)
  /\ Op_general' = IF trip' # trip THEN trip' ELSE Op_general
  /\ progress' = [c \in Channel |-> Progress(c, I, delta)]
  /\ reset_timer' = [c \in Channel |-> ResetTimer(c, I, delta)]
  /\ prevTime' = TRUE
  /\ below' = [c \in Channel |->
                 IF I[c] = Below THEN AtMost(below[c] + delta, RsDlTmms) ELSE 0]
  /\ above' = [c \in Channel |->
                 IF I[c] # Below THEN AtMost(above[c] + delta, MaxOpTmms)
                 ELSE IF below'[c] >= RsDlTmms THEN 0 ELSE above[c]]
  /\ settled' = settled \cup {c \in Channel : Resets(c, I, delta)}

Next ==
  \E I \in [Channel -> Level \cup {Below}] :
    \E delta \in IF prevTime THEN Deltas ELSE FirstDeltas :
      PTOC_callback_SMV(I, delta)

(* The sampled values keep coming. *)
Spec == Init /\ [][Next]_vars /\ WF_vars(Next)

-----------------------------------------------------------------------------
(* Properties.                                                             *)

TypeOK ==
  /\ trip \in BOOLEAN /\ Op_general = trip
  /\ progress \in [Channel -> Int] /\ \A c \in settled : progress[c] \in 0..Unit
  /\ reset_timer \in [Channel -> Int]
  /\ prevTime \in BOOLEAN
  /\ above \in [Channel -> 0..MaxOpTmms]
  /\ below \in [Channel -> 0..RsDlTmms]
  /\ settled \subseteq Channel

(* A current that has been above pickup for the maximum operate time, dips
   shorter than the reset delay not counted, trips, whatever the other
   channels and its own curve make of it.  A channel that has not been at rest
   since the start counts from what malloc left and may never get there. *)
TripsInTime ==
  \A c \in settled : below[c] = 0 /\ above[c] >= MaxOpTmms => Op_general

(* No trip without a channel that has been above pickup for the minimum
   operate time since it was last at rest, unless by one that is above pickup
   and was never at rest: what malloc left in its progress may be enough. *)
TripIsEarned ==
  Op_general =>
    \E c \in Channel :
      above[c] >= MinOpTmms \/ (c \notin settled /\ below[c] < RsDlTmms)

(* A trip ends when every current stays below pickup, also if reset_timer began
   as a number that no addition can bring to RsDlTmms. *)
TripEnds == (<>[]\A c \in Channel : below[c] > 0) => <>[]~Op_general

=============================================================================
