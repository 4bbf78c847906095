-------------------------------- MODULE RREC --------------------------------
(***************************************************************************)
(* The automatic recloser (LNs/RREC.c).                                    *)
(*                                                                         *)
(* A trip, followed by the opening of the breaker, is answered by a close  *)
(* command after a pause, at most RREC_MAX_TripCnt times in a row.  Every  *)
(* pause is a detached thread that sleeps and then looks at the state; no  *)
(* thread is ever cancelled.  Time passes in ticks; a thread whose sleep   *)
(* is over acts before the next tick.                                      *)
(*                                                                         *)
(* RREC_init leaves tripCount as malloc found it: any int, and the program *)
(* counts on from there until it first sets it.                            *)
(***************************************************************************)
EXTENDS Integers, Sequences

CONSTANTS
  RREC_Timer,         (* the pause before the breaker is reclosed         *)
  RREC_Timeout,       (* the time a tripped breaker has to open           *)
  RREC_RearmTimer,    (* the time after which the trips are forgotten     *)
  RREC_MAX_TripCnt,   (* the reclosings before the recloser locks         *)
  InitialCount,       (* the ints malloc may leave in tripCount           *)
  MaxTimers           (* bound: the sleeping threads of each kind         *)

ASSUME TimerAssumption ==
  /\ RREC_Timer \in Nat \ {0}
  /\ RREC_Timeout \in Nat /\ RREC_Timeout > RREC_Timer
  /\ RREC_RearmTimer \in Nat /\ RREC_RearmTimer > RREC_Timeout
  /\ RREC_MAX_TripCnt \in Nat \ {0}
  /\ InitialCount \subseteq Int /\ InitialCount # {}
  /\ MaxTimers \in Nat \ {0}

VARIABLES
  pos,         (* the breaker's position, which every thread reads live   *)
  travelled,   (* the breaker has been intermediate for a tick: its drive *)
               (* sleeps before it arrives                                *)
  tripstate,   (* RREC.tripstate: 0 ready, 1 tripped, 2 opened            *)
  tripCount,   (* RREC.tripCount                                          *)
  recloser,    (* what is left to sleep for each thread of                *)
  timeout,     (*   RREC_recloser_timer, RREC_timeout and                 *)
  rearm,       (*   RREC_reenable_timer, oldest first                     *)
  closing,     (* the recloser threads that have published OpCls and have *)
               (* not counted it yet                                      *)
  shots,       (* history: the close commands since the last re-arm       *)
  leftover     (* history: what malloc left in tripCount, 0 once the      *)
               (* recloser has been re-armed                              *)

timers == <<recloser, timeout, rearm>>
history == <<shots, leftover>>
vars == <<pos, travelled, tripstate, tripCount, timers, closing, history>>

Dbpos == {"on", "intermediate", "off"}

Init ==
  /\ pos \in {"on", "off"}
  /\ travelled = FALSE
  /\ tripstate = 0
  /\ tripCount \in InitialCount
  /\ recloser = <<>> /\ timeout = <<>> /\ rearm = <<>>
  /\ closing = 0
  /\ shots = 0 /\ leftover = tripCount

(* A new detached thread that sleeps for d ticks. *)
Start(timer, d) == Len(timer) < MaxTimers /\ timer' = Append(timer, d)

(* The oldest thread of a kind wakes. *)
Wakes(timer) == timer # <<>> /\ Head(timer) = 0 /\ timer' = Tail(timer)

-----------------------------------------------------------------------------
(* The trip input. *)
RREC_input_callback ==
  /\ tripstate = 0
  /\ tripstate' = 1
  /\ Start(timeout, RREC_Timeout)
  /\ UNCHANGED <<pos, travelled, tripCount, recloser, rearm, closing, history>>

(* Mutant: the lock comes one reclosing early. *)
Opened_early(p) ==
  IF tripstate = 1 /\ p = "off"
  THEN IF tripCount + 1 < RREC_MAX_TripCnt
       THEN /\ tripstate' = 2
            /\ Start(recloser, RREC_Timer)
            /\ UNCHANGED tripCount
       ELSE /\ tripstate' = 0
            /\ tripCount' = RREC_MAX_TripCnt + 1
            /\ UNCHANGED recloser
  ELSE UNCHANGED <<tripstate, tripCount, recloser>>

(* The tripped breaker is open: reclose it after a pause, or lock. *)
Opened(p) ==
  IF tripstate = 1 /\ p = "off"
  THEN IF tripCount < RREC_MAX_TripCnt
       THEN /\ tripstate' = 2
            /\ Start(recloser, RREC_Timer)
            /\ UNCHANGED tripCount
       ELSE /\ tripstate' = 0
            /\ tripCount' = RREC_MAX_TripCnt + 1
            /\ UNCHANGED recloser
  ELSE UNCHANGED <<tripstate, tripCount, recloser>>

(* Mutant: a breaker that closes after a lock does not start the timer. *)
Closed_locked(p) ==
  IF (tripstate > 0 \/ tripCount \in 1 .. RREC_MAX_TripCnt) /\ p = "on"
  THEN Start(rearm, RREC_RearmTimer)
  ELSE UNCHANGED rearm

(* The breaker is closed again: forget the trips after a while. *)
Closed(p) ==
  IF (tripstate > 0 \/ tripCount > 0) /\ p = "on"
  THEN Start(rearm, RREC_RearmTimer)
  ELSE UNCHANGED rearm

(* The breaker publishes a position; its thread calls the recloser. *)
RREC_xcbr_callback(p) ==
  /\ IF pos = "intermediate" THEN travelled /\ p # pos ELSE p = "intermediate"
  /\ pos' = p
  /\ travelled' = FALSE
  /\ Opened(p)
  /\ Closed(p)
  /\ UNCHANGED <<timeout, closing, history>>

-----------------------------------------------------------------------------
(* The threads, after their sleep.                                         *)

(* RREC_recloser_timer publishes the close command... *)
Reclose ==
  /\ Wakes(recloser)
  /\ tripstate = 2 /\ pos = "off"
  /\ closing' = closing + 1
  /\ shots' = shots + 1
  /\ UNCHANGED <<pos, travelled, tripstate, tripCount, timeout, rearm, leftover>>

(* Mutant: the close command is not counted. *)
RecloseCount_none ==
  /\ closing > 0
  /\ closing' = closing - 1
  /\ tripstate' = 0
  /\ UNCHANGED <<pos, travelled, tripCount, timers, history>>

(* ... and only then counts it and is ready for the next trip. *)
RecloseCount ==
  /\ closing > 0
  /\ closing' = closing - 1
  /\ tripCount' = tripCount + 1
  /\ tripstate' = 0
  /\ UNCHANGED <<pos, travelled, timers, history>>

RecloseNot ==
  /\ Wakes(recloser)
  /\ ~(tripstate = 2 /\ pos = "off")
  /\ UNCHANGED <<pos, travelled, tripstate, tripCount, timeout, rearm, closing, history>>

RREC_timeout_thread ==
  /\ Wakes(timeout)
  /\ tripstate' = IF tripstate = 1 THEN 0 ELSE tripstate
  /\ UNCHANGED <<pos, travelled, tripCount, recloser, rearm, closing, history>>

RREC_reenable_timer ==
  /\ Wakes(rearm)
  /\ IF (tripstate > 0 \/ tripCount > 0) /\ pos = "on"
     THEN tripstate' = 0 /\ tripCount' = 0 /\ shots' = 0 /\ leftover' = 0
     ELSE UNCHANGED <<tripstate, tripCount, history>>
  /\ UNCHANGED <<pos, travelled, recloser, timeout, closing>>

Wake ==
  Reclose \/ RecloseCount \/ RecloseNot \/ RREC_timeout_thread \/ RREC_reenable_timer

(* One tick for every sleeping thread and for the breaker's drive; the
   threads that woke have acted. *)
Sleep(timer) == [i \in DOMAIN timer |-> timer[i] - 1]

Tick ==
  /\ \A timer \in {recloser, timeout, rearm} : timer # <<>> => Head(timer) > 0
  /\ closing = 0
  /\ travelled' = (pos = "intermediate")
  /\ recloser' = Sleep(recloser)
  /\ timeout' = Sleep(timeout)
  /\ rearm' = Sleep(rearm)
  /\ UNCHANGED <<pos, tripstate, tripCount, closing, history>>

Next ==
  \/ RREC_input_callback
  \/ \E p \in Dbpos : RREC_xcbr_callback(p)
  \/ Wake
  \/ Tick

(* Time goes on and a thread that has slept enough runs on.  Neither trips
   nor movements of the breaker need happen. *)
Spec == Init /\ [][Next]_vars /\ WF_vars(Wake) /\ WF_vars(Tick)

-----------------------------------------------------------------------------
(* Properties.                                                             *)

TimersOf(d) == UNION {[1 .. n -> 0 .. d] : n \in 0 .. MaxTimers}

TypeOK ==
  /\ pos \in Dbpos
  /\ travelled \in BOOLEAN
  /\ tripstate \in 0 .. 2
  /\ tripCount \in Int /\ (tripCount > RREC_MAX_TripCnt + 1 => tripCount = leftover)
  /\ recloser \in TimersOf(RREC_Timer)
  /\ timeout \in TimersOf(RREC_Timeout)
  /\ rearm \in TimersOf(RREC_RearmTimer)
  /\ closing \in 0 .. MaxTimers
  /\ shots \in Nat /\ leftover \in InitialCount \cup {0}

(* Between two re-arms the recloser gives at most RREC_MAX_TripCnt close
   commands.  Before the first one, what malloc left in tripCount counts with
   them: a negative leftover allows that many more, a positive one fewer. *)
ShotsLimited == shots = 0 \/ shots + leftover <= RREC_MAX_TripCnt

(* A recloser whose breaker stays closed, with no more trips, is ready in the
   end with all its reclosings at hand.  Only what malloc left in tripCount may
   stay: a re-arm timer is started by nothing but a breaker that closes. *)
StaysClosed == <>[](pos = "on" /\ tripstate # 1)
ReadyAgain ==
  StaysClosed => <>[](tripstate = 0 /\ (tripCount <= 0 \/ tripCount = leftover))

(* RREC.c:131, "if trip signal detect, and a set time is passed, check pos,
   and if still open, close switch": the recloser does not lock before it has
   given its close commands, of which it counts the first ones as given when
   malloc left a positive number in tripCount (InitialCount). *)
LocksAfterShots ==
  tripCount = RREC_MAX_TripCnt + 1 => shots + leftover >= RREC_MAX_TripCnt
=============================================================================
