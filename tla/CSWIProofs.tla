----------------------------- MODULE CSWIProofs -----------------------------
(***************************************************************************)
(* The pulse and the counter of the switch controllers, for any number of  *)
(* controllers and any number of waits.  The three invariants need one     *)
(* another, and two facts about the MMS thread: it is inside a handler     *)
(* only for a control that is executed, and once the position is reached   *)
(* the counter has been reset, before the control ends.                    *)
(***************************************************************************)
EXTENDS CSWI, TLAPS

InHandler == mms # InLoop => control[mms.ctl] # "idle"
CounterReset == mms.pc = "release" => timeout[mms.ctl] = 0

IInv ==
  /\ TypeOK /\ InHandler /\ CounterReset
  /\ PulseStands /\ CounterStartsAtZero /\ FailureTakesPulsesBack

-----------------------------------------------------------------------------
LEMMA InitIInv == Init => IInv
BY MaxWaitAssumption
DEF Init, IInv, TypeOK, InHandler, CounterReset, PulseStands, Executing,
    CounterStartsAtZero, FailureTakesPulsesBack, Dbpos, Goal, InLoop

\* What arrives at the inputs leaves controls, counters and pulses alone.
LEMMA InputKeepsIInv ==
  ASSUME IInv, NEW c \in Ctl,
         \/ \E p \in Dbpos : CSWI_currentValue_callback(c, p)
         \/ \E v \in BOOLEAN : \/ CSWI_EnaOpn_callback(c, v)
                               \/ CSWI_EnaCls_callback(c, v)
                               \/ CSWI_Loc_callback(c, v)
  PROVE  IInv'
<1>1. UNCHANGED <<timeout, OpOpn, OpCls, control, result, mms>>
  BY DEF CSWI_currentValue_callback, CSWI_EnaOpn_callback, CSWI_EnaCls_callback,
         CSWI_Loc_callback
<1>2. /\ currentValue' \in [Ctl -> Dbpos]
      /\ {EnaOpn', EnaCls', Loc'} \subseteq [Ctl -> BOOLEAN]
  BY DEF CSWI_currentValue_callback, CSWI_EnaOpn_callback, CSWI_EnaCls_callback,
         CSWI_Loc_callback, IInv, TypeOK
<1> QED
  BY <1>1, <1>2
  DEF IInv, TypeOK, InHandler, CounterReset, PulseStands, Executing,
      CounterStartsAtZero, FailureTakesPulsesBack

LEMMA checkHandlerKeepsIInv ==
  ASSUME IInv, NEW c \in Ctl, NEW g \in Goal, checkHandler(c, g)
  PROVE  IInv'
<1>1. TypeOK' /\ InHandler' /\ CounterReset'
  BY DEF IInv, TypeOK, InHandler, CounterReset, checkHandler, inputs, InLoop, Goal
<1>2. timeout[c] = 0 /\ mms = InLoop /\ control[c] = "idle"
  BY DEF IInv, CounterStartsAtZero, checkHandler
<1>3. PulseStands' /\ CounterStartsAtZero' /\ FailureTakesPulsesBack'
  BY <1>2
  DEF IInv, TypeOK, PulseStands, Executing, CounterStartsAtZero, FailureTakesPulsesBack,
      checkHandler, inputs, Goal
<1> QED
  BY <1>1, <1>3 DEF IInv

LEMMA HandlerPulseKeepsIInv ==
  ASSUME IInv, NEW c \in Ctl, HandlerPulse(c)
  PROVE  IInv'
<1>1. TypeOK' /\ InHandler' /\ CounterReset'
  BY DEF IInv, TypeOK, InHandler, CounterReset, HandlerPulse, inputs, InLoop
<1>2. CounterStartsAtZero' /\ FailureTakesPulsesBack'
  BY DEF IInv, TypeOK, CounterStartsAtZero, FailureTakesPulsesBack, HandlerPulse, inputs
<1>3. PulseStands'
  <2> SUFFICES ASSUME NEW d \in Ctl, Executing(d)'
               PROVE  (IF control[d] = "off" THEN OpOpn[d] ELSE OpCls[d])'
    BY DEF PulseStands
  <2>1. CASE d = c
    <3>1. CASE timeout[c] = 0
      BY <2>1, <3>1 DEF IInv, TypeOK, HandlerPulse, inputs, Goal
    <3>2. CASE timeout[c] # 0
      <4>1. Executing(c)
        BY <3>2 DEF IInv, TypeOK, Executing, HandlerPulse
      <4>2. IF control[c] = "off" THEN OpOpn[c] ELSE OpCls[c]
        BY <4>1 DEF IInv, PulseStands
      <4> QED
        BY <2>1, <4>2 DEF IInv, TypeOK, HandlerPulse, inputs
    <3> QED
      BY <3>1, <3>2
  <2>2. CASE d # c
    <3>1. Executing(d)
      BY <2>2 DEF Executing, HandlerPulse, inputs
    <3> QED
      BY <2>2, <3>1 DEF IInv, TypeOK, PulseStands, HandlerPulse, inputs
  <2> QED
    BY <2>1, <2>2
<1> QED
  BY <1>1, <1>2, <1>3 DEF IInv

\* The way out with the position reached: the counter goes back, then the pulse.
LEMMA HandlerReachedKeepsIInv ==
  ASSUME IInv, NEW c \in Ctl, HandlerReached(c)
  PROVE  IInv'
<1>1. mms.ctl = c /\ mms # InLoop
  BY DEF HandlerReached, Testing, InLoop
<1>2. TypeOK' /\ InHandler' /\ CounterReset'
  BY <1>1, MaxWaitAssumption
  DEF IInv, TypeOK, InHandler, CounterReset, HandlerReached, inputs, InLoop
<1>3. CounterStartsAtZero' /\ FailureTakesPulsesBack'
  BY DEF IInv, TypeOK, CounterStartsAtZero, FailureTakesPulsesBack, HandlerReached, inputs
<1>4. \A d \in Ctl : Executing(d)' => Executing(d)
  BY <1>1 DEF Executing, HandlerReached, inputs, IInv, TypeOK
<1>5. PulseStands'
  BY <1>4 DEF IInv, PulseStands, HandlerReached, inputs
<1> QED
  BY <1>2, <1>3, <1>5 DEF IInv

LEMMA HandlerReleaseKeepsIInv ==
  ASSUME IInv, NEW c \in Ctl, HandlerRelease(c)
  PROVE  IInv'
<1>1. mms.ctl = c /\ mms # InLoop /\ timeout[c] = 0
  BY DEF HandlerRelease, InLoop, IInv, CounterReset
<1>2. TypeOK' /\ InHandler' /\ CounterReset'
  BY DEF IInv, TypeOK, InHandler, CounterReset, HandlerRelease, Return, inputs, InLoop
<1>3. CounterStartsAtZero' /\ FailureTakesPulsesBack'
  BY <1>1 DEF IInv, TypeOK, CounterStartsAtZero, FailureTakesPulsesBack, HandlerRelease,
              Return, inputs
<1>4. \A d \in Ctl : Executing(d)' => d # c /\ Executing(d)
  BY <1>1 DEF Executing, HandlerRelease, Return, inputs, IInv, TypeOK, InLoop
<1>5. PulseStands'
  BY <1>4 DEF IInv, TypeOK, PulseStands, HandlerRelease, Return, inputs
<1> QED
  BY <1>2, <1>3, <1>5 DEF IInv

LEMMA HandlerNotReachedKeepsIInv ==
  ASSUME IInv, NEW c \in Ctl, HandlerNotReached(c)
  PROVE  IInv'
<1>1. mms.ctl = c /\ mms # InLoop
  BY DEF HandlerNotReached, Testing, InLoop
<1>2. TypeOK' /\ InHandler' /\ CounterReset'
  BY <1>1
  DEF IInv, TypeOK, InHandler, CounterReset, HandlerNotReached, inputs, InLoop
<1>3. CounterStartsAtZero' /\ FailureTakesPulsesBack'
  BY DEF IInv, CounterStartsAtZero, FailureTakesPulsesBack, HandlerNotReached, inputs
<1>4. \A d \in Ctl : Executing(d)' => Executing(d)
  BY <1>1 DEF Executing, HandlerNotReached, inputs
<1>5. PulseStands'
  BY <1>4 DEF IInv, PulseStands, HandlerNotReached, inputs
<1> QED
  BY <1>2, <1>3, <1>5 DEF IInv

\* The way out without it.
LEMMA HandlerFailKeepsIInv ==
  ASSUME IInv, NEW c \in Ctl, HandlerFail(c)
  PROVE  IInv'
<1>1. mms.ctl = c /\ mms # InLoop
  BY DEF HandlerFail, TestingBad, InLoop
<1>2. TypeOK' /\ InHandler' /\ CounterReset'
  BY MaxWaitAssumption
  DEF IInv, TypeOK, InHandler, CounterReset, HandlerFail, Return, inputs, InLoop
<1>3. CounterStartsAtZero' /\ FailureTakesPulsesBack'
  BY DEF IInv, TypeOK, CounterStartsAtZero, FailureTakesPulsesBack, HandlerFail,
         Return, inputs
<1>4. \A d \in Ctl : Executing(d)' => d # c /\ Executing(d)
  BY <1>1 DEF Executing, HandlerFail, Return, inputs, IInv, TypeOK, InLoop
<1>5. PulseStands'
  BY <1>4 DEF IInv, TypeOK, PulseStands, HandlerFail, Return, inputs
<1> QED
  BY <1>2, <1>3, <1>5 DEF IInv

\* No way out yet: the counter stays below its bound.
LEMMA HandlerWaitKeepsIInv ==
  ASSUME IInv, NEW c \in Ctl, HandlerWait(c)
  PROVE  IInv'
<1>1. mms.ctl = c /\ mms # InLoop /\ control[c] # "idle"
  BY DEF HandlerWait, TestingBad, InLoop, IInv, InHandler
<1>2. timeout[c] + 1 \in 0 .. MaxWait - 1
  BY MaxWaitAssumption DEF HandlerWait, GivesUp, IInv, TypeOK
<1>3. TypeOK' /\ InHandler' /\ CounterReset'
  BY <1>2
  DEF IInv, TypeOK, InHandler, CounterReset, HandlerWait, inputs, InLoop
<1>4. CounterStartsAtZero' /\ FailureTakesPulsesBack'
  BY <1>1 DEF IInv, TypeOK, CounterStartsAtZero, FailureTakesPulsesBack, HandlerWait, inputs
<1>5. \A d \in Ctl : Executing(d)' => Executing(d)
  BY <1>1 DEF Executing, HandlerWait, inputs, IInv, TypeOK
<1>6. PulseStands'
  BY <1>5 DEF IInv, PulseStands, HandlerWait, inputs
<1> QED
  BY <1>3, <1>4, <1>6 DEF IInv

-----------------------------------------------------------------------------
LEMMA NextKeepsIInv == IInv /\ [Next]_vars => IInv'
<1> SUFFICES ASSUME IInv, [Next]_vars PROVE IInv'
  OBVIOUS
<1>1. CASE Next
  <2> PICK c \in Ctl :
        \/ \E p \in Dbpos : CSWI_currentValue_callback(c, p)
        \/ \E v \in BOOLEAN : \/ CSWI_EnaOpn_callback(c, v)
                              \/ CSWI_EnaCls_callback(c, v)
                              \/ CSWI_Loc_callback(c, v)
        \/ \E g \in Goal : checkHandler(c, g)
        \/ HandlerPulse(c)
        \/ Handler(c)
    BY <1>1 DEF Next
  <2> QED
    BY InputKeepsIInv, checkHandlerKeepsIInv, HandlerPulseKeepsIInv,
       HandlerReachedKeepsIInv, HandlerReleaseKeepsIInv, HandlerNotReachedKeepsIInv,
       HandlerFailKeepsIInv, HandlerWaitKeepsIInv
    DEF Handler
<1>2. CASE UNCHANGED vars
  BY <1>2
  DEF vars, IInv, TypeOK, InHandler, CounterReset, PulseStands, Executing,
      CounterStartsAtZero, FailureTakesPulsesBack
<1> QED
  BY <1>1, <1>2

\* The inductive invariant holds in every reachable state.
THEOREM Invariance == Spec => []IInv
BY InitIInv, NextKeepsIInv, PTL DEF Spec

\* From the first call of the control handler to the last the pulse of the
\* control stands (controlHandlerForBinaryOutput, pulseOp).
THEOREM PulseStandsAlways == Spec => []PulseStands
BY Invariance, PTL DEF IInv

\* Every way out of the handler leaves the counter at zero, so that the next
\* control gives its pulse and has its full waiting time.
THEOREM CounterClean == Spec => []CounterStartsAtZero
BY Invariance, PTL DEF IInv

\* A control that failed leaves no pulse standing.
THEOREM NothingLeftBehind == Spec => []FailureTakesPulsesBack
BY Invariance, PTL DEF IInv

=============================================================================
