----------------------------- MODULE PTOCProofs -----------------------------
(***************************************************************************)
(* The operate times of the overcurrent protection, for any channels,      *)
(* curves, reset delay and times between the samples, and whatever malloc  *)
(* left in the fields that PTOC_init does not set.                         *)
(*                                                                         *)
(* The progress of a channel lies between two lines: it grows at least as  *)
(* fast as the longest operate time asks for and at most as fast as the    *)
(* shortest.  That the history "above" is forgotten together with the      *)
(* progress needs the relation between reset_timer and the time below.     *)
(* The lines are those of the settled channels; that the reset timer is    *)
(* right while a channel has been below for less than RsDlTmms holds for   *)
(* every channel, because a current above pickup sets it to 0.             *)
(***************************************************************************)
EXTENDS PTOC, TLAPS

\* Before the first call nothing has been above pickup.
Fresh == ~prevTime => \A c \in Channel : below[c] = RsDlTmms

\* The reset timer tells the time below pickup until that is the reset delay;
\* then a settled channel has nothing left to reset.
ResetTimerRight ==
  \A c \in Channel : IF below[c] < RsDlTmms THEN reset_timer[c] = below[c]
                     ELSE above[c] = 0 /\ (c \in settled => progress[c] = 0)

\* The two lines.
FastEnough == \A c \in settled : above[c] * Unit <= progress[c] * MaxOpTmms
NotTooFast == \A c \in settled : progress[c] * MinOpTmms <= above[c] * Unit

\* A channel that is above pickup with its progress complete has tripped.
CompleteTrips == \A c \in Channel : below[c] = 0 /\ progress[c] >= Unit => trip

IInv ==
  /\ TypeOK /\ Fresh /\ ResetTimerRight /\ FastEnough /\ NotTooFast
  /\ CompleteTrips /\ TripIsEarned

-----------------------------------------------------------------------------
\* What a current adds for each millisecond.
LEMMA Rate ==
  ASSUME NEW l \in Level
  PROVE  /\ Unit \div OperateTime[l] \in Nat
         /\ (Unit \div OperateTime[l]) * MaxOpTmms >= Unit
         /\ (Unit \div OperateTime[l]) * MinOpTmms <= Unit
         /\ MinOpTmms <= MaxOpTmms
<1> DEFINE t == OperateTime[l]
           r == Unit \div t
<1>1. t \in Nat \ {0} /\ MinOpTmms <= t /\ t <= MaxOpTmms
  BY PTOCAssumption
<1>2. Unit \in Nat /\ Unit % t = 0 /\ MinOpTmms \in Nat /\ MaxOpTmms \in Nat
  BY PTOCAssumption
<1> HIDE DEF t
<1>3. r \in Nat /\ r * t = Unit
  BY <1>1, <1>2
<1> HIDE DEF r
<1>4. r * t <= r * MaxOpTmms /\ r * MinOpTmms <= r * t
  BY <1>1, <1>2, <1>3
<1> QED
  BY <1>1, <1>2, <1>3, <1>4 DEF r, t

\* A sample above pickup keeps progress and time between the two lines.
LEMMA BetweenTheLines ==
  ASSUME NEW p \in 0..Unit, NEW a \in 0..MaxOpTmms, NEW d \in Nat, NEW l \in Level,
         a * Unit <= p * MaxOpTmms, p * MinOpTmms <= a * Unit
  PROVE  LET p2 == AtMost(Plus(p, d * (Unit \div OperateTime[l])), Unit)
             a2 == AtMost(a + d, MaxOpTmms)
         IN  /\ p2 \in 0..Unit /\ a2 \in 0..MaxOpTmms
             /\ a2 * Unit <= p2 * MaxOpTmms /\ p2 * MinOpTmms <= a2 * Unit
<1> DEFINE r == Unit \div OperateTime[l]
<1>1. r \in Nat /\ r * MaxOpTmms >= Unit /\ r * MinOpTmms <= Unit /\ MinOpTmms <= MaxOpTmms
  BY Rate
<1>2. Unit \in Nat /\ MinOpTmms \in Nat /\ MaxOpTmms \in Nat
  BY PTOCAssumption
<1> HIDE DEF r
<1>3. d * (r * MaxOpTmms) >= d * Unit /\ d * (r * MinOpTmms) <= d * Unit
  BY <1>1, <1>2
<1>4. (p + d * r) * MaxOpTmms >= (a + d) * Unit
  <2>1. (p + d * r) * MaxOpTmms = p * MaxOpTmms + d * (r * MaxOpTmms)
    BY <1>1, <1>2
  <2>2. (a + d) * Unit = a * Unit + d * Unit
    BY <1>2
  <2> QED
    BY <1>1, <1>2, <1>3, <2>1, <2>2
<1>5. (p + d * r) * MinOpTmms <= (a + d) * Unit
  <2>1. (p + d * r) * MinOpTmms = p * MinOpTmms + d * (r * MinOpTmms)
    BY <1>1, <1>2
  <2>2. (a + d) * Unit = a * Unit + d * Unit
    BY <1>2
  <2> QED
    BY <1>1, <1>2, <1>3, <2>1, <2>2
<1> DEFINE p2 == AtMost(p + d * r, Unit)
           a2 == AtMost(a + d, MaxOpTmms)
<1>6. d * r \in Nat
  BY <1>1
<1>7. p2 \in 0..Unit /\ a2 \in 0..MaxOpTmms
  BY <1>2, <1>6 DEF AtMost
<1>8. a2 * Unit <= p2 * MaxOpTmms
  <2>1. CASE p + d * r > Unit
    <3>1. p2 = Unit /\ a2 <= MaxOpTmms /\ a2 \in Nat
      BY <1>2, <1>6, <1>7, <2>1 DEF AtMost
    <3> HIDE DEF a2, p2
    <3> QED
      BY <1>2, <3>1
  <2>2. CASE ~(p + d * r > Unit)
    <3>1. p2 = p + d * r /\ a2 <= a + d /\ a2 \in Nat
      BY <1>2, <1>6, <1>7, <2>2 DEF AtMost
    <3> HIDE DEF a2, p2
    <3>2. a2 * Unit <= (a + d) * Unit
      BY <1>2, <3>1
    <3>3. a2 * Unit \in Nat /\ (a + d) * Unit \in Nat /\ (p + d * r) * MaxOpTmms \in Nat
      BY <1>2, <1>6, <3>1
    <3> QED
      BY <1>4, <3>1, <3>2, <3>3
  <2> QED
    BY <2>1, <2>2
<1>9. p2 * MinOpTmms <= a2 * Unit
  <2>1. CASE a + d > MaxOpTmms
    <3>1. a2 = MaxOpTmms /\ p2 <= Unit /\ p2 \in Nat
      BY <1>2, <1>6, <1>7, <2>1 DEF AtMost
    <3> HIDE DEF a2, p2
    <3>2. p2 * MinOpTmms <= Unit * MinOpTmms /\ Unit * MinOpTmms <= Unit * MaxOpTmms
      BY <1>1, <1>2, <3>1
    <3>3. /\ p2 * MinOpTmms \in Nat /\ Unit * MinOpTmms \in Nat
          /\ Unit * MaxOpTmms = MaxOpTmms * Unit /\ Unit * MaxOpTmms \in Nat
      BY <1>2, <3>1
    <3> QED
      BY <3>1, <3>2, <3>3
  <2>2. CASE ~(a + d > MaxOpTmms)
    <3>1. a2 = a + d /\ p2 <= p + d * r /\ p2 \in Nat
      BY <1>2, <1>6, <1>7, <2>2 DEF AtMost
    <3> HIDE DEF a2, p2
    <3>2. p2 * MinOpTmms <= (p + d * r) * MinOpTmms
      BY <1>2, <1>6, <3>1
    <3>3. p2 * MinOpTmms \in Nat /\ (p + d * r) * MinOpTmms \in Nat /\ (a + d) * Unit \in Nat
      BY <1>2, <1>6, <3>1
    <3> QED
      BY <1>5, <3>1, <3>2, <3>3
  <2> QED
    BY <2>1, <2>2
<1>10. Plus(p, d * r) = p + d * r
  BY <1>2, PTOCAssumption DEF Plus
<1> QED
  BY <1>7, <1>8, <1>9, <1>10 DEF r

-----------------------------------------------------------------------------
LEMMA InitIInv == Init => IInv
<1> SUFFICES ASSUME Init PROVE IInv
  OBVIOUS
<1>1. /\ Unit \in Nat \ {0} /\ MinOpTmms \in Nat \ {0} /\ MaxOpTmms \in Nat
      /\ RsDlTmms \in Nat \ {0} /\ InitialProgress \subseteq Int /\ InitialTimers \subseteq Int
  BY PTOCAssumption
<1>2. trip = FALSE /\ Op_general = FALSE /\ prevTime = FALSE
  BY DEF Init
<1>3. /\ progress \in [Channel -> Int] /\ reset_timer \in [Channel -> Int]
      /\ above \in [Channel -> 0..MaxOpTmms] /\ below \in [Channel -> 0..RsDlTmms]
      /\ settled = {c \in Channel : progress[c] = 0}
  <2>1. progress \in [Channel -> Int]
    BY <1>1 DEF Init
  <2>2. reset_timer \in [Channel -> Int]
    BY <1>1 DEF Init
  <2> QED
    BY <1>1, <2>1, <2>2 DEF Init
<1>4. TypeOK
  <2>1. settled \subseteq Channel /\ \A c \in settled : progress[c] \in 0..Unit
    BY <1>1, <1>3
  <2> QED
    BY <1>2, <1>3, <2>1 DEF TypeOK
<1>5. \A c \in Channel : above[c] = 0 /\ below[c] = RsDlTmms /\ (c \in settled => progress[c] = 0)
  BY <1>3 DEF Init
<1> QED
  BY <1>1, <1>2, <1>3, <1>4, <1>5
  DEF IInv, Fresh, ResetTimerRight, FastEnough, NotTooFast, CompleteTrips, TripIsEarned

\* What a sample adds to a leftover is a number, and so is the progress.
LEMMA PlusType ==
  ASSUME NEW n \in Int, NEW d \in Int
  PROVE  Plus(n, d) \in Int /\ (n >= 0 => Plus(n, d) = n + d) /\ AtMost(n, d) \in Int
BY PTOCAssumption DEF Plus, AtMost

\* What one call of the callback makes of the times of one channel.
LEMMA TimerStep ==
  ASSUME IInv, NEW I \in [Channel -> Level \cup {Below}], NEW delta \in Nat,
         prevTime => delta > 0,
         PTOC_callback_SMV(I, delta), NEW c \in Channel
  PROVE  /\ reset_timer'[c] \in Int /\ progress'[c] \in Int
         /\ above'[c] \in 0..MaxOpTmms /\ below'[c] \in 0..RsDlTmms
         /\ below'[c] < RsDlTmms => reset_timer'[c] = below'[c]
         /\ ~(below'[c] < RsDlTmms) => above'[c] = 0
         /\ below'[c] = 0 => I[c] # Below
         /\ Resets(c, I, delta) => below'[c] = RsDlTmms /\ progress'[c] = 0
         /\ below[c] < RsDlTmms /\ ~Resets(c, I, delta) => below'[c] < RsDlTmms
         /\ above[c] >= MinOpTmms /\ ~Resets(c, I, delta) => above'[c] >= MinOpTmms
         /\ progress'[c] = Progress(c, I, delta)
<1>1. /\ Unit \in Nat \ {0} /\ MinOpTmms \in Nat \ {0} /\ MaxOpTmms \in Nat
      /\ RsDlTmms \in Nat \ {0}
  BY PTOCAssumption
<1>2. /\ progress[c] \in Int /\ reset_timer[c] \in Int
      /\ above[c] \in 0..MaxOpTmms /\ below[c] \in 0..RsDlTmms
      /\ below[c] < RsDlTmms => reset_timer[c] = below[c]
      /\ ~(below[c] < RsDlTmms) => above[c] = 0
      /\ ~prevTime => below[c] = RsDlTmms
  BY DEF IInv, TypeOK, ResetTimerRight, Fresh
<1>3. /\ progress'[c] = Progress(c, I, delta)
      /\ reset_timer'[c] = ResetTimer(c, I, delta)
      /\ below'[c] = IF I[c] = Below THEN AtMost(below[c] + delta, RsDlTmms) ELSE 0
      /\ above'[c] = IF I[c] # Below THEN AtMost(above[c] + delta, MaxOpTmms)
                     ELSE IF below'[c] >= RsDlTmms THEN 0 ELSE above[c]
  BY DEF PTOC_callback_SMV
<1>4. CASE I[c] # Below
  <2>1. I[c] \in Level /\ ~Resets(c, I, delta)
    BY <1>4 DEF Resets
  <2>2. /\ progress'[c] = AtMost(Plus(progress[c], delta * (Unit \div OperateTime[I[c]])), Unit)
        /\ reset_timer'[c] = 0 /\ below'[c] = 0
        /\ above'[c] = AtMost(above[c] + delta, MaxOpTmms)
    BY <1>3, <1>4 DEF Progress, ResetTimer
  <2>3. MinOpTmms <= MaxOpTmms /\ delta * (Unit \div OperateTime[I[c]]) \in Int
    BY <2>1, Rate
  <2>4. progress'[c] \in Int
    <3>1. Plus(progress[c], delta * (Unit \div OperateTime[I[c]])) \in Int
      BY <1>2, <2>3, PlusType
    <3> QED
      BY <1>1, <2>2, <3>1, PlusType
  <2>5. above'[c] \in 0..MaxOpTmms /\ (above[c] >= MinOpTmms => above'[c] >= MinOpTmms)
    BY <1>1, <1>2, <2>2, <2>3 DEF AtMost
  <2> QED
    BY <1>1, <1>3, <1>4, <2>1, <2>2, <2>4, <2>5
<1>5. CASE I[c] = Below /\ Resets(c, I, delta)
  <2>1. progress'[c] = 0 /\ reset_timer'[c] = 0
    BY <1>3, <1>5 DEF Progress, ResetTimer
  <2>2. CASE below[c] < RsDlTmms
    <3>1. Plus(reset_timer[c], delta) = below[c] + delta
      BY <1>1, <1>2, <2>2, PlusType
    <3>2. below[c] + delta >= RsDlTmms
      BY <1>5, <3>1 DEF Resets
    <3> QED
      BY <1>1, <1>2, <1>3, <1>5, <2>1, <3>2 DEF AtMost
  <2>3. CASE ~(below[c] < RsDlTmms)
    BY <1>1, <1>2, <1>3, <1>5, <2>1, <2>3 DEF AtMost
  <2> QED
    BY <2>2, <2>3
<1>6. CASE I[c] = Below /\ ~Resets(c, I, delta)
  <2>1. progress'[c] = progress[c] /\ reset_timer'[c] = Plus(reset_timer[c], delta)
    BY <1>3, <1>6 DEF Progress, ResetTimer
  <2>2. CASE below[c] < RsDlTmms
    <3>1. Plus(reset_timer[c], delta) = below[c] + delta
      BY <1>1, <1>2, <2>2, PlusType
    <3>2. below[c] + delta < RsDlTmms
      BY <1>1, <1>2, <1>6, <3>1 DEF Resets
    <3>3. below'[c] = below[c] + delta /\ above'[c] = above[c] /\ below'[c] # 0
      BY <1>1, <1>2, <1>3, <1>6, <2>2, <3>2 DEF AtMost
    <3> QED
      BY <1>1, <1>2, <1>3, <1>6, <2>1, <3>1, <3>2, <3>3
  <2>3. CASE ~(below[c] < RsDlTmms)
    <3>1. below'[c] = RsDlTmms /\ above'[c] = 0 /\ above[c] = 0
      BY <1>1, <1>2, <1>3, <1>6, <2>3 DEF AtMost
    <3>2. Plus(reset_timer[c], delta) \in Int
      BY <1>2, PlusType
    <3> QED
      BY <1>1, <1>2, <1>3, <1>6, <2>1, <2>3, <3>1, <3>2
  <2> QED
    BY <2>2, <2>3
<1> QED
  BY <1>4, <1>5, <1>6

\* A settled channel stays between the two lines.
LEMMA LineStep ==
  ASSUME IInv, NEW I \in [Channel -> Level \cup {Below}], NEW delta \in Nat,
         prevTime => delta > 0,
         PTOC_callback_SMV(I, delta), NEW c \in settled'
  PROVE  /\ c \in Channel /\ progress'[c] \in 0..Unit
         /\ ~(below'[c] < RsDlTmms) => progress'[c] = 0
         /\ above'[c] * Unit <= progress'[c] * MaxOpTmms
         /\ progress'[c] * MinOpTmms <= above'[c] * Unit
<1>1. /\ Unit \in Nat \ {0} /\ MinOpTmms \in Nat \ {0} /\ MaxOpTmms \in Nat
      /\ RsDlTmms \in Nat \ {0}
  BY PTOCAssumption
<1>2. c \in Channel /\ (c \in settled \/ Resets(c, I, delta))
  BY DEF PTOC_callback_SMV, IInv, TypeOK
<1>3. CASE Resets(c, I, delta)
  <2>1. progress'[c] = 0 /\ above'[c] = 0
    BY <1>1, <1>2, <1>3, TimerStep
  <2> QED
    BY <1>1, <1>2, <2>1
<1>4. CASE c \in settled /\ ~Resets(c, I, delta)
  <2>1. /\ progress[c] \in 0..Unit /\ above[c] \in 0..MaxOpTmms
        /\ above[c] * Unit <= progress[c] * MaxOpTmms
        /\ progress[c] * MinOpTmms <= above[c] * Unit
        /\ ~(below[c] < RsDlTmms) => progress[c] = 0 /\ above[c] = 0
    BY <1>2, <1>4 DEF IInv, TypeOK, ResetTimerRight, FastEnough, NotTooFast
  <2>2. /\ progress'[c] = Progress(c, I, delta)
        /\ above'[c] = IF I[c] # Below THEN AtMost(above[c] + delta, MaxOpTmms)
                       ELSE IF below'[c] >= RsDlTmms THEN 0 ELSE above[c]
        /\ I[c] # Below => below'[c] = 0
    BY <1>2 DEF PTOC_callback_SMV
  <2>3. CASE I[c] # Below
    <3>1. I[c] \in Level
      BY <1>2, <2>3
    <3>2. /\ progress'[c] = AtMost(Plus(progress[c], delta * (Unit \div OperateTime[I[c]])), Unit)
          /\ above'[c] = AtMost(above[c] + delta, MaxOpTmms)
      BY <2>2, <2>3 DEF Progress
    <3>3. /\ progress'[c] \in 0..Unit
          /\ above'[c] * Unit <= progress'[c] * MaxOpTmms
          /\ progress'[c] * MinOpTmms <= above'[c] * Unit
      BY <2>1, <3>1, <3>2, BetweenTheLines
    <3> QED
      BY <1>1, <1>2, <2>2, <2>3, <3>3
  <2>4. CASE I[c] = Below
    <3>1. progress'[c] = progress[c]
      BY <1>4, <2>2, <2>4 DEF Progress
    <3>2. above'[c] = above[c]
      BY <1>1, <1>2, <1>4, <2>1, <2>2, <2>4, TimerStep DEF IInv, TypeOK
    <3>3. ~(below'[c] < RsDlTmms) => ~(below[c] < RsDlTmms)
      BY <1>2, <1>4, TimerStep
    <3> QED
      BY <1>2, <2>1, <3>1, <3>2, <3>3
  <2> QED
    BY <2>3, <2>4
<1> QED
  BY <1>2, <1>3, <1>4

LEMMA CallbackKeepsIInv ==
  ASSUME IInv, NEW I \in [Channel -> Level \cup {Below}], NEW delta \in Nat,
         prevTime => delta > 0,
         PTOC_callback_SMV(I, delta)
  PROVE  IInv'
<1>1. trip' \in BOOLEAN /\ Op_general' = trip' /\ prevTime' = TRUE
  BY DEF PTOC_callback_SMV, Trip, IInv, TypeOK
<1>2. /\ progress' \in [Channel -> Int] /\ reset_timer' \in [Channel -> Int]
      /\ above' \in [Channel -> 0..MaxOpTmms] /\ below' \in [Channel -> 0..RsDlTmms]
  <2>1. /\ progress' = [c \in Channel |-> progress'[c]]
        /\ reset_timer' = [c \in Channel |-> reset_timer'[c]]
        /\ above' = [c \in Channel |-> above'[c]]
        /\ below' = [c \in Channel |-> below'[c]]
    BY DEF PTOC_callback_SMV
  <2>2. \A c \in Channel :
          /\ progress'[c] \in Int /\ reset_timer'[c] \in Int
          /\ above'[c] \in 0..MaxOpTmms /\ below'[c] \in 0..RsDlTmms
    BY TimerStep
  <2> QED
    BY <2>1, <2>2
<1>3. TypeOK' /\ Fresh'
  <2>1. settled' \subseteq Channel /\ \A c \in settled' : progress'[c] \in 0..Unit
    BY LineStep
  <2> QED
    BY <1>1, <1>2, <2>1 DEF TypeOK, Fresh
<1>4. ResetTimerRight' /\ FastEnough' /\ NotTooFast'
  BY TimerStep, LineStep DEF ResetTimerRight, FastEnough, NotTooFast
<1>5. CompleteTrips'
  <2> SUFFICES ASSUME NEW c \in Channel, below'[c] = 0, progress'[c] >= Unit
               PROVE  trip'
    BY DEF CompleteTrips
  <2>1. Trips(c, I, delta)
    BY TimerStep DEF Trips
  <2> QED
    BY <2>1 DEF PTOC_callback_SMV, Trip
<1>6. TripIsEarned'
  <2> DEFINE Witness(c) == \/ above'[c] >= MinOpTmms
                           \/ c \notin settled' /\ below'[c] < RsDlTmms
  <2> SUFFICES ASSUME trip' PROVE \E c \in Channel : Witness(c)
    BY <1>1 DEF TripIsEarned
  <2>1. CASE \E c \in Channel : Trips(c, I, delta)
    <3>1. PICK c \in Channel : Trips(c, I, delta)
      BY <2>1
    <3>2. CASE c \in settled'
      <4>1. progress'[c] = Unit
        BY <3>1, <3>2, TimerStep, LineStep, PTOCAssumption DEF Trips
      <4>2. Unit * MinOpTmms <= above'[c] * Unit /\ above'[c] \in Nat
        BY <3>2, <4>1, TimerStep, LineStep, PTOCAssumption
      <4>3. above'[c] >= MinOpTmms
        BY <4>2, PTOCAssumption
      <4> QED
        BY <4>3
    <3>3. CASE c \notin settled'
      <4>1. below'[c] = 0
        BY <3>1 DEF PTOC_callback_SMV, Trips
      <4> QED
        BY <3>3, <4>1, PTOCAssumption
    <3> QED
      BY <3>2, <3>3
  <2>2. CASE trip /\ ~ \E c \in Channel : Resets(c, I, delta)
    <3>1. PICK c \in Channel : \/ above[c] >= MinOpTmms
                               \/ c \notin settled /\ below[c] < RsDlTmms
      BY <2>2 DEF IInv, TypeOK, TripIsEarned
    <3>2. settled' = settled
      BY <2>2 DEF PTOC_callback_SMV
    <3> QED
      BY <2>2, <3>1, <3>2, TimerStep
  <2> QED
    BY <2>1, <2>2 DEF PTOC_callback_SMV, Trip
<1> QED
  BY <1>3, <1>4, <1>5, <1>6 DEF IInv

LEMMA NextKeepsIInv == IInv /\ [Next]_vars => IInv'
<1>1. ASSUME IInv, Next PROVE IInv'
  <2>1. PICK I \in [Channel -> Level \cup {Below}],
             delta \in IF prevTime THEN Deltas ELSE FirstDeltas :
          PTOC_callback_SMV(I, delta)
    BY <1>1 DEF Next
  <2>2. delta \in Nat /\ (prevTime => delta > 0)
    BY PTOCAssumption
  <2> QED
    BY <1>1, <2>1, <2>2, CallbackKeepsIInv
<1>2. IInv /\ UNCHANGED vars => IInv'
  BY DEF vars, IInv, TypeOK, Fresh, ResetTimerRight, FastEnough, NotTooFast,
         CompleteTrips, TripIsEarned
<1> QED
  BY <1>1, <1>2

\* The inductive invariant holds in every reachable state.
THEOREM Invariance == Spec => []IInv
BY InitIInv, NextKeepsIInv, PTL DEF Spec

\* The variables keep their types, and Op.general is always what trip says.
THEOREM TypeCorrect == Spec => []TypeOK
BY Invariance, PTL DEF IInv

\* A settled channel that is above pickup for MaxOpTmms trips, whatever its
\* curve, the other channels and short dips make of it (PTOC_Update_algorithm).
THEOREM TripsInTimeAlways == Spec => []TripsInTime
<1>1. IInv => TripsInTime
  <2> SUFFICES ASSUME IInv, NEW c \in settled, below[c] = 0, above[c] >= MaxOpTmms
               PROVE  trip
    BY DEF TripsInTime, IInv, TypeOK
  <2>1. c \in Channel /\ above[c] \in 0..MaxOpTmms /\ progress[c] \in 0..Unit
    BY DEF IInv, TypeOK
  <2>2. above[c] = MaxOpTmms
    BY <2>1, PTOCAssumption
  <2>3. MaxOpTmms * Unit <= progress[c] * MaxOpTmms
    BY <2>1, <2>2 DEF IInv, FastEnough
  <2>4. progress[c] >= Unit
    BY <2>1, <2>3, PTOCAssumption
  <2> QED
    BY <2>1, <2>4 DEF IInv, CompleteTrips
<1> QED
  BY <1>1, Invariance, PTL

\* A channel that is settled is not the reason of a trip before MinOpTmms above
\* pickup (PTOC_Update_algorithm, PTOC_callback_SMV).
THEOREM TripIsEarnedAlways == Spec => []TripIsEarned
BY Invariance, PTL DEF IInv
=============================================================================
