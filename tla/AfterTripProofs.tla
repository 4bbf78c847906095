------------------------- MODULE AfterTripProofs -------------------------
(***************************************************************************)
(* The two nodes that a trip sets to work, the recloser and the recorder.  *)
(*                                                                         *)
(* The shots of the recloser, for any pauses, any number of shots, any     *)
(* number of threads asleep and any int in tripCount at the start.  Nothing in the code keeps two of its threads *)
(* from waking together; what keeps a trip from being answered twice is    *)
(* the drive of the breaker: between two openings it has travelled for a   *)
(* tick at least, so that no two threads of RREC_recloser_timer have the   *)
(* same time left to sleep.  A close command is therefore counted before   *)
(* the next one can be given.                                              *)
(*                                                                         *)
(* The files of the recorder, for a ring of any size and any number of     *)
(* samples: at every access of its thread the slots are in the order of    *)
(* their samples, when they are read from the right one on.                *)
(***************************************************************************)
EXTENDS RREC, RDRE, SequenceTheorems, TLAPS

USE DEF history

Fits(s, d) == s \in Seq(0..d) /\ Len(s) <= MaxTimers
Sorted(s) == \A i, j \in 1..Len(s) : i <= j => s[i] <= s[j]
Increasing(s) == \A i, j \in 1..Len(s) : i < j => s[i] < s[j]

Types ==
  /\ pos \in Dbpos /\ travelled \in BOOLEAN
  /\ tripstate \in 0..2 /\ tripCount \in Int
  /\ shots \in Nat /\ leftover \in InitialCount \cup {0} /\ leftover \in Int
  /\ Fits(recloser, RREC_Timer) /\ Increasing(recloser)
  /\ Fits(timeout, RREC_Timeout) /\ Sorted(timeout)
  /\ Fits(rearm, RREC_RearmTimer) /\ Sorted(rearm)

\* The breaker has been off in this tick, and has not come back.
Left == pos = "off" \/ (pos = "intermediate" /\ ~travelled)

\* A thread that has not slept a tick was started by an opening in this one.
JustOpened == \A i \in 1..Len(recloser) : recloser[i] = RREC_Timer => Left

\* A close command that is not counted yet is the only one, its trip is not
\* over, and no other thread wakes in this tick.
OneClosing ==
  /\ closing \in {0, 1}
  /\ closing = 1 => /\ tripstate = 2 /\ Left
                    /\ \A i \in 1..Len(recloser) : recloser[i] > 0

\* A trip that is being answered has a shot left.
ShotLeft == tripstate = 2 => tripCount < RREC_MAX_TripCnt

\* The close commands are exactly those counted, from what malloc left on, until
\* the recloser locks.
Counted == tripCount = RREC_MAX_TripCnt + 1 \/ shots + leftover = tripCount + closing

\* Only malloc leaves a higher count than the one that locks.
HighCount == tripCount > RREC_MAX_TripCnt + 1 => tripCount = leftover

Counts == Counted /\ HighCount /\ ShotsLimited /\ LocksAfterShots

IInv == Types /\ JustOpened /\ OneClosing /\ ShotLeft /\ Counts

-----------------------------------------------------------------------------
(* The sleeping threads of one kind.                                       *)

LEMMA Asleep == Fits(<<>>, 0) /\ \A d \in Nat : Fits(<<>>, d)
BY TimerAssumption DEF Fits

\* A thread more, with the longest sleep.
LEMMA OneMore ==
  ASSUME NEW d \in Nat, NEW s, Fits(s, d), Len(s) < MaxTimers
  PROVE  /\ Fits(Append(s, d), d)
         /\ Sorted(s) => Sorted(Append(s, d))
         /\ Increasing(s) /\ (\A i \in 1..Len(s) : s[i] # d) => Increasing(Append(s, d))
         /\ Len(Append(s, d)) = Len(s) + 1
         /\ \A i \in 1..Len(s) + 1 : Append(s, d)[i] = IF i <= Len(s) THEN s[i] ELSE d
<1>1. /\ Append(s, d) \in Seq(0..d)
      /\ Len(Append(s, d)) = Len(s) + 1 /\ Len(s) \in Nat
      /\ \A i \in 1..Len(s) : s[i] \in 0..d
      /\ \A i \in 1..Len(s) + 1 : Append(s, d)[i] = IF i <= Len(s) THEN s[i] ELSE d
  BY DEF Fits
<1>2. MaxTimers \in Nat
  BY TimerAssumption
<1>3. Fits(Append(s, d), d)
  BY <1>1, <1>2 DEF Fits
<1> DEFINE t == Append(s, d)
<1>4. Len(t) = Len(s) + 1 /\ \A i \in 1..Len(t) : t[i] = IF i <= Len(s) THEN s[i] ELSE d
  BY <1>1
<1> HIDE DEF t
<1>5. Sorted(s) => Sorted(t)
  BY <1>1, <1>4 DEF Sorted
<1>6. Increasing(s) /\ (\A i \in 1..Len(s) : s[i] # d) => Increasing(t)
  BY <1>1, <1>4 DEF Increasing
<1> QED
  BY <1>1, <1>3, <1>5, <1>6 DEF t

\* The oldest wakes.
LEMMA OneLess ==
  ASSUME NEW d \in Nat, NEW s, Fits(s, d), s # <<>>
  PROVE  /\ Fits(Tail(s), d)
         /\ Sorted(s) => Sorted(Tail(s))
         /\ Increasing(s) => Increasing(Tail(s))
         /\ Increasing(s) => \A i \in 1..Len(Tail(s)) : Tail(s)[i] > 0
         /\ \A i \in 1..Len(Tail(s)) : i + 1 \in 1..Len(s) /\ Tail(s)[i] = s[i + 1]
<1>1. /\ Tail(s) \in Seq(0..d)
      /\ Len(Tail(s)) = Len(s) - 1 /\ Len(s) \in Nat \ {0}
      /\ \A i \in 1..Len(s) : s[i] \in 0..d
      /\ \A i \in 1..Len(Tail(s)) : i + 1 \in 1..Len(s) /\ Tail(s)[i] = s[i + 1]
  BY DEF Fits
<1>2. Increasing(s) => \A i \in 1..Len(Tail(s)) : Tail(s)[i] > 0
  BY <1>1 DEF Increasing
<1> QED
  BY <1>1, <1>2, TimerAssumption DEF Fits, Sorted, Increasing

\* All sleep a tick, the oldest of them had one left.
LEMMA AllSleep ==
  ASSUME NEW d \in Nat, NEW s, Fits(s, d), s # <<>> => Head(s) > 0, Sorted(s)
  PROVE  /\ Fits(Sleep(s), d) /\ Sorted(Sleep(s))
         /\ Increasing(s) => Increasing(Sleep(s))
         /\ \A i \in 1..Len(Sleep(s)) : Sleep(s)[i] < d
<1>1. /\ Len(s) \in Nat /\ DOMAIN s = 1..Len(s)
      /\ \A i \in 1..Len(s) : s[i] \in 0..d
      /\ Len(s) > 0 => s[1] > 0
  BY DEF Fits
<1>2. \A i \in 1..Len(s) : s[i] - 1 \in 0..d /\ s[i] - 1 < d
  BY <1>1 DEF Sorted
<1>3. Sleep(s) \in Seq(0..d) /\ Len(Sleep(s)) = Len(s)
  BY <1>1, <1>2 DEF Sleep
<1>4. \A i \in 1..Len(s) : Sleep(s)[i] = s[i] - 1
  BY <1>1 DEF Sleep
<1>5. Fits(Sleep(s), d)
  BY <1>3 DEF Fits
<1>6. Sorted(Sleep(s)) /\ (Increasing(s) => Increasing(Sleep(s)))
  <2>1. \A i, j \in 1..Len(Sleep(s)) :
          /\ s[i] <= s[j] => Sleep(s)[i] <= Sleep(s)[j]
          /\ s[i] < s[j] => Sleep(s)[i] < Sleep(s)[j]
    BY <1>1, <1>3, <1>4
  <2> QED
    BY <2>1, <1>3 DEF Sorted, Increasing
<1>7. \A i \in 1..Len(Sleep(s)) : Sleep(s)[i] < d
  BY <1>2, <1>3, <1>4
<1> QED
  BY <1>5, <1>6, <1>7

LEMMA IncreasingIsSorted ==
  ASSUME NEW d \in Nat, NEW s, Fits(s, d), Increasing(s)
  PROVE  Sorted(s)
<1>1. \A i \in 1..Len(s) : s[i] \in 0..d
  BY DEF Fits
<1> QED
  BY <1>1 DEF Sorted, Increasing, Fits

-----------------------------------------------------------------------------
LEMMA InitIInv == Init => IInv
<1>1. Sorted(<<>>) /\ Increasing(<<>>)
  BY DEF Sorted, Increasing
<1>2. Init => Types
  <2> SUFFICES ASSUME Init PROVE Types
    OBVIOUS
  <2>1. /\ pos \in Dbpos /\ travelled \in BOOLEAN
        /\ tripstate \in 0..2
    <3>1. pos \in Dbpos /\ travelled \in BOOLEAN
      BY DEF Init, Dbpos
    <3> QED
      BY <3>1 DEF Init
  <2>2. /\ tripCount \in Int /\ shots \in Nat
        /\ leftover \in InitialCount \cup {0} /\ leftover \in Int
    BY TimerAssumption DEF Init
  <2>3. recloser = <<>> /\ timeout = <<>> /\ rearm = <<>>
    BY DEF Init
  <2>4. {RREC_Timer, RREC_Timeout, RREC_RearmTimer} \subseteq Nat
    BY TimerAssumption
  <2> QED
    BY <1>1, <2>1, <2>2, <2>3, <2>4, Asleep DEF Types
<1> QED
  BY <1>2, TimerAssumption
  DEF Init, IInv, JustOpened, OneClosing, ShotLeft, Counts,
      Counted, HighCount, ShotsLimited, LocksAfterShots

LEMMA TripKeepsIInv == ASSUME IInv, RREC_input_callback PROVE IInv'
<1>1. Types'
  BY OneMore, TimerAssumption DEF IInv, Types, RREC_input_callback, Start, timers
<1> QED
  BY <1>1
  DEF IInv, Types, JustOpened, Left, OneClosing, ShotLeft, Counts,
      Counted, HighCount, ShotsLimited, LocksAfterShots,
      RREC_input_callback

\* The breaker moves.  It opens only after a tick, so no thread of the
\* recloser is as young as the one that is started.
LEMMA PositionKeepsIInv ==
  ASSUME IInv, NEW p \in Dbpos, RREC_xcbr_callback(p)
  PROVE  IInv'
<1>1. Fits(rearm', RREC_RearmTimer) /\ Sorted(rearm')
  BY OneMore, TimerAssumption DEF IInv, Types, RREC_xcbr_callback, Closed, Start
<1>2. CASE tripstate = 1 /\ p = "off" /\ tripCount < RREC_MAX_TripCnt
  <2>1. ~Left
    BY <1>2 DEF RREC_xcbr_callback, Left, Dbpos
  <2>2. /\ Len(recloser) < MaxTimers /\ recloser' = Append(recloser, RREC_Timer)
        /\ tripstate' = 2 /\ tripCount' = tripCount
        /\ pos' = "off" /\ travelled' = FALSE
        /\ UNCHANGED <<timeout, closing, history>>
    BY <1>2 DEF RREC_xcbr_callback, Opened, Start
  <2>3. \A i \in 1..Len(recloser) : recloser[i] # RREC_Timer
    BY <2>1 DEF IInv, JustOpened
  <2>4. Fits(recloser', RREC_Timer) /\ Increasing(recloser')
    BY <2>2, <2>3, OneMore, TimerAssumption DEF IInv, Types
  <2>5. Types'
    <3>1. /\ pos' \in Dbpos /\ travelled' \in BOOLEAN
          /\ tripstate' \in 0..2
      <4>1. pos' \in Dbpos /\ travelled' \in BOOLEAN
        BY <2>2 DEF Dbpos
      <4> QED
        BY <2>2, <4>1
    <3> QED
      BY <1>1, <2>2, <2>4, <3>1 DEF IInv, Types
  <2>6. closing = 0
    BY <1>2 DEF IInv, OneClosing
  <2> QED
    BY <1>2, <2>2, <2>5, <2>6
    DEF IInv, Types, JustOpened, Left, OneClosing, ShotLeft, Counts,
      Counted, HighCount, ShotsLimited, LocksAfterShots
<1>3. CASE tripstate = 1 /\ p = "off" /\ ~(tripCount < RREC_MAX_TripCnt)
  <2>1. /\ tripstate' = 0 /\ tripCount' = RREC_MAX_TripCnt + 1
        /\ pos' = "off" /\ travelled' = FALSE
        /\ UNCHANGED <<recloser, timeout, closing, history>>
    BY <1>3 DEF RREC_xcbr_callback, Opened
  <2>2. closing = 0
    BY <1>3 DEF IInv, OneClosing
  <2>3. Types'
    <3>1. /\ pos' \in Dbpos /\ travelled' \in BOOLEAN
          /\ tripstate' \in 0..2
      <4>1. pos' \in Dbpos /\ travelled' \in BOOLEAN
        BY <2>1 DEF Dbpos
      <4> QED
        BY <2>1, <4>1
    <3>2. tripCount' \in Int
      BY <2>1, TimerAssumption
    <3> QED
      BY <1>1, <2>1, <3>1, <3>2 DEF IInv, Types
  <2>4. JustOpened' /\ OneClosing' /\ ShotLeft'
    BY <2>1, <2>2 DEF JustOpened, Left, OneClosing, ShotLeft
  <2>5. Counts'
    <3>1. shots + leftover >= RREC_MAX_TripCnt
      BY <1>3, <2>2, TimerAssumption DEF IInv, Types, Counts, Counted, LocksAfterShots
    <3> QED
      BY <2>1, <3>1, TimerAssumption
      DEF IInv, Types, Counts, Counted, HighCount, ShotsLimited, LocksAfterShots, history
  <2> QED
    BY <2>3, <2>4, <2>5 DEF IInv
<1>4. CASE ~(tripstate = 1 /\ p = "off")
  <2>1. /\ UNCHANGED <<tripstate, tripCount, recloser, timeout, closing, history>>
        /\ pos' = p /\ travelled' = FALSE
    BY <1>4 DEF RREC_xcbr_callback, Opened
  <2>2. Left => Left'
    BY <2>1 DEF RREC_xcbr_callback, Left
  <2> QED
    BY <1>1, <2>1, <2>2
    DEF IInv, Types, JustOpened, OneClosing, ShotLeft, Counts,
      Counted, HighCount, ShotsLimited, LocksAfterShots
<1> QED
  BY <1>2, <1>3, <1>4

LEMMA RecloseKeepsIInv == ASSUME IInv, Reclose PROVE IInv'
<1>1. /\ Types' /\ \A i \in 1..Len(recloser') : recloser'[i] > 0
      /\ \A i \in 1..Len(recloser') : \E j \in 1..Len(recloser) : recloser'[i] = recloser[j]
  BY OneLess, TimerAssumption DEF IInv, Types, Reclose, Wakes
<1>2. recloser[1] = 0 /\ 1 \in 1..Len(recloser)
  BY DEF Reclose, Wakes, IInv, Types, Fits
<1>3. closing = 0
  BY <1>2 DEF IInv, OneClosing
<1>4. /\ tripCount < RREC_MAX_TripCnt
      /\ shots + 1 + leftover = tripCount + 1 /\ shots + 1 + leftover <= RREC_MAX_TripCnt
  BY <1>3, TimerAssumption DEF Reclose, IInv, Types, ShotLeft, Counts, Counted
<1>5. JustOpened' /\ OneClosing' /\ ShotLeft'
  BY <1>1, <1>3
  DEF Reclose, IInv, Types, JustOpened, Left, OneClosing, ShotLeft
<1>6. Counts'
  BY <1>3, <1>4, TimerAssumption
  DEF Reclose, IInv, Types, Counts, Counted, HighCount, ShotsLimited, LocksAfterShots
<1> QED
  BY <1>1, <1>5, <1>6 DEF IInv

LEMMA RecloseCountKeepsIInv == ASSUME IInv, RecloseCount PROVE IInv'
<1>1. closing = 1 /\ tripCount < RREC_MAX_TripCnt
  BY DEF RecloseCount, IInv, OneClosing, ShotLeft
<1>2. /\ closing' = 0 /\ tripCount' = tripCount + 1 /\ tripstate' = 0
      /\ UNCHANGED <<pos, travelled, recloser, timeout, rearm, shots, leftover>>
  BY <1>1 DEF RecloseCount, timers
<1>3. Types'
  BY <1>2 DEF IInv, Types
<1>4. JustOpened' /\ OneClosing' /\ ShotLeft'
  BY <1>2 DEF IInv, JustOpened, Left, OneClosing, ShotLeft
<1>5. Counts'
  BY <1>1, <1>2, TimerAssumption
  DEF IInv, Types, Counts, Counted, HighCount, ShotsLimited, LocksAfterShots
<1> QED
  BY <1>3, <1>4, <1>5 DEF IInv

LEMMA RecloseNotKeepsIInv == ASSUME IInv, RecloseNot PROVE IInv'
<1>1. /\ Types'
      /\ \A i \in 1..Len(recloser') : \E j \in 1..Len(recloser) : recloser'[i] = recloser[j]
  BY OneLess, TimerAssumption DEF IInv, Types, RecloseNot, Wakes
<1> QED
  BY <1>1
  DEF RecloseNot, IInv, Types, JustOpened, Left, OneClosing, ShotLeft, Counts,
      Counted, HighCount, ShotsLimited, LocksAfterShots

LEMMA TimeoutKeepsIInv == ASSUME IInv, RREC_timeout_thread PROVE IInv'
<1>1. Types'
  BY OneLess, TimerAssumption DEF IInv, Types, RREC_timeout_thread, Wakes
<1> QED
  BY <1>1
  DEF RREC_timeout_thread, IInv, Types, JustOpened, Left, OneClosing, ShotLeft, Counts, Counted,
      HighCount, ShotsLimited, LocksAfterShots

\* The trips are forgotten while the breaker is on: nothing is being counted.
LEMMA RearmKeepsIInv == ASSUME IInv, RREC_reenable_timer PROVE IInv'
<1>1. Types'
  BY OneLess, TimerAssumption DEF IInv, Types, RREC_reenable_timer, Wakes
<1>2. CASE (tripstate > 0 \/ tripCount > 0) /\ pos = "on"
  <2>1. closing = 0
    BY <1>2 DEF IInv, OneClosing, Left
  <2>2. /\ tripstate' = 0 /\ tripCount' = 0 /\ shots' = 0 /\ leftover' = 0
        /\ UNCHANGED <<pos, travelled, recloser, closing>>
    BY <1>2 DEF RREC_reenable_timer
  <2>3. JustOpened' /\ OneClosing' /\ ShotLeft'
    BY <2>1, <2>2 DEF IInv, JustOpened, Left, OneClosing, ShotLeft
  <2>4. Counts'
    BY <2>1, <2>2, TimerAssumption
    DEF Counts, Counted, HighCount, ShotsLimited, LocksAfterShots
  <2> QED
    BY <1>1, <2>3, <2>4 DEF IInv
<1>3. CASE ~((tripstate > 0 \/ tripCount > 0) /\ pos = "on")
  BY <1>1, <1>3
  DEF RREC_reenable_timer, IInv, Types, JustOpened, Left, OneClosing, ShotLeft, Counts, Counted,
      HighCount, ShotsLimited, LocksAfterShots
<1> QED
  BY <1>2, <1>3

LEMMA TickKeepsIInv == ASSUME IInv, Tick PROVE IInv'
<1>1. /\ recloser # <<>> => Head(recloser) > 0
      /\ timeout # <<>> => Head(timeout) > 0
      /\ rearm # <<>> => Head(rearm) > 0
  BY DEF Tick
<1>2. /\ Fits(recloser', RREC_Timer) /\ Increasing(recloser')
      /\ \A i \in 1..Len(recloser') : recloser'[i] < RREC_Timer
  BY <1>1, AllSleep, IncreasingIsSorted, TimerAssumption DEF Tick, IInv, Types
<1>3. /\ Fits(timeout', RREC_Timeout) /\ Sorted(timeout')
      /\ Fits(rearm', RREC_RearmTimer) /\ Sorted(rearm')
  BY <1>1, AllSleep, TimerAssumption DEF Tick, IInv, Types
<1>4. Types'
  BY <1>2, <1>3 DEF Tick, IInv, Types
<1>5. JustOpened'
  BY <1>2, TimerAssumption DEF JustOpened, Fits
<1> QED
  BY <1>4, <1>5 DEF Tick, IInv, OneClosing, ShotLeft, Counts,
      Counted, HighCount, ShotsLimited, LocksAfterShots

LEMMA NextKeepsIInv == IInv /\ [Next]_vars => IInv'
<1>1. IInv /\ Next => IInv'
  BY TripKeepsIInv, PositionKeepsIInv, RecloseKeepsIInv, RecloseCountKeepsIInv,
     RecloseNotKeepsIInv, TimeoutKeepsIInv, RearmKeepsIInv, TickKeepsIInv
  DEF Next, Wake
<1>2. IInv /\ UNCHANGED vars => IInv'
  BY DEF vars, timers, IInv, Types, JustOpened, Left, OneClosing, ShotLeft, Counts,
         Counted, HighCount, ShotsLimited, LocksAfterShots
<1> QED
  BY <1>1, <1>2

-----------------------------------------------------------------------------
LEMMA FitsInTimers ==
  ASSUME NEW d \in Nat, NEW s, Fits(s, d)
  PROVE  s \in TimersOf(d)
<1>1. Len(s) \in 0..MaxTimers /\ s \in [1..Len(s) -> 0..d]
  BY TimerAssumption, LenProperties DEF Fits
<1> QED
  BY <1>1 DEF TimersOf

-----------------------------------------------------------------------------
\* The inductive invariant holds in every reachable state.
THEOREM Invariance == Spec => []IInv
BY InitIInv, NextKeepsIInv, PTL DEF Spec

\* The variables keep their types: in particular no thread sleeps a negative
\* time, and only malloc leaves a higher count than the one that locks.
THEOREM TypeCorrect == Spec => []TypeOK
<1>1. IInv => TypeOK
  <2> SUFFICES ASSUME IInv PROVE TypeOK
    OBVIOUS
  <2>1. /\ recloser \in TimersOf(RREC_Timer) /\ timeout \in TimersOf(RREC_Timeout)
        /\ rearm \in TimersOf(RREC_RearmTimer)
    BY FitsInTimers, TimerAssumption DEF IInv, Types
  <2>2. closing \in 0..MaxTimers
    BY TimerAssumption DEF IInv, OneClosing
  <2> QED
    BY <2>1, <2>2 DEF IInv, Types, Counts, HighCount, TypeOK
<1> QED
  BY <1>1, Invariance, PTL

\* No more than RREC_MAX_TripCnt close commands between two re-arms; before the
\* first one, no more with what malloc left in tripCount, whatever int that is
\* (RREC_recloser_timer, RREC_xcbr_callback).
THEOREM ShotsLimitedAlways == Spec => []ShotsLimited
BY Invariance, PTL DEF IInv, Counts

\* The recloser does not lock before it has given all the close commands that
\* what malloc left in tripCount allows (RREC_xcbr_callback).
THEOREM LocksInTime == Spec => []LocksAfterShots
BY Invariance, PTL DEF IInv, Counts

-----------------------------------------------------------------------------
(* The recorder.                                                           *)

\* The slot of the oldest sample: the one to be written next.
Oldest == IF recorder = "store" THEN sample_index ELSE sample_index + 1

\* Read round from slot s, slot a comes no later than slot b.
NoLater(s, a, b) == IF a < s THEN a <= b /\ b < s ELSE a <= b \/ b < s

RingTypes ==
  /\ value \in Nat /\ buffer \in [Slot -> Nat] /\ sample_index \in Slot
  /\ recorder \in {"store", "flag", "check", "written", "end", "advance"}

NothingNewer == \A a \in Slot : buffer[a] <= value
RingInOrder == \A a, b \in Slot : NoLater(Oldest, a, b) => buffer[a] <= buffer[b]

RecorderIInv == RingTypes /\ NothingNewer /\ RingInOrder /\ FileInOrder

LEMMA RecorderInit == RDRE_init => RecorderIInv
BY RDREAssumption
DEF RDRE_init, RecorderIInv, RingTypes, NothingNewer, RingInOrder, FileInOrder, Slot

\* An index that has run past the end of the ring at most once.
LEMMA WrapAround ==
  ASSUME NEW s \in Slot, NEW i \in 1 .. RDRE_MAX_SAMPLES
  PROVE  (s + i) % RDRE_MAX_SAMPLES =
           IF s + i < RDRE_MAX_SAMPLES THEN s + i ELSE s + i - RDRE_MAX_SAMPLES
<1>1. \A x \in Nat : x < 2 * RDRE_MAX_SAMPLES =>
        x % RDRE_MAX_SAMPLES = IF x < RDRE_MAX_SAMPLES THEN x ELSE x - RDRE_MAX_SAMPLES
  BY RDREAssumption
<1>2. s + i \in Nat /\ s + i < 2 * RDRE_MAX_SAMPLES
  BY RDREAssumption DEF Slot
<1> DEFINE x == s + i
<1> HIDE DEF x
<1>3. x % RDRE_MAX_SAMPLES = IF x < RDRE_MAX_SAMPLES THEN x ELSE x - RDRE_MAX_SAMPLES
  <2>1. x \in Nat /\ x < 2 * RDRE_MAX_SAMPLES
    BY <1>2 DEF x
  <2> QED
    BY <1>1, <2>1
<1> QED
  BY <1>2, <1>3, RDREAssumption DEF x, Slot

\* Storing the newest sample over the oldest keeps the order.
LEMMA StoreKeepsOrder ==
  ASSUME RecorderIInv, Store
  PROVE  RecorderIInv'
<1>1. /\ buffer' \in [Slot -> Nat] /\ buffer'[sample_index] = value
      /\ \A a \in Slot : a # sample_index => buffer'[a] = buffer[a]
      /\ UNCHANGED <<value, sample_index, file>> /\ recorder' = "flag"
      /\ Oldest = sample_index /\ Oldest' = sample_index + 1
  BY DEF Store, RecorderIInv, RingTypes, Oldest, channel
<1>2. RingInOrder'
  <2> SUFFICES ASSUME NEW a \in Slot, NEW b \in Slot, NoLater(sample_index + 1, a, b)
               PROVE  buffer'[a] <= buffer'[b]
    BY <1>1 DEF RingInOrder
  <2>1. a = sample_index => b = sample_index
    BY RDREAssumption DEF NoLater, RecorderIInv, RingTypes, Slot
  <2>2. a # sample_index /\ b # sample_index => NoLater(sample_index, a, b)
    BY RDREAssumption DEF NoLater, RecorderIInv, RingTypes, Slot
  <2> QED
    BY <1>1, <2>1, <2>2 DEF RecorderIInv, RingTypes, NothingNewer, RingInOrder
<1> QED
  BY <1>1, <1>2 DEF RecorderIInv, RingTypes, NothingNewer, FileInOrder

\* The next slot is the one after it: no slot changes its place.
LEMMA AdvanceKeepsOrder ==
  ASSUME RecorderIInv, Advance
  PROVE  RecorderIInv'
<1>1. /\ UNCHANGED <<value, buffer, file>> /\ recorder' = "store"
      /\ sample_index' = (sample_index + 1) % RDRE_MAX_SAMPLES
      /\ Oldest = sample_index + 1 /\ Oldest' = sample_index'
  BY DEF Advance, Oldest, channel
<1>2. sample_index' = IF sample_index + 1 < RDRE_MAX_SAMPLES THEN sample_index + 1 ELSE 0
  <2>1. sample_index \in Slot /\ 1 \in 1 .. RDRE_MAX_SAMPLES
    BY RDREAssumption DEF RecorderIInv, RingTypes
  <2>2. sample_index' = IF sample_index + 1 < RDRE_MAX_SAMPLES THEN sample_index + 1
                        ELSE sample_index + 1 - RDRE_MAX_SAMPLES
    BY <1>1, <2>1, WrapAround
  <2> QED
    BY <2>1, <2>2, RDREAssumption DEF Slot
<1>3. \A a, b \in Slot : NoLater(sample_index', a, b) => NoLater(sample_index + 1, a, b)
  BY <1>2, RDREAssumption DEF NoLater, RecorderIInv, RingTypes, Slot
<1> QED
  BY <1>1, <1>2, <1>3, RDREAssumption
  DEF RecorderIInv, RingTypes, NothingNewer, RingInOrder, FileInOrder, Slot

\* The file takes the slots in their order.
LEMMA WriteInOrder ==
  ASSUME RecorderIInv, write_comtrade
  PROVE  FileInOrder'
<1> DEFINE slot(i) == (sample_index + i) % RDRE_MAX_SAMPLES
<1>0. sample_index \in Slot /\ Oldest = sample_index + 1
  BY DEF write_comtrade, RecorderIInv, RingTypes, Oldest
<1>1. \A i \in 1 .. RDRE_MAX_SAMPLES :
        slot(i) = IF sample_index + i < RDRE_MAX_SAMPLES THEN sample_index + i
                  ELSE sample_index + i - RDRE_MAX_SAMPLES
  BY <1>0, WrapAround
<1>2. file' = [i \in 1 .. RDRE_MAX_SAMPLES |-> buffer[slot(i)]]
  BY DEF write_comtrade
<1>3. \A i, j \in 1 .. RDRE_MAX_SAMPLES :
        i < j => slot(i) \in Slot /\ slot(j) \in Slot
                 /\ NoLater(sample_index + 1, slot(i), slot(j))
  <2> HIDE DEF slot
  <2> TAKE i, j \in 1 .. RDRE_MAX_SAMPLES
  <2> HAVE i < j
  <2>1. /\ slot(i) = IF sample_index + i < RDRE_MAX_SAMPLES THEN sample_index + i
                     ELSE sample_index + i - RDRE_MAX_SAMPLES
        /\ slot(j) = IF sample_index + j < RDRE_MAX_SAMPLES THEN sample_index + j
                     ELSE sample_index + j - RDRE_MAX_SAMPLES
    BY <1>1
  <2> QED
    BY <1>0, <2>1, RDREAssumption DEF NoLater, Slot
<1> HIDE DEF slot
<1> QED
  BY <1>0, <1>2, <1>3 DEF RecorderIInv, RingInOrder, FileInOrder

LEMMA RecorderKept == RecorderIInv /\ [RDRE_Next]_RDRE_vars => RecorderIInv'
<1> SUFFICES ASSUME RecorderIInv, [RDRE_Next]_RDRE_vars PROVE RecorderIInv'
  OBVIOUS
\* All other accesses leave the ring as it is; the recorder does not come to
\* or from its store, and the value only grows.
<1>1. ASSUME /\ UNCHANGED <<buffer, sample_index>>
             /\ value' \in Nat /\ value' >= value
             /\ \/ recorder' = recorder
                \/ /\ recorder # "store"
                   /\ recorder' \in {"check", "written", "end", "advance"}
             /\ FileInOrder'
      PROVE  RecorderIInv'
  <2>1. Oldest' = Oldest
    BY <1>1 DEF Oldest
  <2> QED
    BY <1>1, <2>1, RDREAssumption
    DEF RecorderIInv, RingTypes, NothingNewer, RingInOrder, Slot
<1>2. UNCHANGED file => FileInOrder'
  BY DEF RecorderIInv, FileInOrder
<1>3. value \in Nat
  BY DEF RecorderIInv, RingTypes
<1>4. CASE Received \/ ClearRead \/ RDRE_callback_trip \/ StartDelay \/ recorder_delay \/ AskForFile
  BY <1>1, <1>2, <1>3, <1>4
  DEF Received, ClearRead, RDRE_callback_trip, StartDelay, recorder_delay, AskForFile,
      channel, ring
<1>5. CASE SetValue
  BY <1>1, <1>2, <1>3, <1>5 DEF SetValue, ring
<1>6. CASE SetRead \/ write_comtrade_fails \/ EndWrite \/ EndRecording \/ NoRecording
  BY <1>1, <1>2, <1>3, <1>6
  DEF SetRead, write_comtrade_fails, EndWrite, EndRecording, NoRecording, channel, ring
<1>7. CASE write_comtrade
  BY <1>1, <1>3, <1>7, WriteInOrder DEF write_comtrade, channel, ring
<1>8. CASE UNCHANGED RDRE_vars
  BY <1>1, <1>2, <1>3, <1>8 DEF RDRE_vars, channel, ring
<1> QED
  BY <1>4, <1>5, <1>6, <1>7, <1>8, StoreKeepsOrder, AdvanceKeepsOrder
  DEF RDRE_Next, Receiver, Recorder

\* In every file the samples are in the order they arrived in, whenever the
\* trips come, whether or not the ring is full (RDRE.c, write_comtrade).
THEOREM FileInOrderAlways == RDRE_Spec => []FileInOrder
<1>1. RecorderIInv => FileInOrder
  BY DEF RecorderIInv
<1> QED
  BY <1>1, RecorderInit, RecorderKept, PTL DEF RDRE_Spec

=============================================================================
