----------------------------- MODULE BayProofs -----------------------------
(***************************************************************************)
(* Proofs about Switchgear, for every set of switches, breakers and        *)
(* threads, and about Bay, which wires switches together.                  *)
(*                                                                         *)
(* Switchgear: OneMover and IntermediateIffMoving are inductive together   *)
(* with the types: the position is intermediate because one thread, the    *)
(* only one past the semaphore, has not finished its move.                 *)
(*                                                                         *)
(* Bay: the isolators are released exactly while the breaker is open, once *)
(* everyone has been told, and no command gets through to one otherwise.   *)
(* While the calls of a chain are being made, what a node keeps may differ *)
(* from the position of the breaker only if the call that corrects it is   *)
(* still to come; the position does not change before the last one.        *)
(***************************************************************************)
EXTENDS Bay, TLAPS

-----------------------------------------------------------------------------
(* The switchgear.                                                         *)


(* The signals change no position, no semaphore, and of the threads only an
   unborn one, which becomes a waiting one. *)
LEMMA SignalFrame ==
  ASSUME TypeOK, Signal
  PROVE  /\ UNCHANGED <<pos, sem>>
         /\ BlkOpn' \in [Switch -> BOOLEAN]
         /\ BlkCls' \in [Switch -> BOOLEAN]
         /\ Loc' \in [Switch -> BOOLEAN]
         /\ tripped' \subseteq Breaker
         /\ \/ UNCHANGED thread
            \/ \E t \in Thread, s \in Switch, goal \in Rest :
                 /\ thread[t].pc = "unborn"
                 /\ thread' = [thread EXCEPT ![t] =
                                 [pc |-> "wait", goal |-> goal, sw |-> s]]
<1>1. ASSUME NEW s \in Switch, NEW v \in BOOLEAN,
             \/ XSWI_EnaOpn_callback(s, v)
             \/ XSWI_EnaCls_callback(s, v)
             \/ XSWI_Loc_callback(s, v)
      PROVE  /\ UNCHANGED <<pos, sem, thread, tripped>>
             /\ BlkOpn' \in [Switch -> BOOLEAN]
             /\ BlkCls' \in [Switch -> BOOLEAN]
             /\ Loc' \in [Switch -> BOOLEAN]
  BY <1>1 DEF TypeOK, XSWI_EnaOpn_callback, XSWI_EnaCls_callback, XSWI_Loc_callback
<1>2. ASSUME NEW s \in Switch, XSWI_Opn(s) \/ XSWI_Cls(s)
      PROVE  /\ UNCHANGED <<pos, sem, BlkOpn, BlkCls, Loc, tripped>>
             /\ \E t \in Thread, goal \in Rest :
                  /\ thread[t].pc = "unborn"
                  /\ thread' = [thread EXCEPT ![t] =
                                  [pc |-> "wait", goal |-> goal, sw |-> s]]
  BY <1>2 DEF XSWI_Opn, XSWI_Cls, Spawn, Rest
<1>3. ASSUME NEW b \in Breaker, XCBR_callback_Tr(b)
      PROVE  /\ UNCHANGED <<pos, sem, BlkOpn, BlkCls, Loc>>
             /\ tripped' = tripped \cup {b}
             /\ b \in Switch
             /\ \E t \in Thread, goal \in Rest :
                  /\ thread[t].pc = "unborn"
                  /\ thread' = [thread EXCEPT ![t] =
                                  [pc |-> "wait", goal |-> goal, sw |-> b]]
  BY <1>3, SwitchAssumption DEF XCBR_callback_Tr, Spawn, Rest
<1>4. QED
  BY <1>1, <1>2, <1>3 DEF Signal, TypeOK

(* What every step of a simulation thread does to the table of threads: it
   moves its own program counter and nothing else. *)
LEMMA GotoFrame ==
  ASSUME TypeOK, NEW t \in Thread, NEW pc \in Pc, Goto(t, pc)
  PROVE  /\ thread' \in [Thread -> [pc : Pc, goal : Rest, sw : Switch]]
         /\ thread'[t].pc = pc
         /\ thread'[t].sw = thread[t].sw
         /\ thread'[t].goal = thread[t].goal
         /\ \A u \in Thread \ {t} : thread'[u] = thread[u]
BY DEF Goto, TypeOK

LEMMA SignalStep == ASSUME IInv, Signal PROVE IInv'
<1> USE DEF IInv
<1>1. TypeOK'
  BY SignalFrame DEF TypeOK, Pc
<1>2. \A t \in Thread, s \in Switch : Holds(t, s)' <=> Holds(t, s)
  BY SignalFrame DEF TypeOK, Holds
<1>3. \A t \in Thread, s \in Switch : Moves(t, s)' <=> Moves(t, s)
  BY SignalFrame DEF TypeOK, Moves
<1>4. UNCHANGED <<pos, sem>>
  BY SignalFrame
<1>5. OneMover'
  BY <1>2, <1>4 DEF OneMover
<1>6. IntermediateIffMoving'
  BY <1>3, <1>4 DEF IntermediateIffMoving
<1>7. QED
  BY <1>1, <1>5, <1>6

LEMMA SemaphoreWaitStep ==
  ASSUME IInv, NEW t \in Thread, SemaphoreWait(t) PROVE IInv'
<1> USE DEF IInv
<1> DEFINE s == thread[t].sw
<1>0. s \in Switch /\ thread[t].pc = "wait" /\ sem[s] = 1
  BY DEF SemaphoreWait, At, TypeOK
<1>1. /\ sem' = [sem EXCEPT ![s] = 0]
      /\ Goto(t, "check")
      /\ UNCHANGED <<pos, BlkOpn, BlkCls, Loc, tripped>>
  BY <1>0 DEF SemaphoreWait
<1>2. /\ thread' \in [Thread -> [pc : Pc, goal : Rest, sw : Switch]]
      /\ thread'[t].pc = "check"
      /\ thread'[t].sw = s
      /\ \A u \in Thread \ {t} : thread'[u] = thread[u]
  BY <1>1, GotoFrame DEF Pc
<1>3. TypeOK'
  BY <1>1, <1>2 DEF TypeOK
<1>4. \A u \in Thread, r \in Switch :
        Holds(u, r)' <=> (Holds(u, r) \/ (u = t /\ r = s))
  BY <1>0, <1>2 DEF Holds
<1>5. \A u \in Thread : ~Holds(u, s)
  BY <1>0 DEF OneMover
<1>6. OneMover'
  BY <1>0, <1>1, <1>4, <1>5 DEF OneMover, TypeOK
<1>7. \A u \in Thread, r \in Switch : Moves(u, r)' <=> Moves(u, r)
  BY <1>0, <1>2 DEF Moves
<1>8. IntermediateIffMoving'
  BY <1>1, <1>7 DEF IntermediateIffMoving
<1>9. QED
  BY <1>3, <1>6, <1>8

(* A step of the thread that holds the semaphore, as long as it keeps it. *)
LEMMA HolderKeeps ==
  ASSUME IInv, NEW t \in Thread, NEW pc \in {"check", "moving", "post"},
         thread[t].pc \in {"check", "moving", "post"},
         Goto(t, pc), UNCHANGED sem
  PROVE  /\ OneMover'
         /\ \A u \in Thread, r \in Switch : Holds(u, r)' <=> Holds(u, r)
<1> USE DEF IInv
<1>1. /\ thread'[t].pc = pc
      /\ thread'[t].sw = thread[t].sw
      /\ \A u \in Thread \ {t} : thread'[u] = thread[u]
  BY GotoFrame DEF Pc
<1>2. \A u \in Thread, r \in Switch : Holds(u, r)' <=> Holds(u, r)
  BY <1>1 DEF Holds
<1>3. QED
  BY <1>2 DEF OneMover

LEMMA StartMoveStep ==
  ASSUME IInv, NEW t \in Thread, StartMove(t) PROVE IInv'
<1> USE DEF IInv
<1> DEFINE s == thread[t].sw
<1>1. /\ s \in Switch
      /\ thread[t].pc = "check"
      /\ pos' = [pos EXCEPT ![s] = "intermediate"]
      /\ Goto(t, "moving")
      /\ UNCHANGED <<BlkOpn, BlkCls, Loc, tripped, sem>>
  BY DEF StartMove, XSWI_change_switch, At, TypeOK
<1>2. /\ thread' \in [Thread -> [pc : Pc, goal : Rest, sw : Switch]]
      /\ thread'[t].pc = "moving"
      /\ thread'[t].sw = s
      /\ \A u \in Thread \ {t} : thread'[u] = thread[u]
  BY <1>1, GotoFrame DEF Pc
<1>3. TypeOK'
  BY <1>1, <1>2 DEF TypeOK
<1>4. /\ OneMover'
      /\ \A u \in Thread, r \in Switch : Holds(u, r)' <=> Holds(u, r)
  BY <1>1, HolderKeeps
<1>5. pos'[s] = "intermediate" /\ Moves(t, s)'
  BY <1>1, <1>2 DEF Moves, TypeOK
<1>6. \A r \in Switch \ {s} : pos'[r] = pos[r]
  BY <1>1 DEF TypeOK
<1>7. \A u \in Thread, r \in Switch \ {s} :
        Moves(u, r)' <=> Moves(u, r)
  BY <1>2 DEF Moves
<1>8. IntermediateIffMoving'
  BY <1>2, <1>5, <1>6, <1>7 DEF IntermediateIffMoving
<1>9. QED
  BY <1>3, <1>4, <1>8

(* The two ways to reach the goal leave the switch at rest. *)
LEMMA ReachedStep ==
  ASSUME IInv, NEW t \in Thread,
         thread[t].pc \in {"check", "moving"},
         pos' = [pos EXCEPT ![thread[t].sw] = thread[t].goal],
         Reached(t), Goto(t, "post"), UNCHANGED <<BlkOpn, BlkCls, Loc, sem>>
  PROVE  IInv'
<1> USE DEF IInv
<1> DEFINE s == thread[t].sw
<1>1. s \in Switch /\ thread[t].goal \in Rest /\ Holds(t, s)
  BY DEF TypeOK, Holds
<1>2. /\ thread' \in [Thread -> [pc : Pc, goal : Rest, sw : Switch]]
      /\ thread'[t].pc = "post"
      /\ thread'[t].sw = s
      /\ \A u \in Thread \ {t} : thread'[u] = thread[u]
  BY GotoFrame DEF Pc
<1>3. TypeOK'
  BY <1>1, <1>2 DEF TypeOK, Reached
<1>4. /\ OneMover'
      /\ \A u \in Thread, r \in Switch : Holds(u, r)' <=> Holds(u, r)
  BY HolderKeeps
<1>5. pos'[s] # "intermediate"
  BY <1>1 DEF TypeOK, Rest
<1>6. \A u \in Thread : ~Moves(u, s)'
  BY <1>1, <1>2 DEF OneMover, Moves, Holds
<1>7. \A r \in Switch \ {s} : pos'[r] = pos[r]
  BY DEF TypeOK
<1>8. \A u \in Thread, r \in Switch \ {s} :
        Moves(u, r)' <=> Moves(u, r)
  BY <1>2 DEF Moves
<1>9. IntermediateIffMoving'
  BY <1>2, <1>5, <1>6, <1>7, <1>8 DEF IntermediateIffMoving
<1>10. QED
  BY <1>3, <1>4, <1>9

LEMMA SemaphorePostStep ==
  ASSUME IInv, NEW t \in Thread, SemaphorePost(t) PROVE IInv'
<1> USE DEF IInv
<1> DEFINE s == thread[t].sw
<1>1. s \in Switch /\ thread[t].pc = "post" /\ Holds(t, s)
  BY DEF SemaphorePost, At, TypeOK, Holds
<1>2. sem[s] = 0
  BY <1>1 DEF OneMover
<1>3. /\ sem' = [sem EXCEPT ![s] = 1]
      /\ Goto(t, "done")
      /\ UNCHANGED <<pos, BlkOpn, BlkCls, Loc, tripped>>
  BY <1>2 DEF SemaphorePost
<1>4. /\ thread' \in [Thread -> [pc : Pc, goal : Rest, sw : Switch]]
      /\ thread'[t].pc = "done"
      /\ thread'[t].sw = s
      /\ \A u \in Thread \ {t} : thread'[u] = thread[u]
  BY <1>3, GotoFrame DEF Pc
<1>5. TypeOK'
  BY <1>1, <1>3, <1>4 DEF TypeOK
<1>6. \A u \in Thread, r \in Switch :
        Holds(u, r)' <=> (Holds(u, r) /\ u # t)
  BY <1>4 DEF Holds
<1>7. \A u \in Thread : Holds(u, s) => u = t
  BY <1>1 DEF OneMover
<1>8. \A r \in Switch \ {s} : ~Holds(t, r) /\ sem'[r] = sem[r]
  BY <1>3 DEF Holds, TypeOK
<1>9. sem'[s] = 1
  BY <1>1, <1>3 DEF TypeOK
<1>10. OneMover'
  BY <1>6, <1>7, <1>8, <1>9 DEF OneMover
<1>11. \A u \in Thread, r \in Switch :
         Moves(u, r)' <=> Moves(u, r)
  BY <1>1, <1>4 DEF Moves
<1>12. IntermediateIffMoving'
  BY <1>3, <1>11 DEF IntermediateIffMoving
<1>13. QED
  BY <1>5, <1>10, <1>12

LEMMA InitIsFine == Init => IInv
<1> SUFFICES ASSUME Init PROVE IInv
  OBVIOUS
<1>1. TypeOK
  BY SwitchAssumption DEF Init, TypeOK, Rest, Pc
<1>2. \A t \in Thread, s \in Switch : ~Holds(t, s)
  BY DEF Init, Holds
<1>3. OneMover
  BY <1>2 DEF Init, OneMover
<1>4. IntermediateIffMoving
  BY DEF Init, IntermediateIffMoving, Rest, Moves
<1>5. QED
  BY <1>1, <1>3, <1>4 DEF IInv

LEMMA NextKeeps == ASSUME IInv, [Next]_vars PROVE IInv'
<1>1. CASE Signal
  BY <1>1, SignalStep
<1>2. ASSUME NEW t \in Thread, Simulate(t) PROVE IInv'
  <2>1. CASE SemaphoreWait(t)
    BY <2>1, SemaphoreWaitStep
  <2>2. CASE StartMove(t)
    BY <2>2, StartMoveStep
  <2>3. CASE AlreadyThere(t)
    <3>1. pos' = [pos EXCEPT ![thread[t].sw] = thread[t].goal]
      BY <2>3 DEF AlreadyThere, IInv, TypeOK
    <3>2. QED
      BY <2>3, <3>1, ReachedStep DEF AlreadyThere, At
  <2>4. CASE EndMove(t)
    BY <2>4, ReachedStep DEF EndMove, XSWI_change_switch, At
  <2>5. CASE SemaphorePost(t)
    BY <2>5, SemaphorePostStep
  <2>6. QED
    BY <1>2, <2>1, <2>2, <2>3, <2>4, <2>5 DEF Simulate
<1>3. CASE UNCHANGED vars
  BY <1>3 DEF vars, IInv, TypeOK, OneMover, IntermediateIffMoving, Holds, Moves
<1>4. QED
  BY <1>1, <1>2, <1>3 DEF Next

(* IInv holds throughout: the position, the semaphore and the threads of a
   switch tell the same story, whatever signals arrive and however the
   threads interleave. *)
THEOREM Invariance == Spec => []IInv
<1>1. IInv /\ [Next]_vars => IInv'
  BY NextKeeps
<1>2. QED
  BY <1>1, InitIsFine, PTL DEF Spec

(* Every variable keeps its type. *)
THEOREM TypeCorrect == Spec => []TypeOK
BY Invariance, PTL DEF IInv

(* No command is run beside another one of the same switch, and none leaves
   the semaphore of its switch taken. *)
THEOREM MutualExclusion == Spec => []OneMover
BY Invariance, PTL DEF IInv

(* A switch is published as intermediate exactly while its drive runs. *)
THEOREM NeverHalfWay == Spec => []IntermediateIffMoving
BY Invariance, PTL DEF IInv

-----------------------------------------------------------------------------
(* The refinement of MechanicalSwitch, up to fairness.                     *)

LEMMA DriveOfMover ==
  ASSUME OneMover, NEW s \in Switch, NEW t \in Thread, Moves(t, s)
  PROVE  Drive[s] = thread[t].goal
<1>1. \A u \in Thread : Moves(u, s) => u = t
  BY DEF OneMover, Moves, Holds
<1>2. (CHOOSE u \in Thread : Moves(u, s)) = t
  BY <1>1
<1>3. QED
  BY <1>2 DEF Drive

LEMMA DriveAtRest ==
  ASSUME NEW s \in Switch, \A t \in Thread : ~Moves(t, s)
  PROVE  Drive[s] = "rest"
BY DEF Drive

(* The drive of a switch does not change when its mover stays the same. *)
LEMMA DriveUnchanged ==
  ASSUME OneMover, OneMover', NEW s \in Switch,
         \A t \in Thread : Moves(t, s)' <=> Moves(t, s),
         \A t \in Thread : Moves(t, s) => thread'[t].goal = thread[t].goal
  PROVE  Drive'[s] = Drive[s]
<1>1. CASE \E t \in Thread : Moves(t, s)
  <2>1. PICK t \in Thread : Moves(t, s)
    BY <1>1
  <2>2. Drive[s] = thread[t].goal
    BY <2>1, DriveOfMover
  <2>3. Moves(t, s)'
    BY <2>1
  <2>4. \A u \in Thread : Moves(u, s)' => u = t
    BY <2>1 DEF OneMover, Moves, Holds
  <2>5. Drive'[s] = thread'[t].goal
    <3>1. (CHOOSE u \in Thread : Moves(u, s)') = t
      BY <2>3, <2>4
    <3>2. QED
      BY <3>1, <2>3 DEF Drive
  <2>6. QED
    BY <2>1, <2>2, <2>5
<1>2. CASE \A t \in Thread : ~Moves(t, s)
  BY <1>2 DEF Drive
<1>3. QED
  BY <1>1, <1>2

(* Every behaviour of the simulation is one of a mechanical switch: every
   step starts a drive, lets one arrive, or changes neither a position nor
   a drive. *)
THEOREM MechanicalSafety ==
  Spec => Mechanical!Init /\ [][Mechanical!Next]_(Mechanical!vars)
<1>1. Init => Mechanical!Init
  <2> SUFFICES ASSUME Init PROVE Mechanical!Init
    OBVIOUS
  <2>1. Drive = [s \in Switch |-> "rest"]
    BY DEF Init, Drive, Moves
  <2>2. QED
    BY <2>1 DEF Init, Mechanical!Init, Rest, Mechanical!Rest
<1>2. IInv /\ IInv' /\ [Next]_vars => [Mechanical!Next]_(Mechanical!vars)
  <2> SUFFICES ASSUME IInv, IInv', [Next]_vars
               PROVE  Mechanical!Next \/ UNCHANGED <<pos, Drive>>
    BY DEF Mechanical!vars
  <2> USE DEF IInv
  <2>0. ASSUME UNCHANGED pos,
               \A s \in Switch, t \in Thread : Moves(t, s)' <=> Moves(t, s),
               \A s \in Switch, t \in Thread :
                 Moves(t, s) => thread'[t].goal = thread[t].goal
        PROVE  UNCHANGED <<pos, Drive>>
    <3>1. \A s \in Switch : Drive'[s] = Drive[s]
      BY <2>0, DriveUnchanged
    <3>2. Drive' = Drive
      BY <3>1 DEF Drive
    <3>3. QED
      BY <2>0, <3>2
  <2>1. CASE Signal
    BY <2>1, <2>0, SignalFrame DEF Moves, TypeOK
  <2>2. ASSUME NEW t \in Thread,
               SemaphoreWait(t) \/ AlreadyThere(t) \/ SemaphorePost(t)
        PROVE  UNCHANGED <<pos, Drive>>
    <3>1. PICK pc \in {"check", "post", "done"} :
            Goto(t, pc) /\ thread[t].pc \in {"wait", "check", "post"}
      BY <2>2 DEF SemaphoreWait, AlreadyThere, SemaphorePost, At
    <3>2. /\ thread'[t].pc = pc
          /\ thread'[t].sw = thread[t].sw
          /\ \A u \in Thread \ {t} : thread'[u] = thread[u]
      BY <3>1, GotoFrame DEF Pc
    <3>3. UNCHANGED pos
      BY <2>2 DEF SemaphoreWait, AlreadyThere, SemaphorePost
    <3>4. \A s \in Switch, u \in Thread : Moves(u, s)' <=> Moves(u, s)
      BY <3>1, <3>2 DEF Moves
    <3>5. \A s \in Switch, u \in Thread :
            Moves(u, s) => thread'[u].goal = thread[u].goal
      BY <3>1, <3>2 DEF Moves
    <3>6. QED
      BY <2>0, <3>3, <3>4, <3>5
  <2>3. ASSUME NEW t \in Thread, StartMove(t) PROVE Mechanical!Next
    <3>0. PICK s \in Switch : s = thread[t].sw
      BY DEF TypeOK
    <3>1. /\ thread[t].pc = "check"
          /\ thread[t].goal \in Rest \ {pos[s]}
          /\ pos' = [pos EXCEPT ![s] = "intermediate"]
          /\ Goto(t, "moving")
      BY <2>3, <3>0 DEF StartMove, XSWI_change_switch, At, TypeOK
    <3>2. /\ thread'[t].pc = "moving"
          /\ thread'[t].sw = s
          /\ thread'[t].goal = thread[t].goal
          /\ \A u \in Thread \ {t} : thread'[u] = thread[u]
      BY <3>0, <3>1, GotoFrame DEF Pc
    <3>3. Drive[s] = "rest"
      <4>1. \A u \in Thread : ~Moves(u, s)
        BY <3>0, <3>1 DEF OneMover, Moves, Holds
      <4>2. QED
        BY <4>1, DriveAtRest
    <3>4. Drive'[s] = thread[t].goal
      <4>1. (CHOOSE u \in Thread : Moves(u, s)') = t /\ Moves(t, s)'
        BY <3>2 DEF OneMover, Moves, Holds
      <4>2. QED
        BY <4>1, <3>2 DEF Drive
    <3>5. \A r \in Switch \ {s} : Drive'[r] = Drive[r]
      <4>1. ASSUME NEW r \in Switch \ {s} PROVE Drive'[r] = Drive[r]
        <5>1. \A u \in Thread : Moves(u, r)' <=> Moves(u, r)
          BY <3>0, <3>1, <3>2 DEF Moves
        <5>2. \A u \in Thread :
                Moves(u, r) => thread'[u].goal = thread[u].goal
          BY <3>0, <3>2 DEF Moves
        <5>3. QED
          BY <5>1, <5>2, DriveUnchanged
      <4>2. QED
        BY <4>1
    <3>6. Drive' = [Drive EXCEPT ![s] = thread[t].goal]
      BY <3>4, <3>5 DEF Drive
    <3>7. Mechanical!Start(s)
      BY <3>1, <3>3, <3>6 DEF Mechanical!Start, Rest, Mechanical!Rest
    <3>8. QED
      BY <3>7 DEF Mechanical!Next
  <2>4. ASSUME NEW t \in Thread, EndMove(t) PROVE Mechanical!Next
    <3>0. PICK s \in Switch : s = thread[t].sw
      BY DEF TypeOK
    <3>1. /\ Moves(t, s)
          /\ thread[t].goal \in Rest
          /\ pos' = [pos EXCEPT ![s] = thread[t].goal]
          /\ Goto(t, "post")
      BY <2>4, <3>0 DEF EndMove, XSWI_change_switch, At, Moves, TypeOK
    <3>2. /\ thread'[t].pc = "post"
          /\ thread'[t].sw = s
          /\ \A u \in Thread \ {t} : thread'[u] = thread[u]
      BY <3>0, <3>1, GotoFrame DEF Pc
    <3>3. Drive[s] = thread[t].goal
      BY <3>1, DriveOfMover
    <3>4. Drive'[s] = "rest"
      <4>1. \A u \in Thread : ~Moves(u, s)'
        BY <3>1, <3>2 DEF OneMover, Moves, Holds
      <4>2. QED
        BY <4>1 DEF Drive
    <3>5. \A r \in Switch \ {s} : Drive'[r] = Drive[r]
      <4>1. ASSUME NEW r \in Switch \ {s} PROVE Drive'[r] = Drive[r]
        <5>1. \A u \in Thread : Moves(u, r)' <=> Moves(u, r)
          BY <3>0, <3>1, <3>2 DEF Moves
        <5>2. \A u \in Thread :
                Moves(u, r) => thread'[u].goal = thread[u].goal
          BY <3>0, <3>1, <3>2 DEF Moves
        <5>3. QED
          BY <5>1, <5>2, DriveUnchanged
      <4>2. QED
        BY <4>1
    <3>6. Drive' = [Drive EXCEPT ![s] = "rest"]
      BY <3>4, <3>5 DEF Drive
    <3>7. Mechanical!Arrive(s)
      BY <3>1, <3>3, <3>6 DEF Mechanical!Arrive, Rest
    <3>8. QED
      BY <3>7 DEF Mechanical!Next
  <2>5. CASE UNCHANGED vars
    BY <2>5, <2>0 DEF vars, Moves
  <2>6. QED
    BY <2>1, <2>2, <2>3, <2>4, <2>5 DEF Next, Simulate
<1>3. QED
  BY <1>1, <1>2, Invariance, PTL DEF Spec


-----------------------------------------------------------------------------
(* The bay: the inductive invariant.                                      *)

Calls == [ln : {"CSWI", "XSWI", "CILO"}, sw : Switch, cmd : Cmd, ena : BOOLEAN]

(* The breaker is open: what everyone is, or is about to be, told. *)
Open == pos[Cb] = "off"

Coming(q, c) == \E i \in DOMAIN q : q[i] = c
Due(ln, s, k) == Coming(chain, [ln |-> ln, sw |-> s, cmd |-> k, ena |-> Open])

(* The remaining calls tell the present position, and all who do not know it
   are among them. *)
Telling ==
  /\ \A i \in DOMAIN chain : chain[i].ena = Open
  /\ \A i \in DOMAIN chain : chain[i].ln = "CSWI" => chain[i].sw \in Isolator
  /\ \A k \in Cmd :
       /\ CILO_Ena[k] = Open \/ Due("CILO", Cb, k)
       /\ \A s \in Isolator :
            /\ CSWI_Ena[s][k] = Open \/ Due("CSWI", s, k)
            /\ Blk(k)[s] = ~Open \/ Due("XSWI", s, k)

BayIInv == IInv /\ BayTypeOK /\ Telling

-----------------------------------------------------------------------------
(* Sequences of calls.                                                     *)

LEMMA ComingFirst ==
  ASSUME NEW q \in Seq(Calls), q # <<>>, NEW c, Coming(q, c), c # Head(q)
  PROVE  Coming(Tail(q), c)
<1>1. PICK i \in DOMAIN q : q[i] = c
  BY DEF Coming
<1>2. i \in 1 .. Len(q) /\ i # 1 /\ Len(q) \in Nat
  BY <1>1
<1>3. i - 1 \in DOMAIN Tail(q) /\ Tail(q)[i - 1] = c
  BY <1>1, <1>2
<1>4. QED
  BY <1>3 DEF Coming

LEMMA InTail ==
  ASSUME NEW q \in Seq(Calls), q # <<>>
  PROVE  /\ Tail(q) \in Seq(Calls) /\ Head(q) \in Calls
         /\ 1 \in DOMAIN q /\ q[1] = Head(q)
         /\ \A i \in DOMAIN Tail(q) : i + 1 \in DOMAIN q /\ Tail(q)[i] = q[i + 1]
<1>1. Len(q) \in Nat \ {0} /\ DOMAIN q = 1 .. Len(q)
  OBVIOUS
<1>2. QED
  BY <1>1

LEMMA ComingJoined ==
  ASSUME NEW p \in Seq(Calls), NEW q \in Seq(Calls), NEW c
  PROVE  /\ p \o q \in Seq(Calls)
         /\ Coming(p, c) => Coming(p \o q, c)
         /\ Coming(q, c) => Coming(p \o q, c)
         /\ Coming(p \o q, c) => Coming(p, c) \/ Coming(q, c)
<1>1. /\ p \o q \in Seq(Calls) /\ Len(p \o q) = Len(p) + Len(q)
      /\ Len(p) \in Nat /\ Len(q) \in Nat
  OBVIOUS
<1>2. \A i \in 1 .. Len(p) : i \in DOMAIN (p \o q) /\ (p \o q)[i] = p[i]
  BY <1>1
<1>3. \A i \in 1 .. Len(q) :
        Len(p) + i \in DOMAIN (p \o q) /\ (p \o q)[Len(p) + i] = q[i]
  BY <1>1
<1>4. ASSUME Coming(p \o q, c) PROVE Coming(p, c) \/ Coming(q, c)
  <2>1. PICK i \in 1 .. Len(p) + Len(q) : (p \o q)[i] = c
    BY <1>1, <1>4 DEF Coming
  <2>2. CASE i <= Len(p)
    <3>1. i \in DOMAIN p /\ p[i] = c
      BY <1>1, <1>2, <2>1, <2>2
    <3>2. QED
      BY <3>1 DEF Coming
  <2>3. CASE i > Len(p)
    <3>1. i - Len(p) \in 1 .. Len(q) /\ Len(p) + (i - Len(p)) = i
      BY <1>1, <2>1, <2>3
    <3>2. q[i - Len(p)] = c /\ i - Len(p) \in DOMAIN q
      BY <1>3, <2>1, <3>1
    <3>3. QED
      BY <3>2 DEF Coming
  <2>4. QED
    BY <1>1, <2>1, <2>2, <2>3
<1>5. ASSUME Coming(p, c) PROVE Coming(p \o q, c)
  <2>1. PICK i \in DOMAIN p : p[i] = c
    BY <1>5 DEF Coming
  <2>2. i \in 1 .. Len(p)
    BY <2>1
  <2>3. QED
    BY <1>2, <2>1, <2>2 DEF Coming
<1>6. ASSUME Coming(q, c) PROVE Coming(p \o q, c)
  <2>1. PICK i \in DOMAIN q : q[i] = c
    BY <1>6 DEF Coming
  <2>2. i \in 1 .. Len(q)
    BY <2>1
  <2>3. QED
    BY <1>3, <2>1, <2>2 DEF Coming
<1>7. QED
  BY <1>1, <1>4, <1>5, <1>6

(* The calls of a release: every isolator is told in both places, and the
   node itself last; all of them of this release. *)
LEMMA SetEnaCalls ==
  ASSUME NEW k \in Cmd, NEW e \in BOOLEAN
  PROVE  /\ SetEna(k, e) \in Seq(Calls)
         /\ \A s \in Isolator, ln \in {"CSWI", "XSWI"} :
              Coming(SetEna(k, e), [ln |-> ln, sw |-> s, cmd |-> k, ena |-> e])
         /\ Coming(SetEna(k, e), [ln |-> "CILO", sw |-> Cb, cmd |-> k, ena |-> e])
         /\ \A c : Coming(SetEna(k, e), c) =>
              c.ena = e /\ (c.ln = "CSWI" => c.sw \in Isolator)
<1> DEFINE call(lns) == [i \in DOMAIN Isolators |->
                          [ln |-> lns, sw |-> Isolators[i], cmd |-> k, ena |-> e]]
           last == [ln |-> "CILO", sw |-> Cb, cmd |-> k, ena |-> e]
<1>0. /\ Cb \in Switch /\ Isolators \in Seq(Isolator) /\ Isolator \subseteq Switch
      /\ DOMAIN Isolators = 1 .. Len(Isolators) /\ Len(Isolators) \in Nat
      /\ \A s \in Isolator : \E i \in DOMAIN Isolators : Isolators[i] = s
      /\ \A i \in DOMAIN Isolators : Isolators[i] \in Isolator
  BY BayAssumption DEF Isolator
<1>1. ASSUME NEW ln \in {"CSWI", "XSWI"}
      PROVE  /\ call(ln) \in Seq(Calls)
             /\ \A s \in Isolator :
                  Coming(call(ln), [ln |-> ln, sw |-> s, cmd |-> k, ena |-> e])
             /\ \A c : Coming(call(ln), c) => c.ena = e /\ c.sw \in Isolator
  <2>1. \A i \in DOMAIN Isolators :
          [ln |-> ln, sw |-> Isolators[i], cmd |-> k, ena |-> e] \in Calls
    BY <1>0 DEF Calls
  <2>2. call(ln) \in Seq(Calls)
    BY <1>0, <2>1
  <2>3. QED
    BY <1>0, <2>2 DEF Coming
<1>2. /\ <<last>> \in Seq(Calls) /\ Coming(<<last>>, last)
      /\ \A c : Coming(<<last>>, c) => c = last
  <2>1. last \in Calls
    BY <1>0 DEF Calls
  <2>2. QED
    BY <2>1 DEF Coming
<1>3. SetEna(k, e) = (call("CSWI") \o call("XSWI")) \o <<last>>
  BY DEF SetEna
<1> HIDE DEF call, last
<1> DEFINE both == call("CSWI") \o call("XSWI")
<1>4. /\ both \in Seq(Calls)
      /\ \A c : Coming(both, c) <=> Coming(call("CSWI"), c) \/ Coming(call("XSWI"), c)
  BY <1>1, ComingJoined
<1> HIDE DEF both
<1>5. /\ both \o <<last>> \in Seq(Calls)
      /\ \A c : Coming(both \o <<last>>, c) <=> Coming(both, c) \/ Coming(<<last>>, c)
  BY <1>2, <1>4, ComingJoined
<1>6. SetEna(k, e) = both \o <<last>>
  BY <1>3 DEF both
<1>7. \A c : Coming(SetEna(k, e), c) =>
        c.ena = e /\ (c.ln = "CSWI" => c.sw \in Isolator)
  <2>1. last.ena = e /\ last.ln = "CILO"
    BY DEF last
  <2>2. QED
    BY <1>1, <1>2, <1>4, <1>5, <1>6, <2>1
<1>8. QED
  BY <1>1, <1>2, <1>4, <1>5, <1>6, <1>7 DEF last

-----------------------------------------------------------------------------
(* A bay is switchgear with the wiring between its nodes.                  *)

LEMMA Constants == Cb \in Switch /\ Breaker = {Cb} /\ Isolator \subseteq Switch
BY BayAssumption DEF Isolator

(* What a call that is made looks like. *)
LEMMA HeadCall ==
  ASSUME BayIInv, NEW ln, Call(ln)
  PROVE  /\ chain \in Seq(Calls) /\ chain # <<>> /\ chain' = Tail(chain)
         /\ Head(chain) \in Calls /\ Head(chain).ln = ln /\ Head(chain).ena = Open
         /\ Head(chain).ln = "CSWI" => Head(chain).sw \in Isolator
<1>1. chain \in Seq(Calls) /\ chain # <<>> /\ chain' = Tail(chain) /\ Head(chain).ln = ln
  BY DEF BayIInv, BayTypeOK, Call, Calls
<1>2. QED
  BY <1>1, InTail DEF BayIInv, Telling

(* Every step of the bay is one of the switchgear in it, or none. *)
LEMMA BayStep == ASSUME BayIInv, [BayNext]_allVars PROVE [Next]_vars
<1> USE Constants
<1>1. CASE Deliver
  <2>1. CASE CallCSWI \/ CallCILO
    BY <2>1 DEF CallCSWI, CallCILO
  <2>2. CASE CallXSWI
    <3>1. Head(chain).sw \in Switch /\ Head(chain).ena \in BOOLEAN
      BY <2>2, HeadCall DEF CallXSWI, Calls
    <3>2. \/ XSWI_EnaOpn_callback(Head(chain).sw, Head(chain).ena)
          \/ XSWI_EnaCls_callback(Head(chain).sw, Head(chain).ena)
      BY <2>2 DEF CallXSWI
    <3>3. Signal
      BY <3>1, <3>2 DEF Signal
    <3>4. QED
      BY <3>3 DEF Next
  <2>3. QED
    BY <1>1, <2>1, <2>2 DEF Deliver
<1>2. ASSUME NEW s \in Switch, Pulse(s) PROVE [Next]_vars
  <2>1. XSWI_Opn(s) \/ XSWI_Cls(s) \/ UNCHANGED vars
    BY <1>2 DEF Pulse
  <2>2. QED
    BY <2>1 DEF Next, Signal
<1>3. ASSUME NEW s \in Switch, NEW goal \in Rest, Operate(s, goal) PROVE [Next]_vars
  BY <1>3 DEF Operate
<1>4. CASE Trip
  BY <1>4 DEF Trip, Next, Signal
<1>5. ASSUME NEW t \in Thread, SimulateBay(t) PROVE [Next]_vars
  BY <1>5 DEF SimulateBay, Next
<1>6. CASE UNCHANGED allVars
  BY <1>6 DEF allVars
<1>7. QED
  BY <1>1, <1>2, <1>3, <1>4, <1>5, <1>6 DEF BayNext

-----------------------------------------------------------------------------
(* The position of the breaker.                                            *)

(* Only a thread that holds the breaker's semaphore moves the breaker. *)
LEMMA MoverHolds ==
  ASSUME IInv, NEW t \in Thread, Simulate(t), pos'[Cb] # pos[Cb]
  PROVE  Holds(t, Cb) /\ UNCHANGED <<BlkOpn, BlkCls>>
<1> USE Constants
<1>1. CASE SemaphoreWait(t) \/ AlreadyThere(t) \/ SemaphorePost(t)
  BY <1>1 DEF SemaphoreWait, AlreadyThere, SemaphorePost
<1>2. CASE StartMove(t) \/ EndMove(t)
  <2>1. thread[t].sw \in Switch /\ thread[t].pc \in {"check", "moving"}
    BY <1>2 DEF StartMove, EndMove, At, IInv, TypeOK
  <2>2. thread[t].sw = Cb
    BY <1>2, <2>1 DEF StartMove, EndMove, XSWI_change_switch, IInv, TypeOK
  <2>3. QED
    BY <1>2, <2>1, <2>2 DEF Holds, StartMove, EndMove
<1>3. QED
  BY <1>1, <1>2 DEF Simulate

(* The other steps of the bay leave the position alone. *)
LEMMA SignalKeepsPos ==
  ASSUME BayIInv, Deliver \/ Trip \/ \E s \in Switch : Pulse(s)
  PROVE  UNCHANGED pos
BY DEF Deliver, CallCSWI, CallCILO, CallXSWI, XSWI_EnaOpn_callback,
   XSWI_EnaCls_callback, Trip, XCBR_callback_Tr, Pulse, XSWI_Opn, XSWI_Cls, vars

-----------------------------------------------------------------------------
(* The calls of a chain.                                                   *)

(* What remains of a chain when its first call is made. *)
LEMMA CallRest ==
  ASSUME BayIInv, NEW lns, Call(lns), UNCHANGED pos
  PROVE  /\ Open' = Open /\ chain' \in Seq(Calls)
         /\ \A i \in DOMAIN chain' : /\ chain'[i].ena = Open
                                     /\ chain'[i].ln = "CSWI" => chain'[i].sw \in Isolator
         /\ \A ln, s, k :
              Due(ln, s, k) /\ Head(chain) # [ln |-> ln, sw |-> s, cmd |-> k, ena |-> Open]
                => Due(ln, s, k)'
<1>1. chain \in Seq(Calls) /\ chain # <<>> /\ chain' = Tail(chain) /\ Open' = Open
  BY HeadCall DEF Open
<1>2. chain' \in Seq(Calls) /\
      \A i \in DOMAIN chain' : i + 1 \in DOMAIN chain /\ chain'[i] = chain[i + 1]
  BY <1>1, InTail
<1>3. \A i \in DOMAIN chain' : /\ chain'[i].ena = Open
                               /\ chain'[i].ln = "CSWI" => chain'[i].sw \in Isolator
  BY <1>2 DEF BayIInv, Telling
<1>4. ASSUME NEW c, Coming(chain, c), Head(chain) # c PROVE Coming(chain', c)
  BY <1>1, <1>4, ComingFirst
<1>5. QED
  BY <1>1, <1>2, <1>3, <1>4 DEF Due, Coming

LEMMA CSWIStep ==
  ASSUME BayIInv, CallCSWI
  PROVE  BayTypeOK' /\ Telling'
<1> DEFINE c == Head(chain)
<1>1. /\ Call("CSWI") /\ CSWI_Ena' = [CSWI_Ena EXCEPT ![c.sw][c.cmd] = c.ena]
      /\ UNCHANGED <<vars, CILO_Ena, control>> /\ UNCHANGED <<pos, BlkOpn, BlkCls>>
  BY DEF CallCSWI, vars
<1>2. /\ c \in Calls /\ c.ln = "CSWI" /\ c.ena = Open /\ c.sw \in Isolator
      /\ c.cmd \in Cmd /\ c.ena \in BOOLEAN
  BY <1>1, HeadCall DEF Calls
<1>3. CSWI_Ena \in [Isolator -> [Cmd -> BOOLEAN]]
  BY DEF BayIInv, BayTypeOK
<1>4. /\ CSWI_Ena' \in [Isolator -> [Cmd -> BOOLEAN]]
      /\ \A s \in Isolator, k \in Cmd :
           CSWI_Ena'[s][k] = IF s = c.sw /\ k = c.cmd THEN Open ELSE CSWI_Ena[s][k]
  BY <1>1, <1>2, <1>3
<1>5. Open' = Open /\ chain' \in Seq(Calls)
  BY <1>1, CallRest
<1>6. BayTypeOK'
  BY <1>1, <1>4, <1>5 DEF BayIInv, BayTypeOK, TypeOK, Calls, vars
<1>7. Telling'
  <2>1. ASSUME NEW k \in Cmd PROVE (CILO_Ena[k] = Open \/ Due("CILO", Cb, k))'
    <3>1. CILO_Ena[k] = Open \/ Due("CILO", Cb, k)
      BY DEF BayIInv, Telling
    <3>2. c # [ln |-> "CILO", sw |-> Cb, cmd |-> k, ena |-> Open]
      BY <1>2
    <3>3. QED
      BY <1>1, <1>5, <3>1, <3>2, CallRest
  <2>2. ASSUME NEW k \in Cmd, NEW s \in Isolator
        PROVE  (CSWI_Ena[s][k] = Open \/ Due("CSWI", s, k))'
    <3>1. CASE s = c.sw /\ k = c.cmd
      BY <1>4, <1>5, <3>1
    <3>2. CASE ~(s = c.sw /\ k = c.cmd)
      <4>1. CSWI_Ena[s][k] = Open \/ Due("CSWI", s, k)
        BY DEF BayIInv, Telling
      <4>2. c # [ln |-> "CSWI", sw |-> s, cmd |-> k, ena |-> Open]
        BY <3>2
      <4>3. Due("CSWI", s, k) => Due("CSWI", s, k)'
        BY <1>1, <4>2, CallRest
      <4>4. QED
        BY <1>4, <1>5, <3>2, <4>1, <4>3
    <3>3. QED
      BY <3>1, <3>2
  <2>3. ASSUME NEW k \in Cmd, NEW s \in Isolator
        PROVE  (Blk(k)[s] = ~Open \/ Due("XSWI", s, k))'
    <3>1. Blk(k)[s] = ~Open \/ Due("XSWI", s, k)
      BY DEF BayIInv, Telling
    <3>2. c # [ln |-> "XSWI", sw |-> s, cmd |-> k, ena |-> Open]
      BY <1>2
    <3>3. Due("XSWI", s, k) => Due("XSWI", s, k)'
      BY <1>1, <3>2, CallRest
    <3>4. Blk(k)' = Blk(k)
      BY <1>1 DEF Blk
    <3>5. QED
      BY <1>5, <3>1, <3>3, <3>4
  <2>4. QED
    BY <1>1, <1>5, <2>1, <2>2, <2>3, CallRest DEF Telling
<1>8. QED
  BY <1>6, <1>7

LEMMA CILOStep ==
  ASSUME BayIInv, CallCILO
  PROVE  BayTypeOK' /\ Telling'
<1> DEFINE c == Head(chain)
<1>1. /\ Call("CILO") /\ CILO_Ena' = [CILO_Ena EXCEPT ![c.cmd] = c.ena]
      /\ UNCHANGED <<vars, CSWI_Ena, control>> /\ UNCHANGED <<pos, BlkOpn, BlkCls>>
  BY DEF CallCILO, vars
<1>2. /\ c \in Calls /\ c.ln = "CILO" /\ c.ena = Open
      /\ c.cmd \in Cmd /\ c.ena \in BOOLEAN
  BY <1>1, HeadCall DEF Calls
<1>3. CILO_Ena \in [Cmd -> BOOLEAN]
  BY DEF BayIInv, BayTypeOK
<1>4. /\ CILO_Ena' \in [Cmd -> BOOLEAN]
      /\ \A k \in Cmd : CILO_Ena'[k] = IF k = c.cmd THEN Open ELSE CILO_Ena[k]
  BY <1>1, <1>2, <1>3
<1>5. Open' = Open /\ chain' \in Seq(Calls)
  BY <1>1, CallRest
<1>6. BayTypeOK'
  BY <1>1, <1>4, <1>5 DEF BayIInv, BayTypeOK, TypeOK, Calls, vars
<1>7. Telling'
  <2>1. ASSUME NEW k \in Cmd PROVE (CILO_Ena[k] = Open \/ Due("CILO", Cb, k))'
    <3>1. CASE k = c.cmd
      BY <1>4, <1>5, <3>1
    <3>2. CASE k # c.cmd
      <4>1. CILO_Ena[k] = Open \/ Due("CILO", Cb, k)
        BY DEF BayIInv, Telling
      <4>2. c # [ln |-> "CILO", sw |-> Cb, cmd |-> k, ena |-> Open]
        BY <3>2
      <4>3. Due("CILO", Cb, k) => Due("CILO", Cb, k)'
        BY <1>1, <4>2, CallRest
      <4>4. QED
        BY <1>4, <1>5, <3>2, <4>1, <4>3
    <3>3. QED
      BY <3>1, <3>2
  <2>2. ASSUME NEW k \in Cmd, NEW s \in Isolator
        PROVE  /\ (CSWI_Ena[s][k] = Open \/ Due("CSWI", s, k))'
               /\ (Blk(k)[s] = ~Open \/ Due("XSWI", s, k))'
    <3>1. /\ CSWI_Ena[s][k] = Open \/ Due("CSWI", s, k)
          /\ Blk(k)[s] = ~Open \/ Due("XSWI", s, k)
      BY DEF BayIInv, Telling
    <3>2. ASSUME NEW ln \in {"CSWI", "XSWI"}, Due(ln, s, k) PROVE Due(ln, s, k)'
      <4>1. c # [ln |-> ln, sw |-> s, cmd |-> k, ena |-> Open]
        BY <1>2
      <4>2. QED
        BY <1>1, <3>2, <4>1, CallRest
    <3>3. Blk(k)' = Blk(k)
      BY <1>1 DEF Blk
    <3>4. QED
      BY <1>1, <1>5, <3>1, <3>2, <3>3
  <2>3. QED
    BY <1>1, <1>5, <2>1, <2>2, CallRest DEF Telling
<1>8. QED
  BY <1>6, <1>7

LEMMA XSWIStep ==
  ASSUME BayIInv, CallXSWI, TypeOK'
  PROVE  BayTypeOK' /\ Telling'
<1> DEFINE c == Head(chain)
<1>1. /\ Call("XSWI")
      /\ IF c.cmd = "Opn" THEN XSWI_EnaOpn_callback(c.sw, c.ena)
                          ELSE XSWI_EnaCls_callback(c.sw, c.ena)
      /\ UNCHANGED <<CILO_Ena, CSWI_Ena, control>> /\ UNCHANGED pos
  BY DEF CallXSWI, XSWI_EnaOpn_callback, XSWI_EnaCls_callback
<1>2. /\ c \in Calls /\ c.ln = "XSWI" /\ c.ena = Open /\ c.sw \in Switch
      /\ c.cmd \in Cmd /\ c.ena \in BOOLEAN
  BY <1>1, HeadCall DEF Calls
<1>3. BlkOpn \in [Switch -> BOOLEAN] /\ BlkCls \in [Switch -> BOOLEAN]
  BY DEF BayIInv, BayTypeOK, TypeOK
<1>4. \A s \in Isolator, k \in Cmd :
        Blk(k)'[s] = IF s = c.sw /\ k = c.cmd THEN ~Open ELSE Blk(k)[s]
  BY <1>1, <1>2, <1>3, Constants DEF Blk, Cmd, XSWI_EnaOpn_callback, XSWI_EnaCls_callback
<1>5. Open' = Open /\ chain' \in Seq(Calls)
  BY <1>1, CallRest
<1>6. BayTypeOK'
  BY <1>1, <1>5 DEF BayIInv, BayTypeOK, Calls
<1>7. Telling'
  <2>1. ASSUME NEW k \in Cmd PROVE (CILO_Ena[k] = Open \/ Due("CILO", Cb, k))'
    <3>1. CILO_Ena[k] = Open \/ Due("CILO", Cb, k)
      BY DEF BayIInv, Telling
    <3>2. c # [ln |-> "CILO", sw |-> Cb, cmd |-> k, ena |-> Open]
      BY <1>2
    <3>3. QED
      BY <1>1, <1>5, <3>1, <3>2, CallRest
  <2>2. ASSUME NEW k \in Cmd, NEW s \in Isolator
        PROVE  (CSWI_Ena[s][k] = Open \/ Due("CSWI", s, k))'
    <3>1. CSWI_Ena[s][k] = Open \/ Due("CSWI", s, k)
      BY DEF BayIInv, Telling
    <3>2. c # [ln |-> "CSWI", sw |-> s, cmd |-> k, ena |-> Open]
      BY <1>2
    <3>3. QED
      BY <1>1, <1>5, <3>1, <3>2, CallRest
  <2>3. ASSUME NEW k \in Cmd, NEW s \in Isolator
        PROVE  (Blk(k)[s] = ~Open \/ Due("XSWI", s, k))'
    <3>1. CASE s = c.sw /\ k = c.cmd
      BY <1>4, <1>5, <3>1
    <3>2. CASE ~(s = c.sw /\ k = c.cmd)
      <4>1. Blk(k)[s] = ~Open \/ Due("XSWI", s, k)
        BY DEF BayIInv, Telling
      <4>2. c # [ln |-> "XSWI", sw |-> s, cmd |-> k, ena |-> Open]
        BY <3>2
      <4>3. Due("XSWI", s, k) => Due("XSWI", s, k)'
        BY <1>1, <4>2, CallRest
      <4>4. QED
        BY <1>4, <1>5, <3>2, <4>1, <4>3
    <3>3. QED
      BY <3>1, <3>2
  <2>4. QED
    BY <1>1, <1>5, <2>1, <2>2, <2>3, CallRest DEF Telling
<1>8. QED
  BY <1>6, <1>7

-----------------------------------------------------------------------------
(* The start of a chain.                                                   *)

(* What CILO_not_callback has to tell is what CILO does not know yet. *)
LEMMA AnnounceCalls ==
  ASSUME CILO_Ena \in [Cmd -> BOOLEAN], NEW p, CILO_not_callback(p)
  PROVE  /\ chain' \in Seq(Calls)
         /\ \A k \in Cmd : CILO_Ena[k] # (p = "off") =>
              /\ Coming(chain', [ln |-> "CILO", sw |-> Cb, cmd |-> k, ena |-> p = "off"])
              /\ \A s \in Isolator, ln \in {"CSWI", "XSWI"} :
                   Coming(chain', [ln |-> ln, sw |-> s, cmd |-> k, ena |-> p = "off"])
         /\ \A c : Coming(chain', c) =>
              c.ena = (p = "off") /\ (c.ln = "CSWI" => c.sw \in Isolator)
<1> DEFINE e == ~ParsePos(p)
           set(k) == IF e # CILO_Ena[k] THEN SetEna(k, e) ELSE <<>>
<1>0. e = (p = "off") /\ e \in BOOLEAN /\ {"Opn", "Cls"} = Cmd
  BY DEF ParsePos, Cmd
<1>1. chain' = set("Opn") \o set("Cls")
  BY DEF CILO_not_callback
<1> HIDE DEF e
<1>2. ASSUME NEW k \in Cmd
      PROVE  /\ set(k) \in Seq(Calls)
             /\ CILO_Ena[k] # e =>
                  /\ Coming(set(k), [ln |-> "CILO", sw |-> Cb, cmd |-> k, ena |-> e])
                  /\ \A s \in Isolator, ln \in {"CSWI", "XSWI"} :
                       Coming(set(k), [ln |-> ln, sw |-> s, cmd |-> k, ena |-> e])
             /\ \A c : Coming(set(k), c) =>
                  c.ena = e /\ (c.ln = "CSWI" => c.sw \in Isolator)
  <2>1. CASE e # CILO_Ena[k]
    <3>1. set(k) = SetEna(k, e)
      BY <2>1
    <3> HIDE DEF set
    <3>2. /\ SetEna(k, e) \in Seq(Calls)
          /\ \A s \in Isolator, ln \in {"CSWI", "XSWI"} :
               Coming(SetEna(k, e), [ln |-> ln, sw |-> s, cmd |-> k, ena |-> e])
          /\ Coming(SetEna(k, e), [ln |-> "CILO", sw |-> Cb, cmd |-> k, ena |-> e])
          /\ \A c : Coming(SetEna(k, e), c) =>
               c.ena = e /\ (c.ln = "CSWI" => c.sw \in Isolator)
      BY <1>0, SetEnaCalls
    <3>3. QED
      BY <3>1, <3>2
  <2>2. CASE e = CILO_Ena[k]
    <3>1. set(k) = <<>>
      BY <2>2
    <3>2. QED
      BY <2>2, <3>1 DEF Coming
  <2>3. QED
    BY <2>1, <2>2
<1> HIDE DEF set
<1>3. "Opn" \in Cmd /\ "Cls" \in Cmd /\ \A k \in Cmd : k = "Opn" \/ k = "Cls"
  BY <1>0
<1>4. /\ chain' \in Seq(Calls)
      /\ \A c : Coming(chain', c) <=> Coming(set("Opn"), c) \/ Coming(set("Cls"), c)
  BY <1>1, <1>2, <1>3, ComingJoined
<1>5. \A k \in Cmd : \A c : Coming(set(k), c) => Coming(chain', c)
  BY <1>3, <1>4
<1>6. \A k \in Cmd : CILO_Ena[k] # e =>
        /\ Coming(chain', [ln |-> "CILO", sw |-> Cb, cmd |-> k, ena |-> e])
        /\ \A s \in Isolator, ln \in {"CSWI", "XSWI"} :
             Coming(chain', [ln |-> ln, sw |-> s, cmd |-> k, ena |-> e])
  BY <1>2, <1>5
<1>7. \A c : Coming(chain', c) => c.ena = e /\ (c.ln = "CSWI" => c.sw \in Isolator)
  BY <1>2, <1>3, <1>4
<1>8. QED
  BY <1>0, <1>4, <1>6, <1>7

LEMMA SimulateStep ==
  ASSUME BayIInv, NEW t \in Thread, SimulateBay(t), TypeOK'
  PROVE  BayTypeOK' /\ Telling'
<1>1. /\ CILO_Ena \in [Cmd -> BOOLEAN] /\ chain \in Seq(Calls)
      /\ UNCHANGED <<CILO_Ena, CSWI_Ena, control>> /\ Simulate(t)
      /\ UNCHANGED <<BlkOpn, BlkCls>>
      /\ IF pos'[Cb] # pos[Cb] THEN CILO_not_callback(pos'[Cb]) ELSE UNCHANGED chain
  BY DEF SimulateBay, BayIInv, BayTypeOK, Calls, Simulate, SemaphoreWait, StartMove,
     AlreadyThere, EndMove, SemaphorePost
<1>2. \A k \in Cmd : Blk(k)' = Blk(k)
  BY <1>1 DEF Blk
<1>3. CASE pos'[Cb] = pos[Cb]
  <2>1. Open' = Open /\ UNCHANGED <<chain, CILO_Ena, CSWI_Ena, control>>
    BY <1>1, <1>3 DEF Open
  <2>2. BayTypeOK'
    BY <2>1 DEF BayIInv, BayTypeOK
  <2>3. \A ln, s, k : Due(ln, s, k)' <=> Due(ln, s, k)
    BY <2>1 DEF Due, Coming
  <2>4. Telling'
    BY <1>2, <2>1, <2>3 DEF BayIInv, Telling
  <2>5. QED
    BY <2>2, <2>4
<1>4. CASE pos'[Cb] # pos[Cb]
  <2>1. Holds(t, Cb)
    BY <1>1, <1>4, MoverHolds DEF BayIInv
  <2>2. chain = <<>>
    BY <2>1 DEF SimulateBay
  <2>3. \A ln, s, k : ~Due(ln, s, k)
    BY <2>2 DEF Due, Coming
  <2>4. \A k \in Cmd : /\ CILO_Ena[k] = Open
                       /\ \A s \in Isolator : CSWI_Ena[s][k] = Open /\ Blk(k)[s] = ~Open
    BY <2>3 DEF BayIInv, Telling
  <2> DEFINE e == (pos'[Cb] = "off")
  <2>5. /\ chain' \in Seq(Calls)
        /\ \A k \in Cmd : CILO_Ena[k] # e =>
             /\ Coming(chain', [ln |-> "CILO", sw |-> Cb, cmd |-> k, ena |-> e])
             /\ \A s \in Isolator, ln \in {"CSWI", "XSWI"} :
                  Coming(chain', [ln |-> ln, sw |-> s, cmd |-> k, ena |-> e])
        /\ \A c : Coming(chain', c) => c.ena = e /\ (c.ln = "CSWI" => c.sw \in Isolator)
    BY <1>1, <1>4, AnnounceCalls
  <2>6. Open' = e
    BY DEF Open
  <2> HIDE DEF e
  <2>7. BayTypeOK'
    BY <1>1, <2>5 DEF BayIInv, BayTypeOK, Calls
  <2>8. \A i \in DOMAIN chain' : /\ chain'[i].ena = e
                                 /\ chain'[i].ln = "CSWI" => chain'[i].sw \in Isolator
    BY <2>5 DEF Coming
  <2>9. ASSUME NEW k \in Cmd
        PROVE  /\ (CILO_Ena[k] = Open \/ Due("CILO", Cb, k))'
               /\ \A s \in Isolator :
                    /\ (CSWI_Ena[s][k] = Open \/ Due("CSWI", s, k))'
                    /\ (Blk(k)[s] = ~Open \/ Due("XSWI", s, k))'
    <3>1. CASE CILO_Ena[k] = e
      <4>1. Open' = Open
        BY <2>4, <2>6, <3>1
      <4>2. QED
        BY <1>1, <1>2, <2>4, <4>1
    <3>2. CASE CILO_Ena[k] # e
      <4>1. /\ Due("CILO", Cb, k)'
            /\ \A s \in Isolator : Due("CSWI", s, k)' /\ Due("XSWI", s, k)'
        BY <2>5, <2>6, <3>2 DEF Due
      <4>2. QED
        BY <4>1
    <3>3. QED
      BY <3>1, <3>2
  <2>10. Telling'
    BY <2>6, <2>8, <2>9 DEF Telling
  <2>11. QED
    BY <2>7, <2>10
<1>5. QED
  BY <1>3, <1>4

-----------------------------------------------------------------------------
(* The theorems.                                                           *)

LEMMA BayInitIsFine == BayInit => BayIInv
<1> SUFFICES ASSUME BayInit PROVE BayIInv
  OBVIOUS
<1>1. IInv
  BY InitIsFine DEF BayInit
<1>2. BayTypeOK
  BY <1>1, Constants DEF BayInit, BayTypeOK, IInv, Rest, Cmd
<1>3. Telling
  BY Constants DEF BayInit, Telling, ParsePos, Open, Blk, Cmd, Isolator
<1>4. QED
  BY <1>1, <1>2, <1>3 DEF BayIInv

LEMMA BayNextKeeps == ASSUME BayIInv, [BayNext]_allVars PROVE BayIInv'
<1>1. IInv'
  BY BayStep, NextKeeps DEF BayIInv
<1>2. TypeOK'
  BY <1>1 DEF IInv
<1>3. ASSUME UNCHANGED <<pos, BlkOpn, BlkCls, CILO_Ena, CSWI_Ena, chain>>
      PROVE  Telling'
  <2>1. Open' = Open /\ \A k : Blk(k)' = Blk(k)
    BY <1>3 DEF Open, Blk
  <2>2. \A ln, s, k : Due(ln, s, k)' <=> Due(ln, s, k)
    BY <1>3, <2>1 DEF Due, Coming
  <2>3. QED
    BY <1>3, <2>1, <2>2 DEF BayIInv, Telling
<1>4. CASE Deliver
  BY <1>1, <1>2, <1>4, CSWIStep, CILOStep, XSWIStep DEF Deliver, BayIInv
<1>5. ASSUME NEW s \in Switch, Pulse(s) PROVE BayIInv'
  <2>1. /\ UNCHANGED <<pos, BlkOpn, BlkCls, CILO_Ena, CSWI_Ena, chain>>
        /\ control' = [control EXCEPT ![s] = "idle"]
    BY <1>5 DEF Pulse, XSWI_Opn, XSWI_Cls, vars
  <2>2. BayTypeOK'
    BY <1>2, <2>1 DEF BayIInv, BayTypeOK
  <2>3. QED
    BY <1>1, <1>3, <2>1, <2>2 DEF BayIInv
<1>6. ASSUME NEW s \in Switch, NEW goal \in Rest, Operate(s, goal) PROVE BayIInv'
  <2>1. /\ UNCHANGED <<pos, BlkOpn, BlkCls, CILO_Ena, CSWI_Ena, chain>>
        /\ control' = [control EXCEPT ![s] = goal]
    BY <1>6 DEF Operate, vars
  <2>2. BayTypeOK'
    BY <1>2, <2>1 DEF BayIInv, BayTypeOK
  <2>3. QED
    BY <1>1, <1>3, <2>1, <2>2 DEF BayIInv
<1>7. CASE Trip
  <2>1. UNCHANGED <<pos, BlkOpn, BlkCls, CILO_Ena, CSWI_Ena, chain, control>>
    BY <1>7 DEF Trip, XCBR_callback_Tr
  <2>2. BayTypeOK'
    BY <1>2, <2>1 DEF BayIInv, BayTypeOK
  <2>3. QED
    BY <1>1, <1>3, <2>1, <2>2 DEF BayIInv
<1>8. ASSUME NEW t \in Thread, SimulateBay(t) PROVE BayIInv'
  BY <1>1, <1>2, <1>8, SimulateStep DEF BayIInv
<1>9. CASE UNCHANGED allVars
  <2>1. UNCHANGED <<pos, BlkOpn, BlkCls, CILO_Ena, CSWI_Ena, chain, control>>
    BY <1>9 DEF allVars, vars
  <2>2. BayTypeOK'
    BY <1>2, <2>1 DEF BayIInv, BayTypeOK
  <2>3. QED
    BY <1>1, <1>3, <2>1, <2>2 DEF BayIInv
<1>10. QED
  BY <1>4, <1>5, <1>6, <1>7, <1>8, <1>9 DEF BayNext

(* In every state the bay reaches: the types, what holds of the switches, and
   that whoever does not know the breaker's position is about to be told. *)
THEOREM BayInvariance == BaySpec => []BayIInv
<1>1. BayIInv /\ [BayNext]_allVars => BayIInv'
  BY BayNextKeeps
<1>2. QED
  BY <1>1, BayInitIsFine, PTL DEF BaySpec

(* The wiring adds nothing to what a switch does: the bay's switches behave as
   those of Switchgear, and what is proved of these holds in the bay. *)
THEOREM BayIsSwitchgear == BaySpec => Init /\ [][Next]_vars /\ []IInv
<1>1. BayInit => Init
  BY DEF BayInit
<1>2. BayIInv /\ [BayNext]_allVars => [Next]_vars
  BY BayStep
<1>3. BayIInv => IInv
  BY DEF BayIInv
<1>4. QED
  BY <1>1, <1>2, <1>3, BayInvariance, PTL DEF BaySpec

(* CILO_not_callback and the callbacks of the releases: once everyone has been
   told, the isolators are released, for both commands and in both places,
   exactly if the breaker is open. *)
THEOREM InterlockAlways == BaySpec => []InterlockFollowsBreaker
<1>1. BayIInv => InterlockFollowsBreaker
  <2> SUFFICES ASSUME BayIInv, chain = <<>>, NEW k \in Cmd
               PROVE  /\ CILO_Ena[k] = (pos[Cb] = "off")
                      /\ \A s \in Isolator :
                           /\ CSWI_Ena[s][k] = (pos[Cb] = "off")
                           /\ Blk(k)[s] = (pos[Cb] # "off")
    BY DEF InterlockFollowsBreaker
  <2>1. \A ln, s : ~Due(ln, s, k)
    BY DEF Due, Coming
  <2>2. /\ CILO_Ena[k] = Open
        /\ \A s \in Isolator : CSWI_Ena[s][k] = Open /\ Blk(k)[s] = ~Open
    BY <2>1 DEF BayIInv, Telling
  <2>3. Open = (pos[Cb] = "off") /\ ~Open = (pos[Cb] # "off")
    BY DEF Open
  <2>4. QED
    BY <2>2, <2>3
<1>2. QED
  BY <1>1, BayInvariance, PTL

(* A command that reaches no isolator starts no thread for one. *)
LEMMA CommandsKept ==
  ASSUME BayIInv, NEW s \in Isolator,
         \/ UNCHANGED thread
         \/ \E t \in Thread : Simulate(t)
         \/ \E goal \in Rest, r \in Switch \ {s} : Spawn(r, goal)
  PROVE  Commands(s)' = Commands(s)
<1>0. thread \in [Thread -> [pc : Pc, goal : Rest, sw : Switch]]
  BY DEF BayIInv, IInv, TypeOK
<1>1. CASE UNCHANGED thread
  BY <1>1 DEF Commands
<1>2. ASSUME NEW t \in Thread, Simulate(t) PROVE Commands(s)' = Commands(s)
  <2>1. PICK pc \in Pc \ {"unborn"} : Goto(t, pc) /\ thread[t].pc # "unborn"
    BY <1>2 DEF Simulate, SemaphoreWait, StartMove, AlreadyThere, EndMove,
       SemaphorePost, At, Pc
  <2>2. /\ thread'[t].pc = pc /\ thread'[t].sw = thread[t].sw
        /\ \A u \in Thread \ {t} : thread'[u] = thread[u]
    BY <2>1, GotoFrame DEF BayIInv, IInv
  <2>3. QED
    BY <2>1, <2>2 DEF Commands
<1>3. ASSUME NEW goal \in Rest, NEW r \in Switch \ {s}, Spawn(r, goal)
      PROVE  Commands(s)' = Commands(s)
  <2>1. PICK t \in Thread :
          /\ thread[t].pc = "unborn"
          /\ thread' = [thread EXCEPT ![t] = [pc |-> "wait", goal |-> goal, sw |-> r]]
    BY <1>3 DEF Spawn
  <2>2. thread'[t].sw = r /\ \A u \in Thread \ {t} : thread'[u] = thread[u]
    BY <1>0, <2>1
  <2>3. QED
    BY <2>1, <2>2 DEF Commands
<1>4. QED
  BY <1>1, <1>2, <1>3

(* checkHandler, pulseOp and the callbacks of XSWI: no command gets through to
   an isolator unless the breaker is open or is just telling that it is not;
   a command that was accepted before is stopped at the switch itself. *)
THEOREM CommandNeedsOpenBreakerAlways == BaySpec => CommandNeedsOpenBreaker
<1>1. ASSUME BayIInv, [BayNext]_allVars, NEW s \in Isolator
      PROVE  Commands(s)' # Commands(s) => pos[Cb] = "off" \/ chain # <<>>
  <2> USE <1>1, Constants
  <2>1. CASE Deliver
    <3>1. UNCHANGED thread
      BY <2>1 DEF Deliver, CallCSWI, CallXSWI, CallCILO, XSWI_EnaOpn_callback,
         XSWI_EnaCls_callback, vars
    <3>2. QED
      BY <3>1, CommandsKept
  <2>2. ASSUME NEW r \in Switch, Pulse(r)
        PROVE  Commands(s)' # Commands(s) => pos[Cb] = "off" \/ chain # <<>>
    <3>1. CASE r # s
      <4>1. UNCHANGED thread \/ \E goal \in Rest : Spawn(r, goal)
        BY <2>2 DEF Pulse, XSWI_Opn, XSWI_Cls, vars, Rest
      <4>2. QED
        BY <3>1, <4>1, CommandsKept
    <3>2. CASE r = s /\ UNCHANGED vars
      BY <3>2, CommandsKept DEF vars
    <3>3. CASE r = s /\ (XSWI_Opn(s) \/ XSWI_Cls(s))
      <4>1. PICK k \in Cmd : ~Blk(k)[s]
        BY <3>3 DEF XSWI_Opn, XSWI_Cls, Blk, Cmd
      <4>2. Blk(k)[s] = ~Open \/ Due("XSWI", s, k)
        BY DEF BayIInv, Telling
      <4>3. Due("XSWI", s, k) => chain # <<>>
        BY DEF Due, Coming
      <4>4. QED
        BY <4>1, <4>2, <4>3 DEF Open
    <3>4. QED
      BY <2>2, <3>1, <3>2, <3>3 DEF Pulse
  <2>3. ASSUME NEW r \in Switch, NEW goal \in Rest, Operate(r, goal)
        PROVE  Commands(s)' = Commands(s)
    BY <2>3, CommandsKept DEF Operate, vars
  <2>4. CASE Trip
    <3>1. Cb # s /\ Spawn(Cb, "off")
      BY <2>4 DEF Trip, XCBR_callback_Tr, Isolator
    <3>2. QED
      BY <3>1, CommandsKept DEF Rest
  <2>5. ASSUME NEW t \in Thread, SimulateBay(t) PROVE Commands(s)' = Commands(s)
    BY <2>5, CommandsKept DEF SimulateBay
  <2>6. CASE UNCHANGED allVars
    BY <2>6, CommandsKept DEF allVars, vars
  <2>7. QED
    BY <2>1, <2>2, <2>3, <2>4, <2>5, <2>6 DEF BayNext
<1>2. BayIInv /\ [BayNext]_allVars =>
        [\A s \in Isolator :
           Commands(s)' # Commands(s) => pos[Cb] = "off" \/ chain # <<>>]_allVars
  BY <1>1
<1>3. QED
  BY <1>2, BayInvariance, PTL DEF BaySpec, CommandNeedsOpenBreaker

=============================================================================
