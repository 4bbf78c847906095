----------------------------- MODULE Switchgear -----------------------------
(***************************************************************************)
(* The XSWI and XCBR logical nodes of one IED (LNs/XSWI.c, LNs/XCBR.c)     *)
(* with the switch simulation plugin behind them                           *)
(* (plugin_src/cbr_simulation/cbr_simulation.c).                           *)
(*                                                                         *)
(* A logical node receives commands and interlocking signals through the   *)
(* callbacks of its inputs, on whatever thread delivers them.  A command   *)
(* that is let through creates a detached thread; the threads of one       *)
(* switch take turns through the semaphore of its XSWI record, and the one *)
(* that holds it moves the contacts.                                       *)
(***************************************************************************)
EXTENDS Naturals, FiniteSets

CONSTANTS
  Switch,    (* the XSWI and XCBR instances                               *)
  Breaker,   (* those that are an XCBR: they also have the Tr input       *)
  Thread     (* the simulation threads a run may create, each of them at  *)
             (* most once: the bound on the number of commands            *)

ASSUME SwitchAssumption == Switch # {} /\ Breaker \subseteq Switch

VARIABLES
  pos,       (* Pos.stVal                                                 *)
  BlkOpn,    (* XSWI.BlkOpn                                               *)
  BlkCls,    (* XSWI.BlkCls                                               *)
  Loc,       (* XSWI.Loc                                                  *)
  tripped,   (* history: the breakers that were sent a trip and have not  *)
             (* been driven open, or found open, since                    *)
  sem,       (* XSWI.sem                                                  *)
  thread     (* the simulation threads                                    *)

vars == <<pos, BlkOpn, BlkCls, Loc, tripped, sem, thread>>

Rest == {"off", "on"}
Pc == {"unborn", "wait", "check", "moving", "post", "done"}

-----------------------------------------------------------------------------
(* The state after the plugin's init has placed every switch, which may    *)
(* already have set or taken the releases of others.                       *)

Init ==
  /\ pos \in [Switch -> Rest]
  /\ BlkOpn \in [Switch -> BOOLEAN]
  /\ BlkCls \in [Switch -> BOOLEAN]
  /\ Loc = [s \in Switch |-> FALSE]
  /\ tripped = {}
  /\ sem = [s \in Switch |-> 1]
  /\ thread = [t \in Thread |-> [pc |-> "unborn", goal |-> "off",
                                 sw |-> CHOOSE s \in Switch : TRUE]]

-----------------------------------------------------------------------------
(* The callbacks of the inputs of the logical nodes.                       *)

(* callback_from_LN: a detached thread that will drive switch s to goal. *)
Spawn(s, goal) ==
  \E t \in Thread :
    /\ thread[t].pc = "unborn"
    /\ thread' = [thread EXCEPT ![t] = [pc |-> "wait", goal |-> goal, sw |-> s]]

(* CILO's release to open or to close switch s. *)
XSWI_EnaOpn_callback(s, ena) ==
  /\ BlkOpn' = [BlkOpn EXCEPT ![s] = ~ena]
  /\ UNCHANGED <<pos, BlkCls, Loc, tripped, sem, thread>>

XSWI_EnaCls_callback(s, ena) ==
  /\ BlkCls' = [BlkCls EXCEPT ![s] = ~ena]
  /\ UNCHANGED <<pos, BlkOpn, Loc, tripped, sem, thread>>

(* The local/remote switch: recorded and published, no command reads it. *)
XSWI_Loc_callback(s, value) ==
  /\ Loc' = [Loc EXCEPT ![s] = value]
  /\ UNCHANGED <<pos, BlkOpn, BlkCls, tripped, sem, thread>>

(* Mutant: the open command does not look at BlkOpn. *)
XSWI_Opn_unblocked(s) ==
  /\ Spawn(s, "off")
  /\ UNCHANGED <<pos, BlkOpn, BlkCls, Loc, tripped, sem>>

(* An open or close command: the OpOpn and OpCls inputs of either kind of
   node and the ui_connector plugin.  A false value changes nothing. *)
XSWI_Opn(s) ==
  /\ ~BlkOpn[s]
  /\ Spawn(s, "off")
  /\ UNCHANGED <<pos, BlkOpn, BlkCls, Loc, tripped, sem>>

XSWI_Cls(s) ==
  /\ ~BlkCls[s]
  /\ Spawn(s, "on")
  /\ UNCHANGED <<pos, BlkOpn, BlkCls, Loc, tripped, sem>>

(* Mutant: the trip obeys BlkOpn as the open command does. *)
XCBR_callback_Tr_blocked(b) ==
  /\ tripped' = tripped \cup {b}
  /\ IF BlkOpn[b] THEN UNCHANGED thread ELSE Spawn(b, "off")
  /\ UNCHANGED <<pos, BlkOpn, BlkCls, Loc, sem>>

(* The trip input of a breaker opens it whatever BlkOpn says. *)
XCBR_callback_Tr(b) ==
  /\ tripped' = tripped \cup {b}
  /\ Spawn(b, "off")
  /\ UNCHANGED <<pos, BlkOpn, BlkCls, Loc, sem>>

-----------------------------------------------------------------------------
(* simulate_switch_open and simulate_switch_close, one step for each       *)
(* access to shared state.                                                 *)

At(t, pc) == thread[t].pc = pc
Goto(t, pc) == thread' = [thread EXCEPT ![t].pc = pc]

(* Thread t has brought its switch to its goal, or found it there. *)
Reached(t) ==
  tripped' = IF thread[t].goal = "off" THEN tripped \ {thread[t].sw} ELSE tripped

(* XSWI_change_switch: publish a position. *)
XSWI_change_switch(s, value) == pos' = [pos EXCEPT ![s] = value]

(* Mutant: the thread goes on without the semaphore. *)
SemaphoreWait_none(t) ==
  /\ At(t, "wait")
  /\ Goto(t, "check")
  /\ UNCHANGED <<pos, BlkOpn, BlkCls, Loc, tripped, sem>>

SemaphoreWait(t) ==
  LET s == thread[t].sw IN
  /\ At(t, "wait")
  /\ sem[s] > 0
  /\ sem' = [sem EXCEPT ![s] = @ - 1]
  /\ Goto(t, "check")
  /\ UNCHANGED <<pos, BlkOpn, BlkCls, Loc, tripped>>

(* The switch is not where it should be: the contacts leave their rest. *)
StartMove(t) ==
  LET s == thread[t].sw IN
  /\ At(t, "check")
  /\ pos[s] # thread[t].goal
  /\ XSWI_change_switch(s, "intermediate")
  /\ Goto(t, "moving")
  /\ UNCHANGED <<BlkOpn, BlkCls, Loc, tripped, sem>>

(* Mutant: the early exit forgets to post the semaphore. *)
AlreadyThere_return(t) ==
  /\ At(t, "check")
  /\ pos[thread[t].sw] = thread[t].goal
  /\ Reached(t)
  /\ Goto(t, "done")
  /\ UNCHANGED <<pos, BlkOpn, BlkCls, Loc, sem>>

(* The switch is there already: nothing moves. *)
AlreadyThere(t) ==
  /\ At(t, "check")
  /\ pos[thread[t].sw] = thread[t].goal
  /\ Reached(t)
  /\ Goto(t, "post")
  /\ UNCHANGED <<pos, BlkOpn, BlkCls, Loc, sem>>

(* Mutant: the semaphore is posted before the sleep. *)
EndMove_posted(t) ==
  LET s == thread[t].sw IN
  /\ At(t, "moving")
  /\ IF sem[s] = 0
     THEN sem' = [sem EXCEPT ![s] = 1] /\ UNCHANGED <<pos, tripped, thread>>
     ELSE /\ XSWI_change_switch(s, thread[t].goal)
          /\ Reached(t)
          /\ Goto(t, "done")
          /\ UNCHANGED sem
  /\ UNCHANGED <<BlkOpn, BlkCls, Loc>>

(* After open_time or close_time the contacts arrive. *)
EndMove(t) ==
  LET s == thread[t].sw IN
  /\ At(t, "moving")
  /\ XSWI_change_switch(s, thread[t].goal)
  /\ Reached(t)
  /\ Goto(t, "post")
  /\ UNCHANGED <<BlkOpn, BlkCls, Loc, sem>>

SemaphorePost(t) ==
  LET s == thread[t].sw IN
  /\ At(t, "post")
  /\ sem' = [sem EXCEPT ![s] = @ + 1]
  /\ Goto(t, "done")
  /\ UNCHANGED <<pos, BlkOpn, BlkCls, Loc, tripped>>

-----------------------------------------------------------------------------

Simulate(t) ==
  \/ SemaphoreWait(t)
  \/ StartMove(t)
  \/ AlreadyThere(t)
  \/ EndMove(t)
  \/ SemaphorePost(t)

Signal ==
  \/ \E s \in Switch, v \in BOOLEAN :
       \/ XSWI_EnaOpn_callback(s, v)
       \/ XSWI_EnaCls_callback(s, v)
       \/ XSWI_Loc_callback(s, v)
  \/ \E s \in Switch : XSWI_Opn(s) \/ XSWI_Cls(s)
  \/ \E b \in Breaker : XCBR_callback_Tr(b)

Next == Signal \/ \E t \in Thread : Simulate(t)

(* A created thread runs: it wakes from its sleep and, the threads being
   finitely many, gets the semaphore in the end.  No signal need arrive. *)
Spec == Init /\ [][Next]_vars /\ \A t \in Thread : WF_vars(Simulate(t))

-----------------------------------------------------------------------------
(* Properties.                                                             *)

TypeOK ==
  /\ pos \in [Switch -> Rest \cup {"intermediate"}]
  /\ BlkOpn \in [Switch -> BOOLEAN]
  /\ BlkCls \in [Switch -> BOOLEAN]
  /\ Loc \in [Switch -> BOOLEAN]
  /\ tripped \subseteq Breaker
  /\ sem \in [Switch -> {0, 1}]
  /\ thread \in [Thread -> [pc : Pc, goal : Rest, sw : Switch]]

Holds(t, s) == thread[t].sw = s /\ thread[t].pc \in {"check", "moving", "post"}
Moves(t, s) == thread[t].sw = s /\ thread[t].pc = "moving"

(* Of the threads of one switch at most one is past the semaphore, and the
   semaphore is taken exactly while there is one: no command is run beside
   another and none leaves the semaphore taken. *)
OneMover ==
  \A s \in Switch :
    /\ \A t, u \in Thread : Holds(t, s) /\ Holds(u, s) => t = u
    /\ sem[s] = 0 <=> \E t \in Thread : Holds(t, s)

(* A switch shows the intermediate position exactly while a thread is
   sleeping out its open or close time: it is never left half way, and it
   never seems to rest while its drive runs. *)
IntermediateIffMoving ==
  \A s \in Switch :
    pos[s] = "intermediate" <=> \E t \in Thread : Moves(t, s)

(* The inductive invariant the proofs use. *)
IInv == TypeOK /\ OneMover /\ IntermediateIffMoving

(* What the watchers of a position rely on: see MechanicalSwitch. *)
Drive ==
  [s \in Switch |->
    IF \E t \in Thread : Moves(t, s)
    THEN thread[CHOOSE t \in Thread : Moves(t, s)].goal
    ELSE "rest"]

Mechanical == INSTANCE MechanicalSwitch WITH drive <- Drive
IsMechanicalSwitch == Mechanical!Spec

(* A trip opens the breaker, even when BlkOpn is set and other commands of
   the same breaker are queued before it. *)
TripOpens == \A b \in Breaker : b \in tripped ~> b \notin tripped

(* Every command that was let through comes to its end. *)
CommandsEnd == \A t \in Thread : At(t, "wait") ~> At(t, "done")

=============================================================================
