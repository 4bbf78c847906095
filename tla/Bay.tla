-------------------------------- MODULE Bay --------------------------------
(***************************************************************************)
(* One feeder bay as cfg/FEED1.ext wires it: a circuit breaker XCBR1 and   *)
(* its isolators XSWI2..4, each with its controller CSWI, and CILO1, which *)
(* releases the isolators while the breaker is open.                       *)
(*                                                                         *)
(* Nothing is queued between these nodes.  The thread that publishes a     *)
(* position calls the subscribers of the attribute one after the other     *)
(* (InputValueHandleExtensionCallbacks), and a subscriber that publishes   *)
(* in turn calls its own.  "chain" holds the calls of this kind that the   *)
(* breaker's thread has still to make.  Meanwhile every other thread runs. *)
(***************************************************************************)
EXTENDS Switchgear, Sequences

CONSTANTS
  Cb,            (* the breaker XCBR1                                     *)
  Isolators      (* the isolators, in the order the configuration names   *)
                 (* the subscribers of CILO1                              *)

Isolator == Switch \ {Cb}

ASSUME BayAssumption ==
  /\ Breaker = {Cb}
  /\ Cb \in Switch
  /\ Isolators \in Seq(Isolator)
  /\ \A s \in Isolator : \E i \in DOMAIN Isolators : Isolators[i] = s

VARIABLES
  CILO_Ena,      (* CILO.EnaOpn and CILO.EnaCls, by the kind of command   *)
  CSWI_Ena,      (* CSWI.EnaOpn and CSWI.EnaCls of the isolators          *)
  chain,         (* the callbacks the breaker's thread has still to make  *)
  control        (* the controls a client started that have not given     *)
                 (* their pulse yet: "idle", or the position wanted       *)

allVars == <<vars, CILO_Ena, CSWI_Ena, chain, control>>

(* The release for a command, and the command that reaches a position. *)
Cmd == {"Opn", "Cls"}
CmdOf(goal) == IF goal = "off" THEN "Opn" ELSE "Cls"
Blk(k) == IF k = "Opn" THEN BlkOpn ELSE BlkCls

(* What CILO1 reads from a position: only an open breaker is safe. *)
ParsePos(p) == p # "off"

-----------------------------------------------------------------------------

(* The start is over: the nodes are attached (open_server.c:433) and the
   plugin has placed every switch, with all the calls that causes.  The server
   answers clients before that (open_server.c:412); what they do meanwhile is
   left out. *)
BayInit ==
  /\ Init
  /\ CILO_Ena = [k \in Cmd |-> ~ParsePos(pos[Cb])]
  /\ CSWI_Ena = [s \in Isolator |-> CILO_Ena]
  /\ BlkOpn = [s \in Switch |-> s # Cb /\ ParsePos(pos[Cb])]
  /\ BlkCls = [s \in Switch |-> s # Cb /\ ParsePos(pos[Cb])]
  /\ chain = <<>>
  /\ control = [s \in Switch |-> "idle"]

-----------------------------------------------------------------------------
(* The interlocking chain: XCBR1.Pos -> CILO1 -> CSWI2.. -> XSWI2..        *)

(* The calls of SetEnaOpn or SetEnaCls: the subscribers of the attribute in
   their order, then the field of CILO itself. *)
SetEna(k, state) ==
  LET call(lns) == [i \in DOMAIN Isolators |->
                     [ln |-> lns, sw |-> Isolators[i], cmd |-> k, ena |-> state]]
  IN  call("CSWI") \o call("XSWI")
        \o <<[ln |-> "CILO", sw |-> Cb, cmd |-> k, ena |-> state]>>

(* Mutant: a release that was taken back is never given again. *)
CILO_not_callback_latched(p) ==
  LET state == ~ParsePos(p)
      set(k) == IF CILO_Ena[k] /\ ~state THEN SetEna(k, state) ELSE <<>>
  IN  chain' = set("Opn") \o set("Cls")

(* The breaker's position p has been published.  The fields of CILO are
   written by this thread alone, so both can be compared at once. *)
CILO_not_callback(p) ==
  LET state == ~ParsePos(p)
      set(k) == IF state # CILO_Ena[k] THEN SetEna(k, state) ELSE <<>>
  IN  chain' = set("Opn") \o set("Cls")

Call(ln) == chain # <<>> /\ Head(chain).ln = ln /\ chain' = Tail(chain)

CallCSWI ==
  LET c == Head(chain) IN
  /\ Call("CSWI")
  /\ CSWI_Ena' = [CSWI_Ena EXCEPT ![c.sw][c.cmd] = c.ena]
  /\ UNCHANGED <<vars, CILO_Ena, control>>

CallXSWI ==
  LET c == Head(chain) IN
  /\ Call("XSWI")
  /\ IF c.cmd = "Opn" THEN XSWI_EnaOpn_callback(c.sw, c.ena)
                      ELSE XSWI_EnaCls_callback(c.sw, c.ena)
  /\ UNCHANGED <<CILO_Ena, CSWI_Ena, control>>

CallCILO ==
  LET c == Head(chain) IN
  /\ Call("CILO")
  /\ CILO_Ena' = [CILO_Ena EXCEPT ![c.cmd] = c.ena]
  /\ UNCHANGED <<vars, CSWI_Ena, control>>

Deliver == CallCSWI \/ CallXSWI \/ CallCILO

-----------------------------------------------------------------------------
(* The commands of a client, and the trip.                                 *)

(* checkHandler of the controller of s; CSWI1 has no interlocking input. *)
Operate(s, goal) ==
  /\ control[s] = "idle"
  /\ s # Cb => CSWI_Ena[s][CmdOf(goal)]
  /\ control' = [control EXCEPT ![s] = goal]
  /\ UNCHANGED <<vars, CILO_Ena, CSWI_Ena, chain>>

(* The first call of the control handler: pulseOp calls the switch, which
   lets the command through or drops it.  The handler then only waits for
   the position or for its time to run out; the client may operate again
   in either case, so nothing is kept of the wait. *)
Pulse(s) ==
  /\ control[s] # "idle"
  /\ control' = [control EXCEPT ![s] = "idle"]
  /\ UNCHANGED <<CILO_Ena, CSWI_Ena, chain>>
  /\ \/ control[s] = "off" /\ XSWI_Opn(s)
     \/ control[s] = "on" /\ XSWI_Cls(s)
     \/ Blk(CmdOf(control[s]))[s] /\ UNCHANGED vars

(* PTRC1 trips the breaker. *)
Trip ==
  /\ XCBR_callback_Tr(Cb)
  /\ UNCHANGED <<CILO_Ena, CSWI_Ena, chain, control>>

-----------------------------------------------------------------------------
(* The simulation threads.  The breaker's thread is inside the calls of    *)
(* the chain before it goes on.                                            *)

(* Mutant: the drive sets the chain off and does not wait for its calls. *)
SimulateBay_async(t) ==
  /\ Simulate(t)
  /\ IF pos'[Cb] # pos[Cb] THEN CILO_not_callback(pos'[Cb]) ELSE UNCHANGED chain
  /\ UNCHANGED <<CILO_Ena, CSWI_Ena, control>>

SimulateBay(t) ==
  /\ Holds(t, Cb) => chain = <<>>
  /\ Simulate(t)
  /\ IF pos'[Cb] # pos[Cb] THEN CILO_not_callback(pos'[Cb]) ELSE UNCHANGED chain
  /\ UNCHANGED <<CILO_Ena, CSWI_Ena, control>>

BayNext ==
  \/ Deliver
  \/ \E s \in Switch : Pulse(s) \/ \E goal \in Rest : Operate(s, goal)
  \/ Trip
  \/ \E t \in Thread : SimulateBay(t)

(* The threads run on.  No client need send anything, and a control that
   was accepted gives its pulse. *)
BaySpec ==
  /\ BayInit /\ [][BayNext]_allVars
  /\ WF_allVars(Deliver)
  /\ \A t \in Thread : WF_allVars(SimulateBay(t))
  /\ \A s \in Switch : WF_allVars(Pulse(s))

-----------------------------------------------------------------------------
(* Properties.                                                             *)

BayTypeOK ==
  /\ TypeOK
  /\ CILO_Ena \in [Cmd -> BOOLEAN]
  /\ CSWI_Ena \in [Isolator -> [Cmd -> BOOLEAN]]
  /\ chain \in Seq([ln : {"CSWI", "XSWI", "CILO"}, sw : Switch,
                    cmd : Cmd, ena : BOOLEAN])
  /\ control \in [Switch -> Rest \cup {"idle"}]

(* Once a position of the breaker has been told to everyone, all agree on
   it: the isolators are released, for both commands and in both places the
   release is kept, exactly if the breaker is open. *)
InterlockFollowsBreaker ==
  chain = <<>> =>
    \A k \in Cmd :
      /\ CILO_Ena[k] = (pos[Cb] = "off")
      /\ \A s \in Isolator : /\ CSWI_Ena[s][k] = (pos[Cb] = "off")
                             /\ Blk(k)[s] = (pos[Cb] # "off")

(* No command gets through to an isolator unless the breaker is open or is
   just telling that it no longer is. *)
Commands(s) == {t \in Thread : thread[t].pc # "unborn" /\ thread[t].sw = s}
CommandNeedsOpenBreaker ==
  [][\A s \in Isolator :
       Commands(s)' # Commands(s) => pos[Cb] = "off" \/ chain # <<>>]_allVars

(* A trip opens the breaker, whatever the chain holds up, and the isolators
   come to be released while it is open. *)
TripReleases ==
  Cb \in tripped ~>
    pos[Cb] = "off" /\ \A s \in Isolator, k \in Cmd : CSWI_Ena[s][k] /\ ~Blk(k)[s]

(* README.md:44, "the disconnector is protected by interlocking, and cannot
   open/close if the circuitbreaker is closed".  The releases are looked at
   when the command arrives and no more when its thread moves the switch. *)
NoMoveUnderLoad ==
  [][\A s \in Isolator :
       pos[s] # "intermediate" /\ pos'[s] = "intermediate" => pos[Cb] # "on"]_allVars

=============================================================================
