-------------------------- MODULE MechanicalSwitch --------------------------
(***************************************************************************)
(* What a simulated switch or breaker promises to the nodes that watch its *)
(* position (CSWI, CILO, RREC, the process simulation): the contacts rest  *)
(* open or closed; they leave a rest position only towards the other one,  *)
(* through the intermediate state; and once the drive has started it       *)
(* arrives where it was sent, without turning back.                        *)
(***************************************************************************)

CONSTANT Switch   (* the switches of one IED *)

VARIABLES
  pos,     (* the contact position each switch publishes               *)
  drive    (* where the drive of each switch is heading, or "rest"     *)

vars == <<pos, drive>>

Rest == {"off", "on"}

Init ==
  /\ pos \in [Switch -> Rest]
  /\ drive = [s \in Switch |-> "rest"]

(* The drive starts towards the rest position the contacts are not in. *)
Start(s) ==
  /\ drive[s] = "rest"
  /\ \E goal \in Rest \ {pos[s]} : drive' = [drive EXCEPT ![s] = goal]
  /\ pos' = [pos EXCEPT ![s] = "intermediate"]

(* The contacts arrive. *)
Arrive(s) ==
  /\ drive[s] # "rest"
  /\ pos' = [pos EXCEPT ![s] = drive[s]]
  /\ drive' = [drive EXCEPT ![s] = "rest"]

Next == \E s \in Switch : Start(s) \/ Arrive(s)

Spec == Init /\ [][Next]_vars /\ \A s \in Switch : WF_vars(Arrive(s))

=============================================================================
