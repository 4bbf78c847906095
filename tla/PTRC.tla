-------------------------------- MODULE PTRC --------------------------------
(***************************************************************************)
(* The trip conditioning node (LNs/PTRC.c): several protection functions   *)
(* operate it, over GOOSE or locally, and it trips one breaker.            *)
(*                                                                         *)
(* Its callback runs whenever an Op input is delivered, and an input is    *)
(* delivered over and over: the GOOSE listener runs for retransmissions    *)
(* too, and PIOC and PDIS call it for every sample that exceeds the limit. *)
(* The inputs of one thread are delivered one after the other, those of    *)
(* two threads beside each other, without a lock: a feeder or transformer  *)
(* has the trips of the busbars from the GOOSE receiver and the Op of its  *)
(* own PTOC from the thread of the samples (FEED1.ext:91-93).              *)
(***************************************************************************)
EXTENDS Naturals, Sequences

CONSTANTS
  Op,          (* the Op inputs                                           *)
  Order,       (* the Op inputs in the order of the configuration         *)
  Thread,      (* the threads that deliver them                           *)
  ThreadOf,    (* which thread delivers which input                       *)
  HasEnaOpn    (* the configuration has an EnaOpn input (BUS1, BUS2)      *)

PTRCAssumption ==
  /\ Order \in Seq(Op) /\ \A op \in Op : \E i \in DOMAIN Order : Order[i] = op
  /\ ThreadOf \in [Op -> Thread]
  /\ HasEnaOpn \in BOOLEAN

VARIABLES
  value,        (* the Op inputs: "null" until the first GOOSE message    *)
  EnaOpn,       (* PTRC.EnaOpn                                            *)
  tripstate,    (* PTRC.tripstate                                         *)
  Op_general,   (* the published Op.general                               *)
  Tr_general,   (* the published Tr.general, on which the breaker opens   *)
  thread        (* where each thread is in the callback: the place, the   *)
                (* input it looks at, the value it is publishing          *)

vars == <<value, EnaOpn, tripstate, Op_general, Tr_general, thread>>

Value == {"null", "false", "true"}
Idle == [pc |-> "idle", at |-> 1, to |-> FALSE]
At(t, pc) == thread[t].pc = pc
Goto(t, pc) == thread' = [thread EXCEPT ![t].pc = pc]

Init ==
  /\ value \in [Op -> {"null", "false"}]
  /\ EnaOpn = ~HasEnaOpn
  /\ tripstate = FALSE
  /\ Op_general = FALSE
  /\ Tr_general = FALSE
  /\ thread = [t \in Thread |-> Idle]

-----------------------------------------------------------------------------
(* PTRC_input_Tr_callback, one step for each access to what is shared.     *)

(* Mutant: the callback runs for a new value only. *)
Deliver_changes(op, v) ==
  LET t == ThreadOf[op] IN
  /\ At(t, "idle")
  /\ value' = [value EXCEPT ![op] = v]
  /\ IF v # value[op] THEN Goto(t, "scan") ELSE UNCHANGED thread
  /\ UNCHANGED <<EnaOpn, tripstate, Op_general, Tr_general>>

(* An input is delivered, with a new value or the same again. *)
Deliver(op, v) ==
  LET t == ThreadOf[op] IN
  /\ At(t, "idle")
  /\ value' = [value EXCEPT ![op] = v]
  /\ Goto(t, "scan")
  /\ UNCHANGED <<EnaOpn, tripstate, Op_general, Tr_general>>

Operates(t) == value[Order[thread[t].at]] = "true"
Tripping == ~tripstate /\ EnaOpn

(* Look at the next input; with the first that operates, see whether the
   node has tripped already, *)
Scan(t) ==
  /\ At(t, "scan")
  /\ thread[t].at <= Len(Order)
  /\ thread' = [thread EXCEPT ![t] =
                  IF Operates(t) THEN [pc |-> "test", at |-> @.at, to |-> @.to]
                                 ELSE [pc |-> "scan", at |-> @.at + 1, to |-> @.to]]
  /\ UNCHANGED <<value, EnaOpn, tripstate, Op_general, Tr_general>>

(* ... and publish the trip if it has not. *)
Test(t) ==
  /\ At(t, "test")
  /\ thread' = [thread EXCEPT ![t] =
                  IF Tripping THEN [pc |-> "Op", at |-> @.at, to |-> TRUE]
                              ELSE [pc |-> "scan", at |-> @.at + 1, to |-> FALSE]]
  /\ UNCHANGED <<value, EnaOpn, tripstate, Op_general, Tr_general>>

(* No input has raised the trip: if there is one, it is taken back. *)
ScanEnd(t) ==
  /\ At(t, "scan")
  /\ thread[t].at > Len(Order)
  /\ thread' = [thread EXCEPT ![t] =
                  IF tripstate THEN [pc |-> "Op", at |-> @.at, to |-> FALSE] ELSE Idle]
  /\ UNCHANGED <<value, EnaOpn, tripstate, Op_general, Tr_general>>

PublishOp(t) ==
  /\ At(t, "Op")
  /\ Op_general' = thread[t].to
  /\ Goto(t, "Tr")
  /\ UNCHANGED <<value, EnaOpn, tripstate, Tr_general>>

(* Mutant: only a trip is published, not its end. *)
PublishTr_raise(t) ==
  /\ At(t, "Tr")
  /\ Tr_general' = (Tr_general \/ thread[t].to)
  /\ Goto(t, "state")
  /\ UNCHANGED <<value, EnaOpn, tripstate, Op_general>>

(* Publishing Tr.general runs the callback of the breaker. *)
PublishTr(t) ==
  /\ At(t, "Tr")
  /\ Tr_general' = thread[t].to
  /\ Goto(t, "state")
  /\ UNCHANGED <<value, EnaOpn, tripstate, Op_general>>

(* Mutant: the next scan goes on where this one has stopped. *)
SetTripstate_on(t) ==
  /\ At(t, "state")
  /\ tripstate' = thread[t].to
  /\ Goto(t, "idle")
  /\ UNCHANGED <<value, EnaOpn, Op_general, Tr_general>>

SetTripstate(t) ==
  /\ At(t, "state")
  /\ tripstate' = thread[t].to
  /\ thread' = [thread EXCEPT ![t] = Idle]
  /\ UNCHANGED <<value, EnaOpn, Op_general, Tr_general>>

PTRC_input_EnaOpn_callback(v) ==
  /\ HasEnaOpn
  /\ EnaOpn' = v
  /\ UNCHANGED <<value, tripstate, Op_general, Tr_general, thread>>

-----------------------------------------------------------------------------

Callback(t) ==
  \/ Scan(t)
  \/ Test(t)
  \/ ScanEnd(t)
  \/ PublishOp(t)
  \/ PublishTr(t)
  \/ SetTripstate(t)

Next ==
  \/ \E op \in Op, v \in {"false", "true"} : Deliver(op, v)
  \/ \E v \in BOOLEAN : PTRC_input_EnaOpn_callback(v)
  \/ \E t \in Thread : Callback(t)

Spec == Init /\ [][Next]_vars

-----------------------------------------------------------------------------
(* Properties.                                                             *)

TypeOK ==
  /\ value \in [Op -> Value]
  /\ {EnaOpn, tripstate, Op_general, Tr_general} \subseteq BOOLEAN
  /\ thread \in [Thread -> [pc : {"idle", "scan", "test", "Op", "Tr", "state"},
                            at : 1 .. Len(Order) + 1, to : BOOLEAN]]
  /\ \A t \in Thread : At(t, "idle") => thread[t] = Idle
  /\ \A t \in Thread : At(t, "test") \/ thread[t].to => thread[t].at <= Len(Order)

(* Between callbacks the two published values and the state agree. *)
PublishedTogether ==
  (\A t \in Thread : At(t, "idle")) =>
    Op_general = tripstate /\ Tr_general = tripstate

=============================================================================
