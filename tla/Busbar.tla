------------------------------- MODULE Busbar -------------------------------
(***************************************************************************)
(* A protection function that trips a breaker of another IED, as BUS1 does *)
(* with FEED1: the function (LNs/PDIF.c, LNs/PIOC.c, LNs/PDIS.c) operates  *)
(* the trip node of its own IED (PTRC A), released by EnaOpn; its trip is  *)
(* sent by GOOSE, over a network that loses messages, to the trip node of  *)
(* the other IED (PTRC B), which is also operated by another busbar and,   *)
(* on the thread of its samples, by its own PTOC (FEED1.ext:91-93).        *)
(*                                                                         *)
(* A function runs on the thread of the samples.  Its result is published  *)
(* with InputValueHandleExtensionCallbacks, which runs the callback of     *)
(* PTRC A to its end before the function goes on; meanwhile the GOOSE      *)
(* thread may write EnaOpn.  The callback of PTRC B runs on two threads,   *)
(* and nothing keeps them from running it at once.                         *)
(***************************************************************************)
EXTENDS Naturals, Sequences

CONSTANTS
  Phases,      (* the currents a function looks at                        *)
  Hold,        (* PIOC, PDIS: samples an Op stands after the fault (200)  *)
  MinOpTm,     (* PDIF: samples above the threshold that make a trip,     *)
               (* MinOpTmms / samplePeriod_ms (2)                         *)
  MaxNet,      (* messages under way                                      *)
  WithPTOC     (* the kinds beside which the PTOC of B operates: a bound  *)
               (* for TLC, since B knows a busbar by its messages only    *)

Kinds == {"PDIF", "PIOC", "none"}

ASSUME BusbarAssumption ==
  /\ {Phases, MinOpTm, MaxNet} \subseteq Nat \ {0}
  /\ Hold \in Nat
  /\ WithPTOC \subseteq Kinds

VARIABLES
  kind,        (* which function: "PDIF", "PIOC" for PIOC and PDIS, or    *)
               (* "none" if the IED of this busbar does not run           *)
  fault,       (* the currents are above the threshold                    *)
  fn,          (* its callback: the place, and the phases to look at      *)
  timer,       (* tripTimer, or operateTimer_ms in samples                *)
  trip,        (* its field trip                                          *)
  net,         (* the messages under way, by their Tr.general             *)
  above, below,             (* history: for how many samples in a row the *)
                            (* fault has been there, or not               *)
  a_value, a_EnaOpn, a_tripstate, a_Op, a_Tr, a_thread,        (* PTRC A  *)
  b_value, b_EnaOpn, b_tripstate, b_Op, b_Tr, b_thread,        (* PTRC B  *)
  overlap,     (* history: the threads of B whose callback has met the    *)
               (* callback of the other                                   *)
  raced        (* history: callbacks of B have met, and none has          *)
               (* published by itself since                               *)

B_Ops == {"bus1", "bus2", "ptoc"}
B_Threads == {"goose", "samples"}

A == INSTANCE PTRC WITH
       Op <- {"op"}, Order <- <<"op">>, Thread <- {"samples"},
       ThreadOf <- [op \in {"op"} |-> "samples"], HasEnaOpn <- TRUE,
       value <- a_value, EnaOpn <- a_EnaOpn, tripstate <- a_tripstate,
       Op_general <- a_Op, Tr_general <- a_Tr, thread <- a_thread

B == INSTANCE PTRC WITH
       Op <- B_Ops, Order <- <<"bus1", "bus2", "ptoc">>, Thread <- B_Threads,
       ThreadOf <- [op \in B_Ops |-> IF op = "ptoc" THEN "samples" ELSE "goose"],
       HasEnaOpn <- FALSE,
       value <- b_value, EnaOpn <- b_EnaOpn, tripstate <- b_tripstate,
       Op_general <- b_Op, Tr_general <- b_Tr, thread <- b_thread

(* Every Op input of a node is in its order, and has its thread. *)
ASSUME NodesAssumption == A!PTRCAssumption /\ B!PTRCAssumption

a == <<a_value, a_EnaOpn, a_tripstate, a_Op, a_Tr, a_thread>>
b == <<b_value, b_EnaOpn, b_tripstate, b_Op, b_Tr, b_thread, overlap, raced>>
function == <<fn, timer, trip, above, below>>
vars == <<kind, fault, fn, timer, trip, net, above, below,
          a_value, a_EnaOpn, a_tripstate, a_Op, a_Tr, a_thread,
          b_value, b_EnaOpn, b_tripstate, b_Op, b_Tr, b_thread, overlap, raced>>

(* Op.general of the same IED has a value from the start, that of another
   IED has none before the first message. *)
Init ==
  /\ kind \in Kinds
  /\ fault = FALSE
  /\ fn = [pc |-> "idle", over |-> 0]
  /\ timer = 0 /\ trip = FALSE
  /\ net = <<>>
  /\ above = 0 /\ below = Hold + 1
  /\ A!Init /\ a_value = [op \in {"op"} |-> "false"]
  /\ B!Init /\ b_value = [op \in B_Ops |-> IF op = "ptoc" THEN "false" ELSE "null"]
  /\ overlap = {} /\ raced = FALSE

-----------------------------------------------------------------------------
(* The functions.  A counter stays at the first value that makes a         *)
(* difference no more.                                                     *)

UpTo(n, max) == IF n < max THEN n ELSE max

A_idle == A!At("samples", "idle")
Publish(v) == A!Deliver("op", v)

(* The currents change, between two samples. *)
FaultChanges ==
  /\ kind # "none" /\ fn.pc = "idle"
  /\ fault' = ~fault
  /\ UNCHANGED <<kind, function, net, a, b>>

(* The samples of one cycle have been processed: the callback begins, and
   in a fault some of the phases are above the threshold. *)
SampleArrives ==
  /\ kind # "none" /\ fn.pc = "idle" /\ A_idle
  /\ \E n \in (IF fault THEN 1 .. Phases ELSE {0}) : fn' = [pc |-> kind, over |-> n]
  /\ above' = IF fault THEN UpTo(above + 1, MinOpTm) ELSE 0
  /\ below' = IF fault THEN 0 ELSE UpTo(below + 1, Hold + 1)
  /\ UNCHANGED <<kind, fault, timer, trip, net, a, b>>

(* Mutant: the timer goes on from where it was. *)
PhaseAbove_goesOn ==
  /\ fn.pc = "PIOC" /\ fn.over > 0 /\ A_idle
  /\ Publish("true")
  /\ fn' = [fn EXCEPT !.over = @ - 1]
  /\ trip' = TRUE
  /\ UNCHANGED <<kind, fault, timer, net, above, below, b>>

(* PIOC_callback_SMV, PDIS_callback_SMV: every phase publishes by itself, *)
PhaseAbove ==
  /\ fn.pc = "PIOC" /\ fn.over > 0 /\ A_idle
  /\ Publish("true")
  /\ fn' = [fn EXCEPT !.over = @ - 1]
  /\ timer' = 0 /\ trip' = TRUE
  /\ UNCHANGED <<kind, fault, net, above, below, b>>

(* Mutant: the end of the fault is not published. *)
PhasesDone_silent ==
  /\ fn.pc = "PIOC" /\ fn.over = 0 /\ A_idle
  /\ IF timer > Hold /\ trip THEN timer' = 1 /\ trip' = FALSE
                             ELSE timer' = UpTo(timer + 1, Hold + 1) /\ UNCHANGED trip
  /\ fn' = [fn EXCEPT !.pc = "idle"]
  /\ UNCHANGED <<kind, fault, net, above, below, a, b>>

(* ... and the Op is taken back after so many samples without. *)
PhasesDone ==
  /\ fn.pc = "PIOC" /\ fn.over = 0 /\ A_idle
  /\ IF timer > Hold /\ trip
     THEN Publish("false") /\ timer' = 1 /\ trip' = FALSE
     ELSE timer' = UpTo(timer + 1, Hold + 1) /\ UNCHANGED <<trip, a>>
  /\ fn' = [fn EXCEPT !.pc = "idle"]
  /\ UNCHANGED <<kind, fault, net, above, below, b>>

(* PDIF_callback_SMV: the trip is published once, when the difference has
   stood for MinOpTmms, and taken back with the first sample without it. *)
Difference ==
  /\ fn.pc = "PDIF"
  /\ LET t == IF fn.over > 0 THEN UpTo(timer + 1, MinOpTm) ELSE 0
         on == fn.over > 0 /\ t >= MinOpTm
         off == fn.over = 0
     IN /\ timer' = t
        /\ trip' = ((trip \/ on) /\ ~off)
        /\ IF trip' # trip THEN Publish(IF trip' THEN "true" ELSE "false")
                           ELSE UNCHANGED a
  /\ fn' = [pc |-> "idle", over |-> 0]
  /\ UNCHANGED <<kind, fault, net, above, below, b>>

Function == SampleArrives \/ PhaseAbove \/ PhasesDone \/ Difference

-----------------------------------------------------------------------------
(* The trip nodes and the network between them.                            *)

A_callback ==
  /\ A!Scan("samples") \/ A!Test("samples") \/ A!ScanEnd("samples")
     \/ A!PublishOp("samples") \/ A!SetTripstate("samples")
  /\ UNCHANGED <<kind, fault, function, net, b>>

(* Send(v, TRUE): the message goes on its way; FALSE: it is lost. *)
Send(v, sent) ==
  /\ Len(net) < MaxNet
  /\ net' = IF sent THEN Append(net, v) ELSE net

(* The change of Tr.general is sent. *)
A_trip(v, sent) ==
  /\ A!PublishTr("samples")
  /\ a_Tr' = v
  /\ Send(v, sent)
  /\ UNCHANGED <<kind, fault, function, b>>

Retransmit(sent) ==
  /\ kind # "none"
  /\ Send(a_Tr, sent)
  /\ UNCHANGED <<kind, fault, function, a, b>>

(* The GOOSE thread of A: the release may change at any time. *)
Release(v) ==
  /\ kind # "none"
  /\ A!PTRC_input_EnaOpn_callback(v)
  /\ UNCHANGED <<kind, fault, function, net, b>>

BooleanOf(v) == IF v THEN "true" ELSE "false"

(* An input of B is delivered: its callback begins, maybe beside another. *)
B_delivers(op, v) ==
  LET meets == \E t \in B_Threads : ~B!At(t, "idle")
  IN /\ B!Deliver(op, v)
     /\ overlap' = IF meets THEN B_Threads ELSE overlap
     /\ raced' = (raced \/ meets)

(* The GOOSE thread of B: a message of this busbar, or of the other. *)
B_receives ==
  /\ net # <<>>
  /\ B_delivers("bus1", BooleanOf(Head(net)))
  /\ net' = Tail(net)
  /\ UNCHANGED <<kind, fault, function, a>>

B_receivesOther(v) ==
  /\ B_delivers("bus2", v)
  /\ UNCHANGED <<kind, fault, function, net, a>>

(* The message of the other busbar is sent again. *)
B_receivesAgain == \E v \in {"false", "true"} : v = b_value["bus2"] /\ B_receivesOther(v)

(* The thread of the samples of B: its PTOC publishes its Op when it trips
   and when its trip ends, and not again in between. *)
B_operates(v) ==
  /\ kind \in WithPTOC /\ b_value["ptoc"] # v
  /\ B_delivers("ptoc", v)
  /\ UNCHANGED <<kind, fault, function, net, a>>

(* A callback that has run by itself leaves what it has published. *)
B_callback(t) ==
  /\ B!Callback(t)
  /\ overlap' = IF B!At(t, "idle")' THEN overlap \ {t} ELSE overlap
  /\ raced' = (raced /\ ~(B!At(t, "state") /\ t \notin overlap))
  /\ UNCHANGED <<kind, fault, function, net, a>>

Next ==
  \/ FaultChanges
  \/ Function
  \/ A_callback
  \/ \E v, sent \in BOOLEAN : A_trip(v, sent)
  \/ \E sent \in BOOLEAN : Retransmit(sent)
  \/ \E v \in BOOLEAN : Release(v)
  \/ B_receives
  \/ \E v \in {"false", "true"} : B_receivesOther(v)
  \/ \E v \in {"false", "true"} : B_operates(v)
  \/ \E t \in B_Threads : B_callback(t)

(* Samples keep coming and the threads go on; of the changes of one kind
   that are sent for ever, and of the retransmissions, the network does not
   lose all; a message that has not been lost is delivered, however many
   come from the other busbar, and so are its retransmissions. *)
Spec ==
  /\ Init /\ [][Next]_vars
  /\ WF_vars(Function)
  /\ WF_vars(A_callback)
  /\ \A v \in BOOLEAN : SF_vars(A_trip(v, TRUE))
  /\ SF_vars(Retransmit(TRUE))
  /\ SF_vars(B_receives) /\ WF_vars(B_receivesAgain)
  /\ \A t \in B_Threads : WF_vars(B_callback(t))

-----------------------------------------------------------------------------
(* Properties.                                                             *)

TypeOK ==
  /\ kind \in Kinds /\ {fault, trip} \subseteq BOOLEAN
  /\ fn \in [pc : {"idle", "PDIF", "PIOC"}, over : 0 .. Phases]
  /\ timer \in 0 .. Hold + MinOpTm + 1
  /\ net \in Seq(BOOLEAN) /\ Len(net) <= MaxNet
  /\ A!TypeOK /\ B!TypeOK
  /\ overlap \subseteq B_Threads /\ raced \in BOOLEAN

(* Between its callbacks the two published values and the state of a trip
   node agree, and the Op that A has was published last.  Callbacks of B that
   meet on its two threads may leave them apart (both have tested tripstate
   before one sets it), and the first that runs by itself and publishes
   brings them together again. *)
PublishedTogether ==
  /\ A!PublishedTogether
  /\ raced \/ B!PublishedTogether
  /\ A_idle /\ fn.pc = "idle" => (a_value["op"] = "true") = trip

(* The differential function operates after a full MinOpTmms of fault and
   not on faults that add up to it; the other two take their Op back only
   after the full delay without one. *)
OperateTimes ==
  [][/\ kind = "PDIF" /\ trip' /\ ~trip => above >= MinOpTm
     /\ kind = "PIOC" /\ trip /\ ~trip' => below > Hold]_vars

(* A fault that stands opens the breaker of the other IED, again and again,
   if the node is released whenever there is a fault, whatever the phases
   do, whatever messages are lost and whatever the other busbar reports; and
   so does an Op of the other busbar that stands, whatever the PTOC of B does
   meanwhile on its thread: that the callback takes a trip back when the same
   Op is delivered again does not keep B from tripping. *)
FaultTrips ==
  /\ [](fault \/ trip => a_EnaOpn) /\ <>[]fault => []<>b_Tr
  /\ <>[](b_value["bus2"] = "true") => []<>b_Tr

(* When the fault is over, and neither the other busbar nor the PTOC of B
   operates, the trips end for good, though the end may be lost on the way;
   that of B unless callbacks that have met have left Tr.general set with
   tripstate clear, when no callback takes it back. *)
BothTripsEnd ==
  <>[](~fault /\ b_value["bus2"] # "true" /\ b_value["ptoc"] # "true")
    => <>[](~a_Tr /\ (raced \/ ~b_Tr))

=============================================================================
