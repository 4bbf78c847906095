---------------------------- MODULE BusbarProofs ----------------------------
(***************************************************************************)
(* Proofs about Busbar: the types, that the published values of each trip  *)
(* node and the state it keeps agree whenever it is not in its callback,   *)
(* and that the protection functions operate and reset no earlier than     *)
(* their delays say, for any number of phases and any delay.               *)
(*                                                                         *)
(* What is published depends on where the callback is, and for node B, on  *)
(* whether its callback runs by itself; the timers of the functions are    *)
(* tied to the history of the fault: with how far each may be ahead of the *)
(* other, the properties are inductive.                                    *)
(***************************************************************************)
EXTENDS Busbar, TLAPS

-----------------------------------------------------------------------------
(* The inductive invariant.                                                *)

(* What a node has published, by the place its callback is at: Op.general
   is published first, then Tr.general, and the state is set last. *)
Together(t, tripstate, Op_general, Tr_general) ==
  /\ t.pc \in {"scan", "test"} => ~t.to
  /\ Op_general = IF t.pc \in {"Tr", "state"} THEN t.to ELSE tripstate
  /\ Tr_general = IF t.pc = "state" THEN t.to ELSE tripstate

A_Inv ==
  /\ A!TypeOK
  /\ Together(a_thread["samples"], a_tripstate, a_Op, a_Tr)

(* The callback of node B runs on this thread, if at all. *)
B_alone(t) == \A s \in B_Threads \ {t} : b_thread[s].pc = "idle"

(* What a callback of node B has published so far, if none has met it. *)
B_published(t) ==
  /\ b_thread[t].pc \in {"Tr", "state"} => b_Op = b_thread[t].to
  /\ b_thread[t].pc = "state" => b_Tr = b_thread[t].to

(* Callbacks of node B that have not met run by themselves, and as long as
   none has met another since the last, all is as with one thread. *)
B_Inv ==
  /\ B!TypeOK /\ overlap \subseteq B_Threads /\ raced \in BOOLEAN
  /\ \A t \in B_Threads : b_thread[t].pc \in {"scan", "test"} => ~b_thread[t].to
  /\ \A t \in overlap : b_thread[t].pc # "idle"
  /\ \A t \in B_Threads \ overlap : b_thread[t].pc # "idle" => B_alone(t) /\ B_published(t)
  /\ overlap # {} => raced
  /\ ~raced => \E t \in B_Threads :
                 B_alone(t) /\ Together(b_thread[t], b_tripstate, b_Op, b_Tr)

Types ==
  /\ kind \in Kinds /\ fault \in BOOLEAN /\ trip \in BOOLEAN
  /\ fn \in [pc : {"idle", kind}, over : 0 .. Phases]
  /\ timer \in Nat /\ above \in 0 .. MinOpTm /\ below \in 0 .. Hold + 1
  /\ kind = "none" => fn.pc = "idle" /\ timer = 0
  /\ net \in Seq(BOOLEAN) /\ Len(net) <= MaxNet

(* The timer of the differential function counts the samples of the fault,
   except the one its callback has yet to look at. *)
CountsAbove ==
  kind = "PDIF" =>
    IF fn.pc = "idle" THEN timer = above
    ELSE /\ timer <= MinOpTm
         /\ above = IF fn.over > 0 THEN UpTo(timer + 1, MinOpTm) ELSE 0

(* While the Op of the other two stands, their timer is ahead of the samples
   without a fault by the one it counts at the end of a callback at most. *)
CountsBelow ==
  kind = "PIOC" =>
    /\ timer <= Hold + 1
    /\ trip /\ fn.pc = "idle" => timer <= below + 1
    /\ trip /\ fn.pc = "PIOC" /\ fn.over = 0 => timer <= below

(* The Op that node A has is the trip of the function. *)
Published == (a_value["op"] = "true") <=> trip

IInv == Types /\ A_Inv /\ B_Inv /\ CountsAbove /\ CountsBelow /\ Published

-----------------------------------------------------------------------------
(* The constants and the types.                                            *)

USE DEF Kinds

LEMMA Constants ==
  /\ Phases \in Nat /\ Phases > 0 /\ Hold \in Nat
  /\ MinOpTm \in Nat /\ MinOpTm > 0 /\ MaxNet \in Nat /\ MaxNet > 0
  BY BusbarAssumption

(* Counting up to a bound. *)
LEMMA UpToBound ==
  ASSUME NEW n \in Nat, NEW max \in Nat
  PROVE  /\ UpTo(n, max) \in Nat /\ UpTo(n, max) <= max /\ UpTo(n, max) <= n
         /\ n <= max => UpTo(n, max) = n
         /\ n >= max => UpTo(n, max) = max
  BY DEF UpTo

-----------------------------------------------------------------------------
(* The trip nodes.                                                         *)

(* A step of node A. *)
A_Step ==
  \/ \E v \in {"false", "true"} : A!Deliver("op", v)
  \/ A!Callback("samples")
  \/ \E v \in BOOLEAN : A!PTRC_input_EnaOpn_callback(v)
  \/ UNCHANGED a

(* A step of the callback of node B, with what it does to the history. *)
B_runs(t) ==
  /\ B!Callback(t)
  /\ overlap' = IF B!At(t, "idle")' THEN overlap \ {t} ELSE overlap
  /\ raced' = (raced /\ ~(B!At(t, "state") /\ t \notin overlap))

B_Step ==
  \/ \E op \in B_Ops, v \in {"false", "true"} : B_delivers(op, v)
  \/ \E t \in B_Threads : B_runs(t)
  \/ UNCHANGED b

(* A step of node A keeps what is true of it. *)
LEMMA A_Stays == ASSUME A_Inv, A_Step PROVE A_Inv'
<1> DEFINE t == a_thread["samples"]
<1> USE DEF A_Inv, A!TypeOK, A!At, A!Idle, A!Value
<1>1. /\ a_thread = [s \in {"samples"} |-> t]
      /\ t \in [pc : {"idle", "scan", "test", "Op", "Tr", "state"}, at : 1 .. 2, to : BOOLEAN]
      /\ t.pc = "idle" => t = A!Idle
      /\ t.pc = "test" \/ t.to => t.at = 1
      /\ Len(<<"op">>) = 1
  OBVIOUS
<1>2. CASE \E v \in {"false", "true"} : A!Deliver("op", v)
  BY <1>1, <1>2 DEF A!Deliver, A!Goto, Together
<1>3. CASE A!Scan("samples")
  BY <1>1, <1>3 DEF A!Scan, Together
<1>11. CASE A!Test("samples")
  BY <1>1, <1>11 DEF A!Test, Together
<1>4. CASE A!ScanEnd("samples")
  BY <1>1, <1>4 DEF A!ScanEnd, Together
<1>5. CASE A!PublishOp("samples")
  BY <1>1, <1>5 DEF A!PublishOp, A!Goto, Together
<1>6. CASE A!PublishTr("samples")
  BY <1>1, <1>6 DEF A!PublishTr, A!Goto, Together
<1>7. CASE A!SetTripstate("samples")
  BY <1>1, <1>7 DEF A!SetTripstate, Together
<1>8. CASE \E v \in BOOLEAN : A!PTRC_input_EnaOpn_callback(v)
  BY <1>1, <1>8 DEF A!PTRC_input_EnaOpn_callback, Together
<1>9. CASE UNCHANGED a
  BY <1>9 DEF a, Together
<1>10. QED
  BY <1>2, <1>3, <1>4, <1>5, <1>6, <1>7, <1>8, <1>9, <1>11 DEF A_Step, A!Callback

(* Which threads of node B are in the callback, and where. *)
LEMMA B_Threading ==
  ASSUME B_Inv
  PROVE  /\ b_thread = [t \in B_Threads |-> b_thread[t]]
         /\ \A t \in B_Threads :
              /\ b_thread[t] \in [pc : {"idle", "scan", "test", "Op", "Tr", "state"},
                                  at : 1 .. 4, to : BOOLEAN]
              /\ b_thread[t].pc = "idle" => b_thread[t] = B!Idle
              /\ b_thread[t].pc = "test" \/ b_thread[t].to => b_thread[t].at <= 3
         /\ Len(<<"bus1", "bus2", "ptoc">>) = 3
  BY DEF B_Inv, B!TypeOK, B!At

(* A delivery to node B begins a callback, beside another or by itself. *)
LEMMA B_DeliverStays ==
  ASSUME B_Inv, NEW op \in B_Ops, NEW v \in {"false", "true"}, B_delivers(op, v)
  PROVE  B_Inv'
<1> DEFINE t == IF op = "ptoc" THEN "samples" ELSE "goose"
           o == IF op = "ptoc" THEN "goose" ELSE "samples"
<1> USE DEF B_Threads, B!At, B!Idle
<1>1. /\ t \in B_Threads /\ o \in B_Threads /\ t # o /\ B_Threads = {t, o}
      /\ b_thread[t].pc = "idle"
      /\ b_thread' = [b_thread EXCEPT ![t].pc = "scan"]
      /\ b_value' = [b_value EXCEPT ![op] = v]
      /\ UNCHANGED <<b_EnaOpn, b_tripstate, b_Op, b_Tr>>
      /\ t \notin overlap
  BY DEF B_delivers, B!Deliver, B!Goto, B_Inv, B_Ops
<1>2. /\ overlap' = IF b_thread[o].pc # "idle" THEN B_Threads ELSE overlap
      /\ raced' = (raced \/ b_thread[o].pc # "idle")
  BY <1>1 DEF B_delivers
<1>3. b_thread[t] = [pc |-> "idle", at |-> 1, to |-> FALSE]
  BY <1>1, B_Threading
<1>4. /\ b_thread'[t].pc = "scan" /\ b_thread'[t].at = 1 /\ b_thread'[t].to = FALSE
      /\ b_thread'[o] = b_thread[o]
  <2>1. b_thread'[t] = [b_thread[t] EXCEPT !.pc = "scan"] /\ b_thread'[o] = b_thread[o]
    BY <1>1, B_Threading
  <2>2. b_thread[t] \in [pc : {"idle", "scan", "test", "Op", "Tr", "state"},
                         at : 1 .. 4, to : BOOLEAN]
    BY <1>1, B_Threading
  <2> HIDE DEF t, o
  <2>3. b_thread[t].at = 1 /\ b_thread[t].to = FALSE
    BY <1>3
  <2>4. QED
    BY <2>1, <2>2, <2>3
<1>5. B!TypeOK' /\ overlap' \subseteq B_Threads /\ raced' \in BOOLEAN
  BY <1>1, <1>2, <1>4, B_Threading DEF B_Inv, B!TypeOK, B!Value, B_Ops
<1>6. \A u \in B_Threads : b_thread'[u].pc \in {"scan", "test"} => ~b_thread'[u].to
  BY <1>1, <1>4 DEF B_Inv
<1>7. \A u \in overlap' : b_thread'[u].pc # "idle"
  BY <1>1, <1>2, <1>4 DEF B_Inv
<1>8. ASSUME NEW u \in B_Threads \ overlap', b_thread'[u].pc # "idle"
      PROVE  (B_alone(u) /\ B_published(u))'
  BY <1>1, <1>2, <1>4, <1>8 DEF B_Inv, B_alone, B_published
<1>9. overlap' # {} => raced'
  BY <1>1, <1>2 DEF B_Inv
<1>10. ASSUME ~raced'
       PROVE  (B_alone(t) /\ Together(b_thread[t], b_tripstate, b_Op, b_Tr))'
  <2>1. ~raced /\ b_thread[o].pc = "idle"
    BY <1>2, <1>10
  <2>2. b_Op = b_tripstate /\ b_Tr = b_tripstate
    BY <1>1, <2>1 DEF B_Inv, Together
  <2>3. QED
    BY <1>1, <1>4, <2>1, <2>2 DEF B_alone, Together
<1>11. QED
  BY <1>1, <1>5, <1>6, <1>7, <1>8, <1>9, <1>10 DEF B_Inv

(* A step of one thread of node B: what the callback may do at its place. *)
B_Place(t) ==
  LET pc == b_thread[t].pc
      to == b_thread[t].to
      n == b_thread'[t]
  IN \/ /\ pc \in {"scan", "test"} /\ n.pc \in {"scan", "test", "Op"}
        /\ n.pc # "Op" => ~n.to
        /\ UNCHANGED <<b_tripstate, b_Op, b_Tr>>
     \/ /\ pc = "scan" /\ n.pc = "idle" /\ UNCHANGED <<b_tripstate, b_Op, b_Tr>>
     \/ /\ pc = "Op" /\ n.pc = "Tr" /\ n.to = to
        /\ b_Op' = to /\ UNCHANGED <<b_tripstate, b_Tr>>
     \/ /\ pc = "Tr" /\ n.pc = "state" /\ n.to = to
        /\ b_Tr' = to /\ UNCHANGED <<b_tripstate, b_Op>>
     \/ /\ pc = "state" /\ n.pc = "idle"
        /\ b_tripstate' = to /\ UNCHANGED <<b_Op, b_Tr>>

LEMMA B_CallbackPlace ==
  ASSUME B_Inv, NEW t \in B_Threads, B!Callback(t)
  PROVE  /\ B!TypeOK' /\ B_Place(t)
         /\ \A s \in B_Threads \ {t} : b_thread'[s] = b_thread[s]
<1> USE B_Threading DEF B!At, B!Idle, B_Threads
<1> DEFINE r == b_thread[t]
<1>1. /\ r \in [pc : {"idle", "scan", "test", "Op", "Tr", "state"}, at : 1 .. 4, to : BOOLEAN]
      /\ r.pc = "test" \/ r.to => r.at <= 3
      /\ r.pc \in {"scan", "test"} => ~r.to
      /\ B!TypeOK
  BY DEF B_Inv
<1>2. CASE B!Scan(t)
  BY <1>1, <1>2 DEF B!Scan, B_Place, B!TypeOK
<1>3. CASE B!Test(t)
  BY <1>1, <1>3 DEF B!Test, B_Place, B!TypeOK
<1>4. CASE B!ScanEnd(t)
  <2>1. b_thread' = [b_thread EXCEPT ![t] = IF b_tripstate
                       THEN [pc |-> "Op", at |-> r.at, to |-> FALSE] ELSE B!Idle]
    BY <1>4 DEF B!ScanEnd
  <2>2. /\ b_thread'[t] = (IF b_tripstate
                       THEN [pc |-> "Op", at |-> r.at, to |-> FALSE] ELSE B!Idle)
        /\ \A s \in B_Threads \ {t} : b_thread'[s] = b_thread[s]
    BY <2>1
  <2>3. r.pc = "scan" /\ UNCHANGED <<b_value, b_EnaOpn, b_tripstate, b_Op, b_Tr>>
    BY <1>4 DEF B!ScanEnd
  <2>4. B_Place(t)
    BY <2>2, <2>3 DEF B_Place
  <2>5. r.at \in 1 .. 4 /\ b_tripstate \in BOOLEAN
    BY <1>1 DEF B!TypeOK
  <2>6. CASE b_tripstate
    <3>1. b_thread'[t] = [pc |-> "Op", at |-> r.at, to |-> FALSE]
      BY <2>2, <2>6
    <3>2. B!TypeOK'
      BY <1>1, <2>1, <2>2, <2>3, <2>5, <3>1 DEF B!TypeOK
    <3>3. QED
      BY <2>2, <2>4, <3>2
  <2>7. CASE ~b_tripstate
    <3>1. b_thread'[t] = [pc |-> "idle", at |-> 1, to |-> FALSE]
      BY <2>2, <2>7
    <3>2. B!TypeOK'
      <4>1. b_thread' = [b_thread EXCEPT ![t] = [pc |-> "idle", at |-> 1, to |-> FALSE]]
        BY <2>1, <2>7
      <4>2. b_thread' \in [B_Threads ->
                 [pc : {"idle", "scan", "test", "Op", "Tr", "state"},
                  at : 1 .. Len(<<"bus1", "bus2", "ptoc">>) + 1, to : BOOLEAN]]
        BY <1>1, <4>1 DEF B!TypeOK
      <4>3. \A s \in B_Threads : B!At(s, "idle")' => b_thread'[s] = B!Idle
        BY <1>1, <2>2, <3>1 DEF B!TypeOK
      <4>4. \A s \in B_Threads : B!At(s, "test")' \/ b_thread'[s].to
                                   => b_thread'[s].at <= Len(<<"bus1", "bus2", "ptoc">>)
        BY <1>1, <2>2, <3>1 DEF B!TypeOK
      <4>5. QED
        BY <1>1, <2>3, <4>2, <4>3, <4>4 DEF B!TypeOK
    <3>3. QED
      BY <2>2, <2>4, <3>2
  <2>8. QED
    BY <2>6, <2>7
<1>5. CASE B!PublishOp(t)
  BY <1>1, <1>5 DEF B!PublishOp, B!Goto, B_Place, B!TypeOK
<1>6. CASE B!PublishTr(t)
  BY <1>1, <1>6 DEF B!PublishTr, B!Goto, B_Place, B!TypeOK
<1>7. CASE B!SetTripstate(t)
  BY <1>1, <1>7 DEF B!SetTripstate, B_Place, B!TypeOK
<1>8. QED
  BY <1>2, <1>3, <1>4, <1>5, <1>6, <1>7 DEF B!Callback

(* A callback of node B goes on. *)
LEMMA B_RunStays ==
  ASSUME B_Inv, NEW t \in B_Threads, B_runs(t)
  PROVE  B_Inv'
<1> DEFINE o == IF t = "samples" THEN "goose" ELSE "samples"
           pc == b_thread[t].pc
           n == b_thread'[t]
<1> USE DEF B_Threads, B!At
<1>1. B!TypeOK' /\ B_Place(t) /\ b_thread'[o] = b_thread[o]
  BY B_CallbackPlace DEF B_runs
<1>2. /\ o \in B_Threads /\ t # o /\ B_Threads = {t, o}
      /\ pc # "idle"
      /\ overlap' = IF n.pc = "idle" THEN overlap \ {t} ELSE overlap
      /\ raced' = (raced /\ ~(pc = "state" /\ t \notin overlap))
  BY <1>1 DEF B_runs, B_Place
<1>3. overlap' \subseteq B_Threads /\ raced' \in BOOLEAN
  BY <1>2 DEF B_Inv
<1>4. \A u \in B_Threads : b_thread'[u].pc \in {"scan", "test"} => ~b_thread'[u].to
  BY <1>1, <1>2 DEF B_Inv, B_Place
<1>5. \A u \in overlap' : b_thread'[u].pc # "idle"
  BY <1>1, <1>2 DEF B_Inv
<1>6. t \notin overlap => b_thread[o].pc = "idle" /\ overlap = {} /\ B_published(t)
  BY <1>2 DEF B_Inv, B_alone
<1>7. ASSUME NEW u \in B_Threads \ overlap', b_thread'[u].pc # "idle"
      PROVE  (B_alone(u) /\ B_published(u))'
  BY <1>1, <1>2, <1>6, <1>7 DEF B_Inv, B_alone, B_published, B_Place
<1>8. overlap' # {} => raced'
  BY <1>2, <1>6 DEF B_Inv
<1>9. ASSUME ~raced' 
      PROVE  (B_alone(t) /\ Together(b_thread[t], b_tripstate, b_Op, b_Tr))'
  <2>1. t \notin overlap
    BY <1>2, <1>9 DEF B_Inv
  <2>2. b_thread[o].pc = "idle"
    BY <1>6, <2>1
  <2>3. CASE pc = "state"
    BY <1>1, <1>2, <1>6, <2>1, <2>2, <2>3 DEF B_alone, B_published, B_Place, Together
  <2>4. CASE pc # "state"
    <3>1. Together(b_thread[t], b_tripstate, b_Op, b_Tr)
      BY <1>2, <1>9, <2>1, <2>4 DEF B_Inv, B_alone
    <3>2. QED
      BY <1>1, <1>2, <2>2, <2>4, <3>1 DEF B_alone, B_Place, Together
  <2>5. QED
    BY <2>3, <2>4
<1>10. QED
  BY <1>1, <1>2, <1>3, <1>4, <1>5, <1>7, <1>8, <1>9 DEF B_Inv

(* ... and a step of node B. *)
LEMMA B_Stays == ASSUME B_Inv, B_Step PROVE B_Inv'
<1>1. CASE UNCHANGED b
  BY <1>1 DEF b, B_Inv, B!TypeOK, B!At, B_alone, B_published, Together
<1>2. QED
  BY <1>1, B_DeliverStays, B_RunStays DEF B_Step

-----------------------------------------------------------------------------
(* The steps of the busbar.                                                *)

LEMMA InitIsFine == Init => IInv
<1> SUFFICES ASSUME Init PROVE IInv
  OBVIOUS
<1> USE Constants DEF Init
<1>1. Types
  <2>1. kind \in Kinds /\ fault \in BOOLEAN /\ trip \in BOOLEAN
    OBVIOUS
  <2>2. /\ fn \in [pc : {"idle", kind}, over : 0 .. Phases]
        /\ fn.pc = "idle" /\ timer = 0
    OBVIOUS
  <2>3. timer \in Nat /\ above \in 0 .. MinOpTm /\ below \in 0 .. Hold + 1
    OBVIOUS
  <2>4. net \in Seq(BOOLEAN) /\ Len(net) <= MaxNet
    OBVIOUS
  <2>5. QED
    BY <2>1, <2>2, <2>3, <2>4 DEF Types
<1>2. A_Inv
  <2> USE DEF A!Init, A!Idle, A!Value, A!At
  <2>1. a_value \in [{"op"} -> A!Value]
    OBVIOUS
  <2>2. {a_EnaOpn, a_tripstate, a_Op, a_Tr} \subseteq BOOLEAN
    OBVIOUS
  <2>3. a_thread["samples"] = A!Idle
    OBVIOUS
  <2>4. a_thread \in [{"samples"} -> [pc : {"idle", "scan", "test", "Op", "Tr", "state"},
                                     at : 1 .. Len(<<"op">>) + 1, to : BOOLEAN]]
    OBVIOUS
  <2>5. QED
    BY <2>1, <2>2, <2>3, <2>4 DEF A_Inv, Together, A!TypeOK
<1>3. B_Inv
  <2> USE DEF B!Init, B!Idle, B!Value, B!At, B_Ops, B_Threads
  <2>1. b_value \in [B_Ops -> B!Value]
    OBVIOUS
  <2>2. {b_EnaOpn, b_tripstate, b_Op, b_Tr} \subseteq BOOLEAN
    OBVIOUS
  <2>3. \A t \in B_Threads : b_thread[t] = B!Idle
    OBVIOUS
  <2>4. b_thread \in [B_Threads -> [pc : {"idle", "scan", "test", "Op", "Tr", "state"},
                                   at : 1 .. Len(<<"bus1", "bus2", "ptoc">>) + 1,
                                   to : BOOLEAN]]
    OBVIOUS
  <2>5. B!TypeOK
    BY <2>1, <2>2, <2>3, <2>4 DEF B!TypeOK
  <2>6. B_alone("goose") /\ Together(b_thread["goose"], b_tripstate, b_Op, b_Tr)
    BY <2>3 DEF B_alone, Together
  <2>7. QED
    BY <2>3, <2>5, <2>6 DEF B_Inv
<1>4. CountsAbove /\ CountsBelow
  BY DEF CountsAbove, CountsBelow
<1>5. Published
  BY DEF Published
<1>6. QED
  BY <1>1, <1>2, <1>3, <1>4, <1>5 DEF IInv

(* Whatever happens is one step of each node, or none. *)
LEMMA NodesStep == ASSUME IInv, [Next]_vars PROVE A_Step /\ B_Step
<1> USE DEF A_Step, B_Step
<1>1. CASE FaultChanges
  BY <1>1 DEF FaultChanges
<1>2. CASE SampleArrives
  BY <1>2 DEF SampleArrives
<1>3. CASE PhaseAbove
  BY <1>3 DEF PhaseAbove, Publish
<1>4. CASE PhasesDone
  BY <1>4 DEF PhasesDone, Publish
<1>5. CASE Difference
  BY <1>5 DEF Difference, Publish
<1>6. CASE A_callback
  BY <1>6 DEF A_callback, A!Callback
<1>7. CASE \E v, sent \in BOOLEAN : A_trip(v, sent)
  BY <1>7 DEF A_trip, A!Callback
<1>8. CASE \E sent \in BOOLEAN : Retransmit(sent)
  BY <1>8 DEF Retransmit
<1>9. CASE \E v \in BOOLEAN : Release(v)
  BY <1>9 DEF Release
<1>10. CASE B_receives
  BY <1>10 DEF B_receives, BooleanOf, B_Ops
<1>11. CASE \E v \in {"false", "true"} : B_receivesOther(v) \/ B_operates(v)
  BY <1>11 DEF B_receivesOther, B_operates, B_Ops
<1>12. CASE \E t \in B_Threads : B_callback(t)
  BY <1>12 DEF B_callback, B_runs
<1>13. CASE UNCHANGED vars
  BY <1>13 DEF vars, a, b
<1>14. QED
  BY <1>1, <1>2, <1>3, <1>4, <1>5, <1>6, <1>7, <1>8, <1>9, <1>10, <1>11,
     <1>12, <1>13 DEF Next, Function

(* What only the functions change. *)
Own == <<kind, fault, fn, timer, trip, above, below, a_value>>

(* The nodes, the network and the release leave the functions alone. *)
LEMMA OwnSteps ==
  ASSUME IInv, [Next]_vars
  PROVE FaultChanges \/ Function \/ UNCHANGED Own
<1> USE DEF Own, function, a
<1>1. CASE A_callback
  BY <1>1 DEF A_callback, A!Scan, A!Test, A!ScanEnd, A!PublishOp, A!SetTripstate
<1>2. CASE \E v, sent \in BOOLEAN : A_trip(v, sent)
  BY <1>2 DEF A_trip, A!PublishTr
<1>3. CASE \E sent \in BOOLEAN : Retransmit(sent)
  BY <1>3 DEF Retransmit
<1>4. CASE \E v \in BOOLEAN : Release(v)
  BY <1>4 DEF Release, A!PTRC_input_EnaOpn_callback
<1>5. CASE B_receives
  BY <1>5 DEF B_receives
<1>6. CASE \E v \in {"false", "true"} : B_receivesOther(v) \/ B_operates(v)
  BY <1>6 DEF B_receivesOther, B_operates
<1>7. CASE \E t \in B_Threads : B_callback(t)
  BY <1>7 DEF B_callback
<1>8. CASE UNCHANGED vars
  BY <1>8 DEF vars
<1>9. QED
  BY <1>1, <1>2, <1>3, <1>4, <1>5, <1>6, <1>7, <1>8 DEF Next

(* The network holds no more messages than it can. *)
LEMMA NetworkStep ==
  ASSUME IInv, [Next]_vars
  PROVE net' \in Seq(BOOLEAN) /\ Len(net') <= MaxNet
<1> USE Constants
<1>1. /\ net \in Seq(BOOLEAN) /\ Len(net) <= MaxNet
      /\ a_Tr \in BOOLEAN
  BY DEF IInv, Types, A_Inv, A!TypeOK
<1>2. ASSUME NEW v \in BOOLEAN, NEW sent \in BOOLEAN, Send(v, sent)
      PROVE  net' \in Seq(BOOLEAN) /\ Len(net') <= MaxNet
  <2>1. Len(net) < MaxNet /\ (net' = Append(net, v) \/ net' = net)
    BY <1>2 DEF Send
  <2>2. CASE net' = Append(net, v)
    <3>1. net' \in Seq(BOOLEAN) /\ Len(net') = Len(net) + 1 /\ Len(net) \in Nat
      BY <1>1, <2>2
    <3>2. QED
      BY <2>1, <3>1
  <2>3. QED
    BY <1>1, <2>1, <2>2
<1>3. CASE \E v, sent \in BOOLEAN : A_trip(v, sent)
  BY <1>2, <1>3 DEF A_trip
<1>4. CASE \E sent \in BOOLEAN : Retransmit(sent)
  BY <1>1, <1>2, <1>4 DEF Retransmit
<1>5. CASE B_receives
  BY <1>1, <1>5 DEF B_receives
<1>6. CASE UNCHANGED net
  BY <1>1, <1>6
<1>7. QED
  BY <1>3, <1>4, <1>5, <1>6 DEF Next, Function, FaultChanges, SampleArrives,
     PhaseAbove, PhasesDone, Difference, A_callback, Release, B_receivesOther,
     B_operates, B_callback, vars

-----------------------------------------------------------------------------
(* The functions and the history of the fault.                             *)

Counting == CountsAbove /\ CountsBelow /\ Published

(* What is true of a function, but for the messages under way. *)
FunctionTypes ==
  /\ kind \in Kinds /\ fault \in BOOLEAN /\ trip \in BOOLEAN
  /\ fn \in [pc : {"idle", kind}, over : 0 .. Phases]
  /\ timer \in Nat /\ above \in 0 .. MinOpTm /\ below \in 0 .. Hold + 1
  /\ kind = "none" => fn.pc = "idle" /\ timer = 0

LEMMA SampleStep ==
  ASSUME IInv, SampleArrives PROVE FunctionTypes' /\ Counting'
<1> USE Constants
<1>1. /\ kind \in {"PDIF", "PIOC"} /\ fn.pc = "idle" /\ timer \in Nat
      /\ above \in Nat /\ above <= MinOpTm /\ below \in Nat /\ below <= Hold + 1
      /\ UNCHANGED <<kind, fault, timer, trip, a_value>>
      /\ fault \in BOOLEAN /\ trip \in BOOLEAN
  BY DEF IInv, Types, SampleArrives, a
<1>2. PICK n \in (IF fault THEN 1 .. Phases ELSE {0}) :
        fn' = [pc |-> kind, over |-> n]
  BY DEF SampleArrives
<1>3. /\ n \in Nat /\ n <= Phases /\ (n > 0 <=> fault) /\ (n = 0 <=> ~fault)
      /\ fn' \in [pc : {"idle", kind}, over : 0 .. Phases]
      /\ fn'.pc = kind /\ fn'.over = n
  BY <1>2
<1>4. /\ above' = IF fault THEN UpTo(above + 1, MinOpTm) ELSE 0
      /\ below' = IF fault THEN 0 ELSE UpTo(below + 1, Hold + 1)
  BY DEF SampleArrives
<1>5. above' \in Nat /\ above' <= MinOpTm /\ below' \in Nat /\ below' <= Hold + 1
  BY <1>1, <1>4, UpToBound
<1>6. FunctionTypes'
  BY <1>1, <1>3, <1>5 DEF FunctionTypes
<1>7. CountsAbove'
  <2> SUFFICES ASSUME kind = "PDIF" PROVE CountsAbove'
    BY <1>1 DEF CountsAbove
  <2>1. timer = above
    BY <1>1 DEF IInv, CountsAbove
  <2>2. above' = IF n > 0 THEN UpTo(timer + 1, MinOpTm) ELSE 0
    BY <1>3, <1>4, <2>1
  <2>3. QED
    BY <1>1, <1>3, <2>1, <2>2 DEF CountsAbove
<1>8. CountsBelow'
  <2> SUFFICES ASSUME kind = "PIOC" PROVE CountsBelow'
    BY <1>1 DEF CountsBelow
  <2>1. timer <= Hold + 1 /\ (trip => timer <= below + 1)
    BY <1>1 DEF IInv, CountsBelow
  <2>2. ASSUME trip, n = 0 PROVE timer <= below'
    <3>1. below' = UpTo(below + 1, Hold + 1) /\ timer <= below + 1
      BY <1>3, <1>4, <2>1, <2>2
    <3>2. QED
      BY <1>1, <2>1, <3>1 DEF UpTo
  <2>3. QED
    BY <1>1, <1>3, <2>1, <2>2 DEF CountsBelow
<1>9. Published'
  BY <1>1 DEF IInv, Published
<1>10. QED
  BY <1>6, <1>7, <1>8, <1>9 DEF Counting

(* Publishing a value is what gives it to node A. *)
LEMMA PublishValue ==
  ASSUME A!TypeOK, NEW v \in {"false", "true"}, Publish(v)
  PROVE  a_value'["op"] = v
  BY DEF Publish, A!Deliver, A!TypeOK

LEMMA PhaseStep ==
  ASSUME IInv, PhaseAbove PROVE FunctionTypes' /\ Counting'
<1> USE Constants
<1>1. /\ kind = "PIOC" /\ fn.pc = "PIOC" /\ fn.over \in Nat \ {0} /\ fn.over <= Phases
      /\ fn \in [pc : {"idle", kind}, over : 0 .. Phases]
      /\ above \in Nat /\ above <= MinOpTm /\ below \in Nat /\ below <= Hold + 1
      /\ UNCHANGED <<kind, fault, above, below>>
      /\ fault \in BOOLEAN
      /\ timer' = 0 /\ fn' = [fn EXCEPT !.over = fn.over - 1]
  BY DEF IInv, Types, PhaseAbove
<1>2. trip' = TRUE /\ a_value'["op"] = "true"
  BY PublishValue DEF PhaseAbove, IInv, A_Inv
<1>3. /\ fn' \in [pc : {"idle", kind}, over : 0 .. Phases] /\ fn'.pc = "PIOC"
  BY <1>1
<1>4. FunctionTypes'
  BY <1>1, <1>2, <1>3 DEF FunctionTypes
<1>5. CountsAbove' /\ CountsBelow'
  BY <1>1, <1>3 DEF CountsAbove, CountsBelow
<1>6. Published'
  BY <1>2 DEF Published
<1>7. QED
  BY <1>4, <1>5, <1>6 DEF Counting

LEMMA PhasesDoneStep ==
  ASSUME IInv, PhasesDone
  PROVE  FunctionTypes' /\ Counting' /\ (trip /\ ~trip' => below > Hold)
<1> USE Constants
<1>1. /\ kind = "PIOC" /\ fn.pc = "PIOC" /\ fn.over = 0
      /\ fn \in [pc : {"idle", kind}, over : 0 .. Phases]
      /\ above \in Nat /\ above <= MinOpTm /\ below \in Nat /\ below <= Hold + 1
      /\ UNCHANGED <<kind, fault, above, below>>
      /\ fault \in BOOLEAN /\ trip \in BOOLEAN
      /\ timer \in Nat /\ fn' = [fn EXCEPT !.pc = "idle"]
  BY DEF IInv, Types, PhasesDone
<1>2. /\ fn' \in [pc : {"idle", kind}, over : 0 .. Phases] /\ fn'.pc = "idle"
  BY <1>1
<1>3. timer <= Hold + 1 /\ (trip => timer <= below)
  BY <1>1 DEF IInv, CountsBelow
<1>4. CASE timer > Hold /\ trip
  <2>1. timer' = 1 /\ trip' = FALSE /\ a_value'["op"] = "false"
    BY <1>4, PublishValue DEF PhasesDone, IInv, A_Inv
  <2>2. below > Hold
    BY <1>1, <1>3, <1>4
  <2>3. FunctionTypes' /\ CountsAbove'
    <3>1. CountsAbove'
      BY <1>1 DEF CountsAbove
    <3>2. trip' \in BOOLEAN /\ timer' \in Nat
      BY <2>1
    <3>3. QED
      BY <1>1, <1>2, <3>1, <3>2 DEF FunctionTypes
  <2>4. CountsBelow'
    BY <1>1, <2>1 DEF CountsBelow
  <2>5. QED
    BY <2>1, <2>2, <2>3, <2>4 DEF Counting, Published
<1>5. CASE ~(timer > Hold /\ trip)
  <2>1. timer' = UpTo(timer + 1, Hold + 1) /\ UNCHANGED <<trip, a_value>>
    BY <1>5 DEF PhasesDone, a
  <2>2. timer' \in Nat /\ timer' <= Hold + 1 /\ timer' <= timer + 1
    BY <1>1, <2>1, UpToBound
  <2>3. trip => timer' <= below + 1
    BY <1>1, <1>3, <2>2
  <2>4. FunctionTypes' /\ CountsAbove'
    BY <1>1, <1>2, <2>1, <2>2 DEF FunctionTypes, CountsAbove
  <2>5. CountsBelow'
    BY <1>1, <1>2, <2>1, <2>2, <2>3 DEF CountsBelow
  <2>6. QED
    BY <2>1, <2>4, <2>5 DEF IInv, Counting, Published
<1>6. QED
  BY <1>4, <1>5

LEMMA DifferenceStep ==
  ASSUME IInv, Difference
  PROVE  FunctionTypes' /\ Counting' /\ (trip' /\ ~trip => above >= MinOpTm)
<1> USE Constants
<1>1. /\ kind = "PDIF" /\ fn.pc = "PDIF" /\ fn.over \in Nat
      /\ above \in Nat /\ above <= MinOpTm /\ below \in Nat /\ below <= Hold + 1
      /\ UNCHANGED <<kind, fault, above, below>>
      /\ fault \in BOOLEAN /\ trip \in BOOLEAN
      /\ timer \in Nat /\ fn' = [pc |-> "idle", over |-> 0]
  BY DEF IInv, Types, Difference
<1>2. fn' \in [pc : {"idle", kind}, over : 0 .. Phases] /\ fn'.pc = "idle"
  BY <1>1
<1>3. above = IF fn.over > 0 THEN UpTo(timer + 1, MinOpTm) ELSE 0
  BY <1>1 DEF IInv, CountsAbove
<1>4. timer' = above
  BY <1>1, <1>3 DEF Difference
<1>5. trip' = ((trip \/ (fn.over > 0 /\ above >= MinOpTm)) /\ ~(fn.over = 0))
  BY <1>3 DEF Difference
<1>6. trip' \in BOOLEAN /\ (trip' /\ ~trip => above >= MinOpTm)
  BY <1>5
<1>7. FunctionTypes'
  BY <1>1, <1>2, <1>4, <1>6 DEF FunctionTypes
<1>8. CountsAbove' /\ CountsBelow'
  BY <1>1, <1>2, <1>4 DEF CountsAbove, CountsBelow
<1>9. Published'
  <2>1. CASE trip' # trip
    <3>1. Publish(IF trip' THEN "true" ELSE "false")
      BY <2>1 DEF Difference
    <3>2. a_value'["op"] = IF trip' THEN "true" ELSE "false"
      BY <3>1, PublishValue DEF IInv, A_Inv
    <3>3. QED
      BY <1>6, <3>2 DEF Published
  <2>2. CASE trip' = trip
    <3>1. UNCHANGED a_value
      BY <2>2 DEF Difference, a
    <3>2. QED
      BY <2>2, <3>1 DEF IInv, Published
  <2>3. QED
    BY <2>1, <2>2
<1>10. QED
  BY <1>6, <1>7, <1>8, <1>9 DEF Counting

LEMMA FunctionStep ==
  ASSUME IInv, [Next]_vars PROVE FunctionTypes' /\ Counting'
<1>1. CASE FaultChanges
  <2>1. UNCHANGED <<kind, fn, timer, trip, above, below, a_value>> /\ fault' = ~fault
    BY <1>1 DEF FaultChanges, function, a
  <2>2. FunctionTypes /\ Counting
    BY DEF IInv, Types, FunctionTypes, Counting
  <2>3. QED
    BY <2>1, <2>2 DEF FunctionTypes, Counting, CountsAbove, CountsBelow, Published
<1>2. CASE Function
  BY <1>2, SampleStep, PhaseStep, PhasesDoneStep, DifferenceStep DEF Function
<1>3. CASE UNCHANGED Own
  <2>1. FunctionTypes /\ Counting
    BY DEF IInv, Types, FunctionTypes, Counting
  <2>2. QED
    BY <1>3, <2>1 DEF Own, FunctionTypes, Counting, CountsAbove, CountsBelow, Published
<1>4. QED
  BY <1>1, <1>2, <1>3, OwnSteps

-----------------------------------------------------------------------------
(* The theorems.                                                           *)

LEMMA NextKeeps == ASSUME IInv, [Next]_vars PROVE IInv'
<1>1. A_Inv' /\ B_Inv'
  BY NodesStep, A_Stays, B_Stays DEF IInv
<1>2. FunctionTypes' /\ Counting'
  BY FunctionStep
<1>3. Types'
  BY <1>2, NetworkStep DEF FunctionTypes, Types
<1>4. QED
  BY <1>1, <1>2, <1>3 DEF IInv, Counting

(* What is known of the functions, the nodes and the network between two
   steps is so in every state the busbar reaches. *)
THEOREM Invariance == Spec => []IInv
<1>1. Init => IInv
  BY InitIsFine
<1>2. IInv /\ [Next]_vars => IInv'
  BY NextKeeps
<1>3. QED
  BY <1>1, <1>2, PTL DEF Spec

(* PDIF, PIOC, PDIS and PTRC: the variables have their types, no place in a
   callback looks beyond the inputs, and the network holds what it can. *)
THEOREM TypeCorrect == Spec => []TypeOK
<1>1. IInv => TypeOK
  <2> SUFFICES ASSUME IInv PROVE TypeOK
    OBVIOUS
  <2> USE Constants
  <2>1. kind \in Kinds /\ {fault, trip} \subseteq BOOLEAN
    BY DEF IInv, Types
  <2>2. fn \in [pc : {"idle", "PDIF", "PIOC"}, over : 0 .. Phases]
    BY DEF IInv, Types
  <2>3. timer <= Hold + MinOpTm + 1
    <3>1. CASE kind = "PDIF"
      <4>1. timer \in Nat /\ above <= MinOpTm /\ (timer = above \/ timer <= MinOpTm)
        BY <3>1 DEF IInv, Types, CountsAbove
      <4>2. QED
        BY <4>1
    <3>2. CASE kind = "PIOC"
      <4>1. timer \in Nat /\ timer <= Hold + 1
        BY <3>2 DEF IInv, Types, CountsBelow
      <4>2. QED
        BY <4>1
    <3>3. CASE kind = "none"
      BY <3>3 DEF IInv, Types
    <3>4. QED
      BY <2>1, <3>1, <3>2, <3>3
  <2>4. timer \in 0 .. Hold + MinOpTm + 1
    BY <2>3 DEF IInv, Types
  <2>5. QED
    BY <2>1, <2>2, <2>4 DEF TypeOK, IInv, Types, A_Inv, B_Inv
<1>2. QED
  BY <1>1, Invariance, PTL

(* PTRC_input_Tr_callback: Op.general, Tr.general and PTRC.tripstate are set
   one after the other, and agree whenever the callback does not run; at the
   node whose callback runs on two threads, unless callbacks have met and none
   has published by itself since; and the Op that the first node has is the
   trip that the function has published. *)
THEOREM PublishedTogetherAlways == Spec => []PublishedTogether
<1>1. IInv => PublishedTogether
  <2> SUFFICES ASSUME IInv PROVE PublishedTogether
    OBVIOUS
  <2>1. A!PublishedTogether
    BY DEF IInv, A_Inv, Together, A!PublishedTogether, A!At
  <2>2. raced \/ B!PublishedTogether
    BY DEF IInv, B_Inv, B_alone, Together, B!PublishedTogether, B!At, B_Threads
  <2>3. (a_value["op"] = "true") = trip
    BY DEF IInv, Types, Published
  <2>4. QED
    BY <2>1, <2>2, <2>3 DEF PublishedTogether
<1>2. QED
  BY <1>1, Invariance, PTL

(* PDIF_callback_SMV, PIOC_callback_SMV: whatever the current does, the
   differential function operates after MinOpTmms of difference, and the Op of
   the other two is not taken back before their delay without a fault. *)
THEOREM OperateTimesAlways == Spec => OperateTimes
<1>1. ASSUME IInv, [Next]_vars
      PROVE  /\ kind = "PDIF" /\ trip' /\ ~trip => above >= MinOpTm
             /\ kind = "PIOC" /\ trip /\ ~trip' => below > Hold
  <2>1. CASE SampleArrives \/ FaultChanges
    BY <2>1 DEF SampleArrives, FaultChanges, function
  <2>2. CASE PhaseAbove
    <3>1. trip' = TRUE /\ kind = "PIOC"
      BY <1>1, <2>2 DEF PhaseAbove, IInv, Types
    <3>2. QED
      BY <3>1
  <2>3. CASE PhasesDone
    <3>1. kind = "PIOC"
      BY <1>1, <2>3 DEF PhasesDone, IInv, Types
    <3>2. QED
      BY <1>1, <2>3, <3>1, PhasesDoneStep
  <2>4. CASE Difference
    <3>1. kind = "PDIF"
      BY <1>1, <2>4 DEF Difference, IInv, Types
    <3>2. QED
      BY <1>1, <2>4, <3>1, DifferenceStep
  <2>5. CASE UNCHANGED Own
    BY <2>5 DEF Own
  <2>6. QED
    BY <1>1, <2>1, <2>2, <2>3, <2>4, <2>5, OwnSteps DEF Function
<1>2. QED
  BY <1>1, Invariance, PTL DEF Spec, OperateTimes

=============================================================================
