-------------------------------- MODULE CILO --------------------------------
(***************************************************************************)
(* The interlocking node with logic inputs (LNs/CILO.c).                   *)
(*                                                                         *)
(* Each input in_and_i, in_or_i, in_nand_i, in_nor_i reports whether one   *)
(* switch may conduct.  Its callback stores the report, evaluates all the  *)
(* gates and publishes the two releases if they have changed.  Callbacks   *)
(* of inputs that come from different threads (two switches of this IED,   *)
(* or one and the GOOSE receiver) run beside each other without a lock.    *)
(***************************************************************************)
EXTENDS Naturals, FiniteSets

CONSTANTS
  Input,       (* the configured inputs: records [gate, index]            *)
  Thread       (* the threads that deliver them                           *)

Gate == {"and", "or", "nand", "nor"}

(* The inputs of a gate are numbered from 0 without gaps, as the callbacks
   and the loops over the counts presuppose. *)
IndexesOf(g) == {n.index : n \in {m \in Input : m.gate = g}}
InputAssumption ==
  /\ Input \subseteq [gate : Gate, index : 0 .. 15]
  /\ \A g \in Gate : IndexesOf(g) = 0 .. Cardinality(IndexesOf(g)) - 1

VARIABLES
  values,            (* CILO.and_values, or_values, nand_values,          *)
                     (* nor_values                                        *)
  EnaOpn, EnaCls,    (* the fields CILO.EnaOpn and CILO.EnaCls            *)
  stOpn, stCls,      (* the published EnaOpn.stVal and EnaCls.stVal       *)
  thread,            (* where each thread is in the callback, and the     *)
                     (* release it has computed                           *)
  heard              (* history: there has been a report                  *)

vars == <<values, EnaOpn, EnaCls, stOpn, stCls, thread, heard>>

count(g) == Cardinality({n \in Input : n.gate = g})

(* CILO_init: nothing blocks before the first report. *)
Init ==
  /\ values = [n \in Input |-> FALSE]
  /\ EnaOpn = TRUE /\ EnaCls = TRUE
  /\ stOpn = TRUE /\ stCls = TRUE
  /\ thread = [t \in Thread |-> [pc |-> "idle", ena |-> TRUE]]
  /\ heard = FALSE

-----------------------------------------------------------------------------
(* The gates: TRUE blocks.  A gate without inputs does not.                *)

InputAt(g, i) == [gate |-> g, index |-> i]
Slots(g) == {values[InputAt(g, i)] : i \in 0 .. count(g) - 1}
AND_inputs_all_true == count("and") > 0 /\ FALSE \notin Slots("and")
any_OR_input_true == TRUE \in Slots("or")
NAND_result == FALSE \in Slots("nand")
NOR_result == count("nor") > 0 /\ TRUE \notin Slots("nor")

Block == AND_inputs_all_true \/ any_OR_input_true \/ NAND_result \/ NOR_result

-----------------------------------------------------------------------------
(* The callback of one input, on thread t, one step for each access to     *)
(* what the threads share.                                                 *)

Goto(t, pc) == thread' = [thread EXCEPT ![t].pc = pc]

Callback(t, input, report) ==
  /\ thread[t].pc = "idle"
  /\ values' = [values EXCEPT ![input] = report]
  /\ Goto(t, "process")
  /\ heard' = TRUE
  /\ UNCHANGED <<EnaOpn, EnaCls, stOpn, stCls>>

process_all_conditions(t) ==
  /\ thread[t].pc = "process"
  /\ thread' = [thread EXCEPT ![t] = [pc |-> "opn", ena |-> ~Block]]
  /\ UNCHANGED <<values, EnaOpn, EnaCls, stOpn, stCls, heard>>

(* SetEnaOpn: publish, with the callbacks of the subscribers, ... *)
SetEnaOpn(t) ==
  /\ thread[t].pc = "opn"
  /\ IF thread[t].ena # EnaOpn
     THEN stOpn' = thread[t].ena /\ Goto(t, "opnField")
     ELSE UNCHANGED stOpn /\ Goto(t, "cls")
  /\ UNCHANGED <<values, EnaOpn, EnaCls, stCls, heard>>

(* ... and then remember what was published. *)
EnaOpnField(t) ==
  /\ thread[t].pc = "opnField"
  /\ EnaOpn' = thread[t].ena
  /\ Goto(t, "cls")
  /\ UNCHANGED <<values, EnaCls, stOpn, stCls, heard>>

SetEnaCls(t) ==
  /\ thread[t].pc = "cls"
  /\ IF thread[t].ena # EnaCls
     THEN stCls' = thread[t].ena /\ Goto(t, "clsField")
     ELSE UNCHANGED stCls /\ Goto(t, "idle")
  /\ UNCHANGED <<values, EnaOpn, EnaCls, stOpn, heard>>

EnaClsField(t) ==
  /\ thread[t].pc = "clsField"
  /\ EnaCls' = thread[t].ena
  /\ Goto(t, "idle")
  /\ UNCHANGED <<values, EnaOpn, stOpn, stCls, heard>>

Next ==
  \E t \in Thread :
    \/ \E n \in Input, report \in BOOLEAN : Callback(t, n, report)
    \/ process_all_conditions(t)
    \/ SetEnaOpn(t)
    \/ EnaOpnField(t)
    \/ SetEnaCls(t)
    \/ EnaClsField(t)

Spec == Init /\ [][Next]_vars

-----------------------------------------------------------------------------
(* Properties.                                                             *)

Pc == {"idle", "process", "opn", "opnField", "cls", "clsField"}
TypeOK ==
  /\ values \in [Input -> BOOLEAN]
  /\ {EnaOpn, EnaCls, stOpn, stCls} \subseteq BOOLEAN
  /\ heard \in BOOLEAN
  /\ thread \in [Thread -> [pc : Pc, ena : BOOLEAN]]

=============================================================================
