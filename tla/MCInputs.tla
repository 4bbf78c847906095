------------------------------ MODULE MCInputs ------------------------------
(***************************************************************************)
(* Inputs for TLC: two GOOSE publishers whose data sets have the same name *)
(* (the "Events" of IED1_XCBR and IED2_PTOC) and one of sampled values.    *)
(* The entries of a second merging unit, which no input names and whose    *)
(* data set has the same name too, follow as in IED2_PTOC.ext:35-50.       *)
(***************************************************************************)
EXTENDS Inputs

CONSTANTS g1, g2, sv, sv2

Entries ==
  <<[cb |-> g1, elem |-> 1], [cb |-> g1, elem |-> 2],
    [cb |-> g2, elem |-> 1], [cb |-> g2, elem |-> 2],
    [cb |-> sv, elem |-> 1], [cb |-> sv, elem |-> 2],
    [cb |-> sv2, elem |-> 1], [cb |-> sv2, elem |-> 2]>>

Names == [b \in Block |-> IF b \in Gocb THEN "Events" ELSE "PhsMeas1"]
Ids == g1 :> 4096 @@ g2 :> 4098 @@ sv :> 16384 @@ sv2 :> 0
Addresses == g1 :> 1 @@ g2 :> 2 @@ sv :> 3 @@ sv2 :> 0

G(gate, i) == [gate |-> gate, index |-> i]
Ref(b, e, to) == [ref |-> <<b, e>>, to |-> to]
Gates == {G("and", 0), G("and", 1), G("or", 0), G("nand", 0), G("nor", 0)}

(* All gates, the inputs of the two blocks mixed, one element for two
   inputs; the last elements only; inputs of one block and samples. *)
Configurations ==
  {<<Ref(g1, 2, G("and", 0)), Ref(g2, 1, G("and", 1)), Ref(g1, 2, G("or", 0)),
     Ref(g1, 1, G("nor", 0)), Ref(g2, 1, G("nand", 0))>>,
   <<Ref(g2, 2, G("nor", 0)), Ref(g1, 2, G("nand", 0))>>,
   <<Ref(sv, 2, G("none", 0)), Ref(g2, 2, G("or", 0)), Ref(sv, 1, G("none", 0)),
     Ref(sv, 2, G("none", 1))>>}

(* Elements that differ; one publisher of GOOSE changes, the other only
   repeats what it has begun with; three sample numbers. *)
Distinct == [b \in Block |->
  {<<"on", "off">>} \cup IF b = sv2 THEN {} ELSE {<<"off", "on">>}]
States == [b \in Block |-> IF b = g1 THEN 2 ELSE 1]
Numbers == [b \in Block |-> IF b = g1 THEN 1 ELSE IF b = g2 THEN 0 ELSE 3]
UnderWay == [b \in Block |-> IF b = g1 THEN 2 ELSE 1]

(* What the proofs presuppose of the configurations. *)
ASSUME NamesAssumption == NamesTellApart /\ SubscriptionsAreRight

=============================================================================
