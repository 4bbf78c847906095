------------------------------ MODULE Lockstep ------------------------------
(***************************************************************************)
(* The lock-step between the circuit simulator                             *)
(* (circuit_simulator/circuit_simulator.py) and the IED processes          *)
(* (plugin_src/simulation_process/simulation.c, open_server.c,             *)
(* LNs/SMVPublisher.c).                                                    *)
(*                                                                         *)
(* The simulator has one TCP connection for every measuring transformer    *)
(* and every switch.  In each round it computes the circuit, sends every   *)
(* measured value ("s"), asks for every switch position ("g") and tells    *)
(* every IED to go on ("n"); it waits for each answer for one second and   *)
(* gives the connection up when none comes.  The first connection of an    *)
(* IED carries its "n" requests as well.  In the IED, the thread of the    *)
(* simulation plugin answers, and the publisher of sampled values sends    *)
(* one sample for each step it is told of.                                 *)
(*                                                                         *)
(* A connection that is given up just as its answer arrives is reset,      *)
(* which the plugin takes not for its end but for one more request.        *)
(***************************************************************************)
EXTENDS Naturals, Sequences, FiniteSets, SequencesExt

CONSTANTS
  Ied,         (* the IED processes                                       *)
  Conns,       (* the connections in the order of a round: the measuring  *)
               (* ones, then the actuators                                *)
  IedOf,       (* the IED at the other end                                *)
  Actuators,   (* the connections of switches                             *)
  Rounds       (* bound: the rounds that are simulated                    *)

Conn == Range(Conns)
Measurants == Conn \ Actuators

ASSUME LockstepAssumption ==
  /\ Conns \in Seq(Conn)
  /\ IedOf \in [Conn -> Ied]
  /\ IsInjective(Conns)
  /\ Actuators \subseteq Conn
  /\ \A i, j \in DOMAIN Conns :
       Conns[i] \in Actuators /\ Conns[j] \in Measurants => j < i
  /\ Rounds \in Nat

VARIABLES
  (* circuit_simulator *)
  Connection,      (* the connections that are not None                   *)
  closed,          (* those the simulator has closed                      *)
  nextStep_dict,   (* the connections the "n" requests go to, in order    *)
  actuatorCache,   (* the round a position is of, as a set                *)
  round,           (* the rounds that are complete                        *)
  todo,            (* the requests left in this round                     *)
  waiting,         (* the first of them has been sent                     *)
  (* the network *)
  request,         (* sent and not read by the IED                        *)
  answer,          (* sent by the IED and not read by the simulator       *)
  reset,           (* the connections that were reset, until read says so *)
  (* the IEDs *)
  alive,           (* the processes that run                              *)
  buffer,          (* the request read last, of whatever connection       *)
  value,           (* the round of the value a transformer holds          *)
  global_step,     (* the steps an IED was told of                        *)
  published,       (* the samples its publisher has sent                  *)
  repeated         (* history: the steps it made a second time            *)

simVars == <<Connection, closed, nextStep_dict, actuatorCache, round, todo, waiting>>
iedVars == <<alive, buffer, value, global_step, published, repeated>>
vars == <<simVars, request, answer, reset, iedVars>>

(* _getValue returns 1, a closed switch, for a switch it cannot reach: a
   position that is of no round. *)
Default == {}

(* The connection c comes before d. *)
Before(c, d) == \E i, j \in DOMAIN Conns : i < j /\ Conns[i] = c /\ Conns[j] = d
InOrder(conns) ==
  {s \in [1 .. Cardinality(conns) -> conns] :
     \A i, j \in DOMAIN s : i < j => Before(s[i], s[j])}

(* Mutant: an "n" request on every connection. *)
StepConns_all(conns) == conns

(* The connections for "n" requests: for each IED the first it has. *)
StepConns(conns) ==
  {c \in conns : \A d \in conns : Before(d, c) => IedOf[d] # IedOf[c]}

-----------------------------------------------------------------------------

(* Some of the IEDs may not have been there when the simulator started. *)
Init ==
  /\ Connection \in SUBSET Conn
  /\ closed = Conn \ Connection
  /\ nextStep_dict \in InOrder(StepConns(Connection))
  /\ actuatorCache = [c \in Actuators |-> IF c \in Connection THEN {0} ELSE Default]
  /\ round = 0
  /\ todo = <<>>
  /\ waiting = FALSE
  /\ request = [c \in Conn |-> <<>>]
  /\ answer = [c \in Conn |-> <<>>]
  /\ reset = {}
  /\ alive = Ied
  /\ buffer = [i \in Ied |-> [kind |-> "i", round |-> 0]]
  /\ value = [c \in Measurants |-> 0]
  /\ global_step = [i \in Ied |-> 0]
  /\ published = [i \in Ied |-> 0]
  /\ repeated = [i \in Ied |-> 0]

-----------------------------------------------------------------------------
(* circuit_simulator: simulation_step, _updateValue, _getValue, _nextStep  *)

(* Mutant: the IEDs are told to go on before they have their values. *)
simulation_step_early ==
  /\ todo = <<>> /\ round < Rounds
  /\ round' = round + 1
  /\ LET of(kind, c) == [conn |-> c, kind |-> kind, round |-> round']
         values == [i \in DOMAIN Conns |->
                     of(IF Conns[i] \in Actuators THEN "g" ELSE "s", Conns[i])]
         steps == [i \in DOMAIN nextStep_dict |-> of("n", nextStep_dict[i])]
     IN  todo' = steps \o values
  /\ UNCHANGED <<Connection, closed, nextStep_dict, actuatorCache, waiting,
                 request, answer, reset, iedVars>>

(* A new round, number round': the circuit is computed. *)
simulation_step ==
  /\ todo = <<>> /\ round < Rounds
  /\ round' = round + 1
  /\ LET of(kind, c) == [conn |-> c, kind |-> kind, round |-> round']
         values == [i \in DOMAIN Conns |->
                     of(IF Conns[i] \in Actuators THEN "g" ELSE "s", Conns[i])]
         steps == [i \in DOMAIN nextStep_dict |-> of("n", nextStep_dict[i])]
     IN  todo' = values \o steps
  /\ UNCHANGED <<Connection, closed, nextStep_dict, actuatorCache, waiting,
                 request, answer, reset, iedVars>>

(* The first request left, and what it ends with. *)
Current == Head(todo)
EndRequest == todo' = Tail(todo) /\ waiting' = FALSE
(* A position, or the value _getValue returns without one. *)
Cache(position) ==
  actuatorCache' = IF Current.kind = "g"
                   THEN [actuatorCache EXCEPT ![Current.conn] = position]
                   ELSE actuatorCache

(* A transformer or switch that is not connected is passed over. *)
Skip ==
  /\ todo # <<>> /\ ~waiting
  /\ Current.kind # "n" /\ Current.conn \notin Connection
  /\ EndRequest /\ Cache(Default)
  /\ UNCHANGED <<Connection, closed, nextStep_dict, round, request, answer, reset, iedVars>>

Send ==
  /\ todo # <<>> /\ ~waiting
  /\ Current.conn \notin closed
  /\ waiting' = TRUE
  /\ request' = [request EXCEPT ![Current.conn] = Append(@, Current)]
  /\ UNCHANGED <<Connection, closed, nextStep_dict, actuatorCache, round, todo,
                 answer, reset, iedVars>>

Receive ==
  /\ waiting /\ answer[Current.conn] # <<>>
  /\ EndRequest /\ Cache({Head(answer[Current.conn]).round})
  /\ answer' = [answer EXCEPT ![Current.conn] = Tail(@)]
  /\ UNCHANGED <<Connection, closed, nextStep_dict, round, request, reset, iedVars>>

(* Mutant: the connection is kept when no answer comes in time. *)
Except_kept ==
  /\ EndRequest /\ Cache(Default)
  /\ UNCHANGED <<closed, nextStep_dict, round, Connection, request, answer, reset,
                 iedVars>>

(* An exception: the connection is closed, and set to None unless it was
   the "n" request that failed (_nextStep can only drop its own copy).  An
   answer that nobody will read makes the end of the connection a reset. *)
Except ==
  /\ EndRequest /\ Cache(Default)
  /\ closed' = closed \cup {Current.conn}
  /\ Connection' = IF Current.kind = "n" THEN Connection ELSE Connection \ {Current.conn}
  /\ answer' = [answer EXCEPT ![Current.conn] = <<>>]
  /\ reset' = IF answer[Current.conn] = <<>> THEN reset ELSE reset \cup {Current.conn}
  /\ UNCHANGED <<nextStep_dict, round, request, iedVars>>

(* Mutant: recv waits for an answer without a limit. *)
Timeout_none ==
  waiting /\ answer[Current.conn] = <<>> /\ IedOf[Current.conn] \notin alive /\ Except

(* No answer for a second, or a connection the other end has reset; the
   answer may still arrive before the connection is closed. *)
Timeout == waiting /\ Except

(* A connection that was closed under another name: nextStep_dict and the
   records of the transformers and switches hold the same sockets. *)
SendClosed ==
  /\ todo # <<>> /\ ~waiting
  /\ Current.conn \in closed
  /\ Current.kind # "n" => Current.conn \in Connection
  /\ Except

(* The process at the other end has gone and recv returns nothing, which
   is not an exception. *)
ReceiveEnd ==
  /\ waiting /\ answer[Current.conn] = <<>> /\ IedOf[Current.conn] \notin alive
  /\ EndRequest /\ Cache(Default)
  /\ request' = [request EXCEPT ![Current.conn] = <<>>]
  /\ UNCHANGED <<Connection, closed, nextStep_dict, round, answer, reset, iedVars>>

Simulator == simulation_step \/ Skip \/ Send \/ Receive \/ Timeout \/ SendClosed \/ ReceiveEnd

-----------------------------------------------------------------------------
(* The IEDs.                                                               *)

(* simulation_thread reads a request and answers it; what it answers on a
   connection the simulator has closed is lost. *)
Serve(c) ==
  LET r == Head(request[c])
      i == IedOf[c]
  IN
  /\ i \in alive /\ request[c] # <<>>
  /\ request' = [request EXCEPT ![c] = Tail(@)]
  /\ value' = IF r.kind = "s" THEN [value EXCEPT ![c] = r.round] ELSE value
  /\ global_step' = IF r.kind = "n" THEN [global_step EXCEPT ![i] = @ + 1] ELSE global_step
  /\ buffer' = [buffer EXCEPT ![i] = [kind |-> r.kind, round |-> r.round]]
  /\ answer' = IF c \in closed THEN answer ELSE [answer EXCEPT ![c] = Append(@, r)]
  /\ UNCHANGED <<simVars, reset, alive, published, repeated>>

(* read returns -1 for a connection that was reset, which is not the 0 of
   its end: what the buffer holds is carried out for this connection.  The
   answer is lost.  (What is written before the buffer is left out, and so
   is the signal that the answer may raise, after which see Stop.) *)
ServeAgain(c) ==
  LET i == IedOf[c]
      r == buffer[i]
      again(count) == IF r.kind = "n" THEN [count EXCEPT ![i] = @ + 1] ELSE count
  IN
  /\ i \in alive /\ c \in reset
  /\ reset' = reset \ {c}
  /\ value' = IF c \in Measurants /\ r.kind \in {"s", "g"}
              THEN [value EXCEPT ![c] = IF r.kind = "s" THEN r.round ELSE 0]
              ELSE value
  /\ global_step' = again(global_step) /\ repeated' = again(repeated)
  /\ UNCHANGED <<simVars, request, answer, alive, buffer, published>>

(* Mutant: the publisher waits for one step more. *)
SMV_Thread_late(i) ==
  /\ i \in alive /\ published[i] < global_step[i]
  /\ published' = [published EXCEPT ![i] = @ + 1]
  /\ UNCHANGED <<simVars, request, answer, reset, alive, buffer, value, global_step,
                 repeated>>

(* SMV_Thread publishes a sample once the timestep_sync of the one before,
   whose number is one less than the samples sent, lets it go on. *)
SMV_Thread(i) ==
  /\ i \in alive /\ (published[i] = 0 \/ published[i] - 1 < global_step[i])
  /\ published' = [published EXCEPT ![i] = @ + 1]
  /\ UNCHANGED <<simVars, request, answer, reset, alive, buffer, value, global_step,
                 repeated>>

(* The process of an IED ends; nobody connects to a new one. *)
Stop(i) ==
  /\ i \in alive
  /\ alive' = alive \ {i}
  /\ UNCHANGED <<simVars, request, answer, reset, buffer, value, global_step, published,
                 repeated>>

Next ==
  \/ Simulator
  \/ \E c \in Conn : Serve(c) \/ ServeAgain(c)
  \/ \E i \in Ied : SMV_Thread(i) \/ Stop(i)

(* The threads run on, and recv gives up after a second. *)
Spec ==
  /\ Init /\ [][Next]_vars
  /\ WF_vars(Simulator)
  /\ \A i \in Ied : WF_vars(SMV_Thread(i))

-----------------------------------------------------------------------------
(* Properties.                                                             *)

TypeOK ==
  LET req(c) == [conn : {c}, kind : {"s", "g", "n"}, round : 1..Rounds] IN
  /\ Connection \subseteq Conn /\ closed \subseteq Conn
  /\ Range(nextStep_dict) \subseteq Conn
  /\ actuatorCache \in [Actuators -> SUBSET (0..Rounds)]
  /\ round \in 0..Rounds
  /\ \A j \in DOMAIN todo : todo[j] \in req(todo[j].conn)
  /\ waiting => todo # <<>>
  /\ \A c \in Conn :
       /\ Len(request[c]) + Len(answer[c]) <= 1
       /\ \A j \in DOMAIN request[c] : request[c][j] \in req(c)
       /\ \A j \in DOMAIN answer[c] : answer[c][j] \in req(c)
  /\ reset \subseteq closed
  /\ alive \subseteq Ied
  /\ buffer \in [Ied -> [kind : {"i", "s", "g", "n"}, round : 0..Rounds]]
  /\ value \in [Measurants -> 0..Rounds]
  /\ repeated \in [Ied -> 0..Cardinality(Conn)]
  /\ \A i \in Ied : /\ global_step[i] \in repeated[i]..(Rounds + repeated[i])
                     /\ published[i] \in 0..(global_step[i] + 1)

(* "so that the simulation is synced with the IED's": no IED is ever ahead
   of the simulator, and when a round is complete every IED that runs and
   can still be told has made exactly as many steps, whatever happened to
   the connections of the others.  Only a step that is made again because a
   connection was reset brings an IED out of step, and by that one only. *)
InStep ==
  /\ \A i \in Ied : global_step[i] <= round + repeated[i]
  /\ todo = <<>> =>
       \A c \in Range(nextStep_dict) \ closed :
         LET i == IedOf[c] IN i \in alive => global_step[i] = round + repeated[i]

(* The circuit of the next round is computed with the positions of this
   round: what a switch answered to an earlier request is never taken for
   its position, and a switch is taken for closed only if it is lost. *)
FreshPositions ==
  todo = <<>> =>
    \A c \in Actuators :
      /\ actuatorCache[c] \in {{round}, Default}
      /\ c \in Connection /\ IedOf[c] \in alive => actuatorCache[c] = {round}
      /\ c \notin Connection => actuatorCache[c] = Default

(* Sample number k of an IED (counted from zero) is sent in step k or
   later, and the values in it are no older than that step, as far as the
   connections that bring them are there: a step that was made again is
   the only one that has no values of its own. *)
SamplesNotOlder ==
  [][\A i \in Ied : published'[i] # published[i] =>
       /\ published[i] <= global_step[i]
       /\ \A c \in Measurants \ closed :
            IedOf[c] = i => value[c] + repeated[i] >= published[i]]_vars

(* No IED that is slow, silent or gone keeps the simulator from the next
   round. *)
RoundsGoOn == \A r \in 0..(Rounds - 1) : round = r ~> round = r + 1 /\ todo = <<>>

(* A publisher that was overtaken by the simulator catches up: as long as
   its process runs, it sends the sample of every step it was told of. *)
PublisherFollows ==
  \A i \in Ied : []<>(i \in alive => published[i] = global_step[i] + 1)

=============================================================================
