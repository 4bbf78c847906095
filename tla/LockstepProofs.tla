--------------------------- MODULE LockstepProofs ---------------------------
(***************************************************************************)
(* Proofs about Lockstep, for any number of IEDs, connections and rounds:  *)
(* that no IED is ahead of the simulator, but for the steps it made twice, *)
(* or falls behind while it can be told to go on, that the simulator       *)
(* computes with the positions of the round, and that no sample is older   *)
(* than the step it is sent for.                                           *)
(*                                                                         *)
(* The invariant follows a request on its way: what a round has left to    *)
(* do is in todo; the request under way is on its own channel, or has been *)
(* answered there; what is left on a channel that was closed may still be  *)
(* read by its IED, in a later round.  What an IED was told is counted     *)
(* without the steps it made again after a reset (Made), so that carrying  *)
(* a request out once more leaves the invariant as it is.                  *)
(***************************************************************************)
EXTENDS Lockstep, FiniteSetTheorems, TLAPS

-----------------------------------------------------------------------------
(* The inductive invariant.                                                *)

Request == [conn : Conn, kind : {"s", "g", "n"}, round : Nat]

(* The steps an IED was told of, each of them once. *)
Made == [i \in Ied |-> global_step[i] - repeated[i]]

Types ==
  /\ Connection \subseteq Conn /\ closed \subseteq Conn
  /\ Conn \ Connection \subseteq closed
  /\ nextStep_dict \in Seq(Conn)
  /\ actuatorCache \in [Actuators -> SUBSET Nat]
  /\ round \in Nat /\ todo \in Seq(Request) /\ waiting \in BOOLEAN
  /\ request \in [Conn -> Seq(Request)] /\ answer \in [Conn -> Seq(Request)]
  /\ value \in [Measurants -> Nat]
  /\ reset \subseteq closed
  /\ buffer \in [Ied -> [kind : {"i", "s", "g", "n"}, round : Nat]]
  /\ global_step \in [Ied -> Nat] /\ repeated \in [Ied -> Nat]
  /\ Made \in [Ied -> Nat] /\ published \in [Ied -> Nat]

(* An IED is told to go on over one connection. *)
OnePerIed ==
  \A i, j \in DOMAIN nextStep_dict :
    IedOf[nextStep_dict[i]] = IedOf[nextStep_dict[j]] => i = j

(* A request is one its connection is there for. *)
Proper(r) ==
  /\ r.kind = "s" => r.conn \in Measurants
  /\ r.kind = "g" => r.conn \in Actuators
  /\ r.kind = "n" => r.conn \in Range(nextStep_dict)

(* What is left of a round: every request once, those for a step last. *)
RoundLeft ==
  /\ waiting => todo # <<>>
  /\ \A j \in DOMAIN todo : todo[j].round = round /\ Proper(todo[j])
  /\ \A j, k \in DOMAIN todo : j < k /\ todo[k].kind # "n" => todo[j].kind # "n"
  /\ \A j, k \in DOMAIN todo : todo[j] = todo[k] => j = k

Has(kind, c) == \E j \in DOMAIN todo : todo[j].kind = kind /\ todo[j].conn = c
Telling == todo # <<>> /\ Current.kind # "n"

(* An open connection holds the request under way or its answer; one that
   is closed may hold a request that was never answered. *)
UnderWay(c) == waiting /\ Current.conn = c
Channels ==
  \A c \in Conn :
    /\ c \in closed => answer[c] = <<>> /\ ~UnderWay(c)
    /\ c \notin closed /\ UnderWay(c) =>
         \/ request[c] = <<Current>> /\ answer[c] = <<>>
         \/ request[c] = <<>> /\ answer[c] = <<Current>>
    /\ c \notin closed /\ ~UnderWay(c) => request[c] = <<>> /\ answer[c] = <<>>
    /\ request[c] # <<>> =>
         /\ Tail(request[c]) = <<>>
         /\ Head(request[c]).conn = c /\ Proper(Head(request[c]))
         /\ Head(request[c]).round <= round

(* The request is left in this round, and the IED has not read it. *)
Unserved(kind, c) ==
  Has(kind, c) /\ ~(UnderWay(c) /\ Current.kind = kind /\ request[c] = <<>>)
UnreadStep(c) == request[c] # <<>> /\ Head(request[c]).kind = "n"

Steps ==
  /\ \A i \in Ied : Made[i] <= round
  /\ \A c \in Conn : UnreadStep(c) => Made[IedOf[c]] < Head(request[c]).round
  /\ \A c \in Range(nextStep_dict) \ closed :
       /\ Unserved("n", c) => Made[IedOf[c]] < round
       /\ IedOf[c] \in alive => /\ Made[IedOf[c]] + 1 >= round
                                /\ Made[IedOf[c]] >= round \/ Unserved("n", c)
  /\ Telling =>
       /\ \A i \in Ied : Made[i] < round
       /\ \A c \in Conn : UnreadStep(c) => Head(request[c]).round < round

Values ==
  \A c \in Measurants \ closed :
    IedOf[c] \in alive => /\ value[c] + 1 >= round
                          /\ value[c] >= round \/ Unserved("s", c)

IsFresh(c) ==
  /\ actuatorCache[c] \in {{round}, Default}
  /\ c \in Connection /\ IedOf[c] \in alive => actuatorCache[c] = {round}
  /\ c \notin Connection => actuatorCache[c] = Default
Fresh == \A c \in Actuators : Has("g", c) \/ IsFresh(c)

IInv == Types /\ OnePerIed /\ RoundLeft /\ Channels /\ Steps /\ Values /\ Fresh

-----------------------------------------------------------------------------
(* The constants, and the connections of nextStep_dict.                    *)

LEMMA Constants ==
  /\ Conns \in Seq(Conn) /\ Len(Conns) \in Nat /\ DOMAIN Conns = 1 .. Len(Conns)
  /\ \A i \in DOMAIN Conns : Conns[i] \in Conn
  /\ \A c \in Conn : \E i \in DOMAIN Conns : Conns[i] = c
  /\ \A i, j \in DOMAIN Conns : Conns[i] = Conns[j] => i = j
  /\ \A c \in Conn : IedOf[c] \in Ied
  /\ Actuators \subseteq Conn /\ Measurants \subseteq Conn
  /\ \A c \in Conn : c \in Measurants <=> c \notin Actuators
BY LockstepAssumption DEF Conn, Range, IsInjective, Measurants

LEMMA ConnFinite == IsFiniteSet(Conn)
<1>1. IsFiniteSet(1 .. Len(Conns))
  BY Constants, FS_Interval
<1>2. Conns \in Surjection(1 .. Len(Conns), Conn)
  BY Constants DEF Surjection
<1>3. QED
  BY <1>1, <1>2, FS_Surjection

(* Of the connections of an IED that come first there is only one. *)
LEMMA StepDict ==
  ASSUME NEW conns \in SUBSET Conn, NEW dict \in InOrder(StepConns(conns))
  PROVE  /\ dict \in Seq(Conn)
         /\ \A i, j \in DOMAIN dict : IedOf[dict[i]] = IedOf[dict[j]] => i = j
<1> DEFINE S == StepConns(conns)
<1>1. S \subseteq Conn
  BY DEF StepConns
<1>2. Cardinality(S) \in Nat
  BY <1>1, ConnFinite, FS_Subset, FS_CardinalityType
<1>3. dict \in [1 .. Cardinality(S) -> S]
  BY DEF InOrder
<1>4. dict \in Seq(Conn)
  BY <1>1, <1>2, <1>3
<1>5. ASSUME NEW i \in DOMAIN dict, NEW j \in DOMAIN dict, i < j
      PROVE  IedOf[dict[i]] # IedOf[dict[j]]
  <2>1. Before(dict[i], dict[j])
    BY <1>3, <1>5 DEF InOrder
  <2>2. dict[i] \in conns /\ dict[j] \in S
    BY <1>3 DEF StepConns
  <2>3. QED
    BY <2>1, <2>2 DEF StepConns
<1>6. QED
  BY <1>2, <1>3, <1>4, <1>5

-----------------------------------------------------------------------------
(* What is left of a round.                                                *)

LEMMA FirstRequest ==
  ASSUME Types, RoundLeft, todo # <<>>
  PROVE  /\ Current \in Request /\ Current.conn \in Conn
         /\ Current.round = round /\ Proper(Current)
         /\ Has(Current.kind, Current.conn)
<1>1. 1 \in DOMAIN todo /\ todo[1] = Current
  BY DEF Types, Current
<1>2. Current \in Request
  BY <1>1 DEF Types
<1>3. Current.round = round /\ Proper(Current)
  BY <1>1 DEF RoundLeft
<1>4. Has(Current.kind, Current.conn)
  BY <1>1 DEF Has
<1>5. QED
  BY <1>2, <1>3, <1>4 DEF Request

LEMMA FirstOnChannel ==
  ASSUME Types, NEW c \in Conn, request[c] # <<>>
  PROVE  Head(request[c]) \in Request /\ Tail(request[c]) \in Seq(Request)
<1>1. request[c] \in Seq(Request)
  BY DEF Types
<1>2. QED
  BY <1>1

LEMMA StepConnections ==
  ASSUME Types
  PROVE  Range(nextStep_dict) \subseteq Conn
<1>1. \A j \in DOMAIN nextStep_dict : nextStep_dict[j] \in Conn
  BY DEF Types
<1>2. QED
  BY <1>1 DEF Range

LEMMA TellingFirst ==
  ASSUME Types, RoundLeft, NEW kind \in {"s", "g"}, NEW c, Has(kind, c)
  PROVE  Telling
<1>1. PICK j \in DOMAIN todo : todo[j].kind # "n"
  BY DEF Has
<1>2. 1 \in DOMAIN todo /\ todo # <<>> /\ Current = todo[1] /\ j \in Nat /\ j >= 1
  BY DEF Types, Current
<1>3. QED
  BY <1>1, <1>2 DEF RoundLeft, Telling

(* A request is done with: the others are left. *)
LEMMA RestOfRound ==
  ASSUME Types, RoundLeft, todo # <<>>, EndRequest, UNCHANGED <<round, nextStep_dict>>
  PROVE  /\ todo' \in Seq(Request) /\ waiting' = FALSE
         /\ RoundLeft'
         /\ \A kind, c : Has(kind, c)' <=>
              Has(kind, c) /\ ~(Current.kind = kind /\ Current.conn = c)
         /\ Telling' => Telling
<1>1. /\ todo' = Tail(todo) /\ waiting' = FALSE /\ todo \in Seq(Request)
      /\ Len(todo) \in Nat \ {0} /\ DOMAIN todo = 1 .. Len(todo)
      /\ Current = todo[1] /\ round' = round /\ nextStep_dict' = nextStep_dict
  BY DEF EndRequest, Types, Current
<1>2. /\ todo' \in Seq(Request)
      /\ \A j \in DOMAIN todo' : j + 1 \in DOMAIN todo /\ todo'[j] = todo[j + 1]
      /\ \A j \in DOMAIN todo : j > 1 => j - 1 \in DOMAIN todo' /\ todo'[j - 1] = todo[j]
  BY <1>1
<1>3. \A j \in DOMAIN todo' : j \in Nat /\ j >= 1
  BY <1>2
<1>4. (\A j \in DOMAIN todo : todo[j].round = round /\ Proper(todo[j]))'
  BY <1>1, <1>2 DEF RoundLeft, Proper
<1>5. \A j, k \in DOMAIN todo' : j < k /\ todo'[k].kind # "n" => todo'[j].kind # "n"
  BY <1>2, <1>3 DEF RoundLeft
<1>6. \A j, k \in DOMAIN todo' : todo'[j] = todo'[k] => j = k
  BY <1>2, <1>3 DEF RoundLeft
<1>7. RoundLeft'
  BY <1>1, <1>4, <1>5, <1>6, Zenon DEF RoundLeft
<1>8. ASSUME NEW j \in DOMAIN todo, todo[j].kind = Current.kind, todo[j].conn = Current.conn
      PROVE  j = 1
  <2>1. 1 \in DOMAIN todo /\ todo[j] \in Request /\ todo[1] \in Request
    BY <1>1
  <2>2. todo[j].round = todo[1].round
    BY <2>1 DEF RoundLeft
  <2>3. todo[j] = todo[1]
    BY <1>1, <1>8, <2>1, <2>2 DEF Request
  <2>4. QED
    BY <2>1, <2>3 DEF RoundLeft
<1>9. ASSUME NEW kind, NEW c
      PROVE  Has(kind, c)' <=> Has(kind, c) /\ ~(Current.kind = kind /\ Current.conn = c)
  <2>1. ASSUME Has(kind, c)'
        PROVE  Has(kind, c) /\ ~(Current.kind = kind /\ Current.conn = c)
    <3>1. PICK j \in DOMAIN todo' : todo'[j].kind = kind /\ todo'[j].conn = c
      BY <2>1 DEF Has
    <3>2. j + 1 \in DOMAIN todo /\ todo[j + 1] = todo'[j] /\ j + 1 # 1
      BY <1>2, <1>3
    <3>3. QED
      BY <1>8, <3>1, <3>2 DEF Has
  <2>2. ASSUME Has(kind, c), ~(Current.kind = kind /\ Current.conn = c)
        PROVE  Has(kind, c)'
    <3>1. PICK j \in DOMAIN todo : todo[j].kind = kind /\ todo[j].conn = c
      BY <2>2 DEF Has
    <3>2. j > 1
      BY <1>1, <2>2, <3>1
    <3>3. QED
      BY <1>2, <3>1, <3>2 DEF Has
  <2>3. QED
    BY <2>1, <2>2
<1>10. ASSUME Telling' PROVE Telling
  <2>1. todo' # <<>> /\ Head(todo').kind # "n"
    BY <1>10 DEF Telling, Current
  <2>2. 1 \in DOMAIN todo' /\ Head(todo') = todo'[1]
    BY <1>2, <2>1
  <2>3. 2 \in DOMAIN todo /\ todo[2].kind # "n"
    BY <1>2, <2>1, <2>2
  <2>4. todo[1].kind # "n"
    BY <1>1, <2>3 DEF RoundLeft
  <2>5. QED
    BY <1>1, <2>4 DEF Telling
<1>11. QED
  BY <1>1, <1>2, <1>7, <1>9, <1>10

-----------------------------------------------------------------------------
(* The start, and a new round.                                             *)

LEMMA InitIsFine == Init => IInv
<1> SUFFICES ASSUME Init PROVE IInv
  OBVIOUS
<1>1. /\ Connection \subseteq Conn /\ closed = Conn \ Connection
      /\ nextStep_dict \in InOrder(StepConns(Connection))
      /\ round = 0 /\ todo = <<>> /\ waiting = FALSE
      /\ request = [c \in Conn |-> <<>>] /\ answer = [c \in Conn |-> <<>>]
      /\ value = [c \in Measurants |-> 0]
      /\ global_step = [i \in Ied |-> 0] /\ published = [i \in Ied |-> 0]
      /\ repeated = [i \in Ied |-> 0] /\ reset = {}
      /\ buffer = [i \in Ied |-> [kind |-> "i", round |-> 0]]
      /\ Made = [i \in Ied |-> 0]
  BY DEF Init, Made
<1>2. actuatorCache = [c \in Actuators |-> IF c \in Connection THEN {0} ELSE Default]
  BY DEF Init
<1>3. \A kind, c : ~Has(kind, c) /\ ~UnderWay(c) /\ ~Unserved(kind, c)
  BY <1>1 DEF Has, UnderWay, Unserved
<1>4. ~Telling /\ \A c \in Conn : ~UnreadStep(c)
  BY <1>1 DEF Telling, UnreadStep
<1>5. Types
  <2>1. nextStep_dict \in Seq(Conn)
    BY <1>1, StepDict
  <2>2. actuatorCache \in [Actuators -> SUBSET Nat]
    BY <1>2 DEF Default
  <2>3. /\ Connection \subseteq Conn /\ closed \subseteq Conn /\ Conn \ Connection \subseteq closed
    BY <1>1
  <2>4. round \in Nat /\ todo \in Seq(Request) /\ waiting \in BOOLEAN
    <3>1. round \in Nat /\ todo \in Seq(Request)
      BY <1>1
    <3>2. waiting \in BOOLEAN
      BY <1>1
    <3>3. QED
      BY <3>1, <3>2
  <2>5. request \in [Conn -> Seq(Request)] /\ answer \in [Conn -> Seq(Request)]
    BY <1>1
  <2>6. /\ value \in [Measurants -> Nat]
        /\ global_step \in [Ied -> Nat] /\ published \in [Ied -> Nat]
        /\ repeated \in [Ied -> Nat] /\ Made \in [Ied -> Nat] /\ reset \subseteq closed
    BY <1>1
  <2>7. buffer \in [Ied -> [kind : {"i", "s", "g", "n"}, round : Nat]]
    BY <1>1
  <2>8. QED
    BY <2>1, <2>2, <2>3, <2>4, <2>5, <2>6, <2>7 DEF Types
<1>6. OnePerIed
  BY <1>1, StepDict DEF OnePerIed
<1>7. RoundLeft
  BY <1>1 DEF RoundLeft
<1>8. Channels
  BY <1>1, <1>3 DEF Channels
<1>9. Steps
  <2>1. \A c \in Range(nextStep_dict) : c \in Conn
    BY <1>5 DEF Types, Range
  <2>2. QED
    BY <1>1, <1>3, <1>4, <2>1, Constants DEF Steps
<1>10. Values
  BY <1>1 DEF Values
<1>11. Fresh
  BY <1>1, <1>2 DEF Fresh, IsFresh
<1>12. QED
  BY <1>5, <1>6, <1>7, <1>8, <1>9, <1>10, <1>11 DEF IInv

LEMMA Joined ==
  ASSUME NEW S, NEW p \in Seq(S), NEW q \in Seq(S)
  PROVE  /\ p \o q \in Seq(S) /\ Len(p \o q) = Len(p) + Len(q)
         /\ DOMAIN (p \o q) = 1 .. Len(p) + Len(q)
         /\ \A i \in 1 .. Len(p) : (p \o q)[i] = p[i]
         /\ \A i \in 1 .. Len(q) : (p \o q)[Len(p) + i] = q[i]
<1>1. /\ p \o q \in Seq(S) /\ Len(p \o q) = Len(p) + Len(q)
      /\ Len(p) \in Nat /\ Len(q) \in Nat
  OBVIOUS
<1>2. DOMAIN (p \o q) = 1 .. Len(p) + Len(q)
  BY <1>1
<1>3. \A i \in 1 .. Len(p) : (p \o q)[i] = p[i]
  BY <1>1
<1>4. \A i \in 1 .. Len(q) : (p \o q)[Len(p) + i] = q[i]
  BY <1>1
<1>5. QED
  BY <1>1, <1>2, <1>3, <1>4

(* All requests of a round: a value or a position of every connection, and
   the steps. *)
LEMMA AllRequests ==
  ASSUME Types, OnePerIed, RoundLeft, simulation_step
  PROVE  /\ round' = round + 1 /\ todo' \in Seq(Request)
         /\ RoundLeft'
         /\ \A c \in Measurants : Has("s", c)'
         /\ \A c \in Actuators : Has("g", c)'
         /\ \A c \in Range(nextStep_dict) : Has("n", c)'
<1> DEFINE new == round + 1
           req(kind, c) == [conn |-> c, kind |-> kind, round |-> new]
           kindOf(c) == IF c \in Actuators THEN "g" ELSE "s"
           values == [i \in DOMAIN Conns |-> req(kindOf(Conns[i]), Conns[i])]
           steps == [i \in DOMAIN nextStep_dict |-> req("n", nextStep_dict[i])]
           n == Len(Conns)
           m == Len(nextStep_dict)
<1>1. /\ round' = new /\ new \in Nat /\ waiting' = waiting
      /\ nextStep_dict' = nextStep_dict /\ todo = <<>>
  BY DEF simulation_step, Types
<1>2. todo' = values \o steps
  BY <1>1 DEF simulation_step
<1>3. /\ n \in Nat /\ DOMAIN Conns = 1 .. n /\ m \in Nat /\ DOMAIN nextStep_dict = 1 .. m
      /\ \A i \in 1 .. n : Conns[i] \in Conn
      /\ \A i \in 1 .. m : nextStep_dict[i] \in Conn
  BY Constants DEF Types
<1>4. values \in Seq(Request) /\ Len(values) = n
  <2>1. \A i \in 1 .. n : req(kindOf(Conns[i]), Conns[i]) \in Request
    BY <1>1, <1>3 DEF Request
  <2>2. QED
    BY <1>3, <2>1
<1>5. steps \in Seq(Request) /\ Len(steps) = m
  <2>1. \A i \in 1 .. m : req("n", nextStep_dict[i]) \in Request
    BY <1>1, <1>3 DEF Request
  <2>2. QED
    BY <1>3, <2>1
<1>6. /\ \A i \in 1 .. n : /\ values[i].conn = Conns[i] /\ values[i].round = new
                           /\ values[i].kind = kindOf(Conns[i])
      /\ \A i \in 1 .. m : /\ steps[i].conn = nextStep_dict[i] /\ steps[i].round = new
                           /\ steps[i].kind = "n"
  BY <1>3
<1> HIDE DEF values, steps, n, m
<1>7. /\ todo' \in Seq(Request) /\ Len(todo') = n + m /\ DOMAIN todo' = 1 .. n + m
      /\ \A i \in 1 .. n : todo'[i] = values[i]
      /\ \A i \in 1 .. m : todo'[n + i] = steps[i]
  BY <1>2, <1>3, <1>4, <1>5, Joined
<1>8. \A i \in 1 .. n : /\ todo'[i].conn = Conns[i] /\ todo'[i].round = new
                        /\ todo'[i].kind = kindOf(Conns[i])
  BY <1>6, <1>7
<1>9. ASSUME NEW i \in (n + 1) .. (n + m)
      PROVE  /\ i - n \in DOMAIN nextStep_dict /\ todo'[i].conn = nextStep_dict[i - n]
             /\ todo'[i].kind = "n" /\ todo'[i].round = new
  <2>1. i - n \in 1 .. m /\ n + (i - n) = i
    BY <1>3
  <2>2. todo'[i] = steps[i - n]
    BY <1>7, <2>1
  <2>3. QED
    BY <1>3, <1>6, <2>1, <2>2
<1>10. \A i \in 1 .. n + m : i \in 1 .. n \/ i \in (n + 1) .. (n + m)
  BY <1>3
<1>11. \A c \in Conn : kindOf(c) # "n" /\ (kindOf(c) = "g" <=> c \in Actuators)
                       /\ (kindOf(c) = "s" => c \in Measurants)
  BY Constants
<1> HIDE DEF kindOf
<1>12. (\A j \in DOMAIN todo : todo[j].round = round /\ Proper(todo[j]))'
  <2>1. ASSUME NEW j \in 1 .. n
        PROVE  todo'[j].round = new /\ Proper(todo[j])'
    BY <1>1, <1>3, <1>8, <1>11, <2>1 DEF Proper
  <2>2. ASSUME NEW j \in (n + 1) .. (n + m)
        PROVE  todo'[j].round = new /\ Proper(todo[j])'
    <3>1. todo'[j].conn \in Range(nextStep_dict)
      BY <1>9, <2>2 DEF Range
    <3>2. QED
      BY <1>1, <1>9, <3>1 DEF Proper
  <2>3. QED
    BY <1>1, <1>7, <1>10, <2>1, <2>2
<1>13. \A j, k \in DOMAIN todo' : j < k /\ todo'[k].kind # "n" => todo'[j].kind # "n"
  <2>1. ASSUME NEW j \in 1 .. n + m, NEW k \in 1 .. n + m, j < k, todo'[k].kind # "n"
        PROVE  todo'[j].kind # "n"
    <3>1. k \in 1 .. n
      BY <1>9, <1>10, <2>1
    <3>2. j \in 1 .. n
      BY <1>3, <2>1, <3>1
    <3>3. QED
      BY <1>3, <1>8, <1>11, <3>2
  <2>2. QED
    BY <1>7, <2>1
<1>14. \A j, k \in DOMAIN todo' : todo'[j] = todo'[k] => j = k
  <2>1. ASSUME NEW j \in 1 .. n + m, NEW k \in 1 .. n + m, todo'[j] = todo'[k]
        PROVE  j = k
    <3>1. CASE j \in 1 .. n /\ k \in 1 .. n
      BY <1>3, <1>8, <2>1, <3>1, Constants
    <3>2. CASE j \in (n + 1) .. (n + m) /\ k \in (n + 1) .. (n + m)
      <4>1. nextStep_dict[j - n] = nextStep_dict[k - n]
        BY <1>9, <2>1, <3>2
      <4>2. j - n = k - n
        BY <1>9, <3>2, <4>1 DEF OnePerIed
      <4>3. QED
        BY <1>3, <3>2, <4>2
    <3>3. CASE ~(todo'[j].kind = todo'[k].kind)
      BY <2>1, <3>3
    <3>4. QED
      BY <1>3, <1>8, <1>9, <1>10, <1>11, <3>1, <3>2, <3>3
  <2>2. QED
    BY <1>7, <2>1
<1>15. RoundLeft'
  <2>1. ~waiting
    BY <1>1 DEF RoundLeft
  <2>2. QED
    BY <1>1, <1>12, <1>13, <1>14, <2>1, Zenon DEF RoundLeft
<1>16. \A c \in Conn : Has(kindOf(c), c)'
  <2>1. ASSUME NEW c \in Conn PROVE Has(kindOf(c), c)'
    <3>1. PICK i \in 1 .. n : Conns[i] = c
      BY <1>3, Constants
    <3>2. i \in DOMAIN todo' /\ todo'[i].conn = c /\ todo'[i].kind = kindOf(c)
      BY <1>3, <1>7, <1>8, <3>1
    <3>3. QED
      BY <3>2 DEF Has, kindOf
  <2>2. QED
    BY <2>1
<1>17. \A c \in Range(nextStep_dict) : Has("n", c)'
  <2>1. ASSUME NEW c \in Range(nextStep_dict) PROVE Has("n", c)'
    <3>1. PICK i \in 1 .. m : nextStep_dict[i] = c
      BY <1>3 DEF Range
    <3>2. n + i \in DOMAIN todo' /\ todo'[n + i] = steps[i]
      BY <1>3, <1>7
    <3>3. QED
      BY <1>6, <3>1, <3>2 DEF Has
  <2>2. QED
    BY <2>1
<1>18. QED
  BY <1>1, <1>7, <1>15, <1>16, <1>17, Constants DEF kindOf

(* A new round keeps the invariant: nothing is under way, and all of its
   requests are left. *)
LEMMA NewRound == IInv /\ simulation_step => IInv'
<1> SUFFICES ASSUME IInv, simulation_step PROVE IInv'
  OBVIOUS
<1>1. Types /\ OnePerIed /\ RoundLeft /\ Channels /\ Steps /\ Values /\ Fresh
  BY DEF IInv
<1>2. /\ round' = round + 1 /\ todo' \in Seq(Request) /\ RoundLeft'
      /\ \A c \in Measurants : Has("s", c)'
      /\ \A c \in Actuators : Has("g", c)'
      /\ \A c \in Range(nextStep_dict) : Has("n", c)'
  BY <1>1, AllRequests
<1>3. /\ todo = <<>> /\ nextStep_dict' = nextStep_dict /\ waiting' = waiting
      /\ Connection' = Connection /\ closed' = closed /\ actuatorCache' = actuatorCache
      /\ request' = request /\ answer' = answer /\ alive' = alive
      /\ value' = value /\ published' = published
      /\ reset' = reset /\ buffer' = buffer /\ global_step' = global_step
      /\ repeated' = repeated /\ Made' = Made
  BY DEF simulation_step, iedVars, Made
<1>4. ~waiting /\ round \in Nat
  BY <1>1, <1>3 DEF RoundLeft, Types
<1>5. \A kind, c : ~UnderWay(c) /\ ~UnderWay(c)' /\ (Unserved(kind, c)' <=> Has(kind, c)')
  BY <1>3, <1>4 DEF UnderWay, Unserved
<1>6. Types'
  BY <1>1, <1>2, <1>3, <1>4 DEF Types
<1>7. OnePerIed'
  BY <1>1, <1>3 DEF OnePerIed
<1>8. Channels'
  <2>1. ASSUME NEW c \in Conn, request[c] # <<>> PROVE Head(request[c]).round <= round + 1
    <3>1. Head(request[c]).round \in Nat
      BY <1>1, <2>1, FirstOnChannel DEF Request
    <3>2. Head(request[c]).round <= round
      BY <1>1, <2>1 DEF Channels
    <3>3. QED
      BY <1>4, <3>1, <3>2
  <2>2. \A r : Proper(r)' <=> Proper(r)
    BY <1>3 DEF Proper
  <2>3. QED
    BY <1>1, <1>2, <1>3, <1>5, <2>1, <2>2, Zenon DEF Channels
<1>9. Steps'
  <2>1. \A i \in Ied : Made[i] \in Nat /\ Made[i] <= round
    BY <1>1 DEF Steps, Types
  <2>2. \A i \in Ied : Made[i] < round + 1 /\ Made[i] <= round + 1
    BY <1>4, <2>1
  <2>3. \A c \in Conn : UnreadStep(c)' <=> UnreadStep(c)
    BY <1>3 DEF UnreadStep
  <2>4. ASSUME NEW c \in Conn, UnreadStep(c)
        PROVE  /\ Made[IedOf[c]] < Head(request[c]).round
               /\ Head(request[c]).round < round + 1
    <3>1. request[c] # <<>> /\ Head(request[c]).round \in Nat
      BY <1>1, <2>4, FirstOnChannel DEF UnreadStep, Request
    <3>2. Head(request[c]).round <= round
      BY <1>1, <3>1 DEF Channels
    <3>3. QED
      BY <1>1, <1>4, <2>4, <3>1, <3>2 DEF Steps
  <2>5. ASSUME NEW c \in Range(nextStep_dict) \ closed
        PROVE  /\ IedOf[c] \in Ied
               /\ Unserved("n", c)'
               /\ IedOf[c] \in alive => Made[IedOf[c]] + 1 >= round + 1
    <3>1. c \in Conn /\ IedOf[c] \in Ied
      BY <1>1, StepConnections, Constants
    <3>2. ~Unserved("n", c)
      BY <1>3 DEF Unserved, Has
    <3>3. IedOf[c] \in alive => Made[IedOf[c]] >= round
      BY <1>1, <3>2 DEF Steps
    <3>4. QED
      BY <1>2, <1>4, <1>5, <2>1, <3>1, <3>3
  <2>6. QED
    BY <1>2, <1>3, <2>2, <2>3, <2>4, <2>5 DEF Steps
<1>10. Values'
  <2>1. ASSUME NEW c \in Measurants \ closed, IedOf[c] \in alive
        PROVE  value[c] + 1 >= round + 1 /\ Unserved("s", c)'
    <3>1. ~Unserved("s", c)
      BY <1>3 DEF Unserved, Has
    <3>2. value[c] >= round /\ value[c] \in Nat
      BY <1>1, <2>1, <3>1 DEF Values, Types
    <3>3. QED
      BY <1>2, <1>4, <1>5, <3>2
  <2>2. QED
    BY <1>2, <1>3, <2>1 DEF Values
<1>11. Fresh'
  BY <1>2 DEF Fresh
<1>12. QED
  BY <1>2, <1>6, <1>7, <1>8, <1>9, <1>10, <1>11, Zenon DEF IInv

-----------------------------------------------------------------------------
(* The end of a request: it was passed over or answered, or the connection
   is closed, or the IED is gone.                                          *)

Ends(position) ==
  /\ todo # <<>> /\ EndRequest /\ Cache(position)
  /\ UNCHANGED <<nextStep_dict, round, iedVars>>
  /\ closed \subseteq closed' /\ closed' \subseteq closed \cup {Current.conn}
  /\ reset' \subseteq closed'
  /\ Conn \ Connection' \subseteq closed'
  /\ \/ Connection' = Connection
     \/ Current.kind # "n" /\ Connection' = Connection \ {Current.conn}
  /\ request' \in [Conn -> Seq(Request)] /\ answer' \in [Conn -> Seq(Request)]
  /\ \A c \in Conn \ {Current.conn} : request'[c] = request[c] /\ answer'[c] = answer[c]
  /\ request'[Current.conn] \in {request[Current.conn], <<>>}
  /\ answer'[Current.conn] = <<>>
  /\ Current.conn \notin closed' => request'[Current.conn] = <<>>
  /\ Current.conn \notin closed' /\ IedOf[Current.conn] \in alive =>
       UnderWay(Current.conn) /\ request[Current.conn] = <<>>
  /\ position \in {{round}, Default}
  /\ Current.kind = "g" =>
       /\ Current.conn \in Connection' /\ IedOf[Current.conn] \in alive => position = {round}
       /\ Current.conn \notin Connection' => position = Default

LEMMA EndKeeps ==
  ASSUME IInv, NEW position, Ends(position)
  PROVE  IInv'
<1>1. Types /\ OnePerIed /\ RoundLeft /\ Channels /\ Steps /\ Values /\ Fresh
  BY DEF IInv
<1>2. /\ todo # <<>> /\ EndRequest /\ round' = round /\ nextStep_dict' = nextStep_dict
      /\ alive' = alive /\ value' = value /\ published' = published
      /\ buffer' = buffer /\ global_step' = global_step
      /\ repeated' = repeated /\ Made' = Made
  BY DEF Ends, iedVars, Made
<1>3. /\ todo' \in Seq(Request) /\ waiting' = FALSE /\ RoundLeft'
      /\ \A kind, c : Has(kind, c)' <=>
           Has(kind, c) /\ ~(Current.kind = kind /\ Current.conn = c)
      /\ Telling' => Telling
  BY <1>1, <1>2, RestOfRound
<1>4. Current \in Request /\ Current.conn \in Conn /\ Current.kind \in {"s", "g", "n"}
      /\ Proper(Current)
  BY <1>1, <1>2, FirstRequest DEF Request
<1>5. \A kind, c : ~UnderWay(c)' /\ (Unserved(kind, c)' <=> Has(kind, c)')
  BY <1>3 DEF UnderWay, Unserved
<1>6. \A kind, c : Unserved(kind, c)' => Unserved(kind, c)
  BY <1>3, <1>5 DEF Unserved, UnderWay
<1>7. ASSUME NEW kind, NEW c, c \notin closed', IedOf[c] \in alive, Unserved(kind, c)
      PROVE  Unserved(kind, c)'
  <2>1. ~(Current.kind = kind /\ Current.conn = c)
    BY <1>7 DEF Ends, Unserved
  <2>2. QED
    BY <1>3, <1>5, <1>7, <2>1 DEF Unserved
<1>8. \A c \in Conn : request'[c] \in {request[c], <<>>}
  BY <1>4 DEF Ends
<1>9. closed \subseteq closed' /\ \A c \in Conn \ {Current.conn} : c \in closed' <=> c \in closed
  BY DEF Ends
<1>10. Types'
  <2>1. actuatorCache' \in [Actuators -> SUBSET Nat]
    <3>1. position \subseteq Nat /\ actuatorCache \in [Actuators -> SUBSET Nat]
      BY <1>1 DEF Ends, Default, Types
    <3>2. QED
      BY <3>1 DEF Ends, Cache
  <2>2. Connection' \subseteq Conn /\ closed' \subseteq Conn /\ Conn \ Connection' \subseteq closed'
    BY <1>1, <1>4 DEF Ends, Types
  <2>3. request' \in [Conn -> Seq(Request)] /\ answer' \in [Conn -> Seq(Request)]
    BY DEF Ends
  <2>4. reset' \subseteq closed'
    BY DEF Ends
  <2>5. QED
    BY <1>1, <1>2, <1>3, <2>1, <2>2, <2>3, <2>4 DEF Types
<1>11. OnePerIed'
  BY <1>1, <1>2 DEF OnePerIed
<1>12. Channels'
  <2>1. \A r : Proper(r)' <=> Proper(r)
    BY <1>2 DEF Proper
  <2>2. ASSUME NEW c \in Conn
        PROVE  /\ answer'[c] = <<>>
               /\ c \notin closed' => request'[c] = <<>>
    <3>1. CASE c = Current.conn
      BY <3>1 DEF Ends
    <3>2. CASE c # Current.conn
      <4>1. ~UnderWay(c) /\ request'[c] = request[c] /\ answer'[c] = answer[c]
        BY <3>2 DEF UnderWay, Ends
      <4>2. QED
        BY <1>1, <1>9, <3>2, <4>1 DEF Channels
    <3>3. QED
      BY <3>1, <3>2
  <2>3. ASSUME NEW c \in Conn, request'[c] # <<>>
        PROVE  /\ Tail(request'[c]) = <<>>
               /\ Head(request'[c]).conn = c /\ Proper(Head(request'[c]))
               /\ Head(request'[c]).round <= round
    BY <1>1, <1>8, <2>3 DEF Channels
  <2>4. QED
    BY <1>2, <1>5, <2>1, <2>2, <2>3, Zenon DEF Channels
<1>13. Steps'
  <2>1. \A c \in Conn : UnreadStep(c)' => UnreadStep(c) /\ request'[c] = request[c]
    BY <1>8 DEF UnreadStep
  <2>2. \A c \in Range(nextStep_dict) \ closed' :
          /\ Unserved("n", c)' => Made[IedOf[c]] < round
          /\ IedOf[c] \in alive => /\ Made[IedOf[c]] + 1 >= round
                                   /\ Made[IedOf[c]] >= round \/ Unserved("n", c)'
    <3>1. ASSUME NEW c \in Range(nextStep_dict) \ closed', Unserved("n", c)'
          PROVE  Made[IedOf[c]] < round
      BY <1>1, <1>6, <1>9, <3>1 DEF Steps
    <3>2. ASSUME NEW c \in Range(nextStep_dict) \ closed', IedOf[c] \in alive
          PROVE  /\ Made[IedOf[c]] + 1 >= round
                 /\ Made[IedOf[c]] >= round \/ Unserved("n", c)'
      <4>1. /\ Made[IedOf[c]] + 1 >= round
            /\ Made[IedOf[c]] >= round \/ Unserved("n", c)
        BY <1>1, <1>9, <3>2 DEF Steps
      <4>2. QED
        BY <1>7, <3>2, <4>1
    <3>3. QED
      BY <3>1, <3>2
  <2>3. Telling' => /\ \A i \in Ied : Made[i] < round
                    /\ \A c \in Conn : UnreadStep(c)' => Head(request'[c]).round < round
    BY <1>1, <1>3, <2>1 DEF Steps
  <2>4. /\ \A i \in Ied : Made[i] <= round
        /\ \A c \in Conn : UnreadStep(c)' => Made[IedOf[c]] < Head(request'[c]).round
    BY <1>1, <2>1 DEF Steps
  <2>5. QED
    BY <1>2, <2>2, <2>3, <2>4, Zenon DEF Steps
<1>14. Values'
  <2>1. ASSUME NEW c \in Measurants \ closed', IedOf[c] \in alive
        PROVE  /\ value[c] + 1 >= round
               /\ value[c] >= round \/ Unserved("s", c)'
    <3>1. value[c] + 1 >= round /\ (value[c] >= round \/ Unserved("s", c))
      BY <1>1, <1>9, <2>1 DEF Values
    <3>2. QED
      BY <1>7, <2>1, <3>1
  <2>2. QED
    BY <1>2, <2>1, Zenon DEF Values
<1>15. Fresh'
  <2>1. ASSUME NEW c \in Actuators, ~Has("g", c)' PROVE IsFresh(c)'
    <3>1. c \in Conn /\ c \notin Measurants /\ actuatorCache \in [Actuators -> SUBSET Nat]
      BY <1>1, Constants DEF Types
    <3>2. CASE Current.kind = "g" /\ Current.conn = c
      <4>1. actuatorCache'[c] = position
        BY <3>1, <3>2 DEF Ends, Cache
      <4>2. QED
        BY <1>2, <3>2, <4>1 DEF Ends, IsFresh
    <3>3. CASE ~(Current.kind = "g" /\ Current.conn = c)
      <4>1. IsFresh(c)
        BY <1>1, <1>3, <2>1, <3>3 DEF Fresh
      <4>2. actuatorCache'[c] = actuatorCache[c]
        BY <3>1, <3>3 DEF Ends, Cache
      <4>3. c \in Connection' <=> c \in Connection
        <5>1. CASE Current.conn = c
          <6>1. Current.kind = "n"
            BY <1>4, <3>1, <3>3, <5>1 DEF Proper
          <6>2. QED
            BY <6>1 DEF Ends
        <5>2. CASE Current.conn # c
          BY <5>2 DEF Ends
        <5>3. QED
          BY <5>1, <5>2
      <4>4. QED
        BY <1>2, <4>1, <4>2, <4>3 DEF IsFresh
    <3>4. QED
      BY <3>2, <3>3
  <2>2. QED
    BY <2>1 DEF Fresh
<1>16. QED
  BY <1>3, <1>10, <1>11, <1>12, <1>13, <1>14, <1>15, Zenon DEF IInv

LEMMA SkipEnds == ASSUME IInv, Skip PROVE IInv'
<1>1. Types /\ RoundLeft /\ Channels
  BY DEF IInv
<1>2. /\ todo # <<>> /\ ~waiting /\ Current.kind # "n" /\ Current.conn \notin Connection
      /\ EndRequest /\ Cache(Default) /\ Connection' = Connection /\ closed' = closed
      /\ nextStep_dict' = nextStep_dict /\ round' = round
      /\ request' = request /\ answer' = answer /\ reset' = reset /\ UNCHANGED iedVars
  BY DEF Skip
<1>3. Current.conn \in Conn
  BY <1>1, <1>2, FirstRequest
<1>4. Current.conn \in closed /\ answer[Current.conn] = <<>>
  BY <1>1, <1>2, <1>3 DEF Types, Channels
<1>5. Conn \ Connection' \subseteq closed' /\ reset' \subseteq closed'
  BY <1>1, <1>2 DEF Types
<1>6. request' \in [Conn -> Seq(Request)] /\ answer' \in [Conn -> Seq(Request)]
  BY <1>1, <1>2 DEF Types
<1>7. Ends(Default)
  BY <1>2, <1>4, <1>5, <1>6 DEF Ends
<1>8. QED
  BY <1>7, EndKeeps

LEMMA ReceiveEnds == ASSUME IInv, Receive PROVE IInv'
<1> DEFINE c == Current.conn
           position == {Head(answer[Current.conn]).round}
<1>1. Types /\ RoundLeft /\ Channels
  BY DEF IInv
<1>2. /\ waiting /\ answer[c] # <<>>
      /\ EndRequest /\ Cache(position) /\ Connection' = Connection /\ closed' = closed
      /\ nextStep_dict' = nextStep_dict /\ round' = round
      /\ request' = request /\ answer' = [answer EXCEPT ![c] = Tail(@)]
      /\ reset' = reset /\ UNCHANGED iedVars
  BY DEF Receive
<1>3. todo # <<>>
  BY <1>1, <1>2 DEF RoundLeft
<1>4. /\ Current \in Request /\ c \in Conn /\ Current.round = round
      /\ Current.kind = "g" => c \in Actuators
  BY <1>1, <1>3, FirstRequest DEF Proper
<1>5. c \notin closed /\ UnderWay(c) /\ request[c] = <<>> /\ answer[c] = <<Current>>
  BY <1>1, <1>2, <1>4 DEF Channels, UnderWay
<1>6. position = {round}
  BY <1>4, <1>5
<1>7. c \in Connection
  BY <1>1, <1>4, <1>5 DEF Types
<1>8. /\ answer' \in [Conn -> Seq(Request)]
      /\ answer'[c] = <<>> /\ \A d \in Conn \ {c} : answer'[d] = answer[d]
  <2>1. Tail(answer[c]) = <<>>
    BY <1>5
  <2>2. answer' = [answer EXCEPT ![c] = <<>>]
    BY <1>2, <2>1
  <2>3. QED
    BY <1>1, <1>4, <2>2 DEF Types
<1>9. /\ Conn \ Connection' \subseteq closed' /\ reset' \subseteq closed'
      /\ request' \in [Conn -> Seq(Request)]
  BY <1>1, <1>2 DEF Types
<1>10. Ends(position)
  BY <1>2, <1>3, <1>5, <1>6, <1>7, <1>8, <1>9 DEF Ends
<1> HIDE DEF position
<1>11. QED
  BY <1>10, EndKeeps

LEMMA ExceptEnds == ASSUME IInv, todo # <<>>, Except PROVE IInv'
<1> DEFINE c == Current.conn
<1>1. Types /\ RoundLeft /\ Channels
  BY DEF IInv
<1>2. /\ EndRequest /\ Cache(Default) /\ closed' = closed \cup {c}
      /\ Connection' = IF Current.kind = "n" THEN Connection ELSE Connection \ {c}
      /\ answer' = [answer EXCEPT ![c] = <<>>]
      /\ nextStep_dict' = nextStep_dict /\ round' = round
      /\ request' = request /\ UNCHANGED iedVars
      /\ reset' = IF answer[c] = <<>> THEN reset ELSE reset \cup {c}
  BY DEF Except
<1>3. c \in Conn
  BY <1>1, FirstRequest
<1>4. /\ answer' \in [Conn -> Seq(Request)]
      /\ answer'[c] = <<>> /\ \A d \in Conn \ {c} : answer'[d] = answer[d]
  BY <1>1, <1>2, <1>3 DEF Types
<1>5. /\ Conn \ Connection' \subseteq closed' /\ reset' \subseteq closed'
      /\ request' \in [Conn -> Seq(Request)]
  BY <1>1, <1>2 DEF Types
<1>6. c \in closed' /\ closed \subseteq closed'
  BY <1>2
<1>7. \/ Connection' = Connection
      \/ Current.kind # "n" /\ Connection' = Connection \ {c}
  BY <1>2
<1>8. Current.kind = "g" => c \notin Connection'
  BY <1>2
<1>9. Ends(Default)
  BY <1>2, <1>4, <1>5, <1>6, <1>7, <1>8 DEF Ends
<1>10. QED
  BY <1>9, EndKeeps

LEMMA ReceiveEndEnds == ASSUME IInv, ReceiveEnd PROVE IInv'
<1> DEFINE c == Current.conn
<1>1. Types /\ RoundLeft /\ Channels
  BY DEF IInv
<1>2. /\ waiting /\ answer[c] = <<>> /\ IedOf[c] \notin alive
      /\ EndRequest /\ Cache(Default) /\ Connection' = Connection /\ closed' = closed
      /\ nextStep_dict' = nextStep_dict /\ round' = round
      /\ answer' = answer /\ request' = [request EXCEPT ![c] = <<>>]
      /\ reset' = reset /\ UNCHANGED iedVars
  BY DEF ReceiveEnd
<1>3. todo # <<>>
  BY <1>1, <1>2 DEF RoundLeft
<1>4. c \in Conn
  BY <1>1, <1>3, FirstRequest
<1>5. /\ request' \in [Conn -> Seq(Request)]
      /\ request'[c] = <<>> /\ \A d \in Conn \ {c} : request'[d] = request[d]
  BY <1>1, <1>2, <1>4 DEF Types
<1>6. /\ Conn \ Connection' \subseteq closed' /\ reset' \subseteq closed'
      /\ answer' \in [Conn -> Seq(Request)]
  BY <1>1, <1>2 DEF Types
<1>7. Ends(Default)
  BY <1>2, <1>3, <1>5, <1>6 DEF Ends
<1>8. QED
  BY <1>7, EndKeeps

-----------------------------------------------------------------------------
(* A request is sent: its connection is open, and had nothing on it.       *)

LEMMA SendKeeps == ASSUME IInv, Send PROVE IInv'
<1> DEFINE c == Current.conn
<1>1. Types /\ OnePerIed /\ RoundLeft /\ Channels /\ Steps /\ Values /\ Fresh
  BY DEF IInv
<1>2. /\ todo # <<>> /\ ~waiting /\ c \notin closed /\ waiting' = TRUE
      /\ request' = [request EXCEPT ![c] = Append(@, Current)]
      /\ Connection' = Connection /\ closed' = closed /\ nextStep_dict' = nextStep_dict
      /\ actuatorCache' = actuatorCache /\ round' = round /\ todo' = todo
      /\ answer' = answer /\ alive' = alive /\ value' = value
      /\ published' = published
      /\ reset' = reset /\ buffer' = buffer /\ global_step' = global_step
      /\ repeated' = repeated /\ Made' = Made
  BY DEF Send, iedVars, Made
<1>3. /\ Current \in Request /\ c \in Conn /\ Current.round = round /\ Proper(Current)
      /\ Has(Current.kind, c)
  BY <1>1, <1>2, FirstRequest
<1>4. Current' = Current
  BY <1>2 DEF Current
<1>5. request[c] = <<>> /\ answer[c] = <<>> /\ \A d : ~UnderWay(d)
  BY <1>1, <1>2, <1>3 DEF Channels, UnderWay
<1>6. /\ request' = [request EXCEPT ![c] = <<Current>>]
      /\ request'[c] = <<Current>> /\ request' \in [Conn -> Seq(Request)]
      /\ \A d \in Conn \ {c} : request'[d] = request[d]
  <2>1. Append(request[c], Current) = <<Current>>
    BY <1>5
  <2>2. request' = [request EXCEPT ![c] = <<Current>>]
    BY <1>2, <2>1
  <2>3. <<Current>> \in Seq(Request)
    BY <1>3
  <2>4. QED
    BY <1>1, <1>3, <2>2, <2>3 DEF Types
<1>7. \A d : UnderWay(d)' <=> c = d
  BY <1>2, <1>4 DEF UnderWay
<1>8. \A kind, d : (Has(kind, d)' <=> Has(kind, d)) /\ (Unserved(kind, d)' <=> Unserved(kind, d))
  <2>1. \A kind, d : Has(kind, d)' <=> Has(kind, d)
    BY <1>2 DEF Has
  <2>2. <<Current>> # <<>>
    OBVIOUS
  <2>3. QED
    BY <1>5, <1>6, <1>7, <2>1, <2>2 DEF Unserved
<1>9. Types'
  BY <1>1, <1>2, <1>6 DEF Types
<1>10. OnePerIed'
  BY <1>1, <1>2 DEF OnePerIed
<1>11. \A r : Proper(r)' <=> Proper(r)
  BY <1>2 DEF Proper
<1>12. RoundLeft'
  BY <1>1, <1>2, <1>11, Zenon DEF RoundLeft
<1>13. Channels'
  <2>1. ASSUME NEW d \in Conn
        PROVE  /\ d \in closed => answer[d] = <<>> /\ ~UnderWay(d)'
               /\ d \notin closed /\ UnderWay(d)' => request'[d] = <<Current>> /\ answer[d] = <<>>
               /\ d \notin closed /\ ~UnderWay(d)' => request'[d] = <<>> /\ answer[d] = <<>>
    BY <1>1, <1>2, <1>5, <1>6, <1>7 DEF Channels
  <2>2. ASSUME NEW d \in Conn, request'[d] # <<>>
        PROVE  /\ Tail(request'[d]) = <<>>
               /\ Head(request'[d]).conn = d /\ Proper(Head(request'[d]))
               /\ Head(request'[d]).round <= round
    <3>1. CASE d = c
      <4>1. round <= round
        BY <1>1 DEF Types
      <4>2. QED
        BY <1>3, <1>6, <3>1, <4>1
    <3>2. CASE d # c
      BY <1>1, <1>6, <2>2, <3>2 DEF Channels
    <3>3. QED
      BY <3>1, <3>2
  <2>3. QED
    BY <1>2, <1>4, <1>11, <2>1, <2>2, Zenon DEF Channels
<1>14. Steps'
  <2>1. Telling' <=> Telling
    BY <1>2, <1>4 DEF Telling
  <2>2. ASSUME NEW d \in Conn, UnreadStep(d)'
        PROVE  /\ Made[IedOf[d]] < Head(request'[d]).round
               /\ Telling => Head(request'[d]).round < round
    <3>1. CASE d = c
      <4>1. Head(request'[d]) = Current /\ Current.kind = "n"
        BY <1>6, <2>2, <3>1 DEF UnreadStep
      <4>2. c \in Range(nextStep_dict) \ closed /\ Unserved("n", c)
        BY <1>2, <1>3, <1>5, <4>1 DEF Proper, Unserved
      <4>3. Made[IedOf[c]] < round
        BY <1>1, <4>2 DEF Steps
      <4>4. ~Telling
        BY <4>1 DEF Telling
      <4>5. QED
        BY <1>3, <3>1, <4>1, <4>3, <4>4
    <3>2. CASE d # c
      BY <1>1, <1>6, <2>2, <3>2 DEF Steps, UnreadStep
    <3>3. QED
      BY <3>1, <3>2
  <2>3. QED
    BY <1>1, <1>2, <1>8, <2>1, <2>2 DEF Steps
<1>15. Values'
  BY <1>1, <1>2, <1>8 DEF Values
<1>16. Fresh'
  BY <1>1, <1>2, <1>8 DEF Fresh, IsFresh
<1>17. QED
  BY <1>9, <1>10, <1>12, <1>13, <1>14, <1>15, <1>16, Zenon DEF IInv

-----------------------------------------------------------------------------
(* An IED answers a request: one that is under way on an open connection,
   or one that is left on a closed one.                                    *)

LEMMA ServeKeeps ==
  ASSUME IInv, NEW c \in Conn, Serve(c)
  PROVE  IInv'
<1> DEFINE r == Head(request[c])
           i == IedOf[c]
<1>1. Types /\ OnePerIed /\ RoundLeft /\ Channels /\ Steps /\ Values /\ Fresh
  BY DEF IInv
<1>2. /\ request[c] # <<>> /\ request' = [request EXCEPT ![c] = Tail(@)]
      /\ value' = IF r.kind = "s" THEN [value EXCEPT ![c] = r.round] ELSE value
      /\ global_step' = IF r.kind = "n" THEN [global_step EXCEPT ![i] = @ + 1] ELSE global_step
      /\ buffer' = [buffer EXCEPT ![i] = [kind |-> r.kind, round |-> r.round]]
      /\ answer' = IF c \in closed THEN answer ELSE [answer EXCEPT ![c] = Append(@, r)]
  BY DEF Serve
<1>3. /\ Connection' = Connection /\ closed' = closed /\ nextStep_dict' = nextStep_dict
      /\ actuatorCache' = actuatorCache /\ round' = round /\ todo' = todo
      /\ waiting' = waiting /\ alive' = alive /\ published' = published
      /\ reset' = reset /\ repeated' = repeated
  BY DEF Serve, simVars
<1>4. /\ r \in Request /\ r.conn = c /\ Proper(r) /\ r.round <= round /\ r.round \in Nat
      /\ Tail(request[c]) = <<>> /\ i \in Ied /\ round \in Nat
  BY <1>1, <1>2, FirstOnChannel, Constants DEF Channels, Types, Request
<1>5. Current' = Current /\ \A d : UnderWay(d)' <=> UnderWay(d)
  BY <1>3 DEF Current, UnderWay
<1>6. /\ request' \in [Conn -> Seq(Request)] /\ request'[c] = <<>>
      /\ \A d \in Conn \ {c} : request'[d] = request[d]
  BY <1>1, <1>2, <1>4 DEF Types
<1>7. c \notin closed => UnderWay(c) /\ r = Current /\ answer[c] = <<>> /\ todo # <<>>
                         /\ r.round = round
  <2>1. ASSUME c \notin closed
        PROVE  UnderWay(c) /\ request[c] = <<Current>> /\ answer[c] = <<>>
    BY <1>1, <1>2, <2>1 DEF Channels
  <2>2. UnderWay(c) => todo # <<>>
    BY <1>1 DEF UnderWay, RoundLeft
  <2>3. QED
    BY <1>1, <2>1, <2>2, FirstRequest
<1>8. /\ answer' \in [Conn -> Seq(Request)]
      /\ c \in closed => answer'[c] = answer[c]
      /\ c \notin closed => answer'[c] = <<Current>>
      /\ \A d \in Conn \ {c} : answer'[d] = answer[d]
  <2>1. CASE c \in closed
    BY <1>1, <1>2, <2>1 DEF Types
  <2>2. CASE c \notin closed
    <3>1. Append(answer[c], r) = <<Current>> /\ <<Current>> \in Seq(Request)
      <4>1. answer[c] = <<>> /\ r = Current /\ Current \in Request
        BY <1>4, <1>7, <2>2
      <4> HIDE DEF r
      <4>2. Append(<<>>, Current) = <<Current>>
        OBVIOUS
      <4>3. QED
        BY <4>1, <4>2
    <3>2. answer' = [answer EXCEPT ![c] = <<Current>>]
      BY <1>2, <2>2, <3>1
    <3>3. QED
      BY <1>1, <2>2, <3>1, <3>2 DEF Types
  <2>3. QED
    BY <2>1, <2>2
<1>9. /\ value' \in [Measurants -> Nat]
      /\ \A d \in Measurants : value'[d] = IF r.kind = "s" /\ d = c THEN r.round ELSE value[d]
  <2>1. CASE r.kind = "s"
    <3>1. c \in Measurants
      BY <1>4, <2>1 DEF Proper
    <3>2. QED
      BY <1>1, <1>2, <1>4, <2>1, <3>1 DEF Types
  <2>2. CASE r.kind # "s"
    BY <1>1, <1>2, <2>2 DEF Types
  <2>3. QED
    BY <2>1, <2>2
<1>10. /\ global_step' \in [Ied -> Nat] /\ Made' \in [Ied -> Nat]
       /\ \A j \in Ied : Made'[j] = IF r.kind = "n" /\ j = i THEN Made[j] + 1 ELSE Made[j]
  <2>1. \A j \in Ied : /\ global_step[j] \in Nat /\ repeated[j] \in Nat /\ Made[j] \in Nat
                        /\ Made[j] = global_step[j] - repeated[j]
                        /\ Made'[j] = global_step'[j] - repeated[j]
    BY <1>1, <1>3 DEF Types, Made
  <2>2. /\ global_step' \in [Ied -> Nat]
        /\ \A j \in Ied : global_step'[j] = IF r.kind = "n" /\ j = i THEN global_step[j] + 1
                                             ELSE global_step[j]
    <3>1. CASE r.kind = "n"
      <4> HIDE DEF r, i
      <4>1. /\ global_step' = [global_step EXCEPT ![i] = global_step[i] + 1]
            /\ global_step \in [Ied -> Nat] /\ i \in Ied
        BY <1>1, <1>2, <1>4, <3>1 DEF Types
      <4>2. QED
        BY <3>1, <4>1
    <3>2. CASE r.kind # "n"
      BY <1>1, <1>2, <3>2 DEF Types
    <3>3. QED
      BY <3>1, <3>2
  <2>3. \A j \in Ied : Made'[j] = IF r.kind = "n" /\ j = i THEN Made[j] + 1 ELSE Made[j]
    BY <2>1, <2>2
  <2>4. \A j \in Ied : Made'[j] \in Nat
    BY <2>1, <2>3
  <2>5. Made' \in [Ied -> Nat]
    BY <2>4 DEF Made
  <2>6. QED
    BY <2>2, <2>3, <2>5
<1>11. \A kind, d : Has(kind, d)' <=> Has(kind, d)
  BY <1>3 DEF Has
<1>12. /\ \A kind : \A d \in Conn : Unserved(kind, d)' => Unserved(kind, d)
       /\ \A kind : \A d \in Conn \ closed :
            Unserved(kind, d) => Unserved(kind, d)' \/ (d = c /\ r.kind = kind)
  <2>1. ASSUME NEW kind, NEW d \in Conn, d # c PROVE Unserved(kind, d)' <=> Unserved(kind, d)
    BY <1>5, <1>6, <1>11, <2>1 DEF Unserved
  <2>2. ASSUME NEW kind, Unserved(kind, c)' PROVE Unserved(kind, c)
    BY <1>2, <1>11, <2>2 DEF Unserved
  <2>3. ASSUME NEW kind, c \notin closed, Unserved(kind, c), r.kind # kind
        PROVE  Unserved(kind, c)'
    BY <1>5, <1>7, <1>11, <2>3 DEF Unserved
  <2>4. QED
    BY <2>1, <2>2, <2>3
<1>13. \A d \in Conn : UnreadStep(d)' <=> UnreadStep(d) /\ d # c
  BY <1>6 DEF UnreadStep
<1>14. /\ r.kind = "n" => c \in Range(nextStep_dict)
       /\ \A d \in Range(nextStep_dict) : r.kind = "n" /\ IedOf[d] = i => d = c
  BY <1>1, <1>4 DEF Proper, OnePerIed, Range
<1>15. r.kind = "n" => Made[i] < r.round
  BY <1>1, <1>2 DEF UnreadStep, Steps
<1>16. Types'
  <2>1. buffer' \in [Ied -> [kind : {"i", "s", "g", "n"}, round : Nat]]
    <3>1. [kind |-> r.kind, round |-> r.round] \in [kind : {"i", "s", "g", "n"}, round : Nat]
      BY <1>4 DEF Request
    <3>2. QED
      BY <1>1, <1>2, <3>1 DEF Types
  <2>2. QED
    BY <1>1, <1>3, <1>6, <1>8, <1>9, <1>10, <2>1 DEF Types
<1> HIDE DEF r, i
<1>17. OnePerIed'
  BY <1>1, <1>3 DEF OnePerIed
<1>18. \A q : Proper(q)' <=> Proper(q)
  BY <1>3 DEF Proper
<1>19. RoundLeft'
  BY <1>1, <1>3, <1>18, Zenon DEF RoundLeft
<1>20. Channels'
  <2>1. ASSUME NEW d \in Conn
        PROVE  /\ d \in closed => answer'[d] = <<>> /\ ~UnderWay(d)
               /\ d \notin closed /\ UnderWay(d) =>
                    \/ request'[d] = <<Current>> /\ answer'[d] = <<>>
                    \/ request'[d] = <<>> /\ answer'[d] = <<Current>>
               /\ d \notin closed /\ ~UnderWay(d) => request'[d] = <<>> /\ answer'[d] = <<>>
    <3>1. CASE d = c
      BY <1>1, <1>6, <1>7, <1>8, <3>1 DEF Channels
    <3>2. CASE d # c
      BY <1>1, <1>6, <1>8, <3>2 DEF Channels
    <3>3. QED
      BY <3>1, <3>2
  <2>2. ASSUME NEW d \in Conn, request'[d] # <<>>
        PROVE  /\ Tail(request'[d]) = <<>>
               /\ Head(request'[d]).conn = d /\ Proper(Head(request'[d]))
               /\ Head(request'[d]).round <= round
    BY <1>1, <1>6, <2>2 DEF Channels
  <2>3. QED
    BY <1>3, <1>5, <1>18, <2>1, <2>2, Zenon DEF Channels
<1>21. Steps'
  <2>1. \A j \in Ied : Made[j] \in Nat /\ Made[j] <= round
    BY <1>1 DEF Steps, Types
  <2>2. \A j \in Ied : Made'[j] >= Made[j] /\ Made'[j] <= round
    BY <1>4, <1>10, <1>15, <2>1
  <2>3. ASSUME NEW d \in Conn, UnreadStep(d)'
        PROVE  Made'[IedOf[d]] < Head(request'[d]).round
    <3>1. UnreadStep(d) /\ d # c /\ request'[d] = request[d] /\ IedOf[d] \in Ied
      BY <1>6, <1>13, <2>3, Constants
    <3>2. d \in Range(nextStep_dict)
      BY <1>1, <3>1 DEF UnreadStep, Channels, Proper
    <3>3. Made'[IedOf[d]] = Made[IedOf[d]]
      BY <1>10, <1>14, <3>1, <3>2
    <3>4. QED
      BY <1>1, <3>1, <3>3 DEF Steps
  <2>4. ASSUME NEW d \in Range(nextStep_dict) \ closed, Unserved("n", d)'
        PROVE  Made'[IedOf[d]] < round
    <3>1. d \in Conn /\ IedOf[d] \in Ied
      BY <1>1, StepConnections, Constants
    <3>2. Unserved("n", d) /\ Made[IedOf[d]] < round
      BY <1>1, <1>12, <2>4, <3>1 DEF Steps
    <3>3. ~(r.kind = "n" /\ IedOf[d] = i)
      <4>1. ASSUME r.kind = "n", IedOf[d] = i PROVE FALSE
        <5>1. d = c
          BY <1>14, <4>1
        <5>2. UnderWay(c) /\ Current.kind = "n"
          BY <1>7, <4>1, <5>1
        <5>3. QED
          BY <1>5, <1>6, <2>4, <5>1, <5>2 DEF Unserved
      <4>2. QED
        BY <4>1
    <3>4. QED
      BY <1>10, <3>1, <3>2, <3>3
  <2>5. ASSUME NEW d \in Range(nextStep_dict) \ closed, IedOf[d] \in alive
        PROVE  /\ Made'[IedOf[d]] + 1 >= round
               /\ Made'[IedOf[d]] >= round \/ Unserved("n", d)'
    <3>1. d \in Conn /\ IedOf[d] \in Ied
      BY <1>1, StepConnections, Constants
    <3>2. /\ Made[IedOf[d]] + 1 >= round
          /\ Made[IedOf[d]] >= round \/ Unserved("n", d)
      BY <1>1, <2>5 DEF Steps
    <3>3. Made[IedOf[d]] \in Nat /\ Made'[IedOf[d]] \in Nat
      BY <1>10, <2>1, <3>1
    <3>4. CASE d = c /\ r.kind = "n"
      <4>1. Made'[IedOf[d]] = Made[IedOf[d]] + 1
        BY <1>10, <3>1, <3>4 DEF i
      <4>2. QED
        BY <1>4, <3>2, <3>3, <4>1
    <3>5. CASE ~(d = c /\ r.kind = "n")
      <4>1. Unserved("n", d) => Unserved("n", d)'
        BY <1>12, <3>1, <3>5
      <4>2. Made'[IedOf[d]] >= Made[IedOf[d]]
        BY <2>2, <3>1
      <4>3. Made[IedOf[d]] >= round => Made'[IedOf[d]] >= round
        BY <1>4, <3>3, <4>2
      <4>4. Made'[IedOf[d]] + 1 >= round
        BY <1>4, <3>2, <3>3, <4>2
      <4>5. QED
        BY <3>2, <4>1, <4>3, <4>4
    <3>6. QED
      BY <3>4, <3>5
  <2>6. Telling' <=> Telling
    BY <1>3, <1>5 DEF Telling
  <2>7. ASSUME Telling, NEW j \in Ied PROVE Made'[j] < round
    <3>1. Made[j] < round
      BY <1>1, <2>7 DEF Steps
    <3>2. r.kind = "n" => r.round < round
      BY <1>1, <1>2, <2>7 DEF Steps, UnreadStep, r
    <3>3. QED
      BY <1>4, <1>10, <1>15, <2>1, <3>1, <3>2
  <2>8. ASSUME Telling, NEW d \in Conn, UnreadStep(d)' PROVE Head(request'[d]).round < round
    BY <1>1, <1>6, <1>13, <2>8 DEF Steps
  <2>9. QED
    BY <1>3, <2>2, <2>3, <2>4, <2>5, <2>6, <2>7, <2>8, Zenon DEF Steps
<1>22. Values'
  <2>1. ASSUME NEW d \in Measurants \ closed, IedOf[d] \in alive
        PROVE  /\ value'[d] + 1 >= round
               /\ value'[d] >= round \/ Unserved("s", d)'
    <3>1. /\ d \in Conn /\ value[d] + 1 >= round
          /\ value[d] >= round \/ Unserved("s", d)
      BY <1>1, <2>1, Constants DEF Values
    <3>2. CASE d = c /\ r.kind = "s"
      <4>1. value'[d] = round
        BY <1>7, <1>9, <2>1, <3>2
      <4>2. QED
        BY <1>4, <4>1
    <3>3. CASE ~(d = c /\ r.kind = "s")
      <4>1. value'[d] = value[d]
        BY <1>9, <2>1, <3>3
      <4>2. Unserved("s", d) => Unserved("s", d)'
        BY <1>12, <2>1, <3>1, <3>3
      <4>3. QED
        BY <3>1, <4>1, <4>2
    <3>4. QED
      BY <3>2, <3>3
  <2>2. QED
    BY <1>3, <2>1, Zenon DEF Values
<1>23. Fresh'
  BY <1>1, <1>3, <1>11 DEF Fresh, IsFresh
<1>24. QED
  BY <1>16, <1>17, <1>19, <1>20, <1>21, <1>22, <1>23, Zenon DEF IInv

-----------------------------------------------------------------------------
(* The steps that leave the simulator, the channels and what was made of   *)
(* each request alone.                                                     *)

LEMMA QuietKeeps ==
  ASSUME IInv, UNCHANGED <<simVars, request, answer, Made>>,
         reset' \subseteq reset, alive' \subseteq alive,
         buffer' \in [Ied -> [kind : {"i", "s", "g", "n"}, round : Nat]],
         global_step' \in [Ied -> Nat], repeated' \in [Ied -> Nat],
         published' \in [Ied -> Nat], value' \in [Measurants -> Nat],
         \A c \in Measurants \ closed : value'[c] = value[c]
  PROVE  IInv'
<1>1. Types /\ OnePerIed /\ RoundLeft /\ Channels /\ Steps /\ Values /\ Fresh
  BY DEF IInv
<1>2. /\ Connection' = Connection /\ closed' = closed /\ nextStep_dict' = nextStep_dict
      /\ actuatorCache' = actuatorCache /\ round' = round /\ todo' = todo
      /\ waiting' = waiting /\ request' = request /\ answer' = answer
      /\ Made' = Made
  BY DEF simVars
<1>3. /\ Current' = Current /\ (Telling' <=> Telling)
      /\ \A c : (UnderWay(c)' <=> UnderWay(c)) /\ (UnreadStep(c)' <=> UnreadStep(c))
      /\ \A r : Proper(r)' <=> Proper(r)
  BY <1>2 DEF Current, Telling, UnderWay, UnreadStep, Proper
<1>4. \A kind, c : (Has(kind, c)' <=> Has(kind, c)) /\ (Unserved(kind, c)' <=> Unserved(kind, c))
  BY <1>2 DEF Has, Unserved, Current, UnderWay
<1>5. Types' /\ OnePerIed'
  BY <1>1, <1>2 DEF Types, OnePerIed
<1>6. RoundLeft'
  BY <1>1, <1>2, <1>3, Zenon DEF RoundLeft
<1>7. Channels'
  BY <1>1, <1>2, <1>3, Zenon DEF Channels
<1>8. Steps'
  BY <1>1, <1>2, <1>3, <1>4 DEF Steps
<1>9. Values'
  BY <1>1, <1>2, <1>4 DEF Values
<1>10. Fresh'
  BY <1>1, <1>2, <1>4 DEF Fresh, IsFresh
<1>11. QED
  BY <1>5, <1>6, <1>7, <1>8, <1>9, <1>10, Zenon DEF IInv

(* A request is carried out once more, on a connection that is closed. *)
LEMMA ServeAgainKeeps ==
  ASSUME IInv, NEW c \in Conn, ServeAgain(c)
  PROVE  IInv'
<1> DEFINE i == IedOf[c]
           r == buffer[i]
<1>1. Types
  BY DEF IInv
<1>2. i \in Ied /\ r.round \in Nat /\ c \in closed
  <2>1. i \in Ied /\ c \in reset
    BY Constants DEF ServeAgain
  <2>2. buffer[i] \in [kind : {"i", "s", "g", "n"}, round : Nat]
    BY <1>1, <2>1 DEF Types
  <2>3. QED
    BY <1>1, <2>1, <2>2 DEF Types
<1>3. /\ value' = IF c \in Measurants /\ r.kind \in {"s", "g"}
                  THEN [value EXCEPT ![c] = IF r.kind = "s" THEN r.round ELSE 0]
                  ELSE value
      /\ global_step' = IF r.kind = "n" THEN [global_step EXCEPT ![i] = @ + 1] ELSE global_step
      /\ repeated' = IF r.kind = "n" THEN [repeated EXCEPT ![i] = @ + 1] ELSE repeated
      /\ reset' = reset \ {c}
      /\ UNCHANGED <<simVars, request, answer, alive, buffer, published>>
  BY DEF ServeAgain
<1>4. /\ value' \in [Measurants -> Nat]
      /\ \A d \in Measurants \ closed : value'[d] = value[d]
  BY <1>1, <1>2, <1>3 DEF Types
<1>5. global_step' \in [Ied -> Nat] /\ repeated' \in [Ied -> Nat]
  <2>1. CASE r.kind = "n"
    <3> HIDE DEF r, i
    <3>1. /\ global_step' = [global_step EXCEPT ![i] = global_step[i] + 1]
          /\ repeated' = [repeated EXCEPT ![i] = repeated[i] + 1]
          /\ global_step \in [Ied -> Nat] /\ repeated \in [Ied -> Nat] /\ i \in Ied
      BY <1>1, <1>2, <1>3, <2>1 DEF Types
    <3>2. QED
      BY <3>1
  <2>2. CASE r.kind # "n"
    BY <1>1, <1>3, <2>2 DEF Types
  <2>3. QED
    BY <2>1, <2>2
<1>6. Made' = Made
  <2>1. \A j \in Ied : global_step'[j] - repeated'[j] = global_step[j] - repeated[j]
    <3>1. CASE r.kind = "n"
      BY <1>1, <1>2, <1>3, <3>1 DEF Types
    <3>2. CASE r.kind # "n"
      BY <1>3, <3>2
    <3>3. QED
      BY <3>1, <3>2
  <2>2. QED
    BY <2>1 DEF Made
<1>7. QED
  BY <1>1, <1>3, <1>4, <1>5, <1>6, QuietKeeps DEF Types

LEMMA NextKeeps == IInv /\ [Next]_vars => IInv'
<1> SUFFICES ASSUME IInv, [Next]_vars PROVE IInv'
  OBVIOUS
<1>1. Types /\ RoundLeft
  BY DEF IInv
<1>2. CASE simulation_step
  BY <1>2, NewRound
<1>3. CASE Skip
  BY <1>3, SkipEnds
<1>4. CASE Send
  BY <1>4, SendKeeps
<1>5. CASE Receive
  BY <1>5, ReceiveEnds
<1>6. CASE Timeout
  <2>1. waiting /\ Except
    BY <1>6 DEF Timeout
  <2>2. todo # <<>>
    BY <1>1, <2>1 DEF RoundLeft
  <2>3. QED
    BY <2>1, <2>2, ExceptEnds
<1>7. CASE SendClosed
  BY <1>7, ExceptEnds DEF SendClosed
<1>8. CASE ReceiveEnd
  BY <1>8, ReceiveEndEnds
<1>9. CASE \E c \in Conn : Serve(c) \/ ServeAgain(c)
  BY <1>9, ServeKeeps, ServeAgainKeeps
<1>10. ASSUME NEW i \in Ied, SMV_Thread(i) PROVE IInv'
  <2>1. published' \in [Ied -> Nat]
    BY <1>1, <1>10 DEF Types, SMV_Thread
  <2>2. QED
    BY <1>1, <1>10, <2>1, QuietKeeps DEF SMV_Thread, Made, Types
<1>11. ASSUME NEW i \in Ied, Stop(i) PROVE IInv'
  BY <1>1, <1>11, QuietKeeps DEF Stop, Made, Types
<1>12. CASE UNCHANGED vars
  BY <1>1, <1>12, QuietKeeps DEF vars, iedVars, Made, Types
<1>13. QED
  BY <1>2, <1>3, <1>4, <1>5, <1>6, <1>7, <1>8, <1>9, <1>10, <1>11, <1>12
     DEF Next, Simulator

-----------------------------------------------------------------------------
(* The results.                                                            *)

(* simulation_step with all that a connection can do to it, and the threads
   of the IEDs, keep the invariant. *)
THEOREM Invariance == Spec => []IInv
<1>1. QED
  BY InitIsFine, NextKeeps, PTL DEF Spec

(* But for steps made again after a reset, no IED is ever ahead of the
   simulator, and after a round every IED that runs and can be told has
   made exactly as many steps: _nextStep asks each
   IED over one connection, waits for the answer, and never uses again a
   connection on which an answer may still come. *)
THEOREM InStepAlways == Spec => []InStep
<1>1. ASSUME IInv PROVE InStep
  <2>1. Types /\ Steps
    BY <1>1 DEF IInv
  <2>2. ASSUME todo = <<>>, NEW c \in Range(nextStep_dict) \ closed, IedOf[c] \in alive
        PROVE  global_step[IedOf[c]] = round + repeated[IedOf[c]]
    <3>1. IedOf[c] \in Ied
      BY <2>1, <2>2, StepConnections, Constants
    <3>2. ~Unserved("n", c)
      BY <2>2 DEF Unserved, Has
    <3>3. Made[IedOf[c]] >= round /\ Made[IedOf[c]] <= round
      BY <2>1, <2>2, <3>1, <3>2 DEF Steps
    <3>4. QED
      BY <2>1, <3>1, <3>3 DEF Types, Made
  <2>3. ASSUME NEW i \in Ied PROVE global_step[i] <= round + repeated[i]
    BY <2>1 DEF Types, Steps, Made
  <2>4. QED
    BY <2>2, <2>3 DEF InStep
<1>2. QED
  BY <1>1, Invariance, PTL

(* The next circuit is computed with the positions of this round: _getValue
   never takes an answer to an earlier request for a position, and the
   default it returns stands for a switch that is lost. *)
THEOREM FreshPositionsAlways == Spec => []FreshPositions
<1>1. ASSUME IInv PROVE FreshPositions
  BY <1>1 DEF IInv, Fresh, IsFresh, Has, FreshPositions
<1>2. QED
  BY <1>1, Invariance, PTL

(* SMV_Thread sends no sample before its step, nor with values older than
   that step, but for those made again: the values of a round are sent
   before its "n" requests. *)
THEOREM SamplesNotOlderAlways == Spec => SamplesNotOlder
<1>1. ASSUME IInv, [Next]_vars, NEW i \in Ied, published'[i] # published[i]
      PROVE  /\ published[i] <= global_step[i]
             /\ \A c \in Measurants \ closed :
                  IedOf[c] = i => value[c] + repeated[i] >= published[i]
  <2>1. Types /\ RoundLeft /\ Steps /\ Values
    BY <1>1 DEF IInv
  <2>2. SMV_Thread(i)
    <3>1. published' # published
      BY <1>1
    <3>2. PICK j \in Ied : SMV_Thread(j)
      BY <1>1, <3>1 DEF Next, Simulator, simulation_step, Skip, Send, Receive, Timeout,
         SendClosed, Except, ReceiveEnd, Serve, ServeAgain, Stop, vars, iedVars
    <3>3. j = i
      BY <1>1, <2>1, <3>2 DEF SMV_Thread, Types
    <3>4. QED
      BY <3>2, <3>3
  <2>3. /\ published[i] \in Nat /\ global_step[i] \in Nat /\ round \in Nat
        /\ repeated[i] \in Nat /\ Made[i] \in Nat
        /\ Made[i] = global_step[i] - repeated[i] /\ Made[i] <= round
    BY <2>1 DEF Types, Steps, Made
  <2>4. i \in alive /\ published[i] <= global_step[i]
    <3>1. i \in alive /\ (published[i] = 0 \/ published[i] - 1 < global_step[i])
      BY <2>2 DEF SMV_Thread
    <3>2. QED
      BY <2>3, <3>1
  <2>5. ASSUME NEW c \in Measurants \ closed, IedOf[c] = i
        PROVE  value[c] + repeated[i] >= published[i]
    <3>1. /\ value[c] + 1 >= round /\ value[c] \in Nat
          /\ value[c] >= round \/ Unserved("s", c)
      BY <2>1, <2>4, <2>5 DEF Values, Types
    <3>2. Unserved("s", c) => Made[i] < round
      <4>1. Unserved("s", c) => Telling
        BY <2>1, TellingFirst DEF Unserved
      <4>2. QED
        BY <2>1, <4>1 DEF Steps
    <3>3. QED
      BY <2>3, <2>4, <3>1, <3>2
  <2>6. QED
    BY <2>4, <2>5
<1>2. IInv /\ [Next]_vars =>
        [\A i \in Ied : published'[i] # published[i] =>
           /\ published[i] <= global_step[i]
           /\ \A c \in Measurants \ closed :
                IedOf[c] = i => value[c] + repeated[i] >= published[i]]_vars
  BY <1>1
<1>3. QED
  BY <1>2, Invariance, PTL DEF Spec, SamplesNotOlder

=============================================================================
