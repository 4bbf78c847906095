------------------------------- MODULE Inputs -------------------------------
(***************************************************************************)
(* The inputs that come over the network (input/inputs.c).                 *)
(*                                                                         *)
(* At the start every input (extRef) of a logical node is looked up in the *)
(* list of subscriber entries (SD), which gives its control block and, by  *)
(* counting, its place in the data set; one subscriber is made per control *)
(* block, with the list of the inputs it feeds.  A message is then taken   *)
(* apart along that list, input by input, and each input calls its node    *)
(* back before the next one is copied.  GOOSE and sampled values have a    *)
(* receiver thread each.                                                   *)
(*                                                                         *)
(* Here the GOOSE inputs feed the gates of one CILO, as in BUS1 and BUS2,  *)
(* and the network loses, repeats and reorders messages.                   *)
(*                                                                         *)
(* Every message has the data that its subscribers expect.  The error      *)
(* paths of the walk are left out: a data set that is no structure or too  *)
(* short (inputs.c:348, 358, 384, 443), or an element of another type,     *)
(* which is not copied though the callback runs (368, 476).                *)
(***************************************************************************)
EXTENDS Naturals, SequencesExt, FiniteSets

CONSTANTS
  Gocb, Svcb,                (* the control blocks that are published     *)
  SD,                        (* the subscriber entries: [cb, elem]        *)
  Dataset, APPID, ethAddr,   (* what they say of each control block       *)
  Elements,                  (* the elements of every data set            *)
  InputLists,                (* configurations: sequences of              *)
                             (* [ref |-> <<block, element>>, to |-> ...]  *)
  CILOInput,                 (* the inputs of the CILO: [gate, index]     *)
  DataOf,                    (* per block: the data it may publish        *)
  MaxSt, MaxSq, MaxNet       (* per block: states, retransmissions or     *)
                             (* samples, messages under way               *)

Block == Gocb \cup Svcb
Service == {"GOOSE", "SMV"}
service(b) == IF b \in Gocb THEN "GOOSE" ELSE "SMV"

(* The generator of the configuration writes the entries of a data set one
   after the other, in its order.  An input of a gate takes GOOSE, one
   element; the inputs of other nodes are told apart from them by their
   gate, "none". *)
ASSUME InputsAssumption ==
  /\ Gocb \cap Svcb = {}
  /\ Elements \in Nat
  /\ DataOf \in [Block -> SUBSET [1 .. Elements -> {"off", "on"}]]
  /\ \A b \in Block : MaxSq[b] \in Nat /\ (b \in Svcb => MaxSq[b] > 0)
  /\ SD \in Seq([cb : Block, elem : 1 .. Elements])
  /\ \A k \in DOMAIN SD : SD[k].elem > 1 =>
       k > 1 /\ SD[k - 1] = [cb |-> SD[k].cb, elem |-> SD[k].elem - 1]
  /\ \A list \in InputLists : list \in Seq(Range(list))
  /\ \A list \in InputLists : \A i \in DOMAIN list :
       list[i].to \in CILOInput =>
         /\ list[i].ref[1] \in Gocb
         /\ \A j \in DOMAIN list : list[j].to = list[i].to => j = i

VARIABLES
  inputs,         (* the configured inputs of all nodes, in their order   *)
  pub,            (* per block: stNum, sqNum (smpCnt) and data            *)
  net,            (* per block: the messages under way                    *)
  rx,             (* per service: the callback of the receiver            *)
  count,          (* per block: RefCount and stNum_cache                  *)
  value,          (* extRef->value of each input                          *)
  last, newest,   (* history: per block, the message received last, and   *)
                  (* the newest of those received                         *)
  values, EnaOpn, EnaCls, stOpn, stCls, thread, heard       (* the CILO   *)

C == INSTANCE CILO WITH Input <- CILOInput, Thread <- {"GOOSE"}

(* The inputs of a gate are numbered from 0 without gaps. *)
ASSUME CILOAssumption == C!InputAssumption

cilo == <<values, EnaOpn, EnaCls, stOpn, stCls, thread, heard>>
history == <<last, newest>>
vars == <<inputs, pub, net, rx, count, value, last, newest,
          values, EnaOpn, EnaCls, stOpn, stCls, thread, heard>>

-----------------------------------------------------------------------------
(* The subscriptions.                                                      *)

SameDataset(s, k) ==
  /\ Dataset[SD[k].cb] = Dataset[SD[k - 1].cb]
  /\ s = "GOOSE" => /\ APPID[SD[k].cb] = APPID[SD[k - 1].cb]
                    /\ ethAddr[SD[k].cb] = ethAddr[SD[k - 1].cb]

(* The entries of its data set just before entry k. *)
dataSetIndex(s, k) == k - Max({j \in 1 .. k : j = 1 \/ ~SameDataset(s, j)})

(* Input i names entry k. *)
Matches(s, list, k, i) ==
  list[i].ref = <<SD[k].cb, SD[k].elem>> /\ service(SD[k].cb) = s

OtherSubscriber(s, b, c) ==
  \/ APPID[b] # APPID[c]
  \/ IF s = "GOOSE" THEN b # c ELSE ethAddr[b] # ethAddr[c]

(* An input goes to the last subscriber made, or to one of its own. *)
AddInput(s, subs, v) ==
  IF subs = <<>> \/ OtherSubscriber(s, Last(subs).cb, v.cb)
  THEN Append(subs, [cb |-> v.cb, values |-> <<v>>])
  ELSE [subs EXCEPT ![Len(subs)].values = Append(@, v)]

(* The subscribers after each input has been compared with entry k. *)
InputLoop(s, list, k, subs) ==
  LET after[i \in 0 .. Len(list)] ==
        IF i = 0 THEN subs
        ELSE IF Matches(s, list, k, i)
             THEN AddInput(s, after[i - 1],
                    [cb |-> SD[k].cb, index |-> dataSetIndex(s, k), input |-> i])
             ELSE after[i - 1]
  IN after

(* The subscribers after each entry. *)
EntryLoop(s, list) ==
  LET after[k \in 0 .. Len(SD)] ==
        IF k = 0 THEN <<>> ELSE InputLoop(s, list, k, after[k - 1])[Len(list)]
  IN after

(* subscribeToGOOSEInputs, subscribeToSMVInputs *)
Subscribe(s, list) == EntryLoop(s, list)[Len(SD)]

(* What the two calls make at the start: per service, the subscribers and
   the lists of the inputs they feed. *)
Subscriptions ==
  [list \in InputLists |-> [s \in Service |-> Subscribe(s, list)]]

(* The receiver gives a message to the first subscriber of its block. *)
Subscribers(list, b) ==
  LET subs == Subscriptions[list][service(b)] IN
  {i \in DOMAIN subs : subs[i].cb = b}
Subscriber(list, b) ==
  Subscriptions[list][service(b)][
    CHOOSE i \in Subscribers(list, b) : \A j \in Subscribers(list, b) : i <= j]

-----------------------------------------------------------------------------

None == [st |-> 0, sq |-> 0, data |-> [e \in 1 .. Elements |-> "null"]]
Idle == [pc |-> "idle", cb |-> CHOOSE b \in Block : TRUE, data |-> None.data,
         at |-> 1, from |-> 0, alarm |-> FALSE]

Init ==
  /\ inputs \in InputLists
  /\ pub \in [Block -> {[st |-> 1, sq |-> 0, data |-> d] : d \in UNION Range(DataOf)}]
  /\ \A b \in Block : pub[b].data \in DataOf[b]
  /\ net = [b \in Block |-> {}]
  /\ rx = [s \in Service |-> Idle]
  /\ count = [b \in Block |-> None]
  /\ value = [i \in DOMAIN inputs |-> "null"]
  /\ last = [b \in Block |-> None] /\ newest = [b \in Block |-> None]
  /\ C!Init

-----------------------------------------------------------------------------
(* The publishers and the network.  Blocks that no input names are left    *)
(* out.  What happens to the messages under way while the receiver is at   *)
(* work touches nothing it reads, and is shown when it is back.            *)

Waiting(s) == rx[s].pc = "idle"

Put(b, m) ==
  /\ Subscribers(inputs, b) # {}
  /\ Waiting(service(b))
  /\ Cardinality(net[b] \cup {m}) <= MaxNet[b]
  /\ pub' = [pub EXCEPT ![b] = m]
  /\ net' = [net EXCEPT ![b] = @ \cup {m}]
  /\ UNCHANGED <<inputs, rx, count, value, history, cilo>>

Publish(b) ==
  /\ b \in Gocb
  /\ pub[b].st < MaxSt[b]
  /\ \E data \in DataOf[b] \ {pub[b].data} :
       Put(b, [st |-> pub[b].st + 1, sq |-> 0, data |-> data])

Retransmit(b) ==
  /\ b \in Gocb
  /\ Put(b, [pub[b] EXCEPT !.sq = IF @ < MaxSq[b] THEN @ + 1 ELSE @])

Sample(b) ==
  /\ b \in Svcb
  /\ \E data \in DataOf[b] :
       Put(b, [st |-> 1, sq |-> (pub[b].sq + 1) % MaxSq[b], data |-> data])

Lose(b, m) ==
  /\ m \in net[b]
  /\ Waiting(service(b))
  /\ net' = [net EXCEPT ![b] = @ \ {m}]
  /\ UNCHANGED <<inputs, pub, rx, count, value, history, cilo>>

-----------------------------------------------------------------------------
(* The receivers: subscriber_callback_inputs_GOOSE and _SMV.               *)

(* Mutant: the number of the state is not compared. *)
Replayed_anyState(b, m) ==
  /\ count[b] # None
  /\ m.sq < count[b].sq + 1
  /\ m.sq # 0

(* What is logged as a replay: a number that does not go up. *)
Replayed(b, m) ==
  /\ count[b] # None
  /\ m.sq # 0
  /\ IF b \in Gocb THEN m.sq < count[b].sq + 1 /\ m.st = count[b].st
                   ELSE m.sq < count[b].sq

Newer(m, n) ==
  \/ m.st > n.st
  \/ m.st = n.st /\ m.sq > n.sq

(* A message arrives, and may arrive once more. *)
Receive(b, m, again) ==
  LET s == service(b) IN
  /\ m \in net[b]
  /\ Waiting(s)
  /\ net' = IF again THEN net ELSE [net EXCEPT ![b] = @ \ {m}]
  /\ rx' = [rx EXCEPT ![s] = [pc |-> "walk", cb |-> b, data |-> m.data, at |-> 1,
                              from |-> 0, alarm |-> Replayed(b, m)]]
  /\ count' = [count EXCEPT ![b] = [m EXCEPT !.data = None.data]]
  /\ last' = [last EXCEPT ![b] = m]
  /\ newest' = [newest EXCEPT ![b] = IF Newer(m, @) THEN m ELSE @]
  /\ UNCHANGED <<inputs, pub, value, cilo>>

List(s) == Subscriber(inputs, rx[s].cb).values
Current(s) == List(s)[rx[s].at]

(* The index of the next input is among those the loop has yet to reach;
   an input whose index has been passed is not reached any more. *)
Reached(s) ==
  /\ rx[s].at <= Len(List(s))
  /\ Current(s).index \in rx[s].from .. Elements - 1

CallbackReturned(s) == s = "GOOSE" => thread["GOOSE"].pc = "idle"

(* Mutant: the loop over the elements does not stay for a second input. *)
Take_next(s) ==
  LET v == Current(s) IN
  /\ rx[s].pc = "walk" /\ CallbackReturned(s) /\ Reached(s)
  /\ value' = [value EXCEPT ![v.input] = rx[s].data[v.index + 1]]
  /\ rx' = [rx EXCEPT ![s].at = @ + 1, ![s].from = v.index + 1]
  /\ IF inputs[v.input].to \in CILOInput
     THEN C!Callback("GOOSE", inputs[v.input].to, value'[v.input] = "on")
     ELSE UNCHANGED cilo
  /\ UNCHANGED <<inputs, pub, net, count, history>>

(* Mutant: a value that has not changed is not reported, nor is the first. *)
Take_copy(s) ==
  LET v == Current(s) IN
  /\ rx[s].pc = "walk" /\ CallbackReturned(s) /\ Reached(s)
  /\ value' = [value EXCEPT ![v.input] = rx[s].data[v.index + 1]]
  /\ rx' = [rx EXCEPT ![s].at = @ + 1, ![s].from = v.index]
  /\ IF inputs[v.input].to \in CILOInput /\ value[v.input] \notin {"null", value'[v.input]}
     THEN C!Callback("GOOSE", inputs[v.input].to, value'[v.input] = "on")
     ELSE UNCHANGED cilo
  /\ UNCHANGED <<inputs, pub, net, count, history>>

(* Copy one element into one input, and run the callback of its node. *)
Take(s) ==
  LET v == Current(s) IN
  /\ rx[s].pc = "walk" /\ CallbackReturned(s) /\ Reached(s)
  /\ value' = [value EXCEPT ![v.input] = rx[s].data[v.index + 1]]
  /\ rx' = [rx EXCEPT ![s].at = @ + 1, ![s].from = v.index]
  /\ IF inputs[v.input].to \in CILOInput
     THEN C!Callback("GOOSE", inputs[v.input].to, value'[v.input] = "on")
     ELSE UNCHANGED cilo
  /\ UNCHANGED <<inputs, pub, net, count, history>>

(* The loop has ended, and the receiver waits for the next message. *)
Finish(s) ==
  /\ rx[s].pc = "walk" /\ CallbackReturned(s) /\ ~Reached(s)
  /\ rx' = [rx EXCEPT ![s] = Idle]
  /\ UNCHANGED <<inputs, pub, net, count, value, history, cilo>>

CallbackStep ==
  /\ \/ C!process_all_conditions("GOOSE")
     \/ C!SetEnaOpn("GOOSE") \/ C!EnaOpnField("GOOSE")
     \/ C!SetEnaCls("GOOSE") \/ C!EnaClsField("GOOSE")
  /\ UNCHANGED <<inputs, pub, net, rx, count, value, history>>

ReceiverStep(s) ==
  \/ Take(s)
  \/ Finish(s)
  \/ s = "GOOSE" /\ CallbackStep

Next ==
  \/ \E b \in Block : Publish(b) \/ Retransmit(b) \/ Sample(b)
  \/ \E b \in Block : \E m \in net[b] :
       Lose(b, m) \/ \E again \in BOOLEAN : Receive(b, m, again)
  \/ \E s \in Service : ReceiverStep(s)

(* A message of the state that is published now. *)
UpToDate(b, m) == m.st = pub[b].st
LoseOutdated == \E b \in Gocb : \E m \in net[b] : ~UpToDate(b, m) /\ Lose(b, m)
ReceiveCurrent(b) == \E m \in net[b] : UpToDate(b, m) /\ Receive(b, m, FALSE)

(* A GOOSE publisher repeats its state for ever; messages do not stay under
   way for ever, and of those repeated for ever one arrives; the receiver
   threads go on. *)
Spec ==
  /\ Init /\ [][Next]_vars
  /\ \A b \in Gocb :
       SF_vars(Retransmit(b)) /\ SF_vars(ReceiveCurrent(b))
  /\ SF_vars(LoseOutdated)
  /\ \A s \in Service : WF_vars(ReceiverStep(s))

-----------------------------------------------------------------------------
(* Properties.                                                             *)

TypeOK ==
  /\ value \in [DOMAIN inputs -> {"null", "off", "on"}]
  /\ \A b \in Block : Cardinality(net[b]) <= MaxNet[b]
  /\ \A s \in Service : rx[s].pc \in {"idle", "walk"} /\ rx[s].from < Elements
  /\ C!TypeOK

(* What subscribeToGOOSEInputs and subscribeToSMVInputs should have made of
   a configuration: the lists of the subscribers hold every input, at the
   place of the element it names, in the order of the data set. *)
SubscribedRightly(list) ==
  /\ \A b \in Block : Subscribers(list, b) # {} =>
       LET v == Subscriber(list, b).values IN
       /\ v \in Seq([cb : {b}, index : 0 .. Elements - 1, input : DOMAIN list])
       /\ \A k \in DOMAIN v : list[v[k].input].ref = <<b, v[k].index + 1>>
       /\ \A j, k \in DOMAIN v : j < k => v[j].index <= v[k].index
  /\ \A i \in DOMAIN list :
       LET b == list[i].ref[1] IN
       /\ b \in Block /\ Subscribers(list, b) # {}
       /\ \E k \in DOMAIN Subscriber(list, b).values :
            Subscriber(list, b).values[k].input = i

(* What the entries and the inputs of a configuration have to be for that:
   no entry twice, no input that no entry names, and, as far as the inputs
   name them, names and addresses that tell a data set from the one before
   it in the list, and a publisher of samples from the others.  The code
   takes this for granted ("order of elements for sampled values matter",
   inputs.c:53; "limitation", :71). *)
Named(list) == {list[i].ref[1] : i \in DOMAIN list}
NamesTellApart ==
  /\ IsInjective(SD)
  /\ \A list \in InputLists :
       /\ \A i \in DOMAIN list :
            \E k \in DOMAIN SD : list[i].ref = <<SD[k].cb, SD[k].elem>>
       /\ \A k \in DOMAIN SD :
            k > 1 /\ SD[k].elem = 1 /\ SD[k].cb \in Named(list) =>
              ~SameDataset(service(SD[k].cb), k)
       /\ \A b, c \in Named(list) \cap Svcb : b # c => OtherSubscriber("SMV", b, c)

SubscriptionsAreRight == \A list \in InputLists : SubscribedRightly(list)

(* Between messages every input holds its own element of the message its
   control block has sent last: the subscriptions have found the right
   place, and the walk along the list has passed nobody over. *)
InputsUpToDate ==
  \A i \in DOMAIN inputs :
    LET b == inputs[i].ref[1] IN
      Waiting(service(b)) => value[i] = last[b].data[inputs[i].ref[2]]

(* From the message to the release: what the comments on the callbacks of
   CILO.c promise (CILO.c:175, "any switch = true will result in
   EnaOpn+EnaCls = false") is true of the messages received last, whatever
   the network has done to them. *)
Reported(n) ==
  \E i \in DOMAIN inputs :
    /\ inputs[i].to = n
    /\ last[inputs[i].ref[1]].data[inputs[i].ref[2]] = "on"
All(g) == {n \in CILOInput : n.gate = g}
True(g) == {n \in All(g) : Reported(n)}
Forbidden ==
  \/ All("and") # {} /\ True("and") = All("and")
  \/ True("or") # {}
  \/ True("nand") # All("nand")
  \/ All("nor") # {} /\ True("nor") = {}
ReleasesFollowInputs ==
  Waiting("GOOSE") /\ heard => stOpn = ~Forbidden /\ stCls = ~Forbidden

(* The log names a GOOSE message a replay only when a message as new has
   been received before: loss of GOOSE alone never raises the alarm.  Loss of
   samples does, that of sample 0 when their count starts again (inputs.c:419). *)
AlarmsAreEarned ==
  [][\A b \in Gocb : \A m \in net[b] : \A again \in BOOLEAN :
       Receive(b, m, again) /\ rx'["GOOSE"].alarm => ~Newer(m, newest[b])]_vars

(* When the publishers have come to rest, every input comes to hold what
   its publisher holds, and the releases follow, in spite of everything
   that was lost, repeated or overtaken before. *)
Settled ==
  /\ \A i \in DOMAIN inputs :
       LET b == inputs[i].ref[1] IN
         b \in Gocb => value[i] = pub[b].data[inputs[i].ref[2]]
  /\ stOpn = ~Forbidden /\ stCls = ~Forbidden
Settles == <>[]Settled

=============================================================================
