---------------------------- MODULE WebAPIProofs ----------------------------
(***************************************************************************)
(* That one worker makes steps at a time, for any number of requests and   *)
(* starts, and that commands are carried out in order as long as it and    *)
(* run_simulation have not met in execute_commands.  The invariant of the  *)
(* first says who may be alive in terms of what the operator was answered: *)
(* it waits only for a worker, and a new one is started when none is known.*)
(***************************************************************************)
EXTENDS WebAPI, TLAPS

Pc == {"off", "plot", "store", "test", "set", "len", "loop", "unset", "ended"}

Known ==
  /\ thread \in Workers \cup {None}
  /\ operator \in {"idle", "join", "run"}
  /\ pc \in [Steppers -> Pc]

Awaited == operator = "join" => thread # None

IInv == Known /\ Awaited /\ OneWorker

\* Workers, the thread of run_simulation and None are three different things.
LEMMA Apart ==
  /\ None \notin Steppers
  /\ Workers \subseteq Steppers
  /\ Web \in Steppers /\ Web \notin Workers /\ Web # None
BY WebAPIAssumption DEF None, Workers, Web, Steppers

LEMMA InitIInv == Init => IInv
BY Apart DEF Init, IInv, Known, Awaited, OneWorker, Alive, Pc

-----------------------------------------------------------------------------
\* A thread that goes from one statement to another was alive before.
LEMMA MovesOn ==
  ASSUME IInv, NEW s \in Steppers, Alive(s), NEW label \in Pc \ {"off"},
         Goto(s, label), UNCHANGED <<thread, operator>>
  PROVE  IInv'
<1>1. Known' /\ Awaited'
  BY DEF IInv, Known, Awaited, Goto, Pc
<1>2. OneWorker'
  <2> SUFFICES ASSUME NEW v \in Steppers, Alive(v)'
               PROVE  IF v = Web THEN operator = "run" ELSE v = thread
    BY DEF OneWorker, Alive
  <2>1. Alive(v)
    BY DEF IInv, Known, Goto, Alive
  <2> QED
    BY <2>1 DEF IInv, OneWorker
<1> QED
  BY <1>1, <1>2 DEF IInv

\* Nor does the end of a thread leave another one behind.
LEMMA Ends ==
  ASSUME IInv, NEW s \in Steppers, Alive(s), End(s), UNCHANGED thread
  PROVE  IInv'
<1>1. CASE s = Web
  <2>1. operator' = "idle" /\ pc' = [pc EXCEPT ![Web] = "off"]
    BY <1>1 DEF End, Goto
  <2>2. \A v \in Steppers : Alive(v)' => v # Web /\ Alive(v)
    BY <2>1 DEF Alive, IInv, Known
  <2>3. OneWorker'
    BY <2>2 DEF IInv, OneWorker, Alive
  <2> QED
    BY <2>1, <2>3 DEF IInv, Known, Awaited, Pc
<1>2. CASE s # Web
  BY <1>2, MovesOn DEF End, Pc
<1> QED
  BY <1>1, <1>2

LEMMA StepKeepsIInv ==
  ASSUME IInv, NEW s \in Steppers, StepOn(s) \/ TestFlag(s)
  PROVE  IInv'
<1>1. Alive(s)
  BY DEF StepOn, TestFlag, Plot, Store, SetFlag, Count, Execute, Clear, UnsetFlag, Alive
<1>2. \/ \E label \in Pc \ {"off"} : Goto(s, label) /\ UNCHANGED operator
      \/ End(s)
      \/ UNCHANGED <<pc, operator>>
  BY DEF StepOn, TestFlag, Plot, Store, SetFlag, Count, Execute, Clear, UnsetFlag,
         control, Pc
<1>3. UNCHANGED thread
  BY DEF StepOn, TestFlag, Plot, Store, SetFlag, Count, Execute, Clear, UnsetFlag, control
<1>4. CASE UNCHANGED <<pc, operator>>
  BY <1>3, <1>4 DEF IInv, Known, Awaited, OneWorker, Alive
<1> QED
  BY <1>1, <1>2, <1>3, <1>4, MovesOn, Ends

-----------------------------------------------------------------------------
LEMMA NextKeepsIInv == IInv /\ [Next]_vars => IInv'
<1> SUFFICES ASSUME IInv, [Next]_vars PROVE IInv'
  OBVIOUS
<1>1. CASE \E w \in Workers : Start(w)
  <2>1. PICK w \in Workers : Start(w)
    BY <1>1
  <2>2. \A s \in Steppers : ~Alive(s)
    BY <2>1, Apart DEF Start, IInv, OneWorker
  <2>3. \A s \in Steppers : Alive(s)' => s = w
    BY <2>1, <2>2 DEF Start, Alive, IInv, Known
  <2> QED
    BY <2>1, <2>3, Apart
    DEF Start, IInv, Known, Awaited, OneWorker, Pc
<1>2. CASE Stop
  <2>1. \A s \in Steppers : Alive(s) => s # Web
    BY <1>2 DEF Stop, IInv, OneWorker
  <2> QED
    BY <1>2, <2>1 DEF Stop, stepping, IInv, Known, Awaited, OneWorker, Alive
<1>3. CASE Join
  <2>1. ~Alive(thread) /\ operator = "join" /\ thread \in Workers
    BY <1>3, Apart DEF Join, Joined, Alive, IInv, Known, Awaited
  <2>2. \A s \in Steppers : ~Alive(s)
    BY <2>1 DEF IInv, OneWorker
  <2> QED
    BY <1>3, <2>2 DEF Join, stepping, IInv, Known, Awaited, OneWorker, Alive
<1>4. CASE Run
  <2>1. \A s \in Steppers : Alive(s)' => s = Web \/ Alive(s)
    BY <1>4 DEF Run, Alive, IInv, Known
  <2>2. OneWorker'
    BY <1>4, <2>1 DEF Run, IInv, OneWorker, Alive
  <2> QED
    BY <1>4, <2>2 DEF Run, IInv, Known, Awaited, Pc
<1>5. CASE \E s \in Steppers : StepOn(s) \/ TestFlag(s)
  BY <1>5, StepKeepsIInv
<1>6. CASE UNCHANGED <<thread, operator, pc>>
  BY <1>6 DEF IInv, Known, Awaited, OneWorker, Alive
<1>7. CASE ClearPlot \/ \E c \in Commands : Post(c) \/ PostTest(c) \/ PostOn(c)
  <2>1. UNCHANGED <<thread, operator, pc>>
    BY <1>7 DEF ClearPlot, Post, PostTest, PostOn, PostSet, PostAppend, PostUnset,
                control, stepping
  <2> QED
    BY <2>1, <1>6
<1>8. CASE UNCHANGED vars
  BY <1>8, <1>6 DEF vars, control, stepping
<1> QED
  BY <1>1, <1>2, <1>3, <1>4, <1>5, <1>7, <1>8 DEF Next

\* The inductive invariant holds in every reachable state.
THEOREM Invariance == Spec => []IInv
BY InitIInv, NextKeepsIInv, PTL DEF Spec

\* No worker makes steps but the one the operator started last, and none when a
\* stop was answered; run_simulation makes some only until its request is
\* answered (play_simulation, run_simulation, worker).
THEOREM OneWorkerAlways == Spec => []OneWorker
BY Invariance, PTL DEF IInv

-----------------------------------------------------------------------------
(* The order of the commands.  What is in the queue, and what of it the      *)
(* thread in the loop has yet to run, follows in the order of the requests   *)
(* everything that was run before, until a command is refused: as long as    *)
(* no two threads have been in execute_commands at once.                     *)

Sent == \A c \in Elements(queued) : post[c] \in {"unset", "answered"}
Sources == Elements(queue) \cup Elements(executed) \subseteq Elements(queued)
QueueInOrder ==
  \A j \in DOMAIN queue : \A i \in 1..(j - 1) : Before(queued, queue[i], queue[j])
InRange ==
  \A s \in Steppers : IF pc[s] = "loop"
                      THEN next[s] <= count[s] /\ count[s] <= Len(queue)
                      ELSE next[s] = 0
Pending(k) == \A s \in Steppers : next[s] < k
PendingLast ==
  ~Refused =>
    \A i \in DOMAIN executed, k \in DOMAIN queue :
      Pending(k) => Before(queued, executed[i], queue[k])

OneInside == \A s, v \in Steppers : Inside(s) /\ Inside(v) => s = v

Ordered ==
  TypeOK /\ OneInside /\ Sent /\ Sources /\ QueueInOrder /\ InRange /\ PendingLast /\ InOrder
OInv == TypeOK /\ (~met => Ordered)

LEMMA Appended ==
  ASSUME NEW s \in Seq(Commands), NEW c \in Commands
  PROVE  /\ Append(s, c) \in Seq(Commands)
         /\ Elements(Append(s, c)) = Elements(s) \cup {c}
         /\ \A x, y : Before(s, x, y) => Before(Append(s, c), x, y)
         /\ \A x \in Elements(s) : Before(Append(s, c), x, c)
<1>1. /\ Append(s, c) \in Seq(Commands)
      /\ Len(s) \in Nat /\ DOMAIN s = 1..Len(s)
      /\ DOMAIN Append(s, c) = 1..(Len(s) + 1)
      /\ \A i \in 1..Len(s) : Append(s, c)[i] = s[i]
      /\ Append(s, c)[Len(s) + 1] = c
  OBVIOUS
<1>2. Elements(Append(s, c)) = Elements(s) \cup {c}
  BY <1>1 DEF Elements
<1>3. \A x, y : Before(s, x, y) => Before(Append(s, c), x, y)
  BY <1>1 DEF Before
<1>4. \A x \in Elements(s) : Before(Append(s, c), x, c)
  BY <1>1 DEF Before, Elements
<1> QED
  BY <1>1, <1>2, <1>3, <1>4

LEMMA InitOInv == Init => OInv
<1> SUFFICES ASSUME Init PROVE OInv
  OBVIOUS
<1>1. TypeOK
  <2>1. <<>> \in Seq(Commands) /\ 0 \in Nat
    OBVIOUS
  <2>2. /\ thread \in Workers \cup {None} /\ stop_threads \in BOOLEAN
        /\ {plotted, flag, met} \subseteq BOOLEAN
    BY DEF Init
  <2>3. queue \in Seq(Commands) /\ queued \in Seq(Commands) /\ executed \in Seq(Commands)
    BY <2>1 DEF Init
  <2> QED
    BY <2>2, <2>3 DEF Init, TypeOK
<1>2. Sent /\ Sources /\ QueueInOrder /\ InRange /\ PendingLast /\ InOrder
  BY DEF Init, Sent, Sources, Elements, QueueInOrder, InRange, PendingLast, InOrder
<1>3. OneInside
  BY DEF Init, OneInside, Inside
<1> QED
  BY <1>1, <1>2, <1>3 DEF Ordered, OInv

\* Steps that touch neither the commands nor anybody's place in the loop.
LEMMA OrderFrame ==
  ASSUME Ordered, ~met, TypeOK', Sent', UNCHANGED <<queue, queued, executed, next>>,
         \A s \in Steppers : Inside(s)' => Inside(s),
         \A s \in Steppers : pc'[s] = "loop" => pc[s] = "loop" /\ count'[s] = count[s],
         \A s \in Steppers : pc[s] = "loop" /\ pc'[s] # "loop" => next[s] = 0
  PROVE  Ordered'
<1>1. InRange'
  BY DEF Ordered, InRange
<1>2. Sources' /\ QueueInOrder' /\ PendingLast' /\ InOrder'
  BY DEF Ordered, Sources, QueueInOrder, PendingLast, Pending, Refused, InOrder
<1>3. OneInside'
  BY DEF Ordered, OneInside
<1> QED
  BY <1>1, <1>2, <1>3 DEF Ordered

LEMMA TypeKept == TypeOK /\ [Next]_vars => TypeOK'
<1> SUFFICES ASSUME TypeOK, [Next]_vars PROVE TypeOK'
  OBVIOUS
<1> USE DEF history
<1>1. ASSUME NEW w \in Workers, Start(w) PROVE TypeOK'
  BY <1>1, Apart DEF TypeOK, Start, commands
<1>2. CASE Stop \/ Join \/ Run \/ ClearPlot
  BY <1>2, Apart DEF TypeOK, Stop, Join, Run, ClearPlot, control, stepping, commands
<1>3. ASSUME NEW s \in Steppers, StepOn(s) \/ TestFlag(s) PROVE TypeOK'
  <2>1. CASE Execute(s)
    <3>1. executed' \in Seq(Commands)
      <4>1. CASE next[s] + 1 \in DOMAIN queue
        <5>1. queue[next[s] + 1] \in Commands
          BY <4>1 DEF TypeOK
        <5> QED
          BY <2>1, <4>1, <5>1 DEF Execute, TypeOK
      <4>2. CASE next[s] + 1 \notin DOMAIN queue
        BY <2>1, <4>2 DEF Execute, TypeOK
      <4> QED
        BY <4>1, <4>2
    <3>2. /\ pc' \in [Steppers -> Pc] /\ operator' \in {"idle", "join", "run"}
          /\ count' \in [Steppers -> Nat] /\ next' \in [Steppers -> Nat]
      <4>1. CASE Raises(next[s] + 1)
        <5>1. End(s) /\ next' = [next EXCEPT ![s] = 0] /\ count' = [count EXCEPT ![s] = 0]
          BY <2>1, <4>1 DEF Execute
        <5> QED
          BY <5>1 DEF TypeOK, End, Goto, Pc
      <4>2. CASE ~Raises(next[s] + 1)
        <5>1. next' = [next EXCEPT ![s] = @ + 1] /\ UNCHANGED <<pc, operator, count>>
          BY <2>1, <4>2 DEF Execute
        <5> QED
          BY <5>1 DEF TypeOK, Pc
      <4> QED
        BY <4>1, <4>2
    <3>3. UNCHANGED <<thread, stop_threads, plotted, post, flag, queue, queued, met>>
      BY <2>1 DEF Execute
    <3> QED
      BY <3>1, <3>2, <3>3 DEF TypeOK, Pc
  <2>2. CASE Clear(s)
    BY <2>2 DEF TypeOK, Clear, Emptied, Goto, control
  <2>3. CASE Count(s)
    <3>1. Len(queue) \in Nat
      BY DEF TypeOK
    <3> QED
      BY <2>3, <3>1 DEF TypeOK, Count, Goto, control, commands
  <2>4. CASE Plot(s) \/ Store(s) \/ TestFlag(s)
    BY <2>4 DEF TypeOK, Plot, Store, TestFlag, End, Goto, control, commands
  <2>5. CASE SetFlag(s) \/ UnsetFlag(s)
    BY <2>5 DEF TypeOK, SetFlag, UnsetFlag, End, Goto, control
  <2> QED
    BY <1>3, <2>1, <2>2, <2>3, <2>4, <2>5 DEF StepOn
<1>4. ASSUME NEW c \in Commands, Post(c) \/ PostTest(c) \/ PostOn(c) PROVE TypeOK'
  <2>1. CASE PostAppend(c)
    <3>1. Append(queue, c) \in Seq(Commands) /\ Append(queued, c) \in Seq(Commands)
      BY DEF TypeOK
    <3> QED
      BY <2>1, <3>1 DEF TypeOK, PostAppend, PostGoto, control, stepping
  <2>2. CASE Post(c) \/ PostTest(c) \/ PostSet(c) \/ PostUnset(c)
    BY <2>2 DEF TypeOK, Post, PostTest, PostSet, PostUnset, PostGoto,
                control, stepping, commands
  <2> QED
    BY <1>4, <2>1, <2>2 DEF PostOn
<1>5. CASE UNCHANGED vars
  BY <1>5 DEF TypeOK, vars, control, stepping, commands
<1> QED
  BY <1>1, <1>2, <1>3, <1>4, <1>5 DEF Next

\* A command is run: it is the first of those that were pending.
LEMMA ExecuteInOrder ==
  ASSUME Ordered, ~met, TypeOK', NEW s \in Steppers, Execute(s)
  PROVE  Ordered'
<1> DEFINE n == next[s] + 1
           x == queue[n]
<1>1. /\ n \in DOMAIN queue /\ x \in Commands /\ next[s] \in Nat
      /\ executed \in Seq(Commands) /\ pc[s] = "loop"
  BY DEF Execute, Ordered, InRange, TypeOK
<1>2. /\ executed' = Append(executed, x)
      /\ UNCHANGED <<queue, queued, post, met>>
  BY <1>1 DEF Execute
<1>3. \A v \in Steppers \ {s} : next[v] = 0 /\ next'[v] = 0 /\ pc[v] # "loop"
  BY <1>1, <1>2 DEF Execute, Ordered, InRange, OneInside, Inside, TypeOK
<1>4. Pending(n)
  BY <1>1, <1>3 DEF Pending
<1>5. /\ x \in Elements(queue)
      /\ Elements(executed') = Elements(executed) \cup {x}
  BY <1>1, <1>2, Appended DEF Elements
<1>6. Sent' /\ Sources' /\ QueueInOrder'
  <2>1. UNCHANGED <<Elements(queue), Elements(queued)>>
    BY <1>2 DEF Elements
  <2>2. Elements(executed)' = Elements(executed) \cup {x}
    BY <1>2, <1>5
  <2> QED
    BY <1>2, <1>5, <2>1, <2>2 DEF Ordered, Sent, Sources, QueueInOrder
<1>7. InRange'
  BY <1>1, <1>2, <1>3 DEF Execute, Ordered, InRange, End, Goto, TypeOK
<1>10. OneInside'
  BY <1>1 DEF Execute, Ordered, OneInside, Inside, End, Goto, TypeOK
<1>8. InOrder'
  <2> SUFFICES ASSUME NEW j \in DOMAIN executed',
                      \A i \in 1..(j - 1) : executed'[i] \notin Bad,
                      NEW i \in 1..(j - 1)
               PROVE  Before(queued, executed'[i], executed'[j])
    BY <1>2 DEF InOrder
  <2>1. /\ DOMAIN executed = 1..Len(executed) /\ Len(executed) \in Nat
        /\ DOMAIN executed' = 1..(Len(executed) + 1)
        /\ \A k \in 1..Len(executed) : executed'[k] = executed[k]
        /\ executed'[Len(executed) + 1] = x
    BY <1>1, <1>2
  <2>2. CASE j \in DOMAIN executed
    BY <2>1, <2>2 DEF Ordered, InOrder
  <2>3. CASE j = Len(executed) + 1
    <3>1. ~Refused
      BY <2>1, <2>3 DEF Refused, Elements
    <3> QED
      BY <1>1, <1>4, <2>1, <2>3, <3>1 DEF Ordered, PendingLast
  <2> QED
    BY <2>1, <2>2, <2>3
<1>9. PendingLast'
  <2> SUFFICES ASSUME ~Refused', NEW i \in DOMAIN executed', NEW k \in DOMAIN queue,
                      Pending(k)'
               PROVE  Before(queued, executed'[i], queue[k])
    BY <1>2 DEF PendingLast
  <2>1. x \notin Bad /\ ~Refused
    BY <1>5 DEF Refused
  <2>2. next'[s] = n
    BY <1>1, <2>1 DEF Execute, Raises, Ordered, TypeOK
  <2>3. n < k /\ k \in Nat /\ n \in 1..(k - 1)
    BY <1>1, <2>2 DEF Pending, Ordered, TypeOK
  <2>4. Pending(k)
    BY <1>1, <1>3, <2>3 DEF Pending
  <2>5. CASE i \in DOMAIN executed
    <3>1. executed'[i] = executed[i]
      BY <1>1, <1>2, <2>5
    <3> QED
      BY <2>1, <2>4, <2>5, <3>1 DEF Ordered, PendingLast
  <2>6. CASE i = Len(executed) + 1
    <3>1. executed'[i] = x
      BY <1>1, <1>2, <2>6
    <3> QED
      BY <2>3, <3>1 DEF Ordered, QueueInOrder
  <2> QED
    BY <1>1, <1>2, <2>5, <2>6
<1> QED
  BY <1>6, <1>7, <1>8, <1>9, <1>10 DEF Ordered

\* The queue is emptied, of what was run and of what came in between.
LEMMA ClearInOrder ==
  ASSUME Ordered, ~met, TypeOK', NEW s \in Steppers, Clear(s)
  PROVE  Ordered'
<1>1. queue' = <<>> /\ UNCHANGED <<queued, executed, post, met>>
  BY DEF Clear, Emptied, history
<1>2. Sent' /\ Sources' /\ QueueInOrder' /\ PendingLast' /\ InOrder'
  BY <1>1 DEF Ordered, Sent, Sources, Elements, QueueInOrder, PendingLast, InOrder
<1>3. \A v \in Steppers \ {s} : pc[v] # "loop"
  BY DEF Clear, Ordered, OneInside, Inside
<1>4. InRange'
  BY <1>3 DEF Clear, Goto, Ordered, InRange, TypeOK
<1>5. OneInside'
  BY DEF Clear, Goto, Ordered, OneInside, Inside, TypeOK
<1> QED
  BY <1>2, <1>4, <1>5 DEF Ordered

\* A request is put behind everything that was queued before.
LEMMA AppendInOrder ==
  ASSUME Ordered, ~met, TypeOK', NEW c \in Commands, PostAppend(c)
  PROVE  Ordered'
<1>1. /\ queue' = Append(queue, c) /\ queued' = Append(queued, c)
      /\ UNCHANGED <<pc, count, next, executed, met>>
      /\ post' = [post EXCEPT ![c] = "unset"]
      /\ queue \in Seq(Commands) /\ queued \in Seq(Commands)
      /\ executed \in Seq(Commands)
  BY DEF PostAppend, PostGoto, stepping, Ordered, TypeOK
<1>2. /\ Elements(queued') = Elements(queued) \cup {c}
      /\ Elements(queue') = Elements(queue) \cup {c}
      /\ \A x, y : Before(queued, x, y) => Before(queued', x, y)
      /\ \A x \in Elements(queued) : Before(queued', x, c)
  BY <1>1, Appended
<1>3. Sent' /\ Sources'
  <2>1. /\ Elements(queued)' = Elements(queued) \cup {c}
        /\ Elements(queue)' = Elements(queue) \cup {c}
        /\ Elements(executed)' = Elements(executed)
    BY <1>1, <1>2 DEF Elements
  <2>2. Elements(queued) \subseteq Commands
    BY <1>1 DEF Elements
  <2>3. Sent'
    BY <1>1, <2>1, <2>2 DEF Ordered, TypeOK, Sent
  <2>4. Sources'
    BY <2>1 DEF Ordered, Sources
  <2> QED
    BY <2>3, <2>4
<1>4. /\ DOMAIN queue = 1..Len(queue) /\ Len(queue) \in Nat
      /\ DOMAIN queue' = 1..(Len(queue) + 1) /\ Len(queue') = Len(queue) + 1
      /\ \A k \in 1..Len(queue) : queue'[k] = queue[k]
      /\ queue'[Len(queue) + 1] = c
  BY <1>1
<1>5. QueueInOrder'
  <2> SUFFICES ASSUME NEW j \in DOMAIN queue', NEW i \in 1..(j - 1)
               PROVE  Before(queued', queue'[i], queue'[j])
    BY DEF QueueInOrder
  <2>1. CASE j \in DOMAIN queue
    BY <1>2, <1>4, <2>1 DEF Ordered, QueueInOrder
  <2>2. CASE j = Len(queue) + 1
    <3>1. queue'[i] = queue[i] /\ queue[i] \in Elements(queue) /\ queue'[j] = c
      BY <1>4, <2>2 DEF Elements
    <3> QED
      BY <1>2, <3>1 DEF Ordered, Sources
  <2> QED
    BY <1>4, <2>1, <2>2
<1>6. InRange'
  BY <1>1, <1>4 DEF Ordered, InRange, TypeOK
<1>7. PendingLast'
  <2> SUFFICES ASSUME ~Refused, NEW i \in DOMAIN executed, NEW k \in DOMAIN queue',
                      Pending(k)
               PROVE  Before(queued', executed[i], queue'[k])
    BY <1>1 DEF PendingLast, Refused, Pending
  <2>1. CASE k \in DOMAIN queue
    BY <1>2, <1>4, <2>1 DEF Ordered, PendingLast
  <2>2. CASE k = Len(queue) + 1
    BY <1>2, <1>4, <2>2 DEF Ordered, Sources, Elements
  <2> QED
    BY <1>4, <2>1, <2>2
<1>8. InOrder'
  BY <1>1, <1>2 DEF Ordered, InOrder
<1> QED
  BY <1>1, <1>3, <1>5, <1>6, <1>7, <1>8 DEF Ordered, OneInside, Inside

LEMMA NextKeepsOrdered ==
  ASSUME IInv, Ordered, ~met, [Next]_vars, ~met'
  PROVE  Ordered'
<1> USE DEF history
<1>0. TypeOK'
  BY TypeKept DEF Ordered
<1>1. ASSUME NEW w \in Workers, Start(w) PROVE Ordered'
  BY <1>0, <1>1, OrderFrame, Apart DEF Start, commands, Ordered, Sent, TypeOK, Inside
<1>2. CASE Stop \/ Join \/ ClearPlot
  <2>1. UNCHANGED <<stepping, post, commands>>
    BY <1>2 DEF Stop, Join, ClearPlot
  <2> QED
    BY <1>0, <2>1, OrderFrame DEF stepping, commands, Ordered, Sent, Inside
<1>6. CASE Run
  <2>1. /\ ~Alive(Web)
        /\ pc' = [pc EXCEPT ![Web] = "plot"]
        /\ UNCHANGED <<count, next, post, commands>>
    BY <1>6, Apart DEF Run, IInv, OneWorker
  <2> QED
    BY <1>0, <2>1, OrderFrame DEF commands, Ordered, Sent, TypeOK, Inside, Alive
<1>3. ASSUME NEW s \in Steppers, StepOn(s) \/ TestFlag(s) PROVE Ordered'
  <2>1. CASE Execute(s)
    BY <1>0, <2>1, ExecuteInOrder
  <2>2. CASE Clear(s)
    BY <1>0, <2>2, ClearInOrder
  <2>3. CASE Count(s)
    <3>1. next' = next
      BY <2>3 DEF Count, Ordered, InRange, TypeOK
    <3>2. InRange'
      BY <2>3, <3>1 DEF Count, Goto, commands, Ordered, InRange, TypeOK
    <3>3. OneInside'
      BY <2>3 DEF Count, Goto, Ordered, OneInside, Inside, TypeOK
    <3> QED
      BY <1>0, <2>3, <3>1, <3>2, <3>3
      DEF Count, commands, Ordered, Sent, Sources, QueueInOrder, PendingLast, Pending,
          Refused, InOrder
  <2>4. CASE Plot(s) \/ Store(s)
    BY <1>0, <2>4, OrderFrame
    DEF Plot, Store, End, Goto, control, commands, Ordered, Sent, TypeOK, Inside
  <2>5. CASE SetFlag(s) \/ UnsetFlag(s)
    BY <1>0, <2>5, OrderFrame
    DEF SetFlag, UnsetFlag, End, Goto, control, Ordered, Sent, TypeOK, Inside
  <2>6. CASE TestFlag(s)
    <3>1. /\ \A v \in Steppers \ {s} : ~Inside(v)
          /\ pc' = [pc EXCEPT ![s] = "set"] /\ pc[s] = "test"
          /\ UNCHANGED <<count, next, post, queue, queued, executed>>
      BY <2>6 DEF TestFlag, Goto
    <3>2. OneInside'
      BY <3>1 DEF Ordered, OneInside, Inside, TypeOK
    <3>3. InRange'
      BY <3>1 DEF Ordered, InRange, TypeOK
    <3> QED
      BY <1>0, <3>1, <3>2, <3>3
      DEF Ordered, Sent, Sources, QueueInOrder, PendingLast, Pending, Refused, InOrder
  <2> QED
    BY <1>3, <2>1, <2>2, <2>3, <2>4, <2>5, <2>6 DEF StepOn
<1>4. ASSUME NEW c \in Commands, Post(c) \/ PostTest(c) \/ PostOn(c) PROVE Ordered'
  <2>1. CASE PostAppend(c)
    BY <1>0, <2>1, AppendInOrder
  <2>2. CASE Post(c) \/ PostTest(c) \/ PostSet(c) \/ PostUnset(c)
    <3>1. /\ UNCHANGED <<queue, queued, executed, pc, count, next>>
          /\ \A d \in Commands : post[d] \in {"unset", "answered"} =>
                                  post'[d] \in {"unset", "answered"}
      BY <2>2 DEF Post, PostTest, PostSet, PostUnset, PostGoto, stepping, commands,
                  Ordered, TypeOK
    <3>2. Sent'
      BY <3>1 DEF Ordered, Sent, Elements, TypeOK
    <3> QED
      BY <1>0, <3>1, <3>2, OrderFrame DEF Inside
  <2> QED
    BY <1>4, <2>1, <2>2 DEF PostOn
<1>5. CASE UNCHANGED vars
  BY <1>0, <1>5, OrderFrame DEF vars, control, stepping, commands, Ordered, Sent, Inside
<1> QED
  BY <1>1, <1>2, <1>3, <1>4, <1>5, <1>6 DEF Next

\* That two threads have met is never forgotten.
LEMMA MetForGood == met /\ [Next]_vars => met'
BY DEF Next, Start, Stop, Join, Run, ClearPlot, StepOn, Plot, Store, SetFlag, Count,
       Execute, Clear, UnsetFlag, TestFlag, Post, PostTest, PostOn, PostSet,
       PostAppend, PostUnset, vars, commands, history

LEMMA NextKeepsOInv == IInv /\ OInv /\ [Next]_vars => OInv'
BY TypeKept, NextKeepsOrdered, MetForGood DEF OInv

\* The variables keep their types; the places in the queue that the loop of
\* execute_commands reads exist, as long as no two threads have met in it.
THEOREM TypeCorrect == Spec => [](TypeOK /\ (met \/ InRange))
<1>1. Spec => []OInv
  BY InitOInv, NextKeepsOInv, Invariance, PTL DEF Spec
<1>2. OInv => TypeOK /\ (met \/ InRange)
  BY DEF OInv, Ordered
<1> QED
  BY <1>1, <1>2, PTL

\* Commands are run in the order in which they were queued and none of them
\* twice, until one is refused or the worker and run_simulation meet
\* (execute_commands, que_commands).
THEOREM CommandsInOrder == Spec => []InOrder
<1>1. Spec => []OInv
  BY InitOInv, NextKeepsOInv, Invariance, PTL DEF Spec
<1>2. OInv => InOrder
  BY DEF OInv, Ordered, InOrder
<1> QED
  BY <1>1, <1>2, PTL

=============================================================================
