------------------------------- MODULE WebAPI -------------------------------
(***************************************************************************)
(* The web interface of the circuit simulator (webAPI.py) and the command  *)
(* queue it shares with the simulation (circuit_simulator.py).  Flask      *)
(* gives every request a thread of its own; "play" starts a background     *)
(* thread, the worker, which makes simulation steps until it is stopped.   *)
(* A request that changes a node is carried out at once while nothing      *)
(* plays and put into the queue otherwise; every simulation step ends with *)
(* execute_commands, which empties the queue.  The queue is guarded by the *)
(* flag _dont_add_commands, tested in one statement and set in the next.   *)
(*                                                                         *)
(* A step is one statement, or the statements no other thread can tell     *)
(* apart.  What a simulation step does to the IEDs is module Lockstep;     *)
(* here it is the arrays of the plot, which another request may clear.     *)
(* There is one operator, who sends one control request at a time, and may *)
(* step by hand while the worker plays: run_simulation does not look at    *)
(* it.  The requests that change nodes or clear the plot come from anyone  *)
(* at any time.                                                            *)
(***************************************************************************)
EXTENDS Naturals, Sequences

CONSTANTS Commands,   \* requests that change a node; each is sent at most once
          Bad,        \* those among them ngspice refuses (exec_command raises)
          MaxStarts   \* how often the operator starts the simulation

ASSUME WebAPIAssumption == Bad \subseteq Commands /\ MaxStarts \in Nat \ {0}

VARIABLES
  thread,         \* the worker that was started, None when none was or it was stopped
  stop_threads,   \* asks the worker to end
  operator,       \* the control request under way: none, "join" or "run"
  pc,             \* statement of each thread that makes simulation steps
  count,          \* of each of them: range(len(_command_que)) of execute_commands
  next,           \* of each of them: the commands of that range carried out
  plotted,        \* the arrays of the plot have an entry for the measured value
  post,           \* statement of each request that changes a node
  flag,           \* _dont_add_commands
  queue,          \* _command_que
  queued,         \* history: the commands in the order they were appended
  executed,       \* history: the commands in the order execute_commands ran them
  met             \* history: two threads have been in execute_commands at once,
                  \* both past the test of the flag

control == <<thread, stop_threads, operator>>
stepping == <<pc, count, next>>
history == <<queued, executed, met>>
commands == <<flag, queue, history>>
vars == <<control, stepping, plotted, post, commands>>

None == 0
Workers == 1..MaxStarts
Web == MaxStarts + 1            \* the thread of the request run_simulation
Steppers == Workers \cup {Web}
Elements(s) == {s[i] : i \in DOMAIN s}

-----------------------------------------------------------------------------
TypeOK ==
  /\ thread \in Workers \cup {None} /\ stop_threads \in BOOLEAN
  /\ operator \in {"idle", "join", "run"}
  /\ pc \in [Steppers -> {"off", "plot", "store", "test", "set", "len", "loop",
                          "unset", "ended"}]
  /\ count \in [Steppers -> Nat] /\ next \in [Steppers -> Nat]
  /\ {plotted, flag, met} \subseteq BOOLEAN
  /\ post \in [Commands -> {"no", "test", "set", "append", "unset", "answered"}]
  /\ \A s \in {queue, queued, executed} : s \in Seq(Commands)

Init ==
  /\ thread = None /\ stop_threads = FALSE /\ operator = "idle"
  /\ pc = [s \in Steppers |-> "off"]
  /\ count = [s \in Steppers |-> 0] /\ next = [s \in Steppers |-> 0]
  /\ plotted = FALSE
  /\ post = [c \in Commands |-> "no"]
  /\ flag = FALSE /\ queue = <<>>
  /\ queued = <<>> /\ executed = <<>> /\ met = FALSE

-----------------------------------------------------------------------------
(* The control requests: play_simulation starts and stops, run_simulation    *)
(* makes its steps in the thread of the request, whether or not one plays.   *)

Start(w) ==
  /\ operator = "idle" /\ thread = None
  /\ pc[w] = "off" /\ \A v \in Workers : v < w => pc[v] # "off"
  /\ stop_threads' = FALSE /\ thread' = w
  /\ pc' = [pc EXCEPT ![w] = "plot"]
  /\ UNCHANGED <<operator, count, next, plotted, post, commands>>

(* Mutant: the stop is not asked for, only waited for. *)
Stop_unasked ==
  /\ operator = "idle" /\ thread # None
  /\ operator' = "join"
  /\ UNCHANGED <<thread, stop_threads, stepping, plotted, post, commands>>

Stop ==
  /\ operator = "idle" /\ thread # None
  /\ stop_threads' = TRUE /\ operator' = "join"
  /\ UNCHANGED <<thread, stepping, plotted, post, commands>>

(* Mutant: thread.join() is left out. *)
Joined_never == TRUE

Joined == pc[thread] = "ended"

Join ==
  /\ operator = "join" /\ Joined
  /\ thread' = None /\ operator' = "idle"
  /\ UNCHANGED <<stop_threads, stepping, plotted, post, commands>>

Run ==
  /\ operator = "idle"
  /\ operator' = "run"
  /\ pc' = [pc EXCEPT ![Web] = "plot"]
  /\ UNCHANGED <<thread, stop_threads, count, next, plotted, post, commands>>

ClearPlot ==
  /\ plotted /\ plotted' = FALSE
  /\ UNCHANGED <<control, stepping, post, commands>>

-----------------------------------------------------------------------------
(* simulation_step, by a worker or by the thread of run_simulation.          *)

Goto(s, label) == pc' = [pc EXCEPT ![s] = label]

\* The thread of s is over: that of run_simulation has answered its request.
End(s) ==
  /\ Goto(s, IF s = Web THEN "off" ELSE "ended")
  /\ operator' = IF s = Web THEN "idle" ELSE operator

\* The measured value gets an array if it has none ...
Plot(s) ==
  /\ pc[s] = "plot" /\ Goto(s, "store")
  /\ plotted' = TRUE
  /\ UNCHANGED <<control, count, next, post, commands>>

\* ... and the array gets the new value: KeyError when it was cleared between.
Store(s) ==
  /\ pc[s] = "store"
  /\ IF plotted THEN Goto(s, "test") /\ UNCHANGED operator ELSE End(s)
  /\ UNCHANGED <<thread, stop_threads, count, next, plotted, post, commands>>

\* What the flag is meant to keep to one at a time of execute_commands.
Inside(s) == pc[s] \in {"set", "len", "loop", "unset"}

TestFlag(s) ==
  /\ pc[s] = "test" /\ ~flag /\ Goto(s, "set")
  /\ met' = (met \/ \E v \in Steppers \ {s} : Inside(v))
  /\ UNCHANGED <<control, count, next, plotted, post, flag, queue, queued, executed>>

SetFlag(s) ==
  /\ pc[s] = "set" /\ Goto(s, "len")
  /\ flag' = TRUE
  /\ UNCHANGED <<control, count, next, plotted, post, queue, history>>

Count(s) ==
  /\ pc[s] = "len" /\ Goto(s, "loop")
  /\ count' = [count EXCEPT ![s] = Len(queue)] /\ next' = [next EXCEPT ![s] = 0]
  /\ UNCHANGED <<control, plotted, post, commands>>

\* A command that is refused raises, and so does a place in the queue that
\* another thread has emptied: the flag stays set, the queue as it is.
Raises(i) == i \notin DOMAIN queue \/ queue[i] \in Bad

Execute(s) ==
  /\ pc[s] = "loop" /\ next[s] < count[s]
  /\ executed' = IF next[s] + 1 \in DOMAIN queue THEN Append(executed, queue[next[s] + 1])
                                                  ELSE executed
  /\ IF Raises(next[s] + 1)
     THEN End(s) /\ next' = [next EXCEPT ![s] = 0] /\ count' = [count EXCEPT ![s] = 0]
     ELSE next' = [next EXCEPT ![s] = @ + 1] /\ UNCHANGED <<pc, operator, count>>
  /\ UNCHANGED <<thread, stop_threads, plotted, post, flag, queue, queued, met>>

(* Mutant: _command_que.clear() is left out. *)
Emptied_not(s) == queue

Emptied(s) == <<>>

Clear(s) ==
  /\ pc[s] = "loop" /\ next[s] = count[s] /\ Goto(s, "unset")
  /\ queue' = Emptied(s)
  /\ count' = [count EXCEPT ![s] = 0] /\ next' = [next EXCEPT ![s] = 0]
  /\ UNCHANGED <<control, plotted, post, flag, history>>

\* The flag goes down, and with it the step ends: the worker goes on until it
\* was asked to stop, run_simulation until its last step.
UnsetFlag(s) ==
  /\ pc[s] = "unset"
  /\ flag' = FALSE
  /\ \/ (s = Web \/ ~stop_threads) /\ Goto(s, "plot") /\ UNCHANGED operator
     \/ (s = Web \/ stop_threads) /\ End(s)
  /\ UNCHANGED <<thread, stop_threads, count, next, plotted, post, queue, history>>

StepOn(s) ==
  \/ Plot(s) \/ Store(s) \/ SetFlag(s) \/ Count(s)
  \/ Execute(s) \/ Clear(s) \/ UnsetFlag(s)

-----------------------------------------------------------------------------
(* A request that changes a node: simulation_node, simulation_node_api.      *)

PostGoto(c, label) == post' = [post EXCEPT ![c] = label]

\* With nothing playing it is carried out at once; the queue knows nothing of it.
Post(c) ==
  /\ post[c] = "no"
  /\ PostGoto(c, IF thread = None THEN "answered" ELSE "test")
  /\ UNCHANGED <<control, stepping, plotted, commands>>

PostTest(c) ==
  /\ post[c] = "test" /\ ~flag /\ PostGoto(c, "set")
  /\ UNCHANGED <<control, stepping, plotted, commands>>

PostSet(c) ==
  /\ post[c] = "set" /\ PostGoto(c, "append")
  /\ flag' = TRUE
  /\ UNCHANGED <<control, stepping, plotted, queue, history>>

PostAppend(c) ==
  /\ post[c] = "append" /\ PostGoto(c, "unset")
  /\ queue' = Append(queue, c) /\ queued' = Append(queued, c)
  /\ UNCHANGED <<control, stepping, plotted, flag, executed, met>>

(* Mutant: the flag is not taken down. *)
PostUnset_kept(c) ==
  /\ post[c] = "unset" /\ PostGoto(c, "answered")
  /\ UNCHANGED <<control, stepping, plotted, commands>>

PostUnset(c) ==
  /\ post[c] = "unset" /\ PostGoto(c, "answered")
  /\ flag' = FALSE
  /\ UNCHANGED <<control, stepping, plotted, queue, history>>

PostOn(c) == PostSet(c) \/ PostAppend(c) \/ PostUnset(c)

-----------------------------------------------------------------------------
Next ==
  \/ \E w \in Workers : Start(w)
  \/ Stop \/ Join \/ Run \/ ClearPlot
  \/ \E s \in Steppers : StepOn(s) \/ TestFlag(s)
  \/ \E c \in Commands : Post(c) \/ PostTest(c) \/ PostOn(c)

\* Threads run (of the workers one is alive at most).  Those that poll the flag
\* do so at times of their own, and it is down for most of a step, so that the
\* requests do not miss it for ever, nor do all of those that make steps.
Fairness ==
  /\ WF_vars(Join)
  /\ WF_vars(\E w \in Workers : StepOn(w)) /\ WF_vars(StepOn(Web))
  /\ SF_vars(\E s \in Steppers : TestFlag(s))
  /\ \A c \in Commands : WF_vars(PostOn(c)) /\ SF_vars(PostTest(c))

Spec == Init /\ [][Next]_vars /\ Fairness

-----------------------------------------------------------------------------
(* Properties *)

Alive(s) == pc[s] \notin {"off", "ended"}
Refused == Elements(executed) \cap Bad # {}
Before(s, c, d) == \E i, j \in DOMAIN s : i < j /\ s[i] = c /\ s[j] = d

\* No worker makes steps but the one the operator started last, and that of
\* run_simulation only until its request is answered: after a stop no worker
\* makes another step, and no old one lives on beside the next
\* (play_simulation, worker).
OneWorker ==
  \A s \in Steppers : Alive(s) => IF s = Web THEN operator = "run" ELSE s = thread

\* Queued commands are carried out in the order in which they were queued and
\* none of them twice, whatever the two sides of the queue do between test and
\* set of its flag, until one is refused (execute_commands, que_commands); or
\* until the worker and run_simulation are in execute_commands at once, which
\* nothing keeps from doing the same commands twice.
InOrder ==
  ~met =>
    \A j \in DOMAIN executed :
      (\A i \in 1..(j - 1) : executed[i] \notin Bad) =>
        \A i \in 1..(j - 1) : Before(queued, executed[i], executed[j])

\* What was queued is carried out or still in the queue: the flag is meant as
\* the semaphore that sees to it (circuit_simulator.py, __init__).
NothingLost == Elements(queued) \subseteq Elements(executed) \cup Elements(queue)

\* A stop is answered, also when the worker died of a plot that was cleared
\* under it or waits for the flag, unless a command was refused, or two threads
\* met in execute_commands: the one that raised died with the flag set.
StopIsAnswered == operator = "join" ~> (operator = "idle" \/ Refused \/ met)

\* A request that has to wait for the flag gets its answer, whoever makes
\* steps meanwhile, with the same two exceptions.
PostsAnswered ==
  \A c \in Commands : post[c] = "test" ~> (post[c] = "answered" \/ Refused \/ met)

=============================================================================
