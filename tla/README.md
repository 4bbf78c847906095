# Verification of the virtual IED

TLA+ models of the program in `src/`, the TLC runs that check them on small
instances, and proofs that hold for every instance. The program is a C server
("open_server") that plays IEC 61850 devices (IEDs) on top of libiec61850, with
plugins loaded at start-up, and a Python circuit simulator that supplies the
primary process. One process runs for each IED.

`tlc -workers 2 -config <run>.cfg <module>` repeats a run, `tlapm
<module>Proofs.tla` the proofs about a module (`BayProofs` holds those about
`Switchgear` too, `AfterTripProofs` those about `RREC` and `RDRE`). `PROJECT.json`
lists the runs, the lines each definition models, the mutants that each property
catches, and the hazards.

## 1. Inventory

### Threads and how they meet

An IED process has: the MMS server thread (control handlers, writes), a GOOSE
receiver, a sampled values (SV) receiver, SMV publishers, a detached thread for
each switch command, detached timer threads of the recloser, a recorder thread
with its delay threads, and the threads of the plugins (simulation socket,
hardware socket, user interface).

* Logical nodes call each other **synchronously**: the thread that publishes an
  attribute calls the subscribers one after the other
  (`InputValueHandleExtensionCallbacks`, input/inputs.c:519), each of which may
  publish in turn. There is no queue.
* A local input reads the **live** attribute: the value seen by a node may change
  between two reads in one function.
* There is **no lock** in any logical node except the semaphore of XSWI, which
  only the switch simulation uses. One node may be called on two threads: PTRC of
  FEED1, FEED2, TR1 and TR2 by the GOOSE receiver, for the trips of the busbars, and
  by the thread of the samples, for the Op of its own PTOC (cfg/FEED1.ext:91-93).
* Nodes are `malloc`'d, and not every field is set before it is read (PTOC, RREC,
  RADR): such a field begins with whatever the memory held.
* A GOOSE listener runs for **every** message, retransmissions included.
* IEDs and simulator speak a line protocol over TCP with a time-out of one second
  on the simulator's side.

### Components

| component | state | operations | what makes it correct |
|---|---|---|---|
| XSWI, XCBR (LNs/) with cbr_simulation | Pos, BlkOpn, BlkCls, Loc, semaphore, threads | Opn/Cls, releases, Loc, Tr, the simulation threads | one mover per switch, no switch left half way, a trip always opens, commands end |
| CSWI | position, releases, Loc, wait counter, OpOpn/OpCls | check handler, control handler (called again while waiting), inputs | the pulse lasts as long as the control, the counter is clean, failures leave nothing behind |
| CILO | reports per gate, two releases | four gate callbacks, `stval` input | releases follow the reports |
| feeder bay (cfg/FEED1.ext) | all of these, and the calls still to be made | position → CILO → CSWI/XSWI, controls, trip | controllers and switches agree about the interlocking; no command under a closed breaker |
| PTOC | progress and reset timer per channel, trip | a set of samples | trips in time, not early, and not for good |
| PIOC, PDIS, PDIF | trip, trip timer | a set of samples | as PTOC |
| PTRC | tripstate, Op, Tr, EnaOpn | callback per delivery of an Op value | a standing fault trips, a trip ends with its faults |
| RREC | tripstate, tripCount, sleeping threads | trip, breaker position, three kinds of threads | a bounded number of shots, ready again when the breaker rests |
| RDRE, RADR, RBDR | ring, recording, value/value_read | receiver, recorder, trip, delay, file writing | files in order, nobody blocked, recordings end |
| circuit simulator | connections, nextStep_dict, positions, round | a round: values, positions, next step | IEDs in step, no stale answer, a lost IED stops nobody |
| simulation_process, SMVPublisher | connections, step counter, samples | s/g/n requests, a sample per step | a sample per step, not before it |
| inputs.c (GOOSE, SV) | subscriptions, last numbers, values | subscription, message, callbacks of the inputs | every input gets its own element, the newest value wins in the end, no false alarm about GOOSE |
| webAPI.py with the command queue of the simulator | worker, stop flag, queue and its flag, arrays of the plot | start, stop, run, change of a node, clear | no old worker lives on, commands in order, requests answered |
| hw_connector, ui_connector, python | sockets, flags | connect, receive, reconnect | one live connection |
| rest (configuration, logging, DSP, LLN0, MMXU, TCTR, TVTR, SCL generators, vendored code) | - | - | formatting, arithmetic or start-up only |

### What is hard here

Interleavings of unlocked threads (semaphore, PTRC, RDRE, RREC); fields that
nobody initialises; values read twice or late (CSWI.c:179, the re-arm of RREC,
the interlocking at XSWI.c:163); synchronous chains that other threads see half
done; threads that are never cancelled; repeated, lost and overtaken messages; a
flag taken for a lock, and a step by hand beside the worker; answers that come
after their time-out; a process that is overtaken by the simulator.
`PROJECT.json` lists each at its line.

## 2. Modules

| module | models | abstract / composed of |
|---|---|---|
| `MechanicalSwitch` | what a switch promises: it leaves rest, and arrives at one of its ends | abstract |
| `Switchgear` | LNs/XSWI.c, LNs/XCBR.c, cbr_simulation.c | implements `MechanicalSwitch` |
| `Bay` | cfg/FEED1.ext, the direct input of CILO | EXTENDS `Switchgear` |
| `CSWI`, `PTOC`, `RREC`, `RDRE` | the node of that name | on their own |
| `CILO` | LNs/CILO.c, its four gates | instance in `Inputs` |
| `Inputs` | input/inputs.c: subscriptions, GOOSE and SV receivers | network, receivers, `CILO` |
| `PTRC` | LNs/PTRC.c, its trip half | two instances in `Busbar` |
| `Busbar` | LNs/PDIF.c, LNs/PIOC.c, LNs/PDIS.c | a function, `PTRC` of its IED, the network, `PTRC` of another IED |
| `Lockstep` | circuit_simulator.py, simulation.c, SMVPublisher.c, the step counter | simulator, network and IEDs together |
| `WebAPI` | webAPI.py, the command queue of circuit_simulator.py | requests, operator and worker together |
| `BayProofs` | - | theorems about `Switchgear`, and about `Bay` on top of them |
| `AfterTripProofs` | - | theorems about what follows a trip: the recloser `RREC` and the recorder `RDRE` |
| `CSWIProofs`, `PTOCProofs`, `InputsProofs`, `BusbarProofs`, `LockstepProofs`, `WebAPIProofs` | - | theorems about the module of that name |
| `MC*` | - | constants for TLC |

**Switchgear.** `pos`, `BlkOpn`, `BlkCls`, `Loc` and `sem` are the fields of the
XSWI record. A command that is let through (`XSWI_Opn`, `XSWI_Cls`,
`XCBR_callback_Tr`, `XSWI_change_switch`) takes an unborn thread; `Simulate`
walks it through the semaphore, the check of the position, the move and the post,
one action for each statement another thread can see. `MechanicalSwitch` is the
abstract specification; the refinement is by name, and `IsMechanicalSwitch`
checks it.

**Bay.** `chain` holds the callbacks the thread of the breaker has still to make
while the other threads run: this is what makes the synchronous calls of inputs.c
visible as they are, neither atomic nor queued. `control` is the short form of a
CSWI control (accepted, pulse still to come); the long form is in `CSWI`.

**CSWI.** The MMS thread runs one handler at a time; it is called again for each
control that waits. Each read of the position is a step of its own, because the
position belongs to another thread.

**CILO, PTRC.** Each published attribute is a step, because publishing calls
others. Both have `Thread` as a parameter. The gates of a CILO have one thread in
the shipped configurations (`CILO` runs behind the GOOSE receiver). A PTRC has one
thread in the busbars and two in the feeders and transformers, and in `Busbar` `A`
is of the first kind and `B` of the second: the test of tripstate (`Test`, line 36) and
its setting (`SetTripstate`) are steps of their own, so that two callbacks can both
find it clear.

**Inputs.** At the start each input is looked up in the list of subscriber
entries; the place in the data set is counted along that list (`dataSetIndex`),
and consecutive inputs of one control block share a subscriber (`Subscribe`).
The two nested loops are recursive functions of the place they have reached
(`EntryLoop`, `InputLoop`), evaluated once for each configuration. A message is
then taken apart along the list of a subscriber: `Take` copies one element into
one input and runs the callback of its node, here a `CILO`; `Finish` ends the
walk, also for an input whose index has been passed. `net` is a set: messages
are overtaken, repeated (`again`) and lost. The network moves only while the
receiver of the service waits, which leaves nothing out: the receiver reads
neither `net` nor `pub` while it works, and can be shown what happened meanwhile
afterwards. `last` and `newest` are history.

**Busbar.** `Function` is one of PDIF and PIOC/PDIS (which share their shape):
counters in samples, saturated where they make no difference any more. Its
result calls `A`, the PTRC of the same IED, synchronously; the change of
Tr.general and its retransmissions go through `net`, where they can be lost, to
`B`, the PTRC of the other IED, which has the three inputs of FEED1.ext:91-93:
this busbar and another by GOOSE, on one thread, and its own PTOC on the thread of
the samples (`B_operates`), with the callback beside that of the other thread or not.
`overlap` and `raced` are history: which threads of `B` are in a callback that has
met the other's, and whether callbacks have met without one having published by
itself since. `kind = "none"` is an IED of this busbar that does not run.

**WebAPI.** One action for each statement that another thread can tell apart:
test, set, append or length, loop, clear, unset. A simulation step is
`Plot`/`Store` (test for the array of the plot, use of it) and
execute_commands. A command that ngspice refuses raises: the flag stays set and
the thread is over; so does reading a queue that was emptied meanwhile (`Raises`).
There is one operator, with one control request at a time; run_simulation does not
test whether a worker plays (webAPI.py:118), so `Run` is possible beside one, and
both make steps then. Changes of nodes and clearing come
from anyone. `queued`, `executed` and `met` (worker and run_simulation have been past
the test of the flag in execute_commands at once) are history.

**PTOC.** One callback is one step (one thread). A current is abstracted to its
operate time; `progress` counts in `1/Unit`. PTOC_init leaves `progress`,
`reset_timer` and prevTime as malloc found them: the first two begin anywhere in
`InitialProgress` and `InitialTimers`, negative numbers and NaN included (`Stuck` stands
for what no addition changes), and the first time difference is arbitrary.
`above`, `below` and `settled` are history; a channel is settled when its progress was
reset once, or was 0 to begin with.

**RREC.** Time passes in ticks, and a thread whose sleep is over acts before the
next tick. Sleeping threads are kept as what is left of their sleep, oldest
first. tripCount begins as any int of `InitialCount`, since nobody sets it
(RREC.c:136). `shots` and `leftover`, the count malloc left, are history.

**RDRE.** Every access to a shared field is a step: value, value_read,
recording; recorder_delay tests recording in one (`recorder_delay`) and sets it
in another (`AskForFile`). A slot of the ring is 0 before its first sample,
which also stands for what malloc left there (RDRE.c:286): that is what a file
has in the place of samples that have not come.

**Lockstep.** A request and its answer carry the round they are of, so that a
late answer can be told apart. `closed` are sockets, `Connection` what the
records hold: nextStep_dict shares the sockets with the records, and one can
close what the other still uses. Any wait may time out, at any moment; any
process may stop. `nextStep_dict` is filled from the connections that are there,
the first of each IED (`StepConns`), in the order of a round. Sockets close in
order (the program cannot see whether a reset or an end of file is first except
through `Timeout` and `ReceiveEnd`), unless the answer arrives between the
time-out and the `close`: then the connection is reset, the IED takes the error
of `read` for a request, and carries out what its buffer holds for this
connection (`ServeAgain`). `repeated`, history, counts the steps it makes so.

## 3. Runs

| run | bounds | shows |
|---|---|---|
| `MCSwitchgear` | one breaker, 3 commands | `TypeOK`, `OneMover`, `IntermediateIffMoving`, `IsMechanicalSwitch`, `TripOpens`, `CommandsEnd` |
| `MCBay` | breaker and isolator, 3 commands | `InterlockFollowsBreaker`, `CommandNeedsOpenBreaker`, `TripReleases` |
| `MCBayLoad` (violation) | same | README.md:44 is not what the code does: an isolator can move under load |
| `MCCSWI` | one controller, 4 waits | `PulseStands`, `CounterStartsAtZero`, `FailureTakesPulsesBack`, `ControlsEnd` |
| `MCPTOC` | 2 channels, 2 overcurrents, operate times 2 and 6, reset delay 3; leftovers NaN, negative, 0, above all limits | `TripsInTime`, `TripIsEarned`, `TripEnds` |
| `MCRREC` | pause 2, time-out 4, re-arm 6 ticks, 2 shots, 3 threads of a kind; tripCount begins at -1, 0, 1 or beyond the lock | `ShotsLimited`, `LocksAfterShots`, `ReadyAgain` |
| `MCRDRE` | ring of 3, 5 samples, 2 trips | `FileInOrder`, `ReceiverGoesOn`, `RecordingEnds` |
| `MCLockstep` | 2 IEDs, 3 connections, 2 rounds | `InStep`, `FreshPositions`, `SamplesNotOlder`, `RoundsGoOn`, `PublisherFollows` |
| `MCInputs` | 2 GOOSE blocks whose data sets have one name, 2 blocks of samples whose data sets have one name, inputs from one of them, 2 elements; 3 configurations; 2 states, 2 messages under way | `InputsUpToDate`, `ReleasesFollowInputs`, `AlarmsAreEarned`, `Settles` |
| `MCBusbar` | both kinds of function, and none beside the PTOC of `B`; 2 phases, a trip of 2 samples, a delay of 1, 2 messages under way | `TypeOK`, `PublishedTogether`, `OperateTimes`, `FaultTrips`, `BothTripsEnd` |
| `MCWebAPI` | 2 commands, one of which is refused, 2 starts, steps by hand at any time | `OneWorker`, `InOrder`, `StopIsAnswered`, `PostsAnswered` |
| `MCWebAPILoss` (violation) | 2 commands, 2 starts | the flag of the queue is not the semaphore it is called (circuit_simulator.py:414): a command is lost |

Why the bounds are enough: switches share nothing, so one is enough where no
interlocking is involved, and three threads give a mover, a waiter and a late
comer. In the bay, one isolator stands for all, since each gets the same calls.
In CSWI four waits give the first, a middle and the last call of the handler.
Two channels of PTOC give the one that trips and the one that does not; the
operate times make the second lag behind the first and the reset delay falls
between them; a leftover is one of each kind that the code treats alike (no
number or too low for any addition, negative, 0, above every limit). For RREC
the pause, the time-out and the re-arm keep the order of the code (1, 10 and 60
seconds), 2 shots stand for its 4, and there can be as many threads of a kind as
overlap; the count that malloc left is below, in and beyond the range of the
code's own. The ring of RDRE wraps within the samples received. In Lockstep a
late answer of round one can meet a request of round two.

In Inputs, two GOOSE blocks with data sets of one name are what the comparison of
names alone cannot tell apart; two merging units of which the inputs name one are
what IED2_PTOC.ext:35 lists. The configurations have all gates, mixed blocks, one
element for two inputs, and an input that comes after a higher index; two
states and a retransmission let an old state arrive late and a number fall back.
In Busbar two phases make the repeated Op of one cycle, and the counters reach
their limits. `WithPTOC` bounds what runs together: TLC lets the PTOC of `B` operate
where the other thread has the messages of the second busbar, which may send any
value at any time, as this one does; the two functions beside it would only
multiply the states, since `B` knows a busbar by its messages alone. The proofs
have no such bound. In WebAPI a worker and its successor can
overlap if anything lets them, run_simulation can overlap with both, and two
commands can meet in the queue.

The type invariant of each module is an invariant of two runs (`MCSwitchgear`
and `MCBusbar`, the latter with both nodes inside); those of the other modules
document their variables and hold on the same instances.

Deadlock is checked where the cfg does not say otherwise; it is off where a
bound (commands, rounds) lets the system stop.

### Fairness

Only what the scheduler of the operating system gives: a thread that can run
runs (WF of the thread's step). The environment is free: no command, trip,
position, sample or request need ever come, with these exceptions, stated at the
specification: in PTOC and Busbar samples keep coming, in RREC time goes on. In
Switchgear weak fairness of each thread is enough even at the semaphore: a thread
moves once, so a waiter is passed over only as often as there are other commands.
In Inputs and Busbar a GOOSE publisher retransmits for ever, and the network
loses any message but not every one of a kind that is sent for ever (strong
fairness of `Retransmit`, `ReceiveCurrent`, of `A_trip` and `B_receives`);
outdated messages do not stay under way for ever (`LoseOutdated`); the message of
the other busbar is sent for ever too (`B_receivesAgain`). `FaultTrips`
assumes, in the property, that the node is released whenever there is a fault
(see section 5); the PTOC of `B` need not operate. In WebAPI those who poll the
flag (`PostTest` of each request, `TestFlag` of one of those that make steps)
have strong fairness: they test every millisecond, and the flag is down for
most of a step. Starts, stops and requests need not come.
In Lockstep, `Simulator` includes the one-second
time-out of `recv`, and the IED's answers are given no fairness at all: they may
never come.

## 4. Proofs

Every theorem holds for all values of the constants, from the assumption that the
module itself declares about them (`SwitchAssumption`, `PTOCAssumption`, ...,
which TLC evaluates in the runs) and from nothing else, except where a hypothesis
is named below. In each case the property is not inductive as it stands, and is
proved from a stronger `IInv`, initially true and kept by every action.

**BayProofs, the switches alone.** `OneMover` (`MutualExclusion`),
`IntermediateIffMoving` (`NeverHalfWay`), `TypeOK`, and `MechanicalSafety`: every
step is a step or a stutter of `MechanicalSwitch`. That a thread gets past the
semaphore only when nobody holds it needs the semaphore's value, and that a move
ends where it should needs the position of the thread that moves. `IInv` is the
types, one holder per switch exactly while the semaphore is taken, and the
intermediate position exactly while a holder is moving.

**BayProofs, the wired bay.** `BayIsSwitchgear`: every behaviour of the bay is one
of the switchgear, so that all of the above holds for it. `InterlockAlways`
(`InterlockFollowsBreaker`) and `CommandNeedsOpenBreakerAlways`. The invariant
(`Telling`) says of every controller, isolator and of the CILO that it agrees with
the breaker or that the call which corrects it is still in the chain; the calls
of a chain all tell the present position, because the breaker does not move
before the thread that moves it has made them (this is where `IInv` is needed).

**CSWIProofs.** `PulseStands`, `CounterStartsAtZero`, `FailureTakesPulsesBack`. The
counter of the control doubles as "first call"; the invariant relates it to the
handler that runs (`InHandler`) and to the pulses that stand.

**PTOCProofs.** `TripsInTime` and `TripIsEarned`. The invariant measures
progress and reset timer against the history of the currents from both sides:
progress is at least (`FastEnough`) and at most (`NotTooFast`) what the time
above pickup can have made, whatever dips came between. Both are said of settled
channels. Of the others it says that they have not been reset since the start,
so that one that trips has been above pickup within the reset delay; what malloc
left is any number.

**AfterTripProofs, the recloser.** `ShotsLimited`, and `LocksAfterShots`
(`LocksInTime`), from any int in tripCount: until the first re-arm the count is
what malloc left and the shots together, afterwards the shots alone. Threads are
never cancelled, so the invariant counts the closings under way (`OneClosing`)
and relates the count of the code to the shots that were made (`Counted`).

**AfterTripProofs, the recorder.** `FileInOrder`, for every length of the ring. The
file is in order when it is written, but what makes it so was done by earlier
steps: the invariant says it of the ring at all times, read from the oldest slot,
and that no slot is younger than the value of the channel (`NothingNewer`). Where
the oldest slot is depends on the place of the recorder (`Oldest`): storing a value
makes the next slot the oldest, and advancing the index makes it the same slot,
also where the index starts again (`WrapAround`).

**BusbarProofs.** `TypeOK`, `PublishedTogether` and `OperateTimes`. Each PTRC has an
invariant by the place its callback is at: which of Op, Tr and tripstate are
published there. For `B` it is said of a callback that has met no other
(`B_alone`), and of the state between callbacks after one that has published by
itself (`B_published`): such a callback sets Op, Tr and tripstate alike, whatever
was left before. The counters are bounded by the time above and below.

**InputsProofs.** `AlarmsAreEarned`, with no hypothesis. `SubscribedInPlace`,
`InputsUpToDate` and `ReleasesFollowInputs` for every configuration in which
`NamesTellApart`: no entry is listed twice, every input is named by an entry, and
of the blocks that the inputs name no two have what the code compares in common
(data set, APPID and address for GOOSE, the name of the data set alone for
samples, inputs.c:150). TLC evaluates the hypothesis for the configurations of
`MCInputs` (`NamesAssumption`); the code does not check it.

`SubscribedInPlace` is about what subscribeToGOOSEInputs makes of a
configuration: the lists of the subscribers name every input once, at the place of
its element, in the order of the data set. The outer loop goes over the inputs and
the inner one over the entries; the invariant `Right` says that the lists made so
far are in order (`Ascending`), that there is one for each block (`OnePerBlock`),
that they hold inputs of their own block only (`HoldOwn`) and none that is still to
come (`Passed`), and all that have come (`Covered`). A turn that adds an input
keeps it (`AddIsRight`), for which the place counted along the entries has to be the
place in the data set (`IndexOfElement`). The library's induction theorems take an
operator and cannot be used; the lemma `Induction` states induction for sets of
numbers, and comes from the well-foundedness of <, and `LoopExists` and what
follows it say that the two recursive functions compute what their definitions say.

For `InputsUpToDate` an input holds its element of the last message, or its turn
is still to come, and no index that is left has been passed. For the releases, the
values the gates were told are those of the inputs, and what the callback of the
CILO has published and remembered is given by its place.

**LockstepProofs.** `InStep`, `FreshPositions` and `SamplesNotOlder`, for any IEDs,
connections and rounds. The invariant follows a request on its way: what is left
of a round (`RoundLeft`: every request once, the steps last); an open connection
holds the request under way or its answer and nothing else, a closed one at most
a request that its IED may read in a later round (`Channels`). From it `Steps`
bounds the step counter of every IED: an IED is a step behind only while its "n"
request is left or unread, and what is unread on a closed connection is of a
round it has not made yet. `Values` does the same for the transformers, `Fresh`
for the positions. Closing a connection on a time-out is what keeps `Channels`
true: the mutant that keeps it breaks `FreshPositions`. All of this is stated of
the steps without those made again (`Made`), which a reset does not change.

**WebAPIProofs.** `OneWorker`, from what the operator has been answered: it
waits only for a worker (`Awaited`). `InOrder`, and `TypeCorrect`: the loop of
execute_commands never reads past the end of the queue, although the flag does
not keep the requests out, as long as worker and run_simulation have not met in
it (`met`). The second invariant `OInv` rests on the first: of the threads that
step one alone is inside, and nobody else shortens the queue inside the loop. It
says that the queue has its commands in the order of the requests
(`QueueInOrder`), that what the loop has still to run was queued after all that
has been run (`PendingLast`), where every command comes from (`Sent`,
`Sources`), and that the loop stays inside it (`InRange`).

Only model-checked:

* liveness (`TripOpens`, `CommandsEnd`, `ControlsEnd`, `TripReleases`, `TripEnds`, `BothTripsEnd`,
  `FaultTrips`, `ReadyAgain`, `ReceiverGoesOn`, `RecordingEnds`, `RoundsGoOn`,
  `PublisherFollows`, `Settles`, `StopIsAnswered`, `PostsAnswered`) and the fairness
  in `IsMechanicalSwitch`, which are beyond the prover. Every safety property that
  a passing run checks is stated by a theorem.

## 5. What the models show beside the runs

Some things the code does are in the models and are not stated as properties,
because they would not hold; a reader who adds the property sees TLC find it.

* CSWI.c:179 reads the position again: if the switch leaves its end in between,
  the pulse outlives its control.
* PTOC.c:127: the reset delay of any channel takes the trip back, so that a trip
  can end before the reset delay (PTOC.c:209) of the channel that tripped.
* PTRC.c:52 and 53: the trip is taken back when the same Op is delivered once
  more, so that Tr.general alternates while a fault stands. `FaultTrips`
  holds because it trips again and again.
* PDIF.c publishes its Op on a change only: a PTRC that is released after that
  does not trip (hence the assumption of `FaultTrips`).
* RREC.c:33: a re-arm thread started by an earlier closing finds the breaker
  closed again, and forgets the trips although it closed a moment ago.
* RREC.c:103: the time-out of an answered trip gives up a later one.
* RREC.c:136: tripCount is not initialised. A count that begins above 0 makes the
  recloser lock early, one below 0 gives as many close commands more, until the first
  re-arm (`leftover` in the properties).
* PTOC.c:184: progress and reset_timer are not initialised either. A channel that begins at
  1 trips with the first current above pickup; one that begins as NaN or far below 0
  does not trip before it has been reset (`settled` in the properties).
* PTRC.c:36 and 46, with two threads: both find tripstate clear, and one trips. While
  it takes the trip back (line 53 on) the other publishes Op and Tr and sets
  tripstate, before the first clears it (line 64): Op and Tr stay set with tripstate
  clear, and no callback takes them back before the next trip (`raced` in the
  properties).
* inputs.c:419: the loss of sample 0, when their count starts again, raises the alarm of a
  replay; `AlarmsAreEarned` is about GOOSE only.
* webAPI.py:118: run_simulation beside a worker. Two threads in execute_commands run a
  command twice, or one reads a queue the other has emptied: IndexError, a dead
  thread and a flag that stays set (`met` in the properties).
* RDRE.c:192 and 213: a sample, or a trip, can fall between two accesses.
* Lockstep: an IED whose first connection was given up is never told to go on
  again, while the others run (circuit_simulator.py:529 wants it in step).
* simulation.c:248: only 0 is taken for the end of a connection. After a reset the
  last request is carried out again, and when it was a step an IED whose other
  connections are open is ahead of the simulator from then on: without `repeated`,
  `InStep` fails.
* inputs.c:150: for sampled values only the name of the data set is compared.
  When inputs come from two blocks of samples with data sets of one name,
  `InputsUpToDate` fails; `NamesTellApart` excludes it. The shipped lists have
  two such blocks (IED2_PTOC.ext:35), and inputs from one of them.
* circuit_simulator.py:643 and webAPI.py: after a command that is refused, stops
  and requests wait for ever (`Refused` in the properties); and a command that stays in the
  queue after a stop is carried out by the next start, after younger ones.

## 6. Not modelled

* Parsing and start-up, logging, file formats, MMS and GOOSE encoding
  (libiec61850 is external), real-valued signal processing, the ngspice
  computation, real time other than ticks, the Java SCL tools and the vendored
  code. `cbr_process` and `local_sample_simulation` have no state worth a model.
* The hardware connector: a client that reconnects. Its only shared state is a
  socket and a shutdown flag. The user interface connector: one request, one
  answer, mostly formatting.
* The table of 65 connections (simulation.c:230), whose overflow the simulator sees
  as an IED without a connection, which `Lockstep` has, and the write before the
  buffer (simulation.c:313, with a length of -1).
* The time between the start of the server and the end of `attachLogicalNodes` and the
  plugins (open_server.c:412 to 487), when clients are answered already: `Bay` begins after it.
* The error paths of the walk through a message (inputs.c:348, 358, 368, 384, 443, 476):
  data sets that are no structure or too short, elements of another type.
* The start half of PTRC (same shape as the trip half; PTRC.c:135 looks its
  subscribers up under the trip), inputs of one CILO on two threads
  (CILO.c:125), two local functions on one PTRC, the switch positions
  PDIF reads (PDIF.c:58), several operators at once and reinit in webAPI.py,
  and the mixture of two rounds in one sample (SMVPublisher.c:159).
* The alarms of inputs.c about the rate of messages.

By lines the models stand for a small share of `src/`: 24,596 of its 36,184 lines of
code are the vendored json.hpp, and most of the rest is parsing, formatting and
generators. What has threads, timers or a protocol is in a module, with the
exceptions above.

## 7. Plan

What is left is the start half of PTRC with the subscribers that PTRC.c:135 looks
up, the clients that are answered while the nodes are still being attached, and several
operators of the web interface at once.
