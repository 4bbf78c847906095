-------------------------------- MODULE RDRE --------------------------------
(***************************************************************************)
(* The disturbance recorder (LNs/RDRE.c) with one analog channel           *)
(* (LNs/RADR.c).                                                           *)
(*                                                                         *)
(* The recorder's thread copies the value of the channel into a ring, one  *)
(* slot per sampling period.  A trip starts a thread that waits a little,  *)
(* so that what follows the trip is recorded too, and then asks the        *)
(* recorder to write the ring to a file.  The channel is fed by the        *)
(* sampled values receiver, which is meant to wait until its last value    *)
(* has been stored.  Nothing is locked: each field is read and written     *)
(* by several threads, one access at a time.                               *)
(***************************************************************************)
EXTENDS Naturals, Sequences

CONSTANTS
  RDRE_MAX_SAMPLES,    (* the slots of the ring                           *)
  MaxSample,           (* bound: the values received                      *)
  MaxTrips             (* bound: the trips that start a recording         *)

ASSUME RDREAssumption ==
  /\ RDRE_MAX_SAMPLES \in Nat \ {0}
  /\ MaxSample \in Nat
  /\ MaxTrips \in Nat

VARIABLES
  value,         (* RADR.value; the samples are numbered from 1           *)
  value_read,    (* RADR.value_read                                       *)
  sv,            (* where the sampled values receiver is                  *)
  buffer,        (* RDRE.analogbuffers: 0 before the first sample, for    *)
                 (* what malloc left in a slot too                        *)
  sample_index,  (* RDRE.sample_index                                     *)
  recording,     (* RDRE.recording: 0 no, 1 after a trip, 2 write now     *)
  recorder,      (* where recorder_callback is in its loop                *)
  trip,          (* where the thread of the trip input is                 *)
  delays,        (* the threads that wait in recorder_delay               *)
  asking,        (* those that found the recording still to be written    *)
  trips,         (* the trips so far that started one of them             *)
  file           (* the samples in the file, in its order                 *)

channel == <<value, value_read, sv>>
ring == <<buffer, sample_index>>
tripping == <<trip, delays, asking, trips>>
RDRE_vars == <<channel, ring, recording, recorder, tripping, file>>

Slot == 0 .. RDRE_MAX_SAMPLES - 1

(* value_read is not set by RADR_init. *)
RDRE_init ==
  /\ value = 0
  /\ value_read \in {0, 1}
  /\ sv = "idle"
  /\ buffer = [i \in Slot |-> 0]
  /\ sample_index = 0
  /\ recording = 0
  /\ recorder = "store"
  /\ trip = "idle"
  /\ delays = 0 /\ asking = 0
  /\ trips = 0
  /\ file = <<>>

-----------------------------------------------------------------------------
(* RADR_callback, on the sampled values receiver.                          *)

Received ==
  /\ sv = "idle" /\ value < MaxSample
  /\ sv' = "wait"
  /\ UNCHANGED <<value, value_read, ring, recording, recorder, tripping, file>>

(* Mutant: the receiver waits for a value to be unread. *)
SetValue_inverted ==
  /\ sv = "wait" /\ value_read # 1
  /\ value' = value + 1
  /\ sv' = "flag"
  /\ UNCHANGED <<value_read, ring, recording, recorder, tripping, file>>

(* The wait for value_read is over: the next sample. *)
SetValue ==
  /\ sv = "wait" /\ value_read = 1
  /\ value' = value + 1
  /\ sv' = "flag"
  /\ UNCHANGED <<value_read, ring, recording, recorder, tripping, file>>

ClearRead ==
  /\ sv = "flag"
  /\ value_read' = 0
  /\ sv' = "idle"
  /\ UNCHANGED <<value, ring, recording, recorder, tripping, file>>

-----------------------------------------------------------------------------
(* RDRE_callback_trip and recorder_delay.                                  *)

RDRE_callback_trip ==
  /\ trip = "idle" /\ trips < MaxTrips
  /\ recording = 0
  /\ trip' = "start"
  /\ UNCHANGED <<channel, ring, recording, recorder, delays, asking, trips, file>>

StartDelay ==
  /\ trip = "start"
  /\ recording' = 1
  /\ trip' = "idle"
  /\ delays' = delays + 1
  /\ trips' = trips + 1
  /\ UNCHANGED <<channel, ring, recorder, asking, file>>

(* Mutant: the delay asks for the file only if nothing is recorded. *)
recorder_delay_idle ==
  /\ delays > 0
  /\ delays' = delays - 1
  /\ asking' = IF recording = 0 THEN asking + 1 ELSE asking
  /\ UNCHANGED <<channel, ring, recording, recorder, trip, trips, file>>

(* A delay is over: has the recording been written since? *)
recorder_delay ==
  /\ delays > 0
  /\ delays' = delays - 1
  /\ asking' = IF recording = 1 THEN asking + 1 ELSE asking
  /\ UNCHANGED <<channel, ring, recording, recorder, trip, trips, file>>

(* It had not: ask for the file, whatever has become of it meanwhile. *)
AskForFile ==
  /\ asking > 0
  /\ asking' = asking - 1
  /\ recording' = 2
  /\ UNCHANGED <<channel, ring, recorder, trip, delays, trips, file>>

-----------------------------------------------------------------------------
(* recorder_callback, the loop of the recorder's thread.                   *)

Store ==
  /\ recorder = "store"
  /\ buffer' = [buffer EXCEPT ![sample_index] = value]
  /\ recorder' = "flag"
  /\ UNCHANGED <<channel, sample_index, recording, tripping, file>>

SetRead ==
  /\ recorder = "flag"
  /\ value_read' = 1
  /\ recorder' = "check"
  /\ UNCHANGED <<value, sv, ring, recording, tripping, file>>

(* Mutant: the file starts at the slot that was written last. *)
write_comtrade_newest ==
  /\ recorder = "check" /\ recording = 2
  /\ file' = [i \in 1 .. RDRE_MAX_SAMPLES |->
                buffer[(sample_index + i - 1) % RDRE_MAX_SAMPLES]]
  /\ recorder' = "written"
  /\ UNCHANGED <<channel, ring, recording, tripping>>

(* The file, from the slot after the one that was written last. *)
write_comtrade ==
  /\ recorder = "check" /\ recording = 2
  /\ file' = [i \in 1 .. RDRE_MAX_SAMPLES |->
                buffer[(sample_index + i) % RDRE_MAX_SAMPLES]]
  /\ recorder' = "written"
  /\ UNCHANGED <<channel, ring, recording, tripping>>

(* The file cannot be opened. *)
write_comtrade_fails ==
  /\ recorder = "check" /\ recording = 2
  /\ recorder' = "written"
  /\ UNCHANGED <<channel, ring, recording, tripping, file>>

(* write_comtrade ends the recording, and so does its caller. *)
EndWrite ==
  /\ recorder = "written"
  /\ recording' = 0
  /\ recorder' = "end"
  /\ UNCHANGED <<channel, ring, tripping, file>>

EndRecording ==
  /\ recorder = "end"
  /\ recording' = 0
  /\ recorder' = "advance"
  /\ UNCHANGED <<channel, ring, tripping, file>>

NoRecording ==
  /\ recorder = "check" /\ recording # 2
  /\ recorder' = "advance"
  /\ UNCHANGED <<channel, ring, recording, tripping, file>>

Advance ==
  /\ recorder = "advance"
  /\ sample_index' = (sample_index + 1) % RDRE_MAX_SAMPLES
  /\ recorder' = "store"
  /\ UNCHANGED <<channel, buffer, recording, tripping, file>>

-----------------------------------------------------------------------------

Receiver == SetValue \/ ClearRead
Recorder ==
  \/ Store \/ SetRead
  \/ write_comtrade \/ write_comtrade_fails \/ EndWrite \/ EndRecording
  \/ NoRecording \/ Advance

RDRE_Next ==
  \/ Received \/ Receiver
  \/ RDRE_callback_trip \/ StartDelay \/ recorder_delay \/ AskForFile
  \/ Recorder

(* The threads run on: the receiver polls value_read, which stays set until
   it clears it itself.  Neither samples nor trips need arrive. *)
RDRE_Spec ==
  /\ RDRE_init /\ [][RDRE_Next]_RDRE_vars
  /\ WF_RDRE_vars(Receiver) /\ WF_RDRE_vars(Recorder)
  /\ WF_RDRE_vars(StartDelay) /\ WF_RDRE_vars(recorder_delay)
  /\ WF_RDRE_vars(AskForFile)

-----------------------------------------------------------------------------
(* Properties.                                                             *)

RDRE_TypeOK ==
  /\ value \in 0 .. MaxSample
  /\ value_read \in {0, 1}
  /\ sv \in {"idle", "wait", "flag"}
  /\ buffer \in [Slot -> 0 .. MaxSample]
  /\ sample_index \in Slot
  /\ recording \in 0 .. 2
  /\ recorder \in {"store", "flag", "check", "written", "end", "advance"}
  /\ trip \in {"idle", "start"}
  /\ delays \in 0 .. MaxTrips /\ asking \in 0 .. MaxTrips
  /\ trips \in 0 .. MaxTrips
  /\ file \in {<<>>} \cup [1 .. RDRE_MAX_SAMPLES -> 0 .. MaxSample]

(* The samples of a file are in the order they arrived in; what has not
   been recorded yet when the ring is not full comes first. *)
FileInOrder == \A i, j \in DOMAIN file : i < j => file[i] <= file[j]

(* The receiver does not wait for ever for a value to be stored. *)
ReceiverGoesOn == sv = "wait" ~> sv = "idle"

(* After every trip the recorder comes to be ready for the next. *)
RecordingEnds == recording # 0 ~> recording = 0

=============================================================================
