------------------------------ MODULE JackRings ------------------------------
(***************************************************************************)
(* The per-channel ring buffers of a JACK stream that plays (jack/         *)
(* jack_stream.c): the worker thread moves one callback's frames between   *)
(* the interleaved buffer and the rings, frame by frame and channel by     *)
(* channel, while the server's process callback moves a whole period of    *)
(* one channel at a time.  There is no lock: each ring has one writer and  *)
(* one reader, and each side acts on the level it sees.                    *)
(*                                                                         *)
(* Only levels are kept.  Both sides have moved equally much of every      *)
(* channel whenever neither is in the middle of a period, so frames of one *)
(* instant are side by side in the rings exactly when the levels agree.    *)
(*                                                                         *)
(* A definition marked "Deviation" is not the code: it is a mistake the    *)
(* definition after it could have had, and shows which property notices.   *)
(***************************************************************************)
EXTENDS Integers

CONSTANTS Channels,  \* number of channels
          Period,    \* frames_per_cb: frames of a data callback and of a process call
          Capacity   \* frames a ring can hold

ASSUME RingAssumption == /\ Channels \in Nat \ {0}
                         /\ Period \in Nat \ {0}
                         /\ Capacity \in Nat /\ Capacity >= Period

VARIABLES is_input, \* capture or playback, set by the build
          level,   \* frames in the ring of each channel
          worker,  \* "check" (the rings), "data" (user callback) or "move" (frames)
          f, ch,   \* check: the channel to look at; move: the frame and channel to move
          process, \* the channel jack_process serves next; Channels when it is not called
          short    \* some process call found a ring too empty or too full

vars == <<is_input, level, worker, f, ch, process, short>>

Ch == 0..Channels - 1

TypeOK == /\ is_input \in BOOLEAN
          /\ level \in [Ch -> 0..Capacity]
          /\ worker \in {"check", "data", "move"}
          /\ f \in 0..Period - 1 /\ ch \in Ch
          /\ process \in 0..Channels
          /\ short \in BOOLEAN

Init == /\ is_input \in BOOLEAN
        /\ level = [c \in Ch |-> 0]
        /\ worker = "check" /\ f = 0 /\ ch = 0
        /\ process = Channels /\ short = FALSE

-----------------------------------------------------------------------------
(* The server's process callback.                                          *)

ProcessStart == /\ process = Channels /\ process' = 0
                /\ UNCHANGED <<is_input, level, worker, f, ch, short>>

(* Deviation: a period is read whatever the ring holds. *)
RenderBlind == level' = [level EXCEPT ![process] = @ - Period] /\ UNCHANGED short

(* Playback: a period if the ring holds one, else all it holds and silence.*)
Render == \/ /\ level[process] >= Period
             /\ level' = [level EXCEPT ![process] = @ - Period]
             /\ UNCHANGED short
          \/ /\ level[process] < Period
             /\ level' = [level EXCEPT ![process] = 0]
             /\ short' = TRUE

(* Capture: a period if the ring has room for it, else nothing. *)
Capture == \/ /\ Capacity - level[process] >= Period
              /\ level' = [level EXCEPT ![process] = @ + Period]
              /\ UNCHANGED short
           \/ /\ Capacity - level[process] < Period
              /\ short' = TRUE
              /\ UNCHANGED level

(* Every port has a buffer and every channel a ring: the code also skips a *)
(* channel that lacks one.                                                 *)
ProcessChannel == /\ process < Channels /\ process' = process + 1
                  /\ IF is_input THEN Capture ELSE Render
                  /\ UNCHANGED <<is_input, worker, f, ch>>

Process == ProcessStart \/ ProcessChannel

-----------------------------------------------------------------------------
(* The worker thread.                                                      *)

(* Deviation: one frame less is enough. *)
ReadyEarly(c) == IF is_input THEN level[c] >= Period - 1 ELSE Capacity - level[c] >= Period - 1

(* Deviation: read space and write space are mixed up. *)
ReadySwapped(c) == IF is_input THEN Capacity - level[c] >= Period ELSE level[c] >= Period

(* Deviation: no look at the rings at all. *)
ReadyAlways(c) == TRUE

Ready(c) == IF is_input THEN level[c] >= Period ELSE Capacity - level[c] >= Period

(* Look at one ring after the other; any that is not ready starts the look *)
(* over after a nap.                                                       *)
Check == /\ worker = "check"
         /\ IF ~Ready(ch) THEN worker' = "check" /\ ch' = 0
            ELSE IF ch < Channels - 1 THEN worker' = "check" /\ ch' = ch + 1
            ELSE worker' = (IF is_input THEN "move" ELSE "data") /\ ch' = 0
         /\ f' = 0
         /\ UNCHANGED <<is_input, level, process, short>>

(* The data callback: before the frames are moved for playback, after for  *)
(* capture.                                                                *)
Data == /\ worker = "data"
        /\ worker' = IF is_input THEN "check" ELSE "move"
        /\ UNCHANGED <<is_input, level, f, ch, process, short>>

(* One sample of frame f: a write the ring has no room for is dropped, a   *)
(* read from an empty ring gives 0.0.                                      *)
MoveSample(c) == level' = [level EXCEPT ![c] = IF is_input THEN IF @ > 0 THEN @ - 1 ELSE 0
                                               ELSE IF @ < Capacity THEN @ + 1 ELSE Capacity]

Move == /\ worker = "move"
        /\ MoveSample(ch)
        /\ ch' = (ch + 1) % Channels
        /\ f' = IF ch < Channels - 1 THEN f ELSE (f + 1) % Period
        /\ worker' = IF ch < Channels - 1 \/ f < Period - 1 THEN "move"
                     ELSE IF is_input THEN "data" ELSE "check"
        /\ UNCHANGED <<is_input, process, short>>

Worker == Check \/ Data \/ Move

Next == Process \/ Worker

Spec == Init /\ [][Next]_vars

(* The server keeps its clock and the worker runs. *)
FairSpec == Spec /\ WF_vars(Process) /\ WF_vars(Worker)

-----------------------------------------------------------------------------
(* Properties.                                                             *)

(* The look at the rings is enough: until the round is over no sample is   *)
(* dropped or made up, whatever process does in between and however far    *)
(* apart the channels are.                                                 *)
NoSampleLost == worker = "move" => IF is_input THEN level[ch] > 0 ELSE level[ch] < Capacity

Aligned == \A c, d \in Ch : level[c] = level[d]
BetweenPeriods == worker # "move" /\ process = Channels

(* While no process call comes short, frames of one instant stay side by   *)
(* side.                                                                   *)
AlignedUntilShort == BetweenPeriods /\ ~short => Aligned

(* A short call may pull the channels apart, by at most a period.          *)
BoundedSkew == BetweenPeriods => \A c, d \in Ch : level[c] - level[d] <= Period

(* Channels part only by short calls, and never far.                       *)
DriftLimited == AlignedUntilShort /\ BoundedSkew

(* The worker is never shut out: it serves a round again and again.        *)
KeepsServing == []<>(worker = "data")

(* A capture frame is one float per channel, the next of each ring: of one *)
(* instant as long as the rings agree whenever no period is being stored.  *)
Interleaved == is_input /\ BetweenPeriods => Aligned
=============================================================================
