--------------------------- MODULE CoreAudioStream ---------------------------
(***************************************************************************)
(* One CoreAudio stream (macos/coreaudio_stub.c), from the sample rate the *)
(* build of an input stream sets to the call that destroys the stream: the *)
(* application thread, the thread of the audio queue that calls            *)
(* ca_output_callback or ca_input_callback, and the thread of the audio    *)
(* HAL that calls ca_device_alive_listener.                                *)
(*                                                                         *)
(* A step is one access to a flag that two threads use, one call of the    *)
(* system, or one user callback.  The flags are plain volatile ints: loads *)
(* and stores of them are taken to be whole.  Of the system it is assumed  *)
(* that a queue calls back on one thread and only between start and stop,  *)
(* that a synchronous stop and the removal of a listener wait for the      *)
(* callback in flight, and that the HAL notifies a listener on one thread. *)
(*                                                                         *)
(* A definition marked "Deviation" is not the code: it is a mistake the    *)
(* definition after it could have had, and shows which property notices.   *)
(***************************************************************************)
EXTENDS Integers

CONSTANTS Buffers,   \* the buffers the build hands to the queue, 3 in the code
          Deadline   \* how long the build waits for a sample rate, in clock ticks

ASSUME CoreAudioAssumption == Buffers \in Nat \ {0} /\ Deadline \in Nat

VARIABLES is_input,          \* capture or playback
          rate, ticks,       \* the device has the wanted rate; how long the build has waited
          stream,            \* the memory of the stream: "none", "live" or "freed"
          running, invalidated_sent,  \* the flags of the stream
          registered,        \* the HAL knows the listener
          queue, queued,     \* state of the audio queue, buffers enqueued in it
          lost,              \* buffers whose enqueue failed
          handle, answer,    \* the owner's handle is not 0; what its last call answered
          app, cb, hal       \* where the three threads are

buildVars == <<rate, ticks>>
flags == <<running, invalidated_sent>>
queueVars == <<queue, queued, lost>>
owner == <<handle, answer>>
vars == <<is_input, buildVars, stream, flags, registered, queueVars, owner, app, cb, hal>>

RateSteps == {"rate", "rateSet", "ratePoll"}
BuildSteps == RateSteps \cup {"new", "device", "listen", "pool", "prime"}
CloseSteps == {"closeListener", "closeStop", "closeWait", "closeRelease"}
AppSteps == BuildSteps \cup CloseSteps \cup {"idle", "playStart", "pauseQueue", "failed"}
CbSteps == {"idle", "test", "call", "data", "enqueue", "error"}
HalSteps == {"idle", "check", "mark", "stop", "report", "stray"}

TypeOK == /\ is_input \in BOOLEAN
          /\ rate \in BOOLEAN /\ ticks \in 0..Deadline
          /\ stream \in {"none", "live", "freed"}
          /\ running \in BOOLEAN /\ invalidated_sent \in BOOLEAN /\ registered \in BOOLEAN
          /\ queue \in {"none", "paused", "running", "stopping", "disposed"}
          /\ queued \in 0..Buffers /\ lost \in 0..Buffers
          /\ handle \in BOOLEAN /\ answer \in {"none", "playing", "paused", "closed", "error"}
          /\ app \in AppSteps /\ cb \in CbSteps /\ hal \in HalSteps

(* Only the build of an input stream sets the sample rate first. *)
Init == /\ is_input \in BOOLEAN
        /\ rate \in BOOLEAN /\ ticks = 0
        /\ stream = "none"
        /\ running = FALSE /\ invalidated_sent = FALSE /\ registered = FALSE
        /\ queue = "none" /\ queued = 0 /\ lost = 0
        /\ handle = FALSE /\ answer = "none"
        /\ app = IF is_input THEN "rate" ELSE "new"
        /\ cb = "idle" /\ hal = "idle"

-----------------------------------------------------------------------------
(* The application thread: moon_cpal_ca_set_nominal_sample_rate.           *)

AppAt(from, to) == app = from /\ app' = to /\ UNCHANGED <<is_input, cb>>
RateKeeps == UNCHANGED <<rate, stream, flags, registered, queueVars, handle, hal>>

(* Any of its calls may fail, a rate the device does not list is refused,  *)
(* and the build ends there.                                               *)
RateFails == \E from \in RateSteps :
               AppAt(from, "failed") /\ answer' = "error" /\ RateKeeps /\ UNCHANGED ticks

(* Nothing to do when the device already runs at the rate. *)
RateRead == AppAt("rate", IF rate THEN "new" ELSE "rateSet") /\ RateKeeps /\ UNCHANGED <<answer, ticks>>

(* Ask for the rate; the device takes it later, or never. *)
RateSet == AppAt("rateSet", "ratePoll") /\ RateKeeps /\ UNCHANGED <<answer, ticks>>

(* Deviation: poll without a deadline. *)
RatePollOnly == rate /\ AppAt("ratePoll", "new") /\ RateKeeps /\ UNCHANGED <<answer, ticks>>

(* Poll until the rate is there or the deadline has passed, the rate first.*)
RatePoll == \/ rate /\ AppAt("ratePoll", "new") /\ RateKeeps /\ UNCHANGED <<answer, ticks>>
            \/ /\ ~rate /\ ticks = Deadline
               /\ AppAt("ratePoll", "failed") /\ answer' = "error"
               /\ RateKeeps /\ UNCHANGED ticks

(* The clock, and the device, whose rate anyone may change. *)
Tick == /\ app = "ratePoll" /\ ticks < Deadline /\ ticks' = ticks + 1
        /\ UNCHANGED <<is_input, rate, stream, flags, registered, queueVars, owner, app, cb, hal>>
DeviceRate == /\ app \in RateSteps /\ rate' = ~rate
              /\ UNCHANGED <<is_input, ticks, stream, flags, registered, queueVars, owner, app, cb, hal>>

-----------------------------------------------------------------------------
(* The application thread: the build.                                      *)

BuildAt(from, to) == AppAt(from, to) /\ UNCHANGED <<buildVars, flags, lost, hal>>

(* The stream and its queue. *)
New == /\ BuildAt("new", "device")
       /\ stream' = "live" /\ queue' = "paused"
       /\ UNCHANGED <<registered, queued, owner>>

SetDevice == BuildAt("device", "listen") /\ UNCHANGED <<stream, registered, queue, queued, owner>>

Listen == /\ BuildAt("listen", "pool")
          /\ registered' = TRUE
          /\ UNCHANGED <<stream, queue, queued, owner>>

(* The sizes of the callback buffers, and their memory. *)
Pool == BuildAt("pool", "prime") /\ UNCHANGED <<stream, registered, queue, queued, owner>>

(* Deviation: one buffer too many. *)
PrimeMore == /\ BuildAt("prime", IF queued = Buffers THEN "idle" ELSE "prime")
             /\ queued' = queued + 1
             /\ handle' = (queued = Buffers)
             /\ UNCHANGED <<stream, registered, queue, answer>>

(* One buffer is allocated and enqueued, silent for playback since running *)
(* is 0; after the last one the stream is handed out.                      *)
Prime == /\ BuildAt("prime", IF queued + 1 = Buffers THEN "idle" ELSE "prime")
         /\ queued' = queued + 1
         /\ handle' = (queued + 1 = Buffers)
         /\ UNCHANGED <<stream, registered, queue, answer>>

(* Each of these may fail: the queue is disposed, the stream freed.  A     *)
(* listener stays registered.                                              *)
BuildFails == /\ \E from \in {"new", "device", "listen", "pool", "prime"} : BuildAt(from, "failed")
              /\ stream' = "freed"
              /\ queue' = IF queue = "none" THEN "none" ELSE "disposed"
              /\ queued' = 0
              /\ answer' = "error"
              /\ UNCHANGED <<registered, handle>>

-----------------------------------------------------------------------------
(* The application thread: play, pause and close on the owner.             *)

OwnerAt(from, to) == AppAt(from, to) /\ UNCHANGED <<buildVars, invalidated_sent>>

PlayStore == /\ handle /\ OwnerAt("idle", "playStart")
             /\ running' = TRUE
             /\ UNCHANGED <<stream, registered, queueVars, owner, hal>>

PlayStart == /\ OwnerAt("playStart", "idle")
             /\ queue' = "running" /\ answer' = "playing"
             /\ UNCHANGED <<stream, running, registered, queued, lost, handle, hal>>
PlayFails == /\ OwnerAt("playStart", "idle") /\ answer' = "error"
             /\ UNCHANGED <<stream, running, registered, queueVars, handle, hal>>

PauseStore == /\ handle /\ OwnerAt("idle", "pauseQueue")
              /\ running' = FALSE
              /\ UNCHANGED <<stream, registered, queueVars, owner, hal>>
PauseQueue == /\ OwnerAt("pauseQueue", "idle")
              /\ queue' = "paused" /\ answer' = "paused"
              /\ UNCHANGED <<stream, running, registered, queued, lost, handle, hal>>
PauseFails == /\ OwnerAt("pauseQueue", "idle") /\ answer' = "error"
              /\ UNCHANGED <<stream, running, registered, queueVars, handle, hal>>

(* Deviation: destroy leaves the listener registered, as a failed build    *)
(* does.                                                                   *)
CloseNoListener == /\ handle /\ OwnerAt("idle", "closeStop")
                   /\ UNCHANGED <<stream, running, registered, queueVars, owner, hal>>

(* close, or the finalizer of the owner: the listener is removed, then the *)
(* queue stopped, both waiting for what is in flight; running stays.       *)
Close == /\ handle /\ OwnerAt("idle", "closeListener")
         /\ registered' = FALSE
         /\ UNCHANGED <<stream, running, queueVars, owner, hal>>

CloseListener == /\ hal = "idle" /\ OwnerAt("closeListener", "closeStop")
                 /\ UNCHANGED <<stream, running, registered, queueVars, owner, hal>>
CloseStop == /\ OwnerAt("closeStop", "closeWait")
             /\ queue' = "stopping"
             /\ UNCHANGED <<stream, running, registered, queued, lost, owner, hal>>

(* Deviation: the stop is not synchronous. *)
CloseNoWait == /\ OwnerAt("closeWait", "closeRelease")
               /\ queue' = "disposed" /\ queued' = 0
               /\ UNCHANGED <<stream, running, registered, lost, owner, hal>>

CloseWait == /\ cb = "idle" /\ OwnerAt("closeWait", "closeRelease")
             /\ queue' = "disposed" /\ queued' = 0
             /\ UNCHANGED <<stream, running, registered, lost, owner, hal>>
CloseRelease == /\ OwnerAt("closeRelease", "idle")
                /\ stream' = "freed" /\ handle' = FALSE /\ answer' = "closed"
                /\ UNCHANGED <<running, registered, queueVars, hal>>

(* play and pause on a closed owner fail, close again does nothing. *)
ClosedOwner == /\ ~handle /\ OwnerAt("idle", "idle")
               /\ answer' \in {"error", "closed"}
               /\ UNCHANGED <<stream, running, registered, queueVars, handle, hal>>

BuildStep == RateRead \/ RateSet \/ RatePoll \/ New \/ SetDevice \/ Listen \/ Pool \/ Prime
Build == BuildStep \/ RateFails \/ BuildFails
Call == PlayStore \/ PauseStore \/ Close \/ ClosedOwner
CallContinue == PlayStart \/ PlayFails \/ PauseQueue \/ PauseFails \/ CloseListener \/ CloseStop
                  \/ CloseWait \/ CloseRelease
App == Build \/ Call \/ CallContinue

-----------------------------------------------------------------------------
(* The thread of the audio queue.                                          *)

CbKeeps == UNCHANGED <<is_input, buildVars, stream, flags, registered, queue, owner, app, hal>>
CbAt(from, to) == cb = from /\ cb' = to /\ CbKeeps

(* The queue has played or filled a buffer. *)
QueueCall == /\ queue = "running" /\ queued > 0 /\ CbAt("idle", "test")
             /\ queued' = queued - 1
             /\ UNCHANGED lost

(* Deviation: a callback that finds the stream paused keeps its buffer. *)
CbTestKeep == /\ CbAt("test", IF running THEN "call" ELSE "idle")
              /\ UNCHANGED <<queued, lost>>

(* A stopped stream gets silence, or has its recording dropped. *)
CbTest == /\ CbAt("test", IF running THEN "call" ELSE "enqueue")
          /\ UNCHANGED <<queued, lost>>

(* An input queue that is being stopped hands out its buffers empty. *)
CbEmpty == /\ is_input /\ queue = "stopping" /\ CbAt("test", "enqueue")
           /\ UNCHANGED <<queued, lost>>

Data == CbAt("call", "data") /\ UNCHANGED <<queued, lost>>
DataReturn == CbAt("data", "enqueue") /\ UNCHANGED <<queued, lost>>

Enqueue == /\ queue # "stopping" /\ CbAt("enqueue", "idle")
           /\ queued' = queued + 1
           /\ UNCHANGED lost

(* Refused: not reported while the queue is being stopped. *)
EnqueueRefused == queue = "stopping" /\ CbAt("enqueue", "idle") /\ UNCHANGED <<queued, lost>>

(* Deviation: no enqueue error is reported. *)
EnqueueFailsQuietly == CbAt("enqueue", "idle") /\ UNCHANGED <<queued, lost>>

(* Any other error is reported, and the buffer is gone. *)
EnqueueFails == /\ CbAt("enqueue", "error")
                /\ lost' = lost + 1
                /\ UNCHANGED queued
ErrorReturn == CbAt("error", "idle") /\ UNCHANGED <<queued, lost>>

CbStep == CbTest \/ CbEmpty \/ Data \/ DataReturn \/ Enqueue \/ EnqueueRefused \/ EnqueueFails
            \/ ErrorReturn

-----------------------------------------------------------------------------
(* The thread of the HAL.                                                  *)

HalKeeps == UNCHANGED <<is_input, buildVars, stream, registered, queueVars, owner, app, cb>>
HalAt(from, to) == hal = from /\ hal' = to /\ HalKeeps

(* The device was lost, or came back: any number of times. *)
Notify == stream = "live" /\ registered /\ HalAt("idle", "check") /\ UNCHANGED flags

(* Only the first notification stops the stream and is reported. *)
HalCheck == /\ stream = "live" /\ HalAt("check", IF invalidated_sent THEN "idle" ELSE "mark")
            /\ UNCHANGED flags

(* Deviation: the stream is stopped first, and marked only then. *)
HalMarkLate == /\ stream = "live" /\ HalAt("mark", "stop")
               /\ running' = FALSE
               /\ UNCHANGED invalidated_sent

HalMark == /\ stream = "live" /\ HalAt("mark", "stop")
           /\ invalidated_sent' = TRUE
           /\ UNCHANGED running
HalStop == /\ stream = "live" /\ HalAt("stop", "report")
           /\ running' = FALSE
           /\ UNCHANGED invalidated_sent
ReportReturn == stream = "live" /\ HalAt("report", "idle") /\ UNCHANGED flags

(* The listener that a failed build left behind is called for a stream     *)
(* that is gone, or is overtaken by the failure: what it does is undefined.*)
Stray == /\ stream = "freed" /\ (registered \/ hal # "idle")
         /\ hal # "stray" /\ hal' = "stray"
         /\ HalKeeps /\ UNCHANGED flags

HalStep == HalCheck \/ HalMark \/ HalStop \/ ReportReturn

Next == App \/ Tick \/ DeviceRate \/ QueueCall \/ CbStep \/ Notify \/ HalStep \/ Stray

Spec == Init /\ [][Next]_vars

(* The operating system runs the three threads and the clock, the user's   *)
(* callbacks return.  Nobody need call the owner, the device need not take *)
(* a sample rate nor the queue ever call back.                             *)
FairSpec == Spec /\ WF_vars(BuildStep) /\ WF_vars(CallContinue) /\ WF_vars(Tick)
                 /\ WF_vars(CbStep) /\ WF_vars(HalStep)

-----------------------------------------------------------------------------
(* Properties.                                                             *)

(* The callbacks of the queue keep the contract of StreamContract, with    *)
(* the listener's invalidation for a pause: a round begins with the        *)
(* callback's look at running, or with the stop of the queue just before.  *)
(* (The listener's own error callback runs on the HAL's thread and may     *)
(* overlap them.)                                                          *)
Mode == IF app \in {"closeWait", "closeRelease"} THEN "closing"
        ELSE IF app = "idle" /\ ~handle THEN "closed"
        ELSE IF running THEN "playing" ELSE "idle"
Round == CASE cb = "test" /\ queue = "stopping" /\ running -> "due"
           [] cb = "call" -> "due"
           [] cb \in {"data", "error"} -> "served"
           [] OTHER -> "none"
Busy == IF cb \in {"data", "error"} THEN cb ELSE "none"

Contract == INSTANCE StreamContract WITH mode <- Mode, round <- Round, busy <- Busy

KeepsContract == Contract!CSpec

(* The stream is freed only when no callback of the queue and no call of   *)
(* the listener is in flight or can come: but for the listener that a      *)
(* failed build leaves behind.                                             *)
ReleasedUnused == stream = "freed" => /\ cb = "idle" /\ ~handle
                                      /\ (hal = "idle" /\ ~registered) \/ app = "failed"

(* No buffer leaves the circle of the queue and its callback unreported,   *)
(* paused or playing, across invalidations and failed starts: a stream     *)
(* cannot starve without as many errors as it had buffers.                 *)
BuffersAccounted == handle /\ queue \in {"paused", "running"} =>
                      queued + lost + (IF cb \in {"idle", "error"} THEN 0 ELSE 1) = Buffers

(* A stream that answered success to play and yet does not run has been    *)
(* invalidated: the user is told, or is about to be.                       *)
SilentMeansTold == answer = "playing" /\ app = "idle" /\ handle /\ ~running => invalidated_sent

(* The build ends, even if the device never takes the sample rate, and     *)
(* close ends.                                                             *)
CallsReturn == (app \in BuildSteps \cup CloseSteps) ~> (app \in {"idle", "failed"})

(* A stream that is left playing and still has a buffer keeps calling its  *)
(* data callback for as long as the queue calls back.                      *)
KeepsPlaying == WF_vars(QueueCall) /\ <>[](running /\ queue = "running" /\ app = "idle" /\ lost < Buffers)
                  => []<>(cb = "data")
=============================================================================
