---------------------------- MODULE WasapiStream ----------------------------
(***************************************************************************)
(* One WASAPI stream (wasapi/wasapi_stream.c), from the call that builds   *)
(* it to the one that closes it: the application thread, the worker thread *)
(* of wasapi_thread_main, which opens the device itself and tells the      *)
(* builder how that went, and the audio engine.                            *)
(*                                                                         *)
(* A step is one access to a shared flag, one wait, one signal or one call *)
(* of the audio client.  Steps of the build that only this thread can see  *)
(* are one step with the first that others can.  The events are auto-reset:*)
(* a wait that a signal ends clears it.                                    *)
(*                                                                         *)
(* A definition marked "Deviation" is not the code: it is a mistake the    *)
(* definition after it could have had, and shows which property notices.   *)
(***************************************************************************)
EXTENDS Integers

CONSTANTS FramesPerCb,  \* frames of one data callback
          BufferFrames  \* buffer_frame_count, frames of the engine's buffer

ASSUME WasapiAssumption == /\ FramesPerCb \in Nat \ {0}
                           /\ BufferFrames \in Nat
                           /\ FramesPerCb <= BufferFrames

VARIABLES is_input,      \* capture or playback
          running, closed, initialized, started,  \* the interlocked flags
          init_failed,   \* init_hr is a failure
          held,          \* what the build has acquired and nothing has released
          wake, audio,   \* the two events are signalled
          audio_event,   \* the stream's pointer to the audio event is not NULL
          handle, ret, app,
          worker,
          streaming,     \* the audio client was started and not stopped
          frames,        \* in the engine: frames to play, or recorded and not fetched
          accum,         \* cap_accum_frames, frames of the callback buffer that are filled
          to_copy,       \* frames of the fetched packet still to copy
          late           \* data callbacks begun since pause returned, up to 2

flags == <<running, closed, initialized, started>>
owner == <<handle, ret, app>>
engine == <<streaming, frames>>
vars == <<is_input, flags, init_failed, held, wake, audio, audio_event, owner, worker,
          engine, accum, to_copy, late>>

Resources == {"callbacks", "endpoint", "wake", "thread", "com", "objects", "event", "buffer"}
BuildSteps == {"new", "newFailed", "createEvent", "createThread", "threadError", "awaitInit",
               "awaitWake"}
CloseSteps == {"closeStore", "closeWake", "closeLook", "closeSignal", "closeJoin", "closeRelease"}
AppSteps == {"idle", "wake"} \cup BuildSteps \cup CloseSteps
OpenSteps == {"comInit", "device", "staleError", "default", "activate", "makeEvent",
              "service", "initMark", "initWake"}
FailSteps == {"initError", "failHr", "failMark", "failWake"}
LoopSteps == {"loop", "testRunning", "nap", "start", "startError", "startFailed", "waitAudio",
              "padding", "put", "look", "copy", "ioError", "data"}
ExitSteps == {"stop", "closeEvent", "clearEvent", "release", "exited"}
WorkerSteps == {"none"} \cup OpenSteps \cup FailSteps \cup LoopSteps \cup ExitSteps

TypeOK == /\ is_input \in BOOLEAN /\ init_failed \in BOOLEAN
          /\ running \in BOOLEAN /\ closed \in BOOLEAN
          /\ initialized \in BOOLEAN /\ started \in BOOLEAN
          /\ held \subseteq Resources
          /\ wake \in BOOLEAN /\ audio \in BOOLEAN /\ audio_event \in BOOLEAN
          /\ handle \in BOOLEAN /\ ret \in {"ok", "error"}
          /\ app \in AppSteps /\ worker \in WorkerSteps
          /\ streaming \in BOOLEAN
          /\ frames \in 0..BufferFrames
          /\ accum \in 0..FramesPerCb
          /\ to_copy \in 0..BufferFrames
          /\ late \in 0..2

(* The build is called with its callbacks and a device. *)
Init == /\ is_input \in BOOLEAN
        /\ running = FALSE /\ closed = FALSE /\ initialized = FALSE /\ started = FALSE
        /\ init_failed = FALSE
        /\ held = {"callbacks", "endpoint"}
        /\ wake = FALSE /\ audio = FALSE /\ audio_event = FALSE
        /\ handle = FALSE /\ ret = "ok" /\ app = "new" /\ worker = "none"
        /\ streaming = FALSE /\ frames = 0
        /\ accum = 0 /\ to_copy = 0 /\ late = 0

-----------------------------------------------------------------------------
(* The application thread builds the stream.                               *)

AppKeeps == UNCHANGED <<is_input, initialized, started, init_failed, audio_event, engine,
                        accum, to_copy>>
AppAt(from, to) == app = from /\ app' = to /\ AppKeeps
BuildAt(from, to) == AppAt(from, to) /\ UNCHANGED <<running, closed, audio, handle, late>>

New == /\ BuildAt("new", "createEvent")
       /\ UNCHANGED <<held, wake, ret, worker>>

(* No memory: the callbacks are released, the endpoint id is not. *)
NewFails == BuildAt("new", "newFailed") /\ ret' = "error" /\ UNCHANGED <<held, wake, worker>>
NewRelease == /\ BuildAt("newFailed", "idle")
              /\ held' = held \ {"callbacks"}
              /\ UNCHANGED <<wake, ret, worker>>

CreateEvent == /\ BuildAt("createEvent", "createThread")
               /\ held' = held \cup {"wake"}
               /\ UNCHANGED <<wake, ret, worker>>
CreateEventFails == /\ BuildAt("createEvent", "closeStore") /\ ret' = "error"
                    /\ UNCHANGED <<held, wake, worker>>

CreateThread == /\ BuildAt("createThread", "awaitInit")
                /\ held' = held \cup {"thread"} /\ worker' = "comInit"
                /\ UNCHANGED <<wake, ret>>

(* No thread: the error callback is called from the build itself. *)
CreateThreadFails == /\ BuildAt("createThread", "threadError") /\ ret' = "error"
                     /\ UNCHANGED <<held, wake, worker>>
ThreadErrorReturn == BuildAt("threadError", "closeStore") /\ UNCHANGED <<held, wake, ret, worker>>

(* Poll initialized, waiting for the wake event in between; then hand out  *)
(* the stream, or destroy it.                                              *)
AwaitInit == \/ /\ ~initialized /\ BuildAt("awaitInit", "awaitWake")
                /\ UNCHANGED <<held, wake, ret, worker>>
             \/ /\ initialized /\ init_failed /\ BuildAt("awaitInit", "closeStore")
                /\ ret' = "error"
                /\ UNCHANGED <<held, wake, worker>>
             \/ /\ initialized /\ ~init_failed /\ AppAt("awaitInit", "idle")
                /\ handle' = TRUE
                /\ UNCHANGED <<running, closed, audio, held, wake, ret, worker, late>>
AwaitWake == /\ BuildAt("awaitWake", "awaitInit") /\ wake' = FALSE
             /\ UNCHANGED <<held, ret, worker>>

-----------------------------------------------------------------------------
(* The application thread plays, pauses and closes it.                     *)

OwnerAt(from, to) == AppAt(from, to) /\ UNCHANGED <<held, handle, worker>>

PlayStore == /\ handle /\ OwnerAt("idle", "wake")
             /\ running' = TRUE
             /\ UNCHANGED <<closed, audio, wake, ret, late>>
PauseStore == /\ handle /\ OwnerAt("idle", "wake")
              /\ running' = FALSE
              /\ UNCHANGED <<closed, audio, wake, ret, late>>
Wake == /\ OwnerAt("wake", "idle") /\ ret' = "ok"
        /\ wake' = TRUE /\ late' = 0
        /\ UNCHANGED <<running, closed, audio>>

Close == /\ handle /\ OwnerAt("idle", "closeStore")
         /\ UNCHANGED <<running, closed, audio, wake, ret, late>>

(* destroy, of a stream that was built or of one that could not be:        *)
(* closed = 1, signal both events, wait for the worker, release the rest.  *)
CloseAt(from, to) == OwnerAt(from, to) /\ UNCHANGED <<running, ret, late>>

CloseStore == /\ CloseAt("closeStore", "closeWake")
              /\ closed' = TRUE
              /\ UNCHANGED <<audio, wake>>
CloseWake == /\ CloseAt("closeWake", "closeLook")
             /\ wake' = (wake \/ "wake" \in held)
             /\ UNCHANGED <<closed, audio>>

(* The pointer to the audio event is read, then the event is signalled:    *)
(* nothing happens if the worker has closed it in between.                 *)
CloseLook == /\ CloseAt("closeLook", IF audio_event THEN "closeSignal" ELSE "closeJoin")
             /\ UNCHANGED <<closed, audio, wake>>
CloseSignal == /\ CloseAt("closeSignal", "closeJoin")
               /\ audio' = (audio \/ "event" \in held)
               /\ UNCHANGED <<closed, wake>>

(* Deviation: destroy does not wait for the worker. *)
CloseNoJoin == CloseAt("closeJoin", "closeRelease") /\ UNCHANGED <<closed, audio, wake>>

CloseJoin == /\ CloseAt("closeJoin", "closeRelease")
             /\ "thread" \in held => worker = "exited"
             /\ UNCHANGED <<closed, audio, wake>>
CloseRelease == /\ AppAt("closeRelease", "idle")
                /\ held' = held \ {"thread", "wake", "callbacks", "buffer", "endpoint"}
                /\ wake' = FALSE
                /\ handle' = FALSE /\ ret' = IF handle THEN "ok" ELSE ret
                /\ UNCHANGED <<running, closed, audio, worker, late>>

(* Without a stream play and pause fail, close succeeds. *)
ClosedOwner == /\ ~handle /\ OwnerAt("idle", "idle")
               /\ UNCHANGED <<running, closed, audio, wake, late>>
CallClosed == ClosedOwner /\ ret' = "error"
CloseAgain == ClosedOwner /\ ret' = "ok"

AppContinue == \/ New \/ NewFails \/ NewRelease \/ CreateEvent \/ CreateEventFails
               \/ CreateThread \/ CreateThreadFails \/ ThreadErrorReturn
               \/ AwaitInit \/ AwaitWake \/ Wake
               \/ CloseStore \/ CloseWake \/ CloseLook \/ CloseSignal
               \/ CloseJoin \/ CloseRelease

App == PlayStore \/ PauseStore \/ Close \/ CallClosed \/ CloseAgain \/ AppContinue

-----------------------------------------------------------------------------
(* The worker thread opens the device.                                     *)

WorkerKeeps == UNCHANGED <<is_input, closed, owner>>
WorkerAt(from, to) == worker = from /\ worker' = to /\ WorkerKeeps
OpenAt(from, to) == /\ WorkerAt(from, to)
                    /\ UNCHANGED <<running, started, engine, accum, to_copy, late>>
SameEvents == UNCHANGED <<wake, audio, audio_event>>
OpenQuiet == UNCHANGED <<initialized, init_failed>> /\ SameEvents

ComInit == /\ OpenAt("comInit", "device") /\ OpenQuiet
           /\ held' = held \cup {"com"}
ComInitFails == OpenAt("comInit", "initError") /\ OpenQuiet /\ UNCHANGED held

(* The device enumerator, then the device; a device that is gone is        *)
(* reported and the default one is tried.                                  *)
Device == OpenAt("device", "activate") /\ OpenQuiet /\ held' = held \cup {"objects"}
DeviceStale == OpenAt("device", "staleError") /\ OpenQuiet /\ held' = held \cup {"objects"}
DeviceFails == /\ OpenAt("device", "initError") /\ OpenQuiet
               /\ held' \in {held, held \cup {"objects"}}
StaleReturn == OpenAt("staleError", "default") /\ OpenQuiet /\ UNCHANGED held
Default == OpenAt("default", "activate") /\ OpenQuiet /\ UNCHANGED held
DefaultFails == OpenAt("default", "initError") /\ OpenQuiet /\ UNCHANGED held

(* The audio client, its format and sizes, the callback buffer; a size or  *)
(* a buffer that cannot be had is not reported.                            *)
Activate == OpenAt("activate", "makeEvent") /\ OpenQuiet /\ held' = held \cup {"buffer"}
ActivateFails == \/ OpenAt("activate", "initError") /\ OpenQuiet /\ UNCHANGED held
                 \/ OpenAt("activate", "failHr") /\ OpenQuiet /\ UNCHANGED held

MakeEvent == /\ OpenAt("makeEvent", "service")
             /\ held' = held \cup {"event"} /\ audio_event' = TRUE
             /\ UNCHANGED <<wake, audio, initialized, init_failed>>
MakeEventFails == OpenAt("makeEvent", "failHr") /\ OpenQuiet /\ UNCHANGED held

Service == OpenAt("service", "initMark") /\ OpenQuiet /\ UNCHANGED held
ServiceFails == OpenAt("service", "initError") /\ OpenQuiet /\ UNCHANGED held

InitMark == /\ OpenAt("initMark", "initWake")
            /\ initialized' = TRUE
            /\ UNCHANGED <<init_failed, held>> /\ SameEvents
InitWake == /\ OpenAt("initWake", "loop")
            /\ wake' = TRUE
            /\ UNCHANGED <<initialized, init_failed, audio, audio_event, held>>

(* A failure is reported, kept in init_hr, and then announced.             *)
InitErrorReturn == OpenAt("initError", "failHr") /\ OpenQuiet /\ UNCHANGED held

FailHr == /\ OpenAt("failHr", "failMark")
          /\ init_failed' = TRUE
          /\ UNCHANGED <<initialized, held>> /\ SameEvents

(* Deviation: a failure is not announced. *)
FailNoMark == OpenAt("failMark", "failWake") /\ OpenQuiet /\ UNCHANGED held

FailMark == /\ OpenAt("failMark", "failWake")
            /\ initialized' = TRUE
            /\ UNCHANGED <<init_failed, held>> /\ SameEvents

(* Deviation: the audio event is not closed after a failure. *)
FailWakeOnly == /\ OpenAt("failWake", "release")
                /\ wake' = TRUE
                /\ UNCHANGED <<initialized, init_failed, audio, audio_event, held>>

FailWake == /\ OpenAt("failWake", IF audio_event THEN "closeEvent" ELSE "release")
            /\ wake' = TRUE
            /\ UNCHANGED <<initialized, init_failed, audio, audio_event, held>>

Opening == \/ ComInit \/ ComInitFails \/ Device \/ DeviceStale \/ DeviceFails \/ StaleReturn
           \/ Default \/ DefaultFails \/ Activate \/ ActivateFails \/ MakeEvent \/ MakeEventFails
           \/ Service \/ ServiceFails \/ InitMark \/ InitWake
           \/ InitErrorReturn \/ FailHr \/ FailMark \/ FailWake

-----------------------------------------------------------------------------
(* The worker thread serves the stream.                                    *)

LoopAt(from, to) == /\ WorkerAt(from, to)
                    /\ UNCHANGED <<initialized, init_failed, held, audio_event>>
RunAt(from, to) == LoopAt(from, to) /\ UNCHANGED <<running, started, wake, streaming>>
Frames == <<frames, accum, to_copy, late>>
Goes(from, to) == RunAt(from, to) /\ UNCHANGED <<audio, Frames>>

(* A data callback that begins after pause returned is a late one. *)
Serve(from) == /\ RunAt(from, "data")
               /\ late' = IF ~running /\ app = "idle" /\ late < 2 THEN late + 1 ELSE late

Loop == Goes("loop", IF closed THEN "stop" ELSE "testRunning")

(* Deviation: a paused stream is not stopped. *)
TestRunningNoStop == Goes("testRunning", IF ~running THEN "nap"
                                         ELSE IF started THEN "waitAudio" ELSE "start")

(* Paused: stop the client and wait for the wake event or 10 ms.  Playing: *)
(* start it if need be.                                                    *)
TestRunning == \/ /\ running
                  /\ Goes("testRunning", IF started THEN "waitAudio" ELSE "start")
               \/ /\ ~running /\ LoopAt("testRunning", "nap")
                  /\ started' = FALSE /\ streaming' = (streaming /\ ~started)
                  /\ UNCHANGED <<running, wake, audio, Frames>>
Nap == /\ LoopAt("nap", "loop") /\ wake' = FALSE
       /\ UNCHANGED <<running, started, audio, streaming, Frames>>

Start == /\ LoopAt("start", "waitAudio")
         /\ started' = TRUE /\ streaming' = TRUE
         /\ UNCHANGED <<running, wake, audio, Frames>>

(* A start that fails is reported, and pauses the stream.                  *)
StartFails == Goes("start", "startError")
StartErrorReturn == Goes("startError", "startFailed")
StartFailed == /\ LoopAt("startFailed", "loop") /\ running' = FALSE
               /\ UNCHANGED <<started, wake, audio, streaming, Frames>>

(* Wait for the engine, a second at most. *)
WaitAudio == \/ audio /\ RunAt("waitAudio", IF is_input THEN "look" ELSE "padding")
                /\ audio' = FALSE /\ UNCHANGED Frames
             \/ ~audio /\ Goes("waitAudio", "loop")

(* Deviation: the frames queued are taken for the frames free. *)
PaddingSwapped == IF frames < FramesPerCb THEN Goes("padding", "loop")
                  ELSE Serve("padding") /\ UNCHANGED <<audio, frames, accum, to_copy>>

(* Playback: a callback if the engine has room for its frames. *)
Padding == IF BufferFrames - frames < FramesPerCb THEN Goes("padding", "loop")
           ELSE Serve("padding") /\ UNCHANGED <<audio, frames, accum, to_copy>>
PaddingFails == Goes("padding", "ioError")

(* Deviation: playback goes back to the engine without a look at running. *)
PutAgain == /\ RunAt("put", "waitAudio")
            /\ frames' = frames + FramesPerCb
            /\ UNCHANGED <<audio, accum, to_copy, late>>

Put == /\ RunAt("put", "loop")
       /\ frames' = frames + FramesPerCb
       /\ UNCHANGED <<audio, accum, to_copy, late>>
PutFails == Goes("put", "ioError")

(* Capture: fetch packets until there is none, whatever closed and running *)
(* say meanwhile.                                                          *)
DrainDone == frames = 0 /\ Goes("look", "loop")
LookFails == Goes("look", "loop")
Fetch(n) == /\ RunAt("look", "copy")
            /\ n <= frames
            /\ to_copy' = n /\ frames' = frames - n
            /\ UNCHANGED <<audio, accum, late>>
FetchFails == frames > 0 /\ Goes("look", "ioError")

(* Deviation: a packet is copied whole. *)
CopyWhole == /\ to_copy > 0 /\ to_copy' = 0 /\ accum' = accum + to_copy
             /\ IF accum' = FramesPerCb THEN Serve("copy")
                ELSE RunAt("copy", "copy") /\ UNCHANGED late
             /\ UNCHANGED <<audio, frames>>

(* Copy as much of the packet as the callback buffer takes; call back when *)
(* that is full.                                                           *)
Copy == /\ to_copy > 0
        /\ LET room == FramesPerCb - accum
               n == IF to_copy < room THEN to_copy ELSE room
           IN accum' = accum + n /\ to_copy' = to_copy - n
        /\ IF accum' = FramesPerCb THEN Serve("copy")
           ELSE RunAt("copy", "copy") /\ UNCHANGED late
        /\ UNCHANGED <<audio, frames>>

DataReturn == /\ RunAt("data", IF is_input THEN "copy" ELSE "put")
              /\ accum' = IF is_input THEN 0 ELSE accum
              /\ UNCHANGED <<audio, frames, to_copy, late>>

(* The packet is given back. *)
Release == to_copy = 0 /\ Goes("copy", "look")
ReleaseFails == to_copy = 0 /\ Goes("copy", "ioError")

IoErrorReturn == Goes("ioError", "loop")

(* Closed: stop the client, close the event, release the objects.  The way *)
(* out of a failed opening joins at the event, or at the objects.  The     *)
(* code ignores what Stop answers; it is taken to stop the client.         *)
ExitAt(from, to) == /\ WorkerAt(from, to)
                    /\ UNCHANGED <<running, started, initialized, init_failed, wake, Frames>>
Stop == /\ ExitAt("stop", "closeEvent") /\ streaming' = FALSE
        /\ UNCHANGED <<held, audio, audio_event>>
CloseEvent == /\ ExitAt("closeEvent", "clearEvent")
              /\ held' = held \ {"event"} /\ audio' = FALSE
              /\ UNCHANGED <<audio_event, streaming>>
ClearEvent == /\ ExitAt("clearEvent", "release") /\ audio_event' = FALSE
              /\ UNCHANGED <<held, audio, streaming>>
ReleaseObjects == /\ ExitAt("release", "exited")
                  /\ held' = held \ {"objects", "com"}
                  /\ UNCHANGED <<audio, audio_event, streaming>>

WorkerStep == \/ Opening
              \/ Loop \/ TestRunning \/ Nap
              \/ Start \/ StartFails \/ StartErrorReturn \/ StartFailed
              \/ WaitAudio \/ Padding \/ Put
              \/ DrainDone \/ (\E n \in 1..BufferFrames : Fetch(n))
              \/ Copy \/ DataReturn \/ Release \/ IoErrorReturn
              \/ Stop \/ CloseEvent \/ ClearEvent \/ ReleaseObjects

Faults == PaddingFails \/ PutFails \/ LookFails \/ FetchFails \/ ReleaseFails

(* The engine plays frames or records them, and signals a period.          *)
Engine == /\ streaming
          /\ frames' \in IF is_input THEN (frames + 1)..BufferFrames \cup {BufferFrames}
                         ELSE 0..(frames - 1) \cup {0}
          /\ audio' = (audio \/ "event" \in held)
          /\ UNCHANGED <<is_input, flags, init_failed, held, wake, audio_event, owner, worker,
                         streaming, accum, to_copy, late>>

Next == App \/ WorkerStep \/ Faults \/ Engine

Spec == Init /\ [][Next]_vars

(* The operating system runs both threads, the calls of the audio client   *)
(* and the user's callbacks return.  Nobody need call the stream.          *)
FairSpec == Spec /\ WF_vars(AppContinue) /\ WF_vars(WorkerStep)

-----------------------------------------------------------------------------
(* Properties.                                                             *)

Mode == IF app = "newFailed" THEN "closing"
        ELSE IF app = "idle" /\ ~handle THEN "closed" ELSE IF closed THEN "closing"
        ELSE IF running THEN "playing" ELSE "idle"
Busy == IF worker = "data" THEN "data"
        ELSE IF worker \in {"initError", "staleError", "startError", "ioError"}
                \/ app = "threadError" THEN "error" ELSE "none"
Round == IF \/ worker \in {"start", "waitAudio", "padding", "look", "copy"}
            \/ worker = "testRunning" /\ closed /\ running THEN "due"
         ELSE IF worker \in {"data", "put"} \/ Busy = "error" THEN "served" ELSE "none"

Contract == INSTANCE StreamContract WITH mode <- Mode, round <- Round, busy <- Busy

(* Playback keeps the contract of StreamContract.  Capture serves a round  *)
(* in bursts: a callback for every buffer the packets in the queue fill.   *)
KeepsContract == /\ Contract!CInit
                 /\ [][Contract!CNext \/ (is_input /\ Contract!GoOn)]_(Contract!cvars)

(* What the worker uses is there while it runs: it is released, by destroy  *)
(* or by the worker, only after the worker's last use of it.               *)
ReleasedUnused ==
  /\ worker \notin {"none", "exited"} => {"callbacks", "endpoint", "wake", "thread"} \subseteq held
  /\ worker \in LoopSteps \cup {"initWake"} => {"com", "objects", "event", "buffer"} \subseteq held

(* Nothing is left behind, by close or by a build that failed at any step, *)
(* on either thread: but for the endpoint id, when there is no memory for  *)
(* the stream that would own it.                                           *)
NothingLeaked == app = "idle" /\ ~handle => /\ held = IF closed THEN {} ELSE {"endpoint"}
                                            /\ ~streaming /\ ~audio_event

(* A stream is handed out only if the worker opened the device, which then *)
(* stays open until close.                                                 *)
BuiltIsOpen == handle /\ ~closed => worker \in LoopSteps \cup {"initWake"}

(* A build hands out an open device or leaves nothing behind. *)
WholeOrNothing == NothingLeaked /\ BuiltIsOpen

(* The build and close always return.  The drain loop looks at neither     *)
(* flag, so close needs a worker that is faster than the engine.           *)
Drains == []<>(worker \notin {"look", "copy", "data"})
BuildReturns == app = "awaitInit" ~> app = "idle"
CloseReturns == Drains => (app = "closeWake" ~> app = "idle")
CallsReturn == BuildReturns /\ CloseReturns

(* A stream that is left paused stops its audio client. *)
PauseStops == Drains /\ <>[](~running /\ app = "idle") => <>[]~streaming

(* A stream that is left playing keeps calling its data callback, unless   *)
(* calls of the audio client keep failing.                                 *)
Healthy == /\ WF_vars(Engine) /\ SF_vars(\E n \in 1..BufferFrames : Fetch(n))
           /\ <>[](worker # "ioError")
KeepsPlaying == Healthy /\ <>[](running /\ ~closed /\ app = "idle") => []<>(worker = "data")

(* After pause at most one more data callback begins.                      *)
OneAfterPause == late <= 1
=============================================================================
