------------------------- MODULE WasapiStreamProofs -------------------------
(***************************************************************************)
(* Theorems about WasapiStream.                                            *)
(***************************************************************************)
EXTENDS WasapiStream, TLAPS

-----------------------------------------------------------------------------
(* The inductive invariant.                                                *)

BeforeThread == {"new", "newFailed", "createEvent", "createThread", "threadError"}
Closing == {"closeWake", "closeLook", "closeSignal", "closeJoin", "closeRelease"}
Gone == {"none", "exited"}
Serving == LoopSteps \cup {"initWake"}

(* How the builder, the owner's calls, the flags and the worker's life     *)
(* hang together.  A worker that announced success serves until close.     *)
Lifecycle ==
  /\ app \in BuildSteps => ~handle /\ ~closed /\ ~running
  /\ app \in BeforeThread => worker = "none"
  /\ app = "wake" => handle
  /\ app \in Closing => closed
  /\ closed => app \in Closing \/ (app = "idle" /\ ~handle)
  /\ app = "closeRelease" \/ (app = "idle" /\ ~handle) => worker \in Gone
  /\ handle => initialized /\ ~init_failed
  /\ worker = "failMark" => init_failed
  /\ initialized /\ ~init_failed => worker \in Serving \/ (closed /\ worker \in ExitSteps)

(* Who holds what, at every step of the build, the service and the ways    *)
(* out.                                                                    *)
Holdings ==
  /\ worker \notin Gone => {"callbacks", "endpoint", "wake", "thread"} \subseteq held
  /\ app \in {"new", "newFailed"} => held = {"callbacks", "endpoint"}
  /\ app \in {"createEvent", "createThread"} => {"callbacks", "endpoint"} \subseteq held
  /\ app = "createThread" => "wake" \in held
  /\ worker \in OpenSteps \cup LoopSteps /\ worker # "comInit" => "com" \in held
  /\ worker \in Serving \cup {"staleError", "default", "activate", "makeEvent", "service",
                             "initMark"} => "objects" \in held
  /\ worker \in Serving \cup {"makeEvent", "service", "initMark"} => "buffer" \in held
  /\ worker \in Serving \cup {"service", "initMark"} => "event" \in held
  /\ worker \in Gone => "com" \notin held /\ "objects" \notin held
  /\ worker \in Gone \cup {"clearEvent", "release"} => "event" \notin held
  /\ worker # "clearEvent" => (audio_event <=> "event" \in held)
  /\ worker \notin LoopSteps \cup {"stop"} => ~streaming
  /\ app = "idle" /\ ~handle => held = IF closed THEN {} ELSE {"endpoint"}

(* Playback calls back only with room for its frames in the engine.        *)
Room == /\ worker \in {"look", "copy"} => is_input
        /\ worker = "put" => ~is_input
        /\ worker \in {"data", "put"} /\ ~is_input => frames + FramesPerCb <= BufferFrames

IInv == TypeOK /\ Lifecycle /\ Holdings /\ Room

LEMMA InitOK == Init => IInv
<1> SUFFICES ASSUME Init PROVE IInv
  OBVIOUS
<1> USE DEF Init, BeforeThread, Closing, Gone, Serving, BuildSteps, OpenSteps, FailSteps,
        LoopSteps, ExitSteps
<1>1. TypeOK
  <2>1. /\ running \in BOOLEAN /\ closed \in BOOLEAN /\ initialized \in BOOLEAN
        /\ started \in BOOLEAN /\ init_failed \in BOOLEAN /\ wake \in BOOLEAN
        /\ audio \in BOOLEAN /\ audio_event \in BOOLEAN /\ handle \in BOOLEAN
        /\ streaming \in BOOLEAN
    OBVIOUS
  <2>2. app \in AppSteps /\ worker \in WorkerSteps BY DEF AppSteps, WorkerSteps
  <2>3. held \subseteq Resources BY DEF Resources
  <2>4. frames \in 0..BufferFrames /\ to_copy \in 0..BufferFrames /\ accum \in 0..FramesPerCb
    BY WasapiAssumption
  <2>5. is_input \in BOOLEAN /\ ret \in {"ok", "error"} /\ late \in 0..2 OBVIOUS
  <2>6. QED BY <2>1, <2>2, <2>3, <2>4, <2>5 DEF TypeOK
<1>2. Lifecycle BY DEF Lifecycle
<1>3. Holdings BY DEF Holdings
<1>4. Room BY DEF Room
<1>5. QED BY <1>1, <1>2, <1>3, <1>4 DEF IInv

LEMMA BuildKeepsIInv ==
  ASSUME IInv,
         New \/ NewFails \/ NewRelease \/ CreateEvent \/ CreateEventFails \/ CreateThread
         \/ CreateThreadFails \/ ThreadErrorReturn \/ AwaitInit \/ AwaitWake
  PROVE  IInv'
<1> USE WasapiAssumption DEF IInv, TypeOK, Lifecycle, Holdings, Room, Resources, BeforeThread,
        Closing, Gone, Serving, AppSteps, BuildSteps, CloseSteps, WorkerSteps, OpenSteps,
        FailSteps, LoopSteps, ExitSteps, BuildAt, AppAt, AppKeeps, engine
<1>1. CASE New BY <1>1 DEF New
<1>2. CASE NewFails BY <1>2 DEF NewFails
<1>3. CASE NewRelease BY <1>3 DEF NewRelease
<1>4. CASE CreateEvent BY <1>4 DEF CreateEvent
<1>5. CASE CreateEventFails BY <1>5 DEF CreateEventFails
<1>6. CASE CreateThread BY <1>6 DEF CreateThread
<1>7. CASE CreateThreadFails BY <1>7 DEF CreateThreadFails
<1>8. CASE ThreadErrorReturn BY <1>8 DEF ThreadErrorReturn
<1>9. CASE AwaitInit
  <2>1. TypeOK'
    <3>1. app' \in AppSteps /\ ret' \in {"ok", "error"} /\ handle' \in BOOLEAN
      BY <1>9 DEF AwaitInit
    <3>2. UNCHANGED <<is_input, flags, init_failed, held, wake, audio, audio_event,
                      worker, streaming, frames, accum, to_copy, late>>
      BY <1>9 DEF AwaitInit, flags
    <3>3. QED BY <3>1, <3>2 DEF flags
  <2>2. Lifecycle' BY <1>9 DEF AwaitInit
  <2>3. Holdings' BY <1>9 DEF AwaitInit
  <2>4. Room' BY <1>9 DEF AwaitInit
  <2>5. QED BY <2>1, <2>2, <2>3, <2>4
<1>10. CASE AwaitWake
  <2>1. TypeOK'
    <3>1. app' \in AppSteps /\ wake' \in BOOLEAN BY <1>10 DEF AwaitWake
    <3>2. QED BY <1>10, <3>1 DEF AwaitWake
  <2>2. Lifecycle' BY <1>10 DEF AwaitWake
  <2>3. Holdings' BY <1>10 DEF AwaitWake
  <2>4. Room' BY <1>10 DEF AwaitWake
  <2>5. QED BY <2>1, <2>2, <2>3, <2>4
<1>11. QED
  BY <1>1, <1>2, <1>3, <1>4, <1>5, <1>6, <1>7, <1>8, <1>9, <1>10

LEMMA OwnerKeepsIInv ==
  ASSUME IInv, PlayStore \/ PauseStore \/ Wake \/ Close \/ CallClosed \/ CloseAgain
  PROVE  IInv'
<1> USE WasapiAssumption DEF IInv, TypeOK, Lifecycle, Holdings, Room, Resources, BeforeThread,
        Closing, Gone, Serving, AppSteps, BuildSteps, CloseSteps, WorkerSteps, OpenSteps,
        FailSteps, LoopSteps, ExitSteps, OwnerAt, AppAt, AppKeeps, engine
<1>1. CASE PlayStore BY <1>1 DEF PlayStore
<1>2. CASE PauseStore
  <2>1. TypeOK'
    <3>1. app' \in AppSteps /\ running' \in BOOLEAN BY <1>2 DEF PauseStore
    <3>2. QED BY <1>2, <3>1 DEF PauseStore
  <2>2. Lifecycle' BY <1>2 DEF PauseStore
  <2>3. Holdings' BY <1>2 DEF PauseStore
  <2>4. Room' BY <1>2 DEF PauseStore
  <2>5. QED BY <2>1, <2>2, <2>3, <2>4
<1>3. CASE Wake
  <2>1. TypeOK' BY <1>3 DEF Wake
  <2>2. Lifecycle' BY <1>3 DEF Wake
  <2>3. Holdings' BY <1>3 DEF Wake
  <2>4. Room' BY <1>3 DEF Wake
  <2>5. QED BY <2>1, <2>2, <2>3, <2>4
<1>4. CASE Close BY <1>4 DEF Close
<1>5. CASE CallClosed \/ CloseAgain
  <2>1. TypeOK'
    <3>1. app' \in AppSteps /\ ret' \in {"ok", "error"}
      BY <1>5 DEF CallClosed, CloseAgain, ClosedOwner
    <3>2. UNCHANGED <<is_input, flags, init_failed, held, wake, audio, audio_event, handle,
                      worker, streaming, frames, accum, to_copy, late>>
      BY <1>5 DEF CallClosed, CloseAgain, ClosedOwner, flags
    <3>3. QED BY <3>1, <3>2 DEF flags
  <2>2. Lifecycle' BY <1>5 DEF CallClosed, CloseAgain, ClosedOwner
  <2>3. Holdings'
    <3>1. UNCHANGED <<app, worker, held, closed, handle, audio_event, streaming>>
      BY <1>5 DEF CallClosed, CloseAgain, ClosedOwner
    <3>2. QED BY <3>1
  <2>4. Room' BY <1>5 DEF CallClosed, CloseAgain, ClosedOwner
  <2>5. QED BY <2>1, <2>2, <2>3, <2>4
<1>6. QED
  BY <1>1, <1>2, <1>3, <1>4, <1>5

LEMMA CloseKeepsIInv ==
  ASSUME IInv,
         CloseStore \/ CloseWake \/ CloseLook \/ CloseSignal \/ CloseJoin \/ CloseRelease
  PROVE  IInv'
<1> USE WasapiAssumption DEF IInv, TypeOK, Lifecycle, Holdings, Room, Resources, BeforeThread,
        Closing, Gone, Serving, AppSteps, BuildSteps, CloseSteps, WorkerSteps, OpenSteps,
        FailSteps, LoopSteps, ExitSteps, CloseAt, OwnerAt, AppAt, AppKeeps, engine
<1>1. CASE CloseStore BY <1>1 DEF CloseStore
<1>2. CASE CloseWake BY <1>2 DEF CloseWake
<1>3. CASE CloseLook BY <1>3 DEF CloseLook
<1>4. CASE CloseSignal BY <1>4 DEF CloseSignal
<1>5. CASE CloseJoin BY <1>5 DEF CloseJoin
<1>6. CASE CloseRelease
  <2>1. TypeOK'
    <3>1. app' \in AppSteps /\ ret' \in {"ok", "error"} /\ handle' \in BOOLEAN /\ wake' \in BOOLEAN
      BY <1>6 DEF CloseRelease
    <3>2. QED BY <1>6, <3>1 DEF CloseRelease
  <2>2. Lifecycle' BY <1>6 DEF CloseRelease
  <2>3. Holdings' BY <1>6 DEF CloseRelease
  <2>4. Room' BY <1>6 DEF CloseRelease
  <2>5. QED BY <2>1, <2>2, <2>3, <2>4
<1>7. QED
  BY <1>1, <1>2, <1>3, <1>4, <1>5, <1>6
LEMMA OpenKeepsIInv ==
  ASSUME IInv,
         ComInit \/ ComInitFails \/ Device \/ DeviceStale \/ DeviceFails \/ StaleReturn
         \/ Default \/ DefaultFails \/ Activate \/ ActivateFails
  PROVE  IInv'
<1> USE WasapiAssumption DEF IInv, TypeOK, Lifecycle, Holdings, Room, Resources, BeforeThread,
        Closing, Gone, Serving, AppSteps, BuildSteps, CloseSteps, WorkerSteps, OpenSteps,
        FailSteps, LoopSteps, ExitSteps, WorkerAt, WorkerKeeps, owner, OpenAt,
        OpenQuiet, SameEvents, engine
<1>1. CASE ComInit BY <1>1 DEF ComInit
<1>2. CASE ComInitFails BY <1>2 DEF ComInitFails
<1>3. CASE Device BY <1>3 DEF Device
<1>4. CASE DeviceStale BY <1>4 DEF DeviceStale
<1>5. CASE DeviceFails BY <1>5 DEF DeviceFails
<1>6. CASE StaleReturn BY <1>6 DEF StaleReturn
<1>7. CASE Default BY <1>7 DEF Default
<1>8. CASE DefaultFails BY <1>8 DEF DefaultFails
<1>9. CASE Activate BY <1>9 DEF Activate
<1>10. CASE ActivateFails
  <2>1. TypeOK'
    <3>1. worker' \in WorkerSteps BY <1>10 DEF ActivateFails
    <3>2. UNCHANGED <<is_input, running, closed, initialized, started, init_failed, held, wake,
                      audio, audio_event, handle, ret, app, streaming, frames, accum, to_copy,
                      late>>
      BY <1>10 DEF ActivateFails
    <3>3. QED BY <3>1, <3>2
  <2>2. Lifecycle' BY <1>10 DEF ActivateFails
  <2>3. Holdings' BY <1>10 DEF ActivateFails
  <2>4. Room' BY <1>10 DEF ActivateFails
  <2>5. QED BY <2>1, <2>2, <2>3, <2>4
<1>11. QED
  BY <1>1, <1>2, <1>3, <1>4, <1>5, <1>6, <1>7, <1>8, <1>9, <1>10

LEMMA AnnounceKeepsIInv ==
  ASSUME IInv,
         MakeEvent \/ MakeEventFails \/ Service \/ ServiceFails \/ InitMark \/ InitWake
         \/ InitErrorReturn \/ FailHr \/ FailMark \/ FailWake
  PROVE  IInv'
<1> USE WasapiAssumption DEF IInv, TypeOK, Lifecycle, Holdings, Room, Resources, BeforeThread,
        Closing, Gone, Serving, AppSteps, BuildSteps, CloseSteps, WorkerSteps, OpenSteps,
        FailSteps, LoopSteps, ExitSteps, WorkerAt, WorkerKeeps, owner, OpenAt,
        OpenQuiet, SameEvents, engine
<1>1. CASE MakeEvent BY <1>1 DEF MakeEvent
<1>2. CASE MakeEventFails BY <1>2 DEF MakeEventFails
<1>3. CASE Service BY <1>3 DEF Service
<1>4. CASE ServiceFails BY <1>4 DEF ServiceFails
<1>5. CASE InitMark BY <1>5 DEF InitMark
<1>6. CASE InitWake BY <1>6 DEF InitWake
<1>7. CASE InitErrorReturn BY <1>7 DEF InitErrorReturn
<1>8. CASE FailHr BY <1>8 DEF FailHr
<1>9. CASE FailMark BY <1>9 DEF FailMark
<1>10. CASE FailWake BY <1>10 DEF FailWake
<1>11. QED
  BY <1>1, <1>2, <1>3, <1>4, <1>5, <1>6, <1>7, <1>8, <1>9, <1>10

LEMMA LoopKeepsIInv ==
  ASSUME IInv,
         Loop \/ TestRunning \/ Nap \/ Start \/ StartFails \/ StartErrorReturn \/ StartFailed
         \/ WaitAudio
  PROVE  IInv'
<1> USE WasapiAssumption DEF IInv, TypeOK, Lifecycle, Holdings, Room, Resources, BeforeThread,
        Closing, Gone, Serving, AppSteps, BuildSteps, CloseSteps, WorkerSteps, OpenSteps,
        FailSteps, LoopSteps, ExitSteps, WorkerAt, WorkerKeeps, owner, LoopAt, RunAt,
        Goes, Frames, Serve
<1>1. CASE Loop BY <1>1 DEF Loop
<1>2. CASE TestRunning
  <2>1. TypeOK'
    <3>1. worker' \in WorkerSteps /\ started' \in BOOLEAN /\ streaming' \in BOOLEAN
      BY <1>2 DEF TestRunning
    <3>2. UNCHANGED <<is_input, running, closed, initialized, init_failed, held, wake, audio,
                      audio_event, handle, ret, app, frames, accum, to_copy, late>>
      BY <1>2 DEF TestRunning
    <3>3. QED BY <3>1, <3>2
  <2>2. Lifecycle' BY <1>2 DEF TestRunning
  <2>3. Holdings' BY <1>2 DEF TestRunning
  <2>4. Room' BY <1>2 DEF TestRunning
  <2>5. QED BY <2>1, <2>2, <2>3, <2>4
<1>3. CASE Nap
  <2>1. TypeOK'
    <3>1. worker' \in WorkerSteps /\ wake' \in BOOLEAN BY <1>3 DEF Nap
    <3>2. QED BY <1>3, <3>1 DEF Nap
  <2>2. Lifecycle' BY <1>3 DEF Nap
  <2>3. Holdings' BY <1>3 DEF Nap
  <2>4. Room' BY <1>3 DEF Nap
  <2>5. QED BY <2>1, <2>2, <2>3, <2>4
<1>4. CASE Start BY <1>4 DEF Start
<1>5. CASE StartFails BY <1>5 DEF StartFails
<1>6. CASE StartErrorReturn BY <1>6 DEF StartErrorReturn
<1>7. CASE StartFailed
  <2>1. TypeOK'
    <3>1. worker' \in WorkerSteps /\ running' \in BOOLEAN BY <1>7 DEF StartFailed
    <3>2. QED BY <1>7, <3>1 DEF StartFailed
  <2>2. Lifecycle' BY <1>7 DEF StartFailed
  <2>3. Holdings' BY <1>7 DEF StartFailed
  <2>4. Room' BY <1>7 DEF StartFailed
  <2>5. QED BY <2>1, <2>2, <2>3, <2>4
<1>8. CASE WaitAudio
  <2>1. TypeOK'
    <3>1. worker' \in WorkerSteps /\ audio' \in BOOLEAN BY <1>8 DEF WaitAudio
    <3>2. UNCHANGED <<is_input, running, closed, initialized, started, init_failed, held, wake,
                      audio_event, handle, ret, app, streaming, frames, accum, to_copy, late>>
      BY <1>8 DEF WaitAudio
    <3>3. QED BY <3>1, <3>2
  <2>2. Lifecycle' BY <1>8 DEF WaitAudio
  <2>3. Holdings' BY <1>8 DEF WaitAudio
  <2>4. Room' BY <1>8 DEF WaitAudio
  <2>5. QED BY <2>1, <2>2, <2>3, <2>4
<1>9. QED
  BY <1>1, <1>2, <1>3, <1>4, <1>5, <1>6, <1>7, <1>8

LEMMA TransferKeepsIInv ==
  ASSUME IInv,
         Padding \/ Put \/ DrainDone \/ (\E n \in 1..BufferFrames : Fetch(n)) \/ Copy
         \/ DataReturn \/ Release \/ IoErrorReturn \/ Faults
  PROVE  IInv'
<1> USE WasapiAssumption DEF IInv, TypeOK, Lifecycle, Holdings, Room, Resources, BeforeThread,
        Closing, Gone, Serving, AppSteps, BuildSteps, CloseSteps, WorkerSteps, OpenSteps,
        FailSteps, LoopSteps, ExitSteps, WorkerAt, WorkerKeeps, owner, LoopAt, RunAt,
        Goes, Frames, Serve
<1>1. CASE Padding
  <2>1. TypeOK'
    <3>1. worker' \in WorkerSteps /\ late' \in 0..2 BY <1>1 DEF Padding
    <3>2. UNCHANGED <<is_input, running, closed, initialized, started, init_failed, held, wake,
                      audio, audio_event, handle, ret, app, streaming, frames, accum, to_copy>>
      BY <1>1 DEF Padding
    <3>3. QED BY <3>1, <3>2
  <2>2. Lifecycle' BY <1>1 DEF Padding
  <2>3. Holdings' BY <1>1 DEF Padding
  <2>4. Room' BY <1>1 DEF Padding
  <2>5. QED BY <2>1, <2>2, <2>3, <2>4
<1>2. CASE Put BY <1>2 DEF Put
<1>3. CASE DrainDone BY <1>3 DEF DrainDone
<1>4. CASE (\E n \in 1..BufferFrames : Fetch(n)) BY <1>4 DEF Fetch
<1>5. CASE Copy
  <2>1. TypeOK'
    <3>1. worker' \in WorkerSteps /\ late' \in 0..2
          /\ accum' \in 0..FramesPerCb /\ to_copy' \in 0..BufferFrames
      BY <1>5 DEF Copy
    <3>2. UNCHANGED <<is_input, running, closed, initialized, started, init_failed, held, wake,
                      audio, audio_event, handle, ret, app, streaming, frames>>
      BY <1>5 DEF Copy
    <3>3. QED BY <3>1, <3>2
  <2>2. Lifecycle' BY <1>5 DEF Copy
  <2>3. Holdings' BY <1>5 DEF Copy
  <2>4. Room' BY <1>5 DEF Copy
  <2>5. QED BY <2>1, <2>2, <2>3, <2>4
<1>6. CASE DataReturn BY <1>6 DEF DataReturn
<1>7. CASE Release BY <1>7 DEF Release
<1>8. CASE IoErrorReturn BY <1>8 DEF IoErrorReturn
<1>9. CASE Faults
  <2>1. CASE PaddingFails BY <2>1 DEF PaddingFails
  <2>2. CASE PutFails BY <2>2 DEF PutFails
  <2>3. CASE LookFails BY <2>3 DEF LookFails
  <2>4. CASE FetchFails BY <2>4 DEF FetchFails
  <2>5. CASE ReleaseFails BY <2>5 DEF ReleaseFails
  <2>6. QED BY <1>9, <2>1, <2>2, <2>3, <2>4, <2>5 DEF Faults
<1>10. QED
  BY <1>1, <1>2, <1>3, <1>4, <1>5, <1>6, <1>7, <1>8, <1>9

LEMMA ExitKeepsIInv ==
  ASSUME IInv,
         Stop \/ CloseEvent \/ ClearEvent \/ ReleaseObjects
  PROVE  IInv'
<1> USE WasapiAssumption DEF IInv, TypeOK, Lifecycle, Holdings, Room, Resources, BeforeThread,
        Closing, Gone, Serving, AppSteps, BuildSteps, CloseSteps, WorkerSteps, OpenSteps,
        FailSteps, LoopSteps, ExitSteps, WorkerAt, WorkerKeeps, owner, ExitAt, Frames
<1>1. CASE Stop
  <2>1. TypeOK'
    <3>1. worker' \in WorkerSteps /\ streaming' \in BOOLEAN BY <1>1 DEF Stop
    <3>2. QED BY <1>1, <3>1 DEF Stop
  <2>2. Lifecycle' BY <1>1 DEF Stop
  <2>3. Holdings' BY <1>1 DEF Stop
  <2>4. Room' BY <1>1 DEF Stop
  <2>5. QED BY <2>1, <2>2, <2>3, <2>4
<1>2. CASE CloseEvent
  <2>1. TypeOK'
    <3>1. worker' \in WorkerSteps /\ audio' \in BOOLEAN /\ held' \subseteq Resources
      BY <1>2 DEF CloseEvent
    <3>2. QED BY <1>2, <3>1 DEF CloseEvent
  <2>2. Lifecycle' BY <1>2 DEF CloseEvent
  <2>3. Holdings' BY <1>2 DEF CloseEvent
  <2>4. Room' BY <1>2 DEF CloseEvent
  <2>5. QED BY <2>1, <2>2, <2>3, <2>4
<1>3. CASE ClearEvent
  <2>1. TypeOK'
    <3>1. worker' \in WorkerSteps /\ audio_event' \in BOOLEAN BY <1>3 DEF ClearEvent
    <3>2. QED BY <1>3, <3>1 DEF ClearEvent
  <2>2. Lifecycle' BY <1>3 DEF ClearEvent
  <2>3. Holdings' BY <1>3 DEF ClearEvent
  <2>4. Room' BY <1>3 DEF ClearEvent
  <2>5. QED BY <2>1, <2>2, <2>3, <2>4
<1>4. CASE ReleaseObjects BY <1>4 DEF ReleaseObjects
<1>5. QED
  BY <1>1, <1>2, <1>3, <1>4

LEMMA LessFits ==
  ASSUME NEW x \in Nat, NEW y \in Nat, NEW n \in Nat, NEW max \in Nat,
         x <= y, y + n <= max
  PROVE  x + n <= max
OBVIOUS

LEMMA EngineKeepsIInv ==
  ASSUME IInv, Engine
  PROVE  IInv'
<1>1. UNCHANGED <<is_input, running, closed, initialized, started, init_failed, held, wake,
                  audio_event, handle, ret, app, worker, streaming, accum, to_copy, late>>
  BY DEF Engine, flags, owner
<1>2. frames' \in 0..BufferFrames /\ audio' \in BOOLEAN
  BY WasapiAssumption DEF Engine, IInv, TypeOK
<1>3. ~is_input => frames' <= frames BY DEF Engine, IInv, TypeOK
<1>4. TypeOK' BY <1>1, <1>2 DEF IInv, TypeOK
<1>5. Lifecycle' BY <1>1 DEF IInv, Lifecycle
<1>6. Holdings' BY <1>1 DEF IInv, Holdings
<1>7. Room'
  <2>1. CASE is_input BY <1>1, <2>1 DEF IInv, Room
  <2>2. CASE ~is_input
    <3>1. frames' <= frames BY <1>3, <2>2
    <3>2. worker \in {"data", "put"} => frames' + FramesPerCb <= BufferFrames
      <4> SUFFICES ASSUME worker \in {"data", "put"}
                   PROVE  frames' + FramesPerCb <= BufferFrames
        OBVIOUS
      <4>1. frames + FramesPerCb <= BufferFrames BY <2>2 DEF IInv, Room
      <4>2. frames \in Nat /\ frames' \in Nat /\ FramesPerCb \in Nat /\ BufferFrames \in Nat
        BY <1>2, WasapiAssumption DEF IInv, TypeOK
      <4>3. QED BY <3>1, <4>1, <4>2, LessFits
    <3>3. QED BY <1>1, <2>2, <3>2 DEF IInv, Room
  <2>3. QED BY <2>1, <2>2
<1>8. QED BY <1>4, <1>5, <1>6, <1>7 DEF IInv

LEMMA Inductive == Spec => []IInv
<1>1. IInv /\ [Next]_vars => IInv'
  <2>1. IInv /\ App => IInv'
    BY BuildKeepsIInv, OwnerKeepsIInv, CloseKeepsIInv DEF App, AppContinue
  <2>2. IInv /\ WorkerStep => IInv'
    BY OpenKeepsIInv, AnnounceKeepsIInv, LoopKeepsIInv, TransferKeepsIInv, ExitKeepsIInv
       DEF WorkerStep, Opening
  <2>3. IInv /\ Faults => IInv' BY TransferKeepsIInv
  <2>4. IInv /\ Engine => IInv' BY EngineKeepsIInv
  <2>5. IInv /\ UNCHANGED vars => IInv'
    BY DEF IInv, TypeOK, Lifecycle, Holdings, Room, vars, flags, owner, engine
  <2>6. QED BY <2>1, <2>2, <2>3, <2>4, <2>5 DEF Next
<1>2. QED BY <1>1, InitOK, PTL DEF Spec

(* Every reachable state is well formed, for every size of callback and    *)
(* buffer: the engine's buffer is never overfilled, and captured packets   *)
(* never run past the callback buffer.                                     *)
THEOREM TypeCorrect == Spec => []TypeOK
<1>1. IInv => TypeOK BY DEF IInv
<1>2. QED BY <1>1, Inductive, PTL

(* destroy, of a stream that was built or of one that could not be,        *)
(* releases nothing the worker still uses.                                 *)
THEOREM ReleaseIsLast == Spec => []ReleasedUnused
<1>1. IInv => ReleasedUnused
  BY DEF IInv, Holdings, ReleasedUnused, Gone, Serving, LoopSteps, OpenSteps
<1>2. QED BY <1>1, Inductive, PTL

(* Builds that fail, at any step and on either thread, and close leave     *)
(* nothing behind.                                                         *)
LEMMA AllReleased == Spec => []NothingLeaked
<1>1. IInv => NothingLeaked
  BY DEF IInv, Lifecycle, Holdings, NothingLeaked, Gone, LoopSteps
<1>2. QED BY <1>1, Inductive, PTL

(* wasapi_stream_new hands out streams with an open device only.           *)
LEMMA HandedOutOpen == Spec => []BuiltIsOpen
<1>1. IInv => BuiltIsOpen BY DEF IInv, Lifecycle, BuiltIsOpen, Serving
<1>2. QED BY <1>1, Inductive, PTL

(* A build that ends hands out an open device or leaves nothing behind.    *)
THEOREM BuildIsWhole == Spec => []WholeOrNothing
<1>1. NothingLeaked /\ BuiltIsOpen => WholeOrNothing BY DEF WholeOrNothing
<1>2. QED BY <1>1, AllReleased, HandedOutOpen, PTL

-----------------------------------------------------------------------------
(* WasapiStream implements StreamContract.                                 *)

CStep == Contract!CNext \/ (is_input /\ Contract!GoOn)

LEMMA InitRefines == Init => Contract!CInit
BY DEF Init, Contract!CInit, Mode, Round, Busy

LEMMA BuildRefines ==
  ASSUME IInv,
         New \/ NewFails \/ NewRelease \/ CreateEvent \/ CreateEventFails \/ CreateThread
         \/ CreateThreadFails \/ ThreadErrorReturn \/ AwaitInit \/ AwaitWake
  PROVE  [CStep]_(Contract!cvars)
<1> USE DEF Mode, Round, Busy, Contract!cvars, IInv, Lifecycle, BeforeThread, Gone, BuildSteps,
        BuildAt, AppAt, AppKeeps
<1>1. CASE New \/ CreateEvent \/ CreateEventFails BY <1>1 DEF New, CreateEvent, CreateEventFails
<1>2. CASE NewFails
  <2>1. Contract!Close BY <1>2 DEF NewFails, Contract!Close
  <2>2. QED BY <2>1 DEF CStep, Contract!CNext
<1>3. CASE NewRelease
  <2>1. Contract!Closed BY <1>3 DEF NewRelease, Contract!Closed
  <2>2. QED BY <2>1 DEF CStep, Contract!CNext
<1>4. CASE CreateThread BY <1>4 DEF CreateThread
<1>5. CASE CreateThreadFails
  <2>1. Contract!Error BY <1>5 DEF CreateThreadFails, Contract!Error
  <2>2. QED BY <2>1 DEF CStep, Contract!CNext
<1>6. CASE ThreadErrorReturn
  <2>1. Contract!Return BY <1>6 DEF ThreadErrorReturn, Contract!Return
  <2>2. QED BY <2>1 DEF CStep, Contract!CNext
<1>7. CASE AwaitInit BY <1>7 DEF AwaitInit
<1>8. CASE AwaitWake BY <1>8 DEF AwaitWake
<1>9. QED BY <1>1, <1>2, <1>3, <1>4, <1>5, <1>6, <1>7, <1>8

LEMMA OwnerRefines ==
  ASSUME IInv, PlayStore \/ PauseStore \/ Wake \/ Close \/ CallClosed \/ CloseAgain
  PROVE  [CStep]_(Contract!cvars)
<1> USE DEF Mode, Round, Busy, Contract!cvars, IInv, Lifecycle, Closing, OwnerAt, AppAt, AppKeeps
<1>1. CASE PlayStore
  <2>1. Contract!Play BY <1>1 DEF PlayStore, Contract!Play
  <2>2. QED BY <2>1 DEF CStep, Contract!CNext
<1>2. CASE PauseStore
  <2>1. Contract!Pause BY <1>2 DEF PauseStore, Contract!Pause
  <2>2. QED BY <2>1 DEF CStep, Contract!CNext
<1>3. CASE Wake \/ Close BY <1>3 DEF Wake, Close
<1>4. CASE CallClosed \/ CloseAgain BY <1>4 DEF CallClosed, CloseAgain, ClosedOwner
<1>5. QED BY <1>1, <1>2, <1>3, <1>4

LEMMA CloseRefines ==
  ASSUME IInv,
         CloseStore \/ CloseWake \/ CloseLook \/ CloseSignal \/ CloseJoin \/ CloseRelease
  PROVE  [CStep]_(Contract!cvars)
<1> USE DEF Mode, Round, Busy, Contract!cvars, IInv, Lifecycle, Closing, Gone, CloseAt, OwnerAt,
        AppAt, AppKeeps
<1>1. CASE CloseStore
  <2>1. Contract!Close BY <1>1 DEF CloseStore, Contract!Close
  <2>2. QED BY <2>1 DEF CStep, Contract!CNext
<1>2. CASE CloseWake \/ CloseLook BY <1>2 DEF CloseWake, CloseLook
<1>3. CASE CloseSignal \/ CloseJoin BY <1>3 DEF CloseSignal, CloseJoin
<1>4. CASE CloseRelease
  <2>1. Contract!Closed BY <1>4 DEF CloseRelease, Contract!Closed
  <2>2. QED BY <2>1 DEF CStep, Contract!CNext
<1>5. QED BY <1>1, <1>2, <1>3, <1>4
LEMMA OpenRefines ==
  ASSUME IInv,
         ComInit \/ ComInitFails \/ Device \/ DeviceStale \/ DeviceFails \/ StaleReturn
         \/ Default \/ DefaultFails \/ Activate \/ ActivateFails
  PROVE  [CStep]_(Contract!cvars)
<1> USE DEF Mode, Round, Busy, Contract!cvars, WorkerAt, WorkerKeeps, owner, Gone,
        OpenAt, OpenQuiet, SameEvents
<1>0. worker \notin Gone => app \notin {"newFailed", "threadError"} /\ (app = "idle" => handle)
  BY DEF IInv, Lifecycle, BeforeThread, Gone
<1>1. CASE ComInit \/ Device \/ Default \/ Activate BY <1>1 DEF ComInit, Device, Default, Activate
<1>2. CASE ComInitFails
  <2>1. Contract!Error BY <1>0, <1>2 DEF ComInitFails, Contract!Error
  <2>2. QED BY <2>1 DEF CStep, Contract!CNext
<1>3. CASE DeviceStale
  <2>1. Contract!Error BY <1>0, <1>3 DEF DeviceStale, Contract!Error
  <2>2. QED BY <2>1 DEF CStep, Contract!CNext
<1>4. CASE DeviceFails
  <2>1. Contract!Error BY <1>0, <1>4 DEF DeviceFails, Contract!Error
  <2>2. QED BY <2>1 DEF CStep, Contract!CNext
<1>5. CASE DefaultFails
  <2>1. Contract!Error BY <1>0, <1>5 DEF DefaultFails, Contract!Error
  <2>2. QED BY <2>1 DEF CStep, Contract!CNext
<1>6. CASE StaleReturn
  <2>1. Contract!Return BY <1>0, <1>6 DEF StaleReturn, Contract!Return
  <2>2. QED BY <2>1 DEF CStep, Contract!CNext
<1>7. CASE ActivateFails
  <2>1. CASE worker' = "initError"
    <3>1. Contract!Error BY <1>0, <1>7, <2>1 DEF ActivateFails, Contract!Error
    <3>2. QED BY <3>1 DEF CStep, Contract!CNext
  <2>2. CASE worker' = "failHr" BY <1>7, <2>2 DEF ActivateFails
  <2>3. QED BY <1>7, <2>1, <2>2 DEF ActivateFails
<1>8. QED BY <1>1, <1>2, <1>3, <1>4, <1>5, <1>6, <1>7

LEMMA AnnounceRefines ==
  ASSUME IInv,
         MakeEvent \/ MakeEventFails \/ Service \/ ServiceFails \/ InitMark \/ InitWake
         \/ InitErrorReturn \/ FailHr \/ FailMark \/ FailWake
  PROVE  [CStep]_(Contract!cvars)
<1> USE DEF Mode, Round, Busy, Contract!cvars, WorkerAt, WorkerKeeps, owner, Gone,
        OpenAt, OpenQuiet, SameEvents
<1>0. worker \notin Gone => app \notin {"newFailed", "threadError"} /\ (app = "idle" => handle)
  BY DEF IInv, Lifecycle, BeforeThread, Gone
<1>1. CASE MakeEvent \/ MakeEventFails \/ Service \/ InitMark \/ InitWake
  BY <1>1 DEF MakeEvent, MakeEventFails, Service, InitMark, InitWake
<1>2. CASE ServiceFails
  <2>1. Contract!Error BY <1>0, <1>2 DEF ServiceFails, Contract!Error
  <2>2. QED BY <2>1 DEF CStep, Contract!CNext
<1>3. CASE InitErrorReturn
  <2>1. Contract!Return BY <1>0, <1>3 DEF InitErrorReturn, Contract!Return
  <2>2. QED BY <2>1 DEF CStep, Contract!CNext
<1>4. CASE FailHr \/ FailMark BY <1>4 DEF FailHr, FailMark
<1>5. CASE FailWake BY <1>5 DEF FailWake
<1>6. QED BY <1>1, <1>2, <1>3, <1>4, <1>5

LEMMA LoopRefines ==
  ASSUME IInv,
         Loop \/ TestRunning \/ Nap \/ Start \/ StartFails \/ StartErrorReturn \/ StartFailed
         \/ WaitAudio
  PROVE  [CStep]_(Contract!cvars)
<1> USE DEF Mode, Round, Busy, Contract!cvars, WorkerAt, WorkerKeeps, owner, Gone,
        LoopAt, RunAt, Goes, Frames
<1>0. worker \notin Gone => app \notin {"newFailed", "threadError"} /\ (app = "idle" => handle)
  BY DEF IInv, Lifecycle, BeforeThread, Gone
<1>1. CASE Loop \/ Nap \/ Start BY <1>1 DEF Loop, Nap, Start
<1>2. CASE TestRunning
  <2>1. CASE running /\ ~closed
    <3>1. Contract!OpenRound BY <1>0, <1>2, <2>1 DEF TestRunning, Contract!OpenRound
    <3>2. QED BY <3>1 DEF CStep, Contract!CNext
  <2>2. CASE ~running \/ closed BY <1>2, <2>2 DEF TestRunning
  <2>3. QED BY <2>1, <2>2
<1>3. CASE StartFails
  <2>1. Contract!Error BY <1>0, <1>3 DEF StartFails, Contract!Error
  <2>2. QED BY <2>1 DEF CStep, Contract!CNext
<1>4. CASE StartErrorReturn
  <2>1. Contract!Return BY <1>0, <1>4 DEF StartErrorReturn, Contract!Return
  <2>2. QED BY <2>1 DEF CStep, Contract!CNext
<1>5. CASE StartFailed
  <2>1. CASE closed BY <1>5, <2>1 DEF StartFailed
  <2>2. CASE ~closed
    <3>1. Contract!Pause BY <1>0, <1>5, <2>2 DEF StartFailed, Contract!Pause
    <3>2. QED BY <3>1 DEF CStep, Contract!CNext
  <2>3. QED BY <2>1, <2>2
<1>6. CASE WaitAudio
  <2>1. CASE audio BY <1>6, <2>1 DEF WaitAudio
  <2>2. CASE ~audio
    <3>1. Contract!CloseRound BY <1>0, <1>6, <2>2 DEF WaitAudio, Contract!CloseRound
    <3>2. QED BY <3>1 DEF CStep, Contract!CNext
  <2>3. QED BY <2>1, <2>2
<1>7. QED BY <1>1, <1>2, <1>3, <1>4, <1>5, <1>6

LEMMA TransferRefines ==
  ASSUME IInv,
         Padding \/ Put \/ DrainDone \/ (\E n \in 1..BufferFrames : Fetch(n)) \/ Copy
         \/ DataReturn \/ Release \/ IoErrorReturn
  PROVE  [CStep]_(Contract!cvars)
<1> USE DEF Mode, Round, Busy, Contract!cvars, WorkerAt, WorkerKeeps, owner, Gone,
        LoopAt, RunAt, Goes, Frames, Serve
<1>0. worker \notin Gone => app \notin {"newFailed", "threadError"} /\ (app = "idle" => handle)
  BY DEF IInv, Lifecycle, BeforeThread, Gone
<1>1. CASE Padding
  <2>1. CASE BufferFrames - frames < FramesPerCb
    <3>1. Contract!CloseRound BY <1>0, <1>1, <2>1 DEF Padding, Contract!CloseRound
    <3>2. QED BY <3>1 DEF CStep, Contract!CNext
  <2>2. CASE ~(BufferFrames - frames < FramesPerCb)
    <3>1. Contract!Data BY <1>0, <1>1, <2>2 DEF Padding, Contract!Data
    <3>2. QED BY <3>1 DEF CStep, Contract!CNext
  <2>3. QED BY <2>1, <2>2
<1>2. CASE Put
  <2>1. Contract!CloseRound BY <1>0, <1>2 DEF Put, Contract!CloseRound
  <2>2. QED BY <2>1 DEF CStep, Contract!CNext
<1>3. CASE DrainDone
  <2>1. Contract!CloseRound BY <1>0, <1>3 DEF DrainDone, Contract!CloseRound
  <2>2. QED BY <2>1 DEF CStep, Contract!CNext
<1>4. CASE (\E n \in 1..BufferFrames : Fetch(n)) BY <1>4 DEF Fetch
<1>5. CASE Copy
  <2>1. CASE accum' = FramesPerCb
    <3>1. Contract!Data BY <1>0, <1>5, <2>1 DEF Copy, Contract!Data
    <3>2. QED BY <3>1 DEF CStep, Contract!CNext
  <2>2. CASE accum' # FramesPerCb BY <1>5, <2>2 DEF Copy
  <2>3. QED BY <2>1, <2>2
<1>6. CASE DataReturn
  <2>1. CASE is_input
    <3>1. Contract!GoOn BY <1>0, <1>6, <2>1 DEF DataReturn, Contract!GoOn
    <3>2. QED BY <2>1, <3>1 DEF CStep
  <2>2. CASE ~is_input
    <3>1. Contract!Return BY <1>0, <1>6, <2>2 DEF DataReturn, Contract!Return
    <3>2. QED BY <3>1 DEF CStep, Contract!CNext
  <2>3. QED BY <2>1, <2>2
<1>7. CASE Release BY <1>7 DEF Release
<1>8. CASE IoErrorReturn
  <2>1. Contract!Return BY <1>0, <1>8 DEF IoErrorReturn, Contract!Return
  <2>2. QED BY <2>1 DEF CStep, Contract!CNext
<1>9. QED BY <1>1, <1>2, <1>3, <1>4, <1>5, <1>6, <1>7, <1>8

LEMMA FaultsRefine ==
  ASSUME IInv,
         Faults
  PROVE  [CStep]_(Contract!cvars)
<1> USE DEF Mode, Round, Busy, Contract!cvars, WorkerAt, WorkerKeeps, owner, Gone,
        LoopAt, RunAt, Goes, Frames
<1>0. worker \notin Gone => app \notin {"newFailed", "threadError"} /\ (app = "idle" => handle)
  BY DEF IInv, Lifecycle, BeforeThread, Gone
<1>1. CASE PaddingFails
  <2>1. Contract!Error BY <1>0, <1>1 DEF PaddingFails, Contract!Error
  <2>2. QED BY <2>1 DEF CStep, Contract!CNext
<1>2. CASE PutFails
  <2>1. Contract!Error BY <1>0, <1>2 DEF PutFails, Contract!Error
  <2>2. QED BY <2>1 DEF CStep, Contract!CNext
<1>3. CASE LookFails
  <2>1. Contract!CloseRound BY <1>0, <1>3 DEF LookFails, Contract!CloseRound
  <2>2. QED BY <2>1 DEF CStep, Contract!CNext
<1>4. CASE FetchFails
  <2>1. Contract!Error BY <1>0, <1>4 DEF FetchFails, Contract!Error
  <2>2. QED BY <2>1 DEF CStep, Contract!CNext
<1>5. CASE ReleaseFails
  <2>1. Contract!Error BY <1>0, <1>5 DEF ReleaseFails, Contract!Error
  <2>2. QED BY <2>1 DEF CStep, Contract!CNext
<1>6. QED BY <1>1, <1>2, <1>3, <1>4, <1>5 DEF Faults

LEMMA ExitRefines ==
  ASSUME IInv,
         Stop \/ CloseEvent \/ ClearEvent \/ ReleaseObjects
  PROVE  [CStep]_(Contract!cvars)
<1> USE DEF Mode, Round, Busy, Contract!cvars, WorkerAt, WorkerKeeps, owner, Gone, ExitAt, Frames
<1>0. worker \notin Gone => app \notin {"newFailed", "threadError"} /\ (app = "idle" => handle)
  BY DEF IInv, Lifecycle, BeforeThread, Gone
<1>1. CASE Stop \/ CloseEvent BY <1>1 DEF Stop, CloseEvent
<1>2. CASE ClearEvent \/ ReleaseObjects BY <1>2 DEF ClearEvent, ReleaseObjects
<1>3. QED BY <1>1, <1>2

(* A WASAPI stream keeps the contract of StreamContract from its build to  *)
(* its close, whichever calls of the audio client fail; a capture stream   *)
(* in bursts.                                                              *)
THEOREM Implements == Spec => KeepsContract
<1>1. IInv /\ [Next]_vars => [CStep]_(Contract!cvars)
  <2>1. IInv /\ App => [CStep]_(Contract!cvars)
    BY BuildRefines, OwnerRefines, CloseRefines DEF App, AppContinue
  <2>2. IInv /\ WorkerStep => [CStep]_(Contract!cvars)
    BY OpenRefines, AnnounceRefines, LoopRefines, TransferRefines, ExitRefines
       DEF WorkerStep, Opening
  <2>3. IInv /\ Faults => [CStep]_(Contract!cvars) BY FaultsRefine
  <2>4. Engine \/ UNCHANGED vars => UNCHANGED Contract!cvars
    BY DEF Engine, vars, flags, owner, Contract!cvars, Mode, Round, Busy
  <2>5. QED BY <2>1, <2>2, <2>3, <2>4 DEF Next
<1>2. QED BY <1>1, Inductive, InitRefines, PTL DEF Spec, KeepsContract, CStep

-----------------------------------------------------------------------------
(* What the user may conclude.                                             *)

Promises == INSTANCE ContractPromises WITH mode <- Mode, round <- Round, busy <- Busy

LEMMA SameContract == KeepsContract => Promises!Draining
<1>1. Contract!CInit => Promises!CInit BY DEF Contract!CInit, Promises!CInit
<1>2. [CStep]_(Contract!cvars) => [Promises!CNext \/ Promises!GoOn]_(Promises!cvars)
  BY DEF CStep, Contract!cvars, Contract!CNext, Contract!Play, Contract!Pause, Contract!Close,
         Contract!Closed, Contract!OpenRound, Contract!Data, Contract!Error, Contract!Return,
         Contract!CloseRound, Contract!GoOn,
         Promises!cvars, Promises!CNext, Promises!Play, Promises!Pause, Promises!Close,
         Promises!Closed, Promises!OpenRound, Promises!Data, Promises!Error, Promises!Return,
         Promises!CloseRound, Promises!GoOn
<1>3. QED BY <1>1, <1>2, PTL DEF KeepsContract, Promises!Draining, CStep

(* After wasapi_stream_destroy returned, or a build failed, no callback of *)
(* the stream begins or ends: even of capture, which empties the engine's  *)
(* queue whatever closed says.                                             *)
THEOREM NothingAfterClose == Spec => Promises!CloseIsFinal
BY Implements, SameContract, Promises!ClosedForGood

-----------------------------------------------------------------------------
(* Playback's one callback after pause.                                    *)

(* The callback a worker has decided on, past its last look at running.    *)
Owed == IF worker \in {"start", "waitAudio", "padding"} THEN 1 ELSE 0

(* Once pause returned, the callbacks that began and the one that is owed  *)
(* are one together; while the stream plays none is late.                  *)
Budget == /\ late \in 0..1
          /\ running /\ app # "wake" => late = 0
          /\ app = "idle" /\ ~running => late + Owed <= 1
          /\ app \in BuildSteps => late = 0 /\ Owed = 0

LEMMA OwnerKeepsBudget ==
  ASSUME IInv, ~is_input, Budget,
         PlayStore \/ PauseStore \/ Wake \/ Close \/ CallClosed \/ CloseAgain
         \/ CloseStore \/ CloseWake \/ CloseLook \/ CloseSignal \/ CloseJoin \/ CloseRelease
  PROVE  Budget'
<1> USE DEF IInv, TypeOK, Lifecycle, Closing, Gone, BuildSteps, Budget, Owed, OwnerAt, AppAt, AppKeeps, CloseAt
<1>1. CASE PlayStore BY <1>1 DEF PlayStore
<1>2. CASE PauseStore BY <1>2 DEF PauseStore
<1>3. CASE Wake BY <1>3 DEF Wake
<1>4. CASE Close BY <1>4 DEF Close
<1>5. CASE CallClosed \/ CloseAgain BY <1>5 DEF CallClosed, CloseAgain, ClosedOwner
<1>6. CASE CloseStore \/ CloseWake BY <1>6 DEF CloseStore, CloseWake
<1>7. CASE CloseLook \/ CloseSignal \/ CloseJoin BY <1>7 DEF CloseLook, CloseSignal, CloseJoin
<1>8. CASE CloseRelease BY <1>8 DEF CloseRelease
<1>9. QED BY <1>1, <1>2, <1>3, <1>4, <1>5, <1>6, <1>7, <1>8

LEMMA BuildKeepsBudget ==
  ASSUME IInv, ~is_input, Budget,
         New \/ NewFails \/ NewRelease \/ CreateEvent \/ CreateEventFails \/ CreateThread
         \/ CreateThreadFails \/ ThreadErrorReturn \/ AwaitInit \/ AwaitWake
  PROVE  Budget'
<1> USE DEF IInv, TypeOK, Lifecycle, BuildSteps, BeforeThread, Gone, Budget, Owed, BuildAt,
            AppAt, AppKeeps
<1>1. CASE New \/ NewFails \/ NewRelease \/ CreateEvent \/ CreateEventFails
  BY <1>1 DEF New, NewFails, NewRelease, CreateEvent, CreateEventFails
<1>2. CASE CreateThread \/ CreateThreadFails \/ ThreadErrorReturn \/ AwaitWake
  BY <1>2 DEF CreateThread, CreateThreadFails, ThreadErrorReturn, AwaitWake
<1>3. CASE AwaitInit BY <1>3 DEF AwaitInit
<1>4. QED BY <1>1, <1>2, <1>3

LEMMA LoopKeepsBudget ==
  ASSUME IInv, ~is_input, Budget,
         Loop \/ TestRunning \/ Nap \/ Start \/ StartFails \/ StartErrorReturn \/ StartFailed
         \/ WaitAudio \/ Padding \/ Put \/ DrainDone \/ (\E n \in 1..BufferFrames : Fetch(n))
         \/ Copy \/ DataReturn \/ Release \/ IoErrorReturn \/ Faults
  PROVE  Budget'
<1> USE DEF IInv, TypeOK, Lifecycle, Room, Budget, Owed, WorkerAt, WorkerKeeps, owner, LoopAt,
            RunAt, Goes, Frames
<1>1. CASE Loop BY <1>1 DEF Loop
<1>2. CASE TestRunning BY <1>2 DEF TestRunning
<1>3. CASE Nap \/ Start BY <1>3 DEF Nap, Start
<1>4. CASE StartFails \/ StartErrorReturn BY <1>4 DEF StartFails, StartErrorReturn
<1>5. CASE StartFailed BY <1>5 DEF StartFailed
<1>6. CASE WaitAudio BY <1>6 DEF WaitAudio
<1>7. CASE Padding BY <1>7 DEF Padding, Serve
<1>8. CASE Put \/ DrainDone \/ DataReturn \/ Release \/ IoErrorReturn
  BY <1>8 DEF Put, DrainDone, DataReturn, Release, IoErrorReturn
<1>9. CASE (\E n \in 1..BufferFrames : Fetch(n)) \/ Copy
  <2>1. worker \in {"look", "copy"} BY <1>9 DEF Fetch, Copy, Serve
  <2>2. QED BY <2>1
<1>10. CASE Faults
  BY <1>10 DEF Faults, PaddingFails, PutFails, LookFails, FetchFails, ReleaseFails
<1>11. QED BY <1>1, <1>2, <1>3, <1>4, <1>5, <1>6, <1>7, <1>8, <1>9, <1>10

LEMMA EndsKeepBudget ==
  ASSUME IInv, ~is_input, Budget,
         Opening \/ Stop \/ CloseEvent \/ ClearEvent \/ ReleaseObjects \/ Engine
  PROVE  Budget'
<1>1. UNCHANGED <<running, app, late>>
  BY DEF Opening, ComInit, ComInitFails, Device, DeviceStale, DeviceFails, StaleReturn, Default,
         DefaultFails, Activate, ActivateFails, MakeEvent, MakeEventFails, Service, ServiceFails,
         InitMark, InitWake, InitErrorReturn, FailHr, FailMark, FailWake, OpenAt, Stop,
         CloseEvent, ClearEvent, ReleaseObjects, ExitAt, WorkerAt, WorkerKeeps, owner, Frames,
         Engine, flags
<1>2. worker' \notin {"start", "waitAudio", "padding"} \/ UNCHANGED worker
  BY DEF Opening, ComInit, ComInitFails, Device, DeviceStale, DeviceFails, StaleReturn, Default,
         DefaultFails, Activate, ActivateFails, MakeEvent, MakeEventFails, Service, ServiceFails,
         InitMark, InitWake, InitErrorReturn, FailHr, FailMark, FailWake, OpenAt, Stop,
         CloseEvent, ClearEvent, ReleaseObjects, ExitAt, WorkerAt, Engine
<1>3. QED BY <1>1, <1>2 DEF Budget, Owed

LEMMA DirectionKept == Next => UNCHANGED is_input
<1>1. App => UNCHANGED is_input
  BY DEF App, AppContinue, PlayStore, PauseStore, Wake, Close, CallClosed, CloseAgain,
         ClosedOwner, New, NewFails, NewRelease, CreateEvent, CreateEventFails, CreateThread,
         CreateThreadFails, ThreadErrorReturn, AwaitInit, AwaitWake, CloseStore, CloseWake,
         CloseLook, CloseSignal, CloseJoin, CloseRelease, BuildAt, OwnerAt, CloseAt, AppAt, AppKeeps
<1>2. Opening => UNCHANGED is_input
  BY DEF Opening, ComInit, ComInitFails, Device, DeviceStale, DeviceFails, StaleReturn, Default,
         DefaultFails, Activate, ActivateFails, MakeEvent, MakeEventFails, Service, ServiceFails,
         InitMark, InitWake, InitErrorReturn, FailHr, FailMark, FailWake, OpenAt, WorkerAt,
         WorkerKeeps
<1>3. WorkerStep \/ Faults => UNCHANGED is_input
  BY <1>2 DEF WorkerStep, Loop, TestRunning, Nap, Start, StartFails, StartErrorReturn,
         StartFailed, WaitAudio, Padding, Put, DrainDone, Fetch, Copy, DataReturn, Release,
         IoErrorReturn, Stop, CloseEvent, ClearEvent, ReleaseObjects, Faults, PaddingFails,
         PutFails, LookFails, FetchFails, ReleaseFails, Serve, Goes, RunAt, LoopAt, ExitAt,
         WorkerAt, WorkerKeeps
<1>4. Engine => UNCHANGED is_input BY DEF Engine
<1>5. QED BY <1>1, <1>3, <1>4 DEF Next

(* After wasapi_stream_pause returned, playback begins at most one more    *)
(* data callback before the next play or pause, for every size of callback *)
(* and buffer, and however starts fail.  (Capture is OneAfterPause's       *)
(* counterexample.)                                                        *)
THEOREM PlaybackOneAfterPause == Spec => [](~is_input => OneAfterPause)
<1>1. Init => Budget BY DEF Init, Budget, Owed, BuildSteps
<1>2. IInv /\ (~is_input => Budget) /\ [Next]_vars => (~is_input => Budget)'
  <2> SUFFICES ASSUME IInv, ~is_input', ~is_input => Budget, [Next]_vars PROVE Budget'
    OBVIOUS
  <2>1. UNCHANGED is_input BY DirectionKept DEF vars
  <2>2. Budget /\ ~is_input BY <2>1
  <2>3. CASE App
    BY <2>2, <2>3, OwnerKeepsBudget, BuildKeepsBudget DEF App, AppContinue
  <2>4. CASE WorkerStep \/ Faults
    BY <2>2, <2>4, LoopKeepsBudget, EndsKeepBudget DEF WorkerStep
  <2>5. CASE Engine BY <2>2, <2>5, EndsKeepBudget
  <2>6. CASE UNCHANGED vars BY <2>2, <2>6 DEF Budget, Owed, vars, flags, owner
  <2>7. QED BY <2>3, <2>4, <2>5, <2>6 DEF Next
<1>3. (~is_input => Budget) => (~is_input => OneAfterPause) BY DEF Budget, OneAfterPause
<1>4. QED BY <1>1, <1>2, <1>3, Inductive, PTL DEF Spec

-----------------------------------------------------------------------------
(* Why the build and close return: the safety half of CallsReturn and      *)
(* PauseStops.                                                             *)

(* The callback buffer is full only while the callback has it; the padding *)
(* is playback's to look at.                                               *)
Filling == /\ worker # "data" \/ ~is_input => accum < FramesPerCb
           /\ worker = "padding" => ~is_input

LEMMA StepKeepsFilling == IInv /\ Filling /\ Next => Filling'
<1> SUFFICES ASSUME IInv, Filling, Next PROVE Filling'
  OBVIOUS
<1>1. CASE App
  BY <1>1 DEF App, AppContinue, PlayStore, PauseStore, Wake, Close, CallClosed, CloseAgain,
         ClosedOwner, New, NewFails, NewRelease, CreateEvent, CreateEventFails, CreateThread,
         CreateThreadFails, ThreadErrorReturn, AwaitInit, AwaitWake, CloseStore, CloseWake,
         CloseLook, CloseSignal, CloseJoin, CloseRelease, BuildAt, OwnerAt, CloseAt, AppAt,
         AppKeeps, Filling, IInv, Lifecycle, BeforeThread
<1>2. CASE Opening
  BY <1>2 DEF Opening, ComInit, ComInitFails, Device, DeviceStale, DeviceFails, StaleReturn,
         Default, DefaultFails, Activate, ActivateFails, MakeEvent, MakeEventFails, Service,
         ServiceFails, InitMark, InitWake, InitErrorReturn, FailHr, FailMark, FailWake, OpenAt,
         WorkerAt, Filling
<1>3. CASE Stop \/ CloseEvent \/ ClearEvent \/ ReleaseObjects
  BY <1>3 DEF Stop, CloseEvent, ClearEvent, ReleaseObjects, ExitAt, WorkerAt, Frames, Filling
<1>3a. CASE WaitAudio
  BY <1>3a DEF WaitAudio, Goes, RunAt, LoopAt, WorkerAt, WorkerKeeps, Frames, Filling
<1>4. CASE Loop \/ TestRunning \/ Nap \/ Start \/ StartFails \/ StartErrorReturn \/ StartFailed
           \/ Padding \/ Put \/ DrainDone \/ Release \/ IoErrorReturn \/ Faults
  BY <1>4 DEF Loop, TestRunning, Nap, Start, StartFails, StartErrorReturn, StartFailed,
         Padding, Put, DrainDone, Release, IoErrorReturn, Faults, PaddingFails, PutFails,
         LookFails, FetchFails, ReleaseFails, Serve, Goes, RunAt, LoopAt, WorkerAt, WorkerKeeps,
         Frames, Filling
<1>5. ASSUME NEW n \in 1..BufferFrames, Fetch(n) PROVE Filling'
  BY <1>5 DEF Fetch, RunAt, LoopAt, WorkerAt, Filling
<1>6. CASE Copy
  <2>1. is_input /\ UNCHANGED is_input BY <1>6, DirectionKept DEF Copy, RunAt, LoopAt, WorkerAt, Serve, IInv, Room
  <2>2. accum \in 0..FramesPerCb /\ accum' \in 0..FramesPerCb
    BY <1>6, TransferKeepsIInv DEF IInv, TypeOK
  <2>3. accum' = FramesPerCb => worker' = "data"
    BY <1>6 DEF Copy, RunAt, LoopAt, WorkerAt, Serve
  <2>4. worker' # "padding" BY <1>6 DEF Copy, RunAt, LoopAt, WorkerAt, Serve
  <2>5. QED BY <2>1, <2>2, <2>3, <2>4, WasapiAssumption DEF Filling
<1>7. CASE DataReturn
  BY <1>7, WasapiAssumption DEF DataReturn, RunAt, LoopAt, WorkerAt, Filling, IInv, Room, TypeOK
<1>8. CASE Engine BY <1>8 DEF Engine, Filling
<1>9. QED BY <1>3a, <1>1, <1>2, <1>3, <1>4, <1>5, <1>6, <1>7, <1>8 DEF Next, WorkerStep

(* How far the worker is from the top of its loop, and from there from its *)
(* exit, in steps. *)
Distance == CASE worker = "none" -> 15
              [] worker = "comInit" -> 14
              [] worker = "device" -> 13
              [] worker \in {"staleError", "testRunning"} -> 12
              [] worker \in {"default", "start"} -> 11
              [] worker \in {"activate", "waitAudio"} -> 10
              [] worker \in {"makeEvent", "padding"} -> 9
              [] worker = "service" -> 8
              [] worker = "data" -> IF is_input THEN 9 + 2 * to_copy ELSE 8
              [] worker = "copy" -> 8 + 2 * to_copy
              [] worker \in {"initMark", "initError", "startError", "put", "look"} -> 7
              [] worker \in {"initWake", "failHr", "startFailed", "nap", "ioError"} -> 6
              [] worker \in {"loop", "failMark"} -> 5
              [] worker \in {"stop", "failWake"} -> 4
              [] worker = "closeEvent" -> 3
              [] worker = "clearEvent" -> 2
              [] worker = "release" -> 1
              [] worker = "exited" -> 0

(* The only steps that lead away from the exit: the next round of a stream *)
(* that is not closed, and the next packet of a capture.                   *)
NextRound == worker = "loop" /\ ~closed
NextPacket == worker = "look" /\ worker' = "copy"

(* No other step of the worker goes round in a circle, whatever fails, and *)
(* neither the owner nor the engine sends it back.                         *)
EveryStepAdvances ==
  [][/\ WorkerStep \/ Faults => NextRound \/ NextPacket \/ Distance' < Distance
     /\ App \/ Engine => Distance' <= Distance]_vars

LEMMA DistanceBound ==
  ASSUME is_input \in BOOLEAN, worker \in WorkerSteps, to_copy \in 0..BufferFrames
  PROVE  Distance \in 0..(15 + 2 * BufferFrames)
<1> USE WasapiAssumption DEF WorkerSteps, OpenSteps, FailSteps, LoopSteps, ExitSteps
<1>1. CASE worker \in {"data", "copy"}
  <2>1. Distance \in {8, 8 + 2 * to_copy, 9 + 2 * to_copy} BY <1>1 DEF Distance
  <2>2. QED BY <2>1
<1>2. CASE worker \notin {"data", "copy"}
  <2>1. Distance \in 0..15 BY <1>2 DEF Distance
  <2>2. QED BY <2>1
<1>3. QED BY <1>1, <1>2

LEMMA OpeningAdvances == Opening => Distance' < Distance
<1> SUFFICES ASSUME Opening PROVE Distance' < Distance
  OBVIOUS
<1> USE DEF Distance, OpenAt, WorkerAt
<1>1. CASE ComInit BY <1>1 DEF ComInit
<1>2. CASE ComInitFails BY <1>2 DEF ComInitFails
<1>3. CASE Device BY <1>3 DEF Device
<1>4. CASE DeviceStale BY <1>4 DEF DeviceStale
<1>5. CASE DeviceFails BY <1>5 DEF DeviceFails
<1>6. CASE StaleReturn BY <1>6 DEF StaleReturn
<1>7. CASE Default BY <1>7 DEF Default
<1>8. CASE DefaultFails BY <1>8 DEF DefaultFails
<1>9. CASE Activate BY <1>9 DEF Activate
<1>10. CASE ActivateFails BY <1>10 DEF ActivateFails
<1>11. CASE MakeEvent BY <1>11 DEF MakeEvent
<1>12. CASE MakeEventFails BY <1>12 DEF MakeEventFails
<1>13. CASE Service BY <1>13 DEF Service
<1>14. CASE ServiceFails BY <1>14 DEF ServiceFails
<1>15. CASE InitMark BY <1>15 DEF InitMark
<1>16. CASE InitWake BY <1>16 DEF InitWake
<1>17. CASE InitErrorReturn BY <1>17 DEF InitErrorReturn
<1>18. CASE FailHr BY <1>18 DEF FailHr
<1>19. CASE FailMark BY <1>19 DEF FailMark
<1>20. CASE FailWake BY <1>20 DEF FailWake
<1> HIDE DEF Distance
<1>21. QED
  BY <1>1, <1>2, <1>3, <1>4, <1>5, <1>6, <1>7, <1>8, <1>9, <1>10, <1>11, <1>12, <1>13, <1>14,
     <1>15, <1>16, <1>17, <1>18, <1>19, <1>20
     DEF Opening

LEMMA LoopAdvances ==
  ASSUME IInv, Filling,
         Loop \/ TestRunning \/ Nap \/ Start \/ StartFails \/ StartErrorReturn \/ StartFailed
         \/ WaitAudio \/ Put \/ DrainDone \/ Release \/ IoErrorReturn
         \/ Stop \/ CloseEvent \/ ClearEvent \/ ReleaseObjects \/ Faults
  PROVE  NextRound \/ Distance' < Distance
<1> USE DEF IInv, TypeOK, Room, Distance, RunAt, LoopAt, ExitAt, WorkerAt, WorkerKeeps, Frames, Goes
<1>1. CASE Loop BY <1>1 DEF Loop, NextRound
<1>2. CASE TestRunning BY <1>2 DEF TestRunning
<1>3. CASE Nap BY <1>3 DEF Nap
<1>4. CASE Start BY <1>4 DEF Start
<1>5. CASE StartFails BY <1>5 DEF StartFails
<1>6. CASE StartErrorReturn BY <1>6 DEF StartErrorReturn
<1>7. CASE StartFailed BY <1>7 DEF StartFailed
<1>8. CASE WaitAudio BY <1>8 DEF WaitAudio
<1>9. CASE Put BY <1>9 DEF Put
<1>10. CASE DrainDone BY <1>10 DEF DrainDone
<1>11. CASE Release BY <1>11 DEF Release
<1>12. CASE IoErrorReturn BY <1>12 DEF IoErrorReturn
<1>13. CASE Stop BY <1>13 DEF Stop
<1>14. CASE CloseEvent BY <1>14 DEF CloseEvent
<1>15. CASE ClearEvent BY <1>15 DEF ClearEvent
<1>16. CASE ReleaseObjects BY <1>16 DEF ReleaseObjects
<1>17. CASE PaddingFails BY <1>17 DEF PaddingFails
<1>18. CASE PutFails BY <1>18 DEF PutFails
<1>19. CASE LookFails BY <1>19 DEF LookFails
<1>20. CASE FetchFails BY <1>20 DEF FetchFails
<1>21. CASE ReleaseFails BY <1>21 DEF ReleaseFails
<1> HIDE DEF Distance
<1>22. QED
  BY <1>1, <1>2, <1>3, <1>4, <1>5, <1>6, <1>7, <1>8, <1>9, <1>10, <1>11, <1>12, <1>13, <1>14,
     <1>15, <1>16, <1>17, <1>18, <1>19, <1>20, <1>21
     DEF Faults

LEMMA OneFrameLess ==
  ASSUME NEW x \in Nat, NEW y \in Nat, x < y
  PROVE  9 + 2 * x < 8 + 2 * y /\ 8 + 2 * x < 8 + 2 * y
OBVIOUS

LEMMA CaptureAdvances ==
  ASSUME IInv, Filling, Copy \/ DataReturn \/ Padding
  PROVE  Distance' < Distance
<1> USE WasapiAssumption DEF IInv, TypeOK, Room, RunAt, LoopAt, WorkerAt, WorkerKeeps, Goes, Serve, Frames
<1>1. CASE Padding
  <2>1. Distance = 9 BY <1>1 DEF Padding, Distance
  <2>2. worker' \in {"loop", "data"} /\ UNCHANGED <<is_input, to_copy>>
    BY <1>1 DEF Padding
  <2>3. ~is_input BY <1>1 DEF Padding, Filling
  <2>4. Distance' \in {5, 8} BY <2>2, <2>3 DEF Distance
  <2>5. QED BY <2>1, <2>4
<1>2. CASE Copy
  <2>1. worker = "copy" /\ is_input BY <1>2 DEF Copy
  <2>2. UNCHANGED is_input BY <1>2 DEF Copy
  <2>3. worker' \in {"copy", "data"} BY <1>2 DEF Copy
  <2>4. to_copy \in Nat /\ to_copy' \in Nat /\ to_copy' < to_copy
    <3>1. accum < FramesPerCb BY <2>1 DEF Filling
    <3>2. QED BY <1>2, <3>1 DEF Copy
  <2>5. Distance = 8 + 2 * to_copy BY <2>1 DEF Distance
  <2>6. Distance' \in {8 + 2 * to_copy', 9 + 2 * to_copy'}
    BY <2>1, <2>2, <2>3 DEF Distance
  <2>7. 9 + 2 * to_copy' < 8 + 2 * to_copy /\ 8 + 2 * to_copy' < 8 + 2 * to_copy
    BY <2>4, OneFrameLess
  <2>8. QED BY <2>5, <2>6, <2>7
<1>3. CASE DataReturn
  <2>1. UNCHANGED <<is_input, to_copy>> /\ worker = "data" BY <1>3 DEF DataReturn
  <2>2. CASE is_input
    <3>1. worker' = "copy" BY <1>3, <2>2 DEF DataReturn
    <3>2. Distance = 9 + 2 * to_copy /\ Distance' = 8 + 2 * to_copy BY <2>1, <2>2, <3>1 DEF Distance
    <3>3. QED BY <3>2
  <2>3. CASE ~is_input
    <3>1. worker' = "put" BY <1>3, <2>3 DEF DataReturn
    <3>2. QED BY <2>1, <2>3, <3>1 DEF Distance
  <2>4. QED BY <2>2, <2>3
<1>4. QED BY <1>1, <1>2, <1>3

LEMMA WorkerAdvances ==
  ASSUME IInv, Filling, WorkerStep \/ Faults
  PROVE  NextRound \/ NextPacket \/ Distance' < Distance
<1>1. (\E n \in 1..BufferFrames : Fetch(n)) => NextPacket
  BY DEF Fetch, RunAt, LoopAt, WorkerAt, NextPacket
<1>2. QED BY <1>1, OpeningAdvances, LoopAdvances, CaptureAdvances DEF WorkerStep

(* What neither the owner's calls nor the engine touch of the worker. *)
LEMMA OthersLeaveWorker ==
  ASSUME IInv, App \/ Engine
  PROVE  /\ UNCHANGED <<is_input, to_copy, accum, streaming>>
         /\ UNCHANGED worker \/ (worker = "none" /\ worker' = "comInit")
<1>1. UNCHANGED <<is_input, to_copy, accum, streaming>>
  BY DEF App, AppContinue, PlayStore, PauseStore, Wake, Close, CallClosed,
     CloseAgain, ClosedOwner, New, NewFails, NewRelease, CreateEvent, CreateEventFails,
     CreateThread, CreateThreadFails, ThreadErrorReturn, AwaitInit, AwaitWake, CloseStore,
     CloseWake, CloseLook, CloseSignal, CloseJoin, CloseRelease, BuildAt, OwnerAt, CloseAt,
     AppAt, AppKeeps, Engine, engine
<1>2. CASE CreateThread
  BY <1>1, <1>2 DEF CreateThread, BuildAt, AppAt, IInv, Lifecycle, BeforeThread
<1>3. CASE ~CreateThread
  BY <1>1, <1>3 DEF App, AppContinue, PlayStore, PauseStore, Wake, Close, CallClosed, CloseAgain,
     ClosedOwner, New, NewFails, NewRelease, CreateEvent, CreateEventFails,
     CreateThreadFails, ThreadErrorReturn, AwaitInit, AwaitWake, CloseStore, CloseWake,
     CloseLook, CloseSignal, CloseJoin, CloseRelease, BuildAt, OwnerAt, CloseAt, Engine
<1>4. QED BY <1>2, <1>3

LEMMA OthersAdvance ==
  ASSUME IInv, App \/ Engine
  PROVE  Distance' <= Distance
<1>1. CASE UNCHANGED worker
  <2>1. Distance' = Distance BY <1>1, OthersLeaveWorker DEF Distance
  <2>2. Distance \in Int BY DistanceBound, WasapiAssumption DEF IInv, TypeOK
  <2>3. QED BY <2>1, <2>2
<1>2. CASE worker = "none" /\ worker' = "comInit" BY <1>2 DEF Distance
<1>3. QED BY <1>1, <1>2, OthersLeaveWorker

LEMMA FillingInductive == Spec => []Filling
<1>1. Init => Filling BY WasapiAssumption DEF Init, Filling
<1>2. IInv /\ Filling /\ [Next]_vars => Filling'
  BY StepKeepsFilling DEF vars, Filling
<1>3. QED BY <1>1, <1>2, Inductive, PTL DEF Spec

(* Every build and every round of the worker's loop is a bounded number of *)
(* steps, at most 15 and two for each frame fetched; closed is looked at   *)
(* between rounds.  What keeps a build or a close waiting is therefore     *)
(* nothing but a capture that fetches packet after packet: the worker of a *)
(* closed playback stream, and one whose device fails, always leaves.      *)
THEOREM RoundsAreFinite == Spec => EveryStepAdvances /\ [](Distance \in 0..(15 + 2 * BufferFrames))
<1>1. TypeOK => Distance \in 0..(15 + 2 * BufferFrames) BY DistanceBound DEF TypeOK
<1>2. IInv => TypeOK BY DEF IInv
<1>3. ASSUME IInv, Filling, Next
      PROVE  /\ WorkerStep \/ Faults => NextRound \/ NextPacket \/ Distance' < Distance
             /\ App \/ Engine => Distance' <= Distance
  BY <1>3, WorkerAdvances, OthersAdvance
<1>4. QED BY <1>1, <1>2, <1>3, Inductive, FillingInductive, PTL DEF Spec, EveryStepAdvances

-----------------------------------------------------------------------------
(* Why a paused stream falls silent: the safety half of PauseStops.        *)

(* The audio client runs, or is about to be started. *)
Audible == streaming \/ worker = "start"

(* How far the worker of a paused stream is from having stopped it. *)
ToSilence == CASE ~Audible -> 0
               [] Audible /\ worker \in {"testRunning", "stop"} -> 1
               [] Audible /\ worker = "loop" -> 2
               [] Audible /\ worker \notin {"testRunning", "stop", "loop"} -> Distance

(* While the stream is paused every step of the worker, whatever fails,    *)
(* brings it nearer to its stop of the client, but for the next packet of  *)
(* a capture; a silent stream stays silent.                                *)
PauseAdvances ==
  [][~running => /\ WorkerStep \/ Faults =>
                      \/ NextPacket
                      \/ ToSilence' < ToSilence
                      \/ ~Audible /\ ~Audible'
                 /\ App \/ Engine => ToSilence' <= ToSilence]_vars

(* The worker knows that the client runs. *)
Started == worker \in LoopSteps /\ streaming => started

LEMMA StartedInductive == Spec => []Started
<1>1. Init => Started BY DEF Init, Started
<1>2. IInv /\ Started /\ [Next]_vars => Started'
  <2> SUFFICES ASSUME IInv, Started, [Next]_vars PROVE Started'
    OBVIOUS
  <2>1. CASE App \/ Engine
    <3>1. UNCHANGED started
      BY <2>1 DEF App, AppContinue, PlayStore, PauseStore, Wake, Close, CallClosed,
         CloseAgain, ClosedOwner, New, NewFails, NewRelease, CreateEvent, CreateEventFails,
         CreateThread, CreateThreadFails, ThreadErrorReturn, AwaitInit, AwaitWake, CloseStore,
         CloseWake, CloseLook, CloseSignal, CloseJoin, CloseRelease, BuildAt, OwnerAt, CloseAt,
         AppAt, AppKeeps, Engine, flags
    <3>2. QED BY <2>1, <3>1, OthersLeaveWorker DEF Started, LoopSteps
  <2>2. CASE Opening
    <3>1. ~streaming /\ UNCHANGED streaming
      BY <2>2 DEF Opening, ComInit, ComInitFails, Device, DeviceStale, DeviceFails, StaleReturn,
         Default, DefaultFails, Activate, ActivateFails, MakeEvent, MakeEventFails, Service,
         ServiceFails, InitMark, InitWake, InitErrorReturn, FailHr, FailMark, FailWake, OpenAt,
         WorkerAt, engine, IInv, Holdings, LoopSteps
    <3>2. QED BY <3>1 DEF Started
  <2>3. CASE TestRunning
    BY <2>3 DEF TestRunning, Goes, RunAt, LoopAt, WorkerAt, Started, LoopSteps
  <2>4. CASE Start BY <2>4 DEF Start, LoopAt, WorkerAt, Started, LoopSteps
  <2>5. CASE Loop \/ Nap \/ StartFails \/ StartErrorReturn \/ StartFailed \/ WaitAudio
    BY <2>5 DEF Loop, Nap, StartFails, StartErrorReturn, StartFailed, WaitAudio, Goes, RunAt,
       LoopAt, WorkerAt, Started, LoopSteps
  <2>6. CASE Padding \/ Put \/ DrainDone \/ Copy \/ DataReturn \/ Release \/ IoErrorReturn \/ Faults
    BY <2>6 DEF Padding, Put, DrainDone, Copy, DataReturn, Release, IoErrorReturn, Faults,
       PaddingFails, PutFails, LookFails, FetchFails, ReleaseFails, Serve, Goes, RunAt,
       LoopAt, WorkerAt, Started, LoopSteps
  <2>7. ASSUME NEW n \in 1..BufferFrames, Fetch(n) PROVE Started'
    BY <2>7 DEF Fetch, RunAt, LoopAt, WorkerAt, Started, LoopSteps
  <2>8. CASE Stop \/ CloseEvent \/ ClearEvent \/ ReleaseObjects
    BY <2>8 DEF Stop, CloseEvent, ClearEvent, ReleaseObjects, ExitAt, WorkerAt, Started, LoopSteps
  <2>9. CASE UNCHANGED vars BY <2>9 DEF vars, flags, engine, Started, LoopSteps
  <2>10. QED
    BY <2>1, <2>2, <2>3, <2>4, <2>5, <2>6, <2>7, <2>8, <2>9 DEF Next, WorkerStep
<1>3. QED BY <1>1, <1>2, Inductive, PTL DEF Spec

LEMMA SilentStaysSilent ==
  ASSUME IInv, ~running, ~Audible, WorkerStep \/ Faults
  PROVE  ~Audible'
<1> USE DEF Audible
<1>1. CASE Opening
  BY <1>1 DEF Opening, ComInit, ComInitFails, Device, DeviceStale, DeviceFails, StaleReturn,
     Default, DefaultFails, Activate, ActivateFails, MakeEvent, MakeEventFails, Service,
     ServiceFails, InitMark, InitWake, InitErrorReturn, FailHr, FailMark, FailWake, OpenAt,
     WorkerAt, engine
<1>2. CASE TestRunning BY <1>2 DEF TestRunning, Goes, RunAt, LoopAt, WorkerAt
<1>3. CASE Loop \/ Nap \/ Start \/ StartFails \/ StartErrorReturn \/ StartFailed \/ WaitAudio
  BY <1>3 DEF Loop, Nap, Start, StartFails, StartErrorReturn, StartFailed, WaitAudio, Goes,
     RunAt, LoopAt, WorkerAt
<1>4. CASE Padding \/ Put \/ DrainDone \/ Copy \/ DataReturn \/ Release \/ IoErrorReturn \/ Faults
  BY <1>4 DEF Padding, Put, DrainDone, Copy, DataReturn, Release, IoErrorReturn, Faults,
     PaddingFails, PutFails, LookFails, FetchFails, ReleaseFails, Serve, Goes, RunAt,
     LoopAt, WorkerAt
<1>5. ASSUME NEW n \in 1..BufferFrames, Fetch(n) PROVE ~Audible'
  BY <1>5 DEF Fetch, RunAt, LoopAt, WorkerAt
<1>6. CASE Stop \/ CloseEvent \/ ClearEvent \/ ReleaseObjects
  BY <1>6 DEF Stop, CloseEvent, ClearEvent, ReleaseObjects, ExitAt, WorkerAt
<1>7. QED BY <1>1, <1>2, <1>3, <1>4, <1>5, <1>6 DEF WorkerStep

(* The worker's own actions at the three places that end in a stop. *)
LEMMA AtTheStop ==
  ASSUME WorkerStep \/ Faults
  PROVE  /\ worker = "testRunning" => TestRunning
         /\ worker = "loop" => Loop
         /\ worker = "stop" => Stop
<1>1. CASE Opening
  BY <1>1 DEF Opening, ComInit, ComInitFails, Device, DeviceStale, DeviceFails, StaleReturn,
     Default, DefaultFails, Activate, ActivateFails, MakeEvent, MakeEventFails, Service,
     ServiceFails, InitMark, InitWake, InitErrorReturn, FailHr, FailMark, FailWake, OpenAt,
     WorkerAt
<1>2. CASE Nap \/ Start \/ StartFails \/ StartErrorReturn \/ StartFailed \/ WaitAudio
  BY <1>2 DEF Nap, Start, StartFails, StartErrorReturn, StartFailed, WaitAudio, Goes,
     RunAt, LoopAt, WorkerAt
<1>3. CASE Padding \/ Put \/ DrainDone \/ Copy \/ DataReturn \/ Release \/ IoErrorReturn \/ Faults
  BY <1>3 DEF Padding, Put, DrainDone, Copy, DataReturn, Release, IoErrorReturn, Faults,
     PaddingFails, PutFails, LookFails, FetchFails, ReleaseFails, Serve, Goes, RunAt,
     LoopAt, WorkerAt
<1>4. ASSUME NEW n \in 1..BufferFrames, Fetch(n) PROVE worker = "look"
  BY <1>4 DEF Fetch, RunAt, LoopAt, WorkerAt
<1>5. CASE CloseEvent \/ ClearEvent \/ ReleaseObjects
  BY <1>5 DEF CloseEvent, ClearEvent, ReleaseObjects, ExitAt, WorkerAt
<1>6. CASE Loop \/ TestRunning \/ Stop
  BY <1>6 DEF Loop, TestRunning, Stop, Goes, RunAt, LoopAt, ExitAt, WorkerAt
<1>7. QED BY <1>1, <1>2, <1>3, <1>4, <1>5, <1>6 DEF WorkerStep

LEMMA SilenceBound ==
  ASSUME IInv
  PROVE  /\ ToSilence \in 0..15 + 2 * BufferFrames
         /\ ToSilence = Distance \/ ToSilence \in {0, 1, 2}
<1>1. Distance \in 0..15 + 2 * BufferFrames /\ BufferFrames \in Nat
  BY DistanceBound, WasapiAssumption DEF IInv, TypeOK
<1> HIDE DEF Distance
<1>2. ToSilence = Distance \/ ToSilence \in {0, 1, 2} BY DEF ToSilence
<1>3. QED BY <1>1, <1>2

LEMMA SoonerStop ==
  ASSUME NEW d \in Int, NEW e, NEW t, d > 2, e < d, t = e \/ t \in {0, 1, 2}
  PROVE  t < d
OBVIOUS

LEMMA WorkerFallsSilent ==
  ASSUME IInv, IInv', Filling, Started, ~running, WorkerStep \/ Faults
  PROVE  NextPacket \/ ToSilence' < ToSilence \/ (~Audible /\ ~Audible')
<1>1. CASE ~Audible BY <1>1, SilentStaysSilent
<1>2. CASE Audible /\ worker = "testRunning"
  <2>1. ~streaming' /\ worker' = "nap"
    BY <1>2, AtTheStop DEF TestRunning, LoopAt, WorkerAt, Started, LoopSteps, Audible
  <2>2. ToSilence' = 0 BY <2>1 DEF ToSilence, Audible
  <2>3. ToSilence = 1 BY <1>2 DEF ToSilence
  <2>4. QED BY <2>2, <2>3
<1>3. CASE Audible /\ worker = "stop"
  <2>1. ~streaming' /\ worker' = "closeEvent" BY <1>3, AtTheStop DEF Stop, ExitAt, WorkerAt
  <2>2. ToSilence' = 0 BY <2>1 DEF ToSilence, Audible
  <2>3. ToSilence = 1 BY <1>3 DEF ToSilence
  <2>4. QED BY <2>2, <2>3
<1>4. CASE Audible /\ worker = "loop"
  <2>1. worker' \in {"stop", "testRunning"} BY <1>4, AtTheStop DEF Loop, Goes, RunAt, LoopAt, WorkerAt
  <2>2. ToSilence' \in {0, 1} BY <2>1 DEF ToSilence
  <2>3. ToSilence = 2 BY <1>4 DEF ToSilence
  <2>4. QED BY <2>2, <2>3
<1>5. CASE Audible /\ worker \notin {"testRunning", "stop", "loop"}
  <2>1. ToSilence = Distance BY <1>5 DEF ToSilence
  <2>2. worker \in LoopSteps BY <1>5 DEF Audible, IInv, Holdings, LoopSteps
  <2>3. Distance > 2 BY <1>5, <2>2, WasapiAssumption DEF LoopSteps, Distance, IInv, TypeOK
  <2>4. NextPacket \/ Distance' < Distance BY <1>5, WorkerAdvances DEF NextRound
  <2>5. ToSilence' = Distance' \/ ToSilence' \in {0, 1, 2}
    BY DEF ToSilence
  <2>6. Distance \in Int BY DistanceBound, WasapiAssumption DEF IInv, TypeOK
  <2>7. ASSUME Distance' < Distance PROVE ToSilence' < Distance
    BY <2>3, <2>5, <2>6, <2>7, SoonerStop, Zenon
  <2>8. QED BY <2>1, <2>4, <2>7, Zenon
<1>6. QED BY <1>1, <1>2, <1>3, <1>4, <1>5

LEMMA OthersLeaveSilence ==
  ASSUME IInv, App \/ Engine
  PROVE  ToSilence' <= ToSilence
<1>1. CASE UNCHANGED worker
  <2>1. Distance' = Distance BY <1>1, OthersLeaveWorker DEF Distance
  <2>2. ToSilence' = ToSilence BY <1>1, <2>1, OthersLeaveWorker DEF ToSilence, Audible
  <2>3. ToSilence \in Int BY SilenceBound, WasapiAssumption
  <2>4. QED BY <2>2, <2>3
<1>2. CASE worker = "none" /\ worker' = "comInit"
  <2>1. ~Audible /\ ~Audible'
    BY <1>2, OthersLeaveWorker DEF Audible, IInv, Holdings, LoopSteps
  <2>2. QED BY <2>1 DEF ToSilence
<1>3. QED BY <1>1, <1>2, OthersLeaveWorker

(* A paused stream stops its audio client after a bounded number of steps  *)
(* of its worker and for good, however its calls fail; only a capture that *)
(* fetches packet after packet can put it off, as PauseStops says.         *)
THEOREM PauseIsHeeded == Spec => PauseAdvances /\ [](ToSilence \in 0..15 + 2 * BufferFrames)
<1>1. IInv => ToSilence \in 0..15 + 2 * BufferFrames BY SilenceBound
<1>2. ASSUME IInv, IInv', Filling, Started, ~running, Next
      PROVE  /\ WorkerStep \/ Faults =>
                  \/ NextPacket
                  \/ ToSilence' < ToSilence
                  \/ ~Audible /\ ~Audible'
             /\ App \/ Engine => ToSilence' <= ToSilence
  BY <1>2, WorkerFallsSilent, OthersLeaveSilence
<1>3. QED
  BY <1>1, <1>2, Inductive, FillingInductive, StartedInductive, PTL DEF Spec, PauseAdvances

-----------------------------------------------------------------------------
(* Why a playing stream goes on: the safety half of KeepsPlaying.          *)

(* The place of a step in the loop, counted from the data callback; a      *)
(* capture comes round once at most for every frame its buffer lacks.      *)
Place == CASE worker = "copy" -> IF to_copy = 0 THEN 2 ELSE 0
           [] worker \in {"padding", "look"} -> 1
           [] worker = "waitAudio" -> 2
           [] worker = "start" -> 3
           [] worker = "testRunning" -> 4
           [] worker = "loop" -> 5
           [] worker \in {"put", "nap", "ioError", "startFailed"} -> 6
           [] worker = "startError" -> 7

ToData == CASE worker = "data" -> 0
            [] worker # "data" /\ is_input -> Place + 3 * (FramesPerCb - accum)
            [] worker # "data" /\ ~is_input -> Place

(* What keeps the worker from its callback and is not its own doing: the   *)
(* engine has signalled nothing, has no room, or has recorded nothing.     *)
EngineLate == \/ worker = "waitAudio" /\ ~audio
              \/ worker = "padding" /\ BufferFrames - frames < FramesPerCb
              \/ worker = "look" /\ frames = 0

(* Every other step of the worker of a playing stream outside the callback,*)
(* unless a call of the audio client fails, brings the next one nearer.    *)
RoundAdvances ==
  [][running /\ ~closed /\ worker \in LoopSteps =>
       /\ WorkerStep => worker = "data" \/ EngineLate \/ StartFails \/ ToData' < ToData
       /\ App \/ Engine => ToData' <= ToData]_vars

LEMMA PlaceBound ==
  ASSUME TypeOK, worker \in LoopSteps
  PROVE  worker # "data" => Place \in 0..7
<1> HAVE worker # "data"
<1>1. QED BY DEF LoopSteps, Place

LEMMA ToDataBound == IInv /\ worker \in LoopSteps => ToData \in 0..7 + 3 * FramesPerCb
<1> SUFFICES ASSUME IInv, worker \in LoopSteps PROVE ToData \in 0..7 + 3 * FramesPerCb
  OBVIOUS
<1>1. accum \in 0..FramesPerCb /\ FramesPerCb \in Nat /\ is_input \in BOOLEAN
  BY WasapiAssumption DEF IInv, TypeOK
<1>2. CASE worker = "data"
  <2>1. ToData = 0 BY <1>2 DEF ToData
  <2>2. QED BY <1>1, <2>1
<1>3. CASE worker # "data"
  <2>1. Place \in 0..7 BY <1>3, PlaceBound DEF IInv
  <2>2. CASE is_input
    <3>1. ToData = Place + 3 * (FramesPerCb - accum) BY <1>3, <2>2 DEF ToData
    <3>2. QED BY <1>1, <2>1, <3>1
  <2>3. CASE ~is_input
    <3>1. ToData = Place BY <1>3, <2>3 DEF ToData
    <3>2. QED BY <1>1, <2>1, <3>1
  <2>4. QED BY <1>1, <2>2, <2>3
<1>4. QED BY <1>2, <1>3

(* A step further in the loop that copies no frame. *)
LEMMA NextPlace ==
  ASSUME IInv, UNCHANGED <<is_input, accum>>,
         worker # "data", worker' # "data",
         NEW p \in Int, NEW q \in Int, Place = p, Place' = q, q < p
  PROVE  ToData' < ToData
<1>1. accum \in Int /\ FramesPerCb \in Int /\ is_input \in BOOLEAN
  BY WasapiAssumption DEF IInv, TypeOK
<1>2. CASE is_input
  <2>1. ToData = p + 3 * (FramesPerCb - accum) /\ ToData' = q + 3 * (FramesPerCb - accum)
    BY <1>2 DEF ToData
  <2>2. QED BY <1>1, <2>1
<1>3. CASE ~is_input
  <2>1. ToData = p /\ ToData' = q BY <1>3 DEF ToData
  <2>2. QED BY <2>1
<1>4. QED BY <1>1, <1>2, <1>3

LEMMA FramesNearer ==
  ASSUME NEW f \in Nat, NEW a \in Nat, NEW b \in Nat, a < b, b <= f
  PROVE  2 + 3 * (f - b) < 0 + 3 * (f - a) /\ 0 < 0 + 3 * (f - a) /\ 0 + 3 * (f - b) < 0 + 3 * (f - a)
OBVIOUS

LEMMA CopyNearer ==
  ASSUME IInv, IInv', Filling, Copy
  PROVE  ToData' < ToData
<1> USE WasapiAssumption DEF IInv, TypeOK, RunAt, LoopAt, WorkerAt, WorkerKeeps, Serve
<1>1. worker = "copy" /\ is_input /\ UNCHANGED is_input BY DEF Copy, Room
<1>2. accum < FramesPerCb BY <1>1 DEF Filling
<1>3. to_copy \in Nat /\ to_copy > 0 BY DEF Copy
<1>4. /\ accum \in Nat /\ accum' \in Nat /\ FramesPerCb \in Nat
      /\ accum < accum' /\ accum' <= FramesPerCb
  BY <1>2, <1>3 DEF Copy
<1>5. worker' = "data" \/ worker' = "copy" BY DEF Copy
<1>6. ToData = 0 + 3 * (FramesPerCb - accum) BY <1>1, <1>3 DEF ToData, Place
<1>7. CASE worker' = "data"
  <2>1. ToData' = 0 BY <1>7 DEF ToData
  <2>2. QED BY <1>4, <1>6, <2>1, FramesNearer
<1>8. CASE worker' = "copy"
  <2>1. ToData' \in {2 + 3 * (FramesPerCb - accum'), 0 + 3 * (FramesPerCb - accum')}
    <3>1. Place' \in {0, 2} BY <1>8 DEF Place
    <3>2. ToData' = Place' + 3 * (FramesPerCb - accum') BY <1>1, <1>8 DEF ToData
    <3>3. QED BY <3>1, <3>2
  <2>2. QED BY <1>4, <1>6, <2>1, FramesNearer
<1>9. QED BY <1>5, <1>7, <1>8

LEMMA WorkerRound ==
  ASSUME IInv, IInv', Filling, running, ~closed, worker \in LoopSteps, WorkerStep
  PROVE  worker = "data" \/ EngineLate \/ StartFails \/ ToData' < ToData
<1> USE DEF Goes, RunAt, LoopAt, WorkerAt, WorkerKeeps, Frames, Place
<1>1. CASE Loop BY <1>1, NextPlace DEF Loop
<1>2. CASE TestRunning BY <1>2, NextPlace DEF TestRunning
<1>3. CASE Nap BY <1>3, NextPlace DEF Nap
<1>4. CASE Start BY <1>4, NextPlace DEF Start
<1>5. CASE StartErrorReturn BY <1>5, NextPlace DEF StartErrorReturn
<1>6. CASE StartFailed BY <1>6, NextPlace DEF StartFailed
<1>7. CASE WaitAudio
  <2>1. CASE ~audio BY <1>7, <2>1 DEF WaitAudio, EngineLate
  <2>2. CASE audio
    <3>1. /\ worker = "waitAudio" /\ worker' \in {"look", "padding"}
          /\ UNCHANGED <<is_input, accum>>
      BY <1>7, <2>2 DEF WaitAudio
    <3>2. Place = 2 /\ Place' = 1 BY <3>1
    <3>3. QED BY <3>1, <3>2, NextPlace
  <2>3. QED BY <2>1, <2>2
<1>8. CASE Padding
  <2>1. CASE BufferFrames - frames < FramesPerCb BY <1>8, <2>1 DEF Padding, EngineLate
  <2>2. CASE ~(BufferFrames - frames < FramesPerCb)
    <3>1. worker = "padding" /\ worker' = "data" BY <1>8, <2>2 DEF Padding, Serve
    <3>2. ~is_input BY <3>1 DEF Filling
    <3>3. ToData = 1 /\ ToData' = 0 BY <3>1, <3>2 DEF ToData
    <3>4. QED BY <3>3
  <2>3. QED BY <2>1, <2>2
<1>9. CASE Put BY <1>9, NextPlace DEF Put
<1>10. CASE DrainDone BY <1>10 DEF DrainDone, EngineLate
<1>11. ASSUME NEW n \in 1..BufferFrames, Fetch(n) PROVE ToData' < ToData
  <2>1. to_copy' # 0 BY <1>11, WasapiAssumption DEF Fetch
  <2>2. QED BY <1>11, <2>1, NextPlace DEF Fetch
<1>12. CASE Copy BY <1>12, CopyNearer
<1>13. CASE DataReturn BY <1>13 DEF DataReturn
<1>14. CASE Release BY <1>14, NextPlace DEF Release
<1>15. CASE IoErrorReturn BY <1>15, NextPlace DEF IoErrorReturn
<1>16. CASE Stop \/ CloseEvent \/ ClearEvent \/ ReleaseObjects
  BY <1>16 DEF Stop, CloseEvent, ClearEvent, ReleaseObjects, ExitAt, LoopSteps
<1>17. CASE Opening
  BY <1>17 DEF Opening, ComInit, ComInitFails, Device, DeviceStale, DeviceFails, StaleReturn,
     Default, DefaultFails, Activate, ActivateFails, MakeEvent, MakeEventFails, Service,
     ServiceFails, InitMark, InitWake, InitErrorReturn, FailHr, FailMark, FailWake, OpenAt,
     LoopSteps
<1> HIDE DEF Goes, RunAt, LoopAt, WorkerAt, WorkerKeeps, Frames, Place
<1>18. QED
  BY <1>1, <1>2, <1>3, <1>4, <1>5, <1>6, <1>7, <1>8, <1>9, <1>10, <1>11, <1>12, <1>13,
     <1>14, <1>15, <1>16, <1>17 DEF WorkerStep

LEMMA OthersLeaveRound ==
  ASSUME IInv, worker \in LoopSteps, App \/ Engine
  PROVE  ToData' <= ToData
<1>1. UNCHANGED <<worker, is_input, to_copy, accum>> BY OthersLeaveWorker DEF LoopSteps
<1>2. ToData' = ToData BY <1>1 DEF ToData, Place
<1>3. ToData \in Int BY ToDataBound, WasapiAssumption
<1>4. QED BY <1>2, <1>3

(* A playing stream cannot lose its way to the data callback: as long as   *)
(* the engine signals, has room or records, and no call fails, every step  *)
(* of the worker brings the callback nearer, and the distance is bounded   *)
(* by the callback's frames.                                               *)
THEOREM NextRoundIsNear ==
  Spec => RoundAdvances /\ [](worker \in LoopSteps => ToData \in 0..7 + 3 * FramesPerCb)
<1>1. IInv => (worker \in LoopSteps => ToData \in 0..7 + 3 * FramesPerCb) BY ToDataBound
<1>2. ASSUME IInv, IInv', Filling, running, ~closed, worker \in LoopSteps, Next
      PROVE  /\ WorkerStep => worker = "data" \/ EngineLate \/ StartFails \/ ToData' < ToData
             /\ App \/ Engine => ToData' <= ToData
  BY <1>2, WorkerRound, OthersLeaveRound
<1>3. QED BY <1>1, <1>2, Inductive, FillingInductive, PTL DEF Spec, RoundAdvances
=============================================================================
