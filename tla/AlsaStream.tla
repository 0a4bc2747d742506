----------------------------- MODULE AlsaStream -----------------------------
(***************************************************************************)
(* One ALSA stream after a successful build (alsa/alsa_stream.c): the      *)
(* application thread that calls play, pause and close on the stream's     *)
(* owner, the worker thread of alsa_thread_main, and the kernel PCM both   *)
(* of them drive.                                                          *)
(*                                                                         *)
(* A step is one access to state the other thread also uses: a store or a  *)
(* load of an atomic, a PCM call, a wait or a broadcast.  The two loads of *)
(* the I/O loop's condition are one step: closed only rises, after running *)
(* was cleared, so the pair takes the branch one of the two instants gives.*)
(* The mutex is held by the worker exactly while it is between its lock    *)
(* and its wait or unlock, so no variable of its own records it.           *)
(*                                                                         *)
(* A definition marked "Deviation" is not the code: it is a mistake the    *)
(* definition after it could have had, and shows which property notices.   *)
(***************************************************************************)
EXTENDS Integers

CONSTANTS Period,       \* buffer_frames, the frames of one data callback
          DeviceFaults  \* the device may fail a transfer with an errno

ASSUME AlsaAssumption == /\ DeviceFaults \in BOOLEAN
                         /\ Period \in Nat \ {0}

VARIABLES is_input,         \* capture (readi) or playback (writei), set by the build
          running, closed,  \* the two atomics of the stream
          handle,           \* the owner's handle is not 0: the stream exists
          ret,              \* what the last owner call returned
          app,              \* where the application thread is
          worker,           \* where the worker thread is
          frames_left,      \* frames of the buffer still to transfer
          pcm, level        \* PCM state, and frames in its ring buffer

vars == <<is_input, running, closed, handle, ret, app, worker, frames_left, pcm, level>>
appVars == <<handle, ret, app>>
pcmVars == <<pcm, level>>

BufferSize == 2 * Period

AppSteps == {"idle", "playPrepare", "playWake", "pauseDrop", "closeMark",
             "closeWake", "closeDrop", "closeJoin", "closeRelease"}
WorkerSteps == {"lock", "testRunning", "testClosed", "waiting", "checkClosed",
                "data", "loop", "io", "xrun", "xrunPrepare", "fault",
                "faultPrepare", "exited"}
PcmStates == {"SETUP", "PREPARED", "RUNNING", "XRUN", "CLOSED"}

TypeOK == /\ is_input \in BOOLEAN
          /\ running \in BOOLEAN /\ closed \in BOOLEAN /\ handle \in BOOLEAN
          /\ ret \in {"ok", "EINVAL"}
          /\ app \in AppSteps
          /\ worker \in WorkerSteps
          /\ frames_left \in 0..Period
          /\ pcm \in PcmStates
          /\ level \in 0..BufferSize

(* Built, not played: alsa_configure_pcm has prepared the PCM and the      *)
(* worker has just been created.                                           *)
Init == /\ is_input \in BOOLEAN
        /\ running = FALSE /\ closed = FALSE /\ handle = TRUE /\ ret = "ok"
        /\ app = "idle" /\ worker = "lock"
        /\ frames_left = 0
        /\ pcm = "PREPARED" /\ level = 0

-----------------------------------------------------------------------------
(* The PCM: what the program relies on of snd_pcm_*.                       *)

(* prepare is refused (-EBUSY, ignored by every caller) while it runs; in  *)
(* any other state it empties the ring buffer.                             *)
PcmPrepare == IF pcm = "RUNNING" THEN UNCHANGED pcmVars
              ELSE pcm' = "PREPARED" /\ level' = 0

(* drop stops at once and forgets the pending frames. *)
PcmDrop == pcm' = "SETUP" /\ level' = 0

(* The hardware plays or captures one frame; an empty playback buffer or a *)
(* full capture buffer is an XRUN.                                         *)
HwTick == /\ pcm = "RUNNING"
          /\ IF is_input THEN level < BufferSize /\ level' = level + 1
                        ELSE level > 0 /\ level' = level - 1
          /\ pcm' = IF level' = (IF is_input THEN BufferSize ELSE 0) THEN "XRUN" ELSE "RUNNING"
          /\ UNCHANGED <<is_input, running, closed, appVars, worker, frames_left>>

-----------------------------------------------------------------------------
(* The application thread.                                                 *)

MutexFree == worker \notin {"testRunning", "testClosed"}

(* Deviation: broadcast without taking the mutex. *)
BroadcastUnlocked == worker' = IF worker = "waiting" THEN "lock" ELSE worker

(* lock; broadcast; unlock: a waiting worker goes for the mutex again. *)
Broadcast == /\ MutexFree
             /\ worker' = IF worker = "waiting" THEN "lock" ELSE worker

(* play: running = 1, prepare, wake. *)
PlayStore == /\ app = "idle" /\ handle
             /\ running' = TRUE /\ app' = "playPrepare"
             /\ UNCHANGED <<is_input, closed, handle, ret, worker, frames_left, pcmVars>>

PlayPrepare == /\ app = "playPrepare" /\ app' = "playWake"
               /\ PcmPrepare
               /\ UNCHANGED <<is_input, running, closed, handle, ret, worker, frames_left>>

PlayWake == /\ app = "playWake" /\ app' = "idle" /\ ret' = "ok"
            /\ Broadcast
            /\ UNCHANGED <<is_input, running, closed, handle, frames_left, pcmVars>>

(* pause: running = 0, drop.  Nothing to wake: the drop ends a blocked     *)
(* transfer.                                                               *)
PauseStore == /\ app = "idle" /\ handle
              /\ running' = FALSE /\ app' = "pauseDrop"
              /\ UNCHANGED <<is_input, closed, handle, ret, worker, frames_left, pcmVars>>

PauseDrop == /\ app = "pauseDrop" /\ app' = "idle" /\ ret' = "ok"
             /\ PcmDrop
             /\ UNCHANGED <<is_input, running, closed, handle, worker, frames_left>>

(* close, or the finalizer of the owner: running = 0, closed = 1, wake,    *)
(* drop, join, release everything, handle = 0.                             *)
CloseStore == /\ app = "idle" /\ handle
              /\ running' = FALSE /\ app' = "closeMark"
              /\ UNCHANGED <<is_input, closed, handle, ret, worker, frames_left, pcmVars>>

CloseMark == /\ app = "closeMark" /\ app' = "closeWake"
             /\ closed' = TRUE
             /\ UNCHANGED <<is_input, running, handle, ret, worker, frames_left, pcmVars>>

CloseWake == /\ app = "closeWake" /\ app' = "closeDrop"
             /\ Broadcast
             /\ UNCHANGED <<is_input, running, closed, handle, ret, frames_left, pcmVars>>

(* Deviation: close does not drop the PCM before it joins. *)
CloseNoDrop == /\ app = "closeDrop" /\ app' = "closeJoin"
               /\ UNCHANGED <<is_input, running, closed, handle, ret, worker, frames_left, pcmVars>>

CloseDrop == /\ app = "closeDrop" /\ app' = "closeJoin"
             /\ PcmDrop
             /\ UNCHANGED <<is_input, running, closed, handle, ret, worker, frames_left>>

(* Deviation: close does not join the worker. *)
CloseNoJoin == /\ app = "closeJoin" /\ app' = "closeRelease"
               /\ UNCHANGED <<is_input, running, closed, handle, ret, worker, frames_left, pcmVars>>

CloseJoin == /\ app = "closeJoin" /\ app' = "closeRelease"
             /\ worker = "exited"
             /\ UNCHANGED <<is_input, running, closed, handle, ret, worker, frames_left, pcmVars>>

CloseRelease == /\ app = "closeRelease" /\ app' = "idle" /\ ret' = "ok"
                /\ pcm' = "CLOSED" /\ level' = 0
                /\ handle' = FALSE
                /\ UNCHANGED <<is_input, running, closed, worker, frames_left>>

(* play and pause on a closed owner fail, close again succeeds; none of    *)
(* them touches the stream, which is gone.                                 *)
ClosedOwner == /\ app = "idle" /\ ~handle
               /\ UNCHANGED <<is_input, running, closed, handle, app, worker, frames_left, pcmVars>>
CallClosed == ClosedOwner /\ ret' = "EINVAL"
CloseAgain == ClosedOwner /\ ret' = "ok"

AppContinue == \/ PlayPrepare \/ PlayWake \/ PauseDrop
               \/ CloseMark \/ CloseWake \/ CloseDrop \/ CloseJoin \/ CloseRelease

App == PlayStore \/ PauseStore \/ CloseStore \/ CallClosed \/ CloseAgain \/ AppContinue

-----------------------------------------------------------------------------
(* The worker thread.                                                      *)

WorkerKeeps == UNCHANGED <<is_input, running, closed, appVars>>
WorkerAt(from, to) == worker = from /\ worker' = to /\ WorkerKeeps
Quiet == UNCHANGED <<frames_left, pcmVars>>

(* while (running == 0 && closed == 0) wait, under the mutex. *)
Lock == WorkerAt("lock", "testRunning") /\ Quiet
TestRunning == WorkerAt("testRunning", IF running THEN "checkClosed" ELSE "testClosed") /\ Quiet
TestClosed == WorkerAt("testClosed", IF closed THEN "checkClosed" ELSE "waiting") /\ Quiet

(* A wait may also return without a broadcast. *)
SpuriousWake == WorkerAt("waiting", "lock") /\ Quiet

(* Deviation: frames_left starts at the ring buffer's size. *)
CheckClosedWide == /\ worker = "checkClosed" /\ WorkerKeeps
                   /\ \/ closed /\ worker' = "exited" /\ UNCHANGED frames_left
                      \/ /\ ~closed
                         /\ worker' = IF is_input THEN "loop" ELSE "data"
                         /\ frames_left' = BufferSize
                   /\ UNCHANGED pcmVars

(* Out of the wait: leave the thread, or serve one round.  Playback calls  *)
(* the data callback first, capture fills the buffer first.                *)
CheckClosed == /\ worker = "checkClosed" /\ WorkerKeeps
               /\ \/ closed /\ worker' = "exited" /\ UNCHANGED frames_left
                  \/ /\ ~closed
                     /\ worker' = IF is_input THEN "loop" ELSE "data"
                     /\ frames_left' = Period
               /\ UNCHANGED pcmVars

(* The data callback returns. *)
DataReturn == WorkerAt("data", IF is_input THEN "lock" ELSE "loop") /\ Quiet

(* Deviation: the I/O loop does not look at running. *)
LoopThroughPause == /\ WorkerAt("loop", IF frames_left > 0 /\ ~closed THEN "io"
                                        ELSE IF is_input THEN "data" ELSE "lock")
                    /\ Quiet

(* Deviation: playback waits for play only before its first round. *)
LoopNoWait == /\ WorkerAt("loop", IF frames_left > 0 /\ running /\ ~closed THEN "io"
                                  ELSE IF is_input THEN "data" ELSE "checkClosed")
              /\ Quiet

(* while (frames_left > 0 && running != 0 && closed == 0): after the loop  *)
(* capture calls the data callback, full buffer or not.                    *)
Loop == /\ WorkerAt("loop", IF frames_left > 0 /\ running /\ ~closed THEN "io"
                            ELSE IF is_input THEN "data" ELSE "lock")
        /\ Quiet

(* writei or readi returns n frames: playback starts by itself once the    *)
(* start threshold of two periods is queued.  A blocked call is one that   *)
(* has no n > 0 to return yet.                                             *)
IoTransfer(n) == /\ n <= frames_left
                 /\ frames_left' = frames_left - n
                 /\ IF is_input
                    THEN pcm = "RUNNING" /\ n <= level /\ level' = level - n /\ UNCHANGED pcm
                    ELSE /\ pcm \in {"PREPARED", "RUNNING"}
                         /\ level' = level + n /\ level' <= BufferSize
                         /\ pcm' = IF level' = BufferSize THEN "RUNNING" ELSE pcm
                 /\ WorkerAt("io", "loop")

(* A capture transfer starts a prepared PCM: its start threshold is 1. *)
IoStart == /\ is_input /\ pcm = "PREPARED" /\ pcm' = "RUNNING"
           /\ WorkerAt("io", "io")
           /\ UNCHANGED <<frames_left, level>>

(* -EPIPE. *)
IoXrun == pcm = "XRUN" /\ WorkerAt("io", "xrun") /\ Quiet

(* A negative errno: -EBADFD for a PCM that was dropped and not prepared   *)
(* again, or whatever a faulty device answers.                             *)
IoBadState == pcm = "SETUP" /\ WorkerAt("io", "fault") /\ Quiet
IoDeviceFault == DeviceFaults /\ WorkerAt("io", "fault") /\ Quiet

(* Each error is reported, then the PCM is prepared again; an XRUN retries *)
(* the rest of the buffer, another error gives the buffer up.              *)
XrunReturn == WorkerAt("xrun", "xrunPrepare") /\ Quiet
XrunPrepare == WorkerAt("xrunPrepare", "loop") /\ PcmPrepare /\ UNCHANGED frames_left
FaultReturn == WorkerAt("fault", "faultPrepare") /\ Quiet
FaultPrepare == /\ WorkerAt("faultPrepare", IF is_input THEN "data" ELSE "lock")
                /\ PcmPrepare
                /\ UNCHANGED frames_left

Transfer == \E n \in 1..Period : IoTransfer(n)

WorkerStep == \/ Lock \/ TestRunning \/ TestClosed \/ CheckClosed
              \/ DataReturn \/ Loop
              \/ IoStart \/ IoXrun \/ IoBadState
              \/ XrunReturn \/ XrunPrepare \/ FaultReturn \/ FaultPrepare

Worker == WorkerStep \/ SpuriousWake \/ Transfer \/ IoTransfer(0) \/ IoDeviceFault

Next == App \/ Worker \/ HwTick

Spec == Init /\ [][Next]_vars

(* The operating system runs both threads, the user's callbacks return, and*)
(* a transfer that can move frames again and again does in the end.  The   *)
(* application need not call anything, and the hardware may stall.         *)
FairSpec == Spec /\ WF_vars(AppContinue) /\ WF_vars(WorkerStep) /\ SF_vars(Transfer)

-----------------------------------------------------------------------------
(* Properties.                                                             *)

(* The stream keeps the contract of StreamContract: a round begins with the*)
(* worker's last look at running before a callback.                        *)
Mode == IF ~handle THEN "closed" ELSE IF closed THEN "closing"
        ELSE IF running THEN "playing" ELSE "idle"
Round == CASE worker = "checkClosed" /\ ~closed -> "due"
           [] is_input /\ worker \in {"loop", "io", "xrun", "xrunPrepare", "fault", "faultPrepare"} -> "due"
           [] worker = "data" -> "served"
           [] ~is_input /\ worker \in {"loop", "io", "xrun", "xrunPrepare", "fault", "faultPrepare"} -> "served"
           [] OTHER -> "none"
Busy == IF worker = "data" THEN "data" ELSE IF worker \in {"xrun", "fault"} THEN "error" ELSE "none"

Contract == INSTANCE StreamContract WITH mode <- Mode, round <- Round, busy <- Busy

KeepsContract == Contract!CSpec

(* Once pause has returned the device stays silent until the next play:    *)
(* however the drop falls between the worker's test of running, its        *)
(* transfer and its recovery, nothing starts the PCM again (the worker may *)
(* leave it prepared).                                                     *)
PausedSilent == app = "idle" /\ ~running => pcm # "RUNNING"

(* The PCM is closed and the stream freed only when the worker has left,   *)
(* and no call on the owner reaches either of them afterwards.             *)
ReleasedUnused == pcm = "CLOSED" \/ ~handle => worker = "exited" /\ app = "idle"

(* close always returns, even if the hardware stalls with the worker       *)
(* blocked in a transfer.                                                  *)
CloseReturns == app = "closeMark" ~> ~handle

(* A stream that is left playing, on hardware that keeps its clock, keeps  *)
(* calling its data callback: no wakeup is lost between the store of       *)
(* running and the wait.  (A capture that overruns in every transfer never *)
(* fills its buffer: that is left out.)                                    *)
Overrun == is_input /\ worker = "xrun"
KeepsPlaying == WF_vars(HwTick) /\ <>[](running /\ app = "idle" /\ ~Overrun)
                  => []<>(worker = "data")
=============================================================================
