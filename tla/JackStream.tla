----------------------------- MODULE JackStream -----------------------------
(***************************************************************************)
(* One JACK stream after a successful build (jack/jack_stream.c): the      *)
(* application thread that calls play, pause and close on the owner, the   *)
(* worker thread of jack_thread_main, and the server, which calls the      *)
(* xrun, sample-rate, shutdown and process callbacks from its own threads. *)
(*                                                                         *)
(* A step is one access to a shared atomic, a wait, a broadcast or a user  *)
(* callback.  The rings are JackRings' subject: here they only have room   *)
(* for a round (playback) or hold the frames of one (capture), or not.     *)
(*                                                                         *)
(* A definition marked "Deviation" is not the code: it is a mistake the    *)
(* definition after it could have had, and shows which property notices.   *)
(***************************************************************************)

VARIABLES running, closed,       \* the two lifecycle atomics
          xrun_pending, shutdown_pending, sample_rate_changed_pending,
          sample_rate_init_seen, \* the server's first sample-rate call has come
          handle,                \* the owner's handle is not 0: the stream exists
          client,                \* the JACK client is open: the server may call
          ret,                   \* what the last owner call returned
          app, worker,           \* where the application and the worker are
          shutdown,              \* where jack_shutdown_cb is: "none", its steps, "over"
          ready                  \* every ring has room for, or holds, one round

pending == <<xrun_pending, shutdown_pending, sample_rate_changed_pending, sample_rate_init_seen>>
owner == <<handle, client, ret, app>>
vars == <<running, closed, pending, owner, worker, shutdown, ready>>

AppSteps == {"idle", "wake", "closeWake", "closeJoin", "closeClient", "closeRelease"}
WorkerSteps == {"lock", "testRunning", "testClosed", "waiting", "takeShutdown", "shutdownError",
                "checkClosed", "takeXrun", "xrunError", "takeRate", "rateError", "rateClose",
                "checkRings", "data", "exited"}

TypeOK == /\ running \in BOOLEAN /\ closed \in BOOLEAN
          /\ xrun_pending \in BOOLEAN /\ shutdown_pending \in BOOLEAN
          /\ sample_rate_changed_pending \in BOOLEAN /\ sample_rate_init_seen \in BOOLEAN
          /\ handle \in BOOLEAN /\ client \in BOOLEAN
          /\ ret \in {"ok", "error"}
          /\ app \in AppSteps /\ worker \in WorkerSteps
          /\ shutdown \in {"none", "mark", "wake", "over"}
          /\ ready \in BOOLEAN

Init == /\ running = FALSE /\ closed = FALSE
        /\ xrun_pending = FALSE /\ shutdown_pending = FALSE
        /\ sample_rate_changed_pending = FALSE /\ sample_rate_init_seen = FALSE
        /\ handle = TRUE /\ client = TRUE /\ ret = "ok"
        /\ app = "idle" /\ worker = "lock" /\ shutdown = "none"
        /\ ready \in BOOLEAN

MutexFree == worker \notin {"testRunning", "testClosed"}

(* Deviation: broadcast without taking the mutex. *)
BroadcastUnlocked == worker' = IF worker = "waiting" THEN "lock" ELSE worker

(* lock; broadcast; unlock. *)
Broadcast == /\ MutexFree
             /\ worker' = IF worker = "waiting" THEN "lock" ELSE worker

-----------------------------------------------------------------------------
(* The application thread.                                                 *)

AppAt(from, to) == app = from /\ app' = to /\ UNCHANGED <<pending, shutdown, ready>>

PlayStore == /\ handle /\ AppAt("idle", "wake")
             /\ running' = TRUE
             /\ UNCHANGED <<closed, handle, client, ret, worker>>

PauseStore == /\ handle /\ AppAt("idle", "wake")
              /\ running' = FALSE
              /\ UNCHANGED <<closed, handle, client, ret, worker>>

(* The last step of play and pause; a stream that was invalidated or shut  *)
(* down answers as any other.                                              *)
Wake == /\ AppAt("wake", "idle") /\ ret' = "ok"
        /\ Broadcast
        /\ UNCHANGED <<running, closed, handle, client>>

(* close, or the finalizer of the owner: closed = 1, wake, join, close the *)
(* client, release everything, handle = 0.                                 *)
CloseStore == /\ handle /\ AppAt("idle", "closeWake")
              /\ closed' = TRUE
              /\ UNCHANGED <<running, handle, client, ret, worker>>

(* Deviation: close wakes nobody. *)
CloseNoWake == /\ AppAt("closeWake", "closeJoin")
               /\ UNCHANGED <<running, closed, handle, client, ret, worker>>

CloseWake == /\ AppAt("closeWake", "closeJoin")
             /\ Broadcast
             /\ UNCHANGED <<running, closed, handle, client, ret>>

(* Deviation: the stream is released before its client is closed. *)
CloseNoClient == /\ AppAt("closeJoin", "closeRelease")
                 /\ worker = "exited"
                 /\ UNCHANGED <<running, closed, handle, client, ret, worker>>

CloseJoin == /\ AppAt("closeJoin", "closeClient")
             /\ worker = "exited"
             /\ UNCHANGED <<running, closed, handle, client, ret, worker>>

(* jack_client_close returns once no callback of the client runs. *)
CloseClient == /\ AppAt("closeClient", "closeRelease")
               /\ shutdown \in {"none", "over"}
               /\ client' = FALSE
               /\ UNCHANGED <<running, closed, handle, ret, worker>>

CloseRelease == /\ AppAt("closeRelease", "idle") /\ ret' = "ok"
                /\ handle' = FALSE
                /\ UNCHANGED <<running, closed, client, worker>>

(* On a closed owner play and pause fail, close succeeds. *)
ClosedOwner == ~handle /\ AppAt("idle", "idle") /\ UNCHANGED <<running, closed, handle, client, worker>>
CallClosed == ClosedOwner /\ ret' = "error"

(* Deviation: a second close answers with a status of its own. *)
CloseAgainCode == ClosedOwner /\ ret' = "closed"

CloseAgain == ClosedOwner /\ ret' = "ok"

AppContinue == Wake \/ CloseWake \/ CloseJoin \/ CloseClient \/ CloseRelease

App == PlayStore \/ PauseStore \/ CloseStore \/ CallClosed \/ CloseAgain \/ AppContinue

-----------------------------------------------------------------------------
(* The server's callbacks; each needs the open client.                     *)

ServerKeeps == client /\ UNCHANGED <<running, owner>>

XrunCb == /\ ServerKeeps /\ shutdown = "none"
          /\ xrun_pending' = TRUE
          /\ UNCHANGED <<closed, shutdown_pending, sample_rate_changed_pending,
                         sample_rate_init_seen, worker, shutdown, ready>>

(* The first call only says that the client started. *)
SampleRateCb == /\ ServerKeeps /\ shutdown = "none"
                /\ sample_rate_init_seen' = TRUE
                /\ sample_rate_changed_pending' = (sample_rate_changed_pending \/ sample_rate_init_seen)
                /\ UNCHANGED <<closed, xrun_pending, shutdown_pending, worker, shutdown, ready>>

(* The server goes away: shutdown_pending = 1, closed = 1, wake. *)
ShutdownStore == /\ ServerKeeps /\ shutdown = "none" /\ shutdown' = "mark"
                 /\ shutdown_pending' = TRUE
                 /\ UNCHANGED <<closed, xrun_pending, sample_rate_changed_pending,
                                sample_rate_init_seen, worker, ready>>
ShutdownMark == /\ ServerKeeps /\ shutdown = "mark" /\ shutdown' = "wake"
                /\ closed' = TRUE
                /\ UNCHANGED <<pending, worker, ready>>
(* Deviation: a shutdown wakes nobody. *)
ShutdownNoWake == /\ ServerKeeps /\ shutdown = "wake" /\ shutdown' = "over"
                  /\ UNCHANGED <<closed, pending, worker, ready>>

ShutdownWake == /\ ServerKeeps /\ shutdown = "wake" /\ shutdown' = "over"
                /\ Broadcast
                /\ UNCHANGED <<closed, pending, ready>>

ShutdownContinue == ShutdownMark \/ ShutdownWake

(* jack_process empties or fills the rings a period further. *)
Process == /\ ServerKeeps /\ shutdown = "none" /\ ready' = TRUE
           /\ UNCHANGED <<closed, pending, worker, shutdown>>

Server == XrunCb \/ SampleRateCb \/ ShutdownStore \/ ShutdownContinue \/ Process

-----------------------------------------------------------------------------
(* The worker thread.                                                      *)

WorkerAt(from, to) == /\ worker = from /\ worker' = to
                      /\ UNCHANGED <<running, owner, shutdown, sample_rate_init_seen>>
Quiet == UNCHANGED <<closed, xrun_pending, shutdown_pending, sample_rate_changed_pending, ready>>

(* while (running == 0 && closed == 0) wait, under the mutex. *)
Lock == WorkerAt("lock", "testRunning") /\ Quiet
TestRunning == WorkerAt("testRunning", IF running THEN "takeShutdown" ELSE "testClosed") /\ Quiet
TestClosed == WorkerAt("testClosed", IF closed THEN "takeShutdown" ELSE "waiting") /\ Quiet

(* A wait may also return without a broadcast. *)
SpuriousWake == WorkerAt("waiting", "lock") /\ Quiet

(* A pending shutdown is reported and ends the thread; so does closed,     *)
(* unreported.                                                             *)
TakeShutdown == /\ WorkerAt("takeShutdown", IF shutdown_pending THEN "shutdownError" ELSE "checkClosed")
                /\ shutdown_pending' = FALSE
                /\ UNCHANGED <<closed, xrun_pending, sample_rate_changed_pending, ready>>
ShutdownReturn == WorkerAt("shutdownError", "exited") /\ Quiet
CheckClosed == WorkerAt("checkClosed", IF closed THEN "exited" ELSE "takeXrun") /\ Quiet

(* A pending xrun is reported, and the round goes on. *)
TakeXrun == /\ WorkerAt("takeXrun", IF xrun_pending THEN "xrunError" ELSE "takeRate")
            /\ xrun_pending' = FALSE
            /\ UNCHANGED <<closed, shutdown_pending, sample_rate_changed_pending, ready>>
XrunReturn == WorkerAt("xrunError", "takeRate") /\ Quiet

(* A new sample rate is reported, closes the stream and ends the thread. *)
TakeRate == /\ WorkerAt("takeRate", IF sample_rate_changed_pending THEN "rateError" ELSE "checkRings")
            /\ sample_rate_changed_pending' = FALSE
            /\ UNCHANGED <<closed, xrun_pending, shutdown_pending, ready>>
(* Deviation: the round goes on after the error. *)
RateGoesOn == WorkerAt("rateError", "checkRings") /\ Quiet

RateReturn == WorkerAt("rateError", "rateClose") /\ Quiet

RateClose == /\ WorkerAt("rateClose", "exited")
             /\ closed' = TRUE
             /\ UNCHANGED <<xrun_pending, shutdown_pending, sample_rate_changed_pending, ready>>

(* Rings not ready: nap and start over; ready: serve one round. *)
CheckRings == WorkerAt("checkRings", IF ready THEN "data" ELSE "lock") /\ Quiet
DataReturn == /\ WorkerAt("data", "lock")
              /\ ready' \in BOOLEAN
              /\ UNCHANGED <<closed, xrun_pending, shutdown_pending, sample_rate_changed_pending>>

WorkerStep == \/ Lock \/ TestRunning \/ TestClosed
              \/ TakeShutdown \/ ShutdownReturn \/ CheckClosed
              \/ TakeXrun \/ XrunReturn \/ TakeRate \/ RateReturn \/ RateClose
              \/ CheckRings \/ DataReturn

Next == App \/ Server \/ WorkerStep \/ SpuriousWake

Spec == Init /\ [][Next]_vars

(* The operating system runs both threads, the user's callbacks return, and*)
(* the server finishes a shutdown callback it began.                       *)
FairSpec == Spec /\ WF_vars(AppContinue) /\ WF_vars(WorkerStep) /\ WF_vars(ShutdownContinue)

-----------------------------------------------------------------------------
(* Properties.                                                             *)

(* The stream keeps the contract of StreamContract. *)
Mode == IF ~handle THEN "closed" ELSE IF closed THEN "closing"
        ELSE IF running THEN "playing" ELSE "idle"
Round == CASE worker \in {"takeShutdown", "checkClosed"} /\ ~closed -> "due"
           [] worker \in {"takeXrun", "xrunError", "takeRate", "checkRings"} -> "due"
           [] worker \in {"shutdownError", "rateError", "rateClose", "data"} -> "served"
           [] OTHER -> "none"
Busy == IF worker = "data" THEN "data"
        ELSE IF worker \in {"shutdownError", "xrunError", "rateError"} THEN "error" ELSE "none"

Contract == INSTANCE StreamContract WITH mode <- Mode, round <- Round, busy <- Busy

KeepsContract == Contract!CSpec

(* The stream is freed only when the worker has left and no callback of    *)
(* the server runs or can start: jack_shutdown_cb locks a mutex that is    *)
(* destroyed with the stream.                                              *)
ReleasedUnused == ~handle => worker = "exited" /\ ~client /\ shutdown \in {"none", "over"}

(* A shutdown of the server ends the worker, even of a paused stream. *)
ShutdownEnds == shutdown = "mark" ~> worker = "exited"

(* A new sample rate of a stream that is left playing invalidates it. *)
RateChangeEnds == sample_rate_changed_pending ~> (closed \/ ~running)

(* What the server says is over ends. *)
ServerEnds == ShutdownEnds /\ RateChangeEnds

(* close always returns. *)
CloseReturns == app = "closeWake" ~> ~handle

(* A stream that is left playing keeps calling its data callback, as long  *)
(* as the server keeps calling the process callback.                       *)
KeepsPlaying == WF_vars(Process) /\ <>[](running /\ ~closed /\ app = "idle")
                  => []<>(worker = "data")

(* "JACK was shut down" reaches the error callback: the worker of a stream *)
(* nobody closes does not leave past a shutdown it has not reported.       *)
ShutdownReported ==
  [][worker = "checkClosed" /\ worker' = "exited" /\ app = "idle" => ~shutdown_pending]_vars
=============================================================================
