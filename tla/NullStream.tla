----------------------------- MODULE NullStream -----------------------------
(***************************************************************************)
(* One stream of the deterministic test host (internal/test_host/          *)
(* null_stream.c): the application thread that calls play, pause, close    *)
(* and inject_error on the owner, and the worker thread of                 *)
(* null_thread_main, which paces the data callback and delivers injected   *)
(* errors.  The file has two halves: on POSIX the worker sleeps on a       *)
(* condition under a mutex, on Windows on one auto-reset event, which      *)
(* wakes it from a pause and cuts a period short alike.                    *)
(*                                                                         *)
(* A step is one access to a shared atomic, a wait, a wakeup or a user     *)
(* callback.  The worker holds the mutex exactly between its lock and its  *)
(* wait or unlock, so no variable of its own records it.                   *)
(*                                                                         *)
(* A definition marked "Deviation" is not the code: it is a mistake the    *)
(* definition after it could have had, and shows which property notices.   *)
(***************************************************************************)
EXTENDS Integers

CONSTANTS MaxRequests,  \* bound: calls of inject_error
          Afters,       \* the values of after_callbacks the caller may pass
          MaxAfter      \* bound: cb_count saturates here, above every value of Afters

ASSUME NullAssumption == /\ MaxRequests \in Nat
                         /\ MaxAfter \in Nat
                         /\ Afters \subseteq Int
                         /\ \A a \in Afters : a <= MaxAfter

VARIABLES windows,          \* which half of the file was built
          serial,           \* the caller injects again only once the last error came
          event,            \* Windows: the wake event is signalled
          running, closed,  \* the two lifecycle atomics
          handle,           \* the owner's handle is not 0: the stream exists
          ret,              \* what the last owner call returned
          app,              \* where the application thread is
          worker,           \* where the worker thread is
          cb_count,         \* data callbacks so far
          inject,           \* the five atomics of an injection request
          taken,            \* op_tag and status the worker has loaded
          request,          \* requests made so far; request r carries r as its payload
          errors            \* how often the payload of each request was delivered

vars == <<windows, serial, event, running, closed, handle, ret, app, worker, cb_count,
          inject, taken, request, errors>>
lifecycle == <<running, closed, handle>>
asleep == <<worker, event>>
history == <<request, errors>>

Requests == 1..MaxRequests
Payloads == 0..MaxRequests

AppSteps == {"idle", "wake", "closeStop", "closeWake", "closeJoin", "closeRelease",
             "injectOp", "injectStatus", "injectRearm", "injectPend"}
WorkerSteps == {"lock", "testRunning", "testClosed", "waiting", "checkClosed", "data",
                "testPending", "testSent", "testAfter", "markSent", "clearPending",
                "loadOp", "loadStatus", "error", "pace", "pacing", "exited",
                "winClosed", "winRunning", "winWait", "winCall"}

TypeOK == /\ windows \in BOOLEAN /\ serial \in BOOLEAN /\ event \in BOOLEAN
          /\ running \in BOOLEAN /\ closed \in BOOLEAN /\ handle \in BOOLEAN
          /\ ret \in {"ok", "error"}
          /\ app \in AppSteps /\ worker \in WorkerSteps
          /\ cb_count \in 0..MaxAfter
          /\ inject \in [pending : BOOLEAN, sent : BOOLEAN, after : Afters \cup {0},
                         op : Payloads, status : Payloads]
          /\ taken \in [op : Payloads, status : Payloads]
          /\ request \in Payloads
          /\ errors \in [Requests -> 0..2]

Init == /\ windows \in BOOLEAN /\ serial \in BOOLEAN /\ event = FALSE
        /\ running = FALSE /\ closed = FALSE /\ handle = TRUE /\ ret = "ok"
        /\ app = "idle" /\ worker = IF windows THEN "winClosed" ELSE "lock"
        /\ cb_count = 0
        /\ inject = [pending |-> FALSE, sent |-> FALSE, after |-> 0, op |-> 0, status |-> 0]
        /\ taken = [op |-> 0, status |-> 0]
        /\ request = 0 /\ errors = [r \in Requests |-> 0]

-----------------------------------------------------------------------------
(* The application thread.                                                 *)

AppKeeps == UNCHANGED <<windows, serial, cb_count, taken, errors>>
AppAt(from, to) == app = from /\ app' = to /\ AppKeeps

MutexFree == worker \notin {"testRunning", "testClosed"}

(* Deviation: broadcast without taking the mutex. *)
BroadcastUnlocked == worker' = IF worker \in {"waiting", "pacing"} THEN "lock" ELSE worker

(* lock; broadcast; unlock: both waits of the worker end. *)
Broadcast == /\ MutexFree
             /\ worker' = IF worker \in {"waiting", "pacing"} THEN "lock" ELSE worker

WakeWorker == \/ ~windows /\ Broadcast /\ UNCHANGED event
              \/ windows /\ event' = TRUE /\ UNCHANGED worker

(* play and pause: store running, wake. *)
PlayStore == /\ handle /\ AppAt("idle", "wake")
             /\ running' = TRUE
             /\ UNCHANGED <<closed, handle, ret, asleep, inject, request>>

PauseStore == /\ handle /\ AppAt("idle", "wake")
              /\ running' = FALSE
              /\ UNCHANGED <<closed, handle, ret, asleep, inject, request>>

(* The last step of play, pause and inject_error. *)
Wake == /\ AppAt("wake", "idle") /\ ret' = "ok"
        /\ WakeWorker
        /\ UNCHANGED <<lifecycle, inject, request>>

(* close, or the finalizer of the owner: closed = 1, running = 0, wake,    *)
(* join, release everything, handle = 0.                                   *)
CloseStore == /\ handle /\ AppAt("idle", "closeStop")
              /\ closed' = TRUE
              /\ UNCHANGED <<running, handle, ret, asleep, inject, request>>

CloseStop == /\ AppAt("closeStop", "closeWake")
             /\ running' = FALSE
             /\ UNCHANGED <<closed, handle, ret, asleep, inject, request>>

(* Deviation: close wakes nobody. *)
CloseNoWake == /\ AppAt("closeWake", "closeJoin")
               /\ UNCHANGED <<lifecycle, ret, asleep, inject, request>>

CloseWake == /\ AppAt("closeWake", "closeJoin")
             /\ WakeWorker
             /\ UNCHANGED <<lifecycle, ret, inject, request>>

(* Deviation: close does not join the worker. *)
CloseNoJoin == /\ AppAt("closeJoin", "closeRelease")
               /\ UNCHANGED <<lifecycle, ret, asleep, inject, request>>

CloseJoin == /\ AppAt("closeJoin", "closeRelease")
             /\ worker = "exited"
             /\ UNCHANGED <<lifecycle, ret, asleep, inject, request>>

CloseRelease == /\ AppAt("closeRelease", "idle") /\ ret' = "ok"
                /\ handle' = FALSE
                /\ UNCHANGED <<running, closed, asleep, inject, request>>

(* On a closed owner play, pause and inject_error fail, close succeeds;    *)
(* none of them touches the stream, which is gone.                         *)
ClosedOwner == ~handle /\ AppAt("idle", "idle") /\ UNCHANGED <<lifecycle, asleep, inject, request>>
CallClosed == ClosedOwner /\ ret' = "error"
CloseAgain == ClosedOwner /\ ret' = "ok"

(* inject_error: five stores, in this order, then wake. *)
InjectStart(after) == /\ handle /\ AppAt("idle", "injectOp")
                      /\ request < MaxRequests
                      /\ serial /\ request > 0 => errors[request] > 0
                      /\ request' = request + 1
                      /\ inject' = [inject EXCEPT !.after = after]
                      /\ UNCHANGED <<lifecycle, ret, asleep>>

InjectStore(from, to, new) == /\ AppAt(from, to) /\ inject' = new
                              /\ UNCHANGED <<lifecycle, ret, asleep, request>>
(* Deviation: a new request does not reset inject_sent. *)
InjectNoRearm == InjectStore("injectRearm", "injectPend", inject)

InjectOp == InjectStore("injectOp", "injectStatus", [inject EXCEPT !.op = request])
InjectStatus == InjectStore("injectStatus", "injectRearm", [inject EXCEPT !.status = request])
InjectRearm == InjectStore("injectRearm", "injectPend", [inject EXCEPT !.sent = FALSE])
InjectPend == InjectStore("injectPend", "wake", [inject EXCEPT !.pending = TRUE])

AppContinue == \/ Wake \/ CloseStop \/ CloseWake \/ CloseJoin \/ CloseRelease
               \/ InjectOp \/ InjectStatus \/ InjectRearm \/ InjectPend

App == \/ PlayStore \/ PauseStore \/ CloseStore \/ CallClosed \/ CloseAgain
       \/ \E after \in Afters : InjectStart(after)
       \/ AppContinue

-----------------------------------------------------------------------------
(* The worker thread.                                                      *)

WorkerKeeps == UNCHANGED <<windows, serial, lifecycle, ret, app, request>>
WorkerAt(from, to) == worker = from /\ worker' = to /\ WorkerKeeps /\ UNCHANGED event
Quiet == UNCHANGED <<cb_count, inject, taken, errors>>

(* while (running == 0 && closed == 0) wait, under the mutex. *)
Lock == WorkerAt("lock", "testRunning") /\ Quiet
TestRunning == WorkerAt("testRunning", IF running THEN "checkClosed" ELSE "testClosed") /\ Quiet
TestClosed == WorkerAt("testClosed", IF closed THEN "checkClosed" ELSE "waiting") /\ Quiet

(* A wait may also return without a broadcast. *)
SpuriousWake == WorkerAt("waiting", "lock") /\ Quiet

(* The Windows half looks at closed, then at running, and sleeps only when *)
(* it has seen a paused stream; the next call of the data callback comes   *)
(* without another look.                                                   *)
WinTestClosed == WorkerAt("winClosed", IF closed THEN "exited" ELSE "winRunning") /\ Quiet
WinTestRunning == WorkerAt("winRunning", IF running THEN "winCall" ELSE "winWait") /\ Quiet
WinCall == WorkerAt("winCall", "data") /\ Quiet

(* A wait takes the signal with it. *)
WinWoken == worker' = "winClosed" /\ event' = FALSE /\ WorkerKeeps /\ Quiet
WinWait == worker = "winWait" /\ event /\ WinWoken

(* Out of the POSIX wait: leave the thread, or call the data callback. *)
CheckClosed == WorkerAt("checkClosed", IF closed THEN "exited" ELSE "data") /\ Quiet

DataReturn == /\ WorkerAt("data", "testPending")
              /\ cb_count' = IF cb_count < MaxAfter THEN cb_count + 1 ELSE cb_count
              /\ UNCHANGED <<inject, taken, errors>>

(* An error is delivered if one is pending, not sent, and due. *)
TestPending == WorkerAt("testPending", IF inject.pending THEN "testSent" ELSE "pace") /\ Quiet
TestSent == WorkerAt("testSent", IF inject.sent THEN "pace" ELSE "testAfter") /\ Quiet
(* Deviation: one callback too early. *)
DueEarly(after) == cb_count + 1 >= (IF after < 0 THEN 0 ELSE after)

Due(after) == cb_count >= (IF after < 0 THEN 0 ELSE after)
TestAfter == WorkerAt("testAfter", IF Due(inject.after) THEN "markSent" ELSE "pace") /\ Quiet

MarkSent == /\ WorkerAt("markSent", "clearPending")
            /\ inject' = [inject EXCEPT !.sent = TRUE]
            /\ UNCHANGED <<cb_count, taken, errors>>
(* Deviation: inject_sent is cleared in place of inject_pending. *)
ClearSent == /\ WorkerAt("clearPending", "loadOp")
             /\ inject' = [inject EXCEPT !.sent = FALSE]
             /\ UNCHANGED <<cb_count, taken, errors>>

ClearPending == /\ WorkerAt("clearPending", "loadOp")
                /\ inject' = [inject EXCEPT !.pending = FALSE]
                /\ UNCHANGED <<cb_count, taken, errors>>
(* Deviation: the op_tag loaded is the request's after_callbacks. *)
LoadAfter == /\ WorkerAt("loadOp", "loadStatus")
             /\ taken' = [taken EXCEPT !.op = inject.after]
             /\ UNCHANGED <<cb_count, inject, errors>>

LoadOp == /\ WorkerAt("loadOp", "loadStatus")
          /\ taken' = [taken EXCEPT !.op = inject.op]
          /\ UNCHANGED <<cb_count, inject, errors>>

(* The status is loaded and the error callback called with both. *)
LoadStatus == /\ WorkerAt("loadStatus", "error")
              /\ taken' = [taken EXCEPT !.status = inject.status]
              /\ errors' = [errors EXCEPT ![inject.status] = IF @ < 2 THEN @ + 1 ELSE @]
              /\ UNCHANGED <<cb_count, inject>>
ErrorReturn == WorkerAt("error", "pace") /\ Quiet

(* A POSIX period passes, unless the stream was paused or closed; any      *)
(* broadcast cuts it short.                                                *)
Pace == ~windows /\ WorkerAt("pace", IF ~closed /\ running THEN "pacing" ELSE "lock") /\ Quiet
(* Deviation: a period that is over goes on without the test of running. *)
PaceNoTest == WorkerAt("pacing", "checkClosed") /\ Quiet

PaceTimeout == WorkerAt("pacing", "lock") /\ Quiet

(* The Windows period ends by itself, or by a signal, even one that came   *)
(* before it began.                                                        *)
WinPace == windows /\ worker = "pace" /\ WinWoken

WorkerStep == \/ Lock \/ TestRunning \/ TestClosed \/ CheckClosed \/ DataReturn
              \/ TestPending \/ TestSent \/ TestAfter
              \/ MarkSent \/ ClearPending \/ LoadOp \/ LoadStatus \/ ErrorReturn
              \/ Pace \/ PaceTimeout
              \/ WinTestClosed \/ WinTestRunning \/ WinCall \/ WinWait \/ WinPace

Worker == WorkerStep \/ SpuriousWake

Next == App \/ Worker

Spec == Init /\ [][Next]_vars

(* The operating system runs both threads, a timed wait times out, and the *)
(* user's callbacks return.  The application need not call anything.       *)
FairSpec == Spec /\ WF_vars(AppContinue) /\ WF_vars(WorkerStep)

-----------------------------------------------------------------------------
(* Properties.                                                             *)

(* The stream keeps the contract of StreamContract.  On Windows a close    *)
(* that comes between the two looks of the worker finds a round opening.   *)
Mode == IF ~handle THEN "closed" ELSE IF closed THEN "closing"
        ELSE IF running THEN "playing" ELSE "idle"
Serving == {"data", "testPending", "testSent", "testAfter", "markSent", "clearPending",
            "loadOp", "loadStatus", "error"}
Round == CASE worker = "checkClosed" /\ ~closed -> "due"
           [] worker = "winCall" -> "due"
           [] worker = "winRunning" /\ closed /\ running -> "due"
           [] worker \in Serving -> "served"
           [] OTHER -> "none"
Busy == IF worker \in {"data", "error"} THEN worker ELSE "none"

Contract == INSTANCE StreamContract WITH mode <- Mode, round <- Round, busy <- Busy

KeepsContract == Contract!CSpec

(* The stream is freed only after the worker has left, and no owner call   *)
(* reaches it afterwards.                                                  *)
ReleasedUnused == ~handle => worker = "exited" /\ app = "idle"

(* "Errors are delivered at most once per injection request": the payload  *)
(* of a request never reaches the error callback twice.                    *)
OncePerRequest == \A r \in Requests : errors[r] <= 1

(* So it is for a caller that waits for each error before it injects again.*)
AtMostOnce == serial => OncePerRequest

(* What the error callback gets is one request's op_tag and status, never  *)
(* the op_tag of one and the status of another.                            *)
NotTorn == worker = "error" => taken.op = taken.status

(* An error is delivered only once its request asked for: after as many    *)
(* data callbacks as the request says, counted from the stream's start.    *)
NotEarly == worker = "error" /\ taken.status = request => cb_count >= inject.after

(* What such a caller gets delivered is one whole request, and due. *)
WholeAndDue == serial => NotTorn /\ NotEarly

(* The last request to a stream that is left playing is delivered, even if *)
(* its stores fell into the claim or the delivery of the one before.       *)
Delivered == \A r \in Requests :
  <>[](running /\ request = r /\ app = "idle") => <>(errors[r] > 0)

(* close always returns. *)
CloseReturns == app = "closeStop" ~> ~handle

(* A stream that is left playing keeps calling its data callback. *)
KeepsPlaying == <>[](running /\ app = "idle") => []<>(worker = "data")
=============================================================================
