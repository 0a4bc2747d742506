-------------------------- MODULE AlsaLifecycleTest --------------------------
(***************************************************************************)
(* AlsaStream under the calls of its lifecycle test (alsa/                 *)
(* stream_lifecycle_test.mbt): an output stream is played, paused once the *)
(* data callback has been called, and closed.  A test that waits in vain   *)
(* for the callback has failed already and is not followed further.        *)
(***************************************************************************)
EXTENDS AlsaStream

VARIABLES test,   \* the call the test makes next
          called  \* calls[0] is not 0

testVars == <<vars, test, called>>

TestInit == /\ Init /\ ~is_input
            /\ test = "play" /\ called = FALSE

(* calls[0] counts the data callbacks that began. *)
Count == called' = (called \/ worker' = "data")

TestPlay == /\ test = "play" /\ test' = "pause"
            /\ PlayStore /\ Count

TestPause == /\ test = "pause" /\ test' = "close"
             /\ called
             /\ PauseStore /\ Count

TestClose == /\ test = "close" /\ test' = "done"
             /\ CloseStore /\ Count

(* Meanwhile each call goes on to its return, the worker and the device on. *)
Proceed == /\ AppContinue \/ Worker \/ HwTick
           /\ Count
           /\ UNCHANGED test

TestNext == TestPlay \/ TestPause \/ TestClose \/ Proceed

TestSpec == TestInit /\ [][TestNext]_testVars

-----------------------------------------------------------------------------
(* The error callback of the test panics.  On a device without faults it   *)
(* is called for an XRUN at most, so pause and close raise no error.       *)
HealthyDeviceNoError == ~DeviceFaults => worker # "fault"
=============================================================================
