-------------------------- MODULE JackStreamProofs --------------------------
(***************************************************************************)
(* Theorems about JackStream.                                              *)
(***************************************************************************)
EXTENDS JackStream, Naturals, TLAPS

-----------------------------------------------------------------------------
(* The inductive invariant.                                                *)

Closing == {"closeWake", "closeJoin", "closeClient", "closeRelease"}

(* How the owner's close, the worker's exit and the server's callbacks     *)
(* hang together.  A worker that took a shutdown may have left before      *)
(* closed is set, so its exit does not imply closed.                       *)
Lifecycle == /\ app \in Closing \/ ~handle => closed
             /\ app \in {"closeClient", "closeRelease"} => worker = "exited"
             /\ app = "closeRelease" => ~client
             /\ ~client => app = "closeRelease" \/ ~handle
             /\ ~handle => app = "idle" /\ worker = "exited" /\ ~client
             /\ ~client => shutdown \in {"none", "over"}

IInv == TypeOK /\ Lifecycle

LEMMA AppKeepsIInv == IInv /\ App => IInv'
<1> SUFFICES ASSUME IInv, App PROVE IInv'
  OBVIOUS
<1> USE DEF IInv, TypeOK, Lifecycle, Closing, AppSteps, WorkerSteps, AppAt, pending, Broadcast
<1>1. CASE PlayStore BY <1>1 DEF PlayStore
<1>2. CASE PauseStore
  <2>1. TypeOK'
    <3>1. running' \in BOOLEAN /\ app' \in AppSteps BY <1>2 DEF PauseStore
    <3>2. QED BY <1>2, <3>1 DEF PauseStore
  <2>2. Lifecycle' BY <1>2 DEF PauseStore
  <2>3. QED BY <2>1, <2>2
<1>3. CASE Wake BY <1>3 DEF Wake
<1>4. CASE CloseStore BY <1>4 DEF CloseStore
<1>5. CASE CloseWake BY <1>5 DEF CloseWake
<1>6. CASE CloseJoin BY <1>6 DEF CloseJoin
<1>7. CASE CloseClient BY <1>7 DEF CloseClient
<1>8. CASE CloseRelease BY <1>8 DEF CloseRelease
<1>9. CASE CallClosed \/ CloseAgain BY <1>9 DEF CallClosed, CloseAgain, ClosedOwner
<1>10. QED
  BY <1>1, <1>2, <1>3, <1>4, <1>5, <1>6, <1>7, <1>8, <1>9 DEF App, AppContinue

LEMMA ServerKeepsIInv == IInv /\ Server => IInv'
<1> SUFFICES ASSUME IInv, Server PROVE IInv'
  OBVIOUS
<1> USE DEF IInv, TypeOK, Lifecycle, Closing, WorkerSteps, ServerKeeps, owner, pending
<1>1. CASE XrunCb BY <1>1 DEF XrunCb
<1>2. CASE SampleRateCb BY <1>2 DEF SampleRateCb
<1>3. CASE ShutdownStore BY <1>3 DEF ShutdownStore
<1>4. CASE ShutdownMark BY <1>4 DEF ShutdownMark
<1>5. CASE ShutdownWake BY <1>5 DEF ShutdownWake, Broadcast
<1>6. CASE Process BY <1>6 DEF Process
<1>7. QED
  BY <1>1, <1>2, <1>3, <1>4, <1>5, <1>6 DEF Server, ShutdownContinue

LEMMA WorkerKeepsIInv == IInv /\ (WorkerStep \/ SpuriousWake) => IInv'
<1> SUFFICES ASSUME IInv, WorkerStep \/ SpuriousWake PROVE IInv'
  OBVIOUS
<1> USE DEF IInv, TypeOK, Lifecycle, Closing, WorkerSteps, WorkerAt, Quiet, owner
<1>1. CASE Lock \/ TestRunning \/ TestClosed \/ SpuriousWake
  BY <1>1 DEF Lock, TestRunning, TestClosed, SpuriousWake
<1>2. CASE TakeShutdown \/ ShutdownReturn \/ CheckClosed
  <2>1. CASE TakeShutdown
    <3>1. worker' \in WorkerSteps /\ worker # "exited" BY <2>1 DEF TakeShutdown
    <3>2. TypeOK' BY <2>1, <3>1 DEF TakeShutdown
    <3>3. Lifecycle' BY <2>1, <3>1 DEF TakeShutdown
    <3>4. QED BY <3>2, <3>3
  <2>2. CASE ShutdownReturn BY <1>2, <2>2 DEF ShutdownReturn
  <2>3. CASE CheckClosed BY <1>2, <2>3 DEF CheckClosed
  <2>4. QED BY <1>2, <2>1, <2>2, <2>3
<1>3. CASE TakeXrun
  <2>1. worker' \in WorkerSteps /\ worker # "exited" BY <1>3 DEF TakeXrun
  <2>2. TypeOK' BY <1>3, <2>1 DEF TakeXrun
  <2>3. Lifecycle' BY <1>3, <2>1 DEF TakeXrun
  <2>4. QED BY <2>2, <2>3
<1>4. CASE XrunReturn \/ RateReturn BY <1>4 DEF XrunReturn, RateReturn
<1>5. CASE TakeRate
  <2>1. worker' \in WorkerSteps /\ worker # "exited" BY <1>5 DEF TakeRate
  <2>2. TypeOK' BY <1>5, <2>1 DEF TakeRate
  <2>3. Lifecycle' BY <1>5, <2>1 DEF TakeRate
  <2>4. QED BY <2>2, <2>3
<1>6. CASE RateClose BY <1>6 DEF RateClose
<1>7. CASE CheckRings \/ DataReturn BY <1>7 DEF CheckRings, DataReturn
<1>8. QED BY <1>1, <1>2, <1>3, <1>4, <1>5, <1>6, <1>7 DEF WorkerStep

LEMMA Inductive == Spec => []IInv
<1>1. Init => IInv
  BY DEF Init, IInv, TypeOK, Lifecycle, Closing, AppSteps, WorkerSteps
<1>2. IInv /\ [Next]_vars => IInv'
  <2>1. IInv /\ Next => IInv'
    BY AppKeepsIInv, ServerKeepsIInv, WorkerKeepsIInv DEF Next
  <2>2. IInv /\ UNCHANGED vars => IInv'
    BY DEF IInv, TypeOK, Lifecycle, vars, pending, owner
  <2>3. QED BY <2>1, <2>2
<1>3. QED BY <1>1, <1>2, PTL DEF Spec

(* Every reachable state of the stream, its threads and the server's       *)
(* callbacks is well formed.                                               *)
THEOREM TypeCorrect == Spec => []TypeOK
<1>1. IInv => TypeOK BY DEF IInv
<1>2. QED BY <1>1, Inductive, PTL

(* jack_stream_destroy frees the stream only after the worker has left and *)
(* the closed client can no longer call it.                                *)
THEOREM ReleaseIsLast == Spec => []ReleasedUnused
<1>1. IInv => ReleasedUnused BY DEF IInv, Lifecycle, ReleasedUnused
<1>2. QED BY <1>1, Inductive, PTL

-----------------------------------------------------------------------------
(* JackStream implements StreamContract.                                   *)

LEMMA InitRefines == Init => Contract!CInit
BY DEF Init, Contract!CInit, Mode, Round, Busy

LEMMA AppRefines == IInv /\ App => [Contract!CNext]_(Contract!cvars)
<1> SUFFICES ASSUME IInv, App PROVE [Contract!CNext]_(Contract!cvars)
  OBVIOUS
<1> USE DEF Mode, Round, Busy, Contract!cvars, IInv, Lifecycle, Closing, AppAt
<1>1. CASE PlayStore
  <2>1. CASE closed BY <1>1, <2>1 DEF PlayStore
  <2>2. CASE ~closed
    <3>1. Contract!Play BY <1>1, <2>2 DEF PlayStore, Contract!Play
    <3>2. QED BY <3>1 DEF Contract!CNext
  <2>3. QED BY <2>1, <2>2
<1>2. CASE PauseStore
  <2>1. CASE closed BY <1>2, <2>1 DEF PauseStore
  <2>2. CASE ~closed
    <3>1. Contract!Pause BY <1>2, <2>2 DEF PauseStore, Contract!Pause
    <3>2. QED BY <3>1 DEF Contract!CNext
  <2>3. QED BY <2>1, <2>2
<1>3. CASE CloseStore
  <2>1. CASE closed BY <1>3, <2>1 DEF CloseStore
  <2>2. CASE ~closed
    <3>1. Contract!Close BY <1>3, <2>2 DEF CloseStore, Contract!Close
    <3>2. QED BY <3>1 DEF Contract!CNext
  <2>3. QED BY <2>1, <2>2
<1>4. CASE CloseRelease
  <2>1. Contract!Closed BY <1>4 DEF CloseRelease, Contract!Closed
  <2>2. QED BY <2>1 DEF Contract!CNext
<1>5. CASE CloseJoin \/ CloseClient \/ CallClosed \/ CloseAgain
  BY <1>5 DEF CloseJoin, CloseClient, CallClosed, CloseAgain, ClosedOwner
<1>6. CASE Wake \/ CloseWake BY <1>6 DEF Wake, CloseWake, Broadcast
<1>7. QED
  BY <1>1, <1>2, <1>3, <1>4, <1>5, <1>6 DEF App, AppContinue

LEMMA ServerRefines == IInv /\ Server => [Contract!CNext]_(Contract!cvars)
<1> SUFFICES ASSUME IInv, Server PROVE [Contract!CNext]_(Contract!cvars)
  OBVIOUS
<1> USE DEF Mode, Round, Busy, Contract!cvars, ServerKeeps, owner
<1>1. CASE XrunCb \/ SampleRateCb \/ ShutdownStore \/ Process
  BY <1>1 DEF XrunCb, SampleRateCb, ShutdownStore, Process
<1>2. CASE ShutdownMark
  <2>1. CASE closed BY <1>2, <2>1 DEF ShutdownMark
  <2>2. CASE ~closed
    <3>1. Contract!Close BY <1>2, <2>2 DEF ShutdownMark, Contract!Close, IInv, Lifecycle
    <3>2. QED BY <3>1 DEF Contract!CNext
  <2>3. QED BY <2>1, <2>2
<1>3. CASE ShutdownWake BY <1>3 DEF ShutdownWake, Broadcast
<1>4. QED BY <1>1, <1>2, <1>3 DEF Server, ShutdownContinue

LEMMA WorkerRefines ==
  IInv /\ (WorkerStep \/ SpuriousWake) => [Contract!CNext]_(Contract!cvars)
<1> SUFFICES ASSUME IInv, WorkerStep \/ SpuriousWake PROVE [Contract!CNext]_(Contract!cvars)
  OBVIOUS
<1> USE DEF Mode, Round, Busy, Contract!cvars, WorkerAt, Quiet, owner
<1>0. /\ worker # "exited" => handle
      /\ ~closed => handle
  BY DEF IInv, Lifecycle
<1>1. CASE Lock \/ TestClosed \/ SpuriousWake \/ CheckClosed
  BY <1>1 DEF Lock, TestClosed, SpuriousWake, CheckClosed
<1>2. CASE TestRunning
  <2>1. CASE running /\ ~closed
    <3>1. Contract!OpenRound BY <1>0, <1>2, <2>1 DEF TestRunning, Contract!OpenRound
    <3>2. QED BY <3>1 DEF Contract!CNext
  <2>2. CASE ~running \/ closed BY <1>2, <2>2 DEF TestRunning
  <2>3. QED BY <2>1, <2>2
<1>3. CASE TakeShutdown
  <2>1. CASE shutdown_pending
    <3>1. Contract!Error BY <1>0, <1>3, <2>1 DEF TakeShutdown, Contract!Error
    <3>2. QED BY <3>1 DEF Contract!CNext
  <2>2. CASE ~shutdown_pending BY <1>3, <2>2 DEF TakeShutdown
  <2>3. QED BY <2>1, <2>2
<1>4. CASE ShutdownReturn \/ XrunReturn \/ RateReturn \/ DataReturn
  <2>1. Contract!Return
    BY <1>4 DEF ShutdownReturn, XrunReturn, RateReturn, DataReturn, Contract!Return
  <2>2. QED BY <2>1 DEF Contract!CNext
<1>5. CASE TakeXrun
  <2>1. CASE xrun_pending
    <3>1. Contract!Error BY <1>0, <1>5, <2>1 DEF TakeXrun, Contract!Error
    <3>2. QED BY <3>1 DEF Contract!CNext
  <2>2. CASE ~xrun_pending BY <1>5, <2>2 DEF TakeXrun
  <2>3. QED BY <2>1, <2>2
<1>6. CASE TakeRate
  <2>1. CASE sample_rate_changed_pending
    <3>1. Contract!Error BY <1>0, <1>6, <2>1 DEF TakeRate, Contract!Error
    <3>2. QED BY <3>1 DEF Contract!CNext
  <2>2. CASE ~sample_rate_changed_pending BY <1>6, <2>2 DEF TakeRate
  <2>3. QED BY <2>1, <2>2
<1>7. CASE RateClose
  <2>1. CASE closed
    <3>1. Contract!CloseRound BY <1>7, <2>1 DEF RateClose, Contract!CloseRound
    <3>2. QED BY <3>1 DEF Contract!CNext
  <2>2. CASE ~closed
    <3>1. Contract!Close BY <1>0, <1>7, <2>2 DEF RateClose, Contract!Close
    <3>2. QED BY <3>1 DEF Contract!CNext
  <2>3. QED BY <2>1, <2>2
<1>8. CASE CheckRings
  <2>1. CASE ready
    <3>1. Contract!Data BY <1>8, <2>1 DEF CheckRings, Contract!Data
    <3>2. QED BY <3>1 DEF Contract!CNext
  <2>2. CASE ~ready
    <3>1. Contract!CloseRound BY <1>8, <2>2 DEF CheckRings, Contract!CloseRound
    <3>2. QED BY <3>1 DEF Contract!CNext
  <2>3. QED BY <2>1, <2>2
<1>9. QED
  BY <1>1, <1>2, <1>3, <1>4, <1>5, <1>6, <1>7, <1>8 DEF WorkerStep

(* A JACK stream keeps the contract of StreamContract, whenever the server *)
(* reports an xrun, changes its rate or goes away.                         *)
THEOREM Implements == Spec => KeepsContract
<1>1. IInv /\ [Next]_vars => [Contract!CNext]_(Contract!cvars)
  <2>1. IInv /\ Next => [Contract!CNext]_(Contract!cvars)
    BY AppRefines, ServerRefines, WorkerRefines DEF Next
  <2>2. UNCHANGED vars => UNCHANGED Contract!cvars
    BY DEF vars, owner, Contract!cvars, Mode, Round, Busy
  <2>3. QED BY <2>1, <2>2
<1>2. QED BY <1>1, Inductive, InitRefines, PTL DEF Spec, KeepsContract, Contract!CSpec

-----------------------------------------------------------------------------
(* What the user may conclude.                                             *)

VARIABLE late   \* data callbacks begun since the stream last played

Promises == INSTANCE ContractPromises WITH mode <- Mode, round <- Round, busy <- Busy

LEMMA SameContract == KeepsContract => Promises!CSpec
<1>1. Contract!CInit => Promises!CInit BY DEF Contract!CInit, Promises!CInit
<1>2. [Contract!CNext]_(Contract!cvars) => [Promises!CNext]_(Promises!cvars)
  BY DEF Contract!cvars, Contract!CNext, Contract!Play, Contract!Pause, Contract!Close,
         Contract!Closed, Contract!OpenRound, Contract!Data, Contract!Error, Contract!Return,
         Contract!CloseRound,
         Promises!cvars, Promises!CNext, Promises!Play, Promises!Pause, Promises!Close,
         Promises!Closed, Promises!OpenRound, Promises!Data, Promises!Error, Promises!Return,
         Promises!CloseRound
<1>3. QED BY <1>1, <1>2, PTL DEF KeepsContract, Contract!CSpec, Promises!CSpec

(* After jack_stream_destroy returned no callback of the stream begins or  *)
(* ends, whatever the server still does.                                   *)
THEOREM NothingAfterClose == Spec => Promises!CloseIsFinal
BY Implements, SameContract, Promises!OneByOne, Promises!ClosedForGood

(* After jack_stream_pause stored running at most one more data callback   *)
(* begins before the next play; after a shutdown or a new rate stored      *)
(* closed, at most one more for good, whatever is called on the owner.     *)
THEOREM OneLateCallback == Spec /\ Promises!Counted => [](late <= 1)
BY Implements, SameContract, Promises!OneLateCallback

-----------------------------------------------------------------------------
(* Why the threads of the stream do not wait for each other: the safety    *)
(* half of CloseReturns, KeepsPlaying and ServerEnds.                      *)

(* A worker in the wait has nothing to do, or the call that gives it       *)
(* something has yet to broadcast.  Between its test of running and the    *)
(* wait it holds the mutex, so no broadcast falls in between.              *)
Wakeful == /\ worker \in {"testClosed", "waiting"} => ~running \/ app = "wake"
           /\ worker = "waiting" => ~closed \/ app = "closeWake" \/ shutdown = "wake"
           /\ app \in Closing \ {"closeWake"} => worker # "waiting"
           /\ shutdown \in {"wake", "over"} => closed
           /\ shutdown = "over" => worker # "waiting"

LEMMA AppKeepsWakeful == IInv /\ Wakeful /\ App => Wakeful'
<1> SUFFICES ASSUME IInv, Wakeful, App PROVE Wakeful'
  OBVIOUS
<1> USE DEF IInv, Lifecycle, Wakeful, Closing, Broadcast, MutexFree, AppAt
<1>1. CASE PlayStore BY <1>1 DEF PlayStore
<1>2. CASE PauseStore BY <1>2 DEF PauseStore
<1>3. CASE Wake BY <1>3 DEF Wake
<1>4. CASE CloseStore BY <1>4 DEF CloseStore
<1>5. CASE CloseWake BY <1>5 DEF CloseWake
<1>6. CASE CloseJoin BY <1>6 DEF CloseJoin
<1>7. CASE CloseClient \/ CloseRelease BY <1>7 DEF CloseClient, CloseRelease
<1>8. CASE CallClosed \/ CloseAgain BY <1>8 DEF CallClosed, CloseAgain, ClosedOwner
<1>9. QED BY <1>1, <1>2, <1>3, <1>4, <1>5, <1>6, <1>7, <1>8 DEF App, AppContinue

LEMMA ServerKeepsWakeful == IInv /\ Wakeful /\ Server => Wakeful'
<1> SUFFICES ASSUME IInv, Wakeful, Server PROVE Wakeful'
  OBVIOUS
<1> USE DEF IInv, Lifecycle, Wakeful, Closing, ServerKeeps, owner, pending
<1>1. CASE XrunCb \/ SampleRateCb \/ Process BY <1>1 DEF XrunCb, SampleRateCb, Process
<1>2. CASE ShutdownStore BY <1>2 DEF ShutdownStore
<1>3. CASE ShutdownMark BY <1>3 DEF ShutdownMark
<1>4. CASE ShutdownWake BY <1>4 DEF ShutdownWake, Broadcast, MutexFree
<1>5. QED BY <1>1, <1>2, <1>3, <1>4 DEF Server, ShutdownContinue

LEMMA WorkerKeepsWakeful == IInv /\ Wakeful /\ (WorkerStep \/ SpuriousWake) => Wakeful'
<1> SUFFICES ASSUME IInv, Wakeful, WorkerStep \/ SpuriousWake PROVE Wakeful'
  OBVIOUS
<1> USE DEF IInv, Lifecycle, Wakeful, Closing, WorkerAt, Quiet, owner
<1>1. CASE Lock \/ TestRunning \/ SpuriousWake BY <1>1 DEF Lock, TestRunning, SpuriousWake
<1>2. CASE TestClosed BY <1>2 DEF TestClosed
<1>3. CASE TakeShutdown \/ ShutdownReturn \/ CheckClosed
  BY <1>3 DEF TakeShutdown, ShutdownReturn, CheckClosed
<1>4. CASE TakeXrun \/ XrunReturn \/ TakeRate \/ RateReturn
  BY <1>4 DEF TakeXrun, XrunReturn, TakeRate, RateReturn
<1>5. CASE RateClose \/ CheckRings \/ DataReturn BY <1>5 DEF RateClose, CheckRings, DataReturn
<1>6. QED BY <1>1, <1>2, <1>3, <1>4, <1>5 DEF WorkerStep

(* No wakeup is lost: the worker does not sleep once play returned, nor    *)
(* while close joins it, nor after the shutdown callback of the server.    *)
NoLostWakeup == /\ app = "idle" /\ running => worker # "waiting"
                /\ app = "closeJoin" \/ shutdown = "over" => worker # "waiting"

(* The broadcasts of jack_stream_play, jack_stream_destroy and             *)
(* jack_shutdown_cb reach the worker wherever it is, also when two of them *)
(* come at once.                                                           *)
THEOREM NoWakeupIsLost == Spec => []NoLostWakeup
<1>1. Init => Wakeful BY DEF Init, Wakeful, Closing
<1>2. IInv /\ Wakeful /\ [Next]_vars => Wakeful'
  <2>1. Wakeful /\ UNCHANGED vars => Wakeful' BY DEF Wakeful, vars, owner
  <2>2. QED BY <2>1, AppKeepsWakeful, ServerKeepsWakeful, WorkerKeepsWakeful DEF Next
<1>3. Wakeful => NoLostWakeup BY DEF Wakeful, Closing, NoLostWakeup
<1>4. QED BY <1>1, <1>2, <1>3, Inductive, PTL DEF Spec

(* How far a worker of a closed stream is from its exit, in steps. *)
Distance == CASE worker = "exited" -> 0
              [] worker \in {"checkClosed", "shutdownError", "rateClose"} -> 1
              [] worker \in {"takeShutdown", "rateError"} -> 2
              [] worker = "testClosed" -> 3
              [] worker = "testRunning" -> 4
              [] worker = "lock" -> 5
              [] worker \in {"waiting", "data"} -> 6
              [] worker = "checkRings" -> 7
              [] worker = "takeRate" -> 8
              [] worker = "xrunError" -> 9
              [] worker = "takeXrun" -> 10

(* Once closed is stored every step of the worker brings it nearer to its  *)
(* exit, and no other step takes it away from there.                       *)
ClosingAdvances == [][closed => /\ WorkerStep \/ SpuriousWake => Distance' < Distance
                                /\ Distance' <= Distance]_vars

(* After jack_stream_destroy, jack_shutdown_cb or a new rate stored closed *)
(* the worker takes ten steps at most, whatever the server does meanwhile: *)
(* with NoWakeupIsLost, why the join of close returns.                     *)
THEOREM CloseIsNear == Spec => ClosingAdvances /\ [](Distance \in 0..10)
<1>1. /\ TypeOK => Distance \in 0..10
      /\ TypeOK' => Distance' \in 0..10
  BY DEF TypeOK, WorkerSteps, Distance
<1>2. ASSUME IInv, closed, WorkerStep \/ SpuriousWake PROVE Distance' < Distance
  <2> USE <1>2 DEF IInv, TypeOK, Distance, WorkerAt, Quiet
  <2>1. CASE Lock BY <2>1 DEF Lock
  <2>2. CASE TestRunning BY <2>2 DEF TestRunning
  <2>3. CASE TestClosed BY <2>3 DEF TestClosed
  <2>4. CASE SpuriousWake BY <2>4 DEF SpuriousWake
  <2>5. CASE TakeShutdown BY <2>5 DEF TakeShutdown
  <2>6. CASE ShutdownReturn BY <2>6 DEF ShutdownReturn
  <2>7. CASE CheckClosed BY <2>7 DEF CheckClosed
  <2>8. CASE TakeXrun BY <2>8 DEF TakeXrun
  <2>9. CASE XrunReturn BY <2>9 DEF XrunReturn
  <2>10. CASE TakeRate BY <2>10 DEF TakeRate
  <2>11. CASE RateReturn BY <2>11 DEF RateReturn
  <2>12. CASE RateClose BY <2>12 DEF RateClose
  <2>13. CASE CheckRings BY <2>13 DEF CheckRings
  <2>14. CASE DataReturn BY <2>14 DEF DataReturn
  <2> HIDE DEF Distance
  <2>15. QED
    BY <2>1, <2>2, <2>3, <2>4, <2>5, <2>6, <2>7, <2>8, <2>9, <2>10, <2>11, <2>12,
       <2>13, <2>14 DEF WorkerStep
<1>3. UNCHANGED worker => Distance' = Distance BY DEF Distance
<1>4. ASSUME TypeOK, Broadcast PROVE Distance' <= Distance
  BY <1>4 DEF Broadcast, TypeOK, WorkerSteps, Distance
<1>5. App \/ Server => UNCHANGED worker \/ Broadcast
  <2>1. App => UNCHANGED worker \/ Broadcast
    BY DEF App, AppContinue, PlayStore, PauseStore, Wake, CloseStore, CloseWake, CloseJoin,
           CloseClient, CloseRelease, CallClosed, CloseAgain, ClosedOwner
  <2>2. Server => UNCHANGED worker \/ Broadcast
    BY DEF Server, ShutdownContinue, XrunCb, SampleRateCb, ShutdownStore, ShutdownMark,
           ShutdownWake, Process
  <2>3. QED BY <2>1, <2>2
<1>6. ASSUME IInv, closed, Next
      PROVE  (WorkerStep \/ SpuriousWake => Distance' < Distance) /\ Distance' <= Distance
  <2>1. TypeOK /\ TypeOK'
    BY <1>6, AppKeepsIInv, ServerKeepsIInv, WorkerKeepsIInv DEF Next, IInv
  <2>2. CASE WorkerStep \/ SpuriousWake BY <1>1, <1>2, <1>6, <2>1, <2>2
  <2>3. CASE ~(WorkerStep \/ SpuriousWake)
    <3>1. UNCHANGED worker \/ Broadcast BY <1>5, <1>6, <2>3 DEF Next
    <3>2. QED BY <1>1, <1>3, <1>4, <2>1, <2>3, <3>1
  <2>4. QED BY <2>2, <2>3
<1>7. QED BY <1>1, <1>6, Inductive, PTL DEF Spec, ClosingAdvances, IInv

-----------------------------------------------------------------------------
(* Why a playing stream goes on, and why one with a new rate does not: the *)
(* safety half of KeepsPlaying and RateChangeEnds.                         *)

(* How far the worker of a playing stream is from its next data callback,  *)
(* or from its exit, in steps at most.                                     *)
ToData == CASE worker \in {"data", "exited"} -> 0
            [] worker \in {"checkRings", "rateClose", "shutdownError"} -> 1
            [] worker = "rateError" -> 2
            [] worker = "takeRate" -> 3
            [] worker = "xrunError" -> 4
            [] worker = "takeXrun" -> 5
            [] worker = "checkClosed" -> 6
            [] worker = "takeShutdown" -> 7
            [] worker = "testRunning" -> 8
            [] worker = "lock" -> 9
            [] worker = "waiting" -> 10
            [] worker = "testClosed" -> 11

(* Every step the worker of a playing stream takes outside the callback    *)
(* brings the next one nearer, but for a nap when the rings are not ready; *)
(* no call and no callback of the server takes it away.                    *)
RoundAdvances ==
  [][running /\ ~closed =>
       /\ WorkerStep \/ SpuriousWake =>
            worker = "data" \/ (worker = "checkRings" /\ ~ready) \/ ToData' < ToData
       /\ App \/ Server => ToData' <= ToData]_vars

(* A new rate has been announced and not yet ended the worker. *)
RateDue == sample_rate_changed_pending \/ worker \in {"rateError", "rateClose"}

(* How far the worker of a playing stream with a new rate is from its exit.*)
ToEnd == CASE worker = "checkRings" -> 11
           [] worker = "data" -> 10
           [] OTHER -> ToData

(* A new rate is not forgotten while the stream plays, and every step of   *)
(* the worker, into a data callback or a nap as well, brings its exit      *)
(* nearer; no call and no callback of the server takes it away.            *)
RateAdvances ==
  [][RateDue /\ running => /\ RateDue' \/ worker' = "exited"
                           /\ WorkerStep \/ SpuriousWake => ToEnd' < ToEnd
                           /\ App \/ Server => ToEnd' <= ToEnd]_vars

LEMMA ToDataBound ==
  ASSUME TypeOK
  PROVE  /\ ToData \in 0..11
         /\ ToEnd \in 0..11
BY DEF TypeOK, WorkerSteps, ToData, ToEnd

LEMMA WorkerRound ==
  ASSUME TypeOK, running, ~closed, WorkerStep \/ SpuriousWake
  PROVE  worker = "data" \/ (worker = "checkRings" /\ ~ready) \/ ToData' < ToData
<1> USE DEF ToData, WorkerAt, Quiet
<1>1. CASE Lock BY <1>1 DEF Lock
<1>2. CASE TestRunning BY <1>2 DEF TestRunning
<1>3. CASE TestClosed BY <1>3 DEF TestClosed
<1>4. CASE SpuriousWake BY <1>4 DEF SpuriousWake
<1>5. CASE TakeShutdown BY <1>5 DEF TakeShutdown
<1>6. CASE ShutdownReturn BY <1>6 DEF ShutdownReturn
<1>7. CASE CheckClosed BY <1>7 DEF CheckClosed
<1>8. CASE TakeXrun BY <1>8 DEF TakeXrun
<1>9. CASE XrunReturn BY <1>9 DEF XrunReturn
<1>10. CASE TakeRate BY <1>10 DEF TakeRate
<1>11. CASE RateReturn BY <1>11 DEF RateReturn
<1>12. CASE RateClose BY <1>12 DEF RateClose
<1>13. CASE CheckRings BY <1>13 DEF CheckRings
<1>14. CASE DataReturn BY <1>14 DEF DataReturn
<1> HIDE DEF ToData
<1>15. QED
  BY <1>1, <1>2, <1>3, <1>4, <1>5, <1>6, <1>7, <1>8, <1>9, <1>10, <1>11, <1>12, <1>13,
     <1>14 DEF WorkerStep

LEMMA WorkerEnds ==
  ASSUME TypeOK, RateDue, running, WorkerStep \/ SpuriousWake
  PROVE  (RateDue' \/ worker' = "exited") /\ ToEnd' < ToEnd
<1> USE DEF ToData, ToEnd, RateDue, WorkerAt, Quiet
<1>1. CASE Lock BY <1>1 DEF Lock
<1>2. CASE TestRunning BY <1>2 DEF TestRunning
<1>3. CASE TestClosed BY <1>3 DEF TestClosed
<1>4. CASE SpuriousWake BY <1>4 DEF SpuriousWake
<1>5. CASE TakeShutdown BY <1>5 DEF TakeShutdown
<1>6. CASE ShutdownReturn BY <1>6 DEF ShutdownReturn
<1>7. CASE CheckClosed BY <1>7 DEF CheckClosed
<1>8. CASE TakeXrun BY <1>8 DEF TakeXrun
<1>9. CASE XrunReturn BY <1>9 DEF XrunReturn
<1>10. CASE TakeRate BY <1>10 DEF TakeRate
<1>11. CASE RateReturn BY <1>11 DEF RateReturn
<1>12. CASE RateClose BY <1>12 DEF RateClose
<1>13. CASE CheckRings BY <1>13 DEF CheckRings
<1>14. CASE DataReturn BY <1>14 DEF DataReturn
<1> HIDE DEF ToData, ToEnd, RateDue
<1>15. QED
  BY <1>1, <1>2, <1>3, <1>4, <1>5, <1>6, <1>7, <1>8, <1>9, <1>10, <1>11, <1>12, <1>13,
     <1>14 DEF WorkerStep

LEMMA OthersMoveOn ==
  ASSUME TypeOK, App \/ Server
  PROVE  /\ UNCHANGED worker \/ (worker = "waiting" /\ worker' = "lock")
         /\ sample_rate_changed_pending => sample_rate_changed_pending'
<1>1. CASE App
  BY <1>1 DEF App, AppContinue, PlayStore, PauseStore, Wake, CloseStore, CloseWake, CloseJoin,
     CloseClient, CloseRelease, CallClosed, CloseAgain, ClosedOwner, AppAt, Broadcast, pending
<1>2. CASE Server
  BY <1>2 DEF Server, ShutdownContinue, XrunCb, SampleRateCb, ShutdownStore, ShutdownMark,
     ShutdownWake, Process, Broadcast, ServerKeeps, pending, TypeOK
<1>3. QED BY <1>1, <1>2

LEMMA OthersRound ==
  ASSUME TypeOK, App \/ Server
  PROVE  /\ ToData' <= ToData
         /\ ToEnd' <= ToEnd
         /\ RateDue => RateDue'
<1>1. ToData \in Nat /\ ToEnd \in Nat BY ToDataBound
<1>2. CASE UNCHANGED worker
  <2>1. ToData' = ToData /\ ToEnd' = ToEnd BY <1>2 DEF ToData, ToEnd
  <2>2. QED BY <1>1, <1>2, <2>1, OthersMoveOn DEF RateDue
<1>3. CASE worker = "waiting" /\ worker' = "lock"
  BY <1>3, OthersMoveOn DEF ToData, ToEnd, RateDue
<1>4. QED BY <1>2, <1>3, OthersMoveOn

(* A playing stream cannot lose its way to the data callback: whatever the *)
(* worker does but a nap brings the callback nearer, in eleven steps at    *)
(* most.  KeepsPlaying needs besides that the server calls jack_process.   *)
THEOREM NextRoundIsNear == Spec => RoundAdvances /\ [](ToData \in 0..11)
<1>1. TypeOK => ToData \in 0..11 BY ToDataBound
<1>2. ASSUME TypeOK, running, ~closed, Next
      PROVE  /\ WorkerStep \/ SpuriousWake =>
                  worker = "data" \/ (worker = "checkRings" /\ ~ready) \/ ToData' < ToData
             /\ App \/ Server => ToData' <= ToData
  BY <1>2, WorkerRound, OthersRound
<1>3. QED BY <1>1, <1>2, TypeCorrect, PTL DEF Spec, RoundAdvances

(* A new sample rate of a stream that is left playing ends its worker in   *)
(* eleven steps of the worker at most, whatever else happens meanwhile:    *)
(* the announcement is not lost, and no nap or callback puts it off.       *)
THEOREM RateChangeIsHeeded == Spec => RateAdvances /\ [](ToEnd \in 0..11)
<1>1. TypeOK => ToEnd \in 0..11 BY ToDataBound
<1>2. ASSUME TypeOK, RateDue, running, Next
      PROVE  /\ RateDue' \/ worker' = "exited"
             /\ WorkerStep \/ SpuriousWake => ToEnd' < ToEnd
             /\ App \/ Server => ToEnd' <= ToEnd
  BY <1>2, WorkerEnds, OthersRound DEF Next
<1>3. QED BY <1>1, <1>2, TypeCorrect, PTL DEF Spec, RateAdvances
=============================================================================
