-------------------------- MODULE AlsaStreamProofs --------------------------
(***************************************************************************)
(* Theorems about AlsaStream, for every period, direction and device.      *)
(***************************************************************************)
EXTENDS AlsaStream, TLAPS

-----------------------------------------------------------------------------
(* Type correctness.                                                       *)

(* The PCM operations keep the PCM's types. *)
LEMMA PcmTypes ==
  ASSUME TypeOK, PcmPrepare \/ PcmDrop
  PROVE  pcm' \in PcmStates /\ level' \in 0..BufferSize
BY AlsaAssumption DEF TypeOK, PcmPrepare, PcmDrop, pcmVars, PcmStates, BufferSize

LEMMA InitTypes == Init => TypeOK
<1>1. 0 \in 0..Period /\ 0 \in 0..BufferSize BY AlsaAssumption DEF BufferSize
<1>2. QED BY <1>1 DEF Init, TypeOK, AppSteps, WorkerSteps, PcmStates

LEMMA AppTypes == TypeOK /\ App => TypeOK'
<1> SUFFICES ASSUME TypeOK, App PROVE TypeOK'
  OBVIOUS
<1> USE DEF TypeOK, AppSteps, WorkerSteps, Broadcast, pcmVars
<1>1. CASE PlayStore BY <1>1 DEF PlayStore
<1>2. CASE PlayPrepare BY <1>2, PcmTypes DEF PlayPrepare
<1>3. CASE PlayWake BY <1>3 DEF PlayWake
<1>4. CASE PauseStore BY <1>4 DEF PauseStore
<1>5. CASE PauseDrop BY <1>5, PcmTypes DEF PauseDrop
<1>6. CASE CloseStore BY <1>6 DEF CloseStore
<1>7. CASE CloseMark BY <1>7 DEF CloseMark
<1>8. CASE CloseWake BY <1>8 DEF CloseWake
<1>9. CASE CloseDrop BY <1>9, PcmTypes DEF CloseDrop
<1>10. CASE CloseJoin BY <1>10 DEF CloseJoin
<1>11. CASE CloseRelease
  <2>1. 0 \in 0..BufferSize BY AlsaAssumption DEF BufferSize
  <2>2. QED BY <1>11, <2>1 DEF CloseRelease, PcmStates
<1>12. CASE CallClosed \/ CloseAgain BY <1>12 DEF CallClosed, CloseAgain, ClosedOwner
<1>13. QED
  BY <1>1, <1>2, <1>3, <1>4, <1>5, <1>6, <1>7, <1>8, <1>9, <1>10, <1>11, <1>12 DEF App, AppContinue

LEMMA WorkerTypes == TypeOK /\ Worker => TypeOK'
<1> SUFFICES ASSUME TypeOK, Worker PROVE TypeOK'
  OBVIOUS
<1> USE DEF TypeOK, WorkerSteps, WorkerKeeps, WorkerAt, Quiet, appVars, pcmVars
<1>1. CASE Lock \/ TestRunning \/ TestClosed \/ SpuriousWake
  BY <1>1 DEF Lock, TestRunning, TestClosed, SpuriousWake
<1>2. CASE CheckClosed BY <1>2, AlsaAssumption DEF CheckClosed
<1>3. CASE DataReturn \/ Loop BY <1>3 DEF DataReturn, Loop
<1>4. ASSUME NEW n \in 0..Period, IoTransfer(n) PROVE TypeOK'
  <2>1. frames_left' \in 0..Period BY <1>4, AlsaAssumption DEF IoTransfer
  <2>2. level' \in 0..BufferSize
    BY <1>4, AlsaAssumption DEF IoTransfer, BufferSize
  <2>3. pcm' \in PcmStates BY <1>4 DEF IoTransfer, PcmStates
  <2>4. QED BY <1>4, <2>1, <2>2, <2>3 DEF IoTransfer
<1>5. CASE IoStart BY <1>5 DEF IoStart, PcmStates
<1>6. CASE IoXrun \/ IoBadState \/ IoDeviceFault BY <1>6 DEF IoXrun, IoBadState, IoDeviceFault
<1>7. CASE XrunReturn \/ FaultReturn BY <1>7 DEF XrunReturn, FaultReturn
<1>8. CASE XrunPrepare BY <1>8, PcmTypes DEF XrunPrepare
<1>9. CASE FaultPrepare BY <1>9, PcmTypes DEF FaultPrepare
<1>10. CASE Transfer BY <1>4, <1>10 DEF Transfer
<1>11. CASE IoTransfer(0) BY <1>4, <1>11, AlsaAssumption
<1>12. QED
  BY <1>1, <1>2, <1>3, <1>5, <1>6, <1>7, <1>8, <1>9, <1>10, <1>11 DEF Worker, WorkerStep

LEMMA HwTypes == TypeOK /\ HwTick => TypeOK'
<1> SUFFICES ASSUME TypeOK, HwTick PROVE TypeOK'
  OBVIOUS
<1>1. level' \in 0..BufferSize
  BY AlsaAssumption DEF TypeOK, HwTick, BufferSize
<1>2. pcm' \in PcmStates BY DEF HwTick, PcmStates
<1>3. QED BY <1>1, <1>2 DEF TypeOK, HwTick, appVars

(* Every reachable state of the stream, its threads and its PCM is well    *)
(* formed: frames_left never leaves the buffer of one period and the ring  *)
(* buffer is never over- or underfilled.                                   *)
THEOREM TypeCorrect == Spec => []TypeOK
<1>1. TypeOK /\ [Next]_vars => TypeOK'
  <2>1. TypeOK /\ Next => TypeOK' BY AppTypes, WorkerTypes, HwTypes DEF Next
  <2>2. TypeOK /\ UNCHANGED vars => TypeOK' BY DEF TypeOK, vars
  <2>3. QED BY <2>1, <2>2
<1>2. QED BY <1>1, InitTypes, PTL DEF Spec
-----------------------------------------------------------------------------
(* The lifecycle of the stream and the silence of a paused device.         *)

Closing == {"closeWake", "closeDrop", "closeJoin", "closeRelease"}

(* How the owner calls and the worker's exit hang together. *)
Lifecycle == /\ app \in {"playPrepare", "playWake"} => running
             /\ app \in {"pauseDrop", "closeMark"} => ~running
             /\ closed <=> (app \in Closing \/ ~handle)
             /\ closed => ~running
             /\ worker = "exited" => closed
             /\ app = "closeRelease" => worker = "exited"
             /\ ~handle => app = "idle" /\ worker = "exited"
             /\ pcm = "CLOSED" <=> ~handle

(* Between its drop and the next play the PCM does not run, and no         *)
(* transfer can set it off: a worker inside one finds it dropped, and once *)
(* it has prepared it again it looks at running first.                     *)
Dropped == app \in {"idle", "closeJoin", "closeRelease"} /\ ~running
Silent == Dropped => pcm # "RUNNING" /\ (worker = "io" => pcm # "PREPARED")

IInv == TypeOK /\ Lifecycle /\ Silent

LEMMA AppKeepsIInv == IInv /\ App => Lifecycle' /\ Silent'
<1> SUFFICES ASSUME IInv, App PROVE Lifecycle' /\ Silent'
  OBVIOUS
<1> USE DEF IInv, TypeOK, Lifecycle, Silent, Dropped, Closing, Broadcast, MutexFree, pcmVars
<1>1. CASE PlayStore BY <1>1 DEF PlayStore
<1>2. CASE PlayPrepare BY <1>2 DEF PlayPrepare, PcmPrepare
<1>3. CASE PlayWake BY <1>3 DEF PlayWake
<1>4. CASE PauseStore BY <1>4 DEF PauseStore
<1>5. CASE PauseDrop BY <1>5 DEF PauseDrop, PcmDrop
<1>6. CASE CloseStore BY <1>6 DEF CloseStore
<1>7. CASE CloseMark BY <1>7 DEF CloseMark
<1>8. CASE CloseWake BY <1>8 DEF CloseWake
<1>9. CASE CloseDrop BY <1>9 DEF CloseDrop, PcmDrop
<1>10. CASE CloseJoin BY <1>10 DEF CloseJoin
<1>11. CASE CloseRelease BY <1>11 DEF CloseRelease
<1>12. CASE CallClosed \/ CloseAgain BY <1>12 DEF CallClosed, CloseAgain, ClosedOwner
<1>13. QED
  BY <1>1, <1>2, <1>3, <1>4, <1>5, <1>6, <1>7, <1>8, <1>9, <1>10, <1>11, <1>12 DEF App, AppContinue

LEMMA WorkerKeepsIInv == IInv /\ Worker => Lifecycle' /\ Silent'
<1> SUFFICES ASSUME IInv, Worker PROVE Lifecycle' /\ Silent'
  OBVIOUS
<1> USE DEF IInv, TypeOK, Lifecycle, Silent, Dropped, Closing,
            WorkerKeeps, WorkerAt, Quiet, appVars, pcmVars
<1>1. CASE Lock \/ TestRunning \/ TestClosed \/ SpuriousWake
  BY <1>1 DEF Lock, TestRunning, TestClosed, SpuriousWake
<1>2. CASE CheckClosed BY <1>2 DEF CheckClosed
<1>3. CASE DataReturn \/ Loop BY <1>3 DEF DataReturn, Loop
<1>4. ASSUME NEW n \in 0..Period, IoTransfer(n) PROVE Lifecycle' /\ Silent'
  BY <1>4 DEF IoTransfer
<1>5. CASE IoStart BY <1>5 DEF IoStart
<1>6. CASE IoXrun \/ IoBadState \/ IoDeviceFault BY <1>6 DEF IoXrun, IoBadState, IoDeviceFault
<1>7. CASE XrunReturn \/ FaultReturn BY <1>7 DEF XrunReturn, FaultReturn
<1>8. CASE XrunPrepare BY <1>8 DEF XrunPrepare, PcmPrepare
<1>9. CASE FaultPrepare BY <1>9 DEF FaultPrepare, PcmPrepare
<1>10. CASE Transfer BY <1>4, <1>10 DEF Transfer
<1>11. CASE IoTransfer(0) BY <1>4, <1>11, AlsaAssumption
<1>12. QED
  BY <1>1, <1>2, <1>3, <1>5, <1>6, <1>7, <1>8, <1>9, <1>10, <1>11 DEF Worker, WorkerStep

LEMMA HwKeepsIInv == IInv /\ HwTick => Lifecycle' /\ Silent'
BY DEF IInv, HwTick, Lifecycle, Silent, Dropped, appVars

(* The strengthening of both properties below is inductive. *)
THEOREM Inductive == Spec => []IInv
<1>1. Init => IInv
  <2>1. Init => Lifecycle /\ Silent BY DEF Init, Lifecycle, Silent, Dropped, Closing
  <2>2. QED BY <2>1, InitTypes DEF IInv
<1>2. IInv /\ [Next]_vars => IInv'
  <2>1. IInv /\ Next => TypeOK' BY AppTypes, WorkerTypes, HwTypes DEF IInv, Next
  <2>2. IInv /\ Next => Lifecycle' /\ Silent'
    BY AppKeepsIInv, WorkerKeepsIInv, HwKeepsIInv DEF Next
  <2>3. IInv /\ UNCHANGED vars => IInv'
    BY DEF IInv, TypeOK, Lifecycle, Silent, Dropped, vars
  <2>4. QED BY <2>1, <2>2, <2>3 DEF IInv
<1>3. QED BY <1>1, <1>2, PTL DEF Spec

(* alsa_stream_pause leaves the device silent until the next play, however *)
(* its drop falls into the worker's transfer or recovery.                  *)
THEOREM PauseSilences == Spec => []PausedSilent
<1>1. IInv => PausedSilent BY DEF IInv, Silent, Dropped, PausedSilent
<1>2. QED BY <1>1, Inductive, PTL

(* alsa_stream_destroy closes the PCM and frees the stream only after the  *)
(* worker has left.                                                        *)
THEOREM ReleaseIsLast == Spec => []ReleasedUnused
<1>1. IInv => ReleasedUnused BY DEF IInv, Lifecycle, ReleasedUnused
<1>2. QED BY <1>1, Inductive, PTL

-----------------------------------------------------------------------------
(* AlsaStream implements StreamContract.                                   *)

LEMMA InitRefines == Init => Contract!CInit
BY DEF Init, Contract!CInit, Mode, Round, Busy

LEMMA AppRefines == IInv /\ App => [Contract!CNext]_(Contract!cvars)
<1> SUFFICES ASSUME IInv, App PROVE [Contract!CNext]_(Contract!cvars)
  OBVIOUS
<1> USE DEF Mode, Round, Busy, Contract!cvars, IInv, Lifecycle, Closing
<1>1. CASE PlayStore
  <2>1. Contract!Play BY <1>1 DEF PlayStore, Contract!Play
  <2>2. QED BY <2>1 DEF Contract!CNext
<1>2. CASE PauseStore
  <2>1. Contract!Pause BY <1>2 DEF PauseStore, Contract!Pause
  <2>2. QED BY <2>1 DEF Contract!CNext
<1>3. CASE CloseStore
  <2>1. Contract!Pause BY <1>3 DEF CloseStore, Contract!Pause
  <2>2. QED BY <2>1 DEF Contract!CNext
<1>4. CASE CloseMark
  <2>1. Contract!Close BY <1>4 DEF CloseMark, Contract!Close
  <2>2. QED BY <2>1 DEF Contract!CNext
<1>5. CASE CloseRelease
  <2>1. Contract!Closed BY <1>5 DEF CloseRelease, Contract!Closed
  <2>2. QED BY <2>1 DEF Contract!CNext
<1>6. CASE PlayPrepare \/ PauseDrop \/ CloseDrop \/ CloseJoin \/ CallClosed \/ CloseAgain
  BY <1>6 DEF PlayPrepare, PauseDrop, CloseDrop, CloseJoin, CallClosed, CloseAgain, ClosedOwner
<1>7. CASE PlayWake \/ CloseWake
  BY <1>7 DEF PlayWake, CloseWake, Broadcast
<1>8. QED
  BY <1>1, <1>2, <1>3, <1>4, <1>5, <1>6, <1>7 DEF App, AppContinue

LEMMA WorkerRefines == IInv /\ Worker => [Contract!CNext]_(Contract!cvars)
<1> SUFFICES ASSUME IInv, Worker PROVE [Contract!CNext]_(Contract!cvars)
  OBVIOUS
<1> USE DEF Mode, Round, Busy, Contract!cvars, WorkerKeeps, WorkerAt, appVars
<1>0. worker # "exited" => handle BY DEF IInv, Lifecycle
<1>1. CASE Lock \/ TestClosed \/ SpuriousWake
  BY <1>1 DEF Lock, TestClosed, SpuriousWake
<1>2. CASE TestRunning
  <2>1. CASE running
    <3>1. Contract!OpenRound BY <1>2, <2>1 DEF TestRunning, Contract!OpenRound, IInv, Lifecycle
    <3>2. QED BY <3>1 DEF Contract!CNext
  <2>2. CASE ~running BY <1>2, <2>2 DEF TestRunning
  <2>3. QED BY <2>1, <2>2
<1>3. CASE CheckClosed
  <2>1. CASE closed \/ is_input BY <1>3, <2>1 DEF CheckClosed
  <2>2. CASE ~closed /\ ~is_input
    <3>1. Contract!Data BY <1>3, <2>2 DEF CheckClosed, Contract!Data
    <3>2. QED BY <3>1 DEF Contract!CNext
  <2>3. QED BY <2>1, <2>2
<1>4. CASE DataReturn
  <2>1. Contract!Return BY <1>4 DEF DataReturn, Contract!Return
  <2>2. QED BY <2>1 DEF Contract!CNext
<1>5. CASE Loop
  <2>1. CASE worker' = "io" BY <1>5, <2>1 DEF Loop
  <2>2. CASE worker' = "data"
    <3>1. Contract!Data BY <1>5, <2>2 DEF Loop, Contract!Data
    <3>2. QED BY <3>1 DEF Contract!CNext
  <2>3. CASE worker' = "lock"
    <3>1. Contract!CloseRound BY <1>5, <2>3 DEF Loop, Contract!CloseRound
    <3>2. QED BY <3>1 DEF Contract!CNext
  <2>4. QED BY <1>5, <2>1, <2>2, <2>3 DEF Loop
<1>6. CASE IoStart BY <1>6 DEF IoStart
<1>7. CASE IoXrun \/ IoBadState \/ IoDeviceFault
  <2>1. Contract!Error
    BY <1>0, <1>7 DEF IoXrun, IoBadState, IoDeviceFault, Contract!Error
  <2>2. QED BY <2>1 DEF Contract!CNext
<1>8. CASE XrunReturn \/ FaultReturn
  <2>1. Contract!Return BY <1>8 DEF XrunReturn, FaultReturn, Contract!Return
  <2>2. QED BY <2>1 DEF Contract!CNext
<1>9. CASE XrunPrepare BY <1>9 DEF XrunPrepare
<1>10. CASE FaultPrepare
  <2>1. CASE is_input
    <3>1. Contract!Data BY <1>10, <2>1 DEF FaultPrepare, Contract!Data
    <3>2. QED BY <3>1 DEF Contract!CNext
  <2>2. CASE ~is_input
    <3>1. Contract!CloseRound BY <1>10, <2>2 DEF FaultPrepare, Contract!CloseRound
    <3>2. QED BY <3>1 DEF Contract!CNext
  <2>3. QED BY <2>1, <2>2
<1>11. CASE Transfer \/ IoTransfer(0) BY <1>11 DEF Transfer, IoTransfer
<1>12. QED
  BY <1>1, <1>2, <1>3, <1>4, <1>5, <1>6, <1>7, <1>8, <1>9, <1>10, <1>11 DEF Worker, WorkerStep

LEMMA HwRefines == HwTick => [Contract!CNext]_(Contract!cvars)
BY DEF HwTick, appVars, Mode, Round, Busy, Contract!cvars

(* play, pause and close promise what StreamContract says: at most one     *)
(* data callback after a pause, none after close, never two at a time, for *)
(* any period and any device.                                              *)
THEOREM Implements == Spec => KeepsContract
<1>1. IInv /\ [Next]_vars => [Contract!CNext]_(Contract!cvars)
  <2>1. IInv /\ Next => [Contract!CNext]_(Contract!cvars)
    BY AppRefines, WorkerRefines, HwRefines DEF Next
  <2>2. UNCHANGED vars => UNCHANGED Contract!cvars
    BY DEF vars, Contract!cvars, Mode, Round, Busy
  <2>3. QED BY <2>1, <2>2
<1>2. QED BY <1>1, Inductive, InitRefines, PTL DEF Spec, KeepsContract, Contract!CSpec

-----------------------------------------------------------------------------
(* What the user may conclude.                                             *)

VARIABLE late   \* data callbacks begun since the stream last played

Promises == INSTANCE ContractPromises WITH mode <- Mode, round <- Round, busy <- Busy

LEMMA SameContract == KeepsContract => Promises!CSpec
<1>1. Contract!CInit => Promises!CInit BY DEF Contract!CInit, Promises!CInit
<1>2. [Contract!CNext]_(Contract!cvars) => [Promises!CNext]_(Promises!cvars)
  BY DEF Contract!cvars, Contract!CNext, Contract!Play, Contract!Pause, Contract!Close,
         Contract!Closed, Contract!OpenRound, Contract!Data, Contract!Error, Contract!Return,
         Contract!CloseRound,
         Promises!cvars, Promises!CNext, Promises!Play, Promises!Pause, Promises!Close,
         Promises!Closed, Promises!OpenRound, Promises!Data, Promises!Error, Promises!Return,
         Promises!CloseRound
<1>3. QED BY <1>1, <1>2, PTL DEF KeepsContract, Contract!CSpec, Promises!CSpec

(* After alsa_stream_destroy returned no callback of the stream begins or  *)
(* ends, whatever is called on its owner.                                  *)
THEOREM NothingAfterClose == Spec => Promises!CloseIsFinal
BY Implements, SameContract, Promises!OneByOne, Promises!ClosedForGood

(* After alsa_stream_pause stored running at most one more data callback   *)
(* begins before the next play, for any period and any device.             *)
THEOREM OneLateCallback == Spec /\ Promises!Counted => [](late <= 1)
BY Implements, SameContract, Promises!OneLateCallback

-----------------------------------------------------------------------------
(* Why the threads of the stream do not wait for each other: the safety    *)
(* half of CloseReturns and KeepsPlaying.                                  *)

PlayPending == app \in {"playPrepare", "playWake"}

(* A worker in the wait has nothing to do, or the call that gives it       *)
(* something has yet to broadcast.  Between its test of running and the    *)
(* wait it holds the mutex, so no broadcast falls in between.              *)
Wakeful == /\ worker \in {"testClosed", "waiting"} => ~running \/ PlayPending
           /\ worker = "waiting" => ~closed \/ app = "closeWake"

(* While close joins, a transfer finds the PCM dropped. *)
JoinDropped == app = "closeJoin" => /\ pcm \in {"SETUP", "PREPARED"}
                                    /\ worker = "io" => pcm = "SETUP"

LEMMA AppKeepsWakeful == IInv /\ Wakeful /\ JoinDropped /\ App => Wakeful' /\ JoinDropped'
<1> SUFFICES ASSUME IInv, Wakeful, JoinDropped, App PROVE Wakeful' /\ JoinDropped'
  OBVIOUS
<1> USE DEF IInv, Lifecycle, Wakeful, JoinDropped, PlayPending, Closing, Broadcast, MutexFree, pcmVars
<1>1. CASE PlayStore BY <1>1 DEF PlayStore
<1>2. CASE PlayPrepare BY <1>2 DEF PlayPrepare
<1>3. CASE PlayWake BY <1>3 DEF PlayWake
<1>4. CASE PauseStore BY <1>4 DEF PauseStore
<1>5. CASE PauseDrop BY <1>5 DEF PauseDrop
<1>6. CASE CloseStore BY <1>6 DEF CloseStore
<1>7. CASE CloseMark BY <1>7 DEF CloseMark
<1>8. CASE CloseWake BY <1>8 DEF CloseWake
<1>9. CASE CloseDrop BY <1>9 DEF CloseDrop, PcmDrop
<1>10. CASE CloseJoin \/ CloseRelease BY <1>10 DEF CloseJoin, CloseRelease
<1>11. CASE CallClosed \/ CloseAgain BY <1>11 DEF CallClosed, CloseAgain, ClosedOwner
<1>12. QED
  BY <1>1, <1>2, <1>3, <1>4, <1>5, <1>6, <1>7, <1>8, <1>9, <1>10, <1>11 DEF App, AppContinue

LEMMA WorkerKeepsWakeful == IInv /\ Wakeful /\ JoinDropped /\ Worker => Wakeful' /\ JoinDropped'
<1> SUFFICES ASSUME IInv, Wakeful, JoinDropped, Worker PROVE Wakeful' /\ JoinDropped'
  OBVIOUS
<1> USE DEF IInv, Lifecycle, Wakeful, JoinDropped, PlayPending, Closing,
            WorkerKeeps, WorkerAt, Quiet, appVars, pcmVars
<1>1. CASE Lock \/ TestRunning \/ TestClosed \/ SpuriousWake
  BY <1>1 DEF Lock, TestRunning, TestClosed, SpuriousWake
<1>2. CASE CheckClosed \/ DataReturn \/ Loop BY <1>2 DEF CheckClosed, DataReturn, Loop
<1>3. CASE Transfer \/ IoTransfer(0) BY <1>3 DEF Transfer, IoTransfer
<1>4. CASE IoStart \/ IoXrun \/ IoBadState \/ IoDeviceFault
  BY <1>4 DEF IoStart, IoXrun, IoBadState, IoDeviceFault
<1>5. CASE XrunReturn \/ FaultReturn BY <1>5 DEF XrunReturn, FaultReturn
<1>6. CASE XrunPrepare \/ FaultPrepare BY <1>6 DEF XrunPrepare, FaultPrepare, PcmPrepare
<1>7. QED BY <1>1, <1>2, <1>3, <1>4, <1>5, <1>6 DEF Worker, WorkerStep

(* No wakeup is lost: after play returned the worker does not sleep, and   *)
(* when close joins it neither sleeps nor is it blocked in a transfer,     *)
(* however the broadcasts and the drop fall into its wait and its loop.    *)
NoLostWakeup == /\ app = "idle" /\ running => worker # "waiting"
                /\ app = "closeJoin" => /\ worker # "waiting"
                                        /\ worker = "io" => pcm = "SETUP"

(* The broadcast of alsa_stream_play and the broadcast and the drop of     *)
(* alsa_stream_destroy reach the worker wherever it is.                    *)
THEOREM NoWakeupIsLost == Spec => []NoLostWakeup
<1>1. Init => Wakeful /\ JoinDropped BY DEF Init, Wakeful, JoinDropped
<1>2. IInv /\ Wakeful /\ JoinDropped /\ [Next]_vars => Wakeful' /\ JoinDropped'
  <2>1. Wakeful /\ JoinDropped /\ HwTick => Wakeful' /\ JoinDropped'
    BY DEF Wakeful, JoinDropped, PlayPending, HwTick, appVars
  <2>2. Wakeful /\ JoinDropped /\ UNCHANGED vars => Wakeful' /\ JoinDropped'
    BY DEF Wakeful, JoinDropped, PlayPending, vars
  <2>3. QED BY <2>1, <2>2, AppKeepsWakeful, WorkerKeepsWakeful DEF Next
<1>3. IInv /\ Wakeful /\ JoinDropped => NoLostWakeup
  BY DEF IInv, Lifecycle, Closing, Wakeful, JoinDropped, PlayPending, NoLostWakeup
<1>4. QED BY <1>1, <1>2, <1>3, Inductive, PTL DEF Spec

(* How far a worker of a closed stream is from its exit, in steps. *)
Distance == CASE worker = "exited" -> 0
              [] worker = "checkClosed" -> 1
              [] worker = "testClosed" -> 2
              [] worker = "testRunning" -> 3
              [] worker = "lock" -> 4
              [] worker = "waiting" -> 5
              [] worker = "data" -> IF is_input THEN 5 ELSE 7
              [] worker \in {"loop", "faultPrepare"} -> 6
              [] worker \in {"fault", "xrunPrepare"} -> 7
              [] worker = "xrun" -> 8
              [] worker = "io" -> IF pcm = "PREPARED" THEN 10 ELSE 9

(* Once closed is stored every step of the worker brings it nearer to its  *)
(* exit, and no other step takes it away from there.                       *)
ClosingAdvances == [][closed => /\ Worker => Distance' < Distance
                                /\ Distance' <= Distance]_vars

(* After alsa_stream_destroy stored closed the worker takes ten steps at   *)
(* most, one data callback and one error callback among them, whatever the *)
(* device and the period: with NoWakeupIsLost, why its join returns.       *)
THEOREM CloseIsNear == Spec => ClosingAdvances /\ [](Distance \in 0..10)
<1>1. TypeOK => Distance \in 0..10 BY DEF TypeOK, WorkerSteps, Distance
<1>2. ASSUME IInv, closed, Worker PROVE Distance' < Distance
  <2> USE <1>2 DEF IInv, TypeOK, Lifecycle, Closing, Distance,
                   WorkerKeeps, WorkerAt, Quiet, appVars, pcmVars
  <2>1. CASE Lock BY <2>1 DEF Lock
  <2>2. CASE TestRunning BY <2>2 DEF TestRunning
  <2>3. CASE TestClosed BY <2>3 DEF TestClosed
  <2>4. CASE SpuriousWake BY <2>4 DEF SpuriousWake
  <2>5. CASE CheckClosed BY <2>5 DEF CheckClosed
  <2>6. CASE DataReturn BY <2>6 DEF DataReturn
  <2>7. CASE Loop BY <2>7 DEF Loop
  <2>8. ASSUME NEW n \in 0..Period, IoTransfer(n) PROVE Distance' < Distance
    <3>1. Distance \in {9, 10} BY <2>8 DEF IoTransfer
    <3>2. Distance' = 6 BY <2>8 DEF IoTransfer
    <3> HIDE DEF Distance
    <3>3. QED BY <3>1, <3>2
  <2>9. CASE IoStart BY <2>9 DEF IoStart
  <2>10. CASE IoXrun BY <2>10 DEF IoXrun
  <2>11. CASE IoBadState BY <2>11 DEF IoBadState
  <2>12. CASE IoDeviceFault BY <2>12 DEF IoDeviceFault
  <2>13. CASE XrunReturn BY <2>13 DEF XrunReturn
  <2>14. CASE FaultReturn BY <2>14 DEF FaultReturn
  <2>15. CASE XrunPrepare BY <2>15 DEF XrunPrepare
  <2>16. CASE FaultPrepare BY <2>16 DEF FaultPrepare
  <2> HIDE DEF Distance
  <2>17. CASE Transfer BY <2>8, <2>17 DEF Transfer
  <2>18. CASE IoTransfer(0) BY <2>8, <2>18, AlsaAssumption
  <2>19. QED
    BY <2>1, <2>2, <2>3, <2>4, <2>5, <2>6, <2>7, <2>9, <2>10, <2>11, <2>12, <2>13,
       <2>14, <2>15, <2>16, <2>17, <2>18 DEF Worker, WorkerStep
<1>3. UNCHANGED <<is_input, worker, pcm>> => Distance' = Distance BY DEF Distance
<1>4. ASSUME TypeOK, pcm' # "PREPARED", UNCHANGED <<is_input, worker>> PROVE Distance' <= Distance
  BY <1>4 DEF TypeOK, WorkerSteps, Distance
<1>5. ASSUME IInv, closed, App PROVE Distance' <= Distance
  <2> USE <1>5 DEF IInv, Lifecycle, Closing, pcmVars
  <2>1. CASE PlayStore \/ PauseStore \/ CloseStore \/ PlayPrepare \/ PlayWake \/ PauseDrop \/ CloseMark
    BY <2>1 DEF PlayStore, PauseStore, CloseStore, PlayPrepare, PlayWake, PauseDrop, CloseMark
  <2>2. CASE CloseWake
    BY <2>2 DEF CloseWake, Broadcast, Distance, TypeOK, WorkerSteps
  <2>3. CASE CloseDrop BY <1>4, <2>3 DEF CloseDrop, PcmDrop
  <2>4. CASE CloseRelease BY <1>4, <2>4 DEF CloseRelease
  <2>5. CASE CloseJoin \/ CallClosed \/ CloseAgain
    <3>1. Distance' = Distance BY <1>3, <2>5 DEF CloseJoin, CallClosed, CloseAgain, ClosedOwner
    <3>2. QED BY <1>1, <3>1
  <2>6. QED BY <2>1, <2>2, <2>3, <2>4, <2>5 DEF App, AppContinue
<1>6. ASSUME IInv, HwTick PROVE Distance' <= Distance
  BY <1>4, <1>6 DEF IInv, HwTick, appVars
<1> DEFINE Advances == closed => (Worker => Distance' < Distance) /\ Distance' <= Distance
<1>7. IInv /\ [Next]_vars => [Advances]_vars
  <2>1. IInv /\ closed /\ Worker => Distance' < Distance /\ Distance' <= Distance
    <3>1. IInv /\ Worker => TypeOK /\ TypeOK' BY WorkerTypes DEF IInv
    <3>2. TypeOK' => Distance' \in 0..10
      BY DEF TypeOK, WorkerSteps, Distance
    <3>3. QED BY <1>1, <1>2, <3>1, <3>2
  <2>2. IInv /\ closed /\ (App \/ HwTick) => Distance' <= Distance BY <1>5, <1>6
  <2>3. IInv /\ closed /\ Next => Advances
    BY <1>2, <2>1, <2>2 DEF Next
  <2>4. QED BY <2>3
<1>8. QED BY <1>1, <1>7, Inductive, PTL DEF Spec, ClosingAdvances, IInv

-----------------------------------------------------------------------------
(* Why a playing stream goes on: the safety half of KeepsPlaying.          *)

(* How far the worker of a playing stream is from its next data callback,  *)
(* in steps at most.  Six of them move a frame: even a transfer that moves *)
(* one frame at a time may have the PCM to recover and to start again.     *)
ToStart == CASE pcm \in {"RUNNING", "CLOSED"} -> 0
             [] pcm \in {"PREPARED", "SETUP"} -> 1
             [] pcm = "XRUN" -> 5

Entry == IF is_input THEN 10 + 6 * Period ELSE 1

ToData == CASE worker \in {"data", "exited"} -> 0
            [] worker = "checkClosed" -> Entry
            [] worker = "testRunning" -> Entry + 1
            [] worker = "lock" -> Entry + 2
            [] worker = "waiting" -> Entry + 3
            [] worker = "testClosed" -> Entry + 4
            [] worker = "faultPrepare" -> 4
            [] worker = "fault" -> 5
            [] worker = "io" -> 3 + 6 * frames_left + ToStart
            [] worker = "loop" -> 4 + 6 * frames_left + ToStart
            [] worker = "xrunPrepare" -> 6 + 6 * frames_left
            [] worker = "xrun" -> 7 + 6 * frames_left

(* Every step the worker of a playing stream takes outside the callback    *)
(* brings the next one nearer, but for a transfer that moves nothing; no   *)
(* call takes it away, and of the hardware's ticks only an XRUN.           *)
RoundAdvances ==
  [][running /\ ~closed => /\ Worker => worker = "data" \/ IoTransfer(0) \/ ToData' < ToData
                           /\ App => ToData' <= ToData
                           /\ HwTick => ToData' <= ToData \/ pcm' = "XRUN"]_vars

(* The worker transfers only what is left. *)
Unfinished == worker = "io" => frames_left > 0

LEMMA UnfinishedInductive == Spec => []Unfinished
<1>1. Init => Unfinished BY DEF Init, Unfinished
<1>2. IInv /\ Unfinished /\ [Next]_vars => Unfinished'
  <2> SUFFICES ASSUME IInv, Unfinished, [Next]_vars PROVE Unfinished'
    OBVIOUS
  <2> USE DEF Unfinished, WorkerKeeps, WorkerAt, Quiet, appVars, pcmVars
  <2>1. CASE App
    BY <2>1 DEF App, AppContinue, PlayStore, PlayPrepare, PlayWake, PauseStore, PauseDrop,
           CloseStore, CloseMark, CloseWake, CloseDrop, CloseJoin, CloseRelease, CallClosed,
           CloseAgain, ClosedOwner, Broadcast
  <2>2. CASE Lock \/ TestRunning \/ TestClosed \/ SpuriousWake \/ CheckClosed \/ DataReturn
    BY <2>2 DEF Lock, TestRunning, TestClosed, SpuriousWake, CheckClosed, DataReturn
  <2>3. CASE Loop BY <2>3 DEF Loop
  <2>4. CASE Transfer \/ IoTransfer(0) BY <2>4 DEF Transfer, IoTransfer
  <2>5. CASE IoStart \/ IoXrun \/ IoBadState \/ IoDeviceFault
    BY <2>5 DEF IoStart, IoXrun, IoBadState, IoDeviceFault
  <2>6. CASE XrunReturn \/ XrunPrepare \/ FaultReturn \/ FaultPrepare
    BY <2>6 DEF XrunReturn, XrunPrepare, FaultReturn, FaultPrepare
  <2>7. CASE HwTick BY <2>7 DEF HwTick
  <2>8. CASE UNCHANGED vars BY <2>8 DEF vars
  <2>9. QED BY <2>1, <2>2, <2>3, <2>4, <2>5, <2>6, <2>7, <2>8 DEF Next, Worker, WorkerStep
<1>3. QED BY <1>1, <1>2, Inductive, PTL DEF Spec

LEMMA ToDataBound ==
  /\ TypeOK => ToData \in 0..14 + 6 * Period
  /\ UNCHANGED <<is_input, worker, frames_left, pcm>> => ToData' = ToData
<1>1. ASSUME TypeOK PROVE ToData \in 0..14 + 6 * Period
  <2> USE AlsaAssumption
  <2>1. ToStart \in 0..5 BY <1>1 DEF TypeOK, PcmStates, ToStart
  <2>2. Entry \in 1..10 + 6 * Period BY <1>1 DEF Entry
  <2>3. frames_left \in 0..Period /\ Period \in Nat BY <1>1 DEF TypeOK
  <2> HIDE DEF ToStart, Entry
  <2>4. CASE worker \in {"data", "exited"}
    <3>1. ToData = 0 BY <2>4 DEF ToData
    <3>2. QED BY <2>3, <3>1
  <2>16. CASE worker = "faultPrepare" BY <2>3, <2>16 DEF ToData
  <2>17. CASE worker = "fault" BY <2>3, <2>17 DEF ToData
  <2>5. CASE worker = "checkClosed" BY <2>2, <2>3, <2>5 DEF ToData
  <2>6. CASE worker = "testRunning" BY <2>2, <2>3, <2>6 DEF ToData
  <2>7. CASE worker = "lock" BY <2>2, <2>3, <2>7 DEF ToData
  <2>8. CASE worker = "waiting" BY <2>2, <2>3, <2>8 DEF ToData
  <2>9. CASE worker = "testClosed" BY <2>2, <2>3, <2>9 DEF ToData
  <2>10. CASE worker = "io" BY <2>1, <2>3, <2>10 DEF ToData
  <2>11. CASE worker = "loop" BY <2>1, <2>3, <2>11 DEF ToData
  <2>12. CASE worker = "xrunPrepare" BY <2>3, <2>12 DEF ToData
  <2>13. CASE worker = "xrun" BY <2>3, <2>13 DEF ToData
  <2>14. worker \in WorkerSteps BY <1>1 DEF TypeOK
  <2>15. QED
    BY <2>4, <2>5, <2>6, <2>7, <2>8, <2>9, <2>10, <2>11, <2>12, <2>13, <2>14,
       <2>16, <2>17 DEF WorkerSteps
<1>2. UNCHANGED <<is_input, worker, frames_left, pcm>> => ToData' = ToData
  BY DEF ToData, ToStart, Entry
<1>3. QED BY <1>1, <1>2

LEMMA WorkerRound ==
  ASSUME TypeOK, TypeOK', Unfinished, running, ~closed, Worker
  PROVE  worker = "data" \/ IoTransfer(0) \/ ToData' < ToData
<1> USE AlsaAssumption DEF TypeOK, Entry, WorkerAt, Quiet, pcmVars, WorkerKeeps
<1>1. CASE Lock BY <1>1 DEF Lock, ToData
<1>2. CASE TestRunning BY <1>2 DEF TestRunning, ToData
<1>3. CASE TestClosed BY <1>3 DEF TestClosed, ToData
<1>4. CASE SpuriousWake BY <1>4 DEF SpuriousWake, ToData
<1>5. CASE CheckClosed BY <1>5 DEF CheckClosed, ToData, ToStart, PcmStates
<1>6. CASE DataReturn BY <1>6 DEF DataReturn
<1>7. CASE Loop BY <1>7 DEF Loop, ToData, ToStart, PcmStates
<1>8. CASE Transfer
  <2>1. PICK n \in 1..Period : IoTransfer(n) BY <1>8 DEF Transfer
  <2>2. /\ n \in Int /\ n >= 1 /\ frames_left \in Int /\ frames_left' = frames_left - n
        /\ worker = "io" /\ worker' = "loop"
    BY <2>1 DEF IoTransfer
  <2>3. ToStart' <= ToStart + 1 /\ ToStart \in {0, 1} /\ ToStart' \in {0, 1}
    BY <2>1 DEF IoTransfer, ToStart
  <2>4. QED BY <2>2, <2>3 DEF ToData
<1>9. CASE IoStart BY <1>9 DEF IoStart, ToData, ToStart
<1>10. CASE IoXrun BY <1>10 DEF IoXrun, ToData, ToStart
<1>11. CASE IoBadState BY <1>11 DEF IoBadState, ToData, ToStart, Unfinished
<1>12. CASE IoDeviceFault BY <1>12 DEF IoDeviceFault, ToData, ToStart, PcmStates, Unfinished
<1>13. CASE XrunReturn BY <1>13 DEF XrunReturn, ToData
<1>14. CASE FaultReturn BY <1>14 DEF FaultReturn, ToData
<1>15. CASE XrunPrepare BY <1>15 DEF XrunPrepare, PcmPrepare, ToData, ToStart
<1>16. CASE FaultPrepare BY <1>16 DEF FaultPrepare, ToData
<1>17. QED
  BY <1>1, <1>2, <1>3, <1>4, <1>5, <1>6, <1>7, <1>8, <1>9, <1>10, <1>11, <1>12, <1>13,
     <1>14, <1>15, <1>16 DEF Worker, WorkerStep

LEMMA OthersRound ==
  ASSUME IInv, running, ~closed
  PROVE  /\ App => ToData' <= ToData
         /\ HwTick => ToData' <= ToData \/ pcm' = "XRUN"
<1>1. ToData \in Int BY AlsaAssumption, ToDataBound DEF IInv
<1>2. UNCHANGED <<is_input, worker, frames_left, pcm>> => ToData' <= ToData
  BY <1>1, ToDataBound
<1> USE DEF IInv, Lifecycle, Closing, pcmVars, appVars
<1>3. PlayStore \/ PauseStore \/ CloseStore => ToData' <= ToData
  BY <1>2 DEF PlayStore, PauseStore, CloseStore
<1>4. ASSUME PlayPrepare PROVE ToData' <= ToData
  <2>1. CASE pcm = "RUNNING" BY <1>2, <1>4, <2>1 DEF PlayPrepare, PcmPrepare
  <2>2. CASE pcm # "RUNNING"
    <3>1. UNCHANGED <<is_input, worker, frames_left>> /\ pcm' = "PREPARED"
      BY <1>4, <2>2 DEF PlayPrepare, PcmPrepare
    <3>2. pcm \in {"PREPARED", "SETUP", "XRUN"}
      BY <2>2, <1>4 DEF TypeOK, PcmStates, PlayPrepare
    <3>3. ToStart' = 1 /\ ToStart \in {1, 5} BY <3>1, <3>2 DEF ToStart
    <3>4. Entry' = Entry BY <3>1 DEF Entry
    <3>5. frames_left \in Int BY AlsaAssumption DEF TypeOK
    <3>6. CASE worker = "io" BY <3>1, <3>3, <3>5, <3>6 DEF ToData
    <3>7. CASE worker = "loop" BY <3>1, <3>3, <3>5, <3>7 DEF ToData
    <3>8. CASE worker \notin {"io", "loop"}
      <4>1. ToData' = ToData BY <3>1, <3>4, <3>8 DEF ToData, TypeOK, WorkerSteps
      <4>2. QED BY <4>1, <1>1
    <3>9. QED BY <3>6, <3>7, <3>8
  <2>3. QED BY <2>1, <2>2
<1>5. ASSUME PlayWake PROVE ToData' <= ToData
  <2>1. CASE worker = "waiting"
    <3>1. worker' = "lock" /\ is_input' = is_input BY <1>5, <2>1 DEF PlayWake, Broadcast
    <3>2. Entry' = Entry /\ Entry \in Int BY <3>1, AlsaAssumption DEF Entry
    <3>3. QED BY <2>1, <3>1, <3>2 DEF ToData
  <2>2. CASE worker # "waiting" BY <1>2, <1>5, <2>2 DEF PlayWake, Broadcast
  <2>3. QED BY <2>1, <2>2
<1>6. PauseDrop \/ CloseMark \/ CloseWake \/ CloseDrop \/ CloseJoin \/ CloseRelease => FALSE
  BY DEF PauseDrop, CloseMark, CloseWake, CloseDrop, CloseJoin, CloseRelease
<1>7. CallClosed \/ CloseAgain => ToData' <= ToData
  BY <1>2 DEF CallClosed, CloseAgain, ClosedOwner
<1>8. HwTick => ToData' <= ToData \/ pcm' = "XRUN" BY <1>2 DEF HwTick
<1>9. QED BY <1>3, <1>4, <1>5, <1>6, <1>7, <1>8 DEF App, AppContinue

(* A playing stream cannot lose its way to the data callback: whatever the *)
(* worker does but a transfer that moves nothing brings the callback nearer*)
(* and the distance is bounded by the period.  KeepsPlaying needs besides  *)
(* that the worker runs and that its transfers move frames.                *)
THEOREM NextRoundIsNear == Spec => RoundAdvances /\ [](ToData \in 0..14 + 6 * Period)
<1>1. TypeOK => ToData \in 0..14 + 6 * Period BY ToDataBound
<1>2. ASSUME TypeOK, TypeOK', IInv, Unfinished, running, ~closed, Next
      PROVE  /\ Worker => worker = "data" \/ IoTransfer(0) \/ ToData' < ToData
             /\ App => ToData' <= ToData
             /\ HwTick => ToData' <= ToData \/ pcm' = "XRUN"
  BY <1>2, WorkerRound, OthersRound
<1>3. IInv => TypeOK BY DEF IInv
<1>4. QED
  BY <1>1, <1>2, <1>3, Inductive, UnfinishedInductive, PTL DEF Spec, RoundAdvances
=============================================================================
