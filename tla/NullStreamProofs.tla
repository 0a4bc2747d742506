-------------------------- MODULE NullStreamProofs --------------------------
(***************************************************************************)
(* Theorems about NullStream, for any number of requests and any values of *)
(* after_callbacks.                                                        *)
(***************************************************************************)
EXTENDS NullStream, TLAPS

-----------------------------------------------------------------------------
(* Type correctness and the lifecycle.                                     *)

Closing == {"closeStop", "closeWake", "closeJoin", "closeRelease"}

Lifecycle == /\ closed <=> (app \in Closing \/ ~handle)
             /\ worker = "exited" => closed
             /\ app = "closeRelease" => worker = "exited"
             /\ ~handle => app = "idle" /\ worker = "exited"

IInv == TypeOK /\ Lifecycle

(* A wakeup moves the worker out of a wait, or sets the event. *)
LEMMA WakeTypes ==
  ASSUME TypeOK, WakeWorker
  PROVE  /\ worker' \in WorkerSteps /\ event' \in BOOLEAN
         /\ worker' = "exited" <=> worker = "exited"
<1>1. CASE windows BY <1>1 DEF TypeOK, WakeWorker
<1>2. CASE ~windows BY <1>2 DEF TypeOK, WakeWorker, Broadcast, WorkerSteps
<1>3. QED BY <1>1, <1>2

LEMMA AppKeepsIInv == IInv /\ App => IInv'
<1> SUFFICES ASSUME IInv, App PROVE IInv'
  OBVIOUS
<1> USE DEF IInv, TypeOK, Lifecycle, Closing, AppSteps, WorkerSteps, AppAt, AppKeeps, lifecycle, asleep
<1>1. CASE PlayStore
  <2>1. TypeOK' BY <1>1 DEF PlayStore
  <2>2. Lifecycle' BY <1>1 DEF PlayStore
  <2>3. QED BY <2>1, <2>2
<1>2. CASE PauseStore
  <2>1. TypeOK' BY <1>2, ZenonT(60) DEF PauseStore
  <2>2. Lifecycle' BY <1>2 DEF PauseStore
  <2>3. QED BY <2>1, <2>2
<1>3. CASE Wake
  <2>1. WakeWorker BY <1>3 DEF Wake
  <2>2. worker' \in WorkerSteps /\ event' \in BOOLEAN /\ (worker' = "exited" <=> worker = "exited")
    BY <2>1, WakeTypes
  <2>3. TypeOK' BY <1>3, <2>2 DEF Wake
  <2>4. Lifecycle' BY <1>3, <2>2 DEF Wake
  <2>5. QED BY <2>3, <2>4
<1>4. CASE CloseStore
  <2>1. TypeOK' BY <1>4 DEF CloseStore
  <2>2. Lifecycle' BY <1>4 DEF CloseStore
  <2>3. QED BY <2>1, <2>2
<1>5. CASE CloseStop
  <2>1. TypeOK' BY <1>5, ZenonT(60) DEF CloseStop
  <2>2. Lifecycle' BY <1>5 DEF CloseStop
  <2>3. QED BY <2>1, <2>2
<1>6. CASE CloseWake
  <2>1. WakeWorker BY <1>6 DEF CloseWake
  <2>2. worker' \in WorkerSteps /\ event' \in BOOLEAN /\ (worker' = "exited" <=> worker = "exited")
    BY <2>1, WakeTypes
  <2>3. TypeOK' BY <1>6, <2>2 DEF CloseWake
  <2>4. Lifecycle' BY <1>6, <2>2 DEF CloseWake
  <2>5. QED BY <2>3, <2>4
<1>7. CASE CloseJoin BY <1>7 DEF CloseJoin
<1>8. CASE CloseRelease BY <1>8 DEF CloseRelease
<1>9. CASE CallClosed \/ CloseAgain BY <1>9 DEF CallClosed, CloseAgain, ClosedOwner
<1>10. ASSUME NEW after \in Afters, InjectStart(after) PROVE IInv'
  <2>1. request' \in Payloads
    BY <1>10, NullAssumption DEF InjectStart, Payloads
  <2>2. QED BY <1>10, <2>1 DEF InjectStart
<1>11. CASE InjectOp BY <1>11 DEF InjectOp, InjectStore
<1>12. CASE InjectStatus BY <1>12 DEF InjectStatus, InjectStore
<1>13. CASE InjectRearm BY <1>13 DEF InjectRearm, InjectStore
<1>14. CASE InjectPend BY <1>14 DEF InjectPend, InjectStore
<1>15. QED
  BY <1>1, <1>2, <1>3, <1>4, <1>5, <1>6, <1>7, <1>8, <1>9, <1>10, <1>11, <1>12, <1>13, <1>14
  DEF App, AppContinue

LEMMA WorkerKeepsIInv == IInv /\ Worker => IInv'
<1> SUFFICES ASSUME IInv, Worker PROVE IInv'
  OBVIOUS
<1> USE DEF IInv, TypeOK, Lifecycle, Closing, WorkerSteps, WorkerAt, WorkerKeeps, Quiet, lifecycle
<1>1. CASE Lock \/ TestRunning \/ TestClosed \/ SpuriousWake \/ CheckClosed
  BY <1>1 DEF Lock, TestRunning, TestClosed, SpuriousWake, CheckClosed
<1>2. CASE DataReturn
  <2>1. cb_count' \in 0..MaxAfter BY <1>2, NullAssumption DEF DataReturn
  <2>2. QED BY <1>2, <2>1 DEF DataReturn
<1>3. CASE TestPending \/ TestSent \/ TestAfter
  BY <1>3 DEF TestPending, TestSent, TestAfter
<1>4. CASE MarkSent BY <1>4 DEF MarkSent
<1>5. CASE ClearPending BY <1>5 DEF ClearPending
<1>6. CASE LoadOp BY <1>6 DEF LoadOp
<1>7. CASE LoadStatus
  <2>1. errors' \in [Requests -> 0..2]
    <3>1. CASE inject.status \in Requests
      <4>1. errors[inject.status] \in 0..2 BY <3>1
      <4>2. QED BY <1>7, <3>1, <4>1 DEF LoadStatus
    <3>2. CASE inject.status \notin Requests
      <4>1. errors' = errors BY <1>7, <3>2 DEF LoadStatus
      <4>2. QED BY <4>1
    <3>3. QED BY <3>1, <3>2
  <2>2. QED BY <1>7, <2>1 DEF LoadStatus
<1>8. CASE ErrorReturn \/ Pace \/ PaceTimeout BY <1>8 DEF ErrorReturn, Pace, PaceTimeout
<1>9. CASE WinTestClosed \/ WinTestRunning \/ WinCall
  BY <1>9 DEF WinTestClosed, WinTestRunning, WinCall
<1>10. CASE WinWait \/ WinPace
  <2>1. TypeOK' BY <1>10 DEF WinWait, WinPace, WinWoken
  <2>2. Lifecycle' BY <1>10 DEF WinWait, WinPace, WinWoken
  <2>3. QED BY <2>1, <2>2
<1>11. QED
  BY <1>1, <1>2, <1>3, <1>4, <1>5, <1>6, <1>7, <1>8, <1>9, <1>10 DEF Worker, WorkerStep

(* Whether the caller waits is chosen once. *)
LEMMA SerialKept == Next => serial' = serial
<1>1. App => serial' = serial
  BY DEF App, AppContinue, PlayStore, PauseStore, Wake, CloseStore, CloseStop, CloseWake,
         CloseJoin, CloseRelease, CallClosed, CloseAgain, ClosedOwner, InjectStart, InjectOp,
         InjectStatus, InjectRearm, InjectPend, InjectStore, AppAt, AppKeeps
<1>2. Worker => serial' = serial
  BY DEF Worker, WorkerStep, Lock, TestRunning, TestClosed, SpuriousWake, CheckClosed,
         DataReturn, TestPending, TestSent, TestAfter, MarkSent, ClearPending, LoadOp,
         LoadStatus, ErrorReturn, Pace, PaceTimeout, WinTestClosed, WinTestRunning, WinCall,
         WinWait, WinPace, WinWoken, WorkerAt, WorkerKeeps
<1>3. QED BY <1>1, <1>2 DEF Next

LEMMA InitOK == Init => IInv
<1> SUFFICES ASSUME Init PROVE IInv
  OBVIOUS
<1>1. 0 \in Payloads /\ 0 \in 0..MaxAfter BY NullAssumption DEF Payloads
<1>2. inject \in [pending : BOOLEAN, sent : BOOLEAN, after : Afters \cup {0},
                  op : Payloads, status : Payloads]
  BY <1>1 DEF Init
<1>3. taken \in [op : Payloads, status : Payloads] BY <1>1 DEF Init
<1>4. errors \in [Requests -> 0..2] BY DEF Init
<1>5. TypeOK BY <1>1, <1>2, <1>3, <1>4 DEF Init, TypeOK, AppSteps, WorkerSteps
<1>6. Lifecycle BY DEF Init, Lifecycle, Closing
<1>7. QED BY <1>5, <1>6 DEF IInv

LEMMA LifecycleInductive == Spec => []IInv
<1>1. IInv /\ [Next]_vars => IInv'
  <2>1. IInv /\ Next => IInv' BY AppKeepsIInv, WorkerKeepsIInv DEF Next
  <2>2. IInv /\ UNCHANGED vars => IInv' BY DEF IInv, TypeOK, Lifecycle, vars
  <2>3. QED BY <2>1, <2>2
<1>2. QED BY <1>1, InitOK, PTL DEF Spec

(* Every reachable state is well formed. *)
THEOREM TypeCorrect == Spec => []TypeOK
<1>1. IInv => TypeOK BY DEF IInv
<1>2. QED BY <1>1, LifecycleInductive, PTL

(* null_stream_destroy frees the stream only after the worker has left. *)
THEOREM ReleaseIsLast == Spec => []ReleasedUnused
<1>1. IInv => ReleasedUnused BY DEF IInv, Lifecycle, ReleasedUnused
<1>2. QED BY <1>1, LifecycleInductive, PTL

-----------------------------------------------------------------------------
(* Injected errors, when the caller waits for one before the next.         *)

Injecting == {"injectOp", "injectStatus", "injectRearm", "injectPend"}
Claiming == {"testSent", "testAfter", "markSent", "clearPending"}
Delivering == {"loadOp", "loadStatus"}

(* Until its error came, a request is the last one made; once it came,     *)
(* nothing of it is left that could bring the error again.  inject_pending *)
(* covers the way from the last store of inject_error to the claim, the    *)
(* worker's place the way from there to the callback.                      *)
Outstanding == /\ \A r \in Requests : r > request => errors[r] = 0
               /\ \A r \in Requests : errors[r] <= 1
               /\ inject.pending \/ worker \in Delivering
                    => request > 0 /\ errors[request] = 0 /\ app \notin Injecting
               /\ worker \in Claiming => inject.pending
               /\ worker \in Delivering => ~inject.pending
               /\ app \in Injecting => request > 0 /\ errors[request] = 0

(* The payload stored is the last request's, from the store on. *)
Payload == /\ app # "injectOp" => inject.op = request
           /\ app \notin {"injectOp", "injectStatus"} => inject.status = request
           /\ worker = "loadStatus" => taken.op = request
           /\ taken.status <= request

(* A claim was made when the error was due. *)
Timely == worker \in {"markSent", "clearPending"} \cup Delivering => Due(inject.after)

SInv == /\ IInv
        /\ Outstanding /\ Payload /\ Timely
        /\ NotTorn /\ NotEarly

LEMMA AppKeepsSInv == serial /\ SInv /\ App => SInv'
<1> SUFFICES ASSUME serial, SInv, App PROVE (Outstanding /\ Payload /\ Timely /\ NotTorn /\ NotEarly)'
  BY AppKeepsIInv DEF SInv
<1> USE DEF SInv, IInv, TypeOK, Outstanding, Payload, Timely, NotTorn, NotEarly, Due,
            Injecting, Claiming, Delivering, AppAt, AppKeeps, lifecycle, asleep
<1>1. CASE PlayStore \/ PauseStore \/ CloseStore
  BY <1>1 DEF PlayStore, PauseStore, CloseStore
<1>2. CASE Wake \/ CloseWake BY <1>2 DEF Wake, CloseWake, WakeWorker, Broadcast
<1>3. CASE CloseStop \/ CloseJoin \/ CloseRelease
  BY <1>3 DEF CloseStop, CloseJoin, CloseRelease
<1>4. CASE CallClosed \/ CloseAgain BY <1>4 DEF CallClosed, CloseAgain, ClosedOwner
<1>5. ASSUME NEW after \in Afters, InjectStart(after)
      PROVE (Outstanding /\ Payload /\ Timely /\ NotTorn /\ NotEarly)'
  <2>1. /\ request \in Nat /\ request' = request + 1 /\ request' \in Requests
        /\ request > 0 => request \in Requests
    BY <1>5, NullAssumption DEF InjectStart, Payloads, Requests
  <2>2. /\ worker \notin Claiming \cup Delivering
        /\ ~inject.pending
    BY <1>5, <2>1 DEF InjectStart
  <2>3. Outstanding' BY <1>5, <2>1, <2>2, NullAssumption DEF InjectStart, Requests, Payloads
  <2>4. Payload' BY <1>5, <2>1, <2>2 DEF InjectStart, Payloads
  <2>5. (Timely /\ NotTorn /\ NotEarly)' BY <1>5, <2>1, <2>2 DEF InjectStart, Payloads
  <2>6. QED BY <2>3, <2>4, <2>5
<1>6. CASE InjectOp BY <1>6 DEF InjectOp, InjectStore
<1>7. CASE InjectStatus BY <1>7 DEF InjectStatus, InjectStore
<1>8. CASE InjectRearm BY <1>8 DEF InjectRearm, InjectStore
<1>9. CASE InjectPend BY <1>9 DEF InjectPend, InjectStore
<1>10. QED
  BY <1>1, <1>2, <1>3, <1>4, <1>5, <1>6, <1>7, <1>8, <1>9 DEF App, AppContinue

LEMMA WorkerKeepsSInv == SInv /\ Worker => SInv'
<1> SUFFICES ASSUME SInv, Worker PROVE (Outstanding /\ Payload /\ Timely /\ NotTorn /\ NotEarly)'
  BY WorkerKeepsIInv DEF SInv
<1> USE DEF SInv, IInv, TypeOK, Outstanding, Payload, Timely, NotTorn, NotEarly, Due,
            Injecting, Claiming, Delivering, WorkerAt, WorkerKeeps, Quiet, lifecycle
<1>1. CASE Lock \/ TestRunning \/ TestClosed \/ SpuriousWake \/ CheckClosed
  BY <1>1 DEF Lock, TestRunning, TestClosed, SpuriousWake, CheckClosed
<1>2. CASE DataReturn BY <1>2, NullAssumption DEF DataReturn
<1>3. CASE TestPending BY <1>3 DEF TestPending
<1>4. CASE TestSent \/ TestAfter BY <1>4 DEF TestSent, TestAfter
<1>5. CASE MarkSent BY <1>5 DEF MarkSent
<1>6. CASE ClearPending BY <1>6 DEF ClearPending
<1>7. CASE LoadOp BY <1>7 DEF LoadOp
<1>8. CASE LoadStatus
  <2>1. inject.status = request /\ request \in Requests /\ request \in Nat /\ errors[request] = 0
    BY <1>8 DEF LoadStatus, Payloads, Requests
  <2>2. errors' = [errors EXCEPT ![request] = 1]
    BY <1>8, <2>1 DEF LoadStatus
  <2>3. Outstanding' BY <1>8, <2>1, <2>2 DEF LoadStatus, Requests
  <2>4. Payload' BY <1>8, <2>1 DEF LoadStatus
  <2>5. (Timely /\ NotTorn /\ NotEarly)'
    BY <1>8, <2>1, NullAssumption DEF LoadStatus
  <2>6. QED BY <2>3, <2>4, <2>5
<1>9. CASE ErrorReturn \/ Pace \/ PaceTimeout BY <1>9 DEF ErrorReturn, Pace, PaceTimeout
<1>10. CASE WinTestClosed \/ WinTestRunning \/ WinCall
  BY <1>10 DEF WinTestClosed, WinTestRunning, WinCall
<1>11. CASE WinWait \/ WinPace BY <1>11 DEF WinWait, WinPace, WinWoken
<1>12. QED
  BY <1>1, <1>2, <1>3, <1>4, <1>5, <1>6, <1>7, <1>8, <1>9, <1>10, <1>11 DEF Worker, WorkerStep

LEMMA InjectionInductive == Spec => [](serial => SInv)
<1>1. Init => SInv
  <2>1. Init => Outstanding /\ Payload
    BY DEF Init, Outstanding, Payload, Injecting, Claiming, Delivering, Requests
  <2>2. Init => Timely /\ NotTorn /\ NotEarly
    BY DEF Init, Timely, NotTorn, NotEarly, Delivering
  <2>3. QED BY <2>1, <2>2, InitOK DEF SInv
<1>2. (serial => SInv) /\ [Next]_vars => (serial => SInv)'
  <2>1. serial /\ SInv /\ Next => SInv' BY AppKeepsSInv, WorkerKeepsSInv DEF Next
  <2>2. SInv /\ UNCHANGED vars => SInv'
    BY DEF SInv, IInv, TypeOK, Lifecycle, Outstanding, Payload, Timely, NotTorn, NotEarly, Due, vars
  <2>3. UNCHANGED vars => serial' = serial BY DEF vars
  <2>4. QED BY <2>1, <2>2, <2>3, SerialKept
<1>3. QED BY <1>1, <1>2, PTL DEF Spec

(* "Errors are delivered at most once per injection request", however many *)
(* requests a caller makes that waits for each error before it injects the *)
(* next; one that does not wait can have an error twice.                   *)
THEOREM OnceEach == Spec => []AtMostOnce
<1>1. (serial => SInv) => AtMostOnce BY DEF SInv, Outstanding, AtMostOnce, OncePerRequest
<1>2. QED BY <1>1, InjectionInductive, PTL

(* Nor does such a caller's error callback see a torn payload, or see it   *)
(* before its count of data callbacks.                                     *)
THEOREM ErrorsWholeAndDue == Spec => []WholeAndDue
<1>1. (serial => SInv) => WholeAndDue BY DEF SInv, WholeAndDue
<1>2. QED BY <1>1, InjectionInductive, PTL

-----------------------------------------------------------------------------
(* NullStream implements StreamContract.                                   *)

LEMMA InitRefines == Init => Contract!CInit
BY DEF Init, Contract!CInit, Mode, Round, Busy, Serving

LEMMA AppRefines == IInv /\ App => [Contract!CNext]_(Contract!cvars)
<1> SUFFICES ASSUME IInv, App PROVE [Contract!CNext]_(Contract!cvars)
  OBVIOUS
<1> USE DEF Mode, Round, Busy, Serving, Contract!cvars, IInv, Lifecycle, Closing,
            AppAt, AppKeeps, lifecycle, asleep
<1>1. CASE PlayStore
  <2>1. Contract!Play BY <1>1 DEF PlayStore, Contract!Play
  <2>2. QED BY <2>1 DEF Contract!CNext
<1>2. CASE PauseStore
  <2>1. Contract!Pause BY <1>2 DEF PauseStore, Contract!Pause
  <2>2. QED BY <2>1 DEF Contract!CNext
<1>3. CASE CloseStore
  <2>1. Contract!Close BY <1>3 DEF CloseStore, Contract!Close
  <2>2. QED BY <2>1 DEF Contract!CNext
<1>4. CASE CloseRelease
  <2>1. Contract!Closed BY <1>4 DEF CloseRelease, Contract!Closed
  <2>2. QED BY <2>1 DEF Contract!CNext
<1>5. CASE CloseStop
  <2>1. CASE worker = "winRunning" /\ closed /\ running
    <3>1. Contract!CloseRound BY <1>5, <2>1 DEF CloseStop, Contract!CloseRound
    <3>2. QED BY <3>1 DEF Contract!CNext
  <2>2. CASE ~(worker = "winRunning" /\ closed /\ running) BY <1>5, <2>2 DEF CloseStop
  <2>3. QED BY <2>1, <2>2
<1>6. CASE CloseJoin \/ CallClosed \/ CloseAgain
  BY <1>6 DEF CloseJoin, CallClosed, CloseAgain, ClosedOwner
<1>7. CASE Wake \/ CloseWake BY <1>7 DEF Wake, CloseWake, WakeWorker, Broadcast
<1>8. CASE \E after \in Afters : InjectStart(after) BY <1>8 DEF InjectStart
<1>9. CASE InjectOp \/ InjectStatus \/ InjectRearm \/ InjectPend
  BY <1>9 DEF InjectOp, InjectStatus, InjectRearm, InjectPend, InjectStore
<1>10. QED
  BY <1>1, <1>2, <1>3, <1>4, <1>5, <1>6, <1>7, <1>8, <1>9 DEF App, AppContinue

LEMMA WorkerRefines == IInv /\ Worker => [Contract!CNext]_(Contract!cvars)
<1> SUFFICES ASSUME IInv, Worker PROVE [Contract!CNext]_(Contract!cvars)
  OBVIOUS
<1> USE DEF Mode, Round, Busy, Serving, Contract!cvars, WorkerAt, WorkerKeeps, Quiet, lifecycle
<1>0. worker # "exited" => handle BY DEF IInv, Lifecycle
<1>1. CASE Lock \/ TestClosed \/ SpuriousWake \/ PaceTimeout
  BY <1>1 DEF Lock, TestClosed, SpuriousWake, PaceTimeout
<1>2. CASE TestRunning
  <2>1. CASE running /\ ~closed
    <3>1. Contract!OpenRound BY <1>0, <1>2, <2>1 DEF TestRunning, Contract!OpenRound
    <3>2. QED BY <3>1 DEF Contract!CNext
  <2>2. CASE ~running \/ closed BY <1>2, <2>2 DEF TestRunning
  <2>3. QED BY <2>1, <2>2
<1>3. CASE CheckClosed
  <2>1. CASE closed BY <1>3, <2>1 DEF CheckClosed
  <2>2. CASE ~closed
    <3>1. Contract!Data BY <1>3, <2>2 DEF CheckClosed, Contract!Data
    <3>2. QED BY <3>1 DEF Contract!CNext
  <2>3. QED BY <2>1, <2>2
<1>4. CASE DataReturn
  <2>1. Contract!Return BY <1>4 DEF DataReturn, Contract!Return
  <2>2. QED BY <2>1 DEF Contract!CNext
<1>5. CASE ErrorReturn
  <2>1. Contract!Return BY <1>5 DEF ErrorReturn, Contract!Return
  <2>2. QED BY <2>1 DEF Contract!CNext
<1>6. CASE TestPending \/ TestSent \/ TestAfter
  <2>1. CASE worker' = "pace"
    <3>1. Contract!CloseRound
      BY <1>6, <2>1 DEF TestPending, TestSent, TestAfter, Contract!CloseRound
    <3>2. QED BY <3>1 DEF Contract!CNext
  <2>2. CASE worker' # "pace" BY <1>6, <2>2 DEF TestPending, TestSent, TestAfter
  <2>3. QED BY <2>1, <2>2
<1>7. CASE MarkSent \/ ClearPending \/ LoadOp BY <1>7 DEF MarkSent, ClearPending, LoadOp
<1>8. CASE LoadStatus
  <2>1. Contract!Error BY <1>0, <1>8 DEF LoadStatus, Contract!Error
  <2>2. QED BY <2>1 DEF Contract!CNext
<1>9. CASE Pace BY <1>9 DEF Pace
<1>10. CASE WinTestClosed
  <2>1. CASE closed BY <1>10, <2>1 DEF WinTestClosed
  <2>2. CASE ~closed BY <1>10, <2>2 DEF WinTestClosed
  <2>3. QED BY <2>1, <2>2
<1>11. CASE WinTestRunning
  <2>1. CASE running /\ ~closed
    <3>1. Contract!OpenRound BY <1>0, <1>11, <2>1 DEF WinTestRunning, Contract!OpenRound
    <3>2. QED BY <3>1 DEF Contract!CNext
  <2>2. CASE ~running \/ closed BY <1>11, <2>2 DEF WinTestRunning
  <2>3. QED BY <2>1, <2>2
<1>12. CASE WinCall
  <2>1. Contract!Data BY <1>12 DEF WinCall, Contract!Data
  <2>2. QED BY <2>1 DEF Contract!CNext
<1>13. CASE WinWait \/ WinPace BY <1>13 DEF WinWait, WinPace, WinWoken
<1>14. QED
  BY <1>1, <1>2, <1>3, <1>4, <1>5, <1>6, <1>7, <1>8, <1>9, <1>10, <1>11, <1>12, <1>13 DEF Worker, WorkerStep

(* The test host keeps the contract the backends it stands in for keep. *)
THEOREM Implements == Spec => KeepsContract
<1>1. IInv /\ [Next]_vars => [Contract!CNext]_(Contract!cvars)
  <2>1. IInv /\ Next => [Contract!CNext]_(Contract!cvars)
    BY AppRefines, WorkerRefines DEF Next
  <2>2. UNCHANGED vars => UNCHANGED Contract!cvars
    BY DEF vars, lifecycle, asleep, Contract!cvars, Mode, Round, Busy
  <2>3. QED BY <2>1, <2>2
<1>2. QED BY <1>1, LifecycleInductive, InitRefines, PTL DEF Spec, KeepsContract, Contract!CSpec

-----------------------------------------------------------------------------
(* What the user may conclude.                                             *)

VARIABLE late   \* data callbacks begun since the stream last played

Promises == INSTANCE ContractPromises WITH mode <- Mode, round <- Round, busy <- Busy

LEMMA SameContract == KeepsContract => Promises!CSpec
<1>1. Contract!CInit => Promises!CInit BY DEF Contract!CInit, Promises!CInit
<1>2. [Contract!CNext]_(Contract!cvars) => [Promises!CNext]_(Promises!cvars)
  BY DEF Contract!cvars, Contract!CNext, Contract!Play, Contract!Pause, Contract!Close,
         Contract!Closed, Contract!OpenRound, Contract!Data, Contract!Error, Contract!Return,
         Contract!CloseRound,
         Promises!cvars, Promises!CNext, Promises!Play, Promises!Pause, Promises!Close,
         Promises!Closed, Promises!OpenRound, Promises!Data, Promises!Error, Promises!Return,
         Promises!CloseRound
<1>3. QED BY <1>1, <1>2, PTL DEF KeepsContract, Contract!CSpec, Promises!CSpec

(* After null_stream_destroy returned no callback of the stream begins or  *)
(* ends: what the lifecycle tests of the host count from one schedule.     *)
THEOREM NothingAfterClose == Spec => Promises!CloseIsFinal
BY Implements, SameContract, Promises!OneByOne, Promises!ClosedForGood

(* After null_stream_pause stored running at most one more data callback   *)
(* begins before the next play, on both halves of the file.                *)
THEOREM OneLateCallback == Spec /\ Promises!Counted => [](late <= 1)
BY Implements, SameContract, Promises!OneLateCallback

-----------------------------------------------------------------------------
(* Why the threads of the stream do not wait for each other: the safety    *)
(* half of CloseReturns and KeepsPlaying.                                  *)

ClosePending == app \in {"closeStop", "closeWake"}

(* Each half of the file has a worker of its own. *)
Halves == /\ worker \in {"lock", "testRunning", "testClosed", "waiting", "checkClosed", "pacing"}
                => ~windows
          /\ worker \in {"winClosed", "winRunning", "winWait", "winCall"} => windows

(* A worker in a wait that nothing ends yet has nothing to do, or the call *)
(* that gives it something has yet to wake it.  On POSIX the worker holds  *)
(* the mutex between its test of running and the wait; on Windows a signal *)
(* that comes before the wait stays.                                       *)
Wakeful == /\ worker \in {"testClosed", "waiting"} => ~running \/ app = "wake"
           /\ worker = "waiting" => ~closed \/ ClosePending
           /\ worker = "winWait" /\ ~event => ~running \/ app = "wake"
           /\ worker \in {"winRunning", "winWait"} /\ ~event => ~closed \/ ClosePending

WInv == IInv /\ Halves /\ Wakeful

LEMMA WakeWakes ==
  ASSUME WInv, WakeWorker
  PROVE  /\ UNCHANGED windows => Halves'
         /\ worker' \notin {"testClosed", "waiting"}
         /\ worker' \in {"winRunning", "winWait"} => event'
<1> USE DEF WInv, IInv, TypeOK, Halves, WakeWorker
<1>1. CASE windows BY <1>1
<1>2. CASE ~windows BY <1>2 DEF Broadcast, MutexFree
<1>3. QED BY <1>1, <1>2

LEMMA AppKeepsWakeful == WInv /\ App => Halves' /\ Wakeful'
<1> SUFFICES ASSUME WInv, App PROVE Halves' /\ Wakeful'
  OBVIOUS
<1>0. UNCHANGED windows
  BY DEF App, AppContinue, PlayStore, PauseStore, Wake, CloseStore, CloseStop, CloseWake,
         CloseJoin, CloseRelease, CallClosed, CloseAgain, ClosedOwner, InjectStart, InjectOp,
         InjectStatus, InjectRearm, InjectPend, InjectStore, AppAt, AppKeeps
<1> USE DEF WInv, IInv, Lifecycle, Halves, Wakeful, Closing, ClosePending, AppAt, AppKeeps,
            lifecycle, asleep
<1>1. CASE PlayStore BY <1>1 DEF PlayStore
<1>2. CASE PauseStore BY <1>2 DEF PauseStore
<1>3. CASE Wake BY <1>0, <1>3, WakeWakes DEF Wake
<1>4. CASE CloseStore BY <1>4 DEF CloseStore
<1>5. CASE CloseStop BY <1>5 DEF CloseStop
<1>6. CASE CloseWake BY <1>0, <1>6, WakeWakes DEF CloseWake
<1>7. CASE CloseJoin \/ CloseRelease BY <1>7 DEF CloseJoin, CloseRelease
<1>8. CASE CallClosed \/ CloseAgain BY <1>8 DEF CallClosed, CloseAgain, ClosedOwner
<1>9. ASSUME NEW after \in Afters, InjectStart(after) PROVE Halves' /\ Wakeful'
  BY <1>9 DEF InjectStart
<1>10. CASE InjectOp \/ InjectStatus \/ InjectRearm \/ InjectPend
  BY <1>10 DEF InjectOp, InjectStatus, InjectRearm, InjectPend, InjectStore
<1>11. QED
  BY <1>1, <1>2, <1>3, <1>4, <1>5, <1>6, <1>7, <1>8, <1>9, <1>10 DEF App, AppContinue

LEMMA WorkerKeepsWakeful == WInv /\ Worker => Halves' /\ Wakeful'
<1> SUFFICES ASSUME WInv, Worker PROVE Halves' /\ Wakeful'
  OBVIOUS
<1> USE DEF WInv, IInv, Lifecycle, Halves, Wakeful, Closing, ClosePending, WorkerAt,
            WorkerKeeps, Quiet, lifecycle
<1>1. CASE Lock \/ TestRunning \/ SpuriousWake BY <1>1 DEF Lock, TestRunning, SpuriousWake
<1>2. CASE TestClosed BY <1>2 DEF TestClosed
<1>3. CASE CheckClosed \/ DataReturn \/ TestPending \/ TestSent \/ TestAfter
  BY <1>3 DEF CheckClosed, DataReturn, TestPending, TestSent, TestAfter
<1>4. CASE MarkSent \/ ClearPending \/ LoadOp \/ LoadStatus \/ ErrorReturn
  BY <1>4 DEF MarkSent, ClearPending, LoadOp, LoadStatus, ErrorReturn
<1>5. CASE Pace \/ PaceTimeout BY <1>5 DEF Pace, PaceTimeout
<1>6. CASE WinTestClosed BY <1>6 DEF WinTestClosed
<1>7. CASE WinTestRunning BY <1>7 DEF WinTestRunning
<1>8. CASE WinCall \/ WinWait \/ WinPace BY <1>8 DEF WinCall, WinWait, WinPace, WinWoken
<1>9. QED BY <1>1, <1>2, <1>3, <1>4, <1>5, <1>6, <1>7, <1>8 DEF Worker, WorkerStep

(* No wakeup is lost: once play returned, and while close joins, a worker  *)
(* in a wait has been woken from it.                                       *)
NoLostWakeup == (app = "idle" /\ running) \/ app = "closeJoin"
                  => worker # "waiting" /\ (worker = "winWait" => event)

(* The wakeups of null_stream_play and null_stream_destroy reach the       *)
(* worker wherever it is: the broadcast because it takes the mutex, the    *)
(* event because it stays signalled, and although a period that it cuts    *)
(* short takes the signal with it.                                         *)
THEOREM NoWakeupIsLost == Spec => []NoLostWakeup
<1>1. Init => Halves /\ Wakeful BY DEF Init, Halves, Wakeful
<1>2. IInv /\ (Halves /\ Wakeful) /\ [Next]_vars => (Halves /\ Wakeful)'
  <2>1. Halves /\ Wakeful /\ UNCHANGED vars => (Halves /\ Wakeful)'
    BY DEF Halves, Wakeful, ClosePending, vars, lifecycle, asleep
  <2>2. QED BY <2>1, AppKeepsWakeful, WorkerKeepsWakeful DEF Next, WInv
<1>3. IInv /\ Wakeful => NoLostWakeup
  BY DEF IInv, Lifecycle, Closing, Wakeful, ClosePending, NoLostWakeup
<1>4. QED BY <1>1, <1>2, <1>3, LifecycleInductive, PTL DEF Spec

(* How far a worker of a closed stream is from its exit, in steps. *)
Distance == CASE worker = "exited" -> 0
              [] worker \in {"checkClosed", "winClosed"} -> 1
              [] worker \in {"testClosed", "winWait"} -> 2
              [] worker = "testRunning" -> 3
              [] worker = "lock" -> 4
              [] worker \in {"waiting", "pacing"} -> 5
              [] worker = "pace" -> 6
              [] worker = "error" -> 7
              [] worker = "loadStatus" -> 8
              [] worker = "loadOp" -> 9
              [] worker = "clearPending" -> 10
              [] worker = "markSent" -> 11
              [] worker = "testAfter" -> 12
              [] worker = "testSent" -> 13
              [] worker = "testPending" -> 14
              [] worker = "data" -> 15
              [] worker = "winCall" -> 16
              [] worker = "winRunning" -> 17

(* Once closed is stored every step of the worker brings it nearer to its  *)
(* exit, and no other step takes it away from there.                       *)
ClosingAdvances == [][closed => /\ Worker => Distance' < Distance
                                /\ Distance' <= Distance]_vars

(* After null_stream_destroy stored closed the worker takes seventeen      *)
(* steps at most, one data callback and one error callback among them,     *)
(* whatever is injected: with NoWakeupIsLost, why its join returns.        *)
THEOREM CloseIsNear == Spec => ClosingAdvances /\ [](Distance \in 0..17)
<1>1. /\ TypeOK => Distance \in 0..17
      /\ TypeOK' => Distance' \in 0..17
  BY DEF TypeOK, WorkerSteps, Distance
<1>2. ASSUME IInv, closed, Worker PROVE Distance' < Distance
  <2> USE <1>2 DEF IInv, TypeOK, Distance, WorkerAt
  <2>1. CASE Lock BY <2>1 DEF Lock
  <2>2. CASE TestRunning BY <2>2 DEF TestRunning
  <2>3. CASE TestClosed BY <2>3 DEF TestClosed
  <2>4. CASE SpuriousWake BY <2>4 DEF SpuriousWake
  <2>5. CASE CheckClosed BY <2>5 DEF CheckClosed
  <2>6. CASE DataReturn BY <2>6 DEF DataReturn
  <2>7. CASE TestPending BY <2>7 DEF TestPending
  <2>8. CASE TestSent BY <2>8 DEF TestSent
  <2>9. CASE TestAfter BY <2>9 DEF TestAfter
  <2>10. CASE MarkSent BY <2>10 DEF MarkSent
  <2>11. CASE ClearPending BY <2>11 DEF ClearPending
  <2>12. CASE LoadOp BY <2>12 DEF LoadOp
  <2>13. CASE LoadStatus BY <2>13 DEF LoadStatus
  <2>14. CASE ErrorReturn BY <2>14 DEF ErrorReturn
  <2>15. CASE Pace BY <2>15 DEF Pace
  <2>16. CASE PaceTimeout BY <2>16 DEF PaceTimeout
  <2>17. CASE WinTestClosed BY <2>17 DEF WinTestClosed
  <2>18. CASE WinTestRunning BY <2>18 DEF WinTestRunning
  <2>19. CASE WinCall BY <2>19 DEF WinCall
  <2>20. CASE WinWait BY <2>20 DEF WinWait, WinWoken
  <2>21. CASE WinPace BY <2>21 DEF WinPace, WinWoken
  <2> HIDE DEF Distance
  <2>22. QED
    BY <2>1, <2>2, <2>3, <2>4, <2>5, <2>6, <2>7, <2>8, <2>9, <2>10, <2>11,
       <2>12, <2>13, <2>14, <2>15, <2>16, <2>17, <2>18, <2>19, <2>20, <2>21 DEF Worker, WorkerStep
<1>3. UNCHANGED worker => Distance' = Distance BY DEF Distance
<1>4. ASSUME TypeOK, WakeWorker PROVE Distance' <= Distance
  <2>1. CASE worker \in {"waiting", "pacing"} /\ worker' = "lock"
    BY <2>1 DEF Distance
  <2>2. CASE UNCHANGED worker BY <1>1, <1>3, <1>4, <2>2
  <2>3. QED BY <1>4, <2>1, <2>2 DEF WakeWorker, Broadcast
<1>5. App => UNCHANGED worker \/ WakeWorker
  BY DEF App, AppContinue, PlayStore, PauseStore, Wake, CloseStore, CloseStop, CloseWake,
         CloseJoin, CloseRelease, CallClosed, CloseAgain, ClosedOwner, InjectStart, InjectOp,
         InjectStatus, InjectRearm, InjectPend, InjectStore, asleep
<1>6. ASSUME IInv, closed, Next
      PROVE  (Worker => Distance' < Distance) /\ Distance' <= Distance
  <2>1. TypeOK /\ TypeOK' BY <1>6, AppKeepsIInv, WorkerKeepsIInv DEF Next, IInv
  <2>2. CASE Worker BY <1>1, <1>2, <1>6, <2>1, <2>2
  <2>3. CASE ~Worker
    <3>1. UNCHANGED worker \/ WakeWorker BY <1>5, <1>6, <2>3 DEF Next
    <3>2. QED BY <1>1, <1>3, <1>4, <2>1, <2>3, <3>1
  <2>4. QED BY <2>2, <2>3
<1>7. QED BY <1>1, <1>6, LifecycleInductive, PTL DEF Spec, ClosingAdvances, IInv

-----------------------------------------------------------------------------
(* Why what must come comes: the safety half of KeepsPlaying and Delivered.*)

(* How far the worker of a playing stream is from its next data callback,  *)
(* in steps.                                                               *)
ToData == CASE worker = "data" -> 0
            [] worker \in {"checkClosed", "winCall"} -> 1
            [] worker \in {"testRunning", "winRunning"} -> 2
            [] worker \in {"lock", "winClosed"} -> 3
            [] worker \in {"waiting", "pacing", "winWait"} -> 4
            [] worker \in {"testClosed", "pace"} -> 5
            [] worker = "error" -> 6
            [] worker = "loadStatus" -> 7
            [] worker = "loadOp" -> 8
            [] worker = "clearPending" -> 9
            [] worker = "markSent" -> 10
            [] worker = "testAfter" -> 11
            [] worker = "testSent" -> 12
            [] worker \in {"testPending", "exited"} -> 13

(* Every step the worker of a playing stream takes outside the callback    *)
(* brings the next one nearer, and no call takes it away.                  *)
RoundAdvances == [][running /\ ~closed => /\ Worker /\ worker # "data" => ToData' < ToData
                                          /\ App => ToData' <= ToData]_vars

(* The last request is complete and its error has not come. *)
Owed == request > 0 /\ errors[request] = 0 /\ app \notin Injecting

(* The data callbacks that have to return before the worker claims it. *)
Callbacks == IF worker \in Delivering \cup {"markSent", "clearPending"} THEN 0
             ELSE IF ~Due(inject.after) THEN inject.after - cb_count
             ELSE IF worker \in {"testPending", "testSent", "testAfter"} THEN 0 ELSE 1

ToError == ToData + 14 * Callbacks

(* Every step the worker of a playing stream takes brings the error that   *)
(* is owed nearer, until one delivers it, and only the next call of        *)
(* inject_error, which then owes another, puts it off.                     *)
DeliveryAdvances ==
  [][running /\ ~closed /\ Owed
       => /\ Worker => ToError' < ToError \/ errors'[request] = 1
          /\ App => ToError' <= ToError \/ request' # request]_vars

Claimed == {"markSent", "clearPending", "loadOp", "loadStatus"}

(* The error that is owed is pending, or the worker has claimed one and    *)
(* will load what the last request stored: a request whose stores fall     *)
(* into the claim of the one before loses its flags to the worker, which   *)
(* then delivers it in that one's place.                                   *)
Armed == /\ app \in Injecting => request > 0
         /\ app \notin {"injectOp", "injectStatus"} => inject.status = request
         /\ Owed => (inject.pending /\ ~inject.sent) \/ worker \in Claimed
         /\ app = "injectPend" /\ errors[request] = 0 => ~inject.sent \/ worker \in Claimed

LEMMA AppKeepsArmed == IInv /\ Armed /\ App => Armed'
<1> SUFFICES ASSUME IInv, Armed, App PROVE Armed'
  OBVIOUS
<1> USE DEF IInv, TypeOK, Armed, Owed, Injecting, Claimed, AppAt, AppKeeps, lifecycle, asleep
<1>1. CASE PlayStore \/ PauseStore \/ CloseStore \/ CloseStop \/ CloseJoin \/ CloseRelease
  BY <1>1 DEF PlayStore, PauseStore, CloseStore, CloseStop, CloseJoin, CloseRelease
<1>2. CASE Wake \/ CloseWake BY <1>2 DEF Wake, CloseWake, WakeWorker, Broadcast
<1>3. CASE CallClosed \/ CloseAgain BY <1>3 DEF CallClosed, CloseAgain, ClosedOwner
<1>4. ASSUME NEW after \in Afters, InjectStart(after) PROVE Armed'
  BY <1>4, NullAssumption DEF InjectStart, Payloads
<1>5. CASE InjectOp \/ InjectStatus BY <1>5 DEF InjectOp, InjectStatus, InjectStore
<1>6. CASE InjectRearm BY <1>6 DEF InjectRearm, InjectStore
<1>7. CASE InjectPend BY <1>7 DEF InjectPend, InjectStore
<1>8. QED BY <1>1, <1>2, <1>3, <1>4, <1>5, <1>6, <1>7 DEF App, AppContinue

(* What the worker loads for a request whose stores are complete is that   *)
(* request.                                                                *)
LEMMA LoadsTheLast ==
  ASSUME IInv, Armed, LoadStatus, request > 0, errors[request] = 0,
         app \notin {"injectOp", "injectStatus"}
  PROVE  errors'[request] = 1
<1>1. inject.status = request /\ request \in Requests
  BY DEF Armed, IInv, TypeOK, Payloads, Requests
<1>2. QED BY <1>1 DEF LoadStatus, IInv, TypeOK

LEMMA WorkerKeepsArmed == IInv /\ Armed /\ Worker => Armed'
<1> SUFFICES ASSUME IInv, Armed, Worker PROVE Armed'
  OBVIOUS
<1> USE DEF Armed, Owed, Injecting, Claimed, WorkerAt, WorkerKeeps, Quiet, lifecycle
<1>1. CASE Lock \/ TestRunning \/ TestClosed \/ SpuriousWake \/ CheckClosed \/ DataReturn
  BY <1>1 DEF Lock, TestRunning, TestClosed, SpuriousWake, CheckClosed, DataReturn
<1>2. CASE TestPending \/ TestSent \/ TestAfter BY <1>2 DEF TestPending, TestSent, TestAfter
<1>3. CASE MarkSent BY <1>3 DEF MarkSent, IInv, TypeOK
<1>4. CASE ClearPending BY <1>4 DEF ClearPending, IInv, TypeOK
<1>5. CASE LoadOp BY <1>5 DEF LoadOp
<1>6. CASE LoadStatus
  <2>1. /\ UNCHANGED <<inject, app, request>>
        /\ errors'[request] = 0 => errors[request] = 0 \/ request = 0
    BY <1>6 DEF LoadStatus, IInv, TypeOK, Payloads, Requests
  <2>2. (request > 0 /\ errors[request] = 0 /\ app \notin {"injectOp", "injectStatus"})
          => errors'[request] = 1
    BY <1>6, LoadsTheLast
  <2>3. QED BY <2>1, <2>2 DEF IInv, TypeOK, Payloads
<1>7. CASE ErrorReturn \/ Pace \/ PaceTimeout BY <1>7 DEF ErrorReturn, Pace, PaceTimeout
<1>8. CASE WinTestClosed \/ WinTestRunning \/ WinCall
  BY <1>8 DEF WinTestClosed, WinTestRunning, WinCall
<1>9. CASE WinWait \/ WinPace BY <1>9 DEF WinWait, WinPace, WinWoken
<1>10. QED
  BY <1>1, <1>2, <1>3, <1>4, <1>5, <1>6, <1>7, <1>8, <1>9 DEF Worker, WorkerStep

LEMMA ArmedInductive == Spec => []Armed
<1>1. Init => Armed BY DEF Init, Armed, Owed, Injecting
<1>2. IInv /\ Armed /\ [Next]_vars => Armed'
  <2>1. IInv /\ Armed /\ Next => Armed' BY AppKeepsArmed, WorkerKeepsArmed DEF Next
  <2>2. Armed /\ UNCHANGED vars => Armed' BY DEF Armed, Owed, vars
  <2>3. QED BY <2>1, <2>2
<1>3. QED BY <1>1, <1>2, LifecycleInductive, PTL DEF Spec

LEMMA ToDataBound ==
  /\ TypeOK => ToData \in 0..13
  /\ TypeOK' => ToData' \in 0..13
  /\ UNCHANGED worker => ToData' = ToData
<1>1. TypeOK => ToData \in 0..13 BY DEF TypeOK, WorkerSteps, ToData
<1>2. TypeOK' => ToData' \in 0..13 BY DEF TypeOK, WorkerSteps, ToData
<1>3. UNCHANGED worker => ToData' = ToData BY DEF ToData
<1>4. QED BY <1>1, <1>2, <1>3

LEMMA WorkerRound ==
  ASSUME IInv, running, ~closed, Worker, worker # "data"
  PROVE  ToData' < ToData
<1> USE DEF IInv, TypeOK, ToData, WorkerAt
<1>1. CASE Lock BY <1>1 DEF Lock
<1>2. CASE TestRunning BY <1>2 DEF TestRunning
<1>3. CASE TestClosed BY <1>3 DEF TestClosed
<1>4. CASE SpuriousWake BY <1>4 DEF SpuriousWake
<1>5. CASE CheckClosed BY <1>5 DEF CheckClosed
<1>6. CASE DataReturn BY <1>6 DEF DataReturn
<1>7. CASE TestPending BY <1>7 DEF TestPending
<1>8. CASE TestSent BY <1>8 DEF TestSent
<1>9. CASE TestAfter BY <1>9 DEF TestAfter
<1>10. CASE MarkSent BY <1>10 DEF MarkSent
<1>11. CASE ClearPending BY <1>11 DEF ClearPending
<1>12. CASE LoadOp BY <1>12 DEF LoadOp
<1>13. CASE LoadStatus BY <1>13 DEF LoadStatus
<1>14. CASE ErrorReturn BY <1>14 DEF ErrorReturn
<1>15. CASE Pace BY <1>15 DEF Pace
<1>16. CASE PaceTimeout BY <1>16 DEF PaceTimeout
<1>17. CASE WinTestClosed BY <1>17 DEF WinTestClosed
<1>18. CASE WinTestRunning BY <1>18 DEF WinTestRunning
<1>19. CASE WinCall BY <1>19 DEF WinCall
<1>20. CASE WinWait BY <1>20 DEF WinWait, WinWoken
<1>21. CASE WinPace BY <1>21 DEF WinPace, WinWoken
<1> HIDE DEF ToData
<1>22. QED
  BY <1>1, <1>2, <1>3, <1>4, <1>5, <1>6, <1>7, <1>8, <1>9, <1>10, <1>11,
     <1>12, <1>13, <1>14, <1>15, <1>16, <1>17, <1>18, <1>19, <1>20, <1>21 DEF Worker, WorkerStep

(* A call moves the worker nowhere, or out of a wait. *)
LEMMA AppRound ==
  ASSUME TypeOK, TypeOK', App
  PROVE  /\ ToData' <= ToData
         /\ UNCHANGED worker \/ (worker \in {"waiting", "pacing"} /\ worker' = "lock")
<1>1. UNCHANGED worker \/ WakeWorker
  BY DEF App, AppContinue, PlayStore, PauseStore, Wake, CloseStore, CloseStop, CloseWake,
         CloseJoin, CloseRelease, CallClosed, CloseAgain, ClosedOwner, InjectStart, InjectOp,
         InjectStatus, InjectRearm, InjectPend, InjectStore, asleep
<1>2. UNCHANGED worker \/ (worker \in {"waiting", "pacing"} /\ worker' = "lock")
  BY <1>1 DEF WakeWorker, Broadcast
<1>3. CASE worker \in {"waiting", "pacing"} /\ worker' = "lock" BY <1>3 DEF ToData
<1>4. CASE UNCHANGED worker BY <1>4, ToDataBound
<1>5. QED BY <1>2, <1>3, <1>4

(* A playing stream begins its next data callback within thirteen steps of *)
(* its worker, an error callback among them: with NoWakeupIsLost, why the  *)
(* callbacks go on.                                                        *)
THEOREM NextRoundIsNear == Spec => RoundAdvances /\ [](ToData \in 0..13)
<1>1. TypeOK => ToData \in 0..13 BY ToDataBound
<1>2. ASSUME IInv, running, ~closed, Next
      PROVE  (Worker /\ worker # "data" => ToData' < ToData) /\ (App => ToData' <= ToData)
  <2>1. TypeOK /\ TypeOK' BY <1>2, AppKeepsIInv, WorkerKeepsIInv DEF Next, IInv
  <2>2. QED BY <1>2, <2>1, WorkerRound, AppRound
<1>3. IInv => TypeOK BY DEF IInv
<1>4. QED BY <1>1, <1>2, <1>3, LifecycleInductive, PTL DEF Spec, RoundAdvances

LEMMA CallbacksBound ==
  ASSUME TypeOK
  PROVE  /\ Callbacks \in 0..MaxAfter + 1
         /\ cb_count \in Nat /\ inject.after \in Int /\ MaxAfter \in Nat
         /\ cb_count <= MaxAfter /\ inject.after <= MaxAfter
<1>1. MaxAfter \in Nat /\ cb_count \in Nat /\ cb_count <= MaxAfter BY NullAssumption DEF TypeOK
<1>2. PICK after \in Afters \cup {0} : after = inject.after BY DEF TypeOK
<1>3. after \in Int /\ after <= MaxAfter
  <2>1. after \in Afters => after \in Int /\ after <= MaxAfter BY NullAssumption, Zenon
  <2>2. 0 \in Int /\ 0 <= MaxAfter BY <1>1
  <2>3. QED BY <1>2, <2>1, <2>2, Zenon
<1>4. ~Due(after) => after - cb_count \in 0..MaxAfter BY <1>1, <1>3 DEF Due
<1>5. 0 \in 0..MaxAfter + 1 /\ 1 \in 0..MaxAfter + 1 /\ 0..MaxAfter \subseteq 0..MaxAfter + 1
  BY <1>1
<1>6. Callbacks \in 0..MaxAfter + 1 BY <1>2, <1>4, <1>5 DEF Callbacks
<1>7. QED BY <1>1, <1>2, <1>3, <1>6

LEMMA CallbacksNext == TypeOK' => Callbacks' \in Int
<1> SUFFICES ASSUME TypeOK' PROVE Callbacks' \in Int
  OBVIOUS
<1>1. PICK after \in Int : after = inject'.after
  <2>1. inject'.after \in Afters \cup {0} BY DEF TypeOK
  <2>2. Afters \subseteq Int /\ 0 \in Int BY NullAssumption
  <2>3. QED BY <2>1, <2>2
<1>2. PICK n \in Int : n = cb_count' BY NullAssumption DEF TypeOK
<1>3. after - n \in Int /\ 0 \in Int /\ 1 \in Int OBVIOUS
<1>4. QED BY <1>1, <1>2, <1>3 DEF Callbacks

(* Steps nearer at no more callbacks, or one callback fewer. *)
LEMMA Weighs ==
  ASSUME NEW t \in Int, NEW u \in Int, NEW x \in Int, NEW y \in Int
  PROVE  /\ u < t /\ y <= x => u + 14 * y < t + 14 * x
         /\ u <= t /\ y = x => u + 14 * y <= t + 14 * x
         /\ t = 0 /\ u \in 0..13 /\ y = x - 1 => u + 14 * y < t + 14 * x
OBVIOUS

LEMMA ErrorNearer ==
  ASSUME Callbacks \in Int, Callbacks' \in Int, ToData \in Int, ToData' \in Int
  PROVE  /\ ToData' < ToData /\ Callbacks' <= Callbacks => ToError' < ToError
         /\ ToData' <= ToData /\ Callbacks' = Callbacks => ToError' <= ToError
         /\ ToData = 0 /\ ToData' \in 0..13 /\ Callbacks' = Callbacks - 1 => ToError' < ToError
<1>1. PICK t \in Int, u \in Int, x \in Int, y \in Int :
        t = ToData /\ u = ToData' /\ x = Callbacks /\ y = Callbacks'
  OBVIOUS
<1>2. ToError = t + 14 * x /\ ToError' = u + 14 * y BY <1>1 DEF ToError
<1>3. QED BY <1>1, <1>2, Weighs, Zenon

LEMMA WorkerDelivers ==
  ASSUME IInv, IInv', Armed, running, ~closed, Owed, Worker
  PROVE  ToError' < ToError \/ errors'[request] = 1
<1>0. /\ IInv /\ TypeOK /\ TypeOK'
      /\ Callbacks \in Int /\ Callbacks' \in Int
      /\ ToData \in Int /\ ToData' \in Int /\ ToData' \in 0..13
  <2>1. TypeOK /\ TypeOK' BY DEF IInv
  <2>2. 0..13 \subseteq Int /\ (MaxAfter \in Nat => 0..MaxAfter + 1 \subseteq Int) OBVIOUS
  <2>3. QED BY <2>1, <2>2, CallbacksBound, CallbacksNext, ToDataBound
<1>1. CASE worker # "data" /\ Callbacks' <= Callbacks
  <2>1. ToData' < ToData BY <1>0, <1>1, WorkerRound
  <2>2. QED BY <1>0, <1>1, <2>1, ErrorNearer
<1> USE DEF WorkerAt, Quiet, Delivering
<1>2. CASE Lock \/ TestRunning \/ TestClosed \/ SpuriousWake \/ CheckClosed
  BY <1>0, <1>1, <1>2 DEF Lock, TestRunning, TestClosed, SpuriousWake, CheckClosed, Callbacks, Due
<1>3. CASE DataReturn
  <2>1. /\ cb_count \in Nat /\ inject.after \in Int /\ MaxAfter \in Nat
        /\ inject.after <= MaxAfter /\ cb_count <= MaxAfter
    BY <1>0, CallbacksBound
  <2>2. /\ worker = "data" /\ worker' = "testPending" /\ inject' = inject
        /\ cb_count' = IF cb_count < MaxAfter THEN cb_count + 1 ELSE cb_count
    BY <1>3 DEF DataReturn
  <2>3. Callbacks' = Callbacks - 1 BY <2>1, <2>2 DEF Callbacks, Due
  <2>4. ToData = 0 BY <2>2 DEF ToData
  <2>5. QED BY <1>0, <2>3, <2>4, ErrorNearer
<1>4. CASE TestPending
  <2>1. inject.pending BY <1>4 DEF TestPending, Armed, Claimed
  <2>2. QED BY <1>0, <1>1, <1>4, <2>1 DEF TestPending, Callbacks, Due
<1>5. CASE TestSent
  <2>1. ~inject.sent BY <1>5 DEF TestSent, Armed, Claimed
  <2>2. QED BY <1>0, <1>1, <1>5, <2>1 DEF TestSent, Callbacks, Due
<1>6. CASE TestAfter BY <1>0, <1>1, <1>6 DEF TestAfter, Callbacks, Due
<1>7. CASE MarkSent \/ ClearPending \/ LoadOp
  BY <1>0, <1>1, <1>7 DEF MarkSent, ClearPending, LoadOp, Callbacks
<1>8. CASE LoadStatus BY <1>8, LoadsTheLast DEF Owed, Injecting
<1>9. CASE ErrorReturn \/ Pace \/ PaceTimeout
  BY <1>0, <1>1, <1>9 DEF ErrorReturn, Pace, PaceTimeout, Callbacks, Due
<1>10. CASE WinTestClosed \/ WinTestRunning \/ WinCall
  BY <1>0, <1>1, <1>10 DEF WinTestClosed, WinTestRunning, WinCall, Callbacks, Due
<1>11. CASE WinWait \/ WinPace
  BY <1>0, <1>1, <1>11 DEF WinWait, WinPace, WinWoken, Callbacks, Due
<1>12. QED
  BY <1>2, <1>3, <1>4, <1>5, <1>6, <1>7, <1>8, <1>9, <1>10, <1>11 DEF Worker, WorkerStep

LEMMA AppDelivers ==
  ASSUME IInv, IInv', Owed, App
  PROVE  ToError' <= ToError \/ request' # request
<1>0. CASE \E after \in Afters : InjectStart(after)
  BY <1>0 DEF InjectStart, IInv, TypeOK, Payloads, Requests
<1> SUFFICES ASSUME \A after \in Afters : ~InjectStart(after) PROVE ToError' <= ToError
  BY <1>0
<1>1. /\ TypeOK /\ TypeOK'
      /\ Callbacks \in Int /\ ToData \in Int /\ ToData' \in Int
  <2>1. TypeOK /\ TypeOK' BY DEF IInv
  <2>2. 0..13 \subseteq Int /\ (MaxAfter \in Nat => 0..MaxAfter + 1 \subseteq Int) OBVIOUS
  <2>3. QED BY <2>1, <2>2, CallbacksBound, ToDataBound
<1>2. ToData' <= ToData BY <1>1, AppRound
<1>3. UNCHANGED worker \/ (worker \in {"waiting", "pacing"} /\ worker' = "lock")
  BY <1>1, AppRound
<1>4. UNCHANGED <<inject, cb_count>>
  BY DEF App, AppContinue, PlayStore, PauseStore, Wake, CloseStore, CloseStop, CloseWake,
         CloseJoin, CloseRelease, CallClosed, CloseAgain, ClosedOwner, InjectOp,
         InjectStatus, InjectRearm, InjectPend, InjectStore, AppAt, AppKeeps, Owed, Injecting
<1>5. Callbacks' = Callbacks BY <1>3, <1>4 DEF Callbacks, Due, Delivering
<1>6. QED BY <1>1, <1>2, <1>5, ErrorNearer

(* The last request is delivered, also to a caller that did not wait for   *)
(* the one before: after inject_error returned the worker of a playing     *)
(* stream delivers it within a number of steps that only the greatest      *)
(* after_callbacks bounds, unless inject_error is called again first.      *)
THEOREM DeliveryIsNear ==
  Spec => DeliveryAdvances /\ [](ToError \in 0..27 + 14 * MaxAfter)
<1>1. TypeOK => ToError \in 0..27 + 14 * MaxAfter
  <2> SUFFICES ASSUME TypeOK PROVE ToError \in 0..27 + 14 * MaxAfter
    OBVIOUS
  <2>1. Callbacks \in 0..MaxAfter + 1 /\ MaxAfter \in Nat /\ ToData \in 0..13
    BY CallbacksBound, ToDataBound
  <2>2. QED BY <2>1 DEF ToError
<1>2. ASSUME IInv, Armed, running, ~closed, Owed, Next
      PROVE  /\ Worker => ToError' < ToError \/ errors'[request] = 1
             /\ App => ToError' <= ToError \/ request' # request
  <2>1. IInv' BY <1>2, AppKeepsIInv, WorkerKeepsIInv DEF Next
  <2>2. QED BY <1>2, <2>1, WorkerDelivers, AppDelivers
<1>3. IInv => TypeOK BY DEF IInv
<1>4. QED
  BY <1>1, <1>2, <1>3, LifecycleInductive, ArmedInductive, PTL DEF Spec, DeliveryAdvances
=============================================================================
