----------------------- MODULE CoreAudioStreamProofs -----------------------
(***************************************************************************)
(* Theorems about CoreAudioStream, for every number of buffers and every   *)
(* deadline.                                                               *)
(***************************************************************************)
EXTENDS CoreAudioStream, TLAPS

-----------------------------------------------------------------------------
(* The inductive invariant.                                                *)

InFlight == IF cb \in {"idle", "error"} THEN 0 ELSE 1

(* What exists at each step of the application thread. *)
Lifecycle ==
  /\ app \in {"playStart", "pauseQueue"} \cup CloseSteps => handle
  /\ app \in BuildSteps \cup {"failed"} => ~handle /\ cb = "idle" /\ queue \notin {"running", "stopping"}
  /\ app \in RateSteps \cup {"new"} => stream = "none" /\ ~registered /\ hal = "idle" /\ queue = "none"
  /\ app \in {"device", "listen", "pool", "prime"} => stream = "live" /\ queue = "paused"
  /\ handle => stream = "live"
  /\ handle /\ app \notin {"closeWait", "closeRelease"} => queue \in {"paused", "running"}
  /\ app = "closeWait" => queue = "stopping"
  /\ app = "closeRelease" => queue = "disposed" /\ cb = "idle"
  /\ app = "idle" /\ ~handle => queue = "disposed" /\ stream = "freed" /\ cb = "idle"

(* The listener comes with the stream and goes before it, unless a build   *)
(* fails.                                                                  *)
Listening ==
  /\ app \in CloseSteps => ~registered
  /\ app \in {"closeStop", "closeWait", "closeRelease"} => hal = "idle"
  /\ app = "idle" /\ ~handle => ~registered /\ hal = "idle"
  /\ hal = "stray" => app = "failed"
  /\ hal \in {"stop", "report"} => invalidated_sent

(* The buffers: none lost before the stream is handed out, and none but    *)
(* the lost ones missing until it is stopped.                              *)
Circle ==
  /\ queued + lost + InFlight <= Buffers
  /\ app \in BuildSteps => lost = 0 /\ queued < Buffers
  /\ handle /\ queue \in {"paused", "running"} => queued + lost + InFlight = Buffers

(* A play under way, or one that answered success. *)
Told == /\ (app = "playStart" \/ (app = "idle" /\ answer = "playing" /\ handle)) /\ ~running
             => invalidated_sent
        /\ app \in BuildSteps => answer = "none"

IInv == TypeOK /\ Lifecycle /\ Listening /\ Circle /\ Told

LEMMA InitIInv == Init => IInv
<1> SUFFICES ASSUME Init PROVE IInv
  OBVIOUS
<1> USE DEF Init
<1>1. TypeOK
  <2>1. 0 \in 0..Buffers /\ 0 \in 0..Deadline BY CoreAudioAssumption
  <2>2. app \in AppSteps BY DEF AppSteps, BuildSteps, RateSteps
  <2>3. QED BY <2>1, <2>2 DEF TypeOK, CbSteps, HalSteps
<1>2. Lifecycle BY DEF Lifecycle, BuildSteps, RateSteps, CloseSteps
<1>3. Listening BY DEF Listening, CloseSteps
<1>4. Circle
  <2>1. InFlight = 0 BY DEF InFlight
  <2>2. 0 + 0 + 0 <= Buffers /\ 0 < Buffers BY CoreAudioAssumption
  <2>3. QED BY <2>1, <2>2 DEF Circle
<1>5. Told BY DEF Told, BuildSteps, RateSteps
<1>6. QED BY <1>1, <1>2, <1>3, <1>4, <1>5 DEF IInv

(* A step that moves no buffer keeps the circle. *)
LEMMA CircleKept ==
  ASSUME TypeOK, Circle, UNCHANGED queueVars, InFlight' = InFlight,
         handle' => handle, app' \in BuildSteps => app \in BuildSteps
  PROVE  Circle'
BY DEF Circle, queueVars

LEMMA RateKeepsIInv ==
  ASSUME IInv, RateFails \/ RateRead \/ RateSet \/ RatePoll \/ Tick \/ DeviceRate
  PROVE  IInv'
<1> USE DEF AppAt, RateKeeps, flags, queueVars, owner
<1> DEFINE A == RateFails \/ RateRead \/ RateSet \/ RatePoll \/ Tick \/ DeviceRate
<1>0. /\ app \in RateSteps /\ app' \in RateSteps \cup {"new", "failed"}
      /\ UNCHANGED <<is_input, stream, running, invalidated_sent, registered, queue, queued, lost,
                     handle, cb, hal>>
      /\ rate' \in BOOLEAN /\ ticks' \in 0..Deadline
      /\ answer' \in {"none", "playing", "paused", "closed", "error"}
      /\ app' # "failed" => answer' = answer
  <2>1. CASE RateFails BY <2>1 DEF RateFails, RateSteps, IInv, TypeOK
  <2>2. CASE RateRead BY <2>2 DEF RateRead, RateSteps, IInv, TypeOK
  <2>3. CASE RateSet BY <2>3 DEF RateSet, RateSteps, IInv, TypeOK
  <2>4. CASE RatePoll BY <2>4 DEF RatePoll, RateSteps, IInv, TypeOK
  <2>5. CASE Tick BY <2>5, CoreAudioAssumption DEF Tick, RateSteps, IInv, TypeOK
  <2>6. CASE DeviceRate BY <2>6 DEF DeviceRate, RateSteps, IInv, TypeOK
  <2>7. QED BY <2>1, <2>2, <2>3, <2>4, <2>5, <2>6
<1>1. TypeOK' BY <1>0 DEF IInv, TypeOK, AppSteps, BuildSteps, RateSteps
<1>2. Lifecycle' BY <1>0 DEF IInv, Lifecycle, BuildSteps, RateSteps, CloseSteps
<1>3. Listening' /\ Told'
  BY <1>0 DEF IInv, Listening, Told, Lifecycle, BuildSteps, RateSteps, CloseSteps
<1>4. Circle'
  BY <1>0, CircleKept DEF IInv, InFlight, BuildSteps
<1>5. QED BY <1>1, <1>2, <1>3, <1>4 DEF IInv

LEMMA BuildKeepsIInv ==
  ASSUME IInv, New \/ SetDevice \/ Listen \/ Pool \/ Prime \/ BuildFails
  PROVE  IInv'
<1> USE DEF BuildAt, AppAt, buildVars, flags, owner
<1>0. TypeOK /\ Lifecycle /\ Listening /\ Circle /\ Told BY DEF IInv
<1>1. CASE New \/ SetDevice \/ Listen \/ Pool
  <2> USE <1>0, <1>1 DEF New, SetDevice, Listen, Pool
  <2>0. /\ UNCHANGED <<is_input, rate, ticks, running, invalidated_sent, queued, lost, handle, answer,
                       cb, hal>>
        /\ stream' \in {"none", "live", "freed"} /\ registered' \in BOOLEAN
        /\ queue' \in {"none", "paused", "running", "stopping", "disposed"}
        /\ app \in BuildSteps /\ app' \in {"device", "listen", "pool", "prime"}
    BY DEF BuildSteps, TypeOK
  <2>1. TypeOK'
    <3>1. app' \in AppSteps BY <2>0 DEF AppSteps, BuildSteps
    <3>2. QED BY <2>0, <3>1 DEF TypeOK
  <2>2. Lifecycle' BY DEF Lifecycle, BuildSteps, RateSteps, CloseSteps
  <2>3. Listening' BY DEF Listening, Lifecycle, BuildSteps, RateSteps, CloseSteps
  <2>4. Told'
    <3>1. answer' = "none" BY <2>0 DEF Told
    <3>2. app' # "playStart" BY <2>0
    <3>3. QED BY <3>1, <3>2 DEF Told
  <2>5. Circle'
    <3>1. InFlight' = InFlight BY DEF InFlight
    <3>2. ~handle' /\ app \in BuildSteps BY DEF Lifecycle, BuildSteps
    <3>3. UNCHANGED <<queued, lost>> OBVIOUS
    <3>4. QED BY <3>1, <3>2, <3>3 DEF Circle
  <2>6. QED BY <2>1, <2>2, <2>3, <2>4, <2>5 DEF IInv
<1>2. CASE Prime
  <2> USE <1>0, <1>2 DEF Prime
  <2>0. /\ app = "prime" /\ lost = 0 /\ queued < Buffers /\ cb = "idle"
        /\ stream = "live" /\ queue = "paused" /\ ~handle
    BY DEF Lifecycle, Circle, BuildSteps
  <2>1. queued \in Nat /\ queued' \in 0..Buffers
    BY <2>0, CoreAudioAssumption DEF TypeOK
  <2>2. app' \in AppSteps /\ handle' \in BOOLEAN BY DEF AppSteps, BuildSteps
  <2>3. TypeOK' BY <2>1, <2>2 DEF TypeOK
  <2>4. Lifecycle' BY <2>0 DEF Lifecycle, BuildSteps, RateSteps, CloseSteps
  <2>5. Listening' BY <2>0 DEF Listening, CloseSteps
  <2>6. Told' BY <2>0 DEF Told, BuildSteps, RateSteps
  <2>7. Circle'
    <3>1. InFlight' = 0 BY <2>0 DEF InFlight
    <3>2. lost' = 0 /\ queued' = queued + 1 BY <2>0
    <3>3. CASE queued + 1 = Buffers
      <4>1. app' = "idle" BY <3>3
      <4>2. QED BY <2>1, <3>1, <3>2, <3>3, <4>1, CoreAudioAssumption DEF Circle, BuildSteps, RateSteps
    <3>4. CASE queued + 1 # Buffers
      <4>1. ~handle' BY <3>4
      <4>2. queued + 1 < Buffers BY <2>0, <2>1, <3>4, CoreAudioAssumption
      <4>3. QED BY <2>1, <3>1, <3>2, <4>1, <4>2, CoreAudioAssumption DEF Circle
    <3>5. QED BY <3>3, <3>4
  <2>8. QED BY <2>3, <2>4, <2>5, <2>6, <2>7 DEF IInv
<1>3. CASE BuildFails
  <2> USE <1>0, <1>3 DEF BuildFails
  <2>0. app \in BuildSteps /\ app' = "failed" /\ ~handle /\ ~handle' /\ lost' = 0 /\ lost = 0
    BY DEF Lifecycle, Circle, BuildSteps
  <2>1. TypeOK' BY <2>0, CoreAudioAssumption DEF TypeOK, AppSteps
  <2>2. Lifecycle' BY <2>0 DEF Lifecycle, BuildSteps, RateSteps, CloseSteps
  <2>3. Listening' BY <2>0 DEF Listening, CloseSteps
  <2>4. Told' BY <2>0 DEF Told, BuildSteps, RateSteps
  <2>5. Circle'
    <3>1. InFlight' = 0 BY <2>0 DEF InFlight, Lifecycle
    <3>2. QED BY <2>0, <3>1, CoreAudioAssumption DEF Circle, BuildSteps, RateSteps
  <2>6. QED BY <2>1, <2>2, <2>3, <2>4, <2>5 DEF IInv
<1>4. QED BY <1>1, <1>2, <1>3

LEMMA CallKeepsIInv ==
  ASSUME IInv, Call \/ CallContinue
  PROVE  IInv'
<1> USE DEF OwnerAt, AppAt, buildVars, queueVars, owner
<1>0. TypeOK /\ Lifecycle /\ Listening /\ Circle /\ Told BY DEF IInv
<1> USE <1>0
<1>a. /\ app' \in AppSteps /\ app \notin BuildSteps /\ app' \notin BuildSteps
      /\ UNCHANGED <<is_input, rate, ticks, cb, invalidated_sent>> /\ lost' = lost
  <2> USE DEF AppSteps, BuildSteps, RateSteps, CloseSteps
  <2>1. CASE PlayStore BY <2>1 DEF PlayStore
  <2>2. CASE PauseStore BY <2>2 DEF PauseStore
  <2>3. CASE Close BY <2>3 DEF Close
  <2>4. CASE ClosedOwner BY <2>4 DEF ClosedOwner
  <2>5. CASE PlayStart BY <2>5 DEF PlayStart
  <2>6. CASE PlayFails BY <2>6 DEF PlayFails
  <2>7. CASE PauseQueue BY <2>7 DEF PauseQueue
  <2>8. CASE PauseFails BY <2>8 DEF PauseFails
  <2>9. CASE CloseListener BY <2>9 DEF CloseListener
  <2>10. CASE CloseStop BY <2>10 DEF CloseStop
  <2>11. CASE CloseRelease BY <2>11 DEF CloseRelease
  <2>12. CASE CloseWait BY <2>12 DEF CloseWait
  <2>13. QED
    BY <2>1, <2>2, <2>3, <2>4, <2>5, <2>6, <2>7, <2>8, <2>9, <2>10, <2>11, <2>12
    DEF Call, CallContinue
<1>1. TypeOK'
  <2> USE <1>a DEF TypeOK
  <2>1. CASE PlayStore BY <2>1 DEF PlayStore
  <2>2. CASE PauseStore BY <2>2 DEF PauseStore
  <2>3. CASE Close BY <2>3 DEF Close
  <2>4. CASE ClosedOwner BY <2>4 DEF ClosedOwner
  <2>5. CASE PlayStart BY <2>5 DEF PlayStart
  <2>6. CASE PlayFails BY <2>6 DEF PlayFails
  <2>7. CASE PauseQueue BY <2>7 DEF PauseQueue
  <2>8. CASE PauseFails BY <2>8 DEF PauseFails
  <2>9. CASE CloseListener BY <2>9 DEF CloseListener
  <2>10. CASE CloseStop BY <2>10 DEF CloseStop
  <2>11. CASE CloseRelease BY <2>11 DEF CloseRelease
  <2>12. CASE CloseWait
    <3>1. 0 \in 0..Buffers BY CoreAudioAssumption
    <3>2. QED BY <2>12, <3>1 DEF CloseWait
  <2>13. QED
    BY <2>1, <2>2, <2>3, <2>4, <2>5, <2>6, <2>7, <2>8, <2>9, <2>10, <2>11, <2>12
    DEF Call, CallContinue
<1>2. Lifecycle'
  <2> USE <1>a DEF Lifecycle, RateSteps, BuildSteps, CloseSteps
  <2>1. CASE PlayStore BY <2>1 DEF PlayStore
  <2>2. CASE PauseStore BY <2>2 DEF PauseStore
  <2>3. CASE Close BY <2>3 DEF Close
  <2>4. CASE ClosedOwner BY <2>4 DEF ClosedOwner
  <2>5. CASE PlayStart BY <2>5 DEF PlayStart
  <2>6. CASE PlayFails BY <2>6 DEF PlayFails
  <2>7. CASE PauseQueue BY <2>7 DEF PauseQueue
  <2>8. CASE PauseFails BY <2>8 DEF PauseFails
  <2>9. CASE CloseListener BY <2>9 DEF CloseListener
  <2>10. CASE CloseStop BY <2>10 DEF CloseStop
  <2>11. CASE CloseRelease BY <2>11 DEF CloseRelease
  <2>12. CASE CloseWait BY <2>12 DEF CloseWait
  <2>13. QED
    BY <2>1, <2>2, <2>3, <2>4, <2>5, <2>6, <2>7, <2>8, <2>9, <2>10, <2>11, <2>12
    DEF Call, CallContinue
<1>3. Listening' /\ Told'
  <2> USE <1>a DEF Listening, Told, CloseSteps
  <2>1. CASE PlayStore \/ PauseStore BY <2>1 DEF PlayStore, PauseStore
  <2>2. CASE Close \/ ClosedOwner BY <2>2 DEF Close, ClosedOwner
  <2>3. CASE PlayStart \/ PlayFails BY <2>3 DEF PlayStart, PlayFails, Lifecycle
  <2>4. CASE PauseQueue \/ PauseFails BY <2>4 DEF PauseQueue, PauseFails, Lifecycle
  <2>5. CASE CloseListener \/ CloseStop BY <2>5 DEF CloseListener, CloseStop
  <2>6. CASE CloseWait \/ CloseRelease BY <2>6 DEF CloseWait, CloseRelease
  <2>7. QED BY <2>1, <2>2, <2>3, <2>4, <2>5, <2>6 DEF Call, CallContinue
<1>4. Circle'
  <2>1. InFlight' = InFlight BY <1>a DEF InFlight
  <2>2. CASE CloseWait
    <3>1. queued' = 0 /\ queue' = "disposed" /\ lost' = lost BY <1>a, <2>2 DEF CloseWait
    <3>2. queued \in Nat /\ lost \in Nat /\ InFlight \in Nat
      BY CoreAudioAssumption DEF TypeOK, InFlight
    <3>3. 0 + lost + InFlight <= Buffers BY <3>2, CoreAudioAssumption DEF Circle
    <3>4. QED BY <1>a, <2>1, <3>1, <3>3 DEF Circle
  <2>3. CASE ~CloseWait
    <3>1. /\ queued' = queued /\ (handle' => handle)
          /\ handle' /\ queue' \in {"paused", "running"} => queue \in {"paused", "running"}
      <4> USE <2>3 DEF Lifecycle, CloseSteps
      <4>1. CASE PlayStore \/ PauseStore \/ Close \/ ClosedOwner
        BY <4>1 DEF PlayStore, PauseStore, Close, ClosedOwner
      <4>2. CASE PlayStart \/ PlayFails \/ PauseQueue \/ PauseFails
        BY <4>2 DEF PlayStart, PlayFails, PauseQueue, PauseFails
      <4>3. CASE CloseListener \/ CloseStop \/ CloseRelease
        BY <4>3 DEF CloseListener, CloseStop, CloseRelease
      <4>4. QED BY <4>1, <4>2, <4>3 DEF Call, CallContinue
    <3>2. QED BY <1>a, <2>1, <3>1 DEF Circle
  <2>4. QED BY <2>2, <2>3
<1>5. QED BY <1>1, <1>2, <1>3, <1>4 DEF IInv

(* Sums of three counts. *)
LEMMA FewerStill ==
  ASSUME NEW a \in Nat, NEW b \in Nat, NEW c \in Nat, NEW d \in Nat, NEW e \in Nat, NEW f \in Nat,
         NEW n \in Nat, a + b + c <= d + e + f, d + e + f <= n
  PROVE  a + b + c <= n
OBVIOUS

LEMMA PartOfSum ==
  ASSUME NEW a \in Nat, NEW b \in Nat, NEW c \in Nat, NEW n \in Nat, a + b + c <= n
  PROVE  a \in 0..n /\ b \in 0..n
OBVIOUS

LEMMA CbKeepsIInv ==
  ASSUME IInv, QueueCall \/ CbStep
  PROVE  IInv'
<1> USE DEF CbAt, CbKeeps, buildVars, flags, owner
<1>0. TypeOK /\ Lifecycle /\ Listening /\ Circle /\ Told BY DEF IInv
<1> USE <1>0
<1>1. /\ UNCHANGED <<is_input, rate, ticks, stream, running, invalidated_sent, registered, queue, handle,
                     answer, app, hal>>
      /\ cb' \in CbSteps
  <2> USE DEF CbSteps
  <2>1. CASE QueueCall BY <2>1 DEF QueueCall
  <2>2. CASE CbTest \/ CbEmpty \/ Data \/ DataReturn BY <2>2 DEF CbTest, CbEmpty, Data, DataReturn
  <2>3. CASE Enqueue \/ EnqueueRefused \/ EnqueueFails \/ ErrorReturn
    BY <2>3 DEF Enqueue, EnqueueRefused, EnqueueFails, ErrorReturn
  <2>4. QED BY <2>1, <2>2, <2>3 DEF CbStep
<1>2. cb # "idle" \/ queue = "running"
  BY DEF QueueCall, CbStep, CbTest, CbEmpty, Data, DataReturn, Enqueue, EnqueueRefused, EnqueueFails,
         ErrorReturn
<1>3. app \notin BuildSteps \cup {"failed"} /\ handle /\ app # "closeRelease"
  BY <1>2 DEF Lifecycle, TypeOK, AppSteps, BuildSteps, RateSteps, CloseSteps
<1>4. Lifecycle' /\ Listening' /\ Told'
  BY <1>1, <1>3 DEF Lifecycle, Listening, Told, BuildSteps, RateSteps, CloseSteps
<1>5. queued \in Nat /\ lost \in Nat BY CoreAudioAssumption DEF TypeOK
<1>6. /\ queued' \in Nat /\ lost' \in Nat
      /\ \/ queued' + lost' + InFlight' = queued + lost + InFlight
         \/ queue = "stopping" /\ queued' + lost' + InFlight' <= queued + lost + InFlight
  <2> USE <1>5 DEF InFlight
  <2>1. CASE QueueCall
    <3>1. queued > 0 /\ queued' = queued - 1 /\ lost' = lost /\ cb = "idle" /\ cb' = "test"
      BY <2>1 DEF QueueCall
    <3>2. InFlight = 0 /\ InFlight' = 1 BY <3>1
    <3>3. QED BY <3>1, <3>2
  <2>2. CASE CbTest \/ CbEmpty \/ Data \/ DataReturn
    <3>1. queued' = queued /\ lost' = lost /\ InFlight' = InFlight
      BY <2>2 DEF CbTest, CbEmpty, Data, DataReturn
    <3>2. QED BY <3>1
  <2>3. CASE Enqueue
    <3>1. queued' = queued + 1 /\ lost' = lost /\ InFlight = 1 /\ InFlight' = 0 BY <2>3 DEF Enqueue
    <3>2. QED BY <3>1
  <2>4. CASE EnqueueRefused
    <3>1. queue = "stopping" /\ queued' = queued /\ lost' = lost /\ InFlight = 1 /\ InFlight' = 0
      BY <2>4 DEF EnqueueRefused
    <3>2. QED BY <3>1
  <2>5. CASE EnqueueFails
    <3>1. queued' = queued /\ lost' = lost + 1 /\ InFlight = 1 /\ InFlight' = 0
      BY <2>5 DEF EnqueueFails
    <3>2. QED BY <3>1
  <2>6. CASE ErrorReturn
    <3>1. queued' = queued /\ lost' = lost /\ InFlight' = InFlight BY <2>6 DEF ErrorReturn
    <3>2. QED BY <3>1
  <2>7. QED BY <2>1, <2>2, <2>3, <2>4, <2>5, <2>6 DEF CbStep
<1>7. InFlight \in Nat /\ InFlight' \in Nat BY DEF InFlight
<1>8. queued' + lost' + InFlight' <= Buffers
  <2>1. queued + lost + InFlight <= Buffers BY DEF Circle
  <2>2. queued' + lost' + InFlight' <= queued + lost + InFlight
    <3>1. queued + lost + InFlight \in Nat BY <1>5, <1>7
    <3>2. QED BY <1>6, <3>1
  <2>3. QED BY <1>5, <1>6, <1>7, <2>1, <2>2, FewerStill, CoreAudioAssumption
<1>9. queued' \in 0..Buffers /\ lost' \in 0..Buffers
  BY <1>6, <1>7, <1>8, PartOfSum, CoreAudioAssumption
<1>10. TypeOK' BY <1>1, <1>9 DEF TypeOK
<1>11. Circle'
  <2>1. app' \notin BuildSteps BY <1>1, <1>3
  <2>2. handle' /\ queue' \in {"paused", "running"} => queued' + lost' + InFlight' = Buffers
    BY <1>1, <1>6 DEF Circle
  <2>3. QED BY <1>8, <2>1, <2>2 DEF Circle
<1>12. QED BY <1>4, <1>10, <1>11 DEF IInv

LEMMA HalKeepsIInv ==
  ASSUME IInv, Notify \/ HalStep \/ Stray
  PROVE  IInv'
<1> USE DEF HalAt, HalKeeps, buildVars, flags, queueVars, owner
<1>0. TypeOK /\ Lifecycle /\ Listening /\ Circle /\ Told BY DEF IInv
<1> USE <1>0
<1>1. /\ UNCHANGED <<is_input, rate, ticks, stream, registered, queue, queued, lost, handle, answer,
                     app, cb>>
      /\ hal' \in HalSteps /\ running' \in BOOLEAN /\ invalidated_sent' \in BOOLEAN
      /\ invalidated_sent => invalidated_sent'
      /\ running' = running \/ invalidated_sent
      /\ hal' \in {"stop", "report"} => invalidated_sent'
      /\ hal # "idle" \/ registered
      /\ hal' = "stray" => stream = "freed"
  <2> USE DEF HalSteps, TypeOK, Listening
  <2>1. CASE Notify \/ Stray BY <2>1 DEF Notify, Stray
  <2>2. CASE HalCheck \/ HalMark BY <2>2 DEF HalCheck, HalMark
  <2>3. CASE HalStop \/ ReportReturn BY <2>3 DEF HalStop, ReportReturn
  <2>4. QED BY <2>1, <2>2, <2>3 DEF HalStep
<1>2. TypeOK' BY <1>1 DEF TypeOK
<1>3. /\ app \notin {"closeStop", "closeWait", "closeRelease"}
      /\ ~(app = "idle" /\ ~handle)
      /\ app \notin RateSteps \cup {"new"}
  BY <1>1 DEF Listening, Lifecycle, CloseSteps
<1>4. Lifecycle' BY <1>1, <1>3 DEF Lifecycle, RateSteps
<1>5. Listening'
  <2>1. hal' = "stray" => app = "failed"
    BY <1>1, <1>3 DEF Lifecycle, TypeOK, AppSteps, BuildSteps, CloseSteps
  <2>2. QED BY <1>1, <1>3, <2>1 DEF Listening
<1>6. Told' BY <1>1 DEF Told
<1>7. Circle'
  <2>1. InFlight' = InFlight BY <1>1 DEF InFlight
  <2>2. QED BY <1>1, <2>1 DEF Circle
<1>8. QED BY <1>2, <1>4, <1>5, <1>6, <1>7 DEF IInv

LEMMA Inductive == Spec => []IInv
<1>1. IInv /\ [Next]_vars => IInv'
  <2>1. IInv /\ Next => IInv'
    BY RateKeepsIInv, BuildKeepsIInv, CallKeepsIInv, CbKeepsIInv, HalKeepsIInv
    DEF Next, App, Build, BuildStep
  <2>2. IInv /\ UNCHANGED vars => IInv'
    BY DEF vars, buildVars, flags, queueVars, owner, IInv, TypeOK, Lifecycle, Listening, Circle, Told,
           InFlight
  <2>3. QED BY <2>1, <2>2
<1>2. QED BY <1>1, InitIInv, PTL DEF Spec

-----------------------------------------------------------------------------
(* Theorems.                                                               *)

(* Every reachable state is well formed: the queue never holds more        *)
(* buffers than were made for it.                                          *)
THEOREM TypeCorrect == Spec => []TypeOK
<1>1. IInv => TypeOK BY DEF IInv
<1>2. QED BY <1>1, Inductive, PTL

(* The stream is freed only when no callback can reach it any more, but    *)
(* for the listener of a failed build.                                     *)
THEOREM ReleaseIsLast == Spec => []ReleasedUnused
<1>1. IInv => ReleasedUnused
  <2> SUFFICES ASSUME IInv, stream = "freed"
               PROVE  /\ cb = "idle" /\ ~handle
                      /\ (hal = "idle" /\ ~registered) \/ app = "failed"
    BY DEF ReleasedUnused
  <2>1. ~handle BY DEF IInv, Lifecycle
  <2>2. app \in {"idle", "failed"}
    BY <2>1 DEF IInv, TypeOK, Lifecycle, AppSteps, BuildSteps, RateSteps, CloseSteps
  <2>3. QED BY <2>1, <2>2 DEF IInv, Lifecycle, Listening
<1>2. QED BY <1>1, Inductive, PTL

(* Every buffer of a stream that can play is enqueued, in the hands of the *)
(* callback, or was reported lost: for any number of buffers.              *)
THEOREM NoBufferForgotten == Spec => []BuffersAccounted
<1>1. IInv => BuffersAccounted BY DEF IInv, Circle, BuffersAccounted, InFlight
<1>2. QED BY <1>1, Inductive, PTL

(* A stream whose play succeeded is silent only if it was invalidated.     *)
THEOREM SilenceIsTold == Spec => []SilentMeansTold
<1>1. IInv => SilentMeansTold BY DEF IInv, Told, SilentMeansTold
<1>2. QED BY <1>1, Inductive, PTL

-----------------------------------------------------------------------------
(* Refinement of StreamContract.                                           *)

LEMMA InitRefines == Init => Contract!CInit
BY DEF Init, Contract!CInit, Mode, Round, Busy

LEMMA BuildRefines ==
  ASSUME IInv, Build \/ Tick \/ DeviceRate
  PROVE  UNCHANGED Contract!cvars
<1> USE DEF AppAt, BuildAt, RateKeeps, flags, queueVars, owner, buildVars
<1>1. /\ app \in BuildSteps
      /\ app' \in BuildSteps \cup {"failed"} \/ (app' = "idle" /\ handle')
      /\ cb = "idle" /\ cb' = "idle" /\ running' = running
  <2> USE DEF IInv, Lifecycle, BuildSteps, RateSteps
  <2>1. CASE RateFails \/ RateRead \/ RateSet \/ RatePoll
    BY <2>1 DEF RateFails, RateRead, RateSet, RatePoll
  <2>2. CASE New \/ SetDevice \/ Listen \/ Pool BY <2>2 DEF New, SetDevice, Listen, Pool
  <2>3. CASE Prime BY <2>3 DEF Prime
  <2>4. CASE BuildFails BY <2>4 DEF BuildFails
  <2>5. CASE Tick \/ DeviceRate BY <2>5 DEF Tick, DeviceRate
  <2>6. QED BY <2>1, <2>2, <2>3, <2>4, <2>5 DEF Build, BuildStep
<1>2. QED BY <1>1 DEF Mode, Round, Busy, Contract!cvars, BuildSteps, RateSteps

LEMMA CallRefines ==
  ASSUME IInv, Call \/ CallContinue
  PROVE  [Contract!CNext]_(Contract!cvars)
<1> USE DEF OwnerAt, AppAt, queueVars, owner
<1>0. app \in {"playStart", "pauseQueue"} \cup CloseSteps => handle BY DEF IInv, Lifecycle
<1>1. CASE PlayStore
  <2>1. Contract!Play BY <1>1 DEF PlayStore, Contract!Play, Mode, Round, Busy, IInv, Lifecycle
  <2>2. QED BY <2>1 DEF Contract!CNext
<1>2. CASE PauseStore
  <2>1. Contract!Pause BY <1>2 DEF PauseStore, Contract!Pause, Mode, Round, Busy, IInv, Lifecycle
  <2>2. QED BY <2>1 DEF Contract!CNext
<1>3. CASE Close \/ ClosedOwner \/ CloseListener
  BY <1>3, <1>0 DEF Close, ClosedOwner, CloseListener, Mode, Round, Busy, Contract!cvars, CloseSteps
<1>4. CASE PlayStart \/ PlayFails \/ PauseQueue \/ PauseFails
  <2>1. handle /\ handle' /\ queue # "stopping" /\ queue' # "stopping"
    BY <1>4, <1>0 DEF PlayStart, PlayFails, PauseQueue, PauseFails, IInv, Lifecycle
  <2>2. /\ app \in {"playStart", "pauseQueue"} /\ app' = "idle" /\ running' = running /\ cb' = cb
    BY <1>4 DEF PlayStart, PlayFails, PauseQueue, PauseFails
  <2>3. QED BY <2>1, <2>2 DEF Mode, Round, Busy, Contract!cvars
<1>5. CASE CloseStop
  <2>1. queue # "stopping" /\ handle BY <1>5, <1>0 DEF CloseStop, IInv, Lifecycle, CloseSteps
  <2>2. Contract!Close
    BY <1>5, <2>1 DEF CloseStop, Contract!Close, Mode, Round, Busy
  <2>3. QED BY <2>2 DEF Contract!CNext
<1>6. CASE CloseWait BY <1>6 DEF CloseWait, Mode, Round, Busy, Contract!cvars
<1>7. CASE CloseRelease
  <2>1. cb = "idle" BY <1>7 DEF CloseRelease, IInv, Lifecycle
  <2>2. Contract!Closed BY <1>7, <2>1 DEF CloseRelease, Contract!Closed, Mode, Round, Busy
  <2>3. QED BY <2>2 DEF Contract!CNext
<1>8. QED BY <1>1, <1>2, <1>3, <1>4, <1>5, <1>6, <1>7 DEF Call, CallContinue

LEMMA CbRefines ==
  ASSUME IInv, QueueCall \/ CbStep
  PROVE  [Contract!CNext]_(Contract!cvars)
<1> USE DEF CbAt, CbKeeps, flags, owner
<1>0. cb # "idle" => handle /\ app # "closeRelease" /\ (queue = "stopping" <=> app = "closeWait")
  BY DEF IInv, TypeOK, Lifecycle, AppSteps, BuildSteps, RateSteps, CloseSteps
<1>1. CASE QueueCall BY <1>1 DEF QueueCall, Mode, Round, Busy, Contract!cvars
<1>2. CASE CbTest
  <2>1. CASE ~running
    BY <1>2, <2>1 DEF CbTest, Mode, Round, Busy, Contract!cvars
  <2>2. CASE running /\ queue = "stopping"
    BY <1>2, <2>2 DEF CbTest, Mode, Round, Busy, Contract!cvars
  <2>3. CASE running /\ queue # "stopping"
    <3>1. Contract!OpenRound
      BY <1>0, <1>2, <2>3 DEF CbTest, Contract!OpenRound, Mode, Round, Busy
    <3>2. QED BY <3>1 DEF Contract!CNext
  <2>4. QED BY <2>1, <2>2, <2>3
<1>3. CASE CbEmpty
  <2>1. CASE ~running
    BY <1>3, <2>1 DEF CbEmpty, Mode, Round, Busy, Contract!cvars
  <2>2. CASE running
    <3>1. Contract!CloseRound BY <1>3, <2>2 DEF CbEmpty, Contract!CloseRound, Mode, Round, Busy
    <3>2. QED BY <3>1 DEF Contract!CNext
  <2>3. QED BY <2>1, <2>2
<1>4. CASE Data
  <2>1. Contract!Data BY <1>4 DEF Data, Contract!Data, Mode, Round, Busy
  <2>2. QED BY <2>1 DEF Contract!CNext
<1>5. CASE DataReturn
  <2>1. Contract!Return BY <1>5 DEF DataReturn, Contract!Return, Mode, Round, Busy
  <2>2. QED BY <2>1 DEF Contract!CNext
<1>6. CASE Enqueue \/ EnqueueRefused
  BY <1>6 DEF Enqueue, EnqueueRefused, Mode, Round, Busy, Contract!cvars
<1>7. CASE EnqueueFails
  <2>1. Contract!Error BY <1>0, <1>7 DEF EnqueueFails, Contract!Error, Mode, Round, Busy
  <2>2. QED BY <2>1 DEF Contract!CNext
<1>8. CASE ErrorReturn
  <2>1. Contract!Return BY <1>8 DEF ErrorReturn, Contract!Return, Mode, Round, Busy
  <2>2. QED BY <2>1 DEF Contract!CNext
<1>9. QED BY <1>1, <1>2, <1>3, <1>4, <1>5, <1>6, <1>7, <1>8 DEF CbStep

LEMMA HalRefines ==
  ASSUME IInv, Notify \/ HalStep \/ Stray
  PROVE  [Contract!CNext]_(Contract!cvars)
<1> USE DEF HalAt, HalKeeps, flags, queueVars, owner
<1>1. CASE Notify \/ HalCheck \/ HalMark \/ ReportReturn \/ Stray
  BY <1>1 DEF Notify, HalCheck, HalMark, ReportReturn, Stray, Mode, Round, Busy, Contract!cvars
<1>2. CASE HalStop
  <2>1. /\ app \notin {"closeWait", "closeRelease"} /\ ~(app = "idle" /\ ~handle)
        /\ queue # "stopping"
    BY <1>2 DEF HalStop, IInv, TypeOK, Lifecycle, Listening, AppSteps, BuildSteps, RateSteps, CloseSteps
  <2>2. Contract!Pause BY <1>2, <2>1 DEF HalStop, Contract!Pause, Mode, Round, Busy
  <2>3. QED BY <2>2 DEF Contract!CNext
<1>3. QED BY <1>1, <1>2 DEF HalStep

(* What the queue calls keeps the contract of StreamContract, against any  *)
(* invalidation, failed call and number of buffers.                        *)
THEOREM Implements == Spec => KeepsContract
<1>1. IInv /\ [Next]_vars => [Contract!CNext]_(Contract!cvars)
  <2>1. IInv /\ Next => [Contract!CNext]_(Contract!cvars)
    BY BuildRefines, CallRefines, CbRefines, HalRefines DEF Next, App
  <2>2. UNCHANGED vars => UNCHANGED Contract!cvars
    BY DEF vars, flags, queueVars, owner, Contract!cvars, Mode, Round, Busy
  <2>3. QED BY <2>1, <2>2
<1>2. QED BY <1>1, Inductive, InitRefines, PTL DEF Spec, KeepsContract, Contract!CSpec

-----------------------------------------------------------------------------
(* What the user may conclude.                                             *)

VARIABLE late   \* data callbacks begun since the stream last played

Promises == INSTANCE ContractPromises WITH mode <- Mode, round <- Round, busy <- Busy

LEMMA SameContract == KeepsContract => Promises!CSpec
<1>1. Contract!CInit => Promises!CInit BY DEF Contract!CInit, Promises!CInit
<1>2. [Contract!CNext]_(Contract!cvars) => [Promises!CNext]_(Promises!cvars)
  BY DEF Contract!cvars, Contract!CNext, Contract!Play, Contract!Pause, Contract!Close,
         Contract!Closed, Contract!OpenRound, Contract!Data, Contract!Error, Contract!Return,
         Contract!CloseRound,
         Promises!cvars, Promises!CNext, Promises!Play, Promises!Pause, Promises!Close,
         Promises!Closed, Promises!OpenRound, Promises!Data, Promises!Error, Promises!Return,
         Promises!CloseRound
<1>3. QED BY <1>1, <1>2, PTL DEF KeepsContract, Contract!CSpec, Promises!CSpec

(* After moon_cpal_ca_stream_destroy returned no callback of the queue     *)
(* begins or ends, whatever is called on the owner.                        *)
THEOREM NothingAfterClose == Spec => Promises!CloseIsFinal
BY Implements, SameContract, Promises!OneByOne, Promises!ClosedForGood

(* After a pause stored running, or the listener did for a device that was *)
(* lost, at most one more data callback begins before the next play.       *)
THEOREM OneLateCallback == Spec /\ Promises!Counted => [](late <= 1)
BY Implements, SameContract, Promises!OneLateCallback

-----------------------------------------------------------------------------
(* Why the build and every call of the owner return: the safety half of    *)
(* CallsReturn.                                                            *)

(* The steps the callbacks of the queue and of the listener have left. *)
CbLeft == CASE cb = "test" -> 5
            [] cb = "call" -> 4
            [] cb = "data" -> 3
            [] cb = "enqueue" -> 2
            [] cb = "error" -> 1
            [] cb = "idle" -> 0
HalLeft == CASE hal = "check" -> 4
             [] hal = "mark" -> 3
             [] hal = "stop" -> 2
             [] hal = "report" -> 1
             [] hal \in {"idle", "stray"} -> 0

(* How far the call under way is from its return, in steps of its own, of  *)
(* the clock and of the callbacks it waits for.                            *)
Left == CASE app = "rate" -> 8 + Buffers + Deadline
          [] app = "rateSet" -> 7 + Buffers + Deadline
          [] app = "ratePoll" -> 6 + Buffers + (Deadline - ticks)
          [] app = "new" -> 5 + Buffers
          [] app = "device" -> 4 + Buffers
          [] app = "listen" -> 3 + Buffers
          [] app = "pool" -> 2 + Buffers
          [] app = "prime" -> 1 + (Buffers - queued)
          [] app = "closeListener" -> 9 + HalLeft
          [] app = "closeStop" -> 8
          [] app = "closeWait" -> 2 + CbLeft
          [] app \in {"closeRelease", "playStart", "pauseQueue"} -> 1
          [] app \in {"idle", "failed"} -> 0

(* A call that has begun comes nearer to its return with every step of its *)
(* own, of the clock it polls and of the callback it waits for, and no     *)
(* other step takes it away from there: neither a new notification of the  *)
(* listener nor a new callback of the queue.                               *)
Awaited == (app = "closeListener" /\ HalStep) \/ (app = "closeWait" /\ CbStep)
CallsAdvance == [][app \notin {"idle", "failed"} =>
                     /\ Build \/ CallContinue \/ Tick \/ Awaited => Left' < Left
                     /\ Left' <= Left]_vars

(* No call is ever further from its return than a whole build. *)
LeftBounded == Left \in 0..(13 + Buffers + Deadline)

LEMMA LeftBound == IInv => LeftBounded
<1> SUFFICES ASSUME IInv PROVE Left \in 0..(13 + Buffers + Deadline)
  BY DEF LeftBounded
<1>1. CbLeft \in 0..5 BY DEF CbLeft, IInv, TypeOK, CbSteps
<1>2. HalLeft \in 0..4 BY DEF HalLeft, IInv, TypeOK, HalSteps
<1>3. /\ Buffers \in Nat /\ Deadline \in Nat
      /\ queued \in 0..Buffers /\ ticks \in 0..Deadline
  BY CoreAudioAssumption DEF IInv, TypeOK
<1>4. CASE app \in RateSteps
  <2>1. \/ Left = 8 + Buffers + Deadline
        \/ Left = 7 + Buffers + Deadline
        \/ Left = 6 + Buffers + (Deadline - ticks)
    BY <1>4 DEF Left, RateSteps
  <2>2. QED BY <1>3, <2>1
<1>5. CASE app \in {"new", "device", "listen", "pool", "prime"}
  <2>1. Left \in {5 + Buffers, 4 + Buffers, 3 + Buffers, 2 + Buffers, 1 + (Buffers - queued)}
    BY <1>5 DEF Left
  <2>2. QED BY <1>3, <2>1
<1>6. CASE app \in {"closeListener", "closeStop", "closeWait"}
  <2>1. Left \in 0..13 BY <1>1, <1>2, <1>6 DEF Left
  <2>2. QED BY <1>3, <2>1
<1>7. CASE app \in {"closeRelease", "playStart", "pauseQueue", "idle", "failed"}
  <2>1. Left \in 0..1 BY <1>7 DEF Left
  <2>2. QED BY <1>3, <2>1
<1>8. QED
  BY <1>4, <1>5, <1>6, <1>7 DEF IInv, TypeOK, AppSteps, BuildSteps, RateSteps, CloseSteps

LEMMA BuildAdvances == IInv /\ (Build \/ Tick) => Left' < Left
<1> SUFFICES ASSUME IInv, Build \/ Tick PROVE Left' < Left
  OBVIOUS
<1>0. /\ Buffers \in Nat \ {0} /\ Deadline \in Nat
      /\ queued \in 0..Buffers /\ ticks \in 0..Deadline
      /\ app \in BuildSteps => queued < Buffers
  BY CoreAudioAssumption DEF IInv, TypeOK, Circle
<1> USE DEF Left, AppAt, BuildAt, RateKeeps, queueVars
<1>1. CASE RateFails BY <1>0, <1>1 DEF RateFails, RateSteps
<1>2. CASE RateRead BY <1>0, <1>2 DEF RateRead
<1>3. CASE RateSet BY <1>0, <1>3 DEF RateSet
<1>4. CASE RatePoll BY <1>0, <1>4 DEF RatePoll
<1>5. CASE New BY <1>0, <1>5 DEF New
<1>6. CASE SetDevice BY <1>0, <1>6 DEF SetDevice
<1>7. CASE Listen BY <1>0, <1>7 DEF Listen
<1>8. CASE Pool BY <1>0, <1>8 DEF Pool
<1>9. CASE Prime
  <2>1. queued < Buffers BY <1>0, <1>9 DEF Prime, BuildSteps
  <2>2. QED BY <1>0, <1>9, <2>1 DEF Prime
<1>10. CASE BuildFails
  <2>1. queued < Buffers BY <1>0, <1>10 DEF BuildFails, BuildSteps
  <2>2. QED BY <1>0, <1>10, <2>1 DEF BuildFails
<1>11. CASE Tick BY <1>0, <1>11 DEF Tick
<1>12. QED
  BY <1>1, <1>2, <1>3, <1>4, <1>5, <1>6, <1>7, <1>8, <1>9, <1>10, <1>11 DEF Build, BuildStep

LEMMA CloseAdvances == IInv /\ CallContinue => Left' < Left
<1> SUFFICES ASSUME IInv, CallContinue PROVE Left' < Left
  OBVIOUS
<1>1. /\ CbLeft' \in 0..5
      /\ cb = "idle" => CbLeft = 0
      /\ hal = "idle" => HalLeft = 0
  <2>1. cb' = cb BY DEF CallContinue, PlayStart, PlayFails, PauseQueue, PauseFails, CloseListener,
                       CloseStop, CloseWait, CloseRelease, OwnerAt, AppAt
  <2>2. cb' \in CbSteps BY <2>1 DEF IInv, TypeOK
  <2>3. QED BY <2>2 DEF CbLeft, HalLeft, CbSteps
<1> USE <1>1 DEF Left, OwnerAt, AppAt
<1>2. CASE PlayStart \/ PlayFails \/ PauseQueue \/ PauseFails
  BY <1>2 DEF PlayStart, PlayFails, PauseQueue, PauseFails
<1>3. CASE CloseListener BY <1>3 DEF CloseListener
<1>4. CASE CloseStop BY <1>4 DEF CloseStop
<1>5. CASE CloseWait BY <1>5 DEF CloseWait
<1>6. CASE CloseRelease BY <1>6 DEF CloseRelease
<1>7. QED BY <1>2, <1>3, <1>4, <1>5, <1>6 DEF CallContinue

(* While close removes the listener, the HAL calls it no more; while close *)
(* stops the queue, the queue takes no buffer up.                          *)
LEMMA AwaitedAdvances ==
  /\ IInv /\ app = "closeListener" /\ (Notify \/ HalStep \/ Stray) => HalLeft' < HalLeft
  /\ IInv /\ app = "closeWait" /\ (QueueCall \/ CbStep) => CbLeft' < CbLeft
<1>1. ASSUME IInv, app = "closeListener", Notify \/ HalStep \/ Stray PROVE HalLeft' < HalLeft
  <2>1. ~registered /\ stream = "live"
    BY <1>1 DEF IInv, Lifecycle, Listening, CloseSteps
  <2>2. ~Notify /\ ~Stray BY <2>1 DEF Notify, Stray
  <2>3. CASE HalCheck BY <2>3 DEF HalCheck, HalAt, HalLeft
  <2>4. CASE HalMark BY <2>4 DEF HalMark, HalAt, HalLeft
  <2>5. CASE HalStop BY <2>5 DEF HalStop, HalAt, HalLeft
  <2>6. CASE ReportReturn BY <2>6 DEF ReportReturn, HalAt, HalLeft
  <2>7. QED BY <1>1, <2>2, <2>3, <2>4, <2>5, <2>6 DEF HalStep
<1>2. ASSUME IInv, app = "closeWait", QueueCall \/ CbStep PROVE CbLeft' < CbLeft
  <2>1. queue = "stopping" BY <1>2 DEF IInv, Lifecycle
  <2>2. ~QueueCall BY <2>1 DEF QueueCall
  <2>3. CASE CbTest BY <2>3 DEF CbTest, CbAt, CbLeft
  <2>4. CASE CbEmpty BY <2>4 DEF CbEmpty, CbAt, CbLeft
  <2>5. CASE Data BY <2>5 DEF Data, CbAt, CbLeft
  <2>6. CASE DataReturn BY <2>6 DEF DataReturn, CbAt, CbLeft
  <2>7. CASE Enqueue BY <2>1, <2>7 DEF Enqueue
  <2>8. CASE EnqueueRefused BY <2>8 DEF EnqueueRefused, CbAt, CbLeft
  <2>9. CASE EnqueueFails BY <2>9 DEF EnqueueFails, CbAt, CbLeft
  <2>10. CASE ErrorReturn BY <2>10 DEF ErrorReturn, CbAt, CbLeft
  <2>11. QED BY <1>2, <2>2, <2>3, <2>4, <2>5, <2>6, <2>7, <2>8, <2>9, <2>10 DEF CbStep
<1>3. QED BY <1>1, <1>2

(* The steps of the other threads and of the device leave alone how far a  *)
(* call is, but for those it waits for.                                    *)
LEMMA OthersAdvance ==
  ASSUME IInv, DeviceRate \/ QueueCall \/ CbStep \/ Notify \/ HalStep \/ Stray
  PROVE  /\ Left' = Left \/ Left' < Left
         /\ Awaited => Left' < Left
<1>1. UNCHANGED <<app, ticks>>
  BY DEF DeviceRate, QueueCall, CbStep, CbTest, CbEmpty, Data, DataReturn, Enqueue, EnqueueRefused,
         EnqueueFails, ErrorReturn, Notify, HalStep, HalCheck, HalMark, HalStop, ReportReturn,
         Stray, CbAt, CbKeeps, HalAt, HalKeeps, buildVars
<1>2. CASE DeviceRate \/ Notify \/ HalStep \/ Stray
  <2>1. UNCHANGED <<cb, queued>>
    BY <1>2 DEF DeviceRate, Notify, HalStep, HalCheck, HalMark, HalStop, ReportReturn, Stray, HalAt,
           HalKeeps, queueVars
  <2>2. UNCHANGED CbLeft BY <2>1 DEF CbLeft
  <2>3. CASE app = "closeListener" /\ ~DeviceRate
    <3>1. HalLeft' < HalLeft BY <1>2, <2>3, AwaitedAdvances
    <3>2. HalLeft \in 0..4 BY DEF HalLeft, IInv, TypeOK, HalSteps
    <3>3. HalLeft' \in 0..4
      BY HalKeepsIInv, <1>2, <2>3 DEF HalLeft, IInv, TypeOK, HalSteps
    <3>4. Left = 9 + HalLeft /\ Left' = 9 + HalLeft' BY <1>1, <2>3 DEF Left
    <3>5. PICK x \in 0..5, y \in 0..5 : x = HalLeft' /\ y = HalLeft BY <3>2, <3>3
    <3>6. x < y BY <3>1, <3>5, Zenon
    <3>7. 9 + x < 9 + y BY <3>6
    <3>8. QED BY <3>4, <3>5, <3>7
  <2>4. CASE app # "closeListener"
    <3>1. Left' = Left BY <1>1, <2>1, <2>2, <2>4 DEF Left
    <3>2. CbStep => FALSE
      BY <1>2, <2>1 DEF CbStep, CbTest, CbEmpty, Data, DataReturn, Enqueue, EnqueueRefused,
         EnqueueFails, ErrorReturn, CbAt
    <3>3. QED BY <2>4, <3>1, <3>2 DEF Awaited
  <2>5. CASE DeviceRate /\ app = "closeListener"
    BY <2>5 DEF DeviceRate, RateSteps
  <2>6. QED BY <2>3, <2>4, <2>5
<1>3. CASE QueueCall \/ CbStep
  <2>1. UNCHANGED hal
    BY <1>3 DEF QueueCall, CbStep, CbTest, CbEmpty, Data, DataReturn, Enqueue, EnqueueRefused,
           EnqueueFails, ErrorReturn, CbAt, CbKeeps
  <2>2. UNCHANGED HalLeft BY <2>1 DEF HalLeft
  <2>3. ~HalStep
    BY <2>1 DEF HalStep, HalCheck, HalMark, HalStop, ReportReturn, HalAt
  <2>4. app # "prime"
    BY <1>3 DEF IInv, Lifecycle, BuildSteps, QueueCall, CbStep, CbTest, CbEmpty, Data, DataReturn,
           Enqueue, EnqueueRefused, EnqueueFails, ErrorReturn, CbAt
  <2>5. CASE app = "closeWait"
    <3>1. CbLeft' < CbLeft BY <1>3, <2>5, AwaitedAdvances
    <3>2. CbLeft \in 0..5 BY DEF CbLeft, IInv, TypeOK, CbSteps
    <3>3. CbLeft' \in 0..5
      BY CbKeepsIInv, <1>3 DEF CbLeft, IInv, TypeOK, CbSteps
    <3>4. Left = 2 + CbLeft /\ Left' = 2 + CbLeft' BY <1>1, <2>5 DEF Left
    <3>5. PICK x \in 0..5, y \in 0..5 : x = CbLeft' /\ y = CbLeft BY <3>2, <3>3
    <3>6. x < y BY <3>1, <3>5, Zenon
    <3>7. 2 + x < 2 + y BY <3>6
    <3>8. QED BY <3>4, <3>5, <3>7
  <2>6. CASE app # "closeWait"
    <3>1. Left' = Left BY <1>1, <2>2, <2>4, <2>6 DEF Left
    <3>2. QED BY <2>3, <2>6, <3>1 DEF Awaited
  <2>7. QED BY <2>5, <2>6
<1>4. QED BY <1>2, <1>3

(* A build, a play, a pause and a close return after at most               *)
(* 13 + Buffers + Deadline of the steps CallsAdvance names: the build      *)
(* because its poll has a deadline, the close because it removes the       *)
(* listener before it waits for it and stops the queue before it waits for *)
(* its callback.                                                           *)
THEOREM ReturnIsNear == Spec => CallsAdvance /\ []LeftBounded
<1> DEFINE Advances == app \notin {"idle", "failed"} =>
                         /\ Build \/ CallContinue \/ Tick \/ Awaited => Left' < Left
                         /\ Left' <= Left
<1>0. IInv' => LeftBounded' BY LeftBound, PTL
<1>1. IInv /\ IInv' /\ Next => Advances
  <2> SUFFICES ASSUME IInv, IInv', Next, app \notin {"idle", "failed"}
               PROVE  /\ Build \/ CallContinue \/ Tick \/ Awaited => Left' < Left
                      /\ Left' <= Left
    OBVIOUS
  <2>1. Left \in Int /\ Left' \in Int
    <3>1. LeftBounded /\ LeftBounded' BY <1>0, LeftBound
    <3>2. QED BY <3>1, CoreAudioAssumption DEF LeftBounded
  <2>2. CASE Build \/ CallContinue \/ Tick
    <3>1. Left' < Left BY <2>2, BuildAdvances, CloseAdvances
    <3>2. QED BY <2>1, <3>1
  <2>3. CASE ~(Build \/ CallContinue \/ Tick)
    <3>1. ~Call BY DEF Call, PlayStore, PauseStore, Close, ClosedOwner, OwnerAt, AppAt
    <3>2. DeviceRate \/ QueueCall \/ CbStep \/ Notify \/ HalStep \/ Stray
      BY <2>3, <3>1 DEF Next, App
    <3>3. QED BY <2>1, <2>3, <3>2, OthersAdvance
  <2>4. QED BY <2>2, <2>3
<1>2. QED BY <1>1, LeftBound, Inductive, PTL DEF Spec, CallsAdvance

-----------------------------------------------------------------------------
(* Why a playing stream goes on: the safety half of KeepsPlaying.          *)

(* How far the queue's thread is from the next data callback, in steps. *)
ToData == CASE cb = "data" -> 0
            [] cb = "call" -> 1
            [] cb = "test" -> 2
            [] cb = "idle" -> 3
            [] cb = "error" -> 4
            [] cb = "enqueue" -> 5

(* Every step of the queue's thread outside the data callback of a playing *)
(* stream brings the next one nearer; no call of the owner, no step of the *)
(* listener and no device takes it away.                                   *)
RoundAdvances ==
  [][running /\ queue = "running" =>
       /\ QueueCall \/ CbStep => cb = "data" \/ ToData' < ToData
       /\ ~(QueueCall \/ CbStep) => ToData' = ToData]_vars

(* The queue can call back: it holds a buffer unless every one was lost.   *)
Unstarved == handle /\ queue = "running" /\ cb = "idle" /\ lost < Buffers => queued > 0

LEMMA QueueRound ==
  ASSUME running, queue = "running", QueueCall \/ CbStep
  PROVE  cb = "data" \/ ToData' < ToData
<1> USE DEF CbAt, ToData
<1>1. CASE QueueCall BY <1>1 DEF QueueCall
<1>2. CASE CbTest BY <1>2 DEF CbTest
<1>3. CASE CbEmpty \/ EnqueueRefused BY <1>3 DEF CbEmpty, EnqueueRefused
<1>4. CASE Data BY <1>4 DEF Data
<1>5. CASE DataReturn BY <1>5 DEF DataReturn
<1>6. CASE Enqueue BY <1>6 DEF Enqueue
<1>7. CASE EnqueueFails BY <1>7 DEF EnqueueFails
<1>8. CASE ErrorReturn BY <1>8 DEF ErrorReturn
<1> HIDE DEF ToData
<1>9. QED BY <1>1, <1>2, <1>3, <1>4, <1>5, <1>6, <1>7, <1>8 DEF CbStep

LEMMA OthersLeaveRound ==
  ASSUME Next, ~(QueueCall \/ CbStep)
  PROVE  ToData' = ToData
<1>1. CASE App
  BY <1>1 DEF App, Build, BuildStep, RateFails, RateRead, RateSet, RatePoll, New, SetDevice,
     Listen, Pool, Prime, BuildFails, Call, PlayStore, PauseStore, Close, ClosedOwner,
     CallContinue, PlayStart, PlayFails, PauseQueue, PauseFails, CloseListener, CloseStop,
     CloseWait, CloseRelease, AppAt, BuildAt, OwnerAt, ToData
<1>2. CASE Tick \/ DeviceRate BY <1>2 DEF Tick, DeviceRate, ToData
<1>3. CASE Notify \/ HalStep \/ Stray
  BY <1>3 DEF Notify, HalStep, HalCheck, HalMark, HalStop, ReportReturn, Stray, HalAt,
     HalKeeps, ToData
<1>4. QED BY <1>1, <1>2, <1>3 DEF Next

(* A playing queue cannot lose its way to the data callback, which is five *)
(* of its steps away at most, and as long as a buffer is left it holds one *)
(* to call back with: Buffers failed enqueues, each reported, are the only *)
(* way to silence a stream that nobody paused, closed or invalidated.      *)
THEOREM NextRoundIsNear == Spec => RoundAdvances /\ [](ToData \in 0..5 /\ Unstarved)
<1>1. ASSUME IInv PROVE ToData \in 0..5 /\ Unstarved
  <2>1. ToData \in 0..5 BY <1>1 DEF IInv, TypeOK, CbSteps, ToData
  <2>2. BuffersAccounted /\ TypeOK
    BY <1>1 DEF IInv, Circle, BuffersAccounted, InFlight
  <2>3. Unstarved
    BY <2>2, CoreAudioAssumption DEF BuffersAccounted, Unstarved, TypeOK
  <2>4. QED BY <2>1, <2>3
<1>2. ASSUME running, queue = "running", Next
      PROVE  /\ QueueCall \/ CbStep => cb = "data" \/ ToData' < ToData
             /\ ~(QueueCall \/ CbStep) => ToData' = ToData
  BY <1>2, QueueRound, OthersLeaveRound
<1>3. QED BY <1>1, <1>2, Inductive, PTL DEF Spec, RoundAdvances
=============================================================================
