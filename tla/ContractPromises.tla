-------------------------- MODULE ContractPromises --------------------------
(***************************************************************************)
(* What a user of a stream may conclude from StreamContract alone, and     *)
(* so of every backend that implements it: what the lifecycle tests count  *)
(* after pause and after close (the stream_lifecycle_test.mbt of each).    *)
(***************************************************************************)
EXTENDS StreamContract, Naturals, TLAPS

VARIABLE late   \* data callbacks begun since the stream last played

DataBegins == busy # "data" /\ busy' = "data"

(* late is a history: it follows the contract's steps and hinders none.    *)
Counting == late' = IF mode' = "playing" THEN 0
                    ELSE IF DataBegins THEN late + 1 ELSE late
Counted == late = 0 /\ [][Counting]_<<cvars, late>>

-----------------------------------------------------------------------------
ContractTypes == /\ mode \in {"idle", "playing", "closing", "closed"}
                 /\ round \in {"none", "due", "served"}
                 /\ busy \in {"none", "data", "error"}

(* A closed stream has neither a round nor a callback under way. *)
ClosedAtRest == mode = "closed" => round = "none" /\ busy = "none"

CInv == ContractTypes /\ ClosedAtRest

(* A backend that empties a queue in one round keeps this much of CSpec.   *)
Draining == CInit /\ [][CNext \/ GoOn]_cvars

LEMMA OneByOne == CSpec => Draining
<1>1. [CNext]_cvars => [CNext \/ GoOn]_cvars OBVIOUS
<1>2. QED BY <1>1, PTL DEF CSpec, Draining

LEMMA StepKeepsCInv == CInv /\ [CNext \/ GoOn]_cvars => CInv'
<1> USE DEF CInv, ContractTypes, ClosedAtRest
<1>1. CInv /\ (Play \/ Pause \/ Close \/ Closed \/ OpenRound) => CInv'
  BY DEF Play, Pause, Close, Closed, OpenRound
<1>2. CInv /\ (Data \/ Error \/ Return \/ CloseRound \/ GoOn) => CInv'
  BY DEF Data, Error, Return, CloseRound, GoOn
<1>3. CInv /\ UNCHANGED cvars => CInv' BY DEF cvars
<1>4. QED BY <1>1, <1>2, <1>3 DEF CNext

LEMMA ContractInductive == Draining => []CInv
<1>1. CInit => CInv BY DEF CInit, CInv, ContractTypes, ClosedAtRest
<1>2. QED BY <1>1, StepKeepsCInv, PTL DEF Draining

-----------------------------------------------------------------------------
(* Once close has begun the stream never plays again, and once it has      *)
(* returned nothing happens any more: no callback, no round, no mode.      *)
CloseIsFinal == [][/\ mode = "closing" => mode' \in {"closing", "closed"}
                   /\ mode = "closed" => UNCHANGED cvars]_cvars

(* A close that returned is the end of everything the user can see, even   *)
(* of a backend that empties queues: no data callback and no error         *)
(* callback comes after it.                                                *)
THEOREM ClosedForGood == Draining => CloseIsFinal
<1> DEFINE Final == /\ mode = "closing" => mode' \in {"closing", "closed"}
                    /\ mode = "closed" => UNCHANGED cvars
<1>1. CInv /\ [CNext \/ GoOn]_cvars => [Final]_cvars
  <2> SUFFICES ASSUME CInv, CNext \/ GoOn PROVE Final
    OBVIOUS
  <2> USE DEF CInv, ContractTypes, ClosedAtRest, cvars
  <2>1. CASE Play \/ Pause \/ Close \/ Closed \/ OpenRound
    BY <2>1 DEF Play, Pause, Close, Closed, OpenRound
  <2>2. CASE Data \/ Error \/ Return \/ CloseRound \/ GoOn
    BY <2>2 DEF Data, Error, Return, CloseRound, GoOn
  <2>3. QED BY <2>1, <2>2 DEF CNext
<1>2. QED BY <1>1, ContractInductive, PTL DEF Draining, CloseIsFinal

-----------------------------------------------------------------------------
(* A round that is due when the stream stops playing is the one callback   *)
(* the user still owes an answer; there is no other, for a round opens     *)
(* only while the stream plays.                                            *)
Owed == IF round = "due" THEN 1 ELSE 0
Budget == /\ late \in Nat
          /\ mode = "playing" => late = 0
          /\ mode # "playing" => late + Owed <= 1

LEMMA StepKeepsBudget == CInv /\ Budget /\ CNext /\ Counting => Budget'
<1> SUFFICES ASSUME CInv, Budget, CNext, Counting PROVE Budget'
  OBVIOUS
<1> USE DEF CInv, ContractTypes, ClosedAtRest, Budget, Owed, Counting, DataBegins
<1>1. CASE Play BY <1>1 DEF Play
<1>2. CASE Pause BY <1>2 DEF Pause
<1>3. CASE Close BY <1>3 DEF Close
<1>4. CASE Closed BY <1>4 DEF Closed
<1>5. CASE OpenRound BY <1>5 DEF OpenRound
<1>6. CASE Data BY <1>6 DEF Data
<1>7. CASE Error BY <1>7 DEF Error
<1>8. CASE Return BY <1>8 DEF Return
<1>9. CASE CloseRound BY <1>9 DEF CloseRound
<1>10. QED BY <1>1, <1>2, <1>3, <1>4, <1>5, <1>6, <1>7, <1>8, <1>9 DEF CNext

(* A pause, a close or a stream that gives itself up lets at most one more *)
(* data callback begin, however many owner calls, errors and rounds come   *)
(* before the next play.                                                   *)
THEOREM OneLateCallback == CSpec /\ Counted => [](late <= 1)
<1>1. CInit /\ late = 0 => Budget BY DEF CInit, Budget, Owed
<1>2. CInv /\ Budget /\ [CNext]_cvars /\ [Counting]_<<cvars, late>> => Budget'
  <2> SUFFICES ASSUME CInv, Budget, [CNext]_cvars, [Counting]_<<cvars, late>> PROVE Budget'
    OBVIOUS
  <2>1. CASE UNCHANGED <<cvars, late>> BY <2>1 DEF Budget, Owed, cvars
  <2>2. CASE CNext /\ Counting BY <2>2, StepKeepsBudget
  <2>3. CASE UNCHANGED cvars /\ Counting
    BY <2>3 DEF Budget, Owed, Counting, DataBegins, cvars
  <2>4. QED BY <2>1, <2>2, <2>3 DEF cvars
<1>3. Budget => late <= 1 BY DEF Budget, Owed
<1>4. QED BY <1>1, <1>2, <1>3, ContractInductive, OneByOne, PTL DEF CSpec, Counted
=============================================================================
