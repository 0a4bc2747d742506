-------------------------- MODULE JackRingsProofs ---------------------------
(***************************************************************************)
(* Theorems about JackRings, for every number of channels, every period    *)
(* and rings of any capacity that holds a period.                          *)
(***************************************************************************)
EXTENDS JackRings, TLAPS

-----------------------------------------------------------------------------
(* Type correctness, and what the worker's look at the rings guarantees.   *)

(* What the worker may move of channel c: frames held, or room for frames. *)
Avail(c) == IF is_input THEN level[c] ELSE Capacity - level[c]

(* What it has still to move of channel c in the round it is in. *)
Left(c) == IF worker = "move" THEN Period - f - (IF c < ch THEN 1 ELSE 0)
           ELSE IF worker = "data" /\ ~is_input THEN Period ELSE 0

(* A ring that was looked at keeps what the round needs: the process       *)
(* callback only ever adds to it.                                          *)
Enough == \A c \in Ch : /\ Avail(c) >= Left(c)
                        /\ worker = "check" /\ c < ch => Avail(c) >= Period

RoundStart == worker # "move" => f = 0 /\ (worker = "data" => ch = 0)

RInv == TypeOK /\ RoundStart /\ Enough

LEMMA DirectionKept == Next => is_input' = is_input
BY DEF Next, Process, ProcessStart, ProcessChannel, Worker, Check, Data, Move

LEMMA ProcessKeepsRInv == RInv /\ Process => RInv'
<1> SUFFICES ASSUME RInv, Process PROVE RInv'
  OBVIOUS
<1>k. is_input' = is_input BY DirectionKept DEF Next
<1> USE <1>k
<1> USE RingAssumption DEF RInv, TypeOK, RoundStart, Ch
<1>1. CASE ProcessStart
  <2>1. TypeOK' /\ RoundStart' BY <1>1 DEF ProcessStart
  <2>2. Enough' BY <1>1 DEF ProcessStart, Enough, Avail, Left
  <2>3. QED BY <2>1, <2>2
<1>2. CASE ProcessChannel
  <2>1. process \in Ch /\ level[process] \in 0..Capacity
    BY <1>2 DEF ProcessChannel
  <2>2. PICK x \in 0..Capacity :
          /\ level' = [level EXCEPT ![process] = x]
          /\ IF is_input THEN x >= level[process] ELSE x <= level[process]
    <3>1. CASE is_input BY <1>2, <2>1, <3>1 DEF ProcessChannel, Capture
    <3>2. CASE ~is_input BY <1>2, <2>1, <3>2 DEF ProcessChannel, Render
    <3>3. QED BY <3>1, <3>2
  <2>3. short' \in BOOLEAN BY <1>2 DEF ProcessChannel, Capture, Render
  <2>4. TypeOK' BY <1>2, <2>1, <2>2, <2>3 DEF ProcessChannel
  <2>5. RoundStart' BY <1>2 DEF ProcessChannel
  <2>6. \A c \in Ch : Avail(c)' >= Avail(c) BY <2>1, <2>2 DEF Avail
  <2>7. \A c \in Ch : Left(c)' = Left(c) BY <1>2 DEF ProcessChannel, Left
  <2>8. \A c \in Ch : Avail(c) \in Int /\ Avail(c)' \in Int /\ Left(c) \in Int
    BY <2>4 DEF Avail, Left
  <2>9. Enough' BY SMTT(30), <1>2, <2>6, <2>7, <2>8 DEF Enough, ProcessChannel
  <2>10. QED BY <2>4, <2>5, <2>9
<1>3. QED BY <1>1, <1>2 DEF Process

(* A sample is moved by exactly one frame of its own channel. *)
LEMMA MoveExact ==
  ASSUME RInv, Move
  PROVE  /\ IF is_input THEN level[ch] > 0 ELSE level[ch] < Capacity
         /\ level' = [level EXCEPT ![ch] = IF is_input THEN @ - 1 ELSE @ + 1]
         /\ level' \in [Ch -> 0..Capacity]
<1> USE RingAssumption DEF RInv, TypeOK, Ch
<1>1. IF is_input THEN level[ch] > 0 ELSE level[ch] < Capacity
  BY DEF Move, Enough, Avail, Left
<1>2. level' = [level EXCEPT ![ch] = IF is_input THEN @ - 1 ELSE @ + 1]
  BY <1>1 DEF Move, MoveSample
<1>3. (IF is_input THEN level[ch] - 1 ELSE level[ch] + 1) \in 0..Capacity
  BY <1>1
<1>4. level' \in [Ch -> 0..Capacity] BY <1>2, <1>3
<1>5. QED BY <1>1, <1>2, <1>4

LEMMA Wraps ==
  ASSUME NEW n \in Nat \ {0}, NEW k \in 0..n - 1
  PROVE  (k + 1) % n = IF k = n - 1 THEN 0 ELSE k + 1
<1>1. CASE k = n - 1 BY <1>1
<1>2. CASE k < n - 1 BY <1>2
<1>3. QED BY <1>1, <1>2

(* The order in which Move visits the samples. *)
LEMMA MoveOrder ==
  ASSUME RInv, Move
  PROVE  \/ /\ ch < Channels - 1
            /\ ch' = ch + 1 /\ f' = f /\ worker' = "move"
         \/ /\ ch = Channels - 1 /\ f < Period - 1
            /\ ch' = 0 /\ f' = f + 1 /\ worker' = "move"
         \/ /\ ch = Channels - 1 /\ f = Period - 1
            /\ ch' = 0 /\ f' = 0 /\ worker' = IF is_input THEN "data" ELSE "check"
<1> USE RingAssumption DEF RInv, TypeOK, Ch
<1>1. (ch + 1) % Channels = IF ch = Channels - 1 THEN 0 ELSE ch + 1 BY Wraps
<1>2. (f + 1) % Period = IF f = Period - 1 THEN 0 ELSE f + 1 BY Wraps
<1>3. QED BY <1>1, <1>2 DEF Move

(* Move takes one frame off what is left of its channel. *)
LEMMA LeftAfterMove ==
  ASSUME RInv, Move
  PROVE  \A c \in Ch : Left(c)' = IF c = ch THEN Left(c) - 1 ELSE Left(c)
<1> USE RingAssumption DEF RInv, TypeOK, Ch
<1>k. is_input' = is_input BY DirectionKept DEF Next, Worker
<1> USE <1>k
<1>1. worker = "move" BY DEF Move
<1>2. CASE worker' = "move" /\ ch' = ch + 1 /\ f' = f BY <1>1, <1>2 DEF Left
<1>3. CASE worker' = "move" /\ ch = Channels - 1 /\ f' = f + 1 /\ ch' = 0
  BY <1>1, <1>3 DEF Left
<1>4. CASE worker' = (IF is_input THEN "data" ELSE "check") /\ ch = Channels - 1 /\ f = Period - 1
  BY <1>1, <1>4 DEF Left
<1>5. QED BY <1>2, <1>3, <1>4, MoveOrder

LEMMA WorkerKeepsRInv == RInv /\ Worker => RInv'
<1> SUFFICES ASSUME RInv, Worker PROVE RInv'
  OBVIOUS
<1>k. is_input' = is_input BY DirectionKept DEF Next
<1> USE <1>k
<1> USE RingAssumption DEF RInv, TypeOK, RoundStart, Ch
<1>1. CASE Check
  <2>1. TypeOK' /\ RoundStart' BY <1>1 DEF Check
  <2>2. \A c \in Ch : Avail(c)' = Avail(c) /\ Avail(c) \in Nat
    BY <1>1 DEF Check, Avail
  <2>3. Ready(ch) => Avail(ch) >= Period BY DEF Ready, Avail
  <2>4. \A c \in Ch : c < ch => Avail(c) >= Period BY <1>1 DEF Check, Enough
  <2>5. CASE worker' = "check"
    <3>1. \A c \in Ch : c < ch' => Avail(c) >= Period
      BY <1>1, <2>3, <2>4, <2>5 DEF Check
    <3>2. QED BY <1>1, <2>1, <2>2, <2>5, <3>1 DEF Enough, Left
  <2>6. CASE worker' # "check"
    <3>1. \A c \in Ch : Avail(c) >= Period BY <1>1, <2>3, <2>4, <2>6 DEF Check
    <3>2. \A c \in Ch : Left(c)' <= Period BY <1>1, <2>6 DEF Check, Left
    <3>3. \A c \in Ch : Left(c)' \in Int BY <1>1, <2>1, <2>6 DEF Left
    <3>4. Enough' BY <2>2, <2>6, <3>1, <3>2, <3>3 DEF Enough
    <3>5. QED BY <2>1, <3>4
  <2>7. QED BY <2>5, <2>6
<1>2. CASE Data
  <2>1. TypeOK' /\ RoundStart' BY <1>2 DEF Data
  <2>2. Enough' BY <1>2, <2>1 DEF Data, Enough, Avail, Left
  <2>3. QED BY <2>1, <2>2
<1>3. CASE Move
  <2>1. TypeOK' /\ RoundStart'
    <3>1. level' \in [Ch -> 0..Capacity] BY <1>3, MoveExact
    <3>2. /\ f' \in 0..Period - 1 /\ ch' \in Ch
          /\ worker' \in {"check", "data", "move"}
          /\ RoundStart'
      BY <1>3, MoveOrder
    <3>3. process' = process /\ short' = short BY <1>3 DEF Move
    <3>4. QED BY <3>1, <3>2, <3>3
  <2>2. CASE worker' = "move"
    <3>1. \A c \in Ch : Left(c)' = IF c = ch THEN Left(c) - 1 ELSE Left(c)
      BY <1>3, LeftAfterMove
    <3>2. \A c \in Ch : Avail(c)' = IF c = ch THEN Avail(c) - 1 ELSE Avail(c)
      BY SMTT(30), <1>3, MoveExact DEF Avail
    <3>3. \A c \in Ch : Avail(c) \in Int /\ Left(c) \in Int BY DEF Avail, Left
    <3>4. \A c \in Ch : Avail(c)' >= Left(c)'
      <4>1. \A c \in Ch : Avail(c) >= Left(c) BY DEF Enough
      <4>2. QED BY SMTT(30), <3>1, <3>2, <3>3, <4>1
    <3>5. Enough' BY <2>2, <3>4 DEF Enough
    <3>6. QED BY <2>1, <3>5
  <2>3. CASE worker' # "move"
    <3>1. ch' = 0 /\ worker' = IF is_input THEN "data" ELSE "check"
      BY <1>3, <2>3, MoveOrder
    <3>2. \A c \in Ch : Left(c)' = 0 BY <3>1 DEF Left
    <3>3. \A c \in Ch : Avail(c)' >= 0 BY <2>1 DEF Avail
    <3>4. Enough' BY <3>1, <3>2, <3>3 DEF Enough
    <3>5. QED BY <2>1, <3>4
  <2>4. QED BY <2>1, <2>2, <2>3
<1>4. QED BY <1>1, <1>2, <1>3 DEF Worker

LEMMA InitRInv == Init => RInv
<1>1. 0 \in Ch /\ 0 \in 0..Period - 1 /\ 0 \in 0..Capacity /\ Channels \in 0..Channels
  BY RingAssumption DEF Ch
<1>2. Init => TypeOK /\ RoundStart BY <1>1 DEF Init, TypeOK, RoundStart
<1>3. Init => Enough BY RingAssumption DEF Init, Enough, Avail, Left, Ch
<1>4. QED BY <1>2, <1>3 DEF RInv

LEMMA RingsInductive == Spec => []RInv
<1>1. RInv /\ [Next]_vars => RInv'
  <2>1. RInv /\ Next => RInv' BY ProcessKeepsRInv, WorkerKeepsRInv DEF Next
  <2>2. RInv /\ UNCHANGED vars => RInv'
    BY DEF RInv, TypeOK, RoundStart, Enough, Avail, Left, vars
  <2>3. QED BY <2>1, <2>2
<1>2. QED BY <1>1, InitRInv, PTL DEF Spec

(* No ring is ever over- or underfilled. *)
THEOREM TypeCorrect == Spec => []TypeOK
<1>1. RInv => TypeOK BY DEF RInv
<1>2. QED BY <1>1, RingsInductive, PTL

(* The one look at the rings covers the whole round: the worker drops no   *)
(* sample and makes none up, though the rings change under it.             *)
THEOREM EverySampleMoves == Spec => []NoSampleLost
<1>1. RInv => NoSampleLost
  BY RingAssumption DEF RInv, TypeOK, Ch, Enough, Avail, Left, NoSampleLost
<1>2. QED BY <1>1, RingsInductive, PTL

-----------------------------------------------------------------------------
(* How far the channels can drift apart.                                   *)

(* Frames of channel c that are in its ring once the round under way is    *)
(* over.  The worker moves all channels alike, so only the process         *)
(* callback changes how two channels compare.                              *)
T(c) == IF is_input THEN level[c] - Left(c) ELSE level[c] + Left(c)

(* The process callback has served c in this period, and not yet d. *)
Mixed(c, d) == c < process /\ process <= d

(* A capture channel takes whole periods: two that differ by one when a    *)
(* period begins cannot be driven further apart, because the fuller one    *)
(* overflows first.  A playback channel that underflows is emptied, which  *)
(* brings it closer to the others.                                         *)
Skewed(c, d) ==
  /\ is_input /\ Mixed(c, d) =>
       /\ T(c) - T(d) = 0 \/ T(c) - T(d) = Period \/ T(c) - T(d) = 2 * Period
       /\ T(c) - T(d) = 2 * Period => Capacity - level[d] >= Period
  /\ is_input /\ ~Mixed(c, d) =>
       T(c) - T(d) = -Period \/ T(c) - T(d) = 0 \/ T(c) - T(d) = Period
  /\ ~is_input /\ Mixed(c, d) => T(c) - T(d) <= 0 /\ T(d) - T(c) <= 2 * Period
  /\ ~is_input /\ ~Mixed(c, d) => T(c) - T(d) <= Period /\ T(d) - T(c) <= Period

Skew == \A c, d \in Ch : c < d => Skewed(c, d)

(* While no call came short, a channel is ahead only by the period it has  *)
(* been served before the other.                                           *)
Ahead(c, d) == IF ~Mixed(c, d) THEN 0 ELSE IF is_input THEN Period ELSE -Period
Even == ~short => \A c, d \in Ch : c < d => T(c) - T(d) = Ahead(c, d)

DInv == RInv /\ Skew /\ Even

LEMMA Lag ==
  ASSUME RInv
  PROVE  /\ \A c \in Ch : Left(c) \in 0..Period /\ level[c] \in 0..Capacity /\ T(c) \in Int
         /\ \A c, d \in Ch : c < d => Left(c) <= Left(d) /\ Left(d) <= Left(c) + 1
<1> USE RingAssumption DEF RInv, TypeOK, Ch
<1>1. \A c \in Ch : Left(c) \in 0..Period BY DEF Left
<1>2. \A c \in Ch : level[c] \in 0..Capacity OBVIOUS
<1>3. \A c \in Ch : T(c) \in Int BY <1>1, <1>2 DEF T
<1>4. \A c, d \in Ch : c < d => Left(c) <= Left(d) /\ Left(d) <= Left(c) + 1
  BY DEF Left
<1>5. QED BY <1>1, <1>2, <1>3, <1>4

(* The worker changes every channel's T by the same amount. *)
LEMMA WorkerShiftsAll ==
  ASSUME RInv, Worker
  PROVE  /\ process' = process /\ short' = short
         /\ \A c, d \in Ch : T(c)' - T(d)' = T(c) - T(d)
         /\ is_input => \A c \in Ch : level'[c] <= level[c]
<1> USE RingAssumption DEF RInv, TypeOK, RoundStart, Ch
<1>k. is_input' = is_input BY DirectionKept DEF Next
<1> USE <1>k
<1>0. process' = process /\ short' = short BY DEF Worker, Check, Data, Move
<1>1. \A c \in Ch : T(c) \in Int /\ Left(c) \in Int /\ level[c] \in Int BY Lag
<1>2. CASE Check
  <2>1. level' = level /\ f' = 0 BY <1>2 DEF Check
  <2>2. CASE worker' = "check"
    <3>1. \A c \in Ch : T(c)' = T(c) BY <1>2, <2>1, <2>2 DEF Check, T, Left
    <3>2. QED BY <1>0, <1>1, <2>1, <3>1
  <2>3. CASE worker' # "check"
    <3>1. \A c \in Ch : T(c)' = T(c) + (IF is_input THEN -Period ELSE Period)
      BY <1>2, <2>1, <2>3 DEF Check, T, Left
    <3>2. \A c, d \in Ch : T(c)' - T(d)' = T(c) - T(d)
      <4>1. SUFFICES ASSUME NEW c \in Ch, NEW d \in Ch PROVE T(c)' - T(d)' = T(c) - T(d)
        OBVIOUS
      <4>2. T(c) \in Int /\ T(d) \in Int BY <1>1
      <4>3. CASE is_input
        <5>1. T(c)' = T(c) - Period /\ T(d)' = T(d) - Period BY <3>1, <4>2, <4>3
        <5>2. QED BY <4>2, <5>1
      <4>4. CASE ~is_input
        <5>1. T(c)' = T(c) + Period /\ T(d)' = T(d) + Period BY <3>1, <4>2, <4>4
        <5>2. QED BY <4>2, <5>1
      <4>5. QED BY <4>3, <4>4
    <3>3. QED BY <1>0, <1>1, <2>1, <3>2
  <2>4. QED BY <2>2, <2>3
<1>3. CASE Data
  <2>1. level' = level /\ f = 0 /\ ch = 0 /\ f' = 0 /\ ch' = 0 BY <1>3 DEF Data
  <2>2. \A c \in Ch : Left(c)' = Left(c) BY <1>3, <2>1 DEF Data, Left
  <2>3. \A c \in Ch : T(c)' = T(c) BY <2>1, <2>2 DEF T
  <2>4. QED BY <1>0, <1>1, <2>1, <2>3
<1>4. CASE Move
  <2>1. \A c \in Ch : level'[c] = IF c # ch THEN level[c]
                                 ELSE IF is_input THEN level[c] - 1 ELSE level[c] + 1
    BY <1>4, MoveExact
  <2>2. \A c \in Ch : Left(c)' = IF c # ch THEN Left(c) ELSE Left(c) - 1
    BY <1>4, LeftAfterMove
  <2>3. \A c \in Ch : T(c)' = T(c)
    <3>1. SUFFICES ASSUME NEW c \in Ch PROVE T(c)' = T(c)
      OBVIOUS
    <3>2. CASE c = ch
      <4>1. T(c)' = IF is_input THEN (level[c] - 1) - (Left(c) - 1) ELSE (level[c] + 1) + (Left(c) - 1)
        BY <2>1, <2>2, <3>2 DEF T
      <4>2. QED BY SMTT(30), <1>1, <4>1 DEF T
    <3>3. CASE c # ch BY <2>1, <2>2, <3>3 DEF T
    <3>4. QED BY <3>2, <3>3
  <2>4. ASSUME is_input, NEW c \in Ch PROVE level'[c] <= level[c]
    <3>1. level[c] \in Int BY <1>1
    <3>2. CASE c = ch BY <2>1, <2>4, <3>1, <3>2
    <3>3. CASE c # ch BY <2>1, <3>1, <3>3
    <3>4. QED BY <3>2, <3>3
  <2>5. QED BY <1>0, <2>3, <2>4
<1>5. QED BY <1>2, <1>3, <1>4 DEF Worker

LEMMA WorkerKeepsDInv == DInv /\ Worker => DInv'
<1> SUFFICES ASSUME DInv, Worker PROVE Skew' /\ Even'
  BY WorkerKeepsRInv DEF DInv
<1>k. is_input' = is_input BY DirectionKept DEF Next
<1> USE <1>k
<1>1. \A c, d \in Ch : T(c)' - T(d)' = T(c) - T(d) BY WorkerShiftsAll DEF DInv
<1>2. \A c, d \in Ch : Mixed(c, d)' <=> Mixed(c, d) BY WorkerShiftsAll DEF DInv, Mixed
<1>3. \A d \in Ch : is_input /\ Capacity - level[d] >= Period => Capacity - level'[d] >= Period
  <2>1. \A d \in Ch : level[d] \in Int BY Lag DEF DInv
  <2>2. \A d \in Ch : level'[d] \in Int BY Lag, WorkerKeepsRInv DEF DInv, RInv, TypeOK
  <2>3. QED BY <2>1, <2>2, WorkerShiftsAll, RingAssumption DEF DInv
<1>4. Skew' BY <1>1, <1>2, <1>3 DEF DInv, Skew, Skewed
<1>5. Even' BY <1>1, <1>2, WorkerShiftsAll DEF DInv, Even, Ahead
<1>6. QED BY <1>4, <1>5

(* What a process call does to the channel it serves, and to no other. *)
LEMMA ProcessShare ==
  ASSUME RInv, ProcessChannel, NEW c \in Ch
  PROVE  /\ process \in Ch /\ process' = process + 1
         /\ c # process => T(c)' = T(c) /\ level'[c] = level[c]
         /\ c = process /\ is_input =>
              \/ Capacity - level[c] >= Period /\ T(c)' = T(c) + Period /\ short' = short
              \/ Capacity - level[c] < Period /\ T(c)' = T(c) /\ short'
         /\ c = process /\ ~is_input =>
              \/ level[c] >= Period /\ T(c)' = T(c) - Period /\ short' = short
              \/ level[c] < Period /\ T(c)' = T(c) - level[c] /\ short'
<1> USE RingAssumption DEF RInv, TypeOK, Ch
<1>k. is_input' = is_input BY DirectionKept DEF Next, Process
<1> USE <1>k
<1>1. process \in Ch /\ process' = process + 1 BY DEF ProcessChannel
<1>2. Left(c)' = Left(c) BY DEF ProcessChannel, Left
<1>3. Left(c) \in Int /\ level[c] \in Int BY Lag
<1>4. CASE c # process
  <2>1. level'[c] = level[c] BY <1>1, <1>4 DEF ProcessChannel, Capture, Render
  <2>2. QED BY <1>1, <1>2, <1>4, <2>1 DEF T
<1>5. CASE c = process /\ is_input
  <2>1. \/ Capacity - level[c] >= Period /\ level'[c] = level[c] + Period /\ short' = short
        \/ Capacity - level[c] < Period /\ level'[c] = level[c] /\ short'
    BY <1>1, <1>5 DEF ProcessChannel, Capture
  <2>2. QED BY <1>1, <1>2, <1>3, <1>5, <2>1 DEF T
<1>6. CASE c = process /\ ~is_input
  <2>1. \/ level[c] >= Period /\ level'[c] = level[c] - Period /\ short' = short
        \/ level[c] < Period /\ level'[c] = 0 /\ short'
    BY <1>1, <1>6 DEF ProcessChannel, Render
  <2>2. QED BY <1>1, <1>2, <1>3, <1>6, <2>1 DEF T
<1>7. QED BY <1>4, <1>5, <1>6

LEMMA ProcessKeepsDInv == DInv /\ Process => DInv'
<1> SUFFICES ASSUME DInv, Process PROVE Skew' /\ Even'
  BY ProcessKeepsRInv DEF DInv
<1>k. is_input' = is_input BY DirectionKept DEF Next
<1> USE <1>k
<1> USE RingAssumption DEF DInv
<1>1. CASE ProcessStart
  <2>1. \A c, d \in Ch : ~Mixed(c, d) /\ ~Mixed(c, d)'
    BY <1>1 DEF ProcessStart, Mixed, Ch
  <2>2. \A c \in Ch : T(c)' = T(c) BY <1>1 DEF ProcessStart, T, Left
  <2>3. short' = short BY <1>1 DEF ProcessStart
  <2>4. Skew' BY <2>1, <2>2 DEF Skew, Skewed
  <2>5. Even' BY <2>1, <2>2, <2>3 DEF Even, Ahead
  <2>6. QED BY <2>4, <2>5
<1>2. CASE ProcessChannel
  <2>1. SUFFICES ASSUME NEW c \in Ch, NEW d \in Ch, c < d
                 PROVE  Skewed(c, d)' /\ (~short' => T(c)' - T(d)' = Ahead(c, d)')
    BY DEF Skew, Even
  <2>2. c \in Int /\ d \in Int /\ process \in Int /\ process' = process + 1
    BY <1>2, ProcessShare DEF Ch
  <2>3. /\ Left(c) \in 0..Period /\ level[c] \in 0..Capacity /\ T(c) \in Int
        /\ Left(d) \in 0..Period /\ level[d] \in 0..Capacity /\ T(d) \in Int
        /\ Left(c) <= Left(d) /\ Left(d) <= Left(c) + 1
    BY <2>1, Lag
  <2>4. Skewed(c, d) /\ (~short => T(c) - T(d) = Ahead(c, d)) BY <2>1 DEF Skew, Even
  <2>5. short => short' BY <1>2, ProcessShare, <2>1
  <2>6. CASE c # process /\ d # process
    <3>1. Mixed(c, d)' <=> Mixed(c, d) BY <2>2, <2>6 DEF Mixed
    <3>2. T(c)' = T(c) /\ T(d)' = T(d) /\ level'[d] = level[d] BY <1>2, <2>6, ProcessShare
    <3>3. QED BY <2>4, <2>5, <3>1, <3>2 DEF Skewed, Ahead
  <2>7. CASE c = process
    <3>1. ~Mixed(c, d) /\ Mixed(c, d)' BY <2>1, <2>2, <2>7 DEF Mixed
    <3>2. T(d)' = T(d) /\ level'[d] = level[d] BY <1>2, <2>1, <2>2, <2>7, ProcessShare
    <3>3. CASE is_input
      <4>1. \/ Capacity - level[c] >= Period /\ T(c)' = T(c) + Period /\ short' = short
            \/ Capacity - level[c] < Period /\ T(c)' = T(c) /\ short'
        BY <1>2, <2>7, <3>3, ProcessShare
      <4>2. T(c) = level[c] - Left(c) /\ T(d) = level[d] - Left(d) BY <3>3 DEF T
      <4>3. Skewed(c, d)'
        <5>1. T(c) - T(d) = -Period \/ T(c) - T(d) = 0 \/ T(c) - T(d) = Period
          BY <2>4, <3>1, <3>3 DEF Skewed
        <5>2. CASE Capacity - level[c] >= Period /\ T(c)' = T(c) + Period
          <6>1. T(c) - T(d) = Period => Capacity - level[d] >= Period
            BY <2>3, <4>2, <5>2
          <6>2. QED BY <2>3, <3>1, <3>2, <3>3, <5>1, <5>2, <6>1 DEF Skewed
        <5>3. CASE Capacity - level[c] < Period /\ T(c)' = T(c)
          <6>1. T(c) - T(d) # -Period BY <2>3, <4>2, <5>3
          <6>2. QED BY <2>3, <3>1, <3>2, <3>3, <5>1, <5>3, <6>1 DEF Skewed
        <5>4. QED BY <4>1, <5>2, <5>3
      <4>4. ~short' => T(c)' - T(d)' = Ahead(c, d)'
        BY <2>3, <2>4, <2>5, <3>1, <3>2, <3>3, <4>1 DEF Ahead
      <4>5. QED BY <4>3, <4>4
    <3>4. CASE ~is_input
      <4>1. \/ level[c] >= Period /\ T(c)' = T(c) - Period /\ short' = short
            \/ level[c] < Period /\ T(c)' = T(c) - level[c] /\ short'
        BY <1>2, <2>7, <3>4, ProcessShare
      <4>2. T(c) = level[c] + Left(c) /\ T(d) = level[d] + Left(d) BY <3>4 DEF T
      <4>3. Skewed(c, d)' BY <2>3, <2>4, <3>1, <3>2, <3>4, <4>1, <4>2 DEF Skewed
      <4>4. ~short' => T(c)' - T(d)' = Ahead(c, d)'
        BY <2>3, <2>4, <2>5, <3>1, <3>2, <3>4, <4>1 DEF Ahead
      <4>5. QED BY <4>3, <4>4
    <3>5. QED BY <3>3, <3>4
  <2>8. CASE d = process
    <3>1. Mixed(c, d) /\ ~Mixed(c, d)' BY <2>1, <2>2, <2>8 DEF Mixed
    <3>2. T(c)' = T(c) BY <1>2, <2>1, <2>2, <2>8, ProcessShare
    <3>3. CASE is_input
      <4>1. \/ Capacity - level[d] >= Period /\ T(d)' = T(d) + Period /\ short' = short
            \/ Capacity - level[d] < Period /\ T(d)' = T(d) /\ short'
        BY <1>2, <2>8, <3>3, ProcessShare
      <4>2. Skewed(c, d)' BY <2>3, <2>4, <3>1, <3>2, <3>3, <4>1 DEF Skewed
      <4>3. ~short' => T(c)' - T(d)' = Ahead(c, d)'
        BY <2>3, <2>4, <2>5, <3>1, <3>2, <3>3, <4>1 DEF Ahead
      <4>4. QED BY <4>2, <4>3
    <3>4. CASE ~is_input
      <4>1. \/ level[d] >= Period /\ T(d)' = T(d) - Period /\ short' = short
            \/ level[d] < Period /\ T(d)' = T(d) - level[d] /\ short'
        BY <1>2, <2>8, <3>4, ProcessShare
      <4>2. T(c) = level[c] + Left(c) /\ T(d) = level[d] + Left(d) BY <3>4 DEF T
      <4>3. Skewed(c, d)' BY <2>3, <2>4, <3>1, <3>2, <3>4, <4>1, <4>2 DEF Skewed
      <4>4. ~short' => T(c)' - T(d)' = Ahead(c, d)'
        BY <2>3, <2>4, <2>5, <3>1, <3>2, <3>4, <4>1 DEF Ahead
      <4>5. QED BY <4>3, <4>4
    <3>5. QED BY <3>3, <3>4
  <2>9. QED BY <2>6, <2>7, <2>8
<1>3. QED BY <1>1, <1>2 DEF Process

LEMMA SkewInductive == Spec => []DInv
<1>1. Init => DInv
  <2>1. Init => RInv BY InitRInv
  <2>2. Init => \A c \in Ch : T(c) = 0 BY DEF Init, T, Left
  <2>3. Init => \A c, d \in Ch : ~Mixed(c, d) BY RingAssumption DEF Init, Mixed, Ch
  <2>4. Init => Skew /\ Even BY <2>2, <2>3, RingAssumption DEF Skew, Skewed, Even, Ahead
  <2>5. QED BY <2>1, <2>4 DEF DInv
<1>2. DInv /\ [Next]_vars => DInv'
  <2>1. DInv /\ Next => DInv' BY ProcessKeepsDInv, WorkerKeepsDInv DEF Next
  <2>2. DInv /\ UNCHANGED vars => DInv'
    <3>1. SUFFICES ASSUME DInv, UNCHANGED vars PROVE DInv'
      OBVIOUS
    <3>2. RInv' BY <3>1 DEF DInv, RInv, TypeOK, RoundStart, Enough, Avail, Left, vars
    <3>3. Skew' BY <3>1 DEF DInv, Skew, Skewed, T, Left, Mixed, vars
    <3>4. Even' BY <3>1 DEF DInv, Even, Ahead, T, Left, Mixed, vars
    <3>5. QED BY <3>2, <3>3, <3>4 DEF DInv
  <2>3. QED BY <2>1, <2>2
<1>3. QED BY <1>1, <1>2, PTL DEF Spec

(* Between periods T is the level, or a period off it for every channel.   *)
LEMMA Settled ==
  ASSUME DInv, BetweenPeriods, NEW c \in Ch, NEW d \in Ch
  PROVE  /\ T(c) - T(d) = level[c] - level[d]
         /\ ~Mixed(c, d)
         /\ level[c] \in Int /\ level[d] \in Int
<1>1. Left(c) = Left(d) BY DEF BetweenPeriods, Left
<1>2. /\ Left(c) \in Int /\ level[c] \in Int
      /\ Left(d) \in Int /\ level[d] \in Int
  BY Lag DEF DInv
<1>3. T(c) - T(d) = level[c] - level[d] BY <1>1, <1>2 DEF T
<1>4. ~Mixed(c, d) BY RingAssumption DEF BetweenPeriods, Mixed, Ch
<1>5. QED BY <1>2, <1>3, <1>4

(* Overflows and underflows pull the channels apart by at most a period,   *)
(* however many there are.                                                 *)
LEMMA DriftBounded == Spec => []BoundedSkew
<1>1. DInv => BoundedSkew
  <2>1. SUFFICES ASSUME DInv, BetweenPeriods, NEW c \in Ch, NEW d \in Ch
                 PROVE  level[c] - level[d] <= Period
    BY DEF BoundedSkew
  <2>2. c \in Int /\ d \in Int BY RingAssumption DEF Ch
  <2>3. CASE c < d
    <3>1. Skewed(c, d) BY <2>1, <2>3 DEF DInv, Skew
    <3>2. QED BY <2>1, <3>1, Settled, RingAssumption DEF Skewed
  <2>4. CASE d < c
    <3>1. Skewed(d, c) BY <2>1, <2>4 DEF DInv, Skew
    <3>2. QED BY <2>1, <3>1, Settled, RingAssumption DEF Skewed
  <2>5. CASE c = d BY <2>1, <2>5, Settled, RingAssumption
  <2>6. QED BY <2>2, <2>3, <2>4, <2>5
<1>2. QED BY <1>1, SkewInductive, PTL

(* Until a process call comes short, the samples of one instant stay side  *)
(* by side in the rings.                                                   *)
LEMMA ShortFirst == Spec => []AlignedUntilShort
<1>1. DInv => AlignedUntilShort
  <2>1. SUFFICES ASSUME DInv, BetweenPeriods, ~short, NEW c \in Ch, NEW d \in Ch
                 PROVE  level[c] = level[d]
    BY DEF AlignedUntilShort, Aligned
  <2>2. c \in Int /\ d \in Int BY RingAssumption DEF Ch
  <2>3. c < d => level[c] = level[d]
    BY <2>1, Settled DEF DInv, Even, Ahead
  <2>4. d < c => level[c] = level[d]
    BY <2>1, Settled DEF DInv, Even, Ahead
  <2>5. QED BY <2>2, <2>3, <2>4
<1>2. QED BY <1>1, SkewInductive, PTL

(* The channels agree until a process call comes short, and are never more *)
(* than a period apart.                                                    *)
THEOREM DriftIsLimited == Spec => []DriftLimited
<1>1. AlignedUntilShort /\ BoundedSkew => DriftLimited BY DEF DriftLimited
<1>2. QED BY <1>1, ShortFirst, DriftBounded, PTL

-----------------------------------------------------------------------------
(* That the worker is not shut out: what a process call leaves it.         *)

Multiple(x) == \E k \in Nat : x = k * Period

(* Whole periods stay whole when one is added or taken. *)
LEMMA Multiples ==
  ASSUME NEW x \in Int, Multiple(x)
  PROVE  /\ Multiple(x + Period)
         /\ x >= Period => Multiple(x - Period)
         /\ x > 0 => x >= Period
<1>1. PICK k \in Nat : x = k * Period BY DEF Multiple
<1>2. Period \in Nat /\ Period > 0 BY RingAssumption
<1>3. x + Period = (k + 1) * Period BY <1>1, <1>2
<1>4. k = 0 => x = 0 BY <1>1, <1>2
<1>5. k > 0 => x - Period = (k - 1) * Period /\ k - 1 \in Nat BY <1>1, <1>2
<1>6. k > 0 => (k - 1) * Period >= 0 BY <1>2
<1>7. Multiple(x + Period) BY <1>3 DEF Multiple
<1>8. x >= Period => Multiple(x - Period) BY <1>2, <1>4, <1>5 DEF Multiple
<1>9. x > 0 => x >= Period BY <1>2, <1>4, <1>5, <1>6
<1>10. QED BY <1>7, <1>8, <1>9

(* A capture ring is filled and emptied by whole periods, seen between the *)
(* worker's rounds: a ring without room for a period holds one, even a     *)
(* ring whose size is not a multiple of the period.                        *)
Whole == is_input => \A c \in Ch : Multiple(T(c))

LEMMA WorkerKeepsWhole ==
  ASSUME RInv, Whole, Worker
  PROVE  Whole'
<1>k. is_input' = is_input BY DirectionKept DEF Next
<1> SUFFICES ASSUME is_input, NEW c \in Ch PROVE Multiple(T(c))'
  BY <1>k DEF Whole, Ch
<1> USE <1>k
<1>1. Multiple(T(c)) /\ T(c) \in Int /\ level[c] \in Int BY Lag DEF Whole
<1>2. T(c)' = T(c) \/ (T(c) >= Period /\ T(c)' = T(c) - Period)
  <2> USE RingAssumption DEF RInv, TypeOK, RoundStart, Ch
  <2>1. CASE Check /\ worker' = "check" BY <2>1 DEF Check, T, Left
  <2>2. CASE Check /\ worker' # "check"
    <3>1. ch = Channels - 1 /\ level[ch] >= Period /\ worker = "check"
      BY <2>2 DEF Check, Ready
    <3>2. level[c] >= Period BY <3>1 DEF Enough, Avail
    <3>3. Left(c) = 0 /\ T(c) = level[c] BY <3>1, <1>1 DEF T, Left
    <3>4. worker' = "move" /\ f' = 0 /\ ch' = 0 /\ level' = level BY <2>2, <3>1 DEF Check
    <3>5. T(c)' = level[c] - Period BY <3>4 DEF T, Left
    <3>6. QED BY <3>2, <3>3, <3>5
  <2>3. CASE Data BY <2>3 DEF Data, T, Left
  <2>4. CASE Move
    <3>1. level'[c] = IF c = ch THEN level[c] - 1 ELSE level[c] BY <2>4, MoveExact
    <3>2. Left(c)' = IF c = ch THEN Left(c) - 1 ELSE Left(c) BY <2>4, LeftAfterMove
    <3>3. Left(c) \in Int BY Lag
    <3>4. QED BY <1>1, <3>1, <3>2, <3>3 DEF T
  <2>5. QED BY <2>1, <2>2, <2>3, <2>4 DEF Worker
<1>3. Multiple(T(c)') BY <1>1, <1>2, Multiples
<1>4. QED BY <1>3 DEF Multiple

LEMMA ProcessKeepsWhole ==
  ASSUME RInv, Whole, Process
  PROVE  Whole'
<1>k. is_input' = is_input BY DirectionKept DEF Next
<1> SUFFICES ASSUME is_input, NEW c \in Ch PROVE Multiple(T(c))'
  BY <1>k DEF Whole, Ch
<1>1. Multiple(T(c)) /\ T(c) \in Int BY Lag DEF Whole
<1>2. T(c)' = T(c) \/ T(c)' = T(c) + Period
  <2>1. CASE ProcessStart BY <2>1 DEF ProcessStart, T, Left
  <2>2. CASE ProcessChannel BY <2>2, ProcessShare
  <2>3. QED BY <2>1, <2>2 DEF Process
<1>3. Multiple(T(c)') BY <1>1, <1>2, Multiples
<1>4. QED BY <1>3 DEF Multiple

LEMMA InitWhole == Init => Whole
<1> SUFFICES ASSUME Init, is_input, NEW c \in Ch PROVE Multiple(T(c))
  BY DEF Whole
<1>1. T(c) = 0 BY DEF Init, T, Left
<1>2. 0 = 0 * Period BY RingAssumption
<1>3. QED BY <1>1, <1>2 DEF Multiple

(* The ring that the process callback has just served is ready for the     *)
(* worker, also when the call came short, unless the worker is moving      *)
(* frames; and a ring that is ready stays so until the worker moves some.  *)
(* A worker that naps therefore waits for one process call at most.        *)
ServedIsReady ==
  [][/\ \A c \in Ch : ProcessChannel /\ process = c /\ worker # "move" => Ready(c)'
     /\ \A c \in Ch : Ready(c) /\ ~Ready(c)' => Move]_vars

(* jack_process never leaves the worker in front of rings it cannot serve: *)
(* an emptied playback ring has room for a period, and a capture ring that *)
(* refused one holds one.                                                  *)
THEOREM NeverShutOut == Spec => ServedIsReady
<1> DEFINE Served == /\ \A c \in Ch : ProcessChannel /\ process = c /\ worker # "move" => Ready(c)'
                     /\ \A c \in Ch : Ready(c) /\ ~Ready(c)' => Move
<1>1. ASSUME RInv, Whole, Next PROVE Served
  <2> USE RingAssumption
  <2>k. is_input' = is_input BY <1>1, DirectionKept
  <2>1. ASSUME NEW c \in Ch, ProcessChannel, process = c, worker # "move" PROVE Ready(c)'
    <3>1. level[c] \in 0..Capacity BY <1>1 DEF RInv, TypeOK
    <3>2. CASE ~is_input
      <4>1. level'[c] = IF level[c] >= Period THEN level[c] - Period ELSE 0
        BY <1>1, <2>1, <3>2 DEF ProcessChannel, Render, RInv, TypeOK
      <4>2. Capacity - level'[c] >= Period BY <3>1, <4>1
      <4>3. QED BY <2>k, <3>2, <4>2 DEF Ready
    <3>3. CASE is_input
      <4>1. Left(c) = 0 BY <2>1, <3>3 DEF Left
      <4>2. Multiple(level[c]) BY <1>1, <3>1, <3>3, <4>1 DEF Whole, T
      <4>3. level[c] > 0 => level[c] >= Period BY <3>1, <4>2, Multiples
      <4>4. level'[c] = IF Capacity - level[c] >= Period THEN level[c] + Period ELSE level[c]
        BY <1>1, <2>1, <3>1, <3>3 DEF ProcessChannel, Capture, RInv, TypeOK
      <4>5. level'[c] >= Period BY <3>1, <4>3, <4>4
      <4>6. QED BY <2>k, <3>3, <4>5 DEF Ready
    <3>4. QED BY <3>2, <3>3
  <2>2. ASSUME NEW c \in Ch, Ready(c), ~Move PROVE Ready(c)'
    <3>1. level[c] \in 0..Capacity BY <1>1 DEF RInv, TypeOK
    <3>2. CASE ProcessChannel
      <4>1. /\ is_input => level'[c] = level[c] \/ level'[c] = level[c] + Period
            /\ ~is_input => level'[c] \in {0, level[c], level[c] - Period}
        BY <1>1, <3>1, <3>2 DEF ProcessChannel, Capture, Render, RInv, TypeOK
      <4>2. QED BY <2>2, <2>k, <3>1, <4>1 DEF Ready
    <3>3. CASE ProcessStart \/ Check \/ Data
      BY <2>2, <2>k, <3>3 DEF ProcessStart, Check, Data, Ready
    <3>4. QED BY <1>1, <2>2, <3>2, <3>3 DEF Next, Process, Worker
  <2>3. QED BY <2>1, <2>2
<1>2. RInv /\ Whole /\ [Next]_vars => [Served]_vars BY <1>1
<1>3. RInv /\ Whole /\ [Next]_vars => Whole'
  <2>1. RInv /\ Whole /\ UNCHANGED vars => Whole' BY DEF Whole, T, Left, vars, Ch, Multiple
  <2>2. QED BY <2>1, WorkerKeepsWhole, ProcessKeepsWhole DEF Next
<1>4. QED BY <1>2, <1>3, InitWhole, RingsInductive, PTL DEF Spec, ServedIsReady
=============================================================================
