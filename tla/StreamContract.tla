--------------------------- MODULE StreamContract ---------------------------
(***************************************************************************)
(* What every stream promises its user, whatever the backend: the part of  *)
(* `Stream::play`, `pause` and `close` that the lifecycle tests rely on.   *)
(*                                                                         *)
(* A backend serves the user's callbacks in rounds.  A round that calls    *)
(* the data callback is opened only while the stream plays, and calls it   *)
(* at most once; errors may be reported in any round.  A pause stops new   *)
(* rounds and lets the one under way finish, so at most one data callback  *)
(* starts after it.  close returns after the last round, and nothing is    *)
(* called from then on.  Two callbacks never run at the same time.         *)
(***************************************************************************)

VARIABLES mode,   \* "idle", "playing", "closing" (inside close) or "closed"
          round,  \* "none", "due" (data callback to come) or "served"
          busy    \* the user callback that runs: "none", "data" or "error"

cvars == <<mode, round, busy>>

CInit == mode = "idle" /\ round = "none" /\ busy = "none"

(* play: a stream that is not being closed plays. *)
Play == mode \in {"idle", "playing"} /\ mode' = "playing" /\ UNCHANGED <<round, busy>>

(* pause; close pauses the stream first. *)
Pause == mode \in {"idle", "playing"} /\ mode' = "idle" /\ UNCHANGED <<round, busy>>

(* close begins, or the backend gives the stream up: its data callbacks    *)
(* end with the round that is under way, which may end at once, or with    *)
(* the one a playing stream is just opening.                               *)
Close == /\ mode \in {"idle", "playing"}
         /\ mode' = "closing"
         /\ \/ round' = round
            \/ busy = "none" /\ round' = "none"
            \/ mode = "playing" /\ round = "none" /\ round' = "due"
         /\ UNCHANGED busy

(* close returns. *)
Closed == /\ mode = "closing" /\ round = "none" /\ busy = "none"
          /\ mode' = "closed"
          /\ UNCHANGED <<round, busy>>

(* The backend opens a round: the only way to a data callback. *)
OpenRound == /\ mode = "playing" /\ round = "none"
             /\ round' = "due"
             /\ UNCHANGED <<mode, busy>>

Data == /\ round = "due" /\ busy = "none"
        /\ round' = "served" /\ busy' = "data"
        /\ UNCHANGED mode

(* An error needs no playing stream, and may take the place of the data.   *)
Error == /\ mode # "closed" /\ busy = "none"
         /\ busy' = "error"
         /\ round' \in IF round = "due" THEN {"due", "served"} ELSE {"served"}
         /\ UNCHANGED mode

(* A user callback returns; the round may end with it. *)
Return == /\ busy # "none" /\ busy' = "none"
          /\ round' \in {round, "none"}
          /\ UNCHANGED mode

CloseRound == /\ round # "none" /\ busy = "none"
              /\ round' = "none"
              /\ UNCHANGED <<mode, busy>>

(* Not part of CNext: a backend that empties a queue in one round goes on  *)
(* after its data callback and may call it again.                          *)
GoOn == busy = "data" /\ busy' = "none" /\ round' = "due" /\ UNCHANGED mode

CNext == Play \/ Pause \/ Close \/ Closed \/ OpenRound \/ Data \/ Error \/ Return \/ CloseRound

CSpec == CInit /\ [][CNext]_cvars
=============================================================================
