-------------------------- MODULE ConfigHeuristics --------------------------
(***************************************************************************)
(* The choice of a configuration range: the comparison of two ranges       *)
(* (core/cpal_heuristics.mbt) and the loop over the ranges of a device     *)
(* that looks for the greatest.  The loop is written four times, for the   *)
(* streams of ALSA, WASAPI and CoreAudio built without a sample format and *)
(* for the default configuration of an ALSA device.                        *)
(***************************************************************************)
EXTENDS Integers, Sequences

Formats == {"I8", "I16", "I24", "I32", "I64", "U8", "U16", "U24", "U32", "U64",
            "F32", "F64", "DsdU8", "DsdU16", "DsdU32"}

(* The buffer sizes of a range take no part in the choice. *)
Ranges == [channels : Int, min : Int, max : Int, format : Formats]

-----------------------------------------------------------------------------
CmpBool(a, b) == IF a <=> b THEN 0 ELSE IF a THEN 1 ELSE -1

CmpInt(a, b) == IF a < b THEN -1 ELSE IF a > b THEN 1 ELSE 0

(* cmp_sample_format *)
Rank(format) ==
  CASE format = "F32" -> 7
    [] format = "I32" -> 6
    [] format = "U32" -> 5
    [] format = "I24" -> 4
    [] format = "U24" -> 3
    [] format = "I16" -> 2
    [] format = "U16" -> 1
    [] OTHER -> 0

Has44100(r) == r.min <= 44100 /\ 44100 <= r.max

(* A comparison that tells the two apart decides, or else the next ones. *)
Decide(first, next) == IF first # 0 THEN first ELSE next

(* cmp_default_heuristics *)
Cmp(a, b) ==
  Decide(CmpBool(a.channels = 2, b.channels = 2),
  Decide(CmpBool(a.channels = 1, b.channels = 1),
  Decide(CmpInt(a.channels, b.channels),
  Decide(CmpInt(Rank(a.format), Rank(b.format)),
  Decide(CmpBool(Has44100(a), Has44100(b)),
         CmpInt(a.max, b.max))))))

-----------------------------------------------------------------------------
VARIABLES
  offered,    \* the ranges of the device, in its order
  wanted,     \* what the stream asks of a range; nothing for the default of a device
  at,         \* the range the loop comes to
  best        \* the range it holds, or none

vars == <<offered, wanted, at, best>>

(* The formats are the ones the backend has a tag for. *)
Requests == [channels : Int, rate : Int, formats : SUBSET Formats]

Matches(asked, r) ==
  \A c \in asked : /\ r.channels = c.channels
                   /\ r.min <= c.rate /\ c.rate <= r.max
                   /\ r.format \in c.formats

(* choose_default_range, choose_default_sample_format *)
ForStream ==
  /\ wanted \in {{c} : c \in Requests}
  /\ best = {}

(* default_config of an ALSA device, which refuses a device without ranges *)
ForDevice ==
  /\ wanted = {}
  /\ offered # <<>>
  /\ best = {offered[1]}

Init ==
  /\ offered \in Seq(Ranges)
  /\ at = 1
  /\ ForStream \/ ForDevice

Better == /\ Matches(wanted, offered[at])
          /\ \A b \in best : Cmp(offered[at], b) > 0

Take ==
  /\ at <= Len(offered)
  /\ Better
  /\ best' = {offered[at]}
  /\ at' = at + 1
  /\ UNCHANGED <<offered, wanted>>

Pass ==
  /\ at <= Len(offered)
  /\ ~Better
  /\ at' = at + 1
  /\ UNCHANGED <<offered, wanted, best>>

Next == Take \/ Pass

Spec == Init /\ [][Next]_vars

(* The end of default_config: the sample rate of the configuration made of *)
(* the range.                                                              *)
DefaultRate(r) == IF Has44100(r) THEN 44100 ELSE r.max

-----------------------------------------------------------------------------
(* Of the places S of ranges, k holds a match, no match is greater, and    *)
(* one as great does not come before it.                                   *)
FirstGreatest(ranges, S, asked, k) ==
  /\ k \in S
  /\ Matches(asked, ranges[k])
  /\ \A j \in S : Matches(asked, ranges[j]) =>
       /\ Cmp(ranges[j], ranges[k]) <= 0
       /\ j < k => Cmp(ranges[j], ranges[k]) < 0

Chosen(ranges, S, asked, b) ==
  \/ b = {} /\ \A j \in S : ~Matches(asked, ranges[j])
  \/ \E k \in S : b = {ranges[k]} /\ FirstGreatest(ranges, S, asked, k)

(* The loop ends with the first of the greatest matching ranges, and with  *)
(* none only when none matches.                                            *)
GreatestIsChosen == at > Len(offered) => Chosen(offered, 1 .. Len(offered), wanted, best)
=============================================================================
