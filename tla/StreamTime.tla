----------------------------- MODULE StreamTime -----------------------------
(***************************************************************************)
(* The arithmetic of stream time stamps (core/cpal_time.mbt): a            *)
(* StreamInstant is a signed 64-bit count of seconds with nanoseconds on   *)
(* top, a Duration an unsigned one.  The constructors work on machine      *)
(* integers, which wrap; add, sub and duration_since on big integers, with *)
(* a test of the range at the end.                                         *)
(*                                                                         *)
(* An optional value is the set of the value, or the empty set.            *)
(***************************************************************************)
EXTENDS Integers

Billion == 1000000000
Half32 == 2147483648           \* 2^31
Half64 == 9223372036854775808  \* 2^63

Int32 == -Half32 .. Half32 - 1
Int64 == -Half64 .. Half64 - 1
UInt64 == 0 .. 2 * Half64 - 1

(* The integer that x becomes in 32 or 64 bits. *)
Wrap32(x) == ((x + Half32) % (2 * Half32)) - Half32
Wrap64(x) == ((x + Half64) % (2 * Half64)) - Half64

(* Division as the machine and the big integers do it, towards 0. *)
Quotient(a, b) == IF a >= 0 THEN a \div b ELSE -((-a) \div b)

Nanos == 0 .. Billion - 1
Instants == [secs : Int64, nanos : Nanos]
Durations == [secs : UInt64, nanos : Nanos]

(* as_nanos_bigint *)
Total(t) == t.secs * Billion + t.nanos

(* StreamInstant::StreamInstant: nanoseconds beyond a second are carried,  *)
(* negative ones borrowed, in the width of the integers.                   *)
StreamInstant(secs, nanos) ==
  LET carry == nanos \div Billion
      borrow == Quotient(Wrap32(Wrap32(-nanos) + (Billion - 1)), Billion)
  IN IF nanos >= Billion
       THEN [secs |-> Wrap64(secs + carry), nanos |-> Wrap32(nanos - Wrap32(carry * Billion))]
     ELSE IF nanos < 0
       THEN [secs |-> Wrap64(secs - borrow), nanos |-> Wrap32(nanos + Wrap32(borrow * Billion))]
     ELSE [secs |-> secs, nanos |-> nanos]

(* Duration::Duration: none where the code panics, which is for negative   *)
(* nanoseconds and when the sum of the seconds has wrapped.                *)
Duration(secs, nanos) ==
  LET carry == nanos \div Billion
      sum == (secs + carry) % (2 * Half64)
  IN IF nanos < 0 THEN {}
     ELSE IF nanos < Billion THEN {[secs |-> secs, nanos |-> nanos]}
     ELSE IF sum < secs THEN {}
     ELSE {[secs |-> sum, nanos |-> nanos - carry * Billion]}

(* StreamInstant::from_nanos_bigint: a negative remainder is made positive,*)
(* seconds that do not fit give none.                                      *)
FromNanos(total) ==
  LET quotient == Quotient(total, Billion)
      rest == total - quotient * Billion
      secs == IF rest < 0 THEN quotient - 1 ELSE quotient
      nanos == IF rest < 0 THEN rest + Billion ELSE rest
  IN IF secs \in Int64 THEN {StreamInstant(secs, nanos)} ELSE {}

Add(instant, duration) == FromNanos(Total(instant) + Total(duration))

Sub(instant, duration) == FromNanos(Total(instant) - Total(duration))

Earlier(a, b) == a.secs < b.secs \/ (a.secs = b.secs /\ a.nanos < b.nanos)

(* StreamInstant::duration_since *)
DurationSince(instant, earlier) ==
  LET diff == Total(instant) - Total(earlier)
      secs == Quotient(diff, Billion)
  IN IF Earlier(instant, earlier) \/ secs > 2 * Half64 - 1 THEN {}
     ELSE {[secs |-> secs, nanos |-> diff - secs * Billion]}
=============================================================================
