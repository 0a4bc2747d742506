----------------------------- MODULE CoreProofs -----------------------------
(***************************************************************************)
(* Theorems about StreamTime, at the widths of the code and for every      *)
(* value, and about ConfigHeuristics, for every list of ranges.            *)
(***************************************************************************)
EXTENDS StreamTime, ConfigHeuristics, TLAPS

-----------------------------------------------------------------------------
(* Lemmas about the widths and about division.                             *)

LEMMA Widths ==
  /\ Billion \in Nat
  /\ Half32 \in Nat
  /\ Half64 \in Nat
  /\ 1 < Billion
  /\ 2 * Billion < Half32
  /\ Half32 < 3 * Billion
  /\ Half32 < Half64
BY SMT DEF Billion, Half32, Half64

LEMMA Floor ==
  ASSUME NEW m \in Nat, m > 0, NEW x \in Int
  PROVE  x \div m \in Int /\ x - (x \div m) * m \in 0 .. m - 1
BY SMT

LEMMA Floors ==
  ASSUME NEW m \in Nat, m > 0, NEW x \in Nat
  PROVE  x \div m \in Nat /\ x \div m <= x
BY SMT

(* A number has one quotient and one remainder. *)
LEMMA OneFloor ==
  ASSUME NEW m \in Nat, m > 0, NEW p \in Int, NEW q \in Int,
         NEW r \in 0 .. m - 1, NEW s \in 0 .. m - 1, p * m + r = q * m + s
  PROVE  p = q /\ r = s
<1>1. (p - q) * m = s - r
  BY SMT
<1>2. CASE p > q
  <2>1. (p - q) * m >= m
    BY SMT, <1>2
  <2>2. QED BY SMT, <2>1, <1>1
<1>3. CASE p < q
  <2>1. (q - p) * m >= m
    BY SMT, <1>3
  <2>2. QED BY SMT, <2>1, <1>1
<1>4. CASE p = q
  BY SMT, <1>4
<1>5. QED BY SMT, <1>2, <1>3, <1>4

LEMMA Modulo ==
  ASSUME NEW m \in Nat, m > 0, NEW x \in Int
  PROVE  /\ x \in 0 .. m - 1 => x % m = x
         /\ x \in m .. 2 * m - 1 => x % m = x - m
         /\ x \in -m .. -1 => x % m = x + m
BY SMT

(* What 32 bits make of a number at most one turn away. *)
LEMMA Wraps ==
  ASSUME NEW x \in Int
  PROVE  /\ x \in Int32 => Wrap32(x) = x
         /\ x \in Half32 .. 3 * Half32 - 1 => Wrap32(x) = x - 2 * Half32
         /\ x \in -(3 * Half32) .. -Half32 - 1 => Wrap32(x) = x + 2 * Half32
         /\ x \in Int64 => Wrap64(x) = x
<1>1. Half32 \in Nat /\ Half64 \in Nat /\ Half32 > 0 /\ Half64 > 0
  BY SMT, Widths
<1>2. ASSUME NEW h \in Nat, h > 0
      PROVE  /\ x \in -h .. h - 1 => ((x + h) % (2 * h)) - h = x
             /\ x \in h .. 3 * h - 1 => ((x + h) % (2 * h)) - h = x - 2 * h
             /\ x \in -(3 * h) .. -h - 1 => ((x + h) % (2 * h)) - h = x + 2 * h
  <2>1. 2 * h \in Nat /\ 2 * h > 0 /\ x + h \in Int
    BY SMT, <1>2
  <2>2. /\ x + h \in 0 .. 2 * h - 1 => (x + h) % (2 * h) = x + h
        /\ x + h \in 2 * h .. 2 * (2 * h) - 1 => (x + h) % (2 * h) = (x + h) - 2 * h
        /\ x + h \in -(2 * h) .. -1 => (x + h) % (2 * h) = (x + h) + 2 * h
    BY <2>1, Modulo
  <2>3. QED BY SMT, <1>2, <2>2
<1>3. QED BY <1>1, <1>2 DEF Int32, Int64, Wrap32, Wrap64

-----------------------------------------------------------------------------
(* The two types.                                                          *)

LEMMA Fields ==
  /\ \A t \in Instants : /\ t.secs \in Int64 /\ t.nanos \in Nanos
                         /\ t = [secs |-> t.secs, nanos |-> t.nanos]
  /\ \A t \in Durations : /\ t.secs \in UInt64 /\ t.nanos \in Nanos
                          /\ t = [secs |-> t.secs, nanos |-> t.nanos]
  /\ Int64 \subseteq Int
  /\ UInt64 \subseteq Int
  /\ Nanos \subseteq Int
<1>1. Int64 \subseteq Int /\ UInt64 \subseteq Int /\ Nanos \subseteq Int
  BY SMT, Widths DEF Int64, UInt64, Nanos
<1>2. QED BY <1>1 DEF Instants, Durations

(* The nanoseconds of a time of either kind say which it is. *)
LEMMA TotalIsInjective ==
  ASSUME NEW p \in Int, NEW q \in Int, NEW r \in Nanos, NEW s \in Nanos,
         p * Billion + r = q * Billion + s
  PROVE  p = q /\ r = s
<1>1. Billion \in Nat /\ Billion > 0
  BY SMT, Widths
<1>2. QED BY <1>1, OneFloor DEF Nanos

LEMMA TotalIsInt ==
  /\ \A t \in Instants : Total(t) \in Int
  /\ \A t \in Durations : Total(t) \in Int
<1>1. ASSUME NEW t, t.secs \in Int, t.nanos \in Int
      PROVE  Total(t) \in Int
  BY SMT, <1>1, Widths DEF Total
<1>2. QED BY <1>1, Fields

-----------------------------------------------------------------------------
(* Arithmetic.                                                             *)

(* The truncating quotient and the correction for a negative remainder are *)
(* the division that rounds down.                                          *)
LEMMA Normalised ==
  ASSUME NEW total \in Int
  PROVE  LET quotient == Quotient(total, Billion)
             rest == total - quotient * Billion
             secs == IF rest < 0 THEN quotient - 1 ELSE quotient
             nanos == IF rest < 0 THEN rest + Billion ELSE rest
         IN secs \in Int /\ nanos \in Nanos /\ secs * Billion + nanos = total
<1>1. ASSUME NEW m \in Nat, m > 0
      PROVE  LET quotient == Quotient(total, m)
                 rest == total - quotient * m
                 secs == IF rest < 0 THEN quotient - 1 ELSE quotient
                 nanos == IF rest < 0 THEN rest + m ELSE rest
             IN secs \in Int /\ nanos \in 0 .. m - 1 /\ secs * m + nanos = total
  <2>1. CASE total >= 0
    <3>1. PICK q \in Int : q = total \div m /\ total - q * m \in 0 .. m - 1
      BY <1>1, Floor
    <3>2. Quotient(total, m) = q
      BY SMT, <2>1, <3>1 DEF Quotient
    <3>3. QED BY SMT, <1>1, <3>1, <3>2
  <2>2. CASE total < 0
    <3>1. -total \in Int
      BY SMT
    <3>2. PICK q \in Int : q = (-total) \div m /\ (-total) - q * m \in 0 .. m - 1
      BY <1>1, <3>1, Floor
    <3>3. Quotient(total, m) = -q
      BY SMT, <2>2, <3>2 DEF Quotient
    <3>4. PICK r \in Int : r = total + q * m /\ r \in -(m - 1) .. 0
      BY SMT, <3>2, <1>1
    <3>5. total - (-q) * m = r
      BY SMT, <3>4, <1>1
    <3>6. (-q - 1) * m = -(q * m) - m /\ (-q) * m = -(q * m)
      BY SMT, <1>1
    <3>7. QED BY SMT, <1>1, <3>3, <3>4, <3>5, <3>6
  <2>3. QED BY SMT, <2>1, <2>2
<1>2. Billion \in Nat /\ Billion > 0
  BY SMT, Widths
<1>3. QED BY <1>1, <1>2 DEF Nanos

(* A normalised pair goes through the constructor as it is. *)
LEMMA NormalStays ==
  ASSUME NEW secs, NEW nanos \in Nanos
  PROVE  StreamInstant(secs, nanos) = [secs |-> secs, nanos |-> nanos]
<1>1. ~(nanos >= Billion) /\ ~(nanos < 0)
  BY SMT, Widths DEF Nanos
<1>2. QED BY <1>1 DEF StreamInstant

(* from_nanos_bigint: the instant of that many nanoseconds, or none when   *)
(* no instant has them.                                                    *)
LEMMA FromNanosIsExact ==
  ASSUME NEW total \in Int
  PROVE  FromNanos(total) = {x \in Instants : Total(x) = total}
<1> DEFINE quotient == Quotient(total, Billion)
           rest == total - quotient * Billion
           secs == IF rest < 0 THEN quotient - 1 ELSE quotient
           nanos == IF rest < 0 THEN rest + Billion ELSE rest
<1>1. secs \in Int /\ nanos \in Nanos /\ secs * Billion + nanos = total
  BY Normalised
<1>2. FromNanos(total) = IF secs \in Int64 THEN {StreamInstant(secs, nanos)} ELSE {}
  BY DEF FromNanos
<1> HIDE DEF secs, nanos
<1>3. StreamInstant(secs, nanos) = [secs |-> secs, nanos |-> nanos]
  BY <1>1, NormalStays
<1>4. ASSUME NEW x \in Instants, Total(x) = total
      PROVE  x = [secs |-> secs, nanos |-> nanos] /\ secs \in Int64
  <2>1. x.secs \in Int64 /\ x.secs \in Int /\ x.nanos \in Nanos
        /\ x = [secs |-> x.secs, nanos |-> x.nanos]
    BY <1>4, Fields
  <2>2. x.secs * Billion + x.nanos = secs * Billion + nanos
    BY <1>1, <1>4 DEF Total
  <2>3. x.secs = secs /\ x.nanos = nanos
    BY <1>1, <2>1, <2>2, TotalIsInjective
  <2>4. QED BY <2>1, <2>3
<1>5. ASSUME secs \in Int64
      PROVE  /\ [secs |-> secs, nanos |-> nanos] \in Instants
             /\ Total([secs |-> secs, nanos |-> nanos]) = total
  BY <1>1, <1>5 DEF Instants, Total
<1>6. QED BY <1>2, <1>3, <1>4, <1>5

(* add gives the instant that many nanoseconds later, and none exactly     *)
(* when no instant is that late: no sum is rounded, wrapped or refused.    *)
THEOREM AddIsExact ==
  ASSUME NEW a \in Instants, NEW d \in Durations
  PROVE  Add(a, d) = {x \in Instants : Total(x) = Total(a) + Total(d)}
<1>1. Total(a) \in Int /\ Total(d) \in Int
  BY TotalIsInt
<1>2. Total(a) + Total(d) \in Int
  BY SMT, <1>1
<1>3. QED BY <1>2, FromNanosIsExact DEF Add

(* sub gives the instant that many nanoseconds earlier, also across zero,  *)
(* and none exactly when no instant is that early.                         *)
THEOREM SubIsExact ==
  ASSUME NEW a \in Instants, NEW d \in Durations
  PROVE  Sub(a, d) = {x \in Instants : Total(x) = Total(a) - Total(d)}
<1>1. Total(a) \in Int /\ Total(d) \in Int
  BY TotalIsInt
<1>2. Total(a) - Total(d) \in Int
  BY SMT, <1>1
<1>3. QED BY <1>2, FromNanosIsExact DEF Sub

-----------------------------------------------------------------------------
(* Differences.                                                            *)

(* The order of the fields is the order of the nanoseconds.                *)
LEMMA EarlierIsLess ==
  ASSUME NEW a \in Instants, NEW b \in Instants
  PROVE  Earlier(a, b) <=> Total(a) < Total(b)
<1>1. /\ a.secs \in Int /\ b.secs \in Int
      /\ a.nanos \in Nanos /\ b.nanos \in Nanos
  BY Fields
<1>2. ASSUME NEW m \in Nat, m > 0, NEW p \in Int, NEW q \in Int,
             NEW r \in 0 .. m - 1, NEW s \in 0 .. m - 1
      PROVE  (p < q \/ (p = q /\ r < s)) <=> p * m + r < q * m + s
  <2>1. CASE p < q
    <3>1. (q - p) * m >= m
      BY SMT, <1>2, <2>1
    <3>2. q * m - p * m >= m
      BY SMT, <1>2, <3>1
    <3>3. QED BY SMT, <1>2, <2>1, <3>2
  <2>2. CASE p = q
    BY SMT, <1>2, <2>2
  <2>3. CASE p > q
    <3>1. (p - q) * m >= m
      BY SMT, <1>2, <2>3
    <3>2. p * m - q * m >= m
      BY SMT, <1>2, <3>1
    <3>3. QED BY SMT, <1>2, <2>3, <3>2
  <2>4. QED BY SMT, <1>2, <2>1, <2>2, <2>3
<1>3. Billion \in Nat /\ Billion > 0
  BY SMT, Widths
<1>4. QED BY <1>1, <1>2, <1>3 DEF Nanos, Earlier, Total

(* The seconds between two instants always fit: the widest difference of   *)
(* two signed 64-bit numbers is the greatest unsigned one.                 *)
LEMMA DifferenceFits ==
  ASSUME NEW a \in Instants, NEW e \in Instants, ~Earlier(a, e)
  PROVE  /\ Total(a) - Total(e) \in Nat
         /\ Quotient(Total(a) - Total(e), Billion) \in UInt64
         /\ (Total(a) - Total(e)) - Quotient(Total(a) - Total(e), Billion) * Billion \in Nanos
<1>1. PICK diff \in Nat : diff = Total(a) - Total(e)
  BY SMT, TotalIsInt, EarlierIsLess
<1>2. Billion \in Nat /\ Billion > 0
  BY SMT, Widths
<1>3. PICK q \in Nat : q = diff \div Billion
  BY <1>2, Floors
<1>4. diff - q * Billion \in Nanos
  BY <1>2, <1>3, Floor DEF Nanos
<1>5. Quotient(diff, Billion) = q
  BY SMT, <1>3 DEF Quotient
<1>6. q <= 2 * Half64 - 1
  <2>1. /\ a.secs \in Int64 /\ e.secs \in Int64
        /\ a.nanos \in Nanos /\ e.nanos \in Nanos
    BY Fields
  <2>2. PICK p \in Int : p = a.secs - e.secs /\ p <= 2 * Half64 - 1
    BY SMT, <2>1, Widths DEF Int64
  <2>3. diff = p * Billion + (a.nanos - e.nanos)
    <3>1. diff = (a.secs * Billion + a.nanos) - (e.secs * Billion + e.nanos)
      BY <1>1 DEF Total
    <3>2. p * Billion = a.secs * Billion - e.secs * Billion
      BY SMT, <2>1, <2>2, <1>2 DEF Int64
    <3>3. QED BY SMT, <2>1, <3>1, <3>2, <1>2, Widths DEF Int64, Nanos
  <2>4. diff < p * Billion + Billion
    BY SMT, <2>1, <2>2, <2>3, <1>2 DEF Nanos
  <2>5. q * Billion <= diff
    BY SMT, <1>2, <1>3, <1>4 DEF Nanos
  <2>6. SUFFICES ASSUME q > p PROVE FALSE
    BY SMT, <2>2, <1>3, Widths
  <2>7. ASSUME NEW m \in Nat, m > 0, NEW k \in Int, NEW l \in Int, k > l
        PROVE  k * m >= l * m + m
    <3>1. (k - l) * m >= m
      BY SMT, <2>7
    <3>2. QED BY SMT, <2>7, <3>1
  <2>8. q * Billion >= p * Billion + Billion
    BY <2>2, <2>6, <2>7, <1>2, <1>3
  <2>9. QED BY SMT, <2>2, <2>4, <2>5, <2>8, <1>2, <1>3
<1>7. q \in UInt64
  BY SMT, <1>3, <1>6 DEF UInt64
<1>8. QED BY <1>1, <1>4, <1>5, <1>7

(* duration_since gives the duration between the two instants, and none    *)
(* only when the other one is later: the guard for 64-bit seconds never    *)
(* refuses a difference.                                                   *)
THEOREM DurationSinceIsExact ==
  ASSUME NEW a \in Instants, NEW e \in Instants
  PROVE  DurationSince(a, e) = {d \in Durations : Total(e) + Total(d) = Total(a)}
<1>1. CASE Earlier(a, e)
  <2>1. ASSUME NEW d \in Durations PROVE Total(d) >= 0
    <3>1. d.secs \in UInt64 /\ d.nanos \in Nanos
      BY Fields
    <3>2. d.secs >= 0 /\ d.nanos >= 0 /\ d.secs \in Int /\ d.nanos \in Int
      BY SMT, <3>1, Widths DEF UInt64, Nanos
    <3>3. ASSUME NEW k \in Int, NEW m \in Int, k >= 0, m >= 0 PROVE k * m >= 0 /\ k * m \in Int
      BY SMT, <3>3
    <3>4. Billion \in Int /\ Billion >= 0
      BY SMT, Widths
    <3>5. d.secs * Billion >= 0 /\ d.secs * Billion \in Int
      BY <3>2, <3>3, <3>4
    <3>6. QED BY SMT, <3>2, <3>5 DEF Total
  <2>2. Total(a) < Total(e)
    BY <1>1, EarlierIsLess
  <2>3. ASSUME NEW d \in Durations PROVE Total(e) + Total(d) # Total(a)
    BY SMT, <2>1, <2>2, TotalIsInt
  <2>4. QED BY <1>1, <2>3 DEF DurationSince
<1>2. CASE ~Earlier(a, e)
  <2>1. PICK diff \in Nat : diff = Total(a) - Total(e)
    BY <1>2, DifferenceFits
  <2>2. PICK q \in UInt64 : q = Quotient(diff, Billion)
    BY <1>2, <2>1, DifferenceFits
  <2>3. PICK r \in Nanos : r = diff - q * Billion
    BY <1>2, <2>1, <2>2, DifferenceFits
  <2>4. ~(q > 2 * Half64 - 1)
    BY SMT, <2>2, Widths DEF UInt64
  <2>5. DurationSince(a, e) = {[secs |-> q, nanos |-> r]}
    BY <1>2, <2>1, <2>2, <2>3, <2>4 DEF DurationSince
  <2>6. q \in Int /\ r \in Int /\ q * Billion + r = diff
    BY SMT, <2>1, <2>2, <2>3, Fields, Widths
  <2>7. [secs |-> q, nanos |-> r] \in Durations /\ Total([secs |-> q, nanos |-> r]) = diff
    BY <2>2, <2>3, <2>6 DEF Durations, Total
  <2>8. Total(e) + diff = Total(a)
    BY SMT, <2>1, TotalIsInt
  <2>9. ASSUME NEW d \in Durations, Total(e) + Total(d) = Total(a)
        PROVE  d = [secs |-> q, nanos |-> r]
    <3>1. Total(d) = diff
      BY SMT, <2>1, <2>9, TotalIsInt
    <3>2. /\ d.secs \in Int /\ d.nanos \in Nanos
          /\ d = [secs |-> d.secs, nanos |-> d.nanos]
      BY Fields
    <3>3. d.secs * Billion + d.nanos = q * Billion + r
      BY <2>6, <3>1 DEF Total
    <3>4. QED BY <2>3, <2>6, <3>2, <3>3, TotalIsInjective
  <2>10. QED BY <2>5, <2>7, <2>8, <2>9
<1>3. QED BY <1>1, <1>2

(* What add gave can be taken back, and its distance from where it started *)
(* is the duration that was added.                                         *)
THEOREM AddIsUndone ==
  ASSUME NEW a \in Instants, NEW d \in Durations, NEW x \in Add(a, d)
  PROVE  Sub(x, d) = {a} /\ DurationSince(x, a) = {d}
<1>1. x \in Instants /\ Total(x) = Total(a) + Total(d)
  BY AddIsExact
<1>2. ASSUME NEW y, NEW z, y.secs \in Int, z.secs \in Int, y.nanos \in Nanos, z.nanos \in Nanos,
             Total(y) = Total(z)
      PROVE  y.secs = z.secs /\ y.nanos = z.nanos
  BY <1>2, TotalIsInjective DEF Total
<1>3. Sub(x, d) = {a}
  <2>1. Total(a) = Total(x) - Total(d)
    BY SMT, <1>1, TotalIsInt
  <2>2. ASSUME NEW y \in Instants, Total(y) = Total(x) - Total(d) PROVE y = a
    BY <2>1, <2>2, <1>2, Fields
  <2>3. Sub(x, d) = {y \in Instants : Total(y) = Total(x) - Total(d)}
    BY <1>1, SubIsExact
  <2>4. QED BY <2>1, <2>2, <2>3
<1>4. DurationSince(x, a) = {d}
  <2>1. ASSUME NEW e \in Durations, Total(a) + Total(e) = Total(x) PROVE e = d
    <3>1. PICK i \in Int, j \in Int, k \in Int : i = Total(a) /\ j = Total(d) /\ k = Total(e)
      BY TotalIsInt
    <3>2. i + k = i + j
      BY <1>1, <2>1, <3>1
    <3>3. k = j
      BY SMT, <3>2
    <3>4. QED BY <3>1, <3>3, <1>2, Fields
  <2>2. QED BY <1>1, <2>1, DurationSinceIsExact
<1>5. QED BY <1>3, <1>4

-----------------------------------------------------------------------------
(* Constructors.                                                           *)

(* The duration of those seconds and nanoseconds, or a panic exactly when  *)
(* no duration is that long: the test for a wrapped sum misses none.       *)
THEOREM DurationIsExact ==
  ASSUME NEW secs \in UInt64, NEW nanos \in Int32, nanos >= 0
  PROVE  Duration(secs, nanos) = {d \in Durations : Total(d) = secs * Billion + nanos}
<1>1. /\ nanos \in Nat /\ nanos < Half32
      /\ secs \in Nat /\ secs < 2 * Half64
      /\ Billion \in Nat /\ Billion > 0
  BY SMT, Widths DEF Int32, UInt64
<1>2. PICK carry \in Nat : carry = nanos \div Billion /\ carry <= nanos
  BY <1>1, Floors
<1>3. PICK rest \in Nanos : rest = nanos - carry * Billion
  BY <1>1, <1>2, Floor DEF Nanos
<1>4. PICK exact \in Nat : exact = secs + carry
  BY SMT, <1>1, <1>2
<1>5. exact * Billion + rest = secs * Billion + nanos
  <2>1. exact * Billion = secs * Billion + carry * Billion
    BY SMT, <1>1, <1>2, <1>4
  <2>2. QED BY SMT, <2>1, <1>1, <1>2, <1>3, <1>4
<1>6. ASSUME NEW d \in Durations, Total(d) = secs * Billion + nanos
      PROVE  d = [secs |-> exact, nanos |-> rest] /\ exact \in UInt64
  <2>1. /\ d.secs \in UInt64 /\ d.secs \in Int /\ d.nanos \in Nanos
        /\ d = [secs |-> d.secs, nanos |-> d.nanos]
    BY Fields
  <2>2. d.secs * Billion + d.nanos = exact * Billion + rest
    BY <1>5, <1>6 DEF Total
  <2>3. exact \in Int
    BY SMT, <1>4
  <2>4. d.secs = exact /\ d.nanos = rest
    BY <1>3, <2>1, <2>2, <2>3, TotalIsInjective
  <2>5. QED BY <2>1, <2>4
<1>7. ASSUME exact \in UInt64
      PROVE  /\ [secs |-> exact, nanos |-> rest] \in Durations
             /\ Total([secs |-> exact, nanos |-> rest]) = secs * Billion + nanos
  BY <1>3, <1>5, <1>7 DEF Durations, Total
<1>8. Duration(secs, nanos) = IF exact \in UInt64 THEN {[secs |-> exact, nanos |-> rest]} ELSE {}
  <2>1. CASE nanos < Billion
    <3>1. carry = 0
      <4>1. 0 * Billion + nanos = carry * Billion + rest
        BY SMT, <1>1, <1>2, <1>3, Fields
      <4>2. nanos \in Nanos /\ 0 \in Int /\ carry \in Int
        BY SMT, <1>1, <1>2, <2>1 DEF Nanos
      <4>3. QED BY <1>3, <4>1, <4>2, TotalIsInjective
    <3>2. exact = secs /\ rest = nanos
      BY SMT, <3>1, <1>1, <1>3, <1>4
    <3>3. ~(nanos < 0)
      BY SMT, <1>1
    <3>4. QED BY <2>1, <3>2, <3>3 DEF Duration
  <2>2. CASE ~(nanos < Billion)
    <3>1. PICK sum \in Int : sum = (secs + carry) % (2 * Half64)
      BY SMT, <1>1, <1>2, Widths
    <3>2. IF exact < 2 * Half64 THEN sum = exact ELSE sum = exact - 2 * Half64
      <4>1. 2 * Half64 \in Nat /\ 2 * Half64 > 0 /\ exact \in Int
        BY SMT, Widths, <1>4
      <4>2. /\ exact \in 0 .. 2 * Half64 - 1 => exact % (2 * Half64) = exact
            /\ exact \in 2 * Half64 .. 2 * (2 * Half64) - 1
                 => exact % (2 * Half64) = exact - 2 * Half64
        BY <4>1, Modulo
      <4>3. exact < 2 * (2 * Half64)
        BY SMT, <1>1, <1>2, <1>4, Widths
      <4>4. exact % (2 * Half64) = sum
        BY <1>4, <3>1
      <4>5. QED BY SMT, <1>4, <4>2, <4>3, <4>4, Widths
    <3>3. carry < 2 * Half64
      BY SMT, <1>1, <1>2, Widths
    <3>4. exact \in UInt64 <=> ~(sum < secs)
      BY SMT, <3>1, <3>2, <3>3, <1>1, <1>2, <1>4, Widths DEF UInt64
    <3>5. exact \in UInt64 => sum = exact
      BY SMT, <3>2, Widths DEF UInt64
    <3>6. ~(nanos < 0)
      BY SMT, <1>1
    <3>7. Duration(secs, nanos) = IF sum < secs THEN {} ELSE {[secs |-> sum, nanos |-> rest]}
      BY <1>2, <1>3, <2>2, <3>1, <3>6 DEF Duration
    <3>8. QED BY <3>4, <3>5, <3>7
  <2>3. QED BY <2>1, <2>2
<1>9. QED BY <1>6, <1>7, <1>8

(* The instant of those seconds and nanoseconds, where there is one, of    *)
(* either sign: as long as the borrow can be computed in 32 bits.          *)
THEOREM InstantIsExact ==
  ASSUME NEW secs \in Int64, NEW nanos \in Int32, nanos >= Billion - Half32,
         NEW x \in Instants, Total(x) = secs * Billion + nanos
  PROVE  StreamInstant(secs, nanos) = x
<1>1. /\ nanos \in Int /\ nanos < Half32 /\ -Half32 <= nanos
      /\ secs \in Int
      /\ Billion \in Nat /\ Billion > 0
  BY SMT, Widths DEF Int32, Int64
<1>2. /\ x.secs \in Int64 /\ x.secs \in Int /\ x.nanos \in Nanos
      /\ x = [secs |-> x.secs, nanos |-> x.nanos]
  BY Fields
<1>3. ASSUME NEW s \in Int, NEW n \in Nanos, s * Billion + n = secs * Billion + nanos
      PROVE  /\ s \in Int64 /\ Wrap64(s) = s /\ Wrap32(n) = n
             /\ x = [secs |-> s, nanos |-> n]
  <2>1. x.secs = s /\ x.nanos = n
    BY <1>2, <1>3, TotalIsInjective DEF Total
  <2>2. Wrap64(s) = s
    BY <1>2, <2>1, Wraps
  <2>3. n \in Int /\ n \in Int32
    BY SMT, Widths DEF Nanos, Int32
  <2>4. QED BY <1>2, <2>1, <2>2, <2>3, Wraps
<1>4. CASE nanos >= Billion
  <2>1. PICK carry \in Int : carry = nanos \div Billion
    BY <1>1, Floor
  <2>2. PICK rest \in Nanos : rest = nanos - carry * Billion
    BY <1>1, <2>1, Floor DEF Nanos
  <2>3. PICK c \in Int : c = carry * Billion
    BY SMT, <1>1
  <2>4. Wrap32(c) = c
    <3>1. c \in Int32
      BY SMT, <1>1, <1>4, <2>2, <2>3, Widths DEF Int32, Nanos
    <3>2. QED BY <2>3, <3>1, Wraps
  <2>5. secs + carry \in Int /\ (secs + carry) * Billion + rest = secs * Billion + nanos
    <3>1. (secs + carry) * Billion = secs * Billion + carry * Billion
      BY SMT, <1>1
    <3>2. QED BY SMT, <3>1, <1>1, <2>2, Fields
  <2>6. x = [secs |-> Wrap64(secs + carry), nanos |-> Wrap32(rest)]
    BY <1>3, <2>5
  <2>7. rest = nanos - Wrap32(carry * Billion)
    BY <2>2, <2>3, <2>4
  <2>8. QED BY <1>4, <2>1, <2>6, <2>7 DEF StreamInstant
<1>5. CASE nanos < 0
  <2>1. PICK k \in Nat : k = -nanos + (Billion - 1) /\ k < Half32
    BY SMT, <1>1, <1>5, Widths
  <2>2. Wrap32(-nanos) = -nanos
    <3>1. -nanos \in Int32 /\ -nanos \in Int
      BY SMT, <1>1, <1>5, Widths DEF Int32
    <3>2. QED BY <3>1, Wraps
  <2>3. Wrap32(Wrap32(-nanos) + (Billion - 1)) = k
    <3>1. k \in Int32 /\ k \in Int
      BY SMT, <2>1, Widths DEF Int32
    <3>2. Wrap32(k) = k
      BY <3>1, Wraps
    <3>3. QED BY <2>1, <2>2, <3>2
  <2>4. PICK borrow \in Nat : borrow = k \div Billion
    BY <1>1, <2>1, Floors
  <2>5. k - borrow * Billion \in Nanos
    BY <1>1, <2>1, <2>4, Floor DEF Nanos
  <2>6. Quotient(k, Billion) = borrow
    BY SMT, <2>1, <2>4 DEF Quotient
  <2>7. PICK b \in Int : b = borrow * Billion
    BY SMT, <1>1, <2>4
  <2>8. PICK rest \in Nanos : rest = nanos + b
    BY SMT, <1>1, <2>1, <2>5, <2>7 DEF Nanos
  <2>9. Wrap32(b) = b
    <3>1. b \in Int32
      BY SMT, <1>1, <1>5, <2>1, <2>8, Widths DEF Int32, Nanos
    <3>2. QED BY <2>7, <3>1, Wraps
  <2>10. secs - borrow \in Int /\ (secs - borrow) * Billion + rest = secs * Billion + nanos
    <3>1. (secs - borrow) * Billion = secs * Billion - borrow * Billion
      BY SMT, <1>1, <2>4
    <3>2. QED BY SMT, <3>1, <1>1, <2>4, <2>7, <2>8, Fields
  <2>11. x = [secs |-> Wrap64(secs - borrow), nanos |-> Wrap32(rest)]
    BY <1>3, <2>10
  <2>12. rest = nanos + Wrap32(borrow * Billion)
    BY <2>7, <2>8, <2>9
  <2>13. ~(nanos >= Billion)
    BY SMT, <1>1, <1>5
  <2>14. QED BY <1>5, <2>3, <2>6, <2>11, <2>12, <2>13 DEF StreamInstant
<1>6. CASE nanos \in Nanos
  BY <1>1, <1>3, <1>6, NormalStays
<1>7. QED BY SMT, <1>1, <1>4, <1>5, <1>6 DEF Nanos

(* Below that the borrow wraps: the instant is 2^32 nanoseconds late and,  *)
(* but for the one value that gives a billion less one, not "normalized to *)
(* 0 <= nanos < 1_000_000_000", as the comment at the field says it is.    *)
THEOREM BorrowOverflows ==
  ASSUME NEW secs \in Int64, secs + 2 \in Int64,
         NEW nanos \in Int32, nanos < Billion - Half32
  PROVE  /\ StreamInstant(secs, nanos).nanos >= Billion - 1
         /\ Total(StreamInstant(secs, nanos)) = secs * Billion + nanos + 2 * Half32
<1>1. /\ nanos \in Int /\ -Half32 <= nanos
      /\ secs \in Int
      /\ Billion \in Nat /\ Billion > 0 /\ Half32 \in Nat
      /\ nanos < 0 /\ ~(nanos >= Billion)
  BY SMT, Widths DEF Int32, Int64
<1>2. PICK k \in Nat : k = 2 * Half32 + nanos - (Billion - 1) /\ 0 < k /\ k <= Half32
  BY SMT, <1>1, Widths
<1>3. Wrap32(Wrap32(-nanos) + (Billion - 1)) = -k
  <2>1. PICK m \in Int : m = Wrap32(-nanos)
    BY SMT, <1>1 DEF Wrap32
  <2>2. m = -nanos \/ m = -nanos - 2 * Half32
    <3>1. -nanos \in Int
      BY SMT, <1>1
    <3>2. -nanos \in Int32 \/ -nanos \in Half32 .. 3 * Half32 - 1
      BY SMT, <1>1, Widths DEF Int32
    <3>3. QED BY <2>1, <3>1, <3>2, Wraps
  <2>3. PICK n \in Int : n = m + (Billion - 1)
    BY SMT, <2>1, <1>1
  <2>4. n = -k \/ n = -k + 2 * Half32
    BY SMT, <2>2, <2>3, <1>1, <1>2
  <2>5. (n = -k => n \in Int32) /\ (n = -k + 2 * Half32 => n \in Half32 .. 3 * Half32 - 1)
    BY SMT, <1>1, <1>2, Widths DEF Int32
  <2>6. CASE n = -k
    BY <2>1, <2>3, <2>5, <2>6, Wraps
  <2>7. CASE n = -k + 2 * Half32
    <3>1. Wrap32(n) = n - 2 * Half32
      BY <2>3, <2>5, <2>7, Wraps
    <3>2. n - 2 * Half32 = -k
      BY SMT, <1>1, <1>2, <2>7
    <3>3. QED BY <2>1, <2>3, <3>1, <3>2
  <2>8. QED BY <2>4, <2>6, <2>7
<1>4. PICK q \in Nat : q = k \div Billion
  BY <1>1, <1>2, Floors
<1>5. PICK s \in Nanos : s = k - q * Billion
  BY <1>1, <1>2, <1>4, Floor DEF Nanos
<1>6. Quotient(-k, Billion) = -q
  <2>1. ~(-k >= 0) /\ -(-k) = k
    BY SMT, <1>2
  <2>2. QED BY <1>4, <2>1 DEF Quotient
<1>7. q <= 2
  <2>1. q * Billion <= k
    BY SMT, <1>1, <1>2, <1>4, <1>5 DEF Nanos
  <2>2. q * Billion < 3 * Billion
    BY SMT, <1>1, <1>2, <1>4, <2>1, Widths
  <2>3. ASSUME q >= 3 PROVE FALSE
    <3>1. q * Billion >= 3 * Billion
      BY SMT, <1>1, <1>4, <2>3
    <3>2. QED BY SMT, <3>1, <2>2, <1>1, <1>4
  <2>4. QED BY SMT, <2>3, <1>4
<1>8. Wrap64(secs - (-q)) = secs + q
  <2>1. PICK t \in Int : t = secs - (-q) /\ t = secs + q
    BY SMT, <1>1, <1>4
  <2>2. t \in Int64
    BY SMT, <2>1, <1>1, <1>4, <1>7, Widths DEF Int64
  <2>3. QED BY <2>1, <2>2, Wraps
<1>9. Wrap32(nanos + Wrap32((-q) * Billion)) = Billion - 1 + s
  <2>1. PICK b \in Int : b = (-q) * Billion /\ b = s - k
    <3>1. (-q) * Billion = -(q * Billion)
      BY SMT, <1>1, <1>4
    <3>2. QED BY SMT, <3>1, <1>1, <1>2, <1>4, <1>5, Fields
  <2>2. b \in Int32
    BY SMT, <1>1, <1>2, <1>4, <1>5, <2>1, Widths DEF Int32, Nanos
  <2>3. Wrap32(b) = b
    BY <2>1, <2>2, Wraps
  <2>4. PICK n \in Int : n = nanos + b
    BY SMT, <1>1, <2>1
  <2>5. n = Billion - 1 + s - 2 * Half32
    BY SMT, <1>1, <1>2, <1>5, <2>1, <2>4, Fields
  <2>6. n \in -(3 * Half32) .. -Half32 - 1
    BY SMT, <1>1, <1>5, <2>4, <2>5, Widths DEF Nanos
  <2>7. Wrap32(n) = n + 2 * Half32
    BY <2>4, <2>6, Wraps
  <2>8. n + 2 * Half32 = Billion - 1 + s
    BY SMT, <1>1, <1>5, <2>4, <2>5, Fields
  <2>9. QED BY <2>1, <2>3, <2>4, <2>7, <2>8
<1>10. StreamInstant(secs, nanos) = [secs |-> secs + q, nanos |-> Billion - 1 + s]
  BY <1>1, <1>3, <1>6, <1>8, <1>9 DEF StreamInstant
<1>11. (secs + q) * Billion + (Billion - 1 + s) = secs * Billion + nanos + 2 * Half32
  <2>1. (secs + q) * Billion = secs * Billion + q * Billion
    BY SMT, <1>1, <1>4
  <2>2. QED BY SMT, <2>1, <1>1, <1>2, <1>4, <1>5, Fields
<1>12. Billion - 1 + s >= Billion - 1
  BY SMT, <1>1, <1>5 DEF Nanos
<1>13. QED BY <1>10, <1>11, <1>12 DEF Total

-----------------------------------------------------------------------------
(* The comparison of ranges.                                               *)

Answers == {-1, 0, 1}

(* Three answers about a and b, b and c, a and c that one order can give.  *)
Coheres(ab, bc, ac) ==
  /\ ab \in Answers /\ bc \in Answers /\ ac \in Answers
  /\ ab <= 0 /\ bc <= 0 => ac <= 0 /\ (ab < 0 \/ bc < 0 => ac < 0)
  /\ ab >= 0 /\ bc >= 0 => ac >= 0 /\ (ab > 0 \/ bc > 0 => ac > 0)

LEMMA DecideCoheres ==
  ASSUME NEW ab, NEW bc, NEW ac, Coheres(ab, bc, ac),
         NEW x, NEW y, NEW z, Coheres(x, y, z)
  PROVE  Coheres(Decide(ab, x), Decide(bc, y), Decide(ac, z))
BY SMT DEF Decide, Coheres, Answers

LEMMA DecideReverses ==
  ASSUME NEW ab \in Answers, NEW x \in Answers
  PROVE  Decide(-ab, -x) = -Decide(ab, x) /\ Decide(ab, x) \in Answers
BY SMT DEF Decide, Answers

LEMMA CmpIntCoheres ==
  ASSUME NEW a \in Int, NEW b \in Int, NEW c \in Int
  PROVE  /\ CmpInt(a, b) \in Answers
         /\ CmpInt(b, a) = -CmpInt(a, b)
         /\ Coheres(CmpInt(a, b), CmpInt(b, c), CmpInt(a, c))
BY SMT DEF CmpInt, Coheres, Answers

LEMMA CmpBoolCoheres ==
  ASSUME NEW a \in BOOLEAN, NEW b \in BOOLEAN, NEW c \in BOOLEAN
  PROVE  /\ CmpBool(a, b) \in Answers
         /\ CmpBool(b, a) = -CmpBool(a, b)
         /\ Coheres(CmpBool(a, b), CmpBool(b, c), CmpBool(a, c))
BY SMT DEF CmpBool, Coheres, Answers

LEMMA RangeFields ==
  ASSUME NEW r \in Ranges
  PROVE  /\ r.channels \in Int /\ r.max \in Int /\ r.min \in Int
         /\ Rank(r.format) \in Int
         /\ (r.channels = 2) \in BOOLEAN /\ (r.channels = 1) \in BOOLEAN
         /\ Has44100(r) \in BOOLEAN
<1>1. r.channels \in Int /\ r.max \in Int /\ r.min \in Int
  BY DEF Ranges
<1>2. Rank(r.format) \in Int
  BY SMT DEF Rank
<1>3. QED BY <1>1, <1>2 DEF Has44100

(* cmp_default_heuristics answers -1, 0 or 1, the opposite for the ranges  *)
(* the other way round, and never goes round in a circle: it is an order   *)
(* in which different ranges may be equal.                                 *)
THEOREM HeuristicsAreAnOrder ==
  ASSUME NEW a \in Ranges, NEW b \in Ranges, NEW c \in Ranges
  PROVE  /\ Cmp(a, b) \in {-1, 0, 1}
         /\ Cmp(b, a) = -Cmp(a, b)
         /\ Cmp(a, b) <= 0 /\ Cmp(b, c) <= 0 => Cmp(a, c) <= 0
         /\ Cmp(a, b) < 0 /\ Cmp(b, c) <= 0 => Cmp(a, c) < 0
         /\ Cmp(a, b) <= 0 /\ Cmp(b, c) < 0 => Cmp(a, c) < 0
<1> DEFINE
      Stereo(p, q) == CmpBool(p.channels = 2, q.channels = 2)
      Mono(p, q) == CmpBool(p.channels = 1, q.channels = 1)
      Channels(p, q) == CmpInt(p.channels, q.channels)
      Format(p, q) == CmpInt(Rank(p.format), Rank(q.format))
      Rate(p, q) == CmpBool(Has44100(p), Has44100(q))
      Top(p, q) == CmpInt(p.max, q.max)
      Opposite(f(_, _)) == f(a, b) \in Answers /\ f(b, a) = -f(a, b)
      Order(f(_, _)) == Coheres(f(a, b), f(b, c), f(a, c))
<1>1. /\ Opposite(Stereo) /\ Order(Stereo)
      /\ Opposite(Mono) /\ Order(Mono)
      /\ Opposite(Rate) /\ Order(Rate)
  BY RangeFields, CmpBoolCoheres
<1>2. /\ Opposite(Channels) /\ Order(Channels)
      /\ Opposite(Format) /\ Order(Format)
      /\ Opposite(Top) /\ Order(Top)
  BY RangeFields, CmpIntCoheres
<1> DEFINE
      Five(p, q) == Decide(Rate(p, q), Top(p, q))
      Four(p, q) == Decide(Format(p, q), Five(p, q))
      Three(p, q) == Decide(Channels(p, q), Four(p, q))
      Two(p, q) == Decide(Mono(p, q), Three(p, q))
<1>3. \A p, q : Cmp(p, q) = Decide(Stereo(p, q), Two(p, q))
  BY DEF Cmp
<1> HIDE DEF Stereo, Mono, Channels, Format, Rate, Top
<1>4. Opposite(Five) /\ Order(Five)
  BY <1>1, <1>2, DecideCoheres, DecideReverses
<1> HIDE DEF Five
<1>5. Opposite(Four) /\ Order(Four)
  BY <1>2, <1>4, DecideCoheres, DecideReverses
<1> HIDE DEF Four
<1>6. Opposite(Three) /\ Order(Three)
  BY <1>2, <1>5, DecideCoheres, DecideReverses
<1> HIDE DEF Three
<1>7. Opposite(Two) /\ Order(Two)
  BY <1>1, <1>6, DecideCoheres, DecideReverses
<1> HIDE DEF Two
<1>8. Opposite(Cmp) /\ Order(Cmp)
  BY <1>1, <1>3, <1>7, DecideCoheres, DecideReverses
<1>9. QED BY SMT, <1>8 DEF Coheres, Answers

-----------------------------------------------------------------------------
(* The choice of a range.                                                  *)

(* The places the loop has seen; the default of a device starts with the   *)
(* first range in hand.                                                    *)
Seen == {j \in 1 .. Len(offered) : j < at \/ (wanted = {} /\ j = 1)}

TypeOK ==
  /\ offered \in Seq(Ranges)
  /\ at \in 1 .. Len(offered) + 1
  /\ wanted = {} => offered # <<>>

IInv == TypeOK /\ Chosen(offered, Seen, wanted, best)

(* A range that is compared with the one in hand, after the ones before it.*)
LEMMA OneMore ==
  ASSUME NEW ranges \in Seq(Ranges), NEW n \in 1 .. Len(ranges),
         NEW S \in SUBSET (1 .. n), NEW asked, NEW b, Chosen(ranges, S, asked, b)
  PROVE  LET better == Matches(asked, ranges[n]) /\ \A r \in b : Cmp(ranges[n], r) > 0
         IN Chosen(ranges, S \cup {n}, asked, IF better THEN {ranges[n]} ELSE b)
<1> DEFINE better == Matches(asked, ranges[n]) /\ \A r \in b : Cmp(ranges[n], r) > 0
<1>1. \A j \in 1 .. n : ranges[j] \in Ranges
  BY SMT
<1>2. n \in 1 .. n
  BY SMT
<1>3. Cmp(ranges[n], ranges[n]) = 0
  BY SMT, <1>1, <1>2, HeuristicsAreAnOrder
<1>4. CASE b = {} /\ \A j \in S : ~Matches(asked, ranges[j])
  <2>1. CASE Matches(asked, ranges[n])
    <3>1. FirstGreatest(ranges, S \cup {n}, asked, n)
      <4>1. \A j \in S \cup {n} : Matches(asked, ranges[j]) => j = n
        BY <1>4
      <4>2. ~(n < n) /\ Cmp(ranges[n], ranges[n]) <= 0
        BY SMT, <1>3
      <4>3. QED BY <2>1, <4>1, <4>2 DEF FirstGreatest
    <3>2. QED BY <1>4, <2>1, <3>1 DEF Chosen
  <2>2. CASE ~Matches(asked, ranges[n])
    BY <1>4, <2>2 DEF Chosen
  <2>3. QED BY <2>1, <2>2
<1>5. ASSUME NEW k \in S, b = {ranges[k]}, FirstGreatest(ranges, S, asked, k)
      PROVE  Chosen(ranges, S \cup {n}, asked, IF better THEN {ranges[n]} ELSE b)
  <2>1. k \in 1 .. n
    BY <1>5
  <2>2. \A j \in S : Matches(asked, ranges[j]) =>
          /\ Cmp(ranges[j], ranges[k]) <= 0
          /\ j < k => Cmp(ranges[j], ranges[k]) < 0
    BY <1>5 DEF FirstGreatest
  <2>3. CASE better
    <3>1. Cmp(ranges[n], ranges[k]) > 0
      BY <1>5, <2>3
    <3>2. Cmp(ranges[k], ranges[n]) < 0
      BY SMT, <1>1, <1>2, <2>1, <3>1, HeuristicsAreAnOrder
    <3>3. ASSUME NEW j \in S, Matches(asked, ranges[j])
          PROVE  Cmp(ranges[j], ranges[n]) <= 0 /\ Cmp(ranges[j], ranges[n]) < 0
      <4>1. Cmp(ranges[j], ranges[k]) <= 0
        BY <2>2, <3>3
      <4>2. ranges[j] \in Ranges /\ ranges[k] \in Ranges /\ ranges[n] \in Ranges
        BY <1>1, <1>2, <2>1
      <4>3. Cmp(ranges[j], ranges[n]) < 0 /\ Cmp(ranges[j], ranges[n]) \in {-1, 0, 1}
        BY <3>2, <4>1, <4>2, HeuristicsAreAnOrder
      <4>4. QED BY SMT, <4>3
    <3>4. ~(n < n) /\ Cmp(ranges[n], ranges[n]) <= 0
      BY SMT, <1>3
    <3>5. FirstGreatest(ranges, S \cup {n}, asked, n)
      BY <2>3, <3>3, <3>4 DEF FirstGreatest
    <3>6. QED BY <2>3, <3>5 DEF Chosen
  <2>4. CASE ~better
    <3>1. Matches(asked, ranges[n]) => Cmp(ranges[n], ranges[k]) <= 0
      <4>1. Matches(asked, ranges[n]) => ~(Cmp(ranges[n], ranges[k]) > 0)
        BY <1>5, <2>4
      <4>2. Cmp(ranges[n], ranges[k]) \in {-1, 0, 1}
        BY <1>1, <1>2, <2>1, HeuristicsAreAnOrder
      <4>3. QED BY SMT, <4>1, <4>2
    <3>2. ~(n < k)
      BY SMT, <2>1
    <3>3. FirstGreatest(ranges, S \cup {n}, asked, k)
      BY <1>5, <2>2, <3>1, <3>2 DEF FirstGreatest
    <3>4. QED BY <1>5, <2>4, <3>3 DEF Chosen
  <2>5. QED BY <2>3, <2>4
<1>6. QED BY <1>4, <1>5 DEF Chosen

LEMMA InitIInv == Init => IInv
<1> SUFFICES ASSUME Init PROVE IInv
  OBVIOUS
<1>1. offered \in Seq(Ranges) /\ at = 1 /\ Len(offered) \in Nat
  BY SMT DEF Init
<1>2. CASE ForStream
  <2>1. wanted # {}
    BY <1>2 DEF ForStream
  <2>2. Seen = {}
    BY SMT, <1>1, <2>1 DEF Seen
  <2>3. TypeOK
    BY SMT, <1>1, <2>1 DEF TypeOK
  <2>4. best = {}
    BY <1>2 DEF ForStream
  <2>5. QED BY <2>2, <2>3, <2>4 DEF IInv, Chosen
<1>3. CASE ForDevice
  <2>1. wanted = {} /\ best = {offered[1]} /\ Len(offered) >= 1
    BY SMT, <1>1, <1>3 DEF ForDevice
  <2>2. Seen = {1}
    BY SMT, <1>1, <2>1 DEF Seen
  <2>3. TypeOK
    BY SMT, <1>1, <1>3 DEF TypeOK, ForDevice
  <2>4. offered[1] \in Ranges
    BY SMT, <1>1, <2>1
  <2>5. Cmp(offered[1], offered[1]) <= 0 /\ ~(1 < 1)
    BY SMT, <2>4, HeuristicsAreAnOrder
  <2>6. Matches(wanted, offered[1])
    BY <2>1 DEF Matches
  <2>7. QED BY <2>1, <2>2, <2>3, <2>5, <2>6 DEF IInv, Chosen, FirstGreatest
<1>4. QED BY <1>2, <1>3 DEF Init

LEMMA NextIInv == IInv /\ [Next]_vars => IInv'
<1> SUFFICES ASSUME IInv, [Next]_vars PROVE IInv'
  OBVIOUS
<1>1. CASE Take \/ Pass
  <2>1. offered \in Seq(Ranges) /\ Len(offered) \in Nat /\ at \in 1 .. Len(offered)
    BY SMT, <1>1 DEF IInv, TypeOK, Take, Pass
  <2>2. /\ at' = at + 1 /\ offered' = offered /\ wanted' = wanted
        /\ best' = IF Better THEN {offered[at]} ELSE best
    BY <1>1 DEF Take, Pass
  <2>3. Seen \in SUBSET (1 .. at)
    BY SMT, <2>1 DEF Seen
  <2>4. Seen' = Seen \cup {at}
    BY SMT, <2>1, <2>2 DEF Seen
  <2>5. Chosen(offered, Seen \cup {at}, wanted, best')
    BY <2>1, <2>2, <2>3, OneMore DEF IInv, Better
  <2>6. Chosen(offered, Seen, wanted, best)'
    BY <2>2, <2>4, <2>5 DEF Chosen, FirstGreatest, Matches
  <2>7. TypeOK'
    BY SMT, <2>1, <2>2 DEF IInv, TypeOK
  <2>8. QED BY <2>6, <2>7 DEF IInv
<1>2. CASE UNCHANGED vars
  BY <1>2 DEF IInv, TypeOK, Chosen, FirstGreatest, Matches, Seen, vars
<1>3. QED BY <1>1, <1>2 DEF Next

(* choose_default_range and its likes end with the first of the greatest   *)
(* ranges that match, and with none only when none matches.                *)
THEOREM LoopChoosesGreatest == Spec => []GreatestIsChosen
<1>1. IInv => GreatestIsChosen
  <2> SUFFICES ASSUME IInv, at > Len(offered) PROVE Chosen(offered, 1 .. Len(offered), wanted, best)
    BY DEF GreatestIsChosen
  <2>1. Seen = 1 .. Len(offered)
    BY SMT DEF IInv, TypeOK, Seen
  <2>2. QED BY <2>1 DEF IInv
<1>2. QED BY InitIInv, NextIInv, <1>1, PTL DEF Spec

(* A stream built with the default configuration of a device gets the very *)
(* range the configuration came from, when the backend has a tag for its   *)
(* format: no range that was passed over for the default matches better.   *)
THEOREM DefaultIsChosenAgain ==
  ASSUME NEW ranges \in Seq(Ranges), NEW k \in 1 .. Len(ranges),
         FirstGreatest(ranges, 1 .. Len(ranges), {}, k),
         NEW formats \in SUBSET Formats, ranges[k].format \in formats,
         ranges[k].min <= ranges[k].max
  PROVE  LET config == [channels |-> ranges[k].channels, rate |-> DefaultRate(ranges[k]),
                        formats |-> formats]
         IN FirstGreatest(ranges, 1 .. Len(ranges), {config}, k)
<1> DEFINE config == [channels |-> ranges[k].channels, rate |-> DefaultRate(ranges[k]),
                      formats |-> formats]
<1>1. \A j \in 1 .. Len(ranges) : Matches({}, ranges[j])
  BY DEF Matches
<1>2. ranges[k] \in Ranges
  BY SMT
<1>3. ranges[k].min <= DefaultRate(ranges[k]) /\ DefaultRate(ranges[k]) <= ranges[k].max
  BY SMT, <1>2, RangeFields DEF DefaultRate, Has44100
<1>4. Matches({config}, ranges[k])
  BY <1>3 DEF Matches
<1>5. QED BY <1>1, <1>4 DEF FirstGreatest

=============================================================================
