-------------------------- MODULE NdjsonBatchProofs --------------------------
(***************************************************************************)
(* Epochs: unit inference, overflow and rounding, for every width of the   *)
(* integers, every precision of the floats, every factor between the units *)
(* and every limit.  Columns stay in step, each row is made of its own     *)
(* line, and None and Err have the causes they are said to have, for every *)
(* schema and every number of lines.                                       *)
(***************************************************************************)
EXTENDS NdjsonBatch, SequenceFacts

------------------------------------------------------------------------------
(* Epochs.                                                                  *)

LEMMA Positive ==
  IntLimit \in Nat /\ IntLimit > 0 /\ Kilo \in Nat /\ Kilo > 0 /\ SecLimit \in Nat /\ SecLimit > 0
BY EpochAssumption

\* A factor in front of both sides of a comparison (the prover's arithmetic is linear).
LEMMA TimesKeepsOrder ==
  ASSUME NEW m \in Int, NEW n \in Int, NEW k \in Nat, k > 0
  PROVE  (m < n) <=> (m * k < n * k)
OBVIOUS

\* The multiplier is positive, so nanoseconds have the sign of the number.
LEMMA MultiplierPositive ==
  ASSUME NEW abs \in Int
  PROVE  epoch_unit_multiplier(abs) \in Nat /\ epoch_unit_multiplier(abs) > 0
<1>1. Kilo * Kilo \in Nat /\ Kilo * Kilo > 0
  BY Positive, TimesKeepsOrder
<1>2. Kilo * Kilo * Kilo \in Nat /\ Kilo * Kilo * Kilo > 0
  BY Positive, <1>1
<1>3. QED
  BY Positive, <1>1, <1>2 DEF epoch_unit_multiplier

\* epoch_int_nanos returns the exact product or nothing, and nothing only if i64
\* cannot hold the product; the detour of i64::MIN, which has no absolute value,
\* finds the same unit.
THEOREM IntNanosExact ==
  ASSUME NEW raw \in I64
  PROVE  LET nanos == raw * epoch_unit_multiplier(Abs(raw)) IN
         epoch_int_nanos(raw) = IF nanos \in I64 THEN Some(nanos) ELSE None
<1>1. raw \in Int
  BY Positive DEF I64
<1>2. CASE raw # -IntLimit
  BY <1>2 DEF epoch_int_nanos
<1>3. CASE raw = -IntLimit
  <2>1. Abs(raw) = IntLimit
    BY <1>3, Positive DEF Abs
  <2> DEFINE a == SecLimit * Kilo
             b == SecLimit * Kilo * Kilo
  <2>2. a \in Nat /\ b \in Nat /\ b = a * Kilo /\ IntLimit > b
    BY Positive, EpochAssumption
  <2>3. SecLimit <= a /\ a <= b
    BY Positive, <2>2
  <2>4. epoch_unit_multiplier(IntLimit) = 1 /\ epoch_unit_multiplier(IntLimit - 1) = 1
    BY <2>2, <2>3, Positive DEF epoch_unit_multiplier
  <2>5. QED
    BY <1>3, <2>1, <2>4 DEF epoch_int_nanos
<1>4. QED
  BY <1>2, <1>3

\* One instant in two neighbouring units: n of the larger, and the Kilo-fold of the
\* smaller, once that is a number that is no longer taken for the largest unit's.
\* Their multipliers make the same nanoseconds of them, at every boundary.
THEOREM UnitsMakeOneInstant ==
  ASSUME NEW n \in Nat, n * Kilo >= SecLimit, n < SecLimit * Kilo * Kilo
  PROVE  n * epoch_unit_multiplier(n) = (n * Kilo) * epoch_unit_multiplier(n * Kilo)
<1> DEFINE a == SecLimit * Kilo
           b == SecLimit * Kilo * Kilo
           m == n * Kilo
<1>1. a \in Nat /\ b \in Nat /\ m \in Nat /\ b = a * Kilo /\ SecLimit <= a /\ a <= b
  <2>1. a \in Nat /\ b \in Nat /\ m \in Nat /\ b = a * Kilo
    BY Positive
  <2>2. SecLimit <= a
    BY Positive
  <2>3. a <= b
    BY Positive, <2>1
  <2>4. QED
    BY <2>1, <2>2, <2>3
<1>2. /\ (n < SecLimit) <=> (m < a)
      /\ (n < a) <=> (m < b)
  BY <1>1, Positive, TimesKeepsOrder
<1>3. CASE n < SecLimit
  <2>1. epoch_unit_multiplier(n) = Kilo * Kilo * Kilo
    BY <1>3 DEF epoch_unit_multiplier
  <2>2. epoch_unit_multiplier(m) = Kilo * Kilo
    BY <1>1, <1>2, <1>3, Positive DEF epoch_unit_multiplier
  <2>3. n * (Kilo * Kilo * Kilo) = (n * Kilo) * (Kilo * Kilo)
    BY Positive
  <2>4. QED
    BY <2>1, <2>2, <2>3
<1>4. CASE n >= SecLimit /\ n < a
  <2>1. epoch_unit_multiplier(n) = Kilo * Kilo
    BY <1>4, <1>1, Positive DEF epoch_unit_multiplier
  <2>2. epoch_unit_multiplier(m) = Kilo
    BY <1>1, <1>2, <1>4, Positive DEF epoch_unit_multiplier
  <2>3. n * (Kilo * Kilo) = (n * Kilo) * Kilo
    BY Positive
  <2>4. QED
    BY <2>1, <2>2, <2>3
<1>5. CASE n >= a
  <2>1. epoch_unit_multiplier(n) = Kilo
    BY <1>5, <1>1, Positive DEF epoch_unit_multiplier
  <2>2. epoch_unit_multiplier(m) = 1
    BY <1>1, <1>2, <1>5, Positive DEF epoch_unit_multiplier
  <2>3. m * 1 = m
    BY <1>1
  <2>4. QED
    BY <2>1, <2>2, <2>3
<1>6. n < SecLimit \/ (n >= SecLimit /\ n < a) \/ n >= a
  BY <1>1, Positive
<1>7. QED
  BY <1>3, <1>4, <1>5, <1>6, Zenon

------------------------------------------------------------------------------
(* Floating point: the spacing is a power of two that fits its number.      *)

\* Induction from all smaller numbers.
LEMMA StrongInduction ==
  ASSUME NEW T, \A n \in Nat : (\A m \in Nat : m < n => m \in T) => n \in T
  PROVE  \A n \in Nat : n \in T
<1> DEFINE C == Nat \ T
<1>1. SUFFICES ASSUME C # {} PROVE FALSE
  OBVIOUS
<1>2. PICK x \in C : \A y \in C : x <= y
  <2>1. C \in SUBSET Nat
    OBVIOUS
  <2> HIDE DEF C
  <2> QED
    BY <1>1, <2>1, LeastExists
<1>3. \A m \in Nat : m < x => m \in T
  BY <1>2
<1> QED
  BY <1>2, <1>3

LEMMA HalfIsLess ==
  ASSUME NEW q \in Nat, q # 0
  PROVE  q \div 2 \in Nat /\ q \div 2 < q /\ 2 * (q \div 2) <= q /\ q <= 2 * (q \div 2) + 1
OBVIOUS

\* The equation of PowerAbove, met up to n.
Doubles(f, n) == f = [q \in 0..n |-> IF q = 0 THEN 1 ELSE 2 * f[q \div 2]]

LEMMA DoublesExists ==
  ASSUME NEW n \in Nat
  PROVE  \E f : Doubles(f, n)
<1> DEFINE T == {m \in Nat : \E f : Doubles(f, m)}
<1>1. 0 \in T
  <2> DEFINE f == [q \in 0..0 |-> 1]
  <2>1. Doubles(f, 0)
    BY DEF Doubles
  <2> QED
    BY <2>1
<1>2. ASSUME NEW m \in Nat, m \in T
      PROVE  m + 1 \in T
  <2>1. PICK f : Doubles(f, m)
    BY <1>2
  <2> DEFINE last == 2 * f[(m + 1) \div 2]
             g == [q \in 0..(m + 1) |-> IF q = m + 1 THEN last ELSE f[q]]
  <2>2. ASSUME NEW q \in 0..(m + 1)
        PROVE  g[q] = IF q = 0 THEN 1 ELSE 2 * g[q \div 2]
    <3>1. CASE q = m + 1
      <4>1. q \div 2 \in 0..(m + 1) /\ q \div 2 # m + 1 /\ q # 0
        BY <3>1, HalfIsLess
      <4>2. g[q \div 2] = f[q \div 2] /\ g[q] = last
        BY <3>1, <4>1
      <4> QED
        BY <3>1, <4>1, <4>2
    <3>2. CASE q # m + 1 /\ q # 0
      <4>1. q \in 0..m /\ q \div 2 \in 0..(m + 1) /\ q \div 2 # m + 1
        BY <3>2, HalfIsLess
      <4>2. f[q] = 2 * f[q \div 2]
        BY <2>1, <3>2, <4>1 DEF Doubles
      <4> QED
        BY <3>2, <4>1, <4>2
    <3>3. CASE q # m + 1 /\ q = 0
      <4>1. f[0] = 1
        BY <2>1 DEF Doubles
      <4> QED
        BY <3>3, <4>1
    <3> QED
      BY <3>1, <3>2, <3>3
  <2> HIDE DEF last
  <2>3. g = [q \in 0..(m + 1) |-> IF q = 0 THEN 1 ELSE 2 * g[q \div 2]]
    BY <2>2
  <2> HIDE DEF g
  <2>4. Doubles(g, m + 1)
    BY <2>3 DEF Doubles
  <2> QED
    BY <2>4
<1>3. \A m \in Nat : m \in T
  <2> HIDE DEF T
  <2> QED
    BY <1>1, <1>2, Induction
<1> QED
  BY <1>3

\* Two functions that meet the equation agree as far as both do.
LEMMA DoublesAgree ==
  ASSUME NEW m \in Nat, NEW n \in Nat, NEW f, NEW g, Doubles(f, m), Doubles(g, n)
  PROVE  \A q \in Nat : q <= m /\ q <= n => f[q] = g[q]
<1> DEFINE T == {q \in Nat : q <= m /\ q <= n => f[q] = g[q]}
<1>1. ASSUME NEW q \in Nat, \A r \in Nat : r < q => r \in T
      PROVE  q \in T
  <2> SUFFICES ASSUME q <= m, q <= n PROVE f[q] = g[q]
    OBVIOUS
  <2>1. q \in 0..m /\ q \in 0..n
    OBVIOUS
  <2>2. /\ f[q] = IF q = 0 THEN 1 ELSE 2 * f[q \div 2]
        /\ g[q] = IF q = 0 THEN 1 ELSE 2 * g[q \div 2]
    BY <2>1 DEF Doubles
  <2>3. CASE q = 0
    BY <2>2, <2>3
  <2>4. CASE q # 0
    <3>1. q \div 2 \in Nat /\ q \div 2 < q
      BY <2>4, HalfIsLess
    <3>2. q \div 2 \in T
      BY <1>1, <3>1
    <3>3. f[q \div 2] = g[q \div 2]
      BY <3>1, <3>2
    <3> QED
      BY <2>2, <2>4, <3>3
  <2> QED
    BY <2>3, <2>4
<1> HIDE DEF T
<1>2. \A q \in Nat : q \in T
  BY <1>1, StrongInduction
<1> QED
  BY <1>2 DEF T

\* PowerAbove is what its equation says.
LEMMA PowerAboveIs ==
  /\ PowerAbove[0] = 1
  /\ \A q \in Nat : q # 0 => PowerAbove[q] = 2 * PowerAbove[q \div 2]
<1> DEFINE Upto(n) == CHOOSE f : Doubles(f, n)
           G == [q \in Nat |-> Upto(q)[q]]
<1>1. ASSUME NEW n \in Nat
      PROVE  Doubles(Upto(n), n)
  <2>1. \E f : Doubles(f, n)
    BY DoublesExists
  <2> QED
    BY <2>1, Zenon
<1>2. ASSUME NEW q \in Nat
      PROVE  G[q] = IF q = 0 THEN 1 ELSE 2 * G[q \div 2]
  <2> DEFINE f == Upto(q)
  <2>1. Doubles(f, q)
    BY <1>1
  <2> HIDE DEF f
  <2>2. f[q] = IF q = 0 THEN 1 ELSE 2 * f[q \div 2]
    BY <2>1 DEF Doubles
  <2>3. CASE q = 0
    BY <2>2, <2>3 DEF f
  <2>4. CASE q # 0
    <3> DEFINE h == q \div 2
               g == Upto(h)
    <3>1. h \in Nat /\ h < q
      BY <2>4, HalfIsLess
    <3>2. Doubles(g, h)
      BY <1>1, <3>1
    <3>3. f[h] = g[h]
      <4> HIDE DEF h, g
      <4> QED
        BY <2>1, <3>1, <3>2, DoublesAgree
    <3>4. G[q] = f[q] /\ G[h] = g[h]
      BY <3>1 DEF f
    <3> QED
      BY <2>2, <2>4, <3>3, <3>4
  <2> QED
    BY <2>3, <2>4
<1>3. G = [q \in Nat |-> G[q]]
  OBVIOUS
<1> HIDE DEF G
<1>5. G = [q \in Nat |-> IF q = 0 THEN 1 ELSE 2 * G[q \div 2]]
  BY <1>2, <1>3
<1>4. PowerAbove = [q \in Nat |-> IF q = 0 THEN 1 ELSE 2 * PowerAbove[q \div 2]]
  BY <1>5, Zenon DEF PowerAbove
<1> QED
  BY <1>4

\* It is above q, and not by more than the double.
LEMMA PowerAboveFits ==
  \A q \in Nat : /\ PowerAbove[q] \in Nat
                 /\ q < PowerAbove[q]
                 /\ PowerAbove[q] = 1 \/ PowerAbove[q] <= 2 * q
<1> DEFINE T == {q \in Nat : /\ PowerAbove[q] \in Nat
                             /\ q < PowerAbove[q]
                             /\ PowerAbove[q] = 1 \/ PowerAbove[q] <= 2 * q}
<1>1. ASSUME NEW q \in Nat, \A r \in Nat : r < q => r \in T
      PROVE  q \in T
  <2>1. CASE q = 0
    BY <2>1, PowerAboveIs
  <2>2. CASE q # 0
    <3> DEFINE h == q \div 2
    <3>1. h \in Nat /\ h < q /\ 2 * h <= q /\ q <= 2 * h + 1
      BY <2>2, HalfIsLess
    <3>2. PowerAbove[q] = 2 * PowerAbove[h]
      BY <2>2, PowerAboveIs
    <3> HIDE DEF h
    <3>3. h \in T
      BY <1>1, <3>1
    <3>4. /\ PowerAbove[h] \in Nat
          /\ h < PowerAbove[h]
          /\ PowerAbove[h] = 1 \/ PowerAbove[h] <= 2 * h
      BY <3>3
    <3> QED
      BY <2>2, <3>1, <3>2, <3>4
  <2> QED
    BY <2>1, <2>2
<1> HIDE DEF T
<1>2. \A q \in Nat : q \in T
  BY <1>1, StrongInduction
<1> QED
  BY <1>2 DEF T

\* It is the least power of two above q: no r below it has a larger one.
LEMMA PowerAboveLeast ==
  \A q \in Nat : \A r \in Nat : r < PowerAbove[q] => PowerAbove[r] <= PowerAbove[q]
<1> DEFINE T == {q \in Nat : \A r \in Nat : r < PowerAbove[q] => PowerAbove[r] <= PowerAbove[q]}
<1>1. ASSUME NEW q \in Nat, \A m \in Nat : m < q => m \in T
      PROVE  q \in T
  <2> SUFFICES ASSUME NEW r \in Nat, r < PowerAbove[q]
               PROVE  PowerAbove[r] <= PowerAbove[q]
    OBVIOUS
  <2>1. CASE r = 0
    BY <2>1, PowerAboveIs, PowerAboveFits
  <2>2. CASE r # 0
    <3>1. q # 0
      BY <2>2, PowerAboveIs
    <3> DEFINE h == q \div 2
               k == r \div 2
    <3>2. h \in Nat /\ h < q /\ PowerAbove[q] = 2 * PowerAbove[h]
      BY <3>1, HalfIsLess, PowerAboveIs
    <3>3. k \in Nat /\ 2 * k <= r /\ PowerAbove[r] = 2 * PowerAbove[k]
      BY <2>2, HalfIsLess, PowerAboveIs
    <3> HIDE DEF h, k
    <3>4. PowerAbove[h] \in Nat /\ PowerAbove[k] \in Nat
      BY <3>2, <3>3, PowerAboveFits
    <3>5. k < PowerAbove[h]
      BY <3>2, <3>3, <3>4
    <3>6. h \in T
      BY <1>1, <3>2
    <3>7. PowerAbove[k] <= PowerAbove[h]
      BY <3>3, <3>5, <3>6
    <3> QED
      BY <3>2, <3>3, <3>4, <3>7
  <2> QED
    BY <2>1, <2>2
<1> HIDE DEF T
<1>2. \A q \in Nat : q \in T
  BY <1>1, StrongInduction
<1> QED
  BY <1>2 DEF T

\* What is used of the spacing: below Precision multiples of it lies the number, and
\* not below half of that, unless the spacing is 1.
LEMMA SpacingIs ==
  ASSUME NEW x \in Int
  PROVE  /\ Abs(x) \in Nat
         /\ Spacing(x) \in Nat /\ Spacing(x) > 0
         /\ Abs(x) < Precision * Spacing(x)
         /\ Spacing(x) = 1 \/ Precision * Spacing(x) <= 2 * Abs(x)
<1> DEFINE a == Abs(x)
           q == a \div Precision
           s == PowerAbove[q]
<1>1. Precision \in Nat /\ Precision > 0
  BY EpochAssumption
<1>2. a \in Nat
  BY DEF Abs
<1> HIDE DEF a
<1>3. q \in Nat /\ Precision * q <= a /\ a < Precision * q + Precision
  BY <1>1, <1>2
<1>4. s \in Nat /\ q < s /\ (s = 1 \/ s <= 2 * q)
  BY <1>3, PowerAboveFits
<1> HIDE DEF q, s
<1>5. Precision * (q + 1) <= Precision * s
  BY <1>1, <1>3, <1>4
<1>6. Precision * (q + 1) = Precision * q + Precision
  BY <1>1, <1>3
<1>7. a < Precision * s
  BY <1>1, <1>2, <1>3, <1>4, <1>5, <1>6
<1>8. s <= 2 * q => Precision * s <= Precision * (2 * q)
  BY <1>1, <1>3, <1>4
<1>9. Precision * (2 * q) = 2 * (Precision * q)
  BY <1>1, <1>3
<1>10. s = 1 \/ Precision * s <= 2 * a
  BY <1>1, <1>2, <1>3, <1>4, <1>8, <1>9
<1>11. Spacing(x) = s
  BY DEF Spacing, a, q, s
<1> QED
  BY <1>2, <1>3, <1>4, <1>7, <1>10, <1>11 DEF a

\* Up to twice as far, the spacing is at most twice as wide.
LEMMA SpacingGrows ==
  ASSUME NEW x \in Int, NEW y \in Int, Abs(y) < 2 * (Precision * Spacing(x))
  PROVE  Spacing(y) <= 2 * Spacing(x)
<1> DEFINE q == Abs(x) \div Precision
           r == Abs(y) \div Precision
           s == PowerAbove[q]
           d == 2 * q + 1
<1>1. Precision \in Nat /\ Precision > 0 /\ Abs(x) \in Nat /\ Abs(y) \in Nat
  BY EpochAssumption, SpacingIs
<1>2. q \in Nat /\ r \in Nat /\ Precision * r <= Abs(y)
  BY <1>1
<1>3. Spacing(x) = s /\ Spacing(y) = PowerAbove[r]
  BY DEF Spacing
<1> HIDE DEF q, r
<1>4. d \in Nat /\ d # 0 /\ d \div 2 = q
  BY <1>2
<1> HIDE DEF d
<1>5. PowerAbove[d] = 2 * s
  BY <1>4, PowerAboveIs
<1>6. s \in Nat
  BY <1>2, PowerAboveFits
<1>7. r < 2 * s
  <2> HIDE DEF s
  <2>1. SUFFICES ASSUME r >= 2 * s PROVE FALSE
    BY <1>2, <1>6
  <2>2. Precision * r >= Precision * (2 * s)
    BY <1>1, <1>2, <1>6, <2>1
  <2>3. Precision * (2 * s) = 2 * (Precision * s)
    BY <1>1, <1>6
  <2> QED
    BY <1>1, <1>2, <1>3, <1>6, <2>2, <2>3
<1>8. PowerAbove[r] <= PowerAbove[d]
  BY <1>2, <1>4, <1>5, <1>7, PowerAboveLeast
<1> QED
  BY <1>3, <1>5, <1>8

\* Rounding to a float moves a number by half the spacing at most.
LEMMA RoundedIsNear ==
  ASSUME NEW x \in Int
  PROVE  /\ Rounded(x) \in Int
         /\ 2 * Abs(Rounded(x) - x) <= Spacing(x)
         /\ Spacing(x) = 1 => Rounded(x) = x
<1> DEFINE s == Spacing(x)
           a == Abs(x)
           q == a \div s
           p == a % s
           n == IF 2 * p > s \/ (2 * p = s /\ q % 2 = 1) THEN q + 1 ELSE q
           sign == IF x < 0 THEN -1 ELSE 1
<1>1. s \in Nat /\ s > 0 /\ a \in Nat
  BY SpacingIs
<1>2. x = sign * a
  BY DEF Abs
<1>3. Rounded(x) = sign * n * s
  BY DEF Rounded
<1>4. sign \in {-1, 1}
  OBVIOUS
<1> HIDE DEF s, a, sign
<1>5. q \in Nat /\ p \in Nat /\ p < s /\ a = s * q + p
  BY <1>1
<1> HIDE DEF p
<1>6. (n = q /\ 2 * p <= s) \/ (n = q + 1 /\ 2 * p >= s)
  <2> HIDE DEF q
  <2> QED
    BY <1>1, <1>5
<1>7. n \in Nat
  BY <1>5, <1>6
<1> HIDE DEF q, n
<1> DEFINE t == n * s
<1>8. t \in Nat /\ (t = s * q \/ t = s * q + s)
  <2>1. (q + 1) * s = s * q + s /\ q * s = s * q
    BY <1>1, <1>5
  <2> QED
    BY <1>1, <1>5, <1>6, <1>7, <2>1
<1>9. (t = s * q /\ 2 * p <= s) \/ (t = s * q + s /\ 2 * p >= s)
  <2>1. (q + 1) * s = s * q + s /\ q * s = s * q
    BY <1>1, <1>5
  <2> QED
    BY <1>6, <2>1
<1>10. sign * n * s = sign * t
  BY <1>1, <1>4, <1>7
<1> HIDE DEF t
<1>11. s * q \in Nat
  BY <1>1, <1>5
<1>12. s = 1 => p = 0
  BY <1>5
<1>13. Rounded(x) = IF sign = 1 THEN t ELSE -t
  BY <1>3, <1>4, <1>8, <1>10
<1>14. x = IF sign = 1 THEN a ELSE -a
  BY <1>1, <1>2, <1>4
<1> QED
  BY <1>1, <1>4, <1>5, <1>8, <1>9, <1>11, <1>12, <1>13, <1>14 DEF Abs, s

\* Rounding to an integer moves a number by half of one at most.
LEMMA NearestIsNear ==
  ASSUME NEW x \in Int
  PROVE  /\ Nearest(x) \in Int
         /\ 2 * Abs(Nearest(x) * Scale - x) <= Scale
<1> DEFINE a == Abs(x)
           b == 2 * a + Scale
           d == 2 * Scale
           k == b \div d
           sign == IF x < 0 THEN -1 ELSE 1
<1>1. Scale \in Nat /\ Scale > 0 /\ a \in Nat
  BY EpochAssumption, SpacingIs
<1>2. x = sign * a /\ sign \in {-1, 1}
  BY DEF Abs
<1>3. Nearest(x) = sign * k
  BY DEF Nearest
<1> HIDE DEF a, sign
<1>4. b \in Nat /\ d \in Nat /\ d > 0
  BY <1>1
<1> HIDE DEF b, d
<1>5. k \in Nat /\ d * k <= b /\ b < d * k + d
  BY <1>4
<1> HIDE DEF k
<1>6. d * k = 2 * (k * Scale) /\ k * Scale \in Nat
  BY <1>1, <1>5 DEF d
<1>7. Nearest(x) * Scale = sign * (k * Scale) /\ Nearest(x) \in Int
  BY <1>1, <1>2, <1>3, <1>5
<1> DEFINE t == k * Scale
<1>8. t \in Nat /\ 2 * t <= 2 * a + Scale /\ 2 * a + Scale < 2 * t + 2 * Scale
  BY <1>5, <1>6 DEF b, d
<1> HIDE DEF t
<1>9. Nearest(x) * Scale = (IF sign = 1 THEN t ELSE -t) /\ x = (IF sign = 1 THEN a ELSE -a)
  BY <1>1, <1>2, <1>6, <1>7, <1>8 DEF t
<1> QED
  BY <1>1, <1>2, <1>7, <1>8, <1>9 DEF Abs

------------------------------------------------------------------------------
(* Epochs that are read as floats.                                          *)

\* The float path on a product: out of range, or rounded to an integer of i64.
FloatPath(x) ==
  LET nanos == Rounded(x) IN
  IF Abs(nanos) >= Infinite \/ nanos < Float(-IntLimit) \/ nanos > Float(IntLimit - 1)
  THEN None
  ELSE Some(Saturate(Nearest(nanos)))

\* The limits of i64, as the float path sees them.
Limit == IntLimit * Scale

LEMMA LimitIs ==
  /\ Limit \in Nat /\ Scale \in Nat /\ Scale > 0 /\ Infinite \in Nat /\ Infinite > Limit
  /\ Float(IntLimit - 1) = Limit /\ Float(-IntLimit) = -Limit
<1>1. IntLimit * Scale \in Nat
  BY EpochAssumption
<1> QED
  BY <1>1, EpochAssumption, FloatLimits DEF Limit

\* A cell for a product x is near it; it is null where the product is beyond the limit
\* by more than its rounding, and only near the limit or beyond it.
Tracks(cell, x) ==
  /\ \A n \in cell : n \in Int /\ 2 * Abs(n * Scale - x) <= Spacing(x) + 3 * Scale
  /\ cell = None => Abs(x) + Spacing(x) >= Limit
  /\ 2 * Abs(x) > 2 * Limit + Spacing(x) => cell = None

LEMMA FloatPathIs ==
  ASSUME NEW x \in Int
  PROVE  Tracks(FloatPath(x), x)
<1> DEFINE nanos == Rounded(x)
           c == Nearest(nanos)
           s == Spacing(x)
<1>1. nanos \in Int /\ 2 * Abs(nanos - x) <= s /\ s \in Nat /\ s > 0
  BY RoundedIsNear, SpacingIs
<1> HIDE DEF nanos, s
<1>2. c \in Int /\ 2 * Abs(c * Scale - nanos) <= Scale
  BY <1>1, NearestIsNear
<1> HIDE DEF c
<1> DEFINE Out == Abs(nanos) >= Infinite \/ nanos < -Limit \/ nanos > Limit
<1>3. FloatPath(x) = IF Out THEN None ELSE Some(Saturate(c))
  BY LimitIs DEF FloatPath, nanos, c
<1>4. ASSUME Out
      PROVE  Abs(x) + s >= Limit
  BY <1>1, <1>4, LimitIs DEF Abs
<1>5. ASSUME 2 * Abs(x) > 2 * Limit + s
      PROVE  Out
  BY <1>1, <1>5, LimitIs DEF Abs
<1>6. ASSUME ~Out
      PROVE  /\ Saturate(c) \in Int
             /\ 2 * Abs(Saturate(c) * Scale - x) <= s + 3 * Scale
  <2> DEFINE t == c * Scale
  <2>1. t \in Int /\ 2 * Abs(t - nanos) <= Scale /\ -Limit <= nanos /\ nanos <= Limit
    BY <1>1, <1>2, <1>6, LimitIs
  <2>2. 2 * t <= 2 * Limit + Scale /\ 2 * t >= -(2 * Limit) - Scale
    BY <1>1, <2>1, LimitIs DEF Abs
  <2>3. IntLimit \in Nat /\ IntLimit > 0
    BY EpochAssumption
  <2>4. c <= IntLimit
    <3>1. SUFFICES ASSUME c >= IntLimit + 1 PROVE FALSE
      BY <1>2, <2>3
    <3>2. t >= (IntLimit + 1) * Scale
      BY <1>2, <2>3, <3>1, LimitIs
    <3>3. (IntLimit + 1) * Scale = Limit + Scale
      BY <2>3, LimitIs DEF Limit
    <3> HIDE DEF t
    <3> QED
      BY <2>1, <2>2, <3>2, <3>3, LimitIs
  <2>5. c >= -IntLimit
    <3>1. SUFFICES ASSUME c <= -IntLimit - 1 PROVE FALSE
      BY <1>2, <2>3
    <3>2. t <= (-IntLimit - 1) * Scale
      BY <1>2, <2>3, <3>1, LimitIs
    <3>3. (-IntLimit - 1) * Scale = -Limit - Scale
      BY <2>3, LimitIs DEF Limit
    <3> HIDE DEF t
    <3> QED
      BY <2>1, <2>2, <3>2, <3>3, LimitIs
  <2>6. CASE c = IntLimit
    <3>1. Saturate(c) = IntLimit - 1
      BY <2>3, <2>6 DEF Saturate
    <3>2. (IntLimit - 1) * Scale = Limit - Scale /\ t = Limit
      BY <2>3, <2>6, LimitIs DEF Limit
    <3> HIDE DEF t
    <3> QED
      BY <1>1, <2>1, <2>3, <3>1, <3>2, LimitIs DEF Abs
  <2>7. CASE c # IntLimit
    <3>1. Saturate(c) = c
      BY <1>2, <2>3, <2>4, <2>5, <2>7 DEF Saturate
    <3>2. Saturate(c) * Scale = t
      BY <3>1
    <3> HIDE DEF t
    <3> QED
      BY <1>1, <1>2, <2>1, <3>1, <3>2, LimitIs DEF Abs
  <2> QED
    BY <2>6, <2>7
<1> HIDE DEF Out
<1>7. \A n \in FloatPath(x) : n \in Int /\ 2 * Abs(n * Scale - x) <= s + 3 * Scale
  BY <1>3, <1>6 DEF None, Some
<1>8. FloatPath(x) = None => Out
  BY <1>3 DEF None, Some
<1>9. Out => FloatPath(x) = None
  BY <1>3
<1> QED
  BY <1>4, <1>5, <1>7, <1>8, <1>9 DEF s, Tracks

\* The unit of an amount, and the product.
UnitOf(x) == epoch_unit_multiplier(Saturate(Abs(x) \div Scale))

LEMMA UnitIs ==
  ASSUME NEW x \in Int
  PROVE  /\ UnitOf(x) \in Nat /\ UnitOf(x) > 0
         /\ x * UnitOf(x) \in Int /\ Abs(x * UnitOf(x)) >= Abs(x)
<1>1. Abs(x) \div Scale \in Int
  BY SpacingIs, LimitIs
<1>2. Saturate(Abs(x) \div Scale) \in Int
  BY <1>1, EpochAssumption DEF Saturate
<1>3. UnitOf(x) \in Nat /\ UnitOf(x) > 0
  BY <1>2, MultiplierPositive DEF UnitOf
<1> DEFINE m == UnitOf(x)
<1> HIDE DEF m
<1>4. m \in Nat /\ m >= 1
  BY <1>3 DEF m
<1>5. x * m \in Int
  BY <1>4
<1>6. (x >= 0 => x * m >= x) /\ (x < 0 => x * m <= x)
  BY <1>4
<1>7. Abs(x * m) >= Abs(x)
  <2> DEFINE y == x * m
  <2> HIDE DEF y
  <2>1. y \in Int /\ (x >= 0 => y >= x) /\ (x < 0 => y <= x)
    BY <1>5, <1>6 DEF y
  <2>2. Abs(y) >= Abs(x)
    BY <2>1 DEF Abs
  <2> QED
    BY <2>2 DEF y
<1> QED
  BY <1>3, <1>5, <1>7 DEF m

\* epoch_float_nanos is the float path on the product, but for what f64 cannot hold.
LEMMA FloatNanosIs ==
  ASSUME NEW x \in Int
  PROVE  /\ Abs(x) < Infinite => epoch_float_nanos(x) = FloatPath(x * UnitOf(x))
         /\ Abs(x) >= Infinite => epoch_float_nanos(x) = None
<1>1. Abs(x) \in Nat /\ Infinite \in Nat
  BY SpacingIs, LimitIs
<1>2. CASE Abs(x) >= Infinite
  BY <1>1, <1>2 DEF epoch_float_nanos
<1>3. CASE Abs(x) < Infinite
  <2>1. ~(Abs(x) >= Infinite)
    BY <1>1, <1>3
  <2>2. epoch_float_nanos(x) = FloatPath(x * UnitOf(x))
    BY <2>1, Zenon DEF epoch_float_nanos, FloatPath, UnitOf
  <2> QED
    BY <2>1, <2>2
<1> QED
  BY <1>1, <1>2, <1>3

\* And so it keeps near the product, as the float path does.
LEMMA FloatNanosTrack ==
  ASSUME NEW x \in Int
  PROVE  Tracks(epoch_float_nanos(x), x * UnitOf(x))
<1> DEFINE y == x * UnitOf(x)
<1>1. y \in Int /\ Abs(y) >= Abs(x)
  BY UnitIs
<1>2. /\ Abs(x) < Infinite => epoch_float_nanos(x) = FloatPath(y)
      /\ Abs(x) >= Infinite => epoch_float_nanos(x) = None
  BY FloatNanosIs
<1> HIDE DEF y
<1>3. Spacing(y) \in Nat /\ Abs(x) \in Nat /\ Abs(y) \in Nat
  BY <1>1, SpacingIs
<1>4. CASE Abs(x) >= Infinite
  <2>1. epoch_float_nanos(x) = None /\ Abs(y) + Spacing(y) >= Limit
    BY <1>1, <1>2, <1>3, <1>4, LimitIs
  <2>2. Tracks(None, y)
    BY <2>1 DEF Tracks, None
  <2> QED
    BY <2>1, <2>2 DEF y
<1>5. CASE Abs(x) < Infinite
  <2>1. epoch_float_nanos(x) = FloatPath(y)
    BY <1>2, <1>5
  <2>2. Tracks(FloatPath(y), y)
    BY <1>1, FloatPathIs
  <2> QED
    BY <2>1, <2>2 DEF y
<1> QED
  BY <1>3, <1>4, <1>5, LimitIs

\* |d * m| is |d| * m.
LEMMA AbsTimes ==
  ASSUME NEW d \in Int, NEW m \in Nat
  PROVE  d * m \in Int /\ Abs(d) * m \in Nat /\ Abs(d * m) = Abs(d) * m
<1> DEFINE t == d * m
<1>1. t \in Int /\ (d >= 0 => t >= 0) /\ (d < 0 => t <= 0) /\ (-d) * m = -t
  OBVIOUS
<1>2. CASE d >= 0
  <2>1. Abs(d) * m = t /\ t >= 0
    BY <1>1, <1>2 DEF Abs
  <2> HIDE DEF t
  <2>2. Abs(t) = t
    BY <1>1, <2>1 DEF Abs
  <2> QED
    BY <1>1, <2>1, <2>2 DEF t
<1>3. CASE d < 0
  <2>1. Abs(d) * m = -t /\ t <= 0
    BY <1>1, <1>3 DEF Abs
  <2> HIDE DEF t
  <2>2. Abs(t) = -t
    BY <1>1, <2>1 DEF Abs
  <2> QED
    BY <1>1, <2>1, <2>2 DEF t
<1> QED
  BY <1>2, <1>3

\* A multiple of a rounded number is off by less than the spacing at the multiple of
\* the number itself, where it is still no more than twice as wide.
LEMMA MultipleOfRounded ==
  ASSUME NEW a \in Int, NEW m \in Nat, m > 0
  PROVE  /\ Rounded(a) * m \in Int /\ a * m \in Int
         /\ Abs(Rounded(a) * m - a * m) < Spacing(a * m)
         /\ Spacing(Rounded(a) * m) <= 2 * Spacing(a * m)
<1> DEFINE x == Rounded(a)
           y == x * m
           e == a * m
           d == x - a
           w == Spacing(a)
           s == Spacing(e)
           P == Precision
<1>1. x \in Int /\ 2 * Abs(x - a) <= w /\ (w = 1 => x = a)
  BY RoundedIsNear
<1>2. w \in Nat /\ w > 0 /\ Abs(a) \in Nat /\ (w = 1 \/ P * w <= 2 * Abs(a))
  BY SpacingIs
<1> HIDE DEF x, w
<1>3. y \in Int /\ e \in Int /\ y - e = d * m /\ Abs(e) = Abs(a) * m
  BY <1>1, AbsTimes
<1>4. s \in Nat /\ s > 0 /\ Abs(e) \in Nat /\ Abs(e) < P * s
  BY <1>3, SpacingIs
<1>5. P \in Nat /\ P > 0
  BY EpochAssumption
<1>6. d \in Int /\ 2 * Abs(d) <= w /\ (w = 1 => d = 0) /\ Abs(d) \in Nat
  BY <1>1, SpacingIs
<1> HIDE DEF y, e, s, P, d
<1>7. Abs(d * m) = Abs(d) * m /\ Abs(d) * m \in Nat
  BY <1>6, AbsTimes
<1>8. Abs(d) * m < s
  <2>1. CASE w = 1
    <3>1. Abs(d) = 0
      BY <1>6, <2>1 DEF Abs
    <3>2. Abs(d) * m = 0
      BY <3>1
    <3> QED
      BY <1>4, <3>2
  <2>2. CASE w # 1
    <3>1. P * w <= 2 * Abs(a)
      BY <1>2, <2>2
    <3>2. (P * w) * m <= (2 * Abs(a)) * m
      BY <1>2, <1>5, <3>1
    <3>3. (P * w) * m = P * (w * m) /\ (2 * Abs(a)) * m = 2 * Abs(e)
      BY <1>2, <1>3, <1>5
    <3>4. P * (w * m) < P * (2 * s)
      <4>1. P * (2 * s) = 2 * (P * s) /\ P * s \in Nat /\ P * (w * m) \in Nat
        BY <1>2, <1>4, <1>5
      <4> QED
        BY <1>4, <3>2, <3>3, <4>1
    <3>5. w * m < 2 * s
      <4> DEFINE l == w * m
                 r == 2 * s
      <4>1. l \in Nat /\ r \in Nat
        BY <1>2, <1>4
      <4> HIDE DEF l, r
      <4>2. SUFFICES ASSUME l >= r PROVE FALSE
        BY <4>1 DEF l, r
      <4>3. P * l >= P * r
        BY <1>5, <4>1, <4>2
      <4> QED
        BY <1>5, <3>4, <4>1, <4>3 DEF l, r
    <3>6. (2 * Abs(d)) * m <= w * m
      BY <1>2, <1>6
    <3>7. (2 * Abs(d)) * m = 2 * (Abs(d) * m)
      BY <1>6
    <3> QED
      BY <1>2, <1>4, <1>7, <3>5, <3>6, <3>7
  <2> QED
    BY <2>1, <2>2
<1>9. Abs(y - e) < s
  BY <1>3, <1>7, <1>8
<1>10. Spacing(y) <= 2 * s
  <2>1. Abs(y) < Abs(e) + s
    BY <1>3, <1>4, <1>9 DEF Abs
  <2>2. P * s >= s /\ P * s \in Nat
    BY <1>4, <1>5
  <2>3. Abs(y) \in Nat
    BY <1>3, SpacingIs
  <2>4. Abs(y) < 2 * (P * s)
    BY <1>4, <2>1, <2>2, <2>3
  <2> QED
    BY <1>3, <2>4, SpacingGrows DEF s, P
<1> QED
  BY <1>3, <1>9, <1>10 DEF x, y, e, s

\* What a cell that tracks y is to a number e that is not far from y.
LEMMA TracksNearby ==
  ASSUME NEW cell, NEW y \in Int, NEW e \in Int, Tracks(cell, y),
         Abs(y - e) < Spacing(e), Spacing(y) <= 2 * Spacing(e)
  PROVE  /\ \A n \in cell : n \in Int /\ Near(n * Scale, e)
         /\ Abs(e) > Limit + 2 * Spacing(e) => cell = None
<1>1. Spacing(y) \in Nat /\ Spacing(e) \in Nat
  BY SpacingIs
<1>2. ASSUME NEW n \in cell
      PROVE  n \in Int /\ Near(n * Scale, e)
  <2>1. n \in Int /\ 2 * Abs(n * Scale - y) <= Spacing(y) + 3 * Scale
    BY <1>2 DEF Tracks
  <2> DEFINE t == n * Scale
  <2>2. t \in Int
    BY <2>1, LimitIs
  <2> HIDE DEF t
  <2>3. 2 * Abs(t - y) <= Spacing(y) + 3 * Scale
    BY <2>1 DEF t
  <2>4. Abs(t - e) <= 2 * Spacing(e) + 2 * Scale
    BY <1>1, <2>2, <2>3, LimitIs DEF Abs
  <2> QED
    BY <2>1, <2>4 DEF t, Near
<1>3. ASSUME Abs(e) > Limit + 2 * Spacing(e)
      PROVE  cell = None
  <2>1. 2 * Abs(y) > 2 * Limit + Spacing(y)
    BY <1>1, <1>3, LimitIs DEF Abs
  <2> QED
    BY <2>1 DEF Tracks
<1> QED
  BY <1>2, <1>3

------------------------------------------------------------------------------
(* The cell of a numeric timestamp.                                         *)

\* The unit does not change where the cast saturates.
LEMMA SaturatedUnit ==
  ASSUME NEW k \in Nat
  PROVE  epoch_unit_multiplier(Saturate(k)) = epoch_unit_multiplier(k)
<1>1. IntLimit \in Nat /\ IntLimit > 0
  BY EpochAssumption
<1>2. CASE k < IntLimit
  <2>1. Saturate(k) = k
    BY <1>1, <1>2 DEF Saturate
  <2> QED
    BY <2>1
<1>3. CASE k >= IntLimit
  <2> DEFINE a == SecLimit * Kilo
             b == SecLimit * Kilo * Kilo
  <2>1. a \in Nat /\ b \in Nat /\ b = a * Kilo /\ IntLimit > b
    BY Positive, EpochAssumption
  <2>2. SecLimit <= a /\ a <= b
    BY Positive, <2>1
  <2>3. Saturate(k) = IntLimit - 1
    BY <1>1, <1>3 DEF Saturate
  <2>4. epoch_unit_multiplier(IntLimit - 1) = 1 /\ epoch_unit_multiplier(k) = 1
    BY <1>1, <1>3, <2>1, <2>2, Positive DEF epoch_unit_multiplier
  <2> QED
    BY <2>3, <2>4
<1> QED
  BY <1>1, <1>2, <1>3

\* The unit of an amount that is a whole number.
LEMMA WholeUnit ==
  ASSUME NEW n \in Int
  PROVE  n * Scale \in Int /\ UnitOf(n * Scale) = epoch_unit_multiplier(Abs(n))
<1>1. Abs(n) \in Nat
  BY SpacingIs
<1>2. n * Scale \in Int /\ Abs(n * Scale) = Abs(n) * Scale
  BY LimitIs, AbsTimes
<1> DEFINE k == Abs(n)
<1> HIDE DEF k
<1>3. (k * Scale) \div Scale = k
  BY <1>1, LimitIs DEF k
<1>4. epoch_unit_multiplier(Saturate(k)) = epoch_unit_multiplier(k)
  BY <1>1, SaturatedUnit DEF k
<1> QED
  BY <1>2, <1>3, <1>4 DEF UnitOf, k

\* What a value that reads as an integer stands for and becomes.
LEMMA IntegerCell ==
  ASSUME NEW v \in Value, Numeric(v), NEW n \in v.int
  PROVE  /\ n \in I64 /\ Amount(v) = n * Scale /\ v.float = {Float(n)} /\ v.int # None
         /\ timestamp_value_nanos(v) = Else(epoch_int_nanos(n), epoch_float_nanos(Float(n)))
<1>1. v.int = {n} /\ v.float = {Float(n)} /\ n \in I64
  BY DEF Value, Reading, Some
<1>2. {m * Scale : m \in v.int} = {n * Scale}
  BY <1>1
<1>3. Else({m * Scale : m \in v.int}, v.float) = {n * Scale}
  BY <1>2 DEF Else, None
<1>4. Amount(v) = n * Scale
  BY <1>3 DEF Amount
<1>5. UNION {epoch_int_nanos(x) : x \in v.int} = epoch_int_nanos(n)
  BY <1>1
<1>6. UNION {epoch_float_nanos(x) : x \in v.float} = epoch_float_nanos(Float(n))
  BY <1>1
<1>7. timestamp_value_nanos(v) = Else(Then(v.int, epoch_int_nanos), Then(v.float, epoch_float_nanos))
  BY DEF timestamp_value_nanos, Numeric, Else
<1>8. Then(v.int, epoch_int_nanos) = epoch_int_nanos(n)
  BY <1>5 DEF Then
<1>9. Then(v.float, epoch_float_nanos) = epoch_float_nanos(Float(n))
  BY <1>6 DEF Then
<1> QED
  BY <1>1, <1>4, <1>7, <1>8, <1>9 DEF None

\* And one that reads as a float only.
LEMMA FractionCell ==
  ASSUME NEW v \in Value, Numeric(v), v.int = None
  PROVE  /\ Amount(v) \in Int /\ v.float = {Amount(v)}
         /\ timestamp_value_nanos(v) = epoch_float_nanos(Amount(v))
<1>1. PICK x \in v.float : TRUE
  BY DEF Numeric, None
<1>2. v.float = {x} /\ x \in Int
  BY <1>1 DEF Value, Reading
<1>3. {m * Scale : m \in v.int} = {}
  BY DEF None
<1>4. Else({m * Scale : m \in v.int}, v.float) = {x}
  BY <1>2, <1>3 DEF Else, None
<1>5. Amount(v) = x
  BY <1>4 DEF Amount
<1>6. UNION {epoch_float_nanos(y) : y \in v.float} = epoch_float_nanos(x)
  BY <1>2
<1>7. timestamp_value_nanos(v) = Else(Then(v.int, epoch_int_nanos), Then(v.float, epoch_float_nanos))
  BY DEF timestamp_value_nanos, Numeric, Else
<1>8. Then(v.int, epoch_int_nanos) = None
  BY DEF Then, None
<1>9. Then(v.float, epoch_float_nanos) = epoch_float_nanos(x)
  BY <1>6 DEF Then
<1> QED
  BY <1>2, <1>5, <1>7, <1>8, <1>9 DEF Else

\* What a cell says of the value it was made from: the three parts of InstantNearExact;
\* null for a product that is too far beyond the limit; and, if no integer was read,
\* a function of the product.
CellFor(cell, v) ==
  /\ v.int # None /\ Exact(v) \div Scale \in I64 => cell = Some(Exact(v) \div Scale)
  /\ SameUnit(v) => \A n \in cell : Near(n * Scale, Exact(v))
  /\ cell = None => Abs(Exact(v)) + Spacing(Exact(v)) >= Limit
  /\ SameUnit(v) /\ Abs(Exact(v)) > Limit + 2 * Spacing(Exact(v)) => cell = None
  /\ v.int = None /\ Exact(v) \in -Limit .. (IntLimit - 1) * Scale => cell = FloatPath(Exact(v))

LEMMA ExactIs ==
  ASSUME NEW v \in Value, Amount(v) \in Int
  PROVE  Exact(v) = Amount(v) * UnitOf(Amount(v)) /\ Exact(v) \in Int
BY UnitIs DEF Exact, UnitOf

LEMMA IntegerCellFor ==
  ASSUME NEW v \in Value, Numeric(v), NEW n \in v.int
  PROVE  CellFor(timestamp_value_nanos(v), v)
<1> DEFINE cell == timestamp_value_nanos(v)
           a == n * Scale
           m == UnitOf(a)
           e == Exact(v)
           x == Float(n)
           p == n * m
<1>1. n \in I64 /\ Amount(v) = a /\ v.float = {x} /\ v.int # None
  BY IntegerCell
<1>2. cell = Else(epoch_int_nanos(n), epoch_float_nanos(x))
  BY IntegerCell
<1>3. IntLimit \in Nat /\ IntLimit > 0
  BY EpochAssumption
<1>4. n \in Int
  BY <1>1, <1>3 DEF I64
<1>5. a \in Int /\ m = epoch_unit_multiplier(Abs(n))
  BY <1>4, WholeUnit
<1>6. epoch_int_nanos(n) = IF p \in I64 THEN Some(p) ELSE None
  BY <1>1, <1>5, IntNanosExact
<1>7. e = a * m /\ e \in Int
  BY <1>1, <1>5, ExactIs
<1>8. m \in Nat /\ m > 0
  BY <1>5, UnitIs
<1>9. x = Rounded(a)
  BY DEF Float
<1>10. SameUnit(v) => UnitOf(x) = m
  BY <1>1 DEF SameUnit, UnitOf
<1> HIDE DEF cell, e, x, m
<1>11. p \in Int /\ e = p * Scale
  BY <1>4, <1>7, <1>8, LimitIs
<1> HIDE DEF a, p
<1>12. e \div Scale = p
  BY <1>11, LimitIs
<1>13. Spacing(e) \in Nat /\ Spacing(e) > 0
  BY <1>7, SpacingIs
<1>14. CASE p \in I64
  <2>1. cell = Some(p)
    BY <1>2, <1>6, <1>14 DEF Else, Some, None
  <2>2. Near(p * Scale, e)
    <3>1. Abs(e - e) = 0
      BY <1>7 DEF Abs
    <3> QED
      BY <1>11, <1>13, <3>1, LimitIs DEF Near
  <2>3. -IntLimit <= p /\ p <= IntLimit - 1
    BY <1>3, <1>14 DEF I64
  <2>4. (-IntLimit) * Scale <= e /\ e <= IntLimit * Scale
    BY <1>3, <1>11, <2>3, LimitIs
  <2>5. (-IntLimit) * Scale = -Limit
    BY <1>3, LimitIs DEF Limit
  <2>6. Abs(e) <= Limit
    BY <1>7, <2>4, <2>5, LimitIs DEF Abs, Limit
  <2>7. ~(Abs(e) > Limit + 2 * Spacing(e))
    BY <1>7, <1>13, <2>6, LimitIs, SpacingIs
  <2> QED
    BY <1>1, <1>12, <2>1, <2>2, <2>7 DEF CellFor, Some, None, cell, e
<1>15. CASE p \notin I64
  <2>1. cell = epoch_float_nanos(x)
    BY <1>2, <1>6, <1>15 DEF Else, None
  <2>2. p >= IntLimit \/ p <= -IntLimit - 1
    BY <1>3, <1>11, <1>15 DEF I64
  <2>3. Abs(e) >= Limit
    <3>1. CASE p >= IntLimit
      <4>1. e >= Limit
        BY <1>3, <1>11, <3>1, LimitIs DEF Limit
      <4> QED
        BY <1>7, <4>1, LimitIs DEF Abs
    <3>2. CASE p <= -IntLimit - 1
      <4>1. e <= (-IntLimit - 1) * Scale
        BY <1>3, <1>11, <3>2, LimitIs
      <4>2. (-IntLimit - 1) * Scale = -Limit - Scale
        BY <1>3, LimitIs DEF Limit
      <4> QED
        BY <1>7, <4>1, <4>2, LimitIs DEF Abs
    <3> QED
      BY <2>2, <3>1, <3>2
  <2>4. Abs(e) + Spacing(e) >= Limit
    BY <1>7, <1>13, <2>3, LimitIs, SpacingIs
  <2>5. ASSUME SameUnit(v)
        PROVE  /\ \A k \in cell : k \in Int /\ Near(k * Scale, e)
               /\ Abs(e) > Limit + 2 * Spacing(e) => cell = None
    <3> DEFINE y == x * m
    <3>1. x \in Int
      BY <1>5, <1>9, RoundedIsNear
    <3>2. Tracks(cell, y)
      BY <1>10, <2>1, <2>5, <3>1, FloatNanosTrack
    <3>3. y \in Int /\ Abs(y - e) < Spacing(e) /\ Spacing(y) <= 2 * Spacing(e)
      BY <1>5, <1>7, <1>8, <1>9, MultipleOfRounded
    <3> HIDE DEF y
    <3> QED
      BY <1>7, <3>2, <3>3, TracksNearby
  <2> QED
    BY <1>1, <1>12, <1>15, <2>4, <2>5 DEF CellFor, cell, e
<1> QED
  BY <1>14, <1>15

LEMMA FractionCellFor ==
  ASSUME NEW v \in Value, Numeric(v), v.int = None
  PROVE  CellFor(timestamp_value_nanos(v), v)
<1> DEFINE cell == timestamp_value_nanos(v)
           x == Amount(v)
           e == Exact(v)
<1>1. x \in Int /\ cell = epoch_float_nanos(x)
  BY FractionCell
<1>2. e = x * UnitOf(x) /\ e \in Int
  BY <1>1, ExactIs
<1>3. Abs(e) >= Abs(x)
  BY <1>1, <1>2, UnitIs
<1>4. Tracks(cell, e)
  BY <1>1, <1>2, FloatNanosTrack
<1>5. Abs(x) < Infinite => cell = FloatPath(e)
  BY <1>1, <1>2, FloatNanosIs
<1> HIDE DEF cell, x, e
<1>6. Spacing(e) \in Nat /\ Spacing(e) > 0 /\ Abs(e) \in Nat /\ Abs(x) \in Nat
  BY <1>1, <1>2, SpacingIs
<1>7. ASSUME NEW n \in cell
      PROVE  Near(n * Scale, e)
  <2>1. n \in Int /\ 2 * Abs(n * Scale - e) <= Spacing(e) + 3 * Scale
    BY <1>4, <1>7 DEF Tracks
  <2> DEFINE t == n * Scale
  <2>2. t \in Int
    BY <2>1, LimitIs
  <2> HIDE DEF t
  <2>3. 2 * Abs(t - e) <= Spacing(e) + 3 * Scale
    BY <2>1 DEF t
  <2>4. Abs(t - e) <= 2 * Spacing(e) + 2 * Scale
    BY <1>2, <1>6, <2>2, <2>3, LimitIs DEF Abs
  <2> QED
    BY <2>4 DEF t, Near
<1>8. cell = None => Abs(e) + Spacing(e) >= Limit
  BY <1>4 DEF Tracks
<1>9. Abs(e) > Limit + 2 * Spacing(e) => cell = None
  <2>1. Abs(e) > Limit + 2 * Spacing(e) => 2 * Abs(e) > 2 * Limit + Spacing(e)
    BY <1>6, LimitIs
  <2> QED
    BY <1>4, <2>1 DEF Tracks
<1>10. e \in -Limit .. (IntLimit - 1) * Scale => Abs(x) < Infinite
  <2>1. (IntLimit - 1) * Scale = Limit - Scale
    BY EpochAssumption, LimitIs DEF Limit
  <2> QED
    BY <1>2, <1>3, <1>6, <2>1, LimitIs DEF Abs
<1> QED
  BY <1>5, <1>7, <1>8, <1>9, <1>10 DEF CellFor, cell, e

\* Every cell of a numeric timestamp is as CellFor says.
LEMMA CellIsFor ==
  ASSUME NEW v \in Value, Numeric(v)
  PROVE  CellFor(timestamp_value_nanos(v), v)
<1>1. CASE v.int = None
  BY <1>1, FractionCellFor
<1>2. CASE v.int # None
  <2>1. PICK n \in v.int : TRUE
    BY <1>2 DEF None
  <2> QED
    BY <2>1, IntegerCellFor
<1> QED
  BY <1>1, <1>2

\* The one integer whose float leaves its unit in the code: the largest number of
\* microseconds, where floats are two apart (10^16 - 1 lies between 2^53 and 2^54), is
\* halfway between two floats and is rounded to the even one, which is the first
\* number of nanoseconds.  Its product overflows, so its float is tried, and it becomes
\* that many nanoseconds.
THEOREM LargestMicrosBecomeNanos ==
  ASSUME NEW n \in Nat, n + 1 = SecLimit * Kilo * Kilo, n % 4 = 3,
         n * Kilo >= IntLimit, n + 1 < IntLimit,
         Spacing(n * Scale) = 2 * Scale, Rounded((n + 1) * Scale) = (n + 1) * Scale,
         NEW v \in Value, Numeric(v), n \in v.int
  PROVE  timestamp_value_nanos(v) = Some(n + 1)
<1> DEFINE a == n * Scale
           x == (n + 1) * Scale
           h == SecLimit * Kilo * Kilo
           g == SecLimit * Kilo
<1>1. Scale \in Nat /\ Scale > 0 /\ Kilo \in Nat /\ Kilo > 0 /\ IntLimit \in Nat /\ IntLimit > 0
  BY LimitIs, EpochAssumption
<1>2. a \in Nat /\ x \in Nat /\ x = a + Scale
  BY <1>1
<1>3. SecLimit <= g /\ g <= h /\ g \in Nat /\ h \in Nat /\ SecLimit \in Nat
  <2>1. g \in Nat /\ h \in Nat /\ h = g * Kilo
    BY Positive
  <2>2. SecLimit <= g
    BY Positive
  <2>3. g <= h
    BY Positive, <2>1
  <2> QED
    BY <2>1, <2>2, <2>3, Positive
<1>4. Float(n) = x
  <2> DEFINE s == 2 * Scale
             q == a \div s
             t == n \div 4
  <2>1. t \in Nat /\ n = 4 * t + 3
    OBVIOUS
  <2> HIDE DEF t
  <2>2. s \in Nat /\ s > 0 /\ a = s * (2 * t + 1) + Scale
    BY <1>1, <2>1
  <2>3. q = 2 * t + 1 /\ a % s = Scale
    <3> DEFINE c == 2 * t + 1
    <3>1. c \in Nat /\ a = s * c + Scale /\ Scale < s
      BY <1>1, <2>1, <2>2
    <3> HIDE DEF c, s, a
    <3>2. a \div s = c /\ a % s = Scale
      BY <1>1, <1>2, <2>2, <3>1
    <3> QED
      BY <3>2 DEF c
  <2>4. q % 2 = 1
    BY <2>1, <2>3
  <2>5. Abs(a) = a /\ ~(a < 0)
    BY <1>2 DEF Abs
  <2>6. 2 * (a % s) = s
    BY <2>3
  <2>7. Spacing(a) = s
    OBVIOUS
  <2>8. Rounded(a) = 1 * (q + 1) * s
    <3> HIDE DEF a, s
    <3> QED
      BY <2>4, <2>5, <2>6, <2>7 DEF Rounded
  <2>9. 1 * (q + 1) * s = x
    <3>1. 1 * (q + 1) * s = (2 * t + 2) * (2 * Scale)
      BY <1>1, <2>1, <2>3
    <3>2. (2 * t + 2) * (2 * Scale) = (n + 1) * Scale
      BY <1>1, <2>1
    <3> QED
      BY <3>1, <3>2
  <2> QED
    BY <2>8, <2>9 DEF Float
<1>5. epoch_int_nanos(n) = None
  <2>1. Abs(n) = n /\ n \in I64
    BY <1>1 DEF Abs, I64
  <2>2. epoch_unit_multiplier(n) >= Kilo /\ epoch_unit_multiplier(n) \in Nat
    <3>1. Kilo * Kilo \in Nat /\ Kilo * Kilo >= Kilo
      BY <1>1
    <3>2. Kilo * Kilo * Kilo \in Nat /\ Kilo * Kilo * Kilo >= Kilo
      <4> DEFINE z == Kilo * Kilo
      <4>1. z \in Nat /\ z >= 1
        BY <1>1, <3>1
      <4> HIDE DEF z
      <4>2. z * Kilo \in Nat /\ z * Kilo >= Kilo
        BY <1>1, <4>1
      <4> QED
        BY <4>2 DEF z
    <3>3. n < h
      BY <1>3
    <3> QED
      BY <1>1, <3>1, <3>2, <3>3 DEF epoch_unit_multiplier
  <2> DEFINE m == epoch_unit_multiplier(n)
  <2> HIDE DEF m
  <2>3. n * m >= n * Kilo /\ n * m \in Nat
    BY <1>1, <2>2 DEF m
  <2>4. n * m \notin I64
    BY <1>1, <2>3 DEF I64
  <2> QED
    BY <2>1, <2>4, IntNanosExact DEF m
<1>6. UnitOf(x) = 1
  <2>1. Abs(n + 1) = n + 1
    BY DEF Abs
  <2>2. UnitOf(x) = epoch_unit_multiplier(n + 1)
    BY <2>1, WholeUnit
  <2>3. epoch_unit_multiplier(h) = 1
    BY <1>3 DEF epoch_unit_multiplier
  <2> QED
    BY <2>2, <2>3
<1>7. epoch_float_nanos(x) = Some(n + 1)
  <2>1. x * UnitOf(x) = x
    BY <1>2, <1>6
  <2>2. x <= Limit
    BY <1>1 DEF Limit
  <2>3. Abs(x) = x
    BY <1>2 DEF Abs
  <2>4. epoch_float_nanos(x) = FloatPath(x)
    BY <1>2, <2>1, <2>2, <2>3, LimitIs, FloatNanosIs
  <2>5. Nearest(x) = n + 1
    <3> DEFINE c == Nearest(x)
    <3>1. c \in Int /\ 2 * Abs(c * Scale - (n + 1) * Scale) <= Scale
      BY <1>2, NearestIsNear
    <3> HIDE DEF c
    <3> DEFINE d == c - (n + 1)
    <3>2. d \in Int /\ c * Scale - (n + 1) * Scale = d * Scale
      BY <1>1, <3>1
    <3> HIDE DEF d
    <3>3. Abs(d * Scale) = Abs(d) * Scale /\ Abs(d) \in Nat
      BY <1>1, <3>2, AbsTimes, SpacingIs
    <3>4. Abs(d) = 0
      <4>1. SUFFICES ASSUME Abs(d) >= 1 PROVE FALSE
        BY <3>3
      <4>2. Abs(d) * Scale >= 1 * Scale
        BY <1>1, <3>3, <4>1
      <4> QED
        BY <1>1, <3>1, <3>2, <3>3, <4>2
    <3>5. d = 0
      BY <3>2, <3>4 DEF Abs
    <3> QED
      BY <3>1, <3>5 DEF c, d
  <2>6. Saturate(n + 1) = n + 1
    BY <1>1 DEF Saturate
  <2>7. ~(Abs(x) >= Infinite \/ x < -Limit \/ x > Limit)
    BY <1>2, <2>2, <2>3, LimitIs
  <2> HIDE DEF x
  <2>8. FloatPath(x) = Some(Saturate(Nearest(x)))
    <3>1. Rounded(x) = x
      BY DEF x
    <3> QED
      BY <2>7, <3>1, LimitIs DEF FloatPath
  <2> QED
    BY <2>4, <2>5, <2>6, <2>8
<1> QED
  BY <1>4, <1>5, <1>7, IntegerCell DEF Else

------------------------------------------------------------------------------
(* One instant in two units.                                                *)

\* Two amounts Kilo apart, in the ranges of units Kilo apart, have one product.
LEMMA UnitsMakeOneProduct ==
  ASSUME NEW a \in Int, a % Scale = 0,
         Abs(a * Kilo) >= SecLimit * Scale, Abs(a) < SecLimit * Kilo * Kilo * Scale
  PROVE  a * UnitOf(a) = (a * Kilo) * UnitOf(a * Kilo)
<1> DEFINE k == Abs(a) \div Scale
           h == SecLimit * Kilo * Kilo
           j == k * Kilo
           b == a * Kilo
<1>1. Scale \in Nat /\ Scale > 0 /\ Kilo \in Nat /\ Kilo > 0 /\ SecLimit \in Nat /\ h \in Nat
  BY Positive, LimitIs
<1>2. Abs(a) \in Nat /\ b \in Int /\ Abs(b) = Abs(a) * Kilo
  BY <1>1, SpacingIs, AbsTimes
<1>3. k \in Nat /\ Abs(a) = k * Scale
  <2> DEFINE t == a \div Scale
             u == Abs(a)
  <2>1. t \in Int /\ a = Scale * t
    BY <1>1
  <2> HIDE DEF t
  <2>2. u = Scale * t \/ u = Scale * (-t)
    BY <1>1, <2>1 DEF Abs
  <2>3. PICK z \in Int : u = Scale * z
    BY <2>1, <2>2
  <2> HIDE DEF u
  <2>4. u \div Scale = z
    BY <1>1, <2>3
  <2>5. u \in Nat
    BY <1>2 DEF u
  <2>6. z >= 0
    <3>1. SUFFICES ASSUME z <= -1 PROVE FALSE
      BY <2>3
    <3>2. Scale * z <= Scale * (-1)
      BY <1>1, <2>3, <3>1
    <3> QED
      BY <1>1, <2>3, <2>5, <3>2
  <2> QED
    BY <1>1, <2>3, <2>4, <2>6 DEF u
<1> HIDE DEF k, h
<1>4. j \in Nat /\ Abs(b) = j * Scale
  BY <1>1, <1>2, <1>3
<1> HIDE DEF b, j
<1>5. Abs(b) \div Scale = j
  BY <1>1, <1>4
<1>6. j >= SecLimit
  <2>1. SUFFICES ASSUME j < SecLimit PROVE FALSE
    BY <1>1, <1>4
  <2>2. j * Scale < SecLimit * Scale
    BY <1>1, <1>4, <2>1, TimesKeepsOrder
  <2> QED
    BY <1>1, <1>4, <2>2 DEF b
<1>7. k < h
  <2>1. k * Scale < h * Scale
    BY <1>3 DEF h
  <2> QED
    BY <1>1, <1>3, <2>1, TimesKeepsOrder
<1>8. k * epoch_unit_multiplier(k) = (k * Kilo) * epoch_unit_multiplier(k * Kilo)
  BY <1>3, <1>6, <1>7, UnitsMakeOneInstant DEF j, h
<1> DEFINE m == epoch_unit_multiplier(k)
           l == epoch_unit_multiplier(j)
<1>9. UnitOf(a) = m
  BY <1>3, SaturatedUnit DEF UnitOf, k
<1>10. UnitOf(b) = l
  BY <1>4, <1>5, SaturatedUnit DEF UnitOf
<1>11. m \in Nat /\ l \in Nat
  BY <1>3, <1>4, MultiplierPositive
<1>12. k * m = j * l
  BY <1>8 DEF j
<1> HIDE DEF m, l
<1>13. (k * Scale) * m = (j * Scale) * l
  <2>1. (k * Scale) * m = (k * m) * Scale
    BY <1>1, <1>3, <1>11
  <2>2. (j * Scale) * l = (j * l) * Scale
    BY <1>1, <1>4, <1>11
  <2> QED
    BY <1>12, <2>1, <2>2
<1>14. Abs(a) * m = Abs(b) * l
  BY <1>3, <1>4, <1>13
<1>15. (a >= 0 => b >= 0) /\ (a < 0 => b <= 0)
  BY <1>1 DEF b
<1>16. CASE a >= 0
  <2>1. Abs(a) = a /\ Abs(b) = b
    BY <1>2, <1>15, <1>16 DEF Abs
  <2> QED
    BY <1>9, <1>10, <1>14, <2>1 DEF b
<1>17. CASE a < 0
  <2>1. Abs(a) = -a /\ Abs(b) = -b
    BY <1>2, <1>15, <1>17 DEF Abs
  <2>2. (-a) * m = -(a * m) /\ (-b) * l = -(b * l) /\ a * m \in Int /\ b * l \in Int
    BY <1>2, <1>11
  <2>3. a * m = b * l
    BY <1>14, <2>1, <2>2
  <2> QED
    BY <1>9, <1>10, <2>3 DEF b
<1> QED
  BY <1>16, <1>17

\* Within the limits the whole part fits i64.
LEMMA WithinLimits ==
  ASSUME NEW e \in -Limit .. (IntLimit - 1) * Scale
  PROVE  e \div Scale \in I64
<1> DEFINE q == e \div Scale
<1>1. Scale \in Nat /\ Scale > 0 /\ IntLimit \in Nat /\ IntLimit > 0
  BY LimitIs, EpochAssumption
<1>2. (IntLimit - 1) * Scale \in Int /\ -Limit = (-IntLimit) * Scale
  BY <1>1 DEF Limit
<1>3. e \in Int /\ (-IntLimit) * Scale <= e /\ e <= (IntLimit - 1) * Scale
  BY <1>2, LimitIs
<1>4. q \in Int /\ Scale * q <= e /\ e < Scale * q + Scale
  BY <1>1, <1>3
<1> HIDE DEF q
<1>5. q < IntLimit
  <2>1. SUFFICES ASSUME q >= IntLimit PROVE FALSE
    BY <1>1, <1>4
  <2>2. Scale * q >= IntLimit * Scale
    BY <1>1, <1>4, <2>1
  <2>3. (IntLimit - 1) * Scale = IntLimit * Scale - Scale /\ IntLimit * Scale \in Int /\ Scale * q \in Int
    BY <1>1, <1>4
  <2> QED
    BY <1>1, <1>3, <1>4, <2>2, <2>3
<1>6. q >= -IntLimit
  <2>1. SUFFICES ASSUME q + 1 <= -IntLimit PROVE FALSE
    BY <1>1, <1>4
  <2>2. Scale * (q + 1) <= (-IntLimit) * Scale
    BY <1>1, <1>4, <2>1
  <2>3. Scale * (q + 1) = Scale * q + Scale /\ Scale * q \in Int
    BY <1>1, <1>4
  <2> QED
    BY <1>1, <1>3, <1>4, <2>2, <2>3
<1> QED
  BY <1>1, <1>4, <1>5, <1>6 DEF I64, q

\* The cells of one instant in two units are the same.
LEMMA OneInstantOneCell ==
  ASSUME NEW v \in Value, NEW w \in Value, Numeric(v), Numeric(w),
         Amount(w) = Amount(v) * Kilo, Amount(v) % Scale = 0,
         Abs(Amount(w)) >= SecLimit * Scale,
         Abs(Amount(v)) < SecLimit * Kilo * Kilo * Scale,
         SameUnit(v), SameUnit(w), Alike(v, w)
  PROVE  timestamp_value_nanos(v) = timestamp_value_nanos(w)
<1> DEFINE c == timestamp_value_nanos(v)
           d == timestamp_value_nanos(w)
           e == Exact(v)
<1>1. Amount(v) \in Int /\ Amount(w) \in Int
  <2>1. ASSUME NEW u \in Value, Numeric(u)
        PROVE  Amount(u) \in Int
    <3>1. CASE u.int = None
      BY <2>1, <3>1, FractionCell
    <3>2. CASE u.int # None
      <4>1. PICK n \in u.int : TRUE
        BY <3>2 DEF None
      <4>2. n \in Int /\ Amount(u) = n * Scale
        BY <2>1, <4>1, IntegerCell, EpochAssumption DEF I64
      <4> QED
        BY <4>2, LimitIs
    <3> QED
      BY <3>1, <3>2
  <2> QED
    BY <2>1
<1>2. e \in Int /\ e = Exact(w)
  <2>1. e = Amount(v) * UnitOf(Amount(v)) /\ e \in Int
    BY <1>1, ExactIs
  <2>2. Exact(w) = Amount(w) * UnitOf(Amount(w))
    BY <1>1, ExactIs
  <2>3. Amount(v) * UnitOf(Amount(v)) = (Amount(v) * Kilo) * UnitOf(Amount(v) * Kilo)
    BY <1>1, UnitsMakeOneProduct
  <2> QED
    BY <2>1, <2>2, <2>3
<1>3. CellFor(c, v) /\ CellFor(d, w)
  BY CellIsFor
<1> HIDE DEF c, d
<1>4. CASE Abs(e) > IntLimit * Scale + 2 * Spacing(e)
  <2>1. Abs(e) > Limit + 2 * Spacing(e)
    BY <1>4 DEF Limit
  <2> HIDE DEF e
  <2>2. c = None
    BY <1>3, <2>1 DEF CellFor, e
  <2>3. d = None
    BY <1>2, <1>3, <2>1 DEF CellFor
  <2> QED
    BY <2>2, <2>3 DEF c, d
<1>5. CASE /\ e \in -(IntLimit * Scale) .. (IntLimit - 1) * Scale
           /\ v.int = None <=> w.int = None
  <2>1. e \in -Limit .. (IntLimit - 1) * Scale
    BY <1>5 DEF Limit
  <2> HIDE DEF e
  <2>2. CASE v.int = None
    <3>1. c = FloatPath(e)
      BY <1>3, <2>1, <2>2 DEF CellFor, e
    <3>2. d = FloatPath(e)
      BY <1>2, <1>3, <1>5, <2>1, <2>2 DEF CellFor
    <3> QED
      BY <3>1, <3>2 DEF c, d
  <2>3. CASE v.int # None
    <3>1. e \div Scale \in I64
      BY <2>1, WithinLimits
    <3>2. c = Some(e \div Scale)
      BY <1>3, <2>3, <3>1 DEF CellFor, e
    <3>3. d = Some(e \div Scale)
      BY <1>2, <1>3, <1>5, <2>3, <3>1 DEF CellFor
    <3> QED
      BY <3>2, <3>3 DEF c, d
  <2> QED
    BY <2>2, <2>3
<1> QED
  BY <1>4, <1>5 DEF Alike

------------------------------------------------------------------------------
(* Columns.                                                                 *)

\* What a column holds: values of lines, and the null of a missing field.
Read == Value \cup {NullValue}

\* Where the reader is, and that every column is a sequence of JSON values: as many
\* for each line read as fields share the column.
Inv ==
  /\ schema \in Schemas
  /\ lines \in Inputs
  /\ line \in 1..(Len(lines) + 1)
  /\ columns \in [{schema[i].name : i \in 1..Len(schema)} -> Seq(Read)]
  /\ ColumnsInStep

\* What a line says of a field, or a null, is pushed once for every field of the name.
LEMMA PushedValues ==
  ASSUME NEW object \in [Names -> SUBSET Value], NEW name \in Names, Multiplicity(name) \in Nat
  PROVE  Pushed(name, object) \in Seq(Read) /\ Len(Pushed(name, object)) = Multiplicity(name)
<1> DEFINE v == CHOOSE v \in Else(object[name], Some(NullValue)) : TRUE
<1>1. object[name] \subseteq Value
  OBVIOUS
<1>2. Else(object[name], Some(NullValue)) # {} /\ Else(object[name], Some(NullValue)) \subseteq Read
  BY <1>1 DEF Else, Some, None, Read
<1>3. v \in Read
  BY <1>2
<1>4. Pushed(name, object) = [i \in 1..Multiplicity(name) |-> v]
  BY DEF Pushed
<1>5. ASSUME NEW n \in Nat, NEW x \in Read
      PROVE  [i \in 1..n |-> x] \in Seq(Read) /\ Len([i \in 1..n |-> x]) = n
  OBVIOUS
<1> HIDE DEF v
<1>6. QED
  BY <1>3, <1>4, <1>5

LEMMA MultiplicityIsNat ==
  ASSUME schema \in Schemas, NEW name
  PROVE  Multiplicity(name) \in Nat
<1>1. Len(schema) \in Nat
  BY SchemasAssumption
<1>2. IsFiniteSet(1..Len(schema))
  BY <1>1, FS_Interval
<1>3. IsFiniteSet({i \in 1..Len(schema) : schema[i].name = name})
  BY <1>2, FS_Subset
<1>4. QED
  BY <1>3, FS_CardinalityType DEF Multiplicity

\* One line more in every column.
LEMMA ParseLineKeepsStep ==
  ASSUME Inv, ParseLine
  PROVE  Inv'
<1> DEFINE D == {schema[i].name : i \in 1..Len(schema)}
           object == lines[line].object
<1>1. lines \in Seq(Line) /\ line \in 1..Len(lines) /\ object \in [Names -> SUBSET Value]
  <2>1. lines \in Seq(Line)
    BY InputsAssumption DEF Inv
  <2>2. line \in 1..Len(lines)
    BY <2>1 DEF Inv, ParseLine
  <2>3. lines[line] \in Line
    BY <2>1, <2>2
  <2>4. QED
    BY <2>1, <2>2, <2>3 DEF Line
<1>2. D \subseteq Names
  BY DEF Names, Inv
<1>3. \A name \in D :
        /\ Multiplicity(name) \in Nat
        /\ columns[name] \in Seq(Read)
        /\ Len(columns[name]) = (line - 1) * Multiplicity(name)
        /\ Pushed(name, object) \in Seq(Read)
        /\ Len(Pushed(name, object)) = Multiplicity(name)
  <2> TAKE name \in D
  <2>1. Multiplicity(name) \in Nat
    BY MultiplicityIsNat DEF Inv
  <2>2. Pushed(name, object) \in Seq(Read) /\ Len(Pushed(name, object)) = Multiplicity(name)
    BY <1>1, <1>2, <2>1, PushedValues
  <2>3. columns[name] \in Seq(Read) /\ Len(columns[name]) = (line - 1) * Multiplicity(name)
    BY DEF Inv, ColumnsInStep
  <2>4. QED
    BY <2>1, <2>2, <2>3
<1>4. columns' = [name \in D |-> columns[name] \o Pushed(name, object)]
  BY DEF Inv, ParseLine
<1>5. schema' = schema /\ lines' = lines /\ line' = line + 1
  BY DEF ParseLine
<1>6. line' \in 1..(Len(lines') + 1)
  BY <1>1, <1>5
<1>7. columns' \in [D -> Seq(Read)]
  BY <1>3, <1>4
<1>8. \A name \in D : Len(columns'[name]) = (line' - 1) * Multiplicity(name)
  <2> TAKE name \in D
  <2>1. Len(columns'[name]) = Len(columns[name]) + Len(Pushed(name, object))
    <3>1. columns'[name] = columns[name] \o Pushed(name, object)
      BY <1>4, Zenon
    <3>2. ASSUME NEW x \in Seq(Read), NEW y \in Seq(Read)
          PROVE  Len(x \o y) = Len(x) + Len(y)
      OBVIOUS
    <3>3. columns[name] \in Seq(Read) /\ Pushed(name, object) \in Seq(Read)
      BY <1>3
    <3>4. QED
      BY <3>1, <3>2, <3>3, Zenon
  <2>2. Len(columns'[name]) = (line - 1) * Multiplicity(name) + Multiplicity(name)
    BY <1>3, <2>1
  <2>3. (line - 1) * Multiplicity(name) + Multiplicity(name) = line * Multiplicity(name)
    BY <1>1, <1>3
  <2>4. line' - 1 = line
    BY <1>1, <1>5
  <2>5. QED
    BY <2>2, <2>3, <2>4
<1>9. \A name : Multiplicity(name)' = Multiplicity(name)
  BY <1>5 DEF Multiplicity
<1>10. ColumnsInStep'
  BY <1>5, <1>7, <1>8, <1>9 DEF ColumnsInStep
<1>11. QED
  BY <1>5, <1>6, <1>7, <1>10 DEF Inv

LEMMA InvHolds == Spec => []Inv
<1>1. ASSUME Init PROVE Inv
  <2>1. /\ schema \in Schemas /\ lines \in Inputs /\ line = 1
        /\ columns = [name \in {schema[i].name : i \in 1..Len(schema)} |-> <<>>]
    BY <1>1 DEF Init
  <2>2. line \in 1..(Len(lines) + 1)
    BY <2>1, InputsAssumption
  <2>3. ColumnsInStep
    <3> SUFFICES ASSUME NEW name \in DOMAIN columns
                 PROVE  Len(columns[name]) = (line - 1) * Multiplicity(name)
      BY DEF ColumnsInStep
    <3>1. Multiplicity(name) \in Nat
      BY <2>1, MultiplicityIsNat
    <3>2. Len(columns[name]) = 0
      BY <2>1
    <3>3. QED
      BY <2>1, <3>1, <3>2
  <2>4. QED
    BY <2>1, <2>2, <2>3 DEF Inv
<1>2. ASSUME Inv, [Next]_vars PROVE Inv'
  <2>1. CASE ParseLine
    BY <1>2, <2>1, ParseLineKeepsStep
  <2>2. ASSUME UNCHANGED <<schema, lines, line, columns>> PROVE Inv'
    BY <1>2, <2>2 DEF Inv, ColumnsInStep, Multiplicity
  <2>3. CASE ReturnNone
    BY <2>2, <2>3 DEF ReturnNone
  <2>4. CASE RejectLine
    BY <2>2, <2>4 DEF RejectLine
  <2>5. CASE Build
    BY <2>2, <2>5 DEF Build
  <2>6. CASE UNCHANGED vars
    BY <2>2, <2>6 DEF vars
  <2>7. QED
    BY <1>2, <2>1, <2>3, <2>4, <2>5, <2>6 DEF Next
<1>3. QED
  BY <1>1, <1>2, PTL DEF Spec

\* However many lines are read and whatever they lack, every column has one value a
\* line for each field that shares it (ndjson_to_record_batch's two loops).
THEOREM ColumnsAlwaysInStep == Spec => []ColumnsInStep
<1>1. Inv => ColumnsInStep
  BY DEF Inv
<1>2. QED
  BY <1>1, InvHolds, PTL

------------------------------------------------------------------------------
(* Rows and lines.                                                          *)

\* The k values of line q + 1 are at the places q * k + 1 to q * k + k.
LEMMA PlaceOfLine ==
  ASSUME NEW q \in Nat, NEW k \in Nat, k > 0, NEW i \in 1..k
  PROVE  ((q * k + i) - 1) \div k = q
<1>1. q * k \in Nat
  OBVIOUS
<1>2. (q * k + i) - 1 = q * k + (i - 1) /\ i - 1 \in 0..(k - 1)
  BY <1>1
<1>3. ASSUME NEW j \in 0..(k - 1)
      PROVE  (q * k + j) \div k = q
  OBVIOUS
<1> QED
  BY <1>2, <1>3

\* What is at place r comes of one of the n lines.
LEMMA LineOfPlace ==
  ASSUME NEW n \in Nat, NEW k \in Nat, k > 0, NEW r \in 1..(n * k)
  PROVE  (r - 1) \div k + 1 \in 1..n
<1> DEFINE q == (r - 1) \div k
           m == (r - 1) % k
<1>1. n * k \in Nat /\ r - 1 \in Nat /\ r - 1 < n * k
  OBVIOUS
<1>2. q \in Int /\ m \in 0..(k - 1) /\ r - 1 = q * k + m
  BY <1>1
<1> HIDE DEF q, m
<1>3. q * k \in Int /\ q * k > -k /\ q * k < n * k
  BY <1>1, <1>2
<1>4. q >= 0
  <2>1. ASSUME q <= -1
        PROVE  q * k <= -k
    BY <1>2, <2>1
  <2> QED
    BY <1>2, <1>3, <2>1
<1>5. q < n
  <2>1. ASSUME q >= n
        PROVE  q * k >= n * k
    BY <1>2, <2>1
  <2> QED
    BY <1>2, <1>3, <2>1
<1> QED
  BY <1>2, <1>4, <1>5 DEF q

LEMMA SharedByOne ==
  ASSUME schema \in Schemas, NEW i \in 1..Len(schema)
  PROVE  Multiplicity(schema[i].name) \in Nat /\ Multiplicity(schema[i].name) > 0
<1> DEFINE S == {j \in 1..Len(schema) : schema[j].name = schema[i].name}
<1>1. Len(schema) \in Nat
  BY SchemasAssumption
<1>2. IsFiniteSet(S)
  <2>1. IsFiniteSet(1..Len(schema))
    BY <1>1, FS_Interval
  <2> QED
    BY <2>1, FS_Subset
<1>3. S # {}
  OBVIOUS
<1>4. Multiplicity(schema[i].name) = Cardinality(S)
  BY DEF Multiplicity
<1> HIDE DEF S
<1>5. Cardinality(S) \in Nat /\ Cardinality(S) # 0
  BY <1>2, <1>3, FS_CardinalityType, FS_EmptySet
<1> QED
  BY <1>4, <1>5

\* A column holds what its lines say, each line's value as often as fields share it.
ColumnsHold ==
  \A name \in DOMAIN columns : \A r \in 1..Len(columns[name]) :
    columns[name][r] = ValueOf(lines[(r - 1) \div Multiplicity(name) + 1], name)

\* No line that was read is without an object.
ReadIsValid == \A r \in 1..(line - 1) : lines[r].valid

RowInv == Inv /\ ColumnsHold /\ ReadIsValid /\ RowPerLine /\ OutcomeHasCause

LEMMA ParseLineKeepsRows ==
  ASSUME Inv, ColumnsHold, ReadIsValid, ParseLine
  PROVE  ColumnsHold' /\ ReadIsValid'
<1> DEFINE object == lines[line].object
<1>1. schema \in Schemas /\ line \in Nat /\ line > 0 /\ lines \in Seq(Line)
      /\ line \in 1..Len(lines)
  BY InputsAssumption DEF Inv, ParseLine
<1>2. /\ schema' = schema /\ lines' = lines /\ line' = line + 1 /\ lines[line].valid
      /\ DOMAIN columns' = DOMAIN columns
      /\ \A name \in DOMAIN columns : columns'[name] = columns[name] \o Pushed(name, object)
  BY DEF ParseLine
<1>3. ReadIsValid'
  BY <1>1, <1>2 DEF ReadIsValid
<1>4. ASSUME NEW name \in DOMAIN columns, NEW r \in 1..Len(columns'[name])
      PROVE  columns'[name][r] = ValueOf(lines[(r - 1) \div Multiplicity(name) + 1], name)
  <2> DEFINE k == Multiplicity(name)
             old == columns[name]
             new == Pushed(name, object)
  <2>1. PICK f \in 1..Len(schema) : schema[f].name = name
    BY DEF Inv
  <2>2. k \in Nat /\ k > 0
    BY <1>1, <2>1, SharedByOne
  <2>3. name \in Names
    BY <1>1, <2>1 DEF Names
  <2>4. object \in [Names -> SUBSET Value]
    <3>1. lines[line] \in Line
      BY <1>1
    <3> QED
      BY <3>1 DEF Line
  <2>5. new \in Seq(Read) /\ Len(new) = k
    BY <2>2, <2>3, <2>4, PushedValues
  <2>6. old \in Seq(Read) /\ Len(old) = (line - 1) * k
    BY DEF Inv, ColumnsInStep
  <2>7. \A i \in 1..k : new[i] = ValueOf(lines[line], name)
    BY DEF Pushed, ValueOf
  <2>8. \A i \in 1..Len(old) : old[i] = ValueOf(lines[(i - 1) \div k + 1], name)
    BY DEF ColumnsHold
  <2>9. columns'[name] = old \o new
    BY <1>2
  <2> HIDE DEF k, old, new
  <2>10. /\ Len(old \o new) = Len(old) + Len(new) /\ Len(old) \in Nat
         /\ \A i \in 1..Len(old \o new) :
              (old \o new)[i] = IF i <= Len(old) THEN old[i] ELSE new[i - Len(old)]
    BY <2>5, <2>6, ConcatIs
  <2>11. r \in 1..(Len(old) + k)
    BY <2>5, <2>9, <2>10
  <2>12. CASE r <= Len(old)
    <3>1. r \in 1..Len(old) /\ columns'[name][r] = old[r]
      BY <2>9, <2>10, <2>11, <2>12
    <3> QED
      BY <2>8, <3>1 DEF k
  <2>13. CASE r > Len(old)
    <3> DEFINE i == r - Len(old)
    <3>1. i \in 1..k /\ columns'[name][r] = new[i] /\ r = Len(old) + i
      BY <2>2, <2>5, <2>9, <2>10, <2>11, <2>13
    <3> HIDE DEF i
    <3>2. (r - 1) \div k = line - 1
      <4>1. line - 1 \in Nat
        BY <1>1
      <4>2. (((line - 1) * k + i) - 1) \div k = line - 1
        BY <2>2, <3>1, <4>1, PlaceOfLine
      <4> QED
        BY <2>6, <3>1, <4>2
    <3>3. (r - 1) \div k + 1 = line
      BY <1>1, <3>2
    <3> QED
      BY <2>7, <3>1, <3>3 DEF k
  <2> QED
    BY <2>10, <2>11, <2>12, <2>13
<1>5. \A name : Multiplicity(name)' = Multiplicity(name)
  BY <1>2 DEF Multiplicity
<1>6. ColumnsHold'
  <2> SUFFICES ASSUME NEW name \in DOMAIN columns, NEW r \in 1..Len(columns'[name])
               PROVE  columns'[name][r] =
                        ValueOf(lines[(r - 1) \div Multiplicity(name)' + 1], name)
    BY <1>2 DEF ColumnsHold
  <2>1. Multiplicity(name)' = Multiplicity(name)
    BY <1>5
  <2> QED
    BY <1>4, <2>1
<1> QED
  BY <1>3, <1>6

------------------------------------------------------------------------------
(* The batch.                                                               *)

\* What makes a cell of line r in column i.
CellOf(i, r) == Cell(schema[i].type, ValueOf(lines[r], schema[i].name))
Shares(i)    == Multiplicity(schema[i].name)
Array(i)     == build_array(schema[i], columns[schema[i].name])

\* The array of a column when all lines are read.
LEMMA ArrayIs ==
  ASSUME Inv, ColumnsHold, line = Len(lines) + 1, NEW i \in 1..Len(schema)
  PROVE  /\ Array(i).type = ArrayType(schema[i].type)
         /\ Len(lines) \in Nat /\ Shares(i) \in Nat /\ Shares(i) > 0
         /\ Len(Array(i).cells) = Len(lines) * Shares(i)
         /\ \A r \in 1..(Len(lines) * Shares(i)) :
              /\ Array(i).cells[r] = CellOf(i, (r - 1) \div Shares(i) + 1)
              /\ (r - 1) \div Shares(i) + 1 \in 1..Len(lines)
<1> DEFINE n == Len(lines)
           k == Shares(i)
           column == columns[schema[i].name]
<1>1. n \in Nat
  BY InputsAssumption DEF Inv
<1>2. k \in Nat /\ k > 0
  BY SharedByOne DEF Inv, Shares
<1>3. schema[i].name \in DOMAIN columns
  BY DEF Inv
<1>4. column \in Seq(Read) /\ Len(column) = n * k
  <2>1. Len(column) = (line - 1) * k
    BY <1>3 DEF Inv, ColumnsInStep, Shares
  <2>2. line - 1 = n
    BY <1>1
  <2> QED
    BY <1>3, <2>1, <2>2 DEF Inv
<1>5. \A r \in 1..Len(column) :
        column[r] = ValueOf(lines[(r - 1) \div k + 1], schema[i].name)
  BY <1>3 DEF ColumnsHold, Shares
<1>6. /\ Array(i).type = ArrayType(schema[i].type)
      /\ Array(i).cells = [r \in 1..Len(column) |-> Cell(schema[i].type, column[r])]
  BY DEF Array, build_array
<1> HIDE DEF n, k, column
<1>7. Len(column) \in Nat
  BY <1>4
<1>8. Len(Array(i).cells) = n * k
  BY <1>4, <1>6, <1>7
<1>9. ASSUME NEW r \in 1..(n * k)
      PROVE  /\ Array(i).cells[r] = CellOf(i, (r - 1) \div k + 1)
             /\ (r - 1) \div k + 1 \in 1..n
  BY <1>1, <1>2, <1>4, <1>5, <1>6, <1>9, LineOfPlace DEF CellOf
<1> QED
  BY <1>1, <1>2, <1>6, <1>8, <1>9 DEF n, k

\* Columns are as long as one another when as many fields share them.
LEMMA SameLength ==
  ASSUME NEW n \in Nat, n > 0, NEW a \in Nat, NEW b \in Nat
  PROVE  n * a = n * b <=> a = b
<1>1. ASSUME a < b PROVE n * a < n * b
  BY <1>1
<1>2. ASSUME b < a PROVE n * b < n * a
  BY <1>2
<1> QED
  BY <1>1, <1>2

\* What RecordBatch::try_new accepts, said of the lines.
LEMMA AcceptsIs ==
  ASSUME Inv, ColumnsHold, line = Len(lines) + 1, lines # <<>>
  PROVE  Accepts(schema, [i \in 1..Len(schema) |-> Array(i)]) <=>
           /\ schema # <<>>
           /\ \A i \in 1..Len(schema) :
                /\ Shares(i) = Shares(1)
                /\ schema[i].type # "LargeUtf8"
                /\ schema[i].nullable \/ \A r \in 1..Len(lines) : CellOf(i, r) # None
<1> DEFINE arrays == [i \in 1..Len(schema) |-> Array(i)]
           n == Len(lines)
<1>1. n \in Nat /\ n > 0 /\ lines \in Seq(Line)
  BY InputsAssumption DEF Inv
<1>2. schema \in Seq(Field)
  BY SchemasAssumption DEF Inv
<1>3. ASSUME NEW i \in 1..Len(schema)
      PROVE  /\ Len(arrays[i].cells) = Len(arrays[1].cells) <=> Shares(i) = Shares(1)
             /\ arrays[i].type = schema[i].type <=> schema[i].type # "LargeUtf8"
             /\ (\A r \in 1..Len(arrays[i].cells) : arrays[i].cells[r] # None)
                  <=> (\A r \in 1..n : CellOf(i, r) # None)
  <2>1. 1 \in 1..Len(schema) /\ arrays[i] = Array(i) /\ arrays[1] = Array(1)
    BY <1>2
  <2>2. /\ Len(Array(i).cells) = n * Shares(i) /\ Len(Array(1).cells) = n * Shares(1)
        /\ Shares(i) \in Nat /\ Shares(1) \in Nat /\ Shares(i) > 0
        /\ Array(i).type = ArrayType(schema[i].type)
        /\ \A r \in 1..(n * Shares(i)) :
             /\ Array(i).cells[r] = CellOf(i, (r - 1) \div Shares(i) + 1)
             /\ (r - 1) \div Shares(i) + 1 \in 1..n
    BY <2>1, ArrayIs
  <2> HIDE DEF arrays, n
  <2>3. Len(arrays[i].cells) = Len(arrays[1].cells) <=> Shares(i) = Shares(1)
    <3>1. n * Shares(i) = n * Shares(1) <=> Shares(i) = Shares(1)
      <4> DEFINE a == Shares(i)
                 b == Shares(1)
      <4>1. a \in Nat /\ b \in Nat
        BY <2>2
      <4> HIDE DEF a, b
      <4>2. n * a = n * b <=> a = b
        BY <1>1, <4>1, SameLength
      <4> QED
        BY <4>2 DEF a, b
    <3>2. /\ Len(arrays[i].cells) = n * Shares(i)
          /\ Len(arrays[1].cells) = n * Shares(1)
      BY <2>1, <2>2
    <3> QED
      BY <3>1, <3>2
  <2>4. arrays[i].type = schema[i].type <=> schema[i].type # "LargeUtf8"
    BY <2>1, <2>2 DEF ArrayType
  <2>5. ASSUME \A r \in 1..n : CellOf(i, r) # None
        PROVE  \A r \in 1..Len(arrays[i].cells) : arrays[i].cells[r] # None
    BY <2>1, <2>2, <2>5
  <2>6. ASSUME \A r \in 1..Len(arrays[i].cells) : arrays[i].cells[r] # None,
               NEW r \in 1..n
        PROVE  CellOf(i, r) # None
    <3> DEFINE k == Shares(i)
               p == (r - 1) * k + 1
    <3>1. r - 1 \in Nat /\ k \in Nat /\ k > 0 /\ 1 \in 1..k
      BY <1>1, <2>2
    <3>2. (p - 1) \div k = r - 1
      BY <3>1, PlaceOfLine
    <3>3. (p - 1) \div k + 1 = r
      BY <1>1, <3>2
    <3>4. p \in 1..(n * k)
      <4>1. (r - 1) * k + k = r * k
        BY <3>1
      <4>2. r * k <= n * k
        BY <1>1, <3>1
      <4>3. (r - 1) * k \in Nat /\ n * k \in Nat /\ r * k \in Nat
        BY <1>1, <3>1
      <4> QED
        BY <3>1, <4>1, <4>2, <4>3
    <3> HIDE DEF p
    <3>5. arrays[i].cells[p] # None /\ Array(i).cells[p] = CellOf(i, r)
      BY <2>1, <2>2, <2>6, <3>3, <3>4
    <3> QED
      BY <2>1, <3>5
  <2> QED
    BY <2>3, <2>4, <2>5, <2>6 DEF n
<1> HIDE DEF arrays
<1>4. Accepts(schema, arrays) <=>
        /\ schema # <<>>
        /\ \A i \in 1..Len(schema) :
             /\ Len(arrays[i].cells) = Len(arrays[1].cells)
             /\ arrays[i].type = schema[i].type
             /\ schema[i].nullable \/ \A r \in 1..Len(arrays[i].cells) : arrays[i].cells[r] # None
  BY DEF Accepts
<1> QED
  BY <1>3, <1>4 DEF arrays

\* The batch that is built has a row a line, and an Err its cause.
LEMMA BuildIsRight ==
  ASSUME Inv, ColumnsHold, ReadIsValid, Build
  PROVE  RowPerLine' /\ OutcomeHasCause'
<1> DEFINE arrays == [i \in 1..Len(schema) |-> Array(i)]
           n == Len(lines)
           Other == \E i \in 1..Len(schema) : schema[i].type = "Other"
           Fits == Accepts(schema, arrays)
<1>1. schema' = schema /\ lines' = lines /\ lines # <<>>
  BY DEF Build
<1>2. n \in Nat /\ line = n + 1 /\ lines \in Seq(Line) /\ schema \in Seq(Field)
  <2>1. lines \in Seq(Line) /\ schema \in Seq(Field) /\ line \in 1..(Len(lines) + 1)
    BY InputsAssumption, SchemasAssumption DEF Inv
  <2>2. line > Len(lines)
    BY DEF Build
  <2> QED
    BY <2>1, <2>2
<1>3. result' = IF Other THEN Err("unsupported")
                ELSE IF Fits THEN Done("Ok", [i \in 1..Len(schema) |-> arrays[i].cells])
                ELSE Err("arrow")
  BY DEF Build, Array
<1>4. Fits <=>
        /\ schema # <<>>
        /\ \A i \in 1..Len(schema) :
             /\ Shares(i) = Shares(1)
             /\ schema[i].type # "LargeUtf8"
             /\ schema[i].nullable \/ \A r \in 1..n : CellOf(i, r) # None
  BY <1>1, <1>2, AcceptsIs
<1>5. \A i \in 1..Len(schema) : arrays[i] = Array(i)
  OBVIOUS
<1> HIDE DEF arrays, Other, Fits
<1>6. /\ result'.status = "Ok" <=> Fits /\ ~Other
      /\ result'.status = "Err" <=> ~(Fits /\ ~Other)
      /\ result'.status # "None" /\ result'.status # "running"
      /\ result'.status = "Ok" =>
           \A i \in 1..Len(schema) : result'.batch[i] = Array(i).cells
  BY <1>3, <1>5 DEF Err, Done
<1>7. \A name : Multiplicity(name)' = Multiplicity(name)
  BY <1>1 DEF Multiplicity
<1>8. RowPerLine'
  <2> SUFFICES ASSUME result'.status = "Ok", NEW i \in 1..Len(schema)
               PROVE  LET k == Shares(1)
                          cells == result'.batch[i]
                      IN /\ Shares(i) = k
                         /\ Len(cells) = k * Len(lines)
                         /\ \A r \in 1..Len(cells) :
                              cells[r] = CellOf(i, (r - 1) \div k + 1)
    BY <1>1, <1>7, ZenonT(60) DEF RowPerLine, Shares, CellOf, ValueOf
  <2>1. Shares(i) = Shares(1) /\ result'.batch[i] = Array(i).cells
    BY <1>4, <1>6
  <2>2. /\ n \in Nat /\ Shares(i) \in Nat
        /\ Len(Array(i).cells) = n * Shares(i)
        /\ \A r \in 1..(n * Shares(i)) :
             Array(i).cells[r] = CellOf(i, (r - 1) \div Shares(i) + 1)
    BY <1>2, ArrayIs
  <2>3. n * Shares(i) = Shares(i) * n
    BY <2>2
  <2> QED
    BY <2>1, <2>2, <2>3
<1>9. \A r \in 1..n : lines[r].valid
  <2>1. line - 1 = n
    BY <1>2
  <2> QED
    BY <2>1 DEF ReadIsValid
<1>10. (\E r \in 1..n : Spoils(lines[r])) <=>
         \E i \in 1..Len(schema) :
           ~schema[i].nullable /\ \E r \in 1..n : CellOf(i, r) = None
  BY <1>9 DEF Spoils, CellOf
<1>11. (\E i, j \in 1..Len(schema) : Shares(i) # Shares(j)) <=>
         \E i \in 1..Len(schema) : Shares(i) # Shares(1)
  <2>1. \A i \in 1..Len(schema) : 1 \in 1..Len(schema)
    BY <1>2
  <2> QED
    BY <2>1
<1>12. ~(Fits /\ ~Other) <=>
         \/ schema = <<>>
         \/ \E i \in 1..Len(schema) : Unbuildable(schema[i])
         \/ \E i, j \in 1..Len(schema) : Shares(i) # Shares(j)
         \/ \E r \in 1..n : Spoils(lines[r])
  BY <1>4, <1>10, <1>11 DEF Unbuildable, Other
<1>13. OutcomeHasCause'
  <2>1. \A r \in 1..n : Spoils(lines[r])' <=> Spoils(lines[r])
    BY <1>1 DEF Spoils, ValueOf
  <2>2. \A i \in 1..Len(schema) : Shares(i) = Multiplicity(schema[i].name)'
    BY <1>1 DEF Shares, Multiplicity
  <2> QED
    BY <1>1, <1>6, <1>7, <1>12, <2>1 DEF OutcomeHasCause, Shares, Unbuildable
<1> QED
  BY <1>8, <1>13

LEMMA RowInvHolds == Spec => []RowInv
<1>1. ASSUME Init PROVE ColumnsHold /\ ReadIsValid /\ RowPerLine /\ OutcomeHasCause
  <2>1. line = 1 /\ result.status = "running"
    BY <1>1 DEF Init, Done
  <2>2. \A name \in DOMAIN columns : Len(columns[name]) = 0
    BY <1>1 DEF Init
  <2> QED
    BY <2>1, <2>2 DEF ColumnsHold, ReadIsValid, RowPerLine, OutcomeHasCause, Running
<1>2. ASSUME RowInv, [Next]_vars
      PROVE  ColumnsHold' /\ ReadIsValid' /\ RowPerLine' /\ OutcomeHasCause'
  <2>1. CASE ParseLine
    <3>1. ColumnsHold' /\ ReadIsValid'
      BY <1>2, <2>1, ParseLineKeepsRows DEF RowInv
    <3>2. result'.status = "running"
      BY <2>1 DEF ParseLine, Running
    <3> QED
      BY <3>1, <3>2 DEF RowPerLine, OutcomeHasCause, Running
  <2>2. ASSUME UNCHANGED <<schema, lines, line, columns>>
        PROVE  ColumnsHold' /\ ReadIsValid'
    <3>1. schema' = schema /\ lines' = lines /\ line' = line /\ columns' = columns
      BY <2>2
    <3>2. ColumnsHold /\ ReadIsValid
      BY <1>2 DEF RowInv
    <3>3. \A name : Multiplicity(name)' = Multiplicity(name)
      BY <3>1 DEF Multiplicity
    <3>4. ReadIsValid'
      BY <3>1, <3>2 DEF ReadIsValid
    <3> SUFFICES ASSUME NEW name \in DOMAIN columns, NEW r \in 1..Len(columns[name])
                 PROVE  columns[name][r] =
                          ValueOf(lines[(r - 1) \div Multiplicity(name)' + 1], name)
      BY <3>1, <3>4 DEF ColumnsHold
    <3>5. Multiplicity(name)' = Multiplicity(name)
      BY <3>3
    <3> QED
      BY <3>2, <3>5 DEF ColumnsHold
  <2>3. CASE ReturnNone
    <3>1. /\ UNCHANGED <<schema, lines, line, columns>> /\ lines = <<>>
          /\ result'.status = "None"
      BY <2>3 DEF ReturnNone, Done
    <3> QED
      BY <2>2, <3>1 DEF RowPerLine, OutcomeHasCause
  <2>4. CASE RejectLine
    <3>1. /\ UNCHANGED <<schema, lines, line, columns>>
          /\ line <= Len(lines) /\ ~lines[line].valid
          /\ result'.status = "Err"
      BY <2>4 DEF RejectLine, Err
    <3>2. line \in 1..Len(lines) /\ lines # <<>>
      BY <1>2, <3>1, InputsAssumption DEF RowInv, Inv
    <3>3. \E r \in 1..Len(lines) : Spoils(lines[r])'
      BY <3>1, <3>2 DEF Spoils
    <3> QED
      BY <2>2, <3>1, <3>2, <3>3 DEF RowPerLine, OutcomeHasCause
  <2>5. CASE Build
    <3>1. UNCHANGED <<schema, lines, line, columns>>
      BY <2>5 DEF Build
    <3> QED
      BY <1>2, <2>2, <2>5, <3>1, BuildIsRight DEF RowInv
  <2>6. CASE UNCHANGED vars
    <3>1. UNCHANGED <<schema, lines, line, columns>> /\ result' = result
      BY <2>6 DEF vars
    <3>2. schema' = schema /\ lines' = lines /\ result' = result
      BY <3>1
    <3>3. RowPerLine'
      BY <1>2, <3>2, ZenonT(60) DEF RowInv, RowPerLine, Multiplicity
    <3>4. OutcomeHasCause'
      <4>3. OutcomeHasCause
        BY <1>2 DEF RowInv
      <4>4. ASSUME ~Running
            PROVE  /\ result.status = "None" <=> lines = <<>>
                   /\ result.status = "Err" <=>
                        /\ lines # <<>>
                        /\ \/ schema = <<>>
                           \/ \E i \in 1..Len(schema) : Unbuildable(schema[i])
                           \/ \E i, j \in 1..Len(schema) :
                                Multiplicity(schema[i].name) # Multiplicity(schema[j].name)
                           \/ \E r \in 1..Len(lines) : Spoils(lines[r])
        BY <4>3, <4>4 DEF OutcomeHasCause
      <4>5. Running' <=> Running
        BY <3>2 DEF Running
      <4>6. (\E i, j \in 1..Len(schema) :
               Multiplicity(schema[i].name) # Multiplicity(schema[j].name))'
            <=> \E i, j \in 1..Len(schema) :
                  Multiplicity(schema[i].name) # Multiplicity(schema[j].name)
        BY <3>2 DEF Multiplicity
      <4>7. (\E r \in 1..Len(lines) : Spoils(lines[r]))'
            <=> \E r \in 1..Len(lines) : Spoils(lines[r])
        BY <3>2 DEF Spoils
      <4> QED
        BY <3>2, <4>4, <4>5, <4>6, <4>7 DEF OutcomeHasCause, Unbuildable
    <3> QED
      BY <2>2, <3>1, <3>3, <3>4
  <2> QED
    BY <1>2, <2>1, <2>3, <2>4, <2>5, <2>6 DEF Next
<1>3. Inv /\ RowInv /\ [Next]_vars /\ Inv' => RowInv'
  BY <1>2 DEF RowInv
<1>4. Init /\ Inv => RowInv
  BY <1>1 DEF RowInv
<1> QED
  BY <1>3, <1>4, InvHolds, PTL DEF Spec

\* Row and line belong together: a batch that is returned has one row a line (k of
\* them where k fields share every name), made of that line's values alone.
THEOREM EachRowFromItsLine == Spec => []RowPerLine
<1>1. RowInv => RowPerLine
  BY DEF RowInv
<1> QED
  BY <1>1, RowInvHolds, PTL

\* None, Ok and Err are returned for the stated causes and for no others.
THEOREM OutcomeIsExplained == Spec => []OutcomeHasCause
<1>1. RowInv => OutcomeHasCause
  BY DEF RowInv
<1> QED
  BY <1>1, RowInvHolds, PTL

------------------------------------------------------------------------------
(* Timestamps in a batch.                                                   *)

\* A cell of a numeric timestamp, where no other field shares the column, is made of
\* the value its own line has.
LEMMA TimestampCellIs ==
  ASSUME RowInv, NEW i \in 1..Len(schema), NEW r \in TimestampCells(i)
  PROVE  /\ ValueOf(lines[r], schema[i].name) \in Value
         /\ Numeric(ValueOf(lines[r], schema[i].name))
         /\ result.batch[i][r] = timestamp_value_nanos(ValueOf(lines[r], schema[i].name))
<1> DEFINE name == schema[i].name
           v == ValueOf(lines[r], name)
           k == Multiplicity(schema[1].name)
<1>1. /\ schema[i].type = "Timestamp" /\ result.status = "Ok" /\ Multiplicity(name) = 1
      /\ r \in 1..Len(lines) /\ Numeric(v)
  BY DEF TimestampCells
<1>2. schema \in Schemas /\ lines \in Seq(Line)
  BY InputsAssumption DEF RowInv, Inv
<1>3. Len(lines) \in Nat /\ lines[r] \in Line
  BY <1>1, <1>2
<1>4. name \in Names
  BY <1>2 DEF Names
<1>5. lines[r].object[name] \in SUBSET Value
  BY <1>3, <1>4 DEF Line
<1>6. v \in Value
  <2>1. CASE lines[r].object[name] = None
    <3>1. v = NullValue
      BY <2>1 DEF ValueOf, Else, Some
    <3> QED
      BY <1>1, <3>1 DEF Numeric, NullValue
  <2>2. CASE lines[r].object[name] # None
    <3>1. v = CHOOSE u \in lines[r].object[name] : TRUE
      BY <2>2 DEF ValueOf, Else
    <3> QED
      BY <1>5, <2>2, <3>1 DEF None
  <2> QED
    BY <2>1, <2>2
<1>7. /\ Multiplicity(name) = k
      /\ Len(result.batch[i]) = k * Len(lines)
      /\ \A q \in 1..Len(result.batch[i]) :
           result.batch[i][q] = Cell(schema[i].type, ValueOf(lines[(q - 1) \div k + 1], name))
  BY <1>1 DEF RowInv, RowPerLine
<1>8. k = 1
  BY <1>1, <1>7
<1> HIDE DEF k
<1>9. r \in 1..Len(result.batch[i]) /\ (r - 1) \div k + 1 = r
  BY <1>1, <1>3, <1>7, <1>8
<1>10. result.batch[i][r] = Cell("Timestamp", v)
  BY <1>1, <1>7, <1>9
<1> HIDE DEF v
<1>11. Cell("Timestamp", v) = timestamp_value_nanos(v)
  BY DEF Cell
<1> QED
  BY <1>1, <1>6, <1>10, <1>11 DEF v

\* A timestamp is the exact instant where an integer's product fits i64, within the
\* precision of two floats elsewhere unless the float nearest to the integer is of
\* another unit, and null only at the limit of i64 or beyond: for every width of i64,
\* every precision and every factor between the units.
THEOREM InstantsAreNearExact == Spec => []InstantNearExact
<1>1. ASSUME RowInv
      PROVE  InstantNearExact
  <2> SUFFICES ASSUME NEW i \in 1..Len(schema), NEW r \in TimestampCells(i)
               PROVE  LET v    == ValueOf(lines[r], schema[i].name)
                          cell == result.batch[i][r]
                      IN /\ v.int # None /\ Exact(v) \div Scale \in I64 => cell = Some(Exact(v) \div Scale)
                         /\ SameUnit(v) => \A n \in cell : Near(n * Scale, Exact(v))
                         /\ cell = None => Abs(Exact(v)) + Spacing(Exact(v)) >= IntLimit * Scale
    BY Zenon DEF InstantNearExact
  <2> DEFINE v == ValueOf(lines[r], schema[i].name)
             cell == result.batch[i][r]
  <2>1. v \in Value /\ Numeric(v) /\ cell = timestamp_value_nanos(v)
    BY <1>1, TimestampCellIs
  <2> HIDE DEF v, cell
  <2>2. CellFor(cell, v)
    BY <2>1, CellIsFor
  <2>3. /\ v.int # None /\ Exact(v) \div Scale \in I64 => cell = Some(Exact(v) \div Scale)
        /\ SameUnit(v) => \A n \in cell : Near(n * Scale, Exact(v))
        /\ cell = None => Abs(Exact(v)) + Spacing(Exact(v)) >= IntLimit * Scale
    BY <2>2 DEF CellFor, Limit
  <2> QED
    BY <2>3, Zenon DEF v, cell
<1> QED
  BY <1>1, RowInvHolds, PTL

\* One instant in two neighbouring units is one timestamp or one null, at every
\* boundary between the units' ranges, where both values are read alike and their
\* floats stay in their units.
THEOREM UnitsOfAnInstantAgree == Spec => []UnitsAgree
<1>1. ASSUME RowInv
      PROVE  UnitsAgree
  <2> SUFFICES ASSUME NEW i \in 1..Len(schema),
                      NEW r \in TimestampCells(i), NEW q \in TimestampCells(i),
                      LET v == ValueOf(lines[r], schema[i].name)
                          w == ValueOf(lines[q], schema[i].name)
                      IN /\ Amount(w) = Amount(v) * Kilo /\ Amount(v) % Scale = 0
                         /\ Abs(Amount(w)) >= SecLimit * Scale
                         /\ Abs(Amount(v)) < SecLimit * Kilo * Kilo * Scale
                         /\ SameUnit(v) /\ SameUnit(w) /\ Alike(v, w)
               PROVE  result.batch[i][r] = result.batch[i][q]
    BY Zenon DEF UnitsAgree
  <2> DEFINE v == ValueOf(lines[r], schema[i].name)
             w == ValueOf(lines[q], schema[i].name)
  <2>1. v \in Value /\ Numeric(v) /\ result.batch[i][r] = timestamp_value_nanos(v)
    BY <1>1, TimestampCellIs
  <2>2. w \in Value /\ Numeric(w) /\ result.batch[i][q] = timestamp_value_nanos(w)
    BY <1>1, TimestampCellIs
  <2>3. /\ Amount(w) = Amount(v) * Kilo /\ Amount(v) % Scale = 0
        /\ Abs(Amount(w)) >= SecLimit * Scale
        /\ Abs(Amount(v)) < SecLimit * Kilo * Kilo * Scale
        /\ SameUnit(v) /\ SameUnit(w) /\ Alike(v, w)
    OBVIOUS
  <2> HIDE DEF v, w
  <2>4. timestamp_value_nanos(v) = timestamp_value_nanos(w)
    BY <2>1, <2>2, <2>3, OneInstantOneCell
  <2> QED
    BY <2>1, <2>2, <2>4
<1> QED
  BY <1>1, RowInvHolds, PTL

==============================================================================
