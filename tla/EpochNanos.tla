----------------------------- MODULE EpochNanos ------------------------------
(***************************************************************************)
(* ndjson.rs: from a JSON value to the nanoseconds of a timestamp column.  *)
(*                                                                         *)
(* A real number is counted in units of 1/Scale.  Integers are those of    *)
(* i64, -IntLimit to IntLimit - 1; floating-point numbers are Precision    *)
(* multiples of a power of two at most, rounded to the nearest, ties to    *)
(* even, and infinite from Infinite on (2^1024; NaN goes with them).  An   *)
(* Option is a set of at most one element.                                 *)
(*                                                                         *)
(* A definition under "Variant:" is what a likely mistake in the code      *)
(* below it would make of that definition; no behaviour uses it.           *)
(***************************************************************************)
EXTENDS Integers, Sequences

CONSTANTS IntLimit,   \* 2^63
          Kilo,       \* 1000: from a unit of time to the next smaller one
          SecLimit,   \* 10^10: the first number that is not taken for seconds
          Precision,  \* 2^53: f64 has so many numbers of one exponent
          Infinite,   \* the first number too large for f64
          Scale       \* bound: the fractions it may have

\* The ranges of the units end within i64, and i64 within f64.
ASSUME EpochAssumption ==
  /\ IntLimit \in Nat \ {0} /\ Kilo \in Nat \ {0} /\ SecLimit \in Nat \ {0}
  /\ Precision \in Nat \ {0} /\ Infinite \in Nat /\ Scale \in Nat \ {0}
  /\ IntLimit > SecLimit * Kilo * Kilo
  /\ Infinite > IntLimit * Scale

None == {}
Some(x) == {x}
Then(option, F(_)) == UNION {F(x) : x \in option}
Else(option, other) == IF option # None THEN option ELSE other

I64 == -IntLimit .. (IntLimit - 1)
Abs(x) == IF x < 0 THEN -x ELSE x

\* The integer a saturating cast makes of a number (`as i64`).
Saturate(x) ==
  IF x < -IntLimit THEN -IntLimit ELSE IF x >= IntLimit THEN IntLimit - 1 ELSE x

------------------------------------------------------------------------------
(* Floating point.                                                          *)

\* The least power of two above q.
PowerAbove[q \in Nat] == IF q = 0 THEN 1 ELSE 2 * PowerAbove[q \div 2]

\* The spacing of the floating-point numbers at x: the least power of two of which
\* Precision multiples reach past x.
Spacing(x) == PowerAbove[Abs(x) \div Precision]

\* The floating-point number nearest to x, both counted in units of 1/Scale.
Rounded(x) ==
  LET s == Spacing(x)
      q == Abs(x) \div s
      r == 2 * (Abs(x) % s)
      n == IF r > s \/ (r = s /\ q % 2 = 1) THEN q + 1 ELSE q
  IN (IF x < 0 THEN -1 ELSE 1) * n * s

\* f64::round, halves away from zero.
Nearest(x) ==
  (IF x < 0 THEN -1 ELSE 1) * ((2 * Abs(x) + Scale) \div (2 * Scale))

Float(n) == Rounded(n * Scale)

\* i64::MAX as f64 is 2^63, and i64::MIN is a float.
ASSUME FloatLimits ==
  Float(IntLimit - 1) = IntLimit * Scale /\ Float(-IntLimit) = -(IntLimit * Scale)

------------------------------------------------------------------------------
(* Units and ranges.                                                        *)

\* Variant: the ranges are one short.
MultiplierShort(abs) ==
  IF abs < SecLimit - 1 THEN Kilo * Kilo * Kilo
  ELSE IF abs < SecLimit * Kilo - 1 THEN Kilo * Kilo
  ELSE IF abs < SecLimit * Kilo * Kilo - 1 THEN Kilo
  ELSE 1

epoch_unit_multiplier(abs) ==
  IF abs < SecLimit THEN Kilo * Kilo * Kilo
  ELSE IF abs < SecLimit * Kilo THEN Kilo * Kilo
  ELSE IF abs < SecLimit * Kilo * Kilo THEN Kilo
  ELSE 1

\* -IntLimit has no absolute value in i64; the product is taken in i128.
epoch_int_nanos(raw) ==
  LET abs   == IF raw = -IntLimit THEN IntLimit - 1 ELSE Abs(raw)
      nanos == raw * epoch_unit_multiplier(abs)
  IN IF nanos \in I64 THEN Some(nanos) ELSE None

\* Variant: the product is cast without the range test.
FloatNanosUnchecked(raw) ==
  IF Abs(raw) >= Infinite THEN None
  ELSE Some(Saturate(Nearest(Rounded(
         raw * epoch_unit_multiplier(Saturate(Abs(raw) \div Scale))))))

\* raw is a float, in units of 1/Scale.  The largest i64 as a float is IntLimit,
\* so a product of IntLimit passes the test and the cast saturates.
epoch_float_nanos(raw) ==
  IF Abs(raw) >= Infinite THEN None
  ELSE LET nanos == Rounded(raw * epoch_unit_multiplier(Saturate(Abs(raw) \div Scale)))
       IN IF Abs(nanos) >= Infinite \/ nanos < Float(-IntLimit) \/ nanos > Float(IntLimit - 1)
          THEN None
          ELSE Some(Saturate(Nearest(nanos)))

------------------------------------------------------------------------------
(* JSON values.                                                             *)

\* What serde_json and the parsers read in a value: as_i64 or parse::<i64>, as_f64
\* or parse::<f64>, the instant of a date in the calendar, if i64 can hold its
\* nanoseconds, the truth value parse_bool_text finds, and the text it has as a
\* string.  A null and a missing field have no readings.
Reading == [type    : {"Null", "Bool", "Number", "String", "Nested"},
            int     : SUBSET I64,
            float   : SUBSET Int,
            instant : SUBSET I64,
            bool    : SUBSET BOOLEAN,
            text    : STRING]

\* Where an integer is read, the float nearest to it is read too.
Value == {v \in Reading : /\ \A m, n \in v.int : m = n
                          /\ \A x, y \in v.float : x = y
                          /\ \A n \in v.int : v.float = Some(Float(n))}

NullValue == [type |-> "Null", int |-> None, float |-> None, instant |-> None,
              bool |-> None, text |-> "null"]

timestamp_value_nanos(value) ==
  LET Number == Else(Then(value.int, epoch_int_nanos),
                     Then(value.float, epoch_float_nanos))
  IN IF value.type = "Number" THEN Number
     ELSE IF value.type = "String" THEN Else(value.instant, Number)
     ELSE None

==============================================================================
