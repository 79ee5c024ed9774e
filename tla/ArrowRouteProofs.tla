--------------------------- MODULE ArrowRouteProofs --------------------------
(***************************************************************************)
(* Theorems about ArrowRoute for every width and base of the length field, *)
(* every tag, every schema and lists of every length.  First the length    *)
(* field, written and read back; then a stream, message by message, and    *)
(* what its reader makes of what is left of it; then the payloads that are *)
(* on their way, and what each pair of formats makes of them.              *)
(***************************************************************************)
EXTENDS ArrowRoute, SequenceFacts

------------------------------------------------------------------------------
(* Products and quotients, as the provers see them.                         *)

LEMMA ProductIsNat ==
  ASSUME NEW a \in Nat, NEW b \in Nat
  PROVE  a * b \in Nat
OBVIOUS

LEMMA Distributes ==
  ASSUME NEW a \in Int, NEW b \in Int, NEW c \in Int
  PROVE  (a + b) * c = a * c + b * c
OBVIOUS

LEMMA Associates ==
  ASSUME NEW a \in Int, NEW b \in Int, NEW c \in Int
  PROVE  (a * b) * c = a * (b * c)
OBVIOUS

LEMMA DivMod ==
  ASSUME NEW n \in Nat, NEW m \in Nat \ {0}
  PROVE  /\ n \div m \in Nat /\ n % m \in 0..(m - 1)
         /\ n = (n \div m) * m + (n % m)
OBVIOUS

\* There is one quotient and one remainder.
LEMMA DivModUnique ==
  ASSUME NEW m \in Nat \ {0}, NEW q \in Nat, NEW r \in 0..(m - 1)
  PROVE  (q * m + r) \div m = q /\ (q * m + r) % m = r
<1> DEFINE n == q * m + r
           d == n \div m
           s == n % m
<1>1. n \in Nat
  BY ProductIsNat
<1>2. d \in Nat /\ s \in 0..(m - 1) /\ d * m + s = q * m + r
  BY <1>1, DivMod
<1> HIDE DEF n, d, s
<1>3. ASSUME NEW a \in Nat, NEW b \in Nat, NEW v \in 0..(m - 1), NEW w \in 0..(m - 1),
             a * m + v = b * m + w, a < b
      PROVE  FALSE
  <2>1. PICK k \in Nat : b = (a + 1) + k
    <3>1. b - (a + 1) \in Nat /\ b = (a + 1) + (b - (a + 1))
      BY <1>3
    <3> QED
      BY <3>1
  <2>2. b * m = (a + 1) * m + k * m /\ (a + 1) * m = a * m + m /\ a * m \in Nat /\ k * m \in Nat
    BY <2>1, Distributes, ProductIsNat
  <2> QED
    BY <1>3, <2>2
<1>4. d = q
  BY <1>2, <1>3
<1>5. s = r
  BY <1>2, <1>4, ProductIsNat
<1> QED
  BY <1>4, <1>5 DEF d, s, n

\* Dividing twice is dividing by the product.
LEMMA DivDiv ==
  ASSUME NEW n \in Nat, NEW a \in Nat \ {0}, NEW b \in Nat \ {0}
  PROVE  (n \div a) \div b = n \div (b * a)
<1> DEFINE q == n \div a
           r == n % a
           d == q \div b
           s == q % b
<1>1. q \in Nat /\ r \in 0..(a - 1) /\ n = q * a + r
  BY DivMod
<1>2. d \in Nat /\ s \in 0..(b - 1) /\ q = d * b + s
  BY <1>1, DivMod
<1> HIDE DEF q, r, d, s
<1>3. s * a + r \in Nat /\ s * a + r < b * a
  <2>1. PICK k \in Nat : b = (s + 1) + k
    <3>1. b - (s + 1) \in Nat /\ b = (s + 1) + (b - (s + 1))
      BY <1>2
    <3> QED
      BY <3>1
  <2>2. b * a = (s + 1) * a + k * a /\ (s + 1) * a = s * a + a /\ k * a \in Nat /\ s * a \in Nat
    BY <1>2, <2>1, Distributes, ProductIsNat
  <2> QED
    BY <1>1, <2>2
<1>4. b * a \in Nat \ {0}
  BY <1>3, ProductIsNat
<1>5. n = d * (b * a) + (s * a + r)
  <2>1. q * a = (d * b) * a + s * a /\ (d * b) * a = d * (b * a)
    BY <1>2, Distributes, Associates, ProductIsNat
  <2>2. d * (b * a) \in Nat /\ s * a \in Nat
    BY <1>2, <1>4, ProductIsNat
  <2> QED
    BY <1>1, <2>1, <2>2
<1>6. n \div (b * a) = d
  <2> DEFINE m == b * a
             t == s * a + r
  <2>1. m \in Nat \ {0} /\ t \in 0..(m - 1) /\ n = d * m + t
    BY <1>3, <1>4, <1>5
  <2> HIDE DEF m, t
  <2>2. n \div m = d
    BY <1>2, <2>1, DivModUnique
  <2> QED
    BY <2>2 DEF m
<1> QED
  BY <1>6 DEF q, d

------------------------------------------------------------------------------
(* The length field.                                                        *)

Token == [what : {"byte", "letter", "text", "schema", "batch", "eos"}, val : Nat]

\* f is c * a^k + v[1] * a^(k-1) + ... + v[k] for every k up to n.
Horner(f, a, c, v, n) == f = [i \in 0..n |-> IF i = 0 THEN c ELSE f[i - 1] * a + v[i]]

\* There is such a function for every n.
LEMMA HornerExists ==
  ASSUME NEW a, NEW c, NEW v, NEW n \in Nat
  PROVE  \E f : Horner(f, a, c, v, n)
<1> DEFINE T == {m \in Nat : \E f : Horner(f, a, c, v, m)}
<1>1. 0 \in T
  <2> DEFINE f == [i \in 0..0 |-> c]
  <2>1. Horner(f, a, c, v, 0)
    BY DEF Horner
  <2> QED
    BY <2>1
<1>2. ASSUME NEW m \in Nat, m \in T
      PROVE  m + 1 \in T
  <2>1. PICK f : Horner(f, a, c, v, m)
    BY <1>2
  <2> DEFINE last == f[m] * a + v[m + 1]
             g == [i \in 0..(m + 1) |-> IF i = m + 1 THEN last ELSE f[i]]
  <2>2. ASSUME NEW i \in 0..(m + 1)
        PROVE  g[i] = IF i = 0 THEN c ELSE g[i - 1] * a + v[i]
    <3>1. CASE i = m + 1
      <4>1. i - 1 = m /\ m \in 0..(m + 1) /\ m # m + 1 /\ i # 0
        BY <3>1
      <4> QED
        BY <3>1, <4>1
    <3>2. CASE i # m + 1 /\ i # 0
      <4>1. i \in 0..m /\ i - 1 \in 0..(m + 1) /\ i - 1 # m + 1
        BY <3>2
      <4>2. f[i] = f[i - 1] * a + v[i]
        BY <2>1, <3>2, <4>1 DEF Horner
      <4> QED
        BY <3>2, <4>1, <4>2
    <3>3. CASE i # m + 1 /\ i = 0
      <4>1. f[0] = c
        BY <2>1 DEF Horner
      <4> QED
        BY <3>3, <4>1
    <3> QED
      BY <3>1, <3>2, <3>3
  <2> HIDE DEF last
  <2>3. g = [i \in 0..(m + 1) |-> IF i = 0 THEN c ELSE g[i - 1] * a + v[i]]
    BY <2>2
  <2> HIDE DEF g
  <2>4. Horner(g, a, c, v, m + 1)
    BY <2>3 DEF Horner
  <2> QED
    BY <2>4
<1>3. \A m \in Nat : m \in T
  <2> HIDE DEF T
  <2> QED
    BY <1>1, <1>2, Induction
<1> QED
  BY <1>3

\* The powers are what their equation says.
LEMMA PowerIs ==
  /\ Power[0] = 1
  /\ \A k \in 0..(Width - 1) : Power[k + 1] = Power[k] * Base
  /\ \A k \in 0..Width : Power[k] \in Nat \ {0}
<1> DEFINE T == {k \in Nat : k \in 0..Width => Power[k] \in Nat \ {0}}
<1>1. Power = [k \in 0..Width |-> IF k = 0 THEN 1 ELSE Base * Power[k - 1]]
  <2>1. PICK f : Horner(f, Base, 1, [i \in 1..Width |-> 0], Width)
    BY HornerExists, FrameAssumption
  <2>2. \A k \in 0..Width : f[k] \in Int
    <3> DEFINE U == {k \in Nat : k \in 0..Width => f[k] \in Int}
    <3>1. 0 \in U
      BY <2>1 DEF Horner
    <3>2. ASSUME NEW k \in Nat, k \in U
          PROVE  k + 1 \in U
      <4> SUFFICES ASSUME k + 1 \in 0..Width PROVE f[k + 1] \in Int
        OBVIOUS
      <4>1. k \in 0..Width /\ k + 1 # 0 /\ (k + 1) - 1 = k /\ k + 1 \in 1..Width
        BY FrameAssumption
      <4>2. f[k + 1] = f[k] * Base + 0
        BY <2>1, <4>1 DEF Horner
      <4>3. f[k] \in Int
        BY <3>2, <4>1
      <4> QED
        BY <4>2, <4>3, FrameAssumption
    <3> HIDE DEF U
    <3>3. \A k \in Nat : k \in U
      BY <3>1, <3>2, Induction
    <3> QED
      BY <3>3, FrameAssumption DEF U
  <2>3. f = [k \in 0..Width |-> IF k = 0 THEN 1 ELSE Base * f[k - 1]]
    <3>1. ASSUME NEW k \in 0..Width
          PROVE  f[k] = IF k = 0 THEN 1 ELSE Base * f[k - 1]
      <4>1. CASE k = 0
        BY <2>1, <4>1 DEF Horner
      <4>2. CASE k # 0
        <5>1. k \in 1..Width /\ k - 1 \in 0..Width
          BY <4>2, FrameAssumption
        <5>2. f[k] = f[k - 1] * Base + 0
          BY <2>1, <4>2, <5>1 DEF Horner
        <5> QED
          BY <2>2, <4>2, <5>1, <5>2, FrameAssumption
      <4> QED
        BY <4>1, <4>2
    <3>2. f = [k \in 0..Width |-> f[k]]
      BY <2>1 DEF Horner
    <3> QED
      BY <3>1, <3>2
  <2> QED
    BY <2>3, Zenon DEF Power
<1>2. \A k \in 0..Width : Power[k] = IF k = 0 THEN 1 ELSE Base * Power[k - 1]
  BY <1>1
<1>3. 0 \in T
  BY <1>2, FrameAssumption
<1>4. ASSUME NEW k \in Nat, k \in T
      PROVE  k + 1 \in T
  <2> SUFFICES ASSUME k + 1 \in 0..Width PROVE Power[k + 1] \in Nat \ {0}
    OBVIOUS
  <2>1. k \in 0..Width /\ k + 1 # 0 /\ (k + 1) - 1 = k
    BY FrameAssumption
  <2>2. Power[k + 1] = Base * Power[k]
    BY <1>2, <2>1
  <2>3. Power[k] \in Nat \ {0}
    BY <1>4, <2>1
  <2> QED
    BY <2>2, <2>3, FrameAssumption
<1> HIDE DEF T
<1>5. \A k \in Nat : k \in T
  BY <1>3, <1>4, Induction
<1>6. \A k \in 0..Width : Power[k] \in Nat \ {0}
  BY <1>5, FrameAssumption DEF T
<1>7. ASSUME NEW k \in 0..(Width - 1)
      PROVE  Power[k + 1] = Power[k] * Base
  <2>1. k \in 0..Width /\ k + 1 \in 0..Width /\ k + 1 # 0 /\ (k + 1) - 1 = k
    BY FrameAssumption
  <2>2. Power[k + 1] = Base * Power[k] /\ Power[k] \in Nat
    BY <1>2, <1>6, <2>1
  <2> QED
    BY <2>2, FrameAssumption
<1>8. Power[0] = 1
  BY <1>2, FrameAssumption
<1> QED
  BY <1>6, <1>7, <1>8

LEMMA WidthPower == Power[Width] \in Nat \ {0, 1} /\ Power[Width] >= 2
<1>1. Width - 1 \in 0..(Width - 1) /\ (Width - 1) + 1 = Width /\ Width - 1 \in 0..Width
  BY FrameAssumption
<1>2. Power[Width] = Power[Width - 1] * Base /\ Power[Width - 1] \in Nat \ {0}
  BY <1>1, PowerIs
<1>3. ASSUME NEW p \in Nat \ {0}
      PROVE  p * Base \in Nat /\ p * Base >= 2
  <2>1. PICK k \in Nat : Base = 2 + k
    <3>1. Base - 2 \in Nat /\ Base = 2 + (Base - 2)
      BY FrameAssumption
    <3> QED
      BY <3>1
  <2>2. Base * p = 2 * p + k * p /\ k * p \in Nat /\ p * Base = Base * p
    BY <2>1, Distributes, ProductIsNat
  <2> QED
    BY <2>2
<1> QED
  BY <1>2, <1>3

\* What the recursive function in Number is.
Value(p) == [i \in 1..Width |-> Code(p[i])]

LEMMA NumberIs ==
  ASSUME NEW p
  PROVE  \E f : Horner(f, Base, 0, Value(p), Width) /\ Number(p) = f[Width]
<1> DEFINE N == CHOOSE f : f = [i \in 0..Width |->
                  IF i = 0 THEN 0 ELSE f[i - 1] * Base + Code(p[i])]
<1>1. PICK f : Horner(f, Base, 0, Value(p), Width)
  BY HornerExists, FrameAssumption
<1>2. f = [i \in 0..Width |-> IF i = 0 THEN 0 ELSE f[i - 1] * Base + Code(p[i])]
  <2>1. \A i \in 0..Width : i # 0 => Value(p)[i] = Code(p[i])
    BY FrameAssumption DEF Value
  <2> QED
    BY <1>1, <2>1 DEF Horner
<1>3. N = [i \in 0..Width |-> IF i = 0 THEN 0 ELSE N[i - 1] * Base + Code(p[i])]
  BY <1>2, Zenon
<1>4. Number(p) = N[Width]
  BY Zenon DEF Number
<1> HIDE DEF N
<1>5. Horner(N, Base, 0, Value(p), Width)
  <2>1. \A i \in 0..Width : i # 0 => Value(p)[i] = Code(p[i])
    BY FrameAssumption DEF Value
  <2> QED
    BY <1>3, <2>1 DEF Horner
<1> QED
  BY <1>4, <1>5

\* Number reads a number off any tokens.
LEMMA NumberType ==
  ASSUME NEW p, \A i \in 1..Width : p[i] \in Token
  PROVE  Number(p) \in Nat
<1>1. PICK f : Horner(f, Base, 0, Value(p), Width) /\ Number(p) = f[Width]
  BY NumberIs
<1> DEFINE T == {k \in Nat : k \in 0..Width => f[k] \in Nat}
<1>2. 0 \in T
  BY <1>1 DEF Horner
<1>3. ASSUME NEW k \in Nat, k \in T
      PROVE  k + 1 \in T
  <2> SUFFICES ASSUME k + 1 \in 0..Width PROVE f[k + 1] \in Nat
    OBVIOUS
  <2>1. k \in 0..Width /\ k + 1 # 0 /\ (k + 1) - 1 = k /\ k + 1 \in 1..Width
    BY FrameAssumption
  <2>2. f[k + 1] = f[k] * Base + Code(p[k + 1])
    BY <1>1, <2>1 DEF Horner, Value
  <2>3. f[k] \in Nat
    BY <1>3, <2>1
  <2>4. Code(p[k + 1]) \in Nat
    BY <2>1, FrameAssumption DEF Code, Token
  <2>5. Base \in Nat
    BY FrameAssumption
  <2> QED
    BY <2>2, <2>3, <2>4, <2>5, ProductIsNat
<1> HIDE DEF T
<1>4. \A k \in Nat : k \in T
  BY <1>2, <1>3, Induction
<1> QED
  BY <1>1, <1>4, FrameAssumption DEF T

LEMMA DigitsAre ==
  ASSUME NEW n \in Nat
  PROVE  /\ Digits(n) \in Seq(Token) /\ Len(Digits(n)) = Width
         /\ \A i \in 1..Width : /\ Digits(n)[i] = Byte((n \div Power[Width - i]) % Base)
                                /\ Digits(n)[i].what = "byte"
<1>1. ASSUME NEW i \in 1..Width
      PROVE  /\ Byte((n \div Power[Width - i]) % Base) \in Token
             /\ Byte((n \div Power[Width - i]) % Base).what = "byte"
  <2>1. Width - i \in 0..Width
    BY FrameAssumption
  <2>2. n \div Power[Width - i] \in Nat
    BY <2>1, PowerIs, DivMod
  <2>3. (n \div Power[Width - i]) % Base \in Nat
    BY <2>2, DivMod, FrameAssumption
  <2> QED
    BY <2>3 DEF Byte, Token
<1> QED
  BY <1>1, FrameAssumption DEF Digits

\* A length is read back up to what its field has room for.
LEMMA DigitsReadBack ==
  ASSUME NEW n \in Nat, NEW p, \A i \in 1..Width : p[i] = Digits(n)[i]
  PROVE  Number(p) = n % Power[Width]
<1>1. PICK f : Horner(f, Base, 0, Value(p), Width) /\ Number(p) = f[Width]
  BY NumberIs
<1> DEFINE D(i) == n \div Power[Width - i]
           T == {i \in Nat : i \in 0..Width => f[i] = D(i) - D(0) * Power[i]}
<1>2. \A i \in 0..Width : Width - i \in 0..Width /\ D(i) \in Nat
  <2> SUFFICES ASSUME NEW i \in 0..Width PROVE Width - i \in 0..Width /\ D(i) \in Nat
    OBVIOUS
  <2>1. Width - i \in 0..Width
    BY FrameAssumption
  <2> QED
    BY <2>1, PowerIs, DivMod
<1>3. ASSUME NEW i \in 0..(Width - 1)
      PROVE  Value(p)[i + 1] = D(i + 1) % Base
  <2>1. i + 1 \in 1..Width
    BY FrameAssumption
  <2>2. p[i + 1] = Byte(D(i + 1) % Base)
    BY <2>1, DigitsAre
  <2> QED
    BY <2>1, <2>2 DEF Value, Code, Byte
<1>4. ASSUME NEW i \in 0..(Width - 1)
      PROVE  D(i) = D(i + 1) \div Base
  <2>1. Width - (i + 1) \in 0..(Width - 1) /\ (Width - (i + 1)) + 1 = Width - i
    BY FrameAssumption
  <2>2. /\ Power[Width - i] = Power[Width - (i + 1)] * Base
        /\ Power[Width - (i + 1)] \in Nat \ {0}
    <3>1. Width - (i + 1) \in 0..Width
      BY FrameAssumption
    <3>2. Power[(Width - (i + 1)) + 1] = Power[Width - (i + 1)] * Base
      BY <2>1, PowerIs
    <3> QED
      BY <2>1, <3>1, <3>2, PowerIs
  <2>3. Power[Width - i] = Base * Power[Width - (i + 1)]
    BY <2>2, FrameAssumption
  <2> QED
    BY <2>2, <2>3, DivDiv, FrameAssumption
<1>5. ASSUME NEW i \in 0..(Width - 1)
      PROVE  D(i + 1) = D(i) * Base + (D(i + 1) % Base) /\ D(i + 1) % Base \in Nat
  <2>1. i + 1 \in 0..Width
    BY FrameAssumption
  <2>2. D(i + 1) \in Nat
    BY <1>2, <2>1
  <2>3. D(i) = D(i + 1) \div Base
    BY <1>4
  <2> HIDE DEF D
  <2> DEFINE d == D(i + 1)
  <2>4. Base \in Nat \ {0} /\ d \in Nat
    BY <2>2, FrameAssumption
  <2> HIDE DEF d
  <2>5. d % Base \in 0..(Base - 1) /\ d = (d \div Base) * Base + (d % Base)
    BY <2>4, DivMod, Zenon
  <2> QED
    BY <2>3, <2>4, <2>5 DEF d
<1>6. D(Width) = n
  <2>1. Power[Width - Width] = 1
    BY PowerIs, FrameAssumption
  <2> QED
    BY <2>1
<1>7. n % Power[Width] = n - D(0) * Power[Width]
  <2>1. Power[Width] \in Nat \ {0} /\ D(0) = n \div Power[Width]
    BY WidthPower, FrameAssumption
  <2> DEFINE m == Power[Width]
  <2> HIDE DEF m
  <2>2. n = (n \div m) * m + (n % m) /\ n \div m \in Nat /\ n % m \in 0..(m - 1)
    <3>1. m \in Nat \ {0}
      BY <2>1 DEF m
    <3> QED
      BY <3>1, DivMod, Zenon
  <2>3. (n \div m) * m \in Nat /\ m \in Nat
    BY <2>1, <2>2, ProductIsNat DEF m
  <2> QED
    BY <2>1, <2>2, <2>3 DEF m
<1> HIDE DEF D
<1>8. 0 \in T
  <2>1. f[0] = 0 /\ D(0) \in Nat /\ Power[0] = 1
    BY <1>1, <1>2, PowerIs, FrameAssumption DEF Horner
  <2> QED
    BY <2>1
<1>9. ASSUME NEW i \in Nat, i \in T
      PROVE  i + 1 \in T
  <2> SUFFICES ASSUME i + 1 \in 0..Width PROVE f[i + 1] = D(i + 1) - D(0) * Power[i + 1]
    OBVIOUS
  <2>1. /\ i \in 0..Width /\ i \in 0..(Width - 1) /\ i + 1 # 0 /\ (i + 1) - 1 = i
        /\ Base \in Nat
    BY FrameAssumption
  <2>2. f[i + 1] = f[i] * Base + (D(i + 1) % Base)
    BY <1>1, <1>3, <2>1 DEF Horner
  <2>3. f[i] = D(i) - D(0) * Power[i]
    BY <1>9, <2>1
  <2>4. Power[i + 1] = Power[i] * Base /\ Power[i] \in Nat
    BY <2>1, PowerIs
  <2>5. D(i + 1) = D(i) * Base + (D(i + 1) % Base) /\ D(i + 1) % Base \in Nat
    BY <1>5, <2>1
  <2>6. D(i) \in Nat /\ D(0) \in Nat /\ D(0) * Power[i] \in Nat
    BY <1>2, <2>1, <2>4, ProductIsNat, FrameAssumption
  <2>7. f[i] * Base = D(i) * Base - (D(0) * Power[i]) * Base
    BY <2>1, <2>3, <2>6
  <2>8. (D(0) * Power[i]) * Base = D(0) * Power[i + 1]
    BY <2>1, <2>4, <2>6, Associates
  <2>9. D(i) * Base \in Nat /\ D(0) * Power[i + 1] \in Nat
    BY <2>1, <2>4, <2>6, ProductIsNat
  <2> QED
    BY <2>2, <2>5, <2>7, <2>8, <2>9
<1> HIDE DEF T
<1>10. Width \in T
  BY <1>8, <1>9, Induction, FrameAssumption
<1> QED
  BY <1>1, <1>6, <1>7, <1>10, FrameAssumption DEF T

\* What a field says of a length that fits it is the length.
LEMMA FittingLength ==
  ASSUME NEW n \in Nat, n < Power[Width]
  PROVE  n % Power[Width] = n
BY WidthPower

\* A marker reads as the largest number of the field.
LEMMA MarkerIs ==
  /\ Marker \in Seq(Token) /\ Len(Marker) = Width
  /\ \A i \in 1..Width : Marker[i].what = "byte"
  /\ \A p : (\A i \in 1..Width : p[i] = Marker[i]) => Number(p) = Power[Width] - 1
<1>1. Power[Width] - 1 \in Nat /\ (Power[Width] - 1) % Power[Width] = Power[Width] - 1
  BY WidthPower, FittingLength
<1> QED
  BY <1>1, DigitsAre, DigitsReadBack DEF Marker

------------------------------------------------------------------------------
(* A stream, message by message.                                            *)

Span == Width + 1   \* the tokens of a message

LEMMA SpanIs == Span \in Nat \ {0, 1} /\ Span - 1 = Width /\ Width \in Nat \ {0} /\ Width + 1 = Span
BY FrameAssumption DEF Span

\* The place of the j-th token of the k-th sequence of length m.
Nth(m, k, j) == (k - 1) * m + j

LEMMA Place ==
  ASSUME NEW m \in Nat, NEW n \in Nat, NEW k \in 1..n, NEW j \in 1..m
  PROVE  /\ (k - 1) * m \in Nat /\ n * m \in Nat /\ k * m \in Nat
         /\ Nth(m, k, j) \in 1..(n * m) /\ Nth(m, k, j) = (k - 1) * m + j
         /\ k * m = (k - 1) * m + m /\ k * m <= n * m
<1>1. PICK d \in Nat : n = k + d
  <2>1. n - k \in Nat /\ n = k + (n - k)
    OBVIOUS
  <2> QED
    BY <2>1
<1>2. k - 1 \in Nat /\ k \in Nat /\ k = (k - 1) + 1
  OBVIOUS
<1>3. n * m = k * m + d * m
  BY <1>1, <1>2, Distributes
<1>4. k * m = (k - 1) * m + 1 * m
  <2>1. ((k - 1) + 1) * m = (k - 1) * m + 1 * m
    BY <1>2, Distributes
  <2> QED
    BY <1>2, <2>1
<1>5. (k - 1) * m \in Nat /\ d * m \in Nat /\ k * m \in Nat
  BY <1>1, <1>2, ProductIsNat
<1> QED
  BY <1>3, <1>4, <1>5 DEF Nth

\* Sequences of one length, one behind the other.
InBlocks(f, m, s) ==
  /\ Len(f) = Len(s) * m
  /\ \A k \in 1..Len(s) : \A j \in 1..m : f[Nth(m, k, j)] = s[k][j]

LEMMA FlatBlocks ==
  ASSUME NEW E, NEW m \in Nat, NEW s \in Seq(Seq(E)), \A k \in 1..Len(s) : Len(s[k]) = m
  PROVE  Flat(s) \in Seq(E) /\ InBlocks(Flat(s), m, s)
<1> DEFINE U == {x \in Seq(E) : Len(x) = m}
           Good(t) == /\ Flat(t) \in Seq(E) /\ Len(Flat(t)) = Len(t) * m
                      /\ \A k \in 1..Len(t) : \A j \in 1..m :
                           Flat(t)[Nth(m, k, j)] = t[k][j]
           T == {t \in Seq(U) : Good(t)}
<1>1. <<>> \in T
  <2>1. Flat(<<>>) = <<>>
    BY DEF Flat
  <2>2. <<>> \in Seq(E) /\ <<>> \in Seq(U) /\ Len(<<>>) = 0 /\ 1..0 = {}
    OBVIOUS
  <2>3. 0 * m = 0
    OBVIOUS
  <2>4. Good(<<>>)
    BY <2>1, <2>2, <2>3
  <2> QED
    BY <2>2, <2>4
<1>2. ASSUME NEW t \in Seq(U), NEW e \in U, t \in T
      PROVE  Append(t, e) \in T
  <2> DEFINE t2 == Append(t, e)
             n == Len(t)
  <2>1. /\ t2 \in Seq(U) /\ Len(t2) = n + 1 /\ n \in Nat
        /\ t2[n + 1] = e /\ \A i \in 1..n : t2[i] = t[i]
    BY AppendIs
  <2>2. t \in Seq(Seq(E)) /\ e \in Seq(E) /\ Len(e) = m
    OBVIOUS
  <2>3. Flat(t2) = Flat(t) \o e
    BY <2>2, FlatAppend
  <2>4. Flat(t) \in Seq(E) /\ Len(Flat(t)) = n * m
    BY <1>2
  <2>5. \A k \in 1..n : \A j \in 1..m : Flat(t)[Nth(m, k, j)] = t[k][j]
    BY <1>2
  <2> HIDE DEF t2, n
  <2>6. /\ Flat(t2) \in Seq(E) /\ Len(Flat(t2)) = n * m + m
        /\ \A i \in 1..(n * m + m) :
             Flat(t2)[i] = IF i <= n * m THEN Flat(t)[i] ELSE e[i - n * m]
    <3> DEFINE a == Flat(t)
    <3>1. /\ a \o e \in Seq(E) /\ Len(a \o e) = Len(a) + Len(e)
          /\ \A i \in 1..Len(a \o e) : (a \o e)[i] = IF i <= Len(a) THEN a[i] ELSE e[i - Len(a)]
      BY <2>2, <2>4, ConcatIs
    <3>2. Flat(t2) = a \o e /\ Len(a) = n * m /\ Len(e) = m
      BY <2>2, <2>3, <2>4
    <3> HIDE DEF a
    <3> QED
      BY <3>1, <3>2 DEF a
  <2>7. (n + 1) * m = n * m + m /\ n * m \in Nat
    <3>1. (n + 1) * m = n * m + 1 * m /\ n * m \in Nat
      BY <2>1, Distributes, ProductIsNat
    <3> QED
      BY <3>1
  <2>8. ASSUME NEW k \in 1..(n + 1), NEW j \in 1..m
        PROVE  Flat(t2)[Nth(m, k, j)] = t2[k][j]
    <3>1. CASE k \in 1..n
      <4>1. Nth(m, k, j) \in 1..(n * m)
        BY <2>1, <3>1, Place
      <4>2. Flat(t2)[Nth(m, k, j)] = Flat(t)[Nth(m, k, j)]
        BY <2>6, <2>7, <4>1
      <4> QED
        BY <2>1, <2>5, <3>1, <4>2
    <3>2. CASE k = n + 1
      <4>1. Nth(m, k, j) = n * m + j
        BY <2>1, <3>2 DEF Nth
      <4>2. n * m + j \in 1..(n * m + m) /\ ~(n * m + j <= n * m) /\ (n * m + j) - n * m = j
        BY <2>7
      <4> QED
        BY <2>1, <2>6, <3>2, <4>1, <4>2
    <3> QED
      BY <2>1, <3>1, <3>2
  <2>9. Good(t2)
    BY <2>1, <2>6, <2>7, <2>8
  <2> QED
    BY <2>1, <2>9 DEF t2
<1>3. s \in T
  <2>1. s \in Seq(U)
    OBVIOUS
  <2> HIDE DEF T, U
  <2> QED
    BY <1>1, <1>2, <2>1, SequenceInduction
<1> QED
  BY <1>3 DEF InBlocks

LEMMA FlattenIs ==
  ASSUME NEW s
  PROVE  SE!FlattenSeq(s) = Flat(s)
BY DEF SE!FlattenSeq, Flat, Joined

\* The k-th message of the stream of a list of batches.
MessageAt(batches, k) ==
  IF k = 1 THEN Message("schema", SchemaOf[batches[1]])
  ELSE IF k = Len(batches) + 2 THEN Message("eos", 0)
  ELSE Message("batch", batches[k - 1])

\* What makes a message.
LEMMA MessageIs ==
  ASSUME NEW what \in {"schema", "batch", "eos"}, NEW val \in Nat
  PROVE  LET m == Message(what, val) IN
         /\ m \in Seq(Token) /\ Len(m) = Span
         /\ \A i \in 1..Width : m[i] = Marker[i]
         /\ m[Span].what = what /\ m[Span].val = val
<1> DEFINE last == <<[what |-> what, val |-> val]>>
<1>1. last \in Seq(Token) /\ Len(last) = 1 /\ last[1].what = what /\ last[1].val = val
  BY DEF Token
<1> HIDE DEF last
<1>2. Marker \in Seq(Token) /\ Len(Marker) = Width
  BY MarkerIs
<1>3. /\ Marker \o last \in Seq(Token) /\ Len(Marker \o last) = Width + 1
      /\ \A i \in 1..(Width + 1) :
           (Marker \o last)[i] = IF i <= Width THEN Marker[i] ELSE last[i - Width]
  <2> DEFINE S == Token
  <2>1. Marker \in Seq(S) /\ last \in Seq(S)
    BY <1>1, <1>2
  <2> HIDE DEF S
  <2>2. /\ Marker \o last \in Seq(S) /\ Len(Marker \o last) = Len(Marker) + Len(last)
        /\ \A i \in 1..Len(Marker \o last) :
             (Marker \o last)[i] = IF i <= Len(Marker) THEN Marker[i] ELSE last[i - Len(Marker)]
    BY <2>1, ConcatIs
  <2> QED
    BY <1>1, <1>2, <2>2 DEF S
<1> QED
  BY <1>1, <1>3, SpanIs DEF Message, last

\* A list of batches is the start of a stream.
LEMMA MessageAtIs ==
  ASSUME NEW batches \in Seq(Batches), Len(batches) # 0, NEW k \in 1..(Len(batches) + 2)
  PROVE  LET m == MessageAt(batches, k) IN
         /\ m \in Seq(Token) /\ Len(m) = Span
         /\ \A i \in 1..Width : m[i] = Marker[i]
         /\ m[Span].what = (IF k = 1 THEN "schema" ELSE IF k = Len(batches) + 2 THEN "eos" ELSE "batch")
         /\ k = 1 => m[Span].val = SchemaOf[batches[1]]
         /\ k \in 2..(Len(batches) + 1) => m[Span].val = batches[k - 1]
<1>1. SchemaOf \in Seq(Nat \ {0}) /\ Batches \subseteq Nat
  BY FrameAssumption DEF Batches
<1>2. CASE k = 1
  <2>1. batches[1] \in Batches
    OBVIOUS
  <2>2. SchemaOf[batches[1]] \in Nat
    BY <1>1, <2>1 DEF Batches
  <2> QED
    BY <1>2, <2>2, MessageIs DEF MessageAt
<1>3. CASE k = Len(batches) + 2
  <2>1. k # 1 /\ 0 \in Nat /\ k \notin 2..(Len(batches) + 1)
    BY <1>3
  <2> QED
    BY <1>3, <2>1, MessageIs DEF MessageAt
<1>4. CASE k \in 2..(Len(batches) + 1)
  <2>1. k # 1 /\ k # Len(batches) + 2 /\ k - 1 \in 1..Len(batches)
    BY <1>4
  <2>2. batches[k - 1] \in Batches
    BY <2>1
  <2>3. batches[k - 1] \in Nat
    BY <1>1, <2>2
  <2> QED
    BY <2>1, <2>3, MessageIs DEF MessageAt
<1> QED
  BY <1>2, <1>3, <1>4

\* A stream is the schema, the batches and the end, a message each.
LEMMA StreamIs ==
  ASSUME NEW batches \in Seq(Batches), Len(batches) # 0
  PROVE  LET s == IpcStream(batches)
             n == Len(batches) + 2
         IN /\ s \in Seq(Token) /\ Len(s) = n * Span
            /\ \A k \in 1..n : \A j \in 1..Span :
                 s[Nth(Span, k, j)] = MessageAt(batches, k)[j]
<1> DEFINE n == Len(batches) + 2
           U == {x \in Seq(Token) : Len(x) = Span}
           first == Message("schema", SchemaOf[batches[1]])
           mid == [i \in 1..Len(batches) |-> Message("batch", batches[i])]
           last == Message("eos", 0)
           all == [k \in 1..n |-> MessageAt(batches, k)]
<1>1. Len(batches) \in Nat /\ n \in Nat
  OBVIOUS
<1>2. \A k \in 1..n : MessageAt(batches, k) \in U
  BY MessageAtIs
<1>3. first = MessageAt(batches, 1) /\ 1 \in 1..n
  BY <1>1 DEF MessageAt
<1>4. last = MessageAt(batches, n) /\ n \in 1..n
  BY <1>1 DEF MessageAt
<1>5. \A i \in 1..Len(batches) : mid[i] = MessageAt(batches, i + 1) /\ i + 1 \in 1..n
  BY <1>1 DEF MessageAt
<1> HIDE DEF first, last
<1>6. first \in U /\ last \in U
  BY <1>2, <1>3, <1>4
<1>7. mid \in Seq(U) /\ Len(mid) = Len(batches)
  BY <1>1, <1>2, <1>5
<1> HIDE DEF mid, U
<1>8. all \in Seq(U) /\ Len(all) = n
  BY <1>1, <1>2
<1>9. all = Append(<<first>> \o mid, last)
  <2>1. <<first>> \in Seq(U) /\ Len(<<first>>) = 1 /\ <<first>>[1] = first
    BY <1>6
  <2> DEFINE f == <<first>>
  <2> HIDE DEF f
  <2>2. /\ f \o mid \in Seq(U) /\ Len(f \o mid) = 1 + Len(batches)
        /\ \A i \in 1..(1 + Len(batches)) :
             (f \o mid)[i] = IF i <= 1 THEN f[i] ELSE mid[i - 1]
    BY <1>7, <2>1, ConcatIs DEF f
  <2> DEFINE g == f \o mid
  <2> HIDE DEF g
  <2>3. /\ Append(g, last) \in Seq(U) /\ Len(Append(g, last)) = (1 + Len(batches)) + 1
        /\ Append(g, last)[(1 + Len(batches)) + 1] = last
        /\ \A i \in 1..(1 + Len(batches)) : Append(g, last)[i] = g[i]
    BY <1>6, <2>2, AppendIs DEF g
  <2>4. ASSUME NEW k \in 1..n
        PROVE  all[k] = Append(g, last)[k]
    <3>1. CASE k = 1
      BY <1>3, <2>1, <2>2, <2>3, <3>1 DEF f, g
    <3>2. CASE k \in 2..(1 + Len(batches))
      <4>1. ~(k <= 1) /\ k \in 1..(1 + Len(batches)) /\ k - 1 \in 1..Len(batches) /\ (k - 1) + 1 = k
        BY <1>1, <3>2
      <4> QED
        BY <1>5, <2>2, <2>3, <4>1 DEF g
    <3>3. CASE k = n
      <4>1. n = (1 + Len(batches)) + 1
        BY <1>1
      <4>2. all[n] = MessageAt(batches, n)
        BY <1>4
      <4> HIDE DEF all, n
      <4> QED
        BY <1>4, <2>3, <3>3, <4>1, <4>2
    <3>4. k = 1 \/ k \in 2..(1 + Len(batches)) \/ k = n
      BY <1>1
    <3> QED
      BY <3>1, <3>2, <3>3, <3>4, Zenon
  <2>5. Append(g, last) \in Seq(U) /\ Len(Append(g, last)) = Len(all)
    BY <1>1, <1>8, <2>3
  <2> HIDE DEF all
  <2>6. all = Append(g, last)
    BY <1>8, <2>4, <2>5
  <2> QED
    BY <2>6 DEF f, g
<1>10. Flat(all) = IpcStream(batches)
  <2> DEFINE S == Seq(Token)
  <2>1. first \in S /\ last \in S /\ mid \in Seq(S)
    BY <1>6, <1>7 DEF U
  <2>2. <<first>> \in Seq(S) /\ <<first>> = Append(<<>>, first) /\ <<>> \in Seq(S)
    BY <2>1
  <2>3. Flat(<<first>>) = first
    <3>1. Flat(Append(<<>>, first)) = Flat(<<>>) \o first /\ Flat(<<>>) = <<>>
      BY <2>1, <2>2, FlatAppend DEF Flat
    <3>2. <<>> \o first = first
      BY <2>1
    <3> QED
      BY <2>2, <3>1, <3>2
  <2>4. Flat(<<first>> \o mid) = first \o Flat(mid)
    BY <2>1, <2>2, <2>3, FlatConcat
  <2>5. <<first>> \o mid \in Seq(S)
    BY <2>1, <2>2
  <2>6. Flat(all) = Flat(<<first>> \o mid) \o last
    BY <1>9, <2>1, <2>5, FlatAppend
  <2>7. IpcStream(batches) = (first \o Flat(mid)) \o last
    BY FlattenIs DEF IpcStream, first, mid, last
  <2> QED
    BY <2>4, <2>6, <2>7
<1> HIDE DEF all
<1>11. /\ Flat(all) \in Seq(Token) /\ Len(Flat(all)) = Len(all) * Span
       /\ \A k \in 1..Len(all) : \A j \in 1..Span : Flat(all)[Nth(Span, k, j)] = all[k][j]
  <2> DEFINE S == Token
  <2>1. Span \in Nat
    BY SpanIs
  <2>2. all \in Seq(Seq(S)) /\ \A k \in 1..Len(all) : Len(all[k]) = Span
    BY <1>8 DEF U
  <2> DEFINE m == Span
  <2>5. m \in Nat /\ all \in Seq(Seq(S)) /\ \A k \in 1..Len(all) : Len(all[k]) = m
    BY <2>1, <2>2
  <2> HIDE DEF S, m
  <2>3. Flat(all) \in Seq(S) /\ InBlocks(Flat(all), m, all)
    BY <2>5, FlatBlocks
  <2>4. Flat(all) \in Seq(Token)
    BY <2>3 DEF S
  <2>6. InBlocks(Flat(all), Span, all)
    BY <2>3 DEF m
  <2> QED
    BY <2>4, <2>6 DEF InBlocks
<1>12. \A k \in 1..n : all[k] = MessageAt(batches, k)
  BY DEF all
<1> QED
  BY <1>8, <1>10, <1>11, <1>12

------------------------------------------------------------------------------
(* What the reader makes of the beginning of a stream.                      *)

LEMMA SliceWhole ==
  ASSUME NEW E, NEW s \in Seq(E), NEW m \in Nat \ {0}, NEW n \in Nat, n <= Len(s), m <= n + 1
  PROVE  /\ Slice(s, m, n) \in Seq(E) /\ Len(Slice(s, m, n)) = n + 1 - m
         /\ \A i \in 1..(n + 1 - m) : Slice(s, m, n)[i] = s[m + i - 1]
<1>1. (IF n < Len(s) THEN n ELSE Len(s)) = n
  OBVIOUS
<1>2. Slice(s, m, n) = SubSeq(s, m, n)
  BY <1>1 DEF Slice
<1>3. /\ SubSeq(s, m, n) \in Seq(E) /\ Len(SubSeq(s, m, n)) = n + 1 - m
      /\ \A i \in 1..(n + 1 - m) : SubSeq(s, m, n)[i] = s[m + i - 1]
  OBVIOUS
<1> QED
  BY <1>2, <1>3

LEMMA SliceTorn ==
  ASSUME NEW E, NEW s \in Seq(E), NEW m \in Nat \ {0}, NEW n \in Nat, n > Len(s)
  PROVE  /\ Slice(s, m, n) \in Seq(E)
         /\ Len(Slice(s, m, n)) = IF m <= Len(s) THEN Len(s) + 1 - m ELSE 0
<1>1. (IF n < Len(s) THEN n ELSE Len(s)) = Len(s)
  OBVIOUS
<1>2. Slice(s, m, n) = SubSeq(s, m, Len(s))
  BY <1>1 DEF Slice
<1> QED
  BY <1>2

\* The k-th message of what is there.
LEMMA AtIs ==
  ASSUME NEW s \in Seq(Token), NEW k \in Nat \ {0}
  PROVE  /\ At(s, k) \in Seq(Token)
         /\ k * Span <= Len(s) => /\ Len(At(s, k)) = Span
                                  /\ \A j \in 1..Span : At(s, k)[j] = s[Nth(Span, k, j)]
         /\ k * Span > Len(s) =>
              /\ Len(At(s, k)) < Span
              /\ (k - 1) * Span <= Len(s) => Len(At(s, k)) = Len(s) - (k - 1) * Span
<1> DEFINE E == Token
           a == (k - 1) * Span
           b == k * Span
           p == a + 1
<1>1. a \in Nat /\ b \in Nat /\ b = a + Span /\ Span \in Nat \ {0}
  BY SpanIs, Place
<1>2. At(s, k) = Slice(s, p, b)
  BY SpanIs DEF At, Span
<1>3. \A j \in 1..Span : Nth(Span, k, j) = a + j
  BY DEF Nth
<1>4. s \in Seq(E) /\ Len(s) \in Nat
  OBVIOUS
<1> HIDE DEF E, a, b
<1>5. p \in Nat \ {0} /\ p = a + 1
  BY <1>1
<1> HIDE DEF p
<1>6. CASE b <= Len(s)
  <2>1. b <= Len(s) /\ p <= b + 1
    BY <1>1, <1>5, <1>6
  <2>2. Slice(s, p, b) \in Seq(E) /\ Len(Slice(s, p, b)) = b + 1 - p
    <3>1. s \in Seq(E) /\ p \in Nat \ {0} /\ b \in Nat
      BY <1>1, <1>4, <1>5
    <3> QED
      BY <2>1, <3>1, SliceWhole
  <2>3. b + 1 - p = Span
    BY <1>1, <1>5
  <2>4. ASSUME NEW j \in 1..Span
        PROVE  Slice(s, p, b)[j] = s[Nth(Span, k, j)]
    <3>1. p + j - 1 = Nth(Span, k, j)
      BY <1>1, <1>3, <1>5
    <3>2. j \in 1..(b + 1 - p)
      BY <2>3
    <3>3. Slice(s, p, b)[j] = s[p + j - 1]
      BY <1>1, <1>4, <1>5, <2>1, <3>2, SliceWhole
    <3> QED
      BY <3>1, <3>3
  <2> QED
    BY <1>1, <1>2, <1>4, <1>6, <2>2, <2>3, <2>4 DEF a, b, E
<1>7. CASE b > Len(s)
  <2>1. /\ Slice(s, p, b) \in Seq(E)
        /\ Len(Slice(s, p, b)) = IF p <= Len(s) THEN Len(s) + 1 - p ELSE 0
    BY <1>1, <1>4, <1>5, <1>7, SliceTorn
  <2> QED
    BY <1>1, <1>2, <1>4, <1>5, <1>7, <2>1 DEF a, b, E
<1> QED
  BY <1>1, <1>4, <1>6, <1>7 DEF b

LEMMA IsMessageIs ==
  ASSUME NEW m \in Seq(Token)
  PROVE  IsMessage(m) <=> /\ Len(m) = Span
                          /\ \A i \in 1..Width : m[i] = Marker[i]
                          /\ m[Span].what \in {"schema", "batch", "eos"}
<1> DEFINE E == Token
<1>1. Marker \in Seq(E) /\ Len(Marker) = Width /\ m \in Seq(E) /\ Width \in Nat /\ Span = Width + 1
  BY MarkerIs, SpanIs
<1> HIDE DEF E
<1>2. ASSUME Len(m) = Span
      PROVE  SubSeq(m, 1, Width) = Marker <=> \A i \in 1..Width : m[i] = Marker[i]
  <2>1. /\ SubSeq(m, 1, Width) \in Seq(E) /\ Len(SubSeq(m, 1, Width)) = Width
        /\ \A i \in 1..Width : SubSeq(m, 1, Width)[i] = m[i]
    BY <1>1, <1>2
  <2> QED
    BY <1>1, <2>1
<1> QED
  BY <1>1, <1>2 DEF IsMessage

\* Without a schema in front there is nothing to read.
LEMMA NotASchema ==
  ASSUME NEW s \in Seq(Token),
         \/ Len(s) < Span
         \/ \E i \in 1..Width : s[i].what # "byte"
         \/ Number(s) # Power[Width] - 1
         \/ s[Span].what # "schema"
  PROVE  decode_arrow_ipc_batches(s) = {Err}
<1>1. SUFFICES ASSUME HasSchema(s) PROVE FALSE
  BY DEF decode_arrow_ipc_batches
<1>2. IsMessage(At(s, 1)) /\ At(s, 1)[Span].what = "schema"
  BY <1>1 DEF HasSchema, What, Span
<1>3. 1 * Span = Span /\ Span \in Nat /\ Len(s) \in Nat
  BY SpanIs
<1>4. At(s, 1) \in Seq(Token) /\ (Span > Len(s) => Len(At(s, 1)) < Span)
  BY <1>3, AtIs
<1>5. Span <= Len(s) /\ \A i \in 1..Width : At(s, 1)[i] = Marker[i]
  BY <1>2, <1>3, <1>4, IsMessageIs
<1>6. \A j \in 1..Span : Nth(Span, 1, j) = j
  BY <1>3 DEF Nth
<1>7. \A j \in 1..Span : At(s, 1)[j] = s[j]
  <2>1. \A j \in 1..Span : At(s, 1)[j] = s[Nth(Span, 1, j)]
    BY <1>3, <1>5, AtIs
  <2> QED
    BY <1>6, <2>1
<1>8. (\A i \in 1..Width : s[i] = Marker[i]) /\ s[Span].what = "schema"
  BY <1>2, <1>5, <1>7, SpanIs
<1>9. (\A i \in 1..Width : s[i].what = "byte") /\ Number(s) = Power[Width] - 1
  BY <1>8, MarkerIs
<1> QED
  BY <1>3, <1>5, <1>8, <1>9

\* s and t agree as far as both go.
Agrees(s, t) == \A i \in 1..Len(s) : i <= Len(t) => s[i] = t[i]

\* The messages of a stream that are there as a whole, and the first that is not.
LEMMA MessagesThere ==
  ASSUME NEW batches \in Seq(Batches), Len(batches) # 0,
         NEW s \in Seq(Token), Agrees(s, IpcStream(batches)),
         NEW k \in 1..(Len(batches) + 2)
  PROVE  /\ k * Span <= Len(s) =>
              /\ IsMessage(At(s, k))
              /\ What(s, k) = (IF k = 1 THEN "schema" ELSE IF k = Len(batches) + 2 THEN "eos" ELSE "batch")
              /\ k = 1 => Val(s, k) = SchemaOf[batches[1]]
              /\ k \in 2..(Len(batches) + 1) => Val(s, k) = batches[k - 1]
         /\ k * Span > Len(s) =>
              /\ ~IsMessage(At(s, k))
              /\ (k - 1) * Span <= Len(s) => Len(At(s, k)) = Len(s) - (k - 1) * Span
<1> DEFINE n == Len(batches) + 2
           m == MessageAt(batches, k)
<1>1. k \in Nat \ {0} /\ n \in Nat /\ k \in 1..n /\ Span \in Nat
  BY SpanIs
<1>2. CASE k * Span <= Len(s)
  <2>1. At(s, k) \in Seq(Token) /\ Len(At(s, k)) = Span
        /\ \A j \in 1..Span : At(s, k)[j] = s[Nth(Span, k, j)]
    BY <1>1, <1>2, AtIs
  <2>2. ASSUME NEW j \in 1..Span
        PROVE  At(s, k)[j] = m[j]
    <3> HIDE DEF n
    <3>1. Nth(Span, k, j) \in 1..(n * Span)
      BY <1>1, Place
    <3>2. Nth(Span, k, j) = (k - 1) * Span + j
      BY DEF Nth
    <3>3. k * Span = (k - 1) * Span + Span
      BY <1>1, Place
    <3>4. (k - 1) * Span \in Nat /\ Len(s) \in Nat /\ n * Span \in Nat
      BY <1>1, ProductIsNat
    <3> DEFINE x == Nth(Span, k, j)
    <3>5. x \in 1..Len(s) /\ x <= n * Span
      BY <1>1, <1>2, <3>1, <3>2, <3>3, <3>4
    <3>6. Len(IpcStream(batches)) = n * Span /\ IpcStream(batches)[x] = m[j]
      BY StreamIs DEF n
    <3>7. s[x] = IpcStream(batches)[x]
      BY <3>5, <3>6 DEF Agrees
    <3> QED
      BY <2>1, <3>6, <3>7
  <2>3. /\ Len(m) = Span /\ \A i \in 1..Width : m[i] = Marker[i]
        /\ m[Span].what = (IF k = 1 THEN "schema" ELSE IF k = Len(batches) + 2 THEN "eos" ELSE "batch")
        /\ k = 1 => m[Span].val = SchemaOf[batches[1]]
        /\ k \in 2..(Len(batches) + 1) => m[Span].val = batches[k - 1]
    BY MessageAtIs
  <2> HIDE DEF m
  <2>4. Span \in 1..Span /\ \A i \in 1..Width : i \in 1..Span
    BY SpanIs
  <2>5. At(s, k)[Span] = m[Span] /\ \A i \in 1..Width : At(s, k)[i] = Marker[i]
    BY <2>2, <2>3, <2>4
  <2>6. m[Span].what \in {"schema", "batch", "eos"}
    BY <2>3
  <2>7. IsMessage(At(s, k))
    BY <2>1, <2>5, <2>6, IsMessageIs
  <2>8. What(s, k) = m[Span].what /\ Val(s, k) = m[Span].val
    BY <2>5 DEF What, Val, Span
  <2>9. ~(k * Span > Len(s))
    BY <1>1, <1>2, ProductIsNat
  <2> QED
    BY <2>3, <2>7, <2>8, <2>9
<1>3. CASE k * Span > Len(s)
  <2>1. /\ At(s, k) \in Seq(Token) /\ Len(At(s, k)) < Span
        /\ (k - 1) * Span <= Len(s) => Len(At(s, k)) = Len(s) - (k - 1) * Span
    BY <1>1, <1>3, AtIs
  <2>2. ~IsMessage(At(s, k))
    BY <1>1, <2>1, IsMessageIs
  <2>3. ~(k * Span <= Len(s))
    BY <1>1, <1>3, ProductIsNat
  <2> QED
    BY <2>1, <2>2, <2>3
<1>4. k * Span \in Nat /\ Len(s) \in Nat
  BY <1>1, ProductIsNat
<1> QED
  BY <1>2, <1>3, <1>4

\* The message the reader stops at: the end of the stream, or the first that is torn.
Stops(batches, s, k) ==
  /\ k \in 1..(Len(batches) + 2)
  /\ (k - 1) * Span <= Len(s)
  /\ k = Len(batches) + 2 \/ k * Span > Len(s)

LEMMA StopsSomewhere ==
  ASSUME NEW batches \in Seq(Batches), NEW s \in Seq(Token)
  PROVE  \E k : Stops(batches, s, k)
<1> DEFINE n == Len(batches) + 2
           T == {k \in 1..n : k = n \/ k * Span > Len(s)}
<1>1. n \in Nat \ {0, 1} /\ Len(s) \in Nat /\ Span \in Nat
  BY SpanIs
<1>2. T \in SUBSET Nat /\ n \in T
  BY <1>1
<1> HIDE DEF n
<1>3. PICK k \in T : \A j \in T : k <= j
  BY <1>2, LeastExists
<1>4. CASE k = 1
  <2>1. (k - 1) * Span = 0
    BY <1>1, <1>4
  <2> QED
    BY <1>1, <1>3, <2>1 DEF Stops, n
<1>5. CASE k # 1
  <2>1. k - 1 \in 1..n /\ k - 1 # n /\ k - 1 \notin T
    <3>1. k \in 1..n
      BY <1>3
    <3>2. k - 1 \notin T
      <4> HIDE DEF T
      <4> QED
        BY <1>3, <3>1
    <3> QED
      BY <1>1, <1>5, <3>1, <3>2
  <2>2. ~((k - 1) * Span > Len(s)) /\ (k - 1) * Span \in Nat
    BY <1>1, <2>1, ProductIsNat
  <2>3. (k - 1) * Span <= Len(s)
    BY <1>1, <2>2
  <2> QED
    BY <1>1, <1>3, <2>3 DEF Stops, n
<1> QED
  BY <1>4, <1>5

\* The messages in front of the k-th are in front of where it starts.
LEMMA EarlierMessages ==
  ASSUME NEW j \in Nat \ {0}, NEW k \in Nat, j < k
  PROVE  j * Span <= (k - 1) * Span /\ (k - 1) * Span \in Nat /\ j * Span \in Nat
<1>1. k - 1 \in Nat /\ j \in 1..(k - 1) /\ Span \in Nat /\ 1 \in 1..Span
  BY SpanIs
<1> QED
  BY <1>1, Place, ProductIsNat

LEMMA StopIs ==
  ASSUME NEW batches \in Seq(Batches), Len(batches) # 0,
         NEW s \in Seq(Token), Agrees(s, IpcStream(batches)),
         NEW k, Stops(batches, s, k)
  PROVE  Stop(s) = k
<1> DEFINE n == Len(batches) + 2
           P(x) == /\ ~IsMessage(At(s, x)) \/ What(s, x) = "eos"
                   /\ \A j \in 1..(x - 1) : IsMessage(At(s, j)) /\ What(s, j) # "eos"
<1>1. n \in Nat /\ k \in 1..n /\ k \in Nat \ {0} /\ Len(s) \in Nat /\ Span \in Nat
  BY SpanIs DEF Stops
<1>2. k * Span \in Nat /\ (k - 1) * Span \in Nat
  BY <1>1, ProductIsNat
<1>3. k \in 1..(Len(s) + 1)
  <2>1. CASE k = 1
    BY <1>1, <2>1
  <2>2. CASE k # 1
    <3>1. k - 1 \in 1..(k - 1) /\ k - 1 \in Nat /\ Span = 1 + (Span - 1) /\ Span - 1 \in Nat
      BY <1>1, <2>2, SpanIs
    <3>2. (1 + (Span - 1)) * (k - 1) = 1 * (k - 1) + (Span - 1) * (k - 1)
      BY <3>1, Distributes
    <3>3. (Span - 1) * (k - 1) \in Nat /\ Span * (k - 1) = (k - 1) * Span
      BY <1>1, <3>1, ProductIsNat
    <3>4. k - 1 <= (k - 1) * Span
      BY <3>1, <3>2, <3>3
    <3>5. (k - 1) * Span <= Len(s)
      BY DEF Stops
    <3> QED
      BY <1>1, <1>2, <3>4, <3>5
  <2> QED
    BY <2>1, <2>2
<1>4. ASSUME NEW j \in 1..(k - 1)
      PROVE  IsMessage(At(s, j)) /\ What(s, j) # "eos"
  <2>1. j \in Nat \ {0} /\ j < k /\ j \in 1..n /\ j # n
    BY <1>1
  <2>2. j * Span <= (k - 1) * Span /\ j * Span \in Nat
    BY <1>1, <2>1, EarlierMessages
  <2>3. j * Span <= Len(s)
    BY <1>1, <1>2, <2>2 DEF Stops
  <2> QED
    BY <2>1, <2>3, MessagesThere
<1>5. ~IsMessage(At(s, k)) \/ What(s, k) = "eos"
  <2>1. CASE k * Span > Len(s)
    BY <1>1, <2>1, MessagesThere
  <2>2. CASE k * Span <= Len(s)
    <3>1. k = n /\ k # 1
      BY <1>1, <1>2, <2>2 DEF Stops
    <3> QED
      BY <1>1, <2>2, <3>1, MessagesThere
  <2> QED
    BY <1>1, <1>2, <2>1, <2>2
<1>6. P(k)
  BY <1>4, <1>5
<1>7. ASSUME NEW x \in 1..(Len(s) + 1), P(x)
      PROVE  x = k
  <2>1. ~(x < k)
    <3> SUFFICES ASSUME x < k PROVE FALSE
      OBVIOUS
    <3>1. x \in 1..(k - 1)
      BY <1>1
    <3> QED
      BY <1>4, <1>7, <3>1
  <2>2. ~(k < x)
    <3> SUFFICES ASSUME k < x PROVE FALSE
      OBVIOUS
    <3>1. k \in 1..(x - 1)
      BY <1>1
    <3> QED
      BY <1>5, <1>7, <3>1
  <2> QED
    BY <1>1, <2>1, <2>2
<1>8. Stop(s) = CHOOSE x \in 1..(Len(s) + 1) : P(x)
  BY DEF Stop
<1> HIDE DEF P
<1> QED
  BY <1>3, <1>6, <1>7, <1>8

\* A batch is read as it is, unless it has another schema than the first.
Readable(batches, i) ==
  IF SchemaOf[batches[i]] = SchemaOf[batches[1]] THEN batches[i] ELSE 0

LEMMA ReadIs ==
  ASSUME NEW batches \in Seq(Batches), Len(batches) # 0,
         NEW s \in Seq(Token), Agrees(s, IpcStream(batches)),
         NEW k, Stops(batches, s, k), k # 1
  PROVE  /\ Read(s) = [i \in 1..(k - 2) |-> Readable(batches, i)]
         /\ HasSchema(s) /\ k - 2 \in 0..Len(batches)
<1> DEFINE n == Len(batches) + 2
<1>1. n \in Nat /\ k \in 2..n /\ Len(s) \in Nat /\ Span \in Nat
  BY SpanIs DEF Stops
<1>2. ASSUME NEW j \in 1..(k - 1)
      PROVE  j \in 1..n /\ j * Span <= Len(s)
  <2>1. j \in Nat \ {0} /\ k \in Nat /\ j < k /\ j \in 1..n
    BY <1>1
  <2>2. j * Span <= (k - 1) * Span /\ j * Span \in Nat /\ (k - 1) * Span \in Nat
    BY <2>1, EarlierMessages
  <2> QED
    BY <1>1, <2>1, <2>2 DEF Stops
<1>3. 1 \in 1..(k - 1)
  BY <1>1
<1>4. IsMessage(At(s, 1)) /\ What(s, 1) = "schema" /\ Val(s, 1) = SchemaOf[batches[1]]
  <2>1. 1 \in 1..n /\ 1 * Span <= Len(s)
    BY <1>2, <1>3
  <2> QED
    BY <2>1, MessagesThere
<1>5. Stop(s) = k
  BY StopIs
<1>6. ASSUME NEW i \in 1..(k - 2)
      PROVE  Val(s, i + 1) = batches[i]
  <2>1. i + 1 \in 1..(k - 1) /\ i + 1 \in 2..(Len(batches) + 1) /\ (i + 1) - 1 = i
    BY <1>1
  <2>2. i + 1 \in 1..n /\ (i + 1) * Span <= Len(s)
    BY <1>2, <2>1
  <2>3. Val(s, i + 1) = batches[(i + 1) - 1]
    BY <2>1, <2>2, MessagesThere
  <2> QED
    BY <2>1, <2>3
<1>7. Read(s) = [i \in 1..(k - 2) |-> Readable(batches, i)]
  BY <1>4, <1>5, <1>6 DEF Read, Readable
<1> QED
  BY <1>1, <1>4, <1>7 DEF HasSchema

\* What comes of a stream that is cut anywhere, or that is whole and has anything
\* behind it.
LEMMA StreamRead ==
  ASSUME NEW batches \in Seq(Batches), Len(batches) # 0,
         NEW s \in Seq(Token), Agrees(s, IpcStream(batches)),
         NEW r \in decode_arrow_ipc_batches(s)
  PROVE  \E k : /\ Stops(batches, s, k)
                /\ \/ /\ r = Err
                      /\ \/ k * Span > Len(s)
                         \/ ~OneSchema(batches)
                   \/ /\ r = Ok([i \in 1..(k - 2) |-> Readable(batches, i)])
                      /\ k \in 2..(Len(batches) + 2)
                      /\ \/ k = Len(batches) + 2
                         \/ Len(s) - (k - 1) * Span < Width
<1>1. PICK k : Stops(batches, s, k)
  BY StopsSomewhere
<1>2. k \in 1..(Len(batches) + 2) /\ Len(s) \in Nat /\ Span \in Nat /\ Len(batches) \in Nat
  BY <1>1, SpanIs DEF Stops
<1>3. k * Span \in Nat
  BY <1>2, ProductIsNat
<1>4. CASE k = 1
  <2>1. k * Span > Len(s) /\ k * Span = Span
    BY <1>1, <1>2, <1>4 DEF Stops
  <2>2. decode_arrow_ipc_batches(s) = {Err}
    BY <1>2, <2>1, NotASchema
  <2> QED
    BY <1>1, <2>1, <2>2
<1>5. CASE k # 1
  <2>1. /\ Read(s) = [i \in 1..(k - 2) |-> Readable(batches, i)]
        /\ HasSchema(s) /\ k - 2 \in 0..Len(batches) /\ Stop(s) = k
    BY <1>1, <1>5, ReadIs, StopIs
  <2>2. CASE ~EndsThere(s, k)
    <3>1. r = Err
      BY <2>1, <2>2 DEF decode_arrow_ipc_batches
    <3>2. ~IsMessage(At(s, k))
      BY <2>2 DEF EndsThere
    <3>3. k * Span > Len(s)
      BY <1>2, <1>3, <3>2, MessagesThere
    <3> QED
      BY <1>1, <3>1, <3>3
  <2>3. CASE EndsThere(s, k) /\ r = Err
    <3>1. \E j \in DOMAIN Read(s) : Read(s)[j] = 0
      BY <2>1, <2>3 DEF decode_arrow_ipc_batches, Ok, Err
    <3>2. PICK j \in 1..(k - 2) : Readable(batches, j) = 0
      BY <2>1, <3>1
    <3>3. j \in 1..Len(batches) /\ batches[j] \in Batches
      BY <2>1
    <3>4. SchemaOf[batches[j]] # SchemaOf[batches[1]]
      BY <3>2, <3>3 DEF Readable, Batches, FrameAssumption
    <3> QED
      BY <1>1, <2>3, <3>3, <3>4 DEF OneSchema
  <2>4. CASE EndsThere(s, k) /\ r # Err
    <3>1. r = Ok(Read(s))
      BY <2>1, <2>4 DEF decode_arrow_ipc_batches
    <3>2. k = Len(batches) + 2 \/ Len(s) - (k - 1) * Span < Width
      <4>1. CASE IsMessage(At(s, k))
        <5>1. ~(k * Span > Len(s))
          BY <1>2, <4>1, MessagesThere
        <5> QED
          BY <1>1, <5>1 DEF Stops
      <4>2. CASE k * Span > Len(s) /\ Len(At(s, k)) < Width
        <5>1. Len(At(s, k)) = Len(s) - (k - 1) * Span
          BY <1>1, <1>2, <4>2, MessagesThere DEF Stops
        <5> QED
          BY <4>2, <5>1
      <4> QED
        BY <1>1, <2>4, <4>1, <4>2 DEF EndsThere, Stops
    <3>3. r = Ok([i \in 1..(k - 2) |-> Readable(batches, i)])
      BY <2>1, <3>1
    <3>4. k \in 2..(Len(batches) + 2)
      BY <1>2, <1>5
    <3> QED
      BY <1>1, <3>2, <3>3, <3>4, Zenon
  <2> QED
    BY <2>2, <2>3, <2>4
<1> QED
  BY <1>4, <1>5

------------------------------------------------------------------------------
(* The payloads on their way.                                               *)

\* A frame starts with a length and as many letters.
LEMMA HeaderIs ==
  ASSUME NEW tag \in Tag
  PROVE  /\ Header(tag) \in Seq(Token) /\ Len(Header(tag)) = Width + tag.len /\ tag.len \in Nat
         /\ \A i \in 1..Width : Header(tag)[i] = Digits(tag.len)[i]
         /\ \A i \in 1..tag.len : Header(tag)[Width + i] = Letter(tag)
<1> DEFINE E == Token
           d == Digits(tag.len)
           l == [i \in 1..tag.len |-> Letter(tag)]
<1>1. tag.len \in Nat /\ tag.name \in Nat /\ Width \in Nat
  BY SpanIs DEF Tag
<1>2. d \in Seq(E) /\ Len(d) = Width
  BY <1>1, DigitsAre
<1>3. Letter(tag) \in E
  BY <1>1 DEF Letter, Token
<1> HIDE DEF E, d
<1>4. l \in Seq(E) /\ Len(l) = tag.len /\ \A i \in 1..tag.len : l[i] = Letter(tag)
  BY <1>1, <1>3
<1> HIDE DEF l
<1>5. /\ d \o l \in Seq(E) /\ Len(d \o l) = Len(d) + Len(l)
      /\ \A i \in 1..Len(d \o l) : (d \o l)[i] = IF i <= Len(d) THEN d[i] ELSE l[i - Len(d)]
  BY <1>2, <1>4, ConcatIs
<1>6. Header(tag) = d \o l
  BY DEF Header, d, l
<1>7. \A i \in 1..Width : Header(tag)[i] = d[i]
  BY <1>1, <1>2, <1>4, <1>5, <1>6
<1>8. \A i \in 1..tag.len : Header(tag)[Width + i] = Letter(tag)
  <2> SUFFICES ASSUME NEW i \in 1..tag.len PROVE Header(tag)[Width + i] = Letter(tag)
    OBVIOUS
  <2>1. Width + i \in 1..(Width + tag.len) /\ ~(Width + i <= Width) /\ (Width + i) - Width = i
    BY <1>1
  <2> QED
    BY <1>2, <1>4, <1>5, <1>6, <2>1
<1> QED
  BY <1>1, <1>2, <1>4, <1>5, <1>6, <1>7, <1>8 DEF E, d

\* The letters of a tag are no digits, and a length that reads as a marker has some.
LEMMA HeaderIsNoMarker ==
  ASSUME NEW tag \in Tag, NEW p \in Seq(Token), Agrees(p, Header(tag))
  PROVE  decode_arrow_ipc_batches(p) = {Err}
<1>1. CASE Len(p) < Span
  BY <1>1, NotASchema
<1>2. CASE Len(p) >= Span
  <2>1. /\ Len(Header(tag)) = Width + tag.len /\ tag.len \in Nat
        /\ \A i \in 1..Width : Header(tag)[i] = Digits(tag.len)[i]
    BY HeaderIs
  <2>2. ASSUME NEW i \in 1..Width
        PROVE  p[i] = Digits(tag.len)[i]
    <3>1. i \in 1..Len(p) /\ i <= Width + tag.len
      BY <1>2, <2>1, SpanIs
    <3> QED
      BY <2>1, <3>1 DEF Agrees
  <2>3. Number(p) = tag.len % Power[Width]
    BY <2>1, <2>2, DigitsReadBack
  <2>4. CASE tag.len = 0
    <3>1. tag.len % Power[Width] = 0 /\ Power[Width] - 1 # 0
      BY <2>4, WidthPower, FittingLength
    <3> QED
      BY <2>3, <3>1, NotASchema
  <2>5. CASE tag.len # 0
    <3>1. 1 \in 1..tag.len /\ Span = Width + 1 /\ Span \in 1..Len(p) /\ Span <= Width + tag.len
      BY <1>2, <2>1, <2>5, SpanIs
    <3>2. Header(tag)[Width + 1] = Letter(tag)
      BY <3>1, HeaderIs
    <3>3. p[Span] = Letter(tag)
      BY <2>1, <3>1, <3>2 DEF Agrees
    <3>4. p[Span].what # "schema"
      BY <3>3 DEF Letter
    <3> QED
      BY <3>4, NotASchema
  <2> QED
    BY <2>4, <2>5
<1> QED
  BY <1>1, <1>2, SpanIs

\* A stream has one schema, in its first message.
LEMMA SchemaPlace ==
  ASSUME NEW batches \in Seq(Batches), Len(batches) # 0,
         NEW x \in 1..Len(IpcStream(batches)), IpcStream(batches)[x].what = "schema"
  PROVE  x = Span
<1> DEFINE n == Len(batches) + 2
           q == (x - 1) \div Span
           t == (x - 1) % Span
<1>1. n \in Nat /\ Span \in Nat \ {0} /\ Len(IpcStream(batches)) = n * Span /\ n * Span \in Nat
  BY SpanIs, StreamIs, ProductIsNat
<1>2. x - 1 \in Nat /\ x - 1 < n * Span
  BY <1>1
<1>3. q \in Nat /\ t \in 0..(Span - 1) /\ x - 1 = q * Span + t
  BY <1>1, <1>2, DivMod
<1> HIDE DEF q, t, n
<1>4. q < n
  <2> SUFFICES ASSUME n <= q PROVE FALSE
    BY <1>1, <1>3
  <2>1. q - n \in Nat /\ q = n + (q - n)
    BY <1>1, <1>3
  <2>2. (n + (q - n)) * Span = n * Span + (q - n) * Span
    BY <1>1, <2>1, Distributes
  <2>3. (q - n) * Span \in Nat /\ q * Span \in Nat
    BY <1>1, <1>3, <2>1, ProductIsNat
  <2> QED
    BY <1>1, <1>2, <1>3, <2>1, <2>2, <2>3
<1> DEFINE k == q + 1
           j == t + 1
<1>5. k \in 1..n /\ j \in 1..Span /\ k - 1 = q
  BY <1>1, <1>3, <1>4
<1>6. Nth(Span, k, j) = x
  <2>1. q * Span \in Nat
    BY <1>1, <1>3, ProductIsNat
  <2> QED
    BY <1>1, <1>2, <1>3, <1>5, <2>1 DEF Nth
<1> HIDE DEF k, j
<1>7. IpcStream(batches)[x] = MessageAt(batches, k)[j]
  <2>1. IpcStream(batches)[Nth(Span, k, j)] = MessageAt(batches, k)[j]
    BY <1>5, StreamIs DEF n
  <2> QED
    BY <1>6, <2>1
<1>8. /\ \A i \in 1..Width : MessageAt(batches, k)[i] = Marker[i]
      /\ MessageAt(batches, k)[Span].what =
           (IF k = 1 THEN "schema" ELSE IF k = Len(batches) + 2 THEN "eos" ELSE "batch")
  BY <1>5, MessageAtIs DEF n
<1>9. j = Span
  <2> SUFFICES ASSUME j # Span PROVE FALSE
    OBVIOUS
  <2>1. j \in 1..Width
    BY <1>5, SpanIs
  <2> QED
    BY <1>7, <1>8, <2>1, MarkerIs
<1>10. k = 1
  BY <1>7, <1>8, <1>9
<1> QED
  BY <1>1, <1>6, <1>9, <1>10 DEF Nth

Lines(batches) == [i \in 1..Len(batches) |-> Text(batches[i])]
Body(batches)  == IF batches = <<>> THEN <<>> ELSE IpcStream(batches)

\* What a sink of format f, with a tag, makes of a list.
Carries(f, tag, batches, p) ==
  \/ f = "Ndjson" /\ p = Lines(batches)
  \/ f = "ArrowStream" /\ Len(batches) = 1 /\ p = IpcStream(batches)
  \/ f = "ArrowFramed" /\ p = Header(tag) \o Body(batches)

\* One payload or two, one behind the other.
Whole(f, tag, lists, w) ==
  \E p : /\ Carries(f, tag, lists[1], p)
         /\ \/ Len(lists) = 1 /\ w = p
            \/ Len(lists) = 2 /\ \E q : Carries(f, tag, lists[2], q) /\ w = p \o q

\* What may be left of them.
Left(f, tag, lists, c, p) ==
  \E w : /\ Whole(f, tag, lists, w)
         /\ \/ ~c /\ p = w
            \/ c /\ \E n \in 0..(Len(w) - 1) : p = SubSeq(w, 1, n)

LEMMA LinesAre ==
  ASSUME NEW batches \in Seq(Batches)
  PROVE  /\ Lines(batches) \in Seq(Token) /\ Len(Lines(batches)) = Len(batches)
         /\ \A i \in 1..Len(batches) : /\ Lines(batches)[i].what = "text"
                                       /\ Lines(batches)[i].val = batches[i]
<1>1. Batches \subseteq Nat
  BY FrameAssumption DEF Batches
<1>2. ASSUME NEW i \in 1..Len(batches)
      PROVE  Text(batches[i]) \in Token /\ Text(batches[i]).what = "text" /\ Text(batches[i]).val = batches[i]
  <2>1. batches[i] \in Batches
    OBVIOUS
  <2>2. batches[i] \in Nat
    BY <1>1, <2>1
  <2> QED
    BY <2>2 DEF Text, Token
<1> DEFINE E == Token
<1>3. \A i \in 1..Len(batches) : Text(batches[i]) \in E
  BY <1>2
<1> HIDE DEF E
<1>4. Lines(batches) \in Seq(E) /\ Len(Lines(batches)) = Len(batches)
  BY <1>3 DEF Lines
<1>5. \A i \in 1..Len(batches) : Lines(batches)[i] = Text(batches[i])
  BY DEF Lines
<1> QED
  BY <1>2, <1>4, <1>5 DEF E

LEMMA BodyIs ==
  ASSUME NEW batches \in Seq(Batches)
  PROVE  Body(batches) \in Seq(Token)
<1>1. CASE batches = <<>>
  BY <1>1 DEF Body
<1>2. CASE batches # <<>>
  <2>1. Len(batches) # 0
    BY <1>2
  <2> QED
    BY <1>2, <2>1, StreamIs DEF Body
<1> QED
  BY <1>1, <1>2

LEMMA CarriesTokens ==
  ASSUME NEW f, NEW tag \in Tag, NEW batches \in Seq(Batches), NEW p, Carries(f, tag, batches, p)
  PROVE  p \in Seq(Token) /\ (f # "Ndjson" => Len(p) # 0)
<1>1. CASE f = "Ndjson" /\ p = Lines(batches)
  BY <1>1, LinesAre
<1>2. CASE f = "ArrowStream" /\ Len(batches) = 1 /\ p = IpcStream(batches)
  <2>1. p \in Seq(Token) /\ Len(p) = (Len(batches) + 2) * Span
    <3>1. Len(batches) # 0
      BY <1>2
    <3> QED
      BY <1>2, <3>1, StreamIs
  <2>2. Len(p) = 3 * Span
    BY <1>2, <2>1
  <2> QED
    BY <2>1, <2>2, SpanIs
<1>3. CASE f = "ArrowFramed" /\ p = Header(tag) \o Body(batches)
  <2> DEFINE E == Token
  <2>1. Header(tag) \in Seq(E) /\ Body(batches) \in Seq(E)
    BY HeaderIs, BodyIs
  <2>2. Len(Header(tag)) = Width + tag.len /\ tag.len \in Nat /\ Width \in Nat \ {0}
    BY HeaderIs, SpanIs
  <2> HIDE DEF E
  <2>3. p \in Seq(E) /\ Len(p) = Len(Header(tag)) + Len(Body(batches)) /\ Len(Body(batches)) \in Nat
    BY <1>3, <2>1, ConcatIs
  <2> QED
    BY <2>2, <2>3 DEF E
<1> QED
  BY <1>1, <1>2, <1>3 DEF Carries

\* Of the first payload something is left, or all.
Remains(f, tag, lists, c, p, w, first) ==
  /\ Whole(f, tag, lists, w) /\ Carries(f, tag, lists[1], first)
  /\ w \in Seq(Token) /\ first \in Seq(Token) /\ p \in Seq(Token)
  /\ Agrees(p, w) /\ Agrees(p, first) /\ Len(p) <= Len(w)
  /\ ~c => p = w /\ Len(p) >= Len(first)
  /\ Len(lists) = 1 => first = w
  /\ c => Len(p) < Len(w)
  /\ Len(lists) = 2 => \E q \in Seq(Token) : Carries(f, tag, lists[2], q) /\ w = first \o q

LEMMA LeftIs ==
  ASSUME NEW f, NEW tag \in Tag, NEW lists \in Seq(Seq(Batches)), NEW c \in BOOLEAN, NEW p,
         Len(lists) \in {1, 2}, Left(f, tag, lists, c, p)
  PROVE  \E w, first : Remains(f, tag, lists, c, p, w, first)
<1>1. PICK w : /\ Whole(f, tag, lists, w)
               /\ \/ ~c /\ p = w
                  \/ c /\ \E n \in 0..(Len(w) - 1) : p = SubSeq(w, 1, n)
  BY DEF Left
<1>2. PICK first : /\ Carries(f, tag, lists[1], first)
                   /\ \/ Len(lists) = 1 /\ w = first
                      \/ Len(lists) = 2 /\ \E q : Carries(f, tag, lists[2], q) /\ w = first \o q
  BY <1>1 DEF Whole
<1> DEFINE E == Token
<1>3. lists[1] \in Seq(Batches) /\ (Len(lists) = 2 => lists[2] \in Seq(Batches))
  OBVIOUS
<1>4. first \in Seq(E)
  BY <1>2, <1>3, CarriesTokens
<1>5. /\ w \in Seq(E) /\ Len(w) >= Len(first) /\ \A i \in 1..Len(first) : w[i] = first[i]
      /\ Len(lists) = 2 => \E q \in Seq(E) : Carries(f, tag, lists[2], q) /\ w = first \o q
  <2>1. CASE Len(lists) = 1 /\ w = first
    BY <1>4, <2>1
  <2>2. CASE Len(lists) = 2 /\ \E q : Carries(f, tag, lists[2], q) /\ w = first \o q
    <3>1. PICK q : Carries(f, tag, lists[2], q) /\ w = first \o q
      BY <2>2
    <3>2. q \in Seq(E)
      BY <1>3, <2>2, <3>1, CarriesTokens
    <3> HIDE DEF E
    <3>3. /\ w \in Seq(E) /\ Len(w) = Len(first) + Len(q) /\ Len(q) \in Nat /\ Len(first) \in Nat
          /\ \A i \in 1..Len(w) : w[i] = IF i <= Len(first) THEN first[i] ELSE q[i - Len(first)]
      BY <1>4, <3>1, <3>2, ConcatIs
    <3>4. Len(w) >= Len(first) /\ \A i \in 1..Len(first) : w[i] = first[i]
      BY <3>3
    <3> QED
      BY <3>1, <3>2, <3>3, <3>4, Zenon
  <2> QED
    BY <1>2, <2>1, <2>2
<1>6. /\ p \in Seq(E) /\ Len(p) <= Len(w) /\ \A i \in 1..Len(p) : p[i] = w[i]
      /\ (c => Len(p) < Len(w)) /\ (~c => p = w)
  <2> HIDE DEF E
  <2>1. CASE ~c /\ p = w
    BY <1>5, <2>1
  <2>2. CASE c /\ \E n \in 0..(Len(w) - 1) : p = SubSeq(w, 1, n)
    <3>1. PICK n \in 0..(Len(w) - 1) : p = SubSeq(w, 1, n)
      BY <2>2
    <3>2. n \in Nat /\ n < Len(w) /\ Len(w) \in Nat
      BY <1>5
    <3>3. /\ SubSeq(w, 1, n) \in Seq(E) /\ Len(SubSeq(w, 1, n)) = n
          /\ \A i \in 1..n : SubSeq(w, 1, n)[i] = w[i]
      BY <1>5, <3>2
    <3> QED
      BY <2>2, <3>1, <3>2, <3>3
  <2> QED
    BY <1>1, <2>1, <2>2
<1>7. Agrees(p, w)
  BY <1>6 DEF Agrees
<1>8. Agrees(p, first)
  <2> SUFFICES ASSUME NEW i \in 1..Len(p), i <= Len(first) PROVE p[i] = first[i]
    BY DEF Agrees
  <2>1. i \in 1..Len(first)
    BY <1>4
  <2> QED
    BY <1>5, <1>6, <2>1
<1>9. ~c => Len(p) >= Len(first)
  BY <1>5, <1>6
<1>10. Len(lists) = 1 => first = w
  BY <1>2
<1> QED
  BY <1>1, <1>2, <1>4, <1>5, <1>6, <1>7, <1>8, <1>9, <1>10 DEF Remains

LEMMA RestIs ==
  ASSUME NEW E, NEW p \in Seq(E), NEW m \in Nat, m <= Len(p)
  PROVE  LET s == SubSeq(p, m + 1, Len(p)) IN
         /\ s \in Seq(E) /\ Len(s) = Len(p) - m
         /\ \A i \in 1..Len(s) : s[i] = p[m + i]
<1>1. m + 1 \in Nat \ {0} /\ Len(p) \in Nat /\ m + 1 <= Len(p) + 1
  OBVIOUS
<1>2. (Len(p) + 1) - (m + 1) = Len(p) - m
  OBVIOUS
<1> DEFINE a == m + 1
<1>3. /\ SubSeq(p, a, Len(p)) \in Seq(E) /\ Len(SubSeq(p, a, Len(p))) = (Len(p) + 1) - a
      /\ \A i \in 1..((Len(p) + 1) - a) : SubSeq(p, a, Len(p))[i] = p[a + i - 1]
  <2> HIDE DEF a
  <2>1. a \in Nat \ {0} /\ a <= Len(p) + 1
    BY <1>1 DEF a
  <2> QED
    BY <1>1, <2>1
<1>4. ASSUME NEW i \in 1..(Len(p) - m)
      PROVE  SubSeq(p, a, Len(p))[i] = p[m + i]
  <2>1. a + i - 1 = m + i
    OBVIOUS
  <2> HIDE DEF a
  <2> QED
    BY <1>2, <1>3, <2>1 DEF a
<1> QED
  BY <1>2, <1>3, <1>4

\* What a source makes of the beginning of a stream, in terms of the batches in it.
LEMMA StreamOutcome ==
  ASSUME NEW batches \in Seq(Batches), Len(batches) # 0,
         NEW s \in Seq(Token), Agrees(s, IpcStream(batches)),
         NEW r \in decode_arrow_ipc_batches(s)
  PROVE  \/ /\ r.status = "Err"
            /\ Len(s) < Len(IpcStream(batches)) \/ ~OneSchema(batches)
         \/ /\ r.status = "Ok"
            /\ r.batches \in Seq(Nat) /\ Len(r.batches) <= Len(batches)
            /\ OneSchema(batches) => \A i \in 1..Len(r.batches) : r.batches[i] = batches[i]
            /\ Len(r.batches) < Len(batches) =>
                 Len(s) < Len(IpcStream(batches)) /\ Len(s) % Span # Width
<1> DEFINE n == Len(batches) + 2
<1>1. PICK k : /\ Stops(batches, s, k)
               /\ \/ /\ r = Err
                     /\ \/ k * Span > Len(s)
                        \/ ~OneSchema(batches)
                  \/ /\ r = Ok([i \in 1..(k - 2) |-> Readable(batches, i)])
                     /\ k \in 2..(Len(batches) + 2)
                     /\ \/ k = Len(batches) + 2
                        \/ Len(s) - (k - 1) * Span < Width
  BY StreamRead
<1>2. /\ n \in Nat /\ k \in 1..n /\ Len(s) \in Nat /\ Span \in Nat \ {0} /\ 1 \in 1..Span
      /\ Len(IpcStream(batches)) = n * Span /\ Width \in Nat /\ Span = Width + 1
  BY <1>1, SpanIs, StreamIs DEF Stops
<1> HIDE DEF n
<1>3. k * Span <= n * Span /\ k * Span \in Nat /\ (k - 1) * Span \in Nat /\ n * Span \in Nat
      /\ k * Span = (k - 1) * Span + Span
  BY <1>2, Place
<1>4. CASE r = Err /\ (k * Span > Len(s) \/ ~OneSchema(batches))
  <2>1. r.status = "Err"
    BY <1>4 DEF Err
  <2>2. k * Span > Len(s) => Len(s) < Len(IpcStream(batches))
    BY <1>2, <1>3
  <2> QED
    BY <1>4, <2>1, <2>2
<1>5. CASE /\ r = Ok([i \in 1..(k - 2) |-> Readable(batches, i)])
           /\ k \in 2..(Len(batches) + 2)
           /\ k = Len(batches) + 2 \/ Len(s) - (k - 1) * Span < Width
  <2>1. r.status = "Ok" /\ r.batches = [i \in 1..(k - 2) |-> Readable(batches, i)]
    BY <1>5 DEF Ok
  <2>2. k - 2 \in Nat /\ k - 2 <= Len(batches) /\ \A i \in 1..(k - 2) : i \in 1..Len(batches)
    BY <1>5
  <2>3. \A i \in 1..(k - 2) : Readable(batches, i) \in Nat
    <3> SUFFICES ASSUME NEW i \in 1..(k - 2) PROVE Readable(batches, i) \in Nat
      OBVIOUS
    <3>1. batches[i] \in Batches
      BY <2>2
    <3> QED
      BY <3>1, FrameAssumption DEF Readable, Batches
  <2>4. r.batches \in Seq(Nat) /\ Len(r.batches) = k - 2
    BY <2>1, <2>2, <2>3
  <2>5. ASSUME OneSchema(batches), NEW i \in 1..Len(r.batches)
        PROVE  r.batches[i] = batches[i]
    BY <2>1, <2>2, <2>4, <2>5 DEF OneSchema, Readable
  <2>6. ASSUME Len(r.batches) < Len(batches)
        PROVE  Len(s) < Len(IpcStream(batches)) /\ Len(s) % Span # Width
    <3>1. k # Len(batches) + 2 /\ k # n
      BY <2>2, <2>4, <2>6 DEF n
    <3>2. (k - 1) * Span <= Len(s) /\ k * Span > Len(s)
      BY <1>1, <3>1 DEF Stops
    <3> DEFINE t == Len(s) - (k - 1) * Span
    <3>3. t \in 0..(Span - 1) /\ t < Width /\ Len(s) = (k - 1) * Span + t
      BY <1>2, <1>3, <1>5, <3>1, <3>2
    <3> DEFINE q == k - 1
    <3>5. q \in Nat /\ Span \in Nat \ {0}
      BY <1>2
    <3>6. Len(s) = q * Span + t
      BY <3>3
    <3> HIDE DEF t, q
    <3>7. (q * Span + t) % Span = t
      BY <3>3, <3>5, DivModUnique
    <3>4. Len(s) % Span = t
      BY <3>6, <3>7
    <3> QED
      BY <1>2, <1>3, <3>2, <3>3, <3>4
  <2> QED
    BY <2>1, <2>2, <2>4, <2>5, <2>6
<1> QED
  BY <1>1, <1>4, <1>5

\* Where the IPC stream starts, and the length field in front of it.
LEMMA FieldIs ==
  ASSUME NEW tag \in Tag, NEW p \in Seq(Token), Agrees(p, Header(tag)), Len(p) >= Width
  PROVE  /\ Number(p) \in Nat
         /\ tag.len < Power[Width] => Number(p) = tag.len
         /\ tag.len >= Power[Width] => Number(p) < tag.len
<1>1. /\ Len(Header(tag)) = Width + tag.len /\ tag.len \in Nat /\ Width \in Nat
      /\ \A i \in 1..Width : Header(tag)[i] = Digits(tag.len)[i]
  BY HeaderIs, SpanIs
<1>2. ASSUME NEW i \in 1..Width
      PROVE  p[i] = Digits(tag.len)[i]
  <2>1. i \in 1..Len(p) /\ i <= Width + tag.len
    BY <1>1
  <2> QED
    BY <1>1, <2>1 DEF Agrees
<1>3. Number(p) = tag.len % Power[Width]
  BY <1>1, <1>2, DigitsReadBack
<1>4. Power[Width] \in Nat \ {0} /\ tag.len % Power[Width] \in 0..(Power[Width] - 1)
  BY <1>1, WidthPower, DivMod
<1> QED
  BY <1>1, <1>3, <1>4, FittingLength

\* A frame is its tag with what comes behind it.
IsFrame(tag, b, first) ==
  LET h == Width + tag.len IN
  /\ first \in Seq(Token) /\ b \in Seq(Token) /\ Len(first) = h + Len(b) /\ Len(b) \in Nat
  /\ h \in Nat /\ h >= Width
  /\ \A i \in 1..h : first[i] = Header(tag)[i]
  /\ \A i \in 1..Len(b) : first[h + i] = b[i]

LEMMA FrameIs ==
  ASSUME NEW tag \in Tag, NEW batches \in Seq(Batches), NEW first, Carries("ArrowFramed", tag, batches, first)
  PROVE  IsFrame(tag, Body(batches), first)
<1> DEFINE E == Token
           h == Width + tag.len
           b == Body(batches)
<1>1. first = Header(tag) \o b
  BY DEF Carries
<1>2. Header(tag) \in Seq(E) /\ Len(Header(tag)) = h /\ h \in Nat /\ h >= Width
  BY HeaderIs, SpanIs
<1>3. b \in Seq(E)
  BY BodyIs
<1> HIDE DEF E, h, b
<1>4. /\ first \in Seq(E) /\ Len(first) = h + Len(b) /\ Len(b) \in Nat
      /\ \A i \in 1..Len(first) : first[i] = IF i <= h THEN Header(tag)[i] ELSE b[i - h]
  BY <1>1, <1>2, <1>3, ConcatIs
<1>5. \A i \in 1..h : first[i] = Header(tag)[i]
  BY <1>2, <1>4
<1>6. ASSUME NEW i \in 1..Len(b)
      PROVE  first[h + i] = b[i]
  <2>1. h + i \in 1..Len(first) /\ ~(h + i <= h) /\ (h + i) - h = i
    BY <1>2, <1>4
  <2> QED
    BY <1>4, <2>1
<1> QED
  BY <1>2, <1>3, <1>4, <1>5, <1>6 DEF E, h, b, IsFrame

\* What a framed source makes of what is left of frames.
LEMMA FramedOutcome ==
  ASSUME NEW tag \in Tag, NEW lists \in Seq(Seq(Batches)), NEW c \in BOOLEAN, NEW p,
         Len(lists) \in {1, 2}, Left("ArrowFramed", tag, lists, c, p),
         NEW r \in decode_arrow_framed_batches(p)
  PROVE  LET h == Width + tag.len
             batches == lists[1] IN
         \/ /\ r.status = "Err"
            /\ c \/ batches = <<>> \/ ~OneSchema(batches) \/ tag.len >= Power[Width]
         \/ /\ r.status = "Ok"
            /\ r.batches \in Seq(Nat) /\ Len(r.batches) <= Len(batches)
            /\ OneSchema(batches) => \A i \in 1..Len(r.batches) : r.batches[i] = batches[i]
            /\ Len(r.batches) < Len(batches) =>
                 \/ tag.len >= Power[Width]
                 \/ c /\ ~(Len(p) > h /\ (Len(p) - h) % Span = Width)
<1> DEFINE h == Width + tag.len
           batches == lists[1]
           b == Body(batches)
<1>10. PICK w, first : Remains("ArrowFramed", tag, lists, c, p, w, first)
  BY LeftIs
<1>1. /\ Carries("ArrowFramed", tag, lists[1], first)
      /\ w \in Seq(Token) /\ first \in Seq(Token) /\ p \in Seq(Token)
      /\ Agrees(p, w) /\ Agrees(p, first) /\ Len(p) <= Len(w)
      /\ ~c => p = w /\ Len(p) >= Len(first)
      /\ Len(lists) = 1 => first = w
      /\ Len(lists) = 2 => \E q \in Seq(Token) : Carries("ArrowFramed", tag, lists[2], q) /\ w = first \o q
  BY <1>10 DEF Remains
<1>2. batches \in Seq(Batches) /\ Len(batches) \in Nat
  OBVIOUS
<1>3. /\ first \in Seq(Token) /\ b \in Seq(Token) /\ Len(first) = h + Len(b)
      /\ h \in Nat /\ h >= Width /\ tag.len \in Nat
      /\ \A i \in 1..h : first[i] = Header(tag)[i]
      /\ \A i \in 1..Len(b) : first[h + i] = b[i]
  <2>1. Carries("ArrowFramed", tag, batches, first)
    BY <1>1
  <2>2. tag.len \in Nat
    BY DEF Tag
  <2> HIDE DEF batches
  <2>3. IsFrame(tag, Body(batches), first)
    BY <1>2, <2>1, FrameIs
  <2> QED
    BY <2>2, <2>3 DEF IsFrame
<1>4. Agrees(p, Header(tag))
  <2> SUFFICES ASSUME NEW i \in 1..Len(p), i <= Len(Header(tag)) PROVE p[i] = Header(tag)[i]
    BY DEF Agrees
  <2>1. i \in 1..h /\ i <= Len(first)
    BY <1>1, <1>3, HeaderIs
  <2> QED
    BY <1>1, <1>3, <2>1 DEF Agrees
<1>5. Len(p) >= Width => /\ Number(p) \in Nat
                         /\ tag.len < Power[Width] => Number(p) = tag.len
                         /\ tag.len >= Power[Width] => Number(p) < tag.len
  <2>1. p \in Seq(Token)
    BY <1>1
  <2> QED
    BY <1>4, <2>1, FieldIs
<1> DEFINE n == Number(p)
           m == Width + n
           s == SubSeq(p, m + 1, Len(p))
<1>6. Width \in Nat \ {0} /\ Len(p) \in Nat /\ Len(b) \in Nat /\ Power[Width] \in Nat
  BY <1>1, <1>3, SpanIs, WidthPower
<1>9. h = Width + tag.len /\ m = Width + n
  OBVIOUS
<1> HIDE DEF h, n, m
<1>7. CASE Len(p) < Width \/ m > Len(p)
  <2>1. r = Ok(<<>>)
    BY <1>7 DEF decode_arrow_framed_batches, m, n
  <2>2. r.status = "Ok" /\ r.batches = <<>> /\ <<>> \in Seq(Nat) /\ Len(<<>>) = 0
    BY <2>1 DEF Ok
  <2>3. ASSUME tag.len < Power[Width]
        PROVE  ~(Len(p) > h) /\ Len(p) < h
    <3> QED
      BY <1>3, <1>5, <1>6, <1>7, <1>9, <2>3, SMTT(30) DEF n
  <2>4. ASSUME tag.len < Power[Width]
        PROVE  c
    <3>1. Len(p) < Len(first)
      BY <1>3, <1>6, <2>3, <2>4
    <3> QED
      BY <1>1, <1>3, <1>6, <3>1
  <2>5. tag.len >= Power[Width] \/ tag.len < Power[Width]
    BY <1>3, <1>6
  <2> HIDE DEF h, batches
  <2> QED
    BY <1>2, <2>2, <2>3, <2>4, <2>5 DEF h, batches
<1>8. CASE ~(Len(p) < Width \/ m > Len(p))
  <2>1. r \in decode_arrow_ipc_batches(s)
    BY <1>8 DEF decode_arrow_framed_batches, m, n
  <2>2. Len(p) >= Width /\ n \in Nat /\ m \in Nat /\ m <= Len(p)
    BY <1>5, <1>6, <1>8, <1>9 DEF n
  <2>3. s \in Seq(Token) /\ Len(s) = Len(p) - m /\ \A i \in 1..Len(s) : s[i] = p[m + i]
    <3> DEFINE E == Token
    <3>1. p \in Seq(E)
      BY <1>1
    <3> HIDE DEF E
    <3>2. s \in Seq(E) /\ Len(s) = Len(p) - m
      BY <2>2, <3>1, RestIs
    <3>3. \A i \in 1..Len(s) : s[i] = p[m + i]
      BY <2>2, <3>1, RestIs
    <3> QED
      BY <3>2, <3>3 DEF E
  <2>4. CASE tag.len >= Power[Width]
    <3>1. decode_arrow_ipc_batches(s) = {Err}
      <4>1. CASE Len(s) = 0
        <5> HIDE DEF s
        <5>1. Len(s) < Span
          BY <4>1, SpanIs
        <5> QED
          BY <2>3, <5>1, NotASchema
      <4>2. CASE Len(s) # 0
        <5>1. 1 \in 1..Len(s) /\ s[1] = p[m + 1]
          BY <2>3, <4>2
        <5>2. n + 1 \in 1..tag.len /\ m + 1 = Width + (n + 1) /\ m + 1 \in 1..h /\ m + 1 \in 1..Len(p)
          <6>1. n < tag.len
            BY <1>5, <2>2, <2>4 DEF n
          <6> HIDE DEF s
          <6>2. Len(p) - m >= 1
            BY <2>3, <5>1
          <6>3. tag.len \in Nat /\ n \in Nat /\ m \in Nat /\ Width \in Nat /\ Len(p) \in Nat
            BY <1>3, <1>6, <2>2
          <6> QED
            BY <1>9, <6>1, <6>2, <6>3
        <5>3. p[m + 1] = Header(tag)[m + 1]
          <6>1. m + 1 <= Len(first)
            BY <1>3, <1>6, <5>2
          <6> QED
            BY <1>1, <1>3, <5>2, <6>1 DEF Agrees
        <5>4. Header(tag)[Width + (n + 1)] = Letter(tag)
          BY <5>2, HeaderIs
        <5>5. s[1].what # "byte"
          BY <5>1, <5>2, <5>3, <5>4 DEF Letter
        <5>6. 1 \in 1..Width
          BY <1>6
        <5> HIDE DEF s
        <5> QED
          BY <2>3, <5>5, <5>6, NotASchema
      <4> QED
        BY <4>1, <4>2
    <3>2. r.status = "Err"
      BY <2>1, <3>1 DEF Err
    <3> QED
      BY <2>4, <3>2
  <2>5. CASE tag.len < Power[Width]
    <3>1. m = h
      BY <1>5, <1>9, <2>2, <2>5 DEF n
    <3>2. CASE batches = <<>>
      <4>1. Len(first) = h
        BY <1>3, <3>2 DEF Body
      <4>2. decode_arrow_ipc_batches(s) = {Err}
        <5>1. CASE Len(lists) = 1
          <6>1. Len(s) < Span
            <7>1. Len(p) <= Len(first)
              BY <1>1, <5>1
            <7>2. Len(b) = 0
              BY <3>2 DEF Body
            <7> HIDE DEF s, b
            <7> QED
              BY <2>3, <3>1, <4>1, <7>1, <1>3, <1>6, SpanIs
          <6> HIDE DEF s
          <6> QED
            BY <2>3, <6>1, NotASchema
        <5>2. CASE Len(lists) = 2
          <6>1. PICK q \in Seq(Token) : Carries("ArrowFramed", tag, lists[2], q) /\ w = first \o q
            BY <1>1, <5>2
          <6>2. /\ \A i \in 1..(Width + tag.len) : q[i] = Header(tag)[i]
                /\ Len(q) >= h
            <7>1. lists[2] \in Seq(Batches)
              <8> HIDE DEF s, b, batches
              <8>1. 2 \in 1..Len(lists)
                BY <5>2
              <8> QED
                BY <8>1
            <7>2. IsFrame(tag, Body(lists[2]), q)
              BY <6>1, <7>1, FrameIs
            <7> HIDE DEF s, b, batches
            <7> QED
              BY <1>3, <1>9, <7>2 DEF IsFrame
          <6>3. \A i \in 1..Len(q) : h + i \in 1..Len(w) /\ w[h + i] = q[i]
            <7> DEFINE E == Token
            <7>1. first \in Seq(E) /\ q \in Seq(E)
              BY <1>3
            <7> HIDE DEF E
            <7>2. /\ Len(w) = Len(first) + Len(q) /\ Len(q) \in Nat
                  /\ \A i \in 1..Len(w) : w[i] = IF i <= Len(first) THEN first[i] ELSE q[i - Len(first)]
              BY <6>1, <7>1, ConcatIs
            <7> QED
              <8> HIDE DEF s, b, batches
              <8>1. ASSUME NEW i \in 1..Len(q)
                    PROVE  h + i \in 1..Len(w) /\ ~(h + i <= h) /\ (h + i) - h = i
                <9>1. i \in Nat /\ i >= 1 /\ i <= Len(q)
                  BY <7>2
                <9> QED
                  BY <1>3, <4>1, <7>2, <9>1
              <8> QED
                BY <4>1, <7>2, <8>1
          <6>4. Agrees(s, Header(tag))
            <7> SUFFICES ASSUME NEW i \in 1..Len(s), i <= Len(Header(tag)) PROVE s[i] = Header(tag)[i]
              BY DEF Agrees
            <7>0. Len(Header(tag)) = h
              BY <1>9, HeaderIs
            <7> HIDE DEF s, b, batches
            <7>1. i \in 1..h /\ i \in 1..Len(q)
              BY <1>3, <2>3, <6>2, <7>0
            <7>2. h + i \in 1..Len(p) /\ h + i <= Len(w)
              <8>1. h + i \in 1..Len(w)
                BY <6>3, <7>1
              <8>2. Len(s) = Len(p) - h /\ i \in Nat /\ i >= 1 /\ i <= Len(s)
                BY <2>3, <3>1
              <8>3. h \in Nat /\ Len(p) \in Nat
                BY <1>3, <1>6
              <8>4. h + i <= Len(p) /\ h + i \in Nat /\ h + i >= 1
                BY <8>2, <8>3
              <8> QED
                BY <8>1, <8>3, <8>4
            <7>3. p[h + i] = w[h + i]
              BY <1>1, <7>2 DEF Agrees
            <7>4. s[i] = p[h + i]
              BY <2>3, <3>1
            <7> QED
              BY <1>9, <6>2, <6>3, <7>1, <7>3, <7>4
          <6> QED
            BY <2>3, <6>4, HeaderIsNoMarker
        <5> QED
          BY <5>1, <5>2
      <4>3. r.status = "Err"
        BY <2>1, <4>2 DEF Err
      <4> QED
        BY <3>2, <4>3
    <3>3. CASE batches # <<>>
      <4>1. Len(batches) # 0 /\ b = IpcStream(batches)
        BY <3>3 DEF Body
      <4>2. Agrees(s, IpcStream(batches))
        <5> SUFFICES ASSUME NEW i \in 1..Len(s), i <= Len(b) PROVE s[i] = b[i]
          BY <4>1 DEF Agrees
        <5>1. i \in 1..Len(b) /\ h + i \in 1..Len(p) /\ h + i <= Len(first)
          <6> HIDE DEF s, b
          <6> QED
            BY <1>3, <1>6, <2>3, <3>1, SMTT(30)
        <5>2. p[h + i] = first[h + i]
          BY <1>1, <5>1 DEF Agrees
        <5> QED
          BY <1>3, <2>3, <3>1, <5>1, <5>2
      <4>3. Len(s) < Len(IpcStream(batches)) => c
        <5>1. Len(s) < Len(b) => c
          <6> HIDE DEF s, b
          <6> QED
            BY <1>1, <1>3, <1>6, <2>3, <3>1
        <5> QED
          BY <4>1, <5>1
      <4>4. Len(s) = Len(p) - h
        BY <2>3, <3>1
      <4> HIDE DEF s, batches
      <4>5. \/ /\ r.status = "Err"
               /\ Len(s) < Len(IpcStream(batches)) \/ ~OneSchema(batches)
            \/ /\ r.status = "Ok"
               /\ r.batches \in Seq(Nat) /\ Len(r.batches) <= Len(batches)
               /\ OneSchema(batches) => \A i \in 1..Len(r.batches) : r.batches[i] = batches[i]
               /\ Len(r.batches) < Len(batches) =>
                    Len(s) < Len(IpcStream(batches)) /\ Len(s) % Span # Width
        BY <1>2, <2>1, <2>3, <4>1, <4>2, StreamOutcome
      <4>6. CASE r.status = "Err" /\ (Len(s) < Len(IpcStream(batches)) \/ ~OneSchema(batches))
        <5>1. c \/ ~OneSchema(batches)
          BY <4>3, <4>6
        <5> QED
          BY <4>6, <5>1 DEF batches
      <4>7. CASE /\ r.status = "Ok"
                 /\ r.batches \in Seq(Nat) /\ Len(r.batches) <= Len(batches)
                 /\ OneSchema(batches) => \A i \in 1..Len(r.batches) : r.batches[i] = batches[i]
                 /\ Len(r.batches) < Len(batches) =>
                      Len(s) < Len(IpcStream(batches)) /\ Len(s) % Span # Width
        <5>1. Len(r.batches) < Len(batches) => c /\ ~(Len(p) > h /\ (Len(p) - h) % Span = Width)
          BY <4>3, <4>4, <4>7, Zenon
        <5> QED
          BY <4>7, <5>1, Zenon DEF batches, h
      <4> QED
        BY <4>5, <4>6, <4>7, Zenon
    <3> QED
      BY <3>2, <3>3
  <2>6. tag.len >= Power[Width] \/ tag.len < Power[Width]
    BY <1>3, <1>6
  <2> QED
    BY <2>4, <2>5, <2>6
<1> QED
  BY <1>7, <1>8

\* One list and two, one behind the other.
LEMMA FlatOne ==
  ASSUME NEW E, NEW s \in Seq(Seq(E)), Len(s) = 1
  PROVE  Flat(s) = s[1]
<1>1. /\ <<>> \in Seq(Seq(E)) /\ s[1] \in Seq(E) /\ s = Append(<<>>, s[1])
      /\ Flat(<<>>) = <<>> /\ <<>> \o s[1] = s[1]
  BY DEF Flat
<1>2. Flat(Append(<<>>, s[1])) = Flat(<<>>) \o s[1]
  BY <1>1, FlatAppend
<1> QED
  BY <1>1, <1>2, Zenon

LEMMA FlatTwo ==
  ASSUME NEW E, NEW s \in Seq(Seq(E)), Len(s) = 2
  PROVE  Flat(s) = s[1] \o s[2]
<1> DEFINE B == Seq(E)
           k == 1
           t == SubSeq(s, 1, k)
<1>6. SubSeq(s, 1, 1)[1] = s[1]
  OBVIOUS
<1>4. s \in Seq(B) /\ Len(s) = k + 1 /\ k \in Nat /\ k + 1 = 1 + 1
  OBVIOUS
<1>1. t \in Seq(B) /\ Len(t) = 1 /\ t[1] = s[1] /\ s[1 + 1] \in B /\ s = Append(t, s[1 + 1])
  <2>1. t \in Seq(B) /\ Len(t) = k /\ s[k + 1] \in B /\ s = Append(t, s[k + 1])
    <3> HIDE DEF B, k
    <3> QED
      BY <1>4, SplitLast, SMTT(30)
  <2> QED
    BY <1>6, <2>1
<1>5. s[1 + 1] = s[2]
  OBVIOUS
<1> HIDE DEF t
<1>2. Flat(t) = s[1]
  BY <1>1, FlatOne
<1>3. Flat(Append(t, s[1 + 1])) = Flat(t) \o s[1 + 1]
  BY <1>1, FlatAppend
<1> QED
  BY <1>1, <1>2, <1>3, <1>5, Zenon

\* What a source of format g makes of a payload.
DecodedBy(g, p) ==
  IF g = "ArrowFramed" THEN decode_arrow_framed_batches(p)
  ELSE IF g = "ArrowStream" THEN decode_arrow_ipc_batches(p)
  ELSE IF \A i \in DOMAIN p : p[i].what = "text"
  THEN {Ok([i \in DOMAIN p |-> p[i].val])}
  ELSE {Err}

\* A stream starts with a marker.
LEMMA StreamStart ==
  ASSUME NEW batches \in Seq(Batches), Len(batches) # 0
  PROVE  \A i \in 1..Width : IpcStream(batches)[i] = Marker[i]
<1> SUFFICES ASSUME NEW i \in 1..Width PROVE IpcStream(batches)[i] = Marker[i]
  OBVIOUS
<1>1. 1 \in 1..(Len(batches) + 2) /\ i \in 1..Span /\ Len(batches) + 2 \in Nat
  BY SpanIs
<1>2. Nth(Span, 1, i) = i
  BY <1>1, SpanIs DEF Nth
<1>3. IpcStream(batches)[Nth(Span, 1, i)] = MessageAt(batches, 1)[i]
  BY <1>1, StreamIs
<1>4. MessageAt(batches, 1)[i] = Marker[i]
  BY <1>1, MessageAtIs
<1> QED
  BY <1>2, <1>3, <1>4

\* Lines of text are read one by one.
LEMMA LinesLeft ==
  ASSUME NEW tag \in Tag, NEW lists \in Seq(Seq(Batches)), NEW c \in BOOLEAN, NEW p,
         Len(lists) \in {1, 2}, Left("Ndjson", tag, lists, c, p)
  PROVE  /\ p \in Seq(Token) /\ Len(p) <= Len(Flat(lists))
         /\ \A i \in 1..Len(p) : p[i].what = "text" /\ p[i].val = Flat(lists)[i]
         /\ ~c => Len(p) = Len(Flat(lists))
<1>1. PICK w, first : Remains("Ndjson", tag, lists, c, p, w, first)
  BY LeftIs
<1>2. /\ first = Lines(lists[1])
      /\ w \in Seq(Token) /\ p \in Seq(Token)
      /\ Agrees(p, w) /\ Len(p) <= Len(w)
      /\ ~c => p = w
      /\ Len(lists) = 1 => first = w
      /\ Len(lists) = 2 => w = first \o Lines(lists[2])
  BY <1>1 DEF Remains, Carries
<1>3. lists[1] \in Seq(Batches)
  OBVIOUS
<1>4. /\ Len(w) = Len(Flat(lists))
      /\ \A i \in 1..Len(w) : w[i].what = "text" /\ w[i].val = Flat(lists)[i]
  <2>1. CASE Len(lists) = 1
    <3>1. Flat(lists) = lists[1]
      BY <2>1, FlatOne
    <3> QED
      BY <1>2, <1>3, <2>1, <3>1, LinesAre
  <2>2. CASE Len(lists) = 2
    <3>1. lists[2] \in Seq(Batches)
      <4>1. 2 \in 1..Len(lists)
        BY <2>2
      <4> QED
        BY <4>1
    <3>2. Flat(lists) = lists[1] \o lists[2]
      BY <2>2, FlatTwo
    <3> DEFINE E == Token
               B == Batches
               x == lists[1]
               y == lists[2]
    <3>3. /\ Lines(x) \in Seq(E) /\ Len(Lines(x)) = Len(x)
          /\ \A i \in 1..Len(x) : Lines(x)[i].what = "text" /\ Lines(x)[i].val = x[i]
      BY <1>3, LinesAre
    <3>4. /\ Lines(y) \in Seq(E) /\ Len(Lines(y)) = Len(y)
          /\ \A i \in 1..Len(y) : Lines(y)[i].what = "text" /\ Lines(y)[i].val = y[i]
      BY <3>1, LinesAre
    <3>5. x \in Seq(B) /\ y \in Seq(B) /\ w = Lines(x) \o Lines(y)
      BY <1>2, <1>3, <2>2, <3>1
    <3>6. Flat(lists) = x \o y
      BY <3>2
    <3> HIDE DEF E, B, x, y
    <3>7. /\ Len(w) = Len(x) + Len(y) /\ Len(x) \in Nat /\ Len(y) \in Nat
          /\ \A i \in 1..Len(w) : w[i] = IF i <= Len(x) THEN Lines(x)[i] ELSE Lines(y)[i - Len(x)]
      <4> DEFINE X == Lines(x)
                 Y == Lines(y)
      <4>1. X \in Seq(E) /\ Y \in Seq(E) /\ Len(X) = Len(x) /\ Len(Y) = Len(y) /\ w = X \o Y
        BY <3>3, <3>4, <3>5
      <4> HIDE DEF X, Y
      <4>2. /\ Len(X \o Y) = Len(X) + Len(Y) /\ Len(X) \in Nat /\ Len(Y) \in Nat
            /\ \A i \in 1..Len(X \o Y) : (X \o Y)[i] = IF i <= Len(X) THEN X[i] ELSE Y[i - Len(X)]
        <5>1. X \in Seq(E) /\ Y \in Seq(E)
          BY <4>1
        <5> QED
          BY <5>1, ConcatIs
      <4> QED
        BY <4>1, <4>2 DEF X, Y
    <3>8. /\ Len(x \o y) = Len(x) + Len(y)
          /\ \A i \in 1..Len(x \o y) : (x \o y)[i] = IF i <= Len(x) THEN x[i] ELSE y[i - Len(x)]
      BY <3>5, ConcatIs
    <3>9. ASSUME NEW i \in 1..Len(w)
          PROVE  w[i].what = "text" /\ w[i].val = (x \o y)[i]
      <4>1. CASE i <= Len(x)
        <5>1. i \in 1..Len(x) /\ i \in 1..Len(x \o y)
          BY <3>7, <3>8, <4>1
        <5> QED
          BY <3>3, <3>7, <3>8, <4>1, <5>1
      <4>2. CASE ~(i <= Len(x))
        <5>1. i - Len(x) \in 1..Len(y) /\ i \in 1..Len(x \o y)
          BY <3>7, <3>8, <4>2
        <5> QED
          BY <3>4, <3>7, <3>8, <4>2, <5>1
      <4> QED
        BY <4>1, <4>2
    <3> QED
      BY <3>6, <3>7, <3>8, <3>9
  <2> QED
    BY <2>1, <2>2
<1>5. ASSUME NEW i \in 1..Len(p)
      PROVE  p[i].what = "text" /\ p[i].val = Flat(lists)[i]
  <2>1. i \in 1..Len(w) /\ p[i] = w[i]
    BY <1>2 DEF Agrees
  <2> QED
    BY <1>4, <2>1
<1> QED
  BY <1>2, <1>4, <1>5

\* A source of another format than the sink's finds nothing, and either says so or
\* takes what it got for a frame that is cut short or for no lines at all.
Mismatched(g, p, r) ==
  r.status = "Err" \/ (r = Ok(<<>>) /\ (g = "ArrowFramed" \/ (g = "Ndjson" /\ p = <<>>)))

LEMMA LinesToArrow ==
  ASSUME NEW p \in Seq(Token), \A i \in 1..Len(p) : p[i].what = "text",
         NEW g \in {"ArrowStream", "ArrowFramed"}, NEW r \in DecodedBy(g, p)
  PROVE  Mismatched(g, p, r)
<1>1. ASSUME NEW s \in Seq(Token), \A i \in 1..Len(s) : s[i].what = "text"
      PROVE  decode_arrow_ipc_batches(s) = {Err}
  <2>1. Len(s) < Span \/ 1 \in 1..Len(s)
    BY SpanIs
  <2>2. 1 \in 1..Width
    BY SpanIs
  <2>3. CASE Len(s) < Span
    BY <2>3, NotASchema
  <2>4. CASE 1 \in 1..Len(s)
    <3>1. s[1].what # "byte"
      BY <1>1, <2>4
    <3> QED
      BY <2>2, <3>1, NotASchema
  <2> QED
    BY <2>1, <2>3, <2>4
<1>2. Err.status = "Err"
  BY DEF Err
<1>3. CASE g = "ArrowStream"
  <2>1. r \in decode_arrow_ipc_batches(p)
    BY <1>3 DEF DecodedBy
  <2>2. decode_arrow_ipc_batches(p) = {Err}
    BY <1>1
  <2> QED
    BY <1>2, <2>1, <2>2 DEF Mismatched
<1>4. CASE g = "ArrowFramed"
  <2> DEFINE m == Width + Number(p)
             s == SubSeq(p, m + 1, Len(p))
  <2>1. r \in decode_arrow_framed_batches(p)
    BY <1>4 DEF DecodedBy
  <2>2. CASE Len(p) < Width \/ m > Len(p)
    BY <1>4, <2>1, <2>2 DEF decode_arrow_framed_batches, Mismatched
  <2>3. CASE ~(Len(p) < Width \/ m > Len(p))
    <3>1. r \in decode_arrow_ipc_batches(s)
      BY <2>1, <2>3 DEF decode_arrow_framed_batches
    <3>2. m \in Nat
      <4>1. \A i \in 1..Width : p[i] \in Token
        <5>1. Width \in Nat /\ Len(p) \in Nat /\ Width <= Len(p)
          BY <2>3, SpanIs
        <5> QED
          BY <5>1
      <4>2. Number(p) \in Nat
        BY <4>1, NumberType
      <4> QED
        BY <4>2, SpanIs
    <3> DEFINE E == Token
    <3>3. p \in Seq(E) /\ m <= Len(p)
      <4>1. Len(p) \in Nat
        OBVIOUS
      <4> HIDE DEF m
      <4> QED
        BY <2>3, <3>2, <4>1
    <3>4. s \in Seq(E) /\ \A i \in 1..Len(s) : m + i \in 1..Len(p) /\ s[i] = p[m + i]
      <4> HIDE DEF E, m
      <4>1. s \in Seq(E) /\ Len(s) = Len(p) - m
        BY <3>2, <3>3, RestIs
      <4>2. \A i \in 1..Len(s) : s[i] = p[m + i]
        BY <3>2, <3>3, RestIs
      <4> HIDE DEF s
      <4> QED
        BY <3>2, <4>1, <4>2
    <3> HIDE DEF s, m
    <3>5. decode_arrow_ipc_batches(s) = {Err}
      BY <1>1, <3>4
    <3> QED
      BY <1>2, <3>1, <3>5 DEF Mismatched
  <2> QED
    BY <2>2, <2>3
<1> QED
  BY <1>3, <1>4

LEMMA BytesToLines ==
  ASSUME NEW p \in Seq(Token), Len(p) # 0 => p[1].what = "byte", NEW r \in DecodedBy("Ndjson", p)
  PROVE  Mismatched("Ndjson", p, r)
<1>1. CASE Len(p) = 0
  <2>1. p = <<>> /\ DOMAIN p = {}
    BY <1>1
  <2>2. [i \in DOMAIN p |-> p[i].val] = <<>>
    BY <2>1
  <2>3. r = Ok(<<>>)
    BY <2>1, <2>2 DEF DecodedBy
  <2> QED
    BY <2>1, <2>3 DEF Mismatched
<1>2. CASE Len(p) # 0
  <2>1. 1 \in DOMAIN p /\ p[1].what # "text"
    BY <1>2
  <2>2. r = Err
    BY <2>1 DEF DecodedBy
  <2> QED
    BY <2>2 DEF Err, Mismatched
<1> QED
  BY <1>1, <1>2

LEMMA FrameToStream ==
  ASSUME NEW tag \in Tag, NEW p \in Seq(Token), Agrees(p, Header(tag)), NEW r \in DecodedBy("ArrowStream", p)
  PROVE  Mismatched("ArrowStream", p, r)
<1>1. decode_arrow_ipc_batches(p) = {Err}
  BY HeaderIsNoMarker
<1>2. r = Err
  BY <1>1 DEF DecodedBy
<1> QED
  BY <1>2 DEF Err, Mismatched

\* A framed source takes a stream's marker for a length that passes the first stream,
\* and behind it there is no place where a stream could start.
LEMMA StreamToFrame ==
  ASSUME NEW tag \in Tag, NEW lists \in Seq(Seq(Batches)), NEW c \in BOOLEAN, NEW p,
         Len(lists) \in {1, 2}, Left("ArrowStream", tag, lists, c, p),
         NEW r \in DecodedBy("ArrowFramed", p)
  PROVE  Mismatched("ArrowFramed", p, r)
<1> DEFINE m == Width + Number(p)
           s == SubSeq(p, m + 1, Len(p))
<1>1. r \in decode_arrow_framed_batches(p)
  BY DEF DecodedBy
<1>2. Err.status = "Err"
  BY DEF Err
<1>3. CASE Len(p) < Width \/ m > Len(p)
  BY <1>1, <1>3 DEF decode_arrow_framed_batches, Mismatched
<1>4. CASE ~(Len(p) < Width \/ m > Len(p))
  <2>1. r \in decode_arrow_ipc_batches(s)
    BY <1>1, <1>4 DEF decode_arrow_framed_batches
  <2>2. PICK w, first : Remains("ArrowStream", tag, lists, c, p, w, first)
    BY LeftIs
  <2>3. /\ first = IpcStream(lists[1]) /\ Len(lists[1]) = 1 /\ lists[1] \in Seq(Batches)
        /\ w \in Seq(Token) /\ first \in Seq(Token) /\ p \in Seq(Token)
        /\ Agrees(p, w) /\ Agrees(p, first) /\ Len(p) <= Len(w)
        /\ Len(lists) = 1 => first = w
        /\ Len(lists) = 2 => /\ w = first \o IpcStream(lists[2])
                             /\ Len(lists[2]) = 1
    BY <2>2 DEF Remains, Carries
  <2>4. /\ Len(first) = (Len(lists[1]) + 2) * Span
        /\ \A i \in 1..Width : first[i] = Marker[i]
    <3>1. Len(lists[1]) # 0
      BY <2>3
    <3> QED
      BY <2>3, <3>1, StreamIs, StreamStart
  <2>5. Len(first) = 3 * Span /\ Width <= Len(first)
    BY <2>3, <2>4, SpanIs
  <2>6. Width \in Nat /\ Len(p) \in Nat /\ Width <= Len(p)
    BY <1>4, <2>3, SpanIs
  <2>7. \A i \in 1..Width : p[i] = Marker[i]
    <3> SUFFICES ASSUME NEW i \in 1..Width PROVE p[i] = Marker[i]
      OBVIOUS
    <3>1. i \in 1..Len(p) /\ i <= Len(first)
      BY <2>5, <2>6
    <3> QED
      BY <2>3, <2>4, <3>1 DEF Agrees
  <2>8. Number(p) = Power[Width] - 1
    BY <2>7, MarkerIs
  <2>9. m \in Nat /\ m > 3 * Span /\ 3 * Span \in Nat
    BY <2>8, MarkerAssumption, WidthPower, SpanIs DEF Span
  <2> HIDE DEF m
  <2> DEFINE E == Token
  <2>10. s \in Seq(E) /\ Len(s) = Len(p) - m /\ \A i \in 1..Len(s) : s[i] = p[m + i]
    <3>1. p \in Seq(E) /\ m <= Len(p)
      BY <1>4, <2>3, <2>6, <2>9
    <3> HIDE DEF E
    <3>2. s \in Seq(E) /\ Len(s) = Len(p) - m
      BY <2>9, <3>1, RestIs
    <3>3. \A i \in 1..Len(s) : s[i] = p[m + i]
      BY <2>9, <3>1, RestIs
    <3> QED
      BY <3>2, <3>3
  <2> HIDE DEF s
  <2>11. decode_arrow_ipc_batches(s) = {Err}
    <3>1. CASE Len(s) < Span
      BY <2>10, <3>1, NotASchema
    <3>2. CASE ~(Len(s) < Span)
      <4> DEFINE x == m + Span
                 y == x - 3 * Span
      <4>1. /\ Span \in 1..Len(s) /\ x \in 1..Len(p) /\ x > 3 * Span /\ x <= Len(w)
            /\ y \in Nat /\ y > Span
        BY <2>3, <2>6, <2>9, <2>10, <3>2, SpanIs
      <4>2. s[Span] = w[x]
        BY <2>3, <2>10, <4>1 DEF Agrees
      <4> HIDE DEF x
      <4>3. Len(lists) = 2
        <5>1. Len(lists) # 1
          BY <2>3, <2>5, <2>9, <4>1
        <5> QED
          BY <5>1
      <4>4. lists[2] \in Seq(Batches) /\ Len(lists[2]) # 0
        <5>1. 2 \in 1..Len(lists)
          BY <4>3
        <5>2. lists[2] \in Seq(Batches)
          BY <5>1
        <5>3. Len(lists[2]) = 1
          BY <2>3, <4>3
        <5> QED
          BY <5>2, <5>3
      <4> DEFINE q == IpcStream(lists[2])
      <4>5. q \in Seq(E) /\ first \in Seq(E) /\ w = first \o q
        BY <2>3, <4>3, <4>4, StreamIs
      <4> HIDE DEF q, E
      <4>6. /\ Len(first \o q) = Len(first) + Len(q) /\ Len(q) \in Nat
            /\ \A i \in 1..Len(first \o q) : (first \o q)[i] = IF i <= Len(first) THEN first[i] ELSE q[i - Len(first)]
        BY <4>5, ConcatIs
      <4>7. x \in 1..Len(w) /\ ~(x <= Len(first)) /\ y = x - Len(first)
        BY <2>5, <2>9, <4>1, <4>5, <4>6
      <4>8. w[x] = q[y]
        BY <4>5, <4>6, <4>7
      <4>9. y \in 1..Len(q) /\ y # Span
        BY <4>1, <4>5, <4>6, <4>7, <2>5, <2>9, SpanIs
      <4>10. q[y].what # "schema"
        BY <4>4, <4>9, SchemaPlace DEF q
      <4>11. s[Span].what # "schema"
        BY <4>2, <4>8, <4>10
      <4> QED
        BY <2>10, <4>11, NotASchema DEF E
    <3> QED
      BY <3>1, <3>2
  <2>12. r.status = "Err"
    BY <1>2, <2>1, <2>11
  <2> QED
    BY <2>12 DEF Mismatched
<1> QED
  BY <1>3, <1>4

\* Every pair of formats that differ.
LEMMA MismatchOutcome ==
  ASSUME NEW f \in {"Ndjson", "ArrowStream", "ArrowFramed"},
         NEW g \in {"Ndjson", "ArrowStream", "ArrowFramed"}, f # g,
         NEW tag \in Tag, NEW lists \in Seq(Seq(Batches)), NEW c \in BOOLEAN, NEW p,
         Len(lists) \in {1, 2}, Left(f, tag, lists, c, p),
         NEW r \in DecodedBy(g, p)
  PROVE  /\ Mismatched(g, p, r)
         /\ f # "Ndjson" /\ p = <<>> => c
<1>1. PICK w, first : Remains(f, tag, lists, c, p, w, first)
  BY LeftIs
<1>2. /\ Carries(f, tag, lists[1], first) /\ lists[1] \in Seq(Batches)
      /\ first \in Seq(Token) /\ p \in Seq(Token) /\ Agrees(p, first)
      /\ ~c => Len(p) >= Len(first)
  BY <1>1 DEF Remains
<1>3. f # "Ndjson" => Len(first) # 0
  BY <1>2, CarriesTokens
<1>4. f # "Ndjson" /\ p = <<>> => c
  BY <1>2, <1>3
<1>5. CASE f = "Ndjson"
  <2>1. \A i \in 1..Len(p) : p[i].what = "text"
    BY <1>5, LinesLeft
  <2>2. g \in {"ArrowStream", "ArrowFramed"}
    BY <1>5
  <2> QED
    BY <1>2, <1>4, <2>1, <2>2, LinesToArrow
<1>6. CASE f = "ArrowFramed"
  <2>1. IsFrame(tag, Body(lists[1]), first)
    BY <1>2, <1>6, FrameIs
  <2>2. Agrees(p, Header(tag))
    <3> SUFFICES ASSUME NEW i \in 1..Len(p), i <= Len(Header(tag)) PROVE p[i] = Header(tag)[i]
      BY DEF Agrees
    <3>1. i \in 1..(Width + tag.len) /\ i <= Len(first)
      BY <1>2, <2>1, HeaderIs DEF IsFrame
    <3> QED
      BY <1>2, <2>1, <3>1 DEF Agrees, IsFrame
  <2>3. CASE g = "ArrowStream"
    BY <1>2, <1>4, <2>2, <2>3, FrameToStream
  <2>4. CASE g = "Ndjson"
    <3>1. ASSUME Len(p) # 0 PROVE p[1].what = "byte"
      <4>1. 1 \in 1..Len(p) /\ 1 \in 1..Width /\ 1 <= Len(Header(tag)) /\ tag.len \in Nat
        BY <1>2, <3>1, HeaderIs, SpanIs
      <4>2. p[1] = Digits(tag.len)[1]
        BY <2>2, <4>1, HeaderIs DEF Agrees
      <4> QED
        BY <4>1, <4>2, DigitsAre
    <3> QED
      BY <1>2, <1>4, <2>4, <3>1, BytesToLines
  <2> QED
    BY <1>6, <2>3, <2>4
<1>7. CASE f = "ArrowStream"
  <2>1. CASE g = "ArrowFramed"
    BY <1>4, <1>7, <2>1, StreamToFrame
  <2>2. CASE g = "Ndjson"
    <3>1. first = IpcStream(lists[1]) /\ Len(lists[1]) # 0
      <4>1. first = IpcStream(lists[1]) /\ Len(lists[1]) = 1
        BY <1>2, <1>7 DEF Carries
      <4> QED
        BY <4>1
    <3>2. ASSUME Len(p) # 0 PROVE p[1].what = "byte"
      <4>1. 1 \in 1..Len(p) /\ 1 \in 1..Width /\ 1 <= Len(first)
        BY <1>2, <1>3, <1>7, <3>2, SpanIs
      <4>2. p[1] = first[1]
        BY <1>2, <4>1 DEF Agrees
      <4>3. first[1] = Marker[1]
        BY <1>2, <3>1, <4>1, StreamStart
      <4> QED
        BY <4>1, <4>2, <4>3, MarkerIs
    <3> QED
      BY <1>2, <1>4, <2>2, <3>2, BytesToLines
  <2> QED
    BY <1>7, <2>1, <2>2
<1> QED
  BY <1>5, <1>6, <1>7

\* Why a source refuses a payload, and what it makes of one that it takes.
ErrExplained(f, g, tag, lists, c, r) ==
  r.status = "Err" =>
    \/ f # g
    \/ c
    \/ f = "ArrowFramed" /\ lists[1] = <<>>
    \/ ~OneSchema(lists[1])
    \/ f = "ArrowFramed" /\ tag.len >= Power[Width]

FrontOf(f, tag) == IF f = "ArrowFramed" THEN Width + tag.len ELSE 0
LossExplained(f, g, tag, lists, c, p) ==
  \/ g = "ArrowFramed" /\ f # "ArrowFramed"
  \/ f = "ArrowFramed" /\ tag.len >= Power[Width]
  \/ Len(lists) = 2 /\ f # "Ndjson"
  \/ c /\ ~(f # "Ndjson" /\ Len(p) > FrontOf(f, tag) /\ (Len(p) - FrontOf(f, tag)) % Span = Width)

OkExplained(f, g, tag, lists, c, p, r) ==
  r.status = "Ok" =>
    /\ r.batches \in Seq(Nat) /\ Len(r.batches) <= Len(Flat(lists))
    /\ (\A i \in 1..Len(lists) : OneSchema(lists[i])) =>
         \A i \in 1..Len(r.batches) : r.batches[i] = Flat(lists)[i]
    /\ Len(r.batches) < Len(Flat(lists)) => LossExplained(f, g, tag, lists, c, p)

\* The first list is where the lists start.
LEMMA FirstList ==
  ASSUME NEW E, NEW lists \in Seq(Seq(E)), Len(lists) \in {1, 2}
  PROVE  /\ 1 \in 1..Len(lists)
         /\ lists[1] \in Seq(E) /\ Flat(lists) \in Seq(E) /\ Len(lists[1]) <= Len(Flat(lists))
         /\ \A i \in 1..Len(lists[1]) : Flat(lists)[i] = lists[1][i]
         /\ Len(lists) = 1 => Len(Flat(lists)) = Len(lists[1])
<1>1. lists[1] \in Seq(E) /\ 1 \in 1..Len(lists)
  OBVIOUS
<1>2. CASE Len(lists) = 1
  <2>1. Flat(lists) = lists[1]
    BY <1>2, FlatOne
  <2> QED
    BY <1>1, <2>1
<1>3. CASE Len(lists) = 2
  <2>1. Flat(lists) = lists[1] \o lists[2]
    BY <1>3, FlatTwo
  <2>2. lists[2] \in Seq(E)
    <3>1. 2 \in 1..Len(lists)
      BY <1>3
    <3> QED
      BY <3>1
  <2> DEFINE x == lists[1]
             y == lists[2]
  <2>3. x \in Seq(E) /\ y \in Seq(E) /\ Flat(lists) = x \o y
    BY <1>1, <2>1, <2>2
  <2> HIDE DEF x, y
  <2>4. /\ x \o y \in Seq(E) /\ Len(x \o y) = Len(x) + Len(y) /\ Len(x) \in Nat /\ Len(y) \in Nat
        /\ \A i \in 1..Len(x \o y) : (x \o y)[i] = IF i <= Len(x) THEN x[i] ELSE y[i - Len(x)]
    BY <2>3, ConcatIs
  <2>5. \A i \in 1..Len(x) : (x \o y)[i] = x[i]
    BY <2>4
  <2> QED
    BY <1>1, <1>3, <2>3, <2>4, <2>5 DEF x
<1> QED
  BY <1>2, <1>3

LEMMA StreamExplained ==
  ASSUME NEW tag \in Tag, NEW lists \in Seq(Seq(Batches)), NEW c \in BOOLEAN, NEW p,
         Len(lists) \in {1, 2}, Left("ArrowStream", tag, lists, c, p),
         NEW r \in DecodedBy("ArrowStream", p)
  PROVE  /\ ErrExplained("ArrowStream", "ArrowStream", tag, lists, c, r)
         /\ OkExplained("ArrowStream", "ArrowStream", tag, lists, c, p, r)
<1>1. PICK w, first : Remains("ArrowStream", tag, lists, c, p, w, first)
  BY LeftIs
<1>2. /\ first = IpcStream(lists[1]) /\ Len(lists[1]) = 1
      /\ first \in Seq(Token) /\ p \in Seq(Token) /\ Agrees(p, first)
      /\ ~c => Len(p) >= Len(first)
  BY <1>1 DEF Remains, Carries
<1>3. r \in decode_arrow_ipc_batches(p)
  BY DEF DecodedBy
<1> DEFINE b == lists[1]
           F == Flat(lists)
<1>4. /\ b \in Seq(Batches) /\ F \in Seq(Batches) /\ Len(b) <= Len(F)
      /\ \A i \in 1..Len(b) : F[i] = b[i]
      /\ Len(lists) = 1 => Len(F) = Len(b)
  BY FirstList
<1>5. Len(b) # 0 /\ Agrees(p, IpcStream(b)) /\ p \in Seq(Token)
  BY <1>2
<1>6. ~c => ~(Len(p) < Len(IpcStream(b)))
  BY <1>2
<1>8. 1 \in 1..Len(lists)
  BY FirstList
<1> HIDE DEF b, F
<1>7. \/ /\ r.status = "Err"
         /\ Len(p) < Len(IpcStream(b)) \/ ~OneSchema(b)
      \/ /\ r.status = "Ok"
         /\ r.batches \in Seq(Nat) /\ Len(r.batches) <= Len(b)
         /\ OneSchema(b) => \A i \in 1..Len(r.batches) : r.batches[i] = b[i]
         /\ Len(r.batches) < Len(b) =>
              Len(p) < Len(IpcStream(b)) /\ Len(p) % Span # Width
  BY <1>3, <1>4, <1>5, StreamOutcome
<1>9. Len(p) - 0 = Len(p) /\ FrontOf("ArrowStream", tag) = 0
  BY <1>2 DEF FrontOf
<1>10. ErrExplained("ArrowStream", "ArrowStream", tag, lists, c, r)
  BY <1>6, <1>7, <1>8 DEF ErrExplained, b
<1>11. ASSUME r.status = "Ok"
       PROVE  /\ r.batches \in Seq(Nat) /\ Len(r.batches) <= Len(F)
              /\ (\A i \in 1..Len(lists) : OneSchema(lists[i])) =>
                   \A i \in 1..Len(r.batches) : r.batches[i] = F[i]
  <2>1. /\ r.batches \in Seq(Nat) /\ Len(r.batches) <= Len(b) /\ Len(b) \in Nat /\ Len(F) \in Nat
        /\ OneSchema(b) => \A i \in 1..Len(r.batches) : r.batches[i] = b[i]
    BY <1>4, <1>7, <1>11
  <2>2. (\A i \in 1..Len(lists) : OneSchema(lists[i])) => OneSchema(b)
    BY <1>8 DEF b
  <2>3. \A i \in 1..Len(r.batches) : i \in 1..Len(b)
    BY <2>1
  <2> QED
    <3>1. Len(r.batches) <= Len(F)
      BY <1>4, <2>1
    <3>2. ASSUME OneSchema(b), NEW i \in 1..Len(r.batches)
          PROVE  r.batches[i] = F[i]
      BY <1>4, <2>1, <2>3, <3>2
    <3> QED
      BY <2>1, <2>2, <3>1, <3>2
<1>12. ASSUME r.status = "Ok", Len(r.batches) < Len(F)
       PROVE  LossExplained("ArrowStream", "ArrowStream", tag, lists, c, p)
  <2>1. CASE Len(lists) = 1
    <3>1. Len(r.batches) < Len(b)
      BY <1>4, <1>12, <2>1
    <3>2. c /\ Len(p) % Span # Width
      BY <1>6, <1>7, <1>12, <3>1
    <3> QED
      BY <1>9, <3>2 DEF LossExplained
  <2>2. CASE Len(lists) = 2
    BY <2>2 DEF LossExplained
  <2> QED
    BY <2>1, <2>2
<1>13. OkExplained("ArrowStream", "ArrowStream", tag, lists, c, p, r)
  BY <1>11, <1>12 DEF OkExplained, F
<1> QED
  BY <1>10, <1>13

LEMMA FrameExplained ==
  ASSUME NEW tag \in Tag, NEW lists \in Seq(Seq(Batches)), NEW c \in BOOLEAN, NEW p,
         Len(lists) \in {1, 2}, Left("ArrowFramed", tag, lists, c, p),
         NEW r \in DecodedBy("ArrowFramed", p)
  PROVE  /\ ErrExplained("ArrowFramed", "ArrowFramed", tag, lists, c, r)
         /\ OkExplained("ArrowFramed", "ArrowFramed", tag, lists, c, p, r)
<1>1. r \in decode_arrow_framed_batches(p)
  BY DEF DecodedBy
<1> DEFINE b == lists[1]
           F == Flat(lists)
<1>2. /\ b \in Seq(Batches) /\ F \in Seq(Batches) /\ Len(b) <= Len(F)
      /\ \A i \in 1..Len(b) : F[i] = b[i]
      /\ Len(lists) = 1 => Len(F) = Len(b)
  BY FirstList
<1>3. \/ /\ r.status = "Err"
         /\ c \/ b = <<>> \/ ~OneSchema(b) \/ tag.len >= Power[Width]
      \/ /\ r.status = "Ok"
         /\ r.batches \in Seq(Nat) /\ Len(r.batches) <= Len(b)
         /\ OneSchema(b) => \A i \in 1..Len(r.batches) : r.batches[i] = b[i]
         /\ Len(r.batches) < Len(b) =>
              \/ tag.len >= Power[Width]
              \/ c /\ ~(Len(p) > Width + tag.len /\ (Len(p) - (Width + tag.len)) % Span = Width)
  BY <1>1, FramedOutcome
<1>4. 1 \in 1..Len(lists) /\ FrontOf("ArrowFramed", tag) = Width + tag.len
  BY DEF FrontOf
<1> HIDE DEF b, F
<1>5. ErrExplained("ArrowFramed", "ArrowFramed", tag, lists, c, r)
  BY <1>3 DEF ErrExplained, b
<1>6. ASSUME r.status = "Ok"
      PROVE  /\ r.batches \in Seq(Nat) /\ Len(r.batches) <= Len(F)
             /\ (\A i \in 1..Len(lists) : OneSchema(lists[i])) =>
                  \A i \in 1..Len(r.batches) : r.batches[i] = F[i]
  <2>1. /\ r.batches \in Seq(Nat) /\ Len(r.batches) <= Len(b)
        /\ OneSchema(b) => \A i \in 1..Len(r.batches) : r.batches[i] = b[i]
    BY <1>3, <1>6, Zenon
  <2>2. (\A i \in 1..Len(lists) : OneSchema(lists[i])) => OneSchema(b)
    BY <1>4 DEF b
  <2>3. Len(b) \in Nat /\ Len(F) \in Nat /\ \A i \in 1..Len(r.batches) : i \in 1..Len(b)
    BY <1>2, <2>1
  <2>4. Len(r.batches) <= Len(F)
    BY <1>2, <2>1, <2>3
  <2> QED
    BY <1>2, <2>1, <2>2, <2>3, <2>4
<1>7. ASSUME r.status = "Ok", Len(r.batches) < Len(F)
      PROVE  LossExplained("ArrowFramed", "ArrowFramed", tag, lists, c, p)
  <2>1. CASE Len(lists) = 1
    <3>1. Len(r.batches) < Len(b)
      BY <1>2, <1>7, <2>1
    <3>2. \/ tag.len >= Power[Width]
          \/ c /\ ~(Len(p) > Width + tag.len /\ (Len(p) - (Width + tag.len)) % Span = Width)
      BY <1>3, <1>7, <3>1, Zenon
    <3> QED
      BY <1>4, <3>2, Zenon DEF LossExplained
  <2>2. CASE Len(lists) = 2
    BY <2>2 DEF LossExplained
  <2> QED
    BY <2>1, <2>2
<1>8. OkExplained("ArrowFramed", "ArrowFramed", tag, lists, c, p, r)
  BY <1>6, <1>7 DEF OkExplained, F
<1> QED
  BY <1>5, <1>8

LEMMA LinesExplained ==
  ASSUME NEW tag \in Tag, NEW lists \in Seq(Seq(Batches)), NEW c \in BOOLEAN, NEW p,
         Len(lists) \in {1, 2}, Left("Ndjson", tag, lists, c, p),
         NEW r \in DecodedBy("Ndjson", p)
  PROVE  /\ ErrExplained("Ndjson", "Ndjson", tag, lists, c, r)
         /\ OkExplained("Ndjson", "Ndjson", tag, lists, c, p, r)
<1> DEFINE F == Flat(lists)
           v == [i \in DOMAIN p |-> p[i].val]
<1>1. /\ p \in Seq(Token) /\ Len(p) <= Len(F)
      /\ \A i \in 1..Len(p) : p[i].what = "text" /\ p[i].val = F[i]
      /\ ~c => Len(p) = Len(F)
  BY LinesLeft
<1> HIDE DEF F
<1>2. DOMAIN p = 1..Len(p) /\ Len(p) \in Nat /\ \A i \in 1..Len(p) : p[i].val \in Nat
  <2>1. DOMAIN p = 1..Len(p) /\ Len(p) \in Nat
    BY <1>1
  <2>2. ASSUME NEW i \in 1..Len(p) PROVE p[i].val \in Nat
    <3>1. p[i] \in Token
      BY <1>1
    <3> QED
      BY <3>1 DEF Token
  <2> QED
    BY <2>1, <2>2
<1>3. r = Ok(v)
  BY <1>1, <1>2 DEF DecodedBy
<1>4. v \in Seq(Nat) /\ Len(v) = Len(p) /\ \A i \in 1..Len(p) : v[i] = F[i]
  <2>1. v = [i \in 1..Len(p) |-> p[i].val]
    BY <1>2
  <2> QED
    BY <1>1, <1>2, <2>1
<1> HIDE DEF v
<1>5. r.status = "Ok" /\ r.batches = v
  BY <1>3 DEF Ok
<1>6. Len(v) < Len(F) => c
  BY <1>1, <1>4
<1>7. ErrExplained("Ndjson", "Ndjson", tag, lists, c, r)
  BY <1>5 DEF ErrExplained
<1>8. OkExplained("Ndjson", "Ndjson", tag, lists, c, p, r)
  <2>1. Len(v) < Len(F) => LossExplained("Ndjson", "Ndjson", tag, lists, c, p)
    BY <1>6 DEF LossExplained
  <2> QED
    BY <1>1, <1>4, <1>5, <2>1 DEF OkExplained, F
<1> QED
  BY <1>7, <1>8

\* Every pair of formats.
LEMMA Explained ==
  ASSUME NEW f \in {"Ndjson", "ArrowStream", "ArrowFramed"},
         NEW g \in {"Ndjson", "ArrowStream", "ArrowFramed"},
         NEW tag \in Tag, NEW lists \in Seq(Seq(Batches)), NEW c \in BOOLEAN, NEW p,
         Len(lists) \in {1, 2}, Left(f, tag, lists, c, p),
         NEW r \in DecodedBy(g, p)
  PROVE  ErrExplained(f, g, tag, lists, c, r) /\ OkExplained(f, g, tag, lists, c, p, r)
<1>1. CASE f # g
  <2>1. Mismatched(g, p, r) /\ (f # "Ndjson" /\ p = <<>> => c)
    BY <1>1, MismatchOutcome
  <2>2. ErrExplained(f, g, tag, lists, c, r)
    BY <1>1 DEF ErrExplained
  <2>3. ASSUME r.status = "Ok"
        PROVE  /\ r.batches = <<>>
               /\ LossExplained(f, g, tag, lists, c, p)
    <3>1. r = Ok(<<>>) /\ (g = "ArrowFramed" \/ (g = "Ndjson" /\ p = <<>>))
      BY <2>1, <2>3 DEF Mismatched
    <3>2. CASE g = "ArrowFramed"
      BY <1>1, <3>1, <3>2 DEF LossExplained, Ok
    <3>3. CASE g = "Ndjson" /\ p = <<>>
      <4>1. c /\ Len(p) = 0
        BY <1>1, <2>1, <3>3
      <4>2. ~(Len(p) > FrontOf(f, tag))
        BY <4>1, SpanIs DEF FrontOf, Tag
      <4> QED
        BY <3>1, <4>1, <4>2 DEF LossExplained, Ok
    <3> QED
      BY <3>1, <3>2, <3>3
  <2>4. Len(Flat(lists)) \in Nat
    BY FirstList
  <2>5. OkExplained(f, g, tag, lists, c, p, r)
    <3> SUFFICES ASSUME r.status = "Ok"
                 PROVE  /\ r.batches \in Seq(Nat) /\ Len(r.batches) <= Len(Flat(lists))
                        /\ \A i \in 1..Len(r.batches) : r.batches[i] = Flat(lists)[i]
                        /\ LossExplained(f, g, tag, lists, c, p)
      BY Zenon DEF OkExplained
    <3>1. r.batches = <<>>
      BY <2>3
    <3>2. <<>> \in Seq(Nat) /\ Len(<<>>) = 0 /\ \A i \in 1..Len(<<>>) : FALSE
      OBVIOUS
    <3>3. Len(<<>>) <= Len(Flat(lists))
      BY <2>4, <3>2
    <3> QED
      BY <2>3, <3>1, <3>2, <3>3, Zenon
  <2> QED
    BY <2>2, <2>5
<1>2. CASE f = g
  BY <1>2, StreamExplained, FrameExplained, LinesExplained
<1> QED
  BY <1>1, <1>2

------------------------------------------------------------------------------
(* The invariant: what is on its way is what is left of the lists sent, and *)
(* a result is what the source makes of just that.                          *)

SinkOf(v) == CHOOSE format \in parse_strict(v.sink) : TRUE

RouteInvOf(v, m, lists, p, c, r) ==
  /\ v \in [sink : DataFormats, source : DataFormats] /\ parse_strict(v.sink) # {}
  /\ m \in Metas
  /\ lists \in Seq(Lists) /\ Len(lists) <= 2 /\ c \in BOOLEAN
  /\ lists = <<>> => p = <<>> /\ ~c /\ r = Waiting
  /\ lists # <<>> => Left(SinkOf(v), resolve_frame_tag(m), lists, c, p)
  /\ r # Waiting => r \in DecodedBy(from_data_format(v.source), p)

RouteInv == RouteInvOf(value, meta, sent, payload, cut, result)

\* A sink that builds, a source and a tag.
LEMMA FormatsAre ==
  ASSUME NEW v, parse_strict(v.sink) # {}
  PROVE  /\ SinkOf(v) \in {"Ndjson", "ArrowStream", "ArrowFramed"}
         /\ from_data_format(v.source) \in {"Ndjson", "ArrowStream", "ArrowFramed"}
BY DEF SinkOf, parse_strict, from_data_format

LEMMA TagIs ==
  ASSUME NEW m \in Metas
  PROVE  resolve_frame_tag(m) \in Tag
<1>1. m \in Meta
  BY RouteAssumption
<1>2. m.oml_name \subseteq Tag
  BY <1>1 DEF Meta
<1> QED
  BY <1>2, RouteAssumption DEF resolve_frame_tag

\* What the sink makes of a list.
LEMMA EncodedIs ==
  ASSUME RouteInv, NEW batches \in Lists, NEW m \in Metas, NEW p \in Encoded(batches, m)
  PROVE  Carries(SinkOf(value), resolve_frame_tag(m), batches, p)
<1> DEFINE tag == resolve_frame_tag(m)
<1>1. sink = SinkOf(value)
  BY DEF sink, SinkOf
<1>2. sink \in {"Ndjson", "ArrowStream", "ArrowFramed"}
  BY <1>1, FormatsAre DEF RouteInv, RouteInvOf
<1>3. batches \in Seq(Batches)
  BY RouteAssumption
<1> HIDE DEF tag
<1>4. CASE sink = "Ndjson"
  BY <1>1, <1>4 DEF Encoded, is_arrow, Carries, Lines
<1>5. CASE sink = "ArrowStream"
  <2>1. PICK b \in Batches : batches = <<b>> /\ p = IpcStream(<<b>>)
    BY <1>5 DEF Encoded, is_arrow, encode_batch_ipc_stream
  <2>2. Len(batches) = 1 /\ p = IpcStream(batches)
    BY <2>1
  <2> QED
    BY <1>1, <1>5, <2>2 DEF Carries
<1>6. CASE sink = "ArrowFramed"
  <2>1. \/ p = encode_ipc_frame_multi(tag, batches)
        \/ \E b \in Batches : batches = <<b>> /\ p = encode_ipc_frame(tag, b)
    BY <1>6 DEF Encoded, is_arrow, tag
  <2>2. CASE p = encode_ipc_frame_multi(tag, batches)
    <3>1. ASSUME batches = <<>> PROVE p = Header(tag) \o Body(batches)
      <4> DEFINE E == Token
      <4>1. Header(tag) \in Seq(E)
        BY TagIs, HeaderIs DEF tag
      <4> HIDE DEF E
      <4>2. Header(tag) \o <<>> = Header(tag)
        BY <4>1
      <4> QED
        BY <2>2, <3>1, <4>2 DEF encode_ipc_frame_multi, Body
    <3>2. batches # <<>> => p = Header(tag) \o Body(batches)
      BY <2>2 DEF encode_ipc_frame_multi, Body
    <3>3. p = Header(tag) \o Body(batches)
      BY <3>1, <3>2
    <3> QED
      BY <1>1, <1>6, <3>3 DEF Carries, tag
  <2>3. CASE \E b \in Batches : batches = <<b>> /\ p = encode_ipc_frame(tag, b)
    <3>1. PICK b \in Batches : batches = <<b>> /\ p = encode_ipc_frame(tag, b)
      BY <2>3
    <3>2. Body(batches) = IpcStream(<<b>>)
      BY <3>1 DEF Body
    <3>3. p = Header(tag) \o Body(batches)
      BY <3>1, <3>2 DEF encode_ipc_frame
    <3> QED
      BY <1>1, <1>6, <3>3 DEF Carries, tag
  <2> QED
    BY <2>1, <2>2, <2>3
<1> QED
  BY <1>2, <1>4, <1>5, <1>6

LEMMA RouteInit ==
  ASSUME Init
  PROVE  RouteInv
<1>1. <<>> \in Seq(Lists) /\ Len(<<>>) <= 2
  OBVIOUS
<1> QED
  BY <1>1 DEF Init, RouteInv, RouteInvOf

LEMMA SendKeeps ==
  ASSUME RouteInv, NEW batches \in Lists, Send(batches)
  PROVE  RouteInv'
<1>1. PICK m \in Metas : \E p \in Encoded(batches, m) : payload' = p /\ meta' = m
  BY DEF Send
<1>2. /\ sent = <<>> /\ sent' = <<batches>> /\ payload' \in Encoded(batches, m) /\ meta' = m
      /\ value' = value /\ cut' = cut /\ result' = result
  BY <1>1 DEF Send
<1>3. ~cut /\ result = Waiting
  BY <1>2 DEF RouteInv, RouteInvOf
<1>4. Carries(SinkOf(value), resolve_frame_tag(m), batches, payload')
  BY <1>2, EncodedIs
<1> DEFINE one == <<batches>>
<1>5. one \in Seq(Lists) /\ Len(one) = 1 /\ one # <<>> /\ one[1] = batches
  OBVIOUS
<1> HIDE DEF one
<1>6. Whole(SinkOf(value), resolve_frame_tag(m), one, payload')
  BY <1>4, <1>5 DEF Whole
<1>7. Left(SinkOf(value), resolve_frame_tag(m), one, cut, payload')
  BY <1>3, <1>6 DEF Left
<1>8. RouteInvOf(value, m, one, payload', cut, result)
  BY <1>3, <1>5, <1>7 DEF RouteInv, RouteInvOf
<1> QED
  BY <1>2, <1>8 DEF RouteInv, one

LEMMA JoinKeeps ==
  ASSUME RouteInv, NEW batches \in Lists, Join(batches)
  PROVE  RouteInv'
<1>1. PICK q \in Encoded(batches, meta) : payload' = payload \o q
  BY DEF Join
<1>2. /\ Len(sent) = 1 /\ ~cut /\ result = Waiting
      /\ sent' = Append(sent, batches)
      /\ value' = value /\ meta' = meta /\ cut' = cut /\ result' = result
  BY DEF Join
<1> DEFINE f == SinkOf(value)
           tag == resolve_frame_tag(meta)
<1>3. Carries(f, tag, batches, q)
  BY EncodedIs DEF RouteInv, RouteInvOf
<1>4. sent \in Seq(Lists) /\ sent # <<>>
  BY <1>2 DEF RouteInv, RouteInvOf
<1>5. Whole(f, tag, sent, payload)
  BY <1>2, <1>4 DEF RouteInv, RouteInvOf, Left
<1>6. Carries(f, tag, sent[1], payload)
  BY <1>2, <1>5 DEF Whole
<1> DEFINE both == Append(sent, batches)
<1>7. both \in Seq(Lists) /\ Len(both) = 2 /\ both # <<>> /\ both[1] = sent[1] /\ both[2] = batches
  <2>1. /\ both \in Seq(Lists) /\ both # <<>> /\ Len(both) = Len(sent) + 1
        /\ both[Len(sent) + 1] = batches
        /\ \A i \in 1..Len(sent) : both[i] = sent[i]
    <3> HIDE DEF f, tag
    <3> QED
      BY <1>4, AppendIs
  <2>2. Len(sent) + 1 = 2 /\ 1 \in 1..Len(sent)
    BY <1>2
  <2> HIDE DEF both
  <2> QED
    BY <2>1, <2>2
<1> HIDE DEF f, tag, both
<1>8. Whole(f, tag, both, payload')
  BY <1>1, <1>3, <1>6, <1>7 DEF Whole
<1>9. Left(f, tag, both, cut, payload')
  BY <1>2, <1>8 DEF Left
<1>10. RouteInvOf(value, meta, both, payload', cut, result)
  BY <1>2, <1>7, <1>9 DEF RouteInv, RouteInvOf, f, tag
<1> QED
  BY <1>2, <1>10 DEF RouteInv, both

LEMMA CutKeeps ==
  ASSUME RouteInv, NEW n \in 0..(Len(payload) - 1), Cut(n)
  PROVE  RouteInv'
<1>1. /\ sent # <<>> /\ ~cut /\ result = Waiting
      /\ payload' = SubSeq(payload, 1, n) /\ cut' = TRUE
      /\ value' = value /\ meta' = meta /\ sent' = sent /\ result' = result
  BY DEF Cut
<1> DEFINE f == SinkOf(value)
           tag == resolve_frame_tag(meta)
<1>2. Whole(f, tag, sent, payload)
  BY <1>1 DEF RouteInv, RouteInvOf, Left
<1> HIDE DEF f, tag
<1>3. Left(f, tag, sent, TRUE, payload')
  BY <1>1, <1>2 DEF Left
<1>4. RouteInvOf(value, meta, sent, payload', TRUE, result)
  BY <1>1, <1>3 DEF RouteInv, RouteInvOf, f, tag
<1> QED
  BY <1>1, <1>4 DEF RouteInv

LEMMA ReceiveKeeps ==
  ASSUME RouteInv, Receive
  PROVE  RouteInv'
<1>1. /\ sent # <<>> /\ result' \in Decoded
      /\ value' = value /\ meta' = meta /\ sent' = sent /\ payload' = payload /\ cut' = cut
  BY DEF Receive
<1>2. Decoded = DecodedBy(from_data_format(value.source), payload)
  BY DEF Decoded, DecodedBy, source
<1>3. RouteInvOf(value, meta, sent, payload, cut, result')
  BY <1>1, <1>2 DEF RouteInv, RouteInvOf
<1> QED
  BY <1>1, <1>3 DEF RouteInv

LEMMA ForgetKeeps ==
  ASSUME RouteInv, Forget
  PROVE  RouteInv'
<1>1. <<>> \in Seq(Lists) /\ Len(<<>>) <= 2
  OBVIOUS
<1>2. /\ sent' = <<>> /\ payload' = <<>> /\ cut' = FALSE /\ result' = Waiting
      /\ value' = value /\ meta' = meta
  BY DEF Forget
<1>3. RouteInvOf(value, meta, <<>>, <<>>, FALSE, Waiting)
  BY <1>1 DEF RouteInv, RouteInvOf
<1> QED
  BY <1>2, <1>3 DEF RouteInv

\* What is on its way is what is left of what was sent, and the result is its reading.
THEOREM RouteInvariant == Spec => []RouteInv
<1>1. Init => RouteInv
  BY RouteInit
<1>2. RouteInv /\ [Next]_vars => RouteInv'
  <2> SUFFICES ASSUME RouteInv, [Next]_vars PROVE RouteInv'
    OBVIOUS
  <2>1. ASSUME NEW batches \in Lists, Send(batches) PROVE RouteInv'
    BY <2>1, SendKeeps
  <2>2. ASSUME NEW batches \in Lists, Join(batches) PROVE RouteInv'
    BY <2>2, JoinKeeps
  <2>3. ASSUME NEW n \in 0..(Len(payload) - 1), Cut(n) PROVE RouteInv'
    BY <2>3, CutKeeps
  <2>4. CASE Receive
    BY <2>4, ReceiveKeeps
  <2>5. CASE Forget
    BY <2>5, ForgetKeeps
  <2>6. CASE UNCHANGED vars
    <3>1. /\ value' = value /\ meta' = meta /\ sent' = sent /\ payload' = payload
          /\ cut' = cut /\ result' = result
      BY <2>6 DEF vars
    <3> QED
      BY <3>1 DEF RouteInv
  <2> QED
    BY <2>1, <2>2, <2>3, <2>4, <2>5, <2>6 DEF Next
<1> QED
  BY <1>1, <1>2, PTL DEF Spec

\* What the invariant says of a payload, and of a result.
LEMMA SentIs ==
  ASSUME RouteInv, sent # <<>>
  PROVE  /\ sent \in Seq(Seq(Batches)) /\ Len(sent) \in {1, 2} /\ DOMAIN sent = 1..Len(sent)
         /\ cut \in BOOLEAN /\ resolve_frame_tag(meta) \in Tag
         /\ sink \in {"Ndjson", "ArrowStream", "ArrowFramed"}
         /\ source \in {"Ndjson", "ArrowStream", "ArrowFramed"}
         /\ Left(sink, resolve_frame_tag(meta), sent, cut, payload)
         /\ Offered = Flat(sent)
<1>1. sent \in Seq(Lists) /\ Len(sent) <= 2 /\ meta \in Metas /\ cut \in BOOLEAN
  BY DEF RouteInv, RouteInvOf
<1>2. sink = SinkOf(value) /\ source = from_data_format(value.source)
  BY DEF sink, SinkOf, source
<1>3. Lists \subseteq Seq(Batches)
  BY RouteAssumption
<1>4. sent \in Seq(Seq(Batches))
  <2> DEFINE B == Seq(Batches)
  <2>1. Lists \subseteq B
    BY <1>3
  <2> HIDE DEF B
  <2>2. sent \in Seq(B)
    BY <1>1, <2>1
  <2> QED
    BY <2>2 DEF B
<1>5. Len(sent) \in {1, 2} /\ DOMAIN sent = 1..Len(sent)
  <2>1. DOMAIN sent = 1..Len(sent) /\ Len(sent) \in Nat /\ Len(sent) # 0
    BY <1>1
  <2> QED
    BY <1>1, <2>1
<1>6. resolve_frame_tag(meta) \in Tag
  BY <1>1, TagIs
<1>7. Left(sink, resolve_frame_tag(meta), sent, cut, payload)
  BY <1>2 DEF RouteInv, RouteInvOf
<1>8. /\ sink \in {"Ndjson", "ArrowStream", "ArrowFramed"}
      /\ source \in {"Ndjson", "ArrowStream", "ArrowFramed"}
  BY <1>2, FormatsAre DEF RouteInv, RouteInvOf
<1>9. Offered = Flat(sent)
  BY FlattenIs DEF Offered
<1> QED
  BY <1>1, <1>4, <1>5, <1>6, <1>7, <1>8, <1>9

LEMMA ResultIs ==
  ASSUME RouteInv, result # Waiting
  PROVE  /\ sent # <<>>
         /\ ErrExplained(sink, source, resolve_frame_tag(meta), sent, cut, result)
         /\ OkExplained(sink, source, resolve_frame_tag(meta), sent, cut, payload, result)
<1>1. sent # <<>> /\ result \in DecodedBy(source, payload)
  BY DEF RouteInv, RouteInvOf, source
<1>2. /\ sent \in Seq(Seq(Batches)) /\ Len(sent) \in {1, 2}
      /\ cut \in BOOLEAN /\ resolve_frame_tag(meta) \in Tag
      /\ sink \in {"Ndjson", "ArrowStream", "ArrowFramed"}
      /\ source \in {"Ndjson", "ArrowStream", "ArrowFramed"}
      /\ Left(sink, resolve_frame_tag(meta), sent, cut, payload)
  BY <1>1, SentIs
<1>3. /\ ErrExplained(sink, source, resolve_frame_tag(meta), sent, cut, result)
      /\ OkExplained(sink, source, resolve_frame_tag(meta), sent, cut, payload, result)
  BY <1>1, <1>2, Explained
<1> QED
  BY <1>1, <1>3

\* A sequence that says the same as another one as far as it goes.
LEMMA PrefixIs ==
  ASSUME NEW s \in Seq(Nat), NEW t \in Seq(Nat), Len(s) <= Len(t),
         \A i \in 1..Len(s) : s[i] = t[i]
  PROVE  SE!IsPrefix(s, t)
<1>1. Len(s) \in Nat /\ SubSeq(s, 1, Len(s)) = s
  OBVIOUS
<1>2. SubSeq(t, 1, Len(s)) \in Seq(Nat) /\ Len(SubSeq(t, 1, Len(s))) = Len(s)
  OBVIOUS
<1>3. \A i \in 1..Len(s) : SubSeq(t, 1, Len(s))[i] = t[i]
  OBVIOUS
<1>4. SubSeq(t, 1, Len(s)) = s
  BY <1>2, <1>3
<1> QED
  BY <1>1, <1>4 DEF SE!IsPrefix

\* Batches are numbers, and so are the lists sent.
LEMMA OfferedIs ==
  ASSUME RouteInv, sent # <<>>
  PROVE  Offered \in Seq(Nat)
<1>1. Offered = Flat(sent) /\ sent \in Seq(Seq(Batches))
  BY SentIs
<1>2. Flat(sent) \in Seq(Batches)
  BY <1>1, FlatType
<1>3. Batches \subseteq Nat
  BY FrameAssumption DEF Batches
<1> DEFINE F == Flat(sent)
<1>4. F \in Seq(Batches)
  BY <1>2
<1> HIDE DEF F
<1>5. Len(F) \in Nat /\ F = [i \in 1..Len(F) |-> F[i]] /\ \A i \in 1..Len(F) : F[i] \in Batches
  BY <1>4
<1>6. \A i \in 1..Len(F) : F[i] \in Nat
  BY <1>3, <1>5
<1>7. F \in Seq(Nat)
  BY <1>5, <1>6
<1> QED
  BY <1>1, <1>7 DEF F

\* Whatever the formats and whatever became of the payload, an Ok result starts as
\* what the sink was given: decode.rs makes up, doubles, skips or reorders nothing.
THEOREM NothingIsInvented == Spec => []NothingInvented
<1>1. RouteInv => NothingInvented
  <2> SUFFICES ASSUME RouteInv, result.status = "Ok", \A i \in DOMAIN sent : OneSchema(sent[i])
               PROVE  SE!IsPrefix(result.batches, Offered)
    BY DEF NothingInvented
  <2>1. result # Waiting
    BY DEF Waiting
  <2>2. /\ result.batches \in Seq(Nat) /\ Len(result.batches) <= Len(Flat(sent))
        /\ (\A i \in 1..Len(sent) : OneSchema(sent[i])) =>
             \A i \in 1..Len(result.batches) : result.batches[i] = Flat(sent)[i]
    BY <2>1, ResultIs DEF OkExplained
  <2>3. /\ DOMAIN sent = 1..Len(sent) /\ Offered = Flat(sent) /\ sent \in Seq(Seq(Batches))
    BY <2>1, ResultIs, SentIs
  <2>4. Flat(sent) \in Seq(Nat)
    BY <2>1, <2>3, ResultIs, OfferedIs
  <2>5. SE!IsPrefix(result.batches, Flat(sent))
    BY <2>2, <2>3, <2>4, PrefixIs
  <2> QED
    BY <2>3, <2>5
<1> QED
  BY <1>1, RouteInvariant, PTL

\* A source refuses a payload only for the causes that decode.rs and batch.rs leave:
\* another format, a cut, an empty list in a frame, two schemas or too long a tag.
THEOREM ErrsHaveCauses == Spec => []ErrHasCause
<1>1. RouteInv => ErrHasCause
  <2> SUFFICES ASSUME RouteInv, result.status = "Err"
               PROVE  \/ source # sink
                      \/ cut
                      \/ sink = "ArrowFramed" /\ sent[1] = <<>>
                      \/ ~OneSchema(sent[1])
                      \/ Wrapped
    BY DEF ErrHasCause
  <2>1. result # Waiting
    BY DEF Waiting
  <2>2. ErrExplained(sink, source, resolve_frame_tag(meta), sent, cut, result)
    BY <2>1, ResultIs
  <2> QED
    BY <2>2 DEF ErrExplained, Wrapped
<1> QED
  BY <1>1, RouteInvariant, PTL

\* An Ok result leaves batches out only where the code cannot tell: it never passes
\* over a message that is torn.
THEOREM LossesHaveCauses == Spec => []LossHasCause
<1>1. RouteInv => LossHasCause
  <2> SUFFICES ASSUME RouteInv, result.status = "Ok", Len(result.batches) < Len(Offered)
               PROVE  \/ source = "ArrowFramed" /\ sink # "ArrowFramed"
                      \/ Wrapped
                      \/ Len(sent) = 2 /\ is_arrow(sink)
                      \/ cut /\ ~(is_arrow(sink) /\ Torn)
    BY DEF LossHasCause
  <2>1. result # Waiting
    BY DEF Waiting
  <2>2. OkExplained(sink, source, resolve_frame_tag(meta), sent, cut, payload, result) /\ sent # <<>>
    BY <2>1, ResultIs
  <2>3. Offered = Flat(sent) /\ sink \in {"Ndjson", "ArrowStream", "ArrowFramed"}
    BY <2>2, SentIs
  <2>4. LossExplained(sink, source, resolve_frame_tag(meta), sent, cut, payload)
    BY <2>2, <2>3 DEF OkExplained
  <2>5. is_arrow(sink) <=> sink # "Ndjson"
    BY <2>3 DEF is_arrow
  <2>6. Torn <=> /\ Len(payload) > FrontOf(sink, resolve_frame_tag(meta))
                 /\ (Len(payload) - FrontOf(sink, resolve_frame_tag(meta))) % Span = Width
    BY DEF Torn, FrontOf, Front, Span
  <2> QED
    BY <2>4, <2>5, <2>6 DEF LossExplained, Wrapped
<1> QED
  BY <1>1, RouteInvariant, PTL

\* What one format means on the two sides (format.rs).
LEMMA FormatsFit ==
  ASSUME RouteInv, OneFormat
  PROVE  source = sink /\ (value.sink \in {{}, {"ndjson"}} => ~is_arrow(sink))
<1>1. parse_strict(value.sink) # {} /\ sink = SinkOf(value)
  BY DEF RouteInv, RouteInvOf, sink, SinkOf
<1>2. value.sink \in {{}, {"ndjson"}, {"arrow_ipc"}, {"arrow_framed"}}
  BY <1>1 DEF parse_strict
<1>3. /\ value.sink \in {{}, {"ndjson"}} => sink = "Ndjson"
      /\ value.sink = {"arrow_ipc"} => sink = "ArrowStream"
      /\ value.sink = {"arrow_framed"} => sink = "ArrowFramed"
  BY <1>1 DEF parse_strict, SinkOf
<1>4. source = sink
  BY <1>2, <1>3 DEF OneFormat, source, from_data_format
<1> QED
  BY <1>3, <1>4 DEF is_arrow

\* What the source's decode function returns.
LEMMA ResultForm ==
  ASSUME RouteInv, result # Waiting
  PROVE  result = Err \/ (result = Ok(result.batches) /\ result.status = "Ok")
<1>1. result \in DecodedBy(source, payload)
  BY DEF RouteInv, RouteInvOf, source
<1>2. \A p : \A r \in decode_arrow_ipc_batches(p) : r = Err \/ \E b : r = Ok(b)
  BY DEF decode_arrow_ipc_batches
<1>3. result = Err \/ \E b : result = Ok(b)
  BY <1>1, <1>2 DEF DecodedBy, decode_arrow_framed_batches
<1> QED
  BY <1>3 DEF Ok

\* A prefix that is not shorter is the whole.
LEMMA WholePrefix ==
  ASSUME NEW s \in Seq(Nat), NEW t \in Seq(Nat), SE!IsPrefix(s, t), ~(Len(s) < Len(t))
  PROVE  s = t
<1>1. Len(s) <= Len(t) /\ s = SubSeq(t, 1, Len(s)) /\ Len(s) \in Nat /\ Len(t) \in Nat
  BY DEF SE!IsPrefix
<1>2. Len(s) = Len(t)
  BY <1>1
<1> QED
  BY <1>1, <1>2

\* Two sides of one data_format: what is sent whole arrives whole, for every format,
\* tag and list (format.rs, encode.rs and decode.rs together).
THEOREM OneFormatArrives == Spec => []OneFormatDelivers
<1>1. RouteInv /\ NothingInvented /\ ErrHasCause /\ LossHasCause => OneFormatDelivers
  <2> SUFFICES ASSUME RouteInv, NothingInvented, ErrHasCause, LossHasCause,
                      result # Waiting, OneFormat, ~cut, ~Wrapped, sent[1] # <<>>,
                      \A i \in DOMAIN sent : OneSchema(sent[i]),
                      Len(sent) = 1 \/ value.sink \in {{}, {"ndjson"}}
               PROVE  result = Ok(Offered)
    BY DEF OneFormatDelivers
  <2>1. source = sink /\ (Len(sent) = 1 \/ ~is_arrow(sink))
    BY FormatsFit
  <2>2. sent # <<>> /\ DOMAIN sent = 1..Len(sent) /\ Len(sent) \in {1, 2}
    BY ResultIs, SentIs
  <2>3. result.status # "Err" /\ Err.status = "Err"
    BY <2>1, <2>2 DEF ErrHasCause, Err
  <2>4. result = Ok(result.batches) /\ result.status = "Ok"
    BY <2>3, ResultForm
  <2>5. /\ result.batches \in Seq(Nat) /\ Offered \in Seq(Nat)
        /\ SE!IsPrefix(result.batches, Offered)
    BY <2>4, ResultIs, OfferedIs DEF OkExplained, NothingInvented
  <2>6. ~(Len(result.batches) < Len(Offered))
    <3> SUFFICES ASSUME Len(result.batches) < Len(Offered) PROVE FALSE
      OBVIOUS
    <3>1. \/ source = "ArrowFramed" /\ sink # "ArrowFramed"
          \/ Wrapped
          \/ Len(sent) = 2 /\ is_arrow(sink)
          \/ cut
      BY <2>4, Zenon DEF LossHasCause
    <3>2. Len(sent) # 2 \/ ~is_arrow(sink)
      <4>1. Len(sent) = 1 => Len(sent) # 2
        OBVIOUS
      <4> QED
        BY <2>1, <4>1, Zenon
    <3> QED
      BY <2>1, <3>1, <3>2, Zenon
  <2>7. result.batches = Offered
    BY <2>5, <2>6, WholePrefix
  <2> QED
    BY <2>4, <2>7
<1> QED
  BY <1>1, RouteInvariant, NothingIsInvented, ErrsHaveCauses, LossesHaveCauses, PTL

\* What a router finds in front of a frame is the tag resolve_frame_tag chose, as
\* long as its length fits the field.
THEOREM TagsReadBack == Spec => []TagReadBack
<1>1. RouteInv => TagReadBack
  <2> DEFINE names == {name \in meta.oml_name : name.len > 0}
             usable == names # {} /\ "tag" \notin meta.disabled /\ "oml_name" \notin meta.disabled
             tag == resolve_frame_tag(meta)
  <2> SUFFICES ASSUME RouteInv, sink = "ArrowFramed", sent # <<>>, ~cut
               PROVE  /\ tag \in IF usable THEN names ELSE {ConfigTag}
                      /\ IF Wrapped THEN Len(TagRead) < tag.len
                         ELSE TagRead = [i \in 1..tag.len |-> Letter(tag)]
    BY Zenon DEF TagReadBack
  <2>1. tag \in IF usable THEN names ELSE {ConfigTag}
    BY DEF resolve_frame_tag
  <2>2. tag \in Tag /\ Left("ArrowFramed", tag, sent, cut, payload) /\ cut \in BOOLEAN
        /\ sent \in Seq(Seq(Batches)) /\ Len(sent) \in {1, 2}
    BY SentIs
  <2>3. Wrapped <=> tag.len >= Power[Width]
    BY DEF Wrapped
  <2> HIDE DEF tag
  <2>4. PICK w, first : Remains("ArrowFramed", tag, sent, cut, payload, w, first)
    BY <2>2, LeftIs
  <2>5. /\ Carries("ArrowFramed", tag, sent[1], first) /\ sent[1] \in Seq(Batches)
        /\ payload \in Seq(Token) /\ Agrees(payload, first) /\ Len(payload) >= Len(first)
    BY <2>2, <2>4 DEF Remains
  <2>6. IsFrame(tag, Body(sent[1]), first)
    BY <2>2, <2>5, FrameIs
  <2> DEFINE h == Width + tag.len
             n == Number(payload)
  <2>7. h \in Nat /\ Width \in Nat /\ tag.len \in Nat /\ h <= Len(payload) /\ Len(payload) \in Nat /\ h <= Len(first)
    BY <2>2, <2>5, <2>6, SpanIs, SMTT(30) DEF IsFrame, Tag
  <2>8. \A i \in 1..h : payload[i] = Header(tag)[i]
    <3> SUFFICES ASSUME NEW i \in 1..h PROVE payload[i] = Header(tag)[i]
      OBVIOUS
    <3>1. i \in 1..Len(payload) /\ i <= Len(first)
      BY <2>7
    <3> QED
      BY <2>5, <2>6, <3>1 DEF Agrees, IsFrame
  <2>9. Agrees(payload, Header(tag))
    BY <2>2, <2>5, <2>7, <2>8, HeaderIs DEF Agrees
  <2>10. /\ n \in Nat /\ n <= tag.len
         /\ ~Wrapped => n = tag.len
         /\ Wrapped => n < tag.len
    <3>1. Len(payload) >= Width
      BY <2>7
    <3>2. /\ n \in Nat
          /\ tag.len < Power[Width] => n = tag.len
          /\ tag.len >= Power[Width] => n < tag.len
      BY <2>2, <2>5, <2>9, <3>1, FieldIs
    <3>3. Power[Width] \in Nat
      BY WidthPower
    <3> HIDE DEF n
    <3> QED
      BY <2>3, <2>7, <3>2, <3>3
  <2> HIDE DEF n
  <2> DEFINE E == Token
  <2>11. /\ TagRead \in Seq(E) /\ Len(TagRead) = n
         /\ \A i \in 1..n : TagRead[i] = payload[Width + i]
    <3>1. /\ payload \in Seq(E) /\ Width + 1 \in Nat \ {0} /\ Width + n \in Nat
          /\ Width + n <= Len(payload) /\ Width + 1 <= (Width + n) + 1
          /\ (Width + n) + 1 - (Width + 1) = n
      BY <2>5, <2>7, <2>10
    <3> HIDE DEF E
    <3> DEFINE a == Width + 1
               z == Width + n
    <3>2. TagRead = Slice(payload, a, z)
      BY DEF TagRead, n
    <3>3. z + 1 - a = n /\ a \in Nat \ {0} /\ z \in Nat /\ z <= Len(payload) /\ a <= z + 1
      BY <3>1
    <3>4. \A i \in 1..n : a + i - 1 = Width + i
      BY <2>7, <2>10
    <3> HIDE DEF a, z
    <3>7. payload \in Seq(E)
      BY <3>1
    <3>5. Slice(payload, a, z) \in Seq(E) /\ Len(Slice(payload, a, z)) = z + 1 - a
      BY <3>3, <3>7, SliceWhole
    <3>6. \A i \in 1..(z + 1 - a) : Slice(payload, a, z)[i] = payload[a + i - 1]
      BY <3>3, <3>7, SliceWhole
    <3> QED
      BY <3>2, <3>3, <3>4, <3>5, <3>6
  <2> HIDE DEF E
  <2>12. CASE Wrapped
    BY <2>1, <2>10, <2>11, <2>12
  <2>13. CASE ~Wrapped
    <3>1. \A i \in 1..tag.len : TagRead[i] = Letter(tag)
      <4> SUFFICES ASSUME NEW i \in 1..tag.len PROVE TagRead[i] = Letter(tag)
        OBVIOUS
      <4>1. i \in 1..n /\ Width + i \in 1..h
        BY <2>7, <2>10, <2>13
      <4>2. Header(tag)[Width + i] = Letter(tag)
        BY <2>2, HeaderIs
      <4> QED
        BY <2>8, <2>11, <4>1, <4>2
    <3>2. Len(TagRead) = tag.len
      BY <2>10, <2>11, <2>13
    <3>3. TagRead = [i \in 1..tag.len |-> Letter(tag)]
      BY <2>11, <3>1, <3>2
    <3> QED
      BY <2>1, <2>13, <3>3
  <2> QED
    BY <2>12, <2>13
<1> QED
  BY <1>1, RouteInvariant, PTL

==============================================================================
