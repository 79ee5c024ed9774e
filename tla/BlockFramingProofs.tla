------------------------- MODULE BlockFramingProofs -------------------------
(***************************************************************************)
(* What the framing of codec.rs guarantees for every base, every payload   *)
(* and every way to cut a stream into inputs.                              *)
(***************************************************************************)
EXTENDS BlockFraming, SequenceFacts

------------------------------------------------------------------------------
(* The length field.                                                        *)

\* A division by Base, as the provers see it.
LEMMA Quotient ==
  ASSUME NEW n \in Nat
  PROVE  /\ n \div Base \in Nat
         /\ n % Base \in 0..(Base - 1)
         /\ n = (n \div Base) * Base + (n % Base)
<1>1. Base \in Nat /\ Base > 0
  BY BaseAssumption
<1> QED
  BY <1>1, SMT

\* A product with Base is not smaller than Base times a smaller factor.
LEMMA QuotientBelow ==
  ASSUME NEW q \in Nat, NEW r \in Nat, NEW b \in Nat, q * Base + r < b * Base
  PROVE  q < b
<1>1. Base \in Nat /\ Base > 0
  BY BaseAssumption
<1>2. q >= b => q * Base >= b * Base
  BY <1>1, SMT
<1>3. q * Base \in Nat /\ b * Base \in Nat
  BY <1>1, SMT
<1> QED
  BY <1>2, <1>3

\* What put_block writes into the length field, take_block reads out of it.
THEOREM LengthReadBack ==
  ASSUME NEW n \in Nat, n < TooLong
  PROVE  /\ Digits(n) \in Seq(Nat) /\ Len(Digits(n)) = 4
         /\ Number(Digits(n)[1], Digits(n)[2], Digits(n)[3], Digits(n)[4]) = n
<1> DEFINE q1 == n \div Base
           q2 == q1 \div Base
           q3 == q2 \div Base
<1>b. Base \in Nat /\ Base > 0 /\ Base * Base \in Nat /\ Base * Base * Base \in Nat
  BY BaseAssumption, SMT
<1>1. q1 \in Nat /\ n % Base \in Nat /\ n = q1 * Base + (n % Base)
  BY Quotient
<1>2. q2 \in Nat /\ q1 % Base \in Nat /\ q1 = q2 * Base + (q1 % Base)
  BY <1>1, Quotient
<1>3. q3 \in Nat /\ q2 % Base \in Nat /\ q2 = q3 * Base + (q2 % Base)
  BY <1>2, Quotient
<1>4. q1 < Base * Base * Base
  <2> HIDE DEF q1
  <2> QED BY <1>1, <1>b, QuotientBelow DEF TooLong
<1>5. q2 < Base * Base
  <2> HIDE DEF q2, q1
  <2> QED BY <1>2, <1>4, <1>b, QuotientBelow
<1>6. q3 < Base
  <2> HIDE DEF q3, q2
  <2> QED BY <1>3, <1>5, <1>b, QuotientBelow
<1>7. q3 % Base = q3
  <2> HIDE DEF q3
  <2> QED BY <1>3, <1>6, <1>b
<1>8. Digits(n) = <<q3 % Base, q2 % Base, q1 % Base, n % Base>>
  BY DEF Digits
<1>9. Number(q3, q2 % Base, q1 % Base, n % Base) = n
  <2> HIDE DEF q1, q2, q3
  <2> QED BY <1>1, <1>2, <1>3 DEF Number
<1> QED
  <2> HIDE DEF q1, q2, q3
  <2> QED BY <1>1, <1>2, <1>3, <1>7, <1>8, <1>9

------------------------------------------------------------------------------
(* A block, byte by byte.                                                   *)

\* The bytes of a concatenation.
LEMMA BytesJoined ==
  ASSUME NEW s \in Seq(Nat), NEW t \in Seq(Nat)
  PROVE  /\ s \o t \in Seq(Nat)
         /\ Len(s \o t) = Len(s) + Len(t)
         /\ \A i \in 1..Len(s) : (s \o t)[i] = s[i]
         /\ \A j \in 1..Len(t) : (s \o t)[Len(s) + j] = t[j]
<1>1. /\ s \o t \in Seq(Nat)
      /\ Len(s \o t) = Len(s) + Len(t)
      /\ \A i \in 1..(Len(s) + Len(t)) :
           (s \o t)[i] = IF i <= Len(s) THEN s[i] ELSE t[i - Len(s)]
  BY ConcatProperties
<1>2. Len(s) \in Nat /\ Len(t) \in Nat
  OBVIOUS
<1>3. ASSUME NEW j \in 1..Len(t)
      PROVE  (s \o t)[Len(s) + j] = t[j]
  <2>1. /\ Len(s) + j \in 1..(Len(s) + Len(t))
        /\ ~(Len(s) + j <= Len(s))
        /\ (Len(s) + j) - Len(s) = j
    BY <1>2
  <2> QED
    BY <1>1, <2>1
<1> QED
  BY <1>1, <1>2, <1>3

\* The bytes of a part.
LEMMA Portion ==
  ASSUME NEW s \in Seq(Nat), NEW a \in Nat, NEW b \in Nat, a <= b, b <= Len(s)
  PROVE  /\ SubSeq(s, a + 1, b) \in Seq(Nat)
         /\ Len(SubSeq(s, a + 1, b)) = b - a
         /\ \A j \in 1..(b - a) : SubSeq(s, a + 1, b)[j] = s[a + j]
<1>1. /\ \A i \in (a + 1)..b : s[i] \in Nat
      /\ a + 1 \in Int /\ b \in Int
  OBVIOUS
<1>2. /\ SubSeq(s, a + 1, b) \in Seq(Nat)
      /\ Len(SubSeq(s, a + 1, b)) = IF a + 1 <= b THEN b - (a + 1) + 1 ELSE 0
      /\ \A i \in 1..(b - (a + 1) + 1) : SubSeq(s, a + 1, b)[i] = s[(a + 1) + i - 1]
  BY <1>1, SubSeqProperties
<1>3. ASSUME NEW j \in 1..(b - a)
      PROVE  SubSeq(s, a + 1, b)[j] = s[a + j]
  <2>1. j \in 1..(b - (a + 1) + 1) /\ (a + 1) + j - 1 = a + j
    OBVIOUS
  <2> QED
    BY <1>2, <2>1
<1> QED
  BY <1>2, <1>3

LEMMA Ending ==
  ASSUME NEW s \in Seq(Nat), NEW a \in Nat, a <= Len(s)
  PROVE  /\ SubSeq(s, a + 1, Len(s)) \in Seq(Nat)
         /\ Len(SubSeq(s, a + 1, Len(s))) = Len(s) - a
         /\ \A j \in 1..(Len(s) - a) : SubSeq(s, a + 1, Len(s))[j] = s[a + j]
<1> DEFINE l == Len(s)
<1>1. l \in Nat /\ a <= l /\ l <= Len(s)
  OBVIOUS
<1> HIDE DEF l
<1>2. /\ SubSeq(s, a + 1, l) \in Seq(Nat)
      /\ Len(SubSeq(s, a + 1, l)) = l - a
      /\ \A j \in 1..(l - a) : SubSeq(s, a + 1, l)[j] = s[a + j]
  BY <1>1, Portion
<1> QED
  BY <1>2 DEF l

LEMMA BlockParts ==
  ASSUME NEW kind \in FrameKind, NEW payload \in Seq(Nat), Fits(payload)
  PROVE  LET b == Block(kind, payload)  d == Digits(Len(payload)) IN
         /\ b \in Seq(Nat)
         /\ Len(b) = HeaderLen + Len(payload)
         /\ b[1] = FrameMagic[1] /\ b[2] = FrameMagic[2] /\ b[3] = FrameVersion
         /\ b[4] = KindCode[kind]
         /\ b[5] = d[1] /\ b[6] = d[2] /\ b[7] = d[3] /\ b[8] = d[4]
         /\ \A j \in 1..Len(payload) : b[HeaderLen + j] = payload[j]
<1> DEFINE d == Digits(Len(payload))
           h == Header(kind, Len(payload))
<1>1. d \in Seq(Nat) /\ Len(d) = 4
  BY LengthReadBack DEF Fits
<1>2. KindCode[kind] \in Nat
  BY DEF FrameKind, KindCode
<1>3. /\ h \in Seq(Nat) /\ Len(h) = 8
      /\ h[1] = FrameMagic[1] /\ h[2] = FrameMagic[2] /\ h[3] = FrameVersion
      /\ h[4] = KindCode[kind]
      /\ h[5] = d[1] /\ h[6] = d[2] /\ h[7] = d[3] /\ h[8] = d[4]
  <2> DEFINE m == FrameMagic
             v == <<FrameVersion, KindCode[kind]>>
  <2>1. m \in Seq(Nat) /\ Len(m) = 2
    BY DEF FrameMagic
  <2>2. v \in Seq(Nat) /\ Len(v) = 2 /\ v[1] = FrameVersion /\ v[2] = KindCode[kind]
    BY <1>2 DEF FrameVersion
  <2>3. h = (m \o v) \o d
    BY DEF Header
  <2> HIDE DEF m, v, d, h
  <2>4. /\ m \o v \in Seq(Nat) /\ Len(m \o v) = 4
        /\ (m \o v)[1] = m[1] /\ (m \o v)[2] = m[2]
        /\ (m \o v)[3] = v[1] /\ (m \o v)[4] = v[2]
    <3>1. /\ m \o v \in Seq(Nat)
          /\ Len(m \o v) = Len(m) + Len(v)
          /\ \A i \in 1..Len(m) : (m \o v)[i] = m[i]
          /\ \A j \in 1..Len(v) : (m \o v)[Len(m) + j] = v[j]
      BY <2>1, <2>2, BytesJoined
    <3>2. (m \o v)[2 + 1] = v[1] /\ (m \o v)[2 + 2] = v[2]
      BY <2>1, <2>2, <3>1
    <3> QED
      BY <2>1, <2>2, <3>1, <3>2
  <2>5. /\ h \in Seq(Nat) /\ Len(h) = 8
        /\ h[1] = m[1] /\ h[2] = m[2] /\ h[3] = v[1] /\ h[4] = v[2]
        /\ h[5] = d[1] /\ h[6] = d[2] /\ h[7] = d[3] /\ h[8] = d[4]
    <3> DEFINE w == m \o v
    <3>1. w \in Seq(Nat) /\ Len(w) = 4
      BY <2>4
    <3>2. h = w \o d
      BY <2>3
    <3>3. w[1] = m[1] /\ w[2] = m[2] /\ w[3] = v[1] /\ w[4] = v[2]
      BY <2>4
    <3> HIDE DEF w
    <3>4. /\ w \o d \in Seq(Nat)
          /\ Len(w \o d) = Len(w) + Len(d)
          /\ \A i \in 1..Len(w) : (w \o d)[i] = w[i]
          /\ \A j \in 1..Len(d) : (w \o d)[Len(w) + j] = d[j]
      BY <1>1, <3>1, BytesJoined
    <3>5. /\ (w \o d)[4 + 1] = d[1] /\ (w \o d)[4 + 2] = d[2]
          /\ (w \o d)[4 + 3] = d[3] /\ (w \o d)[4 + 4] = d[4]
      BY <1>1, <3>1, <3>4, SMTT(30)
    <3>6. /\ (w \o d)[1] = w[1] /\ (w \o d)[2] = w[2]
          /\ (w \o d)[3] = w[3] /\ (w \o d)[4] = w[4]
      BY <3>1, <3>4
    <3>7. Len(w \o d) = 8
      BY <1>1, <3>1, <3>4
    <3>8. w \o d \in Seq(Nat)
      BY <3>4
    <3>9. /\ (w \o d)[5] = d[1] /\ (w \o d)[6] = d[2]
          /\ (w \o d)[7] = d[3] /\ (w \o d)[8] = d[4]
      <4> DEFINE x == w \o d
      <4>1. x[4 + 1] = d[1] /\ x[4 + 2] = d[2] /\ x[4 + 3] = d[3] /\ x[4 + 4] = d[4]
        BY <3>5
      <4> HIDE DEF x
      <4>2. x[5] = d[1] /\ x[6] = d[2] /\ x[7] = d[3] /\ x[8] = d[4]
        BY <4>1
      <4> QED
        BY <4>2 DEF x
    <3> QED
      BY <3>2, <3>3, <3>6, <3>7, <3>8, <3>9, Zenon
  <2> QED
    BY <2>2, <2>5 DEF m
<1>4. Block(kind, payload) = h \o payload
  BY DEF Block
<1> HIDE DEF h, d
<1>5. /\ h \o payload \in Seq(Nat)
      /\ Len(h \o payload) = Len(h) + Len(payload)
      /\ \A i \in 1..Len(h) : (h \o payload)[i] = h[i]
      /\ \A j \in 1..Len(payload) : (h \o payload)[Len(h) + j] = payload[j]
  <2>1. h \in Seq(Nat)
    BY <1>3
  <2> QED
    BY <2>1, BytesJoined
<1>6. HeaderLen = Len(h)
  BY <1>3 DEF HeaderLen
<1>7. \A i \in 1..8 : (h \o payload)[i] = h[i]
  BY <1>3, <1>5
<1>8. /\ (h \o payload)[1] = h[1] /\ (h \o payload)[2] = h[2]
      /\ (h \o payload)[3] = h[3] /\ (h \o payload)[4] = h[4]
      /\ (h \o payload)[5] = h[5] /\ (h \o payload)[6] = h[6]
      /\ (h \o payload)[7] = h[7] /\ (h \o payload)[8] = h[8]
  <2> DEFINE c == h \o payload
  <2>1. \A i \in 1..8 : c[i] = h[i]
    BY <1>7
  <2> HIDE DEF c
  <2>2. /\ c[1] = h[1] /\ c[2] = h[2] /\ c[3] = h[3] /\ c[4] = h[4]
        /\ c[5] = h[5] /\ c[6] = h[6] /\ c[7] = h[7] /\ c[8] = h[8]
    BY <2>1
  <2> QED
    BY <2>2 DEF c
<1> HIDE DEF HeaderLen
<1> QED
  BY <1>3, <1>4, <1>5, <1>6, <1>8 DEF d

\* A header has one reading.
LEMMA KindReadBack ==
  ASSUME NEW kind \in FrameKind, NEW other \in FrameKind, KindCode[kind] = KindCode[other]
  PROVE  kind = other
BY DEF FrameKind, KindCode

\* take_block on an input that starts with a block takes that block: its kind, its
\* payload and its length, whatever follows it and whatever the payload looks like.
THEOREM BlockReadBack ==
  ASSUME NEW kind \in FrameKind, NEW payload \in Seq(Nat), Fits(payload),
         NEW input \in Seq(Nat),
         Len(input) >= HeaderLen + Len(payload),
         \A j \in 1..(HeaderLen + Len(payload)) : input[j] = Block(kind, payload)[j]
  PROVE  /\ Takes(input)
         /\ KindOf(input) = kind
         /\ LengthOf(input) = Len(payload)
         /\ PayloadOf(input) = payload
<1> DEFINE b == Block(kind, payload)
           d == Digits(Len(payload))
<1>1. /\ b[1] = FrameMagic[1] /\ b[2] = FrameMagic[2] /\ b[3] = FrameVersion
      /\ b[4] = KindCode[kind]
      /\ b[5] = d[1] /\ b[6] = d[2] /\ b[7] = d[3] /\ b[8] = d[4]
      /\ \A j \in 1..Len(payload) : b[HeaderLen + j] = payload[j]
  BY BlockParts
<1>2. \A j \in 1..(HeaderLen + Len(payload)) : input[j] = b[j]
  OBVIOUS
<1>3. Number(d[1], d[2], d[3], d[4]) = Len(payload)
  BY LengthReadBack DEF Fits
<1> HIDE DEF b, d
<1>4. /\ input[1] = b[1] /\ input[2] = b[2] /\ input[3] = b[3] /\ input[4] = b[4]
      /\ input[5] = b[5] /\ input[6] = b[6] /\ input[7] = b[7] /\ input[8] = b[8]
  BY <1>2, SMTT(30) DEF HeaderLen
<1>5. LengthOf(input) = Len(payload)
  BY <1>1, <1>3, <1>4 DEF LengthOf
<1>6. HeaderReads(input)
  <2>1. Len(input) >= HeaderLen
    BY DEF HeaderLen
  <2>2. KindCode[kind] = input[4]
    BY <1>1, <1>4
  <2> QED
    BY <1>1, <1>4, <2>1, <2>2 DEF HeaderReads
<1>7. KindOf(input) = kind
  BY <1>1, <1>4, KindReadBack DEF KindOf
<1>8. PayloadOf(input) = payload
  <2>1. /\ PayloadOf(input) \in Seq(Nat)
        /\ Len(PayloadOf(input)) = Len(payload)
        /\ \A j \in 1..Len(payload) : PayloadOf(input)[j] = input[HeaderLen + j]
    BY <1>5 DEF PayloadOf, HeaderLen
  <2>2. \A j \in 1..Len(payload) : PayloadOf(input)[j] = payload[j]
    <3> SUFFICES ASSUME NEW j \in 1..Len(payload)
                 PROVE  PayloadOf(input)[j] = payload[j]
      OBVIOUS
    <3>1. HeaderLen + j \in 1..(HeaderLen + Len(payload))
      BY DEF HeaderLen
    <3>2. PayloadOf(input)[j] = input[HeaderLen + j]
      BY <2>1
    <3>3. input[HeaderLen + j] = b[HeaderLen + j]
      BY <1>2, <3>1
    <3> QED
      BY <1>1, <3>2, <3>3
  <2> QED
    BY <2>1, <2>2, SeqEqual
<1> QED
  BY <1>5, <1>6, <1>7, <1>8 DEF Takes

\* take_block never takes a block that is cut short, wherever the cut is.
THEOREM TornNotTaken ==
  ASSUME NEW kind \in FrameKind, NEW payload \in Seq(Nat), Fits(payload),
         NEW input \in Seq(Nat),
         Len(input) < HeaderLen + Len(payload),
         \A j \in 1..Len(input) : input[j] = Block(kind, payload)[j]
  PROVE  ~Takes(input)
<1>1. CASE Len(input) < HeaderLen
  BY <1>1 DEF Takes, HeaderReads, HeaderLen
<1>2. CASE Len(input) >= HeaderLen
  <2> DEFINE b == Block(kind, payload)
             d == Digits(Len(payload))
  <2>1. b[5] = d[1] /\ b[6] = d[2] /\ b[7] = d[3] /\ b[8] = d[4]
    BY BlockParts
  <2>2. Number(d[1], d[2], d[3], d[4]) = Len(payload)
    BY LengthReadBack DEF Fits
  <2>3. input[5] = b[5] /\ input[6] = b[6] /\ input[7] = b[7] /\ input[8] = b[8]
    BY <1>2 DEF HeaderLen
  <2> HIDE DEF b, d
  <2>4. LengthOf(input) = Len(payload)
    BY <2>1, <2>2, <2>3 DEF LengthOf
  <2> QED
    BY <2>4 DEF Takes, HeaderLen
<1> QED
  BY <1>1, <1>2 DEF HeaderLen

------------------------------------------------------------------------------
(* The inductive invariant: the wire is the blocks, end to end, and a call  *)
(* starts and stays where a block starts, as long as no byte is altered.    *)

Wired ==
  /\ Len(wire) = EndOf(Len(sent))
  /\ \A i, j \in 0..Len(sent) : i < j => EndOf(i) < EndOf(j)
  /\ \A i \in 1..Len(sent) :
       /\ EndOf(i) = EndOf(i - 1) + HeaderLen + Len(sent[i].payload)
       /\ \A k \in 1..(HeaderLen + Len(sent[i].payload)) :
            wire[EndOf(i - 1) + k] = Block(sent[i].kind, sent[i].payload)[k]

InPlace ==
  flip = 0 =>
    /\ EndOf(Len(taken)) <= read
    /\ ~running /\ ret # "err" => read = EndOf(Len(taken))

IInv == TypeOK /\ Wired /\ TakesWhatWasPut /\ InPlace /\ VerdictIsRight

\* A block that was put.
LEMMA SentBlock ==
  ASSUME TypeOK, NEW i \in 1..Len(sent)
  PROVE  /\ sent[i].kind \in FrameKind
         /\ sent[i].payload \in Seq(Nat)
         /\ Fits(sent[i].payload)
         /\ sent[i].end \in Nat
<1>1. sent[i] \in [kind : Kinds, payload : Payloads, end : Nat]
  <2> DEFINE R == [kind : Kinds, payload : Payloads, end : Nat]
  <2>1. sent \in Seq(R)
    BY DEF TypeOK
  <2> HIDE DEF R
  <2>2. sent[i] \in R
    BY <2>1
  <2> QED
    BY <2>2 DEF R
<1>2. Len(sent[i].payload) < TooLong
  BY DEF TypeOK
<1> QED
  BY <1>1, <1>2, KindsAssumption, BytesAssumption DEF Fits

LEMMA EndIsNat ==
  ASSUME TypeOK
  PROVE  \A i \in 0..Len(sent) : EndOf(i) \in Nat
<1> SUFFICES ASSUME NEW i \in 0..Len(sent)
             PROVE  EndOf(i) \in Nat
  OBVIOUS
<1>1. i # 0 => i \in 1..Len(sent)
  BY DEF TypeOK
<1> QED
  BY <1>1, SentBlock DEF EndOf

\* What an iteration finds when no byte is altered: the next block, or as much of
\* it as the input holds.
NextBlock == sent[Len(taken) + 1]

LEMMA IterationFindsBlock ==
  ASSUME IInv, flip = 0, running, rest # <<>>
  PROVE  /\ Len(taken) + 1 \in 1..Len(sent)
         /\ EndOf(Len(taken)) \in Nat
         /\ Len(rest) \in Nat
         /\ read = EndOf(Len(taken)) + Len(rest)
         /\ EndOf(Len(taken) + 1)
              = EndOf(Len(taken)) + HeaderLen + Len(NextBlock.payload)
         /\ \A j \in 1..Len(rest) : rest[j] = wire[EndOf(Len(taken)) + j]
         /\ \A j \in 1..(HeaderLen + Len(NextBlock.payload)) :
              wire[EndOf(Len(taken)) + j] = Block(NextBlock.kind, NextBlock.payload)[j]
<1> DEFINE k == Len(taken)
           e == EndOf(k)
<1>1. /\ k \in Nat /\ Len(sent) \in Nat /\ k <= Len(sent)
      /\ wire \in Seq(Nat) /\ read \in Nat /\ read <= Len(wire)
      /\ rest = SubSeq(wire, e + 1, read) /\ e <= read
  BY DEF IInv, TypeOK, TakesWhatWasPut, InPlace
<1>2. e \in Nat
  BY <1>1, EndIsNat DEF IInv
<1> HIDE DEF e
<1>3. /\ rest \in Seq(Nat)
      /\ Len(rest) = read - e
      /\ \A j \in 1..Len(rest) : rest[j] = wire[e + j]
  BY <1>1, <1>2, Portion, SMTT(30)
<1>4. Len(rest) # 0
  BY <1>3
<1>5. k # Len(sent)
  BY <1>1, <1>2, <1>3, <1>4 DEF IInv, Wired, e
<1>6. k + 1 \in 1..Len(sent) /\ (k + 1) - 1 = k
  BY <1>1, <1>5
<1>7. /\ EndOf(k + 1) = e + HeaderLen + Len(NextBlock.payload)
      /\ \A j \in 1..(HeaderLen + Len(NextBlock.payload)) :
           wire[e + j] = Block(NextBlock.kind, NextBlock.payload)[j]
  <2> HIDE DEF k
  <2>1. /\ EndOf(k + 1) = EndOf((k + 1) - 1) + HeaderLen + Len(sent[k + 1].payload)
        /\ \A j \in 1..(HeaderLen + Len(sent[k + 1].payload)) :
             wire[EndOf((k + 1) - 1) + j] = Block(sent[k + 1].kind, sent[k + 1].payload)[j]
    BY <1>6 DEF IInv, Wired
  <2> QED
    BY <1>6, <2>1 DEF NextBlock, e, k
<1>8. Len(rest) \in Nat /\ read = e + Len(rest)
  BY <1>1, <1>2, <1>3
<1> HIDE DEF k
<1>9. \A j \in 1..Len(rest) : rest[j] = wire[e + j]
  BY <1>3
<1> QED
  BY <1>2, <1>6, <1>7, <1>8, <1>9, Zenon DEF e, k

\* An iteration takes the next block exactly when all of it is in the input.
LEMMA IterationTakesWhole ==
  ASSUME IInv, flip = 0, running, rest # <<>>
  PROVE  /\ EndOf(Len(taken) + 1) <= read =>
              /\ Takes(rest)
              /\ KindOf(rest) = NextBlock.kind
              /\ LengthOf(rest) = Len(NextBlock.payload)
              /\ PayloadOf(rest) = NextBlock.payload
         /\ read < EndOf(Len(taken) + 1) => ~Takes(rest) /\ read \notin Boundaries
<1> DEFINE k == Len(taken)
           e == EndOf(k)
           p == NextBlock.payload
<1>1. /\ k + 1 \in 1..Len(sent) /\ e \in Nat /\ Len(rest) \in Nat
      /\ read = e + Len(rest) /\ EndOf(k + 1) = e + HeaderLen + Len(p)
      /\ \A j \in 1..Len(rest) : rest[j] = wire[e + j]
      /\ \A j \in 1..(HeaderLen + Len(p)) : wire[e + j] = Block(NextBlock.kind, p)[j]
  BY IterationFindsBlock
<1>2. NextBlock.kind \in FrameKind /\ p \in Seq(Nat) /\ Fits(p)
  BY <1>1, SentBlock DEF IInv, NextBlock
<1>3. rest \in Seq(Nat) /\ k \in Nat /\ Len(p) \in Nat
  BY <1>2 DEF IInv, TypeOK
<1> HIDE DEF e, p
<1>4. ASSUME EndOf(k + 1) <= read
      PROVE  /\ Takes(rest) /\ KindOf(rest) = NextBlock.kind
             /\ LengthOf(rest) = Len(p) /\ PayloadOf(rest) = p
  <2>1. Len(rest) >= HeaderLen + Len(p)
    BY <1>1, <1>3, <1>4 DEF HeaderLen
  <2>2. \A j \in 1..(HeaderLen + Len(p)) : rest[j] = Block(NextBlock.kind, p)[j]
    BY <1>1, <1>3, <2>1 DEF HeaderLen
  <2> QED
    BY <1>2, <1>3, <2>1, <2>2, BlockReadBack
<1>5. ASSUME read < EndOf(k + 1)
      PROVE  ~Takes(rest) /\ read \notin Boundaries
  <2>1. Len(rest) < HeaderLen + Len(p)
    BY <1>1, <1>3, <1>5 DEF HeaderLen
  <2>2. \A j \in 1..Len(rest) : rest[j] = Block(NextBlock.kind, p)[j]
    BY <1>1, <1>3, <2>1 DEF HeaderLen
  <2>3. ~Takes(rest)
    BY <1>2, <1>3, <2>1, <2>2, TornNotTaken
  <2>4. e < read
    BY <1>1, <1>3
  <2>5. ASSUME NEW i \in 0..Len(sent), read = EndOf(i)
        PROVE  FALSE
    <3>1. k \in 0..Len(sent) /\ k + 1 \in 0..Len(sent) /\ i \in Int
      BY <1>1, <1>3
    <3>2. /\ \A m \in 0..Len(sent) : EndOf(m) \in Nat
          /\ \A m, n \in 0..Len(sent) : m < n => EndOf(m) < EndOf(n)
      BY EndIsNat DEF IInv, Wired
    <3>3. ~(i < k) /\ i # k
      BY <1>1, <2>4, <2>5, <3>1, <3>2 DEF e
    <3>4. ~(k + 1 < i) /\ i # k + 1
      BY <1>5, <2>5, <3>1, <3>2
    <3> QED
      BY <1>3, <3>1, <3>3, <3>4
  <2> QED
    BY <2>3, <2>5 DEF Boundaries
<1> QED
  BY <1>4, <1>5 DEF p

------------------------------------------------------------------------------
(* The steps keep the invariant.                                            *)

LEMMA InitIInv ==
  ASSUME Init
  PROVE  IInv
<1>1. TypeOK
  <2>1. /\ sent \in Seq([kind : Kinds, payload : Payloads, end : Nat])
        /\ wire \in Seq(Nat) /\ rest \in Seq(Nat) /\ taken \in Seq(Seq(Nat))
    BY DEF Init
  <2>2. Len(sent) = 0 /\ Len(wire) = 0 /\ Len(rest) = 0
    BY DEF Init
  <2>3. read = 0 /\ flip = 0 /\ running = FALSE /\ refused = FALSE /\ ret = "none"
    BY DEF Init
  <2>4. \A i \in 1..Len(sent) : Len(sent[i].payload) < TooLong
    BY <2>2
  <2>5. read \in 0..Len(wire) /\ flip \in 0..read /\ Len(rest) <= read
    BY <2>2, <2>3
  <2> QED
    BY <2>1, <2>3, <2>4, <2>5, Zenon DEF TypeOK
<1>2. Len(sent) = 0 /\ Len(taken) = 0 /\ Len(wire) = 0 /\ EndOf(0) = 0
  BY DEF Init, EndOf
<1> QED
  BY <1>1, <1>2 DEF Init, IInv, Wired, TakesWhatWasPut, InPlace, VerdictIsRight

\* put_block leaves the blocks on the wire as they are and adds one behind them.
LEMMA PutAppends ==
  ASSUME IInv, NEW kind \in Kinds, NEW payload \in Payloads, Put(kind, payload)
  PROVE  LET b == Block(kind, payload) IN
         /\ payload \in Seq(Nat) /\ Fits(payload)
         /\ Len(sent) \in Nat /\ Len(sent') = Len(sent) + 1
         /\ Len(wire) \in Nat /\ Len(b) \in Nat
         /\ wire' \in Seq(Nat) /\ Len(wire') = Len(wire) + Len(b)
         /\ \A j \in 1..Len(wire) : wire'[j] = wire[j]
         /\ \A j \in 1..Len(b) : wire'[Len(wire) + j] = b[j]
         /\ \A i \in 1..Len(sent) : sent'[i] = sent[i]
         /\ sent'[Len(sent) + 1] = [kind |-> kind, payload |-> payload, end |-> Len(wire')]
         /\ \A i \in 0..Len(sent) : EndOf(i)' = EndOf(i)
         /\ \A i \in Nat : i = Len(sent) + 1 => EndOf(i)' = Len(wire')
<1> DEFINE b == Block(kind, payload)
           x == [kind |-> kind, payload |-> payload, end |-> Len(wire')]
<1>1. /\ payload \in Seq(Nat) /\ Fits(payload) /\ kind \in FrameKind
      /\ wire' = wire \o b /\ sent' = Append(sent, x)
  BY KindsAssumption, BytesAssumption DEF Put
<1>2. b \in Seq(Nat)
  BY <1>1, BlockParts
<1>3. wire \in Seq(Nat)
  BY DEF IInv, TypeOK
<1>4. sent \in Seq([kind : Kinds, payload : Payloads, end : Nat])
  BY DEF IInv, TypeOK
<1> HIDE DEF b, x
<1>5. /\ wire' \in Seq(Nat) /\ Len(wire') = Len(wire) + Len(b)
      /\ \A j \in 1..Len(wire) : wire'[j] = wire[j]
      /\ \A j \in 1..Len(b) : wire'[Len(wire) + j] = b[j]
  BY <1>1, <1>2, <1>3, BytesJoined
<1>6. Len(wire) \in Nat /\ Len(b) \in Nat /\ Len(sent) \in Nat
  BY <1>2, <1>3, <1>4
<1>7. /\ Len(sent') = Len(sent) + 1
      /\ \A i \in 1..Len(sent) : sent'[i] = sent[i]
      /\ sent'[Len(sent) + 1] = x
  <2> DEFINE R == [kind : Kinds, payload : Payloads, end : Nat]
  <2>1. sent \in Seq(R)
    BY <1>4
  <2> HIDE DEF R
  <2> QED
    BY <1>1, <2>1
<1>8. ASSUME NEW i \in 0..Len(sent)
      PROVE  EndOf(i)' = EndOf(i)
  <2>1. i # 0 => i \in 1..Len(sent)
    BY <1>6
  <2> QED
    BY <1>7, <2>1 DEF EndOf
<1>9. ASSUME NEW i \in Nat, i = Len(sent) + 1
      PROVE  EndOf(i)' = Len(wire')
  BY <1>6, <1>7, <1>9 DEF EndOf, x
<1> QED
  BY <1>1, <1>5, <1>6, <1>7, <1>8, <1>9 DEF b, x

LEMMA PutKeepsTypes ==
  ASSUME IInv, NEW kind \in Kinds, NEW payload \in Payloads, Put(kind, payload)
  PROVE  TypeOK'
<1> DEFINE R == [kind : Kinds, payload : Payloads, end : Nat]
           x == [kind |-> kind, payload |-> payload, end |-> Len(wire')]
<1>1. /\ Fits(payload)
      /\ Len(sent) \in Nat /\ Len(sent') = Len(sent) + 1
      /\ Len(wire) \in Nat /\ wire' \in Seq(Nat) /\ Len(wire') >= Len(wire)
      /\ \A i \in 1..Len(sent) : sent'[i] = sent[i]
      /\ sent'[Len(sent) + 1] = x
  BY PutAppends
<1>2. sent' = Append(sent, x) /\ UNCHANGED reader
  BY DEF Put
<1>3. sent \in Seq(R) /\ x \in R
  BY <1>1 DEF IInv, TypeOK
<1>4. sent' \in Seq(R)
  <2> HIDE DEF R, x
  <2> QED
    BY <1>2, <1>3
<1>5. ASSUME NEW i \in 1..Len(sent')
      PROVE  Len(sent'[i].payload) < TooLong
  <2>1. CASE i \in 1..Len(sent)
    BY <1>1, <2>1 DEF IInv, TypeOK
  <2>2. CASE i = Len(sent) + 1
    BY <1>1, <2>2 DEF Fits
  <2> QED
    BY <1>1, <2>1, <2>2
<1>6. read' \in 0..Len(wire')
  BY <1>1, <1>2 DEF IInv, TypeOK, reader
<1>7. /\ flip' \in 0..read' /\ running' \in BOOLEAN
      /\ rest' \in Seq(Nat) /\ Len(rest') <= read'
      /\ taken' \in Seq(Seq(Nat)) /\ refused' \in BOOLEAN
      /\ ret' \in {"none", "ok", "err"}
  BY <1>2 DEF IInv, TypeOK, reader
<1> QED
  BY <1>1, <1>4, <1>5, <1>6, <1>7 DEF TypeOK

LEMMA PutKeepsWired ==
  ASSUME IInv, NEW kind \in Kinds, NEW payload \in Payloads, Put(kind, payload)
  PROVE  Wired'
<1> DEFINE b == Block(kind, payload)
           n == Len(sent)
<1>1. /\ payload \in Seq(Nat) /\ Fits(payload)
      /\ n \in Nat /\ Len(sent') = n + 1
      /\ Len(wire) \in Nat /\ Len(b) \in Nat
      /\ Len(wire') = Len(wire) + Len(b)
      /\ \A j \in 1..Len(wire) : wire'[j] = wire[j]
      /\ \A j \in 1..Len(b) : wire'[Len(wire) + j] = b[j]
      /\ \A i \in 1..n : sent'[i] = sent[i]
      /\ sent'[n + 1] = [kind |-> kind, payload |-> payload, end |-> Len(wire')]
      /\ \A i \in 0..n : EndOf(i)' = EndOf(i)
      /\ \A i \in Nat : i = n + 1 => EndOf(i)' = Len(wire')
  BY PutAppends
<1>2. Len(b) = HeaderLen + Len(payload) /\ Len(payload) \in Nat
  BY <1>1, KindsAssumption, BlockParts
<1>3. /\ \A i \in 0..n : EndOf(i) \in Nat /\ EndOf(i) <= Len(wire)
      /\ EndOf(n) = Len(wire)
  <2>1. \A i \in 0..n : EndOf(i) \in Nat
    BY EndIsNat DEF IInv
  <2>2. \A i \in 0..n : i < n => EndOf(i) < EndOf(n)
    BY <1>1 DEF IInv, Wired
  <2>3. EndOf(n) = Len(wire)
    BY DEF IInv, Wired
  <2> HIDE DEF n
  <2> QED
    BY <1>1, <2>1, <2>2, <2>3
<1> HIDE DEF b
<1>4. ASSUME NEW i \in 1..(n + 1)
      PROVE  /\ EndOf(i)' = EndOf(i - 1)' + HeaderLen + Len(sent'[i].payload)
             /\ \A k \in 1..(HeaderLen + Len(sent'[i].payload)) :
                  wire'[EndOf(i - 1)' + k] = Block(sent'[i].kind, sent'[i].payload)[k]
  <2>1. CASE i \in 1..n
    <3>1. /\ sent'[i] = sent[i] /\ EndOf(i)' = EndOf(i) /\ EndOf(i - 1)' = EndOf(i - 1)
          /\ EndOf(i) \in Nat /\ EndOf(i - 1) \in Nat /\ EndOf(i) <= Len(wire)
      BY <1>1, <1>3, <2>1
    <3>2. /\ EndOf(i) = EndOf(i - 1) + HeaderLen + Len(sent[i].payload)
          /\ \A k \in 1..(HeaderLen + Len(sent[i].payload)) :
               wire[EndOf(i - 1) + k] = Block(sent[i].kind, sent[i].payload)[k]
      BY <2>1 DEF IInv, Wired
    <3>3. Len(sent[i].payload) \in Nat
      BY <2>1, SentBlock DEF IInv
    <3>4. ASSUME NEW k \in 1..(HeaderLen + Len(sent[i].payload))
          PROVE  wire'[EndOf(i - 1) + k] = wire[EndOf(i - 1) + k]
      <4>1. EndOf(i - 1) + k \in 1..Len(wire)
        BY <3>1, <3>2, <3>3, SMTT(30) DEF HeaderLen
      <4> QED
        BY <1>1, <4>1
    <3> QED
      BY <3>1, <3>2, <3>4
  <2>2. CASE i = n + 1
    <3>1. /\ sent'[i].kind = kind /\ sent'[i].payload = payload
          /\ EndOf(i)' = Len(wire') /\ EndOf(i - 1)' = Len(wire)
      BY <1>1, <1>3, <2>2
    <3>2. EndOf(i)' = EndOf(i - 1)' + HeaderLen + Len(payload)
      BY <1>1, <1>2, <3>1 DEF HeaderLen
    <3>3. \A k \in 1..(HeaderLen + Len(payload)) : wire'[Len(wire) + k] = b[k]
      BY <1>1, <1>2
    <3> QED
      BY <3>1, <3>2, <3>3 DEF b
  <2> QED
    BY <1>1, <2>1, <2>2
<1>5. ASSUME NEW i \in 0..(n + 1), NEW j \in 0..(n + 1), i < j
      PROVE  EndOf(i)' < EndOf(j)'
  <2>1. CASE j \in 0..n
    <3>1. i \in 0..n
      BY <1>1, <1>5, <2>1
    <3> QED
      BY <1>1, <1>5, <2>1, <3>1 DEF IInv, Wired
  <2>2. CASE j = n + 1
    <3>1. i \in 0..n
      BY <1>1, <1>5, <2>2
    <3>2. EndOf(i)' <= Len(wire) /\ EndOf(i)' \in Nat
      BY <1>1, <1>3, <3>1
    <3>3. EndOf(j)' = Len(wire) + HeaderLen + Len(payload)
      BY <1>1, <1>2, <2>2 DEF HeaderLen
    <3> QED
      BY <1>1, <1>2, <3>2, <3>3 DEF HeaderLen
  <2> QED
    BY <1>1, <2>1, <2>2
<1>6. \A i \in Nat : i = Len(sent') => EndOf(i)' = Len(wire')
  BY <1>1
<1> QED
  BY <1>1, <1>4, <1>5, <1>6 DEF Wired

\* The rest of the invariant speaks of bytes that were read and blocks that were
\* taken, and a new block is behind them all.
LEMMA PutKeepsIInv ==
  ASSUME IInv, NEW kind \in Kinds, NEW payload \in Payloads, Put(kind, payload)
  PROVE  IInv'
<1>1. /\ Len(sent) \in Nat /\ Len(sent') = Len(sent) + 1
      /\ Len(wire) \in Nat /\ wire \in Seq(Nat) /\ wire' \in Seq(Nat)
      /\ Len(wire') >= Len(wire)
      /\ \A j \in 1..Len(wire) : wire'[j] = wire[j]
      /\ \A i \in 1..Len(sent) : sent'[i] = sent[i]
      /\ \A i \in 0..Len(sent) : EndOf(i)' = EndOf(i)
      /\ \A i \in Nat : i = Len(sent) + 1 => EndOf(i)' = Len(wire')
  <2> DEFINE b == Block(kind, payload)
  <2>1. /\ Len(sent) \in Nat /\ Len(sent') = Len(sent) + 1
        /\ Len(wire) \in Nat /\ Len(b) \in Nat
        /\ wire' \in Seq(Nat) /\ Len(wire') = Len(wire) + Len(b)
        /\ \A j \in 1..Len(wire) : wire'[j] = wire[j]
        /\ \A i \in 1..Len(sent) : sent'[i] = sent[i]
        /\ \A i \in 0..Len(sent) : EndOf(i)' = EndOf(i)
        /\ \A i \in Nat : i = Len(sent) + 1 => EndOf(i)' = Len(wire')
    BY PutAppends
  <2> HIDE DEF b
  <2>2. Len(wire') >= Len(wire)
    BY <2>1
  <2>3. wire \in Seq(Nat)
    BY DEF IInv, TypeOK
  <2> QED
    BY <2>1, <2>2, <2>3, Zenon
<1>2. UNCHANGED reader
  BY DEF Put
<1>3. /\ Len(taken) \in Nat /\ read \in Nat /\ read <= Len(wire)
  BY DEF IInv, TypeOK
<1>4. Len(wire') > Len(wire)
  <2>1. Len(Block(kind, payload)) = HeaderLen + Len(payload) /\ Len(payload) \in Nat
    <3>1. kind \in FrameKind /\ payload \in Seq(Nat) /\ Fits(payload)
      BY PutAppends, KindsAssumption
    <3>2. Len(payload) \in Nat
      BY <3>1
    <3> QED
      BY <3>1, <3>2, BlockParts
  <2>2. Len(wire') = Len(wire) + Len(Block(kind, payload))
    BY PutAppends
  <2> QED
    BY <1>1, <2>1, <2>2 DEF HeaderLen
<1>5. ASSUME flip = 0
      PROVE  /\ Len(taken) \in 0..Len(sent) /\ EndOf(Len(taken)) \in Nat
             /\ \A i \in Nat : i = Len(taken) => EndOf(i)' = EndOf(i)
  <2>1. Len(taken) \in 0..Len(sent)
    BY <1>1, <1>3, <1>5 DEF IInv, TakesWhatWasPut
  <2> QED
    BY <1>1, <2>1, EndIsNat DEF IInv
<1>6. TakesWhatWasPut'
  <2> SUFFICES ASSUME flip' = 0
               PROVE  /\ Len(taken)' <= Len(sent)'
                      /\ \A i \in 1..Len(taken') :
                           taken'[i] = sent'[i].payload /\ sent'[i].kind = Expected
                      /\ running' => rest' = SubSeq(wire', EndOf(Len(taken))' + 1, read')
    BY DEF TakesWhatWasPut
  <2>1. flip = 0 /\ taken' = taken /\ rest' = rest /\ read' = read /\ running' = running
    BY <1>2 DEF reader
  <2>2. Len(taken) \in 0..Len(sent)
    BY <1>5, <2>1
  <2>3. \A i \in 1..Len(taken') :
           taken'[i] = sent'[i].payload /\ sent'[i].kind = Expected
    <3> SUFFICES ASSUME NEW i \in 1..Len(taken)
                 PROVE  taken[i] = sent'[i].payload /\ sent'[i].kind = Expected
      BY <2>1
    <3>1. i \in 1..Len(sent)
      BY <1>1, <1>3, <2>2
    <3>2. taken[i] = sent[i].payload /\ sent[i].kind = Expected
      BY <2>1 DEF IInv, TakesWhatWasPut
    <3> QED
      BY <1>1, <3>1, <3>2
  <2>4. ASSUME running
        PROVE  rest' = SubSeq(wire', EndOf(Len(taken))' + 1, read')
    <3> DEFINE e == EndOf(Len(taken))
    <3>1. e \in Nat /\ EndOf(Len(taken))' = e
      BY <1>3, <1>5, <2>1 DEF EndOf
    <3>2. e <= read /\ rest = SubSeq(wire, e + 1, read)
      BY <2>1, <2>4 DEF IInv, InPlace, TakesWhatWasPut
    <3> HIDE DEF e
    <3>3. SubSeq(wire, e + 1, read) = SubSeq(wire', e + 1, read)
      <4>1. /\ SubSeq(wire, e + 1, read) \in Seq(Nat)
            /\ Len(SubSeq(wire, e + 1, read)) = read - e
            /\ \A j \in 1..(read - e) : SubSeq(wire, e + 1, read)[j] = wire[e + j]
        BY <1>1, <1>3, <3>1, <3>2, Portion, ZenonT(60)
      <4>2. /\ SubSeq(wire', e + 1, read) \in Seq(Nat)
            /\ Len(SubSeq(wire', e + 1, read)) = read - e
            /\ \A j \in 1..(read - e) : SubSeq(wire', e + 1, read)[j] = wire'[e + j]
        <5>1. wire' \in Seq(Nat) /\ e \in Nat /\ read \in Nat /\ e <= read /\ read <= Len(wire')
          <6>1. Len(wire') \in Nat
            BY <1>1
          <6> QED
            BY <1>1, <1>3, <3>1, <3>2, <6>1
        <5> QED
          BY <5>1, Portion
      <4>3. ASSUME NEW j \in 1..(read - e)
            PROVE  wire'[e + j] = wire[e + j]
        <5>1. e + j \in 1..Len(wire)
          BY <1>1, <1>3, <3>1, <3>2
        <5> QED
          BY <1>1, <5>1
      <4> QED
        BY <4>1, <4>2, <4>3, SeqEqual
    <3> QED
      BY <2>1, <3>1, <3>2, <3>3
  <2> QED
    BY <1>1, <2>1, <2>2, <2>3, <2>4
<1>7. InPlace'
  <2> SUFFICES ASSUME flip' = 0
               PROVE  /\ EndOf(Len(taken))' <= read'
                      /\ ~running' /\ ret' # "err" => read' = EndOf(Len(taken))'
    BY DEF InPlace
  <2>1. flip = 0 /\ taken' = taken /\ read' = read /\ running' = running /\ ret' = ret
    BY <1>2 DEF reader
  <2>2. EndOf(Len(taken))' = EndOf(Len(taken))
    BY <1>3, <1>5, <2>1 DEF EndOf
  <2> QED
    BY <2>1, <2>2 DEF IInv, InPlace
<1>8. VerdictIsRight'
  <2> SUFFICES ASSUME flip' = 0, ~running'
               PROVE  /\ ret' = "ok" => read' = EndOf(Len(taken))'
                      /\ ret' = "err" =>
                           \/ refused'
                           \/ read' \notin Boundaries'
                           \/ Len(taken') < Len(sent') /\ sent'[Len(taken') + 1].kind # Expected
    BY DEF VerdictIsRight
  <2>1. /\ flip = 0 /\ ~running /\ taken' = taken /\ read' = read /\ ret' = ret
        /\ refused' = refused
    BY <1>2 DEF reader
  <2>2. EndOf(Len(taken))' = EndOf(Len(taken))
    BY <1>3, <1>5, <2>1 DEF EndOf
  <2>3. read \notin Boundaries => read \notin Boundaries'
    <3> SUFFICES ASSUME NEW i \in 0..Len(sent'), read = EndOf(i)'
                 PROVE  read \in Boundaries
      BY <2>1 DEF Boundaries
    <3>1. i # Len(sent) + 1
      BY <1>1, <1>3, <1>4
    <3>2. i \in 0..Len(sent)
      BY <1>1, <3>1
    <3> QED
      BY <1>1, <3>2 DEF Boundaries
  <2>4. Len(taken) < Len(sent) =>
          /\ Len(taken') < Len(sent')
          /\ sent'[Len(taken') + 1] = sent[Len(taken) + 1]
    <3> SUFFICES ASSUME Len(taken) < Len(sent)
                 PROVE  /\ Len(taken) < Len(sent')
                        /\ sent'[Len(taken) + 1] = sent[Len(taken) + 1]
      BY <2>1
    <3>1. Len(taken) + 1 \in 1..Len(sent)
      BY <1>1, <1>3
    <3>2. Len(taken) < Len(sent')
      BY <1>1, <1>3
    <3> QED
      BY <1>1, <3>1, <3>2
  <2> QED
    BY <2>1, <2>2, <2>3, <2>4 DEF IInv, VerdictIsRight
<1> QED
  BY <1>6, <1>7, <1>8, PutKeepsTypes, PutKeepsWired DEF IInv

\* decode is called: between two calls the reading stands where a block starts.
LEMMA CallKeepsIInv ==
  ASSUME IInv, NEW n \in 0..(Len(wire) - read), Call(n),
         rest' \in Seq(Nat), Len(rest') = n, flip' \in 0..(read + n),
         flip' = 0 => flip = 0 /\ rest' = SubSeq(wire, read + 1, read + n)
  PROVE  IInv'
<1>1. /\ ~running /\ ret # "err" /\ read' = read + n /\ running' = TRUE
      /\ sent' = sent /\ wire' = wire /\ taken' = taken
      /\ refused' = refused /\ ret' = ret
  BY DEF Call
<1>2. read \in Nat /\ Len(wire) \in Nat /\ read <= Len(wire) /\ n \in Nat
  BY DEF IInv, TypeOK
<1>3. TypeOK'
  <2>1. read' \in 0..Len(wire') /\ flip' \in 0..read' /\ Len(rest') <= read'
    BY <1>1, <1>2
  <2> QED
    BY <1>1, <2>1 DEF IInv, TypeOK
<1>4. \A i : EndOf(i)' = EndOf(i)
  BY <1>1 DEF EndOf
<1>5. Wired'
  BY <1>1 DEF IInv, Wired, EndOf
<1>6. ASSUME flip' = 0
      PROVE  /\ EndOf(Len(taken)) = read
             /\ TakesWhatWasPut
             /\ EndOf(Len(taken))' = EndOf(Len(taken))
  BY <1>1, <1>6 DEF IInv, InPlace, EndOf
<1>7. TakesWhatWasPut'
  BY <1>1, <1>6 DEF TakesWhatWasPut
<1>8. InPlace' /\ VerdictIsRight'
  BY <1>1, <1>2, <1>6 DEF InPlace, VerdictIsRight
<1> QED
  BY <1>3, <1>5, <1>7, <1>8 DEF IInv

LEMMA StartKeepsIInv ==
  ASSUME IInv, NEW n \in 0..(Len(wire) - read), Start(n)
  PROVE  IInv'
<1>1. Call(n) /\ rest' = SubSeq(wire, read + 1, read + n) /\ flip' = flip
  BY DEF Start
<1>2. /\ read \in Nat /\ n \in Nat /\ wire \in Seq(Nat) /\ read + n \in Nat
      /\ read + n <= Len(wire) /\ read <= read + n /\ (read + n) - read = n
      /\ flip \in 0..(read + n)
  BY DEF IInv, TypeOK
<1>3. rest' \in Seq(Nat) /\ Len(rest') = n
  BY <1>1, <1>2, Portion
<1> QED
  BY <1>1, <1>2, <1>3, CallKeepsIInv

LEMMA StartAlteredKeepsIInv ==
  ASSUME IInv, NEW n \in 0..(Len(wire) - read),
         NEW p \in (read + 1)..(read + n), NEW v \in FlipTo, StartAltered(n, p, v)
  PROVE  IInv'
<1> DEFINE input == SubSeq(wire, read + 1, read + n)
<1>1. Call(n) /\ rest' = [input EXCEPT ![p - read] = v] /\ flip' = p
  BY DEF StartAltered
<1>2. /\ read \in Nat /\ n \in Nat /\ wire \in Seq(Nat) /\ read + n \in Nat
      /\ read + n <= Len(wire) /\ read <= read + n /\ (read + n) - read = n
      /\ p \in 0..(read + n) /\ p # 0
  BY DEF IInv, TypeOK
<1>3. input \in Seq(Nat) /\ Len(input) = n
  BY <1>2, Portion
<1>4. v \in Nat
  BY BytesAssumption
<1> HIDE DEF input
<1>5. rest' \in Seq(Nat) /\ Len(rest') = n
  <2>1. input \in [1..n -> Nat] /\ DOMAIN input = 1..n
    BY <1>2, <1>3
  <2>2. rest' \in [1..n -> Nat]
    BY <1>1, <1>4, <2>1
  <2> QED
    BY <1>2, <2>2
<1> QED
  BY <1>1, <1>2, <1>5, CallKeepsIInv

\* What a block that is taken is worth, altered or not: its payload is in the
\* input, and so is what is behind it.
LEMMA TakenFromInput ==
  ASSUME NEW input \in Seq(Nat), Takes(input)
  PROVE  /\ LengthOf(input) \in Nat
         /\ PayloadOf(input) \in Seq(Nat)
         /\ Len(PayloadOf(input)) = LengthOf(input)
         /\ Behind(input) \in Seq(Nat)
         /\ Len(input) = HeaderLen + LengthOf(input) + Len(Behind(input))
<1>1. Len(input) >= 8 /\ Len(input) \in Nat
  BY DEF Takes, HeaderReads, HeaderLen
<1>2. input[5] \in Nat /\ input[6] \in Nat /\ input[7] \in Nat /\ input[8] \in Nat
  BY <1>1
<1>3. LengthOf(input) \in Nat
  <2> DEFINE a == input[5]  b == input[6]  c == input[7]  d == input[8]
  <2>1. a \in Nat /\ b \in Nat /\ c \in Nat /\ d \in Nat /\ Base \in Nat
    BY <1>2, BaseAssumption
  <2> HIDE DEF a, b, c, d
  <2>2. a * Base + b \in Nat
    BY <2>1
  <2>3. (a * Base + b) * Base + c \in Nat
    BY <2>1, <2>2
  <2>4. ((a * Base + b) * Base + c) * Base + d \in Nat
    BY <2>1, <2>3
  <2> QED
    BY <2>4 DEF LengthOf, Number, a, b, c, d
<1> DEFINE m == HeaderLen + LengthOf(input)
<1>4. m \in Nat /\ m <= Len(input) /\ HeaderLen \in Nat /\ HeaderLen <= m
      /\ m - HeaderLen = LengthOf(input)
  BY <1>3, SMTT(30) DEF Takes, HeaderLen
<1>5. PayloadOf(input) \in Seq(Nat) /\ Len(PayloadOf(input)) = m - HeaderLen
  <2> HIDE DEF m
  <2>1. PayloadOf(input) = SubSeq(input, HeaderLen + 1, m)
    BY DEF PayloadOf, m
  <2> QED
    BY <1>1, <1>4, <2>1, Portion
<1>6. Behind(input) \in Seq(Nat) /\ Len(Behind(input)) = Len(input) - m
  <2>1. Behind(input) = SubSeq(input, m + 1, Len(input))
    BY DEF Behind
  <2> HIDE DEF m
  <2> QED
    BY <1>4, <2>1, Ending
<1>7. /\ m - HeaderLen = LengthOf(input)
      /\ Len(input) = m + Len(Behind(input))
  BY <1>1, <1>4, <1>6
<1> QED
  BY <1>3, <1>5, <1>6, <1>7

\* An iteration that takes a block goes on at the start of the next one.
LEMMA TakeKeepsIInv ==
  ASSUME IInv, Take
  PROVE  IInv'
<1> DEFINE k == Len(taken)
<1>1. /\ running /\ rest # <<>> /\ Takes(rest) /\ KindOf(rest) = Expected
      /\ taken' = Append(taken, PayloadOf(rest)) /\ rest' = Behind(rest)
      /\ sent' = sent /\ wire' = wire /\ read' = read /\ flip' = flip
      /\ running' = running /\ refused' = refused /\ ret' = ret
  BY DEF Take
<1>2. /\ rest \in Seq(Nat) /\ taken \in Seq(Seq(Nat)) /\ k \in Nat
      /\ read \in Nat /\ Len(rest) <= read
  BY DEF IInv, TypeOK
<1>3. /\ LengthOf(rest) \in Nat /\ PayloadOf(rest) \in Seq(Nat)
      /\ Behind(rest) \in Seq(Nat)
      /\ Len(rest) = HeaderLen + LengthOf(rest) + Len(Behind(rest))
  BY <1>1, <1>2, TakenFromInput
<1>4. /\ taken' \in Seq(Seq(Nat)) /\ Len(taken') = k + 1
      /\ \A i \in 1..k : taken'[i] = taken[i]
      /\ taken'[k + 1] = PayloadOf(rest)
  BY <1>1, <1>2, <1>3
<1>5. TypeOK'
  <2>1. Len(rest') <= read'
    BY <1>1, <1>2, <1>3 DEF HeaderLen
  <2> QED
    BY <1>1, <1>3, <1>4, <2>1 DEF IInv, TypeOK
<1>6. Wired'
  BY <1>1 DEF IInv, Wired, EndOf
<1>7. ASSUME flip = 0
      PROVE  /\ k + 1 \in 1..Len(sent) /\ NextBlock = sent[k + 1]
             /\ PayloadOf(rest) = NextBlock.payload /\ NextBlock.kind = Expected
             /\ EndOf(k + 1) \in Nat /\ EndOf(k + 1) <= read
             /\ rest' = SubSeq(wire, EndOf(k + 1) + 1, read)
  <2> DEFINE e == EndOf(k)
             p == NextBlock.payload
  <2>1. /\ k + 1 \in 1..Len(sent) /\ e \in Nat /\ Len(rest) \in Nat
        /\ read = e + Len(rest) /\ EndOf(k + 1) = e + HeaderLen + Len(p)
        /\ \A j \in 1..Len(rest) : rest[j] = wire[e + j]
    BY <1>1, <1>7, IterationFindsBlock
  <2>2. EndOf(k + 1) \in Nat
    BY <2>1, EndIsNat DEF IInv
  <2>3. EndOf(k + 1) <= read
    BY <1>1, <1>2, <1>7, <2>2, IterationTakesWhole
  <2>4. KindOf(rest) = NextBlock.kind /\ LengthOf(rest) = Len(p) /\ PayloadOf(rest) = p
    BY <1>1, <1>7, <2>3, IterationTakesWhole
  <2> DEFINE m == HeaderLen + Len(p)
             f == EndOf(k + 1)
  <2>5. /\ m \in Nat /\ m <= Len(rest) /\ f = e + m
        /\ f \in Nat /\ f <= read /\ read - f = Len(rest) - m
    <3>1. m \in Nat
      BY <1>3, <2>4 DEF HeaderLen
    <3>2. f = e + m
      <4>1. /\ HeaderLen \in Nat /\ Len(p) \in Nat /\ e \in Nat
            /\ f = e + HeaderLen + Len(p)
        BY <1>3, <2>1, <2>4 DEF HeaderLen
      <4> HIDE DEF e, f, p
      <4> QED
        BY <4>1
    <3> HIDE DEF e, m, f
    <3>3. f \in Nat /\ f <= read
      BY <2>2, <2>3 DEF f
    <3>4. e \in Nat /\ Len(rest) \in Nat /\ read = e + Len(rest)
      BY <2>1
    <3> QED
      BY <3>1, <3>2, <3>3, <3>4
  <2>6. wire \in Seq(Nat) /\ read \in Nat /\ read <= Len(wire)
    BY DEF IInv, TypeOK
  <2>7. rest' = SubSeq(rest, m + 1, Len(rest))
    BY <1>1, <2>4 DEF Behind
  <2> HIDE DEF e, m, f
  <2>8. rest' = SubSeq(wire, f + 1, read)
    <3>1. /\ SubSeq(rest, m + 1, Len(rest)) \in Seq(Nat)
          /\ Len(SubSeq(rest, m + 1, Len(rest))) = Len(rest) - m
          /\ \A j \in 1..(Len(rest) - m) :
               SubSeq(rest, m + 1, Len(rest))[j] = rest[m + j]
      BY <1>2, <2>5, Ending
    <3>2. /\ SubSeq(wire, f + 1, read) \in Seq(Nat)
          /\ Len(SubSeq(wire, f + 1, read)) = read - f
          /\ \A j \in 1..(read - f) : SubSeq(wire, f + 1, read)[j] = wire[f + j]
      BY <2>5, <2>6, Portion
    <3>3. ASSUME NEW j \in 1..(Len(rest) - m)
          PROVE  rest[m + j] = wire[f + j]
      <4>1. m + j \in 1..Len(rest) /\ e + (m + j) = f + j
        BY <2>1, <2>5
      <4> QED
        BY <2>1, <4>1
    <3> DEFINE x == SubSeq(rest, m + 1, Len(rest))
               y == SubSeq(wire, f + 1, read)
    <3>4. /\ x \in Seq(Nat) /\ y \in Seq(Nat)
          /\ Len(x) = read - f /\ Len(y) = read - f
          /\ \A j \in 1..(read - f) : x[j] = y[j]
      BY <2>5, <3>1, <3>2, <3>3
    <3> HIDE DEF x, y
    <3>5. x = y
      BY <3>4, SeqEqual
    <3> QED
      BY <2>7, <3>5 DEF x, y
  <2> QED
    BY <1>1, <2>1, <2>2, <2>3, <2>4, <2>8 DEF NextBlock, f
<1>8. \A i : EndOf(i)' = EndOf(i)
  BY <1>1 DEF EndOf
<1>9. \A i \in Nat : i = Len(taken') => EndOf(i)' = EndOf(k + 1)
  BY <1>4, <1>8
<1>10. TakesWhatWasPut'
  <2> SUFFICES ASSUME flip = 0
               PROVE  /\ Len(taken') <= Len(sent)
                      /\ \A i \in 1..Len(taken') :
                           taken'[i] = sent[i].payload /\ sent[i].kind = Expected
                      /\ rest' = SubSeq(wire, EndOf(k + 1) + 1, read)
    BY <1>1, <1>4 DEF TakesWhatWasPut, EndOf
  <2>1. Len(taken') <= Len(sent)
    BY <1>2, <1>4, <1>7 DEF IInv, TypeOK
  <2>2. ASSUME NEW i \in 1..Len(taken')
        PROVE  taken'[i] = sent[i].payload /\ sent[i].kind = Expected
    <3>1. CASE i \in 1..k
      BY <1>4, <3>1 DEF IInv, TakesWhatWasPut
    <3>2. CASE i = k + 1
      BY <1>4, <1>7, <3>2
    <3> QED
      BY <1>2, <1>4, <3>1, <3>2
  <2> QED
    BY <1>7, <2>1, <2>2
<1>11. InPlace' /\ VerdictIsRight'
  <2>1. ASSUME flip = 0
        PROVE  EndOf(Len(taken))' <= read'
    BY <1>1, <1>4, <1>7, <2>1 DEF EndOf
  <2> QED
    BY <1>1, <2>1 DEF InPlace, VerdictIsRight
<1> QED
  BY <1>5, <1>6, <1>10, <1>11 DEF IInv

\* A call returns.
LEMMA ReturnKeepsIInv ==
  ASSUME IInv, NEW result \in {"ok", "err"}, Return(result),
         taken' = taken, refused' \in BOOLEAN,
         flip = 0 /\ result = "ok" => read = EndOf(Len(taken)),
         flip = 0 /\ result = "err" =>
           \/ refused'
           \/ read \notin Boundaries
           \/ Len(taken) < Len(sent) /\ sent[Len(taken) + 1].kind # Expected
  PROVE  IInv'
<1>1. /\ running' = FALSE /\ rest' = <<>> /\ ret' = result
      /\ sent' = sent /\ wire' = wire /\ read' = read /\ flip' = flip
  BY DEF Return
<1>2. TypeOK'
  <2>1. rest' \in Seq(Nat) /\ Len(rest') = 0
    BY <1>1
  <2>2. Len(rest') <= read'
    BY <1>1, <2>1 DEF IInv, TypeOK
  <2>3. /\ sent' \in Seq([kind : Kinds, payload : Payloads, end : Nat])
        /\ \A i \in 1..Len(sent') : Len(sent'[i].payload) < TooLong
        /\ wire' \in Seq(Nat) /\ read' \in 0..Len(wire') /\ flip' \in 0..read'
        /\ taken' \in Seq(Seq(Nat))
    BY <1>1 DEF IInv, TypeOK
  <2> QED
    BY <1>1, <2>1, <2>2, <2>3 DEF TypeOK
<1>3. Wired'
  BY <1>1 DEF IInv, Wired, EndOf
<1>4. TakesWhatWasPut'
  BY <1>1 DEF IInv, TakesWhatWasPut
<1>5. EndOf(Len(taken))' = EndOf(Len(taken)) /\ Boundaries' = Boundaries
  BY <1>1 DEF EndOf, Boundaries
<1>6. InPlace' /\ VerdictIsRight'
  BY <1>1, <1>5 DEF IInv, InPlace, VerdictIsRight
<1> QED
  BY <1>2, <1>3, <1>4, <1>6 DEF IInv

LEMMA RejectKeepsIInv ==
  ASSUME IInv, Reject
  PROVE  IInv'
<1>1. /\ running /\ rest # <<>> /\ ~(Takes(rest) /\ KindOf(rest) = Expected)
      /\ Return("err") /\ taken' = taken /\ refused' = refused
  BY DEF Reject
<1>2. ASSUME flip = 0
      PROVE  \/ read \notin Boundaries
             \/ Len(taken) < Len(sent) /\ sent[Len(taken) + 1].kind # Expected
  <2>1. /\ Len(taken) + 1 \in 1..Len(sent)
        /\ Len(taken) \in Nat /\ Len(sent) \in Nat /\ read \in Nat
    BY <1>1, <1>2, IterationFindsBlock, SMTT(30) DEF IInv, TypeOK
  <2>2. EndOf(Len(taken) + 1) \in Nat
    BY <2>1, EndIsNat DEF IInv
  <2>3. CASE EndOf(Len(taken) + 1) <= read
    <3>1. Takes(rest) /\ KindOf(rest) = NextBlock.kind
      BY <1>1, <1>2, <2>3, IterationTakesWhole
    <3>2. NextBlock.kind # Expected
      BY <1>1, <3>1
    <3> QED
      BY <2>1, <3>2 DEF NextBlock
  <2>4. CASE read < EndOf(Len(taken) + 1)
    BY <1>1, <1>2, <2>4, IterationTakesWhole
  <2> QED
    BY <2>1, <2>2, <2>3, <2>4
<1>3. refused' \in BOOLEAN
  BY <1>1 DEF IInv, TypeOK
<1> QED
  BY <1>1, <1>2, <1>3, ReturnKeepsIInv

LEMMA FinishedKeepsIInv ==
  ASSUME IInv, Finished
  PROVE  IInv'
<1>1. /\ running /\ rest = <<>>
      /\ Return("ok") /\ taken' = taken /\ refused' = refused
  BY DEF Finished
<1>2. ASSUME flip = 0
      PROVE  read = EndOf(Len(taken))
  <2> DEFINE e == EndOf(Len(taken))
  <2>1. /\ Len(taken) \in Nat /\ Len(taken) <= Len(sent) /\ Len(sent) \in Nat
        /\ rest = SubSeq(wire, e + 1, read) /\ e <= read
        /\ wire \in Seq(Nat) /\ read \in Nat /\ read <= Len(wire)
    BY <1>1, <1>2 DEF IInv, TypeOK, TakesWhatWasPut, InPlace
  <2>2. e \in Nat
    BY <2>1, EndIsNat DEF IInv
  <2> HIDE DEF e
  <2>3. Len(rest) = read - e
    BY <2>1, <2>2, Portion
  <2>4. Len(rest) = 0
    BY <1>1
  <2> QED
    BY <2>1, <2>2, <2>3, <2>4 DEF e
<1>3. refused' \in BOOLEAN
  BY <1>1 DEF IInv, TypeOK
<1> QED
  BY <1>1, <1>2, <1>3, ReturnKeepsIInv

LEMMA RefuseKeepsIInv ==
  ASSUME IInv, Refuse
  PROVE  IInv'
<1>1. Return("err") /\ taken' = taken /\ refused' = TRUE
  BY DEF Refuse
<1> QED
  BY <1>1, ReturnKeepsIInv

LEMMA NextKeepsIInv ==
  ASSUME IInv, [Next]_vars
  PROVE  IInv'
<1>1. ASSUME NEW kind \in Kinds, NEW payload \in Payloads, Put(kind, payload)
      PROVE  IInv'
  BY <1>1, PutKeepsIInv
<1>2. ASSUME NEW n \in 0..(Len(wire) - read), Start(n)
      PROVE  IInv'
  BY <1>2, StartKeepsIInv
<1>3. ASSUME NEW n \in 0..(Len(wire) - read),
             NEW p \in (read + 1)..(read + n), NEW v \in FlipTo, StartAltered(n, p, v)
      PROVE  IInv'
  BY <1>3, StartAlteredKeepsIInv
<1>4. CASE Loop
  BY <1>4, TakeKeepsIInv, RejectKeepsIInv, RefuseKeepsIInv, FinishedKeepsIInv DEF Loop
<1>5. CASE UNCHANGED vars
  BY <1>5, SMTT(30) DEF vars, IInv, TypeOK, Wired, TakesWhatWasPut, InPlace, VerdictIsRight,
     EndOf, Boundaries
<1> QED
  BY <1>1, <1>2, <1>3, <1>4, <1>5 DEF Next

------------------------------------------------------------------------------
(* One altered byte.  The blocks s on the wire w, the position f of the     *)
(* byte, the block b it is in, the blocks t that were taken.                *)

End(s, i)       == IF i = 0 THEN 0 ELSE s[i].end
Within(s, f, b) == b \in 1..Len(s) /\ End(s, b - 1) < f /\ f <= End(s, b)
Offset(s, f, b) == f - End(s, b - 1)

\* A well-formed wire: Wired, with the types of its blocks.
Blocks(s, w) ==
  /\ w \in Seq(Nat) /\ Len(w) = End(s, Len(s)) /\ Len(s) \in Nat
  /\ \A i \in 0..Len(s) : End(s, i) \in Nat
  /\ \A i, j \in 0..Len(s) : i < j => End(s, i) < End(s, j)
  /\ \A i \in 1..Len(s) :
       /\ s[i].kind \in FrameKind /\ s[i].payload \in Seq(Nat) /\ Fits(s[i].payload)
       /\ End(s, i) = End(s, i - 1) + HeaderLen + Len(s[i].payload)
       /\ \A j \in 1..(HeaderLen + Len(s[i].payload)) :
            w[End(s, i - 1) + j] = Block(s[i].kind, s[i].payload)[j]

\* The input holds the wire from behind block k to n, but for the byte at f.
Follows(s, w, f, input, k, n) ==
  /\ k <= Len(s) /\ End(s, k) <= n
  /\ Len(input) = n - End(s, k)
  /\ \A j \in 1..Len(input) : input[j] # w[End(s, k) + j] <=> End(s, k) + j = f

\* What an altered byte in block b does to the blocks that are taken.
Spared(s, t, f, b) ==
  /\ \A i \in 1..Len(t) : i < b => t[i] = s[i].payload
  /\ Offset(s, f, b) \in 1..4 /\ Len(t) >= b
       => Offset(s, f, b) = 4 /\ s[b].kind # Expected
  /\ Offset(s, f, b) > HeaderLen =>
       \A i \in 1..Len(t) :
         /\ i # b => t[i] = s[i].payload
         /\ i = b => \A j \in 1..Len(t[i]) :
                       t[i][j] # s[i].payload[j] => j = Offset(s, f, b) - HeaderLen

\* The reader still finds the blocks: it has not come to the altered one, or the
\* byte is in the payload.
OnTrack(s, t, f, b) == Len(t) < b \/ Offset(s, f, b) > HeaderLen

Kept(b) ==
  /\ Within(sent, flip, b)
  /\ Spared(sent, taken, flip, b)
  /\ OnTrack(sent, taken, flip, b) =>
       /\ Len(taken) <= Len(sent)
       /\ ~running /\ ret # "err" => read = End(sent, Len(taken))
       /\ running => Follows(sent, wire, flip, rest, Len(taken), read)

Altered == flip # 0 => \E b \in 1..Len(sent) : Kept(b)

\* The byte is in one block.
LEMMA OneBlock ==
  ASSUME NEW s, NEW w, Blocks(s, w), NEW f \in Nat, NEW b, Within(s, f, b),
         NEW c, Within(s, f, c)
  PROVE  b = c
<1>1. ASSUME NEW x \in 1..Len(s), NEW y \in 1..Len(s), x < y, f <= End(s, x), End(s, y - 1) < f
      PROVE  FALSE
  <2>1. /\ x \in 0..Len(s) /\ y - 1 \in 0..Len(s) /\ x <= y - 1
    BY <1>1
  <2>2. End(s, x) \in Nat /\ End(s, y - 1) \in Nat /\ End(s, x) <= End(s, y - 1)
    <3>1. End(s, x) \in Nat /\ End(s, y - 1) \in Nat
      BY <2>1 DEF Blocks
    <3>2. x < y - 1 => End(s, x) < End(s, y - 1)
      BY <2>1 DEF Blocks
    <3>3. x = y - 1 \/ x < y - 1
      BY <2>1
    <3> QED
      BY <3>1, <3>2, <3>3
  <2> QED
    BY <1>1, <2>2
<1>2. b \in 1..Len(s) /\ c \in 1..Len(s) /\ f <= End(s, b) /\ f <= End(s, c)
      /\ End(s, b - 1) < f /\ End(s, c - 1) < f
  BY DEF Within
<1>3. ~(b < c) /\ ~(c < b)
  BY <1>1, <1>2
<1> QED
  BY <1>2, <1>3

\* A byte of the wire is in some block.
LEMMA SomeBlock ==
  ASSUME NEW s, NEW w, Blocks(s, w), NEW f \in 1..Len(w)
  PROVE  \E b \in 1..Len(s) : Within(s, f, b)
<1> DEFINE T == {i \in 0..Len(s) : f <= End(s, i)}
<1>1. Len(s) \in Nat /\ Len(w) = End(s, Len(s))
  BY DEF Blocks
<1>2. Len(s) \in T
  BY <1>1
<1>3. T \in SUBSET Nat /\ T # {}
  BY <1>1, <1>2
<1>4. PICK b \in T : \A i \in T : b <= i
  <2> HIDE DEF T
  <2> QED
    BY <1>3, LeastExists
<1>5. b # 0
  BY DEF End
<1>6. b \in 1..Len(s) /\ b - 1 \in 0..Len(s) /\ b - 1 \notin T
  BY <1>1, <1>4, <1>5
<1>7. End(s, b - 1) \in Nat
  BY <1>6 DEF Blocks
<1>8. End(s, b - 1) < f
  BY <1>6, <1>7
<1> QED
  BY <1>6, <1>8 DEF Within

\* An iteration that takes a block while the reader is on track.
LEMMA TakeOnTrack ==
  ASSUME NEW s, NEW w, Blocks(s, w), NEW f \in Nat, NEW b, Within(s, f, b),
         NEW k \in Nat, NEW n \in Nat, n <= Len(w), NEW input \in Seq(Nat),
         Follows(s, w, f, input, k, n), Takes(input), KindOf(input) = Expected
  PROVE  /\ k + 1 \in 1..Len(s)
         /\ k + 1 # b => PayloadOf(input) = s[k + 1].payload
         /\ k + 1 = b =>
              /\ Offset(s, f, b) \in 1..4 => Offset(s, f, b) = 4 /\ s[b].kind # Expected
              /\ Offset(s, f, b) > HeaderLen =>
                   \A j \in 1..Len(PayloadOf(input)) :
                     PayloadOf(input)[j] # s[b].payload[j] => j = Offset(s, f, b) - HeaderLen
         /\ k + 1 # b \/ Offset(s, f, b) > HeaderLen =>
              Follows(s, w, f, Behind(input), k + 1, n)
<1> DEFINE e == End(s, k)
           p == s[k + 1].payload
           kind == s[k + 1].kind
           m == HeaderLen + Len(p)
           block == Block(kind, p)
<1>1. /\ Len(s) \in Nat /\ k <= Len(s) /\ e <= n /\ Len(input) = n - e
      /\ Len(w) = End(s, Len(s)) /\ Len(w) \in Nat
  BY DEF Blocks, Follows
<1>2. Len(input) \in Nat /\ Len(input) >= 8 /\ HeaderLen = 8
  BY DEF Takes, HeaderReads, HeaderLen
<1>3. e \in Nat
  <2>1. k \in 0..Len(s)
    BY <1>1
  <2> QED
    BY <2>1 DEF Blocks
<1>4. k + 1 \in 1..Len(s)
  <2>1. k # Len(s)
    BY <1>1, <1>2, <1>3
  <2> QED
    BY <1>1, <2>1
<1>5. /\ kind \in FrameKind /\ p \in Seq(Nat) /\ Fits(p)
      /\ End(s, k + 1) = e + m
      /\ \A j \in 1..m : w[e + j] = block[j]
  <2>1. (k + 1) - 1 = k
    OBVIOUS
  <2>2. /\ s[k + 1].kind \in FrameKind /\ s[k + 1].payload \in Seq(Nat)
        /\ Fits(s[k + 1].payload)
        /\ End(s, k + 1) = End(s, (k + 1) - 1) + HeaderLen + Len(s[k + 1].payload)
        /\ \A j \in 1..(HeaderLen + Len(s[k + 1].payload)) :
             w[End(s, (k + 1) - 1) + j] = Block(s[k + 1].kind, s[k + 1].payload)[j]
    BY <1>4 DEF Blocks
  <2>3. Len(s[k + 1].payload) \in Nat
    BY <2>2
  <2>4. End(s, k) + HeaderLen + Len(s[k + 1].payload)
          = End(s, k) + (HeaderLen + Len(s[k + 1].payload))
    <3>1. \A x, y, z \in Nat : x + y + z = x + (y + z)
      OBVIOUS
    <3>2. HeaderLen \in Nat /\ End(s, k) \in Nat
      BY <1>2, <1>3
    <3> QED
      BY <2>3, <3>1, <3>2
  <2> QED
    BY <2>1, <2>2, <2>4
<1>6. \A j \in 1..Len(input) : input[j] # w[e + j] <=> e + j = f
  BY DEF Follows
<1>7. /\ block \in Seq(Nat) /\ Len(block) = m
      /\ block[1] = FrameMagic[1] /\ block[2] = FrameMagic[2] /\ block[3] = FrameVersion
      /\ block[4] = KindCode[kind]
      /\ Number(block[5], block[6], block[7], block[8]) = Len(p)
      /\ \A j \in 1..Len(p) : block[HeaderLen + j] = p[j]
  <2> DEFINE d == Digits(Len(p))
  <2>1. Number(d[1], d[2], d[3], d[4]) = Len(p)
    BY <1>5, LengthReadBack DEF Fits
  <2>2. /\ block \in Seq(Nat) /\ Len(block) = m
        /\ block[1] = FrameMagic[1] /\ block[2] = FrameMagic[2]
        /\ block[3] = FrameVersion /\ block[4] = KindCode[kind]
        /\ block[5] = d[1] /\ block[6] = d[2] /\ block[7] = d[3] /\ block[8] = d[4]
        /\ \A j \in 1..Len(p) : block[HeaderLen + j] = p[j]
    <3> HIDE DEF p, kind
    <3> QED
      BY <1>5, BlockParts
  <2> HIDE DEF d, block, p, kind
  <2> QED
    BY <2>1, <2>2
<1>8. Len(p) \in Nat /\ m \in Nat /\ m >= 8
  BY <1>2, <1>5, SMTT(30)
<1> DEFINE o == Offset(s, f, b)
<1>9. k + 1 = b => o = f - e /\ o >= 1
  <2>1. (k + 1) - 1 = k
    OBVIOUS
  <2> QED
    BY <1>3, <2>1, SMTT(30) DEF Offset, Within
<1>10. ASSUME k + 1 # b, NEW j \in 1..m
       PROVE  e + j # f
  <2>1. /\ b \in 1..Len(s) /\ End(s, b - 1) < f /\ f <= End(s, b)
        /\ End(s, b - 1) \in Nat /\ End(s, b) \in Nat
    <3>1. b \in 1..Len(s) /\ End(s, b - 1) < f /\ f <= End(s, b)
      BY DEF Within
    <3>2. b \in 0..Len(s) /\ b - 1 \in 0..Len(s)
      BY <1>1, <3>1
    <3> QED
      BY <3>1, <3>2 DEF Blocks
  <2>2. CASE k + 1 < b
    <3>1. k + 1 \in 0..Len(s) /\ b - 1 \in 0..Len(s)
      BY <1>4, <2>1
    <3>2. k + 1 < b - 1 => End(s, k + 1) < End(s, b - 1)
      BY <3>1 DEF Blocks
    <3>3. k + 1 = b - 1 \/ k + 1 < b - 1
      BY <2>1, <2>2
    <3>4. e + m < f
      <4>1. End(s, k + 1) = e + m /\ End(s, k + 1) \in Nat
        BY <1>3, <1>5, <1>8, <3>1 DEF Blocks
      <4>2. End(s, k + 1) < f
        BY <2>1, <3>2, <3>3, <4>1
      <4> QED
        BY <4>1, <4>2
    <3> HIDE DEF e, m
    <3> QED
      BY <1>3, <1>8, <3>4
  <2>3. CASE k + 1 > b
    <3>1. b \in 0..Len(s) /\ k \in 0..Len(s)
      BY <1>1, <2>1
    <3>2. b < k => End(s, b) < End(s, k)
      BY <3>1 DEF Blocks
    <3>3. b = k \/ b < k
      BY <2>1, <2>3
    <3>4. f <= e
      BY <1>3, <2>1, <3>2, <3>3
    <3> HIDE DEF e, m
    <3> QED
      BY <1>3, <1>8, <3>4
  <2>4. k + 1 \in Int /\ b \in Int
    BY <2>1
  <2> QED
    BY <1>10, <2>2, <2>3, <2>4
<1> HIDE DEF e, m, block, o, p, kind
\* A length that is not altered is read as it was put.
<1>11. ASSUME \A j \in 5..8 : e + j # f
       PROVE  LengthOf(input) = Len(p)
  <2>1. \A j \in 5..8 : input[j] = block[j]
    <3> SUFFICES ASSUME NEW j \in 5..8 PROVE input[j] = block[j]
      OBVIOUS
    <3>1. j \in 1..Len(input) /\ j \in 1..m
      BY <1>2, <1>8
    <3> QED
      BY <1>5, <1>6, <1>11, <3>1
  <2>2. input[5] = block[5] /\ input[6] = block[6] /\ input[7] = block[7] /\ input[8] = block[8]
    BY <2>1
  <2> QED
    BY <1>7, <2>2 DEF LengthOf
\* Then the payload is in its place, and so is what is behind it.
<1>12. ASSUME LengthOf(input) = Len(p)
       PROVE  /\ Len(PayloadOf(input)) = Len(p) /\ PayloadOf(input) \in Seq(Nat)
              /\ \A j \in 1..Len(p) : PayloadOf(input)[j] = input[HeaderLen + j]
              /\ m <= Len(input)
              /\ Follows(s, w, f, Behind(input), k + 1, n)
  <2>1. m <= Len(input)
    BY <1>2, <1>8, <1>12 DEF Takes, m
  <2>2. PayloadOf(input) = SubSeq(input, HeaderLen + 1, m)
    BY <1>12 DEF PayloadOf, m
  <2>3. /\ SubSeq(input, HeaderLen + 1, m) \in Seq(Nat)
        /\ Len(SubSeq(input, HeaderLen + 1, m)) = m - HeaderLen
        /\ \A j \in 1..(m - HeaderLen) :
             SubSeq(input, HeaderLen + 1, m)[j] = input[HeaderLen + j]
    <3>1. HeaderLen \in Nat /\ HeaderLen <= m
      BY <1>2, <1>8
    <3> QED
      BY <1>8, <2>1, <3>1, Portion
  <2>4. m - HeaderLen = Len(p)
    BY <1>2, <1>8 DEF m
  <2>5. Behind(input) = SubSeq(input, m + 1, Len(input))
    BY <1>12 DEF Behind, m
  <2>6. /\ Len(Behind(input)) = Len(input) - m
        /\ \A j \in 1..(Len(input) - m) : Behind(input)[j] = input[m + j]
    BY <1>8, <2>1, <2>5, Ending
  <2>7. ASSUME NEW j \in 1..Len(Behind(input))
        PROVE  Behind(input)[j] # w[End(s, k + 1) + j] <=> End(s, k + 1) + j = f
    <3>1. j \in 1..(Len(input) - m) /\ m + j \in 1..Len(input)
      BY <1>2, <1>8, <2>1, <2>6, SMTT(30)
    <3>2. End(s, k + 1) + j = e + (m + j)
      BY <1>3, <1>5, <1>8, <3>1
    <3>3. input[m + j] # w[e + (m + j)] <=> e + (m + j) = f
      BY <1>6, <3>1
    <3> QED
      BY <2>6, <3>1, <3>2, <3>3
  <2>8. /\ k + 1 <= Len(s) /\ End(s, k + 1) <= n
        /\ Len(Behind(input)) = n - End(s, k + 1)
    <3>1. Len(input) = n - e /\ End(s, k + 1) = e + m
      BY <1>1, <1>5 DEF e
    <3> QED
      BY <1>1, <1>2, <1>3, <1>4, <1>8, <2>1, <2>6, <3>1
  <2> QED
    BY <2>1, <2>2, <2>3, <2>4, <2>7, <2>8 DEF Follows
<1>13. ASSUME k + 1 # b
       PROVE  PayloadOf(input) = p /\ Follows(s, w, f, Behind(input), k + 1, n)
  <2>1. \A j \in 5..8 : e + j # f
    BY <1>8, <1>10, <1>13
  <2>2. LengthOf(input) = Len(p)
    BY <1>11, <2>1
  <2>3. /\ Len(PayloadOf(input)) = Len(p) /\ PayloadOf(input) \in Seq(Nat)
        /\ \A j \in 1..Len(p) : PayloadOf(input)[j] = input[HeaderLen + j]
        /\ m <= Len(input)
        /\ Follows(s, w, f, Behind(input), k + 1, n)
    BY <1>12, <2>2
  <2>4. ASSUME NEW j \in 1..Len(p)
        PROVE  PayloadOf(input)[j] = p[j]
    <3>1. HeaderLen + j \in 1..m /\ HeaderLen + j \in 1..Len(input)
      BY <1>2, <1>8, <2>3 DEF m
    <3>2. e + (HeaderLen + j) # f
      BY <1>10, <1>13, <3>1
    <3>3. input[HeaderLen + j] = w[e + (HeaderLen + j)]
      BY <1>6, <3>1, <3>2
    <3> QED
      BY <1>5, <1>7, <2>3, <3>1, <3>3
  <2>5. PayloadOf(input) = p
    BY <1>5, <2>3, <2>4, SeqEqual
  <2> QED
    BY <2>3, <2>5
<1>14. ASSUME k + 1 = b, o \in 1..4
       PROVE  o = 4 /\ kind # Expected
  <2>1. e + o = f /\ o \in 1..Len(input) /\ o \in 1..m
    BY <1>2, <1>3, <1>8, <1>9, <1>14
  <2>2. input[o] # block[o]
    BY <1>5, <1>6, <2>1
  <2>3. /\ input[1] = FrameMagic[1] /\ input[2] = FrameMagic[2] /\ input[3] = FrameVersion
        /\ \E x \in FrameKind : KindCode[x] = input[4]
    BY DEF Takes, HeaderReads
  <2>4. o = 4
    <3>1. o # 1 /\ o # 2 /\ o # 3
      BY <1>7, <2>2, <2>3
    <3> QED
      BY <1>14, <3>1
  <2>5. KindCode[Expected] = input[4]
    BY <2>3 DEF KindOf
  <2> QED
    BY <1>7, <2>2, <2>4, <2>5
<1>15. ASSUME k + 1 = b, o > HeaderLen
       PROVE  /\ \A j \in 1..Len(PayloadOf(input)) :
                   PayloadOf(input)[j] # p[j] => j = o - HeaderLen
              /\ Follows(s, w, f, Behind(input), k + 1, n)
  <2>1. \A j \in 5..8 : e + j # f
    BY <1>2, <1>3, <1>9, <1>15
  <2>2. LengthOf(input) = Len(p)
    BY <1>11, <2>1
  <2>3. /\ Len(PayloadOf(input)) = Len(p)
        /\ \A j \in 1..Len(p) : PayloadOf(input)[j] = input[HeaderLen + j]
        /\ m <= Len(input)
        /\ Follows(s, w, f, Behind(input), k + 1, n)
    BY <1>12, <2>2
  <2>4. ASSUME NEW j \in 1..Len(p), PayloadOf(input)[j] # p[j]
        PROVE  j = o - HeaderLen
    <3>1. HeaderLen + j \in 1..m /\ HeaderLen + j \in 1..Len(input)
      BY <1>2, <1>8, <2>3 DEF m
    <3>2. input[HeaderLen + j] # w[e + (HeaderLen + j)]
      BY <1>5, <1>7, <2>3, <2>4, <3>1
    <3>3. e + (HeaderLen + j) = f
      BY <1>6, <3>1, <3>2
    <3> QED
      BY <1>2, <1>3, <1>9, <1>15, <3>3
  <2> QED
    BY <2>3, <2>4
<1> QED
  BY <1>4, <1>13, <1>14, <1>15 DEF o, p, kind

\* The blocks that are taken stay spared when one more is taken.
LEMMA SparedGrows ==
  ASSUME NEW s, NEW f, NEW b \in Nat, NEW t \in Seq(Seq(Nat)), NEW x \in Seq(Nat),
         Spared(s, t, f, b),
         OnTrack(s, t, f, b) =>
           /\ Len(t) + 1 # b => x = s[Len(t) + 1].payload
           /\ Len(t) + 1 = b =>
                /\ Offset(s, f, b) \in 1..4 => Offset(s, f, b) = 4 /\ s[b].kind # Expected
                /\ Offset(s, f, b) > HeaderLen =>
                     \A j \in 1..Len(x) :
                       x[j] # s[b].payload[j] => j = Offset(s, f, b) - HeaderLen
  PROVE  Spared(s, Append(t, x), f, b)
<1> DEFINE u == Append(t, x)
           o == Offset(s, f, b)
<1>1. /\ Len(u) = Len(t) + 1 /\ Len(t) \in Nat /\ u[Len(t) + 1] = x
      /\ \A i \in 1..Len(t) : u[i] = t[i]
  BY AppendIs
<1> HIDE DEF u, o
<1>2. ASSUME NEW i \in 1..Len(u), i < b
      PROVE  u[i] = s[i].payload
  <2>1. CASE i <= Len(t)
    <3>1. i \in 1..Len(t) /\ u[i] = t[i]
      BY <1>1, <2>1
    <3> QED
      BY <1>2, <3>1 DEF Spared
  <2>2. CASE i > Len(t)
    <3>1. i = Len(t) + 1 /\ Len(t) < b /\ Len(t) + 1 # b
      BY <1>1, <1>2, <2>2
    <3> QED
      BY <1>1, <3>1 DEF OnTrack
  <2> QED
    BY <1>1, <2>1, <2>2
<1>3. ASSUME o \in 1..4, Len(u) >= b
      PROVE  o = 4 /\ s[b].kind # Expected
  <2>1. CASE Len(t) >= b
    BY <1>3, <2>1 DEF Spared, o
  <2>2. CASE Len(t) < b
    <3>1. Len(t) + 1 = b
      BY <1>1, <1>3, <2>2
    <3> QED
      BY <1>3, <2>2, <3>1 DEF OnTrack, o
  <2> QED
    BY <1>1, <2>1, <2>2
<1>4. ASSUME o > HeaderLen, NEW i \in 1..Len(u)
      PROVE  /\ i # b => u[i] = s[i].payload
             /\ i = b => \A j \in 1..Len(u[i]) :
                           u[i][j] # s[i].payload[j] => j = o - HeaderLen
  <2>1. CASE i <= Len(t)
    <3>1. i \in 1..Len(t) /\ u[i] = t[i]
      BY <1>1, <2>1
    <3> QED
      BY <1>4, <3>1 DEF Spared, o
  <2>2. CASE i > Len(t)
    <3>1. i = Len(t) + 1 /\ u[i] = x
      BY <1>1, <2>2
    <3>2. OnTrack(s, t, f, b)
      BY <1>4 DEF OnTrack, o
    <3> QED
      BY <1>4, <3>1, <3>2 DEF o
  <2> QED
    BY <1>1, <2>1, <2>2
<1> QED
  BY <1>2, <1>3, <1>4 DEF Spared, u, o

LEMMA WireIsBlocks ==
  ASSUME IInv
  PROVE  Blocks(sent, wire)
<1>1. \A i : End(sent, i) = EndOf(i)
  BY DEF End, EndOf
<1>2. wire \in Seq(Nat) /\ Len(sent) \in Nat
  BY DEF IInv, TypeOK
<1>3. \A i \in 0..Len(sent) : EndOf(i) \in Nat
  BY EndIsNat DEF IInv
<1>4. \A i \in 1..Len(sent) :
        sent[i].kind \in FrameKind /\ sent[i].payload \in Seq(Nat) /\ Fits(sent[i].payload)
  BY SentBlock DEF IInv
<1>5. Wired
  BY DEF IInv
<1> QED
  BY <1>1, <1>2, <1>3, <1>4, <1>5 DEF Blocks, Wired

\* A byte is altered when a call starts.
LEMMA AlteredStarts ==
  ASSUME IInv, NEW n \in 0..(Len(wire) - read),
         NEW p \in (read + 1)..(read + n), NEW v \in FlipTo, StartAltered(n, p, v)
  PROVE  Altered'
<1> DEFINE input == SubSeq(wire, read + 1, read + n)
           k == Len(taken)
<1>1. /\ rest' = [input EXCEPT ![p - read] = v] /\ flip' = p /\ flip = 0 /\ v # wire[p]
      /\ running' = TRUE /\ read' = read + n /\ ~running /\ ret # "err"
      /\ sent' = sent /\ wire' = wire /\ taken' = taken
  BY DEF StartAltered, Call
<1>2. /\ read \in Nat /\ n \in Nat /\ wire \in Seq(Nat) /\ Len(wire) \in Nat
      /\ read + n \in Nat /\ read + n <= Len(wire) /\ read <= read + n /\ p \in Nat
      /\ (read + n) - read = n /\ p \in 1..Len(wire) /\ p - read \in 1..n /\ v \in Nat
  BY BytesAssumption DEF IInv, TypeOK
<1>3. k \in Nat /\ k <= Len(sent) /\ read = End(sent, k)
      /\ \A i \in 1..k : taken[i] = sent[i].payload
  BY <1>1 DEF IInv, TypeOK, TakesWhatWasPut, InPlace, End, EndOf
<1>4. /\ input \in Seq(Nat) /\ Len(input) = n
      /\ \A j \in 1..n : input[j] = wire[read + j]
  <2>1. ASSUME NEW q \in Nat, read <= q, q <= Len(wire), q - read = n
        PROVE  /\ SubSeq(wire, read + 1, q) \in Seq(Nat)
               /\ Len(SubSeq(wire, read + 1, q)) = n
               /\ \A j \in 1..n : SubSeq(wire, read + 1, q)[j] = wire[read + j]
    <3>1. /\ SubSeq(wire, read + 1, q) \in Seq(Nat)
          /\ Len(SubSeq(wire, read + 1, q)) = q - read
          /\ \A j \in 1..(q - read) : SubSeq(wire, read + 1, q)[j] = wire[read + j]
      BY <1>2, <2>1, Portion
    <3> QED
      BY <2>1, <3>1
  <2> QED
    BY <1>2, <2>1 DEF input
<1> HIDE DEF input
<1>5. /\ Len(rest') = n
      /\ \A j \in 1..n : rest'[j] = IF j = p - read THEN v ELSE input[j]
  BY <1>1, <1>2, <1>4
<1>6. Follows(sent, wire, p, rest', k, read + n)
  <2>1. ASSUME NEW j \in 1..n
        PROVE  rest'[j] # wire[read + j] <=> read + j = p
    <3>1. j = p - read <=> read + j = p
      BY <1>2
    <3> QED
      BY <1>1, <1>4, <1>5, <3>1
  <2> QED
    BY <1>2, <1>3, <1>5, <2>1 DEF Follows
<1>7. PICK b \in 1..Len(sent) : Within(sent, p, b)
  BY <1>2, WireIsBlocks, SomeBlock
<1>8. k < b
  <2>1. Blocks(sent, wire) /\ b \in 1..Len(sent) /\ Len(sent) \in Nat
    BY WireIsBlocks DEF Blocks
  <2>2. b \in 0..Len(sent) /\ k \in 0..Len(sent)
    BY <1>3, <2>1
  <2>3. /\ End(sent, b) \in Nat /\ p <= End(sent, b) /\ read < p
        /\ b < k => End(sent, b) < End(sent, k)
    BY <1>2, <1>7, <2>1, <2>2 DEF Blocks, Within
  <2>4. /\ read = End(sent, k) /\ read \in Nat /\ p \in Nat
        /\ b \in Nat /\ k \in Nat
    BY <1>2, <1>3, <2>2
  <2>5. b # k
    <3> SUFFICES ASSUME b = k PROVE FALSE
      OBVIOUS
    <3>1. End(sent, b) = read
      BY <2>4
    <3> QED
      BY <2>3, <2>4, <3>1
  <2>6. ~(b < k)
    <3> SUFFICES ASSUME b < k PROVE FALSE
      OBVIOUS
    <3>1. End(sent, b) < read
      BY <2>3, <2>4
    <3> QED
      BY <2>3, <2>4, <3>1
  <2> QED
    BY <2>4, <2>5, <2>6
<1>9. Spared(sent, taken, p, b)
  <2>1. \A i \in 1..k : i \in Nat /\ i # b
    BY <1>3, <1>8
  <2> QED
    BY <1>3, <1>8, <2>1 DEF Spared
<1>10. Kept(b)'
  BY <1>1, <1>3, <1>6, <1>7, <1>9 DEF Kept
<1> QED
  BY <1>1, <1>7, <1>10 DEF Altered

\* No later call alters a byte, and the input it starts with is the wire's.
LEMMA AlteredStart ==
  ASSUME IInv, Altered, NEW n \in 0..(Len(wire) - read), Start(n)
  PROVE  Altered'
<1> DEFINE k == Len(taken)
<1>1. /\ rest' = SubSeq(wire, read + 1, read + n) /\ flip' = flip
      /\ running' = TRUE /\ read' = read + n /\ ~running /\ ret # "err"
      /\ sent' = sent /\ wire' = wire /\ taken' = taken
  BY DEF Start, Call
<1>2. /\ read \in Nat /\ n \in Nat /\ wire \in Seq(Nat) /\ Len(wire) \in Nat
      /\ read + n \in Nat /\ read + n <= Len(wire) /\ read <= read + n
      /\ (read + n) - read = n /\ flip \in Nat /\ flip <= read /\ k \in Nat
  BY DEF IInv, TypeOK
<1>3. /\ rest' \in Seq(Nat) /\ Len(rest') = n
      /\ \A j \in 1..n : rest'[j] = wire[read + j]
  BY <1>1, <1>2, Portion
<1>4. ASSUME NEW b \in 1..Len(sent), Kept(b)
      PROVE  Kept(b)'
  <2>1. ASSUME OnTrack(sent, taken, flip, b)
        PROVE  k <= Len(sent) /\ Follows(sent, wire, flip, rest', k, read + n)
    <3>1. k <= Len(sent) /\ read = End(sent, k)
      BY <1>1, <1>4, <2>1 DEF Kept
    <3>2. \A j \in 1..n : read + j # flip
      BY <1>2
    <3> QED
      BY <1>2, <1>3, <3>1, <3>2 DEF Follows
  <2> QED
    BY <1>1, <1>4, <2>1 DEF Kept
<1> QED
  BY <1>1, <1>4 DEF Altered

LEMMA AlteredTake ==
  ASSUME IInv, Altered, Take
  PROVE  Altered'
<1> DEFINE k == Len(taken)
           x == PayloadOf(rest)
<1>1. /\ running /\ Takes(rest) /\ KindOf(rest) = Expected
      /\ taken' = Append(taken, x) /\ rest' = Behind(rest)
      /\ sent' = sent /\ wire' = wire /\ read' = read /\ flip' = flip
      /\ running' = running /\ ret' = ret
  BY DEF Take
<1>2. /\ rest \in Seq(Nat) /\ taken \in Seq(Seq(Nat)) /\ k \in Nat
      /\ read \in Nat /\ read <= Len(wire) /\ flip \in Nat
  BY DEF IInv, TypeOK
<1>3. x \in Seq(Nat)
  BY <1>1, <1>2, TakenFromInput
<1>4. Len(taken') = k + 1
  BY <1>1, <1>2, <1>3, AppendIs
<1>5. Blocks(sent, wire)
  BY WireIsBlocks
<1>6. ASSUME NEW b \in 1..Len(sent), Kept(b)
      PROVE  Kept(b)'
  <2>1. Within(sent, flip, b) /\ Spared(sent, taken, flip, b)
    BY <1>6 DEF Kept
  <2>2. ASSUME OnTrack(sent, taken, flip, b)
        PROVE  Follows(sent, wire, flip, rest, k, read)
    BY <1>1, <1>6, <2>2 DEF Kept
  <2>3. ASSUME OnTrack(sent, taken, flip, b)
        PROVE  /\ k + 1 \in 1..Len(sent)
               /\ k + 1 # b => x = sent[k + 1].payload
               /\ k + 1 = b =>
                    /\ Offset(sent, flip, b) \in 1..4 =>
                         Offset(sent, flip, b) = 4 /\ sent[b].kind # Expected
                    /\ Offset(sent, flip, b) > HeaderLen =>
                         \A j \in 1..Len(x) :
                           x[j] # sent[b].payload[j] =>
                             j = Offset(sent, flip, b) - HeaderLen
               /\ k + 1 # b \/ Offset(sent, flip, b) > HeaderLen =>
                    Follows(sent, wire, flip, Behind(rest), k + 1, read)
    <3>1. Follows(sent, wire, flip, rest, k, read)
      BY <2>2, <2>3
    <3> HIDE DEF k
    <3> QED
      BY <1>1, <1>2, <1>5, <2>1, <3>1, TakeOnTrack
  <2>4. b \in Nat
    BY <1>5 DEF Blocks
  <2>5. Spared(sent, Append(taken, x), flip, b)
    <3> HIDE DEF x
    <3> QED
      BY <1>2, <1>3, <2>1, <2>3, <2>4, SparedGrows
  <2>6. ASSUME OnTrack(sent, taken', flip, b)
        PROVE  /\ k + 1 <= Len(sent)
               /\ Follows(sent, wire, flip, Behind(rest), k + 1, read)
    <3>1. OnTrack(sent, taken, flip, b) /\ (k + 1 # b \/ Offset(sent, flip, b) > HeaderLen)
      BY <1>2, <1>4, <2>4, <2>6 DEF OnTrack
    <3> QED
      BY <1>2, <1>5, <2>3, <3>1 DEF Blocks
  <2> QED
    BY <1>1, <1>4, <2>1, <2>5, <2>6 DEF Kept
<1> QED
  BY <1>1, <1>6 DEF Altered

\* A call returns: with Ok at the end of its input.
LEMMA AlteredReturn ==
  ASSUME IInv, Altered, NEW result \in {"ok", "err"}, Return(result), taken' = taken,
         running, result = "ok" => rest = <<>>
  PROVE  Altered'
<1>1. /\ running' = FALSE /\ ret' = result
      /\ sent' = sent /\ wire' = wire /\ read' = read /\ flip' = flip
  BY DEF Return
<1>2. ASSUME NEW b \in 1..Len(sent), Kept(b)
      PROVE  Kept(b)'
  <2>1. ASSUME OnTrack(sent, taken, flip, b), result # "err"
        PROVE  read = End(sent, Len(taken))
    <3>1. Follows(sent, wire, flip, rest, Len(taken), read)
      BY <1>2, <2>1 DEF Kept
    <3>2. Len(rest) = 0
      BY <2>1
    <3>3. Len(taken) \in 0..Len(sent)
      BY <3>1 DEF IInv, TypeOK, Follows
    <3>4. End(sent, Len(taken)) \in Nat /\ read \in Nat
      BY <3>3, WireIsBlocks DEF IInv, TypeOK, Blocks
    <3>5. Len(rest) = read - End(sent, Len(taken))
      BY <3>1 DEF Follows
    <3> QED
      BY <3>2, <3>4, <3>5
  <2> QED
    BY <1>1, <1>2, <2>1 DEF Kept
<1> QED
  BY <1>1, <1>2 DEF Altered

\* A block that is put is behind all that was read.
LEMMA AlteredPut ==
  ASSUME IInv, Altered, NEW kind \in Kinds, NEW payload \in Payloads, Put(kind, payload)
  PROVE  Altered'
<1>1. /\ Len(sent) \in Nat /\ Len(sent') = Len(sent) + 1
      /\ \A j \in 1..Len(wire) : wire'[j] = wire[j]
      /\ \A i \in 1..Len(sent) : sent'[i] = sent[i]
  BY PutAppends
<1>2. /\ read' = read /\ flip' = flip /\ running' = running /\ rest' = rest
      /\ taken' = taken /\ ret' = ret
  BY DEF Put, reader
<1>3. /\ Len(taken) \in Nat /\ read \in Nat /\ read <= Len(wire) /\ Len(wire) \in Nat
  BY DEF IInv, TypeOK
<1>4. ASSUME NEW i \in 0..Len(sent)
      PROVE  End(sent', i) = End(sent, i)
  <2>1. i # 0 => i \in 1..Len(sent)
    BY <1>1
  <2> QED
    BY <1>1, <2>1 DEF End
<1>5. ASSUME NEW b \in 1..Len(sent), Kept(b)
      PROVE  Kept(b)'
  <2>1. b \in 0..Len(sent) /\ b - 1 \in 0..Len(sent) /\ b \in 1..Len(sent') /\ b \in Nat
    BY <1>1
  <2>2. sent'[b] = sent[b] /\ End(sent', b) = End(sent, b) /\ End(sent', b - 1) = End(sent, b - 1)
    BY <1>1, <1>4, <2>1
  <2>3. Within(sent', flip, b) /\ Offset(sent', flip, b) = Offset(sent, flip, b)
    BY <1>5, <2>1, <2>2 DEF Kept, Within, Offset
  <2>4. OnTrack(sent', taken, flip, b) <=> OnTrack(sent, taken, flip, b)
    BY <2>3 DEF OnTrack
  <2>5. ASSUME OnTrack(sent, taken, flip, b)
        PROVE  /\ Len(taken) <= Len(sent) /\ Len(taken) <= Len(sent')
               /\ End(sent', Len(taken)) = End(sent, Len(taken))
    <3>1. Len(taken) <= Len(sent)
      BY <1>5, <2>5 DEF Kept
    <3>2. Len(taken) \in 0..Len(sent)
      BY <1>1, <1>3, <3>1
    <3> QED
      BY <1>1, <1>3, <1>4, <3>1, <3>2
  <2>6. Spared(sent', taken, flip, b)
    <3>1. Spared(sent, taken, flip, b)
      BY <1>5 DEF Kept
    <3>2. ASSUME NEW i \in 1..Len(taken), i < b
          PROVE  taken[i] = sent'[i].payload
      <4>1. i \in 1..Len(sent)
        BY <1>1, <1>3, <2>1, <3>2
      <4> QED
        BY <1>1, <3>1, <3>2, <4>1 DEF Spared
    <3>3. ASSUME Offset(sent, flip, b) > HeaderLen, NEW i \in 1..Len(taken)
          PROVE  sent'[i] = sent[i]
      <4>1. OnTrack(sent, taken, flip, b)
        BY <3>3 DEF OnTrack
      <4>2. i \in 1..Len(sent)
        BY <1>1, <1>3, <2>5, <4>1
      <4> QED
        BY <1>1, <4>2
    <3> QED
      BY <2>2, <2>3, <3>1, <3>2, <3>3 DEF Spared
  <2>7. ASSUME OnTrack(sent, taken, flip, b), running
        PROVE  Follows(sent', wire', flip, rest, Len(taken), read)
    <3>1. Follows(sent, wire, flip, rest, Len(taken), read)
      BY <1>5, <2>7 DEF Kept
    <3> DEFINE e == End(sent, Len(taken))
    <3>2. Len(taken) \in 0..Len(sent)
      BY <1>1, <1>3, <2>5, <2>7
    <3>3. e \in Nat
      BY <3>2, WireIsBlocks DEF Blocks
    <3>4. e <= read /\ Len(rest) = read - e
      BY <3>1 DEF Follows
    <3>5. ASSUME NEW j \in 1..Len(rest)
          PROVE  wire'[e + j] = wire[e + j]
      <4> HIDE DEF e
      <4>1. e + j \in 1..Len(wire)
        BY <1>3, <3>3, <3>4
      <4> QED
        BY <1>1, <4>1
    <3> HIDE DEF e
    <3>6. End(sent', Len(taken)) = e /\ Len(taken) <= Len(sent')
      BY <2>5, <2>7 DEF e
    <3>7. \A j \in 1..Len(rest) : rest[j] # wire[e + j] <=> e + j = flip
      BY <3>1 DEF Follows, e
    <3> QED
      BY <3>4, <3>5, <3>6, <3>7 DEF Follows
  <2> QED
    BY <1>2, <1>5, <2>3, <2>4, <2>5, <2>6, <2>7 DEF Kept
<1>6. \A b \in 1..Len(sent) : b \in 1..Len(sent')
  BY <1>1
<1> QED
  BY <1>2, <1>5, <1>6 DEF Altered

LEMMA NextKeepsAltered ==
  ASSUME IInv, Altered, [Next]_vars
  PROVE  Altered'
<1>1. ASSUME NEW kind \in Kinds, NEW payload \in Payloads, Put(kind, payload)
      PROVE  Altered'
  BY <1>1, AlteredPut
<1>2. ASSUME NEW n \in 0..(Len(wire) - read), Start(n)
      PROVE  Altered'
  BY <1>2, AlteredStart
<1>3. ASSUME NEW n \in 0..(Len(wire) - read),
             NEW p \in (read + 1)..(read + n), NEW v \in FlipTo, StartAltered(n, p, v)
      PROVE  Altered'
  BY <1>3, AlteredStarts
<1>4. CASE Take
  BY <1>4, AlteredTake
<1>5. CASE Reject
  BY <1>5, AlteredReturn DEF Reject
<1>6. CASE Refuse
  BY <1>6, AlteredReturn DEF Refuse
<1>7. CASE Finished
  BY <1>7, AlteredReturn DEF Finished
<1>8. CASE UNCHANGED vars
  <2>1. /\ sent' = sent /\ wire' = wire /\ read' = read /\ flip' = flip
        /\ running' = running /\ rest' = rest /\ taken' = taken /\ ret' = ret
    BY <1>8 DEF vars
  <2> QED
    BY <2>1 DEF Altered, Kept
<1> QED
  BY <1>1, <1>2, <1>3, <1>4, <1>5, <1>6, <1>7, <1>8 DEF Next, Loop

LEMMA AlteredIsContained ==
  ASSUME IInv, Altered
  PROVE  AlterationContained
<1>1. CASE flip = 0
  BY <1>1 DEF AlterationContained
<1>2. CASE flip # 0
  <2>1. PICK b \in 1..Len(sent) : Kept(b)
    BY <1>2 DEF Altered
  <2>2. Within(sent, flip, b) /\ Spared(sent, taken, flip, b)
    BY <2>1 DEF Kept
  <2>3. \A i : EndOf(i) = End(sent, i)
    BY DEF End, EndOf
  <2>4. FlippedBlock = CHOOSE c \in 1..Len(sent) : Within(sent, flip, c)
    BY <2>3 DEF FlippedBlock, Within
  <2>5. Within(sent, flip, FlippedBlock)
    BY <2>2, <2>4, Zenon
  <2>6. FlippedBlock = b
    <3>1. flip \in Nat /\ Blocks(sent, wire)
      BY WireIsBlocks DEF IInv, TypeOK
    <3> QED
      BY <2>2, <2>5, <3>1, OneBlock
  <2>7. FlippedOffset = Offset(sent, flip, b)
    BY <2>3, <2>6 DEF FlippedOffset, Offset
  <2> QED
    BY <2>2, <2>6, <2>7 DEF AlterationContained, Spared
<1> QED
  BY <1>1, <1>2

------------------------------------------------------------------------------
(* The theorems.                                                            *)

\* The inductive invariant holds in every reachable state.
THEOREM InvariantHolds == Spec => []IInv
BY InitIInv, NextKeepsIInv, PTL DEF Spec

\* The framing keeps its types, no block is longer than its length field can say,
\* and decode never holds bytes it was not given.
THEOREM TypeCorrect == Spec => []TypeOK
<1>1. IInv => TypeOK
  BY DEF IInv
<1> QED
  BY <1>1, InvariantHolds, PTL

\* However the stream is cut into inputs and whatever the payloads look like, the
\* decoder takes the blocks that were put, from the first, one by one.
THEOREM BlocksTakenAsPut == Spec => []TakesWhatWasPut
<1>1. IInv => TakesWhatWasPut
  BY DEF IInv
<1> QED
  BY <1>1, InvariantHolds, PTL

\* On an unaltered stream decode returns Ok only for whole blocks, and Err only for
\* a torn block, one of another kind, or a payload the layer refused.
THEOREM VerdictCorrect == Spec => []VerdictIsRight
<1>1. IInv => VerdictIsRight
  BY DEF IInv
<1> QED
  BY <1>1, InvariantHolds, PTL

\* One altered byte does no harm to the blocks before it; in a header's magic, version
\* or kind it stops the decoder there, and in a payload it stays in that payload.
THEOREM AlterationStaysContained == Spec => []AlterationContained
<1>1. Init => Altered
  BY DEF Init, Altered
<1>2. IInv /\ Altered /\ [Next]_vars => Altered'
  BY NextKeepsAltered
<1>3. IInv /\ Altered => AlterationContained
  BY AlteredIsContained
<1> QED
  BY <1>1, <1>2, <1>3, InvariantHolds, PTL DEF Spec

\* Every iteration that takes a block shortens the input by that block, altered or
\* not: the loop's variant, by which every call of decode returns.
THEOREM LoopAdvances == Spec => IterationsAdvance
<1> DEFINE Advance ==
      taken' # taken =>
        Len(rest) = HeaderLen + Len(taken'[Len(taken')]) + Len(rest')
<1>1. IInv /\ [Next]_vars => [Advance]_vars
  <2> SUFFICES ASSUME IInv, Next, taken' # taken
               PROVE  Len(rest) = HeaderLen + Len(taken'[Len(taken')]) + Len(rest')
    BY DEF Advance
  <2>1. Take
    BY DEF Next, Put, reader, Start, StartAltered, Call, Loop, Reject, Refuse, Finished
  <2>2. /\ Takes(rest) /\ taken' = Append(taken, PayloadOf(rest)) /\ rest' = Behind(rest)
        /\ rest \in Seq(Nat) /\ taken \in Seq(Seq(Nat))
    BY <2>1 DEF Take, IInv, TypeOK
  <2>3. /\ PayloadOf(rest) \in Seq(Nat) /\ Len(PayloadOf(rest)) = LengthOf(rest)
        /\ Len(rest) = HeaderLen + LengthOf(rest) + Len(Behind(rest))
    BY <2>2, TakenFromInput
  <2>4. taken'[Len(taken')] = PayloadOf(rest)
    BY <2>2, <2>3
  <2> QED
    BY <2>2, <2>3, <2>4
<1>2. IterationsAdvance <=> [][Advance]_vars
  BY DEF IterationsAdvance
<1> QED
  BY <1>1, <1>2, InvariantHolds, PTL DEF Spec

==============================================================================
