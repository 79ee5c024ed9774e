-------------------------- MODULE CodecOwnerProofs --------------------------
(***************************************************************************)
(* What an owner of the codec may count on.  That the two sides built from *)
(* one configuration fit (CodecConfig), for every set of levels and key    *)
(* lengths; and what offering an input again may lose or double            *)
(* (CodecRetry), for every block size, configuration and bound.            *)
(***************************************************************************)
EXTENDS CodecConfig, CodecRetry, CodecEncoderProofs

------------------------------------------------------------------------------
(* One configuration, two sides.                                            *)

\* What is built is what the build functions make of the configuration.
ConfigInv ==
  /\ compression \in Option(CompressConfig)
  /\ encryption \in Option(EncryptConfig)
  /\ encoder \in {Waiting, build_encoder(compression, encryption)}
  /\ decoder \in {Waiting, build_decoder(compression, encryption)}

\* validate_compress_level lets no level through that gzip_compress would clamp.
LEMMA NothingIsClamped ==
  ASSUME NEW algo \in CompressionAlgo, NEW level \in ValidLevels(algo)
  PROVE  LevelInForce(algo, level) = level
BY DEF CompressionAlgo, Zstd, ValidLevels, LevelInForce

\* The invariant holds in every reachable state.
LEMMA ConfigInvHolds == ConfigSpec => []ConfigInv
<1>1. ConfigInit => ConfigInv
  BY DEF ConfigInit, ConfigInv
<1>2. ConfigInv /\ [ConfigNext]_configVars => ConfigInv'
  <2> SUFFICES ASSUME ConfigInv, [ConfigNext]_configVars PROVE ConfigInv'
    OBVIOUS
  <2>1. CASE BuildEncoder
    BY <2>1 DEF ConfigInv, BuildEncoder
  <2>2. CASE BuildDecoder
    BY <2>2 DEF ConfigInv, BuildDecoder
  <2>3. CASE UNCHANGED configVars
    BY <2>3 DEF ConfigInv, configVars
  <2>4. QED
    BY <2>1, <2>2, <2>3 DEF ConfigNext
<1>3. QED
  BY <1>1, <1>2, PTL DEF ConfigSpec

\* Both sides accept the same configurations, build layers of the same frame kinds
\* (build_compressor and build_decompressor, build_encryptor and build_decryptor),
\* and compress at the level that was asked for.
THEOREM SidesAlwaysFit == ConfigSpec => []SidesFit
<1>1. ASSUME ConfigInv PROVE SidesFit
  <2> SUFFICES ASSUME encoder # Waiting, decoder # Waiting
               PROVE  /\ encoder.status = decoder.status
                      /\ encoder.status = "Ok" =>
                           /\ Kinds(encoder.layers.compress) = Kinds(decoder.layers.compress)
                           /\ Kinds(encoder.layers.encrypt) = Kinds(decoder.layers.encrypt)
                           /\ {x.level : x \in encoder.layers.compress}
                                = {x.level : x \in compression}
    BY DEF SidesFit
  <2>1. /\ encoder = build_encoder(compression, encryption)
        /\ decoder = build_decoder(compression, encryption)
    BY <1>1 DEF ConfigInv
  <2>2. CASE ~Accepted(compression, encryption)
    BY <2>1, <2>2 DEF build_encoder, build_decoder, ConfigErr
  <2>3. CASE Accepted(compression, encryption)
    <3>1. /\ encoder.status = "Ok" /\ decoder.status = "Ok"
          /\ encoder.layers.compress = {build_compressor(x) : x \in compression}
          /\ decoder.layers.compress = {build_decompressor(x) : x \in compression}
          /\ encoder.layers.encrypt = {AeadLayer(x) : x \in encryption}
          /\ decoder.layers.encrypt = {AeadLayer(x) : x \in encryption}
      BY <2>1, <2>3 DEF build_encoder, build_decoder, Ok
    <3>2. \A x \in compression : build_compressor(x).level = x.level
      <4> TAKE x \in compression
      <4>1. x.algo \in CompressionAlgo /\ x.level \in ValidLevels(x.algo)
        BY <1>1, <2>3 DEF ConfigInv, Option, CompressConfig, Accepted
      <4>2. QED
        BY <4>1, NothingIsClamped DEF build_compressor
    <3>3. \A x \in compression : build_compressor(x).kind = build_decompressor(x).kind
      BY DEF build_compressor, build_decompressor
    <3>4. Kinds(encoder.layers.compress) = Kinds(decoder.layers.compress)
      BY <3>1, <3>3 DEF Kinds
    <3>5. {x.level : x \in encoder.layers.compress} = {x.level : x \in compression}
      BY <3>1, <3>2
    <3>6. QED
      BY <3>1, <3>4, <3>5
  <2>4. QED
    BY <2>2, <2>3
<1>2. QED
  BY <1>1, ConfigInvHolds, PTL

------------------------------------------------------------------------------
(* An input that is offered again.                                          *)

\* The place of a byte: on the wire o, or still in the buffer behind lo.
OnWire(o, p)      == \E i \in 1..Len(o) : Lo(o[i]) < p /\ p <= Hi(o[i])
Carried(o, lo, p) == lo < p \/ OnWire(o, p)

\* The owner's bookkeeping: one datum for each byte ever offered, none above Taken.
OwnerOK ==
  /\ datum \in Seq(Nat)
  /\ Len(datum) = buffer.hi
  /\ Taken \in Nat
  /\ \A p \in 1..Len(datum) : datum[p] \in 1..Taken
  /\ pending \in 0..MaxInput /\ pending <= Taken
  /\ stale \in BOOLEAN

\* A datum that no call is to be repeated for is somewhere, or was at risk.
Held ==
  \A d \in 1..(Taken - pending) :
    \/ d \in exposed
    \/ \E p \in 1..Len(datum) : datum[p] = d /\ Carried(output, buffer.lo, p)

\* With encryption, a datum that was not entrusted to a failed encoder is in one place.
OnePlace ==
  config.encrypt # None =>
    \A p, q \in 1..Len(datum) :
      /\ Carried(output, buffer.lo, p) /\ Carried(output, buffer.lo, q)
      /\ datum[p] = datum[q] /\ datum[p] \notin reused
      => p = q

\* With encryption, nothing of an input that is to be offered again is on the wire,
\* unless the encoder that failed was called again.
Unsent ==
  config.encrypt # None =>
    \A p \in 1..Len(datum) :
      datum[p] > Taken - pending /\ datum[p] \notin reused => ~OnWire(output, p)

\* Once the encoder that failed is dropped, its buffer is gone, and nothing new is
\* offered before the input is.
Dropped == pending > 0 /\ ~stale => Empty(buffer)

RetryInv == IInv /\ OwnerOK /\ Held /\ OnePlace /\ Unsent /\ Dropped

\* A run of frames holds the bytes between its ends, and all of them if it is whole.
LEMMA OnWireBetween ==
  ASSUME NEW s \in Seq(Frame), NEW a \in Int, NEW b \in Int, Ordered(s, a, b),
         NEW p \in Int, OnWire(s, p)
  PROVE  a < p /\ p <= b
<1>1. PICK i \in 1..Len(s) : Lo(s[i]) < p /\ p <= Hi(s[i])
  BY DEF OnWire
<1>2. a <= Lo(s[i]) /\ Hi(s[i]) <= b
  BY DEF Ordered
<1>3. Lo(s[i]) \in Nat /\ Hi(s[i]) \in Nat
  BY SeqEnds
<1> QED
  BY <1>1, <1>2, <1>3

LEMMA WholeHolds ==
  ASSUME NEW s \in Seq(Frame), NEW a \in Int, NEW b \in Int, Tiles(s, a, b),
         NEW p \in Int, a < p, p <= b
  PROVE  OnWire(s, p)
<1> DEFINE T == {i \in 1..Len(s) : p <= Hi(s[i])}
<1>1. Len(s) \in Nat /\ \A i \in 1..Len(s) : Lo(s[i]) \in Nat /\ Hi(s[i]) \in Nat
  BY SeqEnds
<1>2. s # <<>> /\ Len(s) # 0
  <2>1. s # <<>>
    BY DEF Tiles, Gapless
  <2> QED
    BY <2>1
<1>3. /\ Lo(s[1]) = a /\ Hi(s[Len(s)]) = b
      /\ \A i \in 1..(Len(s) - 1) : Hi(s[i]) = Lo(s[i + 1])
  BY <1>2 DEF Tiles, Gapless
<1>4. Len(s) \in T
  BY <1>1, <1>2, <1>3
<1>5. PICK i \in T : \A j \in T : i <= j
  <2>1. T \in SUBSET Nat /\ T # {}
    BY <1>4
  <2> HIDE DEF T
  <2> QED
    BY <2>1, LeastExists
<1>6. i \in 1..Len(s) /\ p <= Hi(s[i])
  OBVIOUS
<1>7. CASE i = 1
  BY <1>3, <1>6, <1>7 DEF OnWire
<1>8. CASE i # 1
  <2>1. i - 1 \in 1..(Len(s) - 1) /\ i - 1 \in 1..Len(s) /\ (i - 1) + 1 = i
    BY <1>1, <1>6, <1>8
  <2>2. i - 1 \notin T
    BY <1>5, <2>1
  <2>3. Hi(s[i - 1]) < p
    BY <1>1, <2>1, <2>2
  <2>4. Hi(s[i - 1]) = Lo(s[i])
    BY <1>3, <2>1
  <2> QED
    BY <1>6, <2>3, <2>4 DEF OnWire
<1> QED
  BY <1>7, <1>8

LEMMA OnEither ==
  ASSUME NEW s \in Seq(Frame), NEW t \in Seq(Frame), NEW p
  PROVE  OnWire(s \o t, p) <=> OnWire(s, p) \/ OnWire(t, p)
<1> DEFINE u == s \o t
<1>1. /\ Len(u) = Len(s) + Len(t) /\ Len(s) \in Nat /\ Len(t) \in Nat
      /\ \A i \in 1..Len(u) : u[i] = IF i <= Len(s) THEN s[i] ELSE t[i - Len(s)]
  BY ConcatIs
<1> HIDE DEF u
<1>2. ASSUME NEW i \in 1..Len(u), Lo(u[i]) < p, p <= Hi(u[i])
      PROVE  OnWire(s, p) \/ OnWire(t, p)
  <2>1. CASE i <= Len(s)
    <3>1. i \in 1..Len(s) /\ u[i] = s[i]
      BY <1>1, <2>1
    <3> QED
      BY <1>2, <3>1 DEF OnWire
  <2>2. CASE i > Len(s)
    <3>1. i - Len(s) \in 1..Len(t) /\ u[i] = t[i - Len(s)]
      BY <1>1, <2>2
    <3> QED
      BY <1>2, <3>1 DEF OnWire
  <2> QED
    BY <1>1, <2>1, <2>2
<1>3. ASSUME NEW i \in 1..Len(s), Lo(s[i]) < p, p <= Hi(s[i])
      PROVE  OnWire(u, p)
  <2>1. i \in 1..Len(u) /\ u[i] = s[i]
    BY <1>1
  <2> QED
    BY <1>3, <2>1 DEF OnWire
<1>4. ASSUME NEW i \in 1..Len(t), Lo(t[i]) < p, p <= Hi(t[i])
      PROVE  OnWire(u, p)
  <2>1. Len(s) + i \in 1..Len(u) /\ u[Len(s) + i] = t[(Len(s) + i) - Len(s)]
    BY <1>1
  <2>2. (Len(s) + i) - Len(s) = i
    BY <1>1
  <2> QED
    BY <1>4, <2>1, <2>2 DEF OnWire
<1>5. OnWire(u, p) => OnWire(s, p) \/ OnWire(t, p)
  BY <1>2 DEF OnWire
<1>6. OnWire(s, p) \/ OnWire(t, p) => OnWire(u, p)
  BY <1>3, <1>4 DEF OnWire
<1> QED
  BY <1>5, <1>6 DEF u

\* What a call does to the bytes: it takes some off the front of the buffer and puts
\* all of them on the wire if it returns Ok; with encryption none if it returns Err.
Moves(n) ==
  /\ config' = config /\ ret'.ok \in BOOLEAN
  /\ buffer'.hi = buffer.hi + n
  /\ buffer.lo <= buffer'.lo /\ buffer'.lo \in Nat
  /\ \A p : OnWire(output, p) => OnWire(output', p)
  /\ \A p \in Nat : OnWire(output', p) =>
       OnWire(output, p) \/ (buffer.lo < p /\ p <= buffer'.lo)
  /\ ret'.ok => \A p \in Nat : buffer.lo < p /\ p <= buffer'.lo => OnWire(output', p)
  /\ ~ret'.ok /\ config.encrypt # None => output' = output

LEMMA CallMoves ==
  ASSUME IInv, NEW op, NEW r, NEW n \in Nat, Chain(op, r), GoodStage(r),
         r.buffer.hi = buffer.hi + n
  PROVE  Moves(n)
<1>1. PICK t : Appends(t)
  BY ChainAppends
<1>2. /\ t \in Seq(Frame) /\ output' = output \o t
      /\ Ordered(t, buffer.lo, buffer'.lo)
      /\ ret'.ok => Tiles(t, buffer.lo, buffer'.lo)
  BY <1>1 DEF Appends, Tiles
<1>3. buffer' = r.buffer /\ config' = config
  BY DEF Chain
<1>4. /\ output \in Seq(Frame) /\ buffer.lo \in Nat /\ buffer'.lo \in Nat
      /\ r.buffer.lo \in Nat
  BY <1>3 DEF IInv, TypeOK, Interval, GoodStage, StageCovers
<1>5. buffer.lo <= buffer'.lo
  BY <1>2 DEF Ordered
<1>6. ret'.ok \in BOOLEAN
  <2>1. CallEffect(op, r)
    BY ChainAppends
  <2>2. PICK ok \in BOOLEAN : ret' = [op |-> op, ok |-> ok]
    BY <2>1 DEF CallEffect
  <2> QED
    BY <2>2
<1>7. ~ret'.ok /\ config.encrypt # None => output' = output
  BY DEF Chain, Returned, SealFails
<1>8. \A p : OnWire(output', p) <=> OnWire(output, p) \/ OnWire(t, p)
  BY <1>2, <1>4, OnEither
<1>9. \A p \in Nat : OnWire(t, p) => buffer.lo < p /\ p <= buffer'.lo
  BY <1>2, <1>4, OnWireBetween
<1>10. ret'.ok => \A p \in Nat : buffer.lo < p /\ p <= buffer'.lo => OnWire(t, p)
  BY <1>2, <1>4, WholeHolds
<1>11. /\ \A p : OnWire(output, p) => OnWire(output', p)
       /\ \A p \in Nat : OnWire(output', p) =>
            OnWire(output, p) \/ (buffer.lo < p /\ p <= buffer'.lo)
       /\ ret'.ok => \A p \in Nat : buffer.lo < p /\ p <= buffer'.lo => OnWire(output', p)
  BY <1>8, <1>9, <1>10
<1>12. buffer'.hi = buffer.hi + n
  BY <1>3
<1> QED
  BY <1>3, <1>4, <1>5, <1>6, <1>7, <1>11, <1>12 DEF Moves

LEMMA EncodeMoves ==
  ASSUME IInv, NEW n \in 0..MaxInput, Encode(n)
  PROVE  Moves(n) /\ IInv'
<1>1. PICK r \in EncodeStage(n) : Chain("encode", r)
  BY DEF Encode
<1>2. GoodStage(r) /\ n \in Nat
  <2>1. n \in Nat
    BY BoundsAssumption
  <2> QED
    BY <1>1, <2>1, CallIsGood
<1>3. r.buffer.hi = buffer.hi + n
  <2>1. CASE config.compress # None
    BY <1>1, <2>1 DEF EncodeStage, Flush, Result
  <2>2. CASE config.compress = None
    BY <1>1, <2>2 DEF EncodeStage, Result
  <2> QED
    BY <2>1, <2>2
<1> QED
  BY <1>1, <1>2, <1>3, CallMoves, CallKeepsIInv

LEMMA FinishMoves ==
  ASSUME IInv, Finish
  PROVE  Moves(0) /\ IInv'
<1>1. PICK r \in FinishStage : Chain("finish", r)
  BY DEF Finish
<1>2. GoodStage(r) /\ Empty(r.buffer)
  BY <1>1, CallIsGood
<1>3. r.buffer.hi = buffer.hi /\ buffer.hi \in Nat
  BY <1>1 DEF FinishStage, Result, IInv, TypeOK, Interval
<1>4. r.buffer.hi = buffer.hi + 0
  BY <1>3
<1> QED
  BY <1>1, <1>2, <1>4, CallMoves, CallKeepsIInv

\* The input's data are entered behind the others: d0 + 1 up to d0 + n.
Grows(n, d0) ==
  /\ datum' \in Seq(Nat) /\ Len(datum') = Len(datum) + n
  /\ \A p \in 1..Len(datum) : datum'[p] = datum[p]
  /\ \A p \in 1..Len(datum') :
       p > Len(datum) => datum'[p] = d0 + (p - Len(datum)) /\ p - Len(datum) \in 1..n

LEMMA EntersBehind ==
  ASSUME datum \in Seq(Nat), NEW n \in Nat, NEW d0 \in Nat,
         datum' = datum \o [i \in 1..n |-> d0 + i]
  PROVE  Grows(n, d0)
<1> DEFINE new == [i \in 1..n |-> d0 + i]
<1>1. new \in Seq(Nat) /\ Len(new) = n /\ \A i \in 1..n : new[i] = d0 + i
  OBVIOUS
<1> HIDE DEF new
<1>2. /\ datum' \in Seq(Nat) /\ Len(datum') = Len(datum) + Len(new) /\ Len(datum) \in Nat
      /\ \A p \in 1..Len(datum') :
           datum'[p] = IF p <= Len(datum) THEN datum[p] ELSE new[p - Len(datum)]
  <2>1. datum' = datum \o new
    BY DEF new
  <2> QED
    BY <1>1, <2>1, ConcatIs
<1>3. ASSUME NEW p \in 1..Len(datum'), p > Len(datum)
      PROVE  datum'[p] = d0 + (p - Len(datum)) /\ p - Len(datum) \in 1..n
  <2>1. p - Len(datum) \in 1..n /\ ~(p <= Len(datum))
    BY <1>1, <1>2, <1>3
  <2> QED
    BY <1>1, <1>2, <2>1
<1>4. \A p \in 1..Len(datum) : datum'[p] = datum[p]
  <2> TAKE p \in 1..Len(datum)
  <2>1. p \in 1..Len(datum') /\ p <= Len(datum)
    BY <1>1, <1>2
  <2> QED
    BY <1>2, <2>1
<1> QED
  BY <1>1, <1>2, <1>3, <1>4 DEF Grows

\* The numbers behind the state, for the steps below.
LEMMA Numbers ==
  ASSUME RetryInv
  PROVE  /\ buffer.lo \in Nat /\ buffer.hi \in Nat /\ buffer.lo <= buffer.hi
         /\ datum \in Seq(Nat) /\ Len(datum) = buffer.hi /\ Len(datum) \in Nat
         /\ Taken \in Nat /\ pending \in Nat /\ pending <= Taken
         /\ \A p \in 1..Len(datum) : datum[p] \in 1..Taken
         /\ \A p \in Nat : OnWire(output, p) => p <= buffer.lo
<1>1. /\ buffer.lo \in Nat /\ buffer.hi \in Nat /\ buffer.lo <= buffer.hi
      /\ output \in Seq(Frame) /\ Ordered(output, 0, buffer.lo)
  BY DEF RetryInv, IInv, TypeOK, Interval, WireOrdered
<1>2. /\ datum \in Seq(Nat) /\ Len(datum) = buffer.hi /\ Len(datum) \in Nat
      /\ Taken \in Nat /\ pending \in Nat /\ pending <= Taken
      /\ \A p \in 1..Len(datum) : datum[p] \in 1..Taken
  BY BoundsAssumption DEF RetryInv, OwnerOK
<1>3. \A p \in Nat : OnWire(output, p) => p <= buffer.lo
  BY <1>1, OnWireBetween
<1> QED
  BY <1>1, <1>2, <1>3

\* A call that returns Ok keeps every byte it had or was given; what an Err may have
\* lost is entered as exposed.
LEMMA CallKeepsHeld ==
  ASSUME RetryInv, NEW n \in Nat, NEW d0 \in Nat, Moves(n), Grows(n, d0),
         exposed \subseteq exposed', ~ret'.ok => Buffered \subseteq exposed',
         \A d \in 1..(Taken' - pending') :
           d \in 1..(Taken - pending) \/ (ret'.ok /\ d - d0 \in 1..n /\ d \in Nat)
  PROVE  Held'
<1> DEFINE Here(d) == \E p \in 1..Len(datum') : datum'[p] = d /\ Carried(output', buffer'.lo, p)
<1>1. /\ buffer.lo \in Nat /\ buffer.hi \in Nat /\ buffer.lo <= buffer.hi
      /\ Len(datum) = buffer.hi /\ Len(datum) \in Nat
  BY Numbers
<1>2. /\ Len(datum') = Len(datum) + n
      /\ \A p \in 1..Len(datum) : datum'[p] = datum[p]
      /\ \A p \in 1..Len(datum') : p > Len(datum) => datum'[p] = d0 + (p - Len(datum))
  BY DEF Grows
<1>3. buffer'.lo \in Nat /\ ret'.ok \in BOOLEAN
  BY DEF Moves
<1>4. ASSUME ret'.ok, NEW p \in Nat, buffer.lo < p
      PROVE  Carried(output', buffer'.lo, p)
  <2>1. CASE p <= buffer'.lo
    BY <1>4, <2>1 DEF Moves, Carried
  <2>2. CASE buffer'.lo < p
    BY <2>2 DEF Carried
  <2> QED
    BY <1>3, <2>1, <2>2
<1>5. ASSUME NEW d \in 1..(Taken - pending)
      PROVE  d \in exposed' \/ Here(d)
  <2>1. CASE d \in exposed
    BY <2>1
  <2>2. ASSUME NEW p \in 1..Len(datum), datum[p] = d, Carried(output, buffer.lo, p)
        PROVE  d \in exposed' \/ Here(d)
    <3>1. p \in 1..Len(datum') /\ datum'[p] = d /\ p \in Nat /\ p <= buffer.hi
      BY <1>1, <1>2, <2>2
    <3>2. CASE OnWire(output, p)
      <4>1. Carried(output', buffer'.lo, p)
        BY <3>2 DEF Moves, Carried
      <4> QED
        BY <3>1, <4>1
    <3>3. CASE buffer.lo < p /\ ret'.ok
      BY <1>4, <3>1, <3>3
    <3>4. CASE buffer.lo < p /\ ~ret'.ok
      <4>1. p \in (buffer.lo + 1)..buffer.hi
        BY <1>1, <3>1, <3>4
      <4>2. d \in Buffered
        BY <2>2, <4>1 DEF Buffered, Data
      <4> QED
        BY <3>4, <4>2
    <3> QED
      BY <1>3, <2>2, <3>2, <3>3, <3>4 DEF Carried
  <2> QED
    BY <2>1, <2>2 DEF RetryInv, Held
<1>6. ASSUME NEW d \in Nat, ret'.ok, d - d0 \in 1..n
      PROVE  Here(d)
  <2> DEFINE p == Len(datum) + (d - d0)
  <2>1. /\ p \in Nat /\ p \in 1..Len(datum') /\ p > Len(datum) /\ buffer.lo < p
        /\ d0 + (p - Len(datum)) = d
    BY <1>1, <1>2, <1>6
  <2> HIDE DEF p
  <2>2. datum'[p] = d
    BY <1>2, <2>1
  <2>3. Carried(output', buffer'.lo, p)
    BY <1>4, <1>6, <2>1
  <2> QED
    BY <2>1, <2>2, <2>3
<1> HIDE DEF Here
<1>7. \A d \in 1..(Taken' - pending') : d \in exposed' \/ Here(d)
  BY <1>5, <1>6
<1> QED
  BY <1>7 DEF Held, Here

\* A call puts no byte in a second place; data that are entered once more were nowhere.
LEMMA CallKeepsOnePlace ==
  ASSUME RetryInv, NEW n \in Nat, NEW d0 \in Nat, Moves(n), Grows(n, d0),
         reused \subseteq reused',
         config.encrypt # None =>
           \A p \in 1..Len(datum) :
             datum[p] - d0 \in 1..n /\ datum[p] \notin reused'
               => ~Carried(output, buffer.lo, p)
  PROVE  OnePlace'
<1>1. /\ buffer.lo \in Nat /\ buffer'.lo \in Nat /\ buffer.lo <= buffer'.lo
      /\ Len(datum) \in Nat /\ config' = config
      /\ \A p \in 1..Len(datum) : datum[p] \in Nat
  BY Numbers DEF Moves
<1>2. /\ Len(datum') = Len(datum) + n
      /\ \A p \in 1..Len(datum) : datum'[p] = datum[p]
      /\ \A p \in 1..Len(datum') :
           p > Len(datum) => datum'[p] = d0 + (p - Len(datum)) /\ p - Len(datum) \in 1..n
  BY DEF Grows
<1>3. ASSUME NEW p \in 1..Len(datum), Carried(output', buffer'.lo, p)
      PROVE  Carried(output, buffer.lo, p)
  <2>1. p \in Nat
    BY <1>1
  <2>2. CASE buffer'.lo < p
    BY <1>1, <2>1, <2>2 DEF Carried
  <2>3. CASE OnWire(output', p)
    BY <2>1, <2>3 DEF Moves, Carried
  <2> QED
    BY <1>3, <2>2, <2>3 DEF Carried
<1>4. ASSUME config.encrypt # None, NEW p \in 1..Len(datum), NEW q \in 1..Len(datum'),
             q > Len(datum), Carried(output', buffer'.lo, p),
             datum'[p] = datum'[q], datum'[p] \notin reused'
      PROVE  FALSE
  <2>1. datum[p] = d0 + (q - Len(datum)) /\ q - Len(datum) \in 1..n
    BY <1>2, <1>4
  <2>2. datum[p] - d0 \in 1..n
    BY <1>1, <2>1
  <2>3. Carried(output, buffer.lo, p) /\ datum[p] \notin reused'
    BY <1>2, <1>3, <1>4
  <2> QED
    BY <1>4, <2>2, <2>3
<1>5. ASSUME config.encrypt # None,
             NEW p \in 1..Len(datum'), NEW q \in 1..Len(datum'),
             Carried(output', buffer'.lo, p), Carried(output', buffer'.lo, q),
             datum'[p] = datum'[q], datum'[p] \notin reused'
      PROVE  p = q
  <2>1. CASE p <= Len(datum) /\ q <= Len(datum)
    <3>1. p \in 1..Len(datum) /\ q \in 1..Len(datum)
      BY <1>1, <1>2, <2>1
    <3>2. datum[p] = datum[q] /\ datum[p] \notin reused
      BY <1>2, <1>5, <3>1
    <3>3. Carried(output, buffer.lo, p) /\ Carried(output, buffer.lo, q)
      BY <1>3, <1>5, <3>1
    <3> QED
      BY <1>5, <3>1, <3>2, <3>3 DEF RetryInv, OnePlace
  <2>2. CASE p <= Len(datum) /\ q > Len(datum)
    <3>1. p \in 1..Len(datum)
      BY <1>1, <1>2, <2>2
    <3> QED
      BY <1>4, <1>5, <2>2, <3>1
  <2>3. CASE p > Len(datum) /\ q <= Len(datum)
    <3>1. q \in 1..Len(datum) /\ datum'[q] \notin reused'
      BY <1>1, <1>2, <1>5, <2>3
    <3> QED
      BY <1>4, <1>5, <2>3, <3>1
  <2>4. CASE p > Len(datum) /\ q > Len(datum)
    <3>1. d0 + (p - Len(datum)) = d0 + (q - Len(datum))
      BY <1>2, <1>5, <2>4
    <3>2. p \in Nat /\ q \in Nat
      BY <1>1, <1>2
    <3> QED
      BY <1>1, <3>1, <3>2
  <2>5. p \in Nat /\ q \in Nat
    BY <1>1, <1>2
  <2> QED
    BY <1>1, <2>1, <2>2, <2>3, <2>4, <2>5
<1> QED
  BY <1>1, <1>5 DEF OnePlace

\* What is entered while the wire stays as it is, is not on the wire.
LEMMA CallKeepsUnsent ==
  ASSUME RetryInv, NEW n \in Nat, NEW d0 \in Nat, Moves(n), Grows(n, d0),
         config.encrypt # None =>
           /\ output' = output
           /\ \A p \in 1..Len(datum) :
                datum[p] > Taken' - pending' /\ datum[p] \notin reused' => ~OnWire(output, p)
  PROVE  Unsent'
<1>1. /\ buffer.lo \in Nat /\ buffer.hi \in Nat /\ buffer.lo <= buffer.hi
      /\ Len(datum) = buffer.hi /\ config' = config
      /\ \A p \in Nat : OnWire(output, p) => p <= buffer.lo
  BY Numbers DEF Moves
<1>2. /\ Len(datum') = Len(datum) + n
      /\ \A p \in 1..Len(datum) : datum'[p] = datum[p]
  BY DEF Grows
<1>3. ASSUME config.encrypt # None, NEW p \in 1..Len(datum'),
             datum'[p] > Taken' - pending', datum'[p] \notin reused'
      PROVE  ~OnWire(output', p)
  <2>1. CASE p <= Len(datum)
    <3>1. p \in 1..Len(datum)
      BY <1>1, <1>2, <2>1
    <3> QED
      BY <1>2, <1>3, <3>1
  <2>2. CASE p > Len(datum)
    <3>1. p \in Nat /\ ~(p <= buffer.lo)
      BY <1>1, <1>2, <2>2
    <3> QED
      BY <1>1, <1>3, <3>1
  <2> QED
    BY <1>1, <1>2, <2>1, <2>2
<1> QED
  BY <1>1, <1>3 DEF Unsent

\* The bookkeeping after a call.
LEMMA CallKeepsOwner ==
  ASSUME RetryInv, NEW n \in Nat, NEW d0 \in Nat, Moves(n), Grows(n, d0),
         \/ n > 0 /\ Taken <= d0 + n
         \/ n = 0 /\ datum' = datum,
         pending' \in 0..MaxInput, pending' <= (IF n = 0 THEN Taken ELSE d0 + n),
         stale' \in BOOLEAN
  PROVE  OwnerOK' /\ Taken' = (IF n = 0 THEN Taken ELSE d0 + n)
<1>1. /\ Len(datum) = buffer.hi /\ Len(datum) \in Nat /\ Taken \in Nat
      /\ \A p \in 1..Len(datum) : datum[p] \in 1..Taken
  BY Numbers
<1>2. /\ datum' \in Seq(Nat) /\ Len(datum') = Len(datum) + n
      /\ \A p \in 1..Len(datum) : datum'[p] = datum[p]
      /\ \A p \in 1..Len(datum') :
           p > Len(datum) => datum'[p] = d0 + (p - Len(datum)) /\ p - Len(datum) \in 1..n
  BY DEF Grows
<1>3. Len(datum') = buffer'.hi
  BY <1>1, <1>2 DEF Moves
<1>4. Taken' = IF n = 0 THEN Taken ELSE d0 + n
  <2>1. CASE n = 0
    <3>1. datum' = datum
      BY <2>1
    <3> QED
      BY <2>1, <3>1 DEF Taken
  <2>2. CASE n > 0
    <3>1. datum' # <<>> /\ Len(datum') \in 1..Len(datum') /\ Len(datum') > Len(datum)
      BY <1>1, <1>2, <2>2
    <3>2. datum'[Len(datum')] = d0 + (Len(datum') - Len(datum))
      BY <1>2, <3>1
    <3>3. Len(datum') - Len(datum) = n
      BY <1>1, <1>2
    <3>4. Taken' = datum'[Len(datum')]
      BY <3>1 DEF Taken
    <3> QED
      BY <2>2, <3>2, <3>3, <3>4
  <2> QED
    BY <2>1, <2>2
<1>5. Taken' \in Nat /\ Taken <= Taken'
  BY <1>1, <1>4
<1>6. ASSUME NEW p \in 1..Len(datum')
      PROVE  datum'[p] \in 1..Taken'
  <2>1. CASE p <= Len(datum)
    <3>1. p \in 1..Len(datum)
      BY <1>1, <1>2, <2>1
    <3>2. datum'[p] = datum[p] /\ datum[p] \in 1..Taken
      BY <1>1, <1>2, <3>1
    <3>3. \A x \in 1..Taken : x \in 1..Taken'
      BY <1>1, <1>5
    <3> QED
      BY <3>2, <3>3
  <2>2. CASE p > Len(datum)
    <3>1. datum'[p] = d0 + (p - Len(datum)) /\ p - Len(datum) \in 1..n
      BY <1>2, <2>2
    <3>2. n # 0 /\ Taken' = d0 + n
      BY <1>4, <3>1
    <3>3. \A q \in 1..n : d0 + q \in 1..(d0 + n)
      OBVIOUS
    <3> QED
      BY <3>1, <3>2, <3>3
  <2> QED
    BY <1>1, <1>2, <2>1, <2>2
<1>7. pending' <= Taken'
  BY <1>4
<1> QED
  BY <1>2, <1>3, <1>4, <1>5, <1>6, <1>7 DEF OwnerOK

LEMMA OfferKeeps ==
  ASSUME RetryInv, NEW n \in 1..MaxInput, Offer(n)
  PROVE  RetryInv'
<1>1. /\ pending = 0 /\ Encode(n) /\ datum' = datum \o [i \in 1..n |-> Taken + i]
      /\ pending' = (IF ret'.ok THEN 0 ELSE n) /\ stale' = ~ret'.ok
      /\ exposed' = (IF ret'.ok THEN exposed ELSE exposed \cup Buffered)
      /\ reused' = reused
  BY DEF Offer, Settle
<1>2. n \in Nat /\ n > 0 /\ n \in 0..MaxInput /\ MaxInput \in Nat
  BY BoundsAssumption
<1>3. Moves(n) /\ IInv'
  BY <1>1, <1>2, EncodeMoves DEF RetryInv
<1>4. /\ Taken \in Nat /\ datum \in Seq(Nat)
      /\ \A p \in 1..Len(datum) : datum[p] \in 1..Taken
  BY Numbers
<1>5. Grows(n, Taken)
  BY <1>1, <1>2, <1>4, EntersBehind
<1>6. ret'.ok \in BOOLEAN
  BY <1>3 DEF Moves
<1>7. OwnerOK' /\ Taken' = Taken + n
  <2>1. pending' \in 0..MaxInput /\ pending' <= Taken + n /\ stale' \in BOOLEAN
    BY <1>1, <1>2, <1>4, <1>6
  <2> QED
    BY <1>2, <1>3, <1>4, <1>5, <2>1, CallKeepsOwner
<1>8. Held'
  <2>1. ASSUME NEW d \in 1..(Taken' - pending')
        PROVE  d \in 1..(Taken - pending) \/ (ret'.ok /\ d - Taken \in 1..n /\ d \in Nat)
    BY <1>1, <1>2, <1>4, <1>6, <1>7
  <2>2. exposed \subseteq exposed' /\ (~ret'.ok => Buffered \subseteq exposed')
    BY <1>1
  <2> QED
    BY <1>2, <1>3, <1>4, <1>5, <2>1, <2>2, CallKeepsHeld
<1>9. OnePlace'
  <2>1. ASSUME NEW p \in 1..Len(datum)
        PROVE  ~(datum[p] - Taken \in 1..n)
    <3>1. datum[p] \in Nat /\ datum[p] <= Taken
      BY <1>4
    <3> QED
      BY <1>4, <3>1
  <2> QED
    BY <1>1, <1>2, <1>3, <1>4, <1>5, <2>1, CallKeepsOnePlace
<1>10. Unsent'
  <2>1. CASE ret'.ok
    <3>1. pending' = 0 /\ Taken' \in Nat /\ \A p \in 1..Len(datum') : datum'[p] \in 1..Taken'
      BY <1>1, <1>7, <2>1 DEF OwnerOK
    <3>2. \A p \in 1..Len(datum') : ~(datum'[p] > Taken' - pending')
      BY <3>1
    <3> QED
      BY <3>2 DEF Unsent
  <2>2. CASE ~ret'.ok
    <3>1. config.encrypt # None => output' = output
      BY <1>3, <2>2 DEF Moves
    <3>2. ASSUME NEW p \in 1..Len(datum)
          PROVE  ~(datum[p] > Taken' - pending')
      <4>1. Taken' - pending' = Taken
        BY <1>1, <1>2, <1>4, <1>7, <2>2
      <4>2. datum[p] \in Nat /\ datum[p] <= Taken
        BY <1>4
      <4> QED
        BY <1>4, <4>1, <4>2
    <3> QED
      BY <1>2, <1>3, <1>4, <1>5, <3>1, <3>2, CallKeepsUnsent
  <2> QED
    BY <2>1, <2>2
<1>11. Dropped'
  <2>1. CASE ret'.ok
    BY <1>1, <2>1 DEF Dropped
  <2>2. CASE ~ret'.ok
    BY <1>1, <2>2 DEF Dropped
  <2> QED
    BY <2>1, <2>2
<1> QED
  BY <1>3, <1>7, <1>8, <1>9, <1>10, <1>11 DEF RetryInv

LEMMA AgainKeeps ==
  ASSUME RetryInv, Again
  PROVE  RetryInv'
<1> DEFINE n  == pending
           d0 == Taken - pending
<1>1. /\ pending > 0 /\ Encode(n) /\ datum' = datum \o [i \in 1..n |-> d0 + i]
      /\ pending' = (IF ret'.ok THEN 0 ELSE n) /\ stale' = ~ret'.ok
      /\ exposed' = (IF ret'.ok THEN exposed ELSE exposed \cup Buffered)
      /\ reused' = (IF stale THEN reused \cup (d0 + 1)..Taken ELSE reused)
  BY DEF Again, Settle, Reuse
<1>2. /\ n \in Nat /\ n > 0 /\ n \in 0..MaxInput /\ MaxInput \in Nat
      /\ d0 \in Nat /\ d0 + n = Taken
  BY <1>1, Numbers, BoundsAssumption DEF RetryInv, OwnerOK
<1>3. Moves(n) /\ IInv'
  BY <1>1, <1>2, EncodeMoves DEF RetryInv
<1>4. /\ Taken \in Nat /\ datum \in Seq(Nat) /\ buffer.lo \in Nat
      /\ Len(datum) = buffer.hi /\ Len(datum) \in Nat
      /\ \A p \in 1..Len(datum) : datum[p] \in 1..Taken
  BY Numbers
<1>5. Grows(n, d0)
  <2> HIDE DEF n, d0
  <2> QED
    BY <1>1, <1>2, <1>4, EntersBehind
<1>6. ret'.ok \in BOOLEAN
  BY <1>3 DEF Moves
<1>7. OwnerOK' /\ Taken' = Taken
  <2> HIDE DEF n, d0
  <2>1. pending' \in 0..MaxInput /\ pending' <= d0 + n /\ stale' \in BOOLEAN
    BY <1>1, <1>2, <1>4, <1>6
  <2>2. n # 0 /\ Taken <= d0 + n
    BY <1>2
  <2>3. OwnerOK' /\ Taken' = d0 + n
    BY <1>2, <1>3, <1>5, <2>1, <2>2, CallKeepsOwner
  <2> QED
    BY <1>2, <2>3
<1>8. Held'
  <2>1. ASSUME NEW d \in 1..(Taken' - pending')
        PROVE  d \in 1..(Taken - pending) \/ (ret'.ok /\ d - d0 \in 1..n /\ d \in Nat)
    BY <1>1, <1>2, <1>4, <1>6, <1>7
  <2>2. exposed \subseteq exposed' /\ (~ret'.ok => Buffered \subseteq exposed')
    BY <1>1
  <2> HIDE DEF n, d0
  <2> QED
    BY <1>2, <1>3, <1>5, <2>1, <2>2, CallKeepsHeld
<1>9. ASSUME config.encrypt # None, NEW p \in 1..Len(datum),
             datum[p] > d0, datum[p] \notin reused'
      PROVE  ~stale /\ ~OnWire(output, p) /\ ~(buffer.lo < p)
  <2>1. datum[p] \in Nat /\ datum[p] <= Taken
    BY <1>4
  <2>2. ~stale
    <3>1. datum[p] \in (d0 + 1)..Taken
      BY <1>2, <1>4, <1>9, <2>1
    <3> QED
      BY <1>1, <1>9, <3>1
  <2>3. ~OnWire(output, p)
    BY <1>1, <1>9, <2>2 DEF RetryInv, Unsent
  <2>4. buffer.lo = buffer.hi
    BY <1>1, <2>2 DEF RetryInv, Dropped, Empty
  <2> QED
    BY <1>4, <2>2, <2>3, <2>4
<1>10. reused \subseteq reused'
  BY <1>1
<1>11. OnePlace'
  <2>1. ASSUME config.encrypt # None, NEW p \in 1..Len(datum),
               datum[p] - d0 \in 1..n, datum[p] \notin reused'
        PROVE  ~Carried(output, buffer.lo, p)
    <3>1. datum[p] \in Nat
      BY <1>4
    <3>2. datum[p] > d0
      BY <1>2, <2>1, <3>1
    <3> QED
      BY <1>9, <2>1, <3>2 DEF Carried
  <2> HIDE DEF n, d0
  <2> QED
    BY <1>2, <1>3, <1>5, <1>10, <2>1, CallKeepsOnePlace
<1>12. Unsent'
  <2>1. CASE ret'.ok
    <3>1. pending' = 0 /\ Taken' \in Nat /\ \A p \in 1..Len(datum') : datum'[p] \in 1..Taken'
      BY <1>1, <1>7, <2>1 DEF OwnerOK
    <3>2. \A p \in 1..Len(datum') : ~(datum'[p] > Taken' - pending')
      BY <3>1
    <3> QED
      BY <3>2 DEF Unsent
  <2>2. CASE ~ret'.ok
    <3>1. config.encrypt # None => output' = output
      BY <1>3, <2>2 DEF Moves
    <3>2. Taken' - pending' = d0
      BY <1>1, <1>7, <2>2
    <3>3. ASSUME config.encrypt # None, NEW p \in 1..Len(datum),
                 datum[p] > Taken' - pending', datum[p] \notin reused'
          PROVE  ~OnWire(output, p)
      BY <1>9, <3>2, <3>3
    <3> HIDE DEF n, d0
    <3> QED
      BY <1>2, <1>3, <1>5, <3>1, <3>3, CallKeepsUnsent
  <2> QED
    BY <2>1, <2>2
<1>13. Dropped'
  <2>1. CASE ret'.ok
    BY <1>1, <2>1 DEF Dropped
  <2>2. CASE ~ret'.ok
    BY <1>1, <2>2 DEF Dropped
  <2> QED
    BY <2>1, <2>2
<1> QED
  BY <1>3, <1>7, <1>8, <1>11, <1>12, <1>13 DEF RetryInv

LEMMA FinishKeeps ==
  ASSUME RetryInv, OwnerFinish
  PROVE  RetryInv'
<1> DEFINE d0 == Taken - pending
<1>1. /\ Finish /\ datum' = datum /\ pending' = pending /\ stale' = stale
      /\ exposed' = (IF ret'.ok THEN exposed ELSE exposed \cup Buffered)
      /\ reused' = (IF stale THEN reused \cup (d0 + 1)..Taken ELSE reused)
  BY DEF OwnerFinish, Reuse
<1>2. Moves(0) /\ IInv'
  BY <1>1, FinishMoves DEF RetryInv
<1>3. /\ Taken \in Nat /\ datum \in Seq(Nat) /\ Len(datum) \in Nat
      /\ pending \in Nat /\ pending <= Taken /\ 0 \in Nat
      /\ buffer.lo \in Nat /\ Len(datum) = buffer.hi
      /\ \A p \in 1..Len(datum) : datum[p] \in 1..Taken
  BY Numbers
<1>4. Grows(0, Taken)
  <2>1. /\ datum' \in Seq(Nat) /\ Len(datum') = Len(datum) + 0
        /\ \A p \in 1..Len(datum) : datum'[p] = datum[p]
        /\ \A p \in 1..Len(datum') : ~(p > Len(datum))
    BY <1>1, <1>3
  <2> QED
    BY <2>1 DEF Grows
<1>5. ret'.ok \in BOOLEAN
  BY <1>2 DEF Moves
<1>6. OwnerOK' /\ Taken' = Taken
  <2>1. pending' \in 0..MaxInput /\ pending' <= Taken /\ stale' \in BOOLEAN
    BY <1>1, <1>3 DEF RetryInv, OwnerOK
  <2> QED
    BY <1>1, <1>2, <1>3, <1>4, <2>1, CallKeepsOwner
<1>7. Held'
  <2>1. \A d \in 1..(Taken' - pending') : d \in 1..(Taken - pending)
    BY <1>1, <1>6
  <2>2. exposed \subseteq exposed' /\ (~ret'.ok => Buffered \subseteq exposed')
    BY <1>1
  <2> QED
    BY <1>2, <1>3, <1>4, <2>1, <2>2, CallKeepsHeld
<1>8. reused \subseteq reused'
  BY <1>1
<1>9. OnePlace'
  <2>1. \A x : x \notin 1..0
    OBVIOUS
  <2> QED
    BY <1>2, <1>3, <1>4, <1>8, <2>1, CallKeepsOnePlace
<1>10. Unsent'
  <2> SUFFICES ASSUME config.encrypt # None, NEW p \in 1..Len(datum),
                      datum[p] > Taken - pending, datum[p] \notin reused'
               PROVE  ~OnWire(output', p)
    <3>1. config' = config
      BY <1>2 DEF Moves
    <3> QED
      BY <1>1, <1>6, <3>1 DEF Unsent
  <2>1. datum[p] \in Nat /\ datum[p] <= Taken /\ p \in Nat
    BY <1>3
  <2>2. datum[p] \in (d0 + 1)..Taken
    BY <1>3, <2>1
  <2>3. ~stale
    BY <1>1, <2>2
  <2>4. pending > 0
    BY <1>3, <2>1
  <2>5. buffer.lo = buffer.hi
    BY <2>3, <2>4 DEF RetryInv, Dropped, Empty
  <2>6. ~OnWire(output, p)
    BY <1>8 DEF RetryInv, Unsent
  <2>7. ~(buffer.lo < p)
    BY <1>3, <2>5
  <2> QED
    BY <1>2, <2>1, <2>6, <2>7 DEF Moves
<1>11. Dropped'
  <2> SUFFICES ASSUME pending > 0, ~stale PROVE Empty(buffer')
    BY <1>1 DEF Dropped
  <2>1. Empty(buffer)
    BY DEF RetryInv, Dropped
  <2>2. buffer' = [lo |-> buffer.hi, hi |-> buffer.hi]
    BY <1>1, <2>1 DEF Finish, FinishStage, Chain, Result
  <2> QED
    BY <2>2 DEF Empty
<1> QED
  BY <1>2, <1>6, <1>7, <1>9, <1>10, <1>11 DEF RetryInv

LEMMA RebuildKeeps ==
  ASSUME RetryInv, OwnerRebuild
  PROVE  RetryInv'
<1>1. /\ Rebuild /\ datum' = datum /\ pending' = pending /\ reused' = reused
      /\ stale' = FALSE /\ exposed' = exposed \cup Buffered
      /\ config' = config /\ output' = output
      /\ buffer' = [lo |-> buffer.hi, hi |-> buffer.hi]
  BY DEF OwnerRebuild, Rebuild
<1>2. /\ buffer.lo \in Nat /\ buffer.hi \in Nat /\ buffer.lo <= buffer.hi
      /\ Len(datum) = buffer.hi /\ Len(datum) \in Nat
  BY Numbers
<1>3. IInv'
  BY <1>1, RebuildKeepsIInv DEF RetryInv
<1>4. Taken' = Taken
  BY <1>1 DEF Taken
<1>5. OwnerOK'
  BY <1>1, <1>4 DEF RetryInv, OwnerOK
<1>6. Held'
  <2>1. ASSUME NEW d \in 1..(Taken - pending), NEW p \in 1..Len(datum), datum[p] = d,
               Carried(output, buffer.lo, p)
        PROVE  d \in exposed' \/ Carried(output, buffer'.lo, p)
    <3>1. CASE OnWire(output, p)
      BY <3>1 DEF Carried
    <3>2. CASE buffer.lo < p
      <4>1. p \in (buffer.lo + 1)..buffer.hi
        BY <1>2, <3>2
      <4> QED
        BY <1>1, <2>1, <4>1 DEF Buffered, Data
    <3> QED
      BY <2>1, <3>1, <3>2 DEF Carried
  <2>2. \A d \in 1..(Taken - pending) :
          \/ d \in exposed'
          \/ \E p \in 1..Len(datum) : datum[p] = d /\ Carried(output, buffer'.lo, p)
    <3> TAKE d \in 1..(Taken - pending)
    <3>1. CASE d \in exposed
      BY <1>1, <3>1
    <3>2. ASSUME NEW p \in 1..Len(datum), datum[p] = d, Carried(output, buffer.lo, p)
          PROVE  \/ d \in exposed'
                 \/ \E q \in 1..Len(datum) : datum[q] = d /\ Carried(output, buffer'.lo, q)
      BY <2>1, <3>2
    <3> QED
      BY <3>1, <3>2 DEF RetryInv, Held
  <2> QED
    BY <1>1, <1>4, <2>2 DEF Held
<1>7. OnePlace'
  <2>1. ASSUME NEW p \in 1..Len(datum), Carried(output, buffer'.lo, p)
        PROVE  Carried(output, buffer.lo, p)
    <3>1. ~(buffer'.lo < p)
      BY <1>1, <1>2
    <3> QED
      BY <2>1, <3>1 DEF Carried
  <2> QED
    BY <1>1, <2>1 DEF RetryInv, OnePlace
<1>8. Unsent'
  BY <1>1, <1>4 DEF RetryInv, Unsent
<1>9. Dropped'
  BY <1>1 DEF Dropped, Empty
<1> QED
  BY <1>3, <1>5, <1>6, <1>7, <1>8, <1>9 DEF RetryInv

LEMMA InitRetryInv == RetryInit => RetryInv
<1> SUFFICES ASSUME RetryInit PROVE RetryInv
  OBVIOUS
<1>1. IInv
  BY InitIInv DEF RetryInit
<1>2. /\ datum = <<>> /\ pending = 0 /\ stale = FALSE /\ buffer.hi = 0
      /\ Taken = 0 /\ Len(datum) = 0 /\ Taken - pending = 0
  BY DEF RetryInit, Init, Taken
<1>3. OwnerOK
  <2>1. datum \in Seq(Nat) /\ \A p \in 1..Len(datum) : datum[p] \in 1..Taken
    BY <1>2
  <2>2. pending \in 0..MaxInput /\ pending <= Taken
    BY <1>2, BoundsAssumption
  <2>3. stale \in BOOLEAN
    BY <1>2
  <2>4. Len(datum) = buffer.hi /\ Taken \in Nat
    BY <1>2
  <2> QED
    BY <2>1, <2>2, <2>3, <2>4 DEF OwnerOK
<1>4. Held /\ OnePlace /\ Unsent /\ Dropped
  BY <1>2 DEF Held, OnePlace, Unsent, Dropped
<1> QED
  BY <1>1, <1>3, <1>4 DEF RetryInv

LEMMA NextRetryInv == RetryInv /\ [RetryNext]_retryVars => RetryInv'
<1> SUFFICES ASSUME RetryInv, [RetryNext]_retryVars PROVE RetryInv'
  OBVIOUS
<1>1. ASSUME NEW n \in 1..MaxInput, Offer(n)
      PROVE  RetryInv'
  BY <1>1, OfferKeeps
<1>2. CASE Again
  BY <1>2, AgainKeeps
<1>3. CASE OwnerFinish
  BY <1>3, FinishKeeps
<1>4. CASE OwnerRebuild
  BY <1>4, RebuildKeeps
<1>5. CASE UNCHANGED retryVars
  <2>1. /\ datum' = datum /\ pending' = pending /\ stale' = stale /\ reused' = reused
        /\ exposed' = exposed /\ config' = config /\ output' = output /\ buffer' = buffer
        /\ UNCHANGED vars
    BY <1>5 DEF retryVars, owner, vars
  <2>2. IInv'
    BY <2>1, NextIInv DEF RetryInv
  <2>3. Taken' = Taken
    BY <2>1 DEF Taken
  <2>4. OwnerOK'
    BY <2>1, <2>3 DEF RetryInv, OwnerOK
  <2>5. Held'
    BY <2>1, <2>3 DEF RetryInv, Held
  <2>6. OnePlace'
    BY <2>1 DEF RetryInv, OnePlace
  <2>7. Unsent'
    BY <2>1, <2>3 DEF RetryInv, Unsent
  <2>8. Dropped'
    BY <2>1 DEF RetryInv, Dropped
  <2> QED
    BY <2>2, <2>4, <2>5, <2>6, <2>7, <2>8 DEF RetryInv
<1> QED
  BY <1>1, <1>2, <1>3, <1>4, <1>5 DEF RetryNext

\* The invariant of the encoder under an owner that offers inputs again.
THEOREM RetryInvariantHolds == RetrySpec => []RetryInv
BY InitRetryInv, NextRetryInv, PTL DEF RetrySpec

\* What Copies counts.
Places(d) == {p \in 1..Len(datum) : Carried(output, buffer.lo, p) /\ datum[p] = d}

LEMMA CopiesCounts ==
  ASSUME NEW d
  PROVE  Copies(d) = Cardinality(Places(d))
<1> DEFINE carried == {p \in 1..Len(datum) :
                         \/ buffer.lo < p
                         \/ \E i \in 1..Len(output) : Lo(output[i]) < p /\ p <= Hi(output[i])}
<1>1. {p \in carried : datum[p] = d} = Places(d)
  BY DEF Places, Carried, OnWire
<1>2. Copies(d) = Cardinality({p \in carried : datum[p] = d})
  BY DEF Copies
<1> QED
  BY <1>1, <1>2

\* A datum whose input got an Ok is on the wire or in the buffer, unless it was in the
\* buffer when a call returned Err or the encoder was dropped: repeating what failed
\* does not bring back what an earlier call was given.
THEOREM LossIsExposed == RetrySpec => []LostOnlyIfBuffered
<1>1. ASSUME RetryInv
      PROVE  LostOnlyIfBuffered
  <2> SUFFICES ASSUME NEW d \in 1..(Taken - pending), Copies(d) = 0
               PROVE  d \in exposed
    BY DEF LostOnlyIfBuffered
  <2>1. Len(datum) \in Nat
    BY <1>1, Numbers
  <2>2. IsFiniteSet(Places(d))
    <3>1. IsFiniteSet(1..Len(datum))
      BY <2>1, FS_Interval
    <3> QED
      BY <3>1, FS_Subset DEF Places
  <2>3. Places(d) = {}
    BY <2>2, CopiesCounts, FS_EmptySet
  <2>4. ~\E p \in 1..Len(datum) : datum[p] = d /\ Carried(output, buffer.lo, p)
    BY <2>3 DEF Places
  <2> QED
    BY <1>1, <2>4 DEF RetryInv, Held
<1> QED
  BY <1>1, RetryInvariantHolds, PTL

\* With encryption, an owner that drops the encoder before it offers an input again
\* sends no datum twice.
THEOREM TwiceMeansReused == RetrySpec => []TwiceOnlyIfReused
<1>1. ASSUME RetryInv
      PROVE  TwiceOnlyIfReused
  <2> SUFFICES ASSUME config.encrypt # None, NEW d \in 1..Taken, d \notin reused
               PROVE  ~(Copies(d) > 1)
    BY DEF TwiceOnlyIfReused
  <2>1. \A p, q \in Places(d) : p = q
    BY <1>1 DEF Places, RetryInv, OnePlace
  <2>2. CASE Places(d) = {}
    <3>1. Copies(d) = 0
      BY <2>2, CopiesCounts, FS_EmptySet
    <3> QED
      BY <3>1
  <2>3. ASSUME NEW p \in Places(d)
        PROVE  ~(Copies(d) > 1)
    <3>1. Places(d) = {p}
      BY <2>1, <2>3
    <3>2. Copies(d) = 1
      BY <3>1, CopiesCounts, FS_Singleton
    <3> QED
      BY <3>2
  <2> QED
    BY <2>2, <2>3
<1> QED
  BY <1>1, RetryInvariantHolds, PTL

==============================================================================
