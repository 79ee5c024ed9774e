-------------------------- MODULE CodecEncoderProofs -------------------------
(***************************************************************************)
(* Theorems about CodecEncoder for every block size, every set of          *)
(* configurations and every bound.  The inductive invariant is IInv; the   *)
(* argument goes through what one run of the first layer may produce       *)
(* (GoodStage) and what ChainEncoder makes of it.                          *)
(***************************************************************************)
EXTENDS CodecEncoder, SequenceFacts

------------------------------------------------------------------------------
(* Runs of frames.                                                          *)

\* A frame carries positions: its ends are natural numbers.
LEMMA FrameEnds ==
  ASSUME NEW f \in Frame
  PROVE  Lo(f) \in Nat /\ Hi(f) \in Nat
<1>1. CASE f \in Segment
  BY <1>1 DEF Lo, Hi, IsSealed, Segment, Cipher, CompressionAlgo, Zstd, Plain
<1>2. CASE f \in Sealed
  <2>1. /\ f.body \in Seq(Segment)
        /\ f.body # <<>>
        /\ IsSealed(f)
    BY <1>2 DEF Sealed, IsSealed
  <2>2. f.body[1] \in Segment /\ f.body[Len(f.body)] \in Segment
    BY <2>1
  <2> QED
    BY <2>1, <2>2 DEF Lo, Hi, Segment
<1> QED
  BY <1>1, <1>2 DEF Frame

\* The same for the frames of a sequence.
LEMMA SeqEnds ==
  ASSUME NEW s \in Seq(Frame)
  PROVE  \A i \in 1..Len(s) : Lo(s[i]) \in Nat /\ Hi(s[i]) \in Nat
<1> SUFFICES ASSUME NEW i \in 1..Len(s)
             PROVE  Lo(s[i]) \in Nat /\ Hi(s[i]) \in Nat
  OBVIOUS
<1>1. s[i] \in Frame
  OBVIOUS
<1> QED
  BY <1>1, FrameEnds

\* Frames behind frames: order is kept when the second run starts where the
\* first may end.
LEMMA OrderedConcat ==
  ASSUME NEW s \in Seq(Frame), NEW t \in Seq(Frame),
         NEW a \in Int, NEW b \in Int, NEW c \in Int,
         Ordered(s, a, b), Ordered(t, b, c)
  PROVE  Ordered(s \o t, a, c)
<1> DEFINE u == s \o t
<1>1. /\ u \in Seq(Frame)
      /\ Len(u) = Len(s) + Len(t)
      /\ Len(s) \in Nat /\ Len(t) \in Nat
      /\ \A i \in 1..Len(u) : u[i] = IF i <= Len(s) THEN s[i] ELSE t[i - Len(s)]
  OBVIOUS
<1>2. /\ \A i \in 1..Len(s) : Lo(s[i]) \in Nat /\ Hi(s[i]) \in Nat
      /\ \A i \in 1..Len(t) : Lo(t[i]) \in Nat /\ Hi(t[i]) \in Nat
  BY SeqEnds
<1>3. \A i \in 1..Len(u) : i > Len(s) => i - Len(s) \in 1..Len(t)
  BY <1>1
<1> HIDE DEF u
<1>4. a <= c
  BY DEF Ordered
<1>5. ASSUME NEW i \in 1..Len(u)
      PROVE  a <= Lo(u[i]) /\ Lo(u[i]) < Hi(u[i]) /\ Hi(u[i]) <= c
  <2>1. CASE i <= Len(s)
    <3>1. u[i] = s[i] /\ i \in 1..Len(s)
      BY <1>1, <2>1
    <3> QED
      BY <1>2, <3>1 DEF Ordered
  <2>2. CASE i > Len(s)
    <3>1. u[i] = t[i - Len(s)] /\ i - Len(s) \in 1..Len(t)
      BY <1>1, <1>3, <2>2
    <3> QED
      BY <1>2, <3>1 DEF Ordered
  <2> QED
    BY <1>1, <2>1, <2>2
<1>6. ASSUME NEW i \in 1..Len(u), NEW j \in 1..Len(u), i < j
      PROVE  Hi(u[i]) <= Lo(u[j])
  <2>1. CASE j <= Len(s)
    <3>1. u[i] = s[i] /\ u[j] = s[j] /\ i \in 1..Len(s) /\ j \in 1..Len(s)
      BY <1>1, <1>6, <2>1
    <3> QED
      BY <1>6, <3>1 DEF Ordered
  <2>2. CASE i <= Len(s) /\ j > Len(s)
    <3>1. u[i] = s[i] /\ i \in 1..Len(s)
      BY <1>1, <2>2
    <3>2. u[j] = t[j - Len(s)] /\ j - Len(s) \in 1..Len(t)
      BY <1>1, <1>3, <2>2
    <3>3. Hi(s[i]) <= b /\ b <= Lo(t[j - Len(s)])
      BY <3>1, <3>2 DEF Ordered
    <3>4. Hi(s[i]) \in Nat /\ Lo(t[j - Len(s)]) \in Nat
      BY <1>2, <3>1, <3>2
    <3>5. Hi(s[i]) <= Lo(t[j - Len(s)])
      BY <3>3, <3>4
    <3> QED
      BY <3>1, <3>2, <3>5
  <2>3. CASE i > Len(s)
    <3>1. u[i] = t[i - Len(s)] /\ i - Len(s) \in 1..Len(t)
      BY <1>1, <1>3, <2>3
    <3>2. u[j] = t[j - Len(s)] /\ j - Len(s) \in 1..Len(t)
      BY <1>1, <1>3, <1>6, <2>3
    <3>3. i - Len(s) < j - Len(s)
      BY <1>1, <1>6
    <3> QED
      BY <3>1, <3>2, <3>3 DEF Ordered
  <2> QED
    BY <1>1, <2>1, <2>2, <2>3
<1> QED
  BY <1>4, <1>5, <1>6 DEF Ordered, u

\* Frames behind frames: no gap opens at the seam.
LEMMA GaplessConcat ==
  ASSUME NEW s \in Seq(Frame), NEW t \in Seq(Frame), NEW a, NEW b, NEW c,
         Gapless(s, a, b), Gapless(t, b, c)
  PROVE  Gapless(s \o t, a, c)
<1>1. CASE s = <<>>
  <2>1. s \o t = t
    BY <1>1
  <2> QED
    BY <1>1, <2>1 DEF Gapless
<1>2. CASE s # <<>> /\ t = <<>>
  <2>1. s \o t = s
    BY <1>2
  <2> QED
    BY <1>2, <2>1 DEF Gapless
<1>3. CASE s # <<>> /\ t # <<>>
  <2> DEFINE u == s \o t
  <2>1. /\ Len(u) = Len(s) + Len(t)
        /\ Len(s) \in Nat \ {0} /\ Len(t) \in Nat \ {0}
        /\ u # <<>>
        /\ \A i \in 1..Len(u) : u[i] = IF i <= Len(s) THEN s[i] ELSE t[i - Len(s)]
    BY <1>3
  <2> HIDE DEF u
  <2>2. u[1] = s[1] /\ u[Len(u)] = t[Len(t)]
    BY <2>1
  <2>3. Lo(u[1]) = a /\ Hi(u[Len(u)]) = c
    BY <1>3, <2>2 DEF Gapless
  <2>4. ASSUME NEW i \in 1..(Len(u) - 1)
        PROVE  Hi(u[i]) = Lo(u[i + 1])
    <3>1. CASE i < Len(s)
      <4>1. u[i] = s[i] /\ u[i + 1] = s[i + 1] /\ i \in 1..(Len(s) - 1)
        BY <2>1, <3>1
      <4> QED
        BY <1>3, <4>1 DEF Gapless
    <3>2. CASE i = Len(s)
      <4>1. u[i] = s[Len(s)] /\ u[i + 1] = t[1]
        BY <2>1, <3>2, SMTT(30)
      <4> QED
        BY <1>3, <4>1 DEF Gapless
    <3>3. CASE i > Len(s)
      <4>1. i - Len(s) \in 1..(Len(t) - 1)
        BY <2>1, <3>3
      <4>2. u[i] = t[i - Len(s)] /\ u[i + 1] = t[(i - Len(s)) + 1]
        BY <2>1, <3>3
      <4> QED
        BY <1>3, <4>1, <4>2 DEF Gapless
    <3> QED
      BY <2>1, <3>1, <3>2, <3>3
  <2> QED
    BY <2>1, <2>3, <2>4 DEF Gapless, u
<1> QED
  BY <1>1, <1>2, <1>3

\* The bound behind which frames lie may move on.
LEMMA OrderedWiden ==
  ASSUME NEW s \in Seq(Frame), NEW a \in Int, NEW b \in Int, NEW c \in Int,
         Ordered(s, a, b), b <= c
  PROVE  Ordered(s, a, c)
<1>1. \A i \in 1..Len(s) : Lo(s[i]) \in Nat /\ Hi(s[i]) \in Nat
  BY SeqEnds
<1> QED
  BY <1>1 DEF Ordered

\* One frame tiles the bytes between its ends.
LEMMA OneTiles ==
  ASSUME NEW f \in Frame, Lo(f) < Hi(f)
  PROVE  Tiles(<<f>>, Lo(f), Hi(f))
<1>1. Lo(f) \in Nat /\ Hi(f) \in Nat
  BY FrameEnds
<1>2. Len(<<f>>) = 1 /\ <<f>>[1] = f /\ <<f>> # <<>>
  OBVIOUS
<1>3. Ordered(<<f>>, Lo(f), Hi(f))
  BY <1>1, <1>2 DEF Ordered
<1>4. Gapless(<<f>>, Lo(f), Hi(f))
  BY <1>1, <1>2 DEF Gapless
<1> QED
  BY <1>3, <1>4 DEF Tiles

\* A run that tiles [a, b) and carries something starts at a and ends at b.
LEMMA TilesEnds ==
  ASSUME NEW s \in Seq(Frame), s # <<>>, NEW a \in Int, NEW b \in Int,
         Tiles(s, a, b)
  PROVE  Lo(s[1]) = a /\ Hi(s[Len(s)]) = b /\ a < b
<1>1. 1 \in 1..Len(s) /\ Len(s) \in 1..Len(s) /\ Len(s) \in Nat
  OBVIOUS
<1>2. /\ Lo(s[1]) \in Nat /\ Hi(s[1]) \in Nat
      /\ Lo(s[Len(s)]) \in Nat /\ Hi(s[Len(s)]) \in Nat
  BY <1>1, SeqEnds
<1>3. Lo(s[1]) = a /\ Hi(s[Len(s)]) = b
  BY DEF Tiles, Gapless
<1>4. Lo(s[1]) < Hi(s[1]) /\ Hi(s[1]) <= b
  BY <1>1 DEF Tiles, Ordered
<1> QED
  BY <1>2, <1>3, <1>4

------------------------------------------------------------------------------
(* Arithmetic of blocks.                                                    *)

LEMMA Times ==
  ASSUME NEW k \in Nat
  PROVE  /\ k * BlockSize \in Nat
         /\ (k + 1) * BlockSize = k * BlockSize + BlockSize
BY BlockSizeAssumption

LEMMA TimesMono ==
  ASSUME NEW j \in Nat, NEW k \in Nat, j <= k
  PROVE  j * BlockSize <= k * BlockSize
<1>1. PICK d \in Nat : k = j + d
  BY k - j \in Nat
<1>2. d * BlockSize \in Nat /\ k * BlockSize = j * BlockSize + d * BlockSize
  BY <1>1, BlockSizeAssumption
<1> QED
  BY <1>2, Times

\* The loop of flush runs as often as full blocks fit in the buffer.
LEMMA FullBlocksFit ==
  ASSUME NEW lo \in Nat, NEW hi \in Nat, lo <= hi
  PROVE  /\ FullBlocks(lo, hi) \in Nat
         /\ lo + FullBlocks(lo, hi) * BlockSize <= hi
         /\ hi - (lo + FullBlocks(lo, hi) * BlockSize) < BlockSize
<1> DEFINE n == hi - lo
           q == n \div BlockSize
<1>1. n \in Nat
  OBVIOUS
<1>2. q \in Nat /\ q * BlockSize <= n /\ n < (q + 1) * BlockSize
  BY <1>1, BlockSizeAssumption
<1>3. q * BlockSize \in Nat /\ (q + 1) * BlockSize = q * BlockSize + BlockSize
  BY <1>2, Times
<1> HIDE DEF q
<1>4. FullBlocks(lo, hi) = q
  BY DEF FullBlocks, q
<1> QED
  BY <1>2, <1>3, <1>4, BlockSizeAssumption

\* A segment is a frame and its ends are its own.
LEMMA SegmentEnds ==
  ASSUME NEW seg \in Segment
  PROVE  /\ seg \in Frame
         /\ ~IsSealed(seg)
         /\ Lo(seg) = seg.lo /\ Hi(seg) = seg.hi
         /\ seg.lo \in Nat /\ seg.hi \in Nat
BY DEF Segment, Frame, IsSealed, Lo, Hi, Cipher, CompressionAlgo, Zstd, Plain

LEMMA SegmentsAreFrames ==
  ASSUME NEW s \in Seq(Segment)
  PROVE  s \in Seq(Frame)
BY DEF Frame

\* k drained blocks tile k * BlockSize bytes, each of BlockSize bytes.
LEMMA BlocksTile ==
  ASSUME NEW kind \in CompressionAlgo, NEW lo \in Nat, NEW k \in Nat
  PROVE  /\ Blocks(kind, lo, k) \in Seq(Segment)
         /\ Tiles(Blocks(kind, lo, k), lo, lo + k * BlockSize)
         /\ \A i \in 1..Len(Blocks(kind, lo, k)) :
              /\ Blocks(kind, lo, k)[i].kind = kind
              /\ Size(Blocks(kind, lo, k)[i]) = BlockSize
<1> DEFINE s == Blocks(kind, lo, k)
<1>1. k * BlockSize \in Nat
  BY Times
<1>2. ASSUME NEW i \in 1..k
      PROVE  /\ (i - 1) * BlockSize \in Nat
             /\ i * BlockSize = (i - 1) * BlockSize + BlockSize
             /\ i * BlockSize <= k * BlockSize
             /\ i * BlockSize \in Nat
  <2>1. i - 1 \in Nat /\ i \in Nat /\ i <= k /\ (i - 1) + 1 = i
    OBVIOUS
  <2> QED
    BY <2>1, Times, TimesMono
<1>3. s = [i \in 1..k |-> [kind |-> kind,
                           lo   |-> lo + (i - 1) * BlockSize,
                           hi   |-> lo + i * BlockSize]]
  BY DEF Blocks
<1>4. ASSUME NEW i \in 1..k
      PROVE  /\ s[i] \in Segment
             /\ s[i].kind = kind
             /\ s[i].lo = lo + (i - 1) * BlockSize
             /\ s[i].hi = lo + i * BlockSize
  BY <1>2, <1>3, SMTT(30) DEF Segment
<1> HIDE DEF s
<1>5. s \in Seq(Segment) /\ Len(s) = k
  BY <1>3, <1>4
<1>6. ASSUME NEW i \in 1..k
      PROVE  /\ Lo(s[i]) = lo + (i - 1) * BlockSize
             /\ Hi(s[i]) = lo + i * BlockSize
  BY <1>4, SegmentEnds
<1>7. Ordered(s, lo, lo + k * BlockSize)
  <2>1. \A i \in 1..k : /\ lo <= Lo(s[i]) /\ Lo(s[i]) < Hi(s[i])
                        /\ Hi(s[i]) <= lo + k * BlockSize
    BY <1>1, <1>2, <1>6, BlockSizeAssumption
  <2>2. ASSUME NEW i \in 1..k, NEW j \in 1..k, i < j
        PROVE  Hi(s[i]) <= Lo(s[j])
    <3>1. i * BlockSize <= (j - 1) * BlockSize
      BY <2>2, TimesMono
    <3> QED
      BY <1>2, <1>6, <3>1
  <2> QED
    BY <1>1, <1>5, <2>1, <2>2 DEF Ordered
<1>8. Gapless(s, lo, lo + k * BlockSize)
  <2>1. CASE k = 0
    <3>1. s = <<>> /\ k * BlockSize = 0
      BY <1>5, <2>1, BlockSizeAssumption
    <3> QED
      BY <3>1 DEF Gapless
  <2>2. CASE k # 0
    <3>1. s # <<>> /\ 1 \in 1..k /\ k \in 1..k
      BY <1>5, <2>2
    <3>2. Lo(s[1]) = lo + 0 * BlockSize /\ 0 * BlockSize = 0
      BY <1>6, <3>1, BlockSizeAssumption
    <3>3. Hi(s[k]) = lo + k * BlockSize
      BY <1>6, <3>1
    <3>4. ASSUME NEW i \in 1..(k - 1)
          PROVE  Hi(s[i]) = Lo(s[i + 1])
      <4>1. i \in 1..k /\ i + 1 \in 1..k /\ (i + 1) - 1 = i
        OBVIOUS
      <4> QED
        BY <1>6, <4>1
    <3> QED
      BY <1>5, <3>1, <3>2, <3>3, <3>4 DEF Gapless
  <2> QED
    BY <2>1, <2>2
<1>9. \A i \in 1..k : Size(s[i]) = BlockSize
  BY <1>2, <1>4, BlockSizeAssumption DEF Size
<1> QED
  BY <1>4, <1>5, <1>7, <1>8, <1>9 DEF s, Tiles

------------------------------------------------------------------------------
(* The inductive invariant.                                                 *)

\* Without a compressor nothing stays in a buffer.
PassThrough == config.compress = None => Empty(buffer)

\* An encoder none of whose calls failed holds less than a block.
ShortBuffer == config.compress # None /\ intact => Size(buffer) < BlockSize

\* finish leaves an empty buffer, Ok or not.
FinishEmpties == ret.op = "finish" => Empty(buffer)

\* The nonces on the wire were drawn.
NonceDrawn ==
  \A i \in 1..Len(output) : IsSealed(output[i]) => output[i].nonce < drawn

IInv ==
  /\ TypeOK
  /\ WireOrdered
  /\ SealedBodiesWhole
  /\ GaplessWhileIntact
  /\ BufferBounded
  /\ BlocksBounded
  /\ NonceUnique
  /\ PassThrough
  /\ ShortBuffer
  /\ FinishEmpties
  /\ NonceDrawn

------------------------------------------------------------------------------
(* What the first layer may return.                                         *)

\* Types, and which bytes are covered.
StageCovers(r) ==
  /\ r.buffer \in Interval
  /\ r.out \in Seq(Segment)
  /\ r.ok \in BOOLEAN
  /\ Ordered(r.out, buffer.lo, r.buffer.lo)
  /\ r.ok => Gapless(r.out, buffer.lo, r.buffer.lo)

\* The kind of every segment.
StageKinds(r) ==
  IF config.compress = None
  THEN Len(r.out) <= 1 /\ \A k \in 1..Len(r.out) : r.out[k].kind = Plain
  ELSE \A k \in 1..Len(r.out) : r.out[k].kind = config.compress

\* How much is kept, and how much one block holds.
StageSizes(r) ==
  /\ config.compress = None => Empty(r.buffer)
  /\ config.compress # None /\ r.ok => Size(r.buffer) < BlockSize
  /\ config.compress # None /\ intact =>
       \A k \in 1..Len(r.out) : Size(r.out[k]) <= BlockSize

GoodStage(r) == StageCovers(r) /\ StageKinds(r) /\ StageSizes(r)

\* The layers a configuration may switch on.
LEMMA ConfigType ==
  ASSUME TypeOK
  PROVE  /\ config.compress \in CompressionAlgo \cup {None}
         /\ config.encrypt \in Cipher \cup {None}
         /\ config.key \in Keys
         /\ None \notin CompressionAlgo /\ None \notin Cipher
BY ConfigsAssumption DEF TypeOK, Config, CompressionAlgo, Zstd, Cipher, None

\* An empty run of frames covers nothing, in order.
LEMMA NothingTiles ==
  ASSUME NEW a \in Int, NEW b \in Int, a <= b
  PROVE  /\ <<>> \in Seq(Segment) /\ <<>> \in Seq(Frame)
         /\ Ordered(<<>>, a, b)
         /\ Gapless(<<>>, a, a)
BY DEF Ordered, Gapless

\* A single segment in its place.
Single(kind, lo, hi) == <<[kind |-> kind, lo |-> lo, hi |-> hi]>>

LEMMA SingleTiles ==
  ASSUME NEW kind \in CompressionAlgo \cup {Plain}, NEW lo \in Nat, NEW hi \in Nat,
         lo < hi
  PROVE  /\ Single(kind, lo, hi) \in Seq(Segment)
         /\ Len(Single(kind, lo, hi)) = 1
         /\ Single(kind, lo, hi)[1].kind = kind
         /\ Size(Single(kind, lo, hi)[1]) = hi - lo
         /\ Tiles(Single(kind, lo, hi), lo, hi)
<1> DEFINE seg == [kind |-> kind, lo |-> lo, hi |-> hi]
<1>1. seg \in Segment /\ seg.lo = lo /\ seg.hi = hi /\ seg.kind = kind
  BY DEF Segment
<1>2. Single(kind, lo, hi) = <<seg>>
  BY DEF Single
<1> HIDE DEF seg
<1>3. seg \in Frame /\ Lo(seg) = lo /\ Hi(seg) = hi
  BY <1>1, SegmentEnds
<1>4. Tiles(<<seg>>, lo, hi)
  BY <1>3, OneTiles
<1>5. <<seg>> \in Seq(Segment) /\ Len(<<seg>>) = 1 /\ <<seg>>[1] = seg
  BY <1>1
<1> QED
  BY <1>1, <1>2, <1>4, <1>5 DEF Size

\* A flush that returns Ok frames every full block; one that fails frames those
\* before the failing block, which is gone.
LEMMA FlushGood ==
  ASSUME TypeOK, config.compress # None,
         NEW n \in Nat, NEW r \in Flush(buffer.lo, buffer.hi + n)
  PROVE  GoodStage(r)
<1> DEFINE lo == buffer.lo
           hi == buffer.hi + n
           full == FullBlocks(lo, hi)
<1>1. lo \in Nat /\ hi \in Nat /\ lo <= hi
  BY DEF TypeOK, Interval
<1>2. config.compress \in CompressionAlgo
  BY ConfigType
<1>3. full \in Nat /\ lo + full * BlockSize <= hi
      /\ hi - (lo + full * BlockSize) < BlockSize
  BY <1>1, FullBlocksFit
<1>4. full * BlockSize \in Nat
  BY <1>3, Times
<1> HIDE DEF lo, hi, full
<1>5. CASE r = Result(lo + full * BlockSize, hi, Blocks(config.compress, lo, full), TRUE)
  <2>1. /\ r.buffer = [lo |-> lo + full * BlockSize, hi |-> hi]
        /\ r.out = Blocks(config.compress, lo, full)
        /\ r.ok = TRUE
    BY <1>5 DEF Result
  <2>2. r.buffer \in Interval /\ r.buffer.lo = lo + full * BlockSize
        /\ Size(r.buffer) < BlockSize
    BY <1>1, <1>3, <1>4, <2>1 DEF Interval, Size
  <2>3. /\ Blocks(config.compress, lo, full) \in Seq(Segment)
        /\ Tiles(Blocks(config.compress, lo, full), lo, lo + full * BlockSize)
        /\ \A k \in 1..Len(Blocks(config.compress, lo, full)) :
             /\ Blocks(config.compress, lo, full)[k].kind = config.compress
             /\ Size(Blocks(config.compress, lo, full)[k]) = BlockSize
    BY <1>1, <1>2, <1>3, BlocksTile
  <2>4. StageCovers(r)
    BY <2>1, <2>2, <2>3 DEF StageCovers, Tiles, lo
  <2>5. StageKinds(r)
    BY <2>1, <2>3 DEF StageKinds
  <2>6. StageSizes(r)
    BY <2>1, <2>2, <2>3, BlockSizeAssumption DEF StageSizes
  <2> QED
    BY <2>4, <2>5, <2>6 DEF GoodStage
<1>6. ASSUME NEW k \in 0..(full - 1),
             r = Result(lo + (k + 1) * BlockSize, hi,
                        Blocks(config.compress, lo, k), FALSE)
      PROVE  GoodStage(r)
  <2>1. /\ r.buffer = [lo |-> lo + (k + 1) * BlockSize, hi |-> hi]
        /\ r.out = Blocks(config.compress, lo, k)
        /\ r.ok = FALSE
    BY <1>6 DEF Result
  <2>2. /\ k \in Nat /\ k * BlockSize \in Nat
        /\ (k + 1) * BlockSize = k * BlockSize + BlockSize
        /\ (k + 1) * BlockSize <= full * BlockSize
    BY <1>3, Times, TimesMono, SMTT(30)
  <2>3. r.buffer \in Interval /\ r.buffer.lo = lo + (k + 1) * BlockSize
    BY <1>1, <1>3, <1>4, <2>1, <2>2, BlockSizeAssumption DEF Interval
  <2>4. /\ Blocks(config.compress, lo, k) \in Seq(Segment)
        /\ Tiles(Blocks(config.compress, lo, k), lo, lo + k * BlockSize)
        /\ \A i \in 1..Len(Blocks(config.compress, lo, k)) :
             /\ Blocks(config.compress, lo, k)[i].kind = config.compress
             /\ Size(Blocks(config.compress, lo, k)[i]) = BlockSize
    BY <1>1, <1>2, <2>2, BlocksTile, ZenonT(60)
  <2>5. lo + k * BlockSize <= r.buffer.lo /\ lo + k * BlockSize \in Int
        /\ r.buffer.lo \in Int
    BY <1>1, <2>2, <2>3, BlockSizeAssumption
  <2>6. r.out \in Seq(Frame) /\ Ordered(r.out, lo, lo + k * BlockSize)
    BY <2>1, <2>4, SegmentsAreFrames DEF Tiles
  <2>7. Ordered(r.out, lo, r.buffer.lo)
    BY <1>1, <2>5, <2>6, OrderedWiden
  <2>8. StageCovers(r)
    BY <2>1, <2>3, <2>4, <2>7 DEF StageCovers, lo
  <2>9. StageKinds(r)
    BY <2>1, <2>4 DEF StageKinds
  <2>10. StageSizes(r)
    BY <2>1, <2>4, BlockSizeAssumption DEF StageSizes
  <2> QED
    BY <2>8, <2>9, <2>10 DEF GoodStage
<1> QED
  BY <1>5, <1>6 DEF Flush, lo, hi, full

LEMMA EncodeStageGood ==
  ASSUME TypeOK, PassThrough, NEW n \in Nat, NEW r \in EncodeStage(n)
  PROVE  GoodStage(r)
<1>1. CASE config.compress # None
  BY <1>1, FlushGood DEF EncodeStage
<1>2. CASE config.compress = None
  <2> DEFINE lo == buffer.hi
             s == Single(Plain, lo, lo + n)
  <2>1. lo \in Nat /\ lo + n \in Nat /\ buffer.lo = lo
    BY <1>2 DEF TypeOK, Interval, PassThrough, Empty
  <2>2. /\ r.buffer = [lo |-> lo + n, hi |-> lo + n]
        /\ r.out = IF n = 0 THEN <<>> ELSE s
        /\ r.ok = TRUE
    BY <1>2 DEF EncodeStage, Result, Single
  <2>3. r.buffer \in Interval /\ Empty(r.buffer) /\ r.buffer.lo = lo + n
    BY <2>1, <2>2 DEF Interval, Empty
  <2> HIDE DEF lo, s
  <2>4. CASE n = 0
    <3>1. r.out = <<>> /\ r.buffer.lo = lo /\ Len(r.out) = 0
      BY <2>1, <2>2, <2>3, <2>4
    <3>2. r.out \in Seq(Segment) /\ Ordered(r.out, lo, lo) /\ Gapless(r.out, lo, lo)
      BY <2>1, <3>1, NothingTiles
    <3>3. StageCovers(r)
      BY <2>1, <2>2, <2>3, <3>1, <3>2 DEF StageCovers
    <3>4. StageKinds(r)
      BY <1>2, <3>1 DEF StageKinds
    <3>5. StageSizes(r)
      BY <1>2, <2>3 DEF StageSizes
    <3> QED
      BY <3>3, <3>4, <3>5 DEF GoodStage
  <2>5. CASE n # 0
    <3>1. r.out = s /\ lo < lo + n
      BY <2>1, <2>2, <2>5
    <3>2. /\ s \in Seq(Segment) /\ Len(s) = 1 /\ s[1].kind = Plain
          /\ Tiles(s, lo, lo + n)
      BY <2>1, <3>1, SingleTiles, ZenonT(60) DEF s
    <3>3. StageCovers(r)
      BY <2>1, <2>2, <2>3, <3>1, <3>2 DEF StageCovers, Tiles
    <3>4. StageKinds(r)
      BY <1>2, <3>1, <3>2 DEF StageKinds
    <3>5. StageSizes(r)
      BY <1>2, <2>3 DEF StageSizes
    <3> QED
      BY <3>3, <3>4, <3>5 DEF GoodStage
  <2> QED
    BY <2>4, <2>5
<1> QED
  BY <1>1, <1>2

LEMMA FinishStageGood ==
  ASSUME TypeOK, PassThrough, ShortBuffer, NEW r \in FinishStage
  PROVE  GoodStage(r) /\ Empty(r.buffer)
<1>1. buffer.lo \in Nat /\ buffer.hi \in Nat /\ buffer.lo <= buffer.hi
  BY DEF TypeOK, Interval
<1>2. r.buffer = [lo |-> buffer.hi, hi |-> buffer.hi]
  BY DEF FinishStage, Result
<1>3. /\ r.buffer \in Interval /\ r.buffer.lo = buffer.hi
      /\ Empty(r.buffer) /\ Size(r.buffer) < BlockSize
  BY <1>1, <1>2, BlockSizeAssumption DEF Interval, Empty, Size
<1>4. CASE r.out = <<>> /\ r.ok \in BOOLEAN /\ (r.ok => Empty(buffer))
  <2>1. r.out \in Seq(Segment) /\ Ordered(r.out, buffer.lo, buffer.hi) /\ Len(r.out) = 0
    BY <1>1, <1>4, NothingTiles
  <2>2. r.ok => Gapless(r.out, buffer.lo, buffer.hi)
    BY <1>1, <1>4, NothingTiles DEF Empty
  <2>3. StageCovers(r)
    BY <1>3, <1>4, <2>1, <2>2 DEF StageCovers
  <2>4. StageKinds(r)
    BY <2>1 DEF StageKinds
  <2>5. StageSizes(r)
    BY <1>3, <2>1 DEF StageSizes
  <2> QED
    BY <1>3, <2>3, <2>4, <2>5 DEF GoodStage
<1>5. CASE /\ ~Empty(buffer) /\ r.ok = TRUE
           /\ r.out = Single(config.compress, buffer.lo, buffer.hi)
  <2>1. /\ config.compress \in CompressionAlgo /\ config.compress # None
        /\ buffer.lo < buffer.hi
    BY <1>1, <1>5, ConfigType DEF PassThrough, Empty
  <2>2. /\ r.out \in Seq(Segment) /\ Len(r.out) = 1
        /\ r.out[1].kind = config.compress /\ Size(r.out[1]) = Size(buffer)
        /\ Tiles(r.out, buffer.lo, buffer.hi)
    BY <1>1, <1>5, <2>1, SingleTiles DEF Size
  <2>3. intact => Size(buffer) <= BlockSize
    BY <1>1, <2>1, BlockSizeAssumption DEF ShortBuffer, Size
  <2>4. StageCovers(r)
    BY <1>3, <1>5, <2>2 DEF StageCovers, Tiles
  <2>5. StageKinds(r)
    BY <2>1, <2>2 DEF StageKinds
  <2>6. StageSizes(r)
    BY <1>3, <2>1, <2>2, <2>3 DEF StageSizes
  <2> QED
    BY <1>3, <2>4, <2>5, <2>6 DEF GoodStage
<1>6. \/ /\ Empty(buffer)
         /\ r = Result(buffer.hi, buffer.hi, <<>>, TRUE)
      \/ /\ ~Empty(buffer)
         /\ \/ r = Result(buffer.hi, buffer.hi,
                          Single(config.compress, buffer.lo, buffer.hi), TRUE)
            \/ r = Result(buffer.hi, buffer.hi, <<>>, FALSE)
  BY DEF FinishStage, Single
<1>7. CASE Empty(buffer) /\ r = Result(buffer.hi, buffer.hi, <<>>, TRUE)
  <2>1. r.out = <<>> /\ r.ok = TRUE
    BY <1>7 DEF Result
  <2> QED
    BY <1>4, <1>7, <2>1
<1>8. CASE /\ ~Empty(buffer)
           /\ r = Result(buffer.hi, buffer.hi,
                        Single(config.compress, buffer.lo, buffer.hi), TRUE)
  <2>1. r.out = Single(config.compress, buffer.lo, buffer.hi) /\ r.ok = TRUE
    BY <1>8 DEF Result
  <2> QED
    BY <1>5, <1>8, <2>1
<1>9. CASE r = Result(buffer.hi, buffer.hi, <<>>, FALSE)
  <2>1. r.out = <<>> /\ r.ok = FALSE
    BY <1>9 DEF Result
  <2> QED
    BY <1>4, <2>1
<1> QED
  BY <1>6, <1>7, <1>8, <1>9

------------------------------------------------------------------------------
(* What a call appends to the wire.                                         *)

\* A block of the AEAD layer is whole.
WholeBody(f) ==
  IsSealed(f) =>
    /\ Tiles(f.body, Lo(f), Hi(f))
    /\ IF config.compress = None
       THEN Len(f.body) = 1 /\ f.body[1].kind = Plain
       ELSE \A k \in 1..Len(f.body) : f.body[k].kind = config.compress

\* A frame's compressed blocks are not larger than BlockSize.
SmallBlocks(f) ==
  \A k \in 1..Len(Segments(f)) :
    Segments(f)[k].kind # Plain => Size(Segments(f)[k]) <= BlockSize

\* The frames t behind what is on the wire, as a call may put them there.
Appends(t) ==
  /\ t \in Seq(Frame)
  /\ output' = output \o t
  /\ Ordered(t, buffer.lo, buffer'.lo)
  /\ ret'.ok => Gapless(t, buffer.lo, buffer'.lo)
  /\ \A i \in 1..Len(t) : WholeBody(t[i]) /\ (intact => SmallBlocks(t[i]))
  /\ \A i \in 1..Len(t) :
       IsSealed(t[i]) => t[i].nonce = drawn /\ drawn' = drawn + 1 /\ Len(t) = 1

\* What Chain says of the rest of the state.
CallEffect(op, r) ==
  /\ buffer' = r.buffer
  /\ config' = config /\ built' = built
  /\ drawn' \in {drawn, drawn + 1}
  /\ stats' \in [nonces_issued : Nat, sealed_bytes : Nat]
  /\ \E ok \in BOOLEAN : /\ ret' = [op |-> op, ok |-> ok]
                         /\ intact' = (intact /\ ok)
                         /\ ok => r.ok

\* An AEAD block over a run of segments.
SealedFrame(body) ==
  [kind |-> config.encrypt, key |-> config.key, nonce |-> drawn, body |-> body]

LEMMA SealedTiles ==
  ASSUME TypeOK, config.encrypt # None,
         NEW body \in Seq(Segment), body # <<>>,
         NEW a \in Int, NEW b \in Int, Tiles(body, a, b)
  PROVE  /\ SealedFrame(body) \in Frame
         /\ IsSealed(SealedFrame(body))
         /\ Lo(SealedFrame(body)) = a /\ Hi(SealedFrame(body)) = b
         /\ Tiles(<<SealedFrame(body)>>, a, b)
         /\ BodyLen(body) \in Nat
<1> DEFINE f == SealedFrame(body)
<1>1. /\ f.kind = config.encrypt /\ f.key = config.key
      /\ f.nonce = drawn /\ f.body = body
      /\ f = [kind |-> config.encrypt, key |-> config.key,
              nonce |-> drawn, body |-> body]
  BY DEF SealedFrame
<1>2. config.encrypt \in Cipher /\ config.key \in Keys /\ drawn \in Nat
  BY ConfigType DEF TypeOK
<1>3. f \in Frame /\ IsSealed(f)
  BY <1>1, <1>2 DEF SealedFrame, Frame, Sealed, IsSealed
<1> HIDE DEF f
<1>4. body \in Seq(Frame) /\ Len(body) \in Nat \ {0}
      /\ body[1] \in Segment /\ body[Len(body)] \in Segment
  BY SegmentsAreFrames
<1>5. Lo(body[1]) = a /\ Hi(body[Len(body)]) = b /\ a < b
  BY <1>4, TilesEnds
<1>6. /\ Lo(body[1]) = body[1].lo
      /\ Hi(body[1]) = body[1].hi
      /\ Hi(body[Len(body)]) = body[Len(body)].hi
      /\ body[1].lo \in Nat /\ body[1].hi \in Nat
  BY <1>4, SegmentEnds
<1>7. Lo(f) = a /\ Hi(f) = b
  BY <1>1, <1>3, <1>5, <1>6 DEF Lo, Hi
<1>8. Tiles(<<f>>, a, b)
  BY <1>3, <1>5, <1>7, OneTiles
<1>9. BodyLen(body) \in Nat
  <2>1. body[1].lo < body[1].hi
    BY <1>4, <1>6 DEF Tiles, Ordered
  <2>2. Len(body) * (HeaderLen + PackedLen) \in Nat
    BY <1>4, PackedLenAssumption DEF HeaderLen
  <2> QED
    BY <1>6, <2>1, <2>2 DEF BodyLen
<1> QED
  BY <1>3, <1>7, <1>8, <1>9 DEF f

\* The blocks of a stage are small, and so are those of a frame that holds them.
LEMMA StageFrames ==
  ASSUME TypeOK, NEW r, GoodStage(r), intact,
         NEW i \in 1..Len(r.out)
  PROVE  r.out[i].kind # Plain => Size(r.out[i]) <= BlockSize
<1>1. CASE config.compress = None
  BY <1>1 DEF GoodStage, StageKinds
<1>2. CASE config.compress # None
  BY <1>2 DEF GoodStage, StageSizes
<1> QED
  BY <1>1, <1>2

\* A run of at most one segment that is not empty.
LEMMA AtMostOne ==
  ASSUME NEW s \in Seq(Segment), s # <<>>, Len(s) <= 1
  PROVE  Len(s) = 1
<1> DEFINE n == Len(s)
<1>1. n \in Nat /\ n # 0 /\ n <= 1
  OBVIOUS
<1> HIDE DEF n
<1>2. n = 1
  BY <1>1
<1> QED
  BY <1>2 DEF n

\* A call appends one run of frames behind the wire, in its place, and without a
\* gap when it returns Ok.
LEMMA ChainAppends ==
  ASSUME IInv, NEW op, NEW r, GoodStage(r), Chain(op, r)
  PROVE  CallEffect(op, r) /\ \E t : Appends(t)
<1>1. /\ TypeOK
      /\ buffer' = r.buffer /\ config' = config /\ built' = built
      /\ r.out \in Seq(Segment) /\ r.out \in Seq(Frame) /\ r.ok \in BOOLEAN
      /\ buffer.lo \in Nat /\ buffer'.lo \in Nat
      /\ drawn \in Nat /\ output \in Seq(Frame)
      /\ stats \in [nonces_issued : Nat, sealed_bytes : Nat]
  BY SegmentsAreFrames DEF IInv, TypeOK, Interval, Chain, GoodStage, StageCovers
<1>2. /\ Ordered(r.out, buffer.lo, buffer'.lo)
      /\ r.ok => Gapless(r.out, buffer.lo, buffer'.lo)
      /\ buffer.lo <= buffer'.lo
  BY <1>1 DEF GoodStage, StageCovers, Ordered
<1>3. CASE /\ config.encrypt = None
           /\ output' = output \o r.out
           /\ UNCHANGED <<stats, drawn>>
           /\ Returned(op, r.ok)
  <2>1. CallEffect(op, r)
    BY <1>1, <1>3 DEF CallEffect, Returned
  <2>2. ret'.ok = r.ok
    BY <1>3 DEF Returned
  <2>3. ASSUME NEW i \in 1..Len(r.out)
        PROVE  /\ ~IsSealed(r.out[i])
               /\ WholeBody(r.out[i])
               /\ intact => SmallBlocks(r.out[i])
    <3>1. r.out[i] \in Segment
      BY <1>1
    <3>2. ~IsSealed(r.out[i])
      BY <3>1, SegmentEnds
    <3>3. Segments(r.out[i]) = <<r.out[i]>>
      BY <3>2 DEF Segments
    <3>4. intact => (r.out[i].kind # Plain => Size(r.out[i]) <= BlockSize)
      BY <1>1, StageFrames
    <3> QED
      BY <3>2, <3>3, <3>4 DEF WholeBody, SmallBlocks
  <2>4. Appends(r.out)
    BY <1>1, <1>2, <1>3, <2>2, <2>3 DEF Appends
  <2> QED
    BY <2>1, <2>4
<1>4. CASE /\ ~r.ok \/ r.out = <<>>
           /\ UNCHANGED <<output, stats, drawn>>
           /\ Returned(op, r.ok)
  <2>1. CallEffect(op, r)
    BY <1>1, <1>4 DEF CallEffect, Returned
  <2>2. ret'.ok = r.ok
    BY <1>4 DEF Returned
  <2>3. output' = output \o <<>> /\ <<>> \in Seq(Frame) /\ Len(<<>>) = 0
    BY <1>1, <1>4
  <2>4. Ordered(<<>>, buffer.lo, buffer'.lo)
    BY <1>1, <1>2, NothingTiles
  <2>5. r.ok => Gapless(<<>>, buffer.lo, buffer'.lo)
    BY <1>2, <1>4
  <2>6. Appends(<<>>)
    BY <2>2, <2>3, <2>4, <2>5 DEF Appends
  <2> QED
    BY <2>1, <2>6
<1>5. CASE SealFails /\ Returned(op, FALSE)
  <2>1. CallEffect(op, r)
    BY <1>1, <1>5 DEF CallEffect, Returned, SealFails
  <2>2. ret'.ok = FALSE
    BY <1>5 DEF Returned
  <2>3. output' = output \o <<>> /\ <<>> \in Seq(Frame) /\ Len(<<>>) = 0
    BY <1>1, <1>5 DEF SealFails
  <2>4. Ordered(<<>>, buffer.lo, buffer'.lo)
    BY <1>1, <1>2, NothingTiles
  <2>5. Appends(<<>>)
    BY <2>2, <2>3, <2>4 DEF Appends
  <2> QED
    BY <2>1, <2>5
<1>6. CASE /\ config.encrypt # None /\ r.ok /\ r.out # <<>>
           /\ Seal(r.out) /\ Returned(op, TRUE)
  <2> DEFINE f == SealedFrame(r.out)
             t == <<f>>
  <2>1. Tiles(r.out, buffer.lo, buffer'.lo)
    BY <1>2, <1>6 DEF Tiles
  <2>2. /\ f \in Frame /\ IsSealed(f)
        /\ Lo(f) = buffer.lo /\ Hi(f) = buffer'.lo
        /\ Tiles(t, buffer.lo, buffer'.lo)
        /\ BodyLen(r.out) \in Nat
    BY <1>1, <1>6, <2>1, SealedTiles
  <2>3. f.nonce = drawn /\ f.body = r.out /\ Segments(f) = r.out
    BY <2>2 DEF SealedFrame, Segments
  <2>4. output' = Append(output, f) /\ drawn' = drawn + 1
    BY <1>6 DEF Seal, new_nonce, SealedFrame
  <2>5. stats' \in [nonces_issued : Nat, sealed_bytes : Nat]
    BY <1>1, <1>6, <2>2 DEF Seal, new_nonce
  <2>6. ret' = [op |-> op, ok |-> TRUE] /\ intact' = (intact /\ TRUE)
    BY <1>6 DEF Returned
  <2>7. CallEffect(op, r)
    BY <1>1, <1>6, <2>4, <2>5, <2>6 DEF CallEffect
  <2>8. WholeBody(f)
    <3>1. CASE config.compress = None
      <4>1. r.out \in Seq(Segment) /\ r.out # <<>>
        BY <1>1, <1>6
      <4>2. Len(r.out) <= 1
        BY <3>1 DEF GoodStage, StageKinds
      <4>3. Len(r.out) = 1
        BY <4>1, <4>2, AtMostOne
      <4>4. \A k \in 1..Len(r.out) : r.out[k].kind = Plain
        BY <3>1 DEF GoodStage, StageKinds
      <4>5. r.out[1].kind = Plain
        BY <4>3, <4>4
      <4> QED
        BY <2>1, <2>2, <2>3, <3>1, <4>3, <4>5 DEF WholeBody
    <3>2. CASE config.compress # None
      <4>1. \A k \in 1..Len(r.out) : r.out[k].kind = config.compress
        BY <3>2 DEF GoodStage, StageKinds
      <4> QED
        BY <2>1, <2>2, <2>3, <3>2, <4>1 DEF WholeBody
    <3> QED
      BY <3>1, <3>2
  <2>9. intact => SmallBlocks(f)
    BY <1>1, <2>3, StageFrames DEF SmallBlocks
  <2> HIDE DEF f
  <2>10. t \in Seq(Frame) /\ Len(t) = 1 /\ t[1] = f /\ output' = output \o t
    BY <1>1, <2>2, <2>4
  <2>11. ASSUME NEW i \in 1..Len(t)
         PROVE  t[i] = f
    BY <2>10
  <2>12. Ordered(t, buffer.lo, buffer'.lo) /\ Gapless(t, buffer.lo, buffer'.lo)
    BY <2>2 DEF Tiles
  <2> HIDE DEF t
  <2>13. Appends(t)
    BY <2>2, <2>3, <2>4, <2>8, <2>9, <2>10, <2>11, <2>12 DEF Appends
  <2> QED
    BY <2>7, <2>13
<1> QED
  BY <1>3, <1>4, <1>5, <1>6 DEF Chain

------------------------------------------------------------------------------
(* The invariant is kept.                                                   *)

\* Every frame of s \o t is a frame of s or a frame of t.
LEMMA ConcatFrames ==
  ASSUME NEW s \in Seq(Frame), NEW t \in Seq(Frame)
  PROVE  /\ s \o t \in Seq(Frame)
         /\ Len(s \o t) = Len(s) + Len(t)
         /\ Len(s) \in Nat /\ Len(t) \in Nat
         /\ \A i \in 1..Len(s \o t) :
              \/ i \in 1..Len(s) /\ (s \o t)[i] = s[i]
              \/ /\ i - Len(s) \in 1..Len(t) /\ i > Len(s)
                 /\ (s \o t)[i] = t[i - Len(s)]
OBVIOUS

\* The invariant in terms of single frames.
LEMMA PerFrame ==
  /\ SealedBodiesWhole <=> \A i \in 1..Len(output) : WholeBody(output[i])
  /\ BlocksBounded <=> (intact => \A i \in 1..Len(output) : SmallBlocks(output[i]))
BY DEF SealedBodiesWhole, WholeBody, BlocksBounded, SmallBlocks

\* The nonce of a sealed frame is the number of a draw.
LEMMA SealedNonce ==
  ASSUME NEW f \in Frame, IsSealed(f)
  PROVE  f.nonce \in Nat
BY SegmentEnds DEF Frame, Sealed

\* A step that appends frames as a call does keeps what the invariant says of
\* the wire.
LEMMA AppendKeepsWire ==
  ASSUME IInv, NEW op, NEW r, GoodStage(r), CallEffect(op, r),
         NEW t, Appends(t)
  PROVE  /\ output' \in Seq(Frame)
         /\ Len(output) <= Len(output') /\ Len(output') \in Nat
         /\ WireOrdered'
         /\ SealedBodiesWhole'
         /\ GaplessWhileIntact'
         /\ BlocksBounded'
         /\ NonceDrawn'
         /\ NonceUnique'
<1> DEFINE u == output \o t
<1>1. /\ output \in Seq(Frame) /\ t \in Seq(Frame) /\ output' = u
      /\ config' = config /\ drawn \in Nat /\ drawn' \in {drawn, drawn + 1}
      /\ buffer.lo \in Nat
  BY DEF IInv, TypeOK, Interval, Appends, CallEffect
<1>2. /\ u \in Seq(Frame)
      /\ Len(u) = Len(output) + Len(t)
      /\ Len(output) \in Nat /\ Len(t) \in Nat
      /\ \A i \in 1..Len(u) :
           \/ i \in 1..Len(output) /\ u[i] = output[i]
           \/ i - Len(output) \in 1..Len(t) /\ i > Len(output) /\ u[i] = t[i - Len(output)]
  BY <1>1, ConcatFrames
<1>3. intact' => intact /\ ret'.ok
  <2>1. PICK ok \in BOOLEAN : /\ ret' = [op |-> op, ok |-> ok]
                             /\ intact' = (intact /\ ok)
    BY DEF CallEffect
  <2>2. ret'.ok = ok
    BY <2>1
  <2>3. intact' => intact /\ ok
    BY <2>1
  <2> QED
    BY <2>2, <2>3
<1>4. Ordered(output, 0, buffer.lo) /\ Ordered(t, buffer.lo, buffer'.lo)
  BY DEF IInv, WireOrdered, Appends
<1>5. buffer'.lo \in Nat
  BY DEF CallEffect, GoodStage, StageCovers, Interval
<1>6. \A i \in 1..Len(t) :
        /\ WholeBody(t[i]) /\ (intact => SmallBlocks(t[i]))
        /\ IsSealed(t[i]) => t[i].nonce = drawn /\ drawn' = drawn + 1 /\ Len(t) = 1
  BY DEF Appends
<1> HIDE DEF u
<1>7. WireOrdered'
  <2>1. Ordered(u, 0, buffer'.lo)
    BY <1>1, <1>4, <1>5, OrderedConcat DEF u
  <2> QED
    BY <1>1, <2>1 DEF WireOrdered
<1>8. GaplessWhileIntact'
  <2>1. SUFFICES ASSUME intact'
                 PROVE  Tiles(u, 0, buffer'.lo)
    BY <1>1 DEF GaplessWhileIntact
  <2>2. Gapless(output, 0, buffer.lo) /\ Gapless(t, buffer.lo, buffer'.lo)
    BY <1>3, <2>1 DEF IInv, GaplessWhileIntact, Tiles, Appends
  <2>3. Gapless(u, 0, buffer'.lo)
    BY <1>1, <2>2, GaplessConcat DEF u
  <2> QED
    BY <1>1, <1>7, <2>3 DEF Tiles, WireOrdered
<1>9. SealedBodiesWhole'
  <2>1. \A i \in 1..Len(output) : WholeBody(output[i])
    BY PerFrame DEF IInv
  <2>2. \A i \in 1..Len(u) : WholeBody(u[i])
    BY <1>2, <1>6, <2>1
  <2> QED
    BY <1>1, <2>2 DEF SealedBodiesWhole, WholeBody
<1>10. BlocksBounded'
  <2>1. SUFFICES ASSUME intact'
                 PROVE  \A i \in 1..Len(u) : SmallBlocks(u[i])
    BY <1>1 DEF BlocksBounded, SmallBlocks
  <2>2. \A i \in 1..Len(output) : SmallBlocks(output[i])
    BY <1>3, <2>1, PerFrame DEF IInv
  <2>3. \A i \in 1..Len(t) : SmallBlocks(t[i])
    BY <1>3, <1>6, <2>1
  <2> QED
    BY <1>2, <2>2, <2>3
<1>11. \A i \in 1..Len(output) :
         /\ output[i] \in Frame
         /\ IsSealed(output[i]) => output[i].nonce < drawn
  BY <1>1 DEF IInv, NonceDrawn
<1>12. NonceDrawn'
  <2>1. SUFFICES ASSUME NEW i \in 1..Len(u), IsSealed(u[i])
                 PROVE  u[i].nonce < drawn'
    BY <1>1 DEF NonceDrawn
  <2>2. CASE i \in 1..Len(output) /\ u[i] = output[i]
    <3>1. u[i].nonce < drawn /\ u[i].nonce \in Nat
      BY <1>11, <2>1, <2>2, SealedNonce
    <3> QED
      BY <1>1, <3>1
  <2>3. CASE i - Len(output) \in 1..Len(t) /\ u[i] = t[i - Len(output)]
    BY <1>1, <1>6, <2>1, <2>3
  <2> QED
    BY <1>2, <2>2, <2>3
<1>13. NonceUnique'
  <2>1. SUFFICES ASSUME NEW i \in 1..Len(u), NEW j \in 1..Len(u), i < j,
                        IsSealed(u[i]), IsSealed(u[j]), u[i].key = u[j].key
                 PROVE  u[i].nonce # u[j].nonce
    BY <1>1 DEF NonceUnique
  <2>2. CASE j \in 1..Len(output) /\ u[j] = output[j]
    <3>1. i \in 1..Len(output) /\ u[i] = output[i]
      BY <1>2, <2>1, <2>2
    <3> QED
      BY <2>1, <2>2, <3>1 DEF IInv, NonceUnique
  <2>3. CASE /\ j - Len(output) \in 1..Len(t) /\ j > Len(output)
             /\ u[j] = t[j - Len(output)]
    <3>1. u[j].nonce = drawn /\ Len(t) = 1
      BY <1>6, <2>1, <2>3
    <3>2. i \in 1..Len(output) /\ u[i] = output[i]
      BY <1>2, <2>1, <2>3, <3>1
    <3>3. u[i].nonce < drawn /\ u[i].nonce \in Nat
      BY <1>11, <2>1, <3>2, SealedNonce
    <3> QED
      BY <1>1, <3>1, <3>3
  <2> QED
    BY <1>2, <2>2, <2>3
<1> QED
  BY <1>1, <1>2, <1>7, <1>8, <1>9, <1>10, <1>12, <1>13

\* encode and finish return what GoodStage describes.
LEMMA CallIsGood ==
  ASSUME IInv, NEW op, NEW r,
         \/ op = "encode" /\ \E n \in 0..MaxInput : r \in EncodeStage(n)
         \/ op = "finish" /\ r \in FinishStage
  PROVE  GoodStage(r) /\ (op = "finish" => Empty(r.buffer))
<1>1. TypeOK /\ PassThrough /\ ShortBuffer
  BY DEF IInv
<1>2. CASE op = "encode" /\ \E n \in 0..MaxInput : r \in EncodeStage(n)
  <2>1. PICK n \in 0..MaxInput : r \in EncodeStage(n)
    BY <1>2
  <2>2. n \in Nat
    BY BoundsAssumption
  <2> QED
    BY <1>1, <1>2, <2>1, <2>2, EncodeStageGood
<1>3. CASE op = "finish" /\ r \in FinishStage
  BY <1>1, <1>3, FinishStageGood
<1> QED
  BY <1>2, <1>3

LEMMA CallKeepsIInv ==
  ASSUME IInv, NEW op \in {"encode", "finish"}, NEW r, Chain(op, r), GoodStage(r),
         op = "finish" => Empty(r.buffer)
  PROVE  IInv'
<1>1. CallEffect(op, r)
  BY ChainAppends
<1>2. PICK t : Appends(t)
  BY ChainAppends
<1>3. /\ output' \in Seq(Frame)
      /\ Len(output) <= Len(output') /\ Len(output') \in Nat
      /\ WireOrdered' /\ SealedBodiesWhole' /\ GaplessWhileIntact'
      /\ BlocksBounded' /\ NonceDrawn' /\ NonceUnique'
  BY <1>1, <1>2, AppendKeepsWire
<1>4. /\ TypeOK /\ buffer' = r.buffer /\ config' = config /\ built' = built
      /\ drawn' \in {drawn, drawn + 1}
      /\ stats' \in [nonces_issued : Nat, sealed_bytes : Nat]
      /\ r.buffer \in Interval
  BY <1>1 DEF IInv, CallEffect, GoodStage, StageCovers
<1>5. PICK ok \in BOOLEAN : /\ ret' = [op |-> op, ok |-> ok]
                            /\ intact' = (intact /\ ok)
                            /\ ok => r.ok
  BY <1>1 DEF CallEffect
<1>6. ret'.op = op /\ ret'.ok = ok
  BY <1>5
<1>7. intact' => ok
  BY <1>5
<1>8. TypeOK'
  <2>1. config' \in Configs /\ buffer' \in Interval /\ drawn' \in Nat
    BY <1>4 DEF TypeOK
  <2>2. built' \in 0..Len(output')
    BY <1>3, <1>4 DEF TypeOK
  <2>3. intact' \in BOOLEAN
    BY <1>5
  <2>4. ret' \in [op : {"build", "encode", "finish"}, ok : BOOLEAN]
    BY <1>5
  <2> QED
    BY <1>3, <1>4, <2>1, <2>2, <2>3, <2>4 DEF TypeOK
<1>9. BufferBounded'
  BY <1>4, <1>5, <1>6 DEF BufferBounded, GoodStage, StageSizes
<1>10. PassThrough'
  BY <1>4 DEF PassThrough, GoodStage, StageSizes
<1>11. ShortBuffer'
  BY <1>4, <1>5, <1>7 DEF ShortBuffer, GoodStage, StageSizes
<1>12. FinishEmpties'
  BY <1>4, <1>6 DEF FinishEmpties
<1> QED
  BY <1>3, <1>8, <1>9, <1>10, <1>11, <1>12 DEF IInv

LEMMA RebuildKeepsIInv ==
  ASSUME IInv, Rebuild
  PROVE  IInv'
<1>1. /\ config' = config /\ output' = output /\ drawn' = drawn
      /\ buffer' = [lo |-> buffer.hi, hi |-> buffer.hi]
      /\ stats' = [nonces_issued |-> 0, sealed_bytes |-> 0]
      /\ built' = Len(output)
      /\ intact' = (intact /\ Empty(buffer))
      /\ ret' = [op |-> "build", ok |-> TRUE]
  BY DEF Rebuild
<1>2. /\ buffer.lo \in Nat /\ buffer.hi \in Nat /\ buffer.lo <= buffer.hi
      /\ output \in Seq(Frame) /\ Len(output) \in Nat
  BY DEF IInv, TypeOK, Interval
<1>3. buffer' \in Interval /\ buffer'.lo = buffer.hi /\ Empty(buffer')
      /\ Size(buffer') < BlockSize
  BY <1>1, <1>2, BlockSizeAssumption DEF Interval, Empty, Size
<1>4. intact' => intact
  BY <1>1
<1>5. intact' => buffer'.lo = buffer.lo
  <2>1. intact' => Empty(buffer)
    BY <1>1
  <2> QED
    BY <1>3, <2>1 DEF Empty
<1>6. TypeOK'
  <2>1. intact' \in BOOLEAN
    BY <1>1
  <2>2. built' \in 0..Len(output')
    BY <1>1, <1>2
  <2> QED
    BY <1>1, <1>3, <2>1, <2>2 DEF IInv, TypeOK
<1>7. WireOrdered'
  <2>1. Ordered(output, 0, buffer.lo)
    BY DEF IInv, WireOrdered
  <2>2. Ordered(output, 0, buffer.hi)
    BY <1>2, <2>1, OrderedWiden
  <2> QED
    BY <1>1, <1>3, <2>2 DEF WireOrdered
<1>8. GaplessWhileIntact'
  BY <1>1, <1>4, <1>5 DEF IInv, GaplessWhileIntact
<1>9. SealedBodiesWhole' /\ NonceDrawn' /\ NonceUnique'
  BY <1>1 DEF IInv, SealedBodiesWhole, NonceDrawn, NonceUnique
<1>10. BlocksBounded'
  BY <1>1, <1>4 DEF IInv, BlocksBounded
<1>11. BufferBounded' /\ PassThrough' /\ ShortBuffer' /\ FinishEmpties'
  BY <1>3 DEF BufferBounded, PassThrough, ShortBuffer, FinishEmpties
<1> QED
  BY <1>6, <1>7, <1>8, <1>9, <1>10, <1>11 DEF IInv

LEMMA InitIInv == Init => IInv
<1> SUFFICES ASSUME Init PROVE IInv
  OBVIOUS
<1>1. /\ config \in Configs /\ buffer = [lo |-> 0, hi |-> 0] /\ output = <<>>
      /\ stats = [nonces_issued |-> 0, sealed_bytes |-> 0]
      /\ drawn = 0 /\ built = 0 /\ intact = TRUE
      /\ ret = [op |-> "build", ok |-> TRUE]
  BY DEF Init
<1>2. buffer \in Interval /\ buffer.lo = 0 /\ Empty(buffer) /\ Size(buffer) < BlockSize
  BY <1>1, BlockSizeAssumption DEF Interval, Empty, Size
<1>3. Len(output) = 0 /\ output \in Seq(Frame)
  BY <1>1
<1>4. TypeOK
  BY <1>1, <1>2, <1>3 DEF TypeOK
<1>5. WireOrdered
  BY <1>1, <1>2, NothingTiles DEF WireOrdered
<1>6. GaplessWhileIntact
  BY <1>1, <1>2, NothingTiles DEF GaplessWhileIntact, Tiles
<1>7. SealedBodiesWhole /\ BlocksBounded /\ NonceUnique /\ NonceDrawn
  BY <1>3 DEF SealedBodiesWhole, BlocksBounded, NonceUnique, NonceDrawn
<1>8. BufferBounded /\ PassThrough /\ ShortBuffer /\ FinishEmpties
  BY <1>2 DEF BufferBounded, PassThrough, ShortBuffer, FinishEmpties
<1> QED
  BY <1>4, <1>5, <1>6, <1>7, <1>8 DEF IInv

\* Every step keeps the invariant.
LEMMA NextIInv == IInv /\ [Next]_vars => IInv'
<1> SUFFICES ASSUME IInv, [Next]_vars PROVE IInv'
  OBVIOUS
<1>1. ASSUME NEW n \in 0..MaxInput, Encode(n)
      PROVE  IInv'
  <2>1. PICK r \in EncodeStage(n) : Chain("encode", r)
    BY <1>1 DEF Encode
  <2>2. GoodStage(r)
    BY <2>1, CallIsGood
  <2> QED
    BY <2>1, <2>2, CallKeepsIInv
<1>2. CASE Finish
  <2>1. PICK r \in FinishStage : Chain("finish", r)
    BY <1>2 DEF Finish
  <2>2. GoodStage(r) /\ Empty(r.buffer)
    BY <2>1, CallIsGood
  <2> QED
    BY <2>1, <2>2, CallKeepsIInv
<1>3. CASE Rebuild
  BY <1>3, RebuildKeepsIInv
<1>4. CASE UNCHANGED vars
  <2> USE <1>4 DEF vars
  <2>1. TypeOK' /\ WireOrdered' /\ SealedBodiesWhole' /\ GaplessWhileIntact'
    BY DEF IInv, TypeOK, WireOrdered, SealedBodiesWhole, GaplessWhileIntact
  <2>2. BufferBounded' /\ BlocksBounded' /\ NonceUnique' /\ NonceDrawn'
    BY DEF IInv, BufferBounded, BlocksBounded, NonceUnique, NonceDrawn
  <2>3. PassThrough' /\ ShortBuffer' /\ FinishEmpties'
    BY DEF IInv, PassThrough, ShortBuffer, FinishEmpties
  <2> QED
    BY <2>1, <2>2, <2>3 DEF IInv
<1> QED
  BY <1>1, <1>2, <1>3, <1>4 DEF Next

------------------------------------------------------------------------------
(* Invariants of the specification.                                         *)

\* The inductive invariant holds in every reachable state.
THEOREM InvariantHolds == Spec => []IInv
<1> QED
  BY InitIInv, NextIInv, PTL DEF Spec

\* The encoder's state keeps its types: counters are natural numbers, frames are
\* frames, a sealed block is never empty.
THEOREM TypeCorrect == Spec => []TypeOK
<1>1. IInv => TypeOK
  BY DEF IInv
<1> QED
  BY <1>1, InvariantHolds, PTL

\* The wire is never reordered or repeated, and never ahead of the buffer.
THEOREM WireIsOrdered == Spec => []WireOrdered
<1>1. IInv => WireOrdered
  BY DEF IInv
<1> QED
  BY <1>1, InvariantHolds, PTL

\* Until a call fails or a filled buffer is dropped, no byte is missing.
THEOREM NoGapWhileIntact == Spec => []GaplessWhileIntact
<1>1. IInv => GaplessWhileIntact
  BY DEF IInv
<1> QED
  BY <1>1, InvariantHolds, PTL

\* An Ok finish has put every byte offered on the wire.
THEOREM FinishFlushesTail == Spec => []FinishedIsComplete
<1>1. IInv => FinishedIsComplete
  <2> SUFFICES ASSUME IInv, intact, ret = [op |-> "finish", ok |-> TRUE]
               PROVE  Tiles(output, 0, buffer.hi)
    BY DEF FinishedIsComplete
  <2>1. buffer.lo = buffer.hi
    BY DEF IInv, FinishEmpties, Empty
  <2> QED
    BY <2>1 DEF IInv, GaplessWhileIntact
<1> QED
  BY <1>1, InvariantHolds, PTL

\* AEAD blocks are whole and of one make, whatever fails.
THEOREM SealedWhole == Spec => []SealedBodiesWhole
<1>1. IInv => SealedBodiesWhole
  BY DEF IInv
<1> QED
  BY <1>1, InvariantHolds, PTL

\* After an Ok call less than a block is buffered.
THEOREM BufferStaysBounded == Spec => []BufferBounded
<1>1. IInv => BufferBounded
  BY DEF IInv
<1> QED
  BY <1>1, InvariantHolds, PTL

\* Without a failed call no block holds more than BlockSize bytes.
THEOREM BlocksStayBounded == Spec => []BlocksBounded
<1>1. IInv => BlocksBounded
  BY DEF IInv
<1> QED
  BY <1>1, InvariantHolds, PTL

\* No nonce is used twice under one key, for any number of encoders built one
\* after the other and any number of failed seals.
THEOREM NoncesUnique == Spec => []NonceUnique
<1>1. IInv => NonceUnique
  BY DEF IInv
<1> QED
  BY <1>1, InvariantHolds, PTL

------------------------------------------------------------------------------
(* Properties of steps.                                                     *)

\* What a call appended is the end of the wire.
LEMMA AppendedIs ==
  ASSUME output \in Seq(Frame), NEW t, Appends(t)
  PROVE  Appended = t
<1>1. t \in Seq(Frame) /\ output' = output \o t
  BY DEF Appends
<1>2. SubSeq(output \o t, Len(output) + 1, Len(output \o t)) = t
  BY <1>1
<1> QED
  BY <1>1, <1>2 DEF Appended

\* A call that returns Ok loses no byte between the buffer and the wire.
THEOREM OkLosesNothing == Spec => OkCallLosesNothing
<1>1. IInv /\ [Next]_vars
      => [ret'.op # "build" /\ ret'.ok => Tiles(Appended, buffer.lo, buffer'.lo)]_vars
  <2> SUFFICES ASSUME IInv, Next, ret'.op # "build", ret'.ok
               PROVE  Tiles(Appended, buffer.lo, buffer'.lo)
    OBVIOUS
  <2>1. ASSUME NEW op, NEW r, GoodStage(r), Chain(op, r)
        PROVE  Tiles(Appended, buffer.lo, buffer'.lo)
    <3>1. PICK t : Appends(t)
      BY <2>1, ChainAppends
    <3>2. Appended = t
      BY <3>1, AppendedIs DEF IInv, TypeOK
    <3> QED
      BY <3>1, <3>2 DEF Appends, Tiles
  <2>2. ~Rebuild
    BY DEF Rebuild
  <2>3. ASSUME NEW n \in 0..MaxInput, Encode(n)
        PROVE  Tiles(Appended, buffer.lo, buffer'.lo)
    BY <2>1, <2>3, CallIsGood DEF Encode
  <2>4. CASE Finish
    BY <2>1, <2>4, CallIsGood DEF Finish
  <2> QED
    BY <2>2, <2>3, <2>4 DEF Next
<1> QED
  BY <1>1, InvariantHolds, PTL DEF Spec, OkCallLosesNothing

\* With encryption a failed call leaves the wire and the counters alone.
THEOREM FailureSealsNothing == Spec => FailedCallSealsNothing
<1>1. [Next]_vars => [~ret'.ok /\ config.encrypt # None => UNCHANGED <<output, stats>>]_vars
  <2> SUFFICES ASSUME Next, ~ret'.ok, config.encrypt # None
               PROVE  UNCHANGED <<output, stats>>
    OBVIOUS
  <2>1. ~Rebuild
    BY DEF Rebuild
  <2>2. ASSUME NEW op, NEW r, Chain(op, r)
        PROVE  UNCHANGED <<output, stats>>
    BY <2>2 DEF Chain, Returned, SealFails
  <2> QED
    BY <2>1, <2>2 DEF Next, Encode, Finish
<1> QED
  BY <1>1, PTL DEF Spec, FailedCallSealsNothing

\* Without encryption a failed encode loses one block and no more.
THEOREM FailedFlushLosesOne == Spec => FailedFlushLosesOneBlock
<1>1. IInv /\ [Next]_vars
      => [ret'.op = "encode" /\ ~ret'.ok /\ config.encrypt = None
            => Tiles(Appended, buffer.lo, buffer'.lo - BlockSize)]_vars
  <2> SUFFICES ASSUME IInv, Next, ret'.op = "encode", ~ret'.ok, config.encrypt = None
               PROVE  Tiles(Appended, buffer.lo, buffer'.lo - BlockSize)
    OBVIOUS
  <2>1. ~Rebuild /\ ~Finish
    BY DEF Rebuild, Finish, Chain, Returned
  <2>2. PICK n \in 0..MaxInput : Encode(n)
    BY <2>1 DEF Next
  <2>3. PICK r \in EncodeStage(n) : Chain("encode", r)
    BY <2>2 DEF Encode
  <2>4. output' = output \o r.out /\ buffer' = r.buffer /\ ~r.ok
    BY <2>3 DEF Chain, Returned
  <2>5. config.compress # None /\ r \in Flush(buffer.lo, buffer.hi + n)
    BY <2>3, <2>4 DEF EncodeStage, Result
  <2> DEFINE full == FullBlocks(buffer.lo, buffer.hi + n)
  <2>6. PICK k \in 0..(full - 1) :
          r = Result(buffer.lo + (k + 1) * BlockSize, buffer.hi + n,
                     Blocks(config.compress, buffer.lo, k), FALSE)
    BY <2>4, <2>5 DEF Flush, Result
  <2>7. n \in Nat /\ k \in Nat /\ buffer.lo \in Nat /\ config.compress \in CompressionAlgo
    BY <2>5, BoundsAssumption, ConfigType DEF IInv, TypeOK, Interval
  <2>8. /\ r.out \in Seq(Segment)
        /\ Tiles(r.out, buffer.lo, buffer.lo + k * BlockSize)
    <3>1. r.out = Blocks(config.compress, buffer.lo, k)
      BY <2>6 DEF Result
    <3>2. /\ Blocks(config.compress, buffer.lo, k) \in Seq(Segment)
          /\ Tiles(Blocks(config.compress, buffer.lo, k),
                   buffer.lo, buffer.lo + k * BlockSize)
      BY <2>7, BlocksTile
    <3> QED
      BY <3>1, <3>2
  <2>9. buffer'.lo - BlockSize = buffer.lo + k * BlockSize
    <3>1. buffer'.lo = buffer.lo + (k + 1) * BlockSize
      BY <2>4, <2>6 DEF Result
    <3> QED
      BY <2>7, <3>1, Times, BlockSizeAssumption
  <2>10. Appended = r.out
    <3>1. output \in Seq(Frame) /\ r.out \in Seq(Frame)
      BY <2>8, SegmentsAreFrames DEF IInv, TypeOK
    <3>2. SubSeq(output \o r.out, Len(output) + 1, Len(output \o r.out)) = r.out
      BY <3>1
    <3> QED
      BY <2>4, <3>2 DEF Appended
  <2> QED
    BY <2>8, <2>9, <2>10
<1> QED
  BY <1>1, InvariantHolds, PTL DEF Spec, FailedFlushLosesOneBlock

------------------------------------------------------------------------------
(* The counters.                                                            *)

\* f holds the sums of the first numbers of v, up to the n-th.
Sums(f, v, n) == f = [m \in 0..n |-> IF m = 0 THEN 0 ELSE f[m - 1] + v[m]]

LEMMA SumsExist ==
  ASSUME NEW v, NEW n \in Nat
  PROVE  \E f : Sums(f, v, n)
<1> DEFINE T == {m \in Nat : \E f : Sums(f, v, m)}
<1>1. 0 \in T
  <2> DEFINE f == [m \in 0..0 |-> 0]
  <2>1. Sums(f, v, 0)
    BY DEF Sums
  <2> QED
    BY <2>1
<1>2. ASSUME NEW m \in Nat, m \in T
      PROVE  m + 1 \in T
  <2>1. PICK f : Sums(f, v, m)
    BY <1>2
  <2> DEFINE g == [j \in 0..(m + 1) |-> IF j = m + 1 THEN f[m] + v[m + 1] ELSE f[j]]
  <2>2. ASSUME NEW j \in 0..(m + 1)
        PROVE  g[j] = IF j = 0 THEN 0 ELSE g[j - 1] + v[j]
    <3>1. CASE j = m + 1
      <4>1. j - 1 = m /\ m \in 0..(m + 1) /\ m # m + 1 /\ j # 0
        BY <3>1
      <4> QED
        BY <3>1, <4>1
    <3>2. CASE j # m + 1 /\ j # 0
      <4>1. j \in 0..m /\ j - 1 \in 0..(m + 1) /\ j - 1 # m + 1
        BY <3>2
      <4>2. f[j] = f[j - 1] + v[j]
        BY <2>1, <3>2, <4>1 DEF Sums
      <4> QED
        BY <3>2, <4>1, <4>2
    <3>3. CASE j # m + 1 /\ j = 0
      <4>1. f[0] = 0
        BY <2>1 DEF Sums
      <4> QED
        BY <3>3, <4>1
    <3> QED
      BY <3>1, <3>2, <3>3
  <2>3. g = [j \in 0..(m + 1) |-> IF j = 0 THEN 0 ELSE g[j - 1] + v[j]]
    <3>1. g = [j \in 0..(m + 1) |-> g[j]]
      OBVIOUS
    <3> HIDE DEF g
    <3> QED
      BY <2>2, <3>1
  <2> HIDE DEF g
  <2>4. Sums(g, v, m + 1)
    BY <2>3 DEF Sums
  <2> QED
    BY <2>4
<1> HIDE DEF T
<1>3. n \in T
  BY <1>1, <1>2, Induction
<1> QED
  BY <1>3 DEF T

SameUpTo(v, w, n) == \A m \in 1..n : v[m] = w[m]

\* Sums of numbers that agree agree.
LEMMA SumsAgree ==
  ASSUME NEW v, NEW w, NEW n \in Nat, NEW k \in Nat, NEW f, NEW g,
         n <= k, SameUpTo(v, w, n), Sums(f, v, n), Sums(g, w, k)
  PROVE  f[n] = g[n]
<1> DEFINE T == {m \in Nat : m <= n => f[m] = g[m]}
<1>1. 0 \in T
  <2>1. f[0] = 0 /\ g[0] = 0
    BY DEF Sums
  <2> QED
    BY <2>1
<1>2. ASSUME NEW m \in Nat, m \in T
      PROVE  m + 1 \in T
  <2> SUFFICES ASSUME m + 1 <= n PROVE f[m + 1] = g[m + 1]
    OBVIOUS
  <2>1. /\ m + 1 \in 0..n /\ m + 1 \in 0..k /\ m + 1 # 0 /\ (m + 1) - 1 = m
        /\ m + 1 \in 1..n
    OBVIOUS
  <2>2. f[m + 1] = f[m] + v[m + 1] /\ g[m + 1] = g[m] + w[m + 1]
    BY <2>1 DEF Sums
  <2>3. f[m] = g[m] /\ v[m + 1] = w[m + 1]
    BY <1>2, <2>1 DEF SameUpTo
  <2> QED
    BY <2>2, <2>3
<1> HIDE DEF T
<1>3. n \in T
  BY <1>1, <1>2, Induction
<1> QED
  BY <1>3 DEF T

\* The bytes of a run grow with the run.
LEMMA SealedBytesGrow ==
  ASSUME NEW s \in Seq(Frame), NEW f \in Frame
  PROVE  /\ SealedBytes(<<>>) = 0
         /\ SealedBytes(Append(s, f)) = SealedBytes(s) + BodyLen(f.body)
<1> DEFINE lens(r) == [m \in 1..Len(r) |-> BodyLen(r[m].body)]
           sum(r) == CHOOSE g : g = [m \in 0..Len(r) |->
                       IF m = 0 THEN 0 ELSE g[m - 1] + BodyLen(r[m].body)]
           t == Append(s, f)
<1>1. ASSUME NEW r \in Seq(Frame)
      PROVE  Sums(sum(r), lens(r), Len(r)) /\ SealedBytes(r) = sum(r)[Len(r)]
  <2>1. \A g : Sums(g, lens(r), Len(r)) <=>
                 g = [m \in 0..Len(r) |->
                        IF m = 0 THEN 0 ELSE g[m - 1] + BodyLen(r[m].body)]
    <3> SUFFICES ASSUME NEW g
                 PROVE  [m \in 0..Len(r) |-> IF m = 0 THEN 0 ELSE g[m - 1] + lens(r)[m]]
                        = [m \in 0..Len(r) |->
                             IF m = 0 THEN 0 ELSE g[m - 1] + BodyLen(r[m].body)]
      BY DEF Sums
    <3>1. \A m \in 0..Len(r) : m # 0 => m \in 1..Len(r)
      OBVIOUS
    <3>2. \A m \in 1..Len(r) : lens(r)[m] = BodyLen(r[m].body)
      OBVIOUS
    <3> HIDE DEF lens
    <3> QED
      BY <3>1, <3>2
  <2>2. Len(r) \in Nat
    OBVIOUS
  <2> HIDE DEF lens
  <2>3. \E g : Sums(g, lens(r), Len(r))
    BY <2>2, SumsExist
  <2>4. \E g : g = [m \in 0..Len(r) |->
                      IF m = 0 THEN 0 ELSE g[m - 1] + BodyLen(r[m].body)]
    BY <2>1, <2>3
  <2>5. sum(r) = [m \in 0..Len(r) |->
                    IF m = 0 THEN 0 ELSE sum(r)[m - 1] + BodyLen(r[m].body)]
    BY <2>4
  <2>6. Sums(sum(r), lens(r), Len(r))
    <3> HIDE DEF sum
    <3> QED
      BY <2>1, <2>5
  <2>7. SealedBytes(r) = sum(r)[Len(r)]
    BY DEF SealedBytes
  <2> QED
    BY <2>6, <2>7
<1>2. /\ t \in Seq(Frame) /\ Len(t) = Len(s) + 1 /\ Len(s) \in Nat
      /\ t[Len(s) + 1] = f /\ \A i \in 1..Len(s) : t[i] = s[i]
  BY AppendIs
<1> HIDE DEF t
<1>3. /\ \A m \in 1..Len(s) : lens(s)[m] = lens(t)[m]
      /\ lens(t)[Len(s) + 1] = BodyLen(f.body)
  <2>1. /\ \A m \in 1..Len(s) : m \in 1..Len(t)
        /\ Len(s) + 1 \in 1..Len(t)
    BY <1>2
  <2> QED
    BY <1>2, <2>1
<1> HIDE DEF lens, sum
<1>4. sum(s)[Len(s)] = sum(t)[Len(s)]
  <2>1. /\ Sums(sum(s), lens(s), Len(s)) /\ Sums(sum(t), lens(t), Len(t))
        /\ Len(s) \in Nat /\ Len(t) \in Nat /\ Len(s) <= Len(t)
        /\ \A m \in 1..Len(s) : lens(s)[m] = lens(t)[m]
    BY <1>1, <1>2, <1>3
  <2> DEFINE n == Len(s)
             k == Len(t)
             v == lens(s)
             w == lens(t)
             g == sum(s)
             h == sum(t)
  <2>2. /\ n \in Nat /\ k \in Nat /\ n <= k /\ SameUpTo(v, w, n)
        /\ Sums(g, v, n) /\ Sums(h, w, k)
    BY <2>1 DEF SameUpTo
  <2> HIDE DEF n, k, v, w, g, h
  <2>3. g[n] = h[n]
    BY <2>2, SumsAgree
  <2> QED
    BY <2>3 DEF n, g, h
<1>5. sum(t)[Len(s) + 1] = sum(t)[Len(s)] + BodyLen(f.body)
  <2>1. Sums(sum(t), lens(t), Len(t))
    BY <1>1, <1>2
  <2>2. Len(s) + 1 \in 0..Len(t) /\ Len(s) + 1 # 0 /\ (Len(s) + 1) - 1 = Len(s)
    BY <1>2
  <2>3. sum(t)[Len(s) + 1] = sum(t)[Len(s)] + lens(t)[Len(s) + 1]
    BY <2>1, <2>2 DEF Sums
  <2> QED
    BY <1>3, <2>3
<1>6. SealedBytes(<<>>) = 0
  <2>1. <<>> \in Seq(Frame) /\ Len(<<>>) = 0
    OBVIOUS
  <2>2. Sums(sum(<<>>), lens(<<>>), 0) /\ SealedBytes(<<>>) = sum(<<>>)[0]
    BY <1>1, <2>1
  <2> QED
    BY <2>2 DEF Sums
<1>7. SealedBytes(s) = sum(s)[Len(s)] /\ SealedBytes(t) = sum(t)[Len(s) + 1]
  BY <1>1, <1>2
<1> QED
  BY <1>4, <1>5, <1>6, <1>7 DEF t

LEMMA NothingSealed == SealedBytes(<<>>) = 0
<1> DEFINE seg == [kind |-> Plain, lo |-> 0, hi |-> 1]
<1>1. seg \in Segment
  BY DEF Segment
<1>2. seg \in Frame
  BY <1>1, SegmentEnds
<1>3. <<>> \in Seq(Frame)
  OBVIOUS
<1> HIDE DEF seg
<1> QED
  BY <1>2, <1>3, SealedBytesGrow

Mine == SubSeq(output, built + 1, Len(output))

LEMMA CallKeepsStats ==
  ASSUME IInv, StatsMatchWire, NEW op, NEW r, GoodStage(r), Chain(op, r)
  PROVE  StatsMatchWire'
<1>1. /\ config' = config /\ built' = built /\ built \in 0..Len(output)
      /\ output \in Seq(Frame) /\ Len(output) \in Nat /\ r.out \in Seq(Segment)
  BY DEF IInv, TypeOK, Chain, GoodStage, StageCovers
<1>2. CASE config.encrypt = None
  BY <1>1, <1>2 DEF StatsMatchWire, Chain
<1>3. CASE config.encrypt # None /\ output' = output /\ stats' = stats
  BY <1>1, <1>3 DEF StatsMatchWire
<1>4. CASE config.encrypt # None /\ ~(output' = output /\ stats' = stats)
  <2> DEFINE f == SealedFrame(r.out)
             n == BodyLen(r.out)
  <2>1. /\ output' = Append(output, f) /\ r.out # <<>>
        /\ stats' = [nonces_issued |-> stats.nonces_issued + 1,
                     sealed_bytes  |-> stats.sealed_bytes + n]
    BY <1>4 DEF Chain, Seal, new_nonce, SealFails, SealedFrame
  <2>2. f \in Frame /\ f.body = r.out
    <3>1. PICK a \in Int, b \in Int : Tiles(r.out, a, b)
      <4>1. r.ok
        BY <1>4 DEF Chain
      <4>2. Tiles(r.out, buffer.lo, r.buffer.lo)
        BY <4>1 DEF GoodStage, StageCovers, Tiles
      <4>3. buffer.lo \in Int /\ r.buffer.lo \in Int
        BY DEF IInv, TypeOK, Interval, GoodStage, StageCovers
      <4> QED
        BY <4>2, <4>3
    <3>2. TypeOK
      BY DEF IInv
    <3>3. f \in Frame
      BY <1>1, <1>4, <2>1, <3>1, <3>2, SealedTiles
    <3> QED
      BY <3>3 DEF SealedFrame
  <2>3. Mine \in Seq(Frame) /\ Mine' = Append(Mine, f)
    <3> HIDE DEF f
    <3>1. output' \in Seq(Frame) /\ Len(output') = Len(output) + 1
      BY <1>1, <2>1, <2>2
    <3>2. Mine \in Seq(Frame) /\ Len(Mine) = Len(output) - built
          /\ \A i \in 1..Len(Mine) : Mine[i] = output[built + i]
      BY <1>1, SMTT(30) DEF Mine
    <3>3. Mine' \in Seq(Frame) /\ Len(Mine') = Len(output) + 1 - built
          /\ \A i \in 1..Len(Mine') : Mine'[i] = output'[built + i]
      BY <1>1, <3>1 DEF Mine
    <3>4. Append(Mine, f) \in Seq(Frame) /\ Len(Append(Mine, f)) = Len(Mine')
      <4>1. Append(Mine, f) \in Seq(Frame) /\ Len(Append(Mine, f)) = Len(Mine) + 1
        BY <2>2, <3>2, AppendIs
      <4> QED
        BY <1>1, <3>2, <3>3, <4>1
    <3>5. ASSUME NEW i \in 1..Len(Mine')
          PROVE  Mine'[i] = Append(Mine, f)[i]
      <4>1. CASE i = Len(Mine) + 1
        <5>1. built + i = Len(output) + 1
          BY <1>1, <3>2, <4>1
        <5>2. output'[Len(output) + 1] = f
          BY <1>1, <2>1, <2>2
        <5>3. Append(Mine, f)[Len(Mine) + 1] = f
          BY <2>2, <3>2
        <5> QED
          BY <3>3, <4>1, <5>1, <5>2, <5>3
      <4>2. CASE i # Len(Mine) + 1
        <5>1. i \in 1..Len(Mine) /\ built + i \in 1..Len(output)
          BY <1>1, <3>2, <3>3, <4>2
        <5>2. output'[built + i] = output[built + i]
          BY <1>1, <2>1, <2>2, <5>1
        <5>3. Append(Mine, f)[i] = Mine[i]
          BY <2>2, <3>2, <5>1
        <5> QED
          BY <3>2, <3>3, <5>1, <5>2, <5>3
      <4> QED
        BY <4>1, <4>2
    <3> QED
      BY <3>2, <3>3, <3>4, <3>5, SeqEqual
  <2>4. /\ SealedBytes(Append(Mine, f)) = SealedBytes(Mine) + n
        /\ Len(Append(Mine, f)) = Len(Mine) + 1
    BY <2>2, <2>3, SealedBytesGrow
  <2>5. stats.nonces_issued = Len(Mine) /\ stats.sealed_bytes = SealedBytes(Mine)
    BY <1>4 DEF StatsMatchWire, Mine
  <2> HIDE DEF f, n
  <2>6. stats'.nonces_issued = Len(Mine') /\ stats'.sealed_bytes = SealedBytes(Mine')
    BY <2>1, <2>3, <2>4, <2>5
  <2> QED
    BY <1>1, <1>4, <2>6 DEF StatsMatchWire, Mine
<1> QED
  BY <1>2, <1>3, <1>4

\* The counters say what is on the wire, for every number of blocks and encoders.
THEOREM StatsAreRight == Spec => []StatsMatchWire
<1>1. Init => StatsMatchWire
  <2> SUFFICES ASSUME Init PROVE StatsMatchWire
    OBVIOUS
  <2>1. /\ output = <<>> /\ built = 0
        /\ stats = [nonces_issued |-> 0, sealed_bytes |-> 0]
    BY DEF Init
  <2>2. SubSeq(output, built + 1, Len(output)) = <<>>
    BY <2>1
  <2>3. SealedBytes(<<>>) = 0
    BY NothingSealed
  <2> QED
    BY <2>1, <2>2, <2>3 DEF StatsMatchWire
<1>2. IInv /\ StatsMatchWire /\ [Next]_vars => StatsMatchWire'
  <2> SUFFICES ASSUME IInv, StatsMatchWire, [Next]_vars PROVE StatsMatchWire'
    OBVIOUS
  <2>1. CASE Rebuild
    <3>1. /\ config' = config /\ output' = output /\ built' = Len(output)
          /\ stats' = [nonces_issued |-> 0, sealed_bytes |-> 0]
          /\ output \in Seq(Frame)
      BY <2>1 DEF Rebuild, IInv, TypeOK
    <3>2. SubSeq(output', built' + 1, Len(output')) = <<>>
      BY <3>1
    <3>3. SealedBytes(<<>>) = 0
      BY NothingSealed
    <3> QED
      BY <3>1, <3>2, <3>3 DEF StatsMatchWire
  <2>2. CASE \E n \in 0..MaxInput : Encode(n)
    <3>1. PICK n \in 0..MaxInput : Encode(n)
      BY <2>2
    <3>2. PICK r \in EncodeStage(n) : Chain("encode", r)
      BY <3>1 DEF Encode
    <3> QED
      BY <3>1, <3>2, CallIsGood, CallKeepsStats
  <2>3. CASE Finish
    <3>1. PICK r \in FinishStage : Chain("finish", r)
      BY <2>3 DEF Finish
    <3> QED
      BY <3>1, CallIsGood, CallKeepsStats
  <2>4. CASE UNCHANGED vars
    BY <2>4 DEF vars, StatsMatchWire
  <2> QED
    BY <2>1, <2>2, <2>3, <2>4 DEF Next
<1> QED
  BY <1>1, <1>2, InvariantHolds, PTL DEF Spec

==============================================================================
