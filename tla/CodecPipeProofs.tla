--------------------------- MODULE CodecPipeProofs ---------------------------
(***************************************************************************)
(* Theorems about CodecPipe for every block size, every set of             *)
(* configurations and every bound on what is offered or read at once.      *)
(* First what a decode makes of an input, layer by layer; then what the    *)
(* sink leaves on the wire for the source; then the invariant PipeInv;     *)
(* last, that the pipe implements ByteStream and what that promises.       *)
(***************************************************************************)
EXTENDS CodecPipe, ByteStream, CodecEncoderProofs

------------------------------------------------------------------------------
(* What the layers return.                                                  *)

\* How far a layer gets when it refuses the blocks at the positions I.
Refused(I) == IF I # {} THEN SE!Min(I) ELSE 0
GoodTo(total, I) == IF Refused(I) = 0 THEN total ELSE Refused(I) - 1

LEMMA GoodToFirstRefused ==
  ASSUME NEW total \in Nat, NEW I \in SUBSET (1..total)
  PROVE  /\ GoodTo(total, I) \in 0..total
         /\ \A i \in 1..GoodTo(total, I) : i \notin I
         /\ GoodTo(total, I) < total => GoodTo(total, I) + 1 \in I
         /\ Refused(I) = 0 <=> GoodTo(total, I) = total
         /\ Refused(I) # 0 => Refused(I) \in 1..total
<1>1. CASE I = {}
  BY <1>1 DEF GoodTo, Refused
<1>2. CASE I # {}
  <2>1. \E x \in I : \A y \in I : x <= y
    <3>1. I \in SUBSET Nat
      OBVIOUS
    <3> QED
      BY <1>2, <3>1, LeastExists
  <2>2. Refused(I) \in I /\ \A i \in I : Refused(I) <= i
    BY <1>2, <2>1 DEF SE!Min, Refused
  <2>3. Refused(I) \in 1..total /\ Refused(I) # 0
    <3>1. \A x \in I : x \in 1..total /\ x # 0
      OBVIOUS
    <3> QED
      BY <2>2, <3>1, Zenon
  <2>4. GoodTo(total, I) = Refused(I) - 1
    BY <2>3 DEF GoodTo
  <2> QED
    BY <2>2, <2>3, <2>4
<1> QED
  BY <1>1, <1>2

\* FlattenSeq is the concatenation SequenceFacts is about.
LEMMA FlattenIs ==
  ASSUME NEW E, NEW s \in Seq(Seq(E))
  PROVE  SE!FlattenSeq(s) = Flat(s)
<1>1. s = <<>> <=> Len(s) = 0
  OBVIOUS
<1> QED
  BY <1>1 DEF SE!FlattenSeq, Flat, Joined

\* The blocks a layer gets through are the first ones of its input.
LEMMA GoodPrefix ==
  ASSUME NEW E, NEW input \in Seq(E), NEW bad \in 0..Len(input),
         NEW n, n = IF bad = 0 THEN Len(input) ELSE bad - 1,
         NEW good, good = IF bad = 0 THEN input ELSE SubSeq(input, 1, bad - 1)
  PROVE  Len(good) = n /\ \A i \in 1..n : good[i] = input[i]
OBVIOUS

\* A block a decompressor accepts, and what it makes of it.
Unpacks(algo, item) == TakeBlock(algo, item) /\ item.state # "tampered"
Unpacked(item) == [item EXCEPT !.frame.kind = Plain]

\* A block an AEAD decoder accepts, and what it makes of it.
Opens(cipher, key, item) ==
  TakeBlock(cipher, item) /\ item.state = "whole" /\ item.frame.key = key
Opened(item) == [i \in 1..Len(item.frame.body) |-> Whole(item.frame.body[i])]

\* What a decompressor accepts is a compressed block, and unpacks to bytes.
LEMMA UnpackedIs ==
  ASSUME NEW algo \in CompressionAlgo, NEW item \in Item, Unpacks(algo, item)
  PROVE  /\ item.frame \in Segment
         /\ Unpacked(item) \in Item
         /\ Unpacked(item).state = item.state
         /\ Unpacked(item).frame = [item.frame EXCEPT !.kind = Plain]
         /\ Unpacked(item).frame \in Segment
         /\ Unpacked(item).frame.kind = Plain
         /\ Lo(Unpacked(item).frame) = Lo(item.frame)
         /\ Hi(Unpacked(item).frame) = Hi(item.frame)
<1>1. item.frame.kind \in CompressionAlgo /\ item.frame \in Frame /\ item.state \in State
  BY DEF Unpacks, TakeBlock, Item
<1>2. item.frame \in Segment
  BY <1>1 DEF Frame, Sealed, CompressionAlgo, Zstd, Cipher
<1> DEFINE f == [item.frame EXCEPT !.kind = Plain]
<1>3. /\ f \in Segment /\ f.kind = Plain
      /\ f.lo = item.frame.lo /\ f.hi = item.frame.hi
  BY <1>2 DEF Segment
<1>4. /\ Unpacked(item).state = item.state /\ Unpacked(item).frame = f
      /\ Unpacked(item) = [frame |-> f, state |-> item.state]
  BY DEF Unpacked, Item
<1> HIDE DEF f
<1>5. Unpacked(item) \in Item
  BY <1>1, <1>3, <1>4 DEF Item, Frame
<1>6. Lo(f) = Lo(item.frame) /\ Hi(f) = Hi(item.frame)
  BY <1>2, <1>3, SegmentEnds
<1> QED
  BY <1>2, <1>3, <1>4, <1>5, <1>6 DEF f

\* BlockDecompressor unpacks the blocks before the first it refuses, one by one.
LEMMA BlockDecodeIs ==
  ASSUME NEW algo \in CompressionAlgo, NEW input \in Seq(Item)
  PROVE  LET r == BlockDecode(algo, input) IN
         \E n \in 0..Len(input) :
           /\ \A i \in 1..n : Unpacks(algo, input[i])
           /\ n < Len(input) => ~Unpacks(algo, input[n + 1])
           /\ r.ok <=> n = Len(input)
           /\ r.ok \in BOOLEAN
           /\ r.out \in Seq(Item) /\ Len(r.out) = n
           /\ \A i \in 1..n : r.out[i] = Unpacked(input[i])
<1> DEFINE I == {i \in 1..Len(input) : ~Unpacks(algo, input[i])}
           bad == Refused(I)
           n == GoodTo(Len(input), I)
           good == IF bad = 0 THEN input ELSE SubSeq(input, 1, bad - 1)
           singles == [i \in 1..Len(good) |-> <<Unpacked(good[i])>>]
           plain == [i \in 1..n |-> Unpacked(input[i])]
<1>1. BlockDecode(algo, input) = [out |-> SE!FlattenSeq(singles), ok |-> bad = 0]
  BY DEF BlockDecode, Layer, SE!SelectInSeq, Unpacks, Unpacked, Refused
<1>2. Len(input) \in Nat /\ I \in SUBSET (1..Len(input))
  OBVIOUS
<1>3. /\ n \in 0..Len(input)
      /\ \A i \in 1..n : Unpacks(algo, input[i])
      /\ n < Len(input) => ~Unpacks(algo, input[n + 1])
      /\ bad = 0 <=> n = Len(input)
      /\ bad \in 0..Len(input)
  <2> HIDE DEF I
  <2>1. /\ n \in 0..Len(input)
        /\ \A i \in 1..n : i \notin I
        /\ n < Len(input) => n + 1 \in I
        /\ bad = 0 <=> n = Len(input)
        /\ bad # 0 => bad \in 1..Len(input)
    BY <1>2, GoodToFirstRefused
  <2> HIDE DEF n, bad
  <2>2. \A i \in 1..n : Unpacks(algo, input[i])
    BY <1>2, <2>1 DEF I
  <2>3. n < Len(input) => ~Unpacks(algo, input[n + 1])
    BY <2>1 DEF I
  <2> QED
    BY <1>2, <2>1, <2>2, <2>3
<1>4. Len(good) = n /\ \A i \in 1..n : good[i] = input[i]
  <2>1. n = IF bad = 0 THEN Len(input) ELSE bad - 1
    BY DEF GoodTo
  <2> HIDE DEF bad, n
  <2> QED
    BY <1>3, <2>1, GoodPrefix
<1> HIDE DEF n, bad, good, I
<1>5. ASSUME NEW i \in 1..n
      PROVE  Unpacked(input[i]) \in Item
  <2>1. input[i] \in Item
    BY <1>2, <1>3
  <2> QED
    BY <1>3, <2>1, UnpackedIs
<1>6. /\ plain \in Seq(Item) /\ Len(plain) = n
      /\ \A i \in 1..n : plain[i] = Unpacked(input[i])
  BY <1>3, <1>5
<1>7. singles = [i \in 1..Len(plain) |-> <<plain[i]>>]
  BY <1>4, <1>6
<1> HIDE DEF singles, plain
<1>8. singles \in Seq(Seq(Item))
  <2>1. ASSUME NEW s \in Seq(Item)
        PROVE  [i \in 1..Len(s) |-> <<s[i]>>] \in Seq(Seq(Item))
    OBVIOUS
  <2> QED
    BY <1>6, <1>7, <2>1, Zenon
<1>9. SE!FlattenSeq(singles) = plain
  <2>1. Flat(singles) = plain
    BY <1>6, <1>7, FlatSingles
  <2> QED
    BY <1>8, <2>1, FlattenIs
<1>10. /\ BlockDecode(algo, input).ok = (bad = 0)
       /\ BlockDecode(algo, input).out = plain
  BY <1>1, <1>9
<1> QED
  BY <1>3, <1>6, <1>10

\* What an AEAD decoder accepts is a sealed block, and opens to its segments.
LEMMA OpenedIs ==
  ASSUME NEW item \in Item, item.frame \in Sealed
  PROVE  /\ Opened(item) \in Seq(Item)
         /\ Len(Opened(item)) = Len(item.frame.body)
         /\ Opened(item) # <<>>
         /\ \A i \in 1..Len(item.frame.body) : Opened(item)[i] = Whole(item.frame.body[i])
<1>1. item.frame.body \in Seq(Segment) /\ item.frame.body # <<>>
  BY DEF Sealed
<1>2. ASSUME NEW s \in Seq(Segment), s # <<>>
      PROVE  LET o == [i \in 1..Len(s) |-> Whole(s[i])] IN
             /\ o \in Seq(Item) /\ Len(o) = Len(s) /\ o # <<>>
             /\ \A i \in 1..Len(s) : o[i] = Whole(s[i])
  <2>1. ASSUME NEW i \in 1..Len(s)
        PROVE  Whole(s[i]) \in Item
    <3>1. s[i] \in Segment
      OBVIOUS
    <3> QED
      BY <3>1 DEF Whole, Item, Frame, State
  <2> QED
    BY <1>2, <2>1
<1> QED
  BY <1>1, <1>2 DEF Opened

LEMMA OpensSealed ==
  ASSUME NEW cipher \in Cipher, NEW key, NEW item \in Item, Opens(cipher, key, item)
  PROVE  item.frame \in Sealed /\ IsSealed(item.frame)
BY DEF Opens, TakeBlock, Item, Frame, Segment, IsSealed, Cipher, CompressionAlgo, Zstd, Plain

\* The segments of a run of blocks, one behind the other.
OpenAll(items) == Flat([i \in 1..Len(items) |-> Opened(items[i])])

\* AeadDecoder opens the blocks before the first it refuses.
LEMMA AeadDecodeIs ==
  ASSUME NEW cipher \in Cipher, NEW key, NEW input \in Seq(Item)
  PROVE  LET r == AeadDecode(cipher, key, input) IN
         \E n \in 0..Len(input) : \E good \in Seq(Item) :
           /\ Len(good) = n
           /\ \A i \in 1..n : good[i] = input[i] /\ Opens(cipher, key, input[i])
           /\ n < Len(input) => ~Opens(cipher, key, input[n + 1])
           /\ r.ok <=> n = Len(input)
           /\ r.ok \in BOOLEAN
           /\ r.out = OpenAll(good)
<1> DEFINE I == {i \in 1..Len(input) : ~Opens(cipher, key, input[i])}
           bad == Refused(I)
           n == GoodTo(Len(input), I)
           good == IF bad = 0 THEN input ELSE SubSeq(input, 1, bad - 1)
           bodies == [i \in 1..Len(good) |-> Opened(good[i])]
<1>1. AeadDecode(cipher, key, input) = [out |-> SE!FlattenSeq(bodies), ok |-> bad = 0]
  BY DEF AeadDecode, Authentic, Layer, SE!SelectInSeq, Opens, Opened, Refused
<1>2. Len(input) \in Nat /\ I \in SUBSET (1..Len(input))
  OBVIOUS
<1>3. /\ n \in 0..Len(input)
      /\ \A i \in 1..n : Opens(cipher, key, input[i])
      /\ n < Len(input) => ~Opens(cipher, key, input[n + 1])
      /\ bad = 0 <=> n = Len(input)
      /\ bad \in 0..Len(input)
  <2> HIDE DEF I
  <2>1. /\ n \in 0..Len(input)
        /\ \A i \in 1..n : i \notin I
        /\ n < Len(input) => n + 1 \in I
        /\ bad = 0 <=> n = Len(input)
        /\ bad # 0 => bad \in 1..Len(input)
    BY <1>2, GoodToFirstRefused
  <2> HIDE DEF n, bad
  <2>2. \A i \in 1..n : Opens(cipher, key, input[i])
    BY <1>2, <2>1 DEF I
  <2>3. n < Len(input) => ~Opens(cipher, key, input[n + 1])
    BY <2>1 DEF I
  <2> QED
    BY <1>2, <2>1, <2>2, <2>3
<1>4. Len(good) = n /\ \A i \in 1..n : good[i] = input[i]
  <2>1. n = IF bad = 0 THEN Len(input) ELSE bad - 1
    BY DEF GoodTo
  <2> HIDE DEF bad, n
  <2> QED
    BY <1>3, <2>1, GoodPrefix
<1> HIDE DEF n, bad, I
<1>5. good \in Seq(Item)
  BY <1>3
<1> HIDE DEF good
<1>6. ASSUME NEW i \in 1..Len(good)
      PROVE  Opened(good[i]) \in Seq(Item)
  <2>1. good[i] \in Item /\ Opens(cipher, key, good[i])
    BY <1>3, <1>4, <1>5
  <2> QED
    BY <2>1, OpensSealed, OpenedIs
<1>7. bodies \in Seq(Seq(Item))
  BY <1>5, <1>6
<1> HIDE DEF bodies
<1>8. SE!FlattenSeq(bodies) = Flat(bodies)
  BY <1>7, FlattenIs
<1>9. Flat(bodies) = OpenAll(good)
  BY DEF bodies, OpenAll
<1>10. /\ AeadDecode(cipher, key, input).ok = (bad = 0)
       /\ AeadDecode(cipher, key, input).out = OpenAll(good)
  BY <1>1, <1>8, <1>9
<1> QED
  BY <1>3, <1>4, <1>5, <1>10

------------------------------------------------------------------------------
(* Runs of items, and what becomes of their order.                          *)

LEMMA FramesIs ==
  ASSUME NEW items \in Seq(Item)
  PROVE  /\ Frames(items) \in Seq(Frame)
         /\ Len(Frames(items)) = Len(items)
         /\ \A i \in 1..Len(items) : Frames(items)[i] = items[i].frame
<1>1. ASSUME NEW i \in 1..Len(items)
      PROVE  items[i].frame \in Frame
  <2>1. items[i] \in Item
    OBVIOUS
  <2> QED
    BY <2>1 DEF Item
<1> QED
  BY <1>1 DEF Frames

LEMMA FramesConcat ==
  ASSUME NEW s \in Seq(Item), NEW t \in Seq(Item)
  PROVE  Frames(s \o t) = Frames(s) \o Frames(t)
<1>1. /\ s \o t \in Seq(Item) /\ Len(s \o t) = Len(s) + Len(t)
      /\ Len(s) \in Nat /\ Len(t) \in Nat
      /\ \A i \in 1..Len(s \o t) : (s \o t)[i] = IF i <= Len(s) THEN s[i] ELSE t[i - Len(s)]
  OBVIOUS
<1> DEFINE F == Frames(s)
           G == Frames(t)
           H == Frames(s \o t)
<1>2. /\ F \in Seq(Frame) /\ G \in Seq(Frame) /\ H \in Seq(Frame)
      /\ Len(F) = Len(s) /\ Len(G) = Len(t) /\ Len(H) = Len(s \o t)
      /\ \A i \in 1..Len(s) : F[i] = s[i].frame
      /\ \A i \in 1..Len(t) : G[i] = t[i].frame
      /\ \A i \in 1..Len(s \o t) : H[i] = (s \o t)[i].frame
  BY <1>1, FramesIs
<1> HIDE DEF F, G, H
<1>3. /\ F \o G \in Seq(Frame) /\ Len(F \o G) = Len(F) + Len(G)
      /\ \A i \in 1..Len(F) + Len(G) :
           (F \o G)[i] = IF i <= Len(F) THEN F[i] ELSE G[i - Len(F)]
  <2>1. F \in Seq(Frame) /\ G \in Seq(Frame)
    BY <1>2
  <2> QED
    BY <2>1, ConcatProperties
<1>4. ASSUME NEW i \in 1..Len(H)
      PROVE  H[i] = (F \o G)[i]
  <2>1. CASE i <= Len(s)
    <3>1. i \in 1..Len(s) /\ (s \o t)[i] = s[i]
      BY <1>1, <1>2, <2>1
    <3> QED
      BY <1>1, <1>2, <1>3, <2>1, <3>1
  <2>2. CASE i > Len(s)
    <3>1. i - Len(s) \in 1..Len(t) /\ (s \o t)[i] = t[i - Len(s)]
      BY <1>1, <1>2, <2>2
    <3>2. (F \o G)[i] = G[i - Len(s)]
      BY <1>1, <1>2, <1>3, <2>2
    <3> QED
      BY <1>1, <1>2, <3>1, <3>2
  <2> QED
    BY <1>1, <1>2, <2>1, <2>2
<1>5. H = F \o G
  <2>1. Len(H) = Len(F \o G)
    BY <1>1, <1>2, <1>3
  <2> QED
    BY <1>2, <1>3, <1>4, <2>1, SeqEqual
<1> QED
  BY <1>5 DEF F, G, H

\* Frames in order are so without the last one, up to where that one starts.
LEMMA OrderedButLast ==
  ASSUME NEW s \in Seq(Frame), NEW f \in Frame, NEW a \in Int, NEW b \in Int,
         Ordered(Append(s, f), a, b)
  PROVE  /\ Ordered(s, a, Lo(f)) /\ Lo(f) < Hi(f) /\ Hi(f) <= b
         /\ Gapless(Append(s, f), a, b) => Gapless(s, a, Lo(f)) /\ Hi(f) = b
<1> DEFINE u == Append(s, f)
<1>1. /\ u \in Seq(Frame) /\ u # <<>> /\ Len(u) = Len(s) + 1 /\ Len(s) \in Nat
      /\ u[Len(s) + 1] = f /\ \A i \in 1..Len(s) : u[i] = s[i]
  BY AppendIs
<1>2. Ordered(u, a, b)
  OBVIOUS
<1> HIDE DEF u
<1>3. Lo(f) \in Nat /\ Hi(f) \in Nat /\ \A i \in 1..Len(s) : Lo(s[i]) \in Nat /\ Hi(s[i]) \in Nat
  BY FrameEnds, SeqEnds
<1>4. Len(s) + 1 \in 1..Len(u) /\ \A i \in 1..Len(s) : i \in 1..Len(u) /\ i < Len(s) + 1
  BY <1>1
<1>5. a <= Lo(f) /\ Lo(f) < Hi(f) /\ Hi(f) <= b
  BY <1>1, <1>2, <1>4 DEF Ordered
<1>6. Ordered(s, a, Lo(f))
  <2>1. ASSUME NEW i \in 1..Len(s)
        PROVE  a <= Lo(s[i]) /\ Lo(s[i]) < Hi(s[i]) /\ Hi(s[i]) <= Lo(f)
    BY <1>1, <1>2, <1>4 DEF Ordered
  <2>2. ASSUME NEW i \in 1..Len(s), NEW j \in 1..Len(s), i < j
        PROVE  Hi(s[i]) <= Lo(s[j])
    BY <1>1, <1>2, <1>4, <2>2 DEF Ordered
  <2> QED
    BY <1>5, <2>1, <2>2 DEF Ordered
<1>7. ASSUME Gapless(u, a, b)
      PROVE  Gapless(s, a, Lo(f)) /\ Hi(f) = b
  <2>1. Lo(u[1]) = a /\ Hi(f) = b /\ \A i \in 1..Len(s) : Hi(u[i]) = Lo(u[i + 1])
    BY <1>1, <1>7 DEF Gapless
  <2>2. CASE s = <<>>
    <3>1. Len(s) + 1 = 1
      BY <2>2
    <3> QED
      BY <1>1, <2>1, <2>2, <3>1 DEF Gapless
  <2>3. CASE s # <<>>
    <3>1. 1 \in 1..Len(s) /\ Len(s) \in 1..Len(s)
      BY <1>1, <2>3
    <3>2. Lo(s[1]) = a /\ Hi(s[Len(s)]) = Lo(f)
      BY <1>1, <2>1, <3>1
    <3>3. ASSUME NEW i \in 1..(Len(s) - 1)
          PROVE  Hi(s[i]) = Lo(s[i + 1])
      <4>1. i \in 1..Len(s) /\ i + 1 \in 1..Len(s)
        BY <1>1
      <4> QED
        BY <1>1, <2>1, <4>1
    <3> QED
      BY <2>1, <2>3, <3>2, <3>3 DEF Gapless
  <2> QED
    BY <2>2, <2>3
<1> QED
  BY <1>5, <1>6, <1>7 DEF u

\* An item with an AEAD block whose segments tile what it carries.
SealedItem ==
  {item \in Item : /\ item.frame \in Sealed
                   /\ Tiles(item.frame.body, Lo(item.frame), Hi(item.frame))}

LEMMA SealedItemIs ==
  ASSUME NEW item \in SealedItem
  PROVE  /\ item \in Item /\ item.frame \in Frame
         /\ item.frame.body \in Seq(Segment) /\ item.frame.body \in Seq(Frame)
         /\ Opened(item) \in Seq(Item) /\ Opened(item) # <<>>
         /\ Len(Opened(item)) = Len(item.frame.body)
         /\ \A i \in 1..Len(item.frame.body) : Opened(item)[i] = Whole(item.frame.body[i])
         /\ Frames(Opened(item)) = item.frame.body
         /\ Tiles(Frames(Opened(item)), Lo(item.frame), Hi(item.frame))
<1>1. /\ item \in Item /\ item.frame \in Sealed
      /\ Tiles(item.frame.body, Lo(item.frame), Hi(item.frame))
  BY DEF SealedItem
<1>2. item.frame.body \in Seq(Segment) /\ item.frame \in Frame
  BY <1>1 DEF Sealed, Frame
<1>3. item.frame.body \in Seq(Frame)
  BY <1>2, SegmentsAreFrames
<1>4. /\ Opened(item) \in Seq(Item) /\ Opened(item) # <<>>
      /\ Len(Opened(item)) = Len(item.frame.body)
      /\ \A i \in 1..Len(item.frame.body) : Opened(item)[i] = Whole(item.frame.body[i])
  BY <1>1, OpenedIs
<1>5. /\ Frames(Opened(item)) \in Seq(Frame)
      /\ Len(Frames(Opened(item))) = Len(item.frame.body)
      /\ \A i \in 1..Len(item.frame.body) : Frames(Opened(item))[i] = Opened(item)[i].frame
  BY <1>4, FramesIs
<1>6. Frames(Opened(item)) = item.frame.body
  <2>1. ASSUME NEW i \in 1..Len(item.frame.body)
        PROVE  Frames(Opened(item))[i] = item.frame.body[i]
    <3>1. Opened(item)[i] = Whole(item.frame.body[i])
      BY <1>4
    <3> QED
      BY <1>5, <3>1 DEF Whole
  <2> QED
    BY <1>3, <1>5, <2>1, SeqEqual
<1> QED
  BY <1>1, <1>2, <1>3, <1>4, <1>6

LEMMA OpenAllAppend ==
  ASSUME NEW s \in Seq(SealedItem), NEW e \in SealedItem
  PROVE  /\ OpenAll(Append(s, e)) = OpenAll(s) \o Opened(e)
         /\ OpenAll(s) \in Seq(Item)
<1> DEFINE bodies(r) == [i \in 1..Len(r) |-> Opened(r[i])]
<1>1. ASSUME NEW r \in Seq(SealedItem)
      PROVE  bodies(r) \in Seq(Seq(Item))
  <2>1. \A i \in 1..Len(r) : Opened(r[i]) \in Seq(Item)
    <3>1. \A i \in 1..Len(r) : r[i] \in SealedItem
      OBVIOUS
    <3> QED
      BY <3>1, SealedItemIs
  <2> QED
    BY <2>1
<1>2. bodies(Append(s, e)) = Append(bodies(s), Opened(e))
  OBVIOUS
<1>3. \A r : OpenAll(r) = Flat(bodies(r))
  BY DEF OpenAll
<1> HIDE DEF bodies
<1>4. Opened(e) \in Seq(Item) /\ bodies(s) \in Seq(Seq(Item))
  BY <1>1, SealedItemIs
<1>5. Flat(bodies(Append(s, e))) = Flat(bodies(s)) \o Opened(e)
  BY <1>2, <1>4, FlatAppend
<1>6. Flat(bodies(s)) \in Seq(Item)
  BY <1>4, FlatType
<1> QED
  BY <1>3, <1>5, <1>6

\* The segments of blocks in order are in order; of blocks without a gap, without
\* a gap.
LEMMA OpenAllOrder ==
  ASSUME NEW items \in Seq(SealedItem)
  PROVE  /\ OpenAll(items) \in Seq(Item)
         /\ \A a, b \in Int : Ordered(Frames(items), a, b) =>
              /\ Ordered(Frames(OpenAll(items)), a, b)
              /\ Gapless(Frames(items), a, b) => Gapless(Frames(OpenAll(items)), a, b)
<1> DEFINE Keeps(s, a, b) ==
             Ordered(Frames(s), a, b) =>
               /\ Ordered(Frames(OpenAll(s)), a, b)
               /\ Gapless(Frames(s), a, b) => Gapless(Frames(OpenAll(s)), a, b)
           T == {s \in Seq(SealedItem) :
                   OpenAll(s) \in Seq(Item) /\ \A a, b \in Int : Keeps(s, a, b)}
<1>1. <<>> \in T
  <2>1. OpenAll(<<>>) = <<>> /\ <<>> \in Seq(SealedItem) /\ <<>> \in Seq(Item)
    BY DEF OpenAll, Flat
  <2> QED
    BY <2>1
<1>2. ASSUME NEW s \in Seq(SealedItem), NEW e \in SealedItem, s \in T
      PROVE  Append(s, e) \in T
  <2> DEFINE F == Frames(s)
             G == Frames(OpenAll(s))
             f == e.frame
             body == e.frame.body
  <2>1. /\ Append(s, e) \in Seq(SealedItem)
        /\ s \in Seq(Item) /\ e \in Item /\ f \in Frame
        /\ Opened(e) \in Seq(Item) /\ Frames(Opened(e)) = body
        /\ body \in Seq(Frame) /\ Tiles(body, Lo(f), Hi(f))
        /\ Lo(f) \in Nat /\ Hi(f) \in Nat
    <3>1. Seq(SealedItem) \subseteq Seq(Item)
      <4>1. SealedItem \subseteq Item
        BY DEF SealedItem
      <4> QED
        BY <4>1, SeqMonotonic
    <3>2. f \in Frame
      BY SealedItemIs
    <3> QED
      BY <3>1, <3>2, SealedItemIs, FrameEnds
  <2>2. OpenAll(Append(s, e)) = OpenAll(s) \o Opened(e) /\ OpenAll(s) \in Seq(Item)
    BY OpenAllAppend
  <2>3. OpenAll(Append(s, e)) \in Seq(Item)
    BY <2>1, <2>2
  <2>4. Frames(OpenAll(Append(s, e))) = G \o body
    BY <2>1, <2>2, FramesConcat
  <2>5. Frames(Append(s, e)) = Append(F, f)
    BY <2>1 DEF Frames
  <2>6. F \in Seq(Frame) /\ G \in Seq(Frame)
    BY <2>1, <2>2, FramesIs
  <2>7. \A a, b \in Int : Keeps(s, a, b)
    BY <1>2
  <2> HIDE DEF F, G, f, body
  <2>8. ASSUME NEW a \in Int, NEW b \in Int, Ordered(Frames(Append(s, e)), a, b)
        PROVE  /\ Ordered(G \o body, a, b)
               /\ Gapless(Frames(Append(s, e)), a, b) => Gapless(G \o body, a, b)
    <3>1. /\ Ordered(F, a, Lo(f)) /\ Lo(f) < Hi(f) /\ Hi(f) <= b
          /\ Gapless(Append(F, f), a, b) => Gapless(F, a, Lo(f)) /\ Hi(f) = b
      BY <2>1, <2>5, <2>6, <2>8, OrderedButLast, ZenonT(60)
    <3>2. /\ Ordered(G, a, Lo(f))
          /\ Gapless(F, a, Lo(f)) => Gapless(G, a, Lo(f))
      BY <2>1, <2>7, <3>1 DEF F, G
    <3>3. Ordered(body, Lo(f), Hi(f)) /\ Gapless(body, Lo(f), Hi(f))
      BY <2>1 DEF Tiles
    <3>4. Ordered(G \o body, a, Hi(f))
      BY <2>1, <2>6, <3>2, <3>3, OrderedConcat
    <3>5. Ordered(G \o body, a, b)
      <4>1. G \o body \in Seq(Frame)
        BY <2>1, <2>6
      <4>2. Hi(f) \in Int /\ Hi(f) <= b
        BY <2>1, <3>1
      <4> QED
        BY <3>4, <4>1, <4>2, OrderedWiden
    <3>6. ASSUME Gapless(Append(F, f), a, b)
          PROVE  Gapless(G \o body, a, b)
      BY <2>1, <2>6, <3>1, <3>2, <3>3, <3>6, GaplessConcat
    <3> QED
      BY <2>5, <3>5, <3>6
  <2> QED
    BY <2>1, <2>3, <2>4, <2>8
<1>3. \A s \in Seq(SealedItem) : s \in T
  <2> HIDE DEF T
  <2> QED
    BY <1>1, <1>2, SequenceInduction
<1> QED
  BY <1>3

\* Where the segments come from: every one is whole and in one of the blocks, and
\* every block has one.
LEMMA OpenAllFrom ==
  ASSUME NEW items \in Seq(SealedItem)
  PROVE  /\ \A j \in 1..Len(OpenAll(items)) : \E i \in 1..Len(items) :
              \E k \in 1..Len(items[i].frame.body) :
                OpenAll(items)[j] = Whole(items[i].frame.body[k])
         /\ items # <<>> => OpenAll(items) # <<>>
<1> DEFINE From(s, o) == \E i \in 1..Len(s) : \E k \in 1..Len(s[i].frame.body) :
                           o = Whole(s[i].frame.body[k])
           T == {s \in Seq(SealedItem) :
                   /\ \A j \in 1..Len(OpenAll(s)) : From(s, OpenAll(s)[j])
                   /\ s # <<>> => OpenAll(s) # <<>>}
<1>1. <<>> \in T
  <2>1. OpenAll(<<>>) = <<>> /\ <<>> \in Seq(SealedItem)
    BY DEF OpenAll, Flat
  <2> QED
    BY <2>1
<1>2. ASSUME NEW s \in Seq(SealedItem), NEW e \in SealedItem, s \in T
      PROVE  Append(s, e) \in T
  <2> DEFINE u == Append(s, e)
             P == OpenAll(s)
             Q == Opened(e)
  <2>1. /\ u \in Seq(SealedItem) /\ Len(u) = Len(s) + 1 /\ Len(s) \in Nat
        /\ u[Len(s) + 1] = e /\ \A i \in 1..Len(s) : u[i] = s[i]
    BY AppendIs
  <2>2. OpenAll(u) = P \o Q /\ P \in Seq(Item)
    BY OpenAllAppend
  <2>3. /\ Q \in Seq(Item) /\ Q # <<>> /\ Len(Q) = Len(e.frame.body)
        /\ \A k \in 1..Len(e.frame.body) : Q[k] = Whole(e.frame.body[k])
    BY SealedItemIs
  <2>4. \A j \in 1..Len(P) : From(s, P[j])
    BY <1>2
  <2> HIDE DEF u, P, Q
  <2>5. /\ Len(P \o Q) = Len(P) + Len(Q) /\ Len(P) \in Nat /\ Len(Q) \in Nat
        /\ \A j \in 1..Len(P) + Len(Q) :
             (P \o Q)[j] = IF j <= Len(P) THEN P[j] ELSE Q[j - Len(P)]
    <3>1. P \in Seq(Item) /\ Q \in Seq(Item)
      BY <2>2, <2>3
    <3> QED
      BY <3>1, ConcatProperties
  <2>6. ASSUME NEW j \in 1..Len(P \o Q)
        PROVE  From(u, (P \o Q)[j])
    <3>1. CASE j <= Len(P)
      <4>1. (P \o Q)[j] = P[j] /\ j \in 1..Len(P)
        BY <2>5, <3>1
      <4>2. PICK i \in 1..Len(s) :
              \E k \in 1..Len(s[i].frame.body) : P[j] = Whole(s[i].frame.body[k])
        BY <2>4, <4>1
      <4>3. i \in 1..Len(u) /\ u[i] = s[i]
        BY <2>1
      <4> QED
        BY <4>1, <4>2, <4>3
    <3>2. CASE j > Len(P)
      <4>1. (P \o Q)[j] = Q[j - Len(P)] /\ j - Len(P) \in 1..Len(e.frame.body)
        BY <2>3, <2>5, <3>2
      <4>2. Len(s) + 1 \in 1..Len(u)
        BY <2>1
      <4>3. /\ (P \o Q)[j] = Whole(u[Len(s) + 1].frame.body[j - Len(P)])
            /\ j - Len(P) \in 1..Len(u[Len(s) + 1].frame.body)
        BY <2>1, <2>3, <4>1
      <4> QED
        BY <4>2, <4>3
    <3>3. j <= Len(P) \/ j > Len(P)
      BY <2>5
    <3> QED
      BY <3>1, <3>2, <3>3
  <2>7. P \o Q # <<>>
    <3>1. Len(Q) # 0
      BY <2>3
    <3> QED
      BY <2>5, <3>1
  <2> HIDE DEF From
  <2>8. u \in T
    BY <2>1, <2>2, <2>6, <2>7
  <2> QED
    BY <2>8 DEF u
<1>3. \A s \in Seq(SealedItem) : s \in T
  <2> HIDE DEF T
  <2> QED
    BY <1>1, <1>2, SequenceInduction
<1> QED
  BY <1>3

\* What a run of frames carries, part by part.
LEMMA BytesAppend ==
  ASSUME NEW s \in Seq(Frame), NEW f \in Frame
  PROVE  Bytes(Append(s, f)) = Bytes(s) \cup Lo(f)..(Hi(f) - 1)
<1>1. /\ Len(Append(s, f)) = Len(s) + 1 /\ Len(s) \in Nat
      /\ Append(s, f)[Len(s) + 1] = f
      /\ \A i \in 1..Len(s) : Append(s, f)[i] = s[i]
  BY AppendIs
<1> DEFINE u == Append(s, f)
           of(g) == Lo(g)..(Hi(g) - 1)
<1> HIDE DEF u, of
<1>2. 1..Len(u) = 1..Len(s) \cup {Len(s) + 1}
  BY <1>1 DEF u
<1>3. {of(u[i]) : i \in 1..Len(u)} = {of(s[i]) : i \in 1..Len(s)} \cup {of(f)}
  <2>1. {of(u[i]) : i \in 1..Len(u)}
          = {of(u[i]) : i \in 1..Len(s)} \cup {of(u[Len(s) + 1])}
    BY <1>2
  <2>2. {of(u[i]) : i \in 1..Len(s)} = {of(s[i]) : i \in 1..Len(s)}
    BY <1>1 DEF u
  <2> QED
    BY <1>1, <2>1, <2>2 DEF u
<1>4. UNION {of(u[i]) : i \in 1..Len(u)} = (UNION {of(s[i]) : i \in 1..Len(s)}) \cup of(f)
  BY <1>3
<1> QED
  BY <1>4 DEF Bytes, u, of

\* Frames that tile [a, b) carry exactly that.
LEMMA TilesBytes ==
  ASSUME NEW s \in Seq(Frame), NEW a \in Int, NEW b \in Int, Tiles(s, a, b)
  PROVE  Bytes(s) = a..(b - 1)
<1> DEFINE T == {r \in Seq(Frame) : \A c \in Int : Tiles(r, a, c) => Bytes(r) = a..(c - 1)}
<1>1. <<>> \in T
  <2>1. <<>> \in Seq(Frame) /\ Bytes(<<>>) = {}
    BY DEF Bytes
  <2>2. ASSUME NEW c \in Int, Tiles(<<>>, a, c)
        PROVE  a..(c - 1) = {}
    BY <2>2 DEF Tiles, Gapless
  <2> QED
    BY <2>1, <2>2
<1>2. ASSUME NEW r \in Seq(Frame), NEW f \in Frame, r \in T
      PROVE  Append(r, f) \in T
  <2>1. ASSUME NEW c \in Int, Tiles(Append(r, f), a, c)
        PROVE  Bytes(Append(r, f)) = a..(c - 1)
    <3>1. /\ Ordered(r, a, Lo(f)) /\ Lo(f) < Hi(f)
          /\ Gapless(r, a, Lo(f)) /\ Hi(f) = c
      BY <2>1, OrderedButLast DEF Tiles
    <3>2. Lo(f) \in Int /\ Hi(f) \in Int /\ a <= Lo(f)
      BY <3>1, FrameEnds DEF Ordered
    <3>3. Bytes(r) = a..(Lo(f) - 1)
      BY <1>2, <3>1, <3>2 DEF Tiles
    <3>4. Bytes(Append(r, f)) = a..(Lo(f) - 1) \cup Lo(f)..(Hi(f) - 1)
      BY <3>3, BytesAppend
    <3> QED
      BY <3>1, <3>2, <3>4
  <2>2. Append(r, f) \in Seq(Frame)
    OBVIOUS
  <2> QED
    BY <2>1, <2>2
<1>3. \A r \in Seq(Frame) : r \in T
  <2> HIDE DEF T
  <2> QED
    BY <1>1, <1>2, SequenceInduction
<1> QED
  BY <1>3

LEMMA BytesConcat ==
  ASSUME NEW s \in Seq(Frame), NEW t \in Seq(Frame)
  PROVE  Bytes(s \o t) = Bytes(s) \cup Bytes(t)
<1> DEFINE T == {r \in Seq(Frame) : Bytes(s \o r) = Bytes(s) \cup Bytes(r)}
<1>1. <<>> \in T
  <2>1. <<>> \in Seq(Frame) /\ Bytes(<<>>) = {} /\ s \o <<>> = s
    BY DEF Bytes
  <2> QED
    BY <2>1
<1>2. ASSUME NEW r \in Seq(Frame), NEW f \in Frame, r \in T
      PROVE  Append(r, f) \in T
  <2>1. s \o r \in Seq(Frame) /\ Append(r, f) \in Seq(Frame)
    OBVIOUS
  <2>2. s \o Append(r, f) = Append(s \o r, f)
    BY ConcatAppend
  <2>3. /\ Bytes(Append(s \o r, f)) = Bytes(s \o r) \cup Lo(f)..(Hi(f) - 1)
        /\ Bytes(Append(r, f)) = Bytes(r) \cup Lo(f)..(Hi(f) - 1)
    BY <2>1, BytesAppend
  <2> QED
    BY <1>2, <2>1, <2>2, <2>3
<1>3. \A r \in Seq(Frame) : r \in T
  <2> HIDE DEF T
  <2> QED
    BY <1>1, <1>2, SequenceInduction
<1> QED
  BY <1>3

LEMMA OpenAllBytes ==
  ASSUME NEW items \in Seq(SealedItem)
  PROVE  Bytes(Frames(OpenAll(items))) = Bytes(Frames(items))
<1> DEFINE T == {s \in Seq(SealedItem) : Bytes(Frames(OpenAll(s))) = Bytes(Frames(s))}
<1>1. <<>> \in T
  <2>1. OpenAll(<<>>) = <<>> /\ <<>> \in Seq(SealedItem)
    BY DEF OpenAll, Flat
  <2> QED
    BY <2>1
<1>2. ASSUME NEW s \in Seq(SealedItem), NEW e \in SealedItem, s \in T
      PROVE  Append(s, e) \in T
  <2>1. /\ s \in Seq(Item) /\ e \in Item
        /\ Append(s, e) \in Seq(SealedItem)
    <3>1. SealedItem \subseteq Item
      BY DEF SealedItem
    <3> QED
      BY <3>1
  <2>2. Frames(Append(s, e)) = Append(Frames(s), e.frame)
    BY <2>1 DEF Frames
  <2>3. /\ OpenAll(Append(s, e)) = OpenAll(s) \o Opened(e)
        /\ OpenAll(s) \in Seq(Item) /\ Opened(e) \in Seq(Item)
    BY OpenAllAppend, SealedItemIs
  <2>4. Frames(OpenAll(Append(s, e))) = Frames(OpenAll(s)) \o Frames(Opened(e))
    BY <2>3, FramesConcat
  <2>5. /\ Frames(s) \in Seq(Frame) /\ Frames(OpenAll(s)) \in Seq(Frame)
        /\ Frames(Opened(e)) \in Seq(Frame) /\ e.frame \in Frame
    BY <2>1, <2>3, FramesIs, SealedItemIs
  <2>6. Bytes(Frames(Opened(e))) = Lo(e.frame)..(Hi(e.frame) - 1)
    <3>1. Lo(e.frame) \in Int /\ Hi(e.frame) \in Int
      BY <2>5, FrameEnds
    <3> QED
      BY <2>5, <3>1, SealedItemIs, TilesBytes
  <2>7. Bytes(Frames(Append(s, e))) = Bytes(Frames(s)) \cup Lo(e.frame)..(Hi(e.frame) - 1)
    BY <2>2, <2>5, BytesAppend
  <2>8. Bytes(Frames(OpenAll(Append(s, e))))
          = Bytes(Frames(OpenAll(s))) \cup Bytes(Frames(Opened(e)))
    BY <2>4, <2>5, BytesConcat
  <2> QED
    BY <1>2, <2>1, <2>6, <2>7, <2>8
<1>3. \A s \in Seq(SealedItem) : s \in T
  <2> HIDE DEF T
  <2> QED
    BY <1>1, <1>2, SequenceInduction
<1> QED
  BY <1>3

\* The first frames of a run.
LEMMA FirstFrames ==
  ASSUME NEW s \in Seq(Frame), NEW t \in Seq(Frame), Len(s) <= Len(t),
         \A i \in 1..Len(s) : s[i] = t[i]
  PROVE  /\ \A a, b \in Int : Ordered(t, a, b) => Ordered(s, a, b)
         /\ Bytes(s) \subseteq Bytes(t)
         /\ Len(s) = Len(t) => s = t
<1>1. \A i \in 1..Len(s) : i \in 1..Len(t)
  OBVIOUS
<1>2. \A a, b \in Int : Ordered(t, a, b) => Ordered(s, a, b)
  BY <1>1 DEF Ordered
<1>3. Bytes(s) \subseteq Bytes(t)
  BY <1>1 DEF Bytes
<1>4. Len(s) = Len(t) => s = t
  BY SeqEqual
<1> QED
  BY <1>2, <1>3, <1>4

\* Runs whose frames have the same ends.
LEMMA SameEnds ==
  ASSUME NEW s \in Seq(Frame), NEW t \in Seq(Frame), Len(s) = Len(t),
         \A i \in 1..Len(s) : Lo(s[i]) = Lo(t[i]) /\ Hi(s[i]) = Hi(t[i])
  PROVE  /\ \A a, b \in Int : Ordered(t, a, b) => Ordered(s, a, b)
         /\ \A a, b \in Int : Gapless(t, a, b) => Gapless(s, a, b)
         /\ Bytes(s) = Bytes(t)
<1>1. \A a, b \in Int : Ordered(t, a, b) => Ordered(s, a, b)
  BY DEF Ordered
<1>2. ASSUME NEW a \in Int, NEW b \in Int, Gapless(t, a, b)
      PROVE  Gapless(s, a, b)
  <2>1. CASE t = <<>>
    <3>1. s = <<>>
      BY <2>1
    <3> QED
      BY <1>2, <2>1, <3>1 DEF Gapless
  <2>2. CASE t # <<>>
    <3>1. s # <<>> /\ 1 \in 1..Len(s) /\ Len(s) \in 1..Len(s) /\ Len(s) \in Nat
      BY <2>2
    <3>2. Lo(s[1]) = a /\ Hi(s[Len(s)]) = b
      BY <1>2, <2>2, <3>1 DEF Gapless
    <3>3. ASSUME NEW i \in 1..(Len(s) - 1)
          PROVE  Hi(s[i]) = Lo(s[i + 1])
      <4>1. i \in 1..Len(s) /\ i + 1 \in 1..Len(s)
        BY <3>1
      <4>2. Hi(t[i]) = Lo(t[i + 1])
        BY <1>2, <2>2 DEF Gapless
      <4> QED
        BY <4>1, <4>2
    <3> QED
      BY <3>1, <3>2, <3>3 DEF Gapless
  <2> QED
    BY <2>1, <2>2
<1>3. Bytes(s) = Bytes(t)
  <2>1. {Lo(s[i])..(Hi(s[i]) - 1) : i \in 1..Len(s)} = {Lo(t[i])..(Hi(t[i]) - 1) : i \in 1..Len(t)}
    OBVIOUS
  <2> QED
    BY <2>1 DEF Bytes
<1> QED
  BY <1>1, <1>2, <1>3

------------------------------------------------------------------------------
(* What a decode carries over from its input.                               *)

\* Order always, completeness when it returns Ok, and no byte that is not there.
Carries(input, r) ==
  /\ r.out \in Seq(Item) /\ r.ok \in BOOLEAN
  /\ \A a, b \in Int : Ordered(Frames(input), a, b) =>
       /\ Ordered(Frames(r.out), a, b)
       /\ r.ok /\ Gapless(Frames(input), a, b) => Gapless(Frames(r.out), a, b)
  /\ Bytes(Frames(r.out)) \subseteq Bytes(Frames(input))
  /\ r.ok => Bytes(Frames(r.out)) = Bytes(Frames(input))

LEMMA BlockCarries ==
  ASSUME NEW algo \in CompressionAlgo, NEW input \in Seq(Item)
  PROVE  Carries(input, BlockDecode(algo, input))
<1> DEFINE r == BlockDecode(algo, input)
<1>1. PICK n \in 0..Len(input) :
        /\ \A i \in 1..n : Unpacks(algo, input[i])
        /\ r.ok <=> n = Len(input)
        /\ r.ok \in BOOLEAN
        /\ r.out \in Seq(Item) /\ Len(r.out) = n
        /\ \A i \in 1..n : r.out[i] = Unpacked(input[i])
  BY BlockDecodeIs
<1> DEFINE first == SubSeq(input, 1, n)
           F == Frames(r.out)
           G == Frames(first)
           H == Frames(input)
<1> HIDE DEF r
<1>2. /\ first \in Seq(Item) /\ Len(first) = n /\ n <= Len(input)
      /\ \A i \in 1..n : first[i] = input[i] /\ input[i] \in Item /\ i \in 1..Len(input)
  OBVIOUS
<1> HIDE DEF first
<1>3. /\ F \in Seq(Frame) /\ G \in Seq(Frame) /\ H \in Seq(Frame)
      /\ Len(F) = n /\ Len(G) = n /\ Len(H) = Len(input)
      /\ \A i \in 1..n : F[i] = r.out[i].frame /\ G[i] = input[i].frame /\ H[i] = input[i].frame
  BY <1>1, <1>2, FramesIs
<1>4. ASSUME NEW i \in 1..n
      PROVE  Lo(F[i]) = Lo(G[i]) /\ Hi(F[i]) = Hi(G[i])
  <2>1. input[i] \in Item /\ Unpacks(algo, input[i])
    BY <1>1, <1>2
  <2>2. /\ Lo(Unpacked(input[i]).frame) = Lo(input[i].frame)
        /\ Hi(Unpacked(input[i]).frame) = Hi(input[i].frame)
    BY <2>1, UnpackedIs
  <2>3. F[i] = Unpacked(input[i]).frame /\ G[i] = input[i].frame
    BY <1>1, <1>3
  <2> HIDE DEF F, G
  <2> QED
    BY <2>2, <2>3
<1> HIDE DEF F, G, H
<1>5. /\ \A a, b \in Int : Ordered(G, a, b) => Ordered(F, a, b)
      /\ \A a, b \in Int : Gapless(G, a, b) => Gapless(F, a, b)
      /\ Bytes(F) = Bytes(G)
  BY <1>3, <1>4, SameEnds
<1>6. /\ \A a, b \in Int : Ordered(H, a, b) => Ordered(G, a, b)
      /\ Bytes(G) \subseteq Bytes(H)
      /\ n = Len(input) => G = H
  <2>1. /\ G \in Seq(Frame) /\ H \in Seq(Frame) /\ Len(G) <= Len(H)
        /\ \A i \in 1..Len(G) : G[i] = H[i]
        /\ n = Len(input) <=> Len(G) = Len(H)
    BY <1>2, <1>3
  <2> QED
    BY <2>1, FirstFrames
<1> QED
  BY <1>1, <1>5, <1>6 DEF Carries, r, F, H

LEMMA AeadCarries ==
  ASSUME NEW cipher \in Cipher, NEW key, NEW input \in Seq(Item),
         \A i \in 1..Len(input) : WholeBody(input[i].frame)
  PROVE  Carries(input, AeadDecode(cipher, key, input))
<1> DEFINE r == AeadDecode(cipher, key, input)
<1>1. PICK n \in 0..Len(input), good \in Seq(Item) :
        /\ Len(good) = n
        /\ \A i \in 1..n : good[i] = input[i] /\ Opens(cipher, key, input[i])
        /\ r.ok <=> n = Len(input)
        /\ r.ok \in BOOLEAN
        /\ r.out = OpenAll(good)
  BY AeadDecodeIs
<1> HIDE DEF r
<1>2. good \in Seq(SealedItem)
  <2>1. ASSUME NEW i \in 1..n
        PROVE  good[i] \in SealedItem
    <3>1. good[i] = input[i] /\ input[i] \in Item /\ i \in 1..Len(input)
      BY <1>1
    <3>2. input[i].frame \in Sealed /\ IsSealed(input[i].frame)
      BY <1>1, <3>1, OpensSealed
    <3> QED
      BY <3>1, <3>2 DEF SealedItem, WholeBody
  <2> QED
    BY <1>1, <2>1
<1> DEFINE G == Frames(good)
           H == Frames(input)
<1>3. /\ G \in Seq(Frame) /\ H \in Seq(Frame)
      /\ Len(G) = n /\ Len(H) = Len(input) /\ n <= Len(input)
      /\ \A i \in 1..n : G[i] = H[i]
  <2>1. /\ G \in Seq(Frame) /\ Len(G) = n
        /\ \A i \in 1..n : G[i] = good[i].frame
    BY <1>1, FramesIs
  <2>2. /\ H \in Seq(Frame) /\ Len(H) = Len(input)
        /\ \A i \in 1..Len(input) : H[i] = input[i].frame
    BY FramesIs
  <2> HIDE DEF G, H
  <2>3. n \in Nat /\ Len(input) \in Nat /\ n <= Len(input)
    BY <1>1
  <2>4. ASSUME NEW i \in 1..n
        PROVE  G[i] = H[i]
    BY <1>1, <2>1, <2>2, <2>3, SMTT(30)
  <2> QED
    BY <2>1, <2>2, <2>3, <2>4
<1>4. /\ r.out \in Seq(Item)
      /\ \A a, b \in Int : Ordered(G, a, b) =>
           /\ Ordered(Frames(r.out), a, b)
           /\ Gapless(G, a, b) => Gapless(Frames(r.out), a, b)
      /\ Bytes(Frames(r.out)) = Bytes(G)
  BY <1>1, <1>2, OpenAllOrder, OpenAllBytes
<1> HIDE DEF G, H
<1>5. /\ \A a, b \in Int : Ordered(H, a, b) => Ordered(G, a, b)
      /\ Bytes(G) \subseteq Bytes(H)
      /\ n = Len(input) => G = H
  <2>1. /\ G \in Seq(Frame) /\ H \in Seq(Frame) /\ Len(G) <= Len(H)
        /\ \A i \in 1..Len(G) : G[i] = H[i]
        /\ n = Len(input) <=> Len(G) = Len(H)
    BY <1>3
  <2> QED
    BY <2>1, FirstFrames
<1> QED
  BY <1>1, <1>4, <1>5 DEF Carries, r, H

\* What a result carries, a second layer behind it carries too.
LEMMA CarriesOn ==
  ASSUME NEW input, NEW mid, NEW r,
         mid.out \in Seq(Item), mid.ok = TRUE,
         Carries(input, mid), Carries(mid.out, r)
  PROVE  Carries(input, r)
BY DEF Carries

\* ChainDecoder hands on what it is given, as far as it gets, and if it drops the
\* output of its first layer it drops all of it.
LEMMA ChainCarries ==
  ASSUME NEW cfg \in Config, NEW input \in Seq(Item),
         \A i \in 1..Len(input) : WholeBody(input[i].frame)
  PROVE  Carries(input, ChainDecode(cfg, input))
<1> DEFINE r == ChainDecode(cfg, input)
           mid == AeadDecode(cfg.encrypt, cfg.key, input)
<1>1. /\ cfg.compress # None => cfg.compress \in CompressionAlgo
      /\ cfg.encrypt # None => cfg.encrypt \in Cipher
  BY DEF Config
<1>2. CASE cfg.encrypt = None /\ cfg.compress = None
  <2>1. r = [out |-> input, ok |-> TRUE]
    BY <1>2 DEF ChainDecode
  <2> QED
    BY <2>1 DEF Carries
<1>3. CASE cfg.encrypt = None /\ cfg.compress # None
  BY <1>1, <1>3, BlockCarries DEF ChainDecode
<1>4. CASE cfg.encrypt # None
  <2>1. Carries(input, mid)
    BY <1>1, <1>4, AeadCarries
  <2>2. mid.out \in Seq(Item) /\ mid.ok \in BOOLEAN
    BY <2>1 DEF Carries
  <2>3. CASE cfg.compress = None
    BY <1>4, <2>1, <2>3 DEF ChainDecode
  <2>4. CASE cfg.compress # None /\ mid.ok
    <3>1. r = BlockDecode(cfg.compress, mid.out)
      BY <1>4, <2>4 DEF ChainDecode
    <3>2. Carries(mid.out, BlockDecode(cfg.compress, mid.out))
      BY <1>1, <2>2, <2>4, BlockCarries
    <3> HIDE DEF mid, r
    <3> QED
      BY <2>1, <2>2, <2>4, <3>1, <3>2, CarriesOn DEF r
  <2>5. CASE cfg.compress # None /\ ~mid.ok
    <3>1. r = [out |-> <<>>, ok |-> FALSE]
      BY <1>4, <2>5 DEF ChainDecode
    <3>2. /\ Frames(<<>>) = <<>> /\ Bytes(<<>>) = {} /\ <<>> \in Seq(Item)
      BY DEF Frames, Bytes
    <3>3. ASSUME NEW a \in Int, NEW b \in Int, Ordered(Frames(input), a, b)
          PROVE  Ordered(<<>>, a, b)
      BY <3>3 DEF Ordered
    <3> HIDE DEF r
    <3>4. r.out = <<>> /\ r.ok = FALSE
      BY <3>1
    <3> QED
      BY <3>2, <3>3, <3>4 DEF Carries, r
  <2> QED
    BY <2>2, <2>3, <2>4, <2>5
<1> QED
  BY <1>2, <1>3, <1>4

------------------------------------------------------------------------------
(* Which frames a source gets through.                                      *)

\* What the sink puts into a block, or on the wire without encryption.
InnerKind == IF config.compress = None THEN Plain ELSE config.compress

\* A frame of the sink's make.
Made(f) ==
  IF config.encrypt = None
  THEN f.kind = InnerKind
  ELSE f.kind = config.encrypt /\ f.key = config.key

\* A frame of the sink as it may arrive.
Arrives(item) ==
  /\ item \in Item
  /\ WholeBody(item.frame)
  /\ Made(item.frame)
  /\ item.state \in {"whole"} \cup Damage(item.frame)

Arrived == {item \in Item : Arrives(item)}

\* The segments of a sealed frame are of one kind.
LEMMA BodyKinds ==
  ASSUME NEW f \in Sealed, WholeBody(f)
  PROVE  \A k \in 1..Len(f.body) : f.body[k].kind = InnerKind
BY DEF WholeBody, InnerKind, Sealed, IsSealed

\* Only the sink's key opens the sink's blocks, and what comes out of them is
\* whole and of the sink's inner kind.
LEMMA AeadGets ==
  ASSUME TypeOK, NEW cipher \in Cipher, NEW key, NEW input \in Seq(Arrived)
  PROVE  LET r == AeadDecode(cipher, key, input) IN
         /\ r.out \in Seq(Item) /\ r.ok \in BOOLEAN
         /\ \A j \in 1..Len(r.out) :
              /\ config.encrypt = cipher /\ config.key = key
              /\ r.out[j].frame.kind = InnerKind /\ r.out[j].state = "whole"
         /\ r.ok /\ input # <<>> =>
              config.encrypt = cipher /\ config.key = key /\ r.out # <<>>
<1> DEFINE r == AeadDecode(cipher, key, input)
<1>1. input \in Seq(Item)
  BY DEF Arrived
<1>2. PICK n \in 0..Len(input), good \in Seq(Item) :
        /\ Len(good) = n
        /\ \A i \in 1..n : good[i] = input[i] /\ Opens(cipher, key, input[i])
        /\ r.ok <=> n = Len(input)
        /\ r.ok \in BOOLEAN
        /\ r.out = OpenAll(good)
  BY <1>1, AeadDecodeIs
<1> HIDE DEF r
<1>3. ASSUME NEW i \in 1..n
      PROVE  /\ good[i] \in SealedItem
             /\ config.encrypt = cipher /\ config.key = key
             /\ \A k \in 1..Len(good[i].frame.body) : good[i].frame.body[k].kind = InnerKind
  <2> DEFINE f == input[i].frame
  <2>1. good[i] = input[i] /\ input[i] \in Arrived /\ Opens(cipher, key, input[i])
    BY <1>2
  <2>2. input[i] \in Item /\ WholeBody(f) /\ Made(f)
    BY <2>1 DEF Arrived, Arrives
  <2>3. f \in Sealed /\ IsSealed(f) /\ f.kind = cipher /\ f.key = key
    BY <2>1, <2>2, OpensSealed DEF Opens, TakeBlock
  <2>4. config.encrypt = cipher /\ config.key = key
    BY <2>2, <2>3, ConfigType
       DEF Made, InnerKind, CompressionAlgo, Cipher, Zstd, Plain, None
  <2>5. good[i] \in SealedItem
    BY <2>1, <2>2, <2>3 DEF SealedItem, WholeBody
  <2> QED
    BY <2>1, <2>2, <2>3, <2>4, <2>5, BodyKinds
<1>4. good \in Seq(SealedItem)
  BY <1>2, <1>3
<1>5. /\ \A j \in 1..Len(OpenAll(good)) : \E i \in 1..Len(good) :
           \E k \in 1..Len(good[i].frame.body) :
             OpenAll(good)[j] = Whole(good[i].frame.body[k])
      /\ good # <<>> => OpenAll(good) # <<>>
  BY <1>4, OpenAllFrom
<1>6. r.out \in Seq(Item)
  BY <1>2, <1>4, OpenAllOrder
<1>7. ASSUME NEW j \in 1..Len(r.out)
      PROVE  /\ config.encrypt = cipher /\ config.key = key
             /\ r.out[j].frame.kind = InnerKind /\ r.out[j].state = "whole"
  <2>1. PICK i \in 1..n : \E k \in 1..Len(good[i].frame.body) :
          r.out[j] = Whole(good[i].frame.body[k])
    <3>1. r.out = OpenAll(good) /\ Len(good) = n
      BY <1>2
    <3>2. j \in 1..Len(OpenAll(good))
      BY <3>1
    <3> QED
      BY <1>5, <3>1, <3>2, ZenonT(60)
  <2>2. PICK k \in 1..Len(good[i].frame.body) :
          r.out[j] = Whole(good[i].frame.body[k])
    BY <2>1
  <2>3. r.out[j].frame = good[i].frame.body[k] /\ r.out[j].state = "whole"
    BY <2>2 DEF Whole
  <2> QED
    BY <1>3, <2>3
<1>8. ASSUME r.ok, input # <<>>
      PROVE  config.encrypt = cipher /\ config.key = key /\ r.out # <<>>
  <2>1. n = Len(input) /\ Len(input) # 0 /\ Len(input) \in Nat
    BY <1>1, <1>2, <1>8
  <2>2. 1 \in 1..n /\ good # <<>>
    BY <1>2, <2>1
  <2> QED
    BY <1>2, <1>3, <1>5, <2>2
<1> QED
  BY <1>2, <1>6, <1>7, <1>8 DEF r

\* A decompressor gets through blocks of its algorithm only, and leaves their
\* state as it is.
LEMMA BlockGets ==
  ASSUME NEW algo \in CompressionAlgo, NEW input \in Seq(Item)
  PROVE  LET r == BlockDecode(algo, input) IN
         /\ r.out \in Seq(Item) /\ r.ok \in BOOLEAN
         /\ \A j \in 1..Len(r.out) :
              /\ j \in 1..Len(input) /\ input[j].frame.kind = algo
              /\ r.out[j].frame.kind = Plain
              /\ r.out[j].state = input[j].state
              /\ input[j].state \notin {"torn", "tampered"}
         /\ r.ok /\ input # <<>> => 1 \in 1..Len(input) /\ input[1].frame.kind = algo
         /\ (\A j \in 1..Len(input) : input[j].frame.kind = algo /\ input[j].state = "whole")
              => r.ok
<1> DEFINE r == BlockDecode(algo, input)
<1>1. PICK n \in 0..Len(input) :
        /\ \A i \in 1..n : Unpacks(algo, input[i])
        /\ n < Len(input) => ~Unpacks(algo, input[n + 1])
        /\ r.ok <=> n = Len(input)
        /\ r.ok \in BOOLEAN
        /\ r.out \in Seq(Item) /\ Len(r.out) = n
        /\ \A i \in 1..n : r.out[i] = Unpacked(input[i])
  BY BlockDecodeIs
<1> HIDE DEF r
<1>2. ASSUME NEW j \in 1..Len(r.out)
      PROVE  /\ j \in 1..Len(input) /\ input[j].frame.kind = algo
             /\ r.out[j].frame.kind = Plain
             /\ r.out[j].state = input[j].state
             /\ input[j].state \notin {"torn", "tampered"}
  <2>1. j \in 1..n /\ j \in 1..Len(input) /\ input[j] \in Item
    BY <1>1
  <2>2. Unpacks(algo, input[j]) /\ r.out[j] = Unpacked(input[j])
    BY <1>1, <2>1
  <2>3. Unpacked(input[j]).state = input[j].state /\ Unpacked(input[j]).frame.kind = Plain
    BY <2>1, <2>2, UnpackedIs
  <2> QED
    BY <2>1, <2>2, <2>3 DEF Unpacks, TakeBlock
<1>3. ASSUME r.ok, input # <<>>
      PROVE  1 \in 1..Len(input) /\ input[1].frame.kind = algo
  <2>1. 1 \in 1..Len(input) /\ 1 \in 1..n
    BY <1>1, <1>3
  <2> QED
    BY <1>1, <2>1 DEF Unpacks, TakeBlock
<1>4. ASSUME \A j \in 1..Len(input) : input[j].frame.kind = algo /\ input[j].state = "whole"
      PROVE  r.ok
  <2>1. SUFFICES ASSUME n < Len(input) PROVE FALSE
    BY <1>1
  <2>2. n + 1 \in 1..Len(input)
    BY <1>1, <2>1
  <2> QED
    BY <1>1, <1>4, <2>1, <2>2 DEF Unpacks, TakeBlock
<1> QED
  BY <1>1, <1>2, <1>3, <1>4 DEF r

\* What ChainDecoder makes of the sink's frames: the layers that match decide
\* what comes out, and damage comes through where no layer looks at it.
DecodeGets(r, input) ==
  /\ Agree => \A j \in 1..Len(r.out) : r.out[j].frame.kind = Plain
  /\ \A j \in 1..Len(r.out) :
       Agree /\ r.out[j].state # "whole"
         => config.encrypt = None /\ config.compress \in {None, Zstd}
  /\ \A j \in 1..Len(r.out) :
       r.out[j].frame.kind = Plain => Agree
  /\ r.ok /\ input # <<>> => Agree \/ PeelsOuterLayers
  /\ Agree /\ config.compress # None /\ config.encrypt # None /\ ~r.ok => r.out = <<>>

\* A frame that is not sealed tells the sink's configuration.
LEMMA MadeTells ==
  ASSUME TypeOK, NEW f, Made(f)
  PROVE  /\ f.kind \in CompressionAlgo =>
              config.encrypt = None /\ config.compress = f.kind
         /\ f.kind = Plain => config.encrypt = None /\ config.compress = None
         /\ config.encrypt = None /\ config.compress = None => f.kind = Plain
BY ConfigType DEF Made, InnerKind, CompressionAlgo, Cipher, Zstd, Plain, None

LEMMA ChainGets ==
  ASSUME TypeOK, dconfig \in Config, NEW input \in Seq(Arrived)
  PROVE  DecodeGets(ChainDecode(dconfig, input), input)
<1> DEFINE r == ChainDecode(dconfig, input)
           mid == AeadDecode(dconfig.encrypt, dconfig.key, input)
<1>1. /\ dconfig.compress # None => dconfig.compress \in CompressionAlgo
      /\ dconfig.encrypt # None => dconfig.encrypt \in Cipher
      /\ None # Plain /\ Plain \notin CompressionAlgo
  BY DEF Config, CompressionAlgo, Zstd, Plain, None
<1>2. input \in Seq(Item)
  BY DEF Arrived
<1>3. ASSUME NEW j \in 1..Len(input)
      PROVE  /\ input[j] \in Item /\ Made(input[j].frame)
             /\ input[j].state \in {"whole"} \cup Damage(input[j].frame)
  <2>1. input[j] \in Arrived
    OBVIOUS
  <2> QED
    BY <2>1 DEF Arrived, Arrives
<1>4. CASE dconfig.encrypt = None /\ dconfig.compress = None
  <2>1. r = [out |-> input, ok |-> TRUE]
    BY <1>4 DEF ChainDecode
  <2>2. r.out = input /\ r.ok = TRUE
    BY <2>1
  <2>3. Agree => config.encrypt = None /\ config.compress = None
    BY <1>4 DEF Agree
  <2>4. PeelsOuterLayers
    BY <1>4 DEF PeelsOuterLayers
  <2>5. \A j \in 1..Len(input) :
          input[j].frame.kind = Plain <=> config.encrypt = None /\ config.compress = None
    BY <1>3, MadeTells
  <2>6. config.encrypt = None /\ config.compress = None => Agree
    BY <1>4 DEF Agree
  <2> HIDE DEF r
  <2> QED
    BY <2>2, <2>3, <2>4, <2>5, <2>6 DEF DecodeGets, r
<1>5. CASE dconfig.encrypt = None /\ dconfig.compress # None
  <2> DEFINE algo == dconfig.compress
  <2>1. r = BlockDecode(algo, input) /\ algo \in CompressionAlgo
    BY <1>1, <1>5 DEF ChainDecode
  <2> HIDE DEF r
  <2>2. /\ \A j \in 1..Len(r.out) :
             /\ j \in 1..Len(input) /\ input[j].frame.kind = algo
             /\ r.out[j].frame.kind = Plain
             /\ r.out[j].state = input[j].state
             /\ input[j].state \notin {"torn", "tampered"}
        /\ r.ok /\ input # <<>> => 1 \in 1..Len(input) /\ input[1].frame.kind = algo
    BY <1>2, <2>1, BlockGets
  <2>3. \A j \in 1..Len(input) : input[j].frame.kind = algo => Agree
    BY <1>3, <1>5, <2>1, MadeTells DEF Agree
  <2>4. ASSUME NEW j \in 1..Len(r.out), Agree, r.out[j].state # "whole"
        PROVE  config.encrypt = None /\ config.compress \in {None, Zstd}
    <3>1. /\ j \in 1..Len(input) /\ input[j].frame.kind = algo
          /\ input[j].state \in Damage(input[j].frame)
          /\ input[j].state \notin {"torn", "tampered"}
      BY <1>3, <2>2, <2>4
    <3>2. algo = Zstd
      BY <1>1, <2>1, <3>1 DEF Damage
    <3> QED
      BY <1>5, <2>4, <3>2 DEF Agree
  <2>5. Agree => config.encrypt = None
    BY <1>5 DEF Agree
  <2> HIDE DEF algo
  <2> QED
    BY <2>2, <2>3, <2>4, <2>5 DEF DecodeGets, r
<1>6. CASE dconfig.encrypt # None
  <2>1. /\ mid.out \in Seq(Item) /\ mid.ok \in BOOLEAN
        /\ \A j \in 1..Len(mid.out) :
             /\ config.encrypt = dconfig.encrypt /\ config.key = dconfig.key
             /\ mid.out[j].frame.kind = InnerKind /\ mid.out[j].state = "whole"
        /\ mid.ok /\ input # <<>> =>
             /\ config.encrypt = dconfig.encrypt /\ config.key = dconfig.key
             /\ mid.out # <<>>
    BY <1>1, <1>6, AeadGets
  <2>2. CASE dconfig.compress = None
    <3>1. r = mid
      BY <1>6, <2>2 DEF ChainDecode
    <3> HIDE DEF mid, r
    <3>2. Agree => InnerKind = Plain /\ config.compress = None
      BY <2>2 DEF Agree, InnerKind
    <3>3. /\ config.encrypt = dconfig.encrypt /\ config.key = dconfig.key => PeelsOuterLayers
          /\ config.encrypt = dconfig.encrypt /\ config.key = dconfig.key
             /\ InnerKind = Plain => Agree
      BY <1>1, <2>2, ConfigType DEF PeelsOuterLayers, Agree, InnerKind
    <3> QED
      BY <2>1, <3>1, <3>2, <3>3 DEF DecodeGets, r
  <2>3. CASE dconfig.compress # None /\ mid.ok
    <3> DEFINE algo == dconfig.compress
               b == BlockDecode(algo, mid.out)
    <3>1. r = b /\ algo \in CompressionAlgo
      BY <1>1, <1>6, <2>3 DEF ChainDecode
    <3>2. /\ \A j \in 1..Len(b.out) :
               /\ j \in 1..Len(mid.out) /\ mid.out[j].frame.kind = algo
               /\ b.out[j].frame.kind = Plain
               /\ b.out[j].state = mid.out[j].state
          /\ b.ok /\ mid.out # <<>> =>
               1 \in 1..Len(mid.out) /\ mid.out[1].frame.kind = algo
          /\ (\A j \in 1..Len(mid.out) :
                mid.out[j].frame.kind = algo /\ mid.out[j].state = "whole") => b.ok
      <4> HIDE DEF mid, algo
      <4> QED
        BY <2>1, <3>1, BlockGets
    <3> HIDE DEF mid, r, b
    <3>3. Agree => InnerKind = algo
      BY <2>3 DEF Agree, InnerKind
    <3>4. config.encrypt = dconfig.encrypt /\ config.key = dconfig.key /\ InnerKind = algo
            => Agree
      BY <1>1, <3>1 DEF Agree, InnerKind
    <3> HIDE DEF algo
    <3>5. \A j \in 1..Len(b.out) :
            Agree /\ b.out[j].frame.kind = Plain /\ b.out[j].state = "whole"
      BY <2>1, <3>2, <3>4
    <3>6. b.ok /\ input # <<>> => Agree
      BY <2>1, <2>3, <3>2, <3>4
    <3>7. Agree => b.ok
      BY <2>1, <3>2, <3>3
    <3> QED
      BY <3>1, <3>5, <3>6, <3>7 DEF DecodeGets, r
  <2>4. CASE dconfig.compress # None /\ ~mid.ok
    <3>1. r = [out |-> <<>>, ok |-> FALSE]
      BY <1>6, <2>4 DEF ChainDecode
    <3> HIDE DEF mid, r
    <3>2. r.out = <<>> /\ r.ok = FALSE
      BY <3>1
    <3> QED
      BY <3>2 DEF DecodeGets, r
  <2> QED
    BY <2>1, <2>2, <2>3, <2>4
<1> QED
  BY <1>4, <1>5, <1>6

------------------------------------------------------------------------------
(* The invariant of the pipe.                                               *)

WireMake == \A i \in 1..Len(output) : Made(output[i])

\* What has been delivered covers all that was read, until something fails.
NothingMissing ==
  Agree /\ intact /\ clean => Gapless(Frames(delivered), 0, ReadTo)

PipeInv ==
  /\ IInv
  /\ WireMake
  /\ dconfig \in Configs
  /\ next \in 1..(Len(output) + 1)
  /\ delivered \in Seq(Item)
  /\ clean \in BOOLEAN
  /\ Matched => dconfig = config
  /\ OutOrdered
  /\ DamagedNeverDelivered
  /\ PlainOnlyIfAgreed
  /\ NothingMissing

LEMMA InitPipeInv == PipeInit => PipeInv
<1> SUFFICES ASSUME PipeInit PROVE PipeInv
  OBVIOUS
<1>1. /\ Init /\ dconfig \in Configs /\ next = 1 /\ delivered = <<>> /\ clean = TRUE
      /\ Matched => dconfig = config
      /\ output = <<>>
  BY DEF PipeInit, Init
<1>2. IInv
  BY <1>1, InitIInv
<1>3. Frames(delivered) = <<>> /\ ReadTo = 0
  BY <1>1 DEF Frames, ReadTo
<1>4. Ordered(<<>>, 0, 0) /\ Gapless(<<>>, 0, 0)
  BY NothingTiles
<1>5. OutOrdered /\ NothingMissing
  BY <1>1, <1>3, <1>4 DEF OutOrdered, NothingMissing
<1>6. WireMake /\ DamagedNeverDelivered /\ PlainOnlyIfAgreed
  BY <1>1 DEF WireMake, DamagedNeverDelivered, PlainOnlyIfAgreed
<1> QED
  BY <1>1, <1>2, <1>5, <1>6 DEF PipeInv

------------------------------------------------------------------------------
(* The sink's steps.                                                        *)

\* A call appends frames of the sink's make.
LEMMA CallMakes ==
  ASSUME IInv, WireMake, NEW op, NEW r, GoodStage(r), Chain(op, r)
  PROVE  WireMake'
<1>1. PICK t : Appends(t)
  BY ChainAppends
<1>2. /\ output \in Seq(Frame) /\ t \in Seq(Frame) /\ output' = output \o t
      /\ config' = config
  BY <1>1 DEF Appends, IInv, TypeOK, Chain
<1>3. \A i \in 1..Len(output') : Made(output'[i])
  <2>1. CASE config.encrypt = None
    <3>1. output' = output \o r.out /\ r.out \in Seq(Frame) /\ r.out \in Seq(Segment)
      BY <2>1, SegmentsAreFrames DEF Chain, GoodStage, StageCovers
    <3>2. ASSUME NEW i \in 1..Len(r.out)
          PROVE  Made(r.out[i])
      BY <2>1 DEF GoodStage, StageKinds, Made, InnerKind
    <3> QED
      BY <1>2, <3>1, <3>2, ConcatFrames DEF WireMake
  <2>2. CASE config.encrypt # None /\ output' = output
    BY <2>2 DEF WireMake
  <2>3. CASE config.encrypt # None /\ output' # output
    <3>1. output' = Append(output, SealedFrame(r.out))
      BY <2>3 DEF Chain, Seal, new_nonce, SealFails, SealedFrame
    <3>2. Made(SealedFrame(r.out))
      BY <2>3 DEF Made, SealedFrame
    <3>3. SealedFrame(r.out) = output'[Len(output')] /\ Len(output') = Len(output) + 1
      BY <1>2, <3>1
    <3>4. ASSUME NEW i \in 1..Len(output'), i # Len(output')
          PROVE  i \in 1..Len(output) /\ output'[i] = output[i]
      BY <1>2, <3>1, <3>3, <3>4
    <3> QED
      BY <3>2, <3>3, <3>4 DEF WireMake
  <2> QED
    BY <2>1, <2>2, <2>3
<1> QED
  BY <1>2, <1>3 DEF WireMake, Made, InnerKind

\* A step of the sink appends to the wire and leaves the rest of it as it is.
LEMMA SinkAppends ==
  ASSUME IInv, WireMake, [Next]_vars
  PROVE  /\ IInv' /\ WireMake' /\ config' = config
         /\ \E t \in Seq(Frame) : output' = output \o t
         /\ buffer.hi <= buffer'.hi
         /\ intact' => intact
<1>1. IInv'
  BY NextIInv
<1>2. /\ output \in Seq(Frame) /\ buffer \in Interval /\ buffer.hi \in Nat
      /\ buffer' \in Interval /\ buffer'.hi \in Nat
  BY <1>1 DEF IInv, TypeOK, Interval
<1>3. CASE output' = output /\ config' = config /\ buffer'.hi = buffer.hi
           /\ (intact' => intact)
  <2>1. <<>> \in Seq(Frame) /\ output' = output \o <<>>
    BY <1>2, <1>3
  <2>2. WireMake'
    BY <1>3 DEF WireMake, Made, InnerKind
  <2>3. buffer.hi <= buffer'.hi
    BY <1>2, <1>3
  <2> QED
    BY <1>1, <1>3, <2>1, <2>2, <2>3
<1>4. CASE UNCHANGED vars
  <2>1. /\ output' = output /\ config' = config /\ buffer' = buffer
        /\ (intact' => intact)
    BY <1>4 DEF vars
  <2>2. buffer'.hi = buffer.hi
    BY <2>1
  <2> QED
    BY <1>3, <2>1, <2>2
<1>5. CASE Rebuild
  <2>1. /\ output' = output /\ config' = config
        /\ buffer' = [lo |-> buffer.hi, hi |-> buffer.hi]
        /\ intact' => intact
    BY <1>5 DEF Rebuild
  <2>2. buffer'.hi = buffer.hi
    BY <2>1
  <2> QED
    BY <1>3, <2>1, <2>2
<1>6. ASSUME NEW op, NEW r, Chain(op, r), buffer.hi <= r.buffer.hi,
             \/ op = "encode" /\ \E n \in 0..MaxInput : r \in EncodeStage(n)
             \/ op = "finish" /\ r \in FinishStage
      PROVE  /\ WireMake' /\ config' = config
             /\ \E t \in Seq(Frame) : output' = output \o t
             /\ buffer.hi <= buffer'.hi
             /\ intact' => intact
  <2>1. GoodStage(r)
    BY <1>6, CallIsGood
  <2>2. CallEffect(op, r) /\ \E t : Appends(t)
    BY <1>6, <2>1, ChainAppends
  <2>3. buffer' = r.buffer /\ config' = config /\ (intact' => intact)
    BY <2>2 DEF CallEffect
  <2>4. WireMake'
    BY <1>6, <2>1, CallMakes
  <2> QED
    BY <1>6, <2>2, <2>3, <2>4 DEF Appends
<1>7. ASSUME NEW n \in 0..MaxInput, Encode(n)
      PROVE  /\ WireMake' /\ config' = config
             /\ \E t \in Seq(Frame) : output' = output \o t
             /\ buffer.hi <= buffer'.hi
             /\ intact' => intact
  <2>1. PICK r \in EncodeStage(n) : Chain("encode", r)
    BY <1>7 DEF Encode
  <2>2. n \in Nat /\ buffer.hi <= buffer.hi + n
    BY <1>2, BoundsAssumption
  <2>3. r.buffer.hi = buffer.hi + n
    BY <2>1 DEF EncodeStage, Flush, Result
  <2> HIDE DEF EncodeStage
  <2> QED
    BY <1>6, <2>1, <2>2, <2>3
<1>8. ASSUME Finish
      PROVE  /\ WireMake' /\ config' = config
             /\ \E t \in Seq(Frame) : output' = output \o t
             /\ buffer.hi <= buffer'.hi
             /\ intact' => intact
  <2>1. PICK r \in FinishStage : Chain("finish", r)
    BY <1>8 DEF Finish
  <2>2. r.buffer.hi = buffer.hi
    BY <2>1 DEF FinishStage, Result
  <2>3. buffer.hi <= r.buffer.hi
    BY <1>2, <2>2
  <2> QED
    BY <1>6, <2>1, <2>3
<1> QED
  BY <1>1, <1>4, <1>5, <1>7, <1>8 DEF Next

------------------------------------------------------------------------------
(* The source's steps.                                                      *)

\* The end of the run of frames that reaches up to output[m].
EndOf(m) == IF m = 0 THEN 0 ELSE Hi(output[m])

Run(k) == SubSeq(output, next, next + k - 1)

\* The frames between two places of the wire cover the bytes between them.
LEMMA RunCovers ==
  ASSUME PipeInv, NEW k \in Nat, next + k - 1 <= Len(output)
  PROVE  /\ Run(k) \in Seq(Frame) /\ Len(Run(k)) = k
         /\ \A i \in 1..k : next + i - 1 \in 1..Len(output) /\ Run(k)[i] = output[next + i - 1]
         /\ ReadTo \in Nat /\ EndOf(next + k - 1) \in Nat
         /\ EndOf(next + k - 1) <= buffer.lo
         /\ Ordered(Run(k), ReadTo, EndOf(next + k - 1))
         /\ intact => Gapless(Run(k), ReadTo, EndOf(next + k - 1))
<1> DEFINE m == next + k - 1
           e == EndOf(m)
           run == Run(k)
<1>1. /\ output \in Seq(Frame) /\ Len(output) \in Nat /\ next \in Nat /\ 1 <= next
      /\ m \in Nat /\ next - 1 \in 0..m /\ m \in 0..Len(output)
      /\ buffer.lo \in Nat
  BY DEF PipeInv, IInv, TypeOK, Interval
<1>2. /\ run \in Seq(Frame) /\ Len(run) = k
      /\ \A i \in 1..k : next + i - 1 \in 1..Len(output) /\ run[i] = output[next + i - 1]
  BY <1>1 DEF Run
<1>3. \A i \in 1..Len(output) : Lo(output[i]) \in Nat /\ Hi(output[i]) \in Nat
  BY <1>1, SeqEnds
<1>4. /\ 0 <= buffer.lo
      /\ \A i \in 1..Len(output) :
           0 <= Lo(output[i]) /\ Lo(output[i]) < Hi(output[i]) /\ Hi(output[i]) <= buffer.lo
      /\ \A i, j \in 1..Len(output) : i < j => Hi(output[i]) <= Lo(output[j])
  BY DEF PipeInv, IInv, WireOrdered, Ordered
<1>5. ReadTo = EndOf(next - 1)
  BY <1>1 DEF ReadTo, EndOf
<1>6. /\ EndOf(0) = 0
      /\ \A j \in 1..Len(output) : EndOf(j) = Hi(output[j])
  BY DEF EndOf
<1>7. \A j \in 0..Len(output) : EndOf(j) \in Nat /\ EndOf(j) <= buffer.lo
  BY <1>1, <1>3, <1>4, <1>6
<1> HIDE DEF EndOf, run
<1>8. ReadTo \in Nat /\ e \in Nat /\ e <= buffer.lo
  BY <1>1, <1>5, <1>7
<1>9. Ordered(run, ReadTo, e)
  <2>1. ReadTo <= e
    <3>1. CASE next = 1
      BY <1>5, <1>6, <1>8, <3>1
    <3>2. CASE next # 1
      <4>1. next - 1 \in 1..Len(output) /\ m \in 1..Len(output)
        BY <1>1, <3>2
      <4>2. CASE m = next - 1
        BY <1>5, <1>8, <4>2
      <4>3. CASE m # next - 1
        <5>1. next - 1 < m
          BY <1>1, <4>3
        <5>2. Hi(output[next - 1]) <= Lo(output[m]) /\ Lo(output[m]) < Hi(output[m])
          BY <1>4, <4>1, <5>1
        <5> QED
          BY <1>3, <1>5, <1>6, <4>1, <5>2
      <4> QED
        BY <4>2, <4>3
    <3> QED
      BY <3>1, <3>2
  <2>2. ASSUME NEW i \in 1..k
        PROVE  ReadTo <= Lo(run[i]) /\ Lo(run[i]) < Hi(run[i]) /\ Hi(run[i]) <= e
    <3> DEFINE p == next + i - 1
    <3>1. run[i] = output[p] /\ p \in 1..Len(output) /\ p <= m /\ next - 1 < p
          /\ m \in 1..Len(output)
      BY <1>1, <1>2
    <3>2. Lo(output[p]) \in Nat /\ Hi(output[p]) \in Nat /\ Lo(output[p]) < Hi(output[p])
      BY <1>3, <1>4, <3>1
    <3>3. ReadTo <= Lo(output[p])
      <4>1. CASE next = 1
        BY <1>5, <1>6, <3>2, <4>1
      <4>2. CASE next # 1
        <5>1. next - 1 \in 1..Len(output)
          BY <1>1, <4>2
        <5> QED
          BY <1>4, <1>5, <1>6, <3>1, <5>1
      <4> QED
        BY <4>1, <4>2
    <3>4. Hi(output[p]) <= e
      <4>1. CASE p = m
        BY <1>6, <3>1, <3>2, <4>1
      <4>2. CASE p # m
        <5>1. p < m
          BY <1>1, <3>1, <4>2
        <5>2. Hi(output[p]) <= Lo(output[m]) /\ Lo(output[m]) < Hi(output[m])
          BY <1>4, <3>1, <5>1
        <5> QED
          BY <1>3, <1>6, <3>1, <5>2
      <4> QED
        BY <4>1, <4>2
    <3> QED
      BY <3>1, <3>2, <3>3, <3>4
  <2>3. ASSUME NEW i \in 1..k, NEW j \in 1..k, i < j
        PROVE  Hi(run[i]) <= Lo(run[j])
    <3>1. next + i - 1 < next + j - 1
      BY <1>1, <2>3
    <3> QED
      BY <1>2, <1>4, <3>1
  <2> QED
    BY <1>2, <2>1, <2>2, <2>3 DEF Ordered
<1>10. ASSUME intact
       PROVE  Gapless(run, ReadTo, e)
  <2>1. output = <<>> \/ /\ Lo(output[1]) = 0
                         /\ \A i \in 1..(Len(output) - 1) : Hi(output[i]) = Lo(output[i + 1])
    BY <1>10 DEF PipeInv, IInv, GaplessWhileIntact, Tiles, Gapless
  <2>2. CASE k = 0
    <3>1. run = <<>> /\ m = next - 1
      BY <1>1, <1>2, <2>2
    <3> QED
      BY <1>5, <3>1 DEF Gapless
  <2>3. CASE k # 0
    <3>1. run # <<>> /\ 1 \in 1..k /\ k \in 1..k /\ m \in 1..Len(output)
          /\ next \in 1..Len(output) /\ output # <<>>
      BY <1>1, <1>2, <2>3
    <3>2. /\ Lo(output[1]) = 0
          /\ \A i \in 1..(Len(output) - 1) : Hi(output[i]) = Lo(output[i + 1])
      BY <2>1, <3>1
    <3>3. Lo(run[1]) = ReadTo
      <4>1. run[1] = output[next]
        BY <1>1, <1>2, <3>1
      <4>2. CASE next = 1
        BY <1>5, <1>6, <3>2, <4>1, <4>2
      <4>3. CASE next # 1
        <5>1. next - 1 \in 1..(Len(output) - 1) /\ (next - 1) + 1 = next
          BY <1>1, <3>1, <4>3
        <5>2. Hi(output[next - 1]) = Lo(output[(next - 1) + 1]) /\ next - 1 \in 1..Len(output)
          BY <1>1, <3>2, <5>1
        <5>3. ReadTo = Hi(output[next - 1])
          BY <1>5, <1>6, <5>2
        <5> QED
          BY <4>1, <5>1, <5>2, <5>3
      <4> QED
        BY <4>2, <4>3
    <3>4. Hi(run[Len(run)]) = e
      BY <1>2, <1>6, <3>1
    <3>5. ASSUME NEW i \in 1..(Len(run) - 1)
          PROVE  Hi(run[i]) = Lo(run[i + 1])
      <4>1. /\ i \in 1..k /\ i + 1 \in 1..k
            /\ next + i - 1 \in 1..(Len(output) - 1)
            /\ (next + i - 1) + 1 = next + (i + 1) - 1
        BY <1>1, <1>2
      <4>2. run[i] = output[next + i - 1] /\ run[i + 1] = output[next + (i + 1) - 1]
        BY <1>2, <4>1
      <4> QED
        BY <3>2, <4>1, <4>2
    <3> QED
      BY <3>1, <3>3, <3>4, <3>5 DEF Gapless
  <2> QED
    BY <2>2, <2>3
<1> QED
  BY <1>2, <1>8, <1>9, <1>10 DEF run

\* What a call of decode is given: k frames of the wire, altered or not.
Given(input, k) ==
  /\ k \in Nat /\ next + k - 1 <= Len(output)
  /\ input \in Seq(Arrived)
  /\ Len(input) = k
  /\ Frames(input) = Run(k)

LEMMA WholeChunk ==
  ASSUME PipeInv, NEW k \in Nat, next + k - 1 <= Len(output)
  PROVE  Given(Chunk(k), k) /\ \A i \in 1..k : Chunk(k)[i] = Whole(output[next + i - 1])
<1>1. /\ Run(k) \in Seq(Frame) /\ Len(Run(k)) = k
      /\ \A i \in 1..k : next + i - 1 \in 1..Len(output) /\ Run(k)[i] = output[next + i - 1]
  BY RunCovers
<1>2. ASSUME NEW j \in 1..Len(output)
      PROVE  Whole(output[j]) \in Arrived /\ Whole(output[j]) \in Item
  <2>1. output[j] \in Frame
    BY DEF PipeInv, IInv, TypeOK
  <2>2. WholeBody(output[j]) /\ Made(output[j])
    BY PerFrame DEF PipeInv, IInv, WireMake
  <2>3. Whole(output[j]) \in Item /\ Whole(output[j]).frame = output[j]
        /\ Whole(output[j]).state = "whole"
    BY <2>1 DEF Whole, Item, State
  <2> QED
    BY <2>2, <2>3 DEF Arrived, Arrives
<1>3. /\ Chunk(k) \in Seq(Arrived) /\ Len(Chunk(k)) = k
      /\ Chunk(k) \in Seq(Item)
      /\ \A i \in 1..k : Chunk(k)[i] = Whole(output[next + i - 1])
  <2>1. ASSUME NEW i \in 1..k
        PROVE  /\ Whole(output[next + i - 1]) \in Arrived
               /\ Whole(output[next + i - 1]) \in Item
    BY <1>1, <1>2
  <2>2. Chunk(k) = [i \in 1..k |-> Whole(output[next + i - 1])]
    BY DEF Chunk
  <2> HIDE DEF Whole, Chunk
  <2> QED
    BY <2>1, <2>2
<1>4. Frames(Chunk(k)) = Run(k)
  <2>1. /\ Frames(Chunk(k)) \in Seq(Frame) /\ Len(Frames(Chunk(k))) = k
        /\ \A i \in 1..k : Frames(Chunk(k))[i] = Chunk(k)[i].frame
    BY <1>3, FramesIs
  <2>2. ASSUME NEW i \in 1..k
        PROVE  Frames(Chunk(k))[i] = Run(k)[i]
    <3>1. Frames(Chunk(k))[i] = Whole(output[next + i - 1]).frame
      BY <1>3, <2>1
    <3>2. Whole(output[next + i - 1]).frame = output[next + i - 1]
      BY DEF Whole
    <3> QED
      BY <1>1, <3>1, <3>2
  <2> QED
    BY <1>1, <2>1, <2>2, SeqEqual
<1> QED
  BY <1>3, <1>4 DEF Given

LEMMA DamagedChunk ==
  ASSUME PipeInv, NEW k \in Nat, next + k - 1 <= Len(output),
         NEW d \in 1..k, NEW s \in Damage(output[next + d - 1])
  PROVE  Given([Chunk(k) EXCEPT ![d].state = s], k)
<1> DEFINE c == Chunk(k)
           o == [c EXCEPT ![d].state = s]
           item == [c[d] EXCEPT !.state = s]
<1>1. /\ c \in Seq(Arrived) /\ Len(c) = k /\ Frames(c) = Run(k)
      /\ c[d] = Whole(output[next + d - 1])
  BY WholeChunk DEF Given
<1>2. c[d] \in Arrived
  BY <1>1
<1>3. s \in State
  BY DEF Damage, State
<1>4. /\ item \in Item /\ item.state = s /\ item.frame = c[d].frame
  BY <1>2, <1>3 DEF Arrived, Item
<1>5. c[d].frame = output[next + d - 1]
  BY <1>1 DEF Whole
<1>6. item \in Arrived
  BY <1>2, <1>4, <1>5 DEF Arrived, Arrives
<1> HIDE DEF item, c
<1>7. /\ o = [c EXCEPT ![d] = item]
  BY DEF item
<1>8. /\ o \in Seq(Arrived) /\ Len(o) = k
      /\ \A i \in 1..k : o[i] = IF i = d THEN item ELSE c[i]
  BY <1>1, <1>6, <1>7
<1> HIDE DEF o
<1>9. o \in Seq(Item) /\ c \in Seq(Item)
  BY <1>1, <1>8 DEF Arrived
<1>10. Frames(o) = Frames(c)
  <2>1. /\ Frames(o) \in Seq(Frame) /\ Len(Frames(o)) = k
        /\ \A i \in 1..k : Frames(o)[i] = o[i].frame
    BY <1>8, <1>9, FramesIs
  <2>2. /\ Frames(c) \in Seq(Frame) /\ Len(Frames(c)) = k
        /\ \A i \in 1..k : Frames(c)[i] = c[i].frame
    BY <1>1, <1>9, FramesIs
  <2>3. ASSUME NEW i \in 1..k
        PROVE  Frames(o)[i] = Frames(c)[i]
    BY <1>4, <1>8, <2>1, <2>2
  <2> QED
    BY <2>1, <2>2, <2>3, SeqEqual
<1> QED
  BY <1>1, <1>8, <1>10 DEF Given, o, c

\* A step of the source is a call of decode on frames of the wire, or finish.
DecodeCall(k, input) ==
  /\ Given(input, k)
  /\ Call("decode", k, ChainDecode(dconfig, input))
  /\ clean' \in BOOLEAN
  /\ clean' => clean /\ ChainDecode(dconfig, input).ok

LEMMA DecodeIsCall ==
  ASSUME PipeInv,
         \/ \E k \in 0..MaxRead : Decode(k)
         \/ \E k \in 1..MaxRead : DecodeDamaged(k)
  PROVE  \E k \in Nat : \E input : DecodeCall(k, input)
<1>1. MaxRead \in Nat
  BY PipeAssumption
<1>2. ASSUME NEW k \in 0..MaxRead, Decode(k)
      PROVE  \E n \in Nat : \E input : DecodeCall(n, input)
  <2>1. k \in Nat
    BY <1>1
  <2>2. /\ next + k - 1 <= Len(output)
        /\ Call("decode", k, ChainDecode(dconfig, Chunk(k)))
        /\ clean' = (clean /\ ChainDecode(dconfig, Chunk(k)).ok)
    BY <1>2 DEF Decode
  <2>3. Given(Chunk(k), k)
    BY <2>1, <2>2, WholeChunk
  <2>4. clean' \in BOOLEAN
    BY <2>2
  <2> QED
    BY <2>1, <2>2, <2>3, <2>4 DEF DecodeCall
<1>3. ASSUME NEW k \in 1..MaxRead, DecodeDamaged(k)
      PROVE  \E n \in Nat : \E input : DecodeCall(n, input)
  <2>1. k \in Nat
    BY <1>1
  <2>2. next + k - 1 <= Len(output) /\ clean' = FALSE
    BY <1>3 DEF DecodeDamaged
  <2>3. PICK d \in 1..k : \E s \in Damage(output[next + d - 1]) :
          Call("decode", k, ChainDecode(dconfig, [Chunk(k) EXCEPT ![d].state = s]))
    BY <1>3 DEF DecodeDamaged
  <2>4. PICK s \in Damage(output[next + d - 1]) :
          Call("decode", k, ChainDecode(dconfig, [Chunk(k) EXCEPT ![d].state = s]))
    BY <2>3
  <2>5. Given([Chunk(k) EXCEPT ![d].state = s], k)
    BY <2>1, <2>2, DamagedChunk
  <2> QED
    BY <2>1, <2>2, <2>4, <2>5 DEF DecodeCall
<1> QED
  BY <1>2, <1>3

\* What a call of decode delivers.
LEMMA DecodeDelivers ==
  ASSUME PipeInv, NEW k \in Nat, NEW input, Given(input, k)
  PROVE  LET r == ChainDecode(dconfig, input)
             e == EndOf(next + k - 1)
         IN
         /\ r.out \in Seq(Item) /\ r.ok \in BOOLEAN
         /\ Ordered(Frames(r.out), ReadTo, e)
         /\ r.ok /\ intact => Gapless(Frames(r.out), ReadTo, e)
         /\ Bytes(Frames(r.out)) \subseteq Bytes(Run(k))
         /\ r.ok => Bytes(Frames(r.out)) = Bytes(Run(k))
         /\ DecodeGets(r, input)
<1> DEFINE r == ChainDecode(dconfig, input)
           e == EndOf(next + k - 1)
<1>1. /\ next + k - 1 <= Len(output) /\ input \in Seq(Arrived)
      /\ Frames(input) = Run(k)
  BY DEF Given
<1>2. /\ ReadTo \in Nat /\ e \in Nat
      /\ Ordered(Run(k), ReadTo, e)
      /\ intact => Gapless(Run(k), ReadTo, e)
  BY <1>1, RunCovers
<1>3. dconfig \in Config /\ TypeOK
  BY ConfigsAssumption DEF PipeInv, IInv
<1>4. input \in Seq(Item) /\ \A i \in 1..Len(input) : WholeBody(input[i].frame)
  <2>1. input \in Seq(Item)
    BY <1>1 DEF Arrived
  <2>2. ASSUME NEW i \in 1..Len(input)
        PROVE  WholeBody(input[i].frame)
    <3>1. input[i] \in Arrived
      BY <1>1
    <3> QED
      BY <3>1 DEF Arrived, Arrives
  <2> QED
    BY <2>1, <2>2
<1> HIDE DEF e
<1>5. Carries(input, r)
  BY <1>3, <1>4, ChainCarries
<1>6. DecodeGets(r, input)
  BY <1>1, <1>3, ChainGets
<1> HIDE DEF r
<1>7. ReadTo \in Int /\ e \in Int
  BY <1>2
<1> QED
  BY <1>1, <1>2, <1>5, <1>6, <1>7 DEF Carries, r, e

\* The elements of two runs one behind the other are those of both.
LEMMA ConcatItems ==
  ASSUME NEW s \in Seq(Item), NEW t \in Seq(Item)
  PROVE  /\ s \o t \in Seq(Item)
         /\ \A i \in 1..Len(s \o t) :
              \/ i \in 1..Len(s) /\ (s \o t)[i] = s[i]
              \/ \E j \in 1..Len(t) : (s \o t)[i] = t[j]
<1>1. /\ s \o t \in Seq(Item) /\ Len(s \o t) = Len(s) + Len(t)
      /\ Len(s) \in Nat /\ Len(t) \in Nat
      /\ \A i \in 1..Len(s \o t) : (s \o t)[i] = IF i <= Len(s) THEN s[i] ELSE t[i - Len(s)]
  OBVIOUS
<1>2. ASSUME NEW i \in 1..Len(s \o t)
      PROVE  \/ i \in 1..Len(s) /\ (s \o t)[i] = s[i]
             \/ \E j \in 1..Len(t) : (s \o t)[i] = t[j]
  <2>1. CASE i <= Len(s)
    BY <1>1, <2>1
  <2>2. CASE ~(i <= Len(s))
    <3>1. i - Len(s) \in 1..Len(t)
      BY <1>1, <2>2
    <3> QED
      BY <1>1, <2>2, <3>1
  <2> QED
    BY <2>1, <2>2
<1> QED
  BY <1>1, <1>2

LEMMA DecodeKeepsPipeInv ==
  ASSUME PipeInv, NEW k \in Nat, NEW input, DecodeCall(k, input)
  PROVE  PipeInv'
<1> DEFINE r == ChainDecode(dconfig, input)
           e == EndOf(next + k - 1)
           u == delivered \o r.out
<1>1. /\ Given(input, k) /\ clean' \in BOOLEAN /\ (clean' => clean /\ r.ok)
      /\ next' = next + k /\ delivered' = u
      /\ vars' = vars /\ dconfig' = dconfig
  BY DEF DecodeCall, Call
<1>2. /\ r.out \in Seq(Item) /\ r.ok \in BOOLEAN
      /\ Ordered(Frames(r.out), ReadTo, e)
      /\ r.ok /\ intact => Gapless(Frames(r.out), ReadTo, e)
      /\ DecodeGets(r, input)
  BY <1>1, DecodeDelivers
<1>3. /\ config' = config /\ buffer' = buffer /\ output' = output /\ stats' = stats
      /\ drawn' = drawn /\ built' = built /\ intact' = intact /\ ret' = ret
  BY <1>1 DEF vars
<1>4. /\ IInv' /\ WireMake' /\ (Agree' <=> Agree)
  <2>1. IInv'
    BY <1>1, NextIInv DEF PipeInv
  <2> QED
    BY <1>1, <1>3, <2>1 DEF PipeInv, WireMake, Made, InnerKind, Agree
<1>5. /\ next + k - 1 <= Len(output) /\ next \in Nat /\ 1 <= next /\ Len(output) \in Nat
      /\ delivered \in Seq(Item)
  BY <1>1 DEF Given, PipeInv, IInv, TypeOK
<1>6. ReadTo' = e /\ ReadTo \in Nat /\ e \in Nat
  <2>1. ReadTo \in Nat /\ e \in Nat
    BY <1>5, RunCovers
  <2>2. next' - 1 = next + k - 1 /\ (next' = 1 <=> next + k - 1 = 0)
    BY <1>1, <1>5
  <2> QED
    BY <1>3, <2>1, <2>2 DEF ReadTo, EndOf
<1> HIDE DEF r, e
<1>7. /\ u \in Seq(Item)
      /\ \A i \in 1..Len(u) : \/ i \in 1..Len(delivered) /\ u[i] = delivered[i]
                              \/ \E j \in 1..Len(r.out) : u[i] = r.out[j]
  BY <1>2, <1>5, ConcatItems
<1>8. /\ Frames(u) = Frames(delivered) \o Frames(r.out)
      /\ Frames(delivered) \in Seq(Frame) /\ Frames(r.out) \in Seq(Frame)
  BY <1>2, <1>5, FramesConcat, FramesIs
<1> HIDE DEF u
<1>9. ASSUME Agree
      PROVE  /\ Ordered(Frames(u), 0, e)
             /\ \A i \in 1..Len(u) : u[i].frame.kind = Plain
  <2>1. /\ Ordered(Frames(delivered), 0, ReadTo)
        /\ \A i \in 1..Len(delivered) : delivered[i].frame.kind = Plain
    BY <1>9 DEF PipeInv, OutOrdered
  <2>2. Ordered(Frames(u), 0, e)
    BY <1>2, <1>6, <1>8, <2>1, OrderedConcat
  <2>3. \A j \in 1..Len(r.out) : r.out[j].frame.kind = Plain
    BY <1>2, <1>9 DEF DecodeGets
  <2> QED
    BY <1>7, <2>1, <2>2, <2>3
<1>10. OutOrdered'
  BY <1>1, <1>4, <1>6, <1>9 DEF OutOrdered
<1>11. DamagedNeverDelivered'
  <2>1. SUFFICES ASSUME Agree, NEW i \in 1..Len(u), u[i].state # "whole"
                 PROVE  config.encrypt = None /\ config.compress \in {None, Zstd}
    BY <1>1, <1>3, <1>4 DEF DamagedNeverDelivered
  <2> QED
    BY <1>2, <1>7, <2>1 DEF DecodeGets, PipeInv, DamagedNeverDelivered
<1>12. PlainOnlyIfAgreed'
  <2>1. SUFFICES ASSUME NEW i \in 1..Len(u), u[i].frame.kind = Plain
                 PROVE  Agree
    BY <1>1, <1>3, <1>4 DEF PlainOnlyIfAgreed
  <2> QED
    BY <1>2, <1>7, <2>1 DEF DecodeGets, PipeInv, PlainOnlyIfAgreed
<1>13. NothingMissing'
  <2>1. SUFFICES ASSUME Agree, intact, clean'
                 PROVE  Gapless(Frames(u), 0, e)
    BY <1>1, <1>3, <1>4, <1>6 DEF NothingMissing
  <2>2. Gapless(Frames(delivered), 0, ReadTo)
    BY <1>1, <2>1 DEF PipeInv, NothingMissing
  <2>3. Gapless(Frames(r.out), ReadTo, e)
    BY <1>1, <1>2, <2>1
  <2> QED
    BY <1>8, <2>2, <2>3, GaplessConcat
<1>14. /\ dconfig' \in Configs /\ (Matched => dconfig' = config')
       /\ next' \in 1..(Len(output') + 1)
       /\ delivered' \in Seq(Item)
  BY <1>1, <1>3, <1>5, <1>7 DEF PipeInv
<1> QED
  BY <1>1, <1>4, <1>10, <1>11, <1>12, <1>13, <1>14 DEF PipeInv

\* What the source has read stays where it is.
LEMMA SinkKeepsReadTo ==
  ASSUME PipeInv, NEW t \in Seq(Frame), output' = output \o t, next' = next
  PROVE  ReadTo' = ReadTo /\ Len(output) <= Len(output')
<1>1. /\ output \in Seq(Frame) /\ next \in 1..(Len(output) + 1) /\ Len(output) \in Nat
  BY DEF PipeInv, IInv, TypeOK
<1>2. Len(output) <= Len(output')
  BY <1>1
<1>3. CASE next = 1
  BY <1>2, <1>3 DEF ReadTo
<1>4. CASE next # 1
  <2>1. next - 1 \in 1..Len(output)
    BY <1>1, <1>4
  <2>2. output'[next - 1] = output[next - 1]
    BY <1>1, <2>1
  <2> QED
    BY <1>2, <2>2 DEF ReadTo
<1> QED
  BY <1>3, <1>4

LEMMA SinkKeepsPipeInv ==
  ASSUME PipeInv, [Next]_vars, UNCHANGED <<dconfig, next, delivered, clean>>
  PROVE  PipeInv'
<1>1. /\ IInv' /\ WireMake' /\ config' = config
      /\ \E t \in Seq(Frame) : output' = output \o t
      /\ intact' => intact
  BY SinkAppends DEF PipeInv
<1>2. dconfig' = dconfig /\ next' = next /\ delivered' = delivered /\ clean' = clean
  OBVIOUS
<1>3. ReadTo' = ReadTo /\ Len(output) <= Len(output')
  BY <1>1, <1>2, SinkKeepsReadTo
<1>4. Agree' <=> Agree
  BY <1>1, <1>2 DEF Agree
<1>5. OutOrdered' /\ DamagedNeverDelivered' /\ PlainOnlyIfAgreed' /\ NothingMissing'
  BY <1>1, <1>2, <1>3, <1>4
     DEF PipeInv, OutOrdered, DamagedNeverDelivered, PlainOnlyIfAgreed, NothingMissing
<1>6. next' \in 1..(Len(output') + 1)
  <2>1. Len(output) \in Nat /\ Len(output') \in Nat /\ next \in 1..(Len(output) + 1)
    BY <1>1 DEF PipeInv, IInv, TypeOK
  <2> QED
    BY <1>2, <1>3, <2>1
<1> QED
  BY <1>1, <1>2, <1>5, <1>6 DEF PipeInv

\* finish reads nothing and delivers nothing.
LEMMA FinishDelivers ==
  ASSUME PipeInv, SourceFinish
  PROVE  /\ next' = next /\ delivered' = delivered /\ clean' = clean
         /\ dconfig' = dconfig /\ vars' = vars /\ dret'.op = "finish"
<1>1. /\ next' = next + 0 /\ delivered' = delivered \o <<>> /\ clean' = clean
      /\ dconfig' = dconfig /\ vars' = vars /\ dret' = [op |-> "finish", ok |-> TRUE]
  BY DEF SourceFinish, Call, ChainDecoderFinish
<1>2. next \in Nat /\ delivered \in Seq(Item)
  BY DEF PipeInv, IInv, TypeOK
<1> QED
  BY <1>1, <1>2

LEMMA NextPipeInv == PipeInv /\ [PipeNext]_pipeVars => PipeInv'
<1> SUFFICES ASSUME PipeInv, [PipeNext]_pipeVars PROVE PipeInv'
  OBVIOUS
<1>1. CASE Sink
  BY <1>1, SinkKeepsPipeInv DEF Sink, source
<1>2. CASE \/ \E k \in 0..MaxRead : Decode(k)
           \/ \E k \in 1..MaxRead : DecodeDamaged(k)
  BY <1>2, DecodeIsCall, DecodeKeepsPipeInv
<1>3. CASE SourceFinish
  BY <1>3, FinishDelivers, SinkKeepsPipeInv
<1>4. CASE UNCHANGED pipeVars
  BY <1>4, SinkKeepsPipeInv DEF pipeVars, source
<1> QED
  BY <1>1, <1>2, <1>3, <1>4 DEF PipeNext

THEOREM PipeInvariantHolds == PipeSpec => []PipeInv
<1> QED
  BY InitPipeInv, NextPipeInv, PTL DEF PipeSpec

\* A source with the sink's configuration gets plaintext only, in order and no
\* byte twice, however calls fail, frames are damaged and encoders are rebuilt.
THEOREM DeliveryIsOrdered == PipeSpec => []OutOrdered
<1>1. PipeInv => OutOrdered
  BY DEF PipeInv
<1> QED
  BY <1>1, PipeInvariantHolds, PTL

\* AEAD and gzip keep damage from the source, at every key and in every order of
\* calls.
THEOREM DamageIsKeptOut == PipeSpec => []DamagedNeverDelivered
<1>1. PipeInv => DamagedNeverDelivered
  BY DEF PipeInv
<1> QED
  BY <1>1, PipeInvariantHolds, PTL

\* Plaintext comes only through agreeing layers, whatever the two configurations.
THEOREM PlainNeedsAgreement == PipeSpec => []PlainOnlyIfAgreed
<1>1. PipeInv => PlainOnlyIfAgreed
  BY DEF PipeInv
<1> QED
  BY <1>1, PipeInvariantHolds, PTL

\* When nothing failed, the sink finished and the source has read all of the
\* wire, every byte offered has been delivered, for streams of every length.
THEOREM EveryByteArrives == PipeSpec => []RoundTrip
<1>1. PipeInv => RoundTrip
  <2> SUFFICES ASSUME PipeInv, Agree, intact, clean,
                      ret = [op |-> "finish", ok |-> TRUE], next = Len(output) + 1
               PROVE  Tiles(Frames(delivered), 0, buffer.hi)
    BY DEF RoundTrip
  <2>1. Tiles(Frames(delivered), 0, ReadTo)
    BY DEF PipeInv, OutOrdered, NothingMissing, Tiles
  <2>2. buffer.lo = buffer.hi
    BY DEF PipeInv, IInv, FinishEmpties, Empty
  <2>3. Gapless(output, 0, buffer.lo) /\ output \in Seq(Frame)
    BY DEF PipeInv, IInv, TypeOK, GaplessWhileIntact, Tiles
  <2>4. ReadTo = buffer.lo
    <3>1. CASE output = <<>>
      BY <2>3, <3>1 DEF Gapless, ReadTo
    <3>2. CASE output # <<>>
      <4>1. next - 1 = Len(output) /\ next # 1
        BY <2>3, <3>2
      <4> QED
        BY <2>3, <3>2, <4>1 DEF Gapless, ReadTo
    <3> QED
      BY <3>1, <3>2
  <2> QED
    BY <2>1, <2>2, <2>4
<1> QED
  BY <1>1, PipeInvariantHolds, PTL

------------------------------------------------------------------------------
(* Properties of steps.                                                     *)

\* What was put behind a sequence is the end of the two.
LEMMA ConcatTail ==
  ASSUME NEW E, NEW s \in Seq(E), NEW t \in Seq(E)
  PROVE  SubSeq(s \o t, Len(s) + 1, Len(s \o t)) = t
OBVIOUS

\* A call of decode delivers the output of the decoder, for the frames it read.
LEMMA CallIs ==
  ASSUME PipeInv, NEW k \in Nat, NEW input, DecodeCall(k, input)
  PROVE  /\ NewItems = ChainDecode(dconfig, input).out
         /\ dret'.ok = ChainDecode(dconfig, input).ok
         /\ ReadFrames = Run(k)
         /\ next' > next => input # <<>>
<1> DEFINE r == ChainDecode(dconfig, input)
<1>1. /\ Given(input, k) /\ next' = next + k
      /\ delivered' = delivered \o r.out
      /\ dret' = [op |-> "decode", ok |-> r.ok]
  BY DEF DecodeCall, Call
<1>2. r.out \in Seq(Item) /\ delivered \in Seq(Item) /\ next \in Nat
  BY <1>1, DecodeDelivers DEF PipeInv, IInv, TypeOK
<1> HIDE DEF r
<1>3. NewItems = r.out
  BY <1>1, <1>2, ConcatTail DEF NewItems
<1>4. next' - 1 = next + k - 1
  BY <1>1, <1>2
<1>5. ReadFrames = Run(k)
  BY <1>4 DEF ReadFrames, Run
<1>6. next' > next => input # <<>>
  <2>1. Len(input) = k
    BY <1>1 DEF Given
  <2> QED
    BY <1>1, <1>2, <2>1
<1> QED
  BY <1>1, <1>3, <1>5, <1>6 DEF r

\* A step that is not a call of decode reads nothing and delivers nothing.
LEMMA OthersDeliverNothing ==
  ASSUME PipeInv, Sink \/ SourceFinish \/ UNCHANGED pipeVars
  PROVE  /\ next' = next
         /\ NewItems = <<>> /\ ReadFrames = <<>>
         /\ Bytes(Frames(<<>>)) = {} /\ Bytes(<<>>) = {}
<1>1. next' = next /\ delivered' = delivered
  BY FinishDelivers DEF Sink, source, pipeVars
<1>2. next \in Nat /\ delivered \in Seq(Item)
  BY DEF PipeInv, IInv, TypeOK
<1>3. NewItems = <<>>
  BY <1>1, <1>2 DEF NewItems
<1>4. ReadFrames = <<>>
  BY <1>1, <1>2 DEF ReadFrames
<1>5. Frames(<<>>) = <<>> /\ Bytes(<<>>) = {}
  BY DEF Frames, Bytes
<1> QED
  BY <1>1, <1>3, <1>4, <1>5

\* An Ok decode under the sink's configuration delivers exactly the bytes of the
\* blocks it read, an Err only bytes of theirs, and none with both layers on.
THEOREM DecodeGivesItsInput == PipeSpec => DecodeDeliversItsInput
<1> DEFINE P == dret'.op = "decode" /\ Agree =>
                  IF dret'.ok
                  THEN Bytes(Frames(NewItems)) = Bytes(ReadFrames)
                  ELSE /\ Bytes(Frames(NewItems)) \subseteq Bytes(ReadFrames)
                       /\ config.compress # None /\ config.encrypt # None
                            => NewItems = <<>>
<1>1. ASSUME PipeInv, [PipeNext]_pipeVars
      PROVE  P
  <2>1. CASE Sink \/ SourceFinish \/ UNCHANGED pipeVars
    <3>1. /\ NewItems = <<>> /\ ReadFrames = <<>>
          /\ Bytes(Frames(<<>>)) = {} /\ Bytes(<<>>) = {}
      BY <1>1, <2>1, OthersDeliverNothing
    <3> QED
      BY <3>1
  <2>2. CASE \/ \E k \in 0..MaxRead : Decode(k)
             \/ \E k \in 1..MaxRead : DecodeDamaged(k)
    <3>1. PICK k \in Nat : \E input : DecodeCall(k, input)
      BY <1>1, <2>2, DecodeIsCall
    <3>2. PICK input : DecodeCall(k, input)
      BY <3>1
    <3> DEFINE r == ChainDecode(dconfig, input)
    <3>3. NewItems = r.out /\ dret'.ok = r.ok /\ ReadFrames = Run(k)
      BY <1>1, <3>2, CallIs
    <3>4. Given(input, k)
      BY <3>2 DEF DecodeCall
    <3>5. /\ Bytes(Frames(r.out)) \subseteq Bytes(Run(k))
          /\ r.ok => Bytes(Frames(r.out)) = Bytes(Run(k))
          /\ DecodeGets(r, input)
      BY <1>1, <3>4, DecodeDelivers
    <3> HIDE DEF r
    <3> QED
      BY <3>3, <3>5 DEF DecodeGets
  <2> QED
    BY <1>1, <2>1, <2>2 DEF PipeNext
<1>2. PipeInv /\ [PipeNext]_pipeVars => [P]_pipeVars
  BY <1>1
<1> QED
  BY <1>2, PipeInvariantHolds, PTL DEF PipeSpec, DecodeDeliversItsInput

\* A source that is configured differently gets Err, unless it only lacks inner
\* layers of the sink's.
THEOREM MismatchGetsErr == PipeSpec => MismatchIsRefused
<1> DEFINE P == dret'.op = "decode" /\ next' > next /\ dret'.ok => Agree \/ PeelsOuterLayers
<1>1. ASSUME PipeInv, [PipeNext]_pipeVars
      PROVE  P
  <2>1. CASE Sink \/ SourceFinish \/ UNCHANGED pipeVars
    <3>1. next' = next /\ next \in Nat
      BY <1>1, <2>1, OthersDeliverNothing DEF PipeInv, IInv, TypeOK
    <3> QED
      BY <3>1
  <2>2. CASE \/ \E k \in 0..MaxRead : Decode(k)
             \/ \E k \in 1..MaxRead : DecodeDamaged(k)
    <3>1. PICK k \in Nat : \E input : DecodeCall(k, input)
      BY <1>1, <2>2, DecodeIsCall
    <3>2. PICK input : DecodeCall(k, input)
      BY <3>1
    <3> DEFINE r == ChainDecode(dconfig, input)
    <3>3. dret'.ok = r.ok /\ (next' > next => input # <<>>)
      BY <1>1, <3>2, CallIs
    <3>4. Given(input, k)
      BY <3>2 DEF DecodeCall
    <3>5. DecodeGets(r, input)
      BY <1>1, <3>4, DecodeDelivers
    <3> HIDE DEF r
    <3> QED
      BY <3>3, <3>5 DEF DecodeGets
  <2> QED
    BY <1>1, <2>1, <2>2 DEF PipeNext
<1>2. PipeInv /\ [PipeNext]_pipeVars => [P]_pipeVars
  BY <1>1
<1> QED
  BY <1>2, PipeInvariantHolds, PTL DEF PipeSpec, MismatchIsRefused

------------------------------------------------------------------------------
(* The positions delivered.                                                 *)

PlainItem == {item \in Item : item.frame.kind = Plain}

Offsets(f) == [j \in 1..Size(f) |-> f.lo + j - 1]

LEMMA PositionsIs ==
  ASSUME NEW items \in Seq(PlainItem)
  PROVE  /\ [i \in 1..Len(items) |-> Offsets(items[i].frame)] \in Seq(Seq(Nat))
         /\ Positions(items) = Flat([i \in 1..Len(items) |-> Offsets(items[i].frame)])
         /\ Positions(items) \in Seq(Nat)
<1> DEFINE s == [i \in 1..Len(items) |-> Offsets(items[i].frame)]
<1>1. ASSUME NEW f \in Segment
      PROVE  Offsets(f) \in Seq(Nat)
  <2>1. f.lo \in Nat /\ f.hi \in Nat /\ Size(f) = f.hi - f.lo
    BY DEF Segment, Size
  <2>2. CASE f.lo <= f.hi
    <3>1. Size(f) \in Nat /\ \A j \in 1..Size(f) : f.lo + j - 1 \in Nat
      BY <2>1, <2>2
    <3> QED
      BY <3>1 DEF Offsets
  <2>3. CASE ~(f.lo <= f.hi)
    <3>1. 1..Size(f) = {}
      BY <2>1, <2>3
    <3>2. Offsets(f) = <<>>
      BY <3>1 DEF Offsets
    <3> QED
      BY <3>2
  <2> QED
    BY <2>2, <2>3
<1>2. ASSUME NEW i \in 1..Len(items)
      PROVE  Offsets(items[i].frame) \in Seq(Nat)
  <2>1. items[i] \in PlainItem
    OBVIOUS
  <2>2. items[i].frame \in Segment
    BY <2>1 DEF PlainItem, Item, Frame, Segment, Sealed, Cipher, CompressionAlgo, Zstd, Plain
  <2> QED
    BY <1>1, <2>2
<1>3. s \in Seq(Seq(Nat))
  BY <1>2
<1>4. Positions(items) = SE!FlattenSeq(s)
  BY DEF Positions, Offsets
<1> HIDE DEF s
<1>5. SE!FlattenSeq(s) = Flat(s) /\ Flat(s) \in Seq(Nat)
  BY <1>3, FlattenIs, FlatType
<1> QED
  BY <1>3, <1>4, <1>5 DEF s

LEMMA NonePositions == Positions(<<>>) = <<>>
<1>1. <<>> \in Seq(PlainItem)
  OBVIOUS
<1>2. Positions(<<>>) = Flat([i \in 1..Len(<<>>) |-> Offsets(<<>>[i].frame)])
  BY <1>1, PositionsIs
<1>3. [i \in 1..Len(<<>>) |-> Offsets(<<>>[i].frame)] = <<>>
  OBVIOUS
<1> QED
  BY <1>2, <1>3 DEF Flat

LEMMA PositionsConcat ==
  ASSUME NEW s \in Seq(PlainItem), NEW t \in Seq(PlainItem)
  PROVE  Positions(s \o t) = Positions(s) \o Positions(t)
<1> DEFINE all(r) == [i \in 1..Len(r) |-> Offsets(r[i].frame)]
<1>1. s \o t \in Seq(PlainItem)
  OBVIOUS
<1>2. all(s \o t) = all(s) \o all(t)
  <2> DEFINE A == all(s)
             B == all(t)
             C == all(s \o t)
  <2>1. /\ A \in Seq(Seq(Nat)) /\ B \in Seq(Seq(Nat)) /\ C \in Seq(Seq(Nat))
    BY <1>1, PositionsIs
  <2>2. /\ Len(s \o t) = Len(s) + Len(t) /\ Len(s) \in Nat /\ Len(t) \in Nat
        /\ \A i \in 1..Len(s \o t) : (s \o t)[i] = IF i <= Len(s) THEN s[i] ELSE t[i - Len(s)]
    OBVIOUS
  <2>3. /\ Len(A) = Len(s) /\ Len(B) = Len(t) /\ Len(C) = Len(s \o t)
        /\ \A i \in 1..Len(s) : A[i] = Offsets(s[i].frame)
        /\ \A i \in 1..Len(t) : B[i] = Offsets(t[i].frame)
        /\ \A i \in 1..Len(s \o t) : C[i] = Offsets((s \o t)[i].frame)
    BY <2>2
  <2> HIDE DEF A, B, C
  <2>4. /\ A \o B \in Seq(Seq(Nat)) /\ Len(A \o B) = Len(C)
        /\ \A i \in 1..Len(C) : (A \o B)[i] = IF i <= Len(A) THEN A[i] ELSE B[i - Len(A)]
    <3>1. /\ A \o B \in Seq(Seq(Nat)) /\ Len(A \o B) = Len(A) + Len(B)
          /\ \A i \in 1..Len(A \o B) :
               (A \o B)[i] = IF i <= Len(A) THEN A[i] ELSE B[i - Len(A)]
      BY <2>1, ConcatIs
    <3>2. Len(A) + Len(B) = Len(C)
      BY <2>2, <2>3
    <3> QED
      BY <3>1, <3>2
  <2>5. ASSUME NEW i \in 1..Len(C)
        PROVE  C[i] = (A \o B)[i]
    <3>1. CASE i <= Len(s)
      <4>1. i \in 1..Len(s) /\ i \in 1..Len(s \o t)
        BY <2>2, <2>3, <3>1
      <4> QED
        BY <2>2, <2>3, <2>4, <3>1, <4>1
    <3>2. CASE ~(i <= Len(s))
      <4>1. i - Len(s) \in 1..Len(t) /\ i \in 1..Len(s \o t)
        BY <2>2, <2>3, <3>2
      <4> QED
        BY <2>2, <2>3, <2>4, <3>2, <4>1
    <3> QED
      BY <3>1, <3>2
  <2>6. C = A \o B
    BY <2>1, <2>4, <2>5, SeqEqual
  <2> QED
    BY <2>6 DEF A, B, C
<1>3. /\ all(s) \in Seq(Seq(Nat)) /\ Positions(s) = Flat(all(s))
      /\ all(t) \in Seq(Seq(Nat)) /\ Positions(t) = Flat(all(t))
      /\ Positions(s \o t) = Flat(all(s \o t))
  BY <1>1, PositionsIs
<1> HIDE DEF all
<1>4. Flat(all(s) \o all(t)) = Flat(all(s)) \o Flat(all(t))
  BY <1>3, FlatConcat
<1> QED
  BY <1>2, <1>3, <1>4

\* Plain items in order deliver increasing positions, and without a gap as many
\* as there are.
Increases(q, a, b) ==
  /\ Stream!Increasing(q)
  /\ \A i \in 1..Len(q) : q[i] \in a..(b - 1)

LEMMA IncreasesConcat ==
  ASSUME NEW p \in Seq(Nat), NEW q \in Seq(Nat),
         NEW a \in Int, NEW b \in Int, NEW c \in Int, NEW d \in Int,
         a <= b, b <= c, c <= d, Increases(p, a, b), Increases(q, b, c)
  PROVE  Increases(p \o q, a, d)
<1> DEFINE u == p \o q
<1>1. /\ Len(u) = Len(p) + Len(q) /\ Len(p) \in Nat /\ Len(q) \in Nat
      /\ \A i \in 1..Len(u) : u[i] = IF i <= Len(p) THEN p[i] ELSE q[i - Len(p)]
  OBVIOUS
<1> HIDE DEF u
<1>2. ASSUME NEW i \in 1..Len(u)
      PROVE  \/ i \in 1..Len(p) /\ u[i] = p[i] /\ u[i] \in a..(b - 1)
             \/ /\ i > Len(p) /\ i - Len(p) \in 1..Len(q)
                /\ u[i] = q[i - Len(p)] /\ u[i] \in b..(c - 1)
  <2>1. CASE i <= Len(p)
    BY <1>1, <2>1 DEF Increases
  <2>2. CASE ~(i <= Len(p))
    <3>1. i - Len(p) \in 1..Len(q) /\ u[i] = q[i - Len(p)]
      BY <1>1, <2>2
    <3> QED
      BY <1>1, <2>2, <3>1 DEF Increases
  <2> QED
    BY <2>1, <2>2
<1>3. ASSUME NEW i \in 1..Len(u)
      PROVE  u[i] \in a..(d - 1)
  BY <1>2
<1>4. ASSUME NEW i \in 1..Len(u), NEW j \in 1..Len(u), i < j
      PROVE  u[i] < u[j]
  <2>1. CASE j \in 1..Len(p) /\ u[j] = p[j]
    <3>1. i \in 1..Len(p) /\ u[i] = p[i]
      BY <1>1, <1>4, <2>1
    <3> QED
      BY <1>4, <2>1, <3>1 DEF Increases, Stream!Increasing
  <2>2. CASE j > Len(p) /\ j - Len(p) \in 1..Len(q) /\ u[j] = q[j - Len(p)] /\ u[j] \in b..(c - 1)
    <3>1. CASE i \in 1..Len(p) /\ u[i] = p[i] /\ u[i] \in a..(b - 1)
      <4>1. u[i] \in a..(b - 1) /\ u[j] \in b..(c - 1)
        BY <2>2, <3>1
      <4> QED
        BY <4>1
    <3>2. CASE i - Len(p) \in 1..Len(q) /\ u[i] = q[i - Len(p)]
      <4>1. i - Len(p) < j - Len(p)
        BY <1>1, <1>4
      <4> QED
        BY <2>2, <3>2, <4>1 DEF Increases, Stream!Increasing
    <3> QED
      BY <1>2, <3>1, <3>2
  <2> QED
    BY <1>2, <2>1, <2>2
<1> QED
  BY <1>3, <1>4 DEF u, Increases, Stream!Increasing

LEMMA OffsetsIncrease ==
  ASSUME NEW f \in Segment, f.lo < f.hi
  PROVE  /\ Offsets(f) \in Seq(Nat)
         /\ Len(Offsets(f)) = f.hi - f.lo
         /\ Increases(Offsets(f), f.lo, f.hi)
<1>1. f.lo \in Nat /\ f.hi \in Nat /\ Size(f) = f.hi - f.lo /\ Size(f) \in Nat
  BY DEF Segment, Size
<1>2. \A j \in 1..Size(f) : f.lo + j - 1 \in Nat /\ f.lo + j - 1 \in f.lo..(f.hi - 1)
  BY <1>1
<1>3. /\ Offsets(f) \in Seq(Nat) /\ Len(Offsets(f)) = Size(f)
      /\ \A j \in 1..Size(f) : Offsets(f)[j] = f.lo + j - 1
  BY <1>1, <1>2 DEF Offsets
<1>4. \A i, j \in 1..Size(f) : i < j => Offsets(f)[i] < Offsets(f)[j]
  BY <1>1, <1>3
<1> QED
  BY <1>1, <1>2, <1>3, <1>4 DEF Increases, Stream!Increasing

\* The positions of plain items that come in order are increasing, and without a
\* gap there are as many as bytes.
LEMMA PositionsIncrease ==
  ASSUME NEW items \in Seq(PlainItem)
  PROVE  /\ Positions(items) \in Seq(Nat)
         /\ \A a, b \in Int : Ordered(Frames(items), a, b) =>
              /\ Increases(Positions(items), a, b)
              /\ Gapless(Frames(items), a, b) => Len(Positions(items)) = b - a
<1> DEFINE Good(s, a, b) ==
             Ordered(Frames(s), a, b) =>
               /\ Increases(Positions(s), a, b)
               /\ Gapless(Frames(s), a, b) => Len(Positions(s)) = b - a
           T == {s \in Seq(PlainItem) : \A a, b \in Int : Good(s, a, b)}
<1>1. <<>> \in T
  <2>1. /\ <<>> \in Seq(PlainItem)
        /\ Positions(<<>>) = <<>> /\ Frames(<<>>) = <<>>
    <3>1. <<>> \in Seq(PlainItem)
      OBVIOUS
    <3>2. Positions(<<>>) = <<>>
      BY NonePositions
    <3> QED
      BY <3>1, <3>2 DEF Frames
  <2>2. ASSUME NEW a \in Int, NEW b \in Int
        PROVE  Increases(<<>>, a, b) /\ (Gapless(<<>>, a, b) => Len(<<>>) = b - a)
    BY DEF Increases, Stream!Increasing, Gapless
  <2> QED
    BY <2>1, <2>2
<1>2. ASSUME NEW s \in Seq(PlainItem), NEW e \in PlainItem, s \in T
      PROVE  Append(s, e) \in T
  <2> DEFINE F == Frames(s)
             f == e.frame
             p == Positions(s)
             q == Offsets(f)
  <2>1. /\ Append(s, e) \in Seq(PlainItem) /\ Append(s, e) = s \o <<e>>
        /\ <<e>> \in Seq(PlainItem)
    OBVIOUS
  <2>2. /\ f \in Segment /\ f \in Frame /\ Lo(f) = f.lo /\ Hi(f) = f.hi
        /\ f.lo \in Nat /\ f.hi \in Nat
    <3>1. f \in Segment
      BY DEF PlainItem, Item, Frame, Segment, Sealed, Cipher, CompressionAlgo, Zstd, Plain
    <3> QED
      BY <3>1, SegmentEnds
  <2>3. s \in Seq(Item) /\ F \in Seq(Frame)
    <3>1. PlainItem \subseteq Item
      BY DEF PlainItem
    <3>2. Seq(PlainItem) \subseteq Seq(Item)
      BY <3>1, SeqMonotonic
    <3> QED
      BY <3>2, FramesIs
  <2>4. Frames(Append(s, e)) = Append(F, f)
    BY <2>3 DEF Frames
  <2>5. Positions(<<e>>) = q
    <3>1. Positions(<<e>>) = Flat([i \in 1..Len(<<e>>) |-> Offsets(<<e>>[i].frame)])
      BY <2>1, PositionsIs
    <3>2. [i \in 1..Len(<<e>>) |-> Offsets(<<e>>[i].frame)] = <<q>>
      OBVIOUS
    <3>3. [i \in 1..Len(<<e>>) |-> Offsets(<<e>>[i].frame)] \in Seq(Seq(Nat))
      BY <2>1, PositionsIs
    <3>4. <<q>> \in Seq(Seq(Nat)) /\ Len(<<q>>) = 1 /\ <<q>> # <<>> /\ <<q>>[1] = q
      BY <3>2, <3>3
    <3> DEFINE one == <<q>>
    <3>5. Joined(one)[1] = q
      <4> HIDE DEF q, one
      <4>1. one \in Seq(Seq(Nat)) /\ Len(one) # 0 /\ one[1] = q
        BY <3>4 DEF one
      <4> QED
        BY <4>1, JoinedIs
    <3> HIDE DEF q
    <3> QED
      BY <3>1, <3>2, <3>4, <3>5 DEF Flat
  <2>6. Positions(Append(s, e)) = p \o q /\ p \in Seq(Nat)
    BY <2>1, <2>5, PositionsConcat, PositionsIs
  <2>7. \A a, b \in Int : Good(s, a, b)
    BY <1>2
  <2> HIDE DEF F, p, q, f
  <2>8. ASSUME NEW a \in Int, NEW b \in Int, Ordered(Append(F, f), a, b)
        PROVE  /\ Increases(p \o q, a, b)
               /\ Gapless(Append(F, f), a, b) => Len(p \o q) = b - a
    <3>1. /\ Ordered(F, a, f.lo) /\ f.lo < f.hi /\ f.hi <= b
          /\ Gapless(Append(F, f), a, b) => Gapless(F, a, f.lo) /\ f.hi = b
      <4>1. /\ Ordered(F, a, Lo(f)) /\ Lo(f) < Hi(f) /\ Hi(f) <= b
            /\ Gapless(Append(F, f), a, b) => Gapless(F, a, Lo(f)) /\ Hi(f) = b
        BY <2>2, <2>3, <2>8, OrderedButLast
      <4> QED
        BY <2>2, <4>1
    <3>2. f.lo \in Int /\ f.hi \in Int
      BY <2>2
    <3>3. /\ Increases(p, a, f.lo)
          /\ Gapless(F, a, f.lo) => Len(p) = f.lo - a
      BY <2>7, <3>1, <3>2 DEF F, p
    <3>4. q \in Seq(Nat) /\ Len(q) = f.hi - f.lo /\ Increases(q, f.lo, f.hi)
      BY <2>2, <3>1, OffsetsIncrease DEF q
    <3>5. a <= f.lo
      BY <3>1 DEF Ordered
    <3>6. Increases(p \o q, a, b)
      <4>1. f.lo <= f.hi
        BY <3>1, <3>2
      <4> QED
        BY <2>6, <3>1, <3>2, <3>3, <3>4, <3>5, <4>1, IncreasesConcat
    <3>7. Len(p \o q) = Len(p) + Len(q)
      BY <2>6, <3>4, ConcatIs
    <3>8. ASSUME Gapless(Append(F, f), a, b)
          PROVE  Len(p \o q) = b - a
      <4>1. Len(p) = f.lo - a /\ f.hi = b /\ Len(q) = b - f.lo
        BY <3>1, <3>3, <3>4, <3>8
      <4> QED
        BY <2>2, <3>7, <4>1
    <3> QED
      BY <3>6, <3>8
  <2> QED
    BY <2>1, <2>4, <2>6, <2>8
<1> HIDE DEF T
<1>3. \A s \in Seq(PlainItem) : s \in T
  BY <1>1, <1>2, SequenceInduction
<1> QED
  BY <1>3, PositionsIs DEF T

------------------------------------------------------------------------------
(* The pipe as a byte stream.                                               *)

LEMMA MatchedAgrees ==
  ASSUME PipeInv, Matched
  PROVE  Agree
BY DEF PipeInv, Agree

\* What is delivered under agreeing layers is plain.
LEMMA DeliveredPlain ==
  ASSUME NEW items \in Seq(Item), \A i \in 1..Len(items) : items[i].frame.kind = Plain
  PROVE  items \in Seq(PlainItem)
<1>1. \A i \in 1..Len(items) : items[i] \in PlainItem
  BY DEF PlainItem
<1> QED
  BY <1>1

LEMMA StreamInitially ==
  ASSUME PipeInit
  PROVE  Stream!StreamInit
<1>1. buffer.hi = 0 /\ next = 1 /\ delivered = <<>> /\ intact = TRUE /\ clean = TRUE
  BY DEF PipeInit, Init
<1>2. ReadTo = 0
  BY <1>1 DEF ReadTo
<1>4. Positions(<<>>) = <<>>
  BY NonePositions
<1> QED
  BY <1>1, <1>2, <1>4 DEF Stream!StreamInit

\* What the sink does offers bytes to the stream, or nothing.
LEMMA SinkOffers ==
  ASSUME PipeInv, [Next]_vars, UNCHANGED <<dconfig, next, delivered, clean>>
  PROVE  Stream!Offer
<1>1. /\ IInv' /\ buffer.hi <= buffer'.hi /\ (intact' => intact)
      /\ \E t \in Seq(Frame) : output' = output \o t
  BY SinkAppends DEF PipeInv
<1>2. ReadTo' = ReadTo
  BY <1>1, SinkKeepsReadTo
<1>3. buffer'.hi \in Nat
  BY <1>1 DEF IInv, TypeOK, Interval
<1>4. (intact /\ clean)' \in {intact /\ clean, FALSE}
  <2>1. clean' = clean /\ intact \in BOOLEAN /\ intact' \in BOOLEAN /\ clean \in BOOLEAN
    BY <1>1 DEF PipeInv, IInv, TypeOK
  <2> QED
    BY <1>1, <2>1
<1>5. Positions(delivered)' = Positions(delivered)
  BY DEF Positions
<1> QED
  BY <1>1, <1>2, <1>3, <1>4, <1>5 DEF Stream!Offer

\* A call of decode is received as the bytes between two places of the stream.
LEMMA DecodeReceives ==
  ASSUME PipeInv, Agree, NEW k \in Nat, NEW input, DecodeCall(k, input)
  PROVE  Stream!Receive
<1> DEFINE r == ChainDecode(dconfig, input)
           e == EndOf(next + k - 1)
           P == Positions(delivered)
           Q == Positions(r.out)
<1>1. /\ Given(input, k) /\ clean' \in BOOLEAN /\ (clean' => clean /\ r.ok)
      /\ next' = next + k /\ delivered' = delivered \o r.out
      /\ vars' = vars
  BY DEF DecodeCall, Call
<1>2. /\ r.out \in Seq(Item) /\ r.ok \in BOOLEAN
      /\ Ordered(Frames(r.out), ReadTo, e)
      /\ r.ok /\ intact => Gapless(Frames(r.out), ReadTo, e)
      /\ \A j \in 1..Len(r.out) : r.out[j].frame.kind = Plain
  BY <1>1, DecodeDelivers DEF DecodeGets
<1>3. buffer' = buffer /\ output' = output /\ intact' = intact
  BY <1>1 DEF vars
<1>4. /\ next + k - 1 <= Len(output) /\ next \in Nat /\ 1 <= next /\ Len(output) \in Nat
      /\ delivered \in Seq(Item) /\ intact \in BOOLEAN /\ clean \in BOOLEAN
      /\ buffer.lo \in Nat /\ buffer.hi \in Nat /\ buffer.lo <= buffer.hi
      /\ \A i \in 1..Len(delivered) : delivered[i].frame.kind = Plain
  BY <1>1 DEF Given, PipeInv, IInv, TypeOK, Interval, OutOrdered
<1>5. ReadTo' = e /\ ReadTo \in Nat /\ e \in Nat /\ e <= buffer.lo
  <2>1. ReadTo \in Nat /\ e \in Nat /\ e <= buffer.lo
    BY <1>4, RunCovers
  <2>2. next' - 1 = next + k - 1 /\ (next' = 1 <=> next + k - 1 = 0)
    BY <1>1, <1>4
  <2> QED
    BY <1>3, <2>1, <2>2 DEF ReadTo, EndOf
<1> HIDE DEF r, e
<1>6. r.out \in Seq(PlainItem) /\ delivered \in Seq(PlainItem)
  BY <1>2, <1>4, DeliveredPlain
<1>7. /\ P \in Seq(Nat) /\ Q \in Seq(Nat)
      /\ Positions(delivered \o r.out) = P \o Q
  BY <1>6, PositionsIs, PositionsConcat
<1>8. /\ Increases(Q, ReadTo, e)
      /\ Gapless(Frames(r.out), ReadTo, e) => Len(Q) = e - ReadTo
  <2>1. ReadTo \in Int /\ e \in Int
    BY <1>5
  <2> QED
    BY <1>2, <1>6, <2>1, PositionsIncrease
<1>9. Positions(delivered)' = P \o Q
  <2>1. Positions(delivered)' = Positions(delivered')
    BY DEF Positions
  <2> QED
    BY <1>1, <1>7, <2>1
<1> HIDE DEF P, Q
<1>10. SubSeq(P \o Q, Len(P) + 1, Len(P \o Q)) = Q
  BY <1>7, ConcatTail
<1>11. e \in ReadTo..buffer.hi
  <2>1. ReadTo <= e
    BY <1>2 DEF Ordered
  <2> QED
    BY <1>4, <1>5, <2>1
<1>12. /\ (intact /\ clean)' \in {intact /\ clean, FALSE}
       /\ (intact /\ clean)' => Len(Q) = e - ReadTo
  BY <1>1, <1>2, <1>3, <1>4, <1>8
<1>13. P = Positions(delivered)
  BY DEF P
<1> QED
  BY <1>3, <1>5, <1>7, <1>8, <1>9, <1>10, <1>11, <1>12, <1>13
     DEF Stream!Receive, Increases

\* A sink and a source with one configuration implement the byte stream: every
\* call on either side is a step of it, however calls fail and frames are
\* damaged.
THEOREM PipeImplementsStream ==
  ASSUME Matched
  PROVE  PipeSpec => ImplementsByteStream
<1>1. PipeInit => Stream!StreamInit
  BY StreamInitially
<1>2. PipeInv /\ [PipeNext]_pipeVars => [Stream!StreamNext]_Stream!stream
  <2> SUFFICES ASSUME PipeInv, [PipeNext]_pipeVars
               PROVE  Stream!StreamNext
    OBVIOUS
  <2>1. CASE Sink
    BY <2>1, SinkOffers DEF Sink, source, Stream!StreamNext
  <2>2. CASE \/ \E k \in 0..MaxRead : Decode(k)
             \/ \E k \in 1..MaxRead : DecodeDamaged(k)
    BY <2>2, DecodeIsCall, DecodeReceives, MatchedAgrees DEF Stream!StreamNext
  <2>3. CASE SourceFinish
    BY <2>3, FinishDelivers, SinkOffers DEF Stream!StreamNext
  <2>4. CASE UNCHANGED pipeVars
    BY <2>4, SinkOffers DEF pipeVars, source, Stream!StreamNext
  <2> QED
    BY <2>1, <2>2, <2>3, <2>4 DEF PipeNext
<1> QED
  BY <1>1, <1>2, PipeInvariantHolds, PTL DEF PipeSpec, ImplementsByteStream, Stream!StreamSpec

------------------------------------------------------------------------------
(* What the byte stream promises follows from its steps: what holds of it     *)
(* holds of every pair of a sink and a source that implements it.             *)

\* The bytes received are settled, in order, and all of them while whole.
StreamInv ==
  /\ offered \in Nat
  /\ settled \in 0..offered
  /\ received \in Seq(Nat)
  /\ whole \in BOOLEAN
  /\ \A i \in 1..Len(received) : received[i] < settled
  /\ InOrder
  /\ Complete

LEMMA PlusMinus ==
  ASSUME NEW a \in Nat, NEW b \in Nat
  PROVE  a + (b - a) = b
OBVIOUS

LEMMA InitStreamInv == StreamInit => StreamInv
<1> SUFFICES ASSUME StreamInit PROVE StreamInv
  OBVIOUS
<1>1. offered = 0 /\ settled = 0 /\ received = <<>> /\ whole = TRUE
  BY DEF StreamInit
<1>2. received \in Seq(Nat) /\ Len(received) = 0
  BY <1>1
<1> QED
  BY <1>1, <1>2 DEF StreamInv, InOrder, Increasing, Complete

LEMMA ReceiveKeepsStreamInv ==
  ASSUME StreamInv, Receive
  PROVE  StreamInv'
<1> DEFINE new == SubSeq(received', Len(received) + 1, Len(received'))
<1>1. /\ settled' \in settled..offered
      /\ new \in Seq(Nat)
      /\ received' = received \o new
      /\ Increasing(new)
      /\ \A i \in 1..Len(new) : new[i] \in settled..(settled' - 1)
      /\ whole' \in {whole, FALSE}
      /\ whole' => Len(new) = settled' - settled
      /\ offered' = offered
  BY DEF Receive
<1> HIDE DEF new
<1>2. /\ received \in Seq(Nat) /\ settled \in Nat /\ offered \in Nat
      /\ settled' \in Nat /\ settled <= settled'
  BY <1>1 DEF StreamInv
<1>3. /\ received' \in Seq(Nat)
      /\ Len(received') = Len(received) + Len(new)
      /\ Len(received) \in Nat /\ Len(new) \in Nat
      /\ \A i \in 1..Len(received') :
           \/ i \in 1..Len(received) /\ received'[i] = received[i]
           \/ /\ i - Len(received) \in 1..Len(new) /\ i > Len(received)
              /\ received'[i] = new[i - Len(received)]
  BY <1>1, <1>2
<1>4. \A i \in 1..Len(received) : received[i] \in Nat /\ received[i] < settled
  BY <1>2 DEF StreamInv
<1>5. \A i \in 1..Len(new) : /\ new[i] \in Nat
                             /\ settled <= new[i] /\ new[i] < settled'
  BY <1>1, <1>2
<1>6. \A i \in 1..Len(received') : received'[i] < settled'
  <2> SUFFICES ASSUME NEW i \in 1..Len(received')
               PROVE  received'[i] < settled'
    OBVIOUS
  <2>1. CASE i \in 1..Len(received) /\ received'[i] = received[i]
    BY <1>2, <1>4, <2>1
  <2>2. CASE i - Len(received) \in 1..Len(new) /\ received'[i] = new[i - Len(received)]
    BY <1>5, <2>2
  <2> QED
    BY <1>3, <2>1, <2>2
<1>7. InOrder'
  <2> SUFFICES ASSUME NEW i \in 1..Len(received'), NEW j \in 1..Len(received'), i < j
               PROVE  received'[i] < received'[j]
    BY DEF InOrder, Increasing
  <2>1. CASE j \in 1..Len(received) /\ received'[j] = received[j]
    <3>1. i \in 1..Len(received) /\ received'[i] = received[i]
      BY <1>3, <2>1
    <3> QED
      BY <2>1, <3>1 DEF StreamInv, InOrder, Increasing
  <2>2. CASE /\ j - Len(received) \in 1..Len(new) /\ j > Len(received)
             /\ received'[j] = new[j - Len(received)]
    <3>1. CASE i \in 1..Len(received) /\ received'[i] = received[i]
      <4>1. received[i] \in Nat /\ received[i] < settled
        BY <1>4, <3>1
      <4>2. new[j - Len(received)] \in Nat /\ settled <= new[j - Len(received)]
        BY <1>5, <2>2
      <4> QED
        BY <1>2, <2>2, <3>1, <4>1, <4>2
    <3>2. CASE /\ i - Len(received) \in 1..Len(new)
               /\ received'[i] = new[i - Len(received)]
      <4>1. i - Len(received) < j - Len(received)
        BY <1>3
      <4> QED
        BY <1>1, <2>2, <3>2, <4>1 DEF Increasing
    <3> QED
      BY <1>3, <3>1, <3>2
  <2> QED
    BY <1>3, <2>1, <2>2
<1>8. Complete'
  <2> SUFFICES ASSUME whole' PROVE Len(received') = settled'
    BY DEF Complete
  <2>1. whole
    BY <1>1
  <2>2. Len(received) = settled
    BY <2>1 DEF StreamInv, Complete
  <2>3. Len(new) = settled' - settled
    BY <1>1
  <2>4. Len(received') = settled + (settled' - settled)
    BY <1>3, <2>2, <2>3
  <2> QED
    BY <1>2, <2>4, PlusMinus
<1>9. whole' \in BOOLEAN
  BY <1>1 DEF StreamInv
<1>10. offered' \in Nat /\ settled' \in 0..offered'
  BY <1>1, <1>2
<1> QED
  BY <1>3, <1>6, <1>7, <1>8, <1>9, <1>10 DEF StreamInv

LEMMA NextStreamInv == StreamInv /\ [StreamNext]_stream => StreamInv'
<1> SUFFICES ASSUME StreamInv, [StreamNext]_stream PROVE StreamInv'
  OBVIOUS
<1>1. CASE Offer
  <2>1. /\ offered' \in Nat /\ offered <= offered'
        /\ settled' = settled /\ received' = received
    BY <1>1 DEF Offer
  <2>2. whole' \in {whole, FALSE}
    BY <1>1 DEF Offer
  <2>3. whole' \in BOOLEAN /\ (whole' => whole)
    <3>1. CASE whole' = whole
      BY <3>1 DEF StreamInv
    <3>2. CASE whole' = FALSE
      BY <3>2
    <3> QED
      BY <2>2, <3>1, <3>2
  <2>4. InOrder' /\ Complete'
    BY <2>1, <2>3 DEF StreamInv, InOrder, Complete
  <2> QED
    BY <2>1, <2>3, <2>4 DEF StreamInv
<1>2. CASE Receive
  BY <1>2, ReceiveKeepsStreamInv
<1>3. CASE UNCHANGED stream
  BY <1>3 DEF StreamInv, stream, InOrder, Complete
<1> QED
  BY <1>1, <1>2, <1>3 DEF StreamNext

\* Bytes are received in order and at most once.
THEOREM StreamInOrder == StreamSpec => []InOrder
<1>1. StreamInv => InOrder
  BY DEF StreamInv
<1> QED
  BY <1>1, InitStreamInv, NextStreamInv, PTL DEF StreamSpec

\* Until something goes wrong every settled byte is received: as many distinct
\* bytes below settled as there are.
THEOREM StreamComplete == StreamSpec => []Complete
<1>1. StreamInv => Complete
  BY DEF StreamInv
<1> QED
  BY <1>1, InitStreamInv, NextStreamInv, PTL DEF StreamSpec

==============================================================================
