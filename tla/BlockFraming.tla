---------------------------- MODULE BlockFraming ----------------------------
(***************************************************************************)
(* The block frames of codec.rs byte by byte: put_block and take_block,    *)
(* and the loop of BlockDecompressor.decode and AeadDecoder.decode that    *)
(* takes block after block from its input, one iteration a step.           *)
(*                                                                         *)
(* A byte is a number.  The length field has four digits to the base Base, *)
(* which is 256 in the code; a run takes a small one, so that a payload    *)
(* can be too long for the field.  What a layer makes of a payload is left *)
(* to CodecDecoder; here it accepts the payload or returns Err.            *)
(*                                                                         *)
(* A definition under "Variant:" is what a likely mistake in the code      *)
(* below it would make of that definition; no behaviour uses it.           *)
(***************************************************************************)
EXTENDS Integers, Sequences

CONSTANTS Base,       \* the number of values of a byte of the length field
          Kinds,      \* the frame kinds put on the wire
          Expected,   \* the decoder's frame kind
          Payloads,   \* the payloads offered to put_block
          FlipTo,     \* the values an altered byte may take
          MaxBlocks   \* bound: blocks put on the wire

FrameKind == {"Gzip", "Zstd", "Aes256Gcm", "Sm4Gcm"}

ASSUME BaseAssumption   == Base \in Nat \ {0, 1}
ASSUME KindsAssumption  == Kinds \subseteq FrameKind /\ Expected \in FrameKind
ASSUME BytesAssumption  == Payloads \subseteq Seq(Nat) /\ FlipTo \subseteq Nat
ASSUME BlocksAssumption == MaxBlocks \in Nat

------------------------------------------------------------------------------
(* magic(2), version(1), kind(1), length(4 BE), payload                     *)

FrameMagic   == <<87, 80>>
FrameVersion == 1
KindCode     == [Gzip |-> 1, Zstd |-> 2, Aes256Gcm |-> 3, Sm4Gcm |-> 4]

HeaderLen == 8
TooLong   == Base * Base * Base * Base

\* to_be_bytes: the low four digits of n.
Digits(n) ==
  LET q1 == n \div Base
      q2 == q1 \div Base
      q3 == q2 \div Base
  IN <<q3 % Base, q2 % Base, q1 % Base, n % Base>>

\* from_be_bytes.
Number(a, b, c, d) == ((a * Base + b) * Base + c) * Base + d

Header(kind, n) == FrameMagic \o <<FrameVersion, KindCode[kind]>> \o Digits(n)

Block(kind, payload) == Header(kind, Len(payload)) \o payload

\* Variant: the length is cast instead of converted.
FitsAlways(payload) == TRUE

\* u32::try_from(payload.len()).
Fits(payload) == Len(payload) < TooLong

\* Variant: the magic is not compared.
HeaderReadsAnyMagic(input) ==
  /\ Len(input) >= HeaderLen
  /\ input[3] = FrameVersion
  /\ \E kind \in FrameKind : KindCode[kind] = input[4]

\* What take_block checks before it looks at the length.
HeaderReads(input) ==
  /\ Len(input) >= HeaderLen
  /\ input[1] = FrameMagic[1] /\ input[2] = FrameMagic[2]
  /\ input[3] = FrameVersion
  /\ \E kind \in FrameKind : KindCode[kind] = input[4]

KindOf(input)   == CHOOSE kind \in FrameKind : KindCode[kind] = input[4]
LengthOf(input) == Number(input[5], input[6], input[7], input[8])

\* Variant: > for the length that is needed.
TakesStrictly(input) ==
  /\ HeaderReads(input)
  /\ Len(input) > HeaderLen + LengthOf(input)

\* take_block returns a block.
Takes(input) ==
  /\ HeaderReads(input)
  /\ Len(input) >= HeaderLen + LengthOf(input)

PayloadOf(input) == SubSeq(input, HeaderLen + 1, HeaderLen + LengthOf(input))

\* Variant: the rest of a block without payload is the block itself.
BehindAtPayload(input) ==
  IF LengthOf(input) = 0 THEN input
  ELSE SubSeq(input, HeaderLen + LengthOf(input) + 1, Len(input))

\* Variant: the rest starts a byte late.
BehindPlusOne(input) == SubSeq(input, HeaderLen + LengthOf(input) + 2, Len(input))

\* split_at(len): what is behind the block.
Behind(input) == SubSeq(input, HeaderLen + LengthOf(input) + 1, Len(input))

------------------------------------------------------------------------------
VARIABLES
  sent,       \* history: the blocks put on the wire, each with the position of its end
  wire,       \* the bytes put_block appended
  read,       \* the bytes of the wire handed to decode so far
  flip,       \* history: the position of the altered byte, 0 if there is none
  running,    \* decode has been called and has not returned
  rest,       \* its remaining input
  taken,      \* the payloads of the blocks it took, over all calls
  refused,    \* history: a layer returned Err for the payload of a taken block
  ret         \* what the last decode returned

vars == <<sent, wire, read, flip, running, rest, taken, refused, ret>>
reader == <<read, flip, running, rest, taken, refused, ret>>

EndOf(i) == IF i = 0 THEN 0 ELSE sent[i].end
Boundaries == {EndOf(i) : i \in 0..Len(sent)}

Init ==
  /\ sent = <<>> /\ wire = <<>>
  /\ read = 0 /\ flip = 0
  /\ running = FALSE /\ rest = <<>>
  /\ taken = <<>> /\ refused = FALSE /\ ret = "none"

\* put_block: Ok.
Put(kind, payload) ==
  /\ Len(sent) < MaxBlocks
  /\ Fits(payload)
  /\ wire' = wire \o Block(kind, payload)
  /\ sent' = Append(sent, [kind |-> kind, payload |-> payload, end |-> Len(wire')])
  /\ UNCHANGED <<reader>>

\* decode is called with the next n bytes of the wire.  They are whole blocks, or
\* the last bytes of a connection that broke off, and then nothing follows them.
Call(n) ==
  /\ ~running /\ ret # "err" /\ read \in Boundaries
  /\ read + n <= Len(wire)
  /\ read' = read + n
  /\ running' = TRUE
  /\ UNCHANGED <<sent, wire, taken, refused, ret>>

Start(n) ==
  /\ Call(n)
  /\ rest' = SubSeq(wire, read + 1, read + n)
  /\ UNCHANGED flip

\* One of them, the one at position p, is not what was sent.  A stream has one
\* accident: no byte of a torn input is altered.
StartAltered(n, p, v) ==
  /\ Call(n) /\ read + n \in Boundaries
  /\ flip = 0 /\ read < p /\ v # wire[p]
  /\ rest' = [SubSeq(wire, read + 1, read + n) EXCEPT ![p - read] = v]
  /\ flip' = p

Return(result) ==
  /\ running' = FALSE /\ rest' = <<>>
  /\ ret' = result
  /\ UNCHANGED <<sent, wire, read, flip>>

\* An iteration that takes a block.
Take ==
  /\ running /\ rest # <<>>
  /\ Takes(rest) /\ KindOf(rest) = Expected
  /\ taken' = Append(taken, PayloadOf(rest))
  /\ rest' = Behind(rest)
  /\ UNCHANGED <<sent, wire, read, flip, running, refused, ret>>

\* Variant: what is less than a header waits for more bytes.
RejectWaiting ==
  /\ running /\ rest # <<>>
  /\ ~(Takes(rest) /\ KindOf(rest) = Expected)
  /\ IF Len(rest) < HeaderLen THEN UNCHANGED vars
     ELSE Return("err") /\ UNCHANGED <<taken, refused>>

\* An iteration that finds no block of the expected kind.
Reject ==
  /\ running /\ rest # <<>>
  /\ ~(Takes(rest) /\ KindOf(rest) = Expected)
  /\ Return("err")
  /\ UNCHANGED <<taken, refused>>

\* An iteration whose payload the layer does not accept.
Refuse ==
  /\ running /\ rest # <<>>
  /\ Takes(rest) /\ KindOf(rest) = Expected
  /\ Return("err")
  /\ refused' = TRUE
  /\ UNCHANGED taken

\* The loop ends.
Finished ==
  /\ running /\ rest = <<>>
  /\ Return("ok")
  /\ UNCHANGED <<taken, refused>>

Loop == Take \/ Reject \/ Refuse \/ Finished

Next ==
  \/ \E kind \in Kinds, payload \in Payloads : Put(kind, payload)
  \/ \E n \in 0..(Len(wire) - read) :
       \/ Start(n)
       \/ \E p \in (read + 1)..(read + n), v \in FlipTo : StartAltered(n, p, v)
  \/ Loop

\* A call of decode runs on the caller's thread until it returns.
Spec == Init /\ [][Next]_vars /\ WF_vars(Loop)

------------------------------------------------------------------------------
(* What must hold.                                                          *)

\* The values the state ranges over; no block is longer than its length field can
\* say, and decode never holds bytes it was not given.
TypeOK ==
  /\ sent \in Seq([kind : Kinds, payload : Payloads, end : Nat])
  /\ \A i \in 1..Len(sent) : Len(sent[i].payload) < TooLong
  /\ wire \in Seq(Nat)
  /\ read \in 0..Len(wire)
  /\ flip \in 0..read
  /\ running \in BOOLEAN
  /\ rest \in Seq(Nat) /\ Len(rest) <= read
  /\ taken \in Seq(Seq(Nat))
  /\ refused \in BOOLEAN
  /\ ret \in {"none", "ok", "err"}

\* However the stream is cut into inputs, and whatever the payloads look like (a
\* header, nothing, the longest one), the decoder takes the blocks that were put,
\* one by one from the first, and is always at the start of one.
TakesWhatWasPut ==
  flip = 0 =>
    /\ Len(taken) <= Len(sent)
    /\ \A i \in 1..Len(taken) :
         taken[i] = sent[i].payload /\ sent[i].kind = Expected
    /\ running => rest = SubSeq(wire, EndOf(Len(taken)) + 1, read)

\* decode returns Ok on an unaltered stream only when it has taken all blocks of
\* its input, to the last byte; it returns Err only for a torn block, one of
\* another kind, or a payload the layer refused.
VerdictIsRight ==
  flip = 0 /\ ~running =>
    /\ ret = "ok" => read = EndOf(Len(taken))
    /\ ret = "err" =>
         \/ refused
         \/ read \notin Boundaries
         \/ Len(taken) < Len(sent) /\ sent[Len(taken) + 1].kind # Expected

\* The block an altered byte is in, and the byte's place in it.
FlippedBlock  == CHOOSE b \in 1..Len(sent) : EndOf(b - 1) < flip /\ flip <= EndOf(b)
FlippedOffset == flip - EndOf(FlippedBlock - 1)

\* One altered byte does no harm to the blocks before it.  In the magic, the
\* version or the kind it stops the decoder at that block, where a kind can only
\* be made right that was wrong; in the payload it stays in that payload.
AlterationContained ==
  flip # 0 =>
    LET b == FlippedBlock IN
    /\ \A i \in 1..Len(taken) : i < b => taken[i] = sent[i].payload
    /\ FlippedOffset \in 1..4 /\ Len(taken) >= b
         => FlippedOffset = 4 /\ sent[b].kind # Expected
    /\ FlippedOffset > HeaderLen =>
         \A i \in 1..Len(taken) :
           /\ i # b => taken[i] = sent[i].payload
           /\ i = b => \A j \in 1..Len(taken[i]) :
                         taken[i][j] # sent[i].payload[j] => j = FlippedOffset - HeaderLen

\* Every iteration that takes a block takes its header and its payload off the
\* input, so the loop cannot spin.
IterationsAdvance ==
  [][taken' # taken =>
       Len(rest) = HeaderLen + Len(taken'[Len(taken')]) + Len(rest')]_vars

\* A call of decode returns, whatever its input.
DecodeReturns == running ~> ~running

==============================================================================
