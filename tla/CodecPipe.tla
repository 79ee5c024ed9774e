------------------------------ MODULE CodecPipe ------------------------------
(***************************************************************************)
(* A sink and a source of codec.rs over a byte stream: the sink's encoder  *)
(* (CodecEncoder) puts frames on the wire while the source reads whole     *)
(* blocks from it and feeds them to its decoder (CodecDecoder).  The       *)
(* transport keeps order; it may break off inside a frame, when the source *)
(* is left with a torn block, and may alter a frame.                       *)
(*                                                                         *)
(* The source goes on behind the input of a decode that returned Err, and  *)
(* keeps what that call had written to its output.                         *)
(***************************************************************************)
EXTENDS CodecEncoder, CodecDecoder

CONSTANTS MaxRead,   \* bound: frames in the input of one decode
          Matched    \* TRUE: the source has the sink's configuration

ASSUME PipeAssumption == MaxRead \in Nat /\ Matched \in BOOLEAN

VARIABLES
  dconfig,     \* what build_decoder was given
  next,        \* the wire is read up to output[next - 1]
  delivered,   \* the items appended to the source's output
  clean,       \* history: every decode returned Ok and no frame was altered
  dret         \* the last call of the decoder and whether it returned Ok

source == <<dconfig, next, delivered, clean, dret>>
pipeVars == <<vars, source>>

PipeInit ==
  /\ Init
  /\ dconfig \in Configs
  /\ Matched => dconfig = config
  /\ next = 1
  /\ delivered = <<>>
  /\ clean = TRUE
  /\ dret = [op |-> "build", ok |-> TRUE]

\* The sink's calls.
Sink == Next /\ UNCHANGED source

\* The next k frames on the wire, as sent.
Chunk(k) == [i \in 1..k |-> Whole(output[next + i - 1])]

Call(op, k, r) ==
  /\ next' = next + k
  /\ delivered' = delivered \o r.out
  /\ dret' = [op |-> op, ok |-> r.ok]
  /\ UNCHANGED <<vars, dconfig>>

\* decode on k whole blocks.
Decode(k) ==
  LET r == ChainDecode(dconfig, Chunk(k)) IN
  /\ next + k - 1 <= Len(output)
  /\ Call("decode", k, r)
  /\ clean' = (clean /\ r.ok)

\* decode on an input with a block that is not what was sent; only the last one
\* can be torn.
DecodeDamaged(k) ==
  /\ next + k - 1 <= Len(output)
  /\ \E d \in 1..k : \E s \in Damage(output[next + d - 1]) :
       /\ s = "torn" => d = k
       /\ Call("decode", k, ChainDecode(dconfig, [Chunk(k) EXCEPT ![d].state = s]))
  /\ clean' = FALSE

SourceFinish ==
  /\ Call("finish", 0, ChainDecoderFinish)
  /\ UNCHANGED clean

PipeNext ==
  \/ Sink
  \/ \E k \in 0..MaxRead : Decode(k)
  \/ \E k \in 1..MaxRead : DecodeDamaged(k)
  \/ SourceFinish

PipeSpec == PipeInit /\ [][PipeNext]_pipeVars

------------------------------------------------------------------------------
(* What must hold.                                                          *)

Frames(items) == [i \in 1..Len(items) |-> items[i].frame]

\* The positions a run of frames carries.
Bytes(frames) == UNION {Lo(frames[i])..(Hi(frames[i]) - 1) : i \in 1..Len(frames)}

\* The source undoes exactly the layers the sink applied.
Agree ==
  /\ dconfig.compress = config.compress
  /\ dconfig.encrypt = config.encrypt
  /\ config.encrypt # None => dconfig.key = config.key

\* The end of what the source has read.
ReadTo == IF next = 1 THEN 0 ELSE Hi(output[next - 1])

\* A source with the sink's configuration gets plaintext only, in the order it
\* was offered and no byte twice, whatever fails on either side.
OutOrdered ==
  Agree => /\ Ordered(Frames(delivered), 0, ReadTo)
           /\ \A i \in 1..Len(delivered) : delivered[i].frame.kind = Plain

\* An AEAD layer never lets altered bytes through, and neither does gzip: they
\* reach the source only from unframed bytes and from bare zstd blocks.
DamagedNeverDelivered ==
  Agree /\ (\E i \in 1..Len(delivered) : delivered[i].state # "whole")
    => config.encrypt = None /\ config.compress \in {None, Zstd}

\* End to end: nothing failed, finish returned Ok and the wire is read to its
\* end, so the source has every byte the sink was offered.
RoundTrip ==
  /\ Agree /\ intact /\ clean
  /\ ret = [op |-> "finish", ok |-> TRUE] /\ next = Len(output) + 1
  => Tiles(Frames(delivered), 0, buffer.hi)

\* Bytes reach the source as plaintext only through layers that agree: another
\* key, cipher, algorithm or layering never yields the sink's bytes.
PlainOnlyIfAgreed ==
  (\E i \in 1..Len(delivered) : delivered[i].frame.kind = Plain) => Agree

\* The outer layers of the sink, which a source with fewer layers may undo alone.
PeelsOuterLayers ==
  /\ dconfig.compress = None
  /\ dconfig.encrypt # None =>
       dconfig.encrypt = config.encrypt /\ dconfig.key = config.key

NewItems == SubSeq(delivered', Len(delivered) + 1, Len(delivered'))
ReadFrames == SubSeq(output, next, next' - 1)

\* A decode that returns Ok under the sink's configuration delivers exactly the
\* bytes of the blocks it was given; one that returns Err delivers only bytes of
\* these blocks, and with both layers on it delivers none at all.
DecodeDeliversItsInput ==
  [][dret'.op = "decode" /\ Agree
       => IF dret'.ok
          THEN Bytes(Frames(NewItems)) = Bytes(ReadFrames)
          ELSE /\ Bytes(Frames(NewItems)) \subseteq Bytes(ReadFrames)
               /\ config.compress # None /\ config.encrypt # None
                    => NewItems = <<>>]_pipeVars

\* A source that was configured differently gets Err for every block, unless it
\* is missing inner layers: then it gets Ok, and the inner blocks as they are.
MismatchIsRefused ==
  [][dret'.op = "decode" /\ next' > next /\ dret'.ok => Agree \/ PeelsOuterLayers]_pipeVars

------------------------------------------------------------------------------
(* The pipe as a byte stream.                                               *)

\* The positions of the plaintext delivered, in the order of delivery.
Positions(items) ==
  SE!FlattenSeq([i \in 1..Len(items) |->
    [j \in 1..Size(items[i].frame) |-> items[i].frame.lo + j - 1]])

Stream == INSTANCE ByteStream WITH
  offered  <- buffer.hi,
  settled  <- ReadTo,
  received <- Positions(delivered),
  whole    <- intact /\ clean

\* With agreeing configurations the pipe implements the byte stream.
ImplementsByteStream == Stream!StreamSpec

==============================================================================
