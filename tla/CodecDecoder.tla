----------------------------- MODULE CodecDecoder ----------------------------
(***************************************************************************)
(* The source side of codec.rs: what ChainDecoder.decode makes of one      *)
(* input.  The decoders hold no state between calls, so decode is a        *)
(* function of its input and of the configuration.                         *)
(*                                                                         *)
(* An input is a sequence of items: frames as they arrived.  User bytes    *)
(* are taken not to look like a frame header, so a block parser fails on   *)
(* them.  A definition under "Variant:" is what a likely mistake in the    *)
(* code below it would make of that definition; no behaviour uses it.      *)
(***************************************************************************)
EXTENDS CodecFrames

(* How a frame arrives: whole; torn, when the input ends inside it;         *)
(* tampered, when its payload is not what was sent and the layer that reads *)
(* it finds out (the GCM tag, the gzip checksum); garbled, when it is not   *)
(* what was sent and reads all the same: a zstd block, which carries no     *)
(* checksum, and bytes that no layer has framed.                            *)
State == {"whole", "torn", "tampered", "garbled"}

Item == [frame : Frame, state : State]

Whole(f) == [frame |-> f, state |-> "whole"]

\* Damage that can happen to a frame.
Damage(f) ==
  IF f.kind = Plain THEN {"garbled"}
  ELSE IF f.kind = Zstd THEN {"torn", "tampered", "garbled"}
  ELSE {"torn", "tampered"}

------------------------------------------------------------------------------
(* One layer: blocks are taken from the front of the input until one is     *)
(* refused; what was read before it stays in the output.                    *)

Layer(input, Accepts(_), Content(_)) ==
  LET bad  == SE!SelectInSeq(input, LAMBDA item : ~Accepts(item))
      good == IF bad = 0 THEN input ELSE SubSeq(input, 1, bad - 1)
  IN [out |-> SE!FlattenSeq([i \in 1..Len(good) |-> Content(good[i])]),
      ok  |-> bad = 0]

\* take_block and the check of the frame kind.
TakeBlock(kind, item) == item.state # "torn" /\ item.frame.kind = kind

\* Variant: one block per call.
BlockDecodeFirst(algo, input) ==
  Layer(IF input = <<>> THEN input ELSE <<input[1]>>,
        LAMBDA item : TakeBlock(algo, item) /\ item.state # "tampered",
        LAMBDA item : <<[item EXCEPT !.frame.kind = Plain]>>)

\* Variant: the kind in the frame is not compared.
BlockDecodeAnyKind(algo, input) ==
  Layer(input,
        LAMBDA item : item.state \notin {"torn", "tampered"},
        LAMBDA item : <<[item EXCEPT !.frame.kind = Plain]>>)

\* Variant: blocks of another kind are skipped.
BlockDecodeSkipping(algo, input) ==
  Layer(SelectSeq(input, LAMBDA item : item.frame.kind = algo),
        LAMBDA item : TakeBlock(algo, item) /\ item.state # "tampered",
        LAMBDA item : <<[item EXCEPT !.frame.kind = Plain]>>)

\* BlockDecompressor.decode.
BlockDecode(algo, input) ==
  Layer(input,
        LAMBDA item : TakeBlock(algo, item) /\ item.state # "tampered",
        LAMBDA item : <<[item EXCEPT !.frame.kind = Plain]>>)

\* Variant: the tag is not verified.
AeadDecodeUnverified(cipher, key, input) ==
  Layer(input,
        LAMBDA item : TakeBlock(cipher, item) /\ item.frame.key = key,
        LAMBDA item : [i \in 1..Len(item.frame.body) |->
                         [frame |-> item.frame.body[i], state |-> item.state]])

\* open returns Ok on what was sealed with this key and was not altered.
Authentic(key, item) == item.state = "whole" /\ item.frame.key = key

\* AeadDecoder.decode: a block that does not open ends the call.
AeadDecode(cipher, key, input) ==
  Layer(input,
        LAMBDA item : TakeBlock(cipher, item) /\ Authentic(key, item),
        LAMBDA item : [i \in 1..Len(item.frame.body) |-> Whole(item.frame.body[i])])

\* Variant: what was decrypted before an Err goes to the output.
ChainDecodeLeaking(cfg, input) ==
  IF cfg.encrypt = None /\ cfg.compress = None
  THEN [out |-> input, ok |-> TRUE]
  ELSE IF cfg.encrypt = None
  THEN BlockDecode(cfg.compress, input)
  ELSE LET mid == AeadDecode(cfg.encrypt, cfg.key, input) IN
       IF cfg.compress # None /\ mid.ok THEN BlockDecode(cfg.compress, mid.out) ELSE mid

\* Variant: it is decompressed before the Err is returned.
ChainDecodeEager(cfg, input) ==
  IF cfg.encrypt = None /\ cfg.compress = None
  THEN [out |-> input, ok |-> TRUE]
  ELSE IF cfg.encrypt = None
  THEN BlockDecode(cfg.compress, input)
  ELSE LET mid == AeadDecode(cfg.encrypt, cfg.key, input) IN
       IF cfg.compress = None THEN mid
       ELSE [out |-> BlockDecode(cfg.compress, mid.out).out, ok |-> mid.ok]

\* ChainDecoder.decode: the first layer writes to a local buffer when there is a
\* second one, and an Err of the first discards it.
ChainDecode(cfg, input) ==
  IF cfg.encrypt = None /\ cfg.compress = None
  THEN [out |-> input, ok |-> TRUE]
  ELSE IF cfg.encrypt = None
  THEN BlockDecode(cfg.compress, input)
  ELSE LET mid == AeadDecode(cfg.encrypt, cfg.key, input) IN
       IF cfg.compress = None THEN mid
       ELSE IF mid.ok THEN BlockDecode(cfg.compress, mid.out)
       ELSE [out |-> <<>>, ok |-> FALSE]

\* ChainDecoder.finish: no layer holds anything back.
ChainDecoderFinish == [out |-> <<>>, ok |-> TRUE]

==============================================================================
