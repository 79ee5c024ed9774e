----------------------------- MODULE CodecFrames -----------------------------
(***************************************************************************)
(* What travels on the wire between an encoder and a decoder (codec.rs).   *)
(*                                                                         *)
(* A plaintext byte is identified by its position in the stream of bytes   *)
(* ever offered to Encoder::encode, so a run of bytes is an interval       *)
(* [lo, hi) and two runs are the same data exactly when they are the same  *)
(* interval.  A segment is a framed compressed block, or a run of bytes    *)
(* that no layer has framed; a sealed frame is an AEAD block whose         *)
(* plaintext is a sequence of segments.  Nonces are identified by the      *)
(* order in which the random generator handed them out.                    *)
(***************************************************************************)
EXTENDS Integers, Sequences, FiniteSets

SE == INSTANCE SequencesExt

CONSTANTS Keys,        \* the symmetric keys in use
          PackedLen    \* bytes of a compressed block, the same for every block

ASSUME PackedLenAssumption == PackedLen \in Nat

None  == "None"
Plain == "Plain"
Zstd  == "Zstd"

CompressionAlgo == {"Gzip", Zstd}
Cipher          == {"Aes256Gcm", "Sm4Gcm"}
FrameKind       == CompressionAlgo \cup Cipher

\* The arguments of build_encoder / build_decoder: a layer that is None is off.
Config == [compress : CompressionAlgo \cup {None},
           encrypt  : Cipher \cup {None},
           key      : Keys]

Segment == [kind : CompressionAlgo \cup {Plain}, lo : Nat, hi : Nat]

\* AeadEncoder never seals an empty input.
Sealed == [kind  : Cipher,
           key   : Keys,
           nonce : Nat,
           body  : Seq(Segment) \ {<<>>}]

Frame == Segment \cup Sealed

IsSealed(f) == f.kind \in Cipher

\* The positions a frame carries start at Lo(f) and end before Hi(f).
Lo(f) == IF IsSealed(f) THEN f.body[1].lo ELSE f.lo
Hi(f) == IF IsSealed(f) THEN f.body[Len(f.body)].hi ELSE f.hi

------------------------------------------------------------------------------
(* put_block: magic(2), version(1), kind(1), length(4), payload.            *)

HeaderLen == 8

\* The length in bytes of what a non-empty mid buffer holds: unframed bytes, or
\* compressed blocks with their headers.
BodyLen(body) ==
  IF body[1].kind = Plain
  THEN body[1].hi - body[1].lo
  ELSE Len(body) * (HeaderLen + PackedLen)

------------------------------------------------------------------------------
(* How a sequence of frames covers the positions between a and b.           *)

\* Each frame carries at least one byte, all of them lie between a and b, and a
\* later frame carries later bytes: nothing is reordered or repeated.
Ordered(s, a, b) ==
  /\ a <= b
  /\ \A i \in 1..Len(s) : a <= Lo(s[i]) /\ Lo(s[i]) < Hi(s[i]) /\ Hi(s[i]) <= b
  /\ \A i, j \in 1..Len(s) : i < j => Hi(s[i]) <= Lo(s[j])

\* The frames follow on one another without a gap, from a to b.
Gapless(s, a, b) ==
  IF s = <<>>
  THEN a = b
  ELSE /\ Lo(s[1]) = a
       /\ Hi(s[Len(s)]) = b
       /\ \A i \in 1..(Len(s) - 1) : Hi(s[i]) = Lo(s[i + 1])

\* s carries every byte between a and b, once and in order.
Tiles(s, a, b) == Ordered(s, a, b) /\ Gapless(s, a, b)

==============================================================================
