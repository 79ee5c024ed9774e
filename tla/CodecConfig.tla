----------------------------- MODULE CodecConfig -----------------------------
(***************************************************************************)
(* From the configurations a sink and a source are given to an encoder and *)
(* a decoder, or a CodecError::Config: the steps in front of CodecEncoder  *)
(* and CodecDecoder, which start from a Config that was accepted.  An      *)
(* Option is a set of at most one element.                                 *)
(***************************************************************************)
EXTENDS CodecFrames

CONSTANTS Levels,    \* bound: the levels a configuration may name
          KeyLens    \* bound: the lengths a key may have, in bytes

VARIABLES
  compression,   \* the configuration both sides are given
  encryption,
  encoder,       \* what build_encoder returned
  decoder        \* what build_decoder returned

configVars == <<compression, encryption, encoder, decoder>>

ASSUME ConfigAssumption == Levels \subseteq Int /\ KeyLens \subseteq Nat

CompressConfig == [algo : CompressionAlgo, level : Levels]
EncryptConfig  == [cipher : Cipher, key_len : KeyLens]

Option(S) == {{}} \cup {{x} : x \in S}

Waiting == [status |-> "none", layers |-> <<>>]
ConfigErr == [status |-> "CodecError::Config", layers |-> <<>>]
Ok(layers) == [status |-> "Ok", layers |-> layers]

------------------------------------------------------------------------------
\* Variant: every level zstd knows is let through for gzip as well.
LevelsOfZstd(algo) == -7..22

\* The levels validate_compress_level accepts.
ValidLevels(algo) == IF algo = "Gzip" THEN 0..9 ELSE -7..22

\* The level the compressor works at: gzip's is clamped and cast to u32.
LevelInForce(algo, level) ==
  IF algo = "Gzip" THEN (IF level < 0 THEN 0 ELSE IF level > 9 THEN 9 ELSE level) ELSE level

build_compressor(c)   == [kind |-> c.algo, level |-> LevelInForce(c.algo, c.level)]
build_decompressor(c) == [kind |-> c.algo]

KeyLen(cipher) == IF cipher = "Aes256Gcm" THEN 32 ELSE 16

\* build_aead_cipher; cipher_frame_kind names the frames after the cipher.
Refused(e) == e.key_len # KeyLen(e.cipher)
AeadLayer(e) == [kind |-> e.cipher]

\* Layers from the inside out; the level is looked at before the key.
Accepted(c, e) == (\A x \in c : x.level \in ValidLevels(x.algo)) /\ ~\E x \in e : Refused(x)

build_encoder(c, e) ==
  IF ~Accepted(c, e) THEN ConfigErr
  ELSE Ok([compress |-> {build_compressor(x) : x \in c}, encrypt |-> {AeadLayer(x) : x \in e}])

build_decoder(c, e) ==
  IF ~Accepted(c, e) THEN ConfigErr
  ELSE Ok([compress |-> {build_decompressor(x) : x \in c}, encrypt |-> {AeadLayer(x) : x \in e}])

ConfigInit ==
  /\ compression \in Option(CompressConfig)
  /\ encryption \in Option(EncryptConfig)
  /\ encoder = Waiting
  /\ decoder = Waiting

BuildEncoder ==
  /\ encoder' = build_encoder(compression, encryption)
  /\ UNCHANGED <<compression, encryption, decoder>>

BuildDecoder ==
  /\ decoder' = build_decoder(compression, encryption)
  /\ UNCHANGED <<compression, encryption, encoder>>

ConfigNext == BuildEncoder \/ BuildDecoder

ConfigSpec == ConfigInit /\ [][ConfigNext]_configVars

------------------------------------------------------------------------------
(* What must hold.                                                          *)

Kinds(layers) == {x.kind : x \in layers}

\* Given one configuration, sink and source either both refuse it or both build:
\* then the decoder's layers are of the encoder's frame kinds, and the compressor
\* works at the level that was asked for, whatever is clamped on the way.
SidesFit ==
  encoder # Waiting /\ decoder # Waiting =>
    /\ encoder.status = decoder.status
    /\ encoder.status = "Ok" =>
         /\ Kinds(encoder.layers.compress) = Kinds(decoder.layers.compress)
         /\ Kinds(encoder.layers.encrypt) = Kinds(decoder.layers.encrypt)
         /\ {x.level : x \in encoder.layers.compress} = {x.level : x \in compression}

\* codec.rs:77: the levels are 0..=9 for gzip and 0..=22 for zstd.  A level outside
\* them is thus not accepted.
DocumentedLevels ==
  encoder.status = "Ok" =>
    \A c \in compression : c.level \in 0..(IF c.algo = "Gzip" THEN 9 ELSE 22)

==============================================================================
