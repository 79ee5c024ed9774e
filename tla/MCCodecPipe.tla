----------------------------- MODULE MCCodecPipe -----------------------------
(* CodecPipe: every layering, and for the sources that are configured       *)
(* differently, layerings that differ in each part of a configuration.      *)
EXTENDS CodecPipe

CONSTANTS k1, k2

MCConfigs ==
  [compress : CompressionAlgo \cup {None}, encrypt : Cipher \cup {None}, key : {k1}]

Cfg(compress, encrypt, key) == [compress |-> compress, encrypt |-> encrypt, key |-> key]

MixedConfigs ==
  {Cfg(None, None, k1), Cfg(Zstd, None, k1), Cfg("Gzip", None, k1),
   Cfg(None, "Sm4Gcm", k1), Cfg(None, "Aes256Gcm", k1),
   Cfg(None, "Aes256Gcm", k2), Cfg(Zstd, "Aes256Gcm", k1),
   Cfg("Gzip", "Aes256Gcm", k1), Cfg(Zstd, "Aes256Gcm", k2)}

==============================================================================
