--------------------------- MODULE MCCodecEncoder ----------------------------
(* CodecEncoder with every layering a sink can be built with, and one key.  *)
EXTENDS CodecEncoder

MCConfigs ==
  [compress : CompressionAlgo \cup {None}, encrypt : Cipher \cup {None}, key : Keys]

==============================================================================
