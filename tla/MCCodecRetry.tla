---------------------------- MODULE MCCodecRetry -----------------------------
(* CodecRetry with each layering once; which algorithm or cipher it is does *)
(* not matter to the encoder.                                               *)
EXTENDS CodecRetry

MCConfigs == [compress : {Zstd, None}, encrypt : {"Aes256Gcm", None}, key : Keys]

==============================================================================
