---------------------------- MODULE MCCodecConfig ----------------------------
(* CodecConfig with the levels and key lengths at and around every limit.     *)
EXTENDS CodecConfig

MCLevels == {-8, -7, -1, 0, 3, 9, 10, 22, 23}
MCKeyLens == {0, 15, 16, 17, 31, 32, 33}

==============================================================================
