\* Blocks of 2 bytes and inputs of up to 5: an encode may fill no block, one or
\* several, and leave a rest or none.
SPECIFICATION Spec
CONSTANTS
  Keys = {k1}
  PackedLen = 3
  BlockSize = 2
  MaxInput = 5
  MaxFed = 7
  Configs <- MCConfigs
INVARIANTS
  TypeOK
  WireOrdered
  SealedBodiesWhole
  GaplessWhileIntact
  FinishedIsComplete
  BufferBounded
  BlocksBounded
  NonceUnique
  StatsMatchWire
PROPERTIES
  OkCallLosesNothing
  FailedFlushLosesOneBlock
  FailedCallSealsNothing
