\* Two kinds of blocks, a length field of four binary digits.
SPECIFICATION Spec
CONSTANTS
  Base = 2
  Kinds = {"Gzip", "Sm4Gcm"}
  Expected = "Sm4Gcm"
  FlipTo = {0, 4}
  MaxBlocks = 3
  Payloads <- MCPayloads
INVARIANTS
  TypeOK
  TakesWhatWasPut
  VerdictIsRight
  AlterationContained
PROPERTIES
  IterationsAdvance
  DecodeReturns
\* The source stops after an Err or a torn input, the sink after MaxBlocks.
CHECK_DEADLOCK FALSE
