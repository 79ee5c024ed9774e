\* Any configuration on either side.
SPECIFICATION PipeSpec
CONSTANTS
  k1 = k1
  k2 = k2
  Keys = {k1, k2}
  PackedLen = 3
  BlockSize = 2
  MaxInput = 3
  MaxFed = 3
  MaxRead = 2
  Matched = FALSE
  Configs <- MixedConfigs
INVARIANTS
  PlainOnlyIfAgreed
PROPERTIES
  MismatchIsRefused
