\* Blocks of 2 bytes, inputs of up to 3: a repeated input finds bytes of an
\* earlier one, or of its own first offer, in the buffer.
SPECIFICATION RetrySpec
CONSTANTS
  Keys = {k1}
  PackedLen = 3
  BlockSize = 2
  MaxInput = 3
  MaxFed = 7
  Configs <- MCConfigs
INVARIANTS
  LostOnlyIfBuffered
  TwiceOnlyIfReused
