\* Sink and source share their configuration.
SPECIFICATION PipeSpec
CONSTANTS
  k1 = k1
  k2 = k2
  Keys = {k1, k2}
  PackedLen = 3
  BlockSize = 2
  MaxInput = 3
  MaxFed = 4
  MaxRead = 2
  Matched = TRUE
  Configs <- MCConfigs
INVARIANTS
  OutOrdered
  DamagedNeverDelivered
  RoundTrip
PROPERTIES
  DecodeDeliversItsInput
  ImplementsByteStream
