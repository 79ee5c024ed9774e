\* The levels the comment of CompressConfig names against those that are accepted.
SPECIFICATION ConfigSpec
CONSTANTS
  Keys = {k1}
  PackedLen = 3
  Levels <- MCLevels
  KeyLens <- MCKeyLens
INVARIANTS
  DocumentedLevels
