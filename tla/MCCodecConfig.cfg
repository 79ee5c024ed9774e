\* Every configuration, the two sides built in either order.
SPECIFICATION ConfigSpec
CONSTANTS
  Keys = {k1}
  PackedLen = 3
  Levels <- MCLevels
  KeyLens <- MCKeyLens
INVARIANTS
  SidesFit
