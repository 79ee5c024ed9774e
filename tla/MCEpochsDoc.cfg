\* What the comments of the epochs say of a number's unit.
SPECIFICATION Spec
CHECK_DEADLOCK FALSE
CONSTANTS
  IntLimit = 512
  Kilo = 6
  SecLimit = 4
  Precision = 128
  Infinite = 65536
  Scale = 2
  Schemas <- MCSchemas
  Inputs <- MCInputs
INVARIANTS
  UnitByWidth
