\* Every type with every kind of value, up to two lines.  An i64 of 10 bits, floats of
\* 7 digits, and units a factor of 6 apart: as in the code the largest numbers of
\* seconds, milliseconds and microseconds overflow, floats near the largest integer
\* lie more than a unit apart, and the largest number of microseconds is rounded up
\* to the first number of nanoseconds.
SPECIFICATION Spec
CHECK_DEADLOCK FALSE
CONSTANTS
  IntLimit = 512
  Kilo = 6
  SecLimit = 4
  Precision = 128
  Infinite = 65536
  Scale = 2
  Schemas <- MCSchemas
  Inputs <- MCInputs
INVARIANTS
  ColumnsInStep
  RowPerLine
  OutcomeHasCause
  InstantNearExact
  UnitsAgree
