\* What ndjson_to_record_batch's comment says of values that do not convert.
SPECIFICATION Spec
CHECK_DEADLOCK FALSE
CONSTANTS
  IntLimit = 512
  Kilo = 6
  SecLimit = 4
  Precision = 128
  Infinite = 65536
  Scale = 2
  Schemas <- MCSchemas
  Inputs <- MCInputs
INVARIANTS
  UnconvertibleIsError
