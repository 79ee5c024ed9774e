\* Every order in which five sinks inject, write, encode and hand on one batch.
SPECIFICATION Spec
CHECK_DEADLOCK FALSE
CONSTANTS
  TextSinks = {"file", "tcp", "syslog", "http"}
  ArrowSinks = {"arrow"}
  MetaOf <- MCMetaOf
  Inputs <- MCInputs
  Columns <- MCColumns
INVARIANTS
  OwnNameOnly
  ValueLossHasCause
