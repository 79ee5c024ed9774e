\* Length field and marker of 2 bytes of 4 values: lengths up to 15, a marker that
\* reads as a length past the end of a bare stream of one batch.
SPECIFICATION Spec
CONSTANTS
  Base = 4
  Width = 2
  SchemaOf <- MCSchemaOf
  DataFormats <- MCDataFormats
  Metas <- MCMetas
  ConfigTag <- MCConfigTag
  Lists <- MCLists
INVARIANTS
  NothingInvented
  ErrHasCause
  OneFormatDelivers
  LossHasCause
  TagReadBack
