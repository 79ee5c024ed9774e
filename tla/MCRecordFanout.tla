--------------------------- MODULE MCRecordFanout ----------------------------
(* RecordFanout with four text sinks, two of which inject a name, one has it  *)
(* disabled and one has the empty name, an Arrow sink, and batches of up to   *)
(* two records that differ in their fields, repeat a name, or carry the       *)
(* injected name already.                                                     *)
EXTENDS RecordFanout, TLC

F(name, type, value) == [name |-> name, type |-> type, value |-> value]
A == F("a", "Chars", "x")
B == F("b", "Int", "1")

\* An ignored field in front of others; a column of another type than there, two
\* fields of one name, and a name that was injected before.
First  == <<F("j", "Ignore", ""), B, A>>
Second == <<F("b", "Chars", "y"), A, F("a", "Int", "2"), F("wp_oml_name", "Chars", "old")>>

MCInputs == {<<>>, <<<<A>>>>, <<First, Second>>}
MCColumns == <<"a", "wp_oml_name">>

MCMetaOf ==
  "file" :> [oml_name |-> {"f"}, disabled |-> {"oml_name"}] @@
  "tcp" :> [oml_name |-> {"t"}, disabled |-> {}] @@
  "syslog" :> [oml_name |-> {"s"}, disabled |-> {"wp_oml_name"}] @@
  "http" :> [oml_name |-> {""}, disabled |-> {}]

==============================================================================
