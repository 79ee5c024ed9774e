---------------------------- MODULE RecordFanout -----------------------------
(***************************************************************************)
(* One parsed batch handed to several sinks.  Records are shared: an Arc   *)
(* is an index into the heap, and every sink holds a list of them.  Text   *)
(* sinks run inject_oml_name (batch.rs) on their list and write what it    *)
(* returns; Arrow sinks make a RecordBatch of theirs, with a schema taken  *)
(* from the first record or from a list of names (arrow/schema.rs), by     *)
(* data_records_to_batch (arrow/record.rs).  A sink may hand its list on,  *)
(* as a rescue or a router does, to one that has not begun.                *)
(*                                                                         *)
(* wp_arrow's encode_records fills a column, looked up in every record by  *)
(* name: the first field of that name, or null.                            *)
(***************************************************************************)
EXTENDS Naturals, Sequences, FiniteSets

SE == INSTANCE SequencesExt

CONSTANTS TextSinks, ArrowSinks,
          MetaOf,     \* the BatchMeta each text sink is given
          Inputs,     \* the batches that may be parsed
          Columns     \* the names an Arrow sink may be configured with

VARIABLES
  records,   \* the batch as it was parsed
  heap,      \* the records there are
  data,      \* each sink's list
  stage,     \* how far each sink is
  path,      \* the text sinks whose injection a sink's list went through
  written    \* what each sink made of its list

vars == <<records, heap, data, stage, path, written>>

Sinks == TextSinks \cup ArrowSinks

Field == [name : STRING, type : {"Chars", "Int", "Ignore"}, value : STRING]
\* oml_name is an Option: no name or one.
Meta  == {m \in [oml_name : SUBSET STRING, disabled : SUBSET STRING] :
            \A a, b \in m.oml_name : a = b}

ASSUME FanoutAssumption ==
  /\ Inputs \subseteq Seq(Seq(Field)) /\ Columns \in Seq(STRING)
  /\ MetaOf \in [TextSinks -> Meta]
  /\ TextSinks \cap ArrowSinks = {}

------------------------------------------------------------------------------
(* batch.rs.                                                                *)

\* Variant: the outputs that keep a name off a frame's tag are tested.
UsableAsTag(meta) ==
  {name \in meta.oml_name : name # "" /\ {"tag", "oml_name"} \cap meta.disabled = {}}

\* The name that is injected, if there is one that is not empty or disabled.
Usable(meta) == {name \in meta.oml_name : name # "" /\ "wp_oml_name" \notin meta.disabled}

NameFields(meta) ==
  IF Usable(meta) = {} THEN <<>>
  ELSE <<[name |-> "wp_oml_name", type |-> "Chars",
          value |-> CHOOSE n \in Usable(meta) : TRUE]>>

\* The heap and the list after a call: every record is cloned, the clone gets the
\* field.
inject_oml_name(meta, arcs) ==
  IF Usable(meta) = {} THEN [heap |-> heap, data |-> arcs]
  ELSE [heap |-> heap \o [i \in 1..Len(arcs) |-> heap[arcs[i]] \o NameFields(meta)],
        data |-> [i \in 1..Len(arcs) |-> Len(heap) + i]]

------------------------------------------------------------------------------
(* arrow/schema.rs and arrow/record.rs.                                     *)

wp_type_to_arrow(type) == IF type = "Int" THEN "Int64" ELSE "Utf8"

Column(name, type) == [name |-> name, type |-> type]

infer_arrow_schema(names) == [i \in 1..Len(names) |-> Column(names[i], "Utf8")]

\* The fields that are not ignored.
Kept(record) ==
  SE!FlattenSeq([i \in DOMAIN record |->
    IF record[i].type = "Ignore" THEN <<>> ELSE <<record[i]>>])

\* Variant: the types are taken before the ignored fields are filtered out.
InferSchemaShifted(record) ==
  [i \in 1..Len(Kept(record)) |->
    Column(Kept(record)[i].name, wp_type_to_arrow(record[i].type))]

infer_schema_from_record(record) ==
  [i \in 1..Len(Kept(record)) |->
    Column(Kept(record)[i].name, wp_type_to_arrow(Kept(record)[i].type))]

\* The field that fills column c, if there is one.
FieldFor(record, schema, c) ==
  {record[k] : k \in {k \in DOMAIN record :
     /\ record[k].name = schema[c].name
     /\ \A j \in 1..(k - 1) : record[j].name # schema[c].name}}

\* A text column takes every value, the others those of their type.
Suits(field, column) ==
  field.type # "Ignore" /\ column.type \in {"Utf8", wp_type_to_arrow(field.type)}

\* The cells for which it is up to wp_arrow to convert the value or to make a null.
Doubtful(rows, schema) ==
  {rc \in (DOMAIN rows) \X (DOMAIN schema) :
     \E f \in FieldFor(rows[rc[1]], schema, rc[2]) : ~Suits(f, schema[rc[2]])}

\* The batches that may come of it, a row a record; a null is {}.
data_records_to_batch(rows, schema) ==
  {[schema |-> schema,
    cells |-> [r \in DOMAIN rows |-> [c \in DOMAIN schema |->
      IF <<r, c>> \in refused THEN {} ELSE {f.value : f \in FieldFor(rows[r], schema, c)}]]] :
   refused \in SUBSET Doubtful(rows, schema)}

data_record_to_batch(row, schema) == data_records_to_batch(<<row>>, schema)

------------------------------------------------------------------------------
Init ==
  /\ records \in Inputs
  /\ heap = records
  /\ data = [s \in Sinks |-> [i \in DOMAIN records |-> i]]
  /\ stage = [s \in Sinks |-> "given"]
  /\ path = [s \in Sinks |-> <<>>]
  /\ written = [s \in Sinks |-> <<>>]

Inject(s) ==
  LET r == inject_oml_name(MetaOf[s], data[s]) IN
  /\ stage[s] = "given"
  /\ heap' = r.heap
  /\ data' = [data EXCEPT ![s] = r.data]
  /\ stage' = [stage EXCEPT ![s] = "injected"]
  /\ path' = [path EXCEPT ![s] = Append(@, s)]
  /\ UNCHANGED <<records, written>>

Held(s) == [i \in DOMAIN data[s] |-> heap[data[s][i]]]

Finish(s, output) ==
  /\ written' = [written EXCEPT ![s] = output]
  /\ stage' = [stage EXCEPT ![s] = "done"]
  /\ UNCHANGED <<records, heap, data, path>>

WriteLines(s) == stage[s] = "injected" /\ Finish(s, Held(s))

\* One batch, with the columns of the first record or of the sink's configuration.
EncodeAll(s) ==
  /\ stage[s] = "given"
  /\ \E schema \in {infer_arrow_schema(Columns)} \cup
                   {infer_schema_from_record(Held(s)[i]) : i \in {1} \cap DOMAIN data[s]} :
       \E batch \in data_records_to_batch(Held(s), schema) : Finish(s, <<batch>>)

\* A batch a record, each with its own columns.
EncodeEach(s) ==
  LET Made(i) == data_record_to_batch(Held(s)[i], infer_schema_from_record(Held(s)[i])) IN
  /\ stage[s] = "given"
  /\ \E batches \in [DOMAIN data[s] -> UNION {Made(i) : i \in DOMAIN data[s]}] :
       /\ \A i \in DOMAIN data[s] : batches[i] \in Made(i)
       /\ Finish(s, batches)

\* encode_records returned Err: the sink reports it and writes nothing.
EncodeFails(s) ==
  /\ stage[s] = "given"
  /\ stage' = [stage EXCEPT ![s] = "failed"]
  /\ UNCHANGED <<records, heap, data, path, written>>

\* s passes its list on to t.
HandOn(s, t) ==
  /\ s # t /\ stage[s] # "given" /\ stage[t] = "given"
  /\ path[t] = <<>>
  /\ data' = [data EXCEPT ![t] = data[s]]
  /\ path' = [path EXCEPT ![t] = path[s]]
  /\ UNCHANGED <<records, heap, stage, written>>

Next ==
  \/ \E s \in TextSinks : Inject(s) \/ WriteLines(s)
  \/ \E s \in ArrowSinks : EncodeAll(s) \/ EncodeEach(s) \/ EncodeFails(s)
  \/ \E s, t \in Sinks : HandOn(s, t)

Spec == Init /\ [][Next]_vars

------------------------------------------------------------------------------
(* What must hold.                                                          *)

\* What a text sink adds to a record: its name, if it has one that says something and
\* the output "wp_oml_name" is not switched off.
Mark(s) ==
  IF MetaOf[s].oml_name \in {{}, {""}} \/ "wp_oml_name" \in MetaOf[s].disabled THEN <<>>
  ELSE <<[name |-> "wp_oml_name", type |-> "Chars",
          value |-> CHOOSE n \in MetaOf[s].oml_name : TRUE]>>

\* The parsed records with the marks of the sinks a list went through.
Expected(s) ==
  LET names == SE!FlattenSeq([k \in DOMAIN path[s] |-> Mark(path[s][k])]) IN
  [i \in DOMAIN records |-> records[i] \o names]

\* A text sink writes the parsed records with its own name behind the last field, or
\* unchanged where its BatchMeta has no name, an empty one or wp_oml_name disabled;
\* another sink's name is there only if that sink handed its list on.  (A record that
\* was injected before then has two fields of the one name.)
OwnNameOnly ==
  \A s \in Sinks :
    /\ Held(s) = Expected(s)
    /\ s \in TextSinks /\ stage[s] = "done" => written[s] = Expected(s)

\* The batch and the row of it a sink made of record i.
Batch(s, i) == IF Len(written[s]) = 1 THEN written[s][1] ELSE written[s][i]
Row(s, i) == Batch(s, i).cells[IF Len(Batch(s, i).cells) = 1 THEN 1 ELSE i]

Encoded == {s \in ArrowSinks : stage[s] = "done"}

\* A value that an Ok encoding leaves out is an ignored field's, or has a field of
\* that name in front of it; or the configured columns are without the name; or the
\* first record, whose fields give all records their columns, does not have it or
\* has it with another type.
ValueLossHasCause ==
  \A s \in Encoded : \A i \in DOMAIN records : \A k \in DOMAIN Expected(s)[i] :
    LET f     == Expected(s)[i][k]
        first == Expected(s)[IF Len(written[s]) = 1 THEN 1 ELSE i]
        batch == Batch(s, i)
    IN \/ \E c \in DOMAIN batch.schema : batch.schema[c].name = f.name /\ Row(s, i)[c] = {f.value}
       \/ f.type = "Ignore"
       \/ \E j \in 1..(k - 1) : Expected(s)[i][j].name = f.name
       \/ batch.schema = infer_arrow_schema(Columns) /\ f.name \notin SE!ToSet(Columns)
       \/ batch.schema # infer_arrow_schema(Columns) /\ ~\E j \in DOMAIN first :
            first[j].name = f.name /\ first[j].type = f.type

==============================================================================
