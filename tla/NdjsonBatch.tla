----------------------------- MODULE NdjsonBatch -----------------------------
(***************************************************************************)
(* ndjson_to_record_batch (ndjson.rs), one call, a line a step: the lines  *)
(* are taken apart into columns keyed by field name, the columns become    *)
(* arrays, and the arrays a RecordBatch.                                   *)
(*                                                                         *)
(* RecordBatch::try_new is the arrow crate's: it wants a column, columns   *)
(* of one length, the schema's types, and no null in a column that is not  *)
(* nullable.                                                               *)
(***************************************************************************)
EXTENDS EpochNanos, FiniteSets

CONSTANTS Schemas,   \* the schemas a call may be given
          Inputs     \* the sequences of lines a call may be given

VARIABLES
  schema,    \* the fields, in order
  lines,     \* what each line says: whether it is a JSON object, and its fields
  line,      \* the line to be read next
  columns,   \* the values read so far, by field name
  result     \* what the call returned

vars == <<schema, lines, line, columns, result>>

DataType == {"Utf8", "LargeUtf8", "Int64", "Float64", "Boolean", "Timestamp", "Other"}
Field == [name : STRING, type : DataType, nullable : BOOLEAN]

ASSUME SchemasAssumption == Schemas \subseteq Seq(Field)

\* A line's object gives every name in the schemas a value or none.
Names == UNION {{s[i].name : i \in 1..Len(s)} : s \in Schemas}
Line == [valid : BOOLEAN, object : [Names -> SUBSET Value]]

ASSUME InputsAssumption == Inputs \subseteq Seq(Line)

\* The fields of one name share one column.
Multiplicity(name) == Cardinality({i \in 1..Len(schema) : schema[i].name = name})

Running == result.status = "running"
Err(why) == [status |-> "Err", why |-> why, batch |-> <<>>]
Done(status, batch) == [status |-> status, why |-> "", batch |-> batch]

------------------------------------------------------------------------------
(* Cells and arrays.                                                        *)

\* What build_array makes of one value; None is a null cell.
Cell(type, v) ==
  CASE type \in {"Utf8", "LargeUtf8"} -> IF v.type = "Null" THEN None ELSE Some(v.text)
    [] type = "Int64"     -> IF v.type \in {"Number", "String"} THEN v.int ELSE None
    [] type = "Float64"   -> IF v.type \in {"Number", "String"} THEN v.float ELSE None
    [] type = "Boolean"   -> IF v.type \in {"Bool", "String"} THEN v.bool ELSE None
    [] type = "Timestamp" -> timestamp_value_nanos(v)

\* The arrow type of the array build_array returns, for the types it supports.
ArrayType(type) == IF type = "LargeUtf8" THEN "Utf8" ELSE type

\* Variant: a value that makes no cell is left out (filter_map for map).
BuildPresent(field, values) ==
  LET made == SelectSeq([r \in 1..Len(values) |-> Cell(field.type, values[r])],
                        LAMBDA cell : cell # None)
  IN [type |-> ArrayType(field.type), cells |-> made]

build_array(field, values) ==
  [type |-> ArrayType(field.type), cells |-> [r \in 1..Len(values) |-> Cell(field.type, values[r])]]

\* RecordBatch::try_new.
Accepts(fields, arrays) ==
  /\ fields # <<>>
  /\ \A i \in 1..Len(fields) :
       /\ Len(arrays[i].cells) = Len(arrays[1].cells)
       /\ arrays[i].type = fields[i].type
       /\ fields[i].nullable \/ \A r \in 1..Len(arrays[i].cells) : arrays[i].cells[r] # None

------------------------------------------------------------------------------
Init ==
  /\ schema \in Schemas
  /\ lines \in Inputs
  /\ line = 1
  /\ columns = [name \in {schema[i].name : i \in 1..Len(schema)} |-> <<>>]
  /\ result = Done("running", <<>>)

ReturnNone ==
  /\ Running
  /\ lines = <<>>
  /\ result' = Done("None", <<>>)
  /\ UNCHANGED <<schema, lines, line, columns>>

\* Variant: a field the line does not have is passed over.
PushPresent(name, object) ==
  [i \in 1..(IF object[name] = None THEN 0 ELSE Multiplicity(name)) |->
     CHOOSE v \in object[name] : TRUE]

\* What one line adds to a column: its value, or null, once for every field.
Pushed(name, object) ==
  [i \in 1..Multiplicity(name) |-> CHOOSE v \in Else(object[name], Some(NullValue)) : TRUE]

ParseLine ==
  /\ Running
  /\ line <= Len(lines)
  /\ lines[line].valid
  /\ columns' = [name \in DOMAIN columns |->
                   columns[name] \o Pushed(name, lines[line].object)]
  /\ line' = line + 1
  /\ UNCHANGED <<schema, lines, result>>

RejectLine ==
  /\ Running
  /\ line <= Len(lines)
  /\ ~lines[line].valid
  /\ result' = Err("invalid JSON")
  /\ UNCHANGED <<schema, lines, line, columns>>

Build ==
  LET arrays == [i \in 1..Len(schema) |-> build_array(schema[i], columns[schema[i].name])] IN
  /\ Running
  /\ lines # <<>> /\ line > Len(lines)
  /\ result' = IF \E i \in 1..Len(schema) : schema[i].type = "Other"
               THEN Err("unsupported")
               ELSE IF Accepts(schema, arrays)
               THEN Done("Ok", [i \in 1..Len(schema) |-> arrays[i].cells])
               ELSE Err("arrow")
  /\ UNCHANGED <<schema, lines, line, columns>>

Next == ReturnNone \/ ParseLine \/ RejectLine \/ Build

Spec == Init /\ [][Next]_vars

------------------------------------------------------------------------------
(* What must hold.                                                          *)

\* The value a line has for a field.
ValueOf(l, name) == CHOOSE v \in Else(l.object[name], Some(NullValue)) : TRUE

\* However many lines were read and whatever they lack, every column has as many
\* values as the others, counted by the fields that share it.
ColumnsInStep ==
  \A name \in DOMAIN columns : Len(columns[name]) = (line - 1) * Multiplicity(name)

\* A batch has a row for every line, and cell r of a column is made of what line r
\* has under the column's name, whatever the other lines and columns are.  Fields
\* that share a name stretch this: a batch is then k rows a line, and only if all
\* names are shared by k fields.
RowPerLine ==
  result.status = "Ok" =>
    \A i \in 1..Len(schema) :
      LET k == Multiplicity(schema[1].name)
          cells == result.batch[i]
      IN /\ Multiplicity(schema[i].name) = k
         /\ Len(cells) = k * Len(lines)
         /\ \A r \in 1..Len(cells) :
              cells[r] = Cell(schema[i].type,
                              ValueOf(lines[(r - 1) \div k + 1], schema[i].name))

\* A field that makes every batch fail: a type that is not supported, or is in
\* name only (build_array answers LargeUtf8 with a StringArray, which is Utf8).
Unbuildable(field) == field.type \in {"LargeUtf8", "Other"}

\* A line that makes the whole batch fail.
Spoils(l) ==
  \/ ~l.valid
  \/ \E i \in 1..Len(schema) :
       ~schema[i].nullable /\ Cell(schema[i].type, ValueOf(l, schema[i].name)) = None

\* None is returned for no lines and for nothing else; Err has one of four causes,
\* and any of them is enough: a schema that cannot be met, fields that share names
\* unevenly, a line that is not an object, a null where none may be.
OutcomeHasCause ==
  ~Running =>
    /\ result.status = "None" <=> lines = <<>>
    /\ result.status = "Err" <=>
         /\ lines # <<>>
         /\ \/ schema = <<>>
            \/ \E i \in 1..Len(schema) : Unbuildable(schema[i])
            \/ \E i, j \in 1..Len(schema) :
                 Multiplicity(schema[i].name) # Multiplicity(schema[j].name)
            \/ \E r \in 1..Len(lines) : Spoils(lines[r])

\* ndjson.rs:17-19: a field value that cannot be converted to the expected type is an
\* error.  A batch thus has a null only where the line has a null or nothing.
UnconvertibleIsError ==
  result.status = "Ok" =>
    \A i \in 1..Len(schema) : \A r \in 1..Len(lines) :
      Len(result.batch[i]) = Len(lines) /\ result.batch[i][r] = None
        => ValueOf(lines[r], schema[i].name).type = "Null"

------------------------------------------------------------------------------
(* Timestamps.                                                              *)

\* The number a value stands for, in units of 1/Scale, and its nanoseconds.
Numeric(v) == v.instant = None /\ v.float # None /\ v.type \in {"Number", "String"}
Amount(v) == CHOOSE x \in Else({n * Scale : n \in v.int}, v.float) : TRUE
Exact(v) == Amount(v) * epoch_unit_multiplier(Saturate(Abs(Amount(v)) \div Scale))

TimestampCells(i) ==
  IF schema[i].type = "Timestamp" /\ result.status = "Ok" /\ Multiplicity(schema[i].name) = 1
  THEN {r \in 1..Len(lines) : Numeric(ValueOf(lines[r], schema[i].name))}
  ELSE {}

\* The float nearest to an integer may be a number of the next unit: 10^16 - 1, the
\* largest number of microseconds, is 10^16 as a float.
SameUnit(v) ==
  \A x \in v.float : epoch_unit_multiplier(Saturate(Abs(x) \div Scale))
                       = epoch_unit_multiplier(Saturate(Abs(Amount(v)) \div Scale))

\* As near as two roundings to floats and two to integers may come.
Near(x, y) == Abs(x - y) <= 2 * Spacing(y) + 2 * Scale

\* A numeric timestamp becomes its product with the unit's multiplier: exactly so
\* when it is an integer and the product fits, and otherwise within the precision
\* of a float, unless the float is of another unit.  It is null only if the product
\* does not fit.  (The float path runs after the integer path has found an overflow,
\* and its test lets a product through that rounds to the largest i64: the cell is
\* then that, and not null.)
InstantNearExact ==
  \A i \in 1..Len(schema) : \A r \in TimestampCells(i) :
    LET v    == ValueOf(lines[r], schema[i].name)
        cell == result.batch[i][r]
    IN /\ v.int # None /\ Exact(v) \div Scale \in I64 => cell = Some(Exact(v) \div Scale)
       /\ SameUnit(v) => \A n \in cell : Near(n * Scale, Exact(v))
       /\ cell = None => Abs(Exact(v)) + Spacing(Exact(v)) >= IntLimit * Scale

\* ndjson.rs:58-61: the unit of a numeric timestamp is recognized by its digit width.
\* The nanoseconds of an integer are then its own unit's, or none.
UnitByWidth ==
  \A i \in 1..Len(schema) : \A r \in TimestampCells(i) :
    LET v == ValueOf(lines[r], schema[i].name) IN
    v.int # None => \A n \in result.batch[i][r] : Near(n * Scale, Exact(v))

\* Products that are both exact or both rounded, or too far beyond the limit for
\* rounding to bring them back.
Alike(v, w) ==
  \/ Abs(Exact(v)) > IntLimit * Scale + 2 * Spacing(Exact(v))
  \/ /\ Exact(v) \in -(IntLimit * Scale) .. (IntLimit - 1) * Scale
     /\ v.int = None <=> w.int = None

\* One instant in two units, from the first that takes SecLimit of the smaller unit
\* to say, becomes one timestamp or one null: seconds and milliseconds, milliseconds
\* and microseconds, microseconds and nanoseconds, at every boundary of the ranges.
\* (Just above the largest i64 the units differ: see InstantNearExact.)
UnitsAgree ==
  \A i \in 1..Len(schema) : \A r, q \in TimestampCells(i) :
    LET v == ValueOf(lines[r], schema[i].name)
        w == ValueOf(lines[q], schema[i].name)
    IN /\ Amount(w) = Amount(v) * Kilo /\ Amount(v) % Scale = 0
       /\ Abs(Amount(w)) >= SecLimit * Scale
       /\ Abs(Amount(v)) < SecLimit * Kilo * Kilo * Scale
       /\ SameUnit(v) /\ SameUnit(w) /\ Alike(v, w)
       => result.batch[i][r] = result.batch[i][q]

==============================================================================
