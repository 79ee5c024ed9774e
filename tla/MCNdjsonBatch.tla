---------------------------- MODULE MCNdjsonBatch ----------------------------
(* NdjsonBatch with every type, missing and null fields, shared names and   *)
(* lines that are no objects; and, for the epochs, every integer, fractions *)
(* and the same instants in other units.                                    *)
EXTENDS NdjsonBatch

F(name, type, nullable) == [name |-> name, type |-> type, nullable |-> nullable]

Number(n, text) == [NullValue EXCEPT !.type = "Number", !.int = {n} \cap I64,
                                     !.float = {Float(n)}, !.text = text]
Fraction(x, text) == [NullValue EXCEPT !.type = "Number", !.float = {x}, !.text = text]
Digits(n, text) == [Number(n, text) EXCEPT !.type = "String"]
Word(text) == [NullValue EXCEPT !.type = "String", !.text = text]

MCValues ==
  {NullValue,
   [NullValue EXCEPT !.type = "Bool", !.bool = {TRUE}, !.text = "true"],
   Number(1, "1"),
   [Digits(1, "1") EXCEPT !.bool = {TRUE}],
   Fraction(Scale + 1, "1.5"),
   [Word("2026-01-01T00:00:00Z") EXCEPT !.instant = {7}],
   Word("abc"),
   [NullValue EXCEPT !.type = "Nested", !.text = "[]"]}

Object(a, b) == [valid |-> TRUE, object |-> [n \in {"a", "b"} |-> IF n = "a" THEN a ELSE b]]
At(v) == Object({v}, None)
NotAnObject == [valid |-> FALSE, object |-> [n \in {"a", "b"} |-> None]]

MCLines == {NotAnObject} \cup
  {Object(a, b) : a \in {None} \cup {{v} : v \in MCValues}, b \in {None, {Number(1, "1")}, {NullValue}}}

\* n as a number and n + 1/2; n and the same instant in the next smaller unit, both
\* as integers or both as text with a point.
Epochs ==
  {<<At(Number(n, "n")), At(Fraction(Rounded(n * Scale + 1), "n.5"))>> :
     n \in -IntLimit..(2 * IntLimit)}
  \cup {<<At(Number(n, "n")), At(Digits(n * Kilo, "nk"))>> :
     n \in -IntLimit..IntLimit}
  \cup {<<At(Fraction(Float(n), "n.0")), At(Fraction(Float(n * Kilo), "nk.0"))>> :
     n \in -IntLimit..IntLimit}
  \cup {<<At([Word("inf") EXCEPT !.float = {Infinite}]), At([Word("-inf") EXCEPT !.float = {-Infinite}])>>}

MCInputs == Epochs \cup {<<>>} \cup {<<l>> : l \in MCLines}
  \cup {<<l, m>> : l \in MCLines, m \in {NotAnObject, Object(None, None),
                                          Object({Number(1, "1")}, {Word("abc")})}}

MCSchemas ==
  {<<>>, <<F("a", "Utf8", TRUE), F("a", "Int64", TRUE)>>,
   <<F("a", "Utf8", TRUE), F("b", "Utf8", TRUE), F("a", "Utf8", TRUE)>>}
  \cup {<<F("a", type, nullable)>> : type \in DataType, nullable \in BOOLEAN}
  \cup {<<F("b", "Int64", nullable), F("a", type, TRUE)>> : type \in DataType, nullable \in BOOLEAN}

==============================================================================
