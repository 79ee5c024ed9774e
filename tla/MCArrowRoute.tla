---------------------------- MODULE MCArrowRoute -----------------------------
(* ArrowRoute with every pair of formats, tags that are empty, short and     *)
(* one too long for the length field, and lists of none, one and two batches *)
(* of one schema and of two.                                                 *)
EXTENDS ArrowRoute

MCSchemaOf == <<1, 1, 2>>
MCDataFormats == {{}, {"ndjson"}, {"arrow_ipc"}, {"arrow_framed"}, {"arrow"}}
MCConfigTag == [name |-> 1, len |-> 2]
Named(name, len) == [oml_name |-> {[name |-> name, len |-> len]}, disabled |-> {}]
MCMetas ==
  {[oml_name |-> {}, disabled |-> {}], Named(2, 0), Named(2, 1), Named(2, Power[Width]),
   [Named(2, 1) EXCEPT !.disabled = {"tag"}], [Named(2, 1) EXCEPT !.disabled = {"oml_name"}],
   [Named(2, 1) EXCEPT !.disabled = {"wp_oml_name"}]}
MCLists == {<<>>, <<1>>, <<1, 2>>, <<1, 3>>}

==============================================================================
