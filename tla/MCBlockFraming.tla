--------------------------- MODULE MCBlockFraming ---------------------------
(* BlockFraming with a length field of four bits: payloads of up to 15      *)
(* bytes.  One of the payloads is a whole frame.                            *)
EXTENDS BlockFraming

MCPayloads ==
  {<<>>, Block(Expected, <<>>), [i \in 1..15 |-> 7], [i \in 1..16 |-> 7]}

==============================================================================
