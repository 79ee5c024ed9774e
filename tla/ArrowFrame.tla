----------------------------- MODULE ArrowFrame ------------------------------
(***************************************************************************)
(* arrow/encode.rs, arrow/decode.rs and arrow/format.rs: payloads that are *)
(* a bare Arrow IPC stream, or a frame of a tag and such a stream.         *)
(*                                                                         *)
(* A payload is a sequence of tokens.  The length in front of a tag, and   *)
(* the continuation marker in front of a message, are Width bytes of Base  *)
(* values (4 of 256), so that one may be taken for the other; a letter of  *)
(* a tag, a line of text and what follows a marker are a token each.       *)
(* Batches and schemas are numbered from 1; 0 is a batch read with another *)
(* schema than its own.                                                    *)
(*                                                                         *)
(* The IPC stream is the arrow crate's.  Its reader wants a marker and a   *)
(* message, a schema first; it stops without an error at the end-of-stream *)
(* message, or where fewer bytes are left than a marker has.               *)
(*                                                                         *)
(* A definition under "Variant:" is what a likely mistake in the code      *)
(* below it would make of that definition; no behaviour uses it.           *)
(***************************************************************************)
EXTENDS Integers, Sequences

SE == INSTANCE SequencesExt

CONSTANTS Base, Width,   \* 256 and 4
          SchemaOf       \* the schema of each batch

ASSUME FrameAssumption ==
  Base \in Nat \ {0, 1} /\ Width \in Nat \ {0} /\ SchemaOf \in Seq(Nat \ {0})

\* The powers of Base that the length field needs.
Power[k \in 0..Width] == IF k = 0 THEN 1 ELSE Base * Power[k - 1]

Batches == DOMAIN SchemaOf
Byte(v) == [what |-> "byte", val |-> v]
Letter(tag) == [what |-> "letter", val |-> tag.name]
Text(batch) == [what |-> "text", val |-> batch]

Ok(batches) == [status |-> "Ok", batches |-> batches]
Err == [status |-> "Err", batches |-> <<>>]

------------------------------------------------------------------------------
(* WireFormat.  A data_format is a set of at most one string: none, or one. *)

\* Variant: the bare stream goes by another name than the sink's.
FromOtherName(value) ==
  IF value = {"arrow_framed"} THEN "ArrowFramed"
  ELSE IF value = {"arrow"} THEN "ArrowStream"
  ELSE "Ndjson"

from_data_format(value) ==
  IF value = {"arrow_framed"} THEN "ArrowFramed"
  ELSE IF value = {"arrow_ipc"} THEN "ArrowStream"
  ELSE "Ndjson"

parse_strict(value) ==
  IF value \in {{}, {"ndjson"}} THEN {"Ndjson"}
  ELSE IF value = {"arrow_ipc"} THEN {"ArrowStream"}
  ELSE IF value = {"arrow_framed"} THEN {"ArrowFramed"}
  ELSE {}

is_arrow(format) == format \in {"ArrowStream", "ArrowFramed"}

------------------------------------------------------------------------------
(* Writing.                                                                 *)

Digits(n) == [i \in 1..Width |-> Byte((n \div Power[Width - i]) % Base)]
Marker == Digits(Power[Width] - 1)
Message(what, val) == Marker \o <<[what |-> what, val |-> val]>>

\* StreamWriter: the schema of the first batch, the batches, the end of the stream.
IpcStream(batches) ==
  Message("schema", SchemaOf[batches[1]])
  \o SE!FlattenSeq([i \in 1..Len(batches) |-> Message("batch", batches[i])])
  \o Message("eos", 0)

encode_batch_ipc_stream(batch) == IpcStream(<<batch>>)

\* Variant: to_le_bytes.
HeaderReversed(tag) == SE!Reverse(Digits(tag.len)) \o [i \in 1..tag.len |-> Letter(tag)]

\* tag_bytes.len() as u32 keeps the low digits of a length that needs more.
Header(tag) == Digits(tag.len) \o [i \in 1..tag.len |-> Letter(tag)]

encode_ipc_frame(tag, batch) == Header(tag) \o IpcStream(<<batch>>)

\* Variant: the loop writes the first batch over and over.
FrameMultiRepeating(tag, batches) ==
  IF batches = <<>> THEN Header(tag)
  ELSE Header(tag) \o IpcStream([i \in 1..Len(batches) |-> batches[1]])

encode_ipc_frame_multi(tag, batches) ==
  IF batches = <<>> THEN Header(tag) ELSE Header(tag) \o IpcStream(batches)

------------------------------------------------------------------------------
(* Reading.                                                                 *)

\* The byte in place of a token; a letter has a high code.
Code(token) == IF token.what = "byte" THEN token.val ELSE Base - 1

\* u32::from_be_bytes on the first Width tokens.
Number(payload) ==
  LET number[i \in 0..Width] ==
        IF i = 0 THEN 0 ELSE number[i - 1] * Base + Code(payload[i])
  IN number[Width]

\* The tokens from m to n, as far as they are there.
Slice(payload, m, n) == SubSeq(payload, m, IF n < Len(payload) THEN n ELSE Len(payload))

\* The k-th message of a stream, whole or torn.
At(payload, k) == Slice(payload, (k - 1) * (Width + 1) + 1, k * (Width + 1))

IsMessage(tokens) ==
  /\ Len(tokens) = Width + 1
  /\ SubSeq(tokens, 1, Width) = Marker
  /\ tokens[Width + 1].what \in {"schema", "batch", "eos"}

What(payload, k) == At(payload, k)[Width + 1].what
Val(payload, k)  == At(payload, k)[Width + 1].val

\* Where the reader stops: at the end-of-stream message or the first that is none.
Stop(payload) ==
  CHOOSE k \in 1..(Len(payload) + 1) :
    /\ ~IsMessage(At(payload, k)) \/ What(payload, k) = "eos"
    /\ \A j \in 1..(k - 1) : IsMessage(At(payload, j)) /\ What(payload, j) # "eos"

EndsThere(payload, k) == IsMessage(At(payload, k)) \/ Len(At(payload, k)) < Width

\* The batches before Stop.  One that is not of the stream's schema is read as if
\* it were, unless that fails.
Read(payload) ==
  [i \in 1..(Stop(payload) - 2) |->
     LET batch == Val(payload, i + 1) IN
     IF SchemaOf[batch] = Val(payload, 1) THEN batch ELSE 0]

HasSchema(payload) == IsMessage(At(payload, 1)) /\ What(payload, 1) = "schema"

\* Variant: the loop ends at an error instead of returning it.
IpcBatchesLenient(payload) ==
  IF HasSchema(payload) THEN {Ok(Read(payload))} ELSE {Err}

\* A set of results: reading a batch with another schema may be an error or not.
decode_arrow_ipc_batches(payload) ==
  IF ~HasSchema(payload) \/ ~EndsThere(payload, Stop(payload)) THEN {Err}
  ELSE {Ok(Read(payload))} \cup
       {Err : i \in {j \in DOMAIN Read(payload) : Read(payload)[j] = 0}}

\* Variant: ipc_start leaves the length field out.
FramedBatchesFromTag(payload) ==
  IF Len(payload) < Width \/ Number(payload) > Len(payload) THEN {Ok(<<>>)}
  ELSE decode_arrow_ipc_batches(SubSeq(payload, Number(payload) + 1, Len(payload)))

decode_arrow_framed_batches(payload) ==
  IF Len(payload) < Width \/ Width + Number(payload) > Len(payload) THEN {Ok(<<>>)}
  ELSE decode_arrow_ipc_batches(SubSeq(payload, Width + Number(payload) + 1, Len(payload)))

==============================================================================
