----------------------------- MODULE ArrowRoute ------------------------------
(***************************************************************************)
(* A sink and a source that carry record batches in payloads of the wire   *)
(* format each is configured with: the sink takes its data_format strictly *)
(* and fails to build on any other, the source falls back to ndjson.  The  *)
(* sink tags frames by resolve_frame_tag (batch.rs).  The carrier may cut  *)
(* a payload short, and may join two, as a source that reads from a file   *)
(* or a stream without boundaries gets them.                               *)
(*                                                                         *)
(* An encode function that returns Err leaves nothing behind: the buffer   *)
(* it writes to is its own.                                                *)
(***************************************************************************)
EXTENDS ArrowFrame

CONSTANTS DataFormats,   \* the values of data_format, sets of at most one string
          Metas,         \* what the batches' BatchMeta may say
          ConfigTag,     \* the sink's own tag
          Lists          \* the lists of batches the sink may be given

VARIABLES
  value,     \* the data_format of the sink and of the source
  meta,      \* the BatchMeta of the batches being sent
  sent,      \* the lists of batches in the payload
  payload,   \* the payload on its way
  cut,       \* it was cut short
  result     \* what the source's decode function returned

vars == <<value, meta, sent, payload, cut, result>>

Tag == [name : Nat, len : Nat]

\* At most one name, and the outputs that are disabled.
Meta == [oml_name : SUBSET Tag, disabled : SUBSET STRING]

ASSUME RouteAssumption ==
  /\ Metas \subseteq Meta /\ ConfigTag \in Tag
  /\ Lists \subseteq Seq(Batches)

\* A marker in place of a length says more than what a stream of one batch holds
\* behind it: 4 bytes of 256 values go up to 4 GiB.
ASSUME MarkerAssumption == Width + Power[Width] - 1 > 3 * (Width + 1)

sink   == CHOOSE format \in parse_strict(value.sink) : TRUE
source == from_data_format(value.source)

Waiting == [status |-> "none", batches |-> <<>>]

\* A name that is not empty goes before the sink's own tag, unless it is disabled.
resolve_frame_tag(m) ==
  LET names == {name \in m.oml_name : name.len > 0} IN
  IF {"tag", "oml_name"} \cap m.disabled # {} \/ names = {} THEN ConfigTag
  ELSE CHOOSE name \in names : TRUE

------------------------------------------------------------------------------
\* What the sink makes of a list; an Arrow stream payload carries one batch.
Encoded(batches, m) ==
  IF ~is_arrow(sink) THEN {[i \in 1..Len(batches) |-> Text(batches[i])]}
  ELSE IF sink = "ArrowStream"
  THEN {encode_batch_ipc_stream(b) : b \in {b \in Batches : batches = <<b>>}}
  ELSE {encode_ipc_frame_multi(resolve_frame_tag(m), batches)}
       \cup {encode_ipc_frame(resolve_frame_tag(m), b) : b \in {b \in Batches : batches = <<b>>}}

\* What the source makes of a payload; lines of text are ndjson.rs's.
Decoded ==
  IF source = "ArrowFramed" THEN decode_arrow_framed_batches(payload)
  ELSE IF source = "ArrowStream" THEN decode_arrow_ipc_batches(payload)
  ELSE IF \A i \in DOMAIN payload : payload[i].what = "text"
  THEN {Ok([i \in DOMAIN payload |-> payload[i].val])}
  ELSE {Err}

Init ==
  /\ value \in {v \in [sink : DataFormats, source : DataFormats] : parse_strict(v.sink) # {}}
  /\ meta \in Metas
  /\ sent = <<>>
  /\ payload = <<>>
  /\ cut = FALSE
  /\ result = Waiting

Send(batches) ==
  /\ sent = <<>>
  /\ \E m \in Metas : \E p \in Encoded(batches, m) : payload' = p /\ meta' = m
  /\ sent' = <<batches>>
  /\ UNCHANGED <<value, cut, result>>

\* The next payload follows with nothing in between.
Join(batches) ==
  /\ Len(sent) = 1 /\ ~cut /\ result = Waiting
  /\ \E p \in Encoded(batches, meta) : payload' = payload \o p
  /\ sent' = Append(sent, batches)
  /\ UNCHANGED <<value, meta, cut, result>>

Cut(n) ==
  /\ sent # <<>> /\ ~cut /\ result = Waiting
  /\ payload' = SubSeq(payload, 1, n)
  /\ cut' = TRUE
  /\ UNCHANGED <<value, meta, sent, result>>

Receive ==
  /\ sent # <<>> /\ result = Waiting
  /\ result' \in Decoded
  /\ UNCHANGED <<value, meta, sent, payload, cut>>

\* The next payload is on its own again.
Forget ==
  /\ result # Waiting
  /\ sent' = <<>> /\ payload' = <<>> /\ cut' = FALSE /\ result' = Waiting
  /\ UNCHANGED <<value, meta>>

Next ==
  \/ \E batches \in Lists : Send(batches) \/ Join(batches)
  \/ \E n \in 0..(Len(payload) - 1) : Cut(n)
  \/ Receive
  \/ Forget

Spec == Init /\ [][Next]_vars

------------------------------------------------------------------------------
(* What must hold.                                                          *)

Offered == SE!FlattenSeq(sent)
OneSchema(batches) == \A i \in DOMAIN batches : SchemaOf[batches[i]] = SchemaOf[batches[1]]

\* The frame starts with a tag whose length does not fit its field.
Wrapped == sink = "ArrowFramed" /\ resolve_frame_tag(meta).len >= Power[Width]

\* Where the IPC stream starts in a payload of the sink's, if it has one.
Front == IF sink = "ArrowFramed" THEN Width + resolve_frame_tag(meta).len ELSE 0

\* A message is there to its marker, but not as a whole.
Torn == Len(payload) > Front /\ (Len(payload) - Front) % (Width + 1) = Width

\* Whatever formats the two sides have and whatever became of the payload, an Ok
\* result starts as the offered batches do: nothing is made up, doubled, left out in
\* between or reordered.  (Lists of more than one schema are misread.)
NothingInvented ==
  result.status = "Ok" /\ (\A i \in DOMAIN sent : OneSchema(sent[i]))
  => SE!IsPrefix(result.batches, Offered)

\* A source that refuses a payload has a reason: it is of another format than the
\* sink's, the payload was cut, a frame has no batch or a batch of another schema
\* than the first, or its tag is too long.
ErrHasCause ==
  result.status = "Err" =>
    \/ source # sink
    \/ cut
    \/ sink = "ArrowFramed" /\ sent[1] = <<>>
    \/ ~OneSchema(sent[1])
    \/ Wrapped

\* The two sides are given one format: the same value, or none of the Arrow formats'
\* where the sink writes lines.
OneFormat ==
  \/ value.source = value.sink
  \/ /\ value.sink \in {{}, {"ndjson"}}
     /\ value.source \notin {{"arrow_ipc"}, {"arrow_framed"}}

\* Strict or with a fallback, the two readings of data_format fit: what a sink sends
\* in one payload that is not cut, or in several of lines, a source of the same format
\* gets to the last batch, unless a frame is empty or its tag too long, or a list has
\* two schemas.
OneFormatDelivers ==
  /\ result # Waiting /\ OneFormat
  /\ ~cut /\ ~Wrapped /\ sent[1] # <<>> /\ \A i \in DOMAIN sent : OneSchema(sent[i])
  /\ Len(sent) = 1 \/ value.sink \in {{}, {"ndjson"}}
  => result = Ok(Offered)

\* An Ok result from which batches are missing: the framed source takes a payload
\* of another format for a frame that is cut short, a payload ends before its first
\* marker or between two messages, or what follows the first stream goes unread.
\* A cut inside a message is never passed over.
LossHasCause ==
  result.status = "Ok" /\ Len(result.batches) < Len(Offered) =>
    \/ source = "ArrowFramed" /\ sink # "ArrowFramed"
    \/ Wrapped
    \/ Len(sent) = 2 /\ is_arrow(sink)
    \/ cut /\ ~(is_arrow(sink) /\ Torn)

\* The tag a router finds in front of a frame.
TagRead == Slice(payload, Width + 1, Width + Number(payload))

\* A frame that is not cut says, whatever follows the tag, the name its batches'
\* BatchMeta gives them, unless that name is empty or the tag or the name is
\* disabled: then the sink's own tag.  A tag whose length takes more than Width
\* digits is read too short.
TagReadBack ==
  sink = "ArrowFramed" /\ sent # <<>> /\ ~cut =>
    LET names == {name \in meta.oml_name : name.len > 0}
        usable == names # {} /\ "tag" \notin meta.disabled /\ "oml_name" \notin meta.disabled
    IN \E tag \in IF usable THEN names ELSE {ConfigTag} :
         IF Wrapped THEN Len(TagRead) < tag.len
         ELSE TagRead = [i \in 1..tag.len |-> Letter(tag)]

==============================================================================
