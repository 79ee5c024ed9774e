# wp-connector-utils in TLA+

A verification development for `wp-connector-utils`: TLA+ models of the crate's
logic, TLC runs on small instances, and TLAPS proofs for every value of the
constants. Line numbers refer to the files under `src/`.

## 1. The system

The crate is a library. It has no threads, no timers and no persistent state of
its own; it is called by sinks and sources of other crates. What makes it hard
is state that lives across calls (the codec's encoder), calls that fail half way,
data that crosses a wire between two differently built halves, and conversions at
the edge of their ranges.

| Component | State | Operations | Talks to |
|---|---|---|---|
| Codec encoder (`codec.rs` 261-292, 411-447, 488-533, 591-602, 653-682) | compression buffer, two counters | `build_encoder`, `encode`, `finish`, `stats`, drop | the compressors, the random generator and the ciphers (external); the sink that owns it |
| Codec decoder (294-318, 449-482, 535-571, 604-609, 662-667, 684-696) | none between calls | `build_decoder`, `decode`, `finish` | decompressors and ciphers (external); the source that owns it |
| Block framing (160-224) | none | `put_block`, `take_block`, `FrameKind::from_u8` | both halves of the codec |
| Codec configuration (64-102, 577-589, 612-651) | none | `validate_compress_level`, `build_aead_cipher` | `build_encoder`, `build_decoder` |
| Arrow IPC framing (`arrow/encode.rs`, `arrow/decode.rs`) | none | `encode_batch_ipc_stream`, `encode_ipc_frame`, `encode_ipc_frame_multi`, `decode_arrow_ipc_batches`, `decode_arrow_framed_batches` | the arrow crate (external) |
| Wire formats (`arrow/format.rs`) | none | strict and lenient parse, predicates | connectors |
| Schema inference (`arrow/schema.rs`), `DataRecord` conversion (`arrow/record.rs`) | none | pure, forwarding to `wp_arrow` (external) | connectors |
| NDJSON (`ndjson.rs`) | columns, within one call | `ndjson_to_record_batch` and its cell conversions | connectors |
| Batch metadata (`batch.rs`) | none; records are shared through `Arc` | `inject_oml_name`, `resolve_frame_tag` | sinks |

How they interact: a sink builds an encoder, offers it bytes and sends what comes
out; a source reads whole blocks and feeds them to a decoder built, separately,
from its own configuration. `encode` pushes input through the compressor (which
cuts blocks of `COMPRESS_BLOCK_SIZE` and keeps the rest) and seals what came out
of it as one AEAD block. `decode` opens AEAD blocks and then decompresses the
blocks inside. Arrow framing, NDJSON and metadata are used beside the codec and
do not call it.

What is hard, and what makes each component correct:

- *Encoder.* Every `?` is an early return with part of the work done: a block is
  drained before it is compressed (272), the tail is taken before it is compressed
  (287), compressed blocks wait in a local buffer while the seal may fail
  (497-501). Correct means: nothing is reordered or repeated on the wire, an Ok
  call loses nothing, an Err call loses what the code's order of operations says
  and no more, memory stays bounded, counters agree with the wire and nonces
  never repeat.
- *Decoder.* A call may fail with output already appended (310, 474) or discard
  blocks it had opened (545). The two halves may be configured differently.
  Correct means: no altered byte is delivered as data, order is kept, an Ok call
  delivers exactly what it was given, a wrong configuration never yields data.
- *Framing.* Lengths at the edge of their width, zero lengths, progress of the
  parse loop, truncation anywhere.
- *Configuration.* Both halves accept the same configurations.
- *Arrow framing.* Truncated, joined and empty frames, the width of the tag length,
  sides that disagree about the format.
- *NDJSON.* Columns of equal length whatever the lines and the schema; unit
  inference and overflow of epochs.
- *Metadata, schemas, records.* Injection must not be seen by other holders of a
  record; the first record decides on the columns of all.

`PROJECT.json` lists the hazards at their lines.

## 2. Modules

| Module | Models |
|---|---|
| `CodecFrames` | what is on the wire: segments, sealed frames, and what it means that frames are ordered or tile a range |
| `CodecEncoder` | the sink's encoder: `Encode`, `Finish`, `Rebuild` |
| `CodecDecoder` | the source's decoder as functions: `TakeBlock`, `BlockDecode`, `AeadDecode`, `ChainDecode` |
| `CodecPipe` | encoder and decoder over a stream, with damage and differing configurations; EXTENDS the two |
| `BlockFraming` | the frames byte by byte: `put_block`, `take_block`, and the loop of `decode`, one iteration a step |
| `ByteStream` | the abstract specification: an ordered, at-most-once byte stream that is complete until something goes wrong |
| `CodecRetry` | `CodecEncoder` under an owner that offers an input again after an Err; EXTENDS it |
| `CodecConfig` | configurations, and what `build_encoder` and `build_decoder` make of them |
| `EpochNanos` | numbers, floats and units: from a JSON value to a timestamp |
| `NdjsonBatch` | one call of `ndjson_to_record_batch`, a line a step; EXTENDS `EpochNanos` |
| `ArrowFrame` | the formats, and the encode and decode functions of `arrow/`, as operators on tokens |
| `ArrowRoute` | a sink, a carrier and a source that use them, with `resolve_frame_tag`; EXTENDS `ArrowFrame` |
| `RecordFanout` | sinks that share the records of a batch: `inject_oml_name`, schema inference, conversion to a batch |
| `SequenceFacts` | lemmas the proofs share: induction over numbers and sequences, concatenation |
| `CodecEncoderProofs`, `CodecPipeProofs`, `CodecOwnerProofs`, `BlockFramingProofs`, `NdjsonBatchProofs`, `ArrowRouteProofs`, `RecordFanoutProofs` | lemmas and theorems; `CodecOwnerProofs` holds those of `CodecConfig` and `CodecRetry` |
| `MC...` | the constants of the runs |

### Abstraction

Bytes are identified by their position in the stream offered to `encode`, so the
compressor's buffer is an interval `[lo, hi)`, a compressed block is the interval
it was made from, and "lost", "repeated" and "reordered" are statements about
intervals. Compression and encryption are external; they are modelled by what
they preserve (the interval), by what they check (a GCM tag or a gzip checksum
finds an alteration; a zstd block of `zstd::bulk::compress` has no checksum and
may not) and by the fact that they may return Err. The length of a compressed
block, which only `sealed_bytes` depends on, is the constant `PackedLen`. A nonce
is the number of its draw: the random generator is taken not to repeat itself
(`codec.rs` 326-327 give the odds), so what `NonceUnique` checks is that the code
draws a fresh nonce for every block and never reuses one it drew.

`CodecDecoder` takes user bytes not to look like a frame header, and a key other
than the sealing key never to open a block.

`BlockFraming` looks at what the other modules take for granted, that a frame is
one value: there a byte is a number, a frame is eight bytes of header and a
payload, and the parser sees nothing but bytes. The length field has four digits
to the base `Base`, 256 in the code; with a base of 2 payloads of 16 bytes are too
long for it, as payloads of 2^32 bytes are in the code. What a layer does with a
payload is a choice there, accepted or refused.

`CodecRetry` maps the encoder's positions to the owner's data, since the encoder
cannot tell an input that is offered again from a new one; a byte that is on the
wire twice is thus a datum at two positions.

`EpochNanos` keeps the code's tests and casts and scales its numbers: integers of
`i64` up to `IntLimit`, floats of at most `Precision` multiples of a power of two,
rounded to even, seconds up to `SecLimit`, units `Kilo` apart. Reading numbers, dates and truth values out of text
is external: a value comes with its readings (`Value`), so that a string may read as
a number, as a date, as both, or as nothing. `RecordBatch::try_new` is external and
modelled by what it wants of the arrays.

`ArrowFrame` counts what may be confused in bytes (the tag's length, the
continuation marker) and makes tokens of the rest. The IPC reader is external:
it wants a schema first, returns Err for a torn or foreign message, and ends without
an error at the end-of-stream message or where fewer bytes are left than a marker
has. `usize` is taken to be wider than the length field, as on 64-bit targets. An
encode function that returns Err changes nothing and is left out.

In `RecordFanout` an `Arc` is an index into a heap of records. `wp_arrow`, which
looks fields up by name, is external; whether it converts a value to a type that is
not its own is left open.

### State and actions against the code

- `buffer` is `BlockCompressor.buffer`; without a compressor it is empty and its
  upper end still counts the bytes offered. `stats` is `AeadEncoder.nonces_issued`
  and `sealed_bytes`. `output` is everything appended to the caller's vectors.
  `drawn`, `built` and `intact` are history: nonces drawn, where the present
  encoder's output starts, whether anything has failed. `ret` is the last result.
- `Encode(n)` and `Finish` are whole calls of `ChainEncoder`: `EncodeStage` and
  `FinishStage` give every result the first layer can have (one for Ok, and one
  for each block whose compression can fail); `Chain` is what `ChainEncoder` and
  `AeadEncoder` make of it. `flush`'s loop is written in closed form, by the
  number of full blocks in the buffer.
- `Rebuild` is a drop, at any time, and a `build_encoder` with the same
  configuration; the owner may also go on after an Err.
- `Decode(k)` hands the next `k` whole blocks to `ChainDecode`; `DecodeDamaged(k)`
  does so with one block altered, or with the last one torn. The module comment
  of `codec.rs` (13) asks the source for whole blocks, so a torn one is the end of
  a broken connection and its rest never arrives. After an Err the source keeps
  what the call appended and goes on behind its input.

- In `BlockFraming`, `Put` is `put_block` (a payload that does not fit is refused
  and changes nothing), `Start(n)` is a call of `decode` with the next `n` bytes of
  the wire, `StartAltered` the same with one byte altered, and `Take`, `Reject`,
  `Refuse` and `Finished` are what an iteration of the loop can do: go on behind a
  block, return Err from `take_block` or the kind's comparison, return Err from the
  layer, or find the input empty. After an Err, or an input that ended inside a
  block, nothing more is read.

- In `CodecRetry`, `Offer` and `Again` are `encode` on new data and on the input that
  failed; `OwnerRebuild` drops the encoder in between.
- In `CodecConfig`, the two builders run on one configuration, in either order.
- In `NdjsonBatch`, `ParseLine` is an iteration of the loop over lines with its inner
  loop over fields, `RejectLine` its `?`, `ReturnNone` and `Build` what is before and
  behind it.
- In `ArrowRoute`, `Send` is the sink's call for its format and `Receive` the
  source's; `Cut` and `Join` are what a carrier without boundaries does to a payload.
- In `RecordFanout`, `Inject`, `WriteLines`, `EncodeAll` and `EncodeEach` are sinks'
  steps in any order; `HandOn` gives a list to a sink that has not begun.

Definitions under "Variant:" are mistakes the code could have had; each property
is known to fail under one of them.

## 3. Runs

| Run | Bounds | What it shows |
|---|---|---|
| `encoder` | blocks of 2 bytes, inputs of 0-5, 7 bytes in all; 9 layerings, 1 key | twelve properties of the encoder |
| `pipe` | blocks of 2, inputs of 0-3, 4 bytes in all, 0-2 blocks per decode; 9 layerings | what the source gets from a sink with its configuration; the pair implements `ByteStream` |
| `pipe_mixed` | blocks of 2, inputs of 0-3, 3 bytes in all; any two of 9 configurations with 2 keys | which mismatches are refused |
| `framing` | length digits to the base 2; payloads of 0, 8 (a frame), 15 and 16 bytes; 3 blocks of two kinds; inputs that end at any byte, or whole ones with one byte set to 0 or 4 | what is taken and refused, and that `decode` returns |
| `retry` | blocks of 2, inputs of 1-3, 7 bytes offered in all; 4 layerings | what retrying loses and doubles |
| `config` | levels and key lengths at and around each limit | both sides accept, and build, the same |
| `ndjson` | schemas of 0-3 fields of every type, 0-2 lines, 8 kinds of value; 10-bit integers, 7-digit floats, units a factor of 6 apart; each integer, its half, and the same instant in the next unit | rows, cells, and what every outcome is due to; units, boundaries, overflow, rounding |
| `route` | length fields of 2 digits to the base 4; 4 data formats and none; 7 kinds of metadata, tags of 0, 1, 2 and 16 letters; lists of 0-2 batches with 2 schemas; every cut, 2 payloads joined | what is refused, lost, or said by the tag |
| `fanout` | 4 text sinks and an Arrow sink, batches of 0-2 records | whose name a record carries, and which values reach a batch |
| `ndjson_doc` | as `ndjson` | a comment that does not hold (section 6) |
| `epochs_doc` | as `ndjson` | a comment that does not hold (section 6) |
| `config_doc` | as `config` | a comment that does not hold (section 6) |

Why the bounds are enough: with blocks of 2 and inputs of 5 a call can find a
byte in the buffer and fill three blocks, so a failure hits the first, the middle
or the last block of a call, with and without a rest; 7 bytes leave room for a
finish, a rebuild and a second or third call behind it. In the pipe 4 bytes make
up to four frames, enough for two reads of two with a failure in either. One
value per counter would do, as no property depends on how large it is. The
encoder's and the pipe's behaviours end when `MaxFed` bytes were offered; `Finish`,
`Rebuild` and `SourceFinish` stay enabled, so there is no deadlock to excuse. In
`framing` three blocks have a first, a middle and a last one; 15 is the longest
payload four binary digits can say and 16 the first that is too long; the values
0 and 4 lower and raise a digit of the length, break the magic and the version,
and make kinds unknown, wrong or (4 is the decoder's own kind) right. A stream has
one accident, a cut or an alteration. The reader stops after an Err or a torn
input and the sink after three blocks, so `CHECK_DEADLOCK` is off.

In `retry` an input of 3 leaves a byte behind, which an input that fails then finds
in the buffer. In `ndjson` the ranges of the units end beyond what an integer can
hold, so that as in the code the largest numbers of each unit overflow; all integers
and all boundaries are there; floats are coarser than integers near the limit, and as
in the code two apart at the largest number of microseconds. In
`route` 15 is the longest tag the length can say, 16 is read as none, and the marker
reads as a length past the end of a bare stream of one batch. In `fanout` two
records are enough to differ, repeat a name, or carry the injected name already; of the
text sinks two inject a name (one has the name switched off for frame tags, which must
not matter), one has it disabled, and one has the empty name. The calls of `ndjson` and the sinks of
`fanout` come to their end, so there too `CHECK_DEADLOCK` is off.

What the properties say, in the order of what may go wrong:

- `WireOrdered`, `GaplessWhileIntact`, `FinishedIsComplete`: order, completeness,
  and what an Ok `finish` is worth.
- `OkCallLosesNothing`, `FailedFlushLosesOneBlock`, `FailedCallSealsNothing`: what
  a call may lose. The second shows the price of draining a block before
  compressing it; the third that the price is all blocks of the call once there
  is an encryption layer, and that the wire and the counters stay consistent.
- `BufferBounded`, `BlocksBounded`: the threshold. `BlocksBounded` needs `intact`:
  after a failed `encode` several blocks may be left, and `finish` compresses them
  as one.
- `SealedBodiesWhole`, `NonceUnique`, `StatsMatchWire`: the AEAD layer.
- `OutOrdered`, `DamagedNeverDelivered`, `DecodeDeliversItsInput`, `RoundTrip`: the
  source, with equal configurations.
- `PlainOnlyIfAgreed`, `MismatchIsRefused`: with different ones. A source that
  lacks inner layers gets Ok and the inner blocks as they are; every other
  mismatch is refused at the first block.
- `ImplementsByteStream`: the refinement, with `received` read off the items
  delivered, `settled` the end of what was read, `whole` the two histories.

- `TakesWhatWasPut`, `VerdictIsRight`: the parser and the writer agree on every
  byte, however the stream is cut. `AlterationContained`: what one altered byte can
  do; of an altered length it only says that the blocks before it are safe, since
  the parser then reads headers out of payloads.
- `DecodeReturns`, `IterationsAdvance`: the loop ends.
- `LostOnlyIfBuffered`, `TwiceOnlyIfReused`: a retry after an Err brings back that
  input but not the bytes that were in the buffer with it; the same encoder, called
  again, sends what it had kept twice. With encryption, dropping the encoder first
  avoids the second but not the first.
- `SidesFit`: one configuration, one verdict, the same layers.
- `ColumnsInStep`, `RowPerLine`, `OutcomeHasCause`: rows are lines and cells come from
  their own line and column, even where fields share a name; every `None`, `Err` and
  `Ok` has its cause and every cause its outcome. LargeUtf8 is a type no batch can
  be built with.
- `InstantNearExact`, `UnitsAgree`: a timestamp is the exact instant, or within a
  float's precision, or null because it does not fit; one instant in two units is one
  timestamp. An integer that overflows is tried again as a float. That may round back
  into range, so just above the largest integer the two units may differ; and it may
  round up into the next unit, which `SameUnit` excepts and section 6 reports.
- `OneFormatDelivers`: the strict table of the sink and the source's table with a
  fallback fit: of one `data_format`, what is sent whole arrives whole. It is stated over
  the configured values and not over what either table makes of them, so a slip in one of
  the tables shows.
- `NothingInvented`, `ErrHasCause`, `LossHasCause`: what arrives is a prefix of what
  was sent, whatever the formats and the carrier. Batches are lost with an Ok only if
  a framed source reads another format, a payload ends between messages or in front of
  the stream, a tag's length wrapped, or a second payload follows the first.
- `TagReadBack`: the tag in front of a frame is the one the metadata ask for.
- `OwnNameOnly`: a sink writes its name and no other's, unless it was handed on, and none
  where there is none, an empty or a disabled one. `Mark` states that apart from `Usable`,
  which translates the code's tests.
- `ValueLossHasCause`: a batch made of records takes its columns from the first; a value is left out only if its field is ignored, repeated, or not one of
  those columns, or has another type there.

`DecodeReturns` is the one liveness property, under weak fairness of the running
loop: a call runs on its caller's thread until it returns. No other fairness is
assumed: the crate schedules nothing, and when calls are made is up to owners that
are not part of it.

## 4. Proofs

Every theorem holds for all values of the constants, from the assumptions that the
modules declare with them: `BlockSize` is a positive natural number, configurations
are configurations, bounds and `PackedLen` are natural numbers, payloads are sequences
of numbers, and so on. One is about the code's use and not only about what a constant
is: `MarkerAssumption`, discussed with the routes below.

**Encoder** (`CodecEncoderProofs`). All properties that the run `encoder` checks are
theorems. They are not inductive alone. `IInv` adds to them that nothing is buffered
without a compressor (`PassThrough`), that an intact encoder holds less than a block
(`ShortBuffer`, without which `finish` could make an oversized one), that `finish` leaves
an empty buffer (`FinishEmpties`, which turns `GaplessWhileIntact` into
`FinishedIsComplete`), and that nonces on the wire were drawn (`NonceDrawn`, which makes
the next one new). The argument has two layers, like the code: `FlushGood`,
`EncodeStageGood` and `FinishStageGood` describe every result of the first layer
(`GoodStage`; the arithmetic of blocks is in `Times`, `FullBlocksFit` and `BlocksTile`),
`ChainAppends` shows that a call appends one run of frames in its place (`Appends`), and
`AppendKeepsWire` that such a run keeps the invariant. The action properties follow from
the same lemmas. `StatsAreRight` needs to know how the sum `SealedBytes` grows with one
more frame (`SealedBytesGrow`), which rests on the induction below.

**Pipe** (`CodecPipeProofs`). All safety properties of the runs `pipe` and `pipe_mixed`
are theorems. First the decoder's layers, for every input: `ChainCarries` says that
`ChainDecode` keeps the order of what it is given, that an Ok covers exactly the bytes of
the input and an Err bytes of it only; `ChainGets`, what kinds of items come out of which
configuration. The invariant `PipeInv` is the encoder's `IInv`, `WireMake` (every frame on
the wire is of the make of the sink's configuration, which is what lets the source tell),
the three invariants of the run, and `NothingMissing` (until something fails, what is
delivered covers all that was read), from which `RoundTrip` follows with
`FinishedIsComplete`. `PipeImplementsStream` is the refinement: `StreamInitially` for the
initial states, `SinkOffers` and `DecodeReceives` for the steps, under the mapping of the
run; `StreamInOrder` and `StreamComplete` show what that is worth: bytes in order and at
most once, always, and complete until something goes wrong.

**Owner** (`CodecOwnerProofs`). `SidesFit` for every set of levels and key lengths: the
validated range leaves gzip's clamp nothing to do (`NothingIsClamped`). The retrying owner's
`LostOnlyIfBuffered` and `TwiceOnlyIfReused`: `Moves` is what any call does to the bytes,
taken from the encoder's lemmas; `RetryInv` says where each datum is (`Held`), that it is in
one place (`OnePlace`), that with encryption nothing of a failed input is on the wire
(`Unsent`: a failed call seals nothing), and that a dropped encoder's buffer is gone before
the input is offered again (`Dropped`).

**Framing** (`BlockFramingProofs`). For every base, every set of payloads and any number of
blocks, the length field is read back as it was written (`LengthReadBack`), a block is read
back whatever follows it (`BlockReadBack`), and a cut block is never taken (`TornNotTaken`).
On these rests the invariant of the loop: `Wired` (the wire is the blocks, end to end) and
`InPlace` (the reader stands where a block starts) make `TakesWhatWasPut` and
`VerdictIsRight` inductive (`IterationTakesWhole` is the step in which the three facts
meet). `LoopAdvances` gives the loop's variant for altered input too. For an altered byte
(`AlterationStaysContained`) the invariant `Altered` names the one block the byte is in: up
to that block, and behind it if the byte is in the payload, the reader is `OnTrack` and its
input `Follows` the wire but for that byte; `TakeOnTrack` is the iteration that takes a
block under these terms.

**NDJSON** (`NdjsonBatchProofs`). For every width of the integers, every precision of the
floats, every factor and limit: an integer's nanoseconds are exact or absent
(`IntNanosExact`; `i64::MIN` takes a detour), and neighbouring units agree at every boundary
(`UnitsMakeOneInstant`). For floats the spacing is what is used: `PowerAbove` is shown to be
the least power of two above a number (`PowerAboveFits`, `PowerAboveLeast`), from which come
`SpacingIs` and `SpacingGrows`; rounding moves a number by half a spacing (`RoundedIsNear`);
`FloatPathIs` follows the range test and the saturating cast, and `MultipleOfRounded` says
how far a rounded integer's product is from the exact one. `CellFor` puts the integer and
the float path together, and `InstantsAreNearExact` and `UnitsOfAnInstantAgree` follow for
every batch. The assumptions are those of the code's numbers: the units' ranges end within
`i64`, and `FloatLimits`, that `i64::MAX` as a float is 2^63. `LargestMicrosBecomeNanos` is
the finding of section 6 for all constants under which it occurs; with those of the code
10^16 - 1 lies between 2^53 and 2^54, where floats are two apart, its remainder by 4 is 3,
a thousand times it is more than 2^63, and 10^16 is a float.
For every schema and number of lines, columns stay in step
(`ColumnsAlwaysInStep`), each row is made of its own line (`EachRowFromItsLine`) and every
outcome has its cause (`OutcomeIsExplained`). The invariant `RowInv` says of a half-read
batch where in a column the cells of a line are: `k` places a line if `k` fields share the
column (`PlaceOfLine` and `LineOfPlace` are that arithmetic).

**Routes** (`ArrowRouteProofs`). For every width and base of the length fields, every tag,
schema and number of lists, whatever the formats of the two ends. A length field is read
back as the length modulo `Base ^ Width` (`DigitsReadBack`; `HornerExists` is the recursion
behind it), which is `TagReadBack` and places a frame's payload. A written stream is read
message by message (`MessagesThere`), up to where it was cut or to the end-of-stream message
(`StopIs`), and `StreamOutcome` says what a stream reader returns. From this follow what a
source of the sink's format makes of a payload (`StreamOutcome`, `FramedOutcome`) and what one
of another format does (`MismatchOutcome`), and so that each outcome is `Explained`. The
invariant `RouteInv` says that the payload in hand is what the carrier left of the lists
the sink was given, in the order they were sent (`RouteInvOf`), and that the source's result
is the reading of a payload there was (`DecodedBy`); `SendKeeps`, `JoinKeeps`, `CutKeeps`,
`ReceiveKeeps` and `ForgetKeeps` are its steps, and `NothingInvented`, `ErrHasCause` and
`LossHasCause` its consequences. Together with `FormatsFit` (one format is read the same on
both sides) they give `OneFormatArrives`. The proof found a condition the properties need. A source
that reads frames takes the first bytes of a stream, the continuation marker, for a tag's
length. If that length fell within the payload, the source would read on from the middle of
it and could deliver a list the sink did not send in that place. `MarkerAssumption` says that
it falls beyond the payload. With four bytes to the base 256 the marker says 4 GiB less one,
so it says that a payload is shorter than that; with one digit to the base 6 it would be
false, and `NothingInvented` with it.

**Shared records** (`RecordFanoutProofs`). For every number of sinks, records and fields, a
sink's list is the parsed records with the names of the sinks they went through
(`FanoutInv`; what the heap holds for others does not matter, since an injection writes a
fresh record, and `MarkIs` says that it is the sink's mark), which is `OwnNameOnly`; and
what an Arrow sink made of them has each value in its record's row or leaves it out for a
cause that is named (`NothingLostWithoutCause`; `EncodedFits` says which row is whose).

**Induction.** The prover cannot instantiate the library's induction theorems, whose
parameter is an operator. `SequenceFacts` proves induction for sets instead: a set of
numbers that is not empty has a least element (`LeastExists`, from the finite intervals
being well-founded under inclusion), so a set that holds 0 and is closed under the next
number holds all (`Induction`), and likewise for sequences (`SequenceInduction`). That
recursive functions exist is proved in the same way (`JoinedUpTo`, `SumsExist`), which is
how concatenations of sequences of sequences and sums over the wire come within reach.
Functions, not RECURSIVE operators, are therefore used for recursion.

Each strengthened invariant (`IInv` of the encoder and the framing, `PipeInv`, `RetryInv`,
`Altered`, `RowInv`, `RouteInv`, `FanoutInv`) was found with TLC on the bounds of its run before it was
proved.

Only model-checked is `DecodeReturns`: liveness is out of the prover's reach; its safety
half is `LoopAdvances`. All other properties of the passing runs are theorems.

## 5. What stays out

A theorem that the loop of `BlockFraming`, with a layer that accepts what it is given, does
what `CodecDecoder` says of a whole input would join the two views of a frame. It is a
statement about a recursive function and the end of a loop at once; the two are tied for
now by `TakesWhatWasPut` and `VerdictIsRight` on one side and `ChainCarries` on the other,
which say the same of a block.

Not modelled: `Display` and `Error` of `CodecError` and the `Box` forwarders of the
codec's traits (no state, no choice), the re-exports of `lib.rs`, tests, benches,
examples and build files; the value encodings of `wp_arrow`, the compressors, the
ciphers and the IPC format itself, which are other crates' and appear here as the
choices they leave to this one.

## 6. Where comments and code differ

- `ndjson_doc`: the comment of `ndjson_to_record_batch` (`ndjson.rs` 17-19) promises an
  error for a value that cannot be converted; the code makes a null of it (147-149 and
  the like) and returns Ok. `UnconvertibleIsError` states the comment.
- `epochs_doc`: the comments on numeric timestamps (`ndjson.rs` 58-61, 89-91) say that the
  unit is recognized by digit width. 9999999999999999 has the width of microseconds, but
  its nanoseconds overflow; the value is then tried as a float (67, 83), the nearest float
  is 1e16, and that is taken for nanoseconds (111). The cell is ten million seconds after
  the epoch; 9999999999999998 makes a null. `UnitByWidth` states the comments;
  `LargestMicrosBecomeNanos` shows that the finding does not depend on the run's bounds.
- `config_doc`: the comment of `CompressConfig.level` (`codec.rs` 77) gives zstd the
  levels `0..=22`; `validate_compress_level` (580) accepts `-7..=22`.
  `DocumentedLevels` states the comment.
