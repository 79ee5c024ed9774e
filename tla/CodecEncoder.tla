----------------------------- MODULE CodecEncoder ----------------------------
(***************************************************************************)
(* The sink side of codec.rs: a ChainEncoder (an optional BlockCompressor  *)
(* followed by an optional AeadEncoder) driven by its owner through        *)
(* encode, finish and, on a reconnect, a drop followed by build_encoder.   *)
(*                                                                         *)
(* The methods take &mut self, so a call is one step.  Every call that     *)
(* returns a Result may return Err where the code has a `?`: the           *)
(* compressor, the random generator, the cipher and put_block are free to  *)
(* fail, and the owner is free to go on after an Err.                      *)
(*                                                                         *)
(* A definition under "Variant:" is what a likely mistake in the code      *)
(* below it would make of that definition; no behaviour uses it.           *)
(***************************************************************************)
EXTENDS CodecFrames

CONSTANTS Configs,     \* the configurations a sink may be started with
          BlockSize,   \* COMPRESS_BLOCK_SIZE
          MaxInput,    \* bound: bytes in the input of one encode
          MaxFed       \* bound: bytes offered to encode altogether

ASSUME ConfigsAssumption   == Configs \subseteq Config
ASSUME BlockSizeAssumption == BlockSize \in Nat \ {0}
ASSUME BoundsAssumption    == MaxInput \in Nat /\ MaxFed \in Nat

VARIABLES
  config,   \* what build_encoder was given
  buffer,   \* BlockCompressor.buffer holds the positions [buffer.lo, buffer.hi);
            \* buffer.hi is also the number of bytes offered so far
  output,   \* the frames appended to the caller's output vectors
  stats,    \* AeadEncoder.nonces_issued and sealed_bytes
  drawn,    \* nonces the random generator has handed out
  built,    \* Len(output) when the present encoder was built
  intact,   \* history: no call returned Err, no encoder was dropped with bytes
            \* in its buffer
  ret       \* the last call and whether it returned Ok

vars == <<config, buffer, output, stats, drawn, built, intact, ret>>

Interval == {b \in [lo : Nat, hi : Nat] : b.lo <= b.hi}

Empty(buf) == buf.lo = buf.hi
Size(s) == s.hi - s.lo

------------------------------------------------------------------------------
(* First layer: BlockCompressor, or the input itself.  A result is the new  *)
(* buffer, what was appended to the layer's output, and Ok or Err.          *)

Result(lo, hi, out, ok) ==
  [buffer |-> [lo |-> lo, hi |-> hi], out |-> out, ok |-> ok]

\* Variant: the loop runs while the buffer is not empty.
FullBlocksRoundedUp(lo, hi) == (hi - lo + BlockSize - 1) \div BlockSize

\* Variant: > for >= in the loop's condition.
FullBlocksStrict(lo, hi) == IF lo = hi THEN 0 ELSE (hi - lo - 1) \div BlockSize

\* Iterations of flush's loop: while buffer.len() >= COMPRESS_BLOCK_SIZE.
FullBlocks(lo, hi) == (hi - lo) \div BlockSize

\* k full blocks drained from the front of the buffer, one frame each.
Blocks(kind, lo, k) ==
  [i \in 1..k |-> [kind |-> kind,
                   lo   |-> lo + (i - 1) * BlockSize,
                   hi   |-> lo + i * BlockSize]]

\* Variant: the whole buffer is drained as one block.
FlushAtOnce(lo, hi) ==
  IF hi - lo < BlockSize
  THEN {Result(lo, hi, <<>>, TRUE)}
  ELSE {Result(hi, hi, <<[kind |-> config.compress, lo |-> lo, hi |-> hi]>>, TRUE)}

\* Variant: a block that fails to compress is left out and the loop goes on.
FlushSkipping(lo, hi) ==
  LET full == FullBlocks(lo, hi) IN
  {Result(lo + full * BlockSize, hi,
          SE!RemoveAt(Blocks(config.compress, lo, full), k), TRUE) : k \in 1..full}
  \cup {Result(lo + full * BlockSize, hi, Blocks(config.compress, lo, full), TRUE)}

\* Variant: the buffer is emptied before the loop and restored after it.
FlushTakesAll(lo, hi) ==
  LET full == FullBlocks(lo, hi) IN
  {Result(lo + full * BlockSize, hi, Blocks(config.compress, lo, full), TRUE)}
  \cup {Result(hi, hi, Blocks(config.compress, lo, k), FALSE) : k \in 0..(full - 1)}

\* flush drains a block before it compresses and frames it, so the block whose
\* compression fails is gone from the buffer and not in the output.
Flush(lo, hi) ==
  LET full == FullBlocks(lo, hi) IN
  {Result(lo + full * BlockSize, hi, Blocks(config.compress, lo, full), TRUE)}
  \cup {Result(lo + (k + 1) * BlockSize, hi, Blocks(config.compress, lo, k), FALSE) :
          k \in 0..(full - 1)}

\* encode appends the input to the buffer and flushes; with no compressor the
\* input is passed on as it is.
EncodeStage(n) ==
  IF config.compress # None
  THEN Flush(buffer.lo, buffer.hi + n)
  ELSE {Result(buffer.hi + n, buffer.hi + n,
               IF n = 0 THEN <<>>
               ELSE <<[kind |-> Plain, lo |-> buffer.hi, hi |-> buffer.hi + n]>>,
               TRUE)}

\* Variant: finish compresses the buffer without taking it.
FinishKeepsBuffer ==
  {Result(buffer.lo, buffer.hi,
          IF Empty(buffer) THEN <<>>
          ELSE <<[kind |-> config.compress, lo |-> buffer.lo, hi |-> buffer.hi]>>,
          TRUE)}

\* Variant: ChainEncoder.finish forgets its first layer.
FinishSkipsBuffer == {Result(buffer.lo, buffer.hi, <<>>, TRUE)}

\* finish takes the buffer (mem::take) before it compresses it: on Err the tail
\* is lost, and a second finish finds nothing to do and returns Ok.
FinishStage ==
  IF Empty(buffer)
  THEN {Result(buffer.hi, buffer.hi, <<>>, TRUE)}
  ELSE {Result(buffer.hi, buffer.hi,
               <<[kind |-> config.compress, lo |-> buffer.lo, hi |-> buffer.hi]>>,
               TRUE),
        Result(buffer.hi, buffer.hi, <<>>, FALSE)}

------------------------------------------------------------------------------
(* Second layer: AeadEncoder.encode on what the first layer produced.       *)

\* A random nonce is taken to be one that was never drawn before.
new_nonce == drawn

\* Variant: the block counter serves as the nonce.
SealCountedNonce(body) ==
  /\ output' = Append(output, [kind |-> config.encrypt, key |-> config.key,
                               nonce |-> stats.nonces_issued, body |-> body])
  /\ drawn' = drawn + 1
  /\ stats' = [nonces_issued |-> stats.nonces_issued + 1,
               sealed_bytes  |-> stats.sealed_bytes + BodyLen(body)]

\* Variant: sealed_bytes counts what was offered to the sink.
SealCountsOffered(body) ==
  /\ output' = Append(output, [kind |-> config.encrypt, key |-> config.key,
                               nonce |-> drawn, body |-> body])
  /\ drawn' = drawn + 1
  /\ stats' = [nonces_issued |-> stats.nonces_issued + 1,
               sealed_bytes  |-> stats.sealed_bytes + buffer.hi - buffer.lo]

\* new_nonce, seal, put_block, then the counters.
Seal(body) ==
  /\ output' = Append(output, [kind  |-> config.encrypt,
                               key   |-> config.key,
                               nonce |-> new_nonce,
                               body  |-> body])
  /\ drawn' = drawn + 1
  /\ stats' = [nonces_issued |-> stats.nonces_issued + 1,
               sealed_bytes  |-> stats.sealed_bytes + BodyLen(body)]

\* Variant: the counter moves before the block is sealed.
SealFailsCounted ==
  /\ drawn' = drawn + 1
  /\ stats' = [stats EXCEPT !.nonces_issued = @ + 1]
  /\ UNCHANGED output

\* The generator fails, or seal or put_block does when the nonce is drawn.
SealFails ==
  /\ drawn' \in {drawn, drawn + 1}
  /\ UNCHANGED <<output, stats>>

\* Variant: an Err is dropped instead of returned.
ReturnedOk(op, ok) == ret' = [op |-> op, ok |-> TRUE] /\ intact' = intact

Returned(op, ok) ==
  /\ ret' = [op |-> op, ok |-> ok]
  /\ intact' = (intact /\ ok)

\* ChainEncoder: the first layer writes to output when there is no second one,
\* to a local buffer otherwise, which an Err of the first layer discards and
\* which is sealed unless it is empty.
Chain(op, r) ==
  /\ buffer' = r.buffer
  /\ UNCHANGED <<config, built>>
  /\ \/ /\ config.encrypt = None
        /\ output' = output \o r.out
        /\ UNCHANGED <<stats, drawn>>
        /\ Returned(op, r.ok)
     \/ /\ config.encrypt # None
        /\ ~r.ok \/ r.out = <<>>
        /\ UNCHANGED <<output, stats, drawn>>
        /\ Returned(op, r.ok)
     \/ /\ config.encrypt # None
        /\ r.ok /\ r.out # <<>>
        /\ \/ Seal(r.out) /\ Returned(op, TRUE)
           \/ SealFails   /\ Returned(op, FALSE)

------------------------------------------------------------------------------
Init ==
  /\ config \in Configs
  /\ buffer = [lo |-> 0, hi |-> 0]
  /\ output = <<>>
  /\ stats = [nonces_issued |-> 0, sealed_bytes |-> 0]
  /\ drawn = 0
  /\ built = 0
  /\ intact = TRUE
  /\ ret = [op |-> "build", ok |-> TRUE]

\* encode(input) for an input of n bytes, the empty one included.
Encode(n) ==
  /\ buffer.hi + n <= MaxFed
  /\ \E r \in EncodeStage(n) : Chain("encode", r)

Finish == \E r \in FinishStage : Chain("finish", r)

\* Variant: the new encoder takes over the bytes the old one was left with.
RebuildTakesOver ==
  /\ stats' = [nonces_issued |-> 0, sealed_bytes |-> 0]
  /\ built' = Len(output)
  /\ ret' = [op |-> "build", ok |-> TRUE]
  /\ UNCHANGED <<buffer, intact, config, output, drawn>>

\* The owner drops the encoder, finished or not, and builds another with the
\* same configuration: bytes in the buffer go with it, counters restart.
Rebuild ==
  /\ buffer' = [lo |-> buffer.hi, hi |-> buffer.hi]
  /\ stats' = [nonces_issued |-> 0, sealed_bytes |-> 0]
  /\ built' = Len(output)
  /\ intact' = (intact /\ Empty(buffer))
  /\ ret' = [op |-> "build", ok |-> TRUE]
  /\ UNCHANGED <<config, output, drawn>>

Next ==
  \/ \E n \in 0..MaxInput : Encode(n)
  \/ Finish
  \/ Rebuild

Spec == Init /\ [][Next]_vars

------------------------------------------------------------------------------
(* What must hold.                                                          *)

\* The values the state ranges over: interval buffer, framed output, counters.
TypeOK ==
  /\ config \in Configs
  /\ buffer \in Interval
  /\ output \in Seq(Frame)
  /\ stats \in [nonces_issued : Nat, sealed_bytes : Nat]
  /\ drawn \in Nat
  /\ built \in 0..Len(output)
  /\ intact \in BOOLEAN
  /\ ret \in [op : {"build", "encode", "finish"}, ok : BOOLEAN]

\* Whatever fails and however often the encoder is rebuilt, the wire carries
\* bytes in the order they were offered, none of them twice, and none that the
\* buffer still holds (flush and finish remove from the buffer what they frame).
WireOrdered == Ordered(output, 0, buffer.lo)

\* The plaintext of an AEAD block is whole: complete blocks of the one compressor
\* that follow on one another, or the bytes of one input.
SealedBodiesWhole ==
  \A i \in 1..Len(output) :
    LET f == output[i] IN
    IsSealed(f) =>
      /\ Tiles(f.body, Lo(f), Hi(f))
      /\ IF config.compress = None
         THEN Len(f.body) = 1 /\ f.body[1].kind = Plain
         ELSE \A k \in 1..Len(f.body) : f.body[k].kind = config.compress

\* As long as no call has returned Err and no encoder was dropped with bytes in
\* its buffer, the wire and the buffer hold every byte offered.
GaplessWhileIntact == intact => Tiles(output, 0, buffer.lo)

\* An Ok finish has put everything offered on the wire (trait Encoder: finish
\* flushes the tail), unless a byte was lost before.
FinishedIsComplete ==
  intact /\ ret = [op |-> "finish", ok |-> TRUE] => Tiles(output, 0, buffer.hi)

\* After a call that returned Ok the buffer is below the block threshold: the
\* memory held across calls does not grow with the stream.
BufferBounded ==
  config.compress # None /\ ret.ok => Size(buffer) < BlockSize

\* The segments a frame carries.
Segments(f) == IF IsSealed(f) THEN f.body ELSE <<f>>

\* No compressed block holds more than BlockSize bytes as long as no call has
\* failed (after an Err of encode, finish compresses all that is left as one).
BlocksBounded ==
  intact =>
    \A i \in 1..Len(output) : \A k \in 1..Len(Segments(output[i])) :
      LET seg == Segments(output[i])[k] IN
      seg.kind # Plain => Size(seg) <= BlockSize

\* GCM: no two blocks sealed with one key carry the same nonce, across failed
\* calls and across the encoders a sink builds one after the other.
NonceUnique ==
  \A i, j \in 1..Len(output) :
    /\ i < j /\ IsSealed(output[i]) /\ IsSealed(output[j])
    /\ output[i].key = output[j].key
    => output[i].nonce # output[j].nonce

\* The plaintext bytes of a run of sealed frames.
SealedBytes(frames) ==
  LET upTo[n \in 0..Len(frames)] ==
        IF n = 0 THEN 0 ELSE upTo[n - 1] + BodyLen(frames[n].body)
  IN upTo[Len(frames)]

\* CodecStats counts exactly the blocks, and their plaintext bytes, that this
\* encoder put on the wire; it stays at zero without an encryption layer.
StatsMatchWire ==
  LET mine == SubSeq(output, built + 1, Len(output)) IN
  IF config.encrypt = None
  THEN stats = [nonces_issued |-> 0, sealed_bytes |-> 0]
  ELSE /\ stats.nonces_issued = Len(mine)
       /\ stats.sealed_bytes = SealedBytes(mine)

\* What a step has appended to the wire.
Appended == SubSeq(output', Len(output) + 1, Len(output'))

\* A call that returns Ok loses nothing: what it removes from the buffer it puts
\* on the wire, block by block, behind what was there.
OkCallLosesNothing ==
  [][ret'.op # "build" /\ ret'.ok
       => Tiles(Appended, buffer.lo, buffer'.lo)]_vars

\* Without encryption an Err of encode has put all the blocks before the failing
\* one on the wire and lost exactly that one; the bytes behind it are still in
\* the buffer.
FailedFlushLosesOneBlock ==
  [][ret'.op = "encode" /\ ~ret'.ok /\ config.encrypt = None
       => Tiles(Appended, buffer.lo, buffer'.lo - BlockSize)]_vars

\* With encryption a call that returns Err has put nothing on the wire and left
\* the counters alone, even when blocks were compressed before the failure.
FailedCallSealsNothing ==
  [][~ret'.ok /\ config.encrypt # None => UNCHANGED <<output, stats>>]_vars

==============================================================================
