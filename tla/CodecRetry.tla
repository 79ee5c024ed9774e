----------------------------- MODULE CodecRetry ------------------------------
(***************************************************************************)
(* CodecEncoder under an owner that offers an input again when encode      *)
(* returned Err for it, to the same encoder or to one it built anew, and   *)
(* calls finish as often as it likes.  The encoder cannot tell a repeated  *)
(* input from a new one (BlockCompressor.encode keeps what it was given    *)
(* even when it returns Err), so its positions are mapped to the owner's   *)
(* data: a datum is a byte the owner wants to send, numbered from 1.       *)
(***************************************************************************)
EXTENDS CodecEncoder

VARIABLES
  datum,     \* datum[p + 1] is what was offered at position p
  pending,   \* the number of bytes of the input that is to be offered again
  stale,     \* the encoder that returned Err for it is still the present one
  reused,    \* history: data of an input that encode returned Err for, when the
             \* same encoder was called again before it was dropped
  exposed    \* history: data that were in the buffer when a call returned Err
             \* or when the encoder was dropped

owner == <<datum, pending, stale, reused, exposed>>
retryVars == <<vars, owner>>

Data(from, to) == {datum[p] : p \in (from + 1)..to}
Buffered == Data(buffer.lo, buffer.hi)

\* The owner's data are offered in order; the last one offered is the largest.
Taken == IF datum = <<>> THEN 0 ELSE datum[Len(datum)]

RetryInit ==
  /\ Init
  /\ datum = <<>>
  /\ pending = 0
  /\ stale = FALSE
  /\ reused = {}
  /\ exposed = {}

\* What a call leaves behind: after an Err the buffer's bytes are at risk.
Settle(n) ==
  /\ pending' = IF ret'.ok THEN 0 ELSE n
  /\ stale' = ~ret'.ok
  /\ exposed' = IF ret'.ok THEN exposed ELSE exposed \cup Buffered

Reuse == reused' = IF stale THEN reused \cup (Taken - pending + 1)..Taken ELSE reused

\* encode on n bytes of new data.
Offer(n) ==
  /\ pending = 0
  /\ Encode(n)
  /\ datum' = datum \o [i \in 1..n |-> Taken + i]
  /\ Settle(n)
  /\ UNCHANGED reused

\* encode on the input that encode returned Err for.
Again ==
  /\ pending > 0
  /\ Encode(pending)
  /\ datum' = datum \o [i \in 1..pending |-> Taken - pending + i]
  /\ Reuse
  /\ Settle(pending)

OwnerFinish ==
  /\ Finish
  /\ exposed' = IF ret'.ok THEN exposed ELSE exposed \cup Buffered
  /\ Reuse
  /\ UNCHANGED <<datum, pending, stale>>

\* A reconnect.
OwnerRebuild ==
  /\ Rebuild
  /\ stale' = FALSE
  /\ exposed' = exposed \cup Buffered
  /\ UNCHANGED <<datum, pending, reused>>

RetryNext ==
  \/ \E n \in 1..MaxInput : Offer(n)
  \/ Again
  \/ OwnerFinish
  \/ OwnerRebuild

RetrySpec == RetryInit /\ [][RetryNext]_retryVars

------------------------------------------------------------------------------
(* What must hold.                                                          *)

\* The number of times a datum is on the wire or in the buffer.
Copies(d) ==
  LET carried == {p \in 1..Len(datum) :
                    \/ buffer.lo < p
                    \/ \E i \in 1..Len(output) : Lo(output[i]) < p /\ p <= Hi(output[i])}
  IN Cardinality({p \in carried : datum[p] = d})

\* Offering an input again until encode returns Ok brings that input across, but
\* not the earlier inputs whose bytes shared the buffer with it: a datum that is
\* neither sent, nor held, nor waiting to be offered again was in the buffer
\* when a call returned Err or when the encoder was dropped.
LostOnlyIfBuffered ==
  \A d \in 1..(Taken - pending) : Copies(d) = 0 => d \in exposed

\* With an encryption layer an owner that drops the encoder as soon as encode
\* returns Err, before it offers the input again, sends every datum at most once:
\* a datum is there twice only if the encoder that failed was called again.
\* (Without that layer an Err leaves the input's first blocks on the wire.)
TwiceOnlyIfReused ==
  config.encrypt # None => \A d \in 1..Taken : Copies(d) > 1 => d \in reused

==============================================================================
