------------------------------ MODULE ByteStream -----------------------------
(***************************************************************************)
(* What a sink and a source that share a codec configuration promise       *)
(* together: bytes offered on one side are received on the other in order, *)
(* each at most once, and each exactly once until something has gone       *)
(* wrong.  A byte is the number of bytes offered before it.                *)
(***************************************************************************)
EXTENDS Integers, Sequences

VARIABLES
  offered,    \* bytes offered so far
  settled,    \* the fate of the bytes below this one is decided
  received,   \* the bytes received, in order
  whole       \* nothing has gone wrong yet

stream == <<offered, settled, received, whole>>

Increasing(s) == \A i, j \in 1..Len(s) : i < j => s[i] < s[j]

StreamInit ==
  /\ offered = 0
  /\ settled = 0
  /\ received = <<>>
  /\ whole = TRUE

\* More bytes are offered; an Err on the way may already have lost some of them.
Offer ==
  /\ offered' \in Nat /\ offered <= offered'
  /\ whole' \in {whole, FALSE}
  /\ UNCHANGED <<settled, received>>

\* The bytes up to settled' are settled: received, or lost if something has gone
\* wrong.
Receive ==
  LET new == SubSeq(received', Len(received) + 1, Len(received')) IN
  /\ settled' \in settled..offered
  /\ new \in Seq(Nat)
  /\ received' = received \o new
  /\ Increasing(new)
  /\ \A i \in 1..Len(new) : new[i] \in settled..(settled' - 1)
  /\ whole' \in {whole, FALSE}
  /\ whole' => Len(new) = settled' - settled
  /\ UNCHANGED offered

StreamNext == Offer \/ Receive

StreamSpec == StreamInit /\ [][StreamNext]_stream

\* No byte is received out of order or twice.
InOrder == Increasing(received)

\* Until something goes wrong, as many bytes are received as are settled.
Complete == whole => Len(received) = settled

==============================================================================
