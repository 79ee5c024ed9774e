------------------------- MODULE RecordFanoutProofs --------------------------
(***************************************************************************)
(* Proofs about RecordFanout: whatever the sinks that share a batch do, a  *)
(* sink holds the parsed records with the names of the sinks they went     *)
(* through, and what an Arrow sink made of them has every value in its own *)
(* record's row, or leaves it out for a reason that can be named.          *)
(***************************************************************************)
EXTENDS RecordFanout, SequenceFacts, TLAPS

\* What records are made of: the parser's fields and the names that are injected.
Name(n) == [name |-> "wp_oml_name", type |-> "Chars", value |-> n]
AnyField == Field \cup {Name(n) : n \in UNION {MetaOf[s].oml_name : s \in TextSinks}}

LEMMA FlattenIs ==
  ASSUME NEW S, NEW s \in Seq(Seq(S))
  PROVE  SE!FlattenSeq(s) = Flat(s)
<1>1. s = <<>> <=> Len(s) = 0
  OBVIOUS
<1> QED
  BY <1>1 DEF SE!FlattenSeq, Flat, Joined

\* What is injected for a sink is a sequence of fields, and empty without a usable
\* name.
LEMMA NameFieldsAre ==
  ASSUME NEW s \in TextSinks
  PROVE  /\ NameFields(MetaOf[s]) \in Seq(AnyField)
         /\ Usable(MetaOf[s]) = {} => NameFields(MetaOf[s]) = <<>>
<1>1. CASE Usable(MetaOf[s]) = {}
  BY <1>1 DEF NameFields
<1>2. CASE Usable(MetaOf[s]) # {}
  <2> DEFINE n == CHOOSE m \in Usable(MetaOf[s]) : TRUE
  <2>1. n \in Usable(MetaOf[s])
    BY <1>2
  <2>2. n \in MetaOf[s].oml_name
    BY <2>1 DEF Usable
  <2>3. NameFields(MetaOf[s]) = <<Name(n)>>
    BY <1>2 DEF NameFields, Name
  <2> HIDE DEF n
  <2>4. Name(n) \in AnyField
    BY <2>2 DEF AnyField
  <2> QED
    BY <1>2, <2>3, <2>4
<1> QED
  BY <1>1, <1>2

\* A field that is not ignored is kept.
LEMMA KeptHas ==
  ASSUME NEW S, NEW record \in Seq(S), NEW k \in 1..Len(record),
         record[k].type # "Ignore"
  PROVE  \E c \in 1..Len(Kept(record)) : Kept(record)[c] = record[k]
<1> DEFINE Parts(r) == [i \in DOMAIN r |->
                          IF r[i].type = "Ignore" THEN <<>> ELSE <<r[i]>>]
           Has(r) == \A i \in 1..Len(r) : r[i].type # "Ignore" =>
                       \E c \in 1..Len(Flat(Parts(r))) : Flat(Parts(r))[c] = r[i]
           T == {r \in Seq(S) : Has(r)}
<1>1. ASSUME NEW r \in Seq(S)
      PROVE  Parts(r) \in Seq(Seq(S)) /\ Len(Parts(r)) = Len(r)
  <2>1. ASSUME NEW i \in 1..Len(r)
        PROVE  (IF r[i].type = "Ignore" THEN <<>> ELSE <<r[i]>>) \in Seq(S)
    <3>1. r[i] \in S
      OBVIOUS
    <3> QED
      BY <3>1
  <2>2. Parts(r) = [i \in 1..Len(r) |->
                      IF r[i].type = "Ignore" THEN <<>> ELSE <<r[i]>>]
    OBVIOUS
  <2> QED
    BY <2>1, <2>2
<1>2. \A r \in Seq(S) : Flat(Parts(r)) \in Seq(S)
  <2> HIDE DEF Parts
  <2> QED
    BY <1>1, FlatType
<1>3. <<>> \in T
  OBVIOUS
<1>4. ASSUME NEW r \in Seq(S), NEW e \in S, r \in T
      PROVE  Append(r, e) \in T
  <2> DEFINE part == IF e.type = "Ignore" THEN <<>> ELSE <<e>>
             old == Flat(Parts(r))
             new == Flat(Parts(Append(r, e)))
  <2>1. Parts(Append(r, e)) = Append(Parts(r), part)
    OBVIOUS
  <2>2. part \in Seq(S)
    OBVIOUS
  <2>3. new = old \o part
    <3> HIDE DEF Parts, part
    <3> QED
      BY <1>1, <2>1, <2>2, FlatAppend
  <2>4. old \in Seq(S)
    BY <1>2
  <2>5. /\ Len(new) = Len(old) + Len(part) /\ Len(old) \in Nat /\ Len(part) \in Nat
        /\ \A i \in 1..Len(new) :
             new[i] = IF i <= Len(old) THEN old[i] ELSE part[i - Len(old)]
    <3> HIDE DEF old, new, part
    <3> QED
      BY <2>2, <2>3, <2>4, ConcatIs
  <2>6. ASSUME NEW i \in 1..Len(Append(r, e)), Append(r, e)[i].type # "Ignore"
        PROVE  \E c \in 1..Len(new) : new[c] = Append(r, e)[i]
    <3>1. CASE i <= Len(r)
      <4>1. Append(r, e)[i] = r[i] /\ i \in 1..Len(r)
        BY <3>1
      <4>2. PICK c \in 1..Len(old) : old[c] = r[i]
        BY <1>4, <2>6, <4>1
      <4>3. c \in 1..Len(new) /\ new[c] = old[c]
        <5> HIDE DEF old, new, part
        <5> QED
          BY <2>5, <4>2
      <4> HIDE DEF old, new, part
      <4> QED
        BY <4>1, <4>2, <4>3
    <3>2. CASE i > Len(r)
      <4>1. i = Len(r) + 1 /\ Append(r, e)[i] = e
        BY <3>2
      <4>2. part = <<e>>
        BY <2>6, <4>1
      <4>3. Len(part) = 1 /\ part[1] = e
        BY <4>2
      <4> HIDE DEF old, new, part
      <4>4. Len(old) + 1 \in 1..Len(new) /\ new[Len(old) + 1] = part[1]
        BY <2>5, <4>3
      <4> QED
        BY <4>1, <4>3, <4>4
    <3> HIDE DEF old, new, part
    <3> QED
      BY <3>1, <3>2
  <2>7. Append(r, e) \in Seq(S)
    OBVIOUS
  <2> QED
    BY <2>6, <2>7
<1>5. \A r \in Seq(S) : r \in T
  <2> HIDE DEF T
  <2> QED
    BY <1>3, <1>4, SequenceInduction
<1>6. Kept(record) = Flat(Parts(record))
  <2> SUFFICES SE!FlattenSeq(Parts(record)) = Flat(Parts(record))
    BY DEF Kept
  <2> HIDE DEF Parts
  <2> QED
    BY <1>1, FlattenIs
<1>7. Has(record)
  BY <1>5
<1> HIDE DEF Parts
<1> QED
  BY <1>6, <1>7

------------------------------------------------------------------------------
(* What is injected on a way through text sinks.                            *)

Names(p) == Flat([k \in 1..Len(p) |-> NameFields(MetaOf[p[k]])])

\* The records rs after the way p, and the records a list d refers to.
Passed(rs, p) == [i \in 1..Len(rs) |-> rs[i] \o Names(p)]
Got(h, d)     == [i \in DOMAIN d |-> h[d[i]]]

LEMMA NamesAre ==
  ASSUME NEW p \in Seq(TextSinks)
  PROVE  /\ [k \in 1..Len(p) |-> NameFields(MetaOf[p[k]])] \in Seq(Seq(AnyField))
         /\ Names(p) \in Seq(AnyField)
<1>1. ASSUME NEW k \in 1..Len(p)
      PROVE  NameFields(MetaOf[p[k]]) \in Seq(AnyField)
  <2>1. p[k] \in TextSinks
    OBVIOUS
  <2> QED
    BY <2>1, NameFieldsAre
<1>2. [k \in 1..Len(p) |-> NameFields(MetaOf[p[k]])] \in Seq(Seq(AnyField))
  BY <1>1
<1> QED
  BY <1>2, FlatType DEF Names

LEMMA NoNames == Names(<<>>) = <<>>
BY DEF Names, Flat

LEMMA NamesAppend ==
  ASSUME NEW p \in Seq(TextSinks), NEW s \in TextSinks
  PROVE  Names(Append(p, s)) = Names(p) \o NameFields(MetaOf[s])
<1> DEFINE Parts(q) == [k \in 1..Len(q) |-> NameFields(MetaOf[q[k]])]
<1>1. Parts(Append(p, s)) = Append(Parts(p), NameFields(MetaOf[s]))
  OBVIOUS
<1>2. Parts(p) \in Seq(Seq(AnyField))
  BY NamesAre
<1>3. NameFields(MetaOf[s]) \in Seq(AnyField)
  BY NameFieldsAre
<1>4. Names(p) = Flat(Parts(p)) /\ Names(Append(p, s)) = Flat(Parts(Append(p, s)))
  BY DEF Names
<1> HIDE DEF Parts
<1> QED
  BY <1>1, <1>2, <1>3, <1>4, FlatAppend

\* A record that went one sink further.
LEMMA PassedOn ==
  ASSUME NEW p \in Seq(TextSinks), NEW s \in TextSinks, NEW r \in Seq(AnyField)
  PROVE  r \o Names(Append(p, s)) = (r \o Names(p)) \o NameFields(MetaOf[s])
<1>1. Names(p) \in Seq(AnyField) /\ NameFields(MetaOf[s]) \in Seq(AnyField)
  BY NamesAre, NameFieldsAre
<1>2. r \o (Names(p) \o NameFields(MetaOf[s])) = (r \o Names(p)) \o NameFields(MetaOf[s])
  BY <1>1, ConcatAssociative
<1> QED
  BY <1>2, NamesAppend

------------------------------------------------------------------------------
(* The inductive invariant.                                                 *)

FanoutTypes ==
  /\ records \in Seq(Seq(AnyField)) /\ heap \in Seq(Seq(AnyField))
  /\ data \in [Sinks -> [1..Len(records) -> 1..Len(heap)]]
  /\ stage \in [Sinks -> {"given", "injected", "done", "failed"}]
  /\ path \in [Sinks -> Seq(TextSinks)]
  /\ DOMAIN written = Sinks

SchemasOf(rows) ==
  {infer_arrow_schema(Columns)} \cup
  {infer_schema_from_record(rows[i]) : i \in {1} \cap DOMAIN rows}

\* What an Arrow sink may make of its rows.
AllInOne(rows, output) ==
  \E schema \in SchemasOf(rows) :
    \E batch \in data_records_to_batch(rows, schema) : output = <<batch>>

OneByOne(rows, output) ==
  /\ DOMAIN output = DOMAIN rows
  /\ \A i \in DOMAIN rows :
       output[i] \in data_record_to_batch(rows[i], infer_schema_from_record(rows[i]))

FanoutInv ==
  /\ FanoutTypes
  /\ \A s \in Sinks : Got(heap, data[s]) = Passed(records, path[s])
  /\ \A s \in TextSinks : stage[s] = "done" => written[s] = Passed(records, path[s])
  /\ \A s \in ArrowSinks : stage[s] = "done" =>
       \/ AllInOne(Passed(records, path[s]), written[s])
       \/ OneByOne(Passed(records, path[s]), written[s])

LEMMA FanoutInit ==
  Init => FanoutInv
<1> SUFFICES ASSUME Init PROVE FanoutInv
  OBVIOUS
<1>1. records \in Seq(Seq(AnyField))
  <2>1. records \in Seq(Seq(Field))
    BY FanoutAssumption DEF Init
  <2>2. Field \subseteq AnyField
    BY DEF AnyField
  <2> QED
    BY <2>1, <2>2
<1>2. heap = records /\ data = [s \in Sinks |-> [i \in 1..Len(records) |-> i]]
  BY <1>1 DEF Init
<1>3. FanoutTypes
  <2>1. <<>> \in Seq(TextSinks)
    OBVIOUS
  <2>2. path = [s \in Sinks |-> <<>>] /\ path \in [Sinks -> Seq(TextSinks)]
    BY <2>1 DEF Init
  <2>3. data \in [Sinks -> [1..Len(records) -> 1..Len(heap)]]
    BY <1>1, <1>2
  <2> QED
    BY <1>1, <1>2, <2>2, <2>3 DEF FanoutTypes, Init
<1>4. ASSUME NEW s \in Sinks
      PROVE  Got(heap, data[s]) = Passed(records, path[s])
  <2>1. path[s] = <<>> /\ data[s] = [i \in 1..Len(records) |-> i]
    BY <1>2 DEF Init
  <2>2. ASSUME NEW i \in 1..Len(records)
        PROVE  records[i] \o <<>> = records[i]
    <3>1. records[i] \in Seq(AnyField)
      BY <1>1
    <3> QED
      BY <3>1
  <2>3. Passed(records, path[s]) = [i \in 1..Len(records) |-> records[i]]
    <3>1. Names(path[s]) = <<>>
      BY <2>1, NoNames
    <3>2. Passed(records, path[s]) = [i \in 1..Len(records) |-> records[i] \o <<>>]
      BY <3>1 DEF Passed
    <3> QED
      BY <2>2, <3>2
  <2>4. Got(heap, data[s]) = [i \in 1..Len(records) |-> records[i]]
    BY <1>2, <2>1 DEF Got
  <2> QED
    BY <2>3, <2>4
<1>5. \A s \in TextSinks \cup ArrowSinks : stage[s] = "given"
  BY DEF Init, Sinks
<1> QED
  BY <1>3, <1>4, <1>5 DEF FanoutInv

\* A sink that injects leaves the lists of the others and what they refer to alone.
LEMMA InjectKeeps ==
  ASSUME FanoutInv, NEW s \in TextSinks, Inject(s)
  PROVE  FanoutInv'
<1> DEFINE fields == NameFields(MetaOf[s])
           n == Len(records)
<1>0. \A t \in Sinks : Got(heap, data[t]) = Passed(records, path[t])
  BY DEF FanoutInv
<1>1. FanoutTypes /\ s \in Sinks /\ n \in Nat /\ Len(heap) \in Nat
  BY DEF FanoutInv, FanoutTypes, Sinks
<1>2. fields \in Seq(AnyField)
  BY NameFieldsAre
<1>3. /\ stage[s] = "given" /\ records' = records /\ written' = written
      /\ stage' = [stage EXCEPT ![s] = "injected"]
      /\ path' = [path EXCEPT ![s] = Append(@, s)]
      /\ heap' = inject_oml_name(MetaOf[s], data[s]).heap
      /\ data' = [data EXCEPT ![s] = inject_oml_name(MetaOf[s], data[s]).data]
  BY DEF Inject
<1>4. path[s] \in Seq(TextSinks) /\ Append(path[s], s) \in Seq(TextSinks)
  BY <1>1 DEF FanoutTypes
<1>5. path' \in [Sinks -> Seq(TextSinks)] /\ path'[s] = Append(path[s], s)
      /\ \A t \in Sinks : t # s => path'[t] = path[t]
  BY <1>1, <1>3, <1>4 DEF FanoutTypes
<1>6. /\ stage' \in [Sinks -> {"given", "injected", "done", "failed"}]
      /\ stage'[s] = "injected" /\ \A t \in Sinks : t # s => stage'[t] = stage[t]
  BY <1>1, <1>3 DEF FanoutTypes
<1>7. ASSUME NEW i \in 1..n
      PROVE  /\ heap[data[s][i]] \in Seq(AnyField) /\ records[i] \in Seq(AnyField)
             /\ heap[data[s][i]] = records[i] \o Names(path[s])
             /\ heap[data[s][i]] \o fields = records[i] \o Names(Append(path[s], s))
  <2>1. data[s] \in [1..n -> 1..Len(heap)]
    BY <1>1 DEF FanoutTypes
  <2>2. data[s][i] \in 1..Len(heap) /\ DOMAIN data[s] = 1..n
    BY <2>1
  <2>3. heap[data[s][i]] \in Seq(AnyField) /\ records[i] \in Seq(AnyField)
    BY <1>1, <2>2 DEF FanoutTypes
  <2>4. Got(heap, data[s]) = Passed(records, path[s])
    BY <1>0, <1>1
  <2>5. Got(heap, data[s])[i] = heap[data[s][i]]
    BY <2>2 DEF Got
  <2>6. Passed(records, path[s])[i] = records[i] \o Names(path[s])
    BY DEF Passed
  <2>7. records[i] \o Names(Append(path[s], s)) = (records[i] \o Names(path[s])) \o fields
    BY <1>4, <2>3, PassedOn
  <2> QED
    BY <2>3, <2>4, <2>5, <2>6, <2>7
<1>8. /\ heap' \in Seq(Seq(AnyField)) /\ data' \in [Sinks -> [1..n -> 1..Len(heap')]]
      /\ \A t \in Sinks : t # s => Got(heap', data'[t]) = Got(heap, data[t])
      /\ Got(heap', data'[s]) = [i \in 1..n |-> heap[data[s][i]] \o fields]
  <2>1. CASE Usable(MetaOf[s]) = {}
    <3>1. heap' = heap /\ data' = data
      BY <1>1, <1>3, <2>1 DEF inject_oml_name, FanoutTypes
    <3>2. fields = <<>>
      BY <2>1, NameFieldsAre
    <3>3. ASSUME NEW i \in 1..n
          PROVE  heap[data[s][i]] \o fields = heap[data[s][i]]
      <4>1. heap[data[s][i]] \in Seq(AnyField)
        BY <1>7
      <4> QED
        BY <3>2, <4>1
    <3>4. DOMAIN data[s] = 1..n
      BY <1>1 DEF FanoutTypes
    <3>5. Got(heap, data[s]) = [i \in 1..n |-> heap[data[s][i]] \o fields]
      BY <3>3, <3>4 DEF Got
    <3> QED
      BY <1>1, <3>1, <3>5 DEF FanoutTypes
  <2>2. CASE Usable(MetaOf[s]) # {}
    <3> DEFINE added == [i \in 1..n |-> heap[data[s][i]] \o fields]
               list == [i \in 1..n |-> Len(heap) + i]
    <3>1. data[s] \in [1..n -> 1..Len(heap)] /\ Len(data[s]) = n
      BY <1>1 DEF FanoutTypes
    <3>2. heap' = heap \o added /\ data' = [data EXCEPT ![s] = list]
      BY <1>3, <2>2, <3>1 DEF inject_oml_name
    <3>3. added \in Seq(Seq(AnyField)) /\ Len(added) = n
      <4>1. ASSUME NEW i \in 1..n
            PROVE  heap[data[s][i]] \o fields \in Seq(AnyField)
        <5>1. heap[data[s][i]] \in Seq(AnyField)
          BY <1>7
        <5> HIDE DEF fields
        <5> QED
          BY <1>2, <5>1
      <4> HIDE DEF fields
      <4> QED
        BY <1>1, <4>1
    <3>4. heap \in Seq(Seq(AnyField))
      BY <1>1 DEF FanoutTypes
    <3>5. /\ heap' \in Seq(Seq(AnyField)) /\ Len(heap') = Len(heap) + n
          /\ \A j \in 1..Len(heap) : heap'[j] = heap[j]
          /\ \A i \in 1..n : heap'[Len(heap) + i] = added[i]
      <4> HIDE DEF added
      <4>1. /\ heap' \in Seq(Seq(AnyField)) /\ Len(heap') = Len(heap) + n
            /\ \A i \in 1..(Len(heap) + n) :
                 heap'[i] = IF i <= Len(heap) THEN heap[i] ELSE added[i - Len(heap)]
        <5> DEFINE T == Seq(AnyField)
        <5>1. heap \in Seq(T) /\ added \in Seq(T)
          BY <3>3, <3>4
        <5> HIDE DEF T
        <5>2. /\ heap \o added \in Seq(T) /\ Len(heap \o added) = Len(heap) + Len(added)
              /\ \A i \in 1..Len(heap \o added) :
                   (heap \o added)[i] =
                     IF i <= Len(heap) THEN heap[i] ELSE added[i - Len(heap)]
          BY <5>1, ConcatIs
        <5> QED
          BY <3>2, <3>3, <5>2 DEF T
      <4>2. \A j \in 1..Len(heap) : heap'[j] = heap[j]
        BY <1>1, <4>1
      <4>3. ASSUME NEW i \in 1..n
            PROVE  heap'[Len(heap) + i] = added[i]
        <5>1. Len(heap) + i \in 1..(Len(heap) + n) /\ ~(Len(heap) + i <= Len(heap))
              /\ (Len(heap) + i) - Len(heap) = i
          BY <1>1
        <5> QED
          BY <4>1, <5>1
      <4> QED
        BY <4>1, <4>2, <4>3
    <3>6. data'[s] = list /\ \A t \in Sinks : t # s => data'[t] = data[t]
      BY <1>1, <3>2 DEF FanoutTypes
    <3>7. \A t \in Sinks : data[t] \in [1..n -> 1..Len(heap)]
      BY <1>1 DEF FanoutTypes
    <3>8. list \in [1..n -> 1..(Len(heap) + n)]
      BY <1>1
    <3>9. \A t \in Sinks : data'[t] \in [1..n -> 1..Len(heap')]
      <4> SUFFICES ASSUME NEW t \in Sinks PROVE data'[t] \in [1..n -> 1..Len(heap')]
        OBVIOUS
      <4>1. 1..Len(heap) \subseteq 1..(Len(heap) + n)
        BY <1>1
      <4> HIDE DEF list
      <4> QED
        BY <3>5, <3>6, <3>7, <3>8, <4>1
    <3>10. data' \in [Sinks -> [1..n -> 1..Len(heap')]]
      <4>1. DOMAIN data' = Sinks /\ data' = [t \in Sinks |-> data'[t]]
        BY <1>1, <3>2 DEF FanoutTypes
      <4> QED
        BY <3>9, <4>1
    <3>11. ASSUME NEW t \in Sinks, t # s
           PROVE  Got(heap', data'[t]) = Got(heap, data[t])
      <4>1. data'[t] = data[t] /\ data[t] \in [1..n -> 1..Len(heap)]
        BY <3>6, <3>7, <3>11
      <4>2. \A i \in DOMAIN data[t] : heap'[data[t][i]] = heap[data[t][i]]
        BY <3>5, <4>1
      <4> QED
        BY <4>1, <4>2 DEF Got
    <3>12. Got(heap', data'[s]) = added
      <4>1. DOMAIN list = 1..n /\ \A i \in 1..n : list[i] = Len(heap) + i
        OBVIOUS
      <4>2. added = [i \in 1..n |-> added[i]]
        OBVIOUS
      <4> HIDE DEF list, added
      <4> QED
        BY <3>5, <3>6, <4>1, <4>2 DEF Got
    <3> QED
      BY <3>5, <3>10, <3>11, <3>12
  <2> QED
    BY <2>1, <2>2
<1>9. FanoutTypes'
  BY <1>1, <1>3, <1>5, <1>6, <1>8 DEF FanoutTypes
<1>10. ASSUME NEW t \in Sinks
       PROVE  Got(heap, data[t])' = Passed(records, path[t])'
  <2>1. CASE t = s
    <3>1. Passed(records, path[t])' = [i \in 1..n |-> records[i] \o Names(Append(path[s], s))]
      BY <1>3, <1>5, <2>1 DEF Passed
    <3>2. Got(heap, data[t])' = [i \in 1..n |-> heap[data[s][i]] \o fields]
      BY <1>8, <2>1
    <3> QED
      BY <1>7, <3>1, <3>2
  <2>2. CASE t # s
    <3>1. Got(heap, data[t]) = Passed(records, path[t])
      BY DEF FanoutInv
    <3> QED
      BY <1>3, <1>5, <1>8, <2>2, <3>1
  <2> QED
    BY <2>1, <2>2
<1>11. \A t \in Sinks : stage'[t] = "done" =>
         stage[t] = "done" /\ path'[t] = path[t] /\ written'[t] = written[t]
  BY <1>3, <1>5, <1>6
<1> QED
  BY <1>3, <1>9, <1>10, <1>11 DEF FanoutInv, Sinks

\* A sink that is done writes what it holds.
LEMMA FinishKeeps ==
  ASSUME FanoutInv, NEW s \in Sinks, NEW output, Finish(s, output),
         s \in TextSinks => output = Passed(records, path[s]),
         s \in ArrowSinks => \/ AllInOne(Passed(records, path[s]), output)
                             \/ OneByOne(Passed(records, path[s]), output)
  PROVE  FanoutInv'
<1>1. /\ records' = records /\ heap' = heap /\ data' = data /\ path' = path
      /\ stage' = [stage EXCEPT ![s] = "done"] /\ written' = [written EXCEPT ![s] = output]
  BY DEF Finish
<1>2. /\ written'[s] = output /\ DOMAIN written' = Sinks
      /\ \A t \in Sinks : t # s => written'[t] = written[t] /\ stage'[t] = stage[t]
  BY <1>1 DEF FanoutInv, FanoutTypes
<1>3. FanoutTypes'
  BY <1>1, <1>2 DEF FanoutInv, FanoutTypes
<1>4. \A t \in Sinks : Got(heap, data[t])' = Passed(records, path[t])'
  BY <1>1 DEF FanoutInv
<1>5. \A t \in TextSinks : stage'[t] = "done" => written'[t] = Passed(records, path[t])
  BY <1>2 DEF FanoutInv, Sinks
<1>6. \A t \in ArrowSinks : stage'[t] = "done" =>
        \/ AllInOne(Passed(records, path[t]), written'[t])
        \/ OneByOne(Passed(records, path[t]), written'[t])
  BY <1>2 DEF FanoutInv, Sinks
<1> QED
  BY <1>1, <1>3, <1>4, <1>5, <1>6 DEF FanoutInv

LEMMA FanoutStep ==
  FanoutInv /\ [Next]_vars => FanoutInv'
<1> SUFFICES ASSUME FanoutInv, [Next]_vars PROVE FanoutInv'
  OBVIOUS
<1>1. ASSUME NEW s \in Sinks
      PROVE  Held(s) = Passed(records, path[s]) /\ DOMAIN data[s] = DOMAIN Held(s)
  BY DEF Held, Got, FanoutInv
<1>2. ASSUME NEW s \in TextSinks, Inject(s)
      PROVE  FanoutInv'
  BY <1>2, InjectKeeps
<1>3. ASSUME NEW s \in TextSinks, WriteLines(s)
      PROVE  FanoutInv'
  <2>1. s \in Sinks /\ s \notin ArrowSinks
    BY FanoutAssumption DEF Sinks
  <2>2. Finish(s, Passed(records, path[s]))
    BY <1>1, <1>3, <2>1 DEF WriteLines
  <2> QED
    BY <2>1, <2>2, FinishKeeps
<1>4. ASSUME NEW s \in ArrowSinks, EncodeAll(s)
      PROVE  FanoutInv'
  <2>1. s \in Sinks /\ s \notin TextSinks
    BY FanoutAssumption DEF Sinks
  <2> DEFINE rows == Passed(records, path[s])
  <2>2. Held(s) = rows /\ DOMAIN data[s] = DOMAIN rows
    BY <1>1, <2>1
  <2> HIDE DEF rows
  <2>3. \E schema \in SchemasOf(rows) :
          \E batch \in data_records_to_batch(rows, schema) : Finish(s, <<batch>>)
    BY <1>4, <2>2 DEF EncodeAll, SchemasOf
  <2>4. PICK schema \in SchemasOf(rows) :
          \E batch \in data_records_to_batch(rows, schema) : Finish(s, <<batch>>)
    BY <2>3
  <2>5. PICK batch \in data_records_to_batch(rows, schema) : Finish(s, <<batch>>)
    BY <2>4
  <2>6. AllInOne(rows, <<batch>>)
    BY DEF AllInOne
  <2> USE DEF rows
  <2> QED
    BY <2>1, <2>5, <2>6, FinishKeeps
<1>5. ASSUME NEW s \in ArrowSinks, EncodeEach(s)
      PROVE  FanoutInv'
  <2>1. s \in Sinks /\ s \notin TextSinks
    BY FanoutAssumption DEF Sinks
  <2> DEFINE rows == Passed(records, path[s])
             MadeOf(i) == data_record_to_batch(rows[i], infer_schema_from_record(rows[i]))
  <2>2. Held(s) = rows /\ DOMAIN data[s] = DOMAIN rows
    BY <1>1, <2>1
  <2> HIDE DEF rows
  <2>3. \E batches \in [DOMAIN rows -> UNION {MadeOf(i) : i \in DOMAIN rows}] :
          (\A i \in DOMAIN rows : batches[i] \in MadeOf(i)) /\ Finish(s, batches)
    BY <1>5, <2>2 DEF EncodeEach
  <2>4. PICK batches \in [DOMAIN rows -> UNION {MadeOf(i) : i \in DOMAIN rows}] :
          (\A i \in DOMAIN rows : batches[i] \in MadeOf(i)) /\ Finish(s, batches)
    BY <2>3
  <2>5. OneByOne(rows, batches)
    BY <2>4 DEF OneByOne
  <2> USE DEF rows
  <2> QED
    BY <2>1, <2>4, <2>5, FinishKeeps
<1>6. ASSUME NEW s \in ArrowSinks, EncodeFails(s)
      PROVE  FanoutInv'
  <2>1. /\ records' = records /\ heap' = heap /\ data' = data /\ path' = path
        /\ written' = written /\ stage' = [stage EXCEPT ![s] = "failed"] /\ s \in Sinks
    BY <1>6 DEF EncodeFails, Sinks
  <2>2. FanoutTypes'
    BY <2>1 DEF FanoutInv, FanoutTypes
  <2>3. \A t \in Sinks : stage'[t] = "done" => stage[t] = "done"
    BY <2>1 DEF FanoutInv, FanoutTypes
  <2> QED
    BY <2>1, <2>2, <2>3 DEF FanoutInv, Sinks
<1>7. ASSUME NEW s \in Sinks, NEW t \in Sinks, HandOn(s, t)
      PROVE  FanoutInv'
  <2>1. /\ records' = records /\ heap' = heap /\ stage' = stage /\ written' = written
        /\ data' = [data EXCEPT ![t] = data[s]] /\ path' = [path EXCEPT ![t] = path[s]]
        /\ stage[t] = "given"
    BY <1>7 DEF HandOn
  <2>2. FanoutTypes
    BY DEF FanoutInv
  <2>3. /\ data' \in [Sinks -> [1..Len(records) -> 1..Len(heap)]]
        /\ path' \in [Sinks -> Seq(TextSinks)]
        /\ data'[t] = data[s] /\ path'[t] = path[s]
        /\ \A u \in Sinks : u # t => data'[u] = data[u] /\ path'[u] = path[u]
    BY <2>1, <2>2 DEF FanoutTypes
  <2>4. FanoutTypes'
    BY <2>1, <2>2, <2>3 DEF FanoutTypes
  <2>5. ASSUME NEW u \in Sinks
        PROVE  Got(heap, data[u])' = Passed(records, path[u])'
    <3>1. CASE u = t
      BY <2>1, <2>3, <3>1 DEF FanoutInv
    <3>2. CASE u # t
      BY <2>1, <2>3, <3>2 DEF FanoutInv
    <3> QED
      BY <3>1, <3>2
  <2>6. \A u \in Sinks : stage[u] = "done" => path'[u] = path[u]
    BY <2>1, <2>3
  <2> QED
    BY <2>1, <2>4, <2>5, <2>6 DEF FanoutInv, Sinks
<1>8. CASE UNCHANGED vars
  <2>1. /\ records' = records /\ heap' = heap /\ data' = data /\ stage' = stage
        /\ path' = path /\ written' = written
    BY <1>8 DEF vars
  <2> QED
    BY <2>1 DEF FanoutInv, FanoutTypes
<1> QED
  BY <1>2, <1>3, <1>4, <1>5, <1>6, <1>7, <1>8 DEF Next

\* Every sink holds the parsed records with the names of its list's way, and has made
\* of them only what its rows allow.
THEOREM FanoutInvariantHolds ==
  Spec => []FanoutInv
<1> QED
  BY FanoutInit, FanoutStep, PTL DEF Spec

------------------------------------------------------------------------------
(* Nobody else's name.                                                      *)

\* What inject_oml_name appends is the mark of the sink, for every BatchMeta.
LEMMA MarkIs ==
  ASSUME NEW s \in TextSinks
  PROVE  NameFields(MetaOf[s]) = Mark(s)
<1> DEFINE m == MetaOf[s]
<1>1. m \in Meta
  BY FanoutAssumption
<1>2. \A a, b \in m.oml_name : a = b
  BY <1>1 DEF Meta
<1>3. CASE m.oml_name \in {{}, {""}} \/ "wp_oml_name" \in m.disabled
  <2>1. Usable(m) = {}
    BY <1>3 DEF Usable
  <2> QED
    BY <1>3, <2>1 DEF NameFields, Mark
<1>4. CASE ~(m.oml_name \in {{}, {""}} \/ "wp_oml_name" \in m.disabled)
  <2>1. PICK n \in m.oml_name : n # ""
    BY <1>4
  <2>2. m.oml_name = {n} /\ Usable(m) = m.oml_name /\ Usable(m) # {}
    BY <1>2, <1>4, <2>1 DEF Usable
  <2>3. NameFields(m) = <<[name |-> "wp_oml_name", type |-> "Chars",
                           value |-> CHOOSE a \in m.oml_name : TRUE]>>
    BY <2>2, Zenon DEF NameFields
  <2> QED
    BY <1>4, <2>3, Zenon DEF Mark
<1> QED
  BY <1>3, <1>4

LEMMA ExpectedIs ==
  ASSUME FanoutTypes, NEW s \in Sinks
  PROVE  Expected(s) = Passed(records, path[s])
<1>1. path[s] \in Seq(TextSinks) /\ DOMAIN path[s] = 1..Len(path[s])
  BY DEF FanoutTypes
<1>2. DOMAIN records = 1..Len(records)
  BY DEF FanoutTypes
<1> DEFINE Parts == [k \in 1..Len(path[s]) |-> NameFields(MetaOf[path[s][k]])]
           Marks == [k \in 1..Len(path[s]) |-> Mark(path[s][k])]
<1>3. Parts \in Seq(Seq(AnyField))
  BY <1>1, NamesAre
<1>4. Names(path[s]) = Flat(Parts)
  BY DEF Names
<1>5. Expected(s) = [i \in 1..Len(records) |-> records[i] \o SE!FlattenSeq(Parts)]
  <2>1. \A k \in 1..Len(path[s]) : path[s][k] \in TextSinks
    BY <1>1
  <2>2. \A k \in 1..Len(path[s]) : NameFields(MetaOf[path[s][k]]) = Mark(path[s][k])
    BY <2>1, MarkIs
  <2>3. Parts = Marks
    BY <2>2
  <2>4. Expected(s) = [i \in 1..Len(records) |-> records[i] \o SE!FlattenSeq(Marks)]
    BY <1>1, <1>2 DEF Expected
  <2> HIDE DEF Parts, Marks
  <2> QED
    BY <2>3, <2>4
<1> HIDE DEF Parts
<1>6. SE!FlattenSeq(Parts) = Names(path[s])
  BY <1>3, <1>4, FlattenIs
<1> QED
  BY <1>5, <1>6 DEF Passed

\* A sink holds and writes the parsed records with its own name, or the names of the
\* sinks its list went through, and no other; no sink adds a name that is empty or
\* disabled (inject_oml_name).
THEOREM NamesStayApart ==
  Spec => []OwnNameOnly
<1>1. FanoutInv => OwnNameOnly
  <2> SUFFICES ASSUME FanoutInv, NEW s \in Sinks
               PROVE  /\ Held(s) = Expected(s)
                      /\ s \in TextSinks /\ stage[s] = "done" => written[s] = Expected(s)
    BY DEF OwnNameOnly
  <2>1. Expected(s) = Passed(records, path[s])
    BY ExpectedIs DEF FanoutInv
  <2> QED
    BY <2>1 DEF FanoutInv, Held, Got
<1> QED
  BY <1>1, FanoutInvariantHolds, PTL

------------------------------------------------------------------------------
(* What an Arrow sink makes of its rows.                                    *)

\* The values that fill column c of a record.
Filling(record, schema, c) == {f.value : f \in FieldFor(record, schema, c)}

\* A column that takes whatever the record has for it.
AllSuit(record, schema, c) ==
  \A f \in FieldFor(record, schema, c) : Suits(f, schema[c])

\* Cells of a record: null, or what fills the column; the latter where it suits.
CellsFit(record, schema, cells) ==
  \A c \in DOMAIN schema :
    /\ cells[c] = {} \/ cells[c] = Filling(record, schema, c)
    /\ AllSuit(record, schema, c) => cells[c] = Filling(record, schema, c)

LEMMA BatchIs ==
  ASSUME NEW rows, NEW schema, NEW batch \in data_records_to_batch(rows, schema)
  PROVE  /\ batch.schema = schema /\ DOMAIN batch.cells = DOMAIN rows
         /\ \A r \in DOMAIN rows : CellsFit(rows[r], schema, batch.cells[r])
<1> DEFINE Cells(refused) ==
      [r \in DOMAIN rows |-> [c \in DOMAIN schema |->
        IF <<r, c>> \in refused THEN {} ELSE Filling(rows[r], schema, c)]]
<1>1. PICK refused \in SUBSET Doubtful(rows, schema) :
        batch = [schema |-> schema, cells |-> Cells(refused)]
  BY DEF data_records_to_batch, Filling
<1>2. batch.schema = schema /\ batch.cells = Cells(refused)
  BY <1>1
<1>3. ASSUME NEW r \in DOMAIN rows, NEW c \in DOMAIN schema
      PROVE  /\ batch.cells[r][c] = {} \/ batch.cells[r][c] = Filling(rows[r], schema, c)
             /\ AllSuit(rows[r], schema, c) =>
                  batch.cells[r][c] = Filling(rows[r], schema, c)
  <2>1. batch.cells[r][c] =
          IF <<r, c>> \in refused THEN {} ELSE Filling(rows[r], schema, c)
    BY <1>2
  <2>2. ASSUME <<r, c>> \in refused
        PROVE  ~AllSuit(rows[r], schema, c)
    <3>1. <<r, c>> \in Doubtful(rows, schema)
      BY <2>2
    <3> QED
      BY <3>1 DEF Doubtful, AllSuit
  <2> QED
    BY <2>1, <2>2
<1> QED
  BY <1>2, <1>3 DEF CellsFit

\* The batch and the cells an output has for row i (see Batch and Row).
BatchOf(output, i) == IF Len(output) = 1 THEN output[1] ELSE output[i]
RowOf(output, i) ==
  BatchOf(output, i).cells[IF Len(BatchOf(output, i).cells) = 1 THEN 1 ELSE i]

LEMMA LenIs ==
  ASSUME NEW f, NEW n \in Nat, DOMAIN f = 1..n
  PROVE  Len(f) = n
OBVIOUS

\* Each row of an output fits its record, with a schema from the configuration or from
\* the record that gives it its columns.
LEMMA RowFits ==
  ASSUME NEW rows, NEW n \in Nat, DOMAIN rows = 1..n, NEW output, NEW i \in 1..n,
         AllInOne(rows, output) \/ OneByOne(rows, output)
  PROVE  \E schema :
           /\ BatchOf(output, i).schema = schema
           /\ CellsFit(rows[i], schema, RowOf(output, i))
           /\ \/ schema = infer_arrow_schema(Columns)
              \/ schema = infer_schema_from_record(rows[IF Len(output) = 1 THEN 1 ELSE i])
<1>1. CASE AllInOne(rows, output)
  <2>1. PICK schema \in SchemasOf(rows) :
          \E batch \in data_records_to_batch(rows, schema) : output = <<batch>>
    BY <1>1 DEF AllInOne
  <2>2. PICK batch \in data_records_to_batch(rows, schema) : output = <<batch>>
    BY <2>1
  <2>3. Len(output) = 1 /\ BatchOf(output, i) = batch
    BY <2>2 DEF BatchOf
  <2>4. /\ batch.schema = schema /\ DOMAIN batch.cells = 1..n
        /\ CellsFit(rows[i], schema, batch.cells[i])
    BY BatchIs
  <2>5. Len(batch.cells) = n
    BY <2>4
  <2>6. RowOf(output, i) = batch.cells[i]
    BY <2>3, <2>5 DEF RowOf
  <2> QED
    BY <2>1, <2>3, <2>4, <2>6 DEF SchemasOf
<1>2. CASE OneByOne(rows, output)
  <2>1. /\ DOMAIN output = 1..n
        /\ output[i] \in data_record_to_batch(rows[i], infer_schema_from_record(rows[i]))
    BY <1>2 DEF OneByOne
  <2>2. Len(output) = n
    BY <2>1
  <2>3. BatchOf(output, i) = output[i] /\ (Len(output) = 1 => i = 1)
    BY <2>2 DEF BatchOf
  <2> DEFINE schema == infer_schema_from_record(rows[i])
             row == <<rows[i]>>
  <2>4. DOMAIN row = 1..1 /\ row[1] = rows[i]
    OBVIOUS
  <2>5. output[i] \in data_records_to_batch(row, schema)
    BY <2>1 DEF data_record_to_batch
  <2> HIDE DEF schema, row
  <2>6. /\ output[i].schema = schema /\ DOMAIN output[i].cells = 1..1
        /\ CellsFit(rows[i], schema, output[i].cells[1])
    BY <2>4, <2>5, BatchIs
  <2>7. Len(output[i].cells) = 1
    BY <2>6, LenIs
  <2>8. RowOf(output, i) = output[i].cells[1]
    BY <2>3, <2>7 DEF RowOf
  <2> QED
    BY <2>3, <2>6, <2>8 DEF schema
<1> QED
  BY <1>1, <1>2

\* The same of an Arrow sink that is done.
LEMMA EncodedFits ==
  ASSUME FanoutInv, NEW s \in Encoded, NEW i \in DOMAIN records
  PROVE  LET schema == Batch(s, i).schema IN
         /\ CellsFit(Expected(s)[i], schema, Row(s, i))
         /\ \/ schema = infer_arrow_schema(Columns)
            \/ schema = infer_schema_from_record(
                          Expected(s)[IF Len(written[s]) = 1 THEN 1 ELSE i])
<1>1. s \in ArrowSinks /\ s \in Sinks /\ stage[s] = "done"
  BY DEF Encoded, Sinks
<1>2. Len(records) \in Nat /\ DOMAIN records = 1..Len(records)
  BY DEF FanoutInv, FanoutTypes
<1> DEFINE rows == Passed(records, path[s])
<1>3. Expected(s) = rows
  BY <1>1, ExpectedIs DEF FanoutInv
<1>4. DOMAIN rows = 1..Len(records)
  BY DEF Passed
<1>5. AllInOne(rows, written[s]) \/ OneByOne(rows, written[s])
  BY <1>1 DEF FanoutInv
<1>6. Batch(s, i) = BatchOf(written[s], i) /\ Row(s, i) = RowOf(written[s], i)
  BY DEF Batch, BatchOf, Row, RowOf
<1> HIDE DEF rows
<1> QED
  BY <1>2, <1>3, <1>4, <1>5, <1>6, RowFits

\* The first field of a name fills a column of that name that takes its type.
LEMMA FirstFills ==
  ASSUME NEW S, NEW record \in Seq(S), NEW k \in DOMAIN record, NEW schema,
         NEW c \in DOMAIN schema, schema[c].name = record[k].name,
         \A j \in 1..(k - 1) : record[j].name # record[k].name,
         Suits(record[k], schema[c])
  PROVE  AllSuit(record, schema, c) /\ Filling(record, schema, c) = {record[k].value}
<1>1. DOMAIN record = 1..Len(record) /\ Len(record) \in Nat /\ k \in Nat
  OBVIOUS
<1>2. ASSUME NEW m \in DOMAIN record, record[m].name = schema[c].name,
             \A j \in 1..(m - 1) : record[j].name # schema[c].name
      PROVE  m = k
  BY <1>1, <1>2
<1>3. FieldFor(record, schema, c) = {record[k]}
  BY <1>2 DEF FieldFor
<1> QED
  BY <1>3 DEF AllSuit, Filling

\* Nothing an Ok encoding leaves out is left out without a reason.
THEOREM NothingLostWithoutCause ==
  Spec => []ValueLossHasCause
<1>1. FanoutInv => ValueLossHasCause
  <2> SUFFICES ASSUME FanoutInv, NEW s \in Encoded, NEW i \in DOMAIN records,
                      NEW k \in DOMAIN Expected(s)[i]
               PROVE  LET f     == Expected(s)[i][k]
                          first == Expected(s)[IF Len(written[s]) = 1 THEN 1 ELSE i]
                          batch == Batch(s, i)
                      IN \/ \E c \in DOMAIN batch.schema :
                              batch.schema[c].name = f.name /\ Row(s, i)[c] = {f.value}
                         \/ f.type = "Ignore"
                         \/ \E j \in 1..(k - 1) : Expected(s)[i][j].name = f.name
                         \/ batch.schema = infer_arrow_schema(Columns)
                              /\ f.name \notin SE!ToSet(Columns)
                         \/ batch.schema # infer_arrow_schema(Columns)
                              /\ ~\E j \in DOMAIN first :
                                   first[j].name = f.name /\ first[j].type = f.type
    BY DEF ValueLossHasCause
  <2> DEFINE at == IF Len(written[s]) = 1 THEN 1 ELSE i
             rows == Expected(s)
             record == rows[i]
             f == record[k]
             schema == Batch(s, i).schema
             cells == Row(s, i)
  <2>1. /\ CellsFit(record, schema, cells)
        /\ schema = infer_arrow_schema(Columns) \/ schema = infer_schema_from_record(rows[at])
    BY EncodedFits
  <2>2. \A r \in DOMAIN rows : rows[r] \in Seq(AnyField)
    <3>1. s \in Sinks /\ FanoutTypes
      BY DEF Encoded, Sinks, FanoutInv
    <3>2. rows = Passed(records, path[s]) /\ Names(path[s]) \in Seq(AnyField)
      BY <3>1, ExpectedIs, NamesAre DEF FanoutTypes
    <3>3. \A r \in 1..Len(records) : records[r] \in Seq(AnyField)
      BY <3>1 DEF FanoutTypes
    <3> HIDE DEF rows
    <3> QED
      BY <3>2, <3>3 DEF Passed
  <2>3. DOMAIN rows = DOMAIN records
    BY DEF Expected
  <2>4. record \in Seq(AnyField) /\ k \in DOMAIN record
    BY <2>2, <2>3
  <2>5. at \in DOMAIN rows
    <3>1. Len(records) \in Nat /\ DOMAIN records = 1..Len(records)
      BY DEF FanoutInv, FanoutTypes
    <3> QED
      BY <2>3, <3>1
  <2> HIDE DEF at, rows, record, schema, cells
  <2>6. ASSUME f.type # "Ignore", \A j \in 1..(k - 1) : record[j].name # f.name,
               NEW c \in DOMAIN schema, schema[c].name = f.name, Suits(f, schema[c])
        PROVE  cells[c] = {f.value}
    <3>1. AllSuit(record, schema, c) /\ Filling(record, schema, c) = {f.value}
      BY <2>4, <2>6, FirstFills
    <3> QED
      BY <2>1, <3>1 DEF CellsFit
  <2>7. ASSUME f.type # "Ignore", \A j \in 1..(k - 1) : record[j].name # f.name,
               schema = infer_arrow_schema(Columns), f.name \in SE!ToSet(Columns)
        PROVE  \E c \in DOMAIN schema : schema[c].name = f.name /\ cells[c] = {f.value}
    <3>1. PICK c \in DOMAIN Columns : Columns[c] = f.name
      BY <2>7 DEF SE!ToSet
    <3>2. c \in 1..Len(Columns)
      BY FanoutAssumption
    <3>3. c \in DOMAIN schema /\ schema[c] = Column(f.name, "Utf8")
      BY <2>7, <3>1, <3>2 DEF infer_arrow_schema
    <3>4. schema[c].name = f.name /\ Suits(f, schema[c])
      BY <2>7, <3>3 DEF Column, Suits
    <3> QED
      BY <2>6, <2>7, <3>3, <3>4
  <2>8. ASSUME f.type # "Ignore", \A j \in 1..(k - 1) : record[j].name # f.name,
               schema = infer_schema_from_record(rows[at]),
               NEW j \in DOMAIN rows[at], rows[at][j].name = f.name, rows[at][j].type = f.type
        PROVE  \E c \in DOMAIN schema : schema[c].name = f.name /\ cells[c] = {f.value}
    <3>1. rows[at] \in Seq(AnyField) /\ j \in 1..Len(rows[at])
      BY <2>2, <2>5
    <3>2. PICK c \in 1..Len(Kept(rows[at])) : Kept(rows[at])[c] = rows[at][j]
      BY <2>8, <3>1, KeptHas
    <3>3. c \in DOMAIN schema /\ schema[c] = Column(f.name, wp_type_to_arrow(f.type))
      BY <2>8, <3>2 DEF infer_schema_from_record
    <3>4. schema[c].name = f.name /\ Suits(f, schema[c])
      BY <2>8, <3>3 DEF Column, Suits
    <3> QED
      BY <2>6, <2>8, <3>3, <3>4
  <2> QED
    BY <2>1, <2>7, <2>8 DEF at, rows, record, schema, cells
<1> QED
  BY <1>1, FanoutInvariantHolds, PTL

==============================================================================
