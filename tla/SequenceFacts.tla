---------------------------- MODULE SequenceFacts ----------------------------
(***************************************************************************)
(* Facts about natural numbers and sequences that several components'      *)
(* proofs need: the least element of a set of numbers, induction over a    *)
(* set of numbers, and what the concatenation of a sequence of sequences,  *)
(* a recursive function, computes.                                         *)
(***************************************************************************)
EXTENDS Integers, Sequences, FiniteSets,
        SequenceTheorems, FiniteSetTheorems, WellFoundedInduction, TLAPS

\* A set of natural numbers that is not empty has a least element: the intervals
\* 0..x are finite sets, and those are well-founded under inclusion.
LEMMA LeastExists ==
  ASSUME NEW T \in SUBSET Nat, T # {}
  PROVE  \E x \in T : \A y \in T : x <= y
<1> DEFINE U == {0..x : x \in T}
           R == StrictSubsetOrdering(Nat)
<1>1. ASSUME NEW x \in T
      PROVE  0..x \in FiniteSubsetsOf(Nat)
  <2>1. IsFiniteSet(0..x)
    BY FS_Interval
  <2> QED
    BY <2>1 DEF FiniteSubsetsOf
<1>2. U \subseteq FiniteSubsetsOf(Nat) /\ U # {}
  BY <1>1
<1>3. IsWellFoundedOn(R, FiniteSubsetsOf(Nat))
  BY FS_StrictSubsetOrderingWellFounded
<1>4. PICK u \in U : \A v \in U : ~(<<v, u>> \in R)
  <2> HIDE DEF U, R
  <2> QED
    BY <1>2, <1>3, WFMin
<1>5. PICK x \in T : u = 0..x
  OBVIOUS
<1>6. ASSUME NEW y \in T
      PROVE  x <= y
  <2>1. ~(<<0..y, 0..x>> \in R)
    BY <1>4, <1>5
  <2>2. 0..y \in SUBSET Nat /\ 0..x \in SUBSET Nat
    OBVIOUS
  <2>3. ~(0..y \subseteq 0..x /\ 0..y # 0..x)
    BY <2>1, <2>2 DEF StrictSubsetOrdering
  <2>4. SUFFICES ASSUME y < x PROVE FALSE
    OBVIOUS
  <2>5. x \in 0..x /\ x \notin 0..y /\ 0..y \subseteq 0..x
    BY <2>4
  <2> QED
    BY <2>3, <2>5
<1> QED
  BY <1>6

\* Induction: a set that holds 0, and n + 1 with n, holds every natural number.
LEMMA Induction ==
  ASSUME NEW T, 0 \in T, \A n \in Nat : n \in T => n + 1 \in T
  PROVE  \A n \in Nat : n \in T
<1> DEFINE C == Nat \ T
<1>1. SUFFICES ASSUME C # {} PROVE FALSE
  OBVIOUS
<1>2. PICK x \in C : \A y \in C : x <= y
  <2>1. C \in SUBSET Nat
    OBVIOUS
  <2> HIDE DEF C
  <2> QED
    BY <1>1, <2>1, LeastExists
<1>3. x # 0 /\ x - 1 \in Nat /\ x - 1 \notin C
  BY <1>2
<1> QED
  BY <1>3

------------------------------------------------------------------------------
(* Sequences grow at their end.                                             *)

LEMMA AppendIs ==
  ASSUME NEW E, NEW s \in Seq(E), NEW e \in E
  PROVE  /\ Append(s, e) \in Seq(E) /\ Append(s, e) # <<>>
         /\ Len(Append(s, e)) = Len(s) + 1 /\ Len(s) \in Nat
         /\ Append(s, e)[Len(s) + 1] = e
         /\ \A i \in 1..Len(s) : Append(s, e)[i] = s[i]
OBVIOUS

\* Every sequence but the empty one is one shorter with something appended.
LEMMA SplitLast ==
  ASSUME NEW E, NEW s \in Seq(E), NEW n \in Nat, Len(s) = n + 1
  PROVE  /\ SubSeq(s, 1, n) \in Seq(E) /\ Len(SubSeq(s, 1, n)) = n
         /\ s[n + 1] \in E
         /\ s = Append(SubSeq(s, 1, n), s[n + 1])
         /\ \A i \in 1..n : SubSeq(s, 1, n)[i] = s[i]
OBVIOUS

\* Induction over the length: a set that holds the empty sequence, and what comes
\* of its members by appending an element, holds every sequence.
LEMMA SequenceInduction ==
  ASSUME NEW E, NEW T, <<>> \in T,
         \A s \in Seq(E) : \A e \in E : s \in T => Append(s, e) \in T
  PROVE  \A s \in Seq(E) : s \in T
<1> DEFINE N == {n \in Nat : \A s \in Seq(E) : Len(s) = n => s \in T}
<1>1. 0 \in N
  OBVIOUS
<1>2. ASSUME NEW n \in Nat, n \in N
      PROVE  n + 1 \in N
  <2> SUFFICES ASSUME NEW s \in Seq(E), Len(s) = n + 1
               PROVE  s \in T
    OBVIOUS
  <2> DEFINE r == SubSeq(s, 1, n)
  <2>1. r \in Seq(E) /\ Len(r) = n /\ s[n + 1] \in E /\ s = Append(r, s[n + 1])
    BY SplitLast
  <2> HIDE DEF r
  <2>2. r \in T
    BY <1>2, <2>1
  <2>3. Append(r, s[n + 1]) \in T
    BY <2>1, <2>2
  <2> QED
    BY <2>1, <2>3
<1>3. \A n \in Nat : n \in N
  <2> HIDE DEF N
  <2> QED
    BY <1>1, <1>2, Induction
<1>4. ASSUME NEW s \in Seq(E)
      PROVE  s \in T
  <2>1. Len(s) \in N
    BY <1>3
  <2> QED
    BY <2>1
<1> QED
  BY <1>4

------------------------------------------------------------------------------
(* The concatenation of a sequence of sequences.                            *)

\* Joined(s)[n] is the first n sequences of s, one behind the other.
Joined(s) ==
  LET joined[i \in 1..Len(s)] == IF i = 1 THEN s[i] ELSE joined[i - 1] \o s[i]
  IN joined

\* The equation of the function is met by a function on every shorter domain.
LEMMA JoinedUpTo ==
  ASSUME NEW s, NEW n \in Nat
  PROVE  \E f : f = [i \in 1..n |-> IF i = 1 THEN s[i] ELSE f[i - 1] \o s[i]]
<1> DEFINE Is(m, f) == f = [i \in 1..m |-> IF i = 1 THEN s[i] ELSE f[i - 1] \o s[i]]
           T == {m \in Nat : \E f : Is(m, f)}
<1>1. 0 \in T
  <2>1. Is(0, <<>>)
    OBVIOUS
  <2> QED
    BY <2>1
<1>2. ASSUME NEW m \in Nat, m \in T
      PROVE  m + 1 \in T
  <2>1. PICK f : Is(m, f)
    BY <1>2
  <2> DEFINE last == IF m + 1 = 1 THEN s[m + 1] ELSE f[m] \o s[m + 1]
             g == [i \in 1..(m + 1) |-> IF i = m + 1 THEN last ELSE f[i]]
  <2>2. ASSUME NEW i \in 1..(m + 1)
        PROVE  g[i] = IF i = 1 THEN s[i] ELSE g[i - 1] \o s[i]
    <3>1. CASE i = m + 1
      <4>1. m # 0 => g[m] = f[m]
        OBVIOUS
      <4> QED
        BY <3>1, <4>1
    <3>2. CASE i \in 1..m
      <4>1. g[i] = f[i] /\ (i # 1 => g[i - 1] = f[i - 1])
        BY <3>2
      <4>2. f[i] = IF i = 1 THEN s[i] ELSE f[i - 1] \o s[i]
        BY <2>1, <3>2
      <4> QED
        BY <4>1, <4>2
    <3> QED
      BY <3>1, <3>2
  <2>3. g = [i \in 1..(m + 1) |-> g[i]]
    OBVIOUS
  <2> HIDE DEF g
  <2>4. Is(m + 1, g)
    BY <2>2, <2>3
  <2>5. \E h : Is(m + 1, h)
    BY <2>4
  <2> HIDE DEF Is
  <2> QED
    BY <2>5
<1>3. \A m \in Nat : m \in T
  <2> HIDE DEF T
  <2> QED
    BY <1>1, <1>2, Induction
<1>4. \E f : Is(n, f)
  BY <1>3
<1> QED
  BY <1>4

\* What the recursive function is.
LEMMA JoinedIs ==
  ASSUME NEW E, NEW s \in Seq(Seq(E))
  PROVE  /\ DOMAIN Joined(s) = 1..Len(s)
         /\ Len(s) # 0 => Joined(s)[1] = s[1]
         /\ \A i \in 1..(Len(s) - 1) : Joined(s)[i + 1] = Joined(s)[i] \o s[i + 1]
         /\ \A i \in 1..Len(s) : Joined(s)[i] \in Seq(E)
<1> DEFINE J == Joined(s)
           T == {n \in Nat : n + 1 \in 1..Len(s) => J[n + 1] \in Seq(E)}
<1>1. J = [i \in 1..Len(s) |-> IF i = 1 THEN s[i] ELSE J[i - 1] \o s[i]]
  <2>1. \E f : f = [i \in 1..Len(s) |-> IF i = 1 THEN s[i] ELSE f[i - 1] \o s[i]]
    <3>1. Len(s) \in Nat
      OBVIOUS
    <3> QED
      BY <3>1, JoinedUpTo
  <2> QED
    BY <2>1, Zenon DEF Joined
<1> HIDE DEF J
<1>2. \A i \in 1..Len(s) : J[i] = IF i = 1 THEN s[i] ELSE J[i - 1] \o s[i]
  BY <1>1
<1>3. 0 \in T
  BY <1>2
<1>4. ASSUME NEW n \in Nat, n \in T
      PROVE  n + 1 \in T
  <2> SUFFICES ASSUME (n + 1) + 1 \in 1..Len(s)
               PROVE  J[(n + 1) + 1] \in Seq(E)
    OBVIOUS
  <2>1. n + 1 \in 1..Len(s) /\ (n + 1) + 1 # 1 /\ ((n + 1) + 1) - 1 = n + 1
    OBVIOUS
  <2>2. J[n + 1] \in Seq(E) /\ s[(n + 1) + 1] \in Seq(E)
    BY <1>4, <2>1
  <2>3. J[(n + 1) + 1] = J[n + 1] \o s[(n + 1) + 1]
    BY <1>2, <2>1
  <2> QED
    BY <2>2, <2>3
<1>5. \A n \in Nat : n \in T
  <2> HIDE DEF T
  <2> QED
    BY <1>3, <1>4, Induction
<1>6. ASSUME NEW i \in 1..Len(s)
      PROVE  J[i] \in Seq(E)
  <2>1. i - 1 \in Nat /\ (i - 1) + 1 = i
    OBVIOUS
  <2>2. i - 1 \in T
    BY <1>5, <2>1
  <2> QED
    BY <2>1, <2>2
<1>7. DOMAIN J = 1..Len(s)
  BY <1>1
<1>8. Len(s) # 0 => J[1] = s[1]
  BY <1>2
<1>9. ASSUME NEW i \in 1..(Len(s) - 1)
      PROVE  J[i + 1] = J[i] \o s[i + 1]
  <2>1. i + 1 \in 1..Len(s) /\ i + 1 # 1 /\ (i + 1) - 1 = i
    OBVIOUS
  <2> QED
    BY <1>2, <2>1
<1> QED
  BY <1>6, <1>7, <1>8, <1>9 DEF J

\* Two functions that meet the equation agree as far as their sequences do.
LEMMA JoinedAgrees ==
  ASSUME NEW E, NEW s \in Seq(Seq(E)), NEW t \in Seq(Seq(E)),
         Len(s) <= Len(t), \A i \in 1..Len(s) : s[i] = t[i]
  PROVE  \A i \in 1..Len(s) : Joined(s)[i] = Joined(t)[i]
<1> DEFINE T == {n \in Nat : n + 1 \in 1..Len(s) => Joined(s)[n + 1] = Joined(t)[n + 1]}
<1>1. Len(s) \in Nat /\ Len(t) \in Nat
  OBVIOUS
<1>2. 0 \in T
  <2> SUFFICES ASSUME 0 + 1 \in 1..Len(s)
               PROVE  Joined(s)[0 + 1] = Joined(t)[0 + 1]
    OBVIOUS
  <2>1. Len(s) # 0 /\ Len(t) # 0 /\ s[1] = t[1] /\ 0 + 1 = 1
    BY <1>1
  <2>2. Joined(s)[1] = s[1] /\ Joined(t)[1] = t[1]
    BY <2>1, JoinedIs
  <2> QED
    BY <2>1, <2>2
<1>3. ASSUME NEW n \in Nat, n \in T
      PROVE  n + 1 \in T
  <2> SUFFICES ASSUME (n + 1) + 1 \in 1..Len(s)
               PROVE  Joined(s)[(n + 1) + 1] = Joined(t)[(n + 1) + 1]
    OBVIOUS
  <2>1. n + 1 \in 1..(Len(s) - 1) /\ n + 1 \in 1..(Len(t) - 1) /\ n + 1 \in 1..Len(s)
    BY <1>1
  <2>2. Joined(s)[n + 1] = Joined(t)[n + 1] /\ s[(n + 1) + 1] = t[(n + 1) + 1]
    BY <1>3, <2>1
  <2>3. /\ Joined(s)[(n + 1) + 1] = Joined(s)[n + 1] \o s[(n + 1) + 1]
        /\ Joined(t)[(n + 1) + 1] = Joined(t)[n + 1] \o t[(n + 1) + 1]
    BY <2>1, JoinedIs
  <2> QED
    BY <2>2, <2>3
<1>4. \A n \in Nat : n \in T
  <2> HIDE DEF T
  <2> QED
    BY <1>2, <1>3, Induction
<1>5. ASSUME NEW i \in 1..Len(s)
      PROVE  Joined(s)[i] = Joined(t)[i]
  <2>1. i - 1 \in Nat /\ (i - 1) + 1 = i
    OBVIOUS
  <2>2. i - 1 \in T
    BY <1>4, <2>1
  <2> QED
    BY <2>1, <2>2
<1> QED
  BY <1>5

\* All the sequences of s, one behind the other.
Flat(s) == IF s = <<>> THEN <<>> ELSE Joined(s)[Len(s)]

LEMMA FlatType ==
  ASSUME NEW E, NEW s \in Seq(Seq(E))
  PROVE  Flat(s) \in Seq(E)
<1>1. CASE s = <<>>
  BY <1>1 DEF Flat
<1>2. CASE s # <<>>
  <2>1. Len(s) \in 1..Len(s)
    BY <1>2
  <2> QED
    BY <1>2, <2>1, JoinedIs DEF Flat
<1> QED
  BY <1>1, <1>2

\* What is appended to s comes behind what s holds.
LEMMA FlatAppend ==
  ASSUME NEW E, NEW s \in Seq(Seq(E)), NEW e \in Seq(E)
  PROVE  Flat(Append(s, e)) = Flat(s) \o e
<1> DEFINE t == Append(s, e)
<1>1. /\ t \in Seq(Seq(E)) /\ Len(t) = Len(s) + 1 /\ Len(s) \in Nat
      /\ t # <<>> /\ t[Len(s) + 1] = e
      /\ \A i \in 1..Len(s) : s[i] = t[i]
  BY AppendIs
<1> HIDE DEF t
<1>2. Flat(t) = Joined(t)[Len(s) + 1]
  BY <1>1 DEF Flat
<1>3. CASE s = <<>>
  <2>1. Joined(t)[1] = e /\ Len(s) + 1 = 1
    <3>1. Len(s) + 1 = 1 /\ Len(t) # 0 /\ t[1] = e
      BY <1>1, <1>3
    <3> QED
      BY <1>1, <3>1, JoinedIs
  <2>2. <<>> \o e = e
    OBVIOUS
  <2> QED
    BY <1>2, <1>3, <2>1, <2>2 DEF Flat, t
<1>4. CASE s # <<>>
  <2>1. Len(s) \in 1..Len(s) /\ Len(s) \in 1..(Len(t) - 1) /\ Len(s) <= Len(t)
    BY <1>1, <1>4
  <2>2. Joined(t)[Len(s) + 1] = Joined(t)[Len(s)] \o e
    BY <1>1, <2>1, JoinedIs
  <2>3. Joined(s)[Len(s)] = Joined(t)[Len(s)]
    BY <1>1, <2>1, JoinedAgrees
  <2> QED
    BY <1>2, <1>4, <2>2, <2>3 DEF Flat, t
<1> QED
  BY <1>3, <1>4

LEMMA ConcatIs ==
  ASSUME NEW E, NEW s \in Seq(E), NEW t \in Seq(E)
  PROVE  /\ s \o t \in Seq(E) /\ Len(s \o t) = Len(s) + Len(t)
         /\ Len(s) \in Nat /\ Len(t) \in Nat
         /\ \A i \in 1..Len(s \o t) :
              (s \o t)[i] = IF i <= Len(s) THEN s[i] ELSE t[i - Len(s)]
OBVIOUS

\* Concatenation keeps its parts together.
LEMMA ConcatAppend ==
  ASSUME NEW E, NEW s \in Seq(E), NEW t \in Seq(E), NEW e \in E
  PROVE  s \o Append(t, e) = Append(s \o t, e)
<1>1. /\ s \o Append(t, e) \in Seq(E) /\ Append(s \o t, e) \in Seq(E)
      /\ Len(s \o Append(t, e)) = Len(Append(s \o t, e))
  OBVIOUS
<1>2. \A i \in 1..Len(Append(s \o t, e)) : (s \o Append(t, e))[i] = Append(s \o t, e)[i]
  OBVIOUS
<1> QED
  BY <1>1, <1>2

LEMMA FlatConcat ==
  ASSUME NEW E, NEW s \in Seq(Seq(E)), NEW t \in Seq(Seq(E))
  PROVE  Flat(s \o t) = Flat(s) \o Flat(t)
<1> DEFINE T == {r \in Seq(Seq(E)) : Flat(s \o r) = Flat(s) \o Flat(r)}
<1>1. <<>> \in T
  <2>1. s \o <<>> = s /\ Flat(<<>>) = <<>> /\ <<>> \in Seq(Seq(E))
    BY DEF Flat
  <2>2. Flat(s) \in Seq(E)
    BY FlatType
  <2>3. Flat(s) \o <<>> = Flat(s)
    BY <2>2
  <2> QED
    BY <2>1, <2>3
<1>2. ASSUME NEW r \in Seq(Seq(E)), NEW e \in Seq(E), r \in T
      PROVE  Append(r, e) \in T
  <2>1. s \o r \in Seq(Seq(E)) /\ Append(r, e) \in Seq(Seq(E))
    OBVIOUS
  <2>2. s \o Append(r, e) = Append(s \o r, e)
    BY ConcatAppend
  <2>3. Flat(Append(s \o r, e)) = Flat(s \o r) \o e
    BY <2>1, FlatAppend
  <2>4. Flat(Append(r, e)) = Flat(r) \o e
    BY FlatAppend
  <2>5. Flat(s) \in Seq(E) /\ Flat(r) \in Seq(E)
    BY FlatType
  <2>6. (Flat(s) \o Flat(r)) \o e = Flat(s) \o (Flat(r) \o e)
    BY <2>5, ConcatAssociative, SMTT(30)
  <2>7. Flat(s \o r) = Flat(s) \o Flat(r)
    BY <1>2
  <2> QED
    BY <2>1, <2>2, <2>3, <2>4, <2>6, <2>7
<1>3. \A r \in Seq(Seq(E)) : r \in T
  <2> HIDE DEF T
  <2> QED
    BY <1>1, <1>2, SequenceInduction
<1> QED
  BY <1>3

\* A sequence is the concatenation of its elements.
LEMMA FlatSingles ==
  ASSUME NEW E, NEW s \in Seq(E)
  PROVE  Flat([i \in 1..Len(s) |-> <<s[i]>>]) = s
<1> DEFINE Singles(r) == [i \in 1..Len(r) |-> <<r[i]>>]
           T == {r \in Seq(E) : Flat(Singles(r)) = r}
<1>1. <<>> \in T
  BY DEF Flat
<1>2. ASSUME NEW r \in Seq(E), NEW e \in E, r \in T
      PROVE  Append(r, e) \in T
  <2>1. Singles(r) \in Seq(Seq(E)) /\ <<e>> \in Seq(E)
    OBVIOUS
  <2>2. Singles(Append(r, e)) = Append(Singles(r), <<e>>)
    OBVIOUS
  <2> HIDE DEF Singles
  <2>3. Flat(Singles(Append(r, e))) = Flat(Singles(r)) \o <<e>>
    BY <2>1, <2>2, FlatAppend
  <2>4. r \o <<e>> = Append(r, e) /\ Append(r, e) \in Seq(E)
    OBVIOUS
  <2> QED
    BY <1>2, <2>3, <2>4
<1>3. \A r \in Seq(E) : r \in T
  <2> HIDE DEF T
  <2> QED
    BY <1>1, <1>2, SequenceInduction
<1> QED
  BY <1>3

==============================================================================
