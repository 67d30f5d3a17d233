--------------------------- MODULE SequenceLemmas ---------------------------
(***************************************************************************)
(* What Append, Tail and the removal of one element do to a sequence,      *)
(* element by element: the form in which the proofs about the queues and   *)
(* the list use them.                                                      *)
(***************************************************************************)
EXTENDS SequenceTheorems, TLAPS

\* No two elements of s are equal.
NoRepeats(s) == \A i, j \in 1..Len(s) : s[i] = s[j] => i = j

\* r is s without its element at place k.
RemovedFrom(r, s, k) ==
  /\ Len(r) = Len(s) - 1
  /\ \A i \in 1..Len(s) - 1 : r[i] = IF i < k THEN s[i] ELSE s[i + 1]

\* e is an element of s.
Among(e, s) == \E i \in 1..Len(s) : s[i] = e

\* What Append does to a sequence, element by element.
LEMMA AppendCell ==
  ASSUME NEW S, NEW s \in Seq(S), NEW e \in S
  PROVE  /\ Append(s, e) \in Seq(S)
         /\ Append(s, e) # <<>>
         /\ Len(Append(s, e)) = Len(s) + 1
         /\ Len(s) \in Nat
         /\ \A i \in 1..Len(s) : Append(s, e)[i] = s[i]
         /\ Append(s, e)[Len(s) + 1] = e
  OBVIOUS

\* What Tail does to a sequence, element by element.
LEMMA TailCell ==
  ASSUME NEW S, NEW s \in Seq(S), s # <<>>
  PROVE  /\ Tail(s) \in Seq(S)
         /\ Len(s) \in Nat /\ Len(s) >= 1
         /\ Len(Tail(s)) = Len(s) - 1
         /\ \A i \in 1..Len(s) - 1 : Tail(s)[i] = s[i + 1]
         /\ Tail(s) = <<>> <=> Len(s) = 1
<1>1. /\ Tail(s) \in Seq(S)
      /\ Len(Tail(s)) = Len(s) - 1
      /\ \A i \in 1..Len(Tail(s)) : Tail(s)[i] = s[i + 1]
  BY HeadTailProperties
<1>2. Len(s) \in Nat /\ Len(s) >= 1
  BY EmptySeq
<1>3. Tail(s) = <<>> <=> Len(Tail(s)) = 0
  BY <1>1, EmptySeq
<1> QED
  BY <1>1, <1>2, <1>3

\* What a removal of the element at place k makes of a sequence.
LEMMA RemoveIsSeq ==
  ASSUME NEW S, NEW s \in Seq(S), NEW k \in 1..Len(s)
  PROVE  LET r == [i \in 1..Len(s) - 1 |-> IF i < k THEN s[i] ELSE s[i + 1]]
         IN  r \in Seq(S) /\ RemovedFrom(r, s, k)
<1> DEFINE r == [i \in 1..Len(s) - 1 |-> IF i < k THEN s[i] ELSE s[i + 1]]
<1>1. Len(s) - 1 \in Nat /\ \A i \in 1..Len(s) : s[i] \in S
  OBVIOUS
<1>2. \A i \in 1..Len(s) - 1 : (IF i < k THEN s[i] ELSE s[i + 1]) \in S
  BY <1>1
<1>3. r \in Seq(S) /\ Len(r) = Len(s) - 1
  BY <1>1, <1>2, IsASeq
<1> QED
  BY <1>3 DEF RemovedFrom

\* A removal leaves the other elements of a sequence without repetitions.
LEMMA RemoveCell ==
  ASSUME NEW S, NEW s \in Seq(S), NEW k \in 1..Len(s), NEW r \in Seq(S),
         RemovedFrom(r, s, k), NoRepeats(s)
  PROVE  NoRepeats(r) /\ \A e : Among(e, r) <=> Among(e, s) /\ e # s[k]
<1>1. PICK n \in Nat : n = Len(s)
  OBVIOUS
<1>2. k \in 1..n /\ n >= 1 /\ \A i \in 1..n : s[i] \in S
  BY <1>1
<1>3. PICK m \in Nat : m + 1 = n
  BY <1>2
<1>4. Len(r) = m /\ \A i \in 1..m : r[i] = IF i < k THEN s[i] ELSE s[i + 1]
  BY <1>1, <1>3 DEF RemovedFrom
<1>5. \A i, j \in 1..n : s[i] = s[j] => i = j
  BY <1>1 DEF NoRepeats
<1>6. ASSUME NEW i \in 1..m, NEW j \in 1..m, r[i] = r[j] PROVE i = j
  <2>1. i \in 1..n /\ i + 1 \in 1..n /\ j \in 1..n /\ j + 1 \in 1..n
    BY <1>3
  <2>2. CASE i < k /\ j < k
    BY <1>4, <1>5, <1>6, <2>1, <2>2
  <2>3. CASE ~(i < k) /\ ~(j < k)
    <3>1. i + 1 = j + 1
      BY <1>4, <1>5, <1>6, <2>1, <2>3
    <3> QED
      BY <3>1
  <2>4. CASE i < k /\ ~(j < k)
    <3>1. i = j + 1
      BY <1>4, <1>5, <1>6, <2>1, <2>4
    <3> QED
      BY <1>2, <2>4, <3>1
  <2>5. CASE ~(i < k) /\ j < k
    <3>1. i + 1 = j
      BY <1>4, <1>5, <1>6, <2>1, <2>5
    <3> QED
      BY <1>2, <2>5, <3>1
  <2> QED
    BY <2>2, <2>3, <2>4, <2>5
<1>7. ASSUME NEW e, NEW i \in 1..m, r[i] = e PROVE e # s[k] /\ \E j \in 1..n : s[j] = e
  <2>1. i \in 1..n /\ i + 1 \in 1..n
    BY <1>3
  <2> QED
    BY <1>2, <1>3, <1>4, <1>5, <1>7, <2>1
<1>8. ASSUME NEW e, NEW i \in 1..n, s[i] = e, e # s[k] PROVE \E j \in 1..m : r[j] = e
  <2>1. CASE i < k
    BY <1>2, <1>3, <1>4, <1>8, <2>1
  <2>2. CASE i > k
    <3>1. PICK j \in Nat : j + 1 = i
      BY <1>8
    <3>2. j \in 1..m /\ ~(j < k)
      BY <1>2, <1>3, <2>2, <3>1
    <3> QED
      BY <1>4, <1>8, <3>1, <3>2
  <2>3. i # k
    BY <1>8
  <2>4. i < k \/ i > k
    BY <1>2, <2>3
  <2> QED
    BY <2>1, <2>2, <2>4
<1>9. \A e : (\E i \in 1..m : r[i] = e) <=> e # s[k] /\ \E i \in 1..n : s[i] = e
  BY <1>7, <1>8
<1> QED
  BY <1>1, <1>4, <1>6, <1>9 DEF NoRepeats, Among

\* So does the tail.
LEMMA TailDistinct ==
  ASSUME NEW S, NEW s \in Seq(S), s # <<>>, NoRepeats(s)
  PROVE  NoRepeats(Tail(s)) /\ \A e : Among(e, Tail(s)) => Among(e, s)
<1>1. PICK k \in Nat : k = Len(Tail(s))
  BY TailCell
<1>2. PICK t : t = Tail(s)
  OBVIOUS
<1>3. Len(t) = k /\ Len(s) = k + 1 /\ \A i \in 1..k : t[i] = s[i + 1]
  BY <1>1, <1>2, TailCell
<1>4. \A i, j \in 1..k + 1 : s[i] = s[j] => i = j
  BY <1>3 DEF NoRepeats
<1>5. \A i \in 1..k : i + 1 \in 1..k + 1
  OBVIOUS
<1>6. ASSUME NEW i \in 1..k, NEW j \in 1..k, t[i] = t[j] PROVE i = j
  <2>1. i + 1 = j + 1
    BY <1>3, <1>4, <1>5, <1>6
  <2> QED
    BY <2>1
<1>7. \A e : (\E i \in 1..k : t[i] = e) => \E i \in 1..k + 1 : s[i] = e
  BY <1>3, <1>5
<1> QED
  BY <1>2, <1>3, <1>6, <1>7 DEF NoRepeats, Among
=============================================================================
