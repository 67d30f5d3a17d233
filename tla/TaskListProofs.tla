--------------------------- MODULE TaskListProofs ---------------------------
(***************************************************************************)
(* Proofs about TaskList, for any sets of nodes and lists: the pointers of *)
(* each list are one ring, each value has one owner at a time and leaves   *)
(* its list by the end of the drop, and the pointers implement the         *)
(* sequences of TaskSequence.                                              *)
(*                                                                         *)
(* TasksOf walks the pointers.  Its value is found by showing that a given *)
(* sequence fits the pointers (RingOf): then the walk meets that sequence. *)
(***************************************************************************)
EXTENDS TaskList, SequenceLemmas, WellFoundedInduction

----------------------------------------------------------------------------
(* The inductive invariant *)

\* The pointers of list l form the ring of the tasks s.
RingOf(l, s) ==
  /\ s \in Seq(Nodes) /\ NoRepeats(s)
  /\ len[l] = Len(s)
  /\ front[l] = IF s = <<>> THEN Null ELSE s[1]
  /\ \A i \in 1..Len(s) : home[s[i]] = l
  /\ \A i \in 1..Len(s) - 1 : next[s[i]] = s[i + 1] /\ prev[s[i + 1]] = s[i]
  /\ s # <<>> => next[s[Len(s)]] = s[1] /\ prev[s[1]] = s[Len(s)]

RingInv ==
  /\ \A l \in Lists : RingOf(l, TasksOf(l))
  /\ \A n \in Nodes :
       \/ \E l \in Lists : Among(n, TasksOf(l))
       \/ next[n] = Null /\ prev[n] = Null

\* The cursor of l has yet to visit the tasks of the list behind the k-th, as
\* many as it has not popped.
WindowAt(l, k) ==
  /\ cursor[l].popped \in 0..len[l] /\ k \in 0..cursor[l].popped
  /\ cursor[l].popped # len[l] =>
       /\ cursor[l].front = TasksOf(l)[k + 1]
       /\ cursor[l].back = TasksOf(l)[k + (len[l] - cursor[l].popped)]

\* What borrows a list fits its ring, a list in its drop is not borrowed, and a
\* dropped one is empty.
BorrowOf(l) ==
  /\ cursor[l].open => \E k \in Nat : WindowAt(l, k)
  /\ ~cursor[l].open => cursor[l] = NoCursor
  /\ guard[l] # Null => Among(guard[l], TasksOf(l)) /\ ~cursor[l].open
  /\ dropping[l] # "no" => guard[l] = Null /\ ~cursor[l].open
  /\ dropping[l] = "done" => len[l] = 0

Borrows == \A l \in Lists : BorrowOf(l)

ListInv == ListTypeOK /\ RingInv /\ OwnedOnce /\ Borrows

----------------------------------------------------------------------------
(* Walking the pointers *)

\* A set of numbers has a least one.
LEMMA Least ==
  ASSUME NEW T, T \subseteq Nat, T # {}
  PROVE  \E x \in T : \A y \in T : ~(y < x)
<1> DEFINE R == OpToRel(<, Nat)
<1>1. IsWellFoundedOn(R, Nat)
  BY NatLessThanWellFounded
<1>2. PICK x \in T : \A y \in T : ~(<<y, x>> \in R)
  <2> HIDE DEF R
  <2> QED
    BY <1>1, WFMin
<1>3. \A a, b \in Nat : a < b => <<a, b>> \in R
  BY DEF OpToRel
<1> QED
  BY <1>2, <1>3

\* A walk along pointers that link the elements of s meets s.
LEMMA WalkIs ==
  ASSUME NEW first, NEW count \in Nat, NEW s \in [1..count -> Nodes],
         count > 0 => first = s[1],
         \A i \in 1..count - 1 : next[s[i]] = s[i + 1]
  PROVE  Walk(first, count) = s
<1> DEFINE Step(f) == [i \in 1..count |->
                         IF i = 1 THEN first
                         ELSE IF f[i - 1] = Null THEN Null ELSE next[f[i - 1]]]
<1>1. s = Step(s)
  <2>1. ASSUME NEW i \in 1..count PROVE s[i] = Step(s)[i]
    <3>1. CASE i = 1
      BY <3>1
    <3>2. CASE i # 1
      <4>1. PICK j \in 1..count - 1 : j + 1 = i
        BY <3>2
      <4>2. s[j] # Null
        BY NodesAssumption, <4>1
      <4> QED
        BY <4>1, <4>2, <3>2
    <3> QED
      BY <3>1, <3>2
  <2> QED
    BY <2>1
<1>2. PICK m : m = Walk(first, count) /\ m = Step(m)
  <2>1. Walk(first, count) = CHOOSE f : f = Step(f)
    BY DEF Walk
  <2> QED
    BY <1>1, <2>1
<1> HIDE DEF Step
<1>3. ASSUME m # s PROVE FALSE
  <2> DEFINE D == {i \in 1..count : m[i] # s[i]}
  <2>1. D # {}
    <3>1. m = [i \in 1..count |-> m[i]]
      <4>1. Step(m) = [i \in 1..count |-> Step(m)[i]]
        BY DEF Step
      <4> QED
        BY <1>2, <4>1
    <3>2. s = [i \in 1..count |-> s[i]]
      OBVIOUS
    <3> QED
      BY <1>3, <3>1, <3>2
  <2>2. PICK i \in D : \A j \in D : ~(j < i)
    <3>1. D \subseteq Nat
      OBVIOUS
    <3> HIDE DEF D
    <3> QED
      BY <2>1, <3>1, Least
  <2>3. m[i] = Step(m)[i] /\ s[i] = Step(s)[i]
    BY <1>1, <1>2
  <2>4. CASE i = 1
    BY <2>2, <2>3, <2>4 DEF Step
  <2>5. CASE i # 1
    <3>1. PICK j \in 1..count : j + 1 = i
      BY <2>5
    <3>2. m[j] = s[j]
      BY <2>2, <3>1
    <3> QED
      BY <2>2, <2>3, <2>5, <3>1, <3>2 DEF Step
  <2> QED
    BY <2>4, <2>5
<1> QED
  BY <1>2, <1>3

\* The walk along a ring from its front meets the tasks of the list.
LEMMA TasksAre ==
  \A l \in Lists : \A s : RingOf(l, s) => TasksOf(l) = s
<1> SUFFICES ASSUME NEW l \in Lists, NEW s, RingOf(l, s) PROVE TasksOf(l) = s
  OBVIOUS
<1>1. PICK c \in Nat : c = Len(s) /\ s \in [1..c -> Nodes]
  BY DEF RingOf
<1>2. /\ len[l] = c /\ (c > 0 => front[l] = s[1])
      /\ \A i \in 1..c - 1 : next[s[i]] = s[i + 1]
  BY <1>1, EmptySeq DEF RingOf
<1>3. Walk(front[l], c) = s
  BY <1>1, <1>2, WalkIs
<1> QED
  BY <1>2, <1>3 DEF TasksOf

LEMMA TasksAreNext ==
  \A l \in Lists : \A s : RingOf(l, s)' => TasksOf(l)' = s
<1>1. (\A l \in Lists : \A s : RingOf(l, s) => TasksOf(l) = s)'
  BY TasksAre, PTL
<1> QED
  BY <1>1

\* The ring of a list as a sequence of nodes that are distinct, linked both
\* ways and bound to the list.
LEMMA RingCells ==
  ASSUME RingInv, NEW l \in Lists
  PROVE  /\ TasksOf(l) \in Seq(Nodes) /\ len[l] = Len(TasksOf(l)) /\ len[l] \in Nat
         /\ \A i \in 1..len[l] : TasksOf(l)[i] \in Nodes /\ home[TasksOf(l)[i]] = l
                                 /\ next[TasksOf(l)[i]] # Null
         /\ front[l] = IF len[l] = 0 THEN Null ELSE TasksOf(l)[1]
<1>1. PICK s : s = TasksOf(l)
  OBVIOUS
<1>2. PICK c \in Nat : c = Len(s)
  BY <1>1 DEF RingInv, RingOf
<1>3. s \in Seq(Nodes) /\ RingOf(l, s) /\ \A i \in 1..c : s[i] \in Nodes
  BY <1>1, <1>2 DEF RingInv, RingOf
<1>4. ASSUME NEW i \in 1..c PROVE next[s[i]] # Null
  <2>1. CASE i = c
    BY <1>2, <1>3, <2>1, EmptySeq, NodesAssumption DEF RingOf
  <2>2. CASE i # c
    BY <1>2, <1>3, <2>2, NodesAssumption DEF RingOf
  <2> QED
    BY <2>1, <2>2
<1> QED
  BY <1>1, <1>2, <1>3, <1>4, EmptySeq DEF RingOf

LEMMA AmongTasks ==
  ASSUME RingInv, NEW l \in Lists, NEW n, Among(n, TasksOf(l))
  PROVE  n \in Nodes /\ home[n] = l /\ next[n] # Null
<1> QED
  BY RingCells DEF Among

\* get, remove and access find exactly the tasks of the list.
LEMMA FindsTasks ==
  ASSUME RingInv, NEW l \in Lists, NEW n \in Nodes
  PROVE  Linked(l, n) <=> Among(n, TasksOf(l))
<1>1. Among(n, TasksOf(l)) => Linked(l, n)
  BY RingCells DEF Among, Linked, Created
<1>2. ASSUME Linked(l, n) PROVE Among(n, TasksOf(l))
  <2>1. PICK m \in Lists : Among(n, TasksOf(m))
    BY <1>2 DEF RingInv, Linked
  <2>2. home[n] = m
    BY <2>1, RingCells DEF Among
  <2> QED
    BY <1>2, <2>1, <2>2 DEF Linked, Created
<1> QED
  BY <1>1, <1>2

----------------------------------------------------------------------------
(* Changes of a ring *)

\* A list that an operation on another one leaves alone keeps its ring.
LEMMA OtherRing ==
  ASSUME RingInv, NEW m \in Lists,
         len'[m] = len[m], front'[m] = front[m],
         \A n \in Nodes : Among(n, TasksOf(m)) =>
           next'[n] = next[n] /\ prev'[n] = prev[n] /\ home'[n] = home[n]
  PROVE  RingOf(m, TasksOf(m))' /\ TasksOf(m)' = TasksOf(m)
<1>1. PICK s : s = TasksOf(m)
  OBVIOUS
<1>2. PICK c \in Nat : c = Len(s)
  BY <1>1 DEF RingInv, RingOf
<1>3. RingOf(m, s) /\ s \in Seq(Nodes) /\ \A i \in 1..c : s[i] \in Nodes /\ Among(s[i], s)
  BY <1>1, <1>2 DEF RingInv, RingOf, Among
<1>4. \A i \in 1..c : next'[s[i]] = next[s[i]] /\ prev'[s[i]] = prev[s[i]] /\ home'[s[i]] = m
  BY <1>1, <1>2, <1>3 DEF RingOf
<1>5. \A i \in 1..c - 1 : next'[s[i]] = s[i + 1] /\ prev'[s[i + 1]] = s[i]
  <2>1. \A i \in 1..c - 1 : i \in 1..c /\ i + 1 \in 1..c
    OBVIOUS
  <2> QED
    BY <1>2, <1>3, <1>4, <2>1 DEF RingOf
<1>6. s # <<>> => next'[s[c]] = s[1] /\ prev'[s[1]] = s[c]
  BY <1>2, <1>3, <1>4, EmptySeq DEF RingOf
<1>7. RingOf(m, s)'
  BY <1>2, <1>3, <1>4, <1>5, <1>6 DEF RingOf
<1>8. TasksOf(m)' = s
  BY <1>7, TasksAreNext
<1> QED
  BY <1>1, <1>7, <1>8

\* No task is in two lists.
LEMMA OneRing ==
  ASSUME RingInv, NEW l \in Lists, NEW m \in Lists, NEW n,
         Among(n, TasksOf(l)), Among(n, TasksOf(m))
  PROVE  l = m
<1> QED
  BY RingCells DEF Among

\* push_back makes the node the last one of the ring.
LEMMA RingGrows ==
  ASSUME RingInv, ListTypeOK, OwnedOnce, NEW l \in Lists, NEW n \in Nodes,
         PushBack(l, n)
  PROVE  RingInv' /\ OwnedOnce'
         /\ TasksOf(l)' = Append(TasksOf(l), n)
         /\ \A m \in Lists \ {l} : TasksOf(m)' = TasksOf(m)
<1>1. PICK s : s = TasksOf(l)
  OBVIOUS
<1>2. PICK c \in Nat : c = Len(s)
  BY <1>1 DEF RingInv, RingOf
<1>3. /\ RingOf(l, s) /\ s \in Seq(Nodes)
      /\ \A i \in 1..c : s[i] \in Nodes /\ home[s[i]] = l /\ next[s[i]] # Null
      /\ \A i, j \in 1..c : s[i] = s[j] => i = j
  <2>1. RingOf(l, s)
    BY <1>1 DEF RingInv
  <2>2. s \in Seq(Nodes) /\ \A i, j \in 1..c : s[i] = s[j] => i = j
    BY <1>2, <2>1 DEF RingOf, NoRepeats
  <2>3. len[l] = c
    BY <1>2, <2>1 DEF RingOf
  <2> QED
    BY <1>1, <2>1, <2>2, <2>3, RingCells
<1>4. next[n] = Null /\ \A m \in Lists : ~Among(n, TasksOf(m))
  <2>1. home[n] = Null
    BY DEF PushBack
  <2>2. \A m \in Lists : ~Among(n, TasksOf(m))
    BY <2>1, AmongTasks, NodesAssumption
  <2> QED
    BY <2>2 DEF RingInv
<1>5. \A i \in 1..c : s[i] # n
  BY <1>3, <1>4
<1>6. PICK t : t = Append(s, n)
  OBVIOUS
<1>7. /\ t \in Seq(Nodes) /\ t # <<>> /\ Len(t) = c + 1 /\ t[c + 1] = n
      /\ \A i \in 1..c : t[i] = s[i]
  BY <1>2, <1>3, <1>6, AppendCell
<1>8. \A i \in 1..c + 1 : i \in 1..c \/ i = c + 1
  OBVIOUS
<1>9. /\ next \in [Nodes -> Nodes \cup {Null}] /\ prev \in [Nodes -> Nodes \cup {Null}]
      /\ len \in [Lists -> Nat] /\ front \in [Lists -> Nodes \cup {Null}]
      /\ home \in [Nodes -> Lists \cup {Null}] /\ value \in [Nodes -> [removed : Nat, released : Nat]]
  BY DEF ListTypeOK
<1>10. /\ next'[n] = t[1] /\ prev'[t[1]] = n
       /\ c > 0 => next'[s[c]] = n /\ prev'[n] = s[c]
       /\ \A e \in Nodes : e # n /\ (c = 0 \/ e # s[c]) => next'[e] = next[e]
       /\ \A e \in Nodes : e # n /\ (c = 0 \/ e # s[1]) => prev'[e] = prev[e]
  <2>1. CASE c = 0
    <3>1. t[1] = n
      BY <1>7, <2>1
    <3>2. front[l] = Null
      BY <1>2, <1>3, <2>1, EmptySeq DEF RingOf
    <3> QED
      BY <1>9, <2>1, <3>1, <3>2 DEF PushBack
  <2>2. CASE c > 0
    <3>1. front[l] = s[1] /\ prev[s[1]] = s[c] /\ t[1] = s[1] /\ s[1] \in Nodes /\ s[c] \in Nodes
      BY <1>2, <1>3, <1>7, <2>2, EmptySeq DEF RingOf
    <3>2. s[1] # Null /\ s[1] # n /\ s[c] # n
      BY <1>5, <2>2, <3>1, NodesAssumption
    <3>3. /\ prev' = [prev EXCEPT ![s[1]] = n, ![n] = s[c]]
          /\ next' = [next EXCEPT ![s[c]] = n, ![n] = s[1]]
      BY <3>1, <3>2 DEF PushBack
    <3> QED
      BY <1>9, <2>2, <3>1, <3>2, <3>3
  <2> QED
    BY <2>1, <2>2
<1>11. /\ front'[l] = t[1] /\ len'[l] = c + 1 /\ home' = [home EXCEPT ![n] = l]
       /\ value' = value /\ home[n] = Null
       /\ \A m \in Lists \ {l} : front'[m] = front[m] /\ len'[m] = len[m]
  <2>1. IF c = 0 THEN front[l] = Null ELSE front[l] = s[1] /\ s[1] # Null
    BY <1>2, <1>3, EmptySeq, NodesAssumption DEF RingOf
  <2>2. IF c = 0 THEN t[1] = n ELSE t[1] = s[1]
    BY <1>7
  <2> QED
    BY <1>2, <1>3, <1>9, <2>1, <2>2 DEF PushBack, RingOf
<1>12. \A i \in 1..c : next'[t[i]] = t[i + 1] /\ prev'[t[i + 1]] = t[i]
  <2> SUFFICES ASSUME NEW i \in 1..c PROVE next'[t[i]] = t[i + 1] /\ prev'[t[i + 1]] = t[i]
    OBVIOUS
  <2>1. t[i] = s[i] /\ s[i] \in Nodes /\ s[i] # n
    BY <1>3, <1>5, <1>7
  <2>2. CASE i = c
    BY <1>7, <1>10, <2>1, <2>2
  <2>3. CASE i # c
    <3>1. i \in 1..c - 1 /\ i + 1 \in 1..c /\ c \in 1..c /\ 1 \in 1..c /\ i + 1 # 1
      BY <2>3
    <3>2. s[i] # s[c] /\ s[i + 1] # s[1] /\ t[i + 1] = s[i + 1] /\ s[i + 1] # n /\ s[i + 1] \in Nodes
      BY <1>3, <1>5, <1>7, <2>3, <3>1
    <3>3. next[s[i]] = s[i + 1] /\ prev[s[i + 1]] = s[i]
      BY <1>2, <1>3, <3>1 DEF RingOf
    <3> QED
      BY <1>10, <2>1, <3>2, <3>3
  <2> QED
    BY <2>2, <2>3
<1>13. NoRepeats(t)
  BY <1>3, <1>5, <1>7, <1>8 DEF NoRepeats
<1>14. \A i \in 1..c + 1 : home'[t[i]] = l
  <2>1. \A i \in 1..c : home'[t[i]] = l
    BY <1>3, <1>5, <1>7, <1>9, <1>11
  <2> QED
    BY <1>7, <1>8, <1>9, <1>11, <2>1
<1>15. RingOf(l, t)'
  BY <1>7, <1>10, <1>11, <1>12, <1>13, <1>14 DEF RingOf
<1>16. TasksOf(l)' = t
  BY <1>15, TasksAreNext
<1>17. \A m \in Lists \ {l} : RingOf(m, TasksOf(m))' /\ TasksOf(m)' = TasksOf(m)
  <2> SUFFICES ASSUME NEW m \in Lists \ {l}
               PROVE  RingOf(m, TasksOf(m))' /\ TasksOf(m)' = TasksOf(m)
    OBVIOUS
  <2>1. ASSUME NEW e \in Nodes, Among(e, TasksOf(m))
        PROVE  next'[e] = next[e] /\ prev'[e] = prev[e] /\ home'[e] = home[e]
    <3>1. e # n /\ ~Among(e, s)
      BY <1>1, <1>4, <2>1, OneRing
    <3>2. c > 0 => e # s[c] /\ e # s[1]
      BY <1>2, <3>1 DEF Among
    <3> QED
      BY <1>2, <1>9, <1>10, <1>11, <3>1, <3>2
  <2> QED
    BY <1>11, <2>1, OtherRing
<1>18. \A e \in Nodes : (\E m \in Lists : Among(e, TasksOf(m)')) \/ (next'[e] = Null /\ prev'[e] = Null)
  <2> SUFFICES ASSUME NEW e \in Nodes, \A m \in Lists : ~Among(e, TasksOf(m)')
               PROVE  next'[e] = Null /\ prev'[e] = Null
    OBVIOUS
  <2>1. e # n /\ \A i \in 1..c : e # s[i]
    BY <1>7, <1>8, <1>16 DEF Among
  <2>2. \A m \in Lists : ~Among(e, TasksOf(m))
    BY <1>1, <1>2, <1>17, <2>1 DEF Among
  <2> QED
    BY <1>2, <1>10, <2>1, <2>2 DEF RingInv
<1>19. OwnedOnce'
  <2> SUFFICES ASSUME NEW e \in Nodes
               PROVE  (Linkage(e) + Outside(e))' = IF home'[e] = Null THEN 0 ELSE 1
    BY DEF OwnedOnce
  <2>1. Outside(e)' = Outside(e) /\ Linkage(e) + Outside(e) = IF home[e] = Null THEN 0 ELSE 1
    BY <1>11 DEF OwnedOnce, Outside
  <2>2. CASE e = n
    <3>1. next'[n] # Null /\ home'[n] # Null
      BY <1>7, <1>9, <1>10, <1>11, NodesAssumption
    <3>2. Linkage(n) = 0 /\ Linkage(n)' = 1
      BY <1>4, <3>1 DEF Linkage
    <3>3. Outside(n) \in Nat
      BY <1>9 DEF Outside
    <3> QED
      BY <1>11, <2>1, <2>2, <3>1, <3>2, <3>3
  <2>3. CASE e # n /\ c > 0 /\ e = s[c]
    <3>1. next'[e] # Null /\ next[e] # Null /\ home'[e] = home[e]
      BY <1>3, <1>9, <1>10, <1>11, <2>3, NodesAssumption
    <3> QED
      BY <2>1, <3>1 DEF Linkage
  <2>4. CASE e # n /\ (c = 0 \/ e # s[c])
    BY <1>9, <1>10, <1>11, <2>1, <2>4 DEF Linkage
  <2> QED
    BY <1>2, <2>2, <2>3, <2>4
<1>20. RingInv'
  BY <1>15, <1>16, <1>17, <1>18 DEF RingInv
<1> QED
  BY <1>1, <1>6, <1>16, <1>17, <1>19, <1>20

\* remove_unchecked takes one task out of the ring and leaves the order of the
\* others.
LEMMA RingShrinks ==
  ASSUME RingInv, ListTypeOK, OwnedOnce, NEW l \in Lists,
         NEW k \in 1..len[l], NEW owner \in {"removed", "released"},
         Unlink(l, TasksOf(l)[k]), Disown(TasksOf(l)[k], owner), home' = home
  PROVE  /\ RingInv' /\ OwnedOnce'
         /\ TasksOf(l)' \in Seq(Nodes) /\ RemovedFrom(TasksOf(l)', TasksOf(l), k)
         /\ \A m \in Lists \ {l} : TasksOf(m)' = TasksOf(m)
<1>1. PICK s : s = TasksOf(l)
  OBVIOUS
<1>2. PICK c \in Nat : c = Len(s) /\ c = len[l]
  BY <1>1 DEF RingInv, RingOf
<1>3. /\ RingOf(l, s) /\ s \in Seq(Nodes)
      /\ \A i \in 1..c : s[i] \in Nodes /\ home[s[i]] = l /\ next[s[i]] # Null
      /\ \A i, j \in 1..c : s[i] = s[j] => i = j
  <2>1. RingOf(l, s)
    BY <1>1 DEF RingInv
  <2>2. s \in Seq(Nodes) /\ \A i, j \in 1..c : s[i] = s[j] => i = j
    BY <1>2, <2>1 DEF RingOf, NoRepeats
  <2> QED
    BY <1>1, <1>2, <2>1, <2>2, RingCells
<1>4. PICK n \in Nodes : n = s[k] /\ k \in 1..c
  BY <1>2, <1>3
<1>5. /\ \A i \in 1..c - 1 : next[s[i]] = s[i + 1] /\ prev[s[i + 1]] = s[i]
      /\ next[s[c]] = s[1] /\ prev[s[1]] = s[c]
      /\ front[l] = s[1]
  BY <1>2, <1>3, <1>4, EmptySeq DEF RingOf
<1>6. PICK d \in Nat : d + 1 = c
  BY <1>4
<1>7. /\ k > 1 => prev[n] = s[k - 1] /\ k - 1 \in 1..c
      /\ k = 1 => prev[n] = s[c]
      /\ k < c => next[n] = s[k + 1] /\ k + 1 \in 1..c
      /\ k = c => next[n] = s[1]
  <2>1. CASE k > 1
    <3>1. PICK j \in 1..c - 1 : j + 1 = k
      BY <1>4, <2>1
    <3>2. prev[n] = s[j] /\ j = k - 1
      BY <1>4, <1>5, <3>1
    <3> QED
      BY <1>4, <1>5, <3>1, <3>2
  <2>2. CASE k = 1
    BY <1>4, <1>5, <2>2
  <2> QED
    BY <1>4, <2>1, <2>2
<1>8. /\ next \in [Nodes -> Nodes \cup {Null}] /\ prev \in [Nodes -> Nodes \cup {Null}]
      /\ len \in [Lists -> Nat] /\ front \in [Lists -> Nodes \cup {Null}]
      /\ value \in [Nodes -> [removed : Nat, released : Nat]]
      /\ home \in [Nodes -> Lists \cup {Null}]
  BY DEF ListTypeOK
<1>9. prev[n] \in Nodes /\ next[n] \in Nodes
  BY <1>3, <1>4, <1>6, <1>7
<1>10. /\ next'[n] = Null /\ prev'[n] = Null
       /\ prev[n] # n => next'[prev[n]] = next[n]
       /\ next[n] # n => prev'[next[n]] = prev[n]
       /\ \A e \in Nodes : e # n /\ e # prev[n] => next'[e] = next[e]
       /\ \A e \in Nodes : e # n /\ e # next[n] => prev'[e] = prev[e]
  BY <1>1, <1>4, <1>8, <1>9 DEF Unlink
<1>11. /\ len'[l] = d
       /\ front'[l] = IF c = 1 THEN Null ELSE IF k = 1 THEN s[2] ELSE s[1]
       /\ \A m \in Lists \ {l} : front'[m] = front[m] /\ len'[m] = len[m]
  <2>1. s[1] = n <=> k = 1
    BY <1>3, <1>4
  <2>2. k = 1 /\ c # 1 => next[n] = s[2]
    BY <1>4, <1>7
  <2> QED
    BY <1>1, <1>2, <1>4, <1>5, <1>6, <1>8, <2>1, <2>2 DEF Unlink
<1>12. PICK r \in Seq(Nodes) : RemovedFrom(r, s, k)
  BY <1>2, <1>3, <1>4, RemoveIsSeq
<1>13. Len(r) = d /\ \A i \in 1..d : r[i] = IF i < k THEN s[i] ELSE s[i + 1]
  <2>1. Len(s) - 1 = d
    BY <1>2, <1>6
  <2> QED
    BY <1>12, <2>1 DEF RemovedFrom
<1>14. NoRepeats(r) /\ \A e : Among(e, r) <=> Among(e, s) /\ e # n
  <2>1. NoRepeats(s) /\ s \in Seq(Nodes) /\ k \in 1..Len(s)
    BY <1>2, <1>3, <1>4 DEF RingOf
  <2> QED
    BY <1>4, <1>12, <2>1, RemoveCell
<1>15. \A i \in 1..d : i \in 1..c /\ i + 1 \in 1..c /\ r[i] \in Nodes /\ r[i] # n
  <2> SUFFICES ASSUME NEW i \in 1..d
               PROVE  i \in 1..c /\ i + 1 \in 1..c /\ r[i] \in Nodes /\ r[i] # n
    OBVIOUS
  <2>1. i \in 1..c /\ i + 1 \in 1..c
    BY <1>6
  <2>2. CASE i < k
    <3>1. r[i] = s[i] /\ i # k
      BY <1>4, <1>13, <2>2
    <3> QED
      BY <1>3, <1>4, <2>1, <3>1
  <2>3. CASE i >= k
    <3>1. r[i] = s[i + 1] /\ i + 1 # k
      BY <1>4, <1>13, <2>3
    <3> QED
      BY <1>3, <1>4, <2>1, <3>1
  <2> QED
    BY <1>4, <2>1, <2>2, <2>3
<1>16. \A i \in 1..d : home'[r[i]] = l
  BY <1>3, <1>13, <1>15
<1>17. ASSUME NEW i \in 1..d - 1 PROVE next'[r[i]] = r[i + 1] /\ prev'[r[i + 1]] = r[i]
  <2>1. i \in 1..d /\ i + 1 \in 1..d /\ i + 1 < c /\ i \in 1..c - 1 /\ i + 1 \in 1..c - 1
        /\ c \in 1..c /\ 1 \in 1..c /\ i \in 1..c /\ i + 1 \in 1..c /\ i + 2 \in 1..c
        /\ (i + 1) + 1 = i + 2
    BY <1>6
  <2>2. r[i] \in Nodes /\ r[i] # n /\ r[i + 1] \in Nodes /\ r[i + 1] # n
    BY <1>15, <2>1
  <2>3. CASE i + 1 < k
    <3>1. r[i] = s[i] /\ r[i + 1] = s[i + 1]
      BY <1>13, <2>1, <2>3
    <3>2. s[i] # prev[n]
      <4>1. k > 1 /\ i # k - 1
        BY <1>4, <2>1, <2>3
      <4> QED
        BY <1>3, <1>7, <2>1, <4>1
    <3>3. s[i + 1] # next[n]
      <4>1. CASE k < c
        <5>1. i + 1 # k + 1
          BY <1>4, <2>3
        <5> QED
          BY <1>3, <1>7, <2>1, <4>1, <5>1
      <4>2. CASE k = c
        <5>1. i + 1 # 1
          BY <2>1
        <5> QED
          BY <1>3, <1>7, <2>1, <4>2, <5>1
      <4> QED
        BY <1>4, <4>1, <4>2
    <3>4. next[s[i]] = s[i + 1] /\ prev[s[i + 1]] = s[i]
      BY <1>5, <2>1
    <3> QED
      BY <1>10, <2>2, <3>1, <3>2, <3>3, <3>4
  <2>4. CASE i + 1 = k
    <3>1. r[i] = s[i] /\ r[i + 1] = s[i + 2]
      BY <1>13, <2>1, <2>4
    <3>2. prev[n] = s[i] /\ next[n] = s[i + 2]
      <4>1. k > 1 /\ k < c /\ k - 1 = i /\ k + 1 = i + 2
        BY <2>1, <2>4
      <4> QED
        BY <1>7, <4>1
    <3> QED
      BY <1>10, <2>2, <3>1, <3>2
  <2>5. CASE i + 1 > k
    <3>1. r[i] = s[i + 1] /\ r[i + 1] = s[i + 2]
      BY <1>13, <2>1, <2>5
    <3>2. s[i + 1] # prev[n]
      <4>1. CASE k = 1
        BY <1>3, <1>7, <2>1, <4>1
      <4>2. CASE k > 1
        BY <1>3, <1>4, <1>7, <2>1, <2>5, <4>2
      <4> QED
        BY <1>4, <4>1, <4>2
    <3>3. s[i + 2] # next[n]
      <4>1. k < c /\ i + 2 # k + 1
        BY <1>4, <2>1, <2>5
      <4> QED
        BY <1>3, <1>7, <2>1, <4>1
    <3>4. next[s[i + 1]] = s[i + 2] /\ prev[s[i + 2]] = s[i + 1]
      BY <1>5, <2>1
    <3> QED
      BY <1>10, <2>2, <3>1, <3>2, <3>3, <3>4
  <2> QED
    BY <1>4, <2>1, <2>3, <2>4, <2>5
<1>18. ASSUME d > 0 PROVE next'[r[d]] = r[1] /\ prev'[r[1]] = r[d]
  <2>1. d \in 1..d /\ 1 \in 1..d /\ d \in 1..c - 1 /\ 1 \in 1..c - 1 /\ c \in 1..c /\ 1 \in 1..c
        /\ 2 \in 1..c /\ d \in 1..c
    BY <1>6, <1>18
  <2>2. r[d] \in Nodes /\ r[d] # n /\ r[1] \in Nodes /\ r[1] # n
    BY <1>15, <2>1
  <2>3. CASE k = 1
    <3>1. r[d] = s[c] /\ r[1] = s[2] /\ prev[n] = s[c] /\ next[n] = s[2]
      BY <1>6, <1>7, <1>13, <2>1, <2>3
    <3> QED
      BY <1>10, <2>2, <3>1
  <2>4. CASE k = c
    <3>1. r[d] = s[d] /\ r[1] = s[1] /\ prev[n] = s[d] /\ next[n] = s[1]
      BY <1>6, <1>7, <1>13, <2>1, <2>4
    <3> QED
      BY <1>10, <2>2, <3>1
  <2>5. CASE k > 1 /\ k < c
    <3>1. r[d] = s[c] /\ r[1] = s[1]
      BY <1>6, <1>13, <2>1, <2>5
    <3>2. s[c] # prev[n] /\ s[1] # next[n]
      BY <1>3, <1>4, <1>7, <2>1, <2>5
    <3> QED
      BY <1>5, <1>10, <2>2, <3>1, <3>2
  <2> QED
    BY <1>4, <2>3, <2>4, <2>5
<1>19. front'[l] = IF r = <<>> THEN Null ELSE r[1]
  <2>1. r = <<>> <=> c = 1
    BY <1>6, <1>13, EmptySeq
  <2>2. c # 1 => 1 \in 1..d /\ r[1] = IF k = 1 THEN s[2] ELSE s[1]
    BY <1>4, <1>6, <1>13
  <2> QED
    BY <1>11, <2>1, <2>2
<1>20. RingOf(l, r)'
  BY <1>11, <1>12, <1>13, <1>14, <1>16, <1>17, <1>18, <1>19, EmptySeq DEF RingOf
<1>21. TasksOf(l)' = r
  BY <1>20, TasksAreNext
<1>22. Among(n, s) /\ Among(prev[n], s) /\ Among(next[n], s)
  <2>1. c \in 1..c /\ 1 \in 1..c
    BY <1>4
  <2>2. \A i \in 1..c : Among(s[i], s)
    BY <1>2 DEF Among
  <2> QED
    BY <1>4, <1>7, <2>1, <2>2
<1>23. \A m \in Lists \ {l} : RingOf(m, TasksOf(m))' /\ TasksOf(m)' = TasksOf(m)
  <2> SUFFICES ASSUME NEW m \in Lists \ {l}
               PROVE  RingOf(m, TasksOf(m))' /\ TasksOf(m)' = TasksOf(m)
    OBVIOUS
  <2>1. ASSUME NEW e \in Nodes, Among(e, TasksOf(m))
        PROVE  next'[e] = next[e] /\ prev'[e] = prev[e] /\ home'[e] = home[e]
    <3>1. ~Among(e, s)
      BY <1>1, <2>1, OneRing
    <3> QED
      BY <1>10, <1>22, <3>1
  <2> QED
    BY <1>11, <2>1, OtherRing
<1>24. \A e \in Nodes : (\E m \in Lists : Among(e, TasksOf(m)')) \/ (next'[e] = Null /\ prev'[e] = Null)
  <2> SUFFICES ASSUME NEW e \in Nodes, \A m \in Lists : ~Among(e, TasksOf(m)')
               PROVE  next'[e] = Null /\ prev'[e] = Null
    OBVIOUS
  <2>1. CASE e = n
    BY <1>10, <2>1
  <2>2. CASE e # n
    <3>1. \A m \in Lists : ~Among(e, TasksOf(m))
      BY <1>1, <1>14, <1>21, <1>23, <2>2
    <3>2. e # prev[n] /\ e # next[n]
      BY <1>1, <1>22, <3>1
    <3> QED
      BY <1>10, <2>2, <3>1, <3>2 DEF RingInv
  <2> QED
    BY <2>1, <2>2
<1>25. OwnedOnce'
  <2> SUFFICES ASSUME NEW e \in Nodes
               PROVE  (Linkage(e) + Outside(e))' = IF home[e] = Null THEN 0 ELSE 1
    BY DEF OwnedOnce
  <2>1. Linkage(e) + Outside(e) = IF home[e] = Null THEN 0 ELSE 1
    BY DEF OwnedOnce
  <2>2. value' = [value EXCEPT ![n][owner] = @ + 1]
    BY <1>1, <1>4 DEF Disown
  <2>3. CASE e = n
    <3>1. home[n] # Null /\ Linkage(n) = 1 /\ Linkage(n)' = 0
      BY <1>3, <1>4, <1>10, NodesAssumption DEF Linkage
    <3>2. Outside(n) \in Nat /\ Outside(n)' = Outside(n) + 1
      <4>1. value[n].removed \in Nat /\ value[n].released \in Nat
        BY <1>8
      <4>2. CASE owner = "removed"
        <5>1. value'[n] = [value[n] EXCEPT !["removed"] = value[n]["removed"] + 1]
          BY <1>8, <2>2, <4>2
        <5>2. value'[n].removed = value[n].removed + 1 /\ value'[n].released = value[n].released
          BY <1>8, <5>1
        <5>3. Outside(n) = value[n].removed + value[n].released
          BY DEF Outside
        <5>4. Outside(n)' = (value[n].removed + 1) + value[n].released
          BY <5>2 DEF Outside
        <5> QED
          BY <4>1, <5>3, <5>4
      <4>3. CASE owner = "released"
        <5>1. value'[n] = [value[n] EXCEPT !["released"] = value[n]["released"] + 1]
          BY <1>8, <2>2, <4>3
        <5>2. value'[n].released = value[n].released + 1 /\ value'[n].removed = value[n].removed
          BY <1>8, <5>1
        <5>3. Outside(n) = value[n].removed + value[n].released
          BY DEF Outside
        <5>4. Outside(n)' = value[n].removed + (value[n].released + 1)
          BY <5>2 DEF Outside
        <5> QED
          BY <4>1, <5>3, <5>4
      <4> QED
        BY <4>2, <4>3
    <3> QED
      BY <2>1, <2>3, <3>1, <3>2
  <2>4. CASE e # n
    <3>1. Outside(e)' = Outside(e)
      BY <1>8, <2>2, <2>4 DEF Outside
    <3>2. Linkage(e)' = Linkage(e)
      <4>1. CASE e = prev[n]
        <5>1. next[e] # Null /\ next'[e] # Null
          BY <1>1, <1>9, <1>10, <1>22, <2>4, <4>1, AmongTasks, NodesAssumption
        <5> QED
          BY <5>1 DEF Linkage
      <4>2. CASE e # prev[n]
        BY <1>10, <2>4, <4>2 DEF Linkage
      <4> QED
        BY <4>1, <4>2
    <3> QED
      BY <2>1, <3>1, <3>2
  <2> QED
    BY <2>3, <2>4
<1>26. RingInv'
  BY <1>20, <1>21, <1>23, <1>24 DEF RingInv
<1> QED
  BY <1>1, <1>12, <1>21, <1>23, <1>25, <1>26

\* An operation that leaves the pointers alone, and no value without an owner,
\* leaves the rings.
LEMMA RingsStay ==
  ASSUME RingInv, OwnedOnce, UNCHANGED <<ring, home>>,
         \A n \in Nodes : Outside(n)' = Outside(n)
  PROVE  RingInv' /\ OwnedOnce' /\ \A l \in Lists : TasksOf(l)' = TasksOf(l)
<1>1. \A l \in Lists : RingOf(l, TasksOf(l))' /\ TasksOf(l)' = TasksOf(l)
  BY OtherRing DEF ring
<1> QED
  BY <1>1 DEF RingInv, OwnedOnce, Linkage, ring

\* Neighbours in the list.
LEMMA NextTask ==
  ASSUME RingInv, NEW l \in Lists, NEW i \in 1..len[l] - 1
  PROVE  /\ next[TasksOf(l)[i]] = TasksOf(l)[i + 1]
         /\ prev[TasksOf(l)[i + 1]] = TasksOf(l)[i]
<1> QED
  BY DEF RingInv, RingOf

\* The last task, of which the front knows.
LEMMA LastTask ==
  ASSUME RingInv, NEW l \in Lists, front[l] # Null
  PROVE  /\ len[l] > 0
         /\ front[l] = TasksOf(l)[1] /\ prev[front[l]] = TasksOf(l)[len[l]]
<1>1. len[l] \in Nat /\ len[l] # 0 /\ front[l] = TasksOf(l)[1]
  BY RingCells
<1>2. TasksOf(l) # <<>> /\ len[l] = Len(TasksOf(l))
  BY <1>1, EmptySeq, RingCells
<1> QED
  BY <1>1, <1>2 DEF RingInv, RingOf

----------------------------------------------------------------------------
(* What borrows a list *)

LEMMA OtherBorrow ==
  ASSUME NEW l \in Lists, BorrowOf(l), TasksOf(l)' = TasksOf(l),
         len'[l] = len[l], cursor'[l] = cursor[l], guard'[l] = guard[l],
         dropping'[l] = dropping[l]
  PROVE  BorrowOf(l)'
<1> QED
  BY DEF BorrowOf, WindowAt

LEMMA NoBorrow ==
  ASSUME NEW l \in Lists, cursor'[l] = NoCursor, guard'[l] = Null,
         dropping'[l] # "done"
  PROVE  BorrowOf(l)'
<1> QED
  BY DEF BorrowOf, NoCursor

\* A list that nothing borrows has no cursor.
LEMMA FreeList ==
  ASSUME Borrows, NEW l \in Lists, Free(l)
  PROVE  cursor[l] = NoCursor /\ guard[l] = Null /\ dropping[l] = "no"
<1> QED
  BY DEF Borrows, BorrowOf, Free

\* Where a cursor that is not exhausted stands.
LEMMA CursorPlace ==
  ASSUME RingInv, NEW l \in Lists, NEW k \in Nat, WindowAt(l, k), ~Exhausted(l)
  PROVE  /\ cursor[l].popped \in Nat /\ len[l] \in Nat /\ cursor[l].popped < len[l]
         /\ k <= cursor[l].popped
         /\ k + 1 \in 1..len[l] /\ k + (len[l] - cursor[l].popped) \in 1..len[l]
         /\ cursor[l].front = TasksOf(l)[k + 1]
         /\ cursor[l].back = TasksOf(l)[k + (len[l] - cursor[l].popped)]
<1>1. len[l] \in Nat /\ cursor[l].popped \in 0..len[l] /\ k <= cursor[l].popped
  BY RingCells DEF WindowAt
<1>2. cursor[l].popped # len[l]
  BY DEF Exhausted
<1> QED
  BY <1>1, <1>2 DEF WindowAt

\* remove_unchecked keeps the types.
LEMMA UnlinkTypes ==
  ASSUME ListTypeOK, RingInv, NEW l \in Lists, NEW n \in Nodes, len[l] > 0, Unlink(l, n)
  PROVE  /\ front' \in [Lists -> Nodes \cup {Null}] /\ len' \in [Lists -> Nat]
         /\ next' \in [Nodes -> Nodes \cup {Null}] /\ prev' \in [Nodes -> Nodes \cup {Null}]
         /\ len'[l] = len[l] - 1 /\ \A m \in Lists \ {l} : len'[m] = len[m]
<1>1. len[l] \in Nat /\ len[l] - 1 \in Nat
  BY DEF ListTypeOK
<1> QED
  BY <1>1 DEF ListTypeOK, Unlink

----------------------------------------------------------------------------
(* Every operation keeps the invariant *)

LEMMA InitList == Init => ListInv
<1> SUFFICES ASSUME Init PROVE ListInv
  OBVIOUS
<1>1. ListTypeOK /\ OwnedOnce
  BY NodesAssumption
     DEF Init, ListTypeOK, Unowned, Drops, OwnedOnce, Linkage, Outside, NoCursor
<1>2. ASSUME NEW l \in Lists PROVE RingOf(l, TasksOf(l))
  <2>1. RingOf(l, <<>>)
    BY <1>2, EmptySeq DEF Init, RingOf, NoRepeats
  <2> QED
    BY <1>2, <2>1, TasksAre
<1>3. RingInv
  BY <1>2 DEF Init, RingInv
<1>4. Borrows
  BY DEF Init, Borrows, BorrowOf, NoCursor
<1> QED
  BY <1>1, <1>3, <1>4 DEF ListInv

LEMMA PushKeeps ==
  ASSUME ListInv, NEW l \in Lists, NEW n \in Nodes, PushBack(l, n)
  PROVE  ListInv'
<1>1. RingInv' /\ OwnedOnce' /\ \A m \in Lists \ {l} : TasksOf(m)' = TasksOf(m)
  BY RingGrows DEF ListInv
<1>2. len' \in [Lists -> Nat] /\ \A m \in Lists \ {l} : len'[m] = len[m]
  <2>1. len[l] + 1 \in Nat
    BY DEF ListInv, ListTypeOK
  <2> QED
    BY <2>1 DEF ListInv, ListTypeOK, PushBack
<1>3. /\ front' \in [Lists -> Nodes \cup {Null}]
      /\ next' \in [Nodes -> Nodes \cup {Null}] /\ prev' \in [Nodes -> Nodes \cup {Null}]
  BY DEF ListInv, ListTypeOK, PushBack
<1>4. ListTypeOK'
  BY <1>2, <1>3 DEF ListInv, ListTypeOK, PushBack
<1>5. Borrows'
  <2>1. BorrowOf(l)'
    BY NoBorrow, FreeList DEF PushBack, ListInv
  <2>2. \A m \in Lists \ {l} : BorrowOf(m)'
    BY <1>1, <1>2, OtherBorrow DEF PushBack, ListInv, Borrows
  <2> QED
    BY <2>1, <2>2 DEF Borrows
<1> QED
  BY <1>1, <1>4, <1>5 DEF ListInv

\* The operations that move no pointer.
LEMMA LookKeeps ==
  ASSUME ListInv, UNCHANGED <<ring, value, home>>, ListTypeOK',
         NEW l \in Lists, BorrowOf(l)' \/ UNCHANGED <<cursor, guard>>,
         \A m \in Lists \ {l} : cursor'[m] = cursor[m] /\ guard'[m] = guard[m],
         UNCHANGED dropping
  PROVE  ListInv'
<1>1. RingInv' /\ OwnedOnce' /\ \A m \in Lists : TasksOf(m)' = TasksOf(m)
  BY RingsStay DEF ListInv, Outside
<1>2. \A m \in Lists \ {l} : BorrowOf(m)'
  BY <1>1, OtherBorrow DEF ListInv, Borrows, ring
<1>3. BorrowOf(l)'
  BY <1>1, OtherBorrow DEF ListInv, Borrows, ring
<1> QED
  BY <1>1, <1>2, <1>3 DEF ListInv, Borrows

\* Some operation takes the k-th task out of the list.
LEMMA RemovalKeeps ==
  ASSUME ListInv, NEW l \in Lists, NEW k \in 1..len[l], NEW owner \in {"removed", "released"},
         Unlink(l, TasksOf(l)[k]), Disown(TasksOf(l)[k], owner), home' = home,
         BorrowOf(l)', \A m \in Lists \ {l} : cursor'[m] = cursor[m] /\ guard'[m] = guard[m],
         \A m \in Lists \ {l} : dropping'[m] = dropping[m],
         dropping' \in [Lists -> Drops], returned' \in Nodes \cup {Null},
         guard' \in [Lists -> Nodes \cup {Null}],
         cursor' \in [Lists -> [open : BOOLEAN, front : Nodes \cup {Null},
                                back : Nodes \cup {Null}, popped : Nat]]
  PROVE  ListInv'
<1>1. /\ RingInv' /\ OwnedOnce'
      /\ \A m \in Lists \ {l} : TasksOf(m)' = TasksOf(m)
  BY RingShrinks DEF ListInv
<1>2. PICK n \in Nodes : n = TasksOf(l)[k]
  BY RingCells DEF ListInv
<1>3. len[l] > 0
  BY DEF ListInv, ListTypeOK
<1>4. /\ front' \in [Lists -> Nodes \cup {Null}] /\ len' \in [Lists -> Nat]
      /\ next' \in [Nodes -> Nodes \cup {Null}] /\ prev' \in [Nodes -> Nodes \cup {Null}]
      /\ \A m \in Lists \ {l} : len'[m] = len[m]
  BY <1>2, <1>3, UnlinkTypes DEF ListInv
<1>5. value' \in [Nodes -> [removed : Nat, released : Nat]]
  <2>1. value \in [Nodes -> [removed : Nat, released : Nat]]
    BY DEF ListInv, ListTypeOK
  <2>2. value[n].removed + 1 \in Nat /\ value[n].released + 1 \in Nat
    BY <1>2, <2>1
  <2>3. value' = [value EXCEPT ![n][owner] = @ + 1]
    BY <1>2 DEF Disown
  <2> QED
    BY <1>2, <2>1, <2>2, <2>3
<1>6. ListTypeOK'
  BY <1>4, <1>5 DEF ListInv, ListTypeOK
<1>7. Borrows'
  BY <1>1, <1>4, OtherBorrow DEF ListInv, Borrows
<1> QED
  BY <1>1, <1>6, <1>7 DEF ListInv

LEMMA GetKeeps ==
  ASSUME ListInv, NEW l \in Lists, NEW n \in Nodes, Get(l, n)
  PROVE  ListInv'
<1>1. ListTypeOK'
  BY DEF Get, ListInv, ListTypeOK, ring
<1> QED
  BY <1>1, LookKeeps DEF Get

\* A Removed hands its value on.
LEMMA ConsumeTypes ==
  ASSUME ListTypeOK, NEW n \in Nodes, Consume(n)
  PROVE  /\ value' \in [Nodes -> [removed : Nat, released : Nat]]
         /\ \A m \in Nodes : Outside(m)' = Outside(m)
<1>1. value \in [Nodes -> [removed : Nat, released : Nat]]
  BY DEF ListTypeOK
<1>2. PICK a \in Nat, b \in Nat : a + 1 = value[n].removed /\ b = value[n].released
  <2>1. value[n].removed - 1 \in Nat /\ value[n].released \in Nat
    BY <1>1 DEF Consume
  <2> QED
    BY <1>1, <2>1
<1>3. /\ value' \in [Nodes -> [removed : Nat, released : Nat]]
      /\ value'[n].removed = a /\ value'[n].released = b + 1
      /\ \A m \in Nodes \ {n} : value'[m] = value[m]
  <2>1. a = value[n].removed - 1 /\ b + 1 = value[n].released + 1 /\ b + 1 \in Nat
    BY <1>2
  <2>2. value' = [value EXCEPT ![n].removed = a, ![n].released = b + 1]
    BY <2>1 DEF Consume
  <2> QED
    BY <1>1, <2>1, <2>2
<1>4. ASSUME NEW m \in Nodes PROVE Outside(m)' = Outside(m)
  <2>1. CASE m = n
    BY <1>2, <1>3, <2>1 DEF Outside
  <2>2. CASE m # n
    BY <1>3, <2>2 DEF Outside
  <2> QED
    BY <2>1, <2>2
<1> QED
  BY <1>3, <1>4

LEMMA ConsumeKeeps ==
  ASSUME ListInv, NEW n \in Nodes, Consume(n)
  PROVE  ListInv'
<1>1. ListTypeOK' /\ \A m \in Nodes : Outside(m)' = Outside(m)
  BY ConsumeTypes DEF Consume, ListInv, ListTypeOK, ring
<1>3. RingInv' /\ OwnedOnce' /\ \A m \in Lists : TasksOf(m)' = TasksOf(m)
  BY <1>1, RingsStay DEF ListInv, Consume
<1>4. Borrows'
  BY <1>3, OtherBorrow DEF ListInv, Borrows, Consume, ring
<1> QED
  BY <1>1, <1>3, <1>4 DEF ListInv

LEMMA RemoveKeeps ==
  ASSUME ListInv, NEW l \in Lists, NEW n \in Nodes, Remove(l, n)
  PROVE  ListInv'
<1>1. BorrowOf(l)'
  BY NoBorrow, FreeList DEF Remove, ListInv
<1>2. CASE Linked(l, n)
  <2>1. Among(n, TasksOf(l))
    BY <1>2, FindsTasks DEF ListInv
  <2>2. PICK k \in 1..len[l] : n = TasksOf(l)[k]
    BY <2>1, RingCells DEF ListInv, Among
  <2>3. Unlink(l, n) /\ Disown(n, "removed") /\ returned' = n
        /\ UNCHANGED <<home, cursor, guard, dropping>>
    BY <1>2 DEF Remove
  <2>4. dropping \in [Lists -> Drops] /\ guard \in [Lists -> Nodes \cup {Null}]
        /\ cursor \in [Lists -> [open : BOOLEAN, front : Nodes \cup {Null},
                                back : Nodes \cup {Null}, popped : Nat]]
    BY DEF ListInv, ListTypeOK
  <2> QED
    BY <1>1, <2>2, <2>3, <2>4, RemovalKeeps
<1>3. CASE ~Linked(l, n)
  <2>1. ListTypeOK'
    BY <1>3 DEF Remove, ListInv, ListTypeOK, ring
  <2> QED
    BY <1>1, <1>3, <2>1, LookKeeps DEF Remove
<1> QED
  BY <1>2, <1>3

LEMMA AccessKeeps ==
  ASSUME ListInv, NEW l \in Lists, NEW n \in Nodes, Access(l, n)
  PROVE  ListInv'
<1>1. ListTypeOK'
  BY DEF Access, ListInv, ListTypeOK, ring
<1>2. BorrowOf(l)'
  <2>1. guard'[l] # Null => Among(n, TasksOf(l)) /\ guard'[l] = n
    BY FindsTasks DEF Access, ListInv, ListTypeOK
  <2>2. TasksOf(l)' = TasksOf(l)
    BY RingsStay DEF Access, ListInv, Outside
  <2>3. cursor[l] = NoCursor /\ dropping[l] = "no" /\ UNCHANGED <<cursor, dropping>>
    BY FreeList DEF Access, ListInv
  <2>4. ~NoCursor.open
    BY DEF NoCursor
  <2> QED
    BY <2>1, <2>2, <2>3, <2>4 DEF BorrowOf
<1>3. \A m \in Lists \ {l} : cursor'[m] = cursor[m] /\ guard'[m] = guard[m]
  BY DEF Access, ListInv, ListTypeOK
<1> QED
  BY <1>1, <1>2, <1>3, LookKeeps DEF Access

LEMMA ForgetKeeps ==
  ASSUME ListInv, NEW l \in Lists, GuardForget(l)
  PROVE  ListInv'
<1>1. ListTypeOK'
  BY DEF GuardForget, ListInv, ListTypeOK, ring
<1>2. BorrowOf(l)'
  BY NoBorrow DEF GuardForget, ListInv, Borrows, BorrowOf, ListTypeOK
<1>3. \A m \in Lists \ {l} : cursor'[m] = cursor[m] /\ guard'[m] = guard[m]
  BY DEF GuardForget, ListInv, ListTypeOK
<1> QED
  BY <1>1, <1>2, <1>3, LookKeeps DEF GuardForget

LEMMA GuardRemoveKeeps ==
  ASSUME ListInv, NEW l \in Lists, NEW owner \in {"removed", "released"}, GuardRemove(l, owner)
  PROVE  ListInv'
<1>1. PICK k \in 1..len[l] : guard[l] = TasksOf(l)[k]
  BY RingCells DEF GuardRemove, ListInv, Borrows, BorrowOf, Among
<1>2. guard[l] \in Nodes /\ ~cursor[l].open /\ cursor[l] = NoCursor
  BY <1>1, RingCells DEF GuardRemove, ListInv, Borrows, BorrowOf
<1>3. /\ guard' \in [Lists -> Nodes \cup {Null}] /\ guard'[l] = Null
      /\ \A m \in Lists \ {l} : guard'[m] = guard[m]
  BY DEF GuardRemove, ListInv, ListTypeOK
<1>4. /\ dropping \in [Lists -> Drops] /\ dropping' = dropping /\ dropping[l] = "no"
      /\ cursor \in [Lists -> [open : BOOLEAN, front : Nodes \cup {Null},
                               back : Nodes \cup {Null}, popped : Nat]]
  BY DEF GuardRemove, ListInv, ListTypeOK, Borrows, BorrowOf
<1>5. BorrowOf(l)'
  BY <1>2, <1>3, <1>4, NoBorrow DEF GuardRemove
<1> QED
  BY <1>1, <1>2, <1>3, <1>4, <1>5, RemovalKeeps DEF GuardRemove

\* A new cursor has all the tasks before it.
LEMMA OpenKeeps ==
  ASSUME ListInv, NEW l \in Lists, OpenCursor(l)
  PROVE  ListInv' /\ WindowAt(l, 0)'
<1>1. TasksOf(l)' = TasksOf(l)
  BY RingsStay DEF OpenCursor, ListInv, Outside
<1>2. PICK b \in Nodes \cup {Null} :
        /\ cursor'[l] = [open |-> TRUE, front |-> front[l], popped |-> 0, back |-> b]
        /\ front[l] # Null => b = prev[front[l]]
        /\ cursor' = [cursor EXCEPT ![l] =
                        [open |-> TRUE, front |-> front[l], popped |-> 0, back |-> b]]
  <2>1. (IF front[l] = Null THEN Null ELSE prev[front[l]]) \in Nodes \cup {Null}
    BY DEF ListInv, ListTypeOK
  <2> QED
    BY <2>1 DEF OpenCursor, ListInv, ListTypeOK
<1>3. ListTypeOK'
  BY <1>2 DEF OpenCursor, ListInv, ListTypeOK, ring
<1>4. len[l] \in Nat /\ (len[l] # 0 => front[l] # Null)
  BY RingCells, NodesAssumption DEF ListInv
<1>5. WindowAt(l, 0)'
  <2>1. cursor'[l].popped = 0 /\ len'[l] = len[l]
    BY <1>2 DEF OpenCursor, ring
  <2>2. len[l] # 0 =>
          cursor'[l].front = TasksOf(l)[1] /\ cursor'[l].back = TasksOf(l)[len[l]]
    BY <1>2, <1>4, LastTask DEF ListInv
  <2> QED
    BY <1>1, <1>4, <2>1, <2>2 DEF WindowAt
<1>6. BorrowOf(l)'
  BY <1>2, <1>5, FreeList DEF BorrowOf, OpenCursor, ListInv
<1>7. \A m \in Lists \ {l} : cursor'[m] = cursor[m]
  BY <1>2 DEF ListInv, ListTypeOK
<1> QED
  BY <1>3, <1>5, <1>6, <1>7, LookKeeps DEF OpenCursor

LEMMA CloseKeeps ==
  ASSUME ListInv, NEW l \in Lists, CloseCursor(l)
  PROVE  ListInv'
<1>1. ListTypeOK'
  BY DEF CloseCursor, ListInv, ListTypeOK, ring, NoCursor
<1>2. BorrowOf(l)'
  BY NoBorrow DEF CloseCursor, ListInv, Borrows, BorrowOf, ListTypeOK
<1>3. \A m \in Lists \ {l} : cursor'[m] = cursor[m]
  BY DEF CloseCursor, ListInv, ListTypeOK
<1> QED
  BY <1>1, <1>2, <1>3, LookKeeps DEF CloseCursor

LEMMA PopNothingKeeps ==
  ASSUME ListInv, NEW l \in Lists, PopNothing(l)
  PROVE  ListInv'
<1>1. ListTypeOK'
  BY DEF PopNothing, ListInv, ListTypeOK, ring
<1> QED
  BY <1>1, LookKeeps DEF PopNothing

\* A cursor that visits a task without removing it narrows its window.
LEMMA PopKeeps ==
  ASSUME ListInv, NEW l \in Lists, PopFront(l) \/ PopBack(l)
  PROVE  /\ ListInv'
         /\ \/ PopFront(l) /\ \E k \in Nat : WindowAt(l, k) /\ WindowAt(l, k + 1)'
            \/ PopBack(l) /\ \E k \in Nat : WindowAt(l, k) /\ WindowAt(l, k)'
<1>1. PICK k \in Nat : WindowAt(l, k)
  BY DEF PopFront, PopBack, ListInv, Borrows, BorrowOf
<1>2. PICK p \in Nat, c \in Nat : p = cursor[l].popped /\ c = len[l]
  BY <1>1, CursorPlace DEF PopFront, PopBack, ListInv
<1>3. /\ p < c /\ k <= p /\ k + 1 \in 1..c /\ k + (c - p) \in 1..c
      /\ cursor[l].front = TasksOf(l)[k + 1] /\ cursor[l].back = TasksOf(l)[k + (c - p)]
  BY <1>1, <1>2, CursorPlace DEF PopFront, PopBack, ListInv
<1>4. \A i \in 1..c : TasksOf(l)[i] \in Nodes
  BY <1>2, RingCells DEF ListInv
<1>5. /\ TasksOf(l)' = TasksOf(l) /\ len'[l] = c
      /\ UNCHANGED <<ring, value, home, guard, dropping>>
  BY <1>2, RingsStay DEF PopFront, PopBack, ListInv, Outside, ring
<1>6. cursor[l].front \in Nodes /\ cursor[l].back \in Nodes
  BY <1>3, <1>4
<1>7. /\ cursor' \in [Lists -> [open : BOOLEAN, front : Nodes \cup {Null},
                                back : Nodes \cup {Null}, popped : Nat]]
      /\ cursor'[l].open /\ cursor'[l].popped = p + 1
      /\ \A m \in Lists \ {l} : cursor'[m] = cursor[m]
      /\ PopFront(l) => cursor'[l].front = next[cursor[l].front] /\ cursor'[l].back = cursor[l].back
      /\ PopBack(l) => cursor'[l].back = prev[cursor[l].back] /\ cursor'[l].front = cursor[l].front
  <2>1. next[cursor[l].front] \in Nodes \cup {Null} /\ prev[cursor[l].back] \in Nodes \cup {Null}
        /\ p + 1 \in Nat
    BY <1>6 DEF ListInv, ListTypeOK
  <2>2. /\ PopFront(l) => cursor' = [cursor EXCEPT ![l].popped = p + 1,
                                              ![l].front = next[cursor[l].front]]
        /\ PopBack(l) => cursor' = [cursor EXCEPT ![l].popped = p + 1,
                                             ![l].back = prev[cursor[l].back]]
        /\ cursor[l].open
    BY <1>2 DEF PopFront, PopBack
  <2>3. cursor \in [Lists -> [open : BOOLEAN, front : Nodes \cup {Null},
                             back : Nodes \cup {Null}, popped : Nat]]
    BY DEF ListInv, ListTypeOK
  <2>4. CASE PopFront(l) /\ ~PopBack(l)
    BY <2>1, <2>2, <2>3, <2>4
  <2>5. CASE PopBack(l) /\ ~PopFront(l)
    BY <2>1, <2>2, <2>3, <2>5
  <2>6. CASE PopFront(l) /\ PopBack(l)
    BY <2>1, <2>2, <2>3, <2>6
  <2> QED
    BY <2>4, <2>5, <2>6
<1>8. ListTypeOK'
  <2>1. returned' \in Nodes
    BY <1>6 DEF PopFront, PopBack
  <2> QED
    BY <1>5, <1>7, <2>1 DEF ListInv, ListTypeOK, ring
<1>9. (PopFront(l) /\ WindowAt(l, k + 1)') \/ (PopBack(l) /\ WindowAt(l, k)')
  <2>1. k + 1 \in 0..p + 1 /\ k \in 0..p + 1 /\ p + 1 \in 0..c
    BY <1>3
  <2>2. CASE p + 1 = c
    <3>1. WindowAt(l, k)' /\ WindowAt(l, k + 1)'
      BY <1>5, <1>7, <2>1, <2>2 DEF WindowAt
    <3> QED
      BY <3>1
  <2>3. CASE p + 1 # c /\ PopFront(l)
    <3>1. k + 1 \in 1..c - 1 /\ (k + 1) + (c - (p + 1)) = k + (c - p)
      BY <1>3, <2>3
    <3>2. cursor'[l].front = TasksOf(l)[(k + 1) + 1] /\ cursor'[l].back = cursor[l].back
      BY <1>2, <1>3, <1>7, <2>3, <3>1, NextTask DEF ListInv
    <3>3. WindowAt(l, k + 1)'
      BY <1>3, <1>5, <1>7, <2>1, <2>3, <3>1, <3>2 DEF WindowAt
    <3> QED
      BY <2>3, <3>3
  <2>4. CASE p + 1 # c /\ PopBack(l)
    <3>1. PICK j \in 1..c - 1 : j + 1 = k + (c - p) /\ j = k + (c - (p + 1))
      BY <1>3, <2>4
    <3>2. cursor'[l].back = TasksOf(l)[j] /\ cursor'[l].front = cursor[l].front
      BY <1>2, <1>3, <1>7, <2>4, <3>1, NextTask DEF ListInv
    <3>3. WindowAt(l, k)'
      BY <1>3, <1>5, <1>7, <2>1, <2>4, <3>1, <3>2 DEF WindowAt
    <3> QED
      BY <2>4, <3>3
  <2> QED
    BY <2>2, <2>3, <2>4
<1>10. guard[l] = Null /\ dropping[l] = "no"
  BY DEF PopFront, PopBack, ListInv, Borrows, BorrowOf
<1>11. BorrowOf(l)'
  <2>1. k + 1 \in Nat
    OBVIOUS
  <2> QED
    BY <1>5, <1>7, <1>9, <1>10, <2>1 DEF BorrowOf
<1> QED
  BY <1>1, <1>5, <1>7, <1>8, <1>9, <1>11, LookKeeps

\* Nor does one that removes it lose its place.
LEMMA ExtractKeeps ==
  ASSUME ListInv, NEW l \in Lists, RemoveFront(l) \/ RemoveBack(l)
  PROVE  /\ ListInv'
         /\ \E k \in Nat : WindowAt(l, k) /\ WindowAt(l, k)'
<1>1. PICK k \in Nat : WindowAt(l, k)
  BY DEF RemoveFront, RemoveBack, ListInv, Borrows, BorrowOf
<1>2. PICK p \in Nat, c \in Nat : p = cursor[l].popped /\ c = len[l]
  BY <1>1, CursorPlace DEF RemoveFront, RemoveBack, ListInv
<1>3. /\ p < c /\ k <= p /\ k + 1 \in 1..c /\ k + (c - p) \in 1..c
      /\ cursor[l].front = TasksOf(l)[k + 1] /\ cursor[l].back = TasksOf(l)[k + (c - p)]
  BY <1>1, <1>2, CursorPlace DEF RemoveFront, RemoveBack, ListInv
<1>4. \A i \in 1..c : TasksOf(l)[i] \in Nodes
  BY <1>2, RingCells DEF ListInv
<1>5. PICK at \in 1..c :
        /\ Unlink(l, TasksOf(l)[at]) /\ Disown(TasksOf(l)[at], "removed")
        /\ returned' = TasksOf(l)[at]
        /\ \/ at = k + 1 /\ RemoveFront(l)
           \/ at = k + (c - p) /\ RemoveBack(l)
  BY <1>3 DEF RemoveFront, RemoveBack
<1>6. cursor[l].front \in Nodes /\ cursor[l].back \in Nodes
  BY <1>3, <1>4
<1>7. /\ cursor' \in [Lists -> [open : BOOLEAN, front : Nodes \cup {Null},
                                back : Nodes \cup {Null}, popped : Nat]]
      /\ cursor'[l].open /\ cursor'[l].popped = p
      /\ \A m \in Lists \ {l} : cursor'[m] = cursor[m]
      /\ RemoveFront(l) => cursor'[l].front = next[cursor[l].front] /\ cursor'[l].back = cursor[l].back
      /\ RemoveBack(l) => cursor'[l].back = prev[cursor[l].back] /\ cursor'[l].front = cursor[l].front
  <2>1. next[cursor[l].front] \in Nodes \cup {Null} /\ prev[cursor[l].back] \in Nodes \cup {Null}
    BY <1>6 DEF ListInv, ListTypeOK
  <2>2. RemoveFront(l) => cursor' = [cursor EXCEPT ![l].front = next[cursor[l].front]]
    BY DEF RemoveFront
  <2>3. RemoveBack(l) => cursor' = [cursor EXCEPT ![l].back = prev[cursor[l].back]]
    BY DEF RemoveBack
  <2>4. cursor[l].open
    BY DEF RemoveFront, RemoveBack
  <2>5. cursor \in [Lists -> [open : BOOLEAN, front : Nodes \cup {Null},
                             back : Nodes \cup {Null}, popped : Nat]]
    BY DEF ListInv, ListTypeOK
  <2>6. CASE RemoveFront(l) /\ ~RemoveBack(l)
    BY <1>2, <2>1, <2>2, <2>4, <2>5, <2>6
  <2>7. CASE RemoveBack(l) /\ ~RemoveFront(l)
    BY <1>2, <2>1, <2>3, <2>4, <2>5, <2>7
  <2>8. CASE RemoveFront(l) /\ RemoveBack(l)
    BY <1>2, <2>1, <2>2, <2>3, <2>4, <2>5, <2>8
  <2> QED
    BY <2>6, <2>7, <2>8
<1>8. UNCHANGED <<home, guard, dropping>>
  BY DEF RemoveFront, RemoveBack
<1>9. PICK d \in Nat : d + 1 = c
  BY <1>3
<1>10. /\ TasksOf(l)' \in Seq(Nodes)
       /\ \A i \in 1..d : TasksOf(l)'[i] = IF i < at THEN TasksOf(l)[i] ELSE TasksOf(l)[i + 1]
       /\ len'[l] = d
  <2>1. TasksOf(l)' \in Seq(Nodes) /\ RemovedFrom(TasksOf(l)', TasksOf(l), at)
    BY <1>2, <1>5, <1>8, RingShrinks DEF ListInv
  <2>2. Len(TasksOf(l)) = c
    BY <1>2, RingCells DEF ListInv
  <2>3. len'[l] = c - 1
    BY <1>2, <1>4, <1>5, <1>9, UnlinkTypes DEF ListInv
  <2> QED
    BY <1>9, <2>1, <2>2, <2>3 DEF RemovedFrom
<1>11. WindowAt(l, k)'
  <2>1. CASE p = d
    BY <1>3, <1>7, <1>10, <2>1 DEF WindowAt
  <2>2. CASE p # d /\ RemoveFront(l) /\ at = k + 1
    <3>1. k + 1 \in 1..c - 1 /\ k + 1 \in 1..d /\ k + (d - p) \in 1..d /\ (k + (d - p)) + 1 = k + (c - p)
      BY <1>3, <1>9, <2>2
    <3>2. cursor'[l].front = TasksOf(l)[(k + 1) + 1]
      BY <1>2, <1>3, <1>7, <2>2, <3>1, NextTask DEF ListInv
    <3>3. TasksOf(l)'[k + 1] = TasksOf(l)[(k + 1) + 1]
      BY <1>10, <2>2, <3>1
    <3>4. TasksOf(l)'[k + (d - p)] = TasksOf(l)[k + (c - p)]
      <4>1. ~(k + (d - p) < at)
        BY <1>3, <1>9, <2>2
      <4> QED
        BY <1>10, <3>1, <4>1
    <3> QED
      BY <1>3, <1>7, <1>9, <1>10, <2>2, <3>2, <3>3, <3>4 DEF WindowAt
  <2>3. CASE p # d /\ RemoveBack(l) /\ at = k + (c - p)
    <3>1. PICK j \in 1..c - 1 : j + 1 = k + (c - p) /\ j = k + (d - p) /\ j \in 1..d /\ k + 1 \in 1..d
                                /\ k + 1 <= j
      BY <1>3, <1>9, <2>3
    <3>2. cursor'[l].back = TasksOf(l)[j]
      BY <1>2, <1>3, <1>7, <2>3, <3>1, NextTask DEF ListInv
    <3>3. TasksOf(l)'[j] = TasksOf(l)[j] /\ TasksOf(l)'[k + 1] = TasksOf(l)[k + 1]
      BY <1>10, <2>3, <3>1
    <3> QED
      BY <1>3, <1>7, <1>9, <1>10, <2>3, <3>1, <3>2, <3>3 DEF WindowAt
  <2> QED
    BY <1>5, <2>1, <2>2, <2>3
<1>12. guard[l] = Null /\ dropping[l] = "no"
  BY DEF RemoveFront, RemoveBack, ListInv, Borrows, BorrowOf
<1>13. BorrowOf(l)'
  BY <1>7, <1>8, <1>11, <1>12 DEF BorrowOf
<1>14. /\ dropping' \in [Lists -> Drops] /\ guard' \in [Lists -> Nodes \cup {Null}]
       /\ returned' \in Nodes \cup {Null}
  BY <1>4, <1>5, <1>8 DEF ListInv, ListTypeOK
<1> QED
  BY <1>1, <1>2, <1>5, <1>7, <1>8, <1>11, <1>13, <1>14, RemovalKeeps

\* into_iter and the drop take tasks from the ends.
LEMMA EndKeeps ==
  ASSUME ListInv, NEW l \in Lists, IntoIterNext(l) \/ IntoIterNextBack(l) \/ DropValue(l) \/ DropPanics(l)
  PROVE  ListInv'
<1>1. /\ len[l] > 0 /\ len[l] \in Nat /\ front[l] = TasksOf(l)[1]
      /\ prev[front[l]] = TasksOf(l)[len[l]]
  BY LastTask, RingCells DEF IntoIterNext, IntoIterNextBack, DropValue, DropPanics, DropFront, ListInv
<1>2. PICK k \in 1..len[l], owner \in {"removed", "released"} :
        /\ Unlink(l, TasksOf(l)[k]) /\ Disown(TasksOf(l)[k], owner)
        /\ returned' = TasksOf(l)[k]
  BY <1>1 DEF IntoIterNext, IntoIterNextBack, DropValue, DropPanics, DropFront
<1>3. returned' \in Nodes
  BY <1>2, RingCells DEF ListInv
<1>4. /\ UNCHANGED <<home, cursor, guard>> /\ dropping' \in [Lists -> Drops]
      /\ dropping'[l] # "done" /\ \A m \in Lists \ {l} : dropping'[m] = dropping[m]
  <2>1. dropping \in [Lists -> Drops]
    BY DEF ListInv, ListTypeOK
  <2>2. CASE IntoIterNext(l) \/ IntoIterNextBack(l) \/ DropValue(l)
    BY <2>1, <2>2 DEF IntoIterNext, IntoIterNextBack, DropValue, DropFront, Free
  <2>3. CASE DropPanics(l)
    BY <2>1, <2>3 DEF DropPanics, DropFront, Drops
  <2> QED
    BY <2>2, <2>3
<1>5. cursor[l] = NoCursor /\ guard[l] = Null
  BY DEF IntoIterNext, IntoIterNextBack, DropValue, DropPanics, DropFront, ListInv, Borrows, BorrowOf, Free
<1>6. BorrowOf(l)'
  BY <1>4, <1>5, NoBorrow
<1>7. guard \in [Lists -> Nodes \cup {Null}]
      /\ cursor \in [Lists -> [open : BOOLEAN, front : Nodes \cup {Null},
                               back : Nodes \cup {Null}, popped : Nat]]
  BY DEF ListInv, ListTypeOK
<1> QED
  BY <1>2, <1>3, <1>4, <1>6, <1>7, RemovalKeeps

\* What the beginning and the end of a drop leave alone.
LEMMA DropMoves ==
  ASSUME ListInv, ListTypeOK', NEW l \in Lists, BorrowOf(l)',
         \A m \in Lists \ {l} : dropping'[m] = dropping[m],
         UNCHANGED <<ring, value, home, cursor, guard, returned>>
  PROVE  ListInv'
<1>1. RingInv' /\ OwnedOnce' /\ \A m \in Lists : TasksOf(m)' = TasksOf(m)
  BY RingsStay DEF ListInv, Outside
<1>2. \A m \in Lists \ {l} : BorrowOf(m)'
  BY <1>1, OtherBorrow DEF ListInv, Borrows, ring
<1> QED
  BY <1>1, <1>2 DEF ListInv, Borrows

\* The drop of a list begins when nothing borrows it.
LEMMA BeginDropKeeps ==
  ASSUME ListInv, NEW l \in Lists, NEW as \in {"loop", "unwind"}, BeginDrop(l, as)
  PROVE  ListInv'
<1>1. /\ dropping' \in [Lists -> Drops] /\ dropping'[l] # "done"
      /\ \A m \in Lists \ {l} : dropping'[m] = dropping[m]
      /\ UNCHANGED <<ring, value, home, cursor, guard, returned>>
  BY DEF BeginDrop, ListInv, ListTypeOK, Drops
<1>2. ListTypeOK'
  BY <1>1 DEF ListInv, ListTypeOK, ring
<1>3. BorrowOf(l)'
  BY <1>1, NoBorrow, FreeList DEF BeginDrop, ListInv
<1> QED
  BY <1>1, <1>2, <1>3, DropMoves

\* It ends when the list is empty.
LEMMA EndDropKeeps ==
  ASSUME ListInv, NEW l \in Lists, EndDrop(l)
  PROVE  ListInv'
<1>1. /\ dropping' \in [Lists -> Drops] /\ dropping[l] # "no"
      /\ \A m \in Lists \ {l} : dropping'[m] = dropping[m]
      /\ UNCHANGED <<ring, value, home, cursor, guard, returned>>
  BY DEF EndDrop, ListInv, ListTypeOK, Drops
<1>2. ListTypeOK'
  BY <1>1 DEF ListInv, ListTypeOK, ring
<1>3. len'[l] = 0
  BY RingCells, NodesAssumption DEF EndDrop, ListInv, ring
<1>4. BorrowOf(l)'
  <2>1. guard[l] = Null /\ ~cursor[l].open /\ cursor[l] = NoCursor
    BY <1>1 DEF ListInv, Borrows, BorrowOf
  <2> QED
    BY <1>1, <1>3, <2>1 DEF BorrowOf
<1> QED
  BY <1>1, <1>2, <1>4, DropMoves

\* Every step keeps the invariant.
LEMMA ListStep ==
  ASSUME ListInv, [Next]_vars
  PROVE  ListInv'
<1>1. ASSUME NEW n \in Nodes, Consume(n) PROVE ListInv'
  BY <1>1, ConsumeKeeps
<1>2. ASSUME NEW l \in Lists, NEW n \in Nodes, PushBack(l, n) PROVE ListInv'
  BY <1>2, PushKeeps
<1>3. ASSUME NEW l \in Lists, NEW n \in Nodes, Get(l, n) PROVE ListInv'
  BY <1>3, GetKeeps
<1>4. ASSUME NEW l \in Lists, NEW n \in Nodes, Remove(l, n) PROVE ListInv'
  BY <1>4, RemoveKeeps
<1>5. ASSUME NEW l \in Lists, NEW n \in Nodes, Access(l, n) PROVE ListInv'
  BY <1>5, AccessKeeps
<1>6. ASSUME NEW l \in Lists, GuardForget(l) PROVE ListInv'
  BY <1>6, ForgetKeeps
<1>7. ASSUME NEW l \in Lists, NEW owner \in {"removed", "released"}, GuardRemove(l, owner)
      PROVE  ListInv'
  BY <1>7, GuardRemoveKeeps
<1>8. ASSUME NEW l \in Lists, OpenCursor(l) PROVE ListInv'
  BY <1>8, OpenKeeps
<1>9. ASSUME NEW l \in Lists, CloseCursor(l) PROVE ListInv'
  BY <1>9, CloseKeeps
<1>10. ASSUME NEW l \in Lists, PopNothing(l) PROVE ListInv'
  BY <1>10, PopNothingKeeps
<1>11. ASSUME NEW l \in Lists, PopFront(l) \/ PopBack(l) PROVE ListInv'
  BY <1>11, PopKeeps
<1>12. ASSUME NEW l \in Lists, RemoveFront(l) \/ RemoveBack(l) PROVE ListInv'
  BY <1>12, ExtractKeeps
<1>13. ASSUME NEW l \in Lists, IntoIterNext(l) \/ IntoIterNextBack(l) \/ DropValue(l) \/ DropPanics(l)
       PROVE  ListInv'
  BY <1>13, EndKeeps
<1>14. ASSUME NEW l \in Lists, NEW as \in {"loop", "unwind"}, BeginDrop(l, as) PROVE ListInv'
  BY <1>14, BeginDropKeeps
<1>15. ASSUME NEW l \in Lists, EndDrop(l) PROVE ListInv'
  BY <1>15, EndDropKeeps
<1>16. CASE UNCHANGED vars
  <2>1. RingInv' /\ OwnedOnce' /\ \A l \in Lists : TasksOf(l)' = TasksOf(l)
    BY <1>16, RingsStay DEF ListInv, vars, Outside
  <2>2. Borrows'
    BY <1>16, <2>1, OtherBorrow DEF ListInv, Borrows, vars, ring
  <2> QED
    BY <1>16, <2>1, <2>2 DEF ListInv, ListTypeOK, vars, ring
<1> QED
  BY <1>1, <1>2, <1>3, <1>4, <1>5, <1>6, <1>7, <1>8, <1>9, <1>10, <1>11, <1>12, <1>13,
     <1>14, <1>15, <1>16 DEF Next, IterNext, IterNextBack, ExtractNext, ExtractNextBack

\* The pointers, the values and what borrows the lists fit together in every
\* reachable state, whatever cursors, guards, lookups and panics do.
THEOREM ListCorrect == Spec => []ListInv
<1>1. ListInv /\ [Next]_vars => ListInv'
  BY ListStep
<1> QED
  BY <1>1, InitList, PTL DEF Spec

\* Every pointer of a list leads to a node or is null, and its length is a
\* natural number: it never wraps around, not even if a node of another list
\* is looked up in it.
THEOREM ListTypeCorrect == Spec => []ListTypeOK
<1>1. ListInv => ListTypeOK
  BY DEF ListInv
<1> QED
  BY <1>1, ListCorrect, PTL

\* The next and prev pointers form one ring per list.
THEOREM RingsCorrect == Spec => []Rings
<1>1. ASSUME ListInv PROVE Rings
  <2>1. ASSUME NEW l \in Lists
        PROVE  LET s == TasksOf(l) IN
               /\ front[l] = Null <=> len[l] = 0
               /\ \A i, j \in 1..len[l] : s[i] = s[j] => i = j
               /\ \A i \in 1..len[l] :
                    LET m == s[IF i = len[l] THEN 1 ELSE i + 1] IN
                    s[i] # Null /\ home[s[i]] = l /\ next[s[i]] = m /\ prev[m] = s[i]
    <3>1. PICK s : s = TasksOf(l)
      OBVIOUS
    <3>2. /\ RingOf(l, s) /\ len[l] \in Nat /\ len[l] = Len(s) /\ s \in Seq(Nodes)
          /\ \A i \in 1..len[l] : s[i] \in Nodes /\ home[s[i]] = l
          /\ front[l] = IF len[l] = 0 THEN Null ELSE s[1]
      BY <1>1, <3>1, RingCells DEF ListInv, RingInv
    <3>3. front[l] = Null <=> len[l] = 0
      BY <3>2, NodesAssumption
    <3>4. \A i, j \in 1..len[l] : s[i] = s[j] => i = j
      BY <3>2 DEF RingOf, NoRepeats
    <3>5. ASSUME NEW i \in 1..len[l], i # len[l]
          PROVE  next[s[i]] = s[i + 1] /\ prev[s[i + 1]] = s[i]
      BY <1>1, <3>1, <3>2, <3>5, NextTask DEF ListInv
    <3>6. ASSUME len[l] # 0 PROVE next[s[len[l]]] = s[1] /\ prev[s[1]] = s[len[l]]
      BY <3>2, <3>6, EmptySeq DEF RingOf
    <3> QED
      BY <3>1, <3>2, <3>3, <3>4, <3>5, <3>6, NodesAssumption
  <2>2. ASSUME NEW n \in Nodes
        PROVE  \/ next[n] = Null /\ prev[n] = Null
               \/ \E l \in Lists : \E i \in 1..len[l] : TasksOf(l)[i] = n
    BY <1>1, RingCells DEF ListInv, RingInv, Among
  <2> QED
    BY <2>1, <2>2 DEF Rings
<1> QED
  BY <1>1, ListCorrect, PTL

\* From its push on, every value is in exactly one place: linked in one list,
\* owned by one Removed, or dropped or moved out, once.  No stale node, cursor,
\* guard or panic takes it out of its list or drops it a second time.
THEOREM OwnedOnceCorrect == Spec => []OwnedOnce
<1>1. ListInv => OwnedOnce
  BY DEF ListInv
<1> QED
  BY <1>1, ListCorrect, PTL

\* A list whose drop is over holds no value, whatever drops of values panicked.
THEOREM NothingOutlivesCorrect == Spec => []NothingOutlives
<1>1. ASSUME ListInv PROVE NothingOutlives
  <2> SUFFICES ASSUME NEW l \in Lists, dropping[l] = "done", NEW n \in Nodes, home[n] = l
               PROVE  Outside(n) = 1
    BY DEF NothingOutlives
  <2>1. len[l] = 0
    BY <1>1 DEF ListInv, Borrows, BorrowOf
  <2>2. next[n] = Null
    <3>1. \A m \in Lists : ~Among(n, TasksOf(m))
      BY <1>1, <2>1, AmongTasks, RingCells DEF ListInv, Among
    <3> QED
      BY <1>1, <3>1 DEF ListInv, RingInv
  <2>3. 0 + Outside(n) = 1
    BY <1>1, <2>2, NodesAssumption DEF ListInv, OwnedOnce, Linkage
  <2>4. Outside(n) \in Nat
    BY <1>1 DEF ListInv, ListTypeOK, Outside
  <2> QED
    BY <2>3, <2>4
<1> QED
  BY <1>1, ListCorrect, PTL

----------------------------------------------------------------------------
(* The sequences of TaskSequence *)

\* c elements of s, from the one behind the k-th on.
Slice(s, k, c) == [i \in 1..c |-> s[k + i]]

LEMMA SliceIs ==
  ASSUME NEW S, NEW s \in Seq(S), NEW k \in Nat, NEW c \in Nat, k + c <= Len(s)
  PROVE  /\ Slice(s, k, c) \in Seq(S) /\ Len(Slice(s, k, c)) = c
         /\ \A i \in 1..c : Slice(s, k, c)[i] = s[k + i]
         /\ Slice(s, k, c) = <<>> <=> c = 0
<1>1. Len(s) \in Nat /\ \A i \in 1..Len(s) : s[i] \in S
  OBVIOUS
<1>2. \A i \in 1..c : k + i \in 1..Len(s)
  BY <1>1
<1>3. \A i \in 1..c : s[k + i] \in S
  BY <1>1, <1>2
<1>4. Slice(s, k, c) \in Seq(S)
  BY <1>3, IsASeq DEF Slice
<1>5. Len(Slice(s, k, c)) = c /\ \A i \in 1..c : Slice(s, k, c)[i] = s[k + i]
  BY <1>4 DEF Slice
<1> QED
  BY <1>4, <1>5, EmptySeq

\* Both ends of a slice, and what is left without them.
LEMMA SliceEnds ==
  ASSUME NEW S, NEW s \in Seq(S), NEW k \in Nat, NEW c \in Nat, k + c <= Len(s), c > 0
  PROVE  /\ Head(Slice(s, k, c)) = s[k + 1]
         /\ Abstract!Youngest(Slice(s, k, c)) = s[k + c]
         /\ Tail(Slice(s, k, c)) = Slice(s, k + 1, c - 1)
         /\ Abstract!Front(Slice(s, k, c)) = Slice(s, k, c - 1)
<1>1. PICK t \in Seq(S) : t = Slice(s, k, c)
  BY SliceIs
<1>2. Len(t) = c /\ t # <<>> /\ \A i \in 1..c : t[i] = s[k + i]
  BY <1>1, SliceIs
<1>3. PICK d \in Nat : d + 1 = c /\ d = c - 1
  OBVIOUS
<1>4. Len(s) \in Nat /\ (k + 1) + d <= Len(s) /\ k + d <= Len(s)
  BY <1>3
<1>5. Head(t) = s[k + 1] /\ Abstract!Youngest(t) = s[k + c]
  BY <1>2 DEF Abstract!Youngest
<1>6. Tail(t) = Slice(s, k + 1, d)
  <2>1. /\ Tail(t) \in Seq(S) /\ Len(Tail(t)) = d
        /\ \A i \in 1..d : Tail(t)[i] = t[i + 1]
    BY <1>2, <1>3, TailCell
  <2>2. /\ Slice(s, k + 1, d) \in Seq(S) /\ Len(Slice(s, k + 1, d)) = d
        /\ \A i \in 1..d : Slice(s, k + 1, d)[i] = s[(k + 1) + i]
    BY <1>4, SliceIs
  <2>3. \A i \in 1..d : i + 1 \in 1..c /\ (k + 1) + i = k + (i + 1)
    BY <1>3
  <2>4. \A i \in 1..d : Tail(t)[i] = Slice(s, k + 1, d)[i]
    BY <1>2, <2>1, <2>2, <2>3
  <2> QED
    BY <2>1, <2>2, <2>4, SeqEqual
<1>7. Abstract!Front(t) = Slice(s, k, d)
  <2>1. \A i \in 1..d : t[i] \in S
    BY <1>2, <1>3
  <2>2. /\ Abstract!Front(t) \in Seq(S) /\ Len(Abstract!Front(t)) = d
        /\ \A i \in 1..d : Abstract!Front(t)[i] = t[i]
    BY <1>2, <1>3, <2>1, SubSeqProperties DEF Abstract!Front
  <2>3. /\ Slice(s, k, d) \in Seq(S) /\ Len(Slice(s, k, d)) = d
        /\ \A i \in 1..d : Slice(s, k, d)[i] = s[k + i]
    BY <1>4, SliceIs
  <2>4. \A i \in 1..d : t[i] = s[k + i]
    BY <1>2, <1>3
  <2> QED
    BY <2>2, <2>3, <2>4, SeqEqual
<1> QED
  BY <1>1, <1>3, <1>5, <1>6, <1>7

\* The removal of the k-th task is what TaskSequence calls Without.
LEMMA WithoutIs ==
  ASSUME NEW S, NEW s \in Seq(S), NEW k \in 1..Len(s), NEW r \in Seq(S),
         RemovedFrom(r, s, k), NoRepeats(s)
  PROVE  r = Abstract!Without(s, s[k])
<1>1. Abstract!Contains(s, s[k])
  BY DEF Abstract!Contains
<1>2. Abstract!PlaceOf(s, s[k]) = k
  BY DEF Abstract!PlaceOf, NoRepeats
<1>3. PICK w : w = [i \in 1..Len(s) - 1 |-> IF i < k THEN s[i] ELSE s[i + 1]]
  OBVIOUS
<1>4. w \in Seq(S) /\ RemovedFrom(w, s, k)
  BY <1>3, RemoveIsSeq
<1>5. r = w
  BY <1>4, SeqEqual DEF RemovedFrom
<1> QED
  BY <1>1, <1>2, <1>3, <1>5 DEF Abstract!Without

\* At the front it is the tail.
LEMMA TailIs ==
  ASSUME NEW S, NEW s \in Seq(S), s # <<>>, NEW r \in Seq(S), RemovedFrom(r, s, 1)
  PROVE  r = Tail(s) /\ Head(s) = s[1]
<1>1. Tail(s) \in Seq(S) /\ Len(Tail(s)) = Len(s) - 1 /\ Len(s) \in Nat
      /\ \A i \in 1..Len(s) - 1 : Tail(s)[i] = s[i + 1]
  BY TailCell
<1>2. \A i \in 1..Len(s) - 1 : r[i] = s[i + 1]
  BY <1>1 DEF RemovedFrom
<1>3. Head(s) = s[1]
  OBVIOUS
<1> QED
  BY <1>1, <1>2, <1>3, SeqEqual DEF RemovedFrom

\* The walk of a cursor meets a slice of the tasks of its list.
LEMMA VisitIs ==
  RingInv => \A l \in Lists, k \in Nat :
    WindowAt(l, k) /\ cursor[l].open =>
      /\ VisitOf(l) = Slice(TasksOf(l), k, len[l] - cursor[l].popped)
      /\ len[l] - cursor[l].popped \in Nat
      /\ k + (len[l] - cursor[l].popped) <= Len(TasksOf(l))
<1> SUFFICES ASSUME RingInv, NEW l \in Lists, NEW k \in Nat, WindowAt(l, k), cursor[l].open
             PROVE  /\ VisitOf(l) = Slice(TasksOf(l), k, len[l] - cursor[l].popped)
                    /\ len[l] - cursor[l].popped \in Nat
                    /\ k + (len[l] - cursor[l].popped) <= Len(TasksOf(l))
  OBVIOUS
<1>1. PICK s : s = TasksOf(l)
  OBVIOUS
<1>2. PICK p \in Nat : p = cursor[l].popped
  BY RingCells DEF WindowAt
<1>3. /\ s \in Seq(Nodes) /\ len[l] = Len(s) /\ len[l] \in Nat /\ p <= len[l] /\ k <= p
      /\ \A i \in 1..len[l] : s[i] \in Nodes
  BY <1>1, <1>2, RingCells DEF WindowAt
<1>4. PICK c \in Nat : c = len[l] - p /\ k + c <= Len(s)
  <2>1. len[l] - p \in Nat /\ k + (len[l] - p) <= Len(s)
    BY <1>3
  <2> QED
    BY <2>1
<1>5. \A i \in 1..c : k + i \in 1..len[l]
  BY <1>3, <1>4
<1>6. PICK t : t = Slice(s, k, c)
  OBVIOUS
<1>7. t \in [1..c -> Nodes] /\ \A i \in 1..c : t[i] = s[k + i]
  BY <1>3, <1>5, <1>6 DEF Slice
<1>8. c > 0 => cursor[l].front = t[1]
  BY <1>1, <1>2, <1>3, <1>4, <1>7 DEF WindowAt
<1>9. ASSUME NEW i \in 1..c - 1 PROVE next[t[i]] = t[i + 1]
  <2>1. PICK m \in Nat : m = len[l] /\ k + c <= m
    BY <1>3, <1>4
  <2>2. i \in 1..c /\ i + 1 \in 1..c
    OBVIOUS
  <2>3. k + i \in 1..m - 1 /\ (k + i) + 1 = k + (i + 1)
    BY <2>1
  <2> QED
    BY <1>1, <1>7, <2>1, <2>2, <2>3, NextTask
<1>10. Walk(cursor[l].front, c) = t
  BY <1>7, <1>8, <1>9, WalkIs
<1> QED
  BY <1>1, <1>2, <1>4, <1>6, <1>10 DEF VisitOf

LEMMA VisitIsNext ==
  RingInv' => \A l \in Lists, k \in Nat :
    (WindowAt(l, k) /\ cursor[l].open)' =>
      /\ VisitOf(l)' = Slice(TasksOf(l)', k, len'[l] - cursor'[l].popped)
      /\ len'[l] - cursor'[l].popped \in Nat
      /\ k + (len'[l] - cursor'[l].popped) <= Len(TasksOf(l)')
<1>1. (RingInv => \A l \in Lists, k \in Nat :
        WindowAt(l, k) /\ cursor[l].open =>
          /\ VisitOf(l) = Slice(TasksOf(l), k, len[l] - cursor[l].popped)
          /\ len[l] - cursor[l].popped \in Nat
          /\ k + (len[l] - cursor[l].popped) <= Len(TasksOf(l)))'
  BY VisitIs, PTL
<1> QED
  BY <1>1

----------------------------------------------------------------------------
(* What an operation does to the sequences *)

\* A walk on pointers that an operation leaves alone.
LEMMA SameVisit ==
  ASSUME RingInv, RingInv', NEW l \in Lists, BorrowOf(l), TasksOf(l)' = TasksOf(l),
         len'[l] = len[l], cursor'[l] = cursor[l]
  PROVE  VisitOf(l)' = VisitOf(l)
<1>1. CASE cursor[l].open
  <2>1. PICK k \in Nat : WindowAt(l, k)
    BY <1>1 DEF BorrowOf
  <2>2. (WindowAt(l, k) /\ cursor[l].open)'
    BY <1>1, <2>1 DEF WindowAt
  <2> QED
    BY <1>1, <2>1, <2>2, VisitIs, VisitIsNext
<1>2. CASE ~cursor[l].open
  BY <1>2 DEF VisitOf
<1> QED
  BY <1>1, <1>2

\* An operation on l changes the sequences of l alone.
LEMMA OneList ==
  ASSUME RingInv, RingInv', Borrows, NEW l \in Lists,
         \A m \in Lists \ {l} :
           TasksOf(m)' = TasksOf(m) /\ len'[m] = len[m] /\ cursor'[m] = cursor[m]
  PROVE  /\ AllTasks' = [AllTasks EXCEPT ![l] = TasksOf(l)']
         /\ AllVisits' = [AllVisits EXCEPT ![l] = VisitOf(l)']
         /\ AllOpen' = [AllOpen EXCEPT ![l] = cursor'[l].open]
         /\ AllTasks[l] = TasksOf(l) /\ AllVisits[l] = VisitOf(l)
         /\ AllOpen[l] = cursor[l].open
<1>1. \A m \in Lists \ {l} : VisitOf(m)' = VisitOf(m)
  BY SameVisit DEF Borrows
<1>2. AllTasks' = [AllTasks EXCEPT ![l] = TasksOf(l)'] /\ AllTasks[l] = TasksOf(l)
  BY DEF AllTasks
<1>3. AllVisits' = [AllVisits EXCEPT ![l] = VisitOf(l)'] /\ AllVisits[l] = VisitOf(l)
  BY <1>1 DEF AllVisits
<1>4. AllOpen' = [AllOpen EXCEPT ![l] = cursor'[l].open] /\ AllOpen[l] = cursor[l].open
  BY DEF AllOpen
<1> QED
  BY <1>2, <1>3, <1>4

\* One that moves neither pointers nor cursors changes none.
LEMMA NoList ==
  ASSUME RingInv, OwnedOnce, Borrows, UNCHANGED <<ring, home, cursor>>,
         \A n \in Nodes : Outside(n)' = Outside(n)
  PROVE  UNCHANGED <<AllTasks, AllVisits, AllOpen>>
<1>1. RingInv' /\ \A l \in Lists : TasksOf(l)' = TasksOf(l)
  BY RingsStay
<1>2. \A l \in Lists : VisitOf(l)' = VisitOf(l)
  BY <1>1, SameVisit DEF Borrows, ring
<1> QED
  BY <1>1, <1>2 DEF AllTasks, AllVisits, AllOpen

\* Nothing is visited in a list without a cursor.
LEMMA NoVisit ==
  ASSUME RingInv, RingInv', Borrows, NEW l \in Lists, UNCHANGED cursor, ~cursor[l].open,
         \A m \in Lists \ {l} : TasksOf(m)' = TasksOf(m) /\ len'[m] = len[m]
  PROVE  /\ AllTasks' = [AllTasks EXCEPT ![l] = TasksOf(l)'] /\ AllTasks[l] = TasksOf(l)
         /\ UNCHANGED <<AllVisits, AllOpen>> /\ ~AllOpen[l]
<1>1. /\ AllTasks' = [AllTasks EXCEPT ![l] = TasksOf(l)'] /\ AllTasks[l] = TasksOf(l)
      /\ AllVisits' = [AllVisits EXCEPT ![l] = VisitOf(l)'] /\ AllVisits[l] = VisitOf(l)
      /\ AllOpen' = [AllOpen EXCEPT ![l] = cursor'[l].open] /\ AllOpen[l] = cursor[l].open
  BY OneList
<1>2. VisitOf(l)' = VisitOf(l)
  BY DEF VisitOf
<1>3. AllVisits' = AllVisits
  BY <1>1, <1>2 DEF AllVisits
<1>4. AllOpen' = AllOpen
  BY DEF AllOpen
<1> QED
  BY <1>1, <1>3, <1>4

\* A removal takes the task out of the sequence.
LEMMA RemovalSeen ==
  ASSUME ListInv, NEW l \in Lists, NEW k \in 1..len[l], NEW owner \in {"removed", "released"},
         Unlink(l, TasksOf(l)[k]), Disown(TasksOf(l)[k], owner), home' = home
  PROVE  /\ TasksOf(l)' = Abstract!Without(TasksOf(l), TasksOf(l)[k])
         /\ TasksOf(l) \in Seq(Nodes) /\ TasksOf(l)' \in Seq(Nodes)
         /\ RemovedFrom(TasksOf(l)', TasksOf(l), k)
         /\ Len(TasksOf(l)) = len[l] /\ len'[l] = len[l] - 1
         /\ \A m \in Lists \ {l} : TasksOf(m)' = TasksOf(m) /\ len'[m] = len[m]
         /\ UNCHANGED AllPushed
<1>1. /\ TasksOf(l)' \in Seq(Nodes) /\ RemovedFrom(TasksOf(l)', TasksOf(l), k)
      /\ \A m \in Lists \ {l} : TasksOf(m)' = TasksOf(m)
  BY RingShrinks DEF ListInv
<1>2. TasksOf(l) \in Seq(Nodes) /\ Len(TasksOf(l)) = len[l] /\ NoRepeats(TasksOf(l))
  BY RingCells DEF ListInv, RingInv, RingOf
<1>3. TasksOf(l)' = Abstract!Without(TasksOf(l), TasksOf(l)[k])
  BY <1>1, <1>2, WithoutIs
<1>4. PICK n \in Nodes : n = TasksOf(l)[k]
  BY RingCells DEF ListInv
<1>5. len'[l] = len[l] - 1 /\ \A m \in Lists \ {l} : len'[m] = len[m]
  <2>1. len[l] > 0
    BY DEF ListInv, ListTypeOK
  <2> QED
    BY <1>4, <2>1, UnlinkTypes DEF ListInv
<1>6. AllPushed' = AllPushed
  BY DEF AllPushed
<1> QED
  BY <1>1, <1>2, <1>3, <1>5, <1>6

\* A list is free in both.
LEMMA FreeSeen ==
  ASSUME NEW l \in Lists, Free(l)
  PROVE  Abstract!Free(l)
<1> QED
  BY DEF Free, Abstract!Free, AllOpen

\* Looking up a node finds it exactly if it is a task of the list.
LEMMA FindSeen ==
  ASSUME RingInv, NEW l \in Lists, NEW n \in Nodes
  PROVE  Abstract!Find(l, n) = IF Linked(l, n) THEN n ELSE Null
<1>1. Linked(l, n) <=> Abstract!Contains(AllTasks[l], n)
  BY FindsTasks DEF Among, Abstract!Contains, AllTasks
<1> QED
  BY <1>1 DEF Abstract!Find

----------------------------------------------------------------------------
(* Every operation is one of TaskSequence *)

LEMMA PushSeen ==
  ASSUME ListInv, ListInv', NEW l \in Lists, NEW n \in Nodes, PushBack(l, n)
  PROVE  Abstract!Push(l, n)
<1>1. /\ TasksOf(l)' = Append(TasksOf(l), n)
      /\ \A m \in Lists \ {l} : TasksOf(m)' = TasksOf(m)
  BY RingGrows DEF ListInv
<1>2. UNCHANGED cursor /\ \A m \in Lists \ {l} : len'[m] = len[m]
  BY DEF PushBack, ListInv, ListTypeOK
<1>3. ~cursor[l].open /\ Abstract!Free(l)
  BY FreeSeen DEF PushBack, Free
<1>4. /\ AllTasks' = [AllTasks EXCEPT ![l] = TasksOf(l)'] /\ AllTasks[l] = TasksOf(l)
      /\ UNCHANGED <<AllVisits, AllOpen>>
  BY <1>1, <1>2, <1>3, NoVisit DEF ListInv
<1>5. n \notin AllPushed /\ AllPushed' = AllPushed \cup {n}
  <2>1. home[n] = Null /\ home' = [home EXCEPT ![n] = l] /\ l # Null
        /\ home \in [Nodes -> Lists \cup {Null}]
    BY NodesAssumption DEF PushBack, ListInv, ListTypeOK
  <2> QED
    BY <2>1 DEF AllPushed
<1>6. returned' = n /\ UNCHANGED guard
  BY DEF PushBack
<1> QED
  BY <1>1, <1>3, <1>4, <1>5, <1>6 DEF Abstract!Push

LEMMA GetSeen ==
  ASSUME ListInv, NEW l \in Lists, NEW n \in Nodes, Get(l, n)
  PROVE  Abstract!Get(l, n)
<1>1. UNCHANGED <<AllTasks, AllVisits, AllOpen>>
  BY NoList DEF Get, ListInv, Outside
<1>2. UNCHANGED <<AllPushed, guard>>
  BY DEF Get, AllPushed
<1>3. Abstract!Free(l) /\ returned' = Abstract!Find(l, n)
  BY FreeSeen, FindSeen DEF Get, ListInv
<1> QED
  BY <1>1, <1>2, <1>3 DEF Abstract!Get

LEMMA AccessSeen ==
  ASSUME ListInv, NEW l \in Lists, NEW n \in Nodes, Access(l, n)
  PROVE  Abstract!Access(l, n)
<1>1. UNCHANGED <<AllTasks, AllVisits, AllOpen>>
  BY NoList DEF Access, ListInv, Outside
<1>2. UNCHANGED AllPushed
  BY DEF Access, AllPushed
<1>3. Abstract!Free(l) /\ returned' = Abstract!Find(l, n)
  BY FreeSeen, FindSeen DEF Access, ListInv
<1>4. guard' = [guard EXCEPT ![l] = Abstract!Find(l, n)]
  BY <1>3 DEF Access
<1> QED
  BY <1>1, <1>2, <1>3, <1>4 DEF Abstract!Access

LEMMA RemoveSeen ==
  ASSUME ListInv, ListInv', NEW l \in Lists, NEW n \in Nodes, Remove(l, n)
  PROVE  Abstract!Remove(l, n)
<1>1. Abstract!Free(l) /\ returned' = Abstract!Find(l, n)
  BY FreeSeen, FindSeen DEF Remove, ListInv
<1>2. CASE Linked(l, n)
  <2>1. PICK k \in 1..len[l] : n = TasksOf(l)[k]
    BY <1>2, FindsTasks, RingCells DEF ListInv, Among
  <2>2. /\ TasksOf(l)' = Abstract!Without(TasksOf(l), n)
        /\ \A m \in Lists \ {l} : TasksOf(m)' = TasksOf(m) /\ len'[m] = len[m]
        /\ UNCHANGED AllPushed
    BY <1>2, <2>1, RemovalSeen DEF Remove
  <2>3. UNCHANGED <<cursor, guard>> /\ ~cursor[l].open
    BY DEF Remove, Free
  <2>4. /\ AllTasks' = [AllTasks EXCEPT ![l] = TasksOf(l)'] /\ AllTasks[l] = TasksOf(l)
        /\ UNCHANGED <<AllVisits, AllOpen>>
    BY <2>2, <2>3, NoVisit DEF ListInv
  <2> QED
    BY <1>1, <2>2, <2>3, <2>4 DEF Abstract!Remove
<1>3. CASE ~Linked(l, n)
  <2>1. UNCHANGED <<AllTasks, AllVisits, AllOpen, AllPushed, guard>>
    BY <1>3, NoList DEF Remove, ListInv, Outside, AllPushed
  <2>2. ~Abstract!Contains(AllTasks[l], n)
    BY <1>3, FindsTasks DEF ListInv, Among, Abstract!Contains, AllTasks
  <2>3. Abstract!Without(AllTasks[l], n) = AllTasks[l]
    BY <2>2 DEF Abstract!Without
  <2>4. AllTasks = [AllTasks EXCEPT ![l] = AllTasks[l]]
    BY DEF AllTasks
  <2> QED
    BY <1>1, <2>1, <2>3, <2>4 DEF Abstract!Remove
<1> QED
  BY <1>2, <1>3

LEMMA ForgetSeen ==
  ASSUME ListInv, NEW l \in Lists, GuardForget(l)
  PROVE  Abstract!EndAccess(l, TRUE)
<1>1. UNCHANGED <<AllTasks, AllVisits, AllOpen>>
  BY NoList DEF GuardForget, ListInv, Outside
<1>2. UNCHANGED AllPushed
  BY DEF GuardForget, AllPushed
<1>3. AllTasks = [AllTasks EXCEPT ![l] = AllTasks[l]]
  BY DEF AllTasks
<1> QED
  BY <1>1, <1>2, <1>3 DEF Abstract!EndAccess, GuardForget

LEMMA GuardRemoveSeen ==
  ASSUME ListInv, ListInv', NEW l \in Lists, NEW owner \in {"removed", "released"},
         GuardRemove(l, owner)
  PROVE  Abstract!EndAccess(l, FALSE)
<1>1. PICK k \in 1..len[l] : guard[l] = TasksOf(l)[k]
  BY RingCells DEF GuardRemove, ListInv, Borrows, BorrowOf, Among
<1>2. ~cursor[l].open
  BY DEF GuardRemove, ListInv, Borrows, BorrowOf
<1>3. /\ TasksOf(l)' = Abstract!Without(TasksOf(l), guard[l])
      /\ \A m \in Lists \ {l} : TasksOf(m)' = TasksOf(m) /\ len'[m] = len[m]
      /\ UNCHANGED AllPushed
  BY <1>1, RemovalSeen DEF GuardRemove
<1>4. UNCHANGED cursor
  BY DEF GuardRemove
<1>5. /\ AllTasks' = [AllTasks EXCEPT ![l] = TasksOf(l)'] /\ AllTasks[l] = TasksOf(l)
      /\ UNCHANGED <<AllVisits, AllOpen>>
  BY <1>2, <1>3, <1>4, NoVisit DEF ListInv
<1> QED
  BY <1>3, <1>5 DEF Abstract!EndAccess, GuardRemove

LEMMA OpenSeen ==
  ASSUME ListInv, ListInv', NEW l \in Lists, OpenCursor(l)
  PROVE  Abstract!Iterate(l)
<1>1. \A m \in Lists : TasksOf(m)' = TasksOf(m)
  BY RingsStay DEF OpenCursor, ListInv, Outside
<1>2. /\ cursor'[l].open /\ cursor'[l].popped = 0
      /\ \A m \in Lists \ {l} : cursor'[m] = cursor[m]
      /\ len' = len
  BY DEF OpenCursor, ListInv, ListTypeOK, ring
<1>3. /\ AllTasks' = [AllTasks EXCEPT ![l] = TasksOf(l)'] /\ AllTasks[l] = TasksOf(l)
      /\ AllVisits' = [AllVisits EXCEPT ![l] = VisitOf(l)']
      /\ AllOpen' = [AllOpen EXCEPT ![l] = TRUE]
  BY <1>1, <1>2, OneList DEF ListInv, ListTypeOK
<1>4. PICK s : s = TasksOf(l) /\ s \in Seq(Nodes) /\ Len(s) = len[l]
  BY RingCells DEF ListInv
<1>5. VisitOf(l)' = Slice(s, 0, len[l])
  <2>1. (WindowAt(l, 0) /\ cursor[l].open)'
    BY <1>2, OpenKeeps
  <2> QED
    BY <1>1, <1>2, <1>4, <2>1, VisitIsNext DEF ListInv
<1>6. Slice(s, 0, len[l]) = s
  <2>1. /\ Slice(s, 0, len[l]) \in Seq(Nodes) /\ Len(Slice(s, 0, len[l])) = Len(s)
        /\ \A i \in 1..len[l] : Slice(s, 0, len[l])[i] = s[i]
    BY <1>4, SliceIs
  <2> QED
    BY <1>4, <2>1, SeqEqual
<1>7. UNCHANGED <<AllTasks, AllPushed, guard, returned>>
  BY <1>1 DEF OpenCursor, AllTasks, AllPushed
<1>8. Abstract!Free(l)
  BY FreeSeen DEF OpenCursor
<1> QED
  BY <1>3, <1>4, <1>5, <1>6, <1>7, <1>8 DEF Abstract!Iterate

LEMMA CloseSeen ==
  ASSUME ListInv, ListInv', NEW l \in Lists, CloseCursor(l)
  PROVE  Abstract!StopIterating(l)
<1>1. \A m \in Lists : TasksOf(m)' = TasksOf(m)
  BY RingsStay DEF CloseCursor, ListInv, Outside
<1>2. /\ cursor'[l] = NoCursor /\ cursor[l].open
      /\ \A m \in Lists \ {l} : cursor'[m] = cursor[m]
      /\ len' = len
  BY DEF CloseCursor, ListInv, ListTypeOK, ring
<1>3. /\ AllVisits' = [AllVisits EXCEPT ![l] = VisitOf(l)']
      /\ AllOpen' = [AllOpen EXCEPT ![l] = cursor'[l].open] /\ AllOpen[l]
  BY <1>1, <1>2, OneList DEF ListInv, ListTypeOK
<1>4. ~cursor'[l].open /\ VisitOf(l)' = <<>>
  BY <1>2 DEF VisitOf, NoCursor
<1>5. AllOpen' = [AllOpen EXCEPT ![l] = FALSE]
  BY <1>2, <1>3 DEF NoCursor
<1>6. UNCHANGED <<AllTasks, AllPushed, guard, returned>>
  BY <1>1 DEF CloseCursor, AllTasks, AllPushed
<1> QED
  BY <1>3, <1>4, <1>5, <1>6 DEF Abstract!StopIterating

LEMMA PopNothingSeen ==
  ASSUME ListInv, NEW l \in Lists, PopNothing(l)
  PROVE  Abstract!Visit(l, TRUE, TRUE)
<1>1. UNCHANGED <<AllTasks, AllVisits, AllOpen>>
  BY NoList DEF PopNothing, ListInv, Outside
<1>2. UNCHANGED <<AllPushed, guard>> /\ returned' = Null /\ AllOpen[l]
  BY DEF PopNothing, AllPushed, AllOpen
<1>3. AllVisits[l] = <<>>
  <2>1. PICK k \in Nat : WindowAt(l, k) /\ cursor[l].open
    BY DEF PopNothing, ListInv, Borrows, BorrowOf
  <2>2. len[l] \in Nat /\ len[l] - cursor[l].popped = 0
    BY RingCells DEF PopNothing, Exhausted, ListInv
  <2>3. VisitOf(l) = <<>>
    BY <2>1, <2>2, VisitIs, SliceIs, RingCells DEF ListInv
  <2> QED
    BY <2>3 DEF AllVisits
<1> QED
  BY <1>1, <1>2, <1>3 DEF Abstract!Visit

\* A cursor that is not exhausted has the task at each end of its slice.
LEMMA CursorSeen ==
  ASSUME ListInv, NEW l \in Lists, NEW k \in Nat, WindowAt(l, k), cursor[l].open, ~Exhausted(l)
  PROVE  \E c \in Nat :
           /\ c + 1 = len[l] - cursor[l].popped /\ (k + 1) + c <= Len(TasksOf(l))
           /\ VisitOf(l) # <<>>
           /\ Head(VisitOf(l)) = cursor[l].front
           /\ Abstract!Youngest(VisitOf(l)) = cursor[l].back
           /\ Tail(VisitOf(l)) = Slice(TasksOf(l), k + 1, c)
           /\ Abstract!Front(VisitOf(l)) = Slice(TasksOf(l), k, c)
<1>1. PICK s : s = TasksOf(l) /\ s \in Seq(Nodes) /\ Len(s) = len[l] /\ len[l] \in Nat
  BY RingCells DEF ListInv
<1>2. /\ cursor[l].popped \in Nat /\ cursor[l].popped < len[l] /\ k <= cursor[l].popped
      /\ cursor[l].front = s[k + 1] /\ cursor[l].back = s[k + (len[l] - cursor[l].popped)]
  BY <1>1, CursorPlace DEF ListInv
<1>3. PICK c \in Nat, d \in Nat : d = len[l] - cursor[l].popped /\ c = d - 1 /\ c + 1 = d
  <2>1. len[l] - cursor[l].popped \in Nat /\ (len[l] - cursor[l].popped) - 1 \in Nat
    BY <1>1, <1>2
  <2> QED
    BY <2>1
<1>4. VisitOf(l) = Slice(s, k, d) /\ k + d <= Len(s) /\ d > 0
  BY <1>1, <1>3, VisitIs DEF ListInv
<1>5. VisitOf(l) # <<>>
  BY <1>1, <1>4, SliceIs
<1>6. /\ Head(VisitOf(l)) = s[k + 1] /\ Abstract!Youngest(VisitOf(l)) = s[k + d]
      /\ Tail(VisitOf(l)) = Slice(s, k + 1, c)
      /\ Abstract!Front(VisitOf(l)) = Slice(s, k, c)
  <2>1. /\ Head(Slice(s, k, d)) = s[k + 1] /\ Abstract!Youngest(Slice(s, k, d)) = s[k + d]
        /\ Tail(Slice(s, k, d)) = Slice(s, k + 1, d - 1)
        /\ Abstract!Front(Slice(s, k, d)) = Slice(s, k, d - 1)
    BY <1>1, <1>4, SliceEnds
  <2> QED
    BY <1>3, <1>4, <2>1
<1>7. (k + 1) + c <= Len(s)
  BY <1>1, <1>3, <1>4
<1> QED
  BY <1>1, <1>2, <1>3, <1>5, <1>6, <1>7

LEMMA PopSeen ==
  ASSUME ListInv, NEW l \in Lists, PopFront(l) \/ PopBack(l)
  PROVE  \E fromFront \in BOOLEAN : Abstract!Visit(l, fromFront, TRUE)
<1>1. ListInv'
  BY PopKeeps
<1>2. PICK k \in Nat : /\ WindowAt(l, k)
                       /\ \/ PopFront(l) /\ WindowAt(l, k + 1)'
                          \/ PopBack(l) /\ WindowAt(l, k)'
  BY PopKeeps
<1>3. /\ cursor[l].open /\ ~Exhausted(l) /\ UNCHANGED <<ring, home, value, guard>>
      /\ PopFront(l) => returned' = cursor[l].front
      /\ PopBack(l) => returned' = cursor[l].back
  BY DEF PopFront, PopBack
<1>4. PICK c \in Nat :
        /\ c + 1 = len[l] - cursor[l].popped
        /\ VisitOf(l) # <<>>
        /\ Head(VisitOf(l)) = cursor[l].front
        /\ Abstract!Youngest(VisitOf(l)) = cursor[l].back
        /\ Tail(VisitOf(l)) = Slice(TasksOf(l), k + 1, c)
        /\ Abstract!Front(VisitOf(l)) = Slice(TasksOf(l), k, c)
  BY <1>2, <1>3, CursorSeen
<1>5. \A m \in Lists : TasksOf(m)' = TasksOf(m)
  BY <1>3, RingsStay DEF ListInv, Outside
<1>6. /\ cursor'[l].open /\ cursor'[l].popped = cursor[l].popped + 1
      /\ \A m \in Lists \ {l} : cursor'[m] = cursor[m]
      /\ len' = len
  <2>1. cursor \in [Lists -> [open : BOOLEAN, front : Nodes \cup {Null},
                             back : Nodes \cup {Null}, popped : Nat]]
    BY DEF ListInv, ListTypeOK
  <2>2. CASE PopFront(l)
    BY <2>1, <2>2 DEF PopFront, ring
  <2>3. CASE PopBack(l)
    BY <2>1, <2>3 DEF PopBack, ring
  <2> QED
    BY <2>2, <2>3
<1>7. len'[l] - cursor'[l].popped = c
  <2>1. PICK x \in Nat, p \in Nat : x = len[l] /\ p = cursor[l].popped
    BY DEF ListInv, ListTypeOK
  <2>2. len'[l] = x /\ cursor'[l].popped = p + 1 /\ c + 1 = x - p
    BY <1>4, <1>6, <2>1
  <2>3. x - (p + 1) = c
    BY <2>2
  <2> QED
    BY <2>2, <2>3
<1>8. /\ AllVisits' = [AllVisits EXCEPT ![l] = VisitOf(l)'] /\ AllVisits[l] = VisitOf(l)
      /\ AllOpen' = AllOpen /\ AllOpen[l]
  <2>1. AllOpen' = AllOpen
    <3>1. \A m \in Lists : cursor'[m].open = cursor[m].open
      BY <1>3, <1>6 DEF ListInv, ListTypeOK
    <3> QED
      BY <3>1 DEF AllOpen
  <2> QED
    BY <1>1, <1>3, <1>5, <1>6, <2>1, OneList DEF ListInv
<1>9. UNCHANGED <<AllTasks, AllPushed>> /\ AllTasks = [AllTasks EXCEPT ![l] = AllTasks[l]]
  BY <1>3, <1>5 DEF AllTasks, AllPushed
<1>10. CASE PopFront(l) /\ WindowAt(l, k + 1)'
  <2>1. VisitOf(l)' = Tail(VisitOf(l))
    <3>1. (WindowAt(l, k + 1) /\ cursor[l].open)' /\ k + 1 \in Nat
      BY <1>6, <1>10
    <3>2. VisitOf(l)' = Slice(TasksOf(l)', k + 1, len'[l] - cursor'[l].popped)
      BY <1>1, <3>1, VisitIsNext DEF ListInv
    <3> QED
      BY <1>4, <1>5, <1>7, <3>2
  <2>2. Abstract!Visit(l, TRUE, TRUE)
    BY <1>3, <1>4, <1>8, <1>9, <1>10, <2>1 DEF Abstract!Visit
  <2> QED
    BY <2>2
<1>11. CASE PopBack(l) /\ WindowAt(l, k)'
  <2>1. VisitOf(l)' = Abstract!Front(VisitOf(l))
    <3>1. (WindowAt(l, k) /\ cursor[l].open)'
      BY <1>6, <1>11
    <3>2. VisitOf(l)' = Slice(TasksOf(l)', k, len'[l] - cursor'[l].popped)
      BY <1>1, <3>1, VisitIsNext DEF ListInv
    <3> QED
      BY <1>4, <1>5, <1>7, <3>2
  <2>2. Abstract!Visit(l, FALSE, TRUE)
    BY <1>3, <1>4, <1>8, <1>9, <1>11, <2>1 DEF Abstract!Visit
  <2> QED
    BY <2>2
<1> QED
  BY <1>2, <1>10, <1>11

LEMMA ExtractSeen ==
  ASSUME ListInv, NEW l \in Lists, RemoveFront(l) \/ RemoveBack(l)
  PROVE  \E fromFront \in BOOLEAN : Abstract!Visit(l, fromFront, FALSE)
<1>1. ListInv'
  BY ExtractKeeps
<1>2. PICK k \in Nat : WindowAt(l, k) /\ WindowAt(l, k)'
  BY ExtractKeeps
<1>3. /\ cursor[l].open /\ ~Exhausted(l) /\ UNCHANGED <<home, guard>>
      /\ RemoveFront(l) => returned' = cursor[l].front
      /\ RemoveBack(l) => returned' = cursor[l].back
  BY DEF RemoveFront, RemoveBack
<1>4. PICK c \in Nat :
        /\ c + 1 = len[l] - cursor[l].popped
        /\ (k + 1) + c <= Len(TasksOf(l))
        /\ VisitOf(l) # <<>>
        /\ Head(VisitOf(l)) = cursor[l].front
        /\ Abstract!Youngest(VisitOf(l)) = cursor[l].back
        /\ Tail(VisitOf(l)) = Slice(TasksOf(l), k + 1, c)
        /\ Abstract!Front(VisitOf(l)) = Slice(TasksOf(l), k, c)
  BY <1>2, <1>3, CursorSeen
<1>5. PICK at \in 1..len[l] :
        /\ Unlink(l, TasksOf(l)[at]) /\ Disown(TasksOf(l)[at], "removed")
        /\ returned' = TasksOf(l)[at]
        /\ \/ at = k + 1 /\ RemoveFront(l)
           \/ at = k + (c + 1) /\ RemoveBack(l)
  <2>1. /\ k + 1 \in 1..len[l] /\ k + (c + 1) \in 1..len[l]
        /\ cursor[l].front = TasksOf(l)[k + 1] /\ cursor[l].back = TasksOf(l)[k + (c + 1)]
    BY <1>2, <1>3, <1>4, CursorPlace DEF ListInv
  <2> QED
    BY <2>1 DEF RemoveFront, RemoveBack
<1>6. /\ TasksOf(l)' = Abstract!Without(TasksOf(l), TasksOf(l)[at])
      /\ TasksOf(l) \in Seq(Nodes) /\ RemovedFrom(TasksOf(l)', TasksOf(l), at)
      /\ len'[l] = len[l] - 1
      /\ \A m \in Lists \ {l} : TasksOf(m)' = TasksOf(m) /\ len'[m] = len[m]
      /\ UNCHANGED AllPushed
  BY <1>3, <1>5, RemovalSeen
<1>7. /\ cursor'[l].open /\ cursor'[l].popped = cursor[l].popped
      /\ \A m \in Lists \ {l} : cursor'[m] = cursor[m]
  BY DEF RemoveFront, RemoveBack, ListInv, ListTypeOK
<1>8. VisitOf(l)' = Slice(TasksOf(l)', k, c)
  <2>1. PICK x \in Nat, p \in Nat : x = len[l] /\ p = cursor[l].popped
    BY DEF ListInv, ListTypeOK
  <2>2. len'[l] - cursor'[l].popped = c
    <3>1. len'[l] = x - 1 /\ cursor'[l].popped = p /\ c + 1 = x - p
      BY <1>4, <1>6, <1>7, <2>1
    <3>2. (x - 1) - p = c
      BY <3>1
    <3> QED
      BY <3>1, <3>2
  <2>3. (WindowAt(l, k) /\ cursor[l].open)'
    BY <1>2, <1>7
  <2> QED
    BY <1>1, <2>2, <2>3, VisitIsNext DEF ListInv
<1>9. /\ AllVisits' = [AllVisits EXCEPT ![l] = VisitOf(l)'] /\ AllVisits[l] = VisitOf(l)
      /\ AllTasks' = [AllTasks EXCEPT ![l] = TasksOf(l)'] /\ AllTasks[l] = TasksOf(l)
      /\ AllOpen' = AllOpen /\ AllOpen[l]
  <2>1. AllOpen' = AllOpen
    <3>1. \A m \in Lists : cursor'[m].open = cursor[m].open
      BY <1>3, <1>7 DEF ListInv, ListTypeOK
    <3> QED
      BY <3>1 DEF AllOpen
  <2> QED
    BY <1>1, <1>3, <1>6, <1>7, <2>1, OneList DEF ListInv
<1>10. PICK s, r : s = TasksOf(l) /\ r = TasksOf(l)'
  OBVIOUS
<1>11. Len(s) \in Nat /\ \A i \in 1..Len(s) - 1 : r[i] = IF i < at THEN s[i] ELSE s[i + 1]
  BY <1>6, <1>10 DEF RemovedFrom
<1>12. \A i \in 1..c : k + i \in 1..Len(s) - 1 /\ (k + i) + 1 = (k + 1) + i
  BY <1>4, <1>10, <1>11
<1>13. CASE RemoveFront(l) /\ at = k + 1
  <2>1. \A i \in 1..c : r[k + i] = s[(k + 1) + i]
    <3>1. \A i \in 1..c : ~(k + i < at)
      BY <1>13
    <3> QED
      BY <1>11, <1>12, <3>1
  <2>2. VisitOf(l)' = Tail(VisitOf(l))
    BY <1>4, <1>8, <1>10, <2>1 DEF Slice
  <2>3. Abstract!Visit(l, TRUE, FALSE)
    BY <1>3, <1>4, <1>5, <1>6, <1>9, <1>13, <2>2 DEF Abstract!Visit
  <2> QED
    BY <2>3
<1>14. CASE RemoveBack(l) /\ at = k + (c + 1)
  <2>1. \A i \in 1..c : r[k + i] = s[k + i]
    <3>1. \A i \in 1..c : k + i < at
      BY <1>14
    <3> QED
      BY <1>11, <1>12, <3>1
  <2>2. VisitOf(l)' = Abstract!Front(VisitOf(l))
    BY <1>4, <1>8, <1>10, <2>1 DEF Slice
  <2>3. Abstract!Visit(l, FALSE, FALSE)
    BY <1>3, <1>4, <1>5, <1>6, <1>9, <1>14, <2>2 DEF Abstract!Visit
  <2> QED
    BY <2>3
<1> QED
  BY <1>5, <1>13, <1>14

\* into_iter takes the task at one end, as a removal of it would.
LEMMA IntoIterSeen ==
  ASSUME ListInv, ListInv', NEW l \in Lists, IntoIterNext(l) \/ IntoIterNextBack(l)
  PROVE  \E n \in Nodes : Abstract!Remove(l, n)
<1>1. /\ len[l] > 0 /\ len[l] \in Nat /\ front[l] = TasksOf(l)[1]
      /\ prev[front[l]] = TasksOf(l)[len[l]]
  BY LastTask, RingCells DEF IntoIterNext, IntoIterNextBack, ListInv
<1>2. PICK k \in 1..len[l] :
        /\ Unlink(l, TasksOf(l)[k]) /\ Disown(TasksOf(l)[k], "removed")
        /\ returned' = TasksOf(l)[k]
  BY <1>1 DEF IntoIterNext, IntoIterNextBack
<1>3. PICK n \in Nodes : n = TasksOf(l)[k]
  BY RingCells DEF ListInv
<1>4. UNCHANGED <<home, cursor, guard>> /\ Abstract!Free(l) /\ ~cursor[l].open
  BY FreeSeen DEF IntoIterNext, IntoIterNextBack, Free
<1>5. /\ TasksOf(l)' = Abstract!Without(TasksOf(l), n)
      /\ \A m \in Lists \ {l} : TasksOf(m)' = TasksOf(m) /\ len'[m] = len[m]
      /\ UNCHANGED AllPushed
  BY <1>2, <1>3, <1>4, RemovalSeen
<1>6. /\ AllTasks' = [AllTasks EXCEPT ![l] = TasksOf(l)'] /\ AllTasks[l] = TasksOf(l)
      /\ UNCHANGED <<AllVisits, AllOpen>>
  BY <1>4, <1>5, NoVisit DEF ListInv
<1>7. returned' = Abstract!Find(l, n)
  <2>1. Abstract!Contains(AllTasks[l], n)
    BY <1>3, <1>6, RingCells DEF Abstract!Contains, ListInv
  <2> QED
    BY <1>2, <1>3, <2>1 DEF Abstract!Find
<1>8. Abstract!Remove(l, n)
  BY <1>4, <1>5, <1>6, <1>7 DEF Abstract!Remove
<1> QED
  BY <1>8

LEMMA DropSeen ==
  ASSUME ListInv, ListInv', NEW l \in Lists, DropFront(l)
  PROVE  Abstract!DropOldest(l)
<1>1. len[l] > 0 /\ len[l] \in Nat /\ front[l] = TasksOf(l)[1] /\ 1 \in 1..len[l]
  BY LastTask, RingCells DEF DropFront, ListInv
<1>2. /\ Unlink(l, TasksOf(l)[1]) /\ Disown(TasksOf(l)[1], "released")
      /\ returned' = TasksOf(l)[1] /\ UNCHANGED <<home, cursor, guard>>
  BY <1>1 DEF DropFront
<1>3. ~cursor[l].open /\ guard[l] = Null
  BY DEF DropFront, ListInv, Borrows, BorrowOf
<1>4. /\ TasksOf(l) \in Seq(Nodes) /\ TasksOf(l)' \in Seq(Nodes) /\ Len(TasksOf(l)) = len[l]
      /\ RemovedFrom(TasksOf(l)', TasksOf(l), 1)
      /\ \A m \in Lists \ {l} : TasksOf(m)' = TasksOf(m) /\ len'[m] = len[m]
      /\ UNCHANGED AllPushed
  BY <1>1, <1>2, RemovalSeen
<1>5. TasksOf(l) # <<>>
  BY <1>1, <1>4, EmptySeq
<1>6. TasksOf(l)' = Tail(TasksOf(l)) /\ Head(TasksOf(l)) = TasksOf(l)[1]
  BY <1>4, <1>5, TailIs
<1>7. /\ AllTasks' = [AllTasks EXCEPT ![l] = TasksOf(l)'] /\ AllTasks[l] = TasksOf(l)
      /\ UNCHANGED <<AllVisits, AllOpen>> /\ ~AllOpen[l]
  BY <1>2, <1>3, <1>4, NoVisit DEF ListInv
<1>8. Abstract!Free(l)
  BY <1>3, <1>7 DEF Abstract!Free
<1> QED
  BY <1>2, <1>4, <1>5, <1>6, <1>7, <1>8 DEF Abstract!DropOldest

\* What happens to a Removed is of no concern to the sequences.
LEMMA ConsumeSeen ==
  ASSUME ListInv, NEW n \in Nodes, Consume(n)
  PROVE  UNCHANGED Abstract!vars
<1>1. \A m \in Nodes : Outside(m)' = Outside(m)
  BY ConsumeTypes DEF ListInv
<1>2. UNCHANGED <<AllTasks, AllVisits, AllOpen>>
  BY <1>1, NoList DEF Consume, ListInv
<1>3. UNCHANGED AllPushed
  BY DEF Consume, AllPushed
<1> QED
  BY <1>2, <1>3 DEF Abstract!vars, Consume

\* Nor is the beginning or the end of a drop.
LEMMA DropEndsSeen ==
  ASSUME ListInv, NEW l \in Lists,
         EndDrop(l) \/ \E as \in {"loop", "unwind"} : BeginDrop(l, as)
  PROVE  UNCHANGED Abstract!vars
<1>1. UNCHANGED <<ring, value, home, cursor, guard, returned>>
  BY DEF EndDrop, BeginDrop
<1>2. UNCHANGED <<AllTasks, AllVisits, AllOpen>>
  BY <1>1, NoList DEF ListInv, Outside
<1> QED
  BY <1>1, <1>2 DEF Abstract!vars, AllPushed

LEMMA StutterSeen ==
  ASSUME ListInv, UNCHANGED vars
  PROVE  UNCHANGED Abstract!vars
<1>1. UNCHANGED <<AllTasks, AllVisits, AllOpen>>
  BY NoList DEF vars, ListInv, Outside
<1> QED
  BY <1>1 DEF vars, Abstract!vars, AllPushed

LEMMA SequenceStep ==
  ASSUME ListInv, ListInv', [Next]_vars
  PROVE  [Abstract!Next]_(Abstract!vars)
<1>1. ASSUME NEW n \in Nodes, Consume(n) PROVE [Abstract!Next]_(Abstract!vars)
  BY <1>1, ConsumeSeen
<1>2. ASSUME NEW l \in Lists, NEW n \in Nodes,
             PushBack(l, n) \/ Get(l, n) \/ Remove(l, n) \/ Access(l, n)
      PROVE  Abstract!Next
  BY <1>2, PushSeen, GetSeen, RemoveSeen, AccessSeen DEF Abstract!Next
<1>3. ASSUME NEW l \in Lists, GuardForget(l) PROVE Abstract!Next
  BY <1>3, ForgetSeen DEF Abstract!Next
<1>4. ASSUME NEW l \in Lists, NEW owner \in {"removed", "released"}, GuardRemove(l, owner)
      PROVE  Abstract!Next
  BY <1>4, GuardRemoveSeen DEF Abstract!Next
<1>5. ASSUME NEW l \in Lists, OpenCursor(l) \/ CloseCursor(l) PROVE Abstract!Next
  BY <1>5, OpenSeen, CloseSeen DEF Abstract!Next
<1>6. ASSUME NEW l \in Lists, PopNothing(l) PROVE Abstract!Next
  BY <1>6, PopNothingSeen DEF Abstract!Next
<1>7. ASSUME NEW l \in Lists, PopFront(l) \/ PopBack(l) PROVE Abstract!Next
  BY <1>7, PopSeen DEF Abstract!Next
<1>8. ASSUME NEW l \in Lists, RemoveFront(l) \/ RemoveBack(l) PROVE Abstract!Next
  BY <1>8, ExtractSeen DEF Abstract!Next
<1>9. ASSUME NEW l \in Lists, IntoIterNext(l) \/ IntoIterNextBack(l) PROVE Abstract!Next
  BY <1>9, IntoIterSeen DEF Abstract!Next
<1>10. ASSUME NEW l \in Lists, DropValue(l) \/ DropPanics(l) PROVE Abstract!Next
  BY <1>10, DropSeen DEF Abstract!Next, DropValue, DropPanics
<1>11. ASSUME NEW l \in Lists,
              EndDrop(l) \/ \E as \in {"loop", "unwind"} : BeginDrop(l, as)
       PROVE  [Abstract!Next]_(Abstract!vars)
  BY <1>11, DropEndsSeen
<1>12. CASE UNCHANGED vars
  BY <1>12, StutterSeen
<1> QED
  BY <1>1, <1>2, <1>3, <1>4, <1>5, <1>6, <1>7, <1>8, <1>9, <1>10, <1>11, <1>12
     DEF Next, IterNext, IterNextBack, ExtractNext, ExtractNextBack

LEMMA SequenceStart == Init => Abstract!Init
<1> SUFFICES ASSUME Init PROVE Abstract!Init
  OBVIOUS
<1>1. ASSUME NEW l \in Lists
      PROVE  TasksOf(l) = <<>> /\ VisitOf(l) = <<>>
  <2>1. RingInv
    BY InitList DEF ListInv
  <2>2. TasksOf(l) = <<>>
    BY <2>1, RingCells, EmptySeq DEF Init
  <2> QED
    BY <2>2 DEF Init, VisitOf, NoCursor
<1>2. AllTasks = [l \in Lists |-> <<>>] /\ AllVisits = [l \in Lists |-> <<>>]
  BY <1>1 DEF AllTasks, AllVisits
<1>3. AllOpen = [l \in Lists |-> FALSE] /\ AllPushed = {}
  BY DEF Init, NoCursor, AllOpen, AllPushed
<1> QED
  BY <1>2, <1>3 DEF Init, Abstract!Init

\* Cursors, guards and lookups that rewrite pointers in place never show: to
\* its user a list is the sequence of its tasks in the order of insertion.
THEOREM ListIsSequence == Spec => ImplementsTaskSequence
<1>1. ListInv /\ ListInv' /\ [Next]_vars => [Abstract!Next]_(Abstract!vars)
  BY SequenceStep
<1> QED
  BY <1>1, SequenceStart, ListCorrect, PTL DEF Spec, ImplementsTaskSequence, Abstract!Spec
=============================================================================
