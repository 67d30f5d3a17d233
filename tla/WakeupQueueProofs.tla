-------------------------- MODULE WakeupQueueProofs --------------------------
(***************************************************************************)
(* Proof, for any sets of nodes and producers, of the invariant of the     *)
(* queue that Selector is built on.                                        *)
(***************************************************************************)
EXTENDS WakeupQueue, SequenceLemmas

LEMMA QueueCells ==
  ASSUME QueueTypeOK
  PROVE  /\ Len(queue) \in Nat
         /\ \A i \in 1..Len(queue) : queue[i] \in Nodes
         /\ queue # <<>> => Len(queue) >= 1
<1> QED
  BY EmptySeq DEF QueueTypeOK

\* A step that moves no node and neither the receiver nor its marker keeps
\* the queue's sleepers if no producer stops owing.
LEMMA QuietSleep ==
  ASSUME SleepKept, TrackRace, UNCHANGED <<queue, receiverVars, waker, notified>>,
         \A p \in Producers : Owing(p) => Owing(p)' /\ node'[p] = node[p]
  PROVE  SleepKept'
<1>1. \A j : BehindMarker(j)' <=> BehindMarker(j)
  BY DEF BehindMarker, receiverVars
<1>2. raced' => raced \/ Racing'
  BY DEF TrackRace
<1>3. Racing' => \E p \in Producers : Owing(p)'
  BY DEF Racing, Owing
<1> QED
  BY <1>1, <1>2, <1>3 DEF SleepKept, receiverVars

LEMMA ClaimKeeps ==
  ASSUME QueueInv, NEW p \in Producers, NEW n \in Nodes, Claim(p, n)
  PROVE  QueueInv'
<1> USE NullAssumption DEF producerVars, receiverVars
<1>1. QueueTypeOK'
  BY DEF QueueInv, QueueTypeOK, Claim, TrackRace, Stages
<1>2. NodesApart'
  <2>1. CASE isEnqueued[n]
    BY <2>1 DEF QueueInv, QueueTypeOK, NodesApart, Claim, Queued
  <2>2. CASE ~isEnqueued[n]
    BY <2>2 DEF QueueInv, QueueTypeOK, NodesApart, Claim, Queued
  <2> QED
    BY <2>1, <2>2
<1>3. MarkerKept'
  BY DEF QueueInv, MarkerKept, Claim, Queued
<1>4. SleepKept'
  BY QuietSleep DEF QueueInv, QueueTypeOK, Claim, Owing
<1> QED
  BY <1>1, <1>2, <1>3, <1>4 DEF QueueInv

LEMMA AbandonKeeps ==
  ASSUME QueueInv, NEW p \in Producers, Abandon(p)
  PROVE  QueueInv'
<1> USE NullAssumption DEF producerVars, receiverVars
<1>1. QueueTypeOK'
  BY DEF QueueInv, QueueTypeOK, Abandon, TrackRace, Stages
<1>2. NodesApart'
  BY DEF QueueInv, QueueTypeOK, NodesApart, Abandon, Queued
<1>3. MarkerKept'
  BY DEF QueueInv, MarkerKept, Abandon, Queued
<1>4. SleepKept'
  BY QuietSleep DEF QueueInv, QueueTypeOK, Abandon, Owing
<1> QED
  BY <1>1, <1>2, <1>3, <1>4 DEF QueueInv

LEMMA AddKeeps ==
  ASSUME QueueInv, NEW p \in Producers, Add(p)
  PROVE  QueueInv'
<1> USE NullAssumption DEF producerVars, receiverVars
<1>1. /\ node[p] \in Nodes /\ ~Queued(node[p]) /\ isEnqueued[node[p]]
      /\ phase = "hold" => held # node[p]
      /\ node' = node
  BY DEF QueueInv, NodesApart, Add
<1>2. PICK len \in Nat : len = Len(queue)
  BY QueueCells DEF QueueInv
<1>3. /\ queue' \in Seq(Nodes) /\ Len(queue') = len + 1
      /\ \A i \in 1..len : queue'[i] = queue[i]
      /\ queue'[len + 1] = node[p]
  BY <1>1, <1>2, AppendCell DEF QueueInv, QueueTypeOK, Add
<1>4. \A n : Queued(n)' <=> Queued(n) \/ n = node[p]
  BY <1>2, <1>3 DEF Queued
<1>5. QueueTypeOK'
  BY <1>3 DEF QueueInv, QueueTypeOK, Add, TrackRace, Stages
<1>6. NodesApart'
  <2>1. \A i, j \in 1..Len(queue') : queue'[i] = queue'[j] => i = j
    <3>1. \A i \in 1..len : queue[i] # node[p]
      BY <1>1, <1>2 DEF Queued
    <3>2. \A i, j \in 1..len : queue[i] = queue[j] => i = j
      BY <1>2 DEF QueueInv, NodesApart
    <3>3. \A i \in 1..len + 1 : i \in 1..len \/ i = len + 1
      OBVIOUS
    <3> QED
      BY <1>3, <3>1, <3>2, <3>3
  <2>2. \A q \in Producers : stage'[q] = IF q = p THEN "appended" ELSE stage[q]
    BY DEF QueueInv, QueueTypeOK, Add
  <2>3. /\ UNCHANGED <<isEnqueued, node, phase, held, open>> /\ stage[p] = "claimed"
    BY DEF Add
  <2> HIDE DEF producerVars, receiverVars
  <2>4. \A q \in Producers : stage'[q] = "claimed" =>
          /\ node'[q] \in Nodes /\ isEnqueued'[node'[q]] /\ ~Queued(node[q])'
          /\ phase' = "hold" => held' # node'[q]
    BY <1>1, <1>4, <2>2, <2>3 DEF QueueInv, NodesApart
  <2>5. \A q, r \in Producers :
          stage'[q] = "claimed" /\ stage'[r] = "claimed" /\ node'[q] = node'[r] => q = r
    BY <2>2, <2>3 DEF QueueInv, NodesApart
  <2>6. \A q \in Producers : stage'[q] # "idle" <=> node'[q] # Null
    BY <2>2, <2>3 DEF QueueInv, NodesApart
  <2> QED
    BY <1>1, <1>4, <2>1, <2>3, <2>4, <2>5, <2>6 DEF QueueInv, NodesApart
<1>7. MarkerKept'
  BY <1>4 DEF QueueInv, MarkerKept, Add
<1>8. SleepKept'
  <2>1. Owing(p)' /\ \A q \in Producers : Owing(q) => Owing(q)'
    BY DEF QueueInv, QueueTypeOK, Add, Owing
  <2>2. ASSUME waker', marker' # Null, NEW j \in 1..len + 1, BehindMarker(j)'
        PROVE  \E q \in Producers : Owing(q)' /\ node'[q] = queue'[j]
    <3>1. CASE j = len + 1
      BY <1>1, <1>3, <2>1, <3>1
    <3>2. CASE j \in 1..len
      <4>1. BehindMarker(j)
        <5>1. CASE held' = marker'
          BY <5>1 DEF Add, BehindMarker
        <5>2. CASE held' # marker'
          <6>1. PICK i \in 1..len + 1 : i < j /\ queue'[i] = marker'
            BY <1>3, <2>2, <5>2 DEF BehindMarker
          <6>2. i \in 1..len /\ queue[i] = marker
            BY <1>3, <3>2, <6>1 DEF Add
          <6> QED
            BY <1>2, <6>1, <6>2 DEF BehindMarker
        <5> QED
          BY <5>1, <5>2
      <4>2. PICK q \in Producers : Owing(q) /\ node[q] = queue[j]
        BY <1>2, <2>2, <3>2, <4>1 DEF QueueInv, SleepKept, Add
      <4> QED
        BY <1>1, <1>3, <2>1, <3>2, <4>2
    <3> QED
      BY <3>1, <3>2
  <2>3. phase' \in {"snapshot", "parked"} \/ marker' # Null => waker' \/ notified'
    BY DEF QueueInv, SleepKept, Add
  <2> QED
    BY <1>3, <2>1, <2>2, <2>3 DEF SleepKept
<1> QED
  BY <1>5, <1>6, <1>7, <1>8 DEF QueueInv

LEMMA LinkKeeps ==
  ASSUME QueueInv, NEW p \in Producers, Link(p)
  PROVE  QueueInv'
<1> USE NullAssumption DEF producerVars, receiverVars
<1>1. QueueTypeOK'
  BY DEF QueueInv, QueueTypeOK, Link, TrackRace, Stages
<1>2. NodesApart'
  BY DEF QueueInv, QueueTypeOK, NodesApart, Link, Queued
<1>3. MarkerKept'
  BY DEF QueueInv, MarkerKept, Link, Queued
<1>4. SleepKept'
  BY QuietSleep DEF QueueInv, QueueTypeOK, Link, Owing
<1> QED
  BY <1>1, <1>2, <1>3, <1>4 DEF QueueInv

\* After the wake the waker's cell is empty and the receiver notified, if it
\* had registered.
LEMMA WakeKeeps ==
  ASSUME QueueInv, NEW p \in Producers, Wake(p)
  PROVE  QueueInv'
<1> USE NullAssumption DEF producerVars, receiverVars
<1>1. QueueTypeOK'
  <2>1. notified' \in BOOLEAN /\ waker' \in BOOLEAN /\ raced' \in BOOLEAN
    BY DEF QueueInv, QueueTypeOK, Wake, TrackRace
  <2> QED
    BY <2>1 DEF QueueInv, QueueTypeOK, Wake, Stages
<1>2. NodesApart'
  BY DEF QueueInv, QueueTypeOK, NodesApart, Wake, Queued
<1>3. MarkerKept'
  BY DEF QueueInv, MarkerKept, Wake, Queued
<1>4. SleepKept'
  <2>1. phase \in {"snapshot", "parked"} \/ marker # Null => notified'
    BY DEF QueueInv, SleepKept, Wake
  <2> QED
    BY <2>1 DEF SleepKept, Wake
<1> QED
  BY <1>1, <1>2, <1>3, <1>4 DEF QueueInv

\* Taking the head leaves the other nodes in their order.
LEMMA TakeHead ==
  ASSUME QueueInv, queue # <<>>, queue' = Tail(queue)
  PROVE  /\ queue' \in Seq(Nodes)
         /\ Head(queue) = queue[1] /\ queue[1] \in Nodes /\ Queued(queue[1])
         /\ Len(queue) \in Nat /\ Len(queue) = Len(queue') + 1 /\ Len(queue') \in Nat
         /\ \A i \in 1..Len(queue') : queue'[i] = queue[i + 1]
         /\ \A i, j \in 1..Len(queue') : queue'[i] = queue'[j] => i = j
         /\ \A n : Queued(n)' <=> Queued(n) /\ n # queue[1]
<1>1. /\ queue \in Seq(Nodes) /\ \A i, j \in 1..Len(queue) : queue[i] = queue[j] => i = j
  BY DEF QueueInv, QueueTypeOK, NodesApart
<1>2. PICK k \in Nat : k = Len(queue')
  BY <1>1, TailCell
<1>3. /\ queue' \in Seq(Nodes) /\ Len(queue) = k + 1
      /\ \A i \in 1..k : queue'[i] = queue[i + 1]
      /\ Head(queue) = queue[1] /\ queue[1] \in Nodes
  <2>1. queue' \in Seq(Nodes) /\ Len(queue) = k + 1
    BY <1>1, <1>2, TailCell
  <2>2. \A i \in 1..k : queue'[i] = queue[i + 1]
    BY <1>1, <2>1, TailCell
  <2>3. Head(queue) = queue[1] /\ queue[1] \in Nodes
    BY <1>1, <2>1
  <2> QED
    BY <2>1, <2>2, <2>3
<1>4. \A i, j \in 1..k + 1 : queue[i] = queue[j] => i = j
  BY <1>1, <1>3
<1>5. Queued(queue[1])
  BY <1>3 DEF Queued
<1>6. \A i, j \in 1..k : queue'[i] = queue'[j] => i = j
  <2> TAKE i, j \in 1..k
  <2>1. i + 1 \in 1..k + 1 /\ j + 1 \in 1..k + 1
    OBVIOUS
  <2> QED
    BY <1>3, <1>4, <2>1
<1>7. ASSUME NEW n, Queued(n), n # queue[1] PROVE Queued(n)'
  <2>1. PICK i \in 1..k + 1 : queue[i] = n
    BY <1>3, <1>7 DEF Queued
  <2>2. PICK j \in 1..k : j + 1 = i
    <3>1. PICK j \in Nat : j + 1 = i
      BY <2>1
    <3> QED
      BY <1>7, <2>1, <3>1
  <2> QED
    BY <1>2, <1>3, <2>1, <2>2 DEF Queued
<1>8. ASSUME NEW n, Queued(n)' PROVE Queued(n) /\ n # queue[1]
  <2>1. PICK i \in 1..k : queue'[i] = n
    BY <1>2, <1>8 DEF Queued
  <2>2. i + 1 \in 1..k + 1 /\ queue[i + 1] = n /\ i + 1 # 1
    BY <1>3, <2>1
  <2>3. Queued(n)
    BY <1>3, <2>2 DEF Queued
  <2>4. n # queue[1]
    BY <1>4, <2>2
  <2> QED
    BY <2>3, <2>4
<1> QED
  BY <1>2, <1>3, <1>5, <1>6, <1>7, <1>8

LEMMA RegisterKeeps ==
  ASSUME QueueInv, Register
  PROVE  QueueInv'
<1> USE NullAssumption DEF producerVars, receiverVars
<1>1. QueueTypeOK'
  BY DEF QueueInv, QueueTypeOK, Register, TrackRace, Phases
<1>2. NodesApart'
  BY DEF QueueInv, QueueTypeOK, NodesApart, Register, Queued
<1>3. marker = Null /\ MarkerKept'
  BY DEF QueueInv, MarkerKept, Register, Queued
<1>4. SleepKept'
  BY <1>3 DEF QueueInv, SleepKept, Register, TrackRace
<1> QED
  BY <1>1, <1>2, <1>3, <1>4 DEF QueueInv

\* The marker of a fresh drain has nothing behind it.
LEMMA SnapshotKeeps ==
  ASSUME QueueInv, Snapshot
  PROVE  QueueInv'
<1> USE NullAssumption DEF producerVars, receiverVars
<1>1. /\ Len(queue) \in Nat /\ \A i \in 1..Len(queue) : queue[i] \in Nodes
      /\ queue # <<>> => Len(queue) >= 1
  BY QueueCells DEF QueueInv
<1>2. LastQueued = Null <=> queue = <<>>
  BY <1>1 DEF LastQueued
<1>3. LastQueued # Null => LastQueued \in Nodes /\ Queued(LastQueued)
  BY <1>1 DEF LastQueued, Queued
<1>4. QueueTypeOK'
  BY <1>3 DEF QueueInv, QueueTypeOK, Snapshot, TrackRace, Phases
<1>5. NodesApart'
  BY DEF QueueInv, QueueTypeOK, NodesApart, Snapshot, Queued
<1>6. MarkerKept'
  BY <1>2, <1>3 DEF QueueInv, MarkerKept, Snapshot, Queued
<1>7. SleepKept'
  <2>1. ASSUME marker' # Null, NEW j \in 1..Len(queue), BehindMarker(j)' PROVE FALSE
    <3>1. held' = Null
      BY DEF QueueInv, NodesApart, Snapshot
    <3>2. PICK i \in 1..Len(queue) : i < j /\ queue[i] = queue[Len(queue)]
      BY <1>2, <2>1, <3>1 DEF BehindMarker, Snapshot, LastQueued
    <3>3. i = Len(queue)
      BY <1>1, <3>2 DEF QueueInv, NodesApart
    <3> QED
      BY <1>1, <3>2, <3>3
  <2>2. waker \/ notified
    BY DEF QueueInv, SleepKept, Snapshot
  <2>3. (raced' /\ phase' = "drain") => \E p \in Producers : Owing(p)'
    BY DEF Snapshot, TrackRace, Racing, Owing
  <2>4. /\ UNCHANGED <<queue, waker, notified>>
        /\ phase' = "parked" => queue = <<>>
    BY DEF Snapshot
  <2> QED
    BY <2>1, <2>2, <2>3, <2>4 DEF SleepKept
<1> QED
  BY <1>4, <1>5, <1>6, <1>7 DEF QueueInv

LEMMA StartDrainKeeps ==
  ASSUME QueueInv, StartDrain
  PROVE  QueueInv'
<1> USE NullAssumption DEF producerVars, receiverVars
<1>1. QueueTypeOK'
  BY DEF QueueInv, QueueTypeOK, StartDrain, TrackRace, Phases
<1>2. NodesApart'
  BY DEF QueueInv, QueueTypeOK, NodesApart, StartDrain, Queued
<1>3. marker' = Null /\ MarkerKept'
  BY DEF QueueInv, MarkerKept, StartDrain, Queued
<1>4. SleepKept'
  BY <1>3 DEF QueueInv, SleepKept, StartDrain, TrackRace, Racing, Owing
<1> QED
  BY <1>1, <1>2, <1>3, <1>4 DEF QueueInv

LEMMA TakeKeeps ==
  ASSUME QueueInv, Take
  PROVE  QueueInv'
<1> USE NullAssumption DEF producerVars, receiverVars
<1>1. /\ queue # <<>> /\ queue' = Tail(queue) /\ held' = Head(queue)
      /\ held = Null /\ phase = "drain" /\ phase' = "hold"
      /\ UNCHANGED <<isEnqueued, stage, node, marker, waker, notified, open>>
  BY DEF QueueInv, NodesApart, Take
<1>2. /\ queue' \in Seq(Nodes) /\ held' = queue[1] /\ held' \in Nodes /\ Queued(held')
      /\ Len(queue) \in Nat /\ Len(queue) = Len(queue') + 1 /\ Len(queue') \in Nat
      /\ \A i \in 1..Len(queue') : queue'[i] = queue[i + 1]
      /\ \A i, j \in 1..Len(queue') : queue'[i] = queue'[j] => i = j
      /\ \A n : Queued(n)' <=> Queued(n) /\ n # held'
  BY <1>1, TakeHead
<1>3. QueueTypeOK'
  BY <1>1, <1>2 DEF QueueInv, QueueTypeOK, Take, TrackRace, Phases
<1>4. NodesApart'
  <2>1. \A n \in Nodes : Queued(n) => isEnqueued[n]
    BY DEF QueueInv, NodesApart
  <2>2. \A p \in Producers : stage[p] = "claimed" =>
          node[p] \in Nodes /\ isEnqueued[node[p]] /\ ~Queued(node[p])
    BY DEF QueueInv, NodesApart
  <2>3. ~Queued(held)'
    <3>1. PICK h : h = held'
      OBVIOUS
    <3>2. ~Queued(h)'
      BY <1>2, <3>1
    <3> QED
      BY <3>1, <3>2 DEF Queued
  <2>4. \A p \in Producers : stage'[p] = "claimed" =>
          /\ node'[p] \in Nodes /\ isEnqueued'[node'[p]] /\ ~Queued(node[p])'
          /\ held' # node'[p]
    BY <1>1, <1>2, <2>2 DEF Queued
  <2>5. isEnqueued'[held']
    BY <1>1, <1>2, <2>1
  <2>6. \A n \in Nodes : Queued(n)' => isEnqueued'[n]
    BY <1>1, <1>2, <2>1
  <2> QED
    BY <1>1, <1>2, <2>3, <2>4, <2>5, <2>6 DEF QueueInv, NodesApart
<1>5. MarkerKept'
  BY <1>1, <1>2 DEF QueueInv, MarkerKept, Queued
<1>6. SleepKept'
  <2>1. ASSUME waker', marker' # Null, NEW j \in 1..Len(queue'), BehindMarker(j)'
        PROVE  \E p \in Producers : Owing(p)' /\ node'[p] = queue'[j]
    <3>1. j + 1 \in 1..Len(queue) /\ 1 < j + 1 /\ queue'[j] = queue[j + 1]
      BY <1>2
    <3>2. BehindMarker(j + 1)
      <4>1. CASE held' = marker'
        BY <1>1, <1>2, <3>1, <4>1 DEF BehindMarker
      <4>2. CASE held' # marker'
        <5>1. PICK i \in 1..Len(queue') : i < j /\ queue'[i] = marker
          BY <1>1, <2>1, <4>2 DEF BehindMarker
        <5>2. i + 1 \in 1..Len(queue) /\ i + 1 < j + 1 /\ queue[i + 1] = marker
          BY <1>2, <5>1
        <5> QED
          BY <5>2 DEF BehindMarker
      <4> QED
        BY <4>1, <4>2
    <3>3. PICK p \in Producers : Owing(p) /\ node[p] = queue[j + 1]
      BY <1>1, <2>1, <3>1, <3>2 DEF QueueInv, SleepKept
    <3> QED
      BY <1>1, <3>1, <3>3 DEF Owing
  <2> QED
    BY <1>1, <2>1 DEF QueueInv, SleepKept
<1> QED
  BY <1>3, <1>4, <1>5, <1>6 DEF QueueInv

\* Giving up parks the receiver only if someone still owes it a wakeup.
LEMMA TakeNothingKeeps ==
  ASSUME QueueInv, TakeNothing
  PROVE  QueueInv'
<1> USE NullAssumption DEF producerVars, receiverVars
<1>1. QueueTypeOK'
  BY DEF QueueInv, QueueTypeOK, TakeNothing, TrackRace, Phases
<1>2. NodesApart'
  BY DEF QueueInv, QueueTypeOK, NodesApart, TakeNothing, Queued
<1>3. marker' = Null /\ MarkerKept'
  BY DEF QueueInv, MarkerKept, TakeNothing, Queued
<1>4. SleepKept'
  <2>1. phase' # "drain"
    BY DEF TakeNothing
  <2>2. phase' \in {"snapshot", "parked"} => waker' \/ notified'
    BY DEF QueueInv, SleepKept, TakeNothing
  <2>3. phase' = "parked" /\ queue' # <<>> => notified' \/ \E p \in Producers : Owing(p)'
    BY DEF QueueInv, SleepKept, TakeNothing, Owing
  <2> QED
    BY <1>3, <2>1, <2>2, <2>3 DEF SleepKept
<1> QED
  BY <1>1, <1>2, <1>3, <1>4 DEF QueueInv

LEMMA RecoverKeeps ==
  ASSUME QueueInv, Recover
  PROVE  QueueInv'
<1> USE NullAssumption DEF producerVars, receiverVars
<1>1. held \in Nodes
  BY DEF QueueInv, NodesApart, Recover
<1>2. QueueTypeOK'
  BY <1>1 DEF QueueInv, QueueTypeOK, Recover, TrackRace, Phases
<1>3. NodesApart'
  BY <1>1 DEF QueueInv, QueueTypeOK, NodesApart, Recover, Queued
<1>4. MarkerKept'
  BY DEF QueueInv, MarkerKept, Recover, Queued
<1>5. SleepKept'
  BY DEF QueueInv, SleepKept, Recover, BehindMarker, Owing
<1> QED
  BY <1>2, <1>3, <1>4, <1>5 DEF QueueInv

\* At the end of a drain everything left is behind the marker.
LEMMA EndRoundKeeps ==
  ASSUME QueueInv, NEW early \in BOOLEAN, phase \in {"hold", "serving"}, EndRound(early),
         UNCHANGED <<queue, isEnqueued, producerVars, waker, notified, open>>, TrackRace
  PROVE  QueueInv'
<1> USE NullAssumption DEF producerVars, receiverVars
<1>1. held' = Null /\ phase' \in {"ready", "parked", "drain"}
  BY DEF EndRound
<1>2. QueueTypeOK'
  BY <1>1 DEF QueueInv, QueueTypeOK, EndRound, TrackRace, Phases
<1>3. NodesApart'
  BY <1>1 DEF QueueInv, QueueTypeOK, NodesApart, Queued
<1>4. MarkerKept'
  BY DEF QueueInv, MarkerKept, EndRound, Queued
<1>5. SleepKept'
  <2>1. held \in Nodes /\ Len(queue) \in Nat /\ (queue # <<>> => Len(queue) >= 1)
    BY QueueCells DEF QueueInv, NodesApart
  <2>2. ASSUME phase' = "parked" PROVE held = marker /\ marker' = Null
    BY <2>2 DEF EndRound
  <2>3. ASSUME phase' = "parked", queue # <<>>, ~notified PROVE \E p \in Producers : Owing(p)
    <3>1. marker # Null /\ waker /\ BehindMarker(1)
      BY <2>1, <2>2, <2>3 DEF QueueInv, SleepKept, BehindMarker
    <3> QED
      BY <2>1, <2>3, <3>1 DEF QueueInv, SleepKept
  <2>4. ASSUME marker' # Null
        PROVE  /\ marker' = marker /\ held # marker
               /\ \A j \in 1..Len(queue) : BehindMarker(j)' => BehindMarker(j)
    BY <1>1, <2>4 DEF EndRound, BehindMarker
  <2>5. phase' = "drain" /\ raced' => \E p \in Producers : Owing(p)
    <3>1. phase' = "drain" /\ raced' => Racing'
      BY DEF TrackRace
    <3> QED
      BY <3>1 DEF Racing, Owing
  <2>6. phase' \in {"snapshot", "parked"} \/ marker' # Null => waker \/ notified
    BY <1>1, <2>1, <2>2, <2>4 DEF QueueInv, SleepKept
  <2>7. UNCHANGED <<queue, waker, notified, node>> /\ \A p \in Producers : Owing(p)' <=> Owing(p)
    BY DEF Owing
  <2> QED
    BY <2>3, <2>4, <2>5, <2>6, <2>7 DEF QueueInv, SleepKept
<1> QED
  BY <1>2, <1>3, <1>4, <1>5 DEF QueueInv

LEMMA DropsKeep ==
  ASSUME QueueInv, DropReceiver \/ Close \/ DropNode
  PROVE  QueueInv'
<1> USE NullAssumption DEF producerVars, receiverVars
<1>1. /\ phase' = "dropped" /\ held = Null /\ held' = Null /\ marker = Null /\ marker' = Null
      /\ UNCHANGED <<isEnqueued, stage, node, waker, notified>>
  BY DEF QueueInv, NodesApart, MarkerKept, DropReceiver, Close, DropNode
<1>2. /\ queue' \in Seq(Nodes) /\ \A n : Queued(n)' => Queued(n)
      /\ \A i, j \in 1..Len(queue') : queue'[i] = queue'[j] => i = j
  <2>1. CASE DropNode
    BY <2>1, TakeHead DEF DropNode
  <2>2. CASE DropReceiver \/ Close
    BY <2>2 DEF QueueInv, QueueTypeOK, NodesApart, DropReceiver, Close, Queued
  <2> QED
    BY <2>1, <2>2
<1>3. raced' = FALSE /\ open' \in BOOLEAN
  BY <1>1 DEF QueueInv, QueueTypeOK, DropReceiver, Close, DropNode, TrackRace
<1>4. QueueTypeOK'
  BY <1>1, <1>2, <1>3 DEF QueueInv, QueueTypeOK, Phases
<1>5. NodesApart'
  <2>1. \A p \in Producers : stage'[p] = "claimed" =>
          node'[p] \in Nodes /\ isEnqueued'[node'[p]] /\ ~Queued(node[p])'
    BY <1>1, <1>2 DEF QueueInv, NodesApart
  <2>2. \A n \in Nodes : Queued(n)' => isEnqueued'[n]
    BY <1>1, <1>2 DEF QueueInv, NodesApart
  <2>3. phase' \notin {"hold", "serving"}
    BY <1>1
  <2>4. /\ \A p, q \in Producers :
             stage'[p] = "claimed" /\ stage'[q] = "claimed" /\ node'[p] = node'[q] => p = q
        /\ \A p \in Producers : stage'[p] # "idle" <=> node'[p] # Null
    BY <1>1 DEF QueueInv, NodesApart
  <2> QED
    BY <1>1, <1>2, <2>1, <2>2, <2>3, <2>4 DEF NodesApart
<1>6. MarkerKept' /\ SleepKept'
  BY <1>1 DEF MarkerKept, SleepKept
<1> QED
  BY <1>4, <1>5, <1>6 DEF QueueInv

LEMMA QueueStep == QueueInv /\ [Next]_vars => QueueInv'
<1> SUFFICES ASSUME QueueInv, [Next]_vars PROVE QueueInv'
  OBVIOUS
<1>1. ASSUME NEW p \in Producers, Produce(p) PROVE QueueInv'
  BY <1>1, AbandonKeeps, AddKeeps, LinkKeeps, WakeKeeps DEF Produce
<1>2. ASSUME NEW p \in Producers, NEW n \in Nodes, Claim(p, n) PROVE QueueInv'
  BY <1>2, ClaimKeeps
<1>3. CASE Register \/ StartDrain \/ Snapshot \/ Take \/ TakeNothing \/ Recover
  BY <1>3, RegisterKeeps, StartDrainKeeps, SnapshotKeeps, TakeKeeps, TakeNothingKeeps,
     RecoverKeeps
<1>4. CASE Discard
  BY <1>4, EndRoundKeeps DEF Discard
<1>5. ASSUME NEW early \in BOOLEAN, Finish(early) PROVE QueueInv'
  BY <1>5, EndRoundKeeps DEF Finish
<1>6. CASE DropReceiver \/ Close \/ DropNode
  BY <1>6, DropsKeep
<1>7. CASE UNCHANGED vars
  BY <1>7 DEF vars, producerVars, receiverVars, QueueInv, QueueTypeOK, NodesApart, MarkerKept,
     SleepKept, Queued, BehindMarker, Owing
<1> QED
  BY <1>1, <1>2, <1>3, <1>4, <1>5, <1>6, <1>7 DEF Next, Receive

LEMMA QueueInit == Init => QueueInv
<1> SUFFICES ASSUME Init PROVE QueueInv
  OBVIOUS
<1>1. Len(queue) = 0 /\ queue \in Seq(Nodes)
  BY DEF Init
<1>2. \A i \in 1..Len(queue) : FALSE
  BY <1>1
<1>3. QueueTypeOK
  BY <1>1 DEF Init, QueueTypeOK, Stages, Phases
<1>4. NodesApart
  BY <1>2, NullAssumption DEF Init, NodesApart, Queued
<1>5. MarkerKept /\ SleepKept
  BY DEF Init, MarkerKept, SleepKept
<1> QED
  BY <1>3, <1>4, <1>5 DEF QueueInv

\* The queue, the claims on its nodes and the wakeups owed to its receiver
\* fit together in every state of WakeupQueue.
THEOREM QueueCorrect == Spec => []QueueInv
<1> QED
  BY QueueInit, QueueStep, PTL DEF Spec
=============================================================================
