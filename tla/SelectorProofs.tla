---------------------------- MODULE SelectorProofs ----------------------------
(***************************************************************************)
(* Proofs, for any sets of tasks and threads, of the safety properties of  *)
(* Selector, on top of the invariant of its queue, and that it implements  *)
(* TaskPool: every step of the selector, its queue and the threads that    *)
(* wake its tasks is a step of the pool of tasks or changes nothing of it. *)
(***************************************************************************)
EXTENDS Selector, WakeupQueueProofs

----------------------------------------------------------------------------
(* The list *)

LEMMA ListCells ==
  ASSUME SelTypeOK
  PROVE  /\ Len(list) \in Nat /\ Len(waking) \in Nat
         /\ \A i \in 1..Len(list) : list[i] \in Nodes
         /\ \A i \in 1..Len(waking) : waking[i] \in Nodes
         /\ waking # <<>> => Head(waking) = waking[1] /\ 1 \in 1..Len(waking)
<1> QED
  BY EmptySeq, HeadTailProperties DEF SelTypeOK

\* Taking a task out leaves the others stored.
LEMMA ListWithout ==
  ASSUME SelTypeOK, ListKept, NEW n, list' = Without(n)
  PROVE  /\ list' \in Seq(Nodes)
         /\ \A i, j \in 1..Len(list') : list'[i] = list'[j] => i = j
         /\ \A m : Stored(m)' <=> Stored(m) /\ m # n
<1>1. CASE Stored(n)
  <2>1. PlaceOf(n) \in 1..Len(list) /\ list[PlaceOf(n)] = n
    BY <1>1 DEF Stored, PlaceOf
  <2>2. PICK k \in 1..Len(list) : k = PlaceOf(n) /\ list[k] = n
    BY <2>1
  <2>3. list' = [i \in 1..Len(list) - 1 |-> IF i < k THEN list[i] ELSE list[i + 1]]
    BY <1>1, <2>2 DEF Without
  <2>4. list \in Seq(Nodes) /\ NoRepeats(list)
    BY DEF SelTypeOK, ListKept, NoRepeats
  <2>5. PICK r : r = list'
    OBVIOUS
  <2>6. r \in Seq(Nodes) /\ RemovedFrom(r, list, k)
    BY <2>3, <2>4, <2>5, RemoveIsSeq
  <2>7. NoRepeats(r) /\ \A m : Among(m, r) <=> Among(m, list) /\ m # list[k]
    BY <2>4, <2>6, RemoveCell
  <2> QED
    BY <2>2, <2>5, <2>6, <2>7 DEF Stored, Among, NoRepeats
<1>2. CASE ~Stored(n)
  BY <1>2 DEF Stored, Without, SelTypeOK, ListKept
<1> QED
  BY <1>1, <1>2

LEMMA ListAppend ==
  ASSUME SelTypeOK, ListKept, NEW n \in fresh, list' = Append(list, n)
  PROVE  /\ list' \in Seq(Nodes)
         /\ \A i, j \in 1..Len(list') : list'[i] = list'[j] => i = j
         /\ \A m : Stored(m)' <=> Stored(m) \/ m = n
<1>1. n \in Nodes /\ ~Stored(n) /\ list \in Seq(Nodes)
  BY DEF SelTypeOK, ListKept
<1>2. PICK len \in Nat : len = Len(list)
  BY <1>1, AppendCell
<1>3. /\ list' \in Seq(Nodes) /\ Len(list') = len + 1
      /\ \A i \in 1..len : list'[i] = list[i]
      /\ list'[len + 1] = n
  BY <1>1, <1>2, AppendCell
<1>4. \A m : Stored(m)' <=> Stored(m) \/ m = n
  BY <1>2, <1>3 DEF Stored
<1>5. \A i \in 1..len : list[i] # n
  BY <1>1, <1>2 DEF Stored
<1>6. \A i, j \in 1..len : list[i] = list[j] => i = j
  BY <1>2 DEF ListKept
<1>7. \A i \in 1..len + 1 : i \in 1..len \/ i = len + 1
  OBVIOUS
<1> QED
  BY <1>3, <1>4, <1>5, <1>6, <1>7

LEMMA ListTail ==
  ASSUME SelTypeOK, ListKept, list # <<>>, list' = Tail(list)
  PROVE  /\ list' \in Seq(Nodes)
         /\ \A i, j \in 1..Len(list') : list'[i] = list'[j] => i = j
         /\ \A m : Stored(m)' => Stored(m)
<1>1. list \in Seq(Nodes) /\ NoRepeats(list)
  BY DEF SelTypeOK, ListKept, NoRepeats
<1>2. Tail(list) \in Seq(Nodes)
  BY <1>1, TailCell
<1>3. NoRepeats(Tail(list)) /\ \A e : Among(e, Tail(list)) => Among(e, list)
  BY <1>1, TailDistinct
<1> QED
  BY <1>2, <1>3 DEF Stored, Among, NoRepeats

----------------------------------------------------------------------------
(* Who is coming *)

\* What a step of the queue does to the nodes on their way.
LEMMA ClaimComes ==
  ASSUME QueueInv, NEW p \in Producers, NEW n \in Nodes, Claim(p, n)
  PROVE  /\ \A m : Coming(m) => Coming(m)'
         /\ ~isEnqueued[n] => Coming(n)'
         /\ \A m \in Nodes : isEnqueued'[m] <=> isEnqueued[m] \/ m = n
<1>1. UNCHANGED <<queue, phase, held>> /\ stage[p] = "idle"
  BY DEF Claim, receiverVars
<1>2. \A q \in Producers : stage[q] = "claimed" => stage'[q] = "claimed" /\ node'[q] = node[q]
  BY <1>1 DEF QueueInv, QueueTypeOK, Claim, producerVars
<1>3. ~isEnqueued[n] => stage'[p] = "claimed" /\ node'[p] = n
  BY DEF QueueInv, QueueTypeOK, Claim
<1>4. \A m \in Nodes : isEnqueued'[m] <=> isEnqueued[m] \/ m = n
  BY DEF QueueInv, QueueTypeOK, Claim
<1> QED
  BY <1>1, <1>2, <1>3, <1>4 DEF Coming, Queued

LEMMA EnqueueComes ==
  ASSUME QueueInv, open, NEW p \in Producers, Produce(p)
  PROVE  \A m : Coming(m) => Coming(m)'
<1> USE DEF producerVars, receiverVars
<1>1. CASE Add(p)
  <2>1. \A m : Queued(m)' <=> Queued(m) \/ m = node[p]
    <3>1. node[p] \in Nodes /\ queue \in Seq(Nodes) /\ queue' = Append(queue, node[p])
      BY <1>1 DEF QueueInv, QueueTypeOK, NodesApart, Add
    <3>2. PICK len \in Nat : len = Len(queue)
      BY <3>1, AppendCell
    <3>3. /\ Len(queue') = len + 1 /\ queue'[len + 1] = node[p]
          /\ \A i \in 1..len : queue'[i] = queue[i]
      BY <3>1, <3>2, AppendCell
    <3> QED
      BY <3>2, <3>3 DEF Queued
  <2>2. \A q \in Producers : q # p => stage'[q] = stage[q] /\ node'[q] = node[q]
    BY <1>1 DEF QueueInv, QueueTypeOK, Add
  <2>3. UNCHANGED <<phase, held>>
    BY <1>1 DEF Add
  <2> QED
    BY <2>1, <2>2, <2>3 DEF Coming
<1>2. CASE Abandon(p)
  BY <1>2 DEF Abandon
<1>3. CASE Link(p) \/ Wake(p)
  <2>1. /\ UNCHANGED <<phase, held, queue>> /\ stage[p] # "claimed"
        /\ \A q \in Producers : q # p => stage'[q] = stage[q] /\ node'[q] = node[q]
    BY <1>3 DEF QueueInv, QueueTypeOK, Link, Wake
  <2> QED
    BY <2>1 DEF Coming, Queued
<1> QED
  BY <1>1, <1>2, <1>3 DEF Produce

\* Only its poll, or its being skipped, takes a node off its way.
LEMMA PollComes ==
  ASSUME QueueInv,
         \/ Register \/ Snapshot \/ Take \/ TakeNothing \/ Recover \/ Discard
         \/ DropReceiver \/ \E early \in BOOLEAN : Finish(early)
  PROVE  \A m : Coming(m) => Coming(m)' \/ (phase = "hold" /\ held = m)
<1> USE DEF producerVars, receiverVars
<1>1. UNCHANGED <<stage, node>>
  BY DEF Register, Snapshot, Take, TakeNothing, Recover, Discard, DropReceiver, Finish
<1>2. CASE Take
  <2>1. \A m : Queued(m)' <=> Queued(m) /\ m # queue[1]
    BY <1>2, TakeHead DEF Take
  <2>2. held' = queue[1] /\ phase' = "hold" /\ phase = "drain"
    BY <1>2, TakeHead DEF Take
  <2> QED
    BY <1>1, <2>1, <2>2 DEF Coming
<1>3. CASE ~Take
  <2>1. queue' = queue
    BY <1>3 DEF Register, Snapshot, TakeNothing, Recover, Discard, DropReceiver, Finish
  <2> QED
    BY <1>1, <2>1 DEF Coming, Queued
<1> QED
  BY <1>2, <1>3

----------------------------------------------------------------------------
(* Whose turn it is *)

\* A step that moves no node.
LEMMA QuietTurns ==
  ASSUME TurnsKept, UNCHANGED <<queue, phase, held, marker, polled, overtook>>
  PROVE  TurnsKept'
<1> QED
  BY DEF TurnsKept, Queued

\* A node enters the queue behind the marker and behind all the others.
LEMMA AddTurns ==
  ASSUME QueueInv, TurnsKept, overtook \in [Nodes -> SUBSET Nodes],
         NEW p \in Producers, Add(p),
         overtook' = [overtook EXCEPT ![node[p]] = {}], polled' = polled
  PROVE  TurnsKept'
<1> USE DEF producerVars, receiverVars
<1>1. /\ UNCHANGED <<phase, held, marker>>
      /\ node[p] \in Nodes /\ ~Queued(node[p]) /\ queue \in Seq(Nodes)
      /\ phase = "hold" => held # node[p]
      /\ queue' = Append(queue, node[p])
  BY DEF QueueInv, QueueTypeOK, NodesApart, Add
<1>2. PICK len \in Nat : len = Len(queue)
  BY <1>1, AppendCell
<1>3. /\ Len(queue') = len + 1
      /\ \A i \in 1..len : queue'[i] = queue[i] /\ queue[i] \in Nodes /\ queue[i] # node[p]
      /\ queue'[len + 1] = node[p]
  <2>1. \A i \in 1..len : queue[i] \in Nodes
    BY <1>2, QueueCells DEF QueueInv
  <2>2. \A i \in 1..len : queue[i] # node[p]
    BY <1>1, <1>2 DEF Queued
  <2> QED
    BY <1>1, <1>2, <2>1, <2>2, AppendCell
<1>4. \A m \in Nodes : overtook'[m] = IF m = node[p] THEN {} ELSE overtook[m]
  OBVIOUS
<1>5. ASSUME phase \in {"snapshot", "drain", "hold", "serving"}, held # marker,
             NEW i \in 1..len + 1, NEW j \in 1..len + 1, i <= j, queue'[j] = marker
      PROVE  queue'[i] \notin polled
  <2>1. CASE j = len + 1
    <3>1. marker = node[p]
      BY <1>3, <1>5, <2>1
    <3>2. phase = "snapshot" \/ Queued(marker)
      BY <1>1, <1>5, <3>1, NullAssumption DEF QueueInv, MarkerKept
    <3>3. phase = "snapshot" /\ polled = {}
      BY <1>1, <3>1, <3>2 DEF TurnsKept
    <3> QED
      BY <3>3
  <2>2. CASE j \in 1..len
    <3>1. i \in 1..len /\ queue[j] = marker /\ queue'[i] = queue[i]
      BY <1>3, <1>5, <2>2
    <3> QED
      BY <1>2, <1>5, <2>2, <3>1 DEF TurnsKept
  <2> QED
    BY <2>1, <2>2
<1>6. ASSUME NEW i \in 1..len + 1, NEW j \in 1..len + 1, i < j
      PROVE  queue'[i] \notin overtook'[queue'[j]]
  <2>1. CASE j = len + 1
    BY <1>1, <1>3, <1>4, <2>1
  <2>2. CASE j \in 1..len
    <3>1. i \in 1..len
      BY <1>6, <2>2
    <3>2. queue[i] \notin overtook[queue[j]]
      BY <1>2, <1>6, <2>2, <3>1 DEF TurnsKept
    <3> QED
      BY <1>3, <1>4, <2>2, <3>1, <3>2
  <2> QED
    BY <2>1, <2>2
<1>7. ASSUME phase = "hold", NEW n \in Nodes, Queued(n)' PROVE held \notin overtook'[n]
  <2>1. CASE n = node[p]
    BY <1>1, <1>4, <2>1
  <2>2. CASE n # node[p]
    <3>1. Queued(n)
      BY <1>2, <1>3, <1>7, <2>2 DEF Queued
    <3> QED
      BY <1>4, <1>7, <2>2, <3>1 DEF TurnsKept
  <2> QED
    BY <2>1, <2>2
<1> QED
  BY <1>1, <1>3, <1>5, <1>6, <1>7 DEF TurnsKept

LEMMA RegisterTurns ==
  ASSUME TurnsKept, Register, polled' = {}, overtook' = overtook
  PROVE  TurnsKept'
<1> QED
  BY DEF Register, receiverVars, TurnsKept

LEMMA SnapshotTurns ==
  ASSUME QueueInv, TurnsKept, Snapshot, UNCHANGED <<polled, overtook>>
  PROVE  TurnsKept'
<1>1. phase' = "drain" => marker' # Null
  BY QueueCells, NullAssumption DEF QueueInv, Snapshot, LastQueued
<1> QED
  BY <1>1 DEF Snapshot, TurnsKept

\* The head of the queue is at or before the marker.
LEMMA TakeTurns ==
  ASSUME QueueInv, TurnsKept, Take, UNCHANGED <<polled, overtook>>
  PROVE  TurnsKept'
<1> USE DEF producerVars, receiverVars
<1>1. /\ phase = "drain" /\ phase' = "hold" /\ held = Null /\ held' = queue[1]
      /\ marker' = marker /\ marker # Null /\ Queued(marker)
  BY TakeHead DEF QueueInv, NodesApart, MarkerKept, TurnsKept, Take
<1>2. PICK k \in Nat : k = Len(queue')
  BY TakeHead DEF Take
<1>3. /\ Len(queue) = k + 1
      /\ \A i \in 1..k : queue'[i] = queue[i + 1] /\ i + 1 \in 1..k + 1
      /\ 1 \in 1..k + 1
  BY <1>2, TakeHead DEF Take
<1>4. \A i, j \in 1..k + 1 : i <= j /\ queue[j] = marker => queue[i] \notin polled
  BY <1>1, <1>3 DEF TurnsKept
<1>5. \A i, j \in 1..k + 1 : i < j => queue[i] \notin overtook[queue[j]]
  BY <1>3 DEF TurnsKept
<1>6. held' \notin polled'
  <2>1. PICK j \in 1..k + 1 : queue[j] = marker
    BY <1>1, <1>3 DEF Queued
  <2>2. 1 <= j
    OBVIOUS
  <2> QED
    BY <1>1, <1>3, <1>4, <2>1, <2>2
<1>7. \A i, j \in 1..k : i <= j /\ queue'[j] = marker => queue'[i] \notin polled
  <2> TAKE i, j \in 1..k
  <2>1. i <= j => i + 1 <= j + 1
    OBVIOUS
  <2> QED
    BY <1>3, <1>4, <2>1
<1>8. \A i, j \in 1..k : i < j => queue'[i] \notin overtook[queue'[j]]
  <2> TAKE i, j \in 1..k
  <2>1. i < j => i + 1 < j + 1
    OBVIOUS
  <2> QED
    BY <1>3, <1>5, <2>1
<1>9. \A n \in Nodes : Queued(n)' => held' \notin overtook[n]
  <2> SUFFICES ASSUME NEW n \in Nodes, Queued(n)' PROVE held' \notin overtook[n]
    OBVIOUS
  <2>1. PICK i \in 1..k : queue'[i] = n
    BY <1>2 DEF Queued
  <2>2. queue[i + 1] = n /\ 1 < i + 1
    BY <1>3, <2>1
  <2> QED
    BY <1>1, <1>3, <1>5, <2>2
<1> QED
  BY <1>1, <1>2, <1>6, <1>7, <1>8, <1>9 DEF TurnsKept

LEMMA RecoverTurns ==
  ASSUME QueueInv, TurnsKept, overtook \in [Nodes -> SUBSET Nodes], Recover,
         polled' = polled \cup {held},
         overtook' = [n \in Nodes |-> IF Queued(n) THEN overtook[n] \cup {held} ELSE {}]
  PROVE  TurnsKept'
<1> USE DEF producerVars, receiverVars
<1>1. /\ phase = "hold" /\ phase' = "serving" /\ UNCHANGED <<queue, held, marker>>
      /\ ~Queued(held)
  BY DEF QueueInv, NodesApart, Recover
<1>2. \A i \in 1..Len(queue) : queue[i] \in Nodes /\ queue[i] # held /\ Queued(queue[i])
  BY <1>1, QueueCells DEF QueueInv, Queued
<1> QED
  BY <1>1, <1>2 DEF TurnsKept

\* A drain that goes on has the marker still ahead.
LEMMA EndTurns ==
  ASSUME QueueInv, TurnsKept,
         \/ TakeNothing \/ Discard \/ DropReceiver \/ \E early \in BOOLEAN : Finish(early),
         UNCHANGED <<polled, overtook>>
  PROVE  TurnsKept'
<1> USE DEF producerVars, receiverVars
<1>1. /\ queue' = queue /\ phase' \in {"ready", "parked", "drain", "dropped"}
      /\ phase' = "drain" => /\ phase \in {"hold", "serving"}
                             /\ marker' = marker /\ held # marker
  BY DEF TakeNothing, Discard, DropReceiver, Finish, EndRound
<1> QED
  BY <1>1 DEF TurnsKept, Queued

LEMMA DropTurns ==
  ASSUME QueueInv, TurnsKept, DropNode, UNCHANGED <<polled, overtook>>
  PROVE  TurnsKept'
<1>1. phase' = "dropped"
  BY DEF QueueInv, NodesApart, DropNode, receiverVars
<1>2. PICK k \in Nat : k = Len(queue')
  BY TakeHead DEF DropNode
<1>3. Len(queue) = k + 1 /\ \A i \in 1..k : queue'[i] = queue[i + 1] /\ i + 1 \in 1..k + 1
  BY <1>2, TakeHead DEF DropNode
<1>4. \A i, j \in 1..k + 1 : i < j => queue[i] \notin overtook[queue[j]]
  BY <1>3 DEF TurnsKept
<1>5. \A i, j \in 1..k : i < j => queue'[i] \notin overtook[queue'[j]]
  <2> TAKE i, j \in 1..k
  <2>1. i < j => i + 1 < j + 1
    OBVIOUS
  <2> QED
    BY <1>3, <1>4, <2>1
<1> QED
  BY <1>1, <1>2, <1>5 DEF TurnsKept

----------------------------------------------------------------------------
(* Wakeups *)

\* What every claim keeps, whoever makes it: the task it is for is coming
\* afterwards, if it is stored and the queue is there.
LEMMA ClaimSel ==
  ASSUME SelInv, NEW p \in Producers, NEW n \in Nodes, Claim(p, n),
         UNCHANGED <<event, polled, overtook>>,
         \A m \in Nodes : Stored(m)' => Stored(m) \/ (m = n /\ ~isEnqueued[n]),
         step \in {"poll", "cont"} => step' \in {"poll", "cont"} \/ held = n,
         \A t \in Threads : signal[t] # n => signal'[t] = signal[t]
  PROVE  ClaimsKept' /\ EventsKept' /\ TurnsKept'
<1>1. /\ \A m : Coming(m) => Coming(m)'
      /\ ~isEnqueued[n] => Coming(n)'
      /\ \A m \in Nodes : isEnqueued'[m] <=> isEnqueued[m] \/ m = n
  BY ClaimComes DEF SelInv
<1>2. UNCHANGED <<queue, phase, held, marker, open>>
  BY DEF Claim, receiverVars
<1>3. Stored(n)' /\ open => Coming(n)'
  BY <1>1 DEF SelInv, ClaimsKept
<1>4. ClaimsKept'
  BY <1>1, <1>2, <1>3 DEF SelInv, ClaimsKept
<1>5. EventsKept'
  <2> SUFFICES ASSUME NEW m \in Nodes, Stored(m)', event[m], open, m # n
               PROVE  \/ Coming(m)'
                      \/ held = m /\ step' \in {"poll", "cont"}
                      \/ \E t \in Threads : signal'[t] = m
    BY <1>2, <1>3 DEF EventsKept
  <2>1. \/ Coming(m)
        \/ held = m /\ step \in {"poll", "cont"}
        \/ \E t \in Threads : signal[t] = m
    BY DEF SelInv, EventsKept
  <2> QED
    BY <1>1, <2>1
<1>6. TurnsKept'
  BY <1>2, QuietTurns DEF SelInv
<1> QED
  BY <1>4, <1>5, <1>6

LEMMA NotifySel ==
  ASSUME SelInv, QueueInv', NEW t \in Threads, Notify(t)
  PROVE  SelInv'
<1>1. t \in Producers /\ signal[t] \in Nodes /\ signal[t] \notin fresh
  BY DEF SelInv, SelTypeOK, ListKept, Notify, Threads
<1>2. PICK n \in Nodes : n = signal[t]
  BY <1>1
<1>3. /\ Claim(t, n) /\ UNCHANGED <<list, fresh, step, result, waking, event, polled, overtook>>
      /\ signal' = [signal EXCEPT ![t] = Null]
  BY <1>2 DEF Notify
<1>4. /\ signal' \in [Threads -> Nodes \cup {Null}]
      /\ \A u \in Threads : signal'[u] = IF u = t THEN Null ELSE signal[u]
  BY <1>3 DEF SelInv, SelTypeOK
<1>5. UNCHANGED <<phase, held>>
  BY <1>3 DEF Claim, receiverVars
<1>6. \A m : Stored(m)' <=> Stored(m)
  BY <1>3 DEF Stored
<1>7. SelTypeOK'
  BY <1>3, <1>4, <1>5 DEF SelInv, SelTypeOK, QueueInv
<1>8. ListKept'
  <2>1. \A m \in fresh : ~isEnqueued'[m]
    BY <1>1, <1>2, <1>3, ClaimComes DEF SelInv, SelTypeOK, ListKept
  <2>2. \A u \in Threads : signal'[u] \notin fresh
    BY <1>4, NullAssumption DEF SelInv, SelTypeOK, ListKept
  <2> QED
    BY <1>3, <1>5, <1>6, <2>1, <2>2 DEF SelInv, ListKept
<1>9. ClaimsKept' /\ EventsKept' /\ TurnsKept'
  BY <1>1, <1>2, <1>3, <1>4, <1>6, ClaimSel
<1> QED
  BY <1>3, <1>5, <1>7, <1>8, <1>9 DEF SelInv, ResultKept

\* Id::wake by a thread or by the owner, wake_all, and the re-enqueueing of a
\* task that yielded: a claim of a task that has been pushed.
LEMMA WakesSel ==
  ASSUME SelInv, QueueInv', NEW p \in Producers, NEW n \in Nodes, n \notin fresh, Claim(p, n),
         UNCHANGED <<list, fresh, result, event, signal, polled, overtook>>,
         \/ UNCHANGED <<step, waking>>
         \/ step' = step /\ waking # <<>> /\ waking' = Tail(waking)
         \/ step = "cont" /\ step' = "transform" /\ waking' = waking /\ n = held
  PROVE  SelInv'
<1>1. UNCHANGED <<phase, held>>
  BY DEF Claim, receiverVars
<1>2. \A m : Stored(m)' <=> Stored(m)
  BY DEF Stored
<1>3. waking' \in Seq(Nodes) /\ \A i \in 1..Len(waking') : waking'[i] \notin fresh
  <2>1. waking \in Seq(Nodes) /\ \A i \in 1..Len(waking) : waking[i] \notin fresh
    BY DEF SelInv, SelTypeOK, ListKept
  <2>2. CASE waking' = waking
    BY <2>1, <2>2
  <2>3. CASE waking # <<>> /\ waking' = Tail(waking)
    BY <2>1, <2>3, TailCell
  <2> QED
    BY <2>2, <2>3
<1>4. SelTypeOK'
  BY <1>1, <1>3 DEF SelInv, SelTypeOK, QueueInv, Steps
<1>5. ListKept'
  <2>1. \A m \in fresh : ~isEnqueued'[m]
    BY ClaimComes DEF SelInv, SelTypeOK, ListKept
  <2> QED
    BY <1>1, <1>2, <1>3, <2>1 DEF SelInv, ListKept
<1>6. ClaimsKept' /\ EventsKept' /\ TurnsKept'
  BY <1>2, ClaimSel
<1> QED
  BY <1>1, <1>4, <1>5, <1>6 DEF SelInv, ResultKept

LEMMA PushSel ==
  ASSUME SelInv, QueueInv', OwnerAssumption, NEW n \in Nodes, Push(n)
  PROVE  SelInv'
<1>1. /\ n \in fresh /\ ~isEnqueued[n] /\ fresh' = fresh \ {n} /\ list' = Append(list, n)
      /\ Claim(Owner, n)
      /\ UNCHANGED <<step, result, waking, event, signal, polled, overtook, phase, held>>
  BY DEF SelInv, ListKept, Push, Claim, receiverVars
<1>2. /\ list' \in Seq(Nodes)
      /\ \A i, j \in 1..Len(list') : list'[i] = list'[j] => i = j
      /\ \A m : Stored(m)' <=> Stored(m) \/ m = n
  BY <1>1, ListAppend DEF SelInv
<1>3. SelTypeOK'
  BY <1>1, <1>2 DEF SelInv, SelTypeOK, QueueInv
<1>4. ListKept'
  <2>1. \A m \in fresh' : ~isEnqueued'[m]
    BY <1>1, ClaimComes, OwnerAssumption DEF SelInv, SelTypeOK, ListKept
  <2> QED
    BY <1>1, <1>2, <2>1 DEF SelInv, ListKept
<1>5. ClaimsKept' /\ EventsKept' /\ TurnsKept'
  BY <1>1, <1>2, ClaimSel, OwnerAssumption
<1> QED
  BY <1>1, <1>3, <1>4, <1>5 DEF SelInv, ResultKept

\* A claim that has been made ends in the queue, while there is one.
LEMMA EnqueueSel ==
  ASSUME SelInv, QueueInv', NEW p \in Producers, Enqueue(p)
  PROVE  SelInv'
<1>1. /\ Produce(p) /\ UNCHANGED <<phase, held, marker, isEnqueued>>
      /\ UNCHANGED <<list, fresh, step, result, waking, event, signal, polled>>
      /\ open' = open
  BY DEF Enqueue, Produce, Abandon, Add, Link, Wake, receiverVars
<1>2. overtook' \in [Nodes -> SUBSET Nodes]
  BY DEF SelInv, SelTypeOK, Enqueue
<1>3. \A m : Stored(m)' <=> Stored(m)
  BY <1>1 DEF Stored
<1>4. SelTypeOK'
  BY <1>1, <1>2 DEF SelInv, SelTypeOK, QueueInv
<1>5. ListKept'
  BY <1>1, <1>3 DEF SelInv, ListKept
<1>6. ClaimsKept' /\ EventsKept'
  BY <1>1, <1>3, EnqueueComes DEF SelInv, ClaimsKept, EventsKept
<1>7. TurnsKept'
  <2>1. CASE Add(p)
    <3>1. overtook' = [overtook EXCEPT ![node[p]] = {}]
      BY <2>1 DEF SelInv, QueueInv, QueueTypeOK, Add, Enqueue
    <3> QED
      BY <1>1, <2>1, <3>1, AddTurns DEF SelInv, SelTypeOK
  <2>2. CASE ~Add(p)
    <3>1. stage'[p] # "appended" /\ queue' = queue
      BY <1>1, <2>2 DEF SelInv, QueueInv, QueueTypeOK, Produce, Abandon, Link, Wake
    <3>2. overtook' = overtook
      BY <3>1 DEF Enqueue
    <3> QED
      BY <1>1, <3>1, <3>2, QuietTurns DEF SelInv
  <2> QED
    BY <2>1, <2>2
<1> QED
  BY <1>1, <1>4, <1>5, <1>6, <1>7 DEF SelInv, ResultKept

----------------------------------------------------------------------------
(* The methods that leave the queue alone *)

LEMMA QuietComes ==
  ASSUME UNCHANGED vars
  PROVE  \A m : Coming(m)' <=> Coming(m)
<1> QED
  BY DEF vars, producerVars, receiverVars, Coming, Queued

LEMMA SignalSel ==
  ASSUME SelInv, QueueInv', NEW t \in Threads, NEW n \in Nodes, Signal(t, n)
  PROVE  SelInv'
<1>1. UNCHANGED <<vars, list, fresh, step, result, waking, polled, overtook>>
  BY DEF Signal
<1>2. /\ signal[t] = Null /\ n \notin fresh
      /\ event' \in [Nodes -> BOOLEAN] /\ signal' \in [Threads -> Nodes \cup {Null}]
      /\ \A m \in Nodes : event'[m] <=> event[m] \/ m = n
      /\ \A u \in Threads : signal'[u] = IF u = t THEN n ELSE signal[u]
  BY DEF SelInv, SelTypeOK, Signal
<1>3. UNCHANGED <<queue, phase, held, marker, open, isEnqueued>>
  BY <1>1 DEF vars, receiverVars
<1>4. \A m : Stored(m)' <=> Stored(m)
  BY <1>1 DEF Stored
<1>5. SelTypeOK'
  BY <1>1, <1>2, <1>3 DEF SelInv, SelTypeOK, QueueInv
<1>6. ListKept'
  BY <1>1, <1>2, <1>3, <1>4 DEF SelInv, SelTypeOK, ListKept
<1>7. ClaimsKept'
  BY <1>1, <1>3, <1>4, QuietComes DEF SelInv, ClaimsKept
<1>8. EventsKept'
  <2> SUFFICES ASSUME NEW m \in Nodes, Stored(m), event'[m], open
               PROVE  \/ Coming(m)
                      \/ held = m /\ step \in {"poll", "cont"}
                      \/ \E u \in Threads : signal'[u] = m
    BY <1>1, <1>3, <1>4, QuietComes DEF EventsKept
  <2>1. CASE m = n
    BY <1>2, <2>1
  <2>2. CASE m # n
    <3>1. \/ Coming(m)
          \/ held = m /\ step \in {"poll", "cont"}
          \/ \E u \in Threads : signal[u] = m
      BY <1>2, <2>2 DEF SelInv, EventsKept
    <3> QED
      BY <1>2, <3>1, NullAssumption
  <2> QED
    BY <2>1, <2>2
<1>9. TurnsKept'
  BY <1>1, <1>3, QuietTurns DEF SelInv
<1> QED
  BY <1>1, <1>3, <1>5, <1>6, <1>7, <1>8, <1>9 DEF SelInv, ResultKept

\* Tasks are removed, or a value is taken from a task.
LEMMA OwnerSel ==
  ASSUME SelInv, QueueInv', UNCHANGED vars,
         \/ \E n \in Nodes : Remove(n)
         \/ WakeAll \/ DropTask \/ PollContinue \/ PollBreak
  PROVE  SelInv'
<1>1. UNCHANGED <<fresh, result, signal, polled, overtook>>
  BY DEF Remove, WakeAll, DropTask, PollContinue, PollBreak
<1>2. UNCHANGED <<queue, phase, held, marker, open, isEnqueued>>
  BY DEF vars, receiverVars
<1>3. /\ list' \in Seq(Nodes)
      /\ \A i, j \in 1..Len(list') : list'[i] = list'[j] => i = j
      /\ \A m : Stored(m)' => Stored(m)
  <2>1. CASE list' = list
    BY <2>1 DEF SelInv, SelTypeOK, ListKept, Stored
  <2>2. CASE \E n : list' = Without(n)
    BY <2>2, ListWithout DEF SelInv
  <2>3. CASE list # <<>> /\ list' = Tail(list)
    BY <2>3, ListTail DEF SelInv
  <2> QED
    BY <2>1, <2>2, <2>3 DEF Remove, WakeAll, DropTask, PollContinue, PollBreak
<1>4. event' \in [Nodes -> BOOLEAN] /\ \A m \in Nodes : event'[m] => event[m]
  BY DEF SelInv, SelTypeOK, Remove, WakeAll, DropTask, PollContinue, PollBreak
<1>5. waking' \in Seq(Nodes) /\ \A i \in 1..Len(waking') : waking'[i] \notin fresh
  <2>1. CASE waking' = waking
    BY <2>1 DEF SelInv, SelTypeOK, ListKept
  <2>2. CASE waking' = list
    BY <2>2 DEF SelInv, SelTypeOK, ListKept, Stored
  <2> QED
    BY <2>1, <2>2 DEF Remove, WakeAll, DropTask, PollContinue, PollBreak
<1>6. /\ step' \in Steps /\ (step' # "none" <=> phase = "serving")
      /\ step' \in {"poll", "cont", "transform"} => Stored(held)'
      /\ step' = "broke" => ~Stored(held)'
      /\ \A m \in Nodes : held = m /\ step \in {"poll", "cont"} =>
           step' \in {"poll", "cont"} \/ ~event'[m]
  <2>1. CASE (\E n \in Nodes : Remove(n)) \/ WakeAll \/ DropTask
    <3>1. step' = step /\ step = "none"
      BY <2>1 DEF SelInv, SelTypeOK, Remove, WakeAll, DropTask, Idle
    <3> QED
      BY <3>1 DEF SelInv, SelTypeOK
  <2>2. CASE PollContinue
    <3>1. step = "poll" /\ step' = "cont" /\ list' = list
      BY <2>2 DEF PollContinue
    <3>2. Stored(held)'
      BY <1>2, <3>1 DEF SelInv, ListKept, Stored
    <3> QED
      BY <3>1, <3>2 DEF SelInv, SelTypeOK, Steps
  <2>3. CASE PollBreak
    <3>1. step = "poll" /\ step' = "broke" /\ event' = [event EXCEPT ![held] = FALSE]
      BY <2>3 DEF PollBreak
    <3>2. ~Stored(held)'
      <4>1. \A m : Stored(m)' <=> Stored(m) /\ m # held
        BY <2>3, ListWithout DEF SelInv, PollBreak
      <4> QED
        BY <1>2, <4>1 DEF Stored
    <3> QED
      BY <3>1, <3>2 DEF SelInv, SelTypeOK, Steps
  <2> QED
    BY <2>1, <2>2, <2>3
<1>7. SelTypeOK'
  BY <1>1, <1>2, <1>3, <1>4, <1>5, <1>6 DEF SelInv, SelTypeOK, QueueInv
<1>8. ListKept'
  BY <1>1, <1>2, <1>3, <1>4, <1>5, <1>6 DEF SelInv, SelTypeOK, ListKept
<1>9. ClaimsKept'
  BY <1>2, <1>3, QuietComes DEF SelInv, ClaimsKept
<1>10. EventsKept'
  BY <1>1, <1>2, <1>3, <1>4, <1>6, QuietComes DEF SelInv, EventsKept
<1>11. TurnsKept'
  BY <1>1, <1>2, QuietTurns DEF SelInv
<1> QED
  BY <1>1, <1>2, <1>7, <1>8, <1>9, <1>10, <1>11 DEF SelInv, ResultKept

----------------------------------------------------------------------------
(* poll_next *)

LEMMA RoundResult ==
  ASSUME result \in Results, NEW l, ResultAfterRound(l)
  PROVE  /\ result' \in Results
         /\ phase' # "ready" => ResultKept'
<1> QED
  BY DEF ResultAfterRound, Outcome, Results, ResultKept

\* Up to the poll of a task, and past a task that is gone.
LEMMA DrainSel ==
  ASSUME SelInv, QueueInv',
         StartPollNext \/ TakeMarker \/ Dequeue \/ SkipRemoved \/ DropSelector
  PROVE  SelInv'
<1>1. /\ UNCHANGED <<list, fresh, step, waking, event, signal, overtook>>
      /\ UNCHANGED <<isEnqueued, open>> \/ (DropReceiver /\ isEnqueued' = isEnqueued)
  BY DEF StartPollNext, TakeMarker, Dequeue, SkipRemoved, DropSelector, Register, Snapshot, Take,
     TakeNothing, Discard, DropReceiver, selVars
<1>2. \/ Register \/ Snapshot \/ Take \/ TakeNothing \/ DropReceiver
      \/ Discard /\ ~Stored(held)
  BY DEF StartPollNext, TakeMarker, Dequeue, SkipRemoved, DropSelector
<1>3. phase # "serving" /\ phase' # "serving" /\ step = "none"
  BY <1>2 DEF SelInv, SelTypeOK, Register, Snapshot, Take, TakeNothing, Discard, EndRound,
     DropReceiver
<1>4. \A m : Stored(m)' <=> Stored(m)
  BY <1>1 DEF Stored
<1>5. open' => open
  BY <1>1 DEF SelInv, QueueInv, NodesApart, DropReceiver
<1>6. \A m \in Nodes : Stored(m) /\ Coming(m) => Coming(m)'
  <2>1. \A m : Coming(m) => Coming(m)' \/ (phase = "hold" /\ held = m)
    BY <1>2, PollComes DEF SelInv
  <2>2. phase = "hold" => ~Stored(held)
    BY <1>2 DEF Register, Snapshot, Take, TakeNothing, DropReceiver
  <2> QED
    BY <2>1, <2>2
<1>7. result' \in Results /\ polled' \subseteq Nodes
  <2>1. polled' \subseteq Nodes
    BY DEF SelInv, SelTypeOK, StartPollNext, TakeMarker, Dequeue, SkipRemoved, DropSelector, selVars
  <2>2. CASE StartPollNext \/ DropSelector
    BY <2>2 DEF SelInv, SelTypeOK, StartPollNext, DropSelector, selVars, Results
  <2>3. CASE TakeMarker \/ Dequeue \/ SkipRemoved
    BY <2>3, RoundResult DEF SelInv, SelTypeOK, TakeMarker, Dequeue, SkipRemoved
  <2> QED
    BY <2>1, <2>2, <2>3
<1>8. SelTypeOK'
  BY <1>1, <1>3, <1>7 DEF SelInv, SelTypeOK, QueueInv
<1>9. ListKept'
  <2>1. \A m \in fresh : held' # m
    <3>1. CASE Take
      <4>1. held' = queue[1] /\ Queued(queue[1]) /\ queue[1] \in Nodes
        BY <3>1, TakeHead DEF SelInv, Take
      <4> QED
        BY <4>1 DEF SelInv, ListKept, QueueInv, NodesApart
    <3>2. CASE ~Take
      <4>1. held' = held \/ held' = Null
        BY <1>2, <3>2 DEF Register, Snapshot, TakeNothing, DropReceiver, Discard, EndRound,
           receiverVars
      <4> QED
        BY <4>1, NullAssumption DEF SelInv, SelTypeOK, ListKept
    <3> QED
      BY <3>1, <3>2
  <2> QED
    BY <1>1, <1>3, <1>4, <2>1 DEF SelInv, ListKept
<1>10. ClaimsKept'
  BY <1>1, <1>4, <1>5, <1>6 DEF SelInv, ClaimsKept
<1>11. EventsKept'
  BY <1>1, <1>3, <1>4, <1>5, <1>6 DEF SelInv, EventsKept
<1>12. TurnsKept'
  <2>1. CASE StartPollNext
    BY <1>1, <2>1, RegisterTurns DEF SelInv, StartPollNext
  <2>2. CASE ~StartPollNext
    <3>1. polled' = polled /\ ~Register
      BY <2>2 DEF StartPollNext, TakeMarker, Dequeue, SkipRemoved, DropSelector, selVars,
         Snapshot, Take, TakeNothing, Discard, EndRound, DropReceiver, Register
    <3> QED
      BY <1>1, <1>2, <3>1, SnapshotTurns, TakeTurns, EndTurns DEF SelInv
  <2> QED
    BY <2>1, <2>2
<1>13. ResultKept'
  <2>1. CASE StartPollNext \/ DropSelector
    BY <2>1 DEF StartPollNext, DropSelector, Register, DropReceiver, ResultKept
  <2>2. CASE TakeMarker \/ Dequeue \/ SkipRemoved
    <3>1. phase' # "ready"
      BY <2>2 DEF SelInv, TurnsKept, TakeMarker, Dequeue, SkipRemoved, Snapshot, Take,
         TakeNothing, Discard, EndRound
    <3> QED
      BY <2>2, <3>1, RoundResult DEF SelInv, SelTypeOK, TakeMarker, Dequeue, SkipRemoved
  <2> QED
    BY <2>1, <2>2
<1> QED
  BY <1>8, <1>9, <1>10, <1>11, <1>12, <1>13 DEF SelInv

\* The claim on the task is given up before it is polled.
LEMMA StartPollSel ==
  ASSUME SelInv, QueueInv', StartPoll
  PROVE  SelInv'
<1>1. /\ Recover /\ Stored(held) /\ step' = "poll"
      /\ UNCHANGED <<list, fresh, result, waking, event, signal, open, held>>
      /\ phase = "hold" /\ phase' = "serving" /\ held \in Nodes
      /\ polled' = polled \cup {held}
      /\ overtook' = [n \in Nodes |-> IF Queued(n) THEN overtook[n] \cup {held} ELSE {}]
  BY DEF StartPoll, Recover, SelInv, QueueInv, NodesApart
<1>2. \A m \in Nodes : isEnqueued'[m] <=> isEnqueued[m] /\ m # held
  BY <1>1 DEF SelInv, QueueInv, QueueTypeOK, Recover
<1>3. \A m : Stored(m)' <=> Stored(m)
  BY <1>1 DEF Stored
<1>4. \A m : Coming(m) => Coming(m)' \/ held = m
  BY <1>1, PollComes DEF SelInv
<1>5. SelTypeOK'
  <2>1. overtook' \in [Nodes -> SUBSET Nodes]
    BY <1>1 DEF SelInv, SelTypeOK
  <2> QED
    BY <1>1, <2>1 DEF SelInv, SelTypeOK, QueueInv, Steps
<1>6. ListKept'
  <2>1. Stored(held)'
    BY <1>1 DEF Stored
  <2> QED
    BY <1>1, <1>2, <1>3, <2>1 DEF SelInv, SelTypeOK, ListKept
<1>7. ClaimsKept'
  BY <1>1, <1>2, <1>3, <1>4 DEF SelInv, ClaimsKept
<1>8. EventsKept'
  BY <1>1, <1>3, <1>4 DEF SelInv, EventsKept
<1>9. TurnsKept'
  BY <1>1, RecoverTurns DEF SelInv, SelTypeOK
<1> QED
  BY <1>1, <1>5, <1>6, <1>7, <1>8, <1>9 DEF SelInv, ResultKept

\* The poll of a task ends: it found no event, its value has been handed on,
\* or it panicked and is dropped.
LEMMA EndPollSel ==
  ASSUME SelInv, QueueInv',
         PollPending \/ Panic \/ \E some \in BOOLEAN : Transform(some)
  PROVE  SelInv'
<1>1. /\ \E early \in BOOLEAN : Finish(early)
      /\ UNCHANGED <<fresh, waking, event, signal, polled, overtook>>
      /\ step \in {"poll", "transform", "broke"} /\ step' = "none"
  BY DEF PollPending, Panic, Transform
<1>2. /\ UNCHANGED <<isEnqueued, open, queue>> /\ held' = Null /\ phase' # "serving"
      /\ phase = "serving"
  BY <1>1 DEF Finish, EndRound
<1>3. /\ list' \in Seq(Nodes)
      /\ \A i, j \in 1..Len(list') : list'[i] = list'[j] => i = j
      /\ \A m : Stored(m)' => Stored(m)
  <2>1. CASE list' = list
    BY <2>1 DEF SelInv, SelTypeOK, ListKept, Stored, Panic
  <2>2. CASE Panic
    BY <2>2, ListWithout DEF SelInv, Panic
  <2> QED
    BY <2>1, <2>2 DEF PollPending, Panic, Transform
<1>4. \A m : Coming(m) => Coming(m)'
  BY <1>1, <1>2, PollComes DEF SelInv
<1>5. result' \in Results
  BY RoundResult DEF SelInv, SelTypeOK, PollPending, Panic, Transform, Results
<1>6. SelTypeOK'
  BY <1>1, <1>2, <1>3, <1>5 DEF SelInv, SelTypeOK, QueueInv, Steps
<1>7. ListKept'
  BY <1>1, <1>2, <1>3, NullAssumption DEF SelInv, SelTypeOK, ListKept
<1>8. ClaimsKept'
  BY <1>2, <1>3, <1>4 DEF SelInv, ClaimsKept
<1>9. EventsKept'
  <2>1. ASSUME NEW m \in Nodes, held = m, step = "poll", Stored(m)', event[m] PROVE FALSE
    <3>1. ~Transform(TRUE) /\ ~Transform(FALSE)
      BY <2>1 DEF Transform
    <3>2. ~PollPending
      BY <2>1 DEF PollPending
    <3>3. ~Panic
      BY <2>1, ListWithout DEF SelInv, Panic
    <3> QED
      BY <3>1, <3>2, <3>3
  <2> QED
    BY <1>1, <1>2, <1>3, <1>4, <2>1 DEF SelInv, EventsKept
<1>10. TurnsKept'
  BY <1>1, EndTurns DEF SelInv
<1>11. ResultKept'
  <2>1. CASE Finish(TRUE) /\ result' \in {"some", "panic"}
    BY <2>1 DEF Finish, EndRound, ResultKept
  <2>2. CASE Finish(FALSE) /\ \E l : ResultAfterRound(l)
    BY <2>2, RoundResult DEF SelInv, SelTypeOK, Finish, EndRound
  <2> QED
    BY <2>1, <2>2 DEF PollPending, Panic, Transform
<1> QED
  BY <1>6, <1>7, <1>8, <1>9, <1>10, <1>11 DEF SelInv

\* Without the queue nothing is promised any more.
LEMMA CloseSel ==
  ASSUME SelInv, QueueInv', Close \/ DropNode, UNCHANGED selVars
  PROVE  SelInv'
<1>1. /\ ~open' /\ UNCHANGED <<isEnqueued, phase, held, marker>>
      /\ UNCHANGED <<list, fresh, step, result, waking, event, signal, polled, overtook>>
  BY DEF Close, DropNode, receiverVars, selVars
<1>2. \A m : Stored(m)' <=> Stored(m)
  BY <1>1 DEF Stored
<1>3. SelTypeOK'
  BY <1>1 DEF SelInv, SelTypeOK, QueueInv
<1>4. ListKept'
  BY <1>1, <1>2 DEF SelInv, ListKept
<1>5. ClaimsKept' /\ EventsKept'
  BY <1>1 DEF ClaimsKept, EventsKept
<1>6. TurnsKept'
  <2>1. CASE Close
    BY <1>1, <2>1, QuietTurns DEF SelInv, Close
  <2>2. CASE DropNode
    BY <1>1, <2>2, DropTurns DEF SelInv
  <2> QED
    BY <2>1, <2>2
<1> QED
  BY <1>1, <1>3, <1>4, <1>5, <1>6 DEF SelInv, ResultKept

----------------------------------------------------------------------------
(* The invariant *)

\* Every step of the selector is one of its queue, or leaves it alone.
LEMMA UsesQueue == SelInv /\ [SelNext]_allVars => [Next]_vars
<1> SUFFICES ASSUME SelInv, [SelNext]_allVars PROVE [Next]_vars
  OBVIOUS
<1>1. ASSUME NEW t \in Threads, Notify(t) PROVE Next
  <2>1. t \in Producers /\ signal[t] \in Nodes
    BY <1>1 DEF SelInv, SelTypeOK, Notify, Threads
  <2> QED
    BY <1>1, <2>1 DEF Notify, Next
<1>2. ASSUME NEW t \in Threads, NEW n \in Nodes, Signal(t, n) \/ IdWake(t, n) PROVE [Next]_vars
  BY <1>2 DEF Signal, IdWake, Next, Threads
<1>3. ASSUME NEW p \in Producers, Enqueue(p) PROVE Next
  BY <1>3 DEF Enqueue, Next
<1>4. ASSUME NEW n \in Nodes, OwnerWake(n) \/ Push(n) \/ Remove(n) PROVE [Next]_vars
  BY <1>4, OwnerAssumption DEF OwnerWake, Push, Remove, Next
<1>5. CASE WakeNext
  <2>1. Head(waking) \in Nodes
    BY <1>5, ListCells DEF SelInv, WakeNext
  <2> QED
    BY <1>5, <2>1, OwnerAssumption DEF WakeNext, Next
<1>6. CASE Reenqueue
  <2>1. held \in Nodes
    BY <1>6 DEF SelInv, SelTypeOK, Reenqueue, QueueInv, NodesApart
  <2> QED
    BY <1>6, <2>1, OwnerAssumption DEF Reenqueue, Next
<1>7. CASE WakeAll \/ PollContinue \/ PollBreak \/ DropTask \/ Terminated \/ UNCHANGED allVars
  BY <1>7 DEF WakeAll, PollContinue, PollBreak, DropTask, Terminated, allVars
<1>8. CASE StartPollNext \/ TakeMarker \/ Dequeue \/ SkipRemoved \/ StartPoll \/ DropSelector
  BY <1>8 DEF StartPollNext, TakeMarker, Dequeue, SkipRemoved, StartPoll, DropSelector, Next,
     Receive
<1>9. CASE PollPending \/ Panic \/ \E some \in BOOLEAN : Transform(some)
  BY <1>9 DEF PollPending, Panic, Transform, Next, Receive
<1>10. CASE (Close \/ DropNode) /\ UNCHANGED selVars
  BY <1>10 DEF Next
<1> QED
  BY <1>1, <1>2, <1>3, <1>4, <1>5, <1>6, <1>7, <1>8, <1>9, <1>10 DEF SelNext, PollNextStep

LEMMA SelStep == SelInv /\ [SelNext]_allVars => SelInv'
<1> SUFFICES ASSUME SelInv, [SelNext]_allVars PROVE SelInv'
  OBVIOUS
<1>1. QueueInv'
  BY UsesQueue, QueueStep DEF SelInv
<1>2. ASSUME NEW t \in Threads, NEW n \in Nodes, IdWake(t, n) PROVE SelInv'
  BY <1>1, <1>2, WakesSel DEF IdWake, Threads, selVars
<1>3. ASSUME NEW n \in Nodes, OwnerWake(n) PROVE SelInv'
  BY <1>1, <1>3, WakesSel, OwnerAssumption DEF OwnerWake, selVars
<1>4. CASE WakeNext
  <2>1. Head(waking) \in Nodes /\ Head(waking) \notin fresh
    BY <1>4, ListCells DEF SelInv, ListKept, WakeNext
  <2> QED
    BY <1>1, <1>4, <2>1, WakesSel, OwnerAssumption DEF WakeNext
<1>5. CASE Reenqueue
  <2>1. held \in Nodes /\ held \notin fresh
    BY <1>5 DEF SelInv, SelTypeOK, ListKept, Reenqueue, QueueInv, NodesApart
  <2> QED
    BY <1>1, <1>5, <2>1, WakesSel, OwnerAssumption DEF Reenqueue
<1>6. CASE (\E n \in Nodes : Remove(n)) \/ WakeAll \/ DropTask \/ PollContinue \/ PollBreak
  <2>1. UNCHANGED vars
    BY <1>6 DEF Remove, WakeAll, DropTask, PollContinue, PollBreak
  <2> QED
    BY <1>1, <1>6, <2>1, OwnerSel
<1>7. CASE Terminated \/ UNCHANGED allVars
  <2>1. UNCHANGED vars /\ UNCHANGED selVars
    BY <1>7 DEF Terminated, allVars
  <2>2. UNCHANGED <<queue, phase, held, marker, open, isEnqueued>>
    BY <2>1 DEF vars, receiverVars
  <2>3. UNCHANGED <<list, fresh, step, result, waking, event, signal, polled, overtook>>
    BY <2>1 DEF selVars
  <2>4. \A m : (Stored(m)' <=> Stored(m)) /\ (Coming(m)' <=> Coming(m))
    BY <2>1, <2>3, QuietComes DEF Stored
  <2>5. SelTypeOK'
    BY <1>1, <2>2, <2>3 DEF SelInv, SelTypeOK, QueueInv
  <2>6. ListKept' /\ ClaimsKept' /\ EventsKept'
    BY <2>2, <2>3, <2>4 DEF SelInv, ListKept, ClaimsKept, EventsKept
  <2> QED
    BY <1>1, <2>2, <2>3, <2>5, <2>6, QuietTurns DEF SelInv, ResultKept
<1> QED
  BY <1>1, <1>2, <1>3, <1>4, <1>5, <1>6, <1>7, NotifySel, SignalSel, EnqueueSel, PushSel,
     DrainSel, StartPollSel, EndPollSel, CloseSel, OwnerAssumption DEF SelNext, PollNextStep

LEMMA SelStart == SelInit => SelInv
<1> SUFFICES ASSUME SelInit PROVE SelInv
  OBVIOUS
<1>1. QueueInv /\ queue = <<>> /\ phase = "ready"
  BY QueueInit DEF SelInit, Init
<1>2. list = <<>> /\ waking = <<>> /\ \A m : ~Stored(m)
  BY DEF SelInit, Stored
<1>3. SelTypeOK
  BY <1>1 DEF SelInit, SelTypeOK, QueueInv, Steps, Results
<1>4. ListKept
  BY <1>2, NullAssumption DEF SelInit, Init, ListKept
<1>5. ClaimsKept /\ EventsKept /\ TurnsKept
  BY <1>1, <1>2 DEF ClaimsKept, EventsKept, TurnsKept
<1> QED
  BY <1>1, <1>3, <1>4, <1>5 DEF SelInv, SelInit, ResultKept

\* The queue, the list and the task being polled agree in every state.
THEOREM SelCorrect == SelSpec => []SelInv
<1> QED
  BY SelStart, SelStep, PTL DEF SelSpec

\* The selector keeps to the rules of its queue: whatever is proved of
\* WakeupQueue holds of the queue of a selector.
THEOREM KeepsToQueue == SelSpec => Spec
<1>1. SelInit => Init
  BY DEF SelInit
<1> QED
  BY <1>1, SelCorrect, UsesQueue, PTL DEF SelSpec, Spec

\* Every variable of the selector has its type.
THEOREM SelTypeCorrect == SelSpec => []SelTypeOK
<1>1. SelInv => SelTypeOK
  BY DEF SelInv
<1> QED
  BY <1>1, SelCorrect, PTL

\* A stored task that may not be enqueued again is on its way to its poll.
THEOREM ClaimedComes == SelSpec => []ClaimedIsComing
<1>1. ASSUME SelInv PROVE ClaimedIsComing
  <2>1. phase # "dropped" => open
    BY <1>1 DEF SelInv, QueueInv, NodesApart
  <2> QED
    BY <1>1, <2>1 DEF SelInv, ClaimsKept, ClaimedIsComing, Coming, OnItsWay
<1> QED
  BY <1>1, SelCorrect, PTL

\* A stored task whose event happened is on its way, or about to be woken.
THEOREM EventsRemembered == SelSpec => []EventNotForgotten
<1>1. ASSUME SelInv PROVE EventNotForgotten
  BY <1>1 DEF SelInv, EventsKept, EventNotForgotten, Coming, OnItsWay
<1> QED
  BY <1>1, SelCorrect, PTL

\* poll_next puts its caller to sleep only if somebody will wake it for the
\* events that have happened.
THEOREM NobodyOversleeps == SelSpec => []NoSleepOverEvents
<1>1. ASSUME SelInv PROVE NoSleepOverEvents
  <2> SUFFICES ASSUME phase = "parked", NEW n \in Nodes, Stored(n), event[n]
               PROVE  \/ notified
                      \/ \E p \in Producers : stage[p] # "idle"
                      \/ \E t \in Threads : signal[t] # Null
    BY DEF NoSleepOverEvents
  <2>1. open /\ step = "none"
    BY <1>1 DEF SelInv, SelTypeOK, QueueInv, NodesApart
  <2>2. Coming(n) \/ \E t \in Threads : signal[t] = n
    BY <1>1, <2>1 DEF SelInv, EventsKept
  <2>3. CASE Queued(n)
    <3>1. queue # <<>>
      BY <2>3 DEF Queued
    <3> QED
      BY <1>1, <3>1 DEF SelInv, QueueInv, SleepKept, Owing
  <2>4. CASE \E p \in Producers : stage[p] = "claimed" /\ node[p] = n
    BY <2>4
  <2> QED
    BY <2>2, <2>3, <2>4, NullAssumption DEF Coming
<1> QED
  BY <1>1, SelCorrect, PTL

\* One poll_next polls no task twice.
THEOREM OncePerPoll == SelSpec => PolledOncePerPoll
<1>1. SelInv /\ [SelNext]_allVars =>
        [\A n \in Nodes : PollOf(n) => n \notin polled]_allVars
  BY DEF SelInv, TurnsKept, PollOf
<1> QED
  BY <1>1, SelCorrect, PTL DEF SelSpec, PolledOncePerPoll

\* No task is polled twice while another one waits in the queue.
THEOREM TurnsInOrder == SelSpec => RoundRobin
<1>1. SelInv /\ [SelNext]_allVars =>
        [\A m, n \in Nodes : PollOf(m) /\ Queued(n) /\ m # n => m \notin overtook[n]]_allVars
  BY DEF SelInv, TurnsKept, PollOf
<1> QED
  BY <1>1, SelCorrect, PTL DEF SelSpec, RoundRobin

----------------------------------------------------------------------------
(* What the pool sees of a state *)

\* Between two polls, and only then, the pool may be called.
LEMMA StatusSeen ==
  ASSUME SelInv
  PROVE  /\ phase \in {"ready", "parked"} => Pool!Unborrowed /\ PoolStatus = result
         /\ phase = "parked" <=> Pool!Asleep(PoolStatus)
         /\ phase = "snapshot" => PoolStatus = "starting"
         /\ phase \in {"drain", "hold", "serving"} => PoolStatus = "polling"
         /\ phase = "dropped" => PoolStatus = "dropped"
         /\ PoolRoused \in BOOLEAN /\ (PoolRoused => phase = "parked")
<1>1. phase \in {"ready", "parked", "snapshot", "drain", "hold", "serving", "dropped"}
  BY DEF SelInv, QueueInv, QueueTypeOK, Phases
<1>2. /\ phase \in {"ready", "parked"} => PoolStatus = result
      /\ phase = "snapshot" => PoolStatus = "starting"
      /\ phase \in {"drain", "hold", "serving"} => PoolStatus = "polling"
      /\ phase = "dropped" => PoolStatus = "dropped"
  BY DEF PoolStatus
<1>3. /\ phase = "ready" => result \in {"never", "some", "panic"}
      /\ phase = "parked" => result \in {"none", "pending"}
  BY DEF SelInv, ResultKept
<1> QED
  BY <1>1, <1>2, <1>3 DEF Pool!Unborrowed, Pool!Asleep, PoolRoused

LEMMA StatusSeenNext ==
  SelInv' =>
    /\ (phase \in {"ready", "parked"})' => (PoolStatus = result)'
    /\ (phase = "parked")' <=> Pool!Asleep(PoolStatus')
    /\ (phase = "snapshot")' => (PoolStatus = "starting")'
    /\ (phase \in {"drain", "hold", "serving"})' => (PoolStatus = "polling")'
    /\ (phase = "dropped")' => (PoolStatus = "dropped")'
    /\ PoolRoused' \in BOOLEAN /\ (PoolRoused' => (phase = "parked")')
<1>1. SelInv =>
    /\ phase \in {"ready", "parked"} => PoolStatus = result
    /\ phase = "parked" <=> Pool!Asleep(PoolStatus)
    /\ phase = "snapshot" => PoolStatus = "starting"
    /\ phase \in {"drain", "hold", "serving"} => PoolStatus = "polling"
    /\ phase = "dropped" => PoolStatus = "dropped"
    /\ PoolRoused \in BOOLEAN /\ (PoolRoused => phase = "parked")
  BY StatusSeen
<1>2. (SelInv =>
    /\ phase \in {"ready", "parked"} => PoolStatus = result
    /\ phase = "parked" <=> Pool!Asleep(PoolStatus)
    /\ phase = "snapshot" => PoolStatus = "starting"
    /\ phase \in {"drain", "hold", "serving"} => PoolStatus = "polling"
    /\ phase = "dropped" => PoolStatus = "dropped"
    /\ PoolRoused \in BOOLEAN /\ (PoolRoused => phase = "parked"))'
  BY <1>1, PTL
<1> QED
  BY <1>2 DEF Pool!Asleep

\* The quota of a poll is the place of its marker in the queue.
LEMMA MarkerAt ==
  ASSUME SelInv
  PROVE  /\ held = marker => MarkerPlace = 0
         /\ held # marker => \A k \in 1..Len(queue) : queue[k] = marker => MarkerPlace = k
         /\ phase \in {"ready", "parked", "snapshot", "dropped"} => MarkerPlace = 0
         /\ phase \in {"drain", "hold", "serving"} /\ held # marker =>
              MarkerPlace \in 1..Len(queue) /\ queue[MarkerPlace] = marker
<1>1. held = marker => MarkerPlace = 0
  BY DEF MarkerPlace
<1>2. ASSUME held # marker, NEW k \in 1..Len(queue), queue[k] = marker PROVE MarkerPlace = k
  <2>1. Queued(marker)
    BY <1>2 DEF Queued
  <2>2. MarkerPlace = CHOOSE i \in 1..Len(queue) : queue[i] = marker
    BY <1>2, <2>1 DEF MarkerPlace
  <2>3. MarkerPlace \in 1..Len(queue) /\ queue[MarkerPlace] = marker
    BY <1>2, <2>2
  <2> QED
    BY <1>2, <2>3 DEF SelInv, QueueInv, NodesApart
<1>3. phase \in {"ready", "parked", "snapshot", "dropped"} => held = marker
  BY DEF SelInv, QueueInv, NodesApart, MarkerKept
<1>4. ASSUME phase \in {"drain", "hold", "serving"}, held # marker
      PROVE  MarkerPlace \in 1..Len(queue) /\ queue[MarkerPlace] = marker
  <2>1. PICK k \in 1..Len(queue) : queue[k] = marker
    BY <1>4 DEF SelInv, TurnsKept, QueueInv, MarkerKept, Queued
  <2> QED
    BY <1>2, <1>4, <2>1
<1> QED
  BY <1>1, <1>2, <1>3, <1>4

LEMMA MarkerAtNext ==
  SelInv' =>
    /\ (held = marker)' => MarkerPlace' = 0
    /\ (held # marker)' => \A k \in 1..Len(queue') : queue'[k] = marker' => MarkerPlace' = k
    /\ (phase \in {"ready", "parked", "snapshot", "dropped"})' => MarkerPlace' = 0
<1>1. SelInv =>
    /\ held = marker => MarkerPlace = 0
    /\ held # marker => \A k \in 1..Len(queue) : queue[k] = marker => MarkerPlace = k
    /\ phase \in {"ready", "parked", "snapshot", "dropped"} => MarkerPlace = 0
  BY MarkerAt
<1>2. (SelInv =>
    /\ held = marker => MarkerPlace = 0
    /\ held # marker => \A k \in 1..Len(queue) : queue[k] = marker => MarkerPlace = k
    /\ phase \in {"ready", "parked", "snapshot", "dropped"} => MarkerPlace = 0)'
  BY <1>1, PTL
<1> QED
  BY <1>2

\* A step that the pool does not notice in the queue.
LEMMA QueueUnseen ==
  ASSUME SelInv, SelInv', UNCHANGED <<queue, phase, held, marker, result>>
  PROVE  UNCHANGED <<queue, PoolStatus, MarkerPlace, held>>
<1>1. PoolStatus' = PoolStatus
  BY DEF PoolStatus
<1>2. MarkerPlace' = MarkerPlace
  BY DEF MarkerPlace, Queued
<1> QED
  BY <1>1, <1>2

\* The tasks of the pool are those in the list, but for one that broke.
LEMMA StoredSeen ==
  ASSUME SelInv
  PROVE  /\ \A n : Stored(n) => n \in Nodes
         /\ \A n : n \in PoolStored <=> Stored(n) \/ (step = "broke" /\ held = n)
         /\ list = <<>> <=> \A n : ~Stored(n)
<1>1. list \in Seq(Nodes) /\ \A i \in 1..Len(list) : list[i] \in Nodes
  BY ListCells DEF SelInv, SelTypeOK
<1>2. step = "broke" => held \in Nodes
  BY DEF SelInv, SelTypeOK, QueueInv, NodesApart
<1>3. list # <<>> => Stored(list[1])
  BY <1>1, EmptySeq DEF Stored
<1>4. list = <<>> => \A n : ~Stored(n)
  BY DEF Stored
<1> QED
  BY <1>1, <1>2, <1>3, <1>4 DEF Stored, PoolStored

LEMMA StoredSeenNext ==
  SelInv' =>
    /\ \A n : n \in PoolStored' <=> Stored(n)' \/ (step' = "broke" /\ held' = n)
    /\ list' = <<>> <=> \A n : ~Stored(n)'
<1>1. SelInv =>
    /\ \A n : n \in PoolStored <=> Stored(n) \/ (step = "broke" /\ held = n)
    /\ list = <<>> <=> \A n : ~Stored(n)
  BY StoredSeen
<1>2. (SelInv =>
    /\ \A n : n \in PoolStored <=> Stored(n) \/ (step = "broke" /\ held = n)
    /\ list = <<>> <=> \A n : ~Stored(n))'
  BY <1>1, PTL
<1> QED
  BY <1>2

----------------------------------------------------------------------------
(* Wakeups *)

\* A claim calls the task, or changes nothing.
LEMMA ClaimSeen ==
  ASSUME SelInv, SelInv', NEW p \in Producers, NEW n \in Nodes, Claim(p, n), result' = result
  PROVE  /\ UNCHANGED <<queue, PoolStatus, MarkerPlace, held, PoolRoused>>
         /\ PoolCalled' = IF isEnqueued[n] THEN PoolCalled ELSE Pool!CalledWith({n})
<1>1. UNCHANGED <<queue, phase, held, marker, notified>>
  BY DEF Claim, receiverVars
<1>2. stage[p] = "idle" /\ \A q \in Producers : q # p => stage'[q] = stage[q] /\ node'[q] = node[q]
  BY DEF SelInv, QueueInv, QueueTypeOK, Claim, producerVars
<1>3. stage'[p] \in {"idle", "claimed"}
  BY DEF SelInv, QueueInv, QueueTypeOK, Claim, producerVars
<1>4. PoolRoused' = PoolRoused
  BY <1>1, <1>2, <1>3 DEF PoolRoused, Owing
<1>5. CASE isEnqueued[n]
  <2>1. PoolCalled' = PoolCalled
    BY <1>5 DEF Claim, producerVars, PoolCalled
  <2> QED
    BY <1>1, <1>4, <1>5, <2>1, QueueUnseen
<1>6. CASE ~isEnqueued[n]
  <2>1. stage'[p] = "claimed" /\ node'[p] = n
    BY <1>6 DEF SelInv, QueueInv, QueueTypeOK, Claim
  <2>2. ~Queued(n)
    BY <1>6 DEF SelInv, QueueInv, NodesApart
  <2>3. Pool!CalledWith({n}) = PoolCalled \cup {n}
    BY <2>2 DEF Pool!CalledWith, Pool!InQueue, Queued
  <2>4. PoolCalled' = PoolCalled \cup {n}
    BY <1>2, <2>1 DEF PoolCalled
  <2> QED
    BY <1>1, <1>4, <1>6, <2>3, <2>4, QueueUnseen
<1> QED
  BY <1>5, <1>6

LEMMA WakeSimulated ==
  ASSUME SelInv, SelInv', NEW p \in Producers, NEW n \in Nodes, Claim(p, n), result' = result,
         PoolStored' = PoolStored
  PROVE  [Pool!PoolNext]_(Pool!poolVars)
<1>1. CASE isEnqueued[n]
  BY <1>1, ClaimSeen DEF Pool!poolVars
<1>2. CASE ~isEnqueued[n]
  BY <1>2, ClaimSeen DEF Pool!PoolNext, Pool!WakeTasks
<1> QED
  BY <1>1, <1>2

LEMMA PushSimulated ==
  ASSUME SelInv, SelInv', NEW n \in Nodes, Push(n)
  PROVE  Pool!Extend({n})
<1>1. /\ n \in fresh /\ Claim(Owner, n) /\ list' = Append(list, n) /\ UNCHANGED <<result, step>>
      /\ phase \in {"ready", "parked"} /\ ~isEnqueued[n] /\ ~Stored(n)
  BY DEF Push, Idle, SelInv, ListKept
<1>2. step # "broke" /\ step' # "broke"
  BY <1>1 DEF SelInv, SelTypeOK
<1>3. \A m : Stored(m)' <=> Stored(m) \/ m = n
  BY <1>1, ListAppend DEF SelInv
<1>4. PoolStored' = PoolStored \cup {n} /\ {n} \cap PoolStored = {}
  BY <1>1, <1>2, <1>3, StoredSeen, StoredSeenNext
<1>5. Pool!Unborrowed
  BY <1>1, StatusSeen
<1> QED
  BY <1>1, <1>4, <1>5, ClaimSeen, OwnerAssumption DEF Pool!Extend

\* The claimed task enters the queue, and a sleeping caller hears of it.
LEMMA EnqueueSimulated ==
  ASSUME SelInv, SelInv', NEW p \in Producers, Enqueue(p)
  PROVE  [Pool!PoolNext]_(Pool!poolVars)
<1>1. /\ Produce(p) /\ UNCHANGED <<list, step, result, phase, held, marker, open>>
  BY DEF Enqueue, Produce, Abandon, Add, Link, Wake, receiverVars
<1>2. PoolStored' = PoolStored
  BY <1>1 DEF PoolStored, Stored
<1>3. \A q \in Producers : q # p => stage'[q] = stage[q] /\ node'[q] = node[q]
  BY <1>1 DEF SelInv, QueueInv, QueueTypeOK, Produce, Abandon, Add, Link, Wake
<1>4. CASE Add(p)
  <2>1. /\ stage[p] = "claimed" /\ stage'[p] = "appended" /\ node' = node
        /\ node[p] \in Nodes /\ queue' = Append(queue, node[p])
        /\ \A q \in Producers : stage[q] = "claimed" /\ node[q] = node[p] => q = p
    BY <1>4 DEF SelInv, QueueInv, QueueTypeOK, NodesApart, Add
  <2>2. PoolCalled' = PoolCalled \ {node[p]} /\ node[p] \in PoolCalled
    BY <1>3, <2>1 DEF PoolCalled
  <2>3. PoolStatus' = PoolStatus
    BY <1>1 DEF PoolStatus
  <2>4. PoolRoused' = (PoolRoused \/ Pool!Asleep(PoolStatus))
    <3>1. PoolRoused' <=> phase = "parked"
      BY <1>1, <2>1 DEF PoolRoused, Owing
    <3>2. PoolRoused' \in BOOLEAN /\ PoolRoused \in BOOLEAN /\ (PoolRoused => phase = "parked")
          /\ (phase = "parked" <=> Pool!Asleep(PoolStatus)) /\ Pool!Asleep(PoolStatus) \in BOOLEAN
      BY StatusSeen, StatusSeenNext DEF Pool!Asleep
    <3> QED
      BY <3>1, <3>2
  <2>5. MarkerPlace' = MarkerPlace
    <3>1. CASE phase \in {"drain", "hold", "serving"} /\ held # marker
      <4>1. PICK k \in 1..Len(queue) : k = MarkerPlace /\ queue[k] = marker
        BY <3>1, MarkerAt
      <4>2. k \in 1..Len(queue') /\ queue'[k] = marker'
        BY <1>1, <2>1, <4>1, AppendCell DEF SelInv, SelTypeOK, QueueTypeOK
      <4> QED
        BY <1>1, <3>1, <4>1, <4>2, MarkerAtNext
    <3>2. CASE ~(phase \in {"drain", "hold", "serving"} /\ held # marker)
      <4>1. MarkerPlace = 0 /\ MarkerPlace' = 0
        BY <1>1, <3>2, MarkerAt, MarkerAtNext DEF SelInv, SelTypeOK, QueueTypeOK, Phases
      <4> QED
        BY <4>1
    <3> QED
      BY <3>1, <3>2
  <2>6. Pool!Enter(node[p])
    BY <1>1, <1>2, <2>1, <2>2, <2>3, <2>4, <2>5 DEF Pool!Enter
  <2> QED
    BY <2>1, <2>6 DEF Pool!PoolNext
<1>5. CASE Abandon(p)
  <2>1. phase = "dropped" /\ stage[p] = "claimed" /\ stage'[p] = "idle" /\ UNCHANGED <<queue, notified>>
    BY <1>5 DEF SelInv, QueueInv, QueueTypeOK, NodesApart, Abandon
  <2>2. PoolCalled' \subseteq PoolCalled
    BY <1>3, <2>1 DEF PoolCalled
  <2>3. PoolRoused' = PoolRoused
    BY <1>1, <2>1 DEF PoolRoused
  <2>4. UNCHANGED <<queue, PoolStatus, MarkerPlace, held>>
    BY <1>1, <2>1, QueueUnseen
  <2>5. Pool!Release
    BY <1>2, <2>1, <2>2, <2>3, <2>4, StatusSeen DEF Pool!Release
  <2> QED
    BY <2>5 DEF Pool!PoolNext
<1>6. CASE Link(p) \/ Wake(p)
  <2>1. stage[p] \in {"appended", "linked"} /\ stage'[p] # "claimed" /\ UNCHANGED queue
    BY <1>6 DEF SelInv, QueueInv, QueueTypeOK, Link, Wake
  <2>2. PoolCalled' = PoolCalled
    BY <1>3, <2>1 DEF PoolCalled
  <2>3. PoolRoused' = PoolRoused
    <3>1. CASE Link(p)
      <4>1. stage'[p] = "linked" /\ notified' = notified
        BY <3>1 DEF SelInv, QueueInv, QueueTypeOK, Link
      <4> QED
        BY <1>1, <1>3, <2>1, <4>1 DEF PoolRoused, Owing
    <3>2. CASE Wake(p)
      <4>1. Owing(p) /\ (phase = "parked" => notified')
        BY <2>1, <3>2 DEF SelInv, QueueInv, SleepKept, Wake, Owing
      <4> QED
        BY <1>1, <4>1 DEF PoolRoused
    <3> QED
      BY <1>6, <3>1, <3>2
  <2> QED
    BY <1>1, <1>2, <2>1, <2>2, <2>3, QueueUnseen DEF Pool!poolVars
<1> QED
  BY <1>1, <1>4, <1>5, <1>6 DEF Produce

----------------------------------------------------------------------------
(* The selector's methods between two polls *)

\* A step that leaves the queue alone calls no task.
LEMMA VarsUnseen ==
  ASSUME SelInv, SelInv', UNCHANGED vars
  PROVE  UNCHANGED <<PoolCalled, queue, MarkerPlace, held, PoolRoused>>
<1> QED
  BY DEF vars, producerVars, receiverVars, PoolCalled, MarkerPlace, Queued, PoolRoused, Owing

LEMMA RemoveSimulated ==
  ASSUME SelInv, SelInv', NEW n \in Nodes, Remove(n)
  PROVE  Pool!Withdraw({n})
<1>1. /\ list' = Without(n) /\ UNCHANGED <<vars, step, result, phase, held, marker, queue>>
      /\ phase \in {"ready", "parked"}
  BY DEF Remove, Idle, vars, receiverVars
<1>2. \A m : Stored(m)' <=> Stored(m) /\ m # n
  BY <1>1, ListWithout DEF SelInv
<1>3. step # "broke"
  BY <1>1 DEF SelInv, SelTypeOK
<1>4. PoolStored' = PoolStored \ {n}
  BY <1>1, <1>2, <1>3, StoredSeen, StoredSeenNext
<1>5. Pool!Unborrowed
  BY <1>1, StatusSeen
<1>6. UNCHANGED <<PoolCalled, queue, MarkerPlace, held, PoolRoused, PoolStatus>>
  BY <1>1, VarsUnseen, QueueUnseen
<1> QED
  BY <1>4, <1>5, <1>6 DEF Pool!Withdraw

LEMMA DropTaskSimulated ==
  ASSUME SelInv, SelInv', DropTask
  PROVE  Pool!Release
<1>1. /\ phase = "dropped" /\ list # <<>> /\ list' = Tail(list)
      /\ UNCHANGED <<vars, step, result, phase, held, marker, queue>>
  BY DEF DropTask, vars, receiverVars
<1>2. \A m : Stored(m)' => Stored(m)
  BY <1>1, ListTail DEF SelInv
<1>3. PoolStored' \subseteq PoolStored
  BY <1>1, <1>2, StoredSeen, StoredSeenNext
<1>4. UNCHANGED <<PoolCalled, queue, MarkerPlace, held, PoolRoused, PoolStatus>>
  BY <1>1, VarsUnseen, QueueUnseen
<1> QED
  BY <1>1, <1>3, <1>4, StatusSeen DEF Pool!Release

\* What is left of the queue after its receiver goes away.
LEMMA CloseSimulated ==
  ASSUME SelInv, SelInv', Close \/ DropNode, UNCHANGED selVars
  PROVE  [Pool!PoolNext]_(Pool!poolVars)
<1>1. UNCHANGED <<stage, node, notified, phase, held, marker, list, step, result>>
  BY DEF Close, DropNode, producerVars, receiverVars, selVars
<1>2. UNCHANGED <<PoolStored, PoolCalled, PoolStatus, PoolRoused>>
  BY <1>1 DEF PoolStored, Stored, PoolCalled, PoolStatus, PoolRoused, Owing
<1>3. CASE Close
  <2>1. queue' = queue
    BY <1>3 DEF Close
  <2> QED
    BY <1>1, <1>2, <2>1, QueueUnseen DEF Pool!poolVars
<1>4. CASE DropNode
  <2>1. phase = "dropped" /\ queue # <<>> /\ queue' = Tail(queue) /\ queue \in Seq(Nodes)
    BY <1>4 DEF SelInv, QueueInv, QueueTypeOK, NodesApart, DropNode
  <2>2. queue' = SubSeq(queue, 2, Len(queue))
    BY <2>1, TailIsSubSeq
  <2>3. MarkerPlace' = MarkerPlace
    BY <1>1, <2>1, MarkerAt, MarkerAtNext
  <2>4. Pool!Release
    BY <1>1, <1>2, <2>1, <2>2, <2>3, StatusSeen DEF Pool!Release
  <2> QED
    BY <2>4 DEF Pool!PoolNext
<1> QED
  BY <1>3, <1>4

LEMMA DropSimulated ==
  ASSUME SelInv, SelInv', DropSelector
  PROVE  Pool!DropPool
<1>1. /\ phase \in {"ready", "parked"} /\ phase' = "dropped"
      /\ UNCHANGED <<stage, node, queue, held, list, step, result>>
  BY DEF DropSelector, Idle, DropReceiver, producerVars, selVars
<1>2. UNCHANGED <<PoolStored, PoolCalled>>
  BY <1>1 DEF PoolStored, Stored, PoolCalled
<1>3. MarkerPlace = 0 /\ MarkerPlace' = 0
  BY <1>1, MarkerAt, MarkerAtNext
<1>4. PoolRoused' = FALSE
  BY <1>1 DEF PoolRoused
<1> QED
  BY <1>1, <1>2, <1>3, <1>4, StatusSeen, StatusSeenNext DEF Pool!DropPool

----------------------------------------------------------------------------
(* poll_next *)

LEMMA StartSimulated ==
  ASSUME SelInv, SelInv', StartPollNext
  PROVE  Pool!CallPollNext
<1>1. /\ phase \in {"ready", "parked"} /\ phase' = "snapshot"
      /\ UNCHANGED <<stage, node, queue, held, list, step>>
  BY DEF StartPollNext, Idle, Register, producerVars
<1>2. UNCHANGED <<PoolStored, PoolCalled>>
  BY <1>1 DEF PoolStored, Stored, PoolCalled
<1>3. MarkerPlace = 0 /\ MarkerPlace' = 0
  BY <1>1, MarkerAt, MarkerAtNext
<1>4. PoolRoused' = FALSE
  BY <1>1 DEF PoolRoused
<1> QED
  BY <1>1, <1>2, <1>3, <1>4, StatusSeen, StatusSeenNext DEF Pool!CallPollNext

\* A poll_next that ends without a value returns what the pool returns, and
\* has made sure of a wakeup if the queue is not empty.
LEMMA ParkSimulated ==
  ASSUME SelInv, SelInv', (phase = "parked")', (step = "none")', ResultAfterRound(list')
  PROVE  Pool!EndWith(Pool!Outcome)
<1>1. result' = IF list' = <<>> THEN "none" ELSE "pending"
  BY DEF ResultAfterRound, Outcome
<1>2. PoolStored' = {} <=> list' = <<>>
  BY StoredSeenNext
<1>3. PoolStatus' = Pool!Outcome
  BY <1>1, <1>2, StatusSeenNext DEF Pool!Outcome
<1>4. MarkerPlace' = 0 /\ held' = Null
  BY MarkerAtNext DEF SelInv, QueueInv, NodesApart
<1>5. queue' # <<>> => PoolRoused'
  BY DEF SelInv, QueueInv, SleepKept, PoolRoused
<1>6. PoolRoused' \in BOOLEAN /\ Pool!Asleep(PoolStatus')
  BY StatusSeenNext
<1>7. Pool!Asleep(Pool!Outcome)
  BY <1>3, <1>6
<1> QED
  BY <1>3, <1>4, <1>5, <1>6, <1>7 DEF Pool!EndWith

LEMMA TakeMarkerSimulated ==
  ASSUME SelInv, SelInv', TakeMarker
  PROVE  Pool!TakeStock
<1>1. /\ phase = "snapshot" /\ UNCHANGED <<stage, node, queue, held, list, step, notified>>
      /\ step = "none" /\ ResultAfterRound(list)
      /\ phase' = IF queue = <<>> THEN "parked" ELSE "drain"
      /\ marker' = LastQueued
      /\ held = Null
  BY DEF TakeMarker, Snapshot, producerVars, SelInv, SelTypeOK, QueueInv, NodesApart
<1>2. UNCHANGED <<PoolStored, PoolCalled>>
  BY <1>1 DEF PoolStored, Stored, PoolCalled
<1>3. PoolStatus = "starting"
  BY <1>1, StatusSeen
<1>4. CASE queue = <<>>
  <2>1. ResultAfterRound(list')
    BY <1>1
  <2>2. Pool!EndWith(Pool!Outcome)
    BY <1>1, <1>4, <2>1, ParkSimulated
  <2> QED
    BY <1>1, <1>2, <1>3, <1>4, <2>2 DEF Pool!TakeStock
<1>5. CASE queue # <<>>
  <2>1. PICK len \in Nat : len = Len(queue)
    BY EmptySeq DEF SelInv, QueueInv, QueueTypeOK
  <2>2. len \in 1..len /\ queue[len] \in Nodes
    BY <1>5, <2>1, QueueCells, EmptySeq DEF SelInv, QueueInv, QueueTypeOK
  <2>3. marker' = queue[len] /\ held' # marker'
    BY <1>1, <1>5, <2>1, <2>2, NullAssumption DEF LastQueued
  <2>4. MarkerPlace' = len
    BY <1>1, <2>1, <2>2, <2>3, MarkerAtNext
  <2>5. PoolRoused = FALSE /\ PoolRoused' = FALSE
    BY <1>1, <1>5 DEF PoolRoused
  <2> QED
    BY <1>1, <1>2, <1>3, <1>5, <2>1, <2>4, <2>5, StatusSeenNext DEF Pool!TakeStock
<1> QED
  BY <1>4, <1>5

\* The head of the queue is the marker, or one closer to it.
LEMMA TakeSimulated ==
  ASSUME SelInv, SelInv', Take, UNCHANGED <<list, step, result>>
  PROVE  Pool!TakeTask
<1>1. /\ phase = "drain" /\ phase' = "hold" /\ UNCHANGED <<stage, node, marker>>
      /\ queue # <<>> /\ held' = Head(queue) /\ queue' = Tail(queue)
      /\ held = Null /\ marker # Null /\ step # "broke"
  BY DEF Take, producerVars, SelInv, SelTypeOK, QueueInv, NodesApart, TurnsKept
<1>2. PoolStored' = PoolStored /\ PoolCalled' = PoolCalled
  BY <1>1 DEF PoolStored, Stored, PoolCalled
<1>3. PICK k \in Nat : k = Len(queue')
  BY <1>1, TakeHead DEF SelInv
<1>4. /\ Len(queue) = k + 1 /\ held' = queue[1]
      /\ \A i \in 1..k : queue'[i] = queue[i + 1]
  BY <1>1, <1>3, TakeHead DEF SelInv
<1>5. PICK m \in 1..k + 1 : m = MarkerPlace /\ queue[m] = marker
  BY <1>1, <1>4, MarkerAt
<1>6. MarkerPlace' = m - 1
  <2>1. CASE m = 1
    BY <1>1, <1>4, <1>5, <2>1, MarkerAtNext
  <2>2. CASE m # 1
    <3>1. m - 1 \in 1..k /\ queue'[m - 1] = marker'
      BY <1>1, <1>4, <1>5, <2>2
    <3>2. held' # marker'
      <4>1. 1 \in 1..k + 1
        BY <1>3
      <4>2. queue[1] # queue[m]
        BY <1>4, <1>5, <2>2, <4>1 DEF SelInv, QueueInv, NodesApart
      <4> QED
        BY <1>1, <1>4, <1>5, <4>2
    <3> QED
      BY <1>3, <3>1, <3>2, MarkerAtNext
  <2> QED
    BY <2>1, <2>2
<1>7. PoolRoused = FALSE /\ PoolRoused' = FALSE
  BY <1>1 DEF PoolRoused
<1> QED
  BY <1>1, <1>2, <1>5, <1>6, <1>7, StatusSeen, StatusSeenNext DEF Pool!TakeTask

\* dequeue gives up on a queue with a marker in it only for a race, and the
\* racing producer still has the waker to take.
LEMMA GiveUpSimulated ==
  ASSUME SelInv, SelInv', TakeNothing, ResultAfterRound(list), UNCHANGED <<list, step>>
  PROVE  Pool!GiveUp
<1>1. /\ phase = "drain" /\ phase' = "parked" /\ UNCHANGED <<stage, node, queue, notified>>
      /\ held = Null /\ marker # Null /\ step = "none"
  BY DEF TakeNothing, producerVars, SelInv, SelTypeOK, QueueInv, NodesApart, TurnsKept
<1>2. PoolStored' = PoolStored /\ PoolCalled' = PoolCalled
  BY <1>1 DEF PoolStored, Stored, PoolCalled
<1>3. ResultAfterRound(list')
  OBVIOUS
<1>4. Pool!EndWith(Pool!Outcome)
  BY <1>1, <1>3, ParkSimulated
<1>5. PoolRoused'
  <2>1. raced
    <3>1. queue # <<>>
      BY <1>1, MarkerAt
    <3> QED
      BY <3>1 DEF TakeNothing
  <2>2. notified \/ \E p \in Producers : Owing(p)
    BY <1>1, <2>1 DEF SelInv, QueueInv, QueueTypeOK, SleepKept
  <2> QED
    BY <1>1, <2>2 DEF PoolRoused, Owing
<1> QED
  BY <1>1, <1>2, <1>4, <1>5, StatusSeen DEF Pool!GiveUp

\* The task in hand is done with: the poll ends if it was the marker.
LEMMA ContinueSimulated ==
  ASSUME SelInv, SelInv', phase \in {"hold", "serving"}, EndRound(FALSE),
         ResultAfterRound(list'), (step = "none")',
         UNCHANGED <<queue, stage, node, notified>>
  PROVE  Pool!Continue
<1>1. held # Null /\ marker # Null
  BY NullAssumption DEF SelInv, QueueInv, NodesApart, TurnsKept
<1>2. CASE held = marker
  <2>1. phase' = "parked"
    BY <1>2 DEF EndRound
  <2>2. Pool!EndWith(Pool!Outcome)
    BY <2>1, ParkSimulated
  <2> QED
    BY <1>2, <2>2, MarkerAt DEF Pool!Continue
<1>3. CASE held # marker
  <2>1. phase' = "drain" /\ held' = Null /\ marker' = marker
    BY <1>3 DEF EndRound
  <2>2. PICK k \in 1..Len(queue) : k = MarkerPlace /\ queue[k] = marker
    BY <1>3, MarkerAt
  <2>3. MarkerPlace' = k /\ k # 0
    BY <1>1, <2>1, <2>2, MarkerAtNext
  <2>4. PoolRoused = FALSE /\ PoolRoused' = FALSE
    BY <2>1 DEF PoolRoused
  <2>5. PoolStatus' = PoolStatus
    BY <2>1, StatusSeen, StatusSeenNext
  <2> QED
    BY <2>1, <2>2, <2>3, <2>4, <2>5 DEF Pool!Continue
<1> QED
  BY <1>2, <1>3

LEMMA SkipSimulated ==
  ASSUME SelInv, SelInv', SkipRemoved
  PROVE  Pool!SkipRemoved
<1>1. /\ phase = "hold" /\ EndRound(FALSE) /\ ResultAfterRound(list') /\ ~Stored(held)
      /\ UNCHANGED <<queue, stage, node, notified, list, step>> /\ step = "none"
  BY DEF SkipRemoved, Discard, producerVars, SelInv, SelTypeOK
<1>2. UNCHANGED <<PoolStored, PoolCalled>>
  BY <1>1 DEF PoolStored, Stored, PoolCalled
<1>3. held \notin PoolStored \cup {Null}
  BY <1>1, StoredSeen, NullAssumption DEF SelInv, QueueInv, NodesApart
<1> QED
  BY <1>1, <1>2, <1>3, ContinueSimulated DEF Pool!SkipRemoved

\* A poll_next that returns a value, or is left by a panic.
LEMMA ReturnSimulated ==
  ASSUME SelInv, SelInv', Finish(TRUE), NEW st \in {"some", "panic"}, result' = st
  PROVE  Pool!EndWith(st)
<1>1. phase' = "ready" /\ held' = Null
  BY DEF Finish, EndRound
<1>2. PoolStatus' = st /\ PoolRoused' = FALSE /\ MarkerPlace' = 0
  BY <1>1, StatusSeenNext, MarkerAtNext DEF PoolRoused
<1> QED
  BY <1>1, <1>2 DEF Pool!EndWith, Pool!Asleep

\* What the end of a poll does to the tasks: the one that was polled stays
\* stored, or is gone from the list already.
LEMMA EndPollSimulated ==
  ASSUME SelInv, SelInv', UNCHANGED <<list, queue, stage, node>>, step # "none",
         step' = "none", NEW some \in BOOLEAN,
         IF some THEN Pool!EndWith("some") ELSE Pool!Continue
  PROVE  \/ step # "broke" /\ Pool!EndPoll("pending", some, {})
         \/ step = "broke" /\ Pool!EndPoll("break", some, {})
<1>1. \A m : Stored(m)' <=> Stored(m)
  BY DEF Stored
<1>2. PoolCalled' = PoolCalled /\ Pool!CalledWith({}) = PoolCalled
  BY DEF PoolCalled, Pool!CalledWith
<1>3. CASE step = "broke"
  <2>1. held \in PoolStored /\ PoolStored' = PoolStored \ {held}
    BY <1>1, <1>3, StoredSeen, StoredSeenNext DEF SelInv, ListKept
  <2>2. Pool!CalledWith({} \cup IF "break" = "continue" THEN {held} ELSE {}) = PoolCalled
    BY <1>2
  <2> QED
    BY <1>2, <1>3, <2>1, <2>2 DEF Pool!EndPoll
<1>4. CASE step \in {"poll", "transform"}
  <2>1. held \in PoolStored /\ PoolStored' = PoolStored
    BY <1>1, <1>4, StoredSeen, StoredSeenNext DEF SelInv, ListKept
  <2>2. Pool!CalledWith({} \cup IF "pending" = "continue" THEN {held} ELSE {}) = PoolCalled
    BY <1>2
  <2> QED
    BY <1>2, <1>4, <2>1, <2>2 DEF Pool!EndPoll
<1>5. CASE step = "cont"
  <2>1. held \in PoolStored /\ PoolStored' = PoolStored
    BY <1>1, <1>5, StoredSeen, StoredSeenNext DEF SelInv, ListKept
  <2>2. Pool!CalledWith({} \cup IF "pending" = "continue" THEN {held} ELSE {}) = PoolCalled
    BY <1>2
  <2> QED
    BY <1>2, <1>5, <2>1, <2>2 DEF Pool!EndPoll
<1> QED
  BY <1>3, <1>4, <1>5 DEF SelInv, SelTypeOK, Steps

LEMMA PollSimulated ==
  ASSUME SelInv, SelInv', PollPending \/ \E some \in BOOLEAN : Transform(some)
  PROVE  Pool!PoolNext
<1>1. PICK some \in BOOLEAN :
        /\ Finish(some) /\ step \in {"poll", "transform", "broke"} /\ step' = "none"
        /\ UNCHANGED list
        /\ IF some THEN result' = "some" ELSE ResultAfterRound(list)
  BY DEF PollPending, Transform
<1>2. /\ phase = "serving" /\ EndRound(some)
      /\ UNCHANGED <<queue, stage, node, notified>>
  BY <1>1 DEF Finish, producerVars
<1>3. IF some THEN Pool!EndWith("some") ELSE Pool!Continue
  <2>1. CASE some
    BY <1>1, <2>1, ReturnSimulated
  <2>2. CASE ~some
    <3>1. EndRound(FALSE) /\ ResultAfterRound(list')
      BY <1>1, <1>2, <2>2
    <3> QED
      BY <1>1, <1>2, <2>2, <3>1, ContinueSimulated
  <2> QED
    BY <2>1, <2>2
<1>4. Pool!EndPoll("pending", some, {}) \/ Pool!EndPoll("break", some, {})
  BY <1>1, <1>2, <1>3, EndPollSimulated
<1> QED
  BY <1>4 DEF Pool!PoolNext, Pool!Flows

LEMMA PanicSimulated ==
  ASSUME SelInv, SelInv', Panic
  PROVE  Pool!PanicOut
<1>1. /\ Finish(TRUE) /\ step \in {"poll", "transform", "broke"} /\ step' = "none"
      /\ list' = Without(held) /\ result' = "panic" /\ UNCHANGED <<queue, stage, node>>
  BY DEF Panic, Finish, producerVars
<1>2. \A m : Stored(m)' <=> Stored(m) /\ m # held
  BY <1>1, ListWithout DEF SelInv
<1>3. held \in PoolStored /\ PoolStored' = PoolStored \ {held}
  BY <1>1, <1>2, StoredSeen, StoredSeenNext DEF SelInv, ListKept
<1>4. PoolCalled' = PoolCalled
  BY <1>1 DEF PoolCalled
<1> QED
  BY <1>1, <1>3, <1>4, ReturnSimulated DEF Pool!PanicOut

\* The poll of the task, and what becomes of its value, happen inside one
\* step of the pool.
LEMMA ServeSimulated ==
  ASSUME SelInv, SelInv', StartPoll \/ PollContinue \/ PollBreak
  PROVE  UNCHANGED Pool!poolVars
<1>1. UNCHANGED <<queue, held, marker, stage, node, notified, result>>
  BY DEF StartPoll, Recover, PollContinue, PollBreak, vars, producerVars, receiverVars
<1>2. phase \in {"hold", "serving"} /\ phase' = "serving"
  BY DEF StartPoll, Recover, PollContinue, PollBreak, vars, receiverVars, SelInv, SelTypeOK
<1>3. PoolStatus' = PoolStatus /\ PoolRoused = FALSE /\ PoolRoused' = FALSE
  BY <1>2, StatusSeen, StatusSeenNext DEF PoolRoused
<1>4. MarkerPlace' = MarkerPlace /\ PoolCalled' = PoolCalled
  BY <1>1 DEF MarkerPlace, Queued, PoolCalled
<1>5. PoolStored' = PoolStored
  <2>1. CASE StartPoll \/ PollContinue
    <3>1. list' = list /\ step # "broke" /\ step' # "broke"
      BY <1>2, <2>1 DEF StartPoll, Recover, PollContinue, SelInv, SelTypeOK
    <3>2. \A m : Stored(m)' <=> Stored(m)
      BY <3>1 DEF Stored
    <3> QED
      BY <3>1, <3>2, StoredSeen, StoredSeenNext
  <2>2. CASE PollBreak
    <3>1. list' = Without(held) /\ step = "poll" /\ step' = "broke" /\ Stored(held)
      BY <2>2 DEF PollBreak, SelInv, ListKept
    <3>2. \A m : Stored(m)' <=> Stored(m) /\ m # held
      BY <3>1, ListWithout DEF SelInv
    <3> QED
      BY <1>1, <3>1, <3>2, StoredSeen, StoredSeenNext
  <2> QED
    BY <2>1, <2>2
<1> QED
  BY <1>1, <1>3, <1>4, <1>5 DEF Pool!poolVars

----------------------------------------------------------------------------
(* The refinement *)

LEMMA PoolStep ==
  SelInv /\ SelInv' /\ [SelNext]_allVars => [Pool!PoolNext]_(Pool!poolVars)
<1> SUFFICES ASSUME SelInv, SelInv', [SelNext]_allVars
             PROVE  [Pool!PoolNext]_(Pool!poolVars)
  OBVIOUS
<1>1. ASSUME NEW p \in Producers, NEW n \in Nodes, Claim(p, n), step' = step,
             UNCHANGED <<list, result>>
      PROVE  [Pool!PoolNext]_(Pool!poolVars)
  <2>1. held' = held
    BY <1>1 DEF Claim, receiverVars
  <2>2. PoolStored' = PoolStored
    BY <1>1, <2>1 DEF PoolStored, Stored
  <2> QED
    BY <1>1, <2>2, WakeSimulated
<1>2. ASSUME NEW t \in Threads, Notify(t) PROVE [Pool!PoolNext]_(Pool!poolVars)
  <2>1. t \in Producers /\ signal[t] \in Nodes
    BY <1>2 DEF SelInv, SelTypeOK, Notify, Threads
  <2> QED
    BY <1>1, <1>2, <2>1 DEF Notify
<1>3. ASSUME NEW t \in Threads, NEW n \in Nodes, IdWake(t, n)
      PROVE  [Pool!PoolNext]_(Pool!poolVars)
  BY <1>1, <1>3 DEF IdWake, Threads, selVars
<1>4. ASSUME NEW n \in Nodes, OwnerWake(n) PROVE [Pool!PoolNext]_(Pool!poolVars)
  BY <1>1, <1>4, OwnerAssumption DEF OwnerWake, selVars
<1>5. CASE WakeNext
  <2>1. Head(waking) \in Nodes
    BY <1>5, ListCells DEF SelInv, WakeNext
  <2> QED
    BY <1>1, <1>5, <2>1, OwnerAssumption DEF WakeNext
<1>6. CASE Reenqueue
  <2>1. held \in Nodes /\ held' = held
    BY <1>6 DEF SelInv, SelTypeOK, Reenqueue, QueueInv, NodesApart, Claim, receiverVars
  <2>2. PoolStored' = PoolStored
    BY <1>6, <2>1 DEF Reenqueue, PoolStored, Stored
  <2> QED
    BY <1>6, <2>1, <2>2, WakeSimulated, OwnerAssumption DEF Reenqueue
<1>7. ASSUME NEW n \in Nodes, Push(n) \/ Remove(n) PROVE [Pool!PoolNext]_(Pool!poolVars)
  BY <1>7, PushSimulated, RemoveSimulated DEF Pool!PoolNext
<1>8. CASE (\E t \in Threads, n \in Nodes : Signal(t, n)) \/ WakeAll \/ Terminated
           \/ UNCHANGED allVars
  <2>1. UNCHANGED vars /\ UNCHANGED <<list, step, result>>
    BY <1>8 DEF Signal, WakeAll, Terminated, allVars, selVars
  <2>2. UNCHANGED <<phase, held, marker, queue>>
    BY <2>1 DEF vars, receiverVars
  <2>3. PoolStored' = PoolStored
    BY <2>1, <2>2 DEF PoolStored, Stored
  <2> QED
    BY <2>1, <2>2, <2>3, VarsUnseen, QueueUnseen DEF Pool!poolVars
<1>9. CASE Dequeue
  <2>1. ResultAfterRound(list) /\ UNCHANGED <<list, step>>
    BY <1>9 DEF Dequeue
  <2>2. CASE Take
    <3>1. result' = result
      BY <2>1, <2>2 DEF Take, ResultAfterRound
    <3> QED
      BY <2>1, <2>2, <3>1, TakeSimulated DEF Pool!PoolNext
  <2>3. CASE TakeNothing
    BY <2>1, <2>3, GiveUpSimulated DEF Pool!PoolNext
  <2> QED
    BY <1>9, <2>2, <2>3 DEF Dequeue
<1>10. CASE StartPollNext \/ TakeMarker \/ SkipRemoved \/ DropSelector \/ DropTask \/ Panic
  BY <1>10, StartSimulated, TakeMarkerSimulated, SkipSimulated, DropSimulated,
     DropTaskSimulated, PanicSimulated DEF Pool!PoolNext
<1>11. CASE PollPending \/ \E some \in BOOLEAN : Transform(some)
  BY <1>11, PollSimulated
<1>12. CASE StartPoll \/ PollContinue \/ PollBreak
  BY <1>12, ServeSimulated
<1>13. CASE (Close \/ DropNode) /\ UNCHANGED selVars
  BY <1>13, CloseSimulated
<1>14. ASSUME NEW p \in Producers, Enqueue(p) PROVE [Pool!PoolNext]_(Pool!poolVars)
  BY <1>14, EnqueueSimulated
<1> QED
  BY <1>2, <1>3, <1>4, <1>5, <1>6, <1>7, <1>8, <1>9, <1>10, <1>11, <1>12, <1>13, <1>14
     DEF SelNext, PollNextStep

LEMMA PoolStart == SelInit => Pool!PoolInit
<1> SUFFICES ASSUME SelInit PROVE Pool!PoolInit
  OBVIOUS
<1>1. SelInv /\ phase = "ready" /\ held = Null /\ queue = <<>>
      /\ result = "never" /\ step = "none" /\ list = <<>>
  BY SelStart DEF SelInit, Init
<1>2. PoolStored = {}
  BY <1>1, StoredSeen
<1>3. PoolCalled = {}
  BY DEF SelInit, Init, PoolCalled
<1>4. PoolStatus = "never" /\ MarkerPlace = 0 /\ PoolRoused = FALSE
  BY <1>1, StatusSeen, MarkerAt DEF PoolRoused
<1> QED
  BY <1>1, <1>2, <1>3, <1>4 DEF Pool!PoolInit

\* The selector is a pool of tasks: each poll_next handles, in order, what
\* was in the queue when it began, and returns without a value only when it
\* has run out of that, or when somebody is about to wake its caller.
THEOREM SelectorIsPool == SelSpec => ImplementsTaskPool
<1> QED
  BY PoolStart, PoolStep, SelCorrect, PTL DEF SelSpec, ImplementsTaskPool, Pool!PoolSpec

\* Whatever the selector goes through, what the strategies and the examples
\* rely on holds of it: it is inside a poll exactly while it has a task in
\* hand or one left to take, and a caller that was told to wait is not left
\* alone with tasks in the queue.
THEOREM SelectorKeepsPool == SelSpec => []Pool!PoolInv
<1>1. ASSUME SelInv PROVE Pool!PoolInv
  <2>1. /\ queue \in Seq(Nodes) /\ phase \in Phases
        /\ held \in Nodes \cup {Null} /\ result \in Results
    BY <1>1 DEF SelInv, SelTypeOK, QueueTypeOK
  <2>2. PoolStored \subseteq Nodes /\ PoolCalled \subseteq Nodes
    BY DEF PoolStored, PoolCalled
  <2>3. PoolStatus \in Pool!Statuses
    BY <1>1, <2>1, StatusSeen DEF Phases, Results, Pool!Statuses
  <2>4. MarkerPlace \in 0..Len(queue)
    BY <1>1, <2>1, MarkerAt DEF Phases
  <2>5. Pool!PoolTypeOK
    BY <1>1, <2>1, <2>2, <2>3, <2>4, StatusSeen DEF Pool!PoolTypeOK
  <2>6. Pool!PollBalanced
    <3>1. ASSUME PoolStatus = "polling", held = Null PROVE MarkerPlace > 0
      <4>1. phase \in {"drain", "hold", "serving"}
        BY <1>1, <2>1, <3>1, StatusSeen DEF Phases, Pool!Asleep, Pool!Unborrowed
      <4>2. held # marker
        BY <1>1, <3>1, <4>1 DEF SelInv, TurnsKept
      <4> QED
        BY <1>1, <2>1, <4>1, <4>2, MarkerAt
    <3>2. ASSUME PoolStatus # "polling" PROVE held = Null /\ MarkerPlace = 0
      <4>1. phase \in {"ready", "parked", "snapshot", "dropped"}
        BY <1>1, <2>1, <3>2, StatusSeen DEF Phases
      <4> QED
        BY <1>1, <4>1, MarkerAt DEF SelInv, QueueInv, NodesApart
    <3> QED
      BY <3>1, <3>2 DEF Pool!PollBalanced
  <2>7. Pool!CalledBack
    <3> SUFFICES ASSUME Pool!Asleep(PoolStatus), queue # <<>> PROVE PoolRoused
      BY DEF Pool!CalledBack
    <3> QED
      BY <1>1, StatusSeen DEF SelInv, QueueInv, SleepKept, PoolRoused
  <2> QED
    BY <2>5, <2>6, <2>7 DEF Pool!PoolInv
<1> QED
  BY <1>1, SelCorrect, PTL
=============================================================================
