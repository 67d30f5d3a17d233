--------------------------- MODULE WakeFlagTsoProofs ---------------------------
(***************************************************************************)
(* Proof, for any sets of tasks and threads, that the clearing of          *)
(* is_enqueued by a plain store loses no wakeup if every poll executes an  *)
(* atomic read-modify-write before it reads its event.                     *)
(***************************************************************************)
EXTENDS WakeFlagTso, SequenceLemmas

TsoTypeOK ==
  /\ queue \in Seq(Nodes)
  /\ isEnqueued \in [Nodes -> BOOLEAN]
  /\ event \in [Nodes -> BOOLEAN]
  /\ target \in [Threads -> Nodes \cup {Null}]
  /\ pc \in {"loop", "dequeued", "poll", "check", "again"}
  /\ IF pc = "loop" THEN held = Null ELSE held \in Nodes

\* The store buffer has the cleared flag of the dequeued node, and nothing
\* from the time of the read-modify-write on.
BufferKept ==
  buffer = <<>> \/ (pc = "poll" /\ buffer = <<held>>)

\* A flag that is set, in memory, for a node that is not in the queue has
\* still to be cleared, before the task looks at its event.
ClaimsPending ==
  \A n \in Nodes : isEnqueued[n] =>
    Queued(n) \/ (held = n /\ (pc = "dequeued" \/ (pc = "poll" /\ buffer # <<>>)))

TsoInv == TsoTypeOK /\ BufferKept /\ ClaimsPending /\ WokenIsPolled

\* What an enqueue puts in the queue.
LEMMA EnqueueAdds ==
  ASSUME TsoTypeOK, NEW n \in Nodes, Enqueue(n)
  PROVE  /\ queue' \in Seq(Nodes) /\ isEnqueued' \in [Nodes -> BOOLEAN]
         /\ \A m \in Nodes : isEnqueued'[m] <=> isEnqueued[m] \/ m = n
         /\ \A m : Queued(m)' <=> Queued(m) \/ (m = n /\ ~isEnqueued[n])
<1>1. isEnqueued' \in [Nodes -> BOOLEAN]
      /\ \A m \in Nodes : isEnqueued'[m] <=> isEnqueued[m] \/ m = n
  BY DEF TsoTypeOK, Enqueue
<1>2. CASE isEnqueued[n]
  BY <1>1, <1>2 DEF TsoTypeOK, Enqueue, Queued
<1>3. CASE ~isEnqueued[n]
  <2>1. queue \in Seq(Nodes) /\ queue' = Append(queue, n)
    BY <1>3 DEF TsoTypeOK, Enqueue
  <2>2. PICK len \in Nat : len = Len(queue)
    BY <2>1, AppendCell
  <2>3. /\ queue' \in Seq(Nodes) /\ Len(queue') = len + 1 /\ queue'[len + 1] = n
        /\ \A i \in 1..len : queue'[i] = queue[i]
    BY <2>1, <2>2, AppendCell
  <2>4. \A i \in 1..len + 1 : i \in 1..len \/ i = len + 1
    OBVIOUS
  <2>5. \A m : Queued(m)' <=> Queued(m) \/ m = n
    BY <2>2, <2>3, <2>4 DEF Queued
  <2> QED
    BY <1>1, <1>3, <2>3, <2>5
<1> QED
  BY <1>2, <1>3

\* The wakeups of other threads: a claim that is refused leaves the task in
\* the queue, or to a poll that has yet to look at its event.
LEMMA ThreadStep ==
  ASSUME TsoInv, TsoAssumption,
         \/ \E t \in Threads : Notify(t) \/ \E n \in Nodes : Signal(t, n)
         \/ \E n \in Nodes : IdWake(n)
  PROVE  TsoInv'
<1>1. ASSUME NEW n \in Nodes, Enqueue(n), UNCHANGED <<buffer, event, pc, held>>,
             target' \in [Threads -> Nodes \cup {Null}],
             \A t \in Threads : target[t] # n => target'[t] = target[t]
      PROVE  TsoInv'
  <2>1. TsoTypeOK'
    BY <1>1, EnqueueAdds DEF TsoInv, TsoTypeOK
  <2>2. BufferKept'
    BY <1>1 DEF TsoInv, BufferKept
  <2>3. ClaimsPending'
    BY <1>1, EnqueueAdds DEF TsoInv, ClaimsPending
  <2>4. Queued(n)' \/ (held = n /\ pc \in {"dequeued", "poll", "check"})
    BY <1>1, EnqueueAdds DEF TsoInv, ClaimsPending
  <2>5. WokenIsPolled'
    <3> SUFFICES ASSUME NEW m \in Nodes, m # n, event[m], \A t \in Threads : target'[t] # m
                 PROVE  Queued(m)' \/ (held = m /\ pc \in {"dequeued", "poll", "check"})
      BY <1>1, <2>4 DEF WokenIsPolled
    <3>1. \A t \in Threads : target[t] # m
      BY <1>1
    <3> QED
      BY <1>1, <3>1, EnqueueAdds DEF TsoInv, WokenIsPolled
  <2> QED
    BY <2>1, <2>2, <2>3, <2>5 DEF TsoInv
<1>2. ASSUME NEW t \in Threads, Notify(t) PROVE TsoInv'
  <2>1. /\ target[t] \in Nodes /\ target' \in [Threads -> Nodes \cup {Null}]
        /\ \A u \in Threads : target[u] # target[t] => target'[u] = target[u]
    BY <1>2 DEF TsoInv, TsoTypeOK, Notify
  <2> QED
    BY <1>1, <1>2, <2>1 DEF Notify
<1>3. ASSUME NEW n \in Nodes, IdWake(n) PROVE TsoInv'
  BY <1>1, <1>3 DEF IdWake, TsoInv, TsoTypeOK
<1>4. ASSUME NEW t \in Threads, NEW n \in Nodes, Signal(t, n) PROVE TsoInv'
  <2>1. /\ UNCHANGED <<queue, isEnqueued, buffer, pc, held>> /\ target[t] = Null
        /\ event' \in [Nodes -> BOOLEAN] /\ target' \in [Threads -> Nodes \cup {Null}]
        /\ \A m \in Nodes : m # n => event'[m] = event[m]
        /\ \A u \in Threads : target'[u] = IF u = t THEN n ELSE target[u]
    BY <1>4 DEF TsoInv, TsoTypeOK, Signal
  <2>2. TsoTypeOK' /\ BufferKept' /\ ClaimsPending'
    BY <2>1 DEF TsoInv, TsoTypeOK, BufferKept, ClaimsPending, Queued
  <2>3. WokenIsPolled'
    BY <2>1 DEF TsoInv, WokenIsPolled, TsoAssumption, Queued
  <2> QED
    BY <2>2, <2>3 DEF TsoInv
<1> QED
  BY <1>2, <1>3, <1>4

LEMMA ReceiverStep ==
  ASSUME TsoInv, TsoAssumption, PollsWithRmw = TRUE,
         Dequeue \/ IntoInner \/ Drain \/ PollTask \/ PollPending \/ PollReady \/ Reenqueue
  PROVE  TsoInv'
<1>1. CASE Dequeue
  <2>1. /\ pc = "loop" /\ pc' = "dequeued" /\ UNCHANGED <<isEnqueued, buffer, event, target>>
        /\ queue \in Seq(Nodes) /\ queue # <<>> /\ held' = Head(queue) /\ queue' = Tail(queue)
    BY <1>1 DEF TsoInv, TsoTypeOK, Dequeue
  <2>2. PICK k \in Nat : k = Len(queue')
    BY <2>1, TailCell
  <2>3. /\ Len(queue) = k + 1 /\ queue' \in Seq(Nodes) /\ held' = queue[1] /\ queue[1] \in Nodes
        /\ \A i \in 1..k : queue'[i] = queue[i + 1]
    BY <2>1, <2>2, TailCell
  <2>4. \A m : Queued(m) => Queued(m)' \/ held' = m
    <3>1. \A i \in 1..k + 1 : i = 1 \/ i - 1 \in 1..k
      OBVIOUS
    <3>2. \A i \in 2..k + 1 : queue'[i - 1] = queue[i]
      BY <2>3
    <3> QED
      BY <2>2, <2>3, <3>1, <3>2 DEF Queued
  <2>5. TsoTypeOK'
    BY <2>1, <2>3 DEF TsoInv, TsoTypeOK
  <2>6. BufferKept' /\ ClaimsPending' /\ WokenIsPolled'
    BY <2>1, <2>4 DEF TsoInv, BufferKept, ClaimsPending, WokenIsPolled
  <2> QED
    BY <2>5, <2>6 DEF TsoInv
<1>2. CASE IntoInner
  <2>1. /\ pc = "dequeued" /\ pc' = "poll" /\ buffer = <<>> /\ buffer' = <<held>>
        /\ UNCHANGED <<queue, isEnqueued, event, held, target>>
    BY <1>2 DEF TsoInv, BufferKept, IntoInner
  <2> QED
    BY <2>1 DEF TsoInv, TsoTypeOK, BufferKept, ClaimsPending, WokenIsPolled, Queued
<1>3. CASE Drain
  <2>1. /\ pc = "poll" /\ Head(buffer) = held /\ buffer' = <<>> /\ held \in Nodes
        /\ UNCHANGED <<queue, event, pc, held, target>>
        /\ isEnqueued' = [isEnqueued EXCEPT ![held] = FALSE]
    <3>1. pc = "poll" /\ buffer = <<held>> /\ held \in Nodes
      BY <1>3 DEF TsoInv, TsoTypeOK, BufferKept, Drain
    <3>2. Head(<<held>>) = held /\ Tail(<<held>>) = <<>>
      OBVIOUS
    <3> QED
      BY <1>3, <3>1, <3>2 DEF Drain
  <2> QED
    BY <2>1 DEF TsoInv, TsoTypeOK, BufferKept, ClaimsPending, WokenIsPolled, Queued
<1>4. CASE PollTask
  <2>1. /\ pc = "poll" /\ buffer = <<>> /\ pc' = "check"
        /\ UNCHANGED <<queue, isEnqueued, buffer, event, held, target>>
    BY <1>4 DEF PollTask
  <2> QED
    BY <2>1 DEF TsoInv, TsoTypeOK, BufferKept, ClaimsPending, WokenIsPolled, Queued
<1>5. CASE PollPending
  <2>1. /\ pc = "check" /\ ~event[held] /\ pc' = "loop" /\ held' = Null
        /\ UNCHANGED <<queue, isEnqueued, buffer, event, target>>
    BY <1>5 DEF PollPending
  <2> QED
    BY <2>1 DEF TsoInv, TsoTypeOK, BufferKept, ClaimsPending, WokenIsPolled, Queued
<1>6. CASE PollReady
  <2>1. /\ pc = "check" /\ pc' = "again" /\ held \in Nodes
        /\ event' = [event EXCEPT ![held] = FALSE]
        /\ UNCHANGED <<queue, isEnqueued, buffer, held, target>>
    BY <1>6 DEF TsoInv, TsoTypeOK, PollReady
  <2> QED
    BY <2>1 DEF TsoInv, TsoTypeOK, BufferKept, ClaimsPending, WokenIsPolled, Queued
<1>7. CASE Reenqueue
  <2>1. /\ pc = "again" /\ pc' = "loop" /\ held \in Nodes /\ held' = Null /\ buffer = <<>>
        /\ Enqueue(held) /\ UNCHANGED <<buffer, event, target>>
    BY <1>7 DEF TsoInv, TsoTypeOK, Reenqueue
  <2>2. TsoTypeOK' /\ BufferKept'
    BY <2>1, EnqueueAdds DEF TsoInv, TsoTypeOK, BufferKept
  <2>3. ClaimsPending' /\ WokenIsPolled'
    BY <2>1, EnqueueAdds DEF TsoInv, ClaimsPending, WokenIsPolled
  <2> QED
    BY <2>2, <2>3 DEF TsoInv
<1> QED
  BY <1>1, <1>2, <1>3, <1>4, <1>5, <1>6, <1>7

\* A processor with the store order of x86-64 loses no wakeup if each poll
\* drains the store buffer before it reads the event.
THEOREM DrainedPollsMissNothing ==
  ASSUME PollsWithRmw = TRUE
  PROVE  Spec => []WokenIsPolled
<1>1. Init => TsoInv
  BY EmptySeq DEF Init, TsoInv, TsoTypeOK, BufferKept, ClaimsPending, WokenIsPolled, Queued
<1>2. TsoInv /\ [Next]_vars => TsoInv'
  <2> SUFFICES ASSUME TsoInv, [Next]_vars PROVE TsoInv'
    OBVIOUS
  <2>1. CASE UNCHANGED vars
    BY <2>1 DEF vars, TsoInv, TsoTypeOK, BufferKept, ClaimsPending, WokenIsPolled, Queued
  <2> QED
    BY <2>1, ThreadStep, ReceiverStep, TsoAssumption DEF Next
<1>3. TsoInv => WokenIsPolled
  BY DEF TsoInv
<1> QED
  BY <1>1, <1>2, <1>3, PTL DEF Spec
=============================================================================
