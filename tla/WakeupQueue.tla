---------------------------- MODULE WakeupQueue ----------------------------
(***************************************************************************)
(* What src/queue.rs promises to the selector: a FIFO queue of nodes with  *)
(* many producers and one receiver, in which a node is present at most     *)
(* once and whose producers wake the receiver's task.                      *)
(*                                                                         *)
(* This is the abstract specification.  The queue is a plain sequence and  *)
(* there are no pointers, no stub and no retries: MpscQueue, the atomic    *)
(* accesses of the code, is shown to implement it, and Selector is built   *)
(* on top of its actions.                                                  *)
(***************************************************************************)
EXTENDS Naturals, Sequences

CONSTANTS
  Nodes,      \* the nodes created by Queue::create
  Producers,  \* whoever may call enqueue: threads holding a waker or an Id
  Null        \* the null pointer

ASSUME NullAssumption == Null \notin Nodes

VARIABLES
  queue,       \* the nodes in the queue, oldest first
  isEnqueued,  \* Node::is_enqueued, the claim on a node
  stage,       \* how far each producer's enqueue has got
  node,        \* the node each producer is enqueueing
  phase,       \* what the receiver's task is doing
  held,        \* the node it dequeued and still works on
  marker,      \* the snapshot marker of the current drain
  waker,       \* whether the AtomicWaker holds the receiver's waker
  notified,    \* whether the receiver's task has been woken and not yet run
  open,        \* whether the Queue allocation is still alive
  raced        \* whether an enqueue was between its append and its link at
               \* some point of the dequeue being run

vars == <<queue, isEnqueued, stage, node, phase, held, marker, waker,
          notified, open, raced>>

producerVars == <<stage, node>>
receiverVars == <<phase, held, marker>>

Stages == {"idle", "claimed", "appended", "linked"}

(***************************************************************************)
(* "ready": the caller got a value (or has not polled yet) and will poll   *)
(* again.  "parked": the poll returned Pending, only a wakeup guarantees   *)
(* another one.  The others are points inside a poll.                      *)
(***************************************************************************)
Phases ==
  {"ready", "parked", "snapshot", "drain", "hold", "serving", "dropped"}

\* An enqueue whose node is in the queue but not yet reachable from it.
Racing == \E p \in Producers : stage[p] = "appended"

TrackRace ==
  raced' = (phase' = "drain" /\ (Racing' \/ (phase = "drain" /\ raced)))

LastQueued == IF queue = <<>> THEN Null ELSE queue[Len(queue)]

Init ==
  /\ queue = <<>>
  /\ isEnqueued = [n \in Nodes |-> FALSE]
  /\ stage = [p \in Producers |-> "idle"]
  /\ node = [p \in Producers |-> Null]
  /\ phase = "ready" /\ held = Null /\ marker = Null
  /\ waker = FALSE /\ notified = FALSE
  /\ open = TRUE
  /\ raced = FALSE

----------------------------------------------------------------------------
(* Producers *)

\* The first enqueue since the node was last recovered wins; later ones
\* return at once.
Claim(p, n) ==
  /\ stage[p] = "idle"
  /\ isEnqueued' = [isEnqueued EXCEPT ![n] = TRUE]
  /\ IF isEnqueued[n]
     THEN UNCHANGED producerVars
     ELSE /\ stage' = [stage EXCEPT ![p] = "claimed"]
          /\ node' = [node EXCEPT ![p] = n]
  /\ UNCHANGED <<queue, receiverVars, waker, notified, open>>
  /\ TrackRace

\* The queue is gone: the claim stays, the node is not enqueued.
Abandon(p) ==
  /\ stage[p] = "claimed"
  /\ ~open
  /\ stage' = [stage EXCEPT ![p] = "idle"]
  /\ node' = [node EXCEPT ![p] = Null]
  /\ UNCHANGED <<queue, isEnqueued, receiverVars, waker, notified, open>>
  /\ TrackRace

\* Mutant: a stack instead of a queue.
AddFirst(p) ==
  /\ stage[p] = "claimed"
  /\ open
  /\ stage' = [stage EXCEPT ![p] = "appended"]
  /\ queue' = <<node[p]>> \o queue
  /\ UNCHANGED <<isEnqueued, node, receiverVars, waker, notified, open>>
  /\ TrackRace

Add(p) ==
  /\ stage[p] = "claimed"
  /\ open
  /\ stage' = [stage EXCEPT ![p] = "appended"]
  /\ queue' = Append(queue, node[p])
  /\ UNCHANGED <<isEnqueued, node, receiverVars, waker, notified, open>>
  /\ TrackRace

\* Mutant: does not wake the receiver of a queue that was not empty.
LinkQuietly(p) ==
  /\ stage[p] = "appended"
  /\ IF Len(queue) > 1
     THEN /\ stage' = [stage EXCEPT ![p] = "idle"]
          /\ node' = [node EXCEPT ![p] = Null]
     ELSE /\ stage' = [stage EXCEPT ![p] = "linked"]
          /\ UNCHANGED node
  /\ UNCHANGED <<queue, isEnqueued, receiverVars, waker, notified, open>>
  /\ TrackRace

Link(p) ==
  /\ stage[p] = "appended"
  /\ stage' = [stage EXCEPT ![p] = "linked"]
  /\ UNCHANGED <<queue, isEnqueued, node, receiverVars, waker, notified, open>>
  /\ TrackRace

\* Takes the registered waker, if there is one, and wakes its task.
Wake(p) ==
  /\ stage[p] = "linked"
  /\ stage' = [stage EXCEPT ![p] = "idle"]
  /\ node' = [node EXCEPT ![p] = Null]
  /\ notified' = (notified \/ waker)
  /\ waker' = FALSE
  /\ UNCHANGED <<queue, isEnqueued, receiverVars, open>>
  /\ TrackRace

Produce(p) == Abandon(p) \/ Add(p) \/ Link(p) \/ Wake(p)

----------------------------------------------------------------------------
(* The receiver *)

\* Mutant: relies on the registration of an earlier poll.
RegisterSleeper ==
  /\ phase \in {"ready", "parked"}
  /\ phase' = "snapshot"
  /\ waker' = (waker \/ phase = "parked")
  /\ notified' = FALSE
  /\ UNCHANGED <<queue, isEnqueued, producerVars, held, marker, open>>
  /\ TrackRace

\* register_waker, first half: from here on every finished enqueue wakes us.
Register ==
  /\ phase \in {"ready", "parked"}
  /\ phase' = "snapshot"
  /\ waker' = TRUE
  /\ notified' = FALSE
  /\ UNCHANGED <<queue, isEnqueued, producerVars, held, marker, open>>
  /\ TrackRace

\* register_waker, second half: the marker is the youngest node in the queue.
Snapshot ==
  /\ phase = "snapshot"
  /\ marker' = LastQueued
  /\ phase' = IF queue = <<>> THEN "parked" ELSE "drain"
  /\ UNCHANGED <<queue, isEnqueued, producerVars, held, waker, notified, open>>
  /\ TrackRace

\* dequeue may also be called without a marker, as the queue's tests do.
StartDrain ==
  /\ phase = "ready"
  /\ phase' = "drain"
  /\ UNCHANGED <<queue, isEnqueued, producerVars, held, marker, waker,
                 notified, open>>
  /\ TrackRace

Take ==
  /\ phase = "drain"
  /\ queue # <<>>
  /\ held' = Head(queue)
  /\ queue' = Tail(queue)
  /\ phase' = "hold"
  /\ UNCHANGED <<isEnqueued, producerVars, marker, waker, notified, open>>
  /\ TrackRace

\* Mutant: gives up whenever it likes.
TakeNothingEver ==
  /\ phase = "drain"
  /\ phase' = IF marker = Null THEN "ready" ELSE "parked"
  /\ marker' = Null
  /\ UNCHANGED <<queue, isEnqueued, producerVars, held, waker, notified, open>>
  /\ TrackRace

\* "Returns None if the queue is empty or the queue is short and there is an
\* enqueue race": nothing else may make dequeue come back empty-handed.
TakeNothing ==
  /\ phase = "drain"
  /\ queue = <<>> \/ raced
  /\ phase' = IF marker = Null THEN "ready" ELSE "parked"
  /\ marker' = Null
  /\ UNCHANGED <<queue, isEnqueued, producerVars, held, waker, notified, open>>
  /\ TrackRace

\* Dequeued::into_inner: the node may be enqueued again from now on.
Recover ==
  /\ phase = "hold"
  /\ isEnqueued' = [isEnqueued EXCEPT ![held] = FALSE]
  /\ phase' = "serving"
  /\ UNCHANGED <<queue, producerVars, held, marker, waker, notified, open>>
  /\ TrackRace

\* The loop around dequeue ends at the marker, or when the caller returns.
EndRound(early) ==
  /\ held' = Null
  /\ phase' = CASE early           -> "ready"
                [] ~early /\ held = marker -> "parked"
                [] OTHER           -> "drain"
  /\ marker' = IF early \/ held = marker THEN Null ELSE marker

\* Dequeued dropped without into_inner: the node can never be enqueued again.
Discard ==
  /\ phase = "hold"
  /\ EndRound(FALSE)
  /\ UNCHANGED <<queue, isEnqueued, producerVars, waker, notified, open>>
  /\ TrackRace

Finish(early) ==
  /\ phase = "serving"
  /\ EndRound(early)
  /\ UNCHANGED <<queue, isEnqueued, producerVars, waker, notified, open>>
  /\ TrackRace

\* The Queue lives on while a producer is in the middle of an enqueue.
DropReceiver ==
  /\ phase \in {"ready", "parked"}
  /\ phase' = "dropped"
  /\ open' \in BOOLEAN
  /\ ~open' => \A p \in Producers : stage[p] \notin {"appended", "linked"}
  /\ UNCHANGED <<queue, isEnqueued, producerVars, held, marker, waker, notified>>
  /\ TrackRace

Close ==
  /\ phase = "dropped"
  /\ open
  /\ \A p \in Producers : stage[p] \notin {"appended", "linked"}
  /\ open' = FALSE
  /\ UNCHANGED <<queue, isEnqueued, producerVars, receiverVars, waker, notified>>
  /\ TrackRace

\* Queue::drop gives up the queue's reference to each node it still holds.
DropNode ==
  /\ ~open
  /\ queue # <<>>
  /\ queue' = Tail(queue)
  /\ UNCHANGED <<isEnqueued, producerVars, receiverVars, waker, notified, open>>
  /\ TrackRace

Receive ==
  \/ Snapshot \/ Take \/ TakeNothing \/ Recover \/ Discard
  \/ \E early \in BOOLEAN : Finish(early)

Next ==
  \/ \E p \in Producers : Produce(p) \/ \E n \in Nodes : Claim(p, n)
  \/ Register \/ StartDrain \/ Receive
  \/ DropReceiver \/ Close \/ DropNode

Spec == Init /\ [][Next]_vars

----------------------------------------------------------------------------
(* The inductive invariant of the queue, part by part *)

Queued(n) == \E i \in 1..Len(queue) : queue[i] = n

\* A producer that has yet to take the waker owes the receiver a wakeup.
Owing(p) == stage[p] \in {"appended", "linked"}

QueueTypeOK ==
  /\ queue \in Seq(Nodes)
  /\ isEnqueued \in [Nodes -> BOOLEAN]
  /\ stage \in [Producers -> Stages]
  /\ node \in [Producers -> Nodes \cup {Null}]
  /\ phase \in Phases
  /\ held \in Nodes \cup {Null}
  /\ marker \in Nodes \cup {Null}
  /\ waker \in BOOLEAN
  /\ notified \in BOOLEAN
  /\ open \in BOOLEAN
  /\ raced \in BOOLEAN

\* A node is in one place: in the queue, with its claimant, or in the hands
\* of the receiver until it is recovered.
NodesApart ==
  /\ \A i, j \in 1..Len(queue) : queue[i] = queue[j] => i = j
  /\ \A n \in Nodes : Queued(n) => isEnqueued[n]
  /\ \A p \in Producers : stage[p] = "claimed" =>
       /\ node[p] \in Nodes
       /\ isEnqueued[node[p]]
       /\ ~Queued(node[p])
       /\ phase = "hold" => held # node[p]
  /\ \A p, q \in Producers :
       stage[p] = "claimed" /\ stage[q] = "claimed" /\ node[p] = node[q] => p = q
  /\ \A p \in Producers : stage[p] # "idle" <=> node[p] # Null
  /\ IF phase \in {"hold", "serving"} THEN held \in Nodes ELSE held = Null
  /\ phase = "hold" => isEnqueued[held] /\ ~Queued(held)
  /\ ~open => phase = "dropped"

\* The marker of a drain is ahead of it, or the node being worked on.
MarkerKept ==
  IF phase \in {"drain", "hold", "serving"}
  THEN marker # Null => Queued(marker) \/ held = marker
  ELSE marker = Null

\* The node at place j entered the queue after the marker was taken.
BehindMarker(j) ==
  held = marker \/ \E i \in 1..Len(queue) : i < j /\ queue[i] = marker

\* While the waker of this poll is unused, what entered the queue after the
\* marker is in the hands of a producer that will use it.
SleepKept ==
  /\ phase = "parked" /\ queue # <<>> => notified \/ \E p \in Producers : Owing(p)
  /\ phase \in {"snapshot", "parked"} \/ marker # Null => waker \/ notified
  /\ waker /\ marker # Null =>
       \A j \in 1..Len(queue) : BehindMarker(j) =>
         \E p \in Producers : Owing(p) /\ node[p] = queue[j]
  /\ phase = "drain" /\ raced /\ waker => \E p \in Producers : Owing(p)

QueueInv == QueueTypeOK /\ NodesApart /\ MarkerKept /\ SleepKept
=============================================================================
