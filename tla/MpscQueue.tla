----------------------------- MODULE MpscQueue -----------------------------
(***************************************************************************)
(* src/queue.rs: the Vyukov-style intrusive MPSC queue of the selector, at *)
(* the grain of its accesses to shared memory.                             *)
(*                                                                         *)
(* Producers (threads that hold a Waker or an Id) enqueue nodes: they win  *)
(* the claim on the node, upgrade the weak pointer to the queue, swap the  *)
(* head, and only then link the previous head to the node.  Between the    *)
(* swap and the link the chain of next_enqueued pointers is broken.  The   *)
(* single receiver (the thread that owns the selector) registers its       *)
(* waker, takes a snapshot marker and dequeues; a stub node keeps the      *)
(* chain from ever being empty.                                            *)
(*                                                                         *)
(* The receiver follows the protocol of Selector::poll_next and of the     *)
(* queue's own tests.  An enqueue by the thread that owns the receiver is  *)
(* a producer's, run while the receiver takes no step.                     *)
(***************************************************************************)
EXTENDS Naturals, Sequences

CONSTANTS
  Nodes,      \* the nodes created by Queue::create
  Producers,  \* the threads that may call enqueue
  Stub,       \* the stub node embedded in the Queue
  Null        \* the null pointer

ASSUME CellsAssumption == Stub \notin Nodes /\ Null \notin Nodes \cup {Stub}

Cells == Nodes \cup {Stub}

VARIABLES
  head, tail,       \* Queue::head, Queue::tail
  next,             \* Node::next_enqueued of every node and of the stub
  isEnqueued,       \* Node::is_enqueued
  waker,            \* whether Queue::waker holds the receiver's waker
  stubPredecessor,  \* Receiver::stub_predecessor
  pc, node, prev,   \* each producer: program counter, its node, the old head
  rpc,              \* the receiver: program counter
  held,             \* the Dequeued it works on
  marker,           \* what register_waker returned to the current drain
  notified,         \* whether the receiver's task has been woken, not yet run
  life,             \* of the Queue allocation
  chain,            \* history: the cells from tail to head in swap order
  raced             \* history: an enqueue was between its swap and its link
                    \* at some point of the dequeue being run

queueVars == <<head, tail, next, chain>>
producerVars == <<pc, node, prev>>
receiverVars == <<rpc, held, marker, stubPredecessor>>
wakeVars == <<waker, notified>>
vars == <<queueVars, isEnqueued, producerVars, receiverVars, wakeVars, life,
          raced>>

PCs == {"idle", "upgrade", "clear", "swap", "link", "wake", "release"}

\* The steps of dequeue after its first load.
DequeuePCs == {"load", "compare", "clear", "swap", "link", "reload"}

RPCs == {"ready", "parked", "snapshot", "drain", "hold", "serving", "dropped"}
          \cup DequeuePCs

\* Producer p owns a strong reference to the Queue.
KeepsQueue(p) == pc[p] \in {"clear", "swap", "link", "wake", "release"}

\* Some producer is between its swap and its link.
Racing == \E p \in Producers : pc[p] = "link"

InDequeue == rpc \in {"drain"} \cup DequeuePCs

\* The history variable, updated by every step.
TrackRace == raced' = (InDequeue' /\ (Racing' \/ (InDequeue /\ raced)))

Init ==
  /\ head = Stub /\ tail = Stub
  /\ next = [c \in Cells |-> Null]
  /\ isEnqueued = [n \in Nodes |-> FALSE]
  /\ stubPredecessor = Null
  /\ pc = [p \in Producers |-> "idle"]
  /\ node = [p \in Producers |-> Null]
  /\ prev = [p \in Producers |-> Null]
  /\ rpc = "ready" /\ held = Null /\ marker = Null
  /\ waker = FALSE /\ notified = FALSE
  /\ life = "alive"
  /\ chain = <<Stub>>
  /\ raced = FALSE

----------------------------------------------------------------------------
(* Producers: Node::enqueue, Node::enqueue_by_ref, Queue::enqueue *)

\* Mutant: the result of the swap is ignored.
ClaimUnchecked(p, n) ==
  /\ pc[p] = "idle"
  /\ isEnqueued' = [isEnqueued EXCEPT ![n] = TRUE]
  /\ pc' = [pc EXCEPT ![p] = "upgrade"]
  /\ node' = [node EXCEPT ![p] = n]
  /\ UNCHANGED <<queueVars, prev, receiverVars, wakeVars, life>>
  /\ TrackRace

\* is_enqueued.swap(true); the loser of the race for the node returns.
Claim(p, n) ==
  /\ pc[p] = "idle"
  /\ isEnqueued' = [isEnqueued EXCEPT ![n] = TRUE]
  /\ IF isEnqueued[n]
     THEN UNCHANGED <<pc, node>>
     ELSE /\ pc' = [pc EXCEPT ![p] = "upgrade"]
          /\ node' = [node EXCEPT ![p] = n]
  /\ UNCHANGED <<queueVars, prev, receiverVars, wakeVars, life>>
  /\ TrackRace

\* self.queue.upgrade() fails once the last strong reference is gone.
Upgrade(p) ==
  /\ pc[p] = "upgrade"
  /\ IF life = "alive"
     THEN pc' = [pc EXCEPT ![p] = "clear"] /\ UNCHANGED node
     ELSE /\ pc' = [pc EXCEPT ![p] = "idle"]
          /\ node' = [node EXCEPT ![p] = Null]
  /\ UNCHANGED <<queueVars, isEnqueued, prev, receiverVars, wakeVars, life>>
  /\ TrackRace

\* enqueue_inner: node.next_enqueued.store(null)
ClearNext(p) ==
  /\ pc[p] = "clear"
  /\ next' = [next EXCEPT ![node[p]] = Null]
  /\ pc' = [pc EXCEPT ![p] = "swap"]
  /\ UNCHANGED <<head, tail, chain, isEnqueued, node, prev, receiverVars,
                 wakeVars, life>>
  /\ TrackRace

\* enqueue_inner: self.head.swap(node)
SwapHead(p) ==
  /\ pc[p] = "swap"
  /\ prev' = [prev EXCEPT ![p] = head]
  /\ head' = node[p]
  /\ chain' = Append(chain, node[p])
  /\ pc' = [pc EXCEPT ![p] = "link"]
  /\ UNCHANGED <<tail, next, isEnqueued, node, receiverVars, wakeVars, life>>
  /\ TrackRace

\* Mutant: returns without waking when the queue was not empty.
LinkPrevWakeFirstOnly(p) ==
  /\ pc[p] = "link"
  /\ next' = [next EXCEPT ![prev[p]] = node[p]]
  /\ prev' = [prev EXCEPT ![p] = Null]
  /\ pc' = [pc EXCEPT ![p] = IF prev[p] = Stub THEN "wake" ELSE "release"]
  /\ UNCHANGED <<head, tail, chain, isEnqueued, node, receiverVars, wakeVars,
                 life>>
  /\ TrackRace

\* enqueue_inner: head.next_enqueued.store(node), on the previous head
LinkPrev(p) ==
  /\ pc[p] = "link"
  /\ next' = [next EXCEPT ![prev[p]] = node[p]]
  /\ prev' = [prev EXCEPT ![p] = Null]
  /\ pc' = [pc EXCEPT ![p] = "wake"]
  /\ UNCHANGED <<head, tail, chain, isEnqueued, node, receiverVars, wakeVars,
                 life>>
  /\ TrackRace

\* Mutant: wakes only a receiver that already sleeps.
WakeSleeper(p) ==
  /\ pc[p] = "wake"
  /\ notified' = (notified \/ (waker /\ rpc = "parked"))
  /\ waker' = (waker /\ rpc # "parked")
  /\ pc' = [pc EXCEPT ![p] = "release"]
  /\ UNCHANGED <<queueVars, isEnqueued, node, prev, receiverVars, life>>
  /\ TrackRace

\* AtomicWaker::wake: take the registered waker, if any, and wake its task.
Wake(p) ==
  /\ pc[p] = "wake"
  /\ notified' = (notified \/ waker)
  /\ waker' = FALSE
  /\ pc' = [pc EXCEPT ![p] = "release"]
  /\ UNCHANGED <<queueVars, isEnqueued, node, prev, receiverVars, life>>
  /\ TrackRace

\* Drop of the upgraded Arc<Queue>; the last one out runs Queue::drop.
Release(p) ==
  /\ pc[p] = "release"
  /\ pc' = [pc EXCEPT ![p] = "idle"]
  /\ node' = [node EXCEPT ![p] = Null]
  /\ life' = IF rpc = "dropped" /\ \A q \in Producers \ {p} : ~KeepsQueue(q)
             THEN "dropping" ELSE life
  /\ UNCHANGED <<queueVars, isEnqueued, prev, receiverVars, wakeVars>>
  /\ TrackRace

Produce(p) ==
  \/ Upgrade(p) \/ ClearNext(p) \/ SwapHead(p) \/ LinkPrev(p) \/ Wake(p)
  \/ Release(p)

----------------------------------------------------------------------------
(* The receiver: register_waker *)

\* The executor runs the task, which polls: AtomicWaker::register.
Register ==
  /\ rpc \in {"ready", "parked"}
  /\ rpc' = "snapshot"
  /\ waker' = TRUE
  /\ notified' = FALSE
  /\ UNCHANGED <<queueVars, isEnqueued, producerVars, held, marker,
                 stubPredecessor, life>>
  /\ TrackRace

\* Mutant: trusts stub_predecessor even when the stub is all there is.
MarkerOfStale == IF head # Stub THEN head ELSE stubPredecessor

\* One atomic load, of head; tail and stub_predecessor are the receiver's.
MarkerOf ==
  IF head # Stub THEN head ELSE IF tail = Stub THEN Null ELSE stubPredecessor

Snapshot ==
  /\ rpc = "snapshot"
  /\ marker' = MarkerOf
  /\ rpc' = IF marker' = Null THEN "parked" ELSE "drain"
  /\ UNCHANGED <<queueVars, isEnqueued, producerVars, held, stubPredecessor,
                 wakeVars, life>>
  /\ TrackRace

----------------------------------------------------------------------------
(* The receiver: dequeue *)

\* dequeue without a marker, as the queue's tests call it.
StartDrain ==
  /\ rpc = "ready"
  /\ rpc' = "drain"
  /\ UNCHANGED <<queueVars, isEnqueued, producerVars, held, marker,
                 stubPredecessor, wakeVars, life>>
  /\ TrackRace

\* None ends the round: poll_next returns Pending, the tests try again.
ReturnNone ==
  /\ rpc' = IF marker = Null THEN "ready" ELSE "parked"
  /\ marker' = Null
  /\ UNCHANGED <<queueVars, held, stubPredecessor>>

\* Some(Dequeued(tail)), with tail moved to its successor.
ReturnTail ==
  /\ held' = tail
  /\ tail' = next[tail]
  /\ chain' = Tail(chain)
  /\ rpc' = "hold"
  /\ UNCHANGED <<head, next, marker, stubPredecessor>>

\* tail is the stub: give up, or step over it.
SkipStub ==
  /\ rpc = "drain"
  /\ tail = Stub
  /\ IF next[tail] = Null
     THEN ReturnNone
     ELSE /\ tail' = next[tail]
          /\ chain' = Tail(chain)
          /\ rpc' = "load"
          /\ UNCHANGED <<head, next, held, marker, stubPredecessor>>
  /\ UNCHANGED <<isEnqueued, producerVars, wakeVars, life>>
  /\ TrackRace

\* Mutant: forgets to step over the stub.
LoadNextAnyTail ==
  /\ rpc \in {"drain", "load"}
  /\ IF next[tail] # Null
     THEN ReturnTail
     ELSE /\ rpc' = "compare"
          /\ UNCHANGED <<queueVars, held, marker, stubPredecessor>>
  /\ UNCHANGED <<isEnqueued, producerVars, wakeVars, life>>
  /\ TrackRace

\* tail is a node: return it if its successor is known.
LoadNext ==
  /\ rpc \in {"drain", "load"}
  /\ tail # Stub
  /\ IF next[tail] # Null
     THEN ReturnTail
     ELSE /\ rpc' = "compare"
          /\ UNCHANGED <<queueVars, held, marker, stubPredecessor>>
  /\ UNCHANGED <<isEnqueued, producerVars, wakeVars, life>>
  /\ TrackRace

\* Mutant: takes the missing successor for the end of the queue.
CompareHeadUnchecked ==
  /\ rpc = "compare"
  /\ rpc' = "clear"
  /\ UNCHANGED <<queueVars, held, marker, stubPredecessor>>
  /\ UNCHANGED <<isEnqueued, producerVars, wakeVars, life>>
  /\ TrackRace

\* No successor: either tail is the head, or an enqueue is in progress.
CompareHead ==
  /\ rpc = "compare"
  /\ IF tail # head
     THEN ReturnNone
     ELSE /\ rpc' = "clear"
          /\ UNCHANGED <<queueVars, held, marker, stubPredecessor>>
  /\ UNCHANGED <<isEnqueued, producerVars, wakeVars, life>>
  /\ TrackRace

ClearStub ==
  /\ rpc = "clear"
  /\ next' = [next EXCEPT ![Stub] = Null]
  /\ rpc' = "swap"
  /\ UNCHANGED <<head, tail, chain, isEnqueued, producerVars, held, marker,
                 stubPredecessor, wakeVars, life>>
  /\ TrackRace

SwapStub ==
  /\ rpc = "swap"
  /\ stubPredecessor' = head
  /\ head' = Stub
  /\ chain' = Append(chain, Stub)
  /\ rpc' = "link"
  /\ UNCHANGED <<tail, next, isEnqueued, producerVars, held, marker, wakeVars,
                 life>>
  /\ TrackRace

LinkStub ==
  /\ rpc = "link"
  /\ next' = [next EXCEPT ![stubPredecessor] = Stub]
  /\ rpc' = "reload"
  /\ UNCHANGED <<head, tail, chain, isEnqueued, producerVars, held, marker,
                 stubPredecessor, wakeVars, life>>
  /\ TrackRace

\* Mutant: leaves the last node to the next call.
ReloadNothing ==
  /\ rpc = "reload"
  /\ ReturnNone
  /\ UNCHANGED <<isEnqueued, producerVars, wakeVars, life>>
  /\ TrackRace

\* Still no successor: a producer got in between compare and swap.
ReloadNext ==
  /\ rpc = "reload"
  /\ IF next[tail] = Null THEN ReturnNone ELSE ReturnTail
  /\ UNCHANGED <<isEnqueued, producerVars, wakeVars, life>>
  /\ TrackRace

----------------------------------------------------------------------------
(* The receiver: what poll_next does with a Dequeued *)

\* Dequeued::into_inner
Recover ==
  /\ rpc = "hold"
  /\ isEnqueued' = [isEnqueued EXCEPT ![held] = FALSE]
  /\ rpc' = "serving"
  /\ UNCHANGED <<queueVars, producerVars, held, marker, stubPredecessor,
                 wakeVars, life>>
  /\ TrackRace

\* The loop ends at the marker or, early, when there is a value to return.
EndRound(early) ==
  /\ held' = Null
  /\ rpc' = IF early THEN "ready" ELSE IF held = marker THEN "parked" ELSE "drain"
  /\ marker' = IF early \/ held = marker THEN Null ELSE marker
  /\ UNCHANGED <<queueVars, isEnqueued, producerVars, stubPredecessor,
                 wakeVars, life>>
  /\ TrackRace

\* A removed task's node: the Dequeued is dropped, is_enqueued stays true.
Discard == rpc = "hold" /\ EndRound(FALSE)

Finish(early) == rpc = "serving" /\ EndRound(early)

----------------------------------------------------------------------------
(* Drop *)

DropReceiver ==
  /\ rpc \in {"ready", "parked"}
  /\ rpc' = "dropped"
  /\ life' = IF \E p \in Producers : KeepsQueue(p) THEN life ELSE "dropping"
  /\ UNCHANGED <<queueVars, isEnqueued, producerVars, held, marker,
                 stubPredecessor, wakeVars>>
  /\ TrackRace

\* Mutant: takes the stub for the end of the list.
DropCellToStub ==
  /\ life = "dropping"
  /\ tail # Null
  /\ tail' = IF tail = Stub THEN Null ELSE next[tail]
  /\ chain' = Tail(chain)
  /\ UNCHANGED <<head, next, isEnqueued, producerVars, receiverVars, wakeVars,
                 life>>
  /\ TrackRace

\* Queue::drop: walk from tail, releasing every cell but the stub.
DropCell ==
  /\ life = "dropping"
  /\ tail # Null
  /\ tail' = next[tail]
  /\ chain' = Tail(chain)
  /\ UNCHANGED <<head, next, isEnqueued, producerVars, receiverVars, wakeVars,
                 life>>
  /\ TrackRace

FreeQueue ==
  /\ life = "dropping"
  /\ tail = Null
  /\ life' = "freed"
  /\ UNCHANGED <<queueVars, isEnqueued, producerVars, receiverVars, wakeVars>>
  /\ TrackRace

----------------------------------------------------------------------------

\* What the receiver's thread does by itself once it is inside a poll.
Receive ==
  \/ Snapshot \/ SkipStub \/ LoadNext \/ CompareHead \/ ClearStub \/ SwapStub
  \/ LinkStub \/ ReloadNext \/ Recover \/ Discard
  \/ \E early \in BOOLEAN : Finish(early)

DropQueue == DropCell \/ FreeQueue

Next ==
  \/ \E p \in Producers : Produce(p) \/ \E n \in Nodes : Claim(p, n)
  \/ Register \/ StartDrain \/ Receive \/ DropReceiver \/ DropQueue

Spec == Init /\ [][Next]_vars

(***************************************************************************)
(* Threads inside an operation keep running, the executor polls a task     *)
(* that was woken, and a caller that got a value polls again.  Nothing     *)
(* makes a producer call enqueue, and nothing polls a parked receiver that *)
(* was not woken.                                                          *)
(***************************************************************************)
Fairness ==
  /\ \A p \in Producers : WF_vars(Produce(p))
  /\ WF_vars(Receive)
  /\ WF_vars(Register /\ (rpc = "ready" \/ notified))
  /\ WF_vars(DropQueue)

FairSpec == Spec /\ Fairness
=============================================================================
