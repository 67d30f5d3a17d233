---------------------------- MODULE MpscQueueInv ----------------------------
(***************************************************************************)
(* The properties of MpscQueue, and the inductive invariant behind them.   *)
(* MCMpscQueue checks them with TLC, MpscQueueProofs proves the safety     *)
(* ones for any sets of nodes and producers.                               *)
(***************************************************************************)
EXTENDS MpscQueue

\* Every variable has its type: a pointer is a cell or null.  The stub is
\* never dequeued (the debug_assert of dequeue) and never a marker.
TypeOK ==
  /\ head \in Cells
  /\ tail \in Cells \cup {Null}
  /\ next \in [Cells -> Cells \cup {Null}]
  /\ isEnqueued \in [Nodes -> BOOLEAN]
  /\ stubPredecessor \in Cells \cup {Null}
  /\ pc \in [Producers -> PCs]
  /\ node \in [Producers -> Nodes \cup {Null}]
  /\ prev \in [Producers -> Cells \cup {Null}]
  /\ rpc \in RPCs
  /\ held \in Nodes \cup {Null}
  /\ marker \in Nodes \cup {Null}
  /\ waker \in BOOLEAN
  /\ notified \in BOOLEAN
  /\ life \in {"alive", "dropping", "freed"}
  /\ chain \in Seq(Cells)
  /\ raced \in BOOLEAN

InChain(c) == \E i \in 1..Len(chain) : chain[i] = c

----------------------------------------------------------------------------
(* The inductive invariant of the pointer structure, part by part *)

\* The producer has won the claim on its node and not yet swapped it in.
Claiming(p) == pc[p] \in {"upgrade", "clear", "swap"}

\* An operation has swapped b in after a, and not yet linked a to it.
Linking(a, b) ==
  \/ \E p \in Producers : pc[p] = "link" /\ prev[p] = a /\ node[p] = b
  \/ rpc = "link" /\ stubPredecessor = a /\ b = Stub

\* tail and head are the ends of the chain; it is empty only after the drop.
ChainEnds ==
  /\ life = "alive" => chain # <<>>
  /\ IF chain = <<>> THEN tail = Null
     ELSE tail = chain[1] /\ head = chain[Len(chain)]

ChainDistinct ==
  \A i, j \in 1..Len(chain) : chain[i] = chain[j] => i = j

\* Each cell points to the one swapped in after it, or someone is about to
\* make it do so; the youngest one points nowhere.
ChainLinked ==
  \A i \in 1..Len(chain) :
    \/ i < Len(chain) /\ next[chain[i]] = chain[i + 1]
    \/ /\ next[chain[i]] = Null
       /\ i < Len(chain) => Linking(chain[i], chain[i + 1])

\* Whoever is about to link finds both cells side by side in the chain.
LinkPending ==
  \A a, b \in Cells : Linking(a, b) =>
    \E i \in 1..Len(chain) :
      /\ i < Len(chain) /\ chain[i] = a /\ chain[i + 1] = b
      /\ next[a] = Null

\* No two producers link the same node.
LinkExclusive ==
  \A p, q \in Producers :
    pc[p] = "link" /\ pc[q] = "link" /\ node[p] = node[q] => p = q

\* A claimed node belongs to its claimant alone.
ClaimExclusive ==
  /\ \A p \in Producers : Claiming(p) =>
       /\ node[p] \in Nodes
       /\ isEnqueued[node[p]]
       /\ ~InChain(node[p])
       /\ rpc = "hold" => held # node[p]
       /\ pc[p] = "swap" => next[node[p]] = Null
  /\ \A p, q \in Producers :
       Claiming(p) /\ Claiming(q) /\ node[p] = node[q] => p = q

ProducerLocals ==
  \A p \in Producers :
    /\ pc[p] # "idle" <=> node[p] # Null
    /\ pc[p] = "link" <=> prev[p] # Null

\* The dequeued node is out of the chain and cannot be claimed until it is
\* recovered; the queued ones cannot be claimed either.
HeldExclusive ==
  /\ \A n \in Nodes : InChain(n) => isEnqueued[n]
  /\ IF rpc \in {"hold", "serving"} THEN held \in Nodes ELSE held = Null
  /\ rpc = "hold" => isEnqueued[held] /\ ~InChain(held)

\* The stub goes back in only while it is out, and remembers its predecessor.
StubPlace ==
  /\ rpc \in DequeuePCs => tail # Stub
  /\ rpc \in {"clear", "swap"} => ~InChain(Stub)
  /\ rpc = "compare" /\ tail = head => ~InChain(Stub)
  /\ rpc = "swap" => next[Stub] = Null
  /\ rpc = "link" => stubPredecessor # Null
  /\ rpc = "reload" => InChain(Stub)
  /\ \A i \in 1..Len(chain) :
       i > 1 /\ chain[i] = Stub => stubPredecessor = chain[i - 1]

Lifetime ==
  /\ \A p \in Producers : KeepsQueue(p) => life = "alive"
  /\ life # "alive" => rpc = "dropped"
  /\ life = "freed" => chain = <<>>

\* The marker of a drain is a node still to be dequeued in it, or the one
\* being worked on.
MarkerAhead ==
  IF rpc \in {"drain", "hold", "serving"} \cup DequeuePCs
  THEN marker # Null =>
         /\ marker \in Nodes
         /\ InChain(marker) \/ (rpc \in {"hold", "serving"} /\ held = marker)
  ELSE marker = Null

StructInv ==
  /\ TypeOK /\ ChainEnds /\ ChainDistinct /\ ChainLinked /\ LinkPending
  /\ LinkExclusive /\ ClaimExclusive /\ ProducerLocals /\ HeldExclusive /\ StubPlace
  /\ Lifetime /\ MarkerAhead

----------------------------------------------------------------------------
(* Wakeups *)

\* A producer that has yet to take the waker owes the receiver a wakeup.
Owes(p) == pc[p] \in {"link", "wake"}

HasNode == \E n \in Nodes : InChain(n)

\* A receiver that returned Pending is not left asleep while a node is in
\* the queue: it was woken, or the enqueue that will wake it is still going
\* on.  register_waker registers before it loads head, and enqueue_inner
\* links before it wakes; a dequeue that gives up because of a race gives up
\* after that registration.
NoLostWakeup ==
  rpc = "parked" /\ HasNode => notified \/ \E p \in Producers : Owes(p)

(* The inductive strengthening of NoLostWakeup *)

\* From the registration to the end of the drain it started, the waker is
\* in its cell or has been used.
Registered ==
  rpc \in {"snapshot", "parked"} \/ marker # Null => waker \/ notified

\* Swapped in after the node that was the marker, when it was the marker.
PastMarker(c) ==
  \/ held = marker
  \/ \E i, j \in 1..Len(chain) : i < j /\ chain[i] = marker /\ chain[j] = c

\* While the waker is untouched, nodes that this drain will not reach are
\* still in the hands of their producers.
LateNodesOwed ==
  waker /\ marker # Null =>
    \A n \in Nodes : InChain(n) /\ PastMarker(n) =>
      \E p \in Producers : Owes(p) /\ node[p] = n

\* A producer that swapped between the two loads of dequeue has yet to wake.
RacersOwe ==
  rpc = "compare" /\ waker /\ tail # head => \E p \in Producers : Owes(p)

WakeInv == NoLostWakeup /\ Registered /\ LateNodesOwed /\ RacersOwe

\* The history variable raced says what happened to this dequeue.
RaceKnown ==
  /\ InDequeue /\ Racing => raced
  /\ raced => InDequeue
  /\ rpc = "compare" /\ tail # head => raced

\* The inductive invariant: the chain of pointers, the claims on the nodes
\* and the wakeups owed fit together in every state.
IInv == StructInv /\ WakeInv /\ RaceKnown

----------------------------------------------------------------------------
(* What dequeue and drop promise *)

\* dequeue returns None only if the queue was empty or an enqueue was in
\* progress at some point of the call (the doc comment of dequeue).
ReturnsNone == InDequeue /\ rpc' \in {"ready", "parked"}

NoneJustified == [][ReturnsNone => ~HasNode \/ raced \/ Racing]_vars

\* Queue::drop releases every node: the nodes the freed queue forgets would
\* be leaked with the tasks in them.
DropReleasesAll == life = "freed" => ~HasNode /\ tail = Null

\* A fully enqueued node is eventually dequeued, or released by the drop.
EventuallyDequeued == \A n \in Nodes : InChain(n) ~> ~InChain(n)

----------------------------------------------------------------------------
(* MpscQueue implements WakeupQueue *)

StageOf(c) ==
  CASE c \in {"upgrade", "clear", "swap"} -> "claimed"
    [] c = "link"                         -> "appended"
    [] c = "wake"                         -> "linked"
    [] OTHER                              -> "idle"

\* The place of the stub in the chain, or the one after its end.
StubAt ==
  IF InChain(Stub) THEN CHOOSE i \in 1..Len(chain) : chain[i] = Stub
  ELSE Len(chain) + 1

\* The chain without the stub.
AbsLen == IF InChain(Stub) THEN Len(chain) - 1 ELSE Len(chain)
AbsQueue ==
  [i \in 1..AbsLen |-> IF i < StubAt THEN chain[i] ELSE chain[i + 1]]

AbsStage == [p \in Producers |-> StageOf(pc[p])]
AbsNode ==
  [p \in Producers |-> IF pc[p] = "release" THEN Null ELSE node[p]]
AbsPhase == IF InDequeue THEN "drain" ELSE rpc
AbsOpen == life = "alive"

Abstract ==
  INSTANCE WakeupQueue WITH
    queue <- AbsQueue,
    stage <- AbsStage,
    node  <- AbsNode,
    phase <- AbsPhase,
    open  <- AbsOpen

\* The pointers, the stub and the retries implement a plain FIFO queue:
\* nodes come out in the order of the head swaps, none twice, none lost.
ImplementsWakeupQueue == Abstract!Spec
=============================================================================
