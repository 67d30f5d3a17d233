--------------------------- MODULE NodeLifetimeInv ---------------------------
(***************************************************************************)
(* The properties of NodeLifetime and their inductive invariant.           *)
(***************************************************************************)
EXTENDS NodeLifetime

B(b) == IF b THEN 1 ELSE 0

\* A call of enqueue has a reference of its own, or one lent to it.
InCall(n) == \E p \in Producers : via[p] \in {"own", "lent"} /\ node[p] = n

\* The receiver has it, as a Dequeued or after into_inner.
Received(n) == held = n /\ (rpc = "hold" \/ HasLocal(n))

Count(n) ==
  B(n \in linked) + B(n \in removed) + B(InChain(n)) + B(Received(n))
    + B(InCall(n)) + refs[n]

\* Every owner of a reference counts once, and nothing else does: one too few
\* frees a node that is still in the chain, one too many leaks it.
CountsRight == \A n \in Nodes : strong[n] = Count(n)

----------------------------------------------------------------------------

LifeTypeOK ==
  /\ strong \in [Nodes -> Nat] /\ refs \in [Nodes -> Nat]
  /\ created \subseteq Nodes /\ linked \subseteq created /\ removed \subseteq created
  /\ linked \cap removed = {}
  /\ via \in [Producers -> Vias]
  /\ local \in BOOLEAN

\* How a call refers to its node, step by step of the call.
ViaKnown ==
  \A p \in Producers :
    /\ pc[p] = "upgrade" => via[p] # "none"
    /\ pc[p] \in {"clear", "swap"} => via[p] = "own"
    /\ ~Claiming(p) => via[p] = "none"
    /\ via[p] = "ref" => p = Owner /\ InReach(node[p])

\* The task being polled is in the list, if its node has been given away, and
\* the owner's thread does one thing at a time.
OwnerPlace ==
  /\ Polling => local \/ held \in linked
  /\ local => Polling
  /\ ~OwnerFree => rpc \in {"ready", "parked", "serving", "dropped"}

\* The nodes not created yet are not referred to.
Uncreated ==
  \A n \in Nodes : n \notin created => strong[n] = 0 /\ ~isEnqueued[n]

LifeInv == LifeTypeOK /\ ViaKnown /\ OwnerPlace /\ CountsRight /\ Uncreated

----------------------------------------------------------------------------

\* The memory is there: the node's, or for the stub that of the queue.
Alive(c) == IF c = Stub THEN life # "freed" ELSE strong[c] > 0

\* No access through a raw pointer, now or later in an operation that has
\* begun, meets freed memory: not the old head that a producer is about to
\* link, not the cells that dequeue and Queue::drop walk over, not the cached
\* predecessor of the stub, not the node under the AccessGuard or the waker
\* of a poll; and the marker's address is not that of a freed node, which
\* another one could get.
NoDangling ==
  /\ \A p \in Producers :
       /\ Claiming(p) => Alive(node[p])
       /\ pc[p] = "link" => Alive(prev[p])
  /\ InDequeue \/ life = "dropping" => tail = Null \/ Alive(tail)
  /\ rpc = "link" => Alive(stubPredecessor)
  /\ rpc \in {"hold", "serving"} => Alive(held)
  /\ marker # Null => Alive(marker)
  /\ \A n \in linked \cup removed : Alive(n)

\* A node is freed for good.
StaysFreed ==
  [][\A n \in created : strong[n] = 0 => strong'[n] = 0]_allVars

\* A node does not outlive the selector, the Ids, the wakers and the Removed,
\* in whatever order they go and whatever was in the queue or on its way there.
FreedInTheEnd ==
  \A n \in Nodes :
    <>[](rpc = "dropped" /\ refs[n] = 0 /\ n \notin removed) => <>[](strong[n] = 0)
=============================================================================
