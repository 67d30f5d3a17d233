------------------------- MODULE NodeLifetimeProofs -------------------------
(***************************************************************************)
(* Proofs, for any sets of nodes and producers and any bound on the Ids    *)
(* and wakers, that every reference of a node is counted once and that no  *)
(* access meets freed memory.  The queue is that of MpscQueue, step by     *)
(* step, so its invariant StructInv holds here too.                        *)
(***************************************************************************)
EXTENDS NodeLifetimeInv, MpscQueueProofs

USE LifetimeAssumption

\* The queue takes steps of MpscQueue, whatever is counted beside it.
LEMMA LifeNextIsNext == StructInv /\ LifeNext => [Next]_vars
<1> SUFFICES ASSUME StructInv, LifeNext PROVE [Next]_vars
  OBVIOUS
<1> USE DEF Next
<1>1. ASSUME NEW n \in Nodes,
             CloneRef(n) \/ DropRef(n) \/ Remove(n) \/ DropRemoved(n) \/ DropTask(n)
      PROVE  UNCHANGED vars
  BY <1>1 DEF CloneRef, DropRef, Remove, DropRemoved, DropTask
<1>2. ASSUME NEW n \in Nodes, OwnerWake(n) \/ Push(n) PROVE Next
  BY <1>2 DEF OwnerWake, Push
<1>3. ASSUME NEW p \in Producers, NEW n \in Nodes, WakeByRef(p, n) \/ WakeByValue(p, n)
      PROVE  Next
  BY <1>3 DEF WakeByRef, WakeByValue
<1>4. ASSUME NEW p \in Producers, ProduceCounted(p) PROVE Next
  BY <1>4 DEF ProduceCounted, UpgradeCounted, SwapCounted, Produce
<1>5. CASE ReceiveStep
  BY <1>5 DEF ReceiveStep, Receive
<1>6. CASE PollStep
  <2>1. CASE DiscardCounted \/ RecoverCounted
    BY <2>1 DEF DiscardCounted, RecoverCounted, Receive
  <2>2. CASE Reenqueue
    <3>1. held \in Nodes
      BY <2>2 DEF Reenqueue, HasLocal, Polling, StructInv, HeldExclusive
    <3> QED
      BY <2>2, <3>1 DEF Reenqueue
  <2>3. CASE Break
    BY <2>3 DEF Break
  <2>4. ASSUME NEW early \in BOOLEAN, FinishCounted(early) PROVE Next
    BY <2>4 DEF FinishCounted, Receive
  <2>5. CASE Panic
    BY <2>5 DEF Panic, Receive
  <2> QED
    BY <1>6, <2>1, <2>2, <2>3, <2>4, <2>5 DEF PollStep
<1>7. CASE DropSelector \/ DropCellCounted \/ FreeQueue
  BY <1>7 DEF DropSelector, DropCellCounted, DropQueue
<1>8. CASE Terminated
  BY <1>8 DEF Terminated, allVars
<1> QED
  BY <1>1, <1>2, <1>3, <1>4, <1>5, <1>6, <1>7, <1>8 DEF LifeNext

\* The chain of pointers is intact.
LEMMA LifeStructure == LifeSpec => []StructInv
<1>1. LifeInit => StructInv
  BY InitStruct DEF LifeInit
<1>2. StructInv /\ [LifeNext]_allVars => StructInv'
  BY LifeNextIsNext, NextStruct DEF allVars
<1> QED
  BY <1>1, <1>2, PTL DEF LifeSpec

\* The operations that count references, enqueue in its four forms and the
\* loop of poll_next among them, use the queue as MpscQueue allows, so all
\* that is proved of it holds here: no wakeup is lost, and it is a FIFO queue.
THEOREM LifeKeepsToQueue ==
  LifeSpec => Spec /\ []NoLostWakeup /\ ImplementsWakeupQueue
<1>1. LifeInit => Init
  BY DEF LifeInit
<1>2. StructInv /\ [LifeNext]_allVars => [Next]_vars
  BY LifeNextIsNext DEF allVars
<1>3. LifeSpec => Spec
  BY <1>1, <1>2, LifeStructure, PTL DEF LifeSpec, Spec
<1> QED
  BY <1>3, NoWakeupLost, Implements, PTL

----------------------------------------------------------------------------
(* What the counts say of one node *)

\* The references that node n has, piece by piece.
LEMMA CountParts ==
  ASSUME LifeInv, NEW n \in Nodes
  PROVE  /\ strong[n] \in Nat /\ refs[n] \in Nat
         /\ strong[n] = B(n \in linked) + B(n \in removed) + B(InChain(n))
                          + B(Received(n)) + B(InCall(n)) + refs[n]
<1> QED
  BY DEF LifeInv, LifeTypeOK, CountsRight, Count

\* Whoever has a reference keeps the node alive.
LEMMA Referred ==
  ASSUME LifeInv, NEW n \in Nodes,
         \/ n \in linked \/ n \in removed \/ InChain(n) \/ Received(n)
         \/ InCall(n) \/ refs[n] > 0
  PROVE  strong[n] > 0 /\ n \in created
<1>1. strong[n] > 0
  BY CountParts DEF B
<1> QED
  BY <1>1 DEF LifeInv, Uncreated

\* What the step leaves alone of node m.
SameOf(m) ==
  /\ strong'[m] = strong[m] /\ refs'[m] = refs[m]
  /\ m \in linked' <=> m \in linked
  /\ m \in removed' <=> m \in removed
  /\ InChain(m)' <=> InChain(m)
  /\ Received(m)' <=> Received(m)
  /\ InCall(m)' <=> InCall(m)

LEMMA SameCount ==
  ASSUME LifeInv, NEW m \in Nodes, SameOf(m)
  PROVE  strong'[m] = Count(m)'
<1> QED
  BY CountParts DEF SameOf, Count, B

\* A node that is not referred to: what an owner may say of a new one.
LEMMA Unreferred ==
  ASSUME LifeInv, NEW n \in Nodes, strong[n] = 0
  PROVE  /\ n \notin linked /\ n \notin removed /\ ~InChain(n)
         /\ ~Received(n) /\ ~InCall(n) /\ refs[n] = 0
<1> QED
  BY CountParts DEF B

\* The claim on a node gives at most one call a reference to it.
LEMMA OneCall ==
  ASSUME StructInv, LifeInv, NEW p \in Producers, via[p] # "none"
  PROVE  /\ node[p] \in Nodes /\ isEnqueued[node[p]] /\ Claiming(p)
         /\ ~InChain(node[p])
         /\ node[p] \in created
         /\ \A q \in Producers : via[q] # "none" /\ node[q] = node[p] => q = p
<1>1. \A q \in Producers : via[q] # "none" => Claiming(q)
  BY DEF LifeInv, ViaKnown
<1>2. /\ node[p] \in Nodes /\ isEnqueued[node[p]] /\ ~InChain(node[p])
      /\ \A q \in Producers : via[q] # "none" /\ node[q] = node[p] => q = p
  BY <1>1 DEF StructInv, ClaimExclusive
<1>3. node[p] \in created
  BY <1>2 DEF LifeInv, Uncreated
<1> QED
  BY <1>1, <1>2, <1>3

\* The body of StaysFreed, and that nodes stay created.
Kept ==
  /\ created \subseteq created'
  /\ \A n \in created : strong[n] = 0 => strong'[n] = 0

\* What a step has to show of the counts.
LEMMA Settled ==
  ASSUME LifeInv, strong' \in [Nodes -> Int], refs' \in [Nodes -> Nat],
         \A m \in Nodes : strong'[m] = Count(m)',
         created \subseteq created', created' \subseteq Nodes,
         \A m \in Nodes : strong'[m] > 0 =>
           strong[m] > 0 \/ (m \in created' /\ m \notin created),
         \A m \in Nodes : isEnqueued'[m] => m \in created'
  PROVE  CountsRight' /\ strong' \in [Nodes -> Nat] /\ Uncreated' /\ Kept
<1>1. CountsRight'
  BY DEF CountsRight
<1>2. \A m \in Nodes : Count(m)' \in Nat
  BY DEF Count, B
<1>3. strong' \in [Nodes -> Nat]
  BY <1>2
<1>4. Uncreated'
  <2> SUFFICES ASSUME NEW m \in Nodes, m \notin created'
               PROVE  strong'[m] = 0 /\ ~isEnqueued'[m]
    BY DEF Uncreated
  <2>1. strong[m] = 0
    BY DEF LifeInv, Uncreated
  <2>2. strong'[m] \in Nat
    BY <1>3
  <2> QED
    BY <2>1, <2>2
<1>5. Kept
  BY <1>3 DEF Kept, LifeInv, LifeTypeOK
<1> QED
  BY <1>1, <1>3, <1>4, <1>5

\* A step that counts nothing.
LEMMA Uncounted ==
  ASSUME LifeInv, UNCHANGED <<strong, refs, created>>, \A m \in Nodes : SameOf(m),
         \A m \in Nodes : isEnqueued'[m] => isEnqueued[m] \/ m \in created
  PROVE  CountsRight' /\ strong' \in [Nodes -> Nat] /\ Uncreated' /\ Kept
<1>1. \A m \in Nodes : strong'[m] = Count(m)'
  BY SameCount
<1>2. strong' \in [Nodes -> Int] /\ refs' \in [Nodes -> Nat]
  BY DEF LifeInv, LifeTypeOK
<1>3. \A m \in Nodes : isEnqueued'[m] => m \in created'
  BY DEF LifeInv, Uncreated
<1>4. created' \subseteq Nodes
  BY DEF LifeInv, LifeTypeOK
<1> QED
  BY <1>1, <1>2, <1>3, <1>4, Settled

----------------------------------------------------------------------------
(* Steps that leave the queue alone *)

LEMMA RefSteps ==
  ASSUME StructInv, LifeInv, NEW n \in Nodes,
         CloneRef(n) \/ DropRef(n)
  PROVE  LifeInv' /\ Kept
<1> USE DEF vars, queueVars, producerVars, receiverVars, wakeVars
<1>1. UNCHANGED <<vars, created, linked, removed, via, local>>
  BY DEF CloneRef, DropRef
<1>2. /\ strong \in [Nodes -> Nat] /\ refs \in [Nodes -> Nat]
      /\ created \subseteq Nodes
  BY DEF LifeInv, LifeTypeOK
<1>3. strong[n] > 0
  <2>1. InReach(n) => n \in linked \/ n \in removed \/ Received(n)
    BY DEF InReach, Received, HasLocal
  <2> QED
    BY <2>1, Referred DEF CloneRef, DropRef
<1>4. PICK d \in {1, -1} :
        /\ strong' = [strong EXCEPT ![n] = strong[n] + d]
        /\ refs' = [refs EXCEPT ![n] = refs[n] + d]
        /\ refs[n] + d \in Nat
  <2>1. CASE CloneRef(n)
    BY <1>2, <2>1 DEF CloneRef, Incremented
  <2>2. CASE DropRef(n)
    <3>1. /\ strong' = [strong EXCEPT ![n] = strong[n] - 1]
          /\ refs' = [refs EXCEPT ![n] = refs[n] - 1]
          /\ refs[n] - 1 \in Nat
      BY <1>2, <2>2 DEF DropRef, Decremented
    <3>2. strong[n] + (-1) = strong[n] - 1 /\ refs[n] + (-1) = refs[n] - 1
      BY <1>2
    <3> QED
      BY <3>1, <3>2
  <2> QED
    BY <2>1, <2>2
<1>5. \A m \in Nodes : /\ InChain(m)' <=> InChain(m)
                       /\ Received(m)' <=> Received(m)
                       /\ InCall(m)' <=> InCall(m)
  BY <1>1 DEF InChain, Received, HasLocal, Polling, InCall
<1>6. \A m \in Nodes : m # n => strong'[m] = Count(m)'
  <2>1. \A m \in Nodes : m # n => SameOf(m)
    BY <1>1, <1>2, <1>4, <1>5 DEF SameOf
  <2> QED
    BY <2>1, SameCount
<1>7. strong'[n] = Count(n)'
  BY <1>1, <1>2, <1>4, <1>5, CountParts DEF Count, B
<1>8. CountsRight' /\ strong' \in [Nodes -> Nat] /\ Uncreated' /\ Kept
  <2>1. strong' \in [Nodes -> Int] /\ refs' \in [Nodes -> Nat]
    BY <1>2, <1>4
  <2>2. \A m \in Nodes : m # n => strong'[m] = strong[m]
    BY <1>2, <1>4
  <2>3. \A m \in Nodes : isEnqueued'[m] => m \in created'
    BY <1>1 DEF LifeInv, Uncreated
  <2> QED
    BY <1>1, <1>2, <1>3, <1>6, <1>7, <2>1, <2>2, <2>3, Settled
<1>9. LifeTypeOK'
  BY <1>1, <1>2, <1>4, <1>8 DEF LifeInv, LifeTypeOK
<1>10. ViaKnown' /\ OwnerPlace'
  BY <1>1 DEF LifeInv, ViaKnown, OwnerPlace, Claiming, InReach, HasLocal, Polling, OwnerFree
<1> QED
  BY <1>8, <1>9, <1>10 DEF LifeInv

\* Only the owner's calls rely on a reference that stays where it is.
LEMMA NoneLeftBehind ==
  ASSUME LifeInv, OwnerFree
  PROVE  \A p \in Producers : via[p] # "ref"
<1> QED
  BY DEF LifeInv, ViaKnown, OwnerFree, Claiming

\* The list and the Removed hand a reference over or drop it.
LEMMA ListSteps ==
  ASSUME StructInv, LifeInv, NEW n \in Nodes,
         Remove(n) \/ DropRemoved(n) \/ DropTask(n) \/ (Break /\ n = held)
  PROVE  LifeInv' /\ Kept
<1> USE DEF vars, queueVars, producerVars, receiverVars, wakeVars
<1>1. UNCHANGED <<vars, created, refs, via, local>> /\ OwnerFree
  BY DEF Remove, DropRemoved, DropTask, Break, Unborrowed
<1>2. /\ strong \in [Nodes -> Nat] /\ refs \in [Nodes -> Nat]
      /\ created \subseteq Nodes
      /\ linked \subseteq created /\ removed \subseteq created
      /\ linked \cap removed = {}
  BY DEF LifeInv, LifeTypeOK
<1>3. \A m \in Nodes : /\ InChain(m)' <=> InChain(m)
                       /\ Received(m)' <=> Received(m)
                       /\ InCall(m)' <=> InCall(m)
  BY <1>1 DEF InChain, Received, HasLocal, Polling, InCall
<1>4. /\ n \in linked \cup removed
      /\ \A m \in Nodes : m # n =>
           (m \in linked' <=> m \in linked) /\ (m \in removed' <=> m \in removed)
      /\ linked' \subseteq created /\ removed' \subseteq created
      /\ linked' \cap removed' = {}
  BY <1>2 DEF Remove, DropRemoved, DropTask, Break
<1>5. \/ /\ n \in linked /\ n \notin removed /\ n \notin linked' /\ n \in removed'
         /\ strong' = strong
      \/ /\ n \in linked /\ n \notin removed /\ n \notin linked' /\ n \notin removed'
         /\ strong' = [strong EXCEPT ![n] = strong[n] - 1]
      \/ /\ n \in removed /\ n \notin linked /\ n \notin linked' /\ n \notin removed'
         /\ strong' = [strong EXCEPT ![n] = strong[n] - 1]
  BY <1>2 DEF Remove, DropRemoved, DropTask, Break, Decremented
<1>6. strong[n] > 0
  BY <1>4, Referred
<1>7. strong' \in [Nodes -> Int] /\ \A m \in Nodes : m # n => strong'[m] = strong[m]
  BY <1>2, <1>5
<1>8. \A m \in Nodes : m # n => strong'[m] = Count(m)'
  <2>1. \A m \in Nodes : m # n => SameOf(m)
    BY <1>1, <1>3, <1>4, <1>7 DEF SameOf
  <2> QED
    BY <2>1, SameCount
<1>9. strong'[n] = Count(n)'
  BY <1>1, <1>2, <1>3, <1>5, CountParts DEF Count, B
<1>10. CountsRight' /\ strong' \in [Nodes -> Nat] /\ Uncreated' /\ Kept
  <2>1. \A m \in Nodes : isEnqueued'[m] => m \in created'
    BY <1>1 DEF LifeInv, Uncreated
  <2> QED
    BY <1>1, <1>2, <1>6, <1>7, <1>8, <1>9, <2>1, Settled
<1>11. LifeTypeOK'
  BY <1>1, <1>2, <1>4, <1>10 DEF LifeInv, LifeTypeOK
<1>12. ViaKnown'
  BY <1>1, NoneLeftBehind DEF LifeInv, ViaKnown, Claiming
<1>13. OwnerPlace'
  <2>1. Polling' => local' \/ held' \in linked'
    BY <1>1, <1>4 DEF LifeInv, OwnerPlace, Polling, Remove, DropRemoved, DropTask,
                      Break, Unborrowed, HasLocal
  <2> QED
    BY <1>1, <2>1 DEF LifeInv, OwnerPlace, Polling, OwnerFree
<1> QED
  BY <1>10, <1>11, <1>12, <1>13 DEF LifeInv

----------------------------------------------------------------------------
(* Wakeups: the claim on a node, and whose reference goes with it *)

\* What a claim does to the calls of enqueue.
LEMMA ClaimCalls ==
  ASSUME StructInv, LifeInv, NEW p \in Producers, NEW n \in Nodes, Claim(p, n),
         \/ isEnqueued[n] /\ via' = via
         \/ /\ ~isEnqueued[n]
            /\ \E v \in {"own", "lent", "ref"} : via' = [via EXCEPT ![p] = v]
  PROVE  /\ \A m \in Nodes : InChain(m)' <=> InChain(m)
         /\ \A m \in Nodes : m # n \/ isEnqueued[n] => (InCall(m)' <=> InCall(m))
         /\ ~isEnqueued[n] =>
              /\ ~InChain(n) /\ ~InCall(n) /\ (rpc = "hold" => held # n)
              /\ InCall(n)' <=> via'[p] \in {"own", "lent"}
         /\ via' \in [Producers -> Vias]
         /\ (\A q \in Producers : via'[q] = "ref" =>
               q = Owner /\ (InReach(node[q]) => InReach(node[q])'))
            /\ (via'[p] = "ref" => InReach(n)') => ViaKnown'
         /\ \A m \in Nodes : isEnqueued'[m] => isEnqueued[m] \/ m = n
         /\ \A q \in Producers : q # p => pc'[q] = pc[q]
         /\ pc[p] = "idle" /\ UNCHANGED <<chain, rpc, held>>
<1> USE DEF queueVars, producerVars, receiverVars, wakeVars
<1>1. /\ pc \in [Producers -> PCs] /\ node \in [Producers -> Nodes \cup {Null}]
      /\ isEnqueued \in [Nodes -> BOOLEAN] /\ via \in [Producers -> Vias]
  BY DEF StructInv, TypeOK, LifeInv, LifeTypeOK
<1>2. pc[p] = "idle" /\ via[p] = "none" /\ UNCHANGED <<chain, rpc, held>>
  BY DEF Claim, LifeInv, ViaKnown, Claiming
<1>3. \A m \in Nodes : InChain(m)' <=> InChain(m)
  BY <1>2 DEF InChain
<1>4. \A m \in Nodes : isEnqueued'[m] => isEnqueued[m] \/ m = n
  BY <1>1 DEF Claim
<1>5. \A q \in Producers : q # p => via'[q] = via[q] /\ node'[q] = node[q] /\ pc'[q] = pc[q]
  BY <1>1 DEF Claim
<1>6. CASE isEnqueued[n]
  <2>1. UNCHANGED <<via, pc, node>>
    BY <1>6 DEF Claim
  <2>2. \A m \in Nodes : InCall(m)' <=> InCall(m)
    BY <2>1 DEF InCall
  <2>3. (\A q \in Producers : via'[q] = "ref" =>
           q = Owner /\ (InReach(node[q]) => InReach(node[q])')) => ViaKnown'
    BY <2>1 DEF LifeInv, ViaKnown, Claiming
  <2> QED
    BY <1>1, <1>2, <1>3, <1>4, <1>5, <1>6, <2>1, <2>2, <2>3
<1>7. CASE ~isEnqueued[n]
  <2>1. PICK v \in {"own", "lent", "ref"} : via' = [via EXCEPT ![p] = v]
    BY <1>7
  <2>2. /\ via'[p] = v /\ node'[p] = n /\ pc'[p] = "upgrade"
        /\ via' \in [Producers -> Vias]
    BY <1>1, <1>7, <2>1 DEF Claim, Vias
  <2>3. ~InChain(n) /\ ~InCall(n) /\ (rpc = "hold" => held # n)
    BY <1>7, OneCall DEF StructInv, HeldExclusive, InCall
  <2>4. \A m \in Nodes : m # n => (InCall(m)' <=> InCall(m))
    BY <1>2, <1>5, <2>2 DEF InCall
  <2>5. InCall(n)' <=> via'[p] \in {"own", "lent"}
    BY <1>5, <2>2, <2>3 DEF InCall
  <2>6. ASSUME \A q \in Producers : via'[q] = "ref" =>
                 q = Owner /\ (InReach(node[q]) => InReach(node[q])'),
               via'[p] = "ref" => InReach(n)'
        PROVE  ViaKnown'
    <3> SUFFICES ASSUME NEW q \in Producers
                 PROVE  /\ pc'[q] = "upgrade" => via'[q] # "none"
                        /\ pc'[q] \in {"clear", "swap"} => via'[q] = "own"
                        /\ ~Claiming(q)' => via'[q] = "none"
                        /\ via'[q] = "ref" => q = Owner /\ InReach(node[q])'
      BY DEF ViaKnown
    <3>1. CASE q = p
      BY <2>2, <2>6, <3>1 DEF Claiming
    <3>2. CASE q # p
      BY <1>5, <2>6, <3>2 DEF LifeInv, ViaKnown, Claiming
    <3> QED
      BY <3>1, <3>2
  <2> QED
    BY <1>2, <1>3, <1>4, <1>5, <1>7, <2>2, <2>3, <2>4, <2>5, <2>6
<1> QED
  BY <1>6, <1>7

\* The end of the argument for a step that claims node n for p.
LEMMA ClaimSettles ==
  ASSUME StructInv, LifeInv, NEW p \in Producers, NEW n \in Nodes, Claim(p, n),
         \/ isEnqueued[n] /\ via' = via
         \/ /\ ~isEnqueued[n]
            /\ \E v \in {"own", "lent", "ref"} : via' = [via EXCEPT ![p] = v],
         n \in created', created \subseteq created', created' \subseteq Nodes,
         strong' \in [Nodes -> Int], refs' \in [Nodes -> Nat],
         \A m \in Nodes : m # n =>
           /\ strong'[m] = strong[m] /\ refs'[m] = refs[m]
           /\ m \in linked' <=> m \in linked
           /\ m \in removed' <=> m \in removed
           /\ Received(m)' <=> Received(m),
         strong'[n] = Count(n)',
         strong[n] > 0 \/ n \notin created
  PROVE  CountsRight' /\ strong' \in [Nodes -> Nat] /\ Uncreated' /\ Kept
<1>1. \A m \in Nodes : m # n => SameOf(m)
  BY ClaimCalls DEF SameOf
<1>2. \A m \in Nodes : strong'[m] = Count(m)'
  BY <1>1, SameCount
<1>3. \A m \in Nodes : isEnqueued'[m] => m \in created'
  BY ClaimCalls DEF LifeInv, Uncreated
<1> QED
  BY <1>2, <1>3, Settled

LEMMA WakeSteps ==
  ASSUME StructInv, LifeInv, NEW p \in Producers, NEW n \in Nodes,
         WakeByRef(p, n) \/ WakeByValue(p, n)
  PROVE  LifeInv' /\ Kept
<1>1. /\ Claim(p, n) /\ MayCall(p) /\ refs[n] > 0
      /\ UNCHANGED <<created, linked, removed, local>>
  BY DEF WakeByRef, WakeByValue
<1>2. /\ strong \in [Nodes -> Nat] /\ refs \in [Nodes -> Nat]
      /\ created \subseteq Nodes
  BY DEF LifeInv, LifeTypeOK
<1>3. strong[n] > 0 /\ n \in created
  BY <1>1, Referred
<1>4. \/ isEnqueued[n] /\ via' = via
      \/ /\ ~isEnqueued[n]
         /\ \E v \in {"own", "lent", "ref"} : via' = [via EXCEPT ![p] = v]
  BY DEF WakeByRef, WakeByValue
<1>5. \/ isEnqueued[n] /\ strong' = strong /\ refs' = refs
      \/ /\ isEnqueued[n] /\ strong' = [strong EXCEPT ![n] = strong[n] - 1]
         /\ refs' = [refs EXCEPT ![n] = refs[n] - 1]
      \/ /\ ~isEnqueued[n] /\ via'[p] \in {"own", "lent"}
         /\ strong' = strong /\ refs' = [refs EXCEPT ![n] = refs[n] - 1]
  BY DEF WakeByRef, WakeByValue, Decremented, LifeInv, LifeTypeOK
<1>6. /\ strong' \in [Nodes -> Int] /\ refs' \in [Nodes -> Nat]
      /\ \A m \in Nodes : m # n => strong'[m] = strong[m] /\ refs'[m] = refs[m]
  BY <1>1, <1>2, <1>5
<1>7. \A m \in Nodes : Received(m)' <=> Received(m)
  BY <1>1, <1>4, ClaimCalls DEF Received, HasLocal, Polling
<1>8. strong'[n] = Count(n)'
  <2>1. InChain(n)' <=> InChain(n)
    BY <1>1, <1>4, ClaimCalls
  <2>2. CASE isEnqueued[n]
    <3>1. InCall(n)' <=> InCall(n)
      BY <1>1, <1>4, <2>2, ClaimCalls
    <3> QED
      BY <1>1, <1>2, <1>5, <1>7, <2>1, <2>2, <3>1, CountParts DEF Count, B
  <2>3. CASE ~isEnqueued[n]
    <3>1. InCall(n)' /\ ~InCall(n)
      BY <1>1, <1>4, <1>5, <2>3, ClaimCalls
    <3> QED
      BY <1>1, <1>2, <1>5, <1>7, <2>1, <2>3, <3>1, CountParts DEF Count, B
  <2> QED
    BY <2>2, <2>3
<1>9. CountsRight' /\ strong' \in [Nodes -> Nat] /\ Uncreated' /\ Kept
  BY <1>1, <1>2, <1>3, <1>4, <1>6, <1>7, <1>8, ClaimSettles
<1>10. LifeTypeOK'
  <2>1. via' \in [Producers -> Vias]
    BY <1>1, <1>4, ClaimCalls
  <2> QED
    BY <1>1, <1>6, <1>9, <2>1 DEF LifeInv, LifeTypeOK
<1>11. UNCHANGED <<rpc, held>>
  BY <1>1, <1>4, ClaimCalls
<1>12. ViaKnown'
  <2>1. via'[p] # "ref"
    BY <1>1, <1>4, <1>5, ClaimCalls DEF WakeByRef, WakeByValue, LifeInv, LifeTypeOK,
       ViaKnown, Claiming
  <2>2. \A q \in Producers : via'[q] = "ref" =>
          q = Owner /\ (InReach(node[q]) => InReach(node[q])')
    <3> SUFFICES ASSUME NEW q \in Producers, via'[q] = "ref"
                 PROVE  q = Owner /\ (InReach(node[q]) => InReach(node[q])')
      OBVIOUS
    <3>1. q # p /\ via[q] = "ref"
      BY <1>4, <2>1 DEF LifeInv, LifeTypeOK
    <3>2. node'[q] = node[q]
      BY <1>1, <3>1 DEF Claim, StructInv, TypeOK
    <3>3. q = Owner
      BY <3>1 DEF LifeInv, ViaKnown
    <3> QED
      BY <1>1, <1>11, <3>2, <3>3 DEF InReach, HasLocal, Polling
  <2> QED
    BY <1>1, <1>4, <2>1, <2>2, ClaimCalls
<1>13. OwnerPlace'
  <2>1. ~OwnerFree' => rpc \in {"ready", "parked", "serving", "dropped"}
    BY <1>1, <1>4, ClaimCalls DEF LifeInv, OwnerPlace, OwnerFree, MayCall
  <2> QED
    BY <1>1, <1>11, <2>1 DEF LifeInv, OwnerPlace, Polling
<1> QED
  BY <1>9, <1>10, <1>12, <1>13 DEF LifeInv

LEMMA OwnerWakeStep ==
  ASSUME StructInv, LifeInv, NEW n \in Nodes, OwnerWake(n)
  PROVE  LifeInv' /\ Kept
<1>1. /\ Claim(Owner, n) /\ InReach(n) /\ rpc \in {"ready", "parked", "serving"}
      /\ UNCHANGED <<strong, created, linked, removed, refs, local>>
      /\ \/ isEnqueued[n] /\ via' = via
         \/ /\ ~isEnqueued[n]
            /\ \E v \in {"own", "lent", "ref"} : via' = [via EXCEPT ![Owner] = v]
      /\ ~isEnqueued[n] => via' = [via EXCEPT ![Owner] = "ref"]
  BY DEF OwnerWake
<1>2. /\ strong \in [Nodes -> Nat] /\ refs \in [Nodes -> Nat]
      /\ created \subseteq Nodes /\ via \in [Producers -> Vias]
  BY DEF LifeInv, LifeTypeOK
<1>3. UNCHANGED <<rpc, held>> /\ pc[Owner] = "idle"
  BY <1>1, ClaimCalls
<1>4. n \in created
  BY <1>1, Referred DEF InReach, Received, HasLocal
<1>5. \A m \in Nodes : SameOf(m)
  <2> SUFFICES ASSUME NEW m \in Nodes PROVE SameOf(m)
    OBVIOUS
  <2>1. InChain(m)' <=> InChain(m)
    BY <1>1, ClaimCalls
  <2>2. Received(m)' <=> Received(m)
    BY <1>1, <1>3 DEF Received, HasLocal, Polling
  <2>3. InCall(m)' <=> InCall(m)
    <3>1. ASSUME ~isEnqueued[n] PROVE ~InCall(n) /\ ~InCall(n)'
      <4>1. via'[Owner] = "ref"
        BY <1>1, <1>2, <3>1
      <4> QED
        BY <1>1, <3>1, <4>1, ClaimCalls
    <3> QED
      BY <1>1, <3>1, ClaimCalls
  <2> QED
    BY <1>1, <2>1, <2>2, <2>3 DEF SameOf
<1>6. CountsRight' /\ strong' \in [Nodes -> Nat] /\ Uncreated' /\ Kept
  <2>1. \A m \in Nodes : isEnqueued'[m] => isEnqueued[m] \/ m \in created
    BY <1>1, <1>4, ClaimCalls
  <2> QED
    BY <1>1, <1>5, <2>1, Uncounted
<1>7. LifeTypeOK'
  <2>1. via' \in [Producers -> Vias]
    BY <1>1, ClaimCalls
  <2> QED
    BY <1>1, <1>6, <2>1 DEF LifeInv, LifeTypeOK
<1>8. ViaKnown'
  <2>1. InReach(n)'
    BY <1>1, <1>3 DEF InReach, HasLocal, Polling
  <2>2. \A q \in Producers : via'[q] = "ref" =>
          q = Owner /\ (InReach(node[q]) => InReach(node[q])')
    <3> SUFFICES ASSUME NEW q \in Producers, via'[q] = "ref"
                 PROVE  q = Owner /\ (InReach(node[q]) => InReach(node[q])')
      OBVIOUS
    <3>1. q = Owner
      BY <1>1, <1>2 DEF LifeInv, ViaKnown
    <3>2. ~isEnqueued[n] /\ node'[q] = n
      BY <1>1, <1>3, <3>1 DEF LifeInv, ViaKnown, Claiming, Claim, StructInv, TypeOK
    <3> QED
      BY <2>1, <3>1, <3>2
  <2> QED
    BY <1>1, <2>1, <2>2, ClaimCalls
<1>9. OwnerPlace'
  BY <1>1, <1>3 DEF LifeInv, OwnerPlace, Polling
<1> QED
  BY <1>6, <1>7, <1>8, <1>9 DEF LifeInv

LEMMA PushStep ==
  ASSUME StructInv, LifeInv, NEW n \in Nodes, Push(n)
  PROVE  LifeInv' /\ Kept
<1>1. /\ strong \in [Nodes -> Nat] /\ refs \in [Nodes -> Nat]
      /\ created \subseteq Nodes /\ linked \subseteq created /\ removed \subseteq created
      /\ linked \cap removed = {}
      /\ via \in [Producers -> Vias]
  BY DEF LifeInv, LifeTypeOK
<1>2. n \notin created /\ strong[n] = 0 /\ ~isEnqueued[n]
  BY DEF Push, LifeInv, Uncreated
<1>3. /\ Claim(Owner, n) /\ rpc \in {"ready", "parked"}
      /\ created' = created \cup {n} /\ linked' = linked \cup {n}
      /\ strong' = [strong EXCEPT ![n] = 2]
      /\ via' = [via EXCEPT ![Owner] = "own"]
      /\ UNCHANGED <<removed, refs, local>>
      /\ OwnerFree
  BY DEF Push, Unborrowed
<1>4. \/ isEnqueued[n] /\ via' = via
      \/ /\ ~isEnqueued[n]
         /\ \E v \in {"own", "lent", "ref"} : via' = [via EXCEPT ![Owner] = v]
  BY <1>2, <1>3
<1>5. UNCHANGED <<rpc, held>> /\ via'[Owner] = "own"
  BY <1>1, <1>3, <1>4, ClaimCalls
<1>6. \A m \in Nodes : Received(m)' <=> Received(m)
  BY <1>3, <1>5 DEF Received, HasLocal, Polling
<1>7. strong'[n] = Count(n)'
  <2>1. InCall(n)' /\ (InChain(n)' <=> InChain(n))
    BY <1>2, <1>3, <1>4, <1>5, ClaimCalls
  <2>2. /\ n \notin linked /\ n \notin removed /\ ~InChain(n)
        /\ ~Received(n) /\ refs[n] = 0
    BY <1>2, Unreferred
  <2> QED
    BY <1>1, <1>3, <1>6, <2>1, <2>2 DEF Count, B
<1>8. CountsRight' /\ strong' \in [Nodes -> Nat] /\ Uncreated' /\ Kept
  <2>1. strong' \in [Nodes -> Int] /\ refs' \in [Nodes -> Nat]
    BY <1>1, <1>3
  <2>2. \A m \in Nodes : m # n =>
          /\ strong'[m] = strong[m] /\ refs'[m] = refs[m]
          /\ m \in linked' <=> m \in linked
          /\ m \in removed' <=> m \in removed
          /\ Received(m)' <=> Received(m)
    BY <1>1, <1>3, <1>6
  <2>3. n \in created' /\ created \subseteq created' /\ created' \subseteq Nodes
    BY <1>1, <1>3
  <2> QED
    BY <1>2, <1>3, <1>4, <1>7, <2>1, <2>2, <2>3, ClaimSettles
<1>9. LifeTypeOK'
  <2>1. via' \in [Producers -> Vias]
    BY <1>3, <1>4, ClaimCalls
  <2> QED
    BY <1>1, <1>2, <1>3, <1>8, <2>1 DEF LifeInv, LifeTypeOK
<1>10. ViaKnown'
  <2>1. \A q \in Producers : via'[q] # "ref"
    BY <1>1, <1>3, NoneLeftBehind
  <2> QED
    BY <1>3, <1>4, <2>1, ClaimCalls
<1>11. OwnerPlace'
  BY <1>3, <1>5 DEF LifeInv, OwnerPlace, Polling
<1> QED
  BY <1>8, <1>9, <1>10, <1>11 DEF LifeInv

LEMMA ReenqueueStep ==
  ASSUME StructInv, LifeInv, Reenqueue
  PROVE  LifeInv' /\ Kept
<1>0. PICK n \in Nodes : n = held
  BY DEF Reenqueue, HasLocal, Polling, StructInv, HeldExclusive
<1>1. /\ strong \in [Nodes -> Nat] /\ refs \in [Nodes -> Nat]
      /\ created \subseteq Nodes
      /\ via \in [Producers -> Vias]
  BY DEF LifeInv, LifeTypeOK
<1>2. rpc = "serving" /\ local
  BY DEF Reenqueue, HasLocal, Polling
<1>3. /\ Claim(Owner, n) /\ n \in linked /\ local' = FALSE
      /\ UNCHANGED <<created, linked, removed, refs>>
  BY <1>0 DEF Reenqueue
<1>4. \/ isEnqueued[n] /\ via' = via
      \/ /\ ~isEnqueued[n]
         /\ \E v \in {"own", "lent", "ref"} : via' = [via EXCEPT ![Owner] = v]
  BY <1>0 DEF Reenqueue
<1>5. \/ isEnqueued[n] /\ strong' = [strong EXCEPT ![n] = strong[n] - 1]
      \/ ~isEnqueued[n] /\ strong' = strong /\ via'[Owner] = "own"
  BY <1>0, <1>1 DEF Reenqueue, Decremented
<1>6. UNCHANGED <<rpc, held>> /\ pc[Owner] = "idle"
  BY <1>2, <1>3, <1>4, ClaimCalls
<1>7. /\ Received(n) /\ ~Received(n)'
      /\ \A m \in Nodes : m # n => (Received(m)' <=> Received(m))
  BY <1>0, <1>2, <1>3, <1>6 DEF Received, HasLocal, Polling
<1>8. strong'[n] = Count(n)'
  <2>1. InChain(n)' <=> InChain(n)
    BY <1>2, <1>3, <1>4, ClaimCalls
  <2>2. CASE isEnqueued[n]
    <3>1. InCall(n)' <=> InCall(n)
      BY <1>2, <1>3, <1>4, <2>2, ClaimCalls
    <3>2. strong'[n] = strong[n] - 1
      BY <1>1, <1>2, <1>5, <2>2
    <3> QED
      BY <1>1, <1>2, <1>3, <1>7, <2>1, <3>1, <3>2, CountParts DEF Count, B
  <2>3. CASE ~isEnqueued[n]
    <3>1. InCall(n)' /\ ~InCall(n)
      BY <1>2, <1>3, <1>4, <1>5, <2>3, ClaimCalls
    <3>2. strong'[n] = strong[n]
      BY <1>5, <2>3
    <3> QED
      BY <1>1, <1>2, <1>3, <1>7, <2>1, <3>1, <3>2, CountParts DEF Count, B
  <2> QED
    BY <2>2, <2>3
<1>9. CountsRight' /\ strong' \in [Nodes -> Nat] /\ Uncreated' /\ Kept
  <2>1. strong[n] > 0 /\ n \in created
    BY <1>2, <1>3, Referred
  <2>2. strong' \in [Nodes -> Int] /\ \A m \in Nodes : m # n => strong'[m] = strong[m]
    BY <1>1, <1>2, <1>5
  <2>3. refs' \in [Nodes -> Nat] /\ created' \subseteq Nodes /\ created' = created
    BY <1>1, <1>3
  <2> QED
    BY <1>2, <1>3, <1>4, <1>7, <1>8, <2>1, <2>2, <2>3, ClaimSettles
<1>10. LifeTypeOK'
  <2>1. via' \in [Producers -> Vias]
    BY <1>2, <1>3, <1>4, ClaimCalls
  <2> QED
    BY <1>1, <1>3, <1>9, <2>1 DEF LifeInv, LifeTypeOK
<1>11. ViaKnown'
  <2>1. \A q \in Producers : via'[q] # "ref"
    <3>1. \A q \in Producers : via[q] # "ref"
      BY <1>6, NoneLeftBehind DEF OwnerFree
    <3> QED
      BY <1>1, <1>4, <3>1 DEF Reenqueue
  <2> QED
    BY <1>2, <1>3, <1>4, <2>1, ClaimCalls
<1>12. OwnerPlace'
  BY <1>0, <1>2, <1>3, <1>6 DEF OwnerPlace, Polling
<1> QED
  BY <1>9, <1>10, <1>11, <1>12 DEF LifeInv

----------------------------------------------------------------------------
(* The calls of enqueue *)

\* Where the owner's references are does not change.
LEMMA StillInReach ==
  ASSUME UNCHANGED <<linked, removed, local, rpc, held>>
  PROVE  /\ \A n \in Nodes : InReach(n)' <=> InReach(n)
         /\ \A n \in Nodes : Received(n)' <=> Received(n)
<1> QED
  BY DEF InReach, Received, HasLocal, Polling

LEMMA UpgradeStep ==
  ASSUME StructInv, LifeInv, NEW p \in Producers, UpgradeCounted(p)
  PROVE  LifeInv' /\ Kept
<1> USE DEF queueVars, producerVars, receiverVars, wakeVars
<1>1. /\ strong \in [Nodes -> Nat] /\ refs \in [Nodes -> Nat]
      /\ created \subseteq Nodes /\ via \in [Producers -> Vias]
      /\ pc \in [Producers -> PCs] /\ node \in [Producers -> Nodes \cup {Null}]
  BY DEF StructInv, TypeOK, LifeInv, LifeTypeOK
<1>2. /\ pc[p] = "upgrade"
      /\ UNCHANGED <<created, linked, removed, local, rpc, held, chain, isEnqueued>>
      /\ refs' = IF via[p] = "lent" THEN [refs EXCEPT ![node[p]] = @ + 1] ELSE refs
  BY DEF UpgradeCounted, Upgrade
<1>3. via[p] \in {"own", "lent", "ref"}
  BY <1>1, <1>2 DEF LifeInv, ViaKnown, Vias
<1>4. PICK n \in Nodes : n = node[p]
  BY <1>3, OneCall
<1>5. /\ n \in created /\ ~InChain(n)
      /\ \A q \in Producers : via[q] # "none" /\ node[q] = n => q = p
  BY <1>3, <1>4, OneCall
<1>6. strong[n] > 0
  <2>1. CASE via[p] = "ref"
    BY <1>4, <2>1, Referred DEF LifeInv, ViaKnown, InReach, Received, HasLocal
  <2>2. CASE via[p] \in {"own", "lent"}
    BY <1>4, <2>2, Referred DEF InCall
  <2> QED
    BY <1>3, <2>1, <2>2
<1>7. /\ \A m \in Nodes : InChain(m)' <=> InChain(m)
      /\ \A m \in Nodes : Received(m)' <=> Received(m)
  BY <1>2, StillInReach DEF InChain
<1>8. \A q \in Producers : q # p => pc'[q] = pc[q] /\ via'[q] = via[q] /\ node'[q] = node[q]
  BY <1>1 DEF UpgradeCounted, Upgrade
<1>9. /\ InCall(n) <=> via[p] \in {"own", "lent"}
      /\ InCall(n)' <=> life = "alive"
      /\ \A m \in Nodes : m # n => (InCall(m)' <=> InCall(m))
  <2>1. InCall(n) <=> via[p] \in {"own", "lent"}
    BY <1>4, <1>5 DEF InCall
  <2>2. CASE life = "alive"
    <3>1. via'[p] = "own" /\ node'[p] = n
      BY <1>1, <1>4, <2>2 DEF UpgradeCounted, Upgrade
    <3> QED
      BY <1>4, <1>8, <2>1, <2>2, <3>1 DEF InCall
  <2>3. CASE life # "alive"
    <3>1. via'[p] = "none"
      BY <1>1, <2>3 DEF UpgradeCounted
    <3>2. ~InCall(n)'
      BY <1>5, <1>8, <3>1 DEF InCall
    <3> QED
      BY <1>4, <1>8, <2>1, <2>3, <3>1, <3>2 DEF InCall
  <2> QED
    BY <2>1, <2>2, <2>3
<1>10. /\ strong' \in [Nodes -> Int] /\ refs' \in [Nodes -> Nat]
       /\ \A m \in Nodes : m # n => strong'[m] = strong[m] /\ refs'[m] = refs[m]
       /\ refs'[n] = IF via[p] = "lent" THEN refs[n] + 1 ELSE refs[n]
       /\ strong'[n] = IF life = "alive"
                       THEN IF via[p] = "own" THEN strong[n] ELSE strong[n] + 1
                       ELSE IF via[p] = "own" THEN strong[n] - 1 ELSE strong[n]
  <2>1. \/ life = "alive" /\ via[p] # "own" /\ strong' = [strong EXCEPT ![n] = strong[n] + 1]
        \/ life # "alive" /\ via[p] = "own" /\ strong' = [strong EXCEPT ![n] = strong[n] - 1]
        \/ life = "alive" /\ via[p] = "own" /\ strong' = strong
        \/ life # "alive" /\ via[p] # "own" /\ strong' = strong
    BY <1>4 DEF UpgradeCounted, Incremented, Decremented
  <2>2. refs' = IF via[p] = "lent" THEN [refs EXCEPT ![n] = refs[n] + 1] ELSE refs
    BY <1>2, <1>4
  <2>3. /\ refs' \in [Nodes -> Nat]
        /\ \A m \in Nodes : m # n => refs'[m] = refs[m]
        /\ refs'[n] = IF via[p] = "lent" THEN refs[n] + 1 ELSE refs[n]
    BY <1>1, <2>2
  <2>4. /\ strong' \in [Nodes -> Int]
        /\ \A m \in Nodes : m # n => strong'[m] = strong[m]
    BY <1>1, <2>1
  <2>5. strong'[n] = IF life = "alive"
                     THEN IF via[p] = "own" THEN strong[n] ELSE strong[n] + 1
                     ELSE IF via[p] = "own" THEN strong[n] - 1 ELSE strong[n]
    BY <1>1, <2>1
  <2> QED
    BY <2>3, <2>4, <2>5
<1>11. \A m \in Nodes : strong'[m] = Count(m)'
  <2>1. \A m \in Nodes : m # n => strong'[m] = Count(m)'
    <3>1. \A m \in Nodes : m # n => SameOf(m)
      BY <1>2, <1>7, <1>9, <1>10 DEF SameOf
    <3> QED
      BY <3>1, SameCount
  <2>2. strong'[n] = Count(n)'
    BY <1>2, <1>3, <1>7, <1>9, <1>10, CountParts DEF Count, B
  <2> QED
    BY <2>1, <2>2
<1>12. CountsRight' /\ strong' \in [Nodes -> Nat] /\ Uncreated' /\ Kept
  <2>1. \A m \in Nodes : isEnqueued'[m] => m \in created'
    BY <1>2 DEF LifeInv, Uncreated
  <2> QED
    BY <1>1, <1>2, <1>6, <1>10, <1>11, <2>1, Settled
<1>13. LifeTypeOK'
  <2>1. via' \in [Producers -> Vias]
    BY <1>1 DEF UpgradeCounted, Vias
  <2> QED
    BY <1>2, <1>10, <1>12, <2>1 DEF LifeInv, LifeTypeOK
<1>14. ViaKnown'
  <2> SUFFICES ASSUME NEW q \in Producers
               PROVE  /\ pc'[q] = "upgrade" => via'[q] # "none"
                      /\ pc'[q] \in {"clear", "swap"} => via'[q] = "own"
                      /\ ~Claiming(q)' => via'[q] = "none"
                      /\ via'[q] = "ref" => q = Owner /\ InReach(node[q])'
    BY DEF ViaKnown
  <2>1. CASE q = p
    BY <1>1, <2>1 DEF UpgradeCounted, Upgrade, Claiming
  <2>2. CASE q # p
    <3>1. via[q] = "ref" => node[q] \in Nodes
      BY OneCall
    <3> QED
      BY <1>2, <1>8, <2>2, <3>1, StillInReach DEF LifeInv, ViaKnown, Claiming
  <2> QED
    BY <2>1, <2>2
<1>15. OwnerPlace'
  <2>1. OwnerFree => OwnerFree'
    BY <1>2, <1>8 DEF OwnerFree
  <2> QED
    BY <1>2, <2>1 DEF LifeInv, OwnerPlace, Polling
<1> QED
  BY <1>12, <1>13, <1>14, <1>15 DEF LifeInv

\* The swap of head makes the call's reference that of the chain.
LEMMA SwapStep ==
  ASSUME StructInv, LifeInv, NEW p \in Producers, SwapCounted(p)
  PROVE  LifeInv' /\ Kept
<1> USE DEF queueVars, producerVars, receiverVars, wakeVars
<1>1. /\ strong \in [Nodes -> Nat] /\ refs \in [Nodes -> Nat]
      /\ via \in [Producers -> Vias]
      /\ pc \in [Producers -> PCs] /\ node \in [Producers -> Nodes \cup {Null}]
  BY DEF StructInv, TypeOK, LifeInv, LifeTypeOK
<1>2. /\ pc[p] = "swap" /\ SwapHead(p)
      /\ via' = [via EXCEPT ![p] = "none"]
      /\ UNCHANGED <<strong, created, linked, removed, refs, local, rpc, held,
                     isEnqueued, node>>
      /\ pc' = [pc EXCEPT ![p] = "link"]
      /\ chain' = Append(chain, node[p])
  BY DEF SwapCounted, SwapHead
<1>3. via[p] = "own"
  BY <1>2 DEF LifeInv, ViaKnown
<1>4. PICK n \in Nodes : n = node[p]
  BY <1>3, OneCall
<1>5. /\ ~InChain(n) /\ InCall(n)
      /\ \A q \in Producers : via[q] # "none" /\ node[q] = n => q = p
  BY <1>3, <1>4, OneCall DEF InCall
<1>6. \A m \in Nodes : InChain(m)' <=> InChain(m) \/ m = n
  <2>1. /\ Len(chain) \in Nat /\ Len(chain') = Len(chain) + 1
        /\ \A i \in 1..Len(chain) : chain'[i] = chain[i]
        /\ chain'[Len(chain) + 1] = n
    BY <1>2, <1>4, ChainCells, AppendCell DEF Cells
  <2> QED
    BY <2>1 DEF InChain
<1>7. \A m \in Nodes : Received(m)' <=> Received(m)
  BY <1>2, StillInReach
<1>8. \A m \in Nodes : InCall(m)' <=> InCall(m) /\ m # n
  BY <1>1, <1>2, <1>4, <1>5 DEF InCall
<1>9. \A m \in Nodes : strong'[m] = Count(m)'
  <2>1. \A m \in Nodes : m # n => SameOf(m)
    BY <1>2, <1>6, <1>7, <1>8 DEF SameOf
  <2>2. strong'[n] = Count(n)'
    BY <1>2, <1>5, <1>6, <1>7, <1>8, CountParts DEF Count, B
  <2> QED
    BY <2>1, <2>2, SameCount
<1>10. CountsRight' /\ strong' \in [Nodes -> Nat] /\ Uncreated' /\ Kept
  <2>1. \A m \in Nodes : isEnqueued'[m] => m \in created'
    BY <1>2 DEF LifeInv, Uncreated
  <2>2. created' \subseteq Nodes /\ strong' \in [Nodes -> Int] /\ refs' \in [Nodes -> Nat]
    BY <1>1, <1>2 DEF LifeInv, LifeTypeOK
  <2> QED
    BY <1>2, <1>9, <2>1, <2>2, Settled
<1>11. LifeTypeOK'
  BY <1>1, <1>2 DEF LifeInv, LifeTypeOK, Vias
<1>12. ViaKnown'
  <2> SUFFICES ASSUME NEW q \in Producers
               PROVE  /\ pc'[q] = "upgrade" => via'[q] # "none"
                      /\ pc'[q] \in {"clear", "swap"} => via'[q] = "own"
                      /\ ~Claiming(q)' => via'[q] = "none"
                      /\ via'[q] = "ref" => q = Owner /\ InReach(node[q])'
    BY DEF ViaKnown
  <2>1. CASE q = p
    BY <1>1, <1>2, <2>1 DEF Claiming
  <2>2. CASE q # p
    <3>1. pc'[q] = pc[q] /\ via'[q] = via[q] /\ node'[q] = node[q]
      BY <1>1, <1>2, <2>2
    <3>2. via[q] = "ref" => node[q] \in Nodes
      BY OneCall
    <3> QED
      BY <1>2, <3>1, <3>2, StillInReach DEF LifeInv, ViaKnown, Claiming
  <2> QED
    BY <2>1, <2>2
<1>13. OwnerPlace'
  <2>1. OwnerFree => OwnerFree'
    BY <1>1, <1>2 DEF OwnerFree
  <2> QED
    BY <1>2, <2>1 DEF LifeInv, OwnerPlace, Polling
<1> QED
  BY <1>10, <1>11, <1>12, <1>13 DEF LifeInv

\* The other accesses of a call change nothing that is counted.
LEMMA CallSteps ==
  ASSUME StructInv, LifeInv, NEW p \in Producers, UNCHANGED countVars,
         ClearNext(p) \/ LinkPrev(p) \/ Wake(p) \/ Release(p)
  PROVE  LifeInv' /\ Kept
<1> USE DEF queueVars, producerVars, receiverVars, wakeVars, countVars
<1>1. /\ via \in [Producers -> Vias] /\ pc \in [Producers -> PCs]
      /\ node \in [Producers -> Nodes \cup {Null}]
  BY DEF StructInv, TypeOK, LifeInv, LifeTypeOK
<1>2. /\ UNCHANGED <<chain, rpc, held, isEnqueued>>
      /\ \A q \in Producers : q # p => pc'[q] = pc[q] /\ node'[q] = node[q]
      /\ \/ pc[p] = "clear" /\ pc'[p] = "swap" /\ node' = node
         \/ ~Claiming(p) /\ ~Claiming(p)'
  BY <1>1 DEF ClearNext, LinkPrev, Wake, Release, Claiming
<1>3. \A q \in Producers : via[q] # "none" => node'[q] = node[q]
  BY <1>2 DEF LifeInv, ViaKnown
<1>4. \A m \in Nodes : SameOf(m)
  <2>1. \A m \in Nodes : InCall(m)' <=> InCall(m)
    BY <1>3 DEF InCall
  <2> QED
    BY <1>2, <2>1, StillInReach DEF SameOf, InChain
<1>5. CountsRight' /\ strong' \in [Nodes -> Nat] /\ Uncreated' /\ Kept
  BY <1>2, <1>4, Uncounted
<1>6. LifeTypeOK'
  BY DEF LifeInv, LifeTypeOK
<1>7. ViaKnown'
  <2> SUFFICES ASSUME NEW q \in Producers
               PROVE  /\ pc'[q] = "upgrade" => via'[q] # "none"
                      /\ pc'[q] \in {"clear", "swap"} => via'[q] = "own"
                      /\ ~Claiming(q)' => via'[q] = "none"
                      /\ via'[q] = "ref" => q = Owner /\ InReach(node[q])'
    BY DEF ViaKnown
  <2>1. via[q] = "ref" => q = Owner /\ InReach(node[q])'
    <3>1. via[q] = "ref" => node[q] \in Nodes
      BY OneCall
    <3> QED
      BY <1>2, <1>3, <3>1, StillInReach DEF LifeInv, ViaKnown
  <2>2. CASE q = p
    BY <1>2, <2>1, <2>2 DEF LifeInv, ViaKnown, Claiming
  <2>3. CASE q # p
    BY <1>2, <2>1, <2>3 DEF LifeInv, ViaKnown, Claiming
  <2> QED
    BY <2>2, <2>3
<1>8. OwnerPlace'
  <2>1. OwnerFree => OwnerFree'
    BY <1>2 DEF OwnerFree, ClearNext, LinkPrev, Wake, Release
  <2> QED
    BY <1>2, <2>1 DEF LifeInv, OwnerPlace, Polling
<1> QED
  BY <1>5, <1>6, <1>7, <1>8 DEF LifeInv

----------------------------------------------------------------------------
(* The owner: dequeue *)

\* Taking the oldest cell off the chain.
LEMMA ChainTail ==
  ASSUME StructInv, chain # <<>>, chain' = Tail(chain)
  PROVE  InChain(tail) /\ \A c : InChain(c)' <=> InChain(c) /\ c # tail
<1>1. /\ Len(chain) \in Nat /\ Len(chain) >= 1
      /\ Len(chain') = Len(chain) - 1
      /\ \A i \in 1..Len(chain) - 1 : chain'[i] = chain[i + 1]
      /\ tail = chain[1]
  BY ChainCells, TailCell DEF StructInv, ChainEnds
<1>2. InChain(tail)
  BY <1>1 DEF InChain
<1>3. ASSUME NEW c, InChain(c)' PROVE InChain(c) /\ c # tail
  <2>1. PICK i \in 1..Len(chain) - 1 : chain[i + 1] = c
    BY <1>1, <1>3 DEF InChain
  <2>2. i + 1 \in 1..Len(chain) /\ i + 1 # 1
    BY <1>1
  <2> QED
    BY <1>1, <2>1, <2>2 DEF InChain, StructInv, ChainDistinct
<1>4. ASSUME NEW c, InChain(c), c # tail PROVE InChain(c)'
  <2>1. PICK i \in 1..Len(chain) : chain[i] = c /\ i # 1
    BY <1>1, <1>4 DEF InChain
  <2>2. PICK j \in 1..Len(chain) - 1 : j + 1 = i
    BY <1>1, <2>1
  <2> QED
    BY <1>1, <2>1, <2>2 DEF InChain
<1> QED
  BY <1>2, <1>3, <1>4

\* A step of the owner outside of enqueue.
LEMMA QuietCalls ==
  ASSUME LifeInv, OwnerFree, UNCHANGED <<pc, node, via>>
  PROVE  /\ ViaKnown' /\ OwnerFree'
         /\ \A m \in Nodes : InCall(m)' <=> InCall(m)
<1> QED
  BY NoneLeftBehind DEF LifeInv, ViaKnown, Claiming, OwnerFree, InCall

LEMMA ReceiveSteps ==
  ASSUME StructInv, LifeInv, ReceiveStep
  PROVE  LifeInv' /\ Kept
<1> USE DEF queueVars, producerVars, receiverVars, wakeVars, countVars
<1>1. /\ OwnerFree /\ UNCHANGED <<countVars, pc, node, isEnqueued>>
      /\ rpc \notin {"hold", "serving"} /\ rpc' # "serving"
  BY DEF ReceiveStep, Register, Snapshot, SkipStub, LoadNext, CompareHead, ClearStub,
         SwapStub, LinkStub, ReloadNext, ReturnNone, ReturnTail
<1>2. ~local
  BY <1>1 DEF LifeInv, OwnerPlace, Polling
<1>3. \/ rpc' # "hold" /\ \A m \in Nodes : InChain(m)' <=> InChain(m)
      \/ /\ rpc' = "hold" /\ held' = tail /\ tail \in Nodes
         /\ chain # <<>> /\ chain' = Tail(chain)
  <2>1. CASE \/ Register \/ Snapshot \/ CompareHead \/ ClearStub \/ LinkStub
    BY <2>1 DEF Register, Snapshot, CompareHead, ClearStub, LinkStub, ReturnNone, InChain
  <2>2. CASE SwapStub
    <3>1. /\ Len(chain) \in Nat /\ Len(chain') = Len(chain) + 1
          /\ \A i \in 1..Len(chain) : chain'[i] = chain[i]
          /\ chain'[Len(chain) + 1] = Stub
      BY <2>2, ChainCells, AppendCell DEF SwapStub, Cells
    <3> QED
      BY <2>2, <3>1, CellsAssumption DEF InChain, SwapStub
  <2>3. (chain # <<>> /\ tail \in Cells) \/ rpc \notin {"drain"} \cup DequeuePCs
    BY ChainCells DEF StructInv, Lifetime, ChainEnds, DequeuePCs
  <2>4. CASE SkipStub
    <3>1. CASE next[tail] = Null
      BY <2>4, <3>1 DEF SkipStub, ReturnNone, InChain
    <3>2. CASE next[tail] # Null
      <4>1. chain' = Tail(chain) /\ rpc' = "load" /\ tail = Stub /\ chain # <<>>
        BY <2>3, <2>4, <3>2 DEF SkipStub
      <4> QED
        BY <4>1, ChainTail, CellsAssumption
    <3> QED
      BY <3>1, <3>2
  <2>5. CASE LoadNext \/ ReloadNext
    <3>1. tail \in Nodes /\ chain # <<>>
      BY <2>3, <2>5 DEF LoadNext, ReloadNext, StructInv, StubPlace, DequeuePCs, Cells
    <3>2. CASE next[tail] = Null
      BY <2>5, <3>2 DEF LoadNext, ReloadNext, ReturnNone, InChain
    <3>3. CASE next[tail] # Null
      BY <2>5, <3>1, <3>3 DEF LoadNext, ReloadNext, ReturnTail
    <3> QED
      BY <3>2, <3>3
  <2> QED
    BY <2>1, <2>2, <2>4, <2>5 DEF ReceiveStep
<1>4. \A m \in Nodes : strong'[m] = Count(m)'
  <2>1. \A m \in Nodes : InCall(m)' <=> InCall(m)
    BY <1>1, QuietCalls
  <2>2. \A m \in Nodes : ~Received(m)
    BY <1>1 DEF Received, HasLocal, Polling
  <2>3. CASE rpc' # "hold" /\ \A m \in Nodes : InChain(m)' <=> InChain(m)
    <3>1. \A m \in Nodes : ~Received(m)'
      BY <1>1, <2>3 DEF Received, HasLocal, Polling
    <3> QED
      BY <1>1, <2>1, <2>2, <2>3, <3>1, SameCount DEF SameOf
  <2>4. CASE /\ rpc' = "hold" /\ held' = tail /\ tail \in Nodes
             /\ chain # <<>> /\ chain' = Tail(chain)
    <3>1. PICK n \in Nodes : n = tail
      BY <2>4
    <3>2. \A m \in Nodes : Received(m)' <=> m = n
      BY <1>1, <2>4, <3>1 DEF Received, HasLocal, Polling
    <3>3. InChain(n) /\ \A m \in Nodes : InChain(m)' <=> InChain(m) /\ m # n
      BY <2>4, <3>1, ChainTail
    <3>4. \A m \in Nodes : m # n => SameOf(m)
      BY <1>1, <2>1, <2>2, <3>2, <3>3 DEF SameOf
    <3>5. strong'[n] = Count(n)'
      BY <1>1, <2>1, <2>2, <3>2, <3>3, CountParts DEF Count, B
    <3> QED
      BY <3>4, <3>5, SameCount
  <2> QED
    BY <1>3, <2>3, <2>4
<1>5. CountsRight' /\ strong' \in [Nodes -> Nat] /\ Uncreated' /\ Kept
  <2>1. \A m \in Nodes : isEnqueued'[m] => m \in created'
    BY <1>1 DEF LifeInv, Uncreated
  <2>2. created' \subseteq Nodes /\ strong' \in [Nodes -> Int] /\ refs' \in [Nodes -> Nat]
    BY <1>1 DEF LifeInv, LifeTypeOK
  <2> QED
    BY <1>1, <1>4, <2>1, <2>2, Settled
<1>6. LifeTypeOK'
  BY <1>1 DEF LifeInv, LifeTypeOK
<1>7. ViaKnown' /\ OwnerPlace'
  BY <1>1, <1>2, QuietCalls DEF OwnerPlace, Polling
<1> QED
  BY <1>5, <1>6, <1>7 DEF LifeInv

----------------------------------------------------------------------------
(* The owner: poll_next and the drops *)

\* The end of a step of the owner that changes the count of node n alone.
LEMMA OwnerSettles ==
  ASSUME StructInv, LifeInv, NEW n \in Nodes, OwnerFree,
         UNCHANGED <<pc, node, via, refs, created, removed>>,
         \A m \in Nodes : isEnqueued'[m] => isEnqueued[m],
         strong' \in [Nodes -> Int], strong[n] > 0,
         linked' \subseteq linked,
         \A m \in Nodes : m # n =>
           /\ strong'[m] = strong[m]
           /\ m \in linked => m \in linked'
           /\ InChain(m)' <=> InChain(m)
           /\ Received(m)' <=> Received(m),
         strong'[n] = strong[n] - B(n \in linked) + B(n \in linked')
                        - B(InChain(n)) + B(InChain(n)')
                        - B(Received(n)) + B(Received(n)'),
         local' \in BOOLEAN, OwnerPlace'
  PROVE  LifeInv' /\ Kept
<1>1. ViaKnown' /\ \A m \in Nodes : InCall(m)' <=> InCall(m)
  BY QuietCalls
<1>2. \A m \in Nodes : strong'[m] = Count(m)'
  <2>1. \A m \in Nodes : m # n => SameOf(m)
    BY <1>1 DEF SameOf
  <2>2. strong'[n] = Count(n)'
    BY <1>1, CountParts DEF Count, B
  <2> QED
    BY <2>1, <2>2, SameCount
<1>3. CountsRight' /\ strong' \in [Nodes -> Nat] /\ Uncreated' /\ Kept
  <2>1. \A m \in Nodes : isEnqueued'[m] => m \in created'
    BY DEF LifeInv, Uncreated
  <2>2. created' \subseteq Nodes /\ refs' \in [Nodes -> Nat]
    BY DEF LifeInv, LifeTypeOK
  <2> QED
    BY <1>2, <2>1, <2>2, Settled
<1>4. LifeTypeOK'
  BY <1>3 DEF LifeInv, LifeTypeOK
<1> QED
  BY <1>1, <1>3, <1>4 DEF LifeInv

LEMMA PollSteps ==
  ASSUME StructInv, LifeInv, NEW early \in BOOLEAN,
         DiscardCounted \/ RecoverCounted \/ FinishCounted(early) \/ Panic
  PROVE  LifeInv' /\ Kept
<1> USE DEF queueVars, producerVars, receiverVars, wakeVars
<1>1. /\ rpc \in {"hold", "serving"} /\ held \in Nodes /\ held # Null
      /\ UNCHANGED <<pc, node, via, refs, created, removed, chain>>
      /\ \A m \in Nodes : isEnqueued'[m] => isEnqueued[m]
      /\ linked' \subseteq linked
      /\ \A m \in Nodes : m \in linked /\ m # held => m \in linked'
  BY CellsAssumption DEF DiscardCounted, RecoverCounted, FinishCounted, Panic, Discard,
     Recover, Finish, EndRound, StructInv, TypeOK, HeldExclusive
<1>2. PICK n \in Nodes : n = held
  BY <1>1
<1>3. /\ strong \in [Nodes -> Nat] /\ local \in BOOLEAN
      /\ strong[n] \in Nat
  BY DEF LifeInv, LifeTypeOK
<1>4. OwnerFree /\ OwnerFree'
  BY <1>1 DEF LifeInv, OwnerPlace, OwnerFree, DiscardCounted, Discard, RecoverCounted,
              Recover, FinishCounted, Panic
<1>5. \A m \in Nodes : InChain(m)' <=> InChain(m)
  BY <1>1 DEF InChain
<1>6. \A m \in Nodes : m # n => ~Received(m) /\ ~Received(m)'
  BY <1>1, <1>2 DEF DiscardCounted, RecoverCounted, FinishCounted, Panic, Discard, Recover,
              Finish, EndRound, Received, HasLocal, Polling
<1>7. Received(n) <=> rpc = "hold" \/ local
  BY <1>1, <1>2 DEF Received, HasLocal, Polling, LifeInv, OwnerPlace
<1>8. strong[n] > 0
  BY <1>1, <1>2, <1>7, Referred DEF LifeInv, OwnerPlace, Polling
<1>9. rpc = "hold" => ~local
  BY DEF LifeInv, OwnerPlace, Polling
<1>10. /\ OwnerPlace' /\ local' \in BOOLEAN
       /\ strong' \in [Nodes -> Int]
       /\ \A m \in Nodes : m # n => strong'[m] = strong[m]
       /\ strong'[n] = strong[n] - B(n \in linked) + B(n \in linked')
                         - B(Received(n)) + B(Received(n)')
  <2>1. CASE RecoverCounted
    <3>1. /\ rpc = "hold" /\ rpc' = "serving" /\ held' = n /\ local' = TRUE
          /\ UNCHANGED <<strong, linked>>
      BY <1>2, <2>1 DEF RecoverCounted, Recover
    <3>2. Received(n) /\ Received(n)'
      BY <1>7, <3>1 DEF Received, HasLocal, Polling
    <3> QED
      BY <1>3, <1>4, <3>1, <3>2 DEF OwnerPlace, Polling, B
  <2>2. CASE DiscardCounted \/ FinishCounted(early)
    <3>1. /\ rpc' \notin {"hold", "serving"} /\ held' = Null /\ ~local'
          /\ linked' = linked
          /\ \/ /\ rpc = "hold" \/ local
                /\ strong' = [strong EXCEPT ![n] = strong[n] - 1]
             \/ rpc # "hold" /\ ~local /\ strong' = strong
      BY <1>2, <1>9, <2>2 DEF DiscardCounted, Discard, FinishCounted, Finish, EndRound,
                              Decremented
    <3>2. ~Received(n)'
      BY <3>1 DEF Received, HasLocal, Polling
    <3>3. OwnerPlace'
      BY <1>4, <3>1 DEF OwnerPlace, Polling
    <3>4. /\ strong' \in [Nodes -> Int]
          /\ \A m \in Nodes : m # n => strong'[m] = strong[m]
          /\ strong'[n] = strong[n] - B(Received(n))
      BY <1>3, <1>7, <3>1 DEF B
    <3>5. local' \in BOOLEAN
      BY <1>3, <2>2 DEF DiscardCounted, FinishCounted
    <3> QED
      BY <1>3, <3>1, <3>2, <3>3, <3>4, <3>5 DEF B
  <2>3. CASE Panic
    <3>1. /\ rpc = "serving" /\ rpc' \notin {"hold", "serving"} /\ held' = Null
          /\ local' = FALSE /\ n \in linked /\ n \notin linked'
          /\ strong' = [strong EXCEPT ![n] = strong[n] - (IF local THEN 2 ELSE 1)]
      BY <1>2, <2>3 DEF Panic, Finish, EndRound
    <3>2. ~Received(n)'
      BY <3>1 DEF Received, HasLocal, Polling
    <3>3. OwnerPlace'
      BY <1>4, <3>1 DEF OwnerPlace, Polling
    <3>4. /\ strong' \in [Nodes -> Int]
          /\ \A m \in Nodes : m # n => strong'[m] = strong[m]
          /\ strong'[n] = strong[n] - B(Received(n)) - 1
      BY <1>3, <1>7, <3>1 DEF B
    <3>5. local' \in BOOLEAN
      BY <3>1
    <3>6. B(n \in linked) = 1 /\ B(n \in linked') = 0 /\ B(Received(n)') = 0
      BY <3>1, <3>2 DEF B
    <3>7. B(Received(n)) \in Int
      BY DEF B
    <3> QED
      BY <1>3, <3>3, <3>4, <3>5, <3>6, <3>7
  <2> QED
    BY <2>1, <2>2, <2>3
<1>11. strong'[n] = strong[n] - B(n \in linked) + B(n \in linked')
                      - B(InChain(n)) + B(InChain(n)')
                      - B(Received(n)) + B(Received(n)')
  BY <1>3, <1>5, <1>10 DEF B
<1> QED
  BY <1>1, <1>2, <1>4, <1>5, <1>6, <1>8, <1>10, <1>11, OwnerSettles

LEMMA DropSteps ==
  ASSUME StructInv, LifeInv,
         DropSelector \/ DropCellCounted \/ (FreeQueue /\ UNCHANGED countVars)
  PROVE  LifeInv' /\ Kept
<1> USE DEF queueVars, producerVars, receiverVars, wakeVars, countVars
<1>1. /\ UNCHANGED <<pc, node, via, refs, created, removed, linked, local, isEnqueued, held>>
      /\ rpc \notin {"hold", "serving"} /\ rpc' = "dropped"
      /\ \/ UNCHANGED <<strong, chain>>
         \/ tail # Null /\ chain' = Tail(chain) /\ DropCellCounted
  BY DEF DropSelector, DropReceiver, DropCellCounted, DropCell, FreeQueue, StructInv, Lifetime
<1>2. \A m \in Nodes : ~Received(m) /\ ~Received(m)'
  BY <1>1 DEF Received, HasLocal, Polling
<1>3. OwnerPlace'
  BY <1>1 DEF LifeInv, OwnerPlace, Polling, OwnerFree
<1>4. ViaKnown' /\ \A m \in Nodes : InCall(m)' <=> InCall(m)
  <2>1. \A q \in Producers : via[q] = "ref" => node[q] \in Nodes /\ InReach(node[q])
    BY OneCall DEF LifeInv, ViaKnown
  <2>2. \A m \in Nodes : InReach(m) => InReach(m)'
    BY <1>1 DEF InReach, HasLocal, Polling
  <2> QED
    BY <1>1, <2>1, <2>2 DEF LifeInv, ViaKnown, Claiming, InCall
<1>5. \A m \in Nodes : isEnqueued'[m] => m \in created'
  BY <1>1 DEF LifeInv, Uncreated
<1>6. /\ created' \subseteq Nodes /\ refs' \in [Nodes -> Nat]
      /\ strong \in [Nodes -> Nat]
  BY <1>1 DEF LifeInv, LifeTypeOK
<1>7. /\ strong' \in [Nodes -> Int] /\ \A m \in Nodes : strong'[m] = Count(m)'
      /\ \A m \in Nodes : strong'[m] > 0 => strong[m] > 0
  <2>1. CASE UNCHANGED <<strong, chain>>
    <3>1. \A m \in Nodes : SameOf(m)
      BY <1>1, <1>2, <1>4, <2>1 DEF SameOf, InChain
    <3> QED
      BY <1>6, <2>1, <3>1, SameCount
  <2>2. CASE tail # Null /\ chain' = Tail(chain) /\ DropCellCounted
    <3>1. InChain(tail) /\ \A c : InChain(c)' <=> InChain(c) /\ c # tail
      BY <2>2, ChainTail DEF StructInv, ChainEnds
    <3>2. CASE tail = Stub
      <4>1. strong' = strong
        BY <2>2, <3>2 DEF DropCellCounted
      <4>2. \A m \in Nodes : SameOf(m)
        BY <1>1, <1>2, <1>4, <3>1, <3>2, <4>1, CellsAssumption DEF SameOf
      <4> QED
        BY <1>6, <4>1, <4>2, SameCount
    <3>3. CASE tail # Stub
      <4>1. PICK n \in Nodes : n = tail
        BY <2>2, <3>3 DEF StructInv, TypeOK, Cells
      <4>2. strong' = [strong EXCEPT ![n] = strong[n] - 1]
        BY <2>2, <3>3, <4>1 DEF DropCellCounted, Decremented
      <4>3. \A m \in Nodes : m # n => SameOf(m)
        BY <1>1, <1>2, <1>4, <1>6, <3>1, <4>1, <4>2 DEF SameOf
      <4>4. strong'[n] = Count(n)'
        BY <1>1, <1>2, <1>4, <1>6, <3>1, <4>1, <4>2, CountParts DEF Count, B
      <4>5. strong[n] > 0
        BY <3>1, <4>1, Referred
      <4> QED
        BY <1>6, <4>2, <4>3, <4>4, <4>5, SameCount
    <3> QED
      BY <3>2, <3>3
  <2> QED
    BY <1>1, <2>1, <2>2
<1>8. CountsRight' /\ strong' \in [Nodes -> Nat] /\ Uncreated' /\ Kept
  BY <1>1, <1>5, <1>6, <1>7, Settled
<1>9. LifeTypeOK'
  BY <1>1, <1>8 DEF LifeInv, LifeTypeOK
<1> QED
  BY <1>3, <1>4, <1>8, <1>9 DEF LifeInv

----------------------------------------------------------------------------

LEMMA LifeStep ==
  ASSUME StructInv, LifeInv, [LifeNext]_allVars
  PROVE  LifeInv' /\ Kept
<1>1. ASSUME NEW n \in Nodes,
             \/ CloneRef(n) \/ DropRef(n) \/ OwnerWake(n)
             \/ Push(n) \/ Remove(n) \/ DropRemoved(n) \/ DropTask(n)
      PROVE  LifeInv' /\ Kept
  BY <1>1, RefSteps, OwnerWakeStep, PushStep, ListSteps
<1>2. ASSUME NEW p \in Producers, NEW n \in Nodes, WakeByRef(p, n) \/ WakeByValue(p, n)
      PROVE  LifeInv' /\ Kept
  BY <1>2, WakeSteps
<1>3. ASSUME NEW p \in Producers, ProduceCounted(p) PROVE LifeInv' /\ Kept
  BY <1>3, UpgradeStep, SwapStep, CallSteps DEF ProduceCounted
<1>4. CASE ReceiveStep
  BY <1>4, ReceiveSteps
<1>5. CASE PollStep
  <2>1. CASE Reenqueue
    BY <2>1, ReenqueueStep
  <2>2. CASE Break
    <3>1. held \in Nodes
      BY <2>2 DEF Break, HasLocal, Polling, StructInv, HeldExclusive
    <3> QED
      BY <2>2, <3>1, ListSteps
  <2>3. CASE DiscardCounted \/ RecoverCounted \/ Panic
    BY <2>3, PollSteps
  <2>4. ASSUME NEW early \in BOOLEAN, FinishCounted(early) PROVE LifeInv' /\ Kept
    BY <2>4, PollSteps
  <2> QED
    BY <1>5, <2>1, <2>2, <2>3, <2>4 DEF PollStep
<1>6. CASE DropSelector \/ DropCellCounted \/ (FreeQueue /\ UNCHANGED countVars)
  BY <1>6, DropSteps
<1>7. CASE UNCHANGED allVars
  <2> USE DEF allVars, vars, queueVars, producerVars, receiverVars, wakeVars, countVars
  <2>1. \A m \in Nodes : SameOf(m)
    BY <1>7 DEF SameOf, InChain, Received, HasLocal, Polling, InCall
  <2>2. CountsRight' /\ strong' \in [Nodes -> Nat] /\ Uncreated' /\ Kept
    BY <1>7, <2>1, Uncounted
  <2>3. LifeTypeOK'
    BY <1>7 DEF LifeInv, LifeTypeOK
  <2>4. ViaKnown' /\ OwnerPlace'
    BY <1>7 DEF LifeInv, ViaKnown, Claiming, InReach, OwnerPlace, OwnerFree, HasLocal, Polling
  <2> QED
    BY <2>2, <2>3, <2>4 DEF LifeInv
<1>8. CASE Terminated
  BY <1>7, <1>8 DEF Terminated
<1> QED
  BY <1>1, <1>2, <1>3, <1>4, <1>5, <1>6, <1>7, <1>8 DEF LifeNext

LEMMA InitLife == LifeInit => LifeInv
<1> SUFFICES ASSUME LifeInit PROVE LifeInv
  OBVIOUS
<1>1. LifeTypeOK
  BY DEF LifeInit, LifeTypeOK, Vias
<1>2. ViaKnown /\ OwnerPlace /\ Uncreated
  BY DEF LifeInit, Init, ViaKnown, Claiming, OwnerPlace, Polling, OwnerFree, Uncreated
<1>3. CountsRight
  <2>1. \A n \in Nodes : ~InChain(n)
    <3>1. chain = <<Stub>>
      BY DEF LifeInit, Init
    <3>2. Len(chain) = 1 /\ chain[1] = Stub
      BY <3>1
    <3> QED
      BY <3>2, CellsAssumption DEF InChain
  <2>2. \A n \in Nodes : ~Received(n) /\ ~InCall(n)
    BY DEF LifeInit, Init, Received, HasLocal, Polling, InCall
  <2>3. \A n \in Nodes : /\ n \notin linked /\ n \notin removed
                         /\ strong[n] = 0 /\ refs[n] = 0
    BY DEF LifeInit
  <2>4. ASSUME NEW n \in Nodes PROVE Count(n) = 0
    <3>1. /\ B(n \in linked) = 0 /\ B(n \in removed) = 0 /\ B(InChain(n)) = 0
          /\ B(Received(n)) = 0 /\ B(InCall(n)) = 0 /\ refs[n] = 0
      BY <2>1, <2>2, <2>3 DEF B
    <3> QED
      BY <3>1 DEF Count
  <2> QED
    BY <2>3, <2>4 DEF CountsRight
<1> QED
  BY <1>1, <1>2, <1>3 DEF LifeInv

\* Every reference of a node is counted once, and nothing else is: the
\* constructors, clones, moves into and out of raw pointers and drops of the
\* code balance, in every interleaving.
THEOREM CountsCorrect == LifeSpec => []LifeInv
<1>1. LifeInit => LifeInv
  BY InitLife
<1>2. StructInv /\ LifeInv /\ [LifeNext]_allVars => LifeInv'
  BY LifeStep
<1> QED
  BY <1>1, <1>2, LifeStructure, PTL DEF LifeSpec

\* Type correctness of the counts; a Removed's task is not in the list.
THEOREM LifeTypeCorrect == LifeSpec => []LifeTypeOK
<1>1. LifeInv => LifeTypeOK
  BY DEF LifeInv
<1> QED
  BY <1>1, CountsCorrect, PTL

\* The cells of the chain are alive: the nodes are counted, the stub is part
\* of a queue that has not been freed.
LEMMA ChainAlive ==
  ASSUME StructInv, LifeInv, NEW c \in Cells, InChain(c)
  PROVE  Alive(c)
<1>1. CASE c = Stub
  <2>1. chain # <<>>
    <3>1. PICK i \in 1..Len(chain) : chain[i] = c
      BY DEF InChain
    <3> QED
      BY <3>1
  <2> QED
    BY <1>1, <2>1 DEF StructInv, Lifetime, Alive
<1>2. CASE c # Stub
  BY <1>2, Referred DEF Alive, Cells
<1> QED
  BY <1>1, <1>2

LEMMA AliveWhenUsed == StructInv /\ LifeInv => NoDangling
<1> SUFFICES ASSUME StructInv, LifeInv PROVE NoDangling
  OBVIOUS
<1>1. \A n \in Nodes : strong[n] > 0 => Alive(n)
  BY CellsAssumption DEF Alive
<1>2. ASSUME NEW p \in Producers, Claiming(p) PROVE Alive(node[p])
  <2>1. node[p] \in Nodes
    BY <1>2 DEF StructInv, ClaimExclusive
  <2>2. via[p] \in {"own", "lent", "ref"}
    BY <1>2 DEF LifeInv, LifeTypeOK, ViaKnown, Claiming, Vias
  <2>3. CASE via[p] = "ref"
    BY <1>1, <2>1, <2>3, Referred DEF LifeInv, ViaKnown, InReach, Received, HasLocal
  <2>4. CASE via[p] \in {"own", "lent"}
    BY <1>1, <2>1, <2>4, Referred DEF InCall
  <2> QED
    BY <2>2, <2>3, <2>4
<1>3. ASSUME NEW p \in Producers, pc[p] = "link" PROVE Alive(prev[p])
  <2>1. prev[p] \in Cells
    BY <1>3 DEF StructInv, TypeOK, ProducerLocals
  <2> QED
    BY <1>3, <2>1, LinkedInChain, ChainAlive
<1>4. tail = Null \/ Alive(tail)
  <2>1. ASSUME chain # <<>> PROVE InChain(tail) /\ tail \in Cells
    <3>1. 1 \in 1..Len(chain) /\ chain[1] \in Cells /\ tail = chain[1]
      BY <2>1, ChainCells DEF StructInv, ChainEnds
    <3> QED
      BY <3>1 DEF InChain
  <2>2. chain = <<>> => tail = Null
    BY DEF StructInv, ChainEnds
  <2> QED
    BY <2>1, <2>2, ChainAlive
<1>5. rpc = "link" => Alive(stubPredecessor)
  <2> SUFFICES ASSUME rpc = "link" PROVE Alive(stubPredecessor)
    OBVIOUS
  <2>1. stubPredecessor \in Cells /\ Linking(stubPredecessor, Stub)
    BY DEF StructInv, TypeOK, StubPlace, Linking
  <2>2. InChain(stubPredecessor)
    BY <2>1 DEF StructInv, LinkPending, InChain, Cells
  <2> QED
    BY <2>1, <2>2, ChainAlive
<1>6. rpc \in {"hold", "serving"} => held \in Nodes /\ Alive(held)
  <2> SUFFICES ASSUME rpc \in {"hold", "serving"} PROVE held \in Nodes /\ Alive(held)
    OBVIOUS
  <2>1. held \in Nodes
    BY DEF StructInv, HeldExclusive
  <2>2. Received(held) \/ held \in linked
    BY DEF Received, HasLocal, Polling, LifeInv, OwnerPlace
  <2> QED
    BY <1>1, <2>1, <2>2, Referred
<1>7. marker # Null => Alive(marker)
  BY <1>6, ChainAlive DEF StructInv, MarkerAhead, Cells
<1>8. \A n \in linked \cup removed : Alive(n)
  BY <1>1, Referred DEF LifeInv, LifeTypeOK
<1> QED
  BY <1>2, <1>3, <1>4, <1>5, <1>6, <1>7, <1>8 DEF NoDangling

\* No access of the queue, the wakers, the Ids, the list or poll_next meets
\* memory that was freed, however the threads interleave and in whatever
\* order the selector, its tasks and their wakers are dropped.
THEOREM NothingDangles == LifeSpec => []NoDangling
<1>1. StructInv /\ LifeInv => NoDangling
  BY AliveWhenUsed
<1> QED
  BY <1>1, LifeStructure, CountsCorrect, PTL

\* A count that reached zero stays there: nobody clones or enqueues a node
\* that was freed, and none is freed twice.
THEOREM FreedForGood == LifeSpec => StaysFreed
<1>1. StructInv /\ LifeInv /\ [LifeNext]_allVars =>
        [\A n \in created : strong[n] = 0 => strong'[n] = 0]_allVars
  BY LifeStep DEF Kept
<1> QED
  BY <1>1, LifeStructure, CountsCorrect, PTL DEF LifeSpec, StaysFreed
=============================================================================
