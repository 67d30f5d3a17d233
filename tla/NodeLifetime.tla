---------------------------- MODULE NodeLifetime ----------------------------
(***************************************************************************)
(* The lifetime of the nodes: who counts a reference of a node's Arc, and  *)
(* when its memory is freed.  The queue is MpscQueue, at the grain of its  *)
(* accesses to shared memory, because what can go wrong is an access       *)
(* through one of its raw pointers: next, tail, head, the old head that a  *)
(* producer is about to link, stub_predecessor.  The list, the wakers and  *)
(* the Ids are reduced to the references they count.                       *)
(*                                                                         *)
(* Of a by-reference wakeup the reference it was called on is lent to the  *)
(* call up to the point where the call has one of its own or is over.      *)
(***************************************************************************)
EXTENDS MpscQueueInv

CONSTANTS
  Owner,    \* the thread of the selector
  MaxRefs   \* bound: Ids and wakers of one node outside of calls

ASSUME LifetimeAssumption == Owner \in Producers /\ MaxRefs \in Nat

VARIABLES
  strong,   \* the strong count of each node, 0 before it exists and after
  created,  \* the nodes that were allocated
  linked,   \* the list holds a raw, counted reference
  removed,  \* so does a Removed
  refs,     \* how many Ids and wakers (Waker::clone) the program holds
  via,      \* how each producer's call refers to its node
  local     \* poll_next owns the node it got from Dequeued::into_inner

countVars == <<strong, created, linked, removed, refs, via, local>>
allVars == <<vars, countVars>>

\* own: an Arc by value; lent: an Id or waker of this thread; ref: a reference
\* that stays where it is, in the list, a Removed or poll_next.
Vias == {"none", "own", "lent", "ref"}

LifeInit ==
  /\ Init
  /\ strong = [n \in Nodes |-> 0]
  /\ created = {} /\ linked = {} /\ removed = {}
  /\ refs = [n \in Nodes |-> 0]
  /\ via = [p \in Producers |-> "none"]
  /\ local = FALSE

Incremented(n) == strong' = [strong EXCEPT ![n] = @ + 1]
Decremented(n) == strong' = [strong EXCEPT ![n] = @ - 1]

\* The owner's thread is not inside an enqueue.
OwnerFree == pc[Owner] = "idle"

Polling == rpc = "serving"

\* poll_next still has the node's Arc: it has not given it to enqueue.
HasLocal(n) == Polling /\ local /\ held = n

\* The code that runs in the owner's thread can get at the node.
InReach(n) == n \in linked \cup removed \/ HasLocal(n)

----------------------------------------------------------------------------
(* Ids and wakers *)

\* Id::clone, of an Id that somebody has or of one borrowed from a task or a
\* Removed; do_clone, of a waker or of the one poll_progress was called with.
CloneRef(n) ==
  /\ refs[n] < MaxRefs
  /\ refs[n] > 0 \/ (OwnerFree /\ InReach(n))
  /\ Incremented(n)
  /\ refs' = [refs EXCEPT ![n] = @ + 1]
  /\ UNCHANGED <<vars, created, linked, removed, via, local>>

\* Drop of an Id; do_drop.
DropRef(n) ==
  /\ refs[n] > 0
  /\ Decremented(n)
  /\ refs' = [refs EXCEPT ![n] = @ - 1]
  /\ UNCHANGED <<vars, created, linked, removed, via, local>>

\* The selector's thread does one thing at a time.
MayCall(p) == p = Owner => rpc \in {"ready", "parked", "serving", "dropped"}

\* Mutant: without its ManuallyDrop.
WakeByRefDrops(p, n) ==
  /\ MayCall(p) /\ refs[n] > 0
  /\ Claim(p, n)
  /\ IF isEnqueued[n]
     THEN Decremented(n) /\ UNCHANGED <<refs, via>>
     ELSE /\ refs' = [refs EXCEPT ![n] = @ - 1]
          /\ via' = [via EXCEPT ![p] = "lent"]
          /\ UNCHANGED strong
  /\ UNCHANGED <<created, linked, removed, local>>

\* Id::wake and do_wake_by_ref: enqueue_by_ref.
WakeByRef(p, n) ==
  /\ MayCall(p) /\ refs[n] > 0
  /\ Claim(p, n)
  /\ IF isEnqueued[n]
     THEN UNCHANGED <<refs, via>>
     ELSE /\ refs' = [refs EXCEPT ![n] = @ - 1]
          /\ via' = [via EXCEPT ![p] = "lent"]
  /\ UNCHANGED <<strong, created, linked, removed, local>>

\* do_wake: enqueue consumes the waker's reference, whoever wins the claim.
WakeByValue(p, n) ==
  /\ MayCall(p) /\ refs[n] > 0
  /\ Claim(p, n)
  /\ refs' = [refs EXCEPT ![n] = @ - 1]
  /\ IF isEnqueued[n]
     THEN Decremented(n) /\ UNCHANGED via
     ELSE via' = [via EXCEPT ![p] = "own"] /\ UNCHANGED strong
  /\ UNCHANGED <<created, linked, removed, local>>

\* wake_all, Borrowed::id or Removed::id followed by wake, and the waker of
\* the context woken by reference during the poll.
OwnerWake(n) ==
  /\ rpc \in {"ready", "parked", "serving"}
  /\ InReach(n)
  /\ Claim(Owner, n)
  /\ via' = IF isEnqueued[n] THEN via ELSE [via EXCEPT ![Owner] = "ref"]
  /\ UNCHANGED <<strong, created, linked, removed, refs, local>>

----------------------------------------------------------------------------
(* The calls of enqueue *)

\* Mutant: the queue gets the caller's reference instead of a clone.
UpgradeTakes(p) ==
  /\ Upgrade(p)
  /\ via' = [via EXCEPT ![p] = IF life = "alive" THEN "own" ELSE "none"]
  /\ IF life # "alive" /\ via[p] = "own" THEN Decremented(node[p]) ELSE UNCHANGED strong
  /\ refs' = IF via[p] = "lent" THEN [refs EXCEPT ![node[p]] = @ + 1] ELSE refs
  /\ UNCHANGED <<created, linked, removed, local>>

\* Mutant: a failed upgrade forgets the reference.
UpgradeLeaks(p) ==
  /\ Upgrade(p)
  /\ via' = [via EXCEPT ![p] = IF life = "alive" THEN "own" ELSE "none"]
  /\ IF life = "alive" /\ via[p] # "own" THEN Incremented(node[p]) ELSE UNCHANGED strong
  /\ refs' = IF via[p] = "lent" THEN [refs EXCEPT ![node[p]] = @ + 1] ELSE refs
  /\ UNCHANGED <<created, linked, removed, local>>

\* enqueue_by_ref clones the node once the queue is upgraded; without a queue
\* enqueue drops its argument.
UpgradeCounted(p) ==
  /\ Upgrade(p)
  /\ via' = [via EXCEPT ![p] = IF life = "alive" THEN "own" ELSE "none"]
  /\ CASE life = "alive" /\ via[p] # "own" -> Incremented(node[p])
       [] life # "alive" /\ via[p] = "own" -> Decremented(node[p])
       [] OTHER                            -> UNCHANGED strong
  /\ refs' = IF via[p] = "lent" THEN [refs EXCEPT ![node[p]] = @ + 1] ELSE refs
  /\ UNCHANGED <<created, linked, removed, local>>

\* Arc::into_raw: from the swap on, the reference is the queue's.
SwapCounted(p) ==
  /\ SwapHead(p)
  /\ via' = [via EXCEPT ![p] = "none"]
  /\ UNCHANGED <<strong, created, linked, removed, refs, local>>

ProduceCounted(p) ==
  \/ UpgradeCounted(p) \/ SwapCounted(p)
  \/ (ClearNext(p) \/ LinkPrev(p) \/ Wake(p) \/ Release(p)) /\ UNCHANGED countVars

----------------------------------------------------------------------------
(* The methods of the selector *)

Unborrowed == rpc \in {"ready", "parked"} /\ OwnerFree

\* push_back: one reference for the list, and a clone for the queue.
Push(n) ==
  /\ Unborrowed
  /\ n \notin created
  /\ created' = created \cup {n}
  /\ linked' = linked \cup {n}
  /\ strong' = [strong EXCEPT ![n] = 2]
  /\ Claim(Owner, n)
  /\ via' = [via EXCEPT ![Owner] = "own"]
  /\ UNCHANGED <<removed, refs, local>>

\* remove, extract_if and retain: the list's reference becomes the Removed's.
Remove(n) ==
  /\ Unborrowed
  /\ n \in linked
  /\ linked' = linked \ {n} /\ removed' = removed \cup {n}
  /\ UNCHANGED <<vars, strong, created, refs, via, local>>

\* Removed::into_inner, Removed::drop.
DropRemoved(n) ==
  /\ OwnerFree
  /\ n \in removed
  /\ removed' = removed \ {n}
  /\ Decremented(n)
  /\ UNCHANGED <<vars, created, linked, refs, via, local>>

\* The receiver goes first, then the list, task by task.
DropSelector ==
  /\ OwnerFree
  /\ DropReceiver
  /\ UNCHANGED countVars

DropTask(n) ==
  /\ rpc = "dropped" /\ OwnerFree
  /\ n \in linked
  /\ linked' = linked \ {n}
  /\ Decremented(n)
  /\ UNCHANGED <<vars, created, removed, refs, via, local>>

----------------------------------------------------------------------------
(* poll_next *)

\* The accesses to the queue change no count: dequeue turns the queue's
\* reference into the one of the Dequeued.
ReceiveStep ==
  /\ OwnerFree
  /\ \/ Register \/ Snapshot \/ SkipStub \/ LoadNext \/ CompareHead \/ ClearStub
     \/ SwapStub \/ LinkStub \/ ReloadNext
  /\ UNCHANGED countVars

\* The Dequeued of a removed task is dropped.
DiscardCounted ==
  /\ held \notin linked
  /\ Discard
  /\ Decremented(held)
  /\ UNCHANGED <<created, linked, removed, refs, via, local>>

RecoverCounted ==
  /\ held \in linked
  /\ Recover
  /\ local' = TRUE
  /\ UNCHANGED <<strong, created, linked, removed, refs, via>>

\* Continue: the node is moved into enqueue, which drops it if a wakeup came
\* first; the list keeps the task.
Reenqueue ==
  /\ HasLocal(held) /\ held \in linked
  /\ local' = FALSE
  /\ Claim(Owner, held)
  /\ IF isEnqueued[held]
     THEN Decremented(held) /\ UNCHANGED via
     ELSE via' = [via EXCEPT ![Owner] = "own"] /\ UNCHANGED strong
  /\ UNCHANGED <<created, linked, removed, refs>>

\* Break: remove_now.
Break ==
  /\ HasLocal(held) /\ held \in linked /\ OwnerFree
  /\ linked' = linked \ {held} /\ removed' = removed \cup {held}
  /\ UNCHANGED <<vars, strong, created, refs, via, local>>

\* The end of the loop's body: the node is dropped unless it was moved.
FinishCounted(early) ==
  /\ OwnerFree
  /\ Finish(early)
  /\ local' = FALSE
  /\ IF local THEN Decremented(held) ELSE UNCHANGED strong
  /\ UNCHANGED <<created, linked, removed, refs, via>>

\* A panic drops the node and the AccessGuard, and that the task.
Panic ==
  /\ OwnerFree
  /\ Finish(TRUE)
  /\ held \in linked
  /\ linked' = linked \ {held}
  /\ strong' = [strong EXCEPT ![held] = @ - (IF local THEN 2 ELSE 1)]
  /\ local' = FALSE
  /\ UNCHANGED <<created, removed, refs, via>>

PollStep ==
  \/ DiscardCounted \/ RecoverCounted \/ Reenqueue \/ Break
  \/ (\E early \in BOOLEAN : FinishCounted(early)) \/ Panic

----------------------------------------------------------------------------
(* Queue::drop *)

DropCellCounted ==
  /\ DropCell
  /\ IF tail = Stub THEN UNCHANGED strong ELSE Decremented(tail)
  /\ UNCHANGED <<created, linked, removed, refs, via, local>>

\* Nobody refers to anything any more.
Terminated ==
  /\ life = "freed" /\ linked = {} /\ removed = {}
  /\ \A n \in Nodes : refs[n] = 0
  /\ UNCHANGED allVars

LifeNext ==
  \/ \E n \in Nodes :
       \/ CloneRef(n) \/ DropRef(n) \/ OwnerWake(n)
       \/ Push(n) \/ Remove(n) \/ DropRemoved(n) \/ DropTask(n)
       \/ \E p \in Producers : WakeByRef(p, n) \/ WakeByValue(p, n)
  \/ \E p \in Producers : ProduceCounted(p)
  \/ ReceiveStep \/ PollStep
  \/ DropSelector \/ DropCellCounted
  \/ FreeQueue /\ UNCHANGED countVars
  \/ Terminated

LifeSpec == LifeInit /\ [][LifeNext]_allVars

\* The calls and the drops that have begun go on.  Nobody has to let go of an
\* Id, a waker or a Removed.
LifeFairness ==
  /\ \A p \in Producers : WF_allVars(ProduceCounted(p))
  /\ \A n \in Nodes : WF_allVars(DropTask(n))
  /\ WF_allVars(DropCellCounted) /\ WF_allVars(FreeQueue /\ UNCHANGED countVars)

LifeFairSpec == LifeSpec /\ LifeFairness
=============================================================================
