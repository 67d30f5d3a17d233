# Formal model of async-selector

TLA+ specifications of the `async_selector` crate and its examples, the TLC
configurations that check them on small instances, and TLAPS proofs for instances
of any size. Paths such as `src/queue.rs` are relative to the root of the crate.

## 1. The system

A `Selector` owns a dynamic set of tasks (futures, streams, sockets) and is itself
a `Stream`. Each task lives in a node, one heap allocation that is shared between
the selector's list, its wakeup queue, the wakers handed to the task, and `Id`s.

| Component | State | Operations | Modelled in |
|---|---|---|---|
| Wakeup queue, `src/queue.rs` | `head`, `tail`, embedded `stub`, `waker`; per node `is_enqueued`, `next_enqueued`; per receiver `stub_predecessor` | `enqueue` (any thread), `register_waker`, `dequeue`, `into_inner` (one receiver), `drop` | `WakeupQueue`, `MpscQueue`, `WakeFlagTso` |
| Selector, `src/selector.rs` | queue receiver, task list, strategy | `push`, `extend`, `remove`, `wake_all`, `extract_if`, `poll_next`, `with_strategy`, `into_iter`, `drop` | `TaskPool`, `Selector`; `with_strategy` in `Strategies` |
| Task list, `src/list.rs` | `front`, `len`; per node `next`, `prev`, value; cursors and guards | `push_back`, `get`, `remove`, `access`, cursor pops and removals, `drop` | `TaskSequence`, `TaskList` |
| Node lifetime, all of these | the strong count of a node's `Arc` | every clone, move and drop of a reference | `NodeLifetime` |
| NodeWaker, `src/selector/waker.rs` | a node reference | `wake`, `wake_by_ref`, `clone`, `drop` | `NodeLifetime`; their effect on the queue in `Selector` |
| Id, `src/selector/id.rs` | a node reference | `wake`, `clone`, `drop`, lookups | `Selector`, `NodeLifetime`, `TaskList` |
| Iterators, `src/selector/iter.rs` | a cursor or a list | `next`, `next_back` | `TaskList` |
| Strategies, `src/task/strategy.rs`, `src/task.rs` | none | what a poll of a future or stream amounts to | `Strategies` |
| Example: map, `examples/map.rs` | keys to `Id`s, a `StreamSelector` | `insert`, `remove`, `get_mut`, `poll_next` | `StreamMap` |
| Example: custom task, `examples/custom.rs` | connections, the strategy | `poll_progress` under two strategies, `main`, `send_data` | `CustomTask` |
| Wrappers, crate root, example: speed | — | — | no (section 8) |

How they interact: a thread that makes the event of a task happen calls the task's
waker, which wins the claim on the node (`is_enqueued.swap(true)`), appends the
node to the queue (swap `head`, then link the previous head) and wakes the task
that polls the selector (`AtomicWaker`). `poll_next` registers that waker, takes
the youngest node as a marker, dequeues up to the marker, looks each node up in the
list, gives the claim back, and polls the task through the strategy. What the task
returns decides whether it is enqueued again, removed or left alone.

What is hard: the queue is not linearizable in the obvious way (a node is in the
queue before it can be reached, and `dequeue` gives up then); every `None` and
every `Pending` must be paired with a wakeup that is still to come; the cached
`stub_predecessor` serves as a marker; the claim must be returned before the poll;
task code can wake itself, yield or panic in the middle; nodes outlive their
removal, and are kept by counts that are incremented and consumed by hand; cursors
remove from the ring they walk; strategies and programs must neither lose what a
poll returned nor poll a task again that is done.

What makes each part correct:

- queue: FIFO, nothing twice or lost; one claimant per node; no wakeup lost; `None`
  only when documented; the drop releases everything;
- selector: a task whose event happened is polled; the selector does not sleep over
  it; one poll polls each task at most once; ready tasks take turns; a panic leaves
  it usable; all in all it is a pool of tasks served first come, first served;
- list: insertion order; a value has one owner and is released once; removed nodes
  and nodes of other selectors are told apart; a cursor visits each task once;
- node lifetime: the count is the number of references; no pointer in use leads to
  freed memory; nothing leaks;
- strategies: every item and error is yielded once, a task leaves when it is done
  and not before, and is not polled after that;
- map: the map and the selector agree; custom task: every peer gets the whole
  message, and the program ends.

## 2. Modules

```
WakeupQueue <== MpscQueue --- MpscQueueInv --- NodeLifetime
     |
  Selector ==> TaskPool --- Strategies, StreamMap, CustomTask

TaskSequence <== TaskList                      WakeFlagTso
```

`---` is EXTENDS: the module on the right extends the one on its left, and `Selector`
the `WakeupQueue` above it; `==>` points from a detailed specification to the abstract
one it implements.

`WakeupQueue` — the promise of the queue: a sequence, the stages of each enqueue
(`claimed`, `appended`, `linked`), and what the receiver is doing (`phase`).
`TakeNothing`, the `None` of `dequeue`, is allowed only for an empty queue or if an
enqueue was between its append and its link during the call (the history variable
`raced`).

`MpscQueue` — `src/queue.rs`, one action per access to shared memory. `pc[p]` is
where producer `p` is in `Node::enqueue` / `Queue::enqueue`; `rpc` is where the
receiver is in `register_waker`, `dequeue` or its caller:

| `rpc` | code |
|---|---|
| `ready`, `parked` | outside a poll; the caller polls again by itself, or only after a wakeup |
| `snapshot` | `register_waker` after `waker.register` |
| `drain`, `load` | `dequeue` before the loads of `tail.next`, before and after the stub is skipped |
| `compare` | before `tail == head` |
| `clear`, `swap`, `link` | the three steps that enqueue the stub |
| `reload` | before the last load of `tail.next` |
| `hold`, `serving` | the caller has a `Dequeued`, or its node after `into_inner` |
| `dropped` | the receiver is gone |

Local variables of a call are kept only if a later step reads them. `tail` and
`stub_predecessor` are private to the receiver, so their accesses are merged with
the nearest access to shared memory: SwapStub sets `stub_predecessor` together with
the swap whose result it is. `AtomicWaker::register` and `wake` are one step each,
which is what that type promises. `chain`, the cells from `tail` to `head` in the
order of their swaps, and `raced` are history variables. Producers include the
receiver's own thread; the unrestricted interleaving contains all of its schedules.

`MpscQueueInv` — the properties of the queue, the inductive invariant in named
parts, and the refinement mapping to `WakeupQueue` (`chain` without the stub is the
abstract queue).

`NodeLifetime` — `MpscQueue` with `strong`, the count of each node's `Arc`, over the
list, `Removed`s, `Id`s, wakers, calls of `enqueue` and `poll_next`. Every action is
one of `MpscQueue` with what it does to the counts, or one that only moves
references (`CloneRef`, `DropRef`, `Remove`, `DropRemoved`). `via` says how a call of
`enqueue` refers to its node: it owns an `Arc` (`own`: `NodeWaker::do_wake`, `push`),
is lent one (`lent`: `Id::wake`, `do_wake_by_ref`) or borrows from the list, a
`Removed` or `poll_next` (`ref`: `wake_all`, `Borrowed::id`, the waker of a poll).
`local` says whether `poll_next` still has the node it got from
`Dequeued::into_inner` or has moved it into `enqueue`. `NodeLifetimeInv` has its
properties.

`Selector` — `EXTENDS WakeupQueue` and adds the list, the tasks and `poll_next`
step by step. The owner's thread is a producer too, which does one thing at a time
(`OwnerFree`); `step` is where `poll_next` is with the dequeued task. A task is
external code: `poll_progress` returns `Pending` only if the task's event has not
happened, and may return `Continue` or `Break`, wake tasks, or panic at any time.
`Signal` makes an event happen, `Notify` is the wake that follows it.

`TaskPool` — the promise of the selector, in terms a program that uses it needs:
the tasks `stored` in it, those `called` and `ready`, a `poll_next` that handles the
`quota` of nodes that were ready when it began, in order, and a caller that is
`roused` if it was put to sleep over a task in the queue. `GiveUp` is the drain that
ends early on a race; it is always followed by a wakeup of the caller. Its actions
are operators that the next three modules compose with their own state. `Coming(t)`
says that `t` is on its way to its poll.

`Strategies` — the eight strategies as functions from what a poll finds to the
output and the fate of the task, run by `TaskPool`. The futures and streams are
external; a `TryStream` may have items behind an error. `WithStrategy` exchanges the
strategy between polls, within a family of strategies for the same sources. At the
end of this module and the next two stand the properties of the run and the conjuncts
of the inductive invariant that joins them (`StratInv`, `MapInv`, `CustomInv`).

`StreamMap` — `examples/map.rs`: the map, `NotifyEnd`, and `poll_next` with the loop
around the selector (`again`). The streams are the receiving halves of channels,
which are external and wake their receiver. A channel takes items, and may lose its
last sender, before its stream is inserted; then there is no waker yet.

`CustomTask` — `examples/custom.rs`: connections that read while the server runs and
are told goodbye by another strategy when its time is up. `peer` is where each
`send_data` is. It connects (`Connect`) before `main` takes the connection from the
listener (`Accept`), may have sent its greeting or be gone by then, and may never be
accepted, if the timeout comes first: such a peer stays until `main` returns, where the
listener is closed and the runtime drops what it spawned (`Cancel`). A socket is
external: it takes any part of what is written, blocks, fails, and keeps one waker for
reading and one for writing.

`TaskSequence`, `TaskList` — the list as a promise (sequences, and a window for a
cursor) and as the code (the pointers of two lists over one set of nodes). The list
is used by one thread at a time, so an operation is one step. `home` is the queue
a node is bound to, which is how `Selector::created` tells selectors apart.
`guard` is the `AccessGuard` around a poll; `GuardRemove` is `remove_now` or the
drop of the guard in a panic. `value` counts, for each node, the `Removed`s that own
its value and how often the value was dropped or moved out, so that a second removal or
release shows. The drop of a list goes turn by turn
(`DropValue`), because a turn may panic in the value's `drop` (`DropPanics`), which
starts the loop of the inner `Guard` while the thread unwinds. `dropping` tells where it
is: in the `loop`, in the loop of an `unwind`ing thread (in which `List::drop` may also
begin), `doomed` by a second panic, `done`. A panic that leaves a destructor of an
unwinding thread aborts the process, at once or after the restarted loop, depending on
which frame it leaves: a doomed drop may go on or stop anywhere, and does not return.

`WakeFlagTso` — the flag `is_enqueued` with the store buffer of x86-64, for the
one place where the code relies on more than the order of its own accesses:
`into_inner` clears the flag with a plain store, just before the task is polled.

`MC*` modules add symmetry sets and the families of strategies; the `.cfg` files give
the constants their values. `*Proofs` and `SequenceLemmas` hold the theorems
(section 5).

## 3. Runs

| Run | Instance | States | Shows |
|---|---|---|---|
| `queue_safety` | 3 nodes, 2 producers | 389,375 | one claimant, the marker ahead, no lost wakeup, `None` justified, nothing leaked, `MpscQueue` implements `WakeupQueue` |
| `queue_liveness` | 2 nodes, 2 producers | 102,098 | every node in the queue comes out |
| `node_lifetime` | 2 nodes, owner and 1 thread | 1,380,403 | counts are right, nothing dangles, every node is freed in the end |
| `selector_safety` | 3 tasks, owner and 1 thread | 2,307,711 | events are not forgotten, no sleep over them, one poll per task and `poll_next`, round robin, `Selector` implements `TaskPool` |
| `selector_liveness` | 2 tasks, owner and 1 thread | 115,415 | tasks that should be polled are, drains do not give up for ever |
| `selector_id_wake` | 1 task | (stops at the first violation) | divergence: `Id::wake` of a removed task |
| `task_list` | 4 tasks, 2 lists | 757,311 | rings, every value in one place and released once, refinement of sequences, a drop leaves no value behind, panics included |
| `strategies` | 2 futures or streams, 2 items | 1,015,308 | the inductive invariant, nothing lost, nothing twice, tasks leave when they are done, and do get done |
| `stream_map` | 2 streams, 2 keys, 1 item | 453,056 | the inductive invariant, map and selector agree, items come from the stream under the key, ended streams are forgotten |
| `custom_task` | 2 connections, message of 3 | 102,544 | the inductive invariant, the message arrives whole and in order, the program ends and closes every connection |
| `wake_flag_tso` | 2 tasks, 2 threads | 442 | woken tasks are polled if polls use a read-modify-write |
| `wake_flag_tso_plain` | 1 task, 1 thread | (stops at the first violation) | bug: a wakeup is lost otherwise |

Why the bounds are enough.

- Queue: three nodes put one on each side of the stub while a third is being
  recovered, and two producers give a gap in the chain with a completed enqueue
  behind it; the proofs cover every other size. The history is not bounded: nodes are
  reused for ever, so stale pointers of earlier turns occur.
- Node lifetime: two nodes, so that one can be the previous head or the cached
  `stub_predecessor` while the other is dropped; `MaxRefs` = 1 is the number of `Id`s
  and wakers of a node outside of calls, any number of which adds no new access, and
  the proofs hold for every `MaxRefs`. A node is allocated once in a behaviour:
  `NoDangling` already excludes that a pointer is used whose address may have been
  given to another node.
- Selector: three tasks, of which one waits while two take turns. A task is pushed
  once in a behaviour (a node is never pushed twice), all else repeats without bound.
- Strategies: `MaxItems` = 2 items let an item or an error be followed by another;
  the families let a strategy for streams and one for `TryStream`s take turns over the
  same source, both with a strategy that drops the task and with one that gives it
  back.
- Map: two streams, of which each sends `MaxSent` = 1 item, and two keys let a key be reused, a stream be replaced before its
  end is known, and one stream's end meet the other's item. Custom task: a message of
  three can be cut twice, and an offset be reached twice, by two writes. The proofs cover every other size of the strategies, the map and the
  connections.
- List: four tasks let a cursor remove from both ends around tasks that it visited
  from both ends.

No state constraint is used. Deadlock is checked in all runs but `task_list`, where
a program that has dropped both selectors stops. `Selector`, `NodeLifetime` and
`CustomTask`, which also come to an end, have an explicit `Terminated` step.

## 4. Fairness

Liveness needs no more than what threads, executors and callers do:

- a thread inside `enqueue`, `dequeue`, `poll_next`, `wake_all` or a drop goes on
  (weak fairness of these steps, and of each producer separately); nothing makes a
  thread call `enqueue`;
- a thread that made an event happen wakes the task (weak fairness of `Notify`);
- the receiver's task runs if it was woken, or if its last poll returned a value or
  panicked and the caller caught the panic (`Register` in the queue, `StratPollAgain`
  and `CustomPollAgain` on `TaskPool`; `StartPollNext` in the selector and
  `MapPollAgain` strong, because the owner may call other methods first now and then).
  Nothing polls a parked selector that was not woken, which is what makes a lost
  wakeup visible;
- `TakeTask` on `TaskPool` is strongly fair: a caller that keeps polling does get a
  task, although each single drain may give up on a race. `DrainsGoOn` is that
  property of `Selector`, checked by `selector_liveness`; without it `GiveUp` could
  be taken for ever;
- `Strategies`: the sources produce what they have to, ends included. `StreamMap`:
  no stream has to end; the property is about those whose senders hung up.
  `CustomTask`: a connected peer sends its greeting and takes what it is sent, the
  timeout elapses (strong, because `Stop` needs a moment between two polls of the select
  loop), and the runtime drops the peers that are left when `main` returns. Nobody has to
  connect, to be accepted or to read the end of the stream;
- `NodeLifetime`: only calls and drops that have begun. Nobody has to let go of an
  `Id`, a waker or a `Removed`; `FreedInTheEnd` is about the nodes of which all did.

## 5. Proofs

All theorems are for any sets of nodes, threads, lists, keys and connections, and any
lengths. They use the named assumptions of the modules: `CellsAssumption` and
`NullAssumption` (the stub and null are not nodes), `NodesAssumption` and
`PoolAssumption` (no node is null), `OwnerAssumption` and `LifetimeAssumption` (the
owner is one of the threads, `MaxRefs` a natural number), `TsoAssumption`,
`StrategiesAssumption` (a family has strategies for futures or for streams, not for
both: they are different Rust types), `MapAssumption` and `CustomAssumption` (null is
no key; the bounds are numbers). `SequenceLemmas` has the facts about sequences that
the others cite.

**The queue** (`MpscQueueProofs`). `TypeCorrect`, `ClaimCorrect`, `MarkerCorrect`,
`DropCorrect`, `NoWakeupLost` and `GivesUpForCause` are the run's properties;
`StructureCorrect` and `InvariantHolds` the invariants behind them. The inductive
invariant `IInv` has three layers.

`StructInv` is about pointers. `ChainLinked` says of every two neighbours in the
chain that either the older points to the younger or exactly one operation is about
to make it do so, and `LinkPending` says the reverse: whoever is about to link finds
its two cells still side by side. Together they make it impossible to step over a
gap. `StubPlace` says when the stub is out of the chain, and that
`stub_predecessor` is its neighbour whenever it is in the chain behind another cell;
`MarkerAhead` needs that, because the marker may be that cached pointer.
`ClaimExclusive` and `HeldExclusive` keep a node in one place only.

`WakeInv` is about wakeups, given `StructInv`. `NoLostWakeup` alone is not
inductive: it must hold of the state in which a drain ends, and that depends on what
was swapped in behind the marker meanwhile. `LateNodesOwed` says that while the
registered waker is unused, every node behind the marker is still in the hands of a
producer that has to wake; `RacersOwe` says the same for the gap at which `dequeue`
gives up; `Registered` says that from the registration to the end of the drain the
waker is in its cell or has been used. The key lemma, `BrokenLinkOwed`, finds the
producer behind a missing link.

`RaceKnown` is about `raced`: what `dequeue` has seen of the queue between two of its
loads, so that a `None` can only follow from an empty queue or a race.

**It is a queue** (the last part of `MpscQueueProofs`). `Implements`: every step of `MpscQueue`
is a step of `WakeupQueue` or changes nothing of it. The abstract queue is the chain
without the stub; appends and removals of the stub change nothing, and `StubPlace`
with `MarkerAhead` show that the marker maps to the youngest node.

**The abstract queue** (`WakeupQueueProofs`). `QueueCorrect`: `QueueInv`, the types, a
node at most once in the queue, the marker ahead, and no wakeup lost, again with the
owed wakeups as the strengthening.

**The selector** (`SelectorProofs`). `KeepsToQueue`: every step of `Selector` is a
step `WakeupQueue` allows, so what is proved of the queue holds in the selector.
`SelCorrect`: the inductive invariant `SelInv`, which adds to `QueueInv`
that the list and the task being polled agree (`ListKept`), that a stored node that
refuses claims is coming (`ClaimsKept`), that an event is coming to its poll or its
wakeup (`EventsKept`), that whatever this poll has polled is behind the marker and
whatever overtook a waiting node is behind it (`TurnsKept`), and what a result says
about the caller (`ResultKept`). From it: `EventsRemembered`, `ClaimedComes`,
`NobodyOversleeps`, `OncePerPoll`, `TurnsInOrder`, `SelTypeCorrect`.

**It is a pool of tasks** (the second half of `SelectorProofs`). `SelectorIsPool`: `Selector`
implements `TaskPool`, with the place of the marker in the queue as the quota.
So the pointers of `MpscQueue` implement the queue that `Selector` runs on, and
`Selector` implements the pool that the strategies and the examples run on.
`SelectorKeepsPool`: the invariant of the pool, on which all their proofs rest, holds of
the state the selector shows them.

**The list** (`TaskListProofs`). The tasks of a list are defined by walking its
pointers, so everything hangs on `WalkIs`: a sequence whose neighbours the pointers
link is what the walk meets (by the least place at which it would not be). With it an
operation only has to name the sequence it leaves behind and show that it fits the
pointers (`RingGrows` for `push_back`, `RingShrinks` for `remove_unchecked`); the other
lists are untouched because no node is in two rings. `ListCorrect`: the inductive
invariant `ListInv`, which adds to the rings and to `OwnedOnce` what borrows a
list (`Borrows`): the node of a guard is still linked, a cursor stands at both ends
of a window of the list, as long as `len - popped`, however much it has removed around
it, and a list whose drop is over is empty. From it: `ListTypeCorrect` (`len` never wraps
around), `RingsCorrect`. `OwnedOnceCorrect`: the rings a node is in (none or one), the
`Removed`s that own its value and the releases of its value add up to one from its push
on. A step that takes a value out is only right if it also unlinks the node, and the node
must be linked, which a guard or a cursor has to know of a node it found some steps
earlier: that is what `Borrows` is for. `NothingOutlivesCorrect`: the drop of a list is
over only when its ring is empty, and by `OwnedOnce` every value it held is then released
or in a `Removed`, whichever of the turns panicked. `ListIsSequence`: `TaskList` implements `TaskSequence`;
each visit of a cursor takes the oldest or the youngest task of its window, and a
removal takes out that task and keeps the order of the others.

**Node lifetime** (`NodeLifetimeProofs`). `CountsCorrect`: `LifeInv`, of which
`CountsRight` is the heart: `strong[n]` is the sum over the places a reference can
be in. The chain of `StructInv` is one of these places, which is why the module is
built on `MpscQueue` and not on the abstract queue. `NothingDangles` follows: every
pointer in use leads to the stub or to a node in one of these places. `FreedForGood`:
a count that reached zero stays there. `LifeTypeCorrect`: its types. `LifeKeepsToQueue`:
every step of `NodeLifetime` is one of `MpscQueue` or leaves the queue alone, so that
`NoLostWakeup` and the refinement of the abstract queue hold here too.

**The pool and the programs on it** (`TaskPoolProofs`). `PoolCorrect`: `PoolInv`. A poll
that has no task in hand always has one to take (`PollBalanced`), which is why the quota
never runs past the queue, and a caller put to sleep with tasks in the queue is called
back (`CalledBack`). One lemma per action says what becomes of the pool and who is still
`Coming`: whoever is on the way to a poll stays so until that poll, and a task that
returned `Continue` is on the way again. The three programs are proved on these lemmas.

- Strategies. `AppliedIsRight` states once what `poll_progress` with `transform_cont` or
  `transform_break` may give, and the eight strategies are checked against it; the rest
  of the proof does not look at them again. `EveryItemOnce` is not inductive: that the
  next item goes to the next output needs `StoredUndone`, that no end was taken from a
  stored stream and no output from a stored future, and this must survive an exchange
  of strategies, for which the families keep futures and streams apart (`SameKind`).
  `SourcesShaped` bounds what a source may still produce. From `StratInvariant`:
  `ItemsYieldedOnce`, `GivenBackOnce`, `NothingOverrun`, `LeavesJustThen`, and
  `ProducedIsPolled`, the safety part of `EventuallyDone`: what was produced is never
  slept over, also under another strategy than the one its task was woken under.
- Map. `KeysAgree` needs `StreamsPlaced`, that a stream is not inserted twice and one
  that panicked is not stored. `NewsComing` is the safety part of `EndedForgotten`: a
  stored stream with an item, an end, or no key any more is on the way to its poll. From
  `MapInvariant`: `KeysCorrect`, `ItemsCorrect`.
- Goodbye. `GotPrefix` ties the bytes a peer was sent to `write_offset`, whatever piece
  the socket takes (`PieceFits`); `EndInTime` and `PeersPlaced` say who may hear the end
  when. `HandlersComing` is the safety part of `EverybodyLeaves`: every handler is on the
  way to its poll or its socket has nothing for it and holds the waker for what the
  *current* phase waits for. It holds across the replacement of the strategy only
  because `wake_all` follows it. From `CustomInvariant`: `GoodbyeCorrect`.

**Memory order** (`WakeFlagTsoProofs`). `DrainedPollsMissNothing`: with the store
order of x86-64 and polls that execute an atomic read-modify-write before they read
their event, a woken task is polled.

Only model-checked:

- all liveness properties (`EventuallyDequeued`, `FreedInTheEnd`,
  `EventuallyPolled`, `DrainsGoOn`, `EventuallyDone`, `EndedForgotten`,
  `EverybodyLeaves`), and with them the fairness on which they rest: temporal reasoning
  with ENABLED is beyond the prover. What they need of each state (that a wakeup is
  owed, that a task is on its way, that every count has a holder) is in the invariants;
- `WakeOfRemovedDoesNothing`, which does not hold (section 6).

## 6. Where code and documentation disagree

1. `Dequeued::into_inner` (`src/queue.rs:346`) clears `is_enqueued` with a plain
   release store, and `poll_next` polls the task next (`src/selector.rs:301-309`).
   The store may become visible after the loads of the poll. If the poll returns
   `Pending` without an atomic read-modify-write before it reads its event (a flag
   that is loaded, a channel that finds the same waker registered), then a thread
   that makes the event happen right after that load finds the flag still set and
   returns, and the node is in no queue: the task is not polled after its waker
   received a wakeup, as `src/selector.rs:53-57` has it. `wake_flag_tso_plain` shows
   the schedule, `wake_flag_tso` and `DrainedPollsMissNothing` that a
   read-modify-write in between excludes it; a swap in `into_inner` would be one.
2. `Id::wake` "Does nothing if the task is no longer stored in the selector"
   (`src/selector/id.rs:27`). It enqueues the node and wakes the selector
   (`selector_id_wake`); `poll_next` then skips the node. Only the removed task is
   not polled.

## 7. Abstractions and limits

- Memory is sequentially consistent except in `WakeFlagTso`. The other accesses of
  the queue are read-modify-writes or release stores read with acquire loads, in
  patterns where the proofs use only the order in which one thread's stores become
  visible.
- `NodeLifetime` lends the reference a by-reference wakeup was called on to the call,
  up to the upgrade of the queue, where the call gets its own: the program cannot drop
  what it lent out. It does not count the references of the queue's own `Arc`, which
  `MpscQueue` has as `life`.
- A node is pushed once in a behaviour; the allocator may give its address to another
  one later, which no module shows, because no address is used after the free
  (`NoDangling`, the marker included).
- Task values and outputs are abstract: `Selector` takes every result a task may
  return. An event stands for whatever a poll waits for.
- A panic inside `Drop` of a task during unwinding aborts the program. Where a list is
  dropped `TaskList` has it (`doomed`); elsewhere the behaviour just stops. That a drop of
  a list comes to its end is not stated: a value's `drop` may run for ever.
- A task may not call the selector's methods from its poll: the borrow checker
  excludes it.
- `CustomTask`: a TCP connection that is closed with data unread may be reset, in
  which case the peer may lose what it has not read yet; a peer here reads all it was
  sent. The read buffer is cleared by `poll_read` before it is handed on, so it is
  left out.
- Formatting, `size_hint`, `Pin` projections and auto-trait assertions are left out.

## 8. Not modelled

- `Borrowed` and `Removed` of `src/selector/wrappers.rs`: each method delegates to
  the wrapper of `src/list.rs` it contains, whose operations are in `TaskList` and
  whose references are in `NodeLifetime`.
- The crate root: type aliases and re-exports.
- `examples/speed.rs`: a benchmark. Its tasks wake themselves while they are polled,
  which `Selector` covers (`OwnerWake` between `StartPoll` and the end of the poll);
  its copies on several threads share nothing.
- The `Task` impls for `&mut S` and `Box<S>` in `src/task.rs`: they delegate.
