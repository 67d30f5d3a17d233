------------------------------ MODULE Selector ------------------------------
(***************************************************************************)
(* src/selector.rs: the selector, on top of the promise of its queue.      *)
(*                                                                         *)
(* The thread that owns the selector is a producer of the queue like any   *)
(* other (push, the re-enqueueing of a task that yielded, Id::wake, a task *)
(* that wakes itself), and it is the receiver.  It does one thing at a     *)
(* time: while its own enqueue is going on its other steps wait.  The      *)
(* remaining producers are threads that hold wakers or Ids.                *)
(*                                                                         *)
(* A task is external code.  Its poll returns Pending only if the event it *)
(* waits for has not happened; a thread makes the event happen first and   *)
(* wakes the task afterwards.                                              *)
(***************************************************************************)
EXTENDS WakeupQueue

CONSTANT Owner  \* the thread that owns the selector

ASSUME OwnerAssumption == Owner \in Producers

VARIABLES
  list,      \* Selector::list, the stored tasks in insertion order
  fresh,     \* the tasks not pushed yet
  step,      \* where poll_next is in the handling of the dequeued task
  result,    \* what the last poll_next returned
  waking,    \* what is left of a wake_all
  event,     \* what each task waits for has happened
  signal,    \* the task whose event a thread set and will now wake
  polled,    \* history: the tasks polled in this poll_next
  overtook   \* history: for each queued task, those polled since its enqueue

selVars == <<list, fresh, step, result, waking, event, signal, polled,
             overtook>>
allVars == <<vars, selVars>>

Threads == Producers \ {Owner}

Steps == {"none", "poll", "cont", "transform", "broke"}
Results == {"never", "polling", "some", "none", "pending", "panic"}

Stored(n) == \E i \in 1..Len(list) : list[i] = n

\* The list without one of its tasks.
PlaceOf(n) == CHOOSE i \in 1..Len(list) : list[i] = n
Without(n) ==
  IF Stored(n)
  THEN [i \in 1..Len(list) - 1 |-> IF i < PlaceOf(n) THEN list[i] ELSE list[i + 1]]
  ELSE list

\* The owner's thread is not inside an enqueue.
OwnerFree == stage[Owner] = "idle" /\ waking = <<>>

\* The selector is not borrowed: its other methods may be called.
Idle == phase \in {"ready", "parked"} /\ OwnerFree

SelInit ==
  /\ Init
  /\ list = <<>> /\ fresh = Nodes
  /\ step = "none" /\ result = "never" /\ waking = <<>>
  /\ event = [n \in Nodes |-> FALSE]
  /\ signal = [t \in Threads |-> Null]
  /\ polled = {} /\ overtook = [n \in Nodes |-> {}]

----------------------------------------------------------------------------
(* Wakers and Ids *)

\* What a task waits for happens, in a thread that has its waker.
Signal(t, n) ==
  /\ signal[t] = Null /\ stage[t] = "idle"
  /\ n \notin fresh
  /\ event' = [event EXCEPT ![n] = TRUE]
  /\ signal' = [signal EXCEPT ![t] = n]
  /\ UNCHANGED <<vars, list, fresh, step, result, waking, polled, overtook>>

\* ... which then calls Waker::wake.
Notify(t) ==
  /\ signal[t] # Null
  /\ Claim(t, signal[t])
  /\ signal' = [signal EXCEPT ![t] = Null]
  /\ UNCHANGED <<list, fresh, step, result, waking, event, polled, overtook>>

\* Id::wake, or a waker woken for no reason.
IdWake(t, n) ==
  /\ signal[t] = Null
  /\ n \notin fresh
  /\ Claim(t, n)
  /\ UNCHANGED selVars

\* The same by the owner, between two polls or from the code of a task.
OwnerWake(n) ==
  /\ phase \in {"ready", "parked"} \/ step \in {"poll", "transform", "broke"}
  /\ OwnerFree
  /\ n \notin fresh
  /\ Claim(Owner, n)
  /\ UNCHANGED selVars

\* The steps of an enqueue after the claim.
Enqueue(p) ==
  /\ Produce(p)
  /\ overtook' = IF stage'[p] = "appended"
                 THEN [overtook EXCEPT ![node[p]] = {}] ELSE overtook
  /\ UNCHANGED <<list, fresh, step, result, waking, event, signal, polled>>

----------------------------------------------------------------------------
(* The selector's methods between two polls *)

Push(n) ==
  /\ Idle
  /\ n \in fresh
  /\ fresh' = fresh \ {n}
  /\ list' = Append(list, n)
  /\ Claim(Owner, n)
  /\ UNCHANGED <<step, result, waking, event, signal, polled, overtook>>

\* remove, and what extract_if and retain do to one task: the node stays in
\* the queue if it is there.
Remove(n) ==
  /\ Idle
  /\ Stored(n)
  /\ list' = Without(n)
  /\ UNCHANGED <<vars, fresh, step, result, waking, event, signal, polled,
                 overtook>>

WakeAll ==
  /\ Idle
  /\ waking' = list
  /\ UNCHANGED <<vars, list, fresh, step, result, event, signal, polled,
                 overtook>>

WakeNext ==
  /\ waking # <<>>
  /\ Claim(Owner, Head(waking))
  /\ waking' = Tail(waking)
  /\ UNCHANGED <<list, fresh, step, result, event, signal, polled, overtook>>

\* The fields are dropped in order: the receiver, then the list, from its
\* front.  into_iter drops the receiver too and removes the tasks one by one.
DropSelector ==
  /\ Idle
  /\ DropReceiver
  /\ UNCHANGED selVars

DropTask ==
  /\ phase = "dropped"
  /\ list # <<>>
  /\ list' = Tail(list)
  /\ UNCHANGED <<vars, fresh, step, result, waking, event, signal, polled,
                 overtook>>

----------------------------------------------------------------------------
(* poll_next *)

StartPollNext ==
  /\ Idle
  /\ Register
  /\ result' = "polling"
  /\ polled' = {}
  /\ UNCHANGED <<list, fresh, step, waking, event, signal, overtook>>

\* What poll_next returns when it runs out of tasks to poll.
Outcome(stored) == IF stored = <<>> THEN "none" ELSE "pending"

ResultAfterRound(stored) ==
  result' = IF phase' = "parked" THEN Outcome(stored) ELSE result

TakeMarker ==
  /\ Snapshot
  /\ ResultAfterRound(list)
  /\ UNCHANGED <<list, fresh, step, waking, event, signal, polled, overtook>>

Dequeue ==
  /\ Take \/ TakeNothing
  /\ ResultAfterRound(list)
  /\ UNCHANGED <<list, fresh, step, waking, event, signal, polled, overtook>>

\* Mutant: goes on past a marker whose task is gone.
SkipRemovedMarker ==
  /\ phase = "hold"
  /\ ~Stored(held)
  /\ phase' = "drain" /\ held' = Null
  /\ UNCHANGED <<queue, isEnqueued, producerVars, marker, waker, notified, open>>
  /\ UNCHANGED selVars
  /\ TrackRace

\* Mutant: stops at the marker before polling it.
SkipMarker ==
  /\ ~Stored(held) \/ held = marker
  /\ Discard
  /\ ResultAfterRound(list)
  /\ UNCHANGED <<list, fresh, step, waking, event, signal, polled, overtook>>

\* List::access finds the task gone: its Dequeued is dropped.
SkipRemoved ==
  /\ ~Stored(held)
  /\ Discard
  /\ ResultAfterRound(list)
  /\ UNCHANGED <<list, fresh, step, waking, event, signal, polled, overtook>>

\* Mutant: polls the task of a Dequeued that was not recovered.
StartPollClaimed ==
  /\ phase = "hold"
  /\ Stored(held)
  /\ phase' = "serving"
  /\ step' = "poll"
  /\ UNCHANGED <<queue, isEnqueued, producerVars, held, marker, waker, notified,
                 open>>
  /\ UNCHANGED <<list, fresh, result, waking, event, signal, polled, overtook>>
  /\ TrackRace

StartPoll ==
  /\ Stored(held)
  /\ Recover
  /\ step' = "poll"
  /\ polled' = polled \cup {held}
  /\ overtook' = [n \in Nodes |->
                    IF Queued(n) THEN overtook[n] \cup {held} ELSE {}]
  /\ UNCHANGED <<list, fresh, result, waking, event, signal>>

\* poll_progress returns Pending, having seen that the event is not there.
PollPending ==
  /\ step = "poll" /\ OwnerFree
  /\ ~event[held]
  /\ Finish(FALSE)
  /\ step' = "none"
  /\ ResultAfterRound(list)
  /\ UNCHANGED <<list, fresh, waking, event, signal, polled, overtook>>

\* poll_progress returns a value: Continue or Break.
PollContinue ==
  /\ step = "poll" /\ OwnerFree
  /\ event' = [event EXCEPT ![held] = FALSE]
  /\ step' = "cont"
  /\ UNCHANGED <<vars, list, fresh, result, waking, signal, polled, overtook>>

\* The task is enqueued again before transform_cont runs.
Reenqueue ==
  /\ step = "cont"
  /\ Claim(Owner, held)
  /\ step' = "transform"
  /\ UNCHANGED <<list, fresh, result, waking, event, signal, polled, overtook>>

PollBreak ==
  /\ step = "poll" /\ OwnerFree
  /\ event' = [event EXCEPT ![held] = FALSE]
  /\ list' = Without(held)
  /\ step' = "broke"
  /\ UNCHANGED <<vars, fresh, result, waking, signal, polled, overtook>>

\* transform_cont or transform_break makes an output of the value, or not.
Transform(some) ==
  /\ step \in {"transform", "broke"} /\ OwnerFree
  /\ Finish(some)
  /\ step' = "none"
  /\ IF some THEN result' = "some" ELSE ResultAfterRound(list)
  /\ UNCHANGED <<list, fresh, waking, event, signal, polled, overtook>>

\* Mutant: the guard of the task survives the panic.
PanicKeepsStep ==
  /\ step \in {"poll", "transform", "broke"} /\ OwnerFree
  /\ list' = Without(held)
  /\ Finish(TRUE)
  /\ result' = "panic"
  /\ UNCHANGED <<fresh, step, waking, event, signal, polled, overtook>>

\* The task's code panics: the AccessGuard (or the Removed) drops the task
\* and the panic leaves poll_next.
Panic ==
  /\ step \in {"poll", "transform", "broke"} /\ OwnerFree
  /\ list' = Without(held)
  /\ Finish(TRUE)
  /\ step' = "none"
  /\ result' = "panic"
  /\ UNCHANGED <<fresh, waking, event, signal, polled, overtook>>

----------------------------------------------------------------------------

PollNextStep ==
  \/ TakeMarker \/ Dequeue \/ SkipRemoved \/ StartPoll \/ PollPending
  \/ PollContinue \/ Reenqueue \/ PollBreak
  \/ (\E some \in BOOLEAN : Transform(some))
  \/ Panic

\* A dropped selector with nothing left to release may rest.
Terminated ==
  /\ phase = "dropped" /\ ~open
  /\ list = <<>> /\ queue = <<>>
  /\ UNCHANGED allVars

SelNext ==
  \/ \E t \in Threads : Notify(t) \/ \E n \in Nodes : Signal(t, n) \/ IdWake(t, n)
  \/ \E p \in Producers : Enqueue(p)
  \/ \E n \in Nodes : OwnerWake(n) \/ Push(n) \/ Remove(n)
  \/ WakeAll \/ WakeNext \/ StartPollNext \/ PollNextStep
  \/ DropSelector \/ DropTask
  \/ (Close \/ DropNode) /\ UNCHANGED selVars
  \/ Terminated

SelSpec == SelInit /\ [][SelNext]_allVars

(***************************************************************************)
(* A thread inside a call goes on, and a thread that made an event happen  *)
(* wakes the task.  A caller that got a value, or caught a panic, and an   *)
(* executor whose task was woken poll again, even if other calls (wake_all *)
(* may be repeated for ever) come first now and then.                      *)
(***************************************************************************)
SelFairness ==
  /\ \A p \in Producers : WF_allVars(Enqueue(p))
  /\ \A t \in Threads : WF_allVars(Notify(t))
  /\ WF_allVars(PollNextStep)
  /\ WF_allVars(WakeNext)
  /\ SF_allVars(StartPollNext /\ (phase = "ready" \/ notified))
  /\ WF_allVars(DropTask)

SelFairSpec == SelSpec /\ SelFairness

----------------------------------------------------------------------------
(* Properties *)

SelTypeOK ==
  /\ QueueTypeOK
  /\ list \in Seq(Nodes) /\ waking \in Seq(Nodes)
  /\ event \in [Nodes -> BOOLEAN]
  /\ signal \in [Threads -> Nodes \cup {Null}]
  /\ step \in Steps /\ result \in Results
  /\ fresh \subseteq Nodes /\ polled \subseteq Nodes
  /\ overtook \in [Nodes -> SUBSET Nodes]
  /\ step # "none" <=> phase = "serving"

\* n will be polled without anyone else doing anything for it.
OnItsWay(n) ==
  \/ Queued(n)
  \/ \E p \in Producers : stage[p] = "claimed" /\ node[p] = n
  \/ held = n /\ (phase = "hold" \/ step \in {"poll", "cont"})

\* A stored task whose event happened will be polled, or is about to be
\* woken: a wakeup that finds the node claimed may return at once, because
\* the claim is given up before the task is polled and not after.
EventNotForgotten ==
  \A n \in Nodes : Stored(n) /\ event[n] /\ open =>
    OnItsWay(n) \/ \E t \in Threads : signal[t] = n

\* A stored task that may not be enqueued again is on its way to be polled.
ClaimedIsComing ==
  \A n \in Nodes : Stored(n) /\ isEnqueued[n] /\ phase # "dropped" => OnItsWay(n)

\* A poll_next that returned Pending is not left without a wakeup while the
\* event of one of its tasks has happened.
NoSleepOverEvents ==
  phase = "parked" /\ (\E n \in Nodes : Stored(n) /\ event[n]) =>
    \/ notified
    \/ \E p \in Producers : stage[p] # "idle"
    \/ \E t \in Threads : signal[t] # Null

\* n is in the queue, or on its way from its claimant to the queue or from
\* the queue to its poll.
Coming(n) ==
  \/ Queued(n)
  \/ \E p \in Producers : stage[p] = "claimed" /\ node[p] = n
  \/ phase = "hold" /\ held = n

\* The list has no task twice, and none that is yet to be pushed; the task
\* being polled is in it until it breaks.
ListKept ==
  /\ \A i, j \in 1..Len(list) : list[i] = list[j] => i = j
  /\ \A n \in fresh : ~Stored(n) /\ ~isEnqueued[n] /\ ~event[n] /\ held # n
  /\ step \in {"poll", "cont", "transform"} => Stored(held)
  /\ step = "broke" => ~Stored(held)
  /\ \A i \in 1..Len(waking) : waking[i] \notin fresh
  /\ \A t \in Threads : signal[t] \notin fresh

ClaimsKept == \A n \in Nodes : Stored(n) /\ isEnqueued[n] /\ open => Coming(n)

EventsKept ==
  \A n \in Nodes : Stored(n) /\ event[n] /\ open =>
    \/ Coming(n)
    \/ held = n /\ step \in {"poll", "cont"}
    \/ \E t \in Threads : signal[t] = n

\* What this poll_next has polled is not ahead of the marker, and what was
\* polled since n was enqueued is not ahead of n.
TurnsKept ==
  /\ phase \in {"drain", "hold", "serving"} => marker # Null
  /\ phase = "hold" => held \notin polled
  /\ phase \in {"snapshot", "drain", "hold", "serving"} /\ held # marker =>
       \A i, j \in 1..Len(queue) :
         i <= j /\ queue[j] = marker => queue[i] \notin polled
  /\ phase = "snapshot" => polled = {}
  /\ phase = "hold" => \A n \in Nodes : Queued(n) => held \notin overtook[n]
  /\ \A i, j \in 1..Len(queue) : i < j => queue[i] \notin overtook[queue[j]]

\* Between two polls the result says whether the caller was put to sleep.
ResultKept ==
  /\ phase = "ready" => result \in {"never", "some", "panic"}
  /\ phase = "parked" => result \in {"none", "pending"}

\* The inductive invariant: the queue, the list and the task being polled
\* agree on who is next.
SelInv ==
  /\ QueueInv /\ SelTypeOK /\ ListKept /\ ClaimsKept /\ EventsKept /\ TurnsKept
  /\ ResultKept

PollOf(n) == phase = "hold" /\ phase' = "serving" /\ held = n

\* One poll_next polls a task at most once, whatever is woken meanwhile: the
\* tasks that yield, wake themselves or are woken by others stay behind the
\* marker, also when the marker's own task has been removed.
PolledOncePerPoll == [][\A n \in Nodes : PollOf(n) => n \notin polled]_allVars

\* "The selector processes ready tasks in a round-robin fashion": no task is
\* polled twice while another one waits in the queue.
RoundRobin ==
  [][\A m, n \in Nodes :
       PollOf(m) /\ Queued(n) /\ m # n => m \notin overtook[n]]_allVars

\* Id::wake "does nothing if the task is no longer stored in the selector",
\* here of the owner between two polls: it begins no enqueue.
WakeOfRemovedDoesNothing ==
  [][\A n \in Nodes :
       Idle /\ stage'[Owner] = "claimed" /\ node'[Owner] = n
         => Stored(n)']_allVars

\* A task that was pushed, yielded or was woken, or whose event happened, is
\* polled again unless it is removed first.
EventuallyPolled ==
  \A n \in Nodes :
    Stored(n) /\ (isEnqueued[n] \/ event[n]) ~>
      ~Stored(n) \/ (held = n /\ phase = "serving")

\* dequeue does not give up for ever on a queue that has tasks: a caller that
\* keeps polling gets on, however often producers race with it.
DrainsGoOn ==
  []<>(phase = "drain" /\ queue # <<>>) => []<>(phase = "hold")

----------------------------------------------------------------------------
(* Refinement *)

\* The nodes in the queue up to the marker; none if it has been dequeued.
MarkerPlace ==
  IF held # marker /\ Queued(marker)
  THEN CHOOSE i \in 1..Len(queue) : queue[i] = marker
  ELSE 0

\* A task that broke is still handled when it is no longer in the list.
PoolStored == {n \in Nodes : Stored(n) \/ (step = "broke" /\ held = n)}
PoolCalled == {n \in Nodes : \E p \in Producers : stage[p] = "claimed" /\ node[p] = n}
PoolStatus ==
  CASE phase = "snapshot"                     -> "starting"
    [] phase \in {"drain", "hold", "serving"} -> "polling"
    [] phase = "dropped"                      -> "dropped"
    [] OTHER                                  -> result
PoolRoused == phase = "parked" /\ (notified \/ \E p \in Producers : Owing(p))

Pool ==
  INSTANCE TaskPool WITH
    stored  <- PoolStored,
    called  <- PoolCalled,
    ready   <- queue,
    status  <- PoolStatus,
    quota   <- MarkerPlace,
    current <- held,
    roused  <- PoolRoused

\* What programs rely on: each poll_next handles what was in the queue when
\* it began, in that order, polls only stored tasks, and does not put its
\* caller to sleep while a task is in the queue without waking it, whatever
\* the races of the queue, the removals and the panics.
ImplementsTaskPool == Pool!PoolSpec
=============================================================================
