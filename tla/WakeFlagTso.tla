---------------------------- MODULE WakeFlagTso ----------------------------
(***************************************************************************)
(* The is_enqueued flag of src/queue.rs under total store order, the       *)
(* memory model of x86-64.                                                 *)
(*                                                                         *)
(* Dequeued::into_inner gives the claim on a node up with a plain release  *)
(* store, and poll_next polls the task next.  On x86-64 such a store sits  *)
(* in the store buffer of the receiver's processor, from where it reaches  *)
(* memory later: the poll may read the state of its event before another   *)
(* processor can see the flag cleared.  An atomic swap, as in enqueue,     *)
(* waits until the buffer of its own processor is empty.                   *)
(*                                                                         *)
(* The queue is the sequence that WakeupQueue promises, and an enqueue     *)
(* that won the claim takes one step: nothing here depends on its middle.  *)
(* The receiver polls whenever a node is in the queue, so a task that is   *)
(* not polled is one whose node is not there.                              *)
(***************************************************************************)
EXTENDS Naturals, Sequences

CONSTANTS
  Nodes,        \* one node for each task
  Threads,      \* the threads that wake tasks
  PollsWithRmw, \* whether a poll executes an atomic read-modify-write before
                \* it reads its event, as AtomicWaker::register does
  Null

ASSUME TsoAssumption == Null \notin Nodes /\ PollsWithRmw \in BOOLEAN

VARIABLES
  queue,       \* the nodes in the queue, oldest first
  isEnqueued,  \* Node::is_enqueued, as other processors see it
  buffer,      \* nodes whose flag the receiver has cleared, not yet in memory
  event,       \* what each task waits for has happened
  pc,          \* where poll_next is with the dequeued node
  held,        \* that node
  target       \* the task whose event a thread set and will now wake

vars == <<queue, isEnqueued, buffer, event, pc, held, target>>

Queued(n) == \E i \in 1..Len(queue) : queue[i] = n

Init ==
  /\ queue = <<>>
  /\ isEnqueued = [n \in Nodes |-> FALSE]
  /\ buffer = <<>>
  /\ event = [n \in Nodes |-> FALSE]
  /\ pc = "loop" /\ held = Null
  /\ target = [t \in Threads |-> Null]

\* is_enqueued.swap(true), and the enqueue if the flag was clear.
Enqueue(n) ==
  /\ isEnqueued' = [isEnqueued EXCEPT ![n] = TRUE]
  /\ queue' = IF isEnqueued[n] THEN queue ELSE Append(queue, n)

----------------------------------------------------------------------------
(* The other threads; a wake needs no more than an Id *)

\* The event happens, in memory: the thread sets it with a swap or its swap
\* on is_enqueued pushes it out before it reads the flag.
Signal(t, n) ==
  /\ target[t] = Null
  /\ event' = [event EXCEPT ![n] = TRUE]
  /\ target' = [target EXCEPT ![t] = n]
  /\ UNCHANGED <<queue, isEnqueued, buffer, pc, held>>

\* ... and then the thread wakes the task.
Notify(t) ==
  /\ target[t] # Null
  /\ Enqueue(target[t])
  /\ target' = [target EXCEPT ![t] = Null]
  /\ UNCHANGED <<buffer, event, pc, held>>

\* A push or a wake without an event.
IdWake(n) ==
  /\ Enqueue(n)
  /\ UNCHANGED <<buffer, event, pc, held, target>>

----------------------------------------------------------------------------
(* The receiver *)

Dequeue ==
  /\ pc = "loop"
  /\ queue # <<>>
  /\ held' = Head(queue) /\ queue' = Tail(queue)
  /\ pc' = "dequeued"
  /\ UNCHANGED <<isEnqueued, buffer, event, target>>

\* Mutant: the flag is cleared after the poll.
IntoInnerLate ==
  /\ pc = "dequeued"
  /\ pc' = "poll"
  /\ UNCHANGED <<queue, isEnqueued, buffer, event, held, target>>

\* Dequeued::into_inner
IntoInner ==
  /\ pc = "dequeued"
  /\ buffer' = Append(buffer, held)
  /\ pc' = "poll"
  /\ UNCHANGED <<queue, isEnqueued, event, held, target>>

\* The processor writes the oldest buffered store to memory.
Drain ==
  /\ buffer # <<>>
  /\ isEnqueued' = [isEnqueued EXCEPT ![Head(buffer)] = FALSE]
  /\ buffer' = Tail(buffer)
  /\ UNCHANGED <<queue, event, pc, held, target>>

\* The task registers the waker of its context.
PollTask ==
  /\ pc = "poll"
  /\ PollsWithRmw => buffer = <<>>
  /\ pc' = "check"
  /\ UNCHANGED <<queue, isEnqueued, buffer, event, held, target>>

\* It loads its event from memory and returns Pending ...
PollPending ==
  /\ pc = "check"
  /\ ~event[held]
  /\ pc' = "loop" /\ held' = Null
  /\ UNCHANGED <<queue, isEnqueued, buffer, event, target>>

\* ... or takes it and returns a value,
PollReady ==
  /\ pc = "check"
  /\ event[held]
  /\ event' = [event EXCEPT ![held] = FALSE]
  /\ pc' = "again"
  /\ UNCHANGED <<queue, isEnqueued, buffer, held, target>>

\* for which poll_next enqueues it again.
Reenqueue ==
  /\ pc = "again"
  /\ buffer = <<>>
  /\ Enqueue(held)
  /\ pc' = "loop" /\ held' = Null
  /\ UNCHANGED <<buffer, event, target>>

----------------------------------------------------------------------------

Next ==
  \/ \E t \in Threads : Notify(t) \/ \E n \in Nodes : Signal(t, n)
  \/ \E n \in Nodes : IdWake(n)
  \/ Dequeue \/ IntoInner \/ Drain \/ PollTask \/ PollPending \/ PollReady
  \/ Reenqueue

Spec == Init /\ [][Next]_vars

\* A task is polled after its waker received a wakeup (the documentation of
\* Selector): once every thread that made its event happen has also woken it,
\* its node is in the queue or it is yet to look at the event.  An enqueue
\* may do nothing "if the node is already in the queue", not because the
\* clearing of is_enqueued has still to reach memory.
WokenIsPolled ==
  \A n \in Nodes :
    event[n] /\ (\A t \in Threads : target[t] # n) =>
      Queued(n) \/ (held = n /\ pc \in {"dequeued", "poll", "check"})
=============================================================================
