------------------------------ MODULE TaskPool ------------------------------
(***************************************************************************)
(* What src/selector.rs promises to the program that uses it: a set of     *)
(* tasks, a FIFO queue of those to be polled, and a poll_next that handles *)
(* what was in the queue when it began.                                    *)
(*                                                                         *)
(* This is the abstract specification.  Selector, poll_next on top of the  *)
(* queue and its races, is shown to implement it, and the modules of the   *)
(* strategies and of the examples are built on its actions.                *)
(***************************************************************************)
EXTENDS Naturals, Sequences

CONSTANTS
  Nodes,  \* the tasks, one node each
  Null    \* no task

ASSUME PoolAssumption == Null \notin Nodes

VARIABLES
  stored,   \* the tasks in the selector
  called,   \* the tasks that were woken and will enter the queue
  ready,    \* the wakeup queue, oldest first
  status,   \* inside poll_next, or what the last poll_next returned
  quota,    \* how many nodes at the front of the queue are left to this poll
  current,  \* the task it is handling
  roused    \* the executor was asked to poll again after "pending" or "none"

poolVars == <<stored, called, ready, status, quota, current, roused>>

Statuses == {"never", "starting", "polling", "some", "none", "pending",
             "panic", "dropped"}

InQueue(t) == \E i \in 1..Len(ready) : ready[i] = t

\* t is in the queue or on its way, or it is the task being handled.
Coming(t) == t \in called \/ InQueue(t) \/ current = t

\* No poll_next is running: the selector's other methods may be called.
Unborrowed == status \notin {"starting", "polling", "dropped"}

\* The caller polls again only if it is asked to.
Asleep(st) == st \in {"none", "pending"}

PoolInit ==
  /\ stored = {} /\ called = {} /\ ready = <<>>
  /\ status = "never" /\ quota = 0 /\ current = Null /\ roused = FALSE

----------------------------------------------------------------------------
(* Tasks come, go and are woken *)

\* The tasks woken by a call: a task in the queue is not enqueued again.
CalledWith(ts) == called \cup {t \in ts : ~InQueue(t)}

\* push for one task, extend and from_iter for several.
Extend(ts) ==
  /\ Unborrowed
  /\ ts \cap stored = {}
  /\ stored' = stored \cup ts
  /\ called' = CalledWith(ts)
  /\ UNCHANGED <<ready, status, quota, current, roused>>

\* remove, extract_if and retain; the task may stay in the queue.
Withdraw(ts) ==
  /\ Unborrowed
  /\ stored' = stored \ ts
  /\ UNCHANGED <<called, ready, status, quota, current, roused>>

\* Removes old and pushes new.
Replace(old, new) ==
  /\ Unborrowed
  /\ stored' = (stored \ old) \cup new
  /\ called' = CalledWith(new)
  /\ UNCHANGED <<ready, status, quota, current, roused>>

\* A waker or an Id is used, by any thread, at any time; wake_all.
WakeTasks(ts) ==
  /\ called' = CalledWith(ts)
  /\ UNCHANGED <<stored, ready, status, quota, current, roused>>

\* Mutant: nobody hears of it.
EnterQuietly(t) ==
  /\ t \in called
  /\ called' = called \ {t}
  /\ ready' = Append(ready, t)
  /\ UNCHANGED <<stored, status, quota, current, roused>>

\* The enqueue of a woken task takes effect; a sleeping caller hears of it.
Enter(t) ==
  /\ t \in called
  /\ called' = called \ {t}
  /\ ready' = Append(ready, t)
  /\ roused' = (roused \/ Asleep(status))
  /\ UNCHANGED <<stored, status, quota, current>>

----------------------------------------------------------------------------
(* poll_next *)

\* The poll ends with st.  A caller put to sleep with tasks in the queue has
\* been, or is going to be, asked to poll again.
EndWith(st) ==
  /\ status' = st
  /\ quota' = 0
  /\ current' = Null
  /\ roused' \in {b \in BOOLEAN : IF Asleep(st) THEN ready' # <<>> => b ELSE ~b}

Outcome == IF stored' = {} THEN "none" ELSE "pending"

CallPollNext ==
  /\ Unborrowed
  /\ status' = "starting"
  /\ roused' = FALSE
  /\ UNCHANGED <<stored, called, ready, quota, current>>

\* Only what is in the queue now is handled by this poll.
TakeStock ==
  /\ status = "starting"
  /\ UNCHANGED <<stored, called, ready>>
  /\ IF ready = <<>>
     THEN EndWith(Outcome)
     ELSE /\ status' = "polling" /\ quota' = Len(ready)
          /\ UNCHANGED <<current, roused>>

\* Mutant: takes a node without getting closer to the marker.
TakeUncounted ==
  /\ status = "polling" /\ current = Null
  /\ ready # <<>>
  /\ current' = Head(ready) /\ ready' = Tail(ready)
  /\ UNCHANGED <<stored, called, status, quota, roused>>

TakeTask ==
  /\ status = "polling" /\ current = Null
  /\ ready # <<>>
  /\ current' = Head(ready) /\ ready' = Tail(ready)
  /\ quota' = quota - 1
  /\ UNCHANGED <<stored, called, status, roused>>

\* The queue is short and an enqueue is in its way: the poll stops early.
GiveUp ==
  /\ status = "polling" /\ current = Null
  /\ UNCHANGED <<stored, called, ready>>
  /\ EndWith(Outcome)
  /\ roused'

\* The current task has been dealt with and no value is returned for it.
Continue ==
  IF quota = 0
  THEN EndWith(Outcome)
  ELSE current' = Null /\ UNCHANGED <<status, quota, roused>>

SkipRemoved ==
  /\ current \notin stored \cup {Null}
  /\ UNCHANGED <<stored, called, ready>>
  /\ Continue

\* What becomes of the polled task: it stays, it stays and is called again,
\* or it leaves; and whether poll_next returns a value for it.  woken are
\* tasks woken by the poll itself.
EndPoll(flow, some, woken) ==
  /\ current \in stored
  /\ stored' = IF flow = "break" THEN stored \ {current} ELSE stored
  /\ called' = CalledWith(woken \cup IF flow = "continue" THEN {current} ELSE {})
  /\ UNCHANGED ready
  /\ IF some THEN EndWith("some") ELSE Continue

\* The task's code panics.
PanicOut ==
  /\ current \in stored
  /\ stored' = stored \ {current}
  /\ UNCHANGED <<called, ready>>
  /\ EndWith("panic")

----------------------------------------------------------------------------
(* Drop *)

DropPool ==
  /\ Unborrowed
  /\ status' = "dropped" /\ roused' = FALSE
  /\ UNCHANGED <<stored, called, ready, quota, current>>

\* The tasks and the contents of the queue are released bit by bit.
Release ==
  /\ status = "dropped"
  /\ stored' \subseteq stored /\ called' \subseteq called
  /\ ready' \in {ready, SubSeq(ready, 2, Len(ready))}
  /\ UNCHANGED <<status, quota, current, roused>>

Flows == {"pending", "continue", "break"}

PoolNext ==
  \/ \E t \in Nodes :
       Extend({t}) \/ Withdraw({t}) \/ WakeTasks({t}) \/ Enter(t)
  \/ CallPollNext \/ TakeStock \/ TakeTask \/ GiveUp \/ SkipRemoved
  \/ \E flow \in Flows, some \in BOOLEAN : EndPoll(flow, some, {})
  \/ PanicOut \/ DropPool \/ Release

PoolSpec == PoolInit /\ [][PoolNext]_poolVars

----------------------------------------------------------------------------
(* Properties *)

PoolTypeOK ==
  /\ stored \subseteq Nodes /\ called \subseteq Nodes /\ ready \in Seq(Nodes)
  /\ status \in Statuses /\ quota \in 0..Len(ready)
  /\ current \in Nodes \cup {Null} /\ roused \in BOOLEAN

\* Inside a poll with no task in hand, there is one to take; outside of one,
\* nothing is in hand and nothing is left to handle.
PollBalanced ==
  /\ status = "polling" /\ current = Null => quota > 0
  /\ status # "polling" => current = Null /\ quota = 0

\* A caller that was told to wait is not left alone with tasks in the queue.
CalledBack == Asleep(status) /\ ready # <<>> => roused

PoolInv == PoolTypeOK /\ PollBalanced /\ CalledBack
=============================================================================
