------------------------------ MODULE StreamMap ------------------------------
(***************************************************************************)
(* examples/map.rs: streams under keys, in a StreamSelector (TaskPool).    *)
(*                                                                         *)
(* Two structures must agree: the map from keys to Ids, and the selector,  *)
(* from which a stream disappears by itself when it ends.  NotifyEnd, the  *)
(* task around a stream, makes that a two-step affair: it first yields its *)
(* key to have it forgotten and ends at the poll after that.               *)
(*                                                                         *)
(* A stream is the receiving end of a channel: external code.              *)
(***************************************************************************)
EXTENDS TaskPool

CONSTANTS
  Keys,     \* the keys of the map
  MaxSent  \* how many items a sender sends

ASSUME MapAssumption == MaxSent \in Nat /\ Null \notin Keys

VARIABLES
  keys,     \* StreamMap::keys, the task under each key
  taskKey,  \* NotifyEnd::key of each task
  buffer,   \* how many items each channel holds
  sent,     \* how many were sent
  closed,   \* the channels closed by the receiver
  hungUp,   \* the channels whose sender is gone
  fresh,    \* the streams not inserted yet
  panicked, \* the streams whose code panicked
  again,    \* the loop in poll_next is going to poll the selector again
  output    \* what the last poll_next returned: a key and its task

mapVars == <<keys, taskKey, buffer, sent, closed, hungUp, fresh, panicked,
             again, output>>
allMapVars == <<poolVars, mapVars>>

NoItem == [key |-> Null, task |-> Null]

MapInit ==
  /\ PoolInit
  /\ keys = [k \in Keys |-> Null]
  /\ taskKey = [t \in Nodes |-> Null]
  /\ buffer = [t \in Nodes |-> 0] /\ sent = [t \in Nodes |-> 0]
  /\ closed = {} /\ hungUp = {}
  /\ fresh = Nodes
  /\ panicked = {}
  /\ again = FALSE
  /\ output = NoItem

----------------------------------------------------------------------------
(* The channels *)

\* The sender may be used before the stream is inserted; then the channel has
\* no waker yet.
Send(t) ==
  /\ t \notin closed \cup hungUp
  /\ sent[t] < MaxSent
  /\ sent' = [sent EXCEPT ![t] = @ + 1]
  /\ buffer' = [buffer EXCEPT ![t] = @ + 1]
  /\ WakeTasks({t} \ fresh)
  /\ UNCHANGED <<keys, taskKey, closed, hungUp, fresh, panicked, again, output>>

\* The last sender is dropped.
HangUp(t) ==
  /\ t \notin hungUp
  /\ hungUp' = hungUp \cup {t}
  /\ WakeTasks({t} \ fresh)
  /\ UNCHANGED <<keys, taskKey, buffer, sent, closed, fresh, panicked, again,
                 output>>

Ended(t) == buffer[t] = 0 /\ t \in closed \cup hungUp

----------------------------------------------------------------------------
(* The methods of StreamMap *)

\* Mutant: the stream that had the key stays in the selector.
InsertKeepingOld(k, t) ==
  /\ t \in fresh
  /\ fresh' = fresh \ {t}
  /\ taskKey' = [taskKey EXCEPT ![t] = k]
  /\ keys' = [keys EXCEPT ![k] = t]
  /\ Replace({}, {t})
  /\ UNCHANGED <<buffer, sent, closed, hungUp, panicked, again, output>>

\* The new stream is pushed, then the one that had the key is removed.
Insert(k, t) ==
  /\ t \in fresh
  /\ fresh' = fresh \ {t}
  /\ taskKey' = [taskKey EXCEPT ![t] = k]
  /\ keys' = [keys EXCEPT ![k] = t]
  /\ Replace({keys[k]}, {t})
  /\ UNCHANGED <<buffer, sent, closed, hungUp, panicked, again, output>>

Remove(k) ==
  /\ keys[k] # Null
  /\ keys' = [keys EXCEPT ![k] = Null]
  /\ Withdraw({keys[k]})
  /\ UNCHANGED <<taskKey, buffer, sent, closed, hungUp, fresh, panicked, again,
                 output>>

\* get_mut, to close the stream as main does: nobody wakes the task.
GetMut(k) ==
  /\ Unborrowed
  /\ keys[k] \in stored
  /\ closed' = closed \cup {keys[k]}
  /\ UNCHANGED <<poolVars, keys, taskKey, buffer, sent, hungUp, fresh, panicked,
                 again, output>>

----------------------------------------------------------------------------
(* poll_next of NotifyEnd, as a task of the selector, and of StreamMap *)

PollEmpty ==
  /\ taskKey[current] # Null
  /\ buffer[current] = 0 /\ ~Ended(current)
  /\ EndPoll("pending", FALSE, {})
  /\ UNCHANGED mapVars

PollItem ==
  /\ taskKey[current] # Null
  /\ buffer[current] > 0
  /\ buffer' = [buffer EXCEPT ![current] = @ - 1]
  /\ output' = [key |-> taskKey[current], task |-> current]
  /\ EndPoll("continue", TRUE, {})
  /\ UNCHANGED <<keys, taskKey, sent, closed, hungUp, fresh, panicked, again>>

\* Mutant: the key stays in NotifyEnd.
PollEndCloned ==
  /\ taskKey[current] # Null
  /\ Ended(current)
  /\ keys' = [keys EXCEPT ![taskKey[current]] = Null]
  /\ EndPoll("continue", TRUE, {})
  /\ again' = TRUE
  /\ UNCHANGED <<taskKey, buffer, sent, closed, hungUp, fresh, panicked, output>>

\* The end of the stream: NotifyEnd yields its key a last time, and the loop
\* in StreamMap::poll_next forgets it before it polls the selector again.
PollEnd ==
  /\ taskKey[current] # Null
  /\ Ended(current)
  /\ taskKey' = [taskKey EXCEPT ![current] = Null]
  /\ keys' = [keys EXCEPT ![taskKey[current]] = Null]
  /\ EndPoll("continue", TRUE, {})
  /\ again' = TRUE
  /\ UNCHANGED <<buffer, sent, closed, hungUp, fresh, panicked, output>>

\* The poll after that.
PollKeyless ==
  /\ taskKey[current] = Null
  /\ EndPoll("break", FALSE, {})
  /\ UNCHANGED mapVars

\* The code of the stream panics: the selector drops the task.
PollPanic ==
  /\ PanicOut
  /\ panicked' = panicked \cup {current}
  /\ UNCHANGED <<keys, taskKey, buffer, sent, closed, hungUp, fresh, again, output>>

PollNotifyEnd ==
  /\ current \in stored
  /\ PollEmpty \/ PollItem \/ PollEnd \/ PollKeyless \/ PollPanic

MapPollStep ==
  \/ (TakeStock \/ TakeTask \/ GiveUp \/ SkipRemoved) /\ UNCHANGED mapVars
  \/ PollNotifyEnd

MapPollAgain ==
  /\ CallPollNext
  /\ again' = FALSE /\ output' = NoItem
  /\ UNCHANGED <<keys, taskKey, buffer, sent, closed, hungUp, fresh, panicked>>

----------------------------------------------------------------------------

\* The map is not borrowed by its own poll_next.
Methods ==
  /\ Unborrowed /\ ~again
  /\ \E k \in Keys :
       Remove(k) \/ GetMut(k) \/ \E t \in Nodes : Insert(k, t)

MapNext ==
  \/ \E t \in Nodes : Send(t) \/ HangUp(t) \/ (Enter(t) /\ UNCHANGED mapVars)
  \/ Methods
  \/ MapPollAgain \/ MapPollStep

MapSpec == MapInit /\ [][MapNext]_allMapVars

(***************************************************************************)
(* As in Strategies; the loop of poll_next polls the selector again by     *)
(* itself.  No stream has to end and no method has to be called.           *)
(***************************************************************************)
MapFairness ==
  /\ \A t \in Nodes : WF_allMapVars(Enter(t) /\ UNCHANGED mapVars)
  /\ WF_allMapVars(MapPollStep)
  /\ SF_allMapVars(TakeTask /\ UNCHANGED mapVars)
  /\ SF_allMapVars(MapPollAgain /\ (roused \/ ~Asleep(status)))

MapFairSpec == MapSpec /\ MapFairness

----------------------------------------------------------------------------
(* Properties *)

MapTypeOK ==
  /\ PoolTypeOK
  /\ again \in BOOLEAN
  /\ keys \in [Keys -> Nodes \cup {Null}]
  /\ taskKey \in [Nodes -> Keys \cup {Null}]
  /\ buffer \in [Nodes -> 0..MaxSent] /\ sent \in [Nodes -> 0..MaxSent]
  /\ closed \cup hungUp \cup fresh \cup panicked \subseteq Nodes
  /\ output \in [key : Keys \cup {Null}, task : Nodes \cup {Null}]

\* The two structures agree whenever a method may be called: a key refers to
\* the stored stream that carries it (main unwraps get_mut and remove), and a
\* stored stream that has not announced its end is reachable by its key.  Only
\* a panic, which takes a task out behind the map's back, leaves a stale key.
KeysAgree ==
  /\ \A k \in Keys : keys[k] # Null =>
       keys[k] \in panicked \/ (keys[k] \in stored /\ taskKey[keys[k]] = k)
  /\ \A t \in stored : taskKey[t] # Null => keys[taskKey[t]] = t

\* A stream is where it can be: not inserted, stored, or lost to a panic.
StreamsPlaced ==
  /\ fresh \cap (stored \cup panicked) = {}
  /\ panicked \cap stored = {}

BufferSent == \A t \in Nodes : buffer[t] <= sent[t]

\* A stored stream that holds an item, has lost its senders or has announced
\* its end is going to be polled.
NewsComing ==
  \A t \in stored :
    buffer[t] > 0 \/ t \in hungUp \/ taskKey[t] = Null => Coming(t)

\* All of this is invariant together: the pool's order, the agreement of map
\* and selector, and that nothing a stream has to say is slept over.
MapInv ==
  /\ MapTypeOK /\ PoolInv
  /\ KeysAgree
  /\ StreamsPlaced /\ BufferSent /\ NewsComing

\* An item comes from the stream that is under its key: not from one that was
\* removed or replaced, however late its wakeup takes effect.
ItemsOfTheMapped ==
  [][output' # output /\ output' # NoItem => keys[output'.key] = output'.task]_allMapVars

\* A stream whose senders are gone is forgotten, by the selector and by the
\* map, once its items have been taken.
EndedForgotten ==
  \A t \in Nodes : t \in hungUp ~>
    t \notin stored /\ (t \in panicked \/ \A k \in Keys : keys[k] # t)
=============================================================================
