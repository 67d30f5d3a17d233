--------------------------- MODULE TaskPoolProofs ---------------------------
(***************************************************************************)
(* Proofs about TaskPool and the programs that run on it, for any sets of  *)
(* tasks, keys and families of strategies and any lengths: the pool keeps  *)
(* count of what a poll may still handle, the strategies neither lose nor  *)
(* repeat an item, the map of streams agrees with its selector, and the    *)
(* goodbye message arrives whole and in order.                             *)
(***************************************************************************)
EXTENDS Strategies, StreamMap, CustomTask, SequenceLemmas

----------------------------------------------------------------------------
(* The pool *)

LEMMA InitPool == PoolInit => PoolInv
<1> SUFFICES ASSUME PoolInit PROVE PoolInv
  OBVIOUS
<1>1. ready = <<>> /\ ready \in Seq(Nodes) /\ Len(ready) = 0
  BY DEF PoolInit
<1>2. quota \in 0..Len(ready)
  BY <1>1 DEF PoolInit
<1>3. PoolTypeOK
  BY <1>1, <1>2 DEF PoolInit, PoolTypeOK, Statuses
<1>4. PollBalanced
  BY DEF PoolInit, PollBalanced
<1> QED
  BY <1>3, <1>4 DEF PoolInv, PoolInit, CalledBack

\* What PoolInv says with the length of the queue as a number.
LEMMA PoolKnown ==
  ASSUME PoolInv
  PROVE  /\ stored \subseteq Nodes /\ called \subseteq Nodes
         /\ ready \in Seq(Nodes) /\ Len(ready) \in Nat
         /\ status \in Statuses /\ quota \in Nat /\ quota <= Len(ready)
         /\ current \in Nodes \cup {Null} /\ roused \in BOOLEAN
<1>1. Len(ready) \in Nat
  BY DEF PoolInv, PoolTypeOK
<1> QED
  BY <1>1 DEF PoolInv, PoolTypeOK

\* Tasks come, go and are woken: the poll in progress is not concerned.
LEMMA CallsKeepPool ==
  ASSUME PoolInv,
         stored' \subseteq Nodes, called' \subseteq Nodes,
         UNCHANGED <<ready, quota, current>>, roused' \in BOOLEAN,
         \/ UNCHANGED <<status, roused>>
         \/ Unborrowed /\ status' \in {"starting", "dropped"}
  PROVE  PoolInv'
<1>1. status' \in Statuses
  BY PoolKnown DEF Statuses
<1>2. PoolTypeOK'
  BY <1>1 DEF PoolInv, PoolTypeOK
<1>3. PollBalanced'
  BY DEF PoolInv, PollBalanced, Unborrowed
<1>4. CalledBack'
  BY DEF PoolInv, CalledBack, Asleep
<1> QED
  BY <1>2, <1>3, <1>4 DEF PoolInv

LEMMA ExtendPool ==
  ASSUME PoolInv, NEW ts \in SUBSET Nodes, Extend(ts)
  PROVE  PoolInv'
  BY CallsKeepPool, PoolKnown DEF Extend, CalledWith

LEMMA WithdrawPool ==
  ASSUME PoolInv, NEW ts, Withdraw(ts)
  PROVE  PoolInv'
  BY CallsKeepPool, PoolKnown DEF Withdraw

LEMMA ReplacePool ==
  ASSUME PoolInv, NEW old, NEW new \in SUBSET Nodes, Replace(old, new)
  PROVE  PoolInv'
  BY CallsKeepPool, PoolKnown DEF Replace, CalledWith

LEMMA WakePool ==
  ASSUME PoolInv, NEW ts \in SUBSET Nodes, WakeTasks(ts)
  PROVE  PoolInv'
  BY CallsKeepPool, PoolKnown DEF WakeTasks, CalledWith

LEMMA CallPool ==
  ASSUME PoolInv, CallPollNext
  PROVE  PoolInv'
  BY CallsKeepPool, PoolKnown DEF CallPollNext

LEMMA EnterPool ==
  ASSUME PoolInv, NEW t \in Nodes, Enter(t)
  PROVE  PoolInv'
<1>1. /\ ready' \in Seq(Nodes) /\ Len(ready') = Len(ready) + 1
      /\ called' \subseteq Nodes /\ roused' \in BOOLEAN
  BY PoolKnown, AppendCell DEF Enter
<1>2. quota' \in 0..Len(ready')
  BY <1>1, PoolKnown DEF Enter
<1> QED
  BY <1>1, <1>2 DEF PoolInv, PoolTypeOK, PollBalanced, CalledBack, Asleep, Enter

\* A poll ends with st; the queue and the tasks are as before or fewer.
LEMMA EndKeepsPool ==
  ASSUME stored' \subseteq Nodes, called' \subseteq Nodes, ready' \in Seq(Nodes),
         NEW st \in Statuses \ {"polling"}, EndWith(st)
  PROVE  PoolInv'
<1>1. Len(ready') \in Nat
  OBVIOUS
<1>2. /\ status' = st /\ quota' = 0 /\ current' = Null
      /\ roused' \in BOOLEAN
      /\ Asleep(st) /\ ready' # <<>> => roused'
  BY DEF EndWith
<1> QED
  BY <1>1, <1>2 DEF PoolInv, PoolTypeOK, PollBalanced, CalledBack, Asleep

\* The task in hand is dealt with.
LEMMA ContinueKeepsPool ==
  ASSUME PoolInv, current # Null, Continue,
         stored' \subseteq Nodes, called' \subseteq Nodes, UNCHANGED ready
  PROVE  PoolInv'
<1>1. CASE quota = 0
  <2>1. EndWith(Outcome) /\ Outcome \in Statuses \ {"polling"}
    BY <1>1 DEF Continue, Outcome, Statuses
  <2>2. ready' \in Seq(Nodes)
    BY PoolKnown
  <2> QED
    BY <2>1, <2>2, EndKeepsPool
<1>2. CASE quota # 0
  <2>1. current' = Null /\ UNCHANGED <<status, quota, roused>>
    BY <1>2 DEF Continue
  <2>2. status = "polling" /\ quota > 0
    BY <1>2, PoolKnown DEF PoolInv, PollBalanced
  <2> QED
    BY <2>1, <2>2 DEF PoolInv, PoolTypeOK, PollBalanced, CalledBack, Asleep
<1> QED
  BY <1>1, <1>2

\* How poll_next begins, and how it ends without a task.
LEMMA TakeStockPool ==
  ASSUME PoolInv, TakeStock
  PROVE  PoolInv'
<1>1. /\ status = "starting" /\ UNCHANGED <<stored, called, ready>>
      /\ quota = 0 /\ current = Null
  BY DEF TakeStock, PoolInv, PollBalanced
<1>2. CASE ready = <<>>
  <2>1. EndWith(Outcome) /\ Outcome \in Statuses \ {"polling"}
    BY <1>2 DEF TakeStock, Outcome, Statuses
  <2> QED
    BY <1>1, <2>1, EndKeepsPool, PoolKnown
<1>3. CASE ready # <<>>
  <2>1. status' = "polling" /\ quota' = Len(ready) /\ UNCHANGED <<current, roused>>
    BY <1>3 DEF TakeStock
  <2>2. Len(ready) \in Nat \ {0}
    BY <1>3, PoolKnown, EmptySeq
  <2>3. quota' \in 0..Len(ready')
    BY <1>1, <2>1, <2>2
  <2> QED
    BY <1>1, <2>1, <2>2, <2>3 DEF PoolInv, PoolTypeOK, PollBalanced, CalledBack, Asleep,
                                  Statuses
<1> QED
  BY <1>2, <1>3

LEMMA TakeTaskPool ==
  ASSUME PoolInv, TakeTask
  PROVE  PoolInv' /\ current' \in Nodes
<1>1. /\ status = "polling" /\ current = Null /\ ready # <<>>
      /\ current' = Head(ready) /\ ready' = Tail(ready) /\ quota' = quota - 1
      /\ UNCHANGED <<stored, called, status, roused>>
  BY DEF TakeTask
<1>2. quota \in Nat /\ quota > 0 /\ quota <= Len(ready)
  BY <1>1, PoolKnown DEF PoolInv, PollBalanced
<1>3. current' \in Nodes
  BY <1>1, PoolKnown
<1>4. ready' \in Seq(Nodes) /\ Len(ready) \in Nat /\ Len(ready') = Len(ready) - 1
  BY <1>1, PoolKnown, TailCell
<1>5. quota' \in 0..Len(ready')
  BY <1>1, <1>2, <1>4
<1> QED
  BY <1>1, <1>3, <1>4, <1>5, PoolAssumption
  DEF PoolInv, PoolTypeOK, PollBalanced, CalledBack, Asleep

LEMMA GiveUpPool ==
  ASSUME PoolInv, GiveUp
  PROVE  PoolInv'
<1>1. EndWith(Outcome) /\ Outcome \in Statuses \ {"polling"}
  BY DEF GiveUp, Outcome, Statuses
<1> QED
  BY <1>1, EndKeepsPool, PoolKnown DEF GiveUp

LEMMA SkipPool ==
  ASSUME PoolInv, SkipRemoved
  PROVE  PoolInv'
  BY ContinueKeepsPool, PoolKnown DEF SkipRemoved

\* Whatever becomes of the polled task.
LEMMA EndPollPool ==
  ASSUME PoolInv, NEW flow, NEW some, NEW woken \in SUBSET Nodes,
         EndPoll(flow, some, woken)
  PROVE  PoolInv' /\ current \in Nodes
<1>1. current \in stored /\ current \in Nodes /\ current # Null /\ UNCHANGED ready
  BY PoolKnown, PoolAssumption DEF EndPoll
<1>2. stored' \subseteq Nodes /\ called' \subseteq Nodes /\ ready' \in Seq(Nodes)
  BY <1>1, PoolKnown DEF EndPoll, CalledWith
<1>3. CASE some
  <2>1. EndWith("some") /\ "some" \in Statuses \ {"polling"}
    BY <1>3 DEF EndPoll, Statuses
  <2> QED
    BY <1>1, <1>2, <2>1, EndKeepsPool
<1>4. CASE ~some
  <2>1. Continue
    BY <1>4 DEF EndPoll
  <2> QED
    BY <1>1, <1>2, <2>1, ContinueKeepsPool
<1> QED
  BY <1>3, <1>4

\* A poll that wakes no other task itself.
LEMMA PolledPool ==
  ASSUME PoolInv
  PROVE  \A flow, some : EndPoll(flow, some, {}) => PoolInv' /\ current \in Nodes
<1>1. {} \in SUBSET Nodes
  OBVIOUS
<1> QED
  BY <1>1, EndPollPool

LEMMA PanicPool ==
  ASSUME PoolInv, PanicOut
  PROVE  PoolInv'
<1>1. EndWith("panic") /\ "panic" \in Statuses \ {"polling"}
  BY DEF PanicOut, Statuses
<1> QED
  BY <1>1, EndKeepsPool, PoolKnown DEF PanicOut

\* Whoever is coming to be polled still is after a step, until it is polled.
LEMMA WakeComing ==
  ASSUME NEW ts, called' = CalledWith(ts), UNCHANGED <<ready, current>>
  PROVE  /\ \A u : Coming(u) => Coming(u)'
         /\ \A u \in ts : Coming(u)'
  BY DEF CalledWith, Coming, InQueue

LEMMA EnterComing ==
  ASSUME PoolInv, NEW t \in Nodes, Enter(t)
  PROVE  /\ PoolInv' /\ stored' = stored /\ status' = status
         /\ \A u : Coming(u) => Coming(u)'
<1>1. PoolInv' /\ stored' = stored /\ status' = status
  BY EnterPool DEF Enter
<1>2. /\ called' = called \ {t} /\ current' = current
      /\ ready \in Seq(Nodes) /\ ready' = Append(ready, t)
  BY PoolKnown DEF Enter
<1>3. PICK n \in Nat : n = Len(ready)
  BY <1>2
<1>4. /\ Len(ready') = n + 1 /\ ready'[n + 1] = t
      /\ \A i \in 1..n : ready'[i] = ready[i]
  BY <1>2, <1>3, AppendCell
<1>5. n + 1 \in 1..n + 1 /\ \A i \in 1..n : i \in 1..n + 1
  OBVIOUS
<1>6. \A u : InQueue(u) \/ u = t => InQueue(u)'
  BY <1>3, <1>4, <1>5 DEF InQueue
<1> QED
  BY <1>1, <1>2, <1>6 DEF Coming

LEMMA TakeTaskComing ==
  ASSUME PoolInv, TakeTask
  PROVE  \A u \in Nodes : Coming(u) => Coming(u)'
<1>1. /\ ready \in Seq(Nodes) /\ ready # <<>> /\ current = Null
      /\ called' = called /\ current' = Head(ready) /\ ready' = Tail(ready)
  BY PoolKnown DEF TakeTask
<1>2. PICK n \in Nat : n = Len(ready) /\ n >= 1
  BY <1>1, TailCell
<1>3. /\ Len(ready') = n - 1 /\ \A i \in 1..n - 1 : ready'[i] = ready[i + 1]
      /\ current' = ready[1]
  BY <1>1, <1>2, TailCell
<1>4. ASSUME NEW u, InQueue(u) PROVE u = current' \/ InQueue(u)'
  <2>1. PICK i \in 1..n : ready[i] = u
    BY <1>2, <1>4 DEF InQueue
  <2>2. CASE i = 1
    BY <1>3, <2>1, <2>2
  <2>3. CASE i # 1
    <3>1. PICK j \in Nat : j + 1 = i
      BY <2>1, <2>3
    <3>2. j \in 1..n - 1
      BY <1>2, <2>1, <2>3, <3>1
    <3> QED
      BY <1>3, <2>1, <3>1, <3>2 DEF InQueue
  <2> QED
    BY <2>2, <2>3
<1> QED
  BY <1>1, <1>4, PoolAssumption DEF Coming

\* The steps of poll_next around a poll.
LEMMA DrainComing ==
  ASSUME PoolInv,
         CallPollNext \/ TakeStock \/ TakeTask \/ GiveUp \/ SkipRemoved
  PROVE  /\ PoolInv' /\ stored' = stored /\ \A u \in stored : Coming(u) => Coming(u)'
         /\ CallPollNext \/ status # "none"
         /\ status' = "none" => stored' = {}
<1>1. PoolInv'
  BY CallPool, TakeStockPool, TakeTaskPool, GiveUpPool, SkipPool
<1>2. stored' = stored
  BY DEF CallPollNext, TakeStock, TakeTask, GiveUp, SkipRemoved
<1>3. ASSUME CallPollNext PROVE \A u \in stored : Coming(u) => Coming(u)'
  BY <1>3 DEF CallPollNext, Coming, InQueue
<1>4. ASSUME TakeTask PROVE \A u \in stored : Coming(u) => Coming(u)'
  BY <1>4, TakeTaskComing, PoolKnown
<1>5. ASSUME TakeStock \/ GiveUp \/ SkipRemoved
      PROVE  \A u \in stored : Coming(u) => Coming(u)'
  <2>1. /\ current \notin stored
        /\ UNCHANGED <<called, ready>>
    BY <1>5, PoolKnown, PoolAssumption
    DEF TakeStock, GiveUp, SkipRemoved, PoolInv, PollBalanced
  <2> QED
    BY <2>1 DEF Coming, InQueue
<1>6. /\ CallPollNext \/ status # "none"
      /\ CallPollNext => status' # "none"
      /\ TakeTask => status' # "none"
  BY DEF CallPollNext, TakeStock, TakeTask, GiveUp, SkipRemoved, PoolInv, PollBalanced
<1>7. ASSUME TakeStock \/ GiveUp \/ SkipRemoved PROVE status' = "none" => stored' = {}
  <2>1. \/ EndWith(Outcome)
        \/ status' = "polling"
        \/ UNCHANGED status
    BY <1>7 DEF TakeStock, GiveUp, SkipRemoved, Continue
  <2>2. UNCHANGED status => status' # "none"
    BY <1>7 DEF TakeStock, GiveUp, SkipRemoved, PoolInv, PollBalanced
  <2> QED
    BY <2>1, <2>2 DEF EndWith, Outcome
<1> QED
  BY <1>1, <1>2, <1>3, <1>4, <1>5, <1>6, <1>7

\* A poll: the others are still coming, and so is the task if it is called again.
LEMMA PolledComing ==
  ASSUME PoolInv
  PROVE  \A flow, some : EndPoll(flow, some, {}) =>
           /\ PoolInv' /\ current \in stored /\ current \in Nodes
           /\ stored' = IF flow = "break" THEN stored \ {current} ELSE stored
           /\ \A u \in stored \ {current} : Coming(u) => Coming(u)'
           /\ flow = "continue" => \A u \in {current} : Coming(u)'
           /\ status' = "none" => stored' = {}
<1> SUFFICES ASSUME NEW flow, NEW some, EndPoll(flow, some, {})
             PROVE  /\ PoolInv' /\ current \in stored /\ current \in Nodes
                    /\ stored' = IF flow = "break" THEN stored \ {current} ELSE stored
                    /\ \A u \in stored \ {current} : Coming(u) => Coming(u)'
                    /\ flow = "continue" => \A u \in {current} : Coming(u)'
                    /\ status' = "none" => stored' = {}
  OBVIOUS
<1>1. PoolInv' /\ current \in Nodes
  BY PolledPool
<1>2. /\ current \in stored
      /\ stored' = IF flow = "break" THEN stored \ {current} ELSE stored
      /\ called' = CalledWith({} \cup IF flow = "continue" THEN {current} ELSE {})
      /\ UNCHANGED ready
  BY DEF EndPoll
<1>3. called \subseteq called' /\ (flow = "continue" => current \in called' \/ InQueue(current))
  BY <1>2 DEF CalledWith
<1>4. status' = "none" => stored' = {}
  <2>1. status # "none"
    BY <1>2, PoolKnown, PoolAssumption DEF PoolInv, PollBalanced
  <2>2. EndWith("some") \/ EndWith(Outcome) \/ UNCHANGED status
    BY DEF EndPoll, Continue
  <2> QED
    BY <2>1, <2>2 DEF EndWith, Outcome
<1> QED
  BY <1>1, <1>2, <1>3, <1>4 DEF Coming, InQueue

LEMMA PanicComing ==
  ASSUME PoolInv, PanicOut
  PROVE  /\ PoolInv' /\ current \in Nodes /\ stored' = stored \ {current}
         /\ \A u \in stored \ {current} : Coming(u) => Coming(u)'
<1>1. PoolInv'
  BY PanicPool
<1> QED
  BY <1>1, PoolKnown DEF PanicOut, Coming, InQueue

LEMMA StillPool ==
  ASSUME PoolInv, UNCHANGED poolVars
  PROVE  /\ PoolInv' /\ stored' = stored /\ status' = status
         /\ \A u : Coming(u) => Coming(u)'
<1>1. UNCHANGED <<stored, called, ready, status, quota, current, roused>>
  BY DEF poolVars
<1>2. PoolInv'
  BY <1>1 DEF PoolInv, PoolTypeOK, PollBalanced, CalledBack
<1>3. \A u : Coming(u) => Coming(u)'
  BY <1>1 DEF Coming, InQueue
<1> QED
  BY <1>1, <1>2, <1>3

LEMMA DropKeepsPool ==
  ASSUME PoolInv, DropPool
  PROVE  PoolInv'
  BY CallsKeepPool, PoolKnown DEF DropPool

LEMMA ReleasePool ==
  ASSUME PoolInv, Release
  PROVE  PoolInv'
<1>1. /\ status = "dropped" /\ UNCHANGED <<status, quota, current, roused>>
      /\ stored' \subseteq Nodes /\ called' \subseteq Nodes
      /\ quota = 0
  BY PoolKnown DEF Release, PoolInv, PollBalanced
<1>2. ready' \in Seq(Nodes) /\ Len(ready') \in Nat
  <2>1. SubSeq(ready, 2, Len(ready)) \in Seq(Nodes)
    BY PoolKnown, SubSeqProperties
  <2>2. ready' = ready \/ ready' = SubSeq(ready, 2, Len(ready))
    BY DEF Release
  <2>3. \/ ready' \in Seq(Nodes)
        \/ ready' = SubSeq(ready, 2, Len(ready))
    BY <2>2, PoolKnown
  <2>4. ready' \in Seq(Nodes)
    BY <2>1, <2>3
  <2> QED
    BY <2>4
<1>3. quota' \in 0..Len(ready')
  BY <1>1, <1>2
<1> QED
  BY <1>1, <1>2, <1>3 DEF PoolInv, PoolTypeOK, PollBalanced, CalledBack, Asleep

\* TaskPool: the types, the quota within the queue, and the balance of a poll.
LEMMA NextPool ==
  ASSUME PoolInv, [PoolNext]_poolVars
  PROVE  PoolInv'
<1>1. CASE \E t \in Nodes :
             Extend({t}) \/ Withdraw({t}) \/ WakeTasks({t}) \/ Enter(t)
  BY <1>1, ExtendPool, WithdrawPool, WakePool, EnterPool
<1>2. CASE CallPollNext
  BY <1>2, CallPool
<1>3. CASE TakeStock
  BY <1>3, TakeStockPool
<1>4. CASE TakeTask
  BY <1>4, TakeTaskPool
<1>5. CASE GiveUp
  BY <1>5, GiveUpPool
<1>6. CASE SkipRemoved
  BY <1>6, SkipPool
<1>7. CASE \E flow \in Flows, some \in BOOLEAN : EndPoll(flow, some, {})
  BY <1>7, EndPollPool
<1>8. CASE PanicOut
  BY <1>8, PanicPool
<1>9. CASE DropPool
  BY <1>9, DropKeepsPool
<1>10. CASE Release
  BY <1>10, ReleasePool
<1>11. CASE UNCHANGED poolVars
  BY <1>11 DEF poolVars, PoolInv, PoolTypeOK, PollBalanced, CalledBack
<1> QED
  BY <1>1, <1>2, <1>3, <1>4, <1>5, <1>6, <1>7, <1>8, <1>9, <1>10, <1>11
  DEF PoolNext

\* What Selector implements never handles more in a poll than what was in the
\* queue when it began (the marker of drain_with_marker), and is always left
\* with no task in hand.
THEOREM PoolCorrect == PoolSpec => []PoolInv
<1>1. PoolInv /\ [PoolNext]_poolVars => PoolInv'
  BY NextPool
<1> QED
  BY <1>1, InitPool, PTL DEF PoolSpec

----------------------------------------------------------------------------
(* The map of streams *)

LEMMA InitMap == MapInit => MapInv
<1> SUFFICES ASSUME MapInit PROVE MapInv
  OBVIOUS
<1>1. PoolInv /\ PoolTypeOK
  BY InitPool DEF MapInit, PoolInv
<1>2. 0 \in 0..MaxSent
  BY MapAssumption
<1>3. MapTypeOK
  BY <1>1, <1>2 DEF MapInit, MapTypeOK, NoItem
<1> QED
  BY <1>1, <1>3
  DEF MapInit, PoolInit, MapInv, KeysAgree, StreamsPlaced, BufferSent, NewsComing

\* What MapInv says, as facts about the functions.
LEMMA MapKnown ==
  ASSUME MapInv
  PROVE  /\ PoolInv /\ stored \subseteq Nodes
         /\ again \in BOOLEAN
         /\ keys \in [Keys -> Nodes \cup {Null}]
         /\ taskKey \in [Nodes -> Keys \cup {Null}]
         /\ buffer \in [Nodes -> 0..MaxSent] /\ sent \in [Nodes -> 0..MaxSent]
         /\ closed \subseteq Nodes /\ hungUp \subseteq Nodes
         /\ fresh \subseteq Nodes /\ panicked \subseteq Nodes
         /\ output \in [key : Keys \cup {Null}, task : Nodes \cup {Null}]
         /\ \A t \in Nodes : buffer[t] \in Nat /\ sent[t] \in Nat /\ buffer[t] <= sent[t]
         /\ \A k \in Keys : keys[k] # Null =>
              \/ keys[k] \in panicked
              \/ keys[k] \in stored /\ taskKey[keys[k]] = k
         /\ \A t \in stored : taskKey[t] # Null => keys[taskKey[t]] = t
         /\ fresh \cap (stored \cup panicked) = {}
         /\ panicked \cap stored = {}
         /\ \A t \in stored :
              buffer[t] > 0 \/ t \in hungUp \/ taskKey[t] = Null => Coming(t)
<1>1. buffer \in [Nodes -> 0..MaxSent] /\ sent \in [Nodes -> 0..MaxSent]
  BY DEF MapInv, MapTypeOK
<1>2. \A t \in Nodes : buffer[t] \in Nat /\ sent[t] \in Nat
  BY <1>1, MapAssumption
<1> QED
  BY <1>1, <1>2, PoolKnown
  DEF MapInv, MapTypeOK, KeysAgree, StreamsPlaced, BufferSent, NewsComing

\* The channels: nothing is stored or removed, and no key changes.
LEMMA SendMap ==
  ASSUME MapInv, NEW t \in Nodes, Send(t) \/ HangUp(t)
  PROVE  MapInv'
<1>1. PoolInv' /\ stored' = stored
  BY MapKnown, WakePool DEF Send, HangUp, WakeTasks
<1>2. /\ buffer' \in [Nodes -> 0..MaxSent] /\ sent' \in [Nodes -> 0..MaxSent]
      /\ BufferSent'
  <2>1. CASE Send(t)
    <3>1. PICK n \in Nat, b \in Nat : n = sent[t] /\ b = buffer[t] /\ b <= n
      BY MapKnown
    <3>2. n + 1 \in 0..MaxSent /\ b + 1 \in 0..MaxSent /\ b + 1 <= n + 1
      BY <2>1, <3>1, MapAssumption DEF Send
    <3>3. /\ sent' = [sent EXCEPT ![t] = n + 1]
          /\ buffer' = [buffer EXCEPT ![t] = b + 1]
      BY <2>1, <3>1 DEF Send
    <3> QED
      BY <3>2, <3>3, MapKnown DEF BufferSent
  <2>2. CASE HangUp(t)
    BY <2>2, MapKnown DEF HangUp, BufferSent
  <2> QED
    BY <2>1, <2>2
<1>3. UNCHANGED <<keys, taskKey, closed, fresh, panicked, again, output>>
  BY DEF Send, HangUp
<1>4. hungUp' \subseteq Nodes
  BY MapKnown DEF Send, HangUp
<1>5. MapTypeOK'
  BY <1>1, <1>2, <1>3, <1>4, MapKnown DEF MapTypeOK, PoolInv
<1>6. NewsComing'
  <2>1. called' = CalledWith({t} \ fresh) /\ UNCHANGED <<ready, current>>
    BY DEF Send, HangUp, WakeTasks
  <2>2. (\A u : Coming(u) => Coming(u)') /\ \A u \in {t} \ fresh : Coming(u)'
    BY <2>1, WakeComing
  <2>3. \A u \in Nodes \ {t} : buffer'[u] = buffer[u] /\ (u \in hungUp' <=> u \in hungUp)
    BY MapKnown DEF Send, HangUp
  <2>4. t \in stored => Coming(t)'
    BY <2>2 DEF MapInv, StreamsPlaced
  <2> QED
    BY <1>1, <1>3, <2>2, <2>3, <2>4, MapKnown DEF NewsComing
<1> QED
  BY <1>1, <1>2, <1>3, <1>5, <1>6 DEF MapInv, KeysAgree, StreamsPlaced

\* The new stream takes over the key and the old one leaves.
LEMMA InsertMap ==
  ASSUME MapInv, NEW k \in Keys, NEW t \in Nodes, Insert(k, t)
  PROVE  MapInv'
<1>1. /\ t \in fresh /\ fresh' = fresh \ {t}
      /\ taskKey' = [taskKey EXCEPT ![t] = k]
      /\ keys' = [keys EXCEPT ![k] = t]
      /\ stored' = (stored \ {keys[k]}) \cup {t}
      /\ UNCHANGED <<buffer, sent, closed, hungUp, panicked, again, output>>
  BY DEF Insert, Replace
<1>2. PoolInv'
  BY MapKnown, ReplacePool DEF Insert
<1>3. MapTypeOK'
  BY <1>1, <1>2, MapKnown DEF MapTypeOK, PoolInv
<1>4. StreamsPlaced' /\ BufferSent'
  BY <1>1, MapKnown DEF StreamsPlaced, BufferSent
<1>5. t \notin stored /\ t \notin panicked
  BY <1>1, MapKnown
<1>6. ASSUME NEW l \in Keys, keys'[l] # Null
      PROVE  \/ keys'[l] \in panicked'
             \/ keys'[l] \in stored' /\ taskKey'[keys'[l]] = l
  <2>1. CASE l = k
    BY <1>1, <2>1, MapKnown
  <2>2. CASE l # k
    BY <1>1, <1>5, <1>6, <2>2, MapKnown
  <2> QED
    BY <2>1, <2>2
<1>7. ASSUME NEW u \in stored', taskKey'[u] # Null
      PROVE  keys'[taskKey'[u]] = u
  <2>1. CASE u = t
    BY <1>1, <2>1, MapKnown
  <2>2. CASE u # t
    <3>1. /\ u \in stored /\ u \in Nodes /\ u # keys[k]
          /\ taskKey'[u] = taskKey[u] /\ keys[taskKey[u]] = u
      BY <1>1, <1>7, <2>2, MapKnown
    <3> QED
      BY <1>1, <1>7, <3>1, MapKnown
  <2> QED
    BY <2>1, <2>2
<1>8. KeysAgree'
  BY <1>6, <1>7 DEF KeysAgree
<1>9. NewsComing'
  <2>1. called' = CalledWith({t}) /\ UNCHANGED <<ready, current>>
    BY DEF Insert, Replace
  <2>2. (\A u : Coming(u) => Coming(u)') /\ Coming(t)'
    BY <2>1, WakeComing
  <2>3. \A u \in stored' \ {t} : u \in stored /\ u \in Nodes /\ taskKey'[u] = taskKey[u]
    BY <1>1, MapKnown
  <2> QED
    BY <1>1, <2>2, <2>3, MapKnown DEF NewsComing
<1> QED
  BY <1>2, <1>3, <1>4, <1>8, <1>9 DEF MapInv

LEMMA RemoveMap ==
  ASSUME MapInv, NEW k \in Keys, Remove(k)
  PROVE  MapInv'
<1>1. /\ keys[k] # Null
      /\ keys' = [keys EXCEPT ![k] = Null]
      /\ stored' = stored \ {keys[k]}
      /\ UNCHANGED <<taskKey, buffer, sent, closed, hungUp, fresh, panicked, again,
                     output>>
  BY DEF Remove, Withdraw
<1>2. PoolInv'
  BY MapKnown, WithdrawPool DEF Remove
<1>3. MapTypeOK'
  BY <1>1, <1>2, MapKnown DEF MapTypeOK, PoolInv
<1>4. StreamsPlaced' /\ BufferSent'
  BY <1>1, MapKnown DEF StreamsPlaced, BufferSent
<1>5. ASSUME NEW l \in Keys, keys'[l] # Null
      PROVE  \/ keys'[l] \in panicked'
             \/ keys'[l] \in stored' /\ taskKey'[keys'[l]] = l
  <2>1. l # k /\ keys'[l] = keys[l]
    BY <1>1, <1>5, MapKnown
  <2> QED
    BY <1>1, <1>5, <2>1, MapKnown
<1>6. ASSUME NEW u \in stored', taskKey'[u] # Null
      PROVE  keys'[taskKey'[u]] = u
  <2>1. u \in stored /\ u \in Nodes /\ u # keys[k] /\ keys[taskKey[u]] = u
    BY <1>1, <1>6, MapKnown
  <2>2. taskKey[u] \in Keys /\ taskKey[u] # k
    BY <1>1, <1>6, <2>1, MapKnown
  <2> QED
    BY <1>1, <2>1, <2>2, MapKnown
<1>7. KeysAgree'
  BY <1>5, <1>6 DEF KeysAgree
<1>8. NewsComing'
  <2>1. UNCHANGED <<called, ready, current>>
    BY DEF Remove, Withdraw
  <2> QED
    BY <1>1, <2>1, MapKnown DEF NewsComing, Coming, InQueue
<1> QED
  BY <1>2, <1>3, <1>4, <1>7, <1>8 DEF MapInv

LEMMA GetMutMap ==
  ASSUME MapInv, NEW k \in Keys, GetMut(k)
  PROVE  MapInv'
<1>1. PoolInv'
  BY DEF GetMut, MapInv, poolVars, PoolInv, PoolTypeOK, PollBalanced, CalledBack
<1>2. /\ UNCHANGED <<stored, keys, taskKey, buffer, sent, hungUp, fresh, panicked,
                     again, output>>
      /\ closed' \subseteq Nodes
  BY MapKnown DEF GetMut, poolVars
<1>3. MapTypeOK'
  BY <1>1, <1>2, MapKnown DEF MapTypeOK, PoolInv
<1>4. NewsComing'
  <2>1. UNCHANGED <<called, ready, current>>
    BY DEF GetMut, poolVars
  <2> QED
    BY <1>2, <2>1 DEF MapInv, NewsComing, Coming, InQueue
<1> QED
  BY <1>1, <1>2, <1>3, <1>4 DEF MapInv, KeysAgree, StreamsPlaced, BufferSent

\* Steps of the pool that move no task and leave the map alone.
LEMMA IdleMap ==
  ASSUME MapInv, PoolInv', stored' = stored, UNCHANGED mapVars,
         \A u \in stored :
           buffer[u] > 0 \/ u \in hungUp \/ taskKey[u] = Null => Coming(u)'
  PROVE  MapInv'
<1>1. NewsComing'
  BY DEF NewsComing, mapVars
<1> QED
  BY <1>1 DEF MapInv, MapTypeOK, KeysAgree, StreamsPlaced, BufferSent, PoolInv, mapVars

LEMMA PollItemMap ==
  ASSUME MapInv, current \in stored, PollItem
  PROVE  MapInv'
<1>1. /\ buffer' = [buffer EXCEPT ![current] = @ - 1] /\ buffer[current] > 0
      /\ output' = [key |-> taskKey[current], task |-> current]
      /\ stored' = stored
      /\ UNCHANGED <<keys, taskKey, sent, closed, hungUp, fresh, panicked, again>>
  BY DEF PollItem, EndPoll
<1>2. PoolInv' /\ current \in Nodes
  BY MapKnown, PolledPool DEF PollItem
<1>3. buffer' \in [Nodes -> 0..MaxSent] /\ BufferSent'
  <2>1. PICK n \in Nat, b \in Nat :
          n = sent[current] /\ b = buffer[current] /\ b <= n /\ n <= MaxSent
    BY <1>2, MapKnown, MapAssumption
  <2>2. b - 1 \in 0..MaxSent /\ b - 1 <= n
    BY <1>1, <2>1, MapAssumption
  <2>3. buffer' = [buffer EXCEPT ![current] = b - 1]
    BY <1>1, <2>1
  <2> QED
    BY <1>1, <1>2, <2>1, <2>2, <2>3, MapKnown DEF BufferSent
<1>4. MapTypeOK'
  BY <1>1, <1>2, <1>3, MapKnown DEF MapTypeOK, PoolInv
<1>5. NewsComing'
  <2>1. EndPoll("continue", TRUE, {})
    BY DEF PollItem
  <2>2. /\ \A u \in stored \ {current} : Coming(u) => Coming(u)'
        /\ \A u \in {current} : Coming(u)'
    BY <2>1, PolledComing, MapKnown
  <2>3. \A u \in stored \ {current} : buffer'[u] = buffer[u]
    BY <1>1, MapKnown
  <2> QED
    BY <1>1, <2>2, <2>3, MapKnown DEF NewsComing
<1> QED
  BY <1>1, <1>2, <1>3, <1>4, <1>5 DEF MapInv, KeysAgree, StreamsPlaced

\* The key goes from NotifyEnd and from the map at once.
LEMMA PollEndMap ==
  ASSUME MapInv, current \in stored, PollEnd
  PROVE  MapInv'
<1>1. /\ taskKey[current] # Null
      /\ taskKey' = [taskKey EXCEPT ![current] = Null]
      /\ keys' = [keys EXCEPT ![taskKey[current]] = Null]
      /\ again' = TRUE /\ stored' = stored
      /\ UNCHANGED <<buffer, sent, closed, hungUp, fresh, panicked, output>>
  BY DEF PollEnd, EndPoll
<1>2. PoolInv' /\ current \in Nodes
  BY MapKnown, PolledPool DEF PollEnd
<1>3. PICK k \in Keys : k = taskKey[current] /\ keys[k] = current
  BY <1>1, <1>2, MapKnown
<1>4. MapTypeOK'
  BY <1>1, <1>2, <1>3, MapKnown DEF MapTypeOK, PoolInv
<1>5. ASSUME NEW l \in Keys, keys'[l] # Null
      PROVE  \/ keys'[l] \in panicked'
             \/ keys'[l] \in stored' /\ taskKey'[keys'[l]] = l
  <2>1. l # k /\ keys'[l] = keys[l] /\ keys[l] \in Nodes
    BY <1>1, <1>3, <1>5, MapKnown
  <2>2. keys[l] \in panicked \/ (keys[l] \in stored /\ taskKey[keys[l]] = l)
    BY <1>5, <2>1, MapKnown
  <2>3. CASE keys[l] = current
    BY <1>1, <1>3, <2>1, <2>2, <2>3
  <2>4. CASE keys[l] # current
    BY <1>1, <2>1, <2>2, <2>4, MapKnown
  <2> QED
    BY <2>3, <2>4
<1>6. ASSUME NEW u \in stored', taskKey'[u] # Null
      PROVE  keys'[taskKey'[u]] = u
  <2>1. u \in stored /\ u \in Nodes /\ u # current
    BY <1>1, <1>6, MapKnown
  <2>2. taskKey'[u] = taskKey[u] /\ taskKey[u] \in Keys /\ keys[taskKey[u]] = u
    BY <1>1, <1>6, <2>1, MapKnown
  <2>3. taskKey[u] # k
    BY <1>3, <2>1, <2>2
  <2> QED
    BY <1>1, <1>3, <2>2, <2>3, MapKnown
<1>7. KeysAgree'
  BY <1>5, <1>6 DEF KeysAgree
<1>8. NewsComing'
  <2>1. EndPoll("continue", TRUE, {})
    BY DEF PollEnd
  <2>2. /\ \A u \in stored \ {current} : Coming(u) => Coming(u)'
        /\ \A u \in {current} : Coming(u)'
    BY <2>1, PolledComing, MapKnown
  <2>3. \A u \in stored \ {current} : taskKey'[u] = taskKey[u]
    BY <1>1, MapKnown
  <2> QED
    BY <1>1, <2>2, <2>3, MapKnown DEF NewsComing
<1> QED
  BY <1>1, <1>2, <1>4, <1>7, <1>8 DEF MapInv, StreamsPlaced, BufferSent

\* A stream leaves that has no key any more, or one whose code panicked.
LEMMA LeaveMap ==
  ASSUME MapInv, current \in stored, PoolInv', stored' = stored \ {current},
         \/ taskKey[current] = Null /\ UNCHANGED panicked
         \/ panicked' = panicked \cup {current},
         UNCHANGED <<keys, taskKey, buffer, sent, closed, hungUp, fresh, again, output>>,
         \A u \in stored \ {current} : Coming(u) => Coming(u)'
  PROVE  MapInv'
<1>1. current \in Nodes
  BY MapKnown
<1>2. MapTypeOK'
  BY <1>1, MapKnown DEF MapTypeOK, PoolInv
<1>3. KeysAgree'
  BY <1>1, MapKnown, MapAssumption DEF KeysAgree
<1>4. StreamsPlaced' /\ BufferSent'
  BY MapKnown DEF StreamsPlaced, BufferSent
<1>5. NewsComing'
  BY MapKnown DEF NewsComing
<1> QED
  BY <1>2, <1>3, <1>4, <1>5 DEF MapInv

LEMMA PollMap ==
  ASSUME MapInv, PollNotifyEnd
  PROVE  MapInv'
<1>1. current \in stored
  BY DEF PollNotifyEnd
<1>2. CASE PollEmpty
  <2>1. EndPoll("pending", FALSE, {}) /\ UNCHANGED mapVars
    BY <1>2 DEF PollEmpty
  <2>2. /\ PoolInv' /\ stored' = stored
        /\ \A u \in stored \ {current} : Coming(u) => Coming(u)'
    <3>1. PoolInv
      BY MapKnown
    <3>2. stored' = stored
      BY <2>1 DEF EndPoll
    <3> QED
      BY <2>1, <3>1, <3>2, PolledComing
  <2>3. ~(buffer[current] > 0 \/ current \in hungUp \/ taskKey[current] = Null)
    BY <1>2 DEF PollEmpty, Ended
  <2> QED
    BY <2>1, <2>2, <2>3, IdleMap, MapKnown
<1>3. CASE PollItem
  BY <1>1, <1>3, PollItemMap
<1>4. CASE PollEnd
  BY <1>1, <1>4, PollEndMap
<1>5. CASE PollKeyless
  <2>1. EndPoll("break", FALSE, {})
    BY <1>5 DEF PollKeyless
  <2>2. /\ PoolInv' /\ stored' = stored \ {current}
        /\ \A u \in stored \ {current} : Coming(u) => Coming(u)'
    BY <2>1, PolledComing, MapKnown
  <2> QED
    BY <1>1, <1>5, <2>2, LeaveMap DEF PollKeyless, mapVars
<1>6. CASE PollPanic
  <2>1. /\ PoolInv' /\ stored' = stored \ {current}
        /\ \A u \in stored \ {current} : Coming(u) => Coming(u)'
    BY <1>6, PanicComing, MapKnown DEF PollPanic
  <2> QED
    BY <1>1, <1>6, <2>1, LeaveMap DEF PollPanic
<1> QED
  BY <1>2, <1>3, <1>4, <1>5, <1>6 DEF PollNotifyEnd

LEMMA NextMap ==
  ASSUME MapInv, [MapNext]_allMapVars
  PROVE  MapInv'
<1>1. ASSUME NEW t \in Nodes, Send(t) \/ HangUp(t) PROVE MapInv'
  BY <1>1, SendMap
<1>2. ASSUME NEW t \in Nodes, Enter(t), UNCHANGED mapVars PROVE MapInv'
  BY <1>2, IdleMap, EnterComing, MapKnown
<1>3. CASE Methods
  BY <1>3, RemoveMap, GetMutMap, InsertMap DEF Methods
<1>4. CASE MapPollAgain
  <2>1. /\ PoolInv' /\ stored' = stored
        /\ \A u \in stored : Coming(u) => Coming(u)'
    BY <1>4, DrainComing, MapKnown DEF MapPollAgain
  <2>2. MapTypeOK'
    BY <1>4, <2>1, MapKnown DEF MapPollAgain, MapTypeOK, PoolInv, NoItem
  <2>3. NewsComing'
    BY <1>4, <2>1, MapKnown DEF MapPollAgain, NewsComing
  <2> QED
    BY <1>4, <2>1, <2>2, <2>3
    DEF MapPollAgain, MapInv, KeysAgree, StreamsPlaced, BufferSent
<1>5. CASE (TakeStock \/ TakeTask \/ GiveUp \/ SkipRemoved) /\ UNCHANGED mapVars
  <2>1. PoolInv' /\ stored' = stored /\ \A u \in stored : Coming(u) => Coming(u)'
    BY <1>5, DrainComing, MapKnown
  <2> QED
    BY <1>5, <2>1, IdleMap, MapKnown
<1>6. CASE PollNotifyEnd
  BY <1>6, PollMap
<1>7. CASE UNCHANGED allMapVars
  <2>1. PoolInv' /\ stored' = stored /\ \A u \in stored : Coming(u) => Coming(u)'
    BY <1>7, StillPool, MapKnown DEF allMapVars
  <2> QED
    BY <1>7, <2>1, IdleMap, MapKnown DEF allMapVars
<1> QED
  BY <1>1, <1>2, <1>3, <1>4, <1>5, <1>6, <1>7 DEF MapNext, MapPollStep

\* examples/map.rs: the inductive invariant, which the properties of the run
\* follow from.
THEOREM MapInvariant == MapSpec => []MapInv
<1>1. MapInv /\ [MapNext]_allMapVars => MapInv'
  BY NextMap
<1> QED
  BY <1>1, InitMap, PTL DEF MapSpec

\* StreamMap: its types; no channel holds more than was sent.
THEOREM MapTypeCorrect == MapSpec => []MapTypeOK
<1>1. MapInv => MapTypeOK
  BY DEF MapInv
<1> QED
  BY <1>1, MapInvariant, PTL

\* insert, remove, get_mut and the loop of poll_next: map and selector agree
\* after each of them, so the unwraps of main find what they look for, unless
\* a stream's code panicked.
THEOREM KeysCorrect == MapSpec => []KeysAgree
<1>1. MapInv => KeysAgree
  BY DEF MapInv
<1> QED
  BY <1>1, MapInvariant, PTL

\* poll_next: an item comes from the stream under its key, never from one that
\* was removed or replaced.
THEOREM ItemsCorrect == MapSpec => ItemsOfTheMapped
<1>1. MapInv /\ [MapNext]_allMapVars =>
        [output' # output /\ output' # NoItem =>
           keys[output'.key] = output'.task]_allMapVars
  <2> SUFFICES ASSUME MapInv, MapNext, output' # output, output' # NoItem
               PROVE  keys[output'.key] = output'.task
    OBVIOUS
  <2>1. current \in stored /\ PollItem
    BY DEF MapNext, Methods, MapPollStep, MapPollAgain, PollNotifyEnd, mapVars,
           Send, HangUp, Insert, Remove, GetMut, PollEmpty, PollEnd, PollKeyless,
           PollPanic
  <2> QED
    BY <2>1, MapKnown DEF PollItem
<1> QED
  BY <1>1, MapInvariant, PTL DEF MapSpec, ItemsOfTheMapped

----------------------------------------------------------------------------
(* The goodbye message *)

\* The bytes between p and o.
Piece(p, o) == [i \in 1..(o - p) |-> p + i]

LEMMA InitCustom == CustomInit => CustomInv
<1> SUFFICES ASSUME CustomInit PROVE CustomInv
  OBVIOUS
<1>1. PoolInv /\ PoolTypeOK
  BY InitPool DEF CustomInit, PoolInv
<1>2. 0 \in 0..MsgLen /\ <<>> \in Seq(1..MsgLen) /\ Len(<<>>) = 0
  BY CustomAssumption
<1>3. CustomTypeOK
  BY <1>1, <1>2 DEF CustomInit, CustomTypeOK
<1>4. GotPrefix
  <2>1. \A t \in Nodes : got[t] = <<>> /\ offset[t] = 0
    BY DEF CustomInit
  <2>2. \A i \in 1..0 : FALSE
    OBVIOUS
  <2> QED
    BY <1>2, <2>1, <2>2 DEF GotPrefix, IsPrefix
<1>5. EndInTime
  BY DEF CustomInit, EndInTime
<1>6. PeersPlaced /\ HandlersComing
  BY DEF CustomInit, PoolInit, PeersPlaced, HandlersComing
<1> QED
  BY <1>1, <1>3, <1>4, <1>5, <1>6 DEF CustomInv

\* The message up to p and the piece from there to o are the message up to o.
LEMMA PieceFits ==
  ASSUME NEW n \in Nat, NEW p \in Nat, NEW o \in p..n, NEW s \in Seq(1..n),
         IsPrefix(s, p)
  PROVE  s \o Piece(p, o) \in Seq(1..n) /\ IsPrefix(s \o Piece(p, o), o)
<1>1. PICK m \in Nat : m = o - p
  OBVIOUS
<1>2. \A i \in 1..m : p + i \in 1..n
  BY <1>1
<1>3. Piece(p, o) = [i \in 1..m |-> p + i]
  BY <1>1 DEF Piece
<1>4. [i \in 1..m |-> p + i] \in Seq(1..n)
  BY <1>2, IsASeq
<1>5. /\ Piece(p, o) \in Seq(1..n) /\ Len(Piece(p, o)) = m
      /\ \A i \in 1..m : Piece(p, o)[i] = p + i
  BY <1>1, <1>3, <1>4
<1>6. PICK piece \in Seq(1..n) : piece = Piece(p, o)
  BY <1>5
<1>7. Len(s) = p /\ \A i \in 1..p : s[i] = i
  BY DEF IsPrefix
<1>8. PICK r \in Seq(1..n) : r = s \o piece
  BY ConcatProperties
<1>9. /\ Len(r) = p + m
      /\ \A i \in 1..p + m : r[i] = IF i <= p THEN s[i] ELSE piece[i - p]
  <2>1. /\ Len(r) = Len(s) + Len(piece)
        /\ \A i \in 1..Len(s) + Len(piece) :
             r[i] = IF i <= Len(s) THEN s[i] ELSE piece[i - Len(s)]
    BY <1>8, ConcatProperties
  <2>2. Len(s) = p /\ Len(piece) = m
    BY <1>5, <1>6, <1>7
  <2> QED
    BY <2>1, <2>2
<1>10. ASSUME NEW i \in 1..o PROVE r[i] = i
  <2>1. i \in 1..p + m
    BY <1>1
  <2>2. CASE i <= p
    BY <1>7, <1>9, <2>1, <2>2
  <2>3. CASE ~(i <= p)
    <3>1. i - p \in 1..m /\ p + (i - p) = i
      BY <2>1, <2>3
    <3> QED
      BY <1>5, <1>6, <1>9, <2>1, <2>3, <3>1
  <2> QED
    BY <2>2, <2>3
<1>11. r = s \o Piece(p, o) /\ Len(r) = o
  BY <1>1, <1>6, <1>8, <1>9
<1> QED
  BY <1>8, <1>10, <1>11 DEF IsPrefix

\* What CustomInv says, as facts about the functions.
LEMMA CustomKnown ==
  ASSUME CustomInv
  PROVE  /\ PoolInv /\ stored \subseteq Nodes
         /\ phase \in {"serve", "stopped", "goodbye", "over"}
         /\ peer \in [Nodes -> {"away", "connected", "listening", "gone", "done"}]
         /\ accepted \subseteq Nodes /\ unread \subseteq Nodes /\ blocked \subseteq Nodes
         /\ shut \subseteq Nodes /\ failed \subseteq Nodes
         /\ interest \in [Nodes -> SUBSET {"read", "write"}]
         /\ offset \in [Nodes -> 0..MsgLen] /\ got \in [Nodes -> Seq(1..MsgLen)]
         /\ \A t \in Nodes : peer[t] = "away" => t \notin accepted
         /\ \A t \in Nodes : t \notin accepted => t \notin stored \cup shut /\ peer[t] # "done"
         /\ \A t \in stored : t \notin shut /\ peer[t] # "done"
         /\ \A t \in stored : Coming(t) \/ Idle(t)
         /\ phase = "over" => status = "none"
         /\ phase \in {"goodbye", "over"} /\ status = "none" => stored = {}
  BY PoolKnown DEF CustomInv, CustomTypeOK, PeersPlaced, HandlersComing

\* However far a poll gets, the peer was sent the message up to there.
LEMMA WriteGrows ==
  ASSUME CustomInv, current \in Nodes, NEW o, WritesTo(o)
  PROVE  /\ offset' \in [Nodes -> 0..MsgLen] /\ got' \in [Nodes -> Seq(1..MsgLen)]
         /\ GotPrefix'
         /\ offset'[current] = o
         /\ \A t \in Nodes \ {current} : offset'[t] = offset[t]
<1>1. PICK p \in Nat : p = offset[current] /\ p <= MsgLen
  BY CustomKnown, CustomAssumption
<1>2. o \in p..MsgLen /\ o \in 0..MsgLen
  BY <1>1, CustomAssumption DEF WritesTo
<1>3. got[current] \in Seq(1..MsgLen) /\ IsPrefix(got[current], p)
  BY <1>1, CustomKnown DEF CustomInv, GotPrefix
<1>4. PICK r : r = got[current] \o Piece(p, o)
  OBVIOUS
<1>5. r \in Seq(1..MsgLen) /\ IsPrefix(r, o)
  BY <1>2, <1>3, <1>4, PieceFits, CustomAssumption
<1>6. got' = [got EXCEPT ![current] = r] /\ offset' = [offset EXCEPT ![current] = o]
  BY <1>1, <1>4 DEF WritesTo, Piece
<1>7. /\ offset' \in [Nodes -> 0..MsgLen] /\ got' \in [Nodes -> Seq(1..MsgLen)]
      /\ offset'[current] = o /\ got'[current] = r
      /\ \A t \in Nodes \ {current} : offset'[t] = offset[t] /\ got'[t] = got[t]
  BY <1>2, <1>5, <1>6, CustomKnown
<1>8. GotPrefix'
  BY <1>5, <1>7 DEF GotPrefix, CustomInv
<1> QED
  BY <1>7, <1>8

\* Steps that write nothing: the rest is types and what EndInTime says.
LEMMA UnwrittenCustom ==
  ASSUME CustomInv, PoolInv', EndInTime', PeersPlaced', HandlersComing',
         phase' \in {"serve", "stopped", "goodbye", "over"},
         peer' \in [Nodes -> {"away", "connected", "listening", "gone", "done"}],
         accepted' \subseteq Nodes, unread' \subseteq Nodes, blocked' \subseteq Nodes,
         shut' \subseteq Nodes, failed' \subseteq Nodes,
         interest' \in [Nodes -> SUBSET {"read", "write"}],
         UNCHANGED <<offset, got>>
  PROVE  CustomInv'
<1>1. CustomTypeOK'
  BY CustomKnown DEF CustomTypeOK, PoolInv
<1> QED
  BY <1>1 DEF CustomInv, GotPrefix

\* What a socket that became ready brings about.
Woken(t, kinds) ==
  /\ PoolInv' /\ stored' = stored /\ status' = status
  /\ interest' \in [Nodes -> SUBSET {"read", "write"}]
  /\ \A u \in Nodes \ {t} : interest'[u] = interest[u]
  /\ interest'[t] = interest[t] \ kinds
  /\ \A u : Coming(u) => Coming(u)'
  /\ t \in stored /\ interest[t] \cap kinds # {} => Coming(t)'

LEMMA WakeForPool ==
  ASSUME CustomInv, NEW t \in Nodes, NEW kinds, WakeFor(t, kinds)
  PROVE  Woken(t, kinds)
<1>1. {u \in {t} \cap stored : interest[u] \cap kinds # {}} \in SUBSET Nodes
  OBVIOUS
<1>2. PoolInv' /\ stored' = stored /\ status' = status
  BY <1>1, WakePool, CustomKnown DEF WakeFor, WakeTasks
<1>4. /\ \A u : Coming(u) => Coming(u)'
      /\ t \in stored /\ interest[t] \cap kinds # {} => Coming(t)'
  <2>1. /\ called' = CalledWith({u \in {t} \cap stored : interest[u] \cap kinds # {}})
        /\ UNCHANGED <<ready, current>>
    BY DEF WakeFor, WakeTasks
  <2> QED
    BY <2>1, WakeComing
<1>3. interest[t] \ kinds \in SUBSET {"read", "write"}
  BY CustomKnown
<1> QED
  BY <1>2, <1>3, <1>4, CustomKnown DEF WakeFor, Woken

\* send_data: no peer goes on to "done" before the end of the stream.
LEMMA PeerCustom ==
  ASSUME CustomInv, NEW t \in Nodes,
         Connect(t) \/ Greet(t) \/ Disconnect(t) \/ Drain(t) \/ HearEnd(t) \/ Cancel(t)
  PROVE  CustomInv'
<1>1. CASE Greet(t)
  <2>1. /\ peer[t] = "connected" /\ peer' = [peer EXCEPT ![t] = "listening"]
        /\ unread' \subseteq Nodes /\ unread' = unread \cup {t}
        /\ UNCHANGED <<phase, accepted, blocked, offset, got, shut, failed>>
        /\ WakeFor(t, {"read"})
    BY <1>1, CustomKnown DEF Greet
  <2>2. Woken(t, {"read"})
    BY <2>1, WakeForPool
  <2>3. EndInTime' /\ PeersPlaced'
    BY <2>1, <2>2, CustomKnown DEF EndInTime, PeersPlaced, CustomInv, Woken
  <2>4. HandlersComing'
    <3>1. ASSUME NEW u \in stored, u # t PROVE Coming(u)' \/ Idle(u)'
      BY <2>1, <2>2, <3>1, CustomKnown DEF Idle, Woken
    <3>2. t \in stored => Coming(t)' \/ Idle(t)'
      BY <2>1, <2>2, CustomKnown DEF Idle, Woken
    <3> QED
      BY <2>1, <2>2, <3>1, <3>2, CustomKnown DEF HandlersComing, Woken
  <2> QED
    BY <2>1, <2>2, <2>3, <2>4, UnwrittenCustom, CustomKnown DEF Woken
<1>2. CASE Disconnect(t)
  <2>1. /\ peer' = [peer EXCEPT ![t] = "gone"]
        /\ blocked' \subseteq Nodes /\ blocked' = blocked \ {t}
        /\ UNCHANGED <<phase, accepted, unread, offset, got, shut, failed>>
        /\ WakeFor(t, {"read", "write"})
        /\ peer[t] = "connected"
    BY <1>2, CustomKnown DEF Disconnect
  <2>2. Woken(t, {"read", "write"})
    BY <2>1, WakeForPool
  <2>3. EndInTime' /\ PeersPlaced'
    BY <2>1, <2>2, CustomKnown DEF EndInTime, PeersPlaced, CustomInv, Woken
  <2>4. HandlersComing'
    <3>1. ASSUME NEW u \in stored, u # t PROVE Coming(u)' \/ Idle(u)'
      BY <2>1, <2>2, <3>1, CustomKnown DEF Idle, Woken
    <3>2. t \in stored => Coming(t)'
      BY <2>1, <2>2, CustomKnown DEF Idle, Woken
    <3> QED
      BY <2>1, <2>2, <3>1, <3>2, CustomKnown DEF HandlersComing, Woken
  <2> QED
    BY <2>1, <2>2, <2>3, <2>4, UnwrittenCustom, CustomKnown DEF Woken
<1>3. CASE Drain(t)
  <2>1. /\ blocked' \subseteq Nodes /\ blocked' = blocked \ {t}
        /\ UNCHANGED <<phase, peer, accepted, unread, offset, got, shut, failed>>
        /\ WakeFor(t, {"write"})
    BY <1>3, CustomKnown DEF Drain
  <2>2. Woken(t, {"write"})
    BY <2>1, WakeForPool
  <2>3. EndInTime' /\ PeersPlaced'
    BY <2>1, <2>2 DEF EndInTime, PeersPlaced, CustomInv, Woken
  <2>4. HandlersComing'
    <3>1. ASSUME NEW u \in stored, u # t PROVE Coming(u)' \/ Idle(u)'
      BY <2>1, <2>2, <3>1, CustomKnown DEF Idle, Woken
    <3>2. t \in stored => Coming(t)' \/ Idle(t)'
      BY <2>1, <2>2, CustomKnown DEF Idle, Woken
    <3> QED
      BY <2>1, <2>2, <3>1, <3>2, CustomKnown DEF HandlersComing, Woken
  <2> QED
    BY <2>1, <2>2, <2>3, <2>4, UnwrittenCustom, CustomKnown DEF Woken
<1>4. CASE Connect(t) \/ HearEnd(t) \/ Cancel(t)
  <2>1. /\ \/ /\ peer[t] = "away" /\ peer' = [peer EXCEPT ![t] = "connected"]
           \/ /\ peer[t] = "listening" /\ peer' = [peer EXCEPT ![t] = "done"]
              /\ t \in shut \cup (accepted \ stored)
           \/ /\ phase = "over" /\ peer[t] \in {"connected", "listening"}
              /\ peer' = [peer EXCEPT ![t] = "gone"]
        /\ UNCHANGED <<poolVars, phase, accepted, unread, interest, blocked, offset,
                       got, shut, failed>>
    BY <1>4 DEF Connect, HearEnd, Cancel
  <2>2. /\ PoolInv' /\ stored' = stored /\ status' = status
        /\ \A u : Coming(u) => Coming(u)'
    BY <2>1, StillPool, CustomKnown
  <2>3. phase = "over" => stored = {}
    BY CustomKnown
  <2>4. /\ peer' \in [Nodes -> {"away", "connected", "listening", "gone", "done"}]
        /\ \A u \in Nodes \ {t} : peer'[u] = peer[u]
        /\ peer'[t] # "away"
    BY <2>1, CustomKnown
  <2>5. EndInTime'
    <3>1. ASSUME NEW u \in Nodes \ {t}
          PROVE  /\ u \in shut => offset[u] = MsgLen
                 /\ peer'[u] \in {"connected", "listening"} /\ u \in accepted \ stored =>
                      u \in shut \cup failed
                 /\ peer'[u] = "done" /\ u \notin failed => offset[u] = MsgLen
      BY <2>4 DEF CustomInv, EndInTime
    <3>2. /\ t \in shut => offset[t] = MsgLen
          /\ peer'[t] \in {"connected", "listening"} => t \notin accepted
          /\ peer'[t] = "done" /\ t \notin failed => offset[t] = MsgLen
      BY <2>1, CustomKnown DEF CustomInv, EndInTime
    <3> QED
      BY <2>1, <2>2, <3>1, <3>2 DEF EndInTime
  <2>6. PeersPlaced'
    <3>1. \A u \in Nodes : (peer'[u] # "away" \/ u \notin accepted)
                            /\ (u \notin accepted => peer'[u] # "done")
      BY <2>1, <2>4, CustomKnown
    <3>2. \A u \in stored : peer'[u] # "done"
      BY <2>1, <2>4, CustomKnown
    <3> QED
      BY <2>1, <2>2, <3>1, <3>2, CustomKnown DEF PeersPlaced
  <2>7. \A u \in stored : peer'[u] = "gone" => peer[u] = "gone"
    BY <2>1, <2>3, <2>4, CustomKnown
  <2>8. HandlersComing'
    BY <2>1, <2>2, <2>7, CustomKnown DEF HandlersComing, Idle
  <2> QED
    BY <2>1, <2>2, <2>4, <2>5, <2>6, <2>8, UnwrittenCustom, CustomKnown
<1> QED
  BY <1>1, <1>2, <1>3, <1>4

LEMMA AcceptCustom ==
  ASSUME CustomInv, NEW t \in Nodes, Accept(t)
  PROVE  CustomInv'
<1>1. /\ peer[t] # "away" /\ t \notin accepted /\ accepted' = accepted \cup {t}
      /\ stored' = stored \cup {t} /\ called' = CalledWith({t})
      /\ phase = "serve"
      /\ UNCHANGED <<phase, peer, unread, interest, blocked, offset, got, shut, failed,
                     ready, status, current>>
  BY DEF Accept, Extend
<1>2. PoolInv'
  BY ExtendPool, CustomKnown DEF Accept
<1>3. EndInTime' /\ PeersPlaced'
  BY <1>1, CustomKnown DEF EndInTime, PeersPlaced, CustomInv
<1>4. HandlersComing'
  <2>1. (\A u : Coming(u) => Coming(u)') /\ Coming(t)'
    BY <1>1, WakeComing
  <2>2. ASSUME NEW u \in stored, u # t PROVE Coming(u)' \/ Idle(u)'
    BY <1>1, <2>1, <2>2, CustomKnown DEF Idle
  <2> QED
    BY <1>1, <2>1, <2>2 DEF HandlersComing
<1> QED
  BY <1>1, <1>2, <1>3, <1>4, UnwrittenCustom, CustomKnown

\* Steps that change the phase and no connection.
LEMMA PhaseCustom ==
  ASSUME CustomInv, PoolInv', stored' = stored,
         phase' \in {"serve", "stopped", "goodbye", "over"}, HandlersComing',
         UNCHANGED <<peer, accepted, unread, interest, blocked, offset, got, shut, failed>>
  PROVE  CustomInv'
<1>1. EndInTime' /\ PeersPlaced'
  BY DEF EndInTime, PeersPlaced, CustomInv
<1> QED
  BY <1>1, UnwrittenCustom, CustomKnown

\* Nobody waits across the replacement of the strategy: everybody is woken.
LEMMA MainCustom ==
  ASSUME CustomInv, Stop \/ CustomPollAgain \/ Return
  PROVE  CustomInv'
<1>1. CASE Stop
  <2>1. PoolInv' /\ stored' = stored /\ phase' = "stopped"
    BY <1>1, WakePool, CustomKnown DEF Stop, WakeTasks
  <2>2. \A u \in stored : Coming(u)'
    BY <1>1, WakeComing DEF Stop, WakeTasks
  <2>3. HandlersComing'
    BY <2>1, <2>2 DEF HandlersComing
  <2> QED
    BY <1>1, <2>1, <2>3, PhaseCustom DEF Stop
<1>2. CASE CustomPollAgain
  <2>1. /\ PoolInv' /\ stored' = stored
        /\ \A u \in stored : Coming(u) => Coming(u)'
    BY <1>2, DrainComing, CustomKnown DEF CustomPollAgain
  <2>2. /\ phase \in {"serve", "stopped", "goodbye"}
        /\ phase' = IF phase = "stopped" THEN "goodbye" ELSE phase
        /\ status' = "starting"
        /\ UNCHANGED <<peer, accepted, unread, interest, blocked, offset, got, shut, failed>>
    BY <1>2, CustomKnown DEF CustomPollAgain, CallPollNext
  <2>3. ASSUME NEW u \in stored PROVE Coming(u)' \/ Idle(u)'
    BY <2>1, <2>2, CustomKnown DEF Idle
  <2>4. HandlersComing'
    BY <2>1, <2>2, <2>3 DEF HandlersComing
  <2> QED
    BY <2>1, <2>2, <2>4, PhaseCustom
<1>3. CASE Return
  <2>1. PoolInv' /\ stored' = stored /\ status' = status
    BY <1>3, StillPool, CustomKnown DEF Return
  <2>2. stored = {} /\ status = "none" /\ phase' = "over"
    BY <1>3, CustomKnown DEF Return
  <2>3. HandlersComing'
    BY <2>1, <2>2 DEF HandlersComing
  <2> QED
    BY <1>3, <2>1, <2>3, PhaseCustom DEF Return
<1> QED
  BY <1>1, <1>2, <1>3

\* A poll that reads: a handler leaves whose peer is gone.
LEMMA ReadCustom ==
  ASSUME CustomInv, ReadPending \/ ReadData \/ ReadEnd
  PROVE  CustomInv'
<1>1. /\ PoolInv' /\ current \in Nodes
      /\ \A u \in stored \ {current} : Coming(u) => Coming(u)'
      /\ status' = "none" => stored' = {}
      /\ ReadData => \A u \in {current} : Coming(u)'
  <2>1. \/ EndPoll("pending", FALSE, {}) \/ EndPoll("continue", TRUE, {})
        \/ EndPoll("break", TRUE, {})
    BY DEF ReadPending, ReadData, ReadEnd
  <2>2. ReadData => EndPoll("continue", TRUE, {})
    BY DEF ReadData
  <2>3. PoolInv
    BY CustomKnown
  <2>4. \A u \in stored \ {current} : Coming(u) => Coming(u)'
    BY <2>1, <2>3, PolledComing
  <2>5. ReadData => \A u \in {current} : Coming(u)'
    BY <2>2, <2>3, PolledComing
  <2> QED
    BY <2>1, <2>3, <2>4, <2>5, PolledComing
<1>2. CASE ReadPending
  <2>1. /\ stored' = stored
        /\ interest' = [interest EXCEPT ![current] = @ \cup {"read"}]
        /\ phase = "serve" /\ current \notin unread /\ peer[current] # "gone"
        /\ UNCHANGED <<phase, peer, accepted, unread, blocked, offset, got, shut, failed>>
    BY <1>2 DEF ReadPending, EndPoll
  <2>2. /\ interest' \in [Nodes -> SUBSET {"read", "write"}]
        /\ "read" \in interest'[current]
        /\ \A u \in Nodes : interest[u] \subseteq interest'[u]
    BY <1>1, <2>1, CustomKnown
  <2>3. EndInTime' /\ PeersPlaced'
    BY <2>1 DEF EndInTime, PeersPlaced, CustomInv
  <2>4. HandlersComing'
    BY <1>1, <2>1, <2>2, CustomKnown DEF HandlersComing, Idle
  <2> QED
    BY <1>1, <2>1, <2>2, <2>3, <2>4, UnwrittenCustom, CustomKnown
<1>3. CASE ReadData
  <2>1. /\ stored' = stored /\ unread' \subseteq Nodes
        /\ phase = "serve" /\ unread' \subseteq unread
        /\ UNCHANGED <<phase, peer, accepted, interest, blocked, offset, got, shut, failed>>
    BY <1>3, CustomKnown DEF ReadData, EndPoll
  <2>2. EndInTime' /\ PeersPlaced'
    BY <2>1 DEF EndInTime, PeersPlaced, CustomInv
  <2>3. HandlersComing'
    BY <1>1, <1>3, <2>1, CustomKnown DEF HandlersComing, Idle
  <2> QED
    BY <1>1, <2>1, <2>2, <2>3, UnwrittenCustom, CustomKnown
<1>4. CASE ReadEnd
  <2>1. /\ stored' = stored \ {current} /\ peer[current] = "gone"
        /\ phase = "serve"
        /\ UNCHANGED <<phase, peer, accepted, unread, interest, blocked, offset, got, shut, failed>>
    BY <1>4 DEF ReadEnd, EndPoll, connVars
  <2>2. EndInTime' /\ PeersPlaced'
    BY <2>1 DEF EndInTime, PeersPlaced, CustomInv
  <2>3. HandlersComing'
    BY <1>1, <2>1, CustomKnown DEF HandlersComing, Idle
  <2> QED
    BY <1>1, <2>1, <2>2, <2>3, UnwrittenCustom, CustomKnown
<1> QED
  BY <1>2, <1>3, <1>4

\* A poll that writes and does not get to the end of the message.
LEMMA WritePendingCustom ==
  ASSUME CustomInv, WritePending
  PROVE  CustomInv'
<1>1. /\ PoolInv' /\ current \in Nodes /\ current \in stored /\ stored' = stored
      /\ \A u \in stored \ {current} : Coming(u) => Coming(u)'
      /\ status' = "none" => stored' = {}
  <2>1. EndPoll("pending", FALSE, {}) /\ current \in stored
    BY DEF WritePending
  <2>2. stored' = stored
    BY <2>1 DEF EndPoll
  <2>3. PoolInv
    BY CustomKnown
  <2> QED
    BY <2>1, <2>2, <2>3, PolledComing
<1>2. PICK o \in 0..MsgLen : o < MsgLen /\ WritesTo(o)
  BY DEF WritePending
<1>3. /\ offset' \in [Nodes -> 0..MsgLen] /\ got' \in [Nodes -> Seq(1..MsgLen)]
      /\ GotPrefix'
      /\ \A t \in Nodes \ {current} : offset'[t] = offset[t]
  BY <1>1, <1>2, WriteGrows
<1>4. /\ blocked' \subseteq Nodes /\ interest' \in [Nodes -> SUBSET {"read", "write"}]
      /\ UNCHANGED <<phase, peer, accepted, unread, shut, failed>>
      /\ phase = "goodbye" /\ peer[current] # "gone"
      /\ blocked' = blocked \cup {current} /\ "write" \in interest'[current]
      /\ \A u \in Nodes : interest[u] \subseteq interest'[u]
  BY <1>1, CustomKnown DEF WritePending
<1>5. offset[current] # MsgLen
  <2>1. offset[current] \in Nat /\ o \in offset[current]..MsgLen
    BY <1>1, <1>2, CustomKnown, CustomAssumption DEF WritesTo
  <2> QED
    BY <1>2, <2>1, CustomAssumption
<1>6. EndInTime'
  BY <1>1, <1>3, <1>4, <1>5 DEF EndInTime, CustomInv
<1>7. CustomTypeOK'
  BY <1>1, <1>3, <1>4, CustomKnown DEF CustomTypeOK, PoolInv
<1>8. PeersPlaced'
  BY <1>1, <1>4 DEF CustomInv, PeersPlaced
<1>9. HandlersComing'
  BY <1>1, <1>4, CustomKnown DEF HandlersComing, Idle
<1> QED
  BY <1>1, <1>3, <1>6, <1>7, <1>8, <1>9 DEF CustomInv

\* A poll after which the handler leaves: the message is complete, or it failed.
LEMMA HandlerLeaves ==
  ASSUME CustomInv, ShutDown \/ Fail
  PROVE  CustomInv'
<1>1. /\ PoolInv' /\ current \in Nodes /\ current \in stored
      /\ stored' = stored \ {current}
      /\ \A u \in stored \ {current} : Coming(u) => Coming(u)'
      /\ status' = "none" => stored' = {}
  <2>1. EndPoll("break", TRUE, {})
    BY DEF ShutDown, Fail
  <2>2. current \in stored /\ stored' = stored \ {current}
    BY <2>1 DEF EndPoll
  <2>3. PoolInv
    BY CustomKnown
  <2> QED
    BY <2>1, <2>2, <2>3, PolledComing
<1>2. /\ shut' \subseteq Nodes /\ failed' \subseteq Nodes
      /\ UNCHANGED <<phase, peer, accepted, unread, interest, blocked>>
      /\ phase \in {"serve", "goodbye"}
      /\ \/ shut' = shut \cup {current} /\ failed' = failed /\ WritesTo(MsgLen)
         \/ /\ failed' = failed \cup {current} /\ shut' = shut
            /\ UNCHANGED <<offset, got>> \/ \E o \in 0..MsgLen : WritesTo(o)
  BY <1>1, CustomKnown DEF ShutDown, Fail
<1>3. /\ offset' \in [Nodes -> 0..MsgLen] /\ got' \in [Nodes -> Seq(1..MsgLen)]
      /\ GotPrefix'
      /\ \A t \in Nodes \ {current} : offset'[t] = offset[t]
  <2>1. CASE UNCHANGED <<offset, got>>
    BY <2>1, CustomKnown DEF CustomInv, GotPrefix
  <2>2. CASE \E o : WritesTo(o)
    BY <1>1, <2>2, WriteGrows
  <2> QED
    BY <1>2, <2>1, <2>2
<1>4. current \in shut' => offset'[current] = MsgLen
  <2>1. ASSUME WritesTo(MsgLen) PROVE offset'[current] = MsgLen
    BY <1>1, <2>1, WriteGrows
  <2>2. ASSUME current \in shut, UNCHANGED <<offset, got>>
        PROVE  offset'[current] = MsgLen
    BY <1>1, <2>2 DEF CustomInv, EndInTime
  <2>3. ASSUME current \in shut, NEW o, WritesTo(o) PROVE offset'[current] = MsgLen
    <3>1. offset[current] = MsgLen /\ o \in offset[current]..MsgLen
      BY <1>1, <2>3 DEF CustomInv, EndInTime, WritesTo
    <3>2. o = MsgLen
      BY <3>1, CustomAssumption
    <3> QED
      BY <1>1, <2>3, <3>2, WriteGrows
  <2> QED
    BY <1>2, <2>1, <2>2, <2>3
<1>5. current \in shut' \cup failed'
  BY <1>2
<1>6. current \notin failed' => current \in shut'
  BY <1>5
<1>7. ASSUME NEW t \in Nodes
      PROVE  /\ t \in shut' => offset'[t] = MsgLen
             /\ peer'[t] \in {"connected", "listening"} /\ t \in accepted' \ stored' =>
                  t \in shut' \cup failed'
             /\ peer'[t] = "done" /\ t \notin failed' => offset'[t] = MsgLen
  <2>1. CASE t = current
    BY <1>4, <1>5, <1>6, <2>1
  <2>2. CASE t # current
    <3>1. /\ offset'[t] = offset[t] /\ (t \in stored' <=> t \in stored)
          /\ peer'[t] = peer[t] /\ accepted' = accepted /\ (t \in shut' <=> t \in shut)
          /\ (t \in failed' <=> t \in failed)
      BY <1>1, <1>2, <1>3, <2>2
    <3> QED
      BY <3>1 DEF CustomInv, EndInTime
  <2> QED
    BY <2>1, <2>2
<1>8. EndInTime'
  BY <1>7 DEF EndInTime
<1>9. CustomTypeOK'
  BY <1>1, <1>2, <1>3, CustomKnown DEF CustomTypeOK, PoolInv
<1>10. PeersPlaced'
  <2>1. current \in accepted'
    BY <1>1, <1>2, CustomKnown
  <2> QED
    BY <1>1, <1>2, <2>1, CustomKnown DEF PeersPlaced
<1>11. HandlersComing'
  BY <1>1, <1>2, CustomKnown DEF HandlersComing, Idle
<1> QED
  BY <1>1, <1>3, <1>8, <1>9, <1>10, <1>11 DEF CustomInv

\* Steps of the pool that leave the connections alone.
LEMMA IdleCustom ==
  ASSUME CustomInv, PoolInv', stored' = stored, UNCHANGED connVars,
         \A u \in stored : Coming(u) => Coming(u)',
         \/ status' = status
         \/ status # "none" /\ (status' = "none" => stored' = {})
  PROVE  CustomInv'
<1>1. UNCHANGED <<phase, peer, accepted, unread, interest, blocked, offset, got, shut, failed>>
  BY DEF connVars
<1>2. HandlersComing'
  BY <1>1, CustomKnown DEF HandlersComing, Idle
<1> QED
  BY <1>1, <1>2, PhaseCustom, CustomKnown

LEMMA NextCustom ==
  ASSUME CustomInv, [CustomNext]_allConnVars
  PROVE  CustomInv'
<1>1. ASSUME NEW t \in Nodes,
             Connect(t) \/ Greet(t) \/ Disconnect(t) \/ Drain(t) \/ HearEnd(t) \/ Cancel(t)
      PROVE  CustomInv'
  BY <1>1, PeerCustom
<1>2. ASSUME NEW t \in Nodes, Accept(t) PROVE CustomInv'
  BY <1>2, AcceptCustom
<1>3. ASSUME NEW t \in Nodes, Enter(t), UNCHANGED connVars PROVE CustomInv'
  BY <1>3, IdleCustom, EnterComing, CustomKnown
<1>4. CASE Stop \/ CustomPollAgain \/ Return
  BY <1>4, MainCustom
<1>5. CASE (TakeStock \/ TakeTask \/ GiveUp \/ SkipRemoved) /\ UNCHANGED connVars
  <2>1. /\ PoolInv' /\ stored' = stored /\ \A u \in stored : Coming(u) => Coming(u)'
        /\ status # "none" /\ (status' = "none" => stored' = {})
    <3>1. ~CallPollNext
      BY <1>5 DEF CallPollNext, TakeStock, TakeTask, GiveUp, SkipRemoved, Unborrowed,
                  CustomInv, PoolInv, PollBalanced
    <3> QED
      BY <1>5, <3>1, DrainComing, CustomKnown
  <2> QED
    BY <1>5, <2>1, IdleCustom
<1>6. CASE PollHandler
  BY <1>6, ReadCustom, WritePendingCustom, HandlerLeaves DEF PollHandler
<1>7. CASE UNCHANGED allConnVars
  <2>1. /\ PoolInv' /\ stored' = stored /\ status' = status
        /\ \A u : Coming(u) => Coming(u)'
    BY <1>7, StillPool, CustomKnown DEF allConnVars
  <2> QED
    BY <1>7, <2>1, IdleCustom DEF allConnVars
<1> QED
  BY <1>1, <1>2, <1>3, <1>4, <1>5, <1>6, <1>7 DEF CustomNext, CustomPollStep, Terminated

\* examples/custom.rs: the inductive invariant, which the properties of the run
\* follow from.
THEOREM CustomInvariant == CustomSpec => []CustomInv
<1>1. CustomInv /\ [CustomNext]_allConnVars => CustomInv'
  BY NextCustom
<1> QED
  BY <1>1, InitCustom, PTL DEF CustomSpec

\* CustomTask: its types; no offset is beyond the message.
THEOREM CustomTypeCorrect == CustomSpec => []CustomTypeOK
<1>1. CustomInv => CustomTypeOK
  BY DEF CustomInv
<1> QED
  BY <1>1, CustomInvariant, PTL

\* poll_shutdown: however the socket cuts the message up, a peer gets it from
\* the start and in order, and all of it before the end unless its handler
\* failed.
THEOREM GoodbyeCorrect == CustomSpec => []GoodbyeInOrder
<1>1. CustomInv => GoodbyeInOrder
  <2> SUFFICES ASSUME CustomInv, NEW t \in Nodes
               PROVE  /\ \A i \in 1..Len(got[t]) : got[t][i] = i
                      /\ peer[t] = "done" /\ t \notin failed => Len(got[t]) = MsgLen
    BY DEF GoodbyeInOrder
  <2> QED
    BY DEF CustomInv, GotPrefix, IsPrefix, EndInTime
<1> QED
  BY <1>1, CustomInvariant, PTL

----------------------------------------------------------------------------
(* The strategies *)

AllStrategies == Futures \cup Streams \cup TryStreams

\* What a poll that takes the i-th event of t's future or stream should give.
Outputs(i) == [value : {0, i}, id : Nodes \cup {Null}, removed : Nodes \cup {Null}]

Right(done, s, t, event, i) ==
  /\ done.flow \in {"break", "continue"}
  /\ done.flow = "break" <=>
       s \in Futures \/ event = "end" \/ (s \in TryStreams /\ event = "err")
  /\ done.output \in Outputs(i)
  /\ done.output.id \in {Null, t}
  /\ IF event = "end" THEN done.output.value = 0 ELSE done.output.value = i
  /\ done.output.removed # Null => done.output.removed = t /\ done.flow = "break"

\* poll_progress with transform_cont and transform_break, strategy by strategy.
LEMMA AppliedIsRight ==
  ASSUME NEW s \in AllStrategies, NEW t \in Nodes, NEW event \in Events,
         NEW i \in Nat, s \in Futures => event = "ok"
  PROVE  Right(Applied(s, t, event, i), s, t, event, i)
<1> USE DEF Right, Outputs, Output, NoOutput, Break, More, Events,
            AllStrategies, Futures, Streams, TryStreams
<1>1. CASE s = "FutureBasic"
  <2>1. Applied(s, t, event, i) = FutureBasic(t, event, i)
    BY <1>1 DEF Applied
  <2> QED
    BY <1>1, <2>1 DEF FutureBasic
<1>2. CASE s = "FutureReclaim"
  <2>1. Applied(s, t, event, i) = FutureReclaim(t, event, i)
    BY <1>2 DEF Applied
  <2> QED
    BY <1>2, <2>1 DEF FutureReclaim
<1>3. CASE s = "StreamBasic"
  <2>1. Applied(s, t, event, i) = StreamBasic(t, event, i)
    BY <1>3 DEF Applied
  <2> QED
    BY <1>3, <2>1 DEF StreamBasic
<1>4. CASE s = "StreamWithId"
  <2>1. Applied(s, t, event, i) = StreamWithId(t, event, i)
    BY <1>4 DEF Applied
  <2> QED
    BY <1>4, <2>1 DEF StreamWithId
<1>5. CASE s = "StreamReclaim"
  <2>1. Applied(s, t, event, i) = StreamReclaim(t, event, i)
    BY <1>5 DEF Applied
  <2> QED
    BY <1>5, <2>1 DEF StreamReclaim
<1>6. CASE s = "TryStreamBasic"
  <2>1. Applied(s, t, event, i) = TryStreamBasic(t, event, i)
    BY <1>6 DEF Applied
  <2> QED
    BY <1>6, <2>1 DEF TryStreamBasic
<1>7. CASE s = "TryStreamWithId"
  <2>1. Applied(s, t, event, i) = TryStreamWithId(t, event, i)
    BY <1>7 DEF Applied
  <2> QED
    BY <1>7, <2>1 DEF TryStreamWithId
<1>8. CASE s = "TryStreamReclaim"
  <2>1. Applied(s, t, event, i) = TryStreamReclaim(t, event, i)
    BY <1>8 DEF Applied
  <2> QED
    BY <1>8, <2>1 DEF TryStreamReclaim
<1> QED
  BY <1>1, <1>2, <1>3, <1>4, <1>5, <1>6, <1>7, <1>8

\* The families keep futures and streams apart.
LEMMA SameKind ==
  ASSUME NEW family \in Families
  PROVE  /\ family \subseteq AllStrategies
         /\ \A r, s \in family : r \in Futures <=> s \in Futures
<1>1. Futures \cap (Streams \cup TryStreams) = {}
  BY DEF Futures, Streams, TryStreams
<1> QED
  BY <1>1, StrategiesAssumption DEF AllStrategies

LEMMA InitStrat == StratInit => StratInv
<1> SUFFICES ASSUME StratInit PROVE StratInv
  OBVIOUS
<1>1. PoolInv /\ PoolTypeOK /\ stored = {}
  BY InitPool DEF StratInit, PoolInv, PoolInit
<1>2. /\ \A t \in Nodes : source[t] = <<>> /\ taken[t] = 0 /\ yielded[t] = <<>>
      /\ overrun = FALSE
  BY DEF StratInit
<1>3. /\ \A S : <<>> \in Seq(S)
      /\ Len(<<>>) = 0 /\ \A i \in 1..0 : FALSE
  OBVIOUS
<1>4. strategy \in AllStrategies
  BY SameKind DEF StratInit
<1>5. /\ source \in [Nodes -> Seq(Events)] /\ taken \in [Nodes -> Nat]
      /\ yielded \in [Nodes -> Seq([value : 0..MaxItems, id : Nodes \cup {Null},
                                   removed : Nodes \cup {Null}])]
  BY <1>3 DEF StratInit
<1>6. StratTypeOK
  <2>1. 0 <= 0 /\ 0 <= MaxItems + 1
    BY StrategiesAssumption
  <2>2. \A t \in Nodes : taken[t] <= Len(source[t]) /\ Len(source[t]) <= MaxItems + 1
    BY <1>2, <1>3, <2>1
  <2> QED
    BY <1>1, <1>2, <1>4, <1>5, <2>2 DEF StratTypeOK, AllStrategies
<1>7. SourcesShaped /\ StoredUndone /\ EventsComing
  BY <1>1, <1>2, <1>3 DEF SourcesShaped, StoredUndone, EventsComing
<1>8. NeverOverrun /\ EveryItemOnce /\ ReturnedOnce
  BY <1>2, <1>3 DEF NeverOverrun, EveryItemOnce, ReturnedOnce
<1> QED
  BY <1>1, <1>6, <1>7, <1>8 DEF StratInv

\* What StratInv says, as facts about one task.
LEMMA StratKnown ==
  ASSUME StratInv
  PROVE  /\ PoolInv /\ stored \subseteq Nodes
         /\ strategy \in AllStrategies /\ overrun = FALSE
         /\ source \in [Nodes -> Seq(Events)] /\ taken \in [Nodes -> Nat]
         /\ yielded \in [Nodes -> Seq([value : 0..MaxItems, id : Nodes \cup {Null},
                                      removed : Nodes \cup {Null}])]
         /\ MaxItems \in Nat \ {0}
         /\ \A t \in Nodes :
              /\ Len(source[t]) \in Nat /\ Len(yielded[t]) \in Nat
              /\ taken[t] <= Len(source[t]) /\ Len(source[t]) <= MaxItems + 1
              /\ Len(yielded[t]) <= taken[t]
<1>1. /\ source \in [Nodes -> Seq(Events)] /\ taken \in [Nodes -> Nat]
      /\ yielded \in [Nodes -> Seq([value : 0..MaxItems, id : Nodes \cup {Null},
                                   removed : Nodes \cup {Null}])]
      /\ \A t \in Nodes : taken[t] <= Len(source[t]) /\ Len(source[t]) <= MaxItems + 1
  BY DEF StratInv, StratTypeOK
<1>2. \A t \in Nodes : Len(source[t]) \in Nat /\ Len(yielded[t]) \in Nat
  <2>1. \A S : \A s \in Seq(S) : Len(s) \in Nat
    OBVIOUS
  <2> QED
    BY <1>1, <2>1
<1>3. \A t \in Nodes : Len(yielded[t]) <= taken[t]
  BY DEF StratInv, EveryItemOnce
<1>4. /\ PoolInv /\ stored \subseteq Nodes
      /\ strategy \in AllStrategies /\ overrun = FALSE
  BY PoolKnown DEF StratInv, StratTypeOK, AllStrategies, NeverOverrun
<1> QED
  BY <1>1, <1>2, <1>3, <1>4, StrategiesAssumption

\* Steps that leave the tasks and what they produced alone.
LEMMA IdleStrat ==
  ASSUME StratInv, PoolInv', stored' = stored, UNCHANGED stratVars,
         \A t \in stored : taken[t] < Len(source[t]) => Coming(t)'
  PROVE  StratInv'
<1>1. UNCHANGED <<strategy, source, taken, overrun, yielded>>
  BY DEF stratVars
<1>2. StratTypeOK'
  BY <1>1 DEF StratInv, StratTypeOK, PoolInv
<1>3. SourcesShaped' /\ StoredUndone' /\ NeverOverrun'
  BY <1>1 DEF StratInv, SourcesShaped, StoredUndone, NeverOverrun
<1>4. EveryItemOnce' /\ ReturnedOnce'
  BY <1>1 DEF StratInv, EveryItemOnce, ReturnedOnce
<1>5. EventsComing'
  BY <1>1 DEF EventsComing
<1> QED
  BY <1>2, <1>3, <1>4, <1>5 DEF StratInv

\* Steps of the pool alone that lose sight of nobody.
LEMMA StillComing ==
  ASSUME StratInv, PoolInv', stored' = stored, UNCHANGED stratVars,
         \A t \in stored : Coming(t) => Coming(t)'
  PROVE  StratInv'
<1>1. \A t \in stored : taken[t] < Len(source[t]) => Coming(t)'
  BY DEF StratInv, EventsComing
<1> QED
  BY <1>1, IdleStrat

\* A task that is pushed is as it was made.
LEMMA PushStrat ==
  ASSUME StratInv, NEW ts \in SUBSET Nodes, Push(ts)
  PROVE  StratInv'
<1>1. /\ stored' = stored \cup ts /\ UNCHANGED stratVars
      /\ \A t \in ts : taken[t] = 0
  BY DEF Push, Extend
<1>2. PoolInv'
  BY ExtendPool, StratKnown DEF Push
<1>3. StratTypeOK' /\ SourcesShaped' /\ NeverOverrun' /\ EveryItemOnce'
  BY <1>1, <1>2
  DEF StratInv, StratTypeOK, PoolInv, SourcesShaped, NeverOverrun, EveryItemOnce, stratVars
<1>4. StoredUndone'
  BY <1>1 DEF StratInv, StoredUndone, stratVars
<1>5. \A t \in ts : \A i \in 1..Len(yielded[t]) : FALSE
  BY <1>1, StratKnown
<1>6. ReturnedOnce'
  BY <1>1, <1>5 DEF StratInv, ReturnedOnce, stratVars
<1>7. EventsComing'
  <2>1. called' = CalledWith(ts) /\ UNCHANGED <<ready, current>>
    BY DEF Push, Extend
  <2>2. (\A u : Coming(u) => Coming(u)') /\ \A u \in ts : Coming(u)'
    BY <2>1, WakeComing
  <2> QED
    BY <1>1, <2>2 DEF StratInv, EventsComing, stratVars
<1> QED
  BY <1>2, <1>3, <1>4, <1>6, <1>7 DEF StratInv

LEMMA WithStrategyStrat ==
  ASSUME StratInv, NEW s, WithStrategy(s)
  PROVE  StratInv'
<1>1. /\ strategy' = s /\ stored' = stored
      /\ UNCHANGED <<poolVars, source, taken, overrun, yielded>>
  BY DEF WithStrategy, poolVars
<1>2. s \in AllStrategies /\ (s \in Futures <=> strategy \in Futures)
  BY SameKind DEF WithStrategy
<1>3. PoolInv' /\ \A u : Coming(u) => Coming(u)'
  BY <1>1, StillPool, StratKnown
<1>4. StratTypeOK'
  BY <1>1, <1>2, <1>3 DEF StratInv, StratTypeOK, PoolInv, AllStrategies
<1> QED
  BY <1>1, <1>2, <1>3, <1>4
  DEF StratInv, SourcesShaped, StoredUndone, EventsComing, NeverOverrun, EveryItemOnce,
      ReturnedOnce

\* The source produces one more event, which is not polled yet.
LEMMA ArriveStrat ==
  ASSUME StratInv, NEW t \in Nodes, Arrive(t)
  PROVE  StratInv'
<1>1. PICK event \in Events :
        /\ strategy \in Futures => event = "ok"
        /\ event = "end" \/ Len(source[t]) < MaxItems
        /\ source' = [source EXCEPT ![t] = Append(source[t], event)]
  BY DEF Arrive, Events
<1>2. /\ ~Complete(t) /\ UNCHANGED <<strategy, taken, overrun, yielded>>
      /\ stored' = stored
  BY DEF Arrive, WakeTasks
<1>3. PoolInv'
  BY WakePool, StratKnown DEF Arrive
<1>4. PICK n \in Nat : n = Len(source[t])
  BY StratKnown
<1>5. PICK old \in Seq(Events) : old = source[t]
  BY StratKnown
<1>6. PICK new \in Seq(Events) : new = Append(old, event)
  BY <1>5, AppendCell
<1>7. /\ Len(old) = n /\ Len(new) = n + 1
      /\ \A i \in 1..n : new[i] = old[i]
      /\ new[n + 1] = event
  BY <1>4, <1>5, <1>6, AppendCell
<1>8. /\ source' = [source EXCEPT ![t] = new] /\ source'[t] = new
      /\ \A u \in Nodes \ {t} : source'[u] = source[u]
  BY <1>1, <1>5, <1>6, StratKnown
<1>9. /\ strategy \in Futures => n = 0
      /\ \A i \in 1..n : old[i] # "end"
      /\ n <= MaxItems
  <2>1. /\ \A i \in 1..n : old[i] = "end" => i = n
        /\ \A i \in 1..n : old[i] # "end" => i <= MaxItems
    BY <1>5, <1>7 DEF StratInv, SourcesShaped
  <2>2. n = 0 \/ (strategy \notin Futures /\ old[n] # "end")
    BY <1>2, <1>5, <1>7, EmptySeq DEF Complete
  <2>3. CASE n = 0
    BY <2>3, StratKnown
  <2>4. CASE n # 0
    <3>1. n \in 1..n
      BY <2>4
    <3> QED
      BY <2>1, <2>2, <2>4, <3>1
  <2> QED
    BY <2>3, <2>4
<1>10. taken[t] \in Nat /\ taken[t] <= n
  BY <1>4, StratKnown
<1>11. StratTypeOK'
  <2>1. source' \in [Nodes -> Seq(Events)]
    BY <1>8, StratKnown
  <2>2. taken[t] <= n + 1 /\ n + 1 <= MaxItems + 1
    BY <1>9, <1>10, StratKnown
  <2>3. ASSUME NEW u \in Nodes
        PROVE  taken'[u] <= Len(source'[u]) /\ Len(source'[u]) <= MaxItems + 1
    <3>1. CASE u = t
      BY <1>2, <1>7, <1>8, <2>2, <3>1
    <3>2. CASE u # t
      BY <1>2, <1>8, <3>2, StratKnown
    <3> QED
      BY <3>1, <3>2
  <2> QED
    BY <1>2, <1>3, <2>1, <2>3 DEF StratInv, StratTypeOK, PoolInv
<1>12. SourcesShaped'
  <2>1. /\ strategy \in Futures =>
             Len(new) <= 1 /\ \A i \in 1..Len(new) : new[i] = "ok"
        /\ \A i \in 1..Len(new) : new[i] = "end" => i = Len(new)
        /\ \A i \in 1..Len(new) : new[i] # "end" => i <= MaxItems
    <3>1. \A i \in 1..n + 1 : i \in 1..n \/ i = n + 1
      OBVIOUS
    <3>2. \A i \in 1..n + 1 : new[i] = "end" => i = n + 1
      BY <1>7, <1>9, <3>1
    <3>3. \A i \in 1..n + 1 : new[i] # "end" => i <= MaxItems
      <4>1. event # "end" => n + 1 <= MaxItems
        BY <1>1, <1>4, StratKnown
      <4>2. \A i \in 1..n : i <= MaxItems
        BY <1>9, StratKnown
      <4> QED
        BY <1>7, <3>1, <4>1, <4>2
    <3>4. strategy \in Futures => n + 1 <= 1 /\ \A i \in 1..n + 1 : new[i] = "ok"
      BY <1>1, <1>7, <1>9, <3>1
    <3> QED
      BY <1>7, <3>2, <3>3, <3>4
  <2>2. ASSUME NEW u \in Nodes, u # t
        PROVE  source'[u] = source[u]
    BY <1>8, <2>2
  <2> QED
    BY <1>2, <1>8, <2>1, <2>2 DEF StratInv, SourcesShaped
<1>13. \A u \in Nodes : \A i \in 1..taken[u] : source'[u][i] = source[u][i]
  <2>1. \A i \in 1..taken[t] : i \in 1..n
    BY <1>10
  <2> QED
    BY <1>5, <1>7, <1>8, <2>1
<1>14. StoredUndone' /\ NeverOverrun'
  <2>1. stored \subseteq Nodes
    BY StratKnown
  <2>2. StoredUndone'
    BY <1>2, <1>13, <2>1 DEF StratInv, StoredUndone
  <2> QED
    BY <1>2, <2>2 DEF StratInv, NeverOverrun
<1>15. EveryItemOnce' /\ ReturnedOnce'
  BY <1>2, <1>13 DEF StratInv, EveryItemOnce, ReturnedOnce
<1>16. EventsComing'
  <2>1. called' = CalledWith({t} \cap stored) /\ UNCHANGED <<ready, current>>
    BY DEF Arrive, WakeTasks
  <2>2. (\A u : Coming(u) => Coming(u)') /\ (t \in stored => Coming(t)')
    BY <2>1, WakeComing
  <2>3. \A u \in stored \ {t} : source'[u] = source[u]
    BY <1>8, StratKnown
  <2> QED
    BY <1>2, <2>2, <2>3 DEF StratInv, EventsComing
<1> QED
  BY <1>3, <1>11, <1>12, <1>14, <1>15, <1>16 DEF StratInv

\* A poll that finds nothing new is not one too many.
LEMMA PollPendingStrat ==
  ASSUME StratInv, PollPending
  PROVE  StratInv'
<1>1. /\ current \in stored /\ taken[current] = Len(source[current])
      /\ overrun' = (overrun \/ Complete(current)) /\ stored' = stored
      /\ UNCHANGED <<strategy, source, taken, yielded>>
  BY DEF PollPending, EndPoll
<1>2. PoolInv' /\ current \in Nodes
  BY PolledPool, StratKnown DEF PollPending
<1>3. ~Complete(current)
  <2>1. PICK n \in Nat : n = Len(source[current]) /\ n = taken[current]
    BY <1>1, <1>2, StratKnown
  <2>2. /\ strategy \in Futures => n = 0
        /\ \A i \in 1..n : source[current][i] # "end"
    BY <1>1, <2>1 DEF StratInv, StoredUndone
  <2>3. source[current] # <<>> => n \in 1..n
    <3>1. source[current] \in Seq(Events)
      BY <1>2, StratKnown
    <3>2. source[current] # <<>> => n # 0
      BY <2>1, <3>1, EmptySeq
    <3> QED
      BY <3>2
  <2>4. strategy \in Futures => source[current] = <<>>
    BY <2>2, <2>3
  <2> QED
    BY <2>1, <2>2, <2>3, <2>4 DEF Complete
<1>4. overrun' = overrun
  BY <1>1, <1>3, StratKnown
<1>5. \A u \in stored \ {current} : Coming(u) => Coming(u)'
  BY PolledComing, StratKnown DEF PollPending
<1>6. ~(taken[current] < Len(source[current]))
  BY <1>1, <1>2, StratKnown
<1>7. \A u \in stored : taken[u] < Len(source[u]) => Coming(u)'
  BY <1>5, <1>6 DEF StratInv, EventsComing
<1> QED
  BY <1>1, <1>2, <1>4, <1>7, IdleStrat DEF stratVars

\* What a poll that takes something does, with the output of the strategy named.
Polled(i, done) ==
  /\ current \in stored /\ current \in Nodes
  /\ i \in 1..Len(source[current]) /\ taken[current] = i - 1
  /\ Len(yielded[current]) = i - 1
  /\ Right(done, strategy, current, source[current][i], i)
  /\ stored' = IF done.flow = "break" THEN stored \ {current} ELSE stored
  /\ taken' = [taken EXCEPT ![current] = i]
  /\ yielded' = IF done.output # NoOutput
                THEN [yielded EXCEPT ![current] = Append(yielded[current], done.output)]
                ELSE yielded
  /\ source[current][i] # "end" => done.output # NoOutput
  /\ \A u \in stored' : Coming(u) => Coming(u)'
  /\ UNCHANGED <<strategy, source, overrun>>

LEMMA ReadyIsPolled ==
  ASSUME StratInv, PollReady
  PROVE  PoolInv' /\ \E i \in Nat : \E done : Polled(i, done)
<1>1. /\ current \in stored /\ taken[current] < Len(source[current])
      /\ UNCHANGED <<strategy, source, overrun>>
  BY DEF PollReady
<1>2. current \in Nodes
  BY <1>1, StratKnown
<1>3. PICK n \in Nat, m \in Nat :
        n = Len(source[current]) /\ m = taken[current] /\ m < n
  BY <1>1, <1>2, StratKnown
<1>4. PICK i \in Nat : i = m + 1
  OBVIOUS
<1>5. i \in 1..n /\ m = i - 1 /\ i # 0
  BY <1>3, <1>4
<1>6. PICK done : done = Applied(strategy, current, source[current][i], i)
  OBVIOUS
<1>7. /\ EndPoll(done.flow, done.output # NoOutput, {})
      /\ taken' = [taken EXCEPT ![current] = i]
      /\ yielded' = IF done.output # NoOutput
                    THEN [yielded EXCEPT ![current] = Append(@, done.output)]
                    ELSE yielded
  BY <1>3, <1>4, <1>6 DEF PollReady
<1>8. PoolInv'
  BY <1>7, PolledPool, StratKnown
<1>9. stored' = IF done.flow = "break" THEN stored \ {current} ELSE stored
  BY <1>7 DEF EndPoll
<1>10. /\ strategy \in Futures => m = 0
       /\ \A j \in 1..m : source[current][j] # "end"
  BY <1>1, <1>3 DEF StratInv, StoredUndone
<1>11. Len(yielded[current]) = i - 1
  <2>1. PICK l \in Nat : l = Len(yielded[current]) /\ l <= m
    BY <1>2, <1>3, StratKnown
  <2>2. \A j \in 1..m : j <= l
    BY <1>2, <1>3, <1>10, <2>1 DEF StratInv, EveryItemOnce
  <2>3. m # 0 => m <= l
    BY <2>2
  <2> QED
    BY <1>5, <2>1, <2>3
<1>12. Right(done, strategy, current, source[current][i], i)
  <2>1. source[current][i] \in Events
    <3>1. source[current] \in Seq(Events)
      BY <1>2, StratKnown
    <3> QED
      BY <1>3, <1>5, <3>1
  <2>2. strategy \in Futures => source[current][i] = "ok"
    BY <1>2, <1>3, <1>5 DEF StratInv, SourcesShaped
  <2> QED
    BY <1>2, <1>6, <2>1, <2>2, AppliedIsRight, StratKnown
<1>13. source[current][i] # "end" => done.output # NoOutput
  <2>1. source[current][i] # "end" => done.output.value = i
    BY <1>12 DEF Right
  <2>2. NoOutput.value = 0
    BY DEF NoOutput, Output
  <2> QED
    BY <1>5, <2>1, <2>2
<1>14. \A u \in stored' : Coming(u) => Coming(u)'
  <2>1. PoolInv
    BY StratKnown
  <2>2. \A u \in stored \ {current} : Coming(u) => Coming(u)'
    BY <1>7, <2>1, PolledComing
  <2>3. done.flow = "continue" => \A u \in {current} : Coming(u)'
    BY <1>7, <2>1, PolledComing
  <2>4. done.flow \in {"break", "continue"}
    BY <1>12 DEF Right
  <2> QED
    BY <1>9, <2>2, <2>3, <2>4
<1>15. Polled(i, done)
  BY <1>1, <1>2, <1>3, <1>5, <1>7, <1>9, <1>11, <1>12, <1>13, <1>14 DEF Polled
<1> QED
  BY <1>8, <1>15

\* The item goes to the outputs of its task and nowhere else.
LEMMA PolledOutput ==
  ASSUME StratInv, NEW i \in Nat, NEW done, Polled(i, done)
  PROVE  \E outputs \in Seq([value : 0..MaxItems, id : Nodes \cup {Null},
                             removed : Nodes \cup {Null}]) :
           /\ yielded' = [yielded EXCEPT ![current] = outputs]
           /\ \A j \in 1..i - 1 : outputs[j] = yielded[current][j]
           /\ \/ Len(outputs) = i /\ outputs[i] = done.output
              \/ Len(outputs) = i - 1 /\ source[current][i] = "end"
<1> DEFINE All == [value : 0..MaxItems, id : Nodes \cup {Null},
                   removed : Nodes \cup {Null}]
<1>1. PICK old \in Seq(All) : old = yielded[current]
  BY StratKnown DEF Polled
<1>2. Len(old) = i - 1 /\ i \in Nat
  BY <1>1 DEF Polled
<1>3. CASE done.output # NoOutput
  <2>1. done.output \in All
    <3>1. /\ done.output \in Outputs(i)
          /\ source[current][i] = "end" => done.output.value = 0
          /\ source[current][i] # "end" => done.output.value = i
      BY DEF Polled, Right
    <3>2. source[current][i] # "end" => i <= MaxItems
      BY DEF Polled, StratInv, SourcesShaped
    <3>3. done.output.value \in 0..MaxItems
      BY <3>1, <3>2, StratKnown
    <3> QED
      BY <3>1, <3>3 DEF Outputs
  <2>2. PICK outputs \in Seq(All) : outputs = Append(old, done.output)
    BY <2>1, AppendCell
  <2>3. /\ Len(outputs) = i /\ outputs[i] = done.output
        /\ \A j \in 1..i - 1 : outputs[j] = old[j]
    <3>1. /\ Len(outputs) = Len(old) + 1 /\ outputs[Len(old) + 1] = done.output
          /\ \A j \in 1..Len(old) : outputs[j] = old[j]
      BY <2>1, <2>2, AppendCell
    <3>2. Len(old) + 1 = i
      BY <1>2
    <3> QED
      BY <1>2, <3>1, <3>2
  <2> QED
    BY <1>1, <1>3, <2>2, <2>3 DEF Polled
<1>4. CASE done.output = NoOutput
  <2>1. yielded' = [yielded EXCEPT ![current] = old] /\ source[current][i] = "end"
    BY <1>1, <1>4, StratKnown DEF Polled
  <2> QED
    BY <1>1, <1>2, <2>1
<1> QED
  BY <1>3, <1>4

\* A poll that takes an event.
LEMMA PollReadyStrat ==
  ASSUME StratInv, PollReady
  PROVE  StratInv'
<1>1. PoolInv'
  BY ReadyIsPolled
<1>2. PICK i \in Nat : \E done : Polled(i, done)
  BY ReadyIsPolled
<1>3. PICK done : Polled(i, done)
  BY <1>2
<1>4. PICK outputs \in Seq([value : 0..MaxItems, id : Nodes \cup {Null},
                            removed : Nodes \cup {Null}]) :
           /\ yielded' = [yielded EXCEPT ![current] = outputs]
           /\ \A j \in 1..i - 1 : outputs[j] = yielded[current][j]
           /\ \/ Len(outputs) = i /\ outputs[i] = done.output
              \/ Len(outputs) = i - 1 /\ source[current][i] = "end"
  BY <1>3, PolledOutput
<1>5. /\ current \in stored /\ current \in Nodes
      /\ i \in 1..Len(source[current]) /\ taken[current] = i - 1
      /\ Len(yielded[current]) = i - 1
      /\ Right(done, strategy, current, source[current][i], i)
      /\ stored' = IF done.flow = "break" THEN stored \ {current} ELSE stored
      /\ UNCHANGED <<strategy, source, overrun>>
  BY <1>3 DEF Polled
<1>6. /\ taken' \in [Nodes -> Nat] /\ taken'[current] = i
      /\ \A t \in Nodes \ {current} : taken'[t] = taken[t]
  BY <1>3, StratKnown DEF Polled
<1>7. /\ yielded'[current] = outputs
      /\ yielded' \in [Nodes -> Seq([value : 0..MaxItems, id : Nodes \cup {Null},
                                    removed : Nodes \cup {Null}])]
      /\ \A t \in Nodes \ {current} : yielded'[t] = yielded[t]
  BY <1>4, <1>5, StratKnown
<1>8. \A j \in 1..i : j \in 1..i - 1 \/ j = i
  OBVIOUS
<1>9. StratTypeOK'
  <2>1. ASSUME NEW t \in Nodes
        PROVE  taken'[t] <= Len(source'[t]) /\ Len(source'[t]) <= MaxItems + 1
    <3>1. source'[t] = source[t] /\ Len(source[t]) \in Nat
      BY <1>5, StratKnown
    <3>2. taken'[t] <= Len(source[t])
      <4>1. CASE t = current
        BY <1>5, <1>6, <3>1, <4>1
      <4>2. CASE t # current
        BY <1>6, <4>2, StratKnown
      <4> QED
        BY <4>1, <4>2
    <3> QED
      BY <3>1, <3>2, StratKnown
  <2> QED
    BY <1>1, <1>5, <1>6, <1>7, <2>1 DEF StratInv, StratTypeOK, PoolInv
<1>10. SourcesShaped' /\ NeverOverrun'
  BY <1>5 DEF StratInv, SourcesShaped, NeverOverrun
<1>11. StoredUndone'
  <2>1. ASSUME current \in stored'
        PROVE  strategy \notin Futures /\ source[current][i] # "end"
    BY <1>5, <2>1 DEF Right
  <2>2. ASSUME NEW t \in stored'
        PROVE  /\ strategy' \in Futures => taken'[t] = 0
               /\ \A j \in 1..taken'[t] : source'[t][j] # "end"
    <3>1. t \in stored /\ t \in Nodes
      BY <1>5, <2>2, StratKnown
    <3>2. CASE t # current
      BY <1>5, <1>6, <3>1, <3>2 DEF StratInv, StoredUndone
    <3>3. CASE t = current
      <4>1. \A j \in 1..i - 1 : source[current][j] # "end"
        BY <1>5 DEF StratInv, StoredUndone
      <4> QED
        BY <1>5, <1>6, <1>8, <2>1, <2>2, <3>3, <4>1
    <3> QED
      BY <3>2, <3>3
  <2> QED
    BY <2>2 DEF StoredUndone
<1>12. EveryItemOnce'
  <2>1. Len(outputs) <= i
    BY <1>4
  <2>2. ASSUME NEW j \in 1..i
        PROVE  IF source[current][j] = "end"
               THEN j <= Len(outputs) => outputs[j].value = 0
               ELSE /\ j <= Len(outputs)
                    /\ outputs[j].value = j /\ outputs[j].id \in {Null, current}
    <3>1. CASE j = i
      <4>1. /\ done.output.id \in {Null, current}
            /\ IF source[current][i] = "end" THEN done.output.value = 0
                                             ELSE done.output.value = i
        BY <1>5 DEF Right
      <4> QED
        BY <1>4, <3>1, <4>1
    <3>2. CASE j \in 1..i - 1
      <4>1. IF source[current][j] = "end"
            THEN j <= i - 1 => yielded[current][j].value = 0
            ELSE /\ j <= i - 1
                 /\ yielded[current][j].value = j
                 /\ yielded[current][j].id \in {Null, current}
        BY <1>5, <3>2 DEF StratInv, EveryItemOnce
      <4> QED
        BY <1>4, <3>2, <4>1
    <3> QED
      BY <1>8, <3>1, <3>2
  <2>3. ASSUME NEW t \in Nodes
        PROVE  /\ Len(yielded'[t]) <= taken'[t]
               /\ \A j \in 1..taken'[t] :
                    IF source'[t][j] = "end"
                    THEN j <= Len(yielded'[t]) => yielded'[t][j].value = 0
                    ELSE /\ j <= Len(yielded'[t])
                         /\ yielded'[t][j].value = j /\ yielded'[t][j].id \in {Null, t}
    <3>1. CASE t = current
      BY <1>5, <1>6, <1>7, <2>1, <2>2, <3>1
    <3>2. CASE t # current
      <4>1. taken'[t] = taken[t] /\ yielded'[t] = yielded[t] /\ source'[t] = source[t]
        BY <1>5, <1>6, <1>7, <3>2
      <4> QED
        BY <4>1 DEF StratInv, EveryItemOnce
    <3> QED
      BY <3>1, <3>2
  <2> QED
    BY <2>3 DEF EveryItemOnce
<1>13. ReturnedOnce'
  <2>1. \A j \in 1..i - 1 : yielded[current][j].removed = Null
    BY <1>5 DEF StratInv, ReturnedOnce
  <2>2. ASSUME NEW j \in 1..Len(outputs), outputs[j].removed # Null
        PROVE  /\ outputs[j].removed = current
               /\ j = Len(outputs)
               /\ current \notin stored'
    <3>1. j \notin 1..i - 1
      BY <1>4, <2>1, <2>2
    <3>2. Len(outputs) = i /\ j = i /\ outputs[i] = done.output
      BY <1>4, <1>8, <2>2, <3>1
    <3>3. done.output.removed = current /\ done.flow = "break"
      BY <1>5, <2>2, <3>2 DEF Right
    <3> QED
      BY <1>5, <3>2, <3>3
  <2>3. ASSUME NEW t \in Nodes, NEW j \in 1..Len(yielded'[t]),
               yielded'[t][j].removed # Null
        PROVE  /\ yielded'[t][j].removed = t
               /\ j = Len(yielded'[t])
               /\ t \notin stored'
    <3>1. CASE t = current
      BY <1>7, <2>2, <2>3, <3>1
    <3>2. CASE t # current
      BY <1>5, <1>7, <2>3, <3>2 DEF StratInv, ReturnedOnce
    <3> QED
      BY <3>1, <3>2
  <2> QED
    BY <2>3 DEF ReturnedOnce
<1>14. EventsComing'
  <2>1. \A u \in stored' : u \in stored /\ (Coming(u) => Coming(u)')
    BY <1>3, <1>5 DEF Polled
  <2>2. ASSUME NEW u \in stored', taken'[u] < Len(source'[u])
        PROVE  taken[u] < Len(source[u])
    <3>1. u \in Nodes /\ source'[u] = source[u] /\ Len(source[u]) \in Nat
      BY <1>5, <2>1, StratKnown
    <3>2. CASE u = current
      BY <1>5, <1>6, <2>2, <3>1, <3>2
    <3>3. CASE u # current
      BY <1>6, <2>2, <3>1, <3>3
    <3> QED
      BY <3>2, <3>3
  <2> QED
    BY <2>1, <2>2 DEF StratInv, EventsComing
<1> QED
  BY <1>1, <1>9, <1>10, <1>11, <1>12, <1>13, <1>14 DEF StratInv

LEMMA NextStrat ==
  ASSUME StratInv, [StratNext]_allStratVars
  PROVE  StratInv'
<1>1. ASSUME NEW ts \in SUBSET Nodes, Push(ts) PROVE StratInv'
  BY <1>1, PushStrat
<1>2. ASSUME NEW s, WithStrategy(s) PROVE StratInv'
  BY <1>2, WithStrategyStrat
<1>3. ASSUME NEW t \in Nodes, Arrive(t) PROVE StratInv'
  BY <1>3, ArriveStrat
<1>4. ASSUME NEW t \in Nodes, Enter(t), UNCHANGED stratVars PROVE StratInv'
  BY <1>4, StillComing, EnterComing, StratKnown
<1>5. CASE StratPollAgain
  BY <1>5, StillComing, DrainComing, StratKnown DEF StratPollAgain
<1>6. CASE (TakeStock \/ TakeTask \/ GiveUp \/ SkipRemoved) /\ UNCHANGED stratVars
  <2>1. PoolInv' /\ stored' = stored /\ \A u \in stored : Coming(u) => Coming(u)'
    BY <1>6, DrainComing, StratKnown
  <2> QED
    BY <1>6, <2>1, StillComing
<1>7. CASE PollPending
  BY <1>7, PollPendingStrat
<1>8. CASE PollReady
  BY <1>8, PollReadyStrat
<1>9. CASE UNCHANGED allStratVars
  <2>1. PoolInv' /\ stored' = stored /\ \A u : Coming(u) => Coming(u)'
    BY <1>9, StillPool, StratKnown DEF allStratVars
  <2> QED
    BY <1>9, <2>1, StillComing DEF allStratVars
<1> QED
  BY <1>1, <1>2, <1>3, <1>4, <1>5, <1>6, <1>7, <1>8, <1>9 DEF StratNext, StratPollStep

\* src/task/strategy.rs on the pool: the inductive invariant, which the
\* properties of the run follow from.
THEOREM StratInvariant == StratSpec => []StratInv
<1>1. StratInv /\ [StratNext]_allStratVars => StratInv'
  BY NextStrat
<1> QED
  BY <1>1, InitStrat, PTL DEF StratSpec

\* Strategies: its types; nothing is taken that was not produced.
THEOREM StratTypeCorrect == StratSpec => []StratTypeOK
<1>1. StratInv => StratTypeOK
  BY DEF StratInv
<1> QED
  BY <1>1, StratInvariant, PTL

\* Arrive and with_strategy: what a stored future or stream has produced is not
\* slept over, whatever strategy it was woken under.
THEOREM ProducedIsPolled == StratSpec => []EventsComing
<1>1. StratInv => EventsComing
  BY DEF StratInv
<1> QED
  BY <1>1, StratInvariant, PTL

\* transform_cont and transform_break: every item that a poll takes out of a
\* source is yielded, in order and once, under whatever strategies took turns.
THEOREM ItemsYieldedOnce == StratSpec => []EveryItemOnce
<1>1. StratInv => EveryItemOnce
  BY DEF StratInv
<1> QED
  BY <1>1, StratInvariant, PTL

\* The Reclaim strategies: a future or stream that was given back is the right
\* one, left the selector and yields nothing more.
THEOREM GivenBackOnce == StratSpec => []ReturnedOnce
<1>1. StratInv => ReturnedOnce
  BY DEF StratInv
<1> QED
  BY <1>1, StratInvariant, PTL

\* poll_progress: no future is polled after its output, no stream after its end.
THEOREM NothingOverrun == StratSpec => []NeverOverrun
<1>1. StratInv => NeverOverrun
  BY DEF StratInv
<1> QED
  BY <1>1, StratInvariant, PTL

\* The Break of a strategy: a task leaves at the poll that finds it done, and at
\* no other step.
THEOREM LeavesJustThen == StratSpec => LeavesWhenDone
<1>1. ASSUME StratInv, PollReady, NEW t \in Nodes, t \in stored
      PROVE  t \notin stored' <=> taken'[t] # taken[t] /\ Done(strategy, t, taken'[t])
  <2>0. PICK i \in Nat : \E done : Polled(i, done)
    BY <1>1, ReadyIsPolled
  <2>1. PICK done : Polled(i, done)
    BY <2>0
  <2>2. /\ current \in Nodes /\ i \in 1..Len(source[current])
        /\ taken[current] = i - 1
        /\ Right(done, strategy, current, source[current][i], i)
        /\ stored' = IF done.flow = "break" THEN stored \ {current} ELSE stored
        /\ taken' = [taken EXCEPT ![current] = i]
    BY <2>1 DEF Polled
  <2>3. CASE t = current
    <3>1. taken'[t] = i /\ taken[t] # i
      BY <1>1, <2>2, <2>3, StratKnown
    <3>2. t \notin stored' <=> done.flow = "break"
      BY <1>1, <2>2, <2>3
    <3>3. done.flow = "break" <=> Done(strategy, t, i)
      BY <2>2, <2>3 DEF Right, Done
    <3> QED
      BY <3>1, <3>2, <3>3
  <2>4. CASE t # current
    BY <1>1, <2>2, <2>4, StratKnown
  <2> QED
    BY <2>3, <2>4
<1>2. ASSUME StratNext, ~PollReady
      PROVE  stored \subseteq stored' /\ taken' = taken
  BY <1>2
  DEF StratNext, StratPollStep, StratPollAgain, CallPollNext, TakeStock, TakeTask,
      GiveUp, SkipRemoved, PollPending, EndPoll, Push, Extend, WithStrategy, Arrive,
      WakeTasks, Enter, poolVars, stratVars
<1>3. StratInv /\ [StratNext]_allStratVars =>
        [\A t \in Nodes :
           t \in stored =>
             (t \notin stored' <=> taken'[t] # taken[t] /\ Done(strategy, t, taken'[t]))
        ]_allStratVars
  BY <1>1, <1>2
<1> QED
  BY <1>3, StratInvariant, PTL DEF StratSpec, LeavesWhenDone
=============================================================================
