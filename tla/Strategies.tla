----------------------------- MODULE Strategies -----------------------------
(***************************************************************************)
(* src/task/strategy.rs: how the strategies make tasks of futures and      *)
(* streams, run by a selector (TaskPool).                                  *)
(*                                                                         *)
(* A future or stream is external code.  A future resolves with "ok"; what *)
(* a stream produces is a sequence of "ok" and "err" with an "end" (errors *)
(* are ordinary items unless the strategy is for a TryStream, and there    *)
(* may be more items behind one).  Polling it after it resolved or ended   *)
(* is an error of the caller.                                              *)
(***************************************************************************)
EXTENDS TaskPool

CONSTANTS
  MaxItems,     \* the longest sequence a stream produces
  Families      \* sets of strategies that may replace one another

VARIABLES
  strategy,  \* Selector::strategy
  source,    \* what each future or stream has produced up to now
  taken,     \* how much of it has been polled
  overrun,   \* whether one was polled again after it resolved or ended
  yielded    \* the outputs of the selector, oldest first

stratVars == <<strategy, source, taken, overrun, yielded>>
allStratVars == <<poolVars, stratVars>>

Events == {"ok", "err", "end"}

Futures == {"FutureBasic", "FutureReclaim"}
Streams == {"StreamBasic", "StreamWithId", "StreamReclaim"}
TryStreams == {"TryStreamBasic", "TryStreamWithId", "TryStreamReclaim"}

ASSUME StrategiesAssumption ==
  /\ MaxItems \in Nat \ {0}
  /\ \A family \in Families :
       family # {} /\ (family \subseteq Futures \/ family \subseteq Streams \cup TryStreams)

StratInit ==
  /\ PoolInit
  /\ strategy \in UNION Families
  /\ source = [t \in Nodes |-> <<>>] /\ taken = [t \in Nodes |-> 0]
  /\ overrun = FALSE
  /\ yielded = [t \in Nodes |-> <<>>]

----------------------------------------------------------------------------
(* The strategies: what a poll that finds `event` in the future or stream  *)
(* of task t amounts to, through poll_progress and transform_cont or       *)
(* transform_break.                                                        *)

\* value: which of the task's items the output carries, 0 for none;
\* id: the Id attached to it; removed: the task itself, given back.
Output(value, id, removed) == [value |-> value, id |-> id, removed |-> removed]
NoOutput == Output(0, Null, Null)

Break(output) == [flow |-> "break", output |-> output]
More(output) == [flow |-> "continue", output |-> output]

FutureBasic(t, event, i) == Break(Output(i, Null, Null))

\* Mutant: gives the future back and keeps it.
FutureReclaimStays(t, event, i) == More(Output(i, Null, t))

FutureReclaim(t, event, i) == Break(Output(i, Null, t))

\* Mutant: does not notice the end.
StreamNeverEnds(t, event, i) ==
  More(IF event = "end" THEN NoOutput ELSE Output(i, Null, Null))

StreamBasic(t, event, i) ==
  IF event = "end" THEN Break(NoOutput) ELSE More(Output(i, Null, Null))

StreamWithId(t, event, i) ==
  IF event = "end" THEN Break(NoOutput) ELSE More(Output(i, t, Null))

StreamReclaim(t, event, i) ==
  IF event = "end" THEN Break(Output(0, Null, t)) ELSE More(Output(i, t, Null))

\* Mutant: goes on after an error.
TryStreamGoesOn(t, event, i) ==
  IF event = "end" THEN Break(NoOutput) ELSE More(Output(i, Null, Null))

TryStreamBasic(t, event, i) ==
  CASE event = "ok"  -> More(Output(i, Null, Null))
    [] event = "err" -> Break(Output(i, Null, Null))
    [] event = "end" -> Break(NoOutput)

\* Mutant: the error gets lost.
TryStreamLosesError(t, event, i) ==
  IF event = "ok" THEN More(Output(i, t, Null)) ELSE Break(NoOutput)

TryStreamWithId(t, event, i) ==
  CASE event = "ok"  -> More(Output(i, t, Null))
    [] event = "err" -> Break(Output(i, t, Null))
    [] event = "end" -> Break(NoOutput)

TryStreamReclaim(t, event, i) ==
  CASE event = "ok"  -> More(Output(i, t, Null))
    [] event = "err" -> Break(Output(i, Null, t))
    [] event = "end" -> Break(Output(0, Null, t))

Applied(s, t, event, i) ==
  CASE s = "FutureBasic"      -> FutureBasic(t, event, i)
    [] s = "FutureReclaim"    -> FutureReclaim(t, event, i)
    [] s = "StreamBasic"      -> StreamBasic(t, event, i)
    [] s = "StreamWithId"     -> StreamWithId(t, event, i)
    [] s = "StreamReclaim"    -> StreamReclaim(t, event, i)
    [] s = "TryStreamBasic"   -> TryStreamBasic(t, event, i)
    [] s = "TryStreamWithId"  -> TryStreamWithId(t, event, i)
    [] s = "TryStreamReclaim" -> TryStreamReclaim(t, event, i)

----------------------------------------------------------------------------
(* The selector, its user and the sources *)

\* A future is done with its output, a stream with its end.
Complete(t) ==
  /\ source[t] # <<>>
  /\ strategy \in Futures \/ source[t][Len(source[t])] = "end"

\* push, extend, or the from_iter of a collect.
Push(ts) ==
  /\ ts # {} /\ \A t \in ts : taken[t] = 0
  /\ Extend(ts)
  /\ UNCHANGED stratVars

\* with_strategy, or an assignment through strategy_mut.
WithStrategy(s) ==
  /\ Unborrowed
  /\ \E family \in Families : {strategy, s} \subseteq family
  /\ strategy' = s
  /\ UNCHANGED <<poolVars, source, taken, overrun, yielded>>

\* The source of a future or stream has something new and wakes it.
Arrive(t) ==
  /\ ~Complete(t)
  /\ \E event \in IF strategy \in Futures THEN {"ok"} ELSE Events :
       /\ event = "end" \/ Len(source[t]) < MaxItems
       /\ source' = [source EXCEPT ![t] = Append(@, event)]
  /\ WakeTasks({t} \cap stored)
  /\ UNCHANGED <<strategy, taken, overrun, yielded>>

PollPending ==
  /\ current \in stored
  /\ taken[current] = Len(source[current])
  /\ EndPoll("pending", FALSE, {})
  /\ overrun' = (overrun \/ Complete(current))
  /\ UNCHANGED <<strategy, source, taken, yielded>>

PollReady ==
  /\ current \in stored
  /\ taken[current] < Len(source[current])
  /\ LET i == taken[current] + 1
         done == Applied(strategy, current, source[current][i], i)
         some == done.output # NoOutput IN
     /\ EndPoll(done.flow, some, {})
     /\ taken' = [taken EXCEPT ![current] = i]
     /\ yielded' = IF some
                   THEN [yielded EXCEPT ![current] = Append(@, done.output)]
                   ELSE yielded
  /\ UNCHANGED <<strategy, source, overrun>>

StratPollStep ==
  \/ (TakeStock \/ TakeTask \/ GiveUp \/ SkipRemoved) /\ UNCHANGED stratVars
  \/ PollPending \/ PollReady

StratPollAgain == CallPollNext /\ UNCHANGED stratVars

StratNext ==
  \/ \E ts \in SUBSET Nodes : Push(ts)
  \/ \E s \in UNION Families : WithStrategy(s)
  \/ \E t \in Nodes : Arrive(t) \/ (Enter(t) /\ UNCHANGED stratVars)
  \/ StratPollAgain \/ StratPollStep

StratSpec == StratInit /\ [][StratNext]_allStratVars

(***************************************************************************)
(* The enqueue of a woken task is finished, a poll goes on to its end and  *)
(* does not give up for ever (Selector!DrainsGoOn), the caller polls again *)
(* after a value or a wakeup, and the sources produce all they have to     *)
(* produce.  Nobody pushes or polls otherwise.                             *)
(***************************************************************************)
StratFairness ==
  /\ \A t \in Nodes : WF_allStratVars(Enter(t) /\ UNCHANGED stratVars)
  /\ \A t \in Nodes : WF_allStratVars(Arrive(t))
  /\ WF_allStratVars(StratPollStep)
  /\ SF_allStratVars(TakeTask /\ UNCHANGED stratVars)
  /\ WF_allStratVars(StratPollAgain /\ (roused \/ ~Asleep(status)))

StratFairSpec == StratSpec /\ StratFairness

----------------------------------------------------------------------------
(* Properties *)

StratTypeOK ==
  /\ PoolTypeOK
  /\ strategy \in Futures \cup Streams \cup TryStreams
  /\ source \in [Nodes -> Seq(Events)] /\ taken \in [Nodes -> Nat]
  /\ \A t \in Nodes : taken[t] <= Len(source[t]) /\ Len(source[t]) <= MaxItems + 1
  /\ overrun \in BOOLEAN
  /\ yielded \in [Nodes -> Seq([value : 0..MaxItems, id : Nodes \cup {Null},
                                removed : Nodes \cup {Null}])]

\* "Selector will yield all items", each once and in order, the first error
\* of a TryStream and the output of a future included, and whatever the
\* strategies that took turns: nothing that was polled out of a source is
\* lost on its way through transform_cont or transform_break.  The i-th poll
\* that found something yields the i-th item; only an end yields none.
EveryItemOnce ==
  \A t \in Nodes :
    /\ Len(yielded[t]) <= taken[t]
    /\ \A i \in 1..taken[t] :
         IF source[t][i] = "end"
         THEN i <= Len(yielded[t]) => yielded[t][i].value = 0
         ELSE /\ i <= Len(yielded[t])
              /\ yielded[t][i].value = i /\ yielded[t][i].id \in {Null, t}

\* A task given back by a Reclaim strategy is the right one, is not in the
\* selector any more, and nothing is yielded for it afterwards.
ReturnedOnce ==
  \A t \in Nodes : \A i \in 1..Len(yielded[t]) :
    yielded[t][i].removed # Null =>
      /\ yielded[t][i].removed = t
      /\ i = Len(yielded[t])
      /\ t \notin stored

\* A task that returned Break "should not be polled again": no future is
\* polled after its output and no stream after its end.
NeverOverrun == ~overrun

\* A future has one output, a stream's end is its last event, and no stream
\* has more than MaxItems items before it.
SourcesShaped ==
  \A t \in Nodes :
    /\ strategy \in Futures =>
         Len(source[t]) <= 1 /\ \A i \in 1..Len(source[t]) : source[t][i] = "ok"
    /\ \A i \in 1..Len(source[t]) : source[t][i] = "end" => i = Len(source[t])
    /\ \A i \in 1..Len(source[t]) : source[t][i] # "end" => i <= MaxItems

\* A task in the selector has not returned Break: no output was taken from its
\* future, no end from its stream.
StoredUndone ==
  \A t \in stored :
    /\ strategy \in Futures => taken[t] = 0
    /\ \A i \in 1..taken[t] : source[t][i] # "end"

\* What a stored future or stream has produced is going to be polled.
EventsComing == \A t \in stored : taken[t] < Len(source[t]) => Coming(t)

\* All of this is invariant together: the pool's order, the shape of what the
\* sources produce, what has become of it, and that none of it is slept over.
StratInv ==
  /\ StratTypeOK /\ PoolInv
  /\ SourcesShaped /\ StoredUndone /\ EventsComing
  /\ NeverOverrun /\ EveryItemOnce /\ ReturnedOnce

\* The docs of the strategies: a stream is kept until it is exhausted, a
\* TryStream until it yields an error or is exhausted, and a future until it
\* resolves; then, and only then, it leaves the selector.
Done(s, t, i) ==
  \/ s \in Futures
  \/ source[t][i] = "end"
  \/ s \in TryStreams /\ source[t][i] = "err"

LeavesWhenDone ==
  [][\A t \in Nodes :
       t \in stored =>
         (t \notin stored' <=> taken'[t] # taken[t] /\ Done(strategy, t, taken'[t]))
    ]_allStratVars

\* Every task that was pushed resolves, fails or is exhausted, and leaves.
EventuallyDone == \A t \in Nodes : t \in stored ~> t \notin stored
=============================================================================
