---------------------------- MODULE MCStrategies ----------------------------
EXTENDS Strategies

\* Each strategy; a Stream's and a TryStream's take turns, both with a strategy
\* that drops the task and with one that gives it back.
Mixed == {Futures,
          {"StreamBasic"}, {"StreamWithId", "TryStreamBasic"},
          {"TryStreamWithId"}, {"StreamReclaim", "TryStreamReclaim"}}
=============================================================================
