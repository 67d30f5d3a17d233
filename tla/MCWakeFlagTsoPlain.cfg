\* Tasks that only load their event, such as a channel that finds the same
\* waker registered already.
SPECIFICATION Spec
CONSTANTS
  Nodes = {n1}
  Threads = {t1}
  PollsWithRmw = FALSE
  Null = Null
INVARIANTS
  WokenIsPolled
