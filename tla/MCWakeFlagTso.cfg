\* Tasks whose poll executes an atomic read-modify-write before it reads.
SPECIFICATION Spec
CONSTANTS
  Nodes = {n1, n2}
  Threads = {t1, t2}
  PollsWithRmw = TRUE
  Null = Null
SYMMETRY Perms
INVARIANTS
  WokenIsPolled
