\* Liveness; no symmetry, which is unsound for temporal properties.
SPECIFICATION FairSpec
CONSTANTS
  Nodes = {n1, n2}
  Producers = {p1, p2}
  Stub = Stub
  Null = Null
PROPERTIES
  EventuallyDequeued
