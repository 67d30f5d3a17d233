\* Safety and refinement: two producers race with the receiver over three
\* nodes, enough for a node on each side of the stub and one being recovered.
SPECIFICATION Spec
CONSTANTS
  Nodes = {n1, n2, n3}
  Producers = {p1, p2}
  Stub = Stub
  Null = Null
SYMMETRY Perms
INVARIANTS
  TypeOK
  ClaimExclusive
  MarkerAhead
  NoLostWakeup
  DropReleasesAll
PROPERTIES
  NoneJustified
  ImplementsWakeupQueue
