SPECIFICATION SelSpec
CONSTANTS
  Nodes = {n1, n2, n3}
  Producers = {owner, w1}
  Owner = owner
  Null = Null
SYMMETRY Perms
INVARIANTS
  SelTypeOK
  EventNotForgotten
  ClaimedIsComing
  NoSleepOverEvents
PROPERTIES
  PolledOncePerPoll
  RoundRobin
  ImplementsTaskPool
