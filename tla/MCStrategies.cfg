SPECIFICATION StratFairSpec
CONSTANTS
  Nodes = {t1, t2}
  Null = Null
  MaxItems = 2
  Families <- Mixed
INVARIANTS
  StratInv
  EveryItemOnce
  ReturnedOnce
  NeverOverrun
PROPERTIES
  LeavesWhenDone
  EventuallyDone
