SPECIFICATION LifeFairSpec
CONSTANTS
  Nodes = {n1, n2}
  Producers = {owner, w1}
  Owner = owner
  Stub = Stub
  Null = Null
  MaxRefs = 1
INVARIANTS
  LifeInv
  NoDangling
PROPERTIES
  FreedInTheEnd
