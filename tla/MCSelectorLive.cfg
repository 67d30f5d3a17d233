\* Liveness; no symmetry, which is unsound for temporal properties.
SPECIFICATION SelFairSpec
CONSTANTS
  Nodes = {n1, n2}
  Producers = {owner, w1}
  Owner = owner
  Null = Null
PROPERTIES
  EventuallyPolled
  DrainsGoOn
