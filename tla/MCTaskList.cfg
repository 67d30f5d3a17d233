SPECIFICATION Spec
CONSTANTS
  Nodes = {n1, n2, n3, n4}
  Lists = {l1, l2}
  Null = Null
CHECK_DEADLOCK FALSE
INVARIANTS
  ListTypeOK
  Rings
  OwnedOnce
  NothingOutlives
PROPERTIES
  ImplementsTaskSequence
