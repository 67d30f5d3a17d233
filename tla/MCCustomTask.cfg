SPECIFICATION CustomFairSpec
CONSTANTS
  Nodes = {c1, c2}
  Null = Null
  MsgLen = 3
INVARIANTS
  CustomInv
  GoodbyeInOrder
PROPERTIES
  EverybodyLeaves
