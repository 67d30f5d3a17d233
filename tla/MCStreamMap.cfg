SPECIFICATION MapFairSpec
CONSTANTS
  Nodes = {s1, s2}
  Keys = {k1, k2}
  Null = Null
  MaxSent = 1
INVARIANTS
  MapInv
  KeysAgree
PROPERTIES
  ItemsOfTheMapped
  EndedForgotten
