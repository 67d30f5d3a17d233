\* The doc comment of Id::wake against the code.
SPECIFICATION SelSpec
CONSTANTS
  Nodes = {n1}
  Producers = {owner, w1}
  Owner = owner
  Null = Null
PROPERTIES
  WakeOfRemovedDoesNothing
