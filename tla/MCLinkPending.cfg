SPECIFICATION Spec
CONSTANTS
  r = r
  a = a
  b = b
  None = None
  Node = {r, a}
  Root = r
  LINK_TABLE_SIZE = 3
  OutCap = 1
  IdentMod = 1
  Faulty = {a}
  Freezable = {}
  Racing = {}
INVARIANT PendingMeansAwaiting
