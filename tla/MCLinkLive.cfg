SPECIFICATION FairSpec
CONSTANTS
  r = r
  a = a
  b = b
  None = None
  Node = {r, a, b}
  Root = r
  LINK_TABLE_SIZE = 2
  OutCap = 1
  IdentMod = 1
  Faulty = {a}
  Freezable = {b}
  Racing = {}
PROPERTY HalfOpenResolved
PROPERTY StaleChildDecays
PROPERTY FrozenKeepsLinks
