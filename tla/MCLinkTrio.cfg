SPECIFICATION Spec
SYMMETRY Symmetric
CONSTANTS
  r = r
  a = a
  b = b
  None = None
  Node = {r, a, b}
  Root = r
  LINK_TABLE_SIZE = 3
  OutCap = 2
  IdentMod = 2
  Faulty = {r, a, b}
  Freezable = {}
  Racing = {r, a, b}
INVARIANT TypeOK
INVARIANT NoDuplicateLink
INVARIANT ProposalHasSlot
 
INVARIANT TimersMatchState
INVARIANT LocatingIsOrphan
INVARIANT UplinksAcyclic
PROPERTY ImplementsForest
 
