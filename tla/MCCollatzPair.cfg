SPECIFICATION Spec
CONSTANTS
  n0 = n0
  n1 = n1
  n2 = n2
  Node = {n0, n1}
  Root = n0
  Parent <- PairParent
  BLOCKS = 2
  Overflowing = {2}
  QueueCap = 1
  Horizon = 2
  MaxRestarts = 1
INVARIANT TypeOK
INVARIANT HeadNotDone
INVARIANT CreditCorrect
INVARIANT DroppedCountsAsDone
PROPERTY ImplementsLedger
CHECK_DEADLOCK FALSE
