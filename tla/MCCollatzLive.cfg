SPECIFICATION FairSpec
CONSTANTS
  n0 = n0
  n1 = n1
  n2 = n2
  Node = {n0, n1, n2}
  Root = n0
  Parent <- ChainParent
  BLOCKS = 2
  Overflowing = {1}
  QueueCap = 1
  Horizon = 1
  MaxRestarts = 0
PROPERTY Progress
PROPERTY ReportsDieOut
CHECK_DEADLOCK FALSE
