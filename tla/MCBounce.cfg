SPECIFICATION FairSpec
CONSTANTS
  t = t
  m = m
  x = x
  y = y
  g = g
  Node = {t, m, x, y}
  Top = t
  Parent <- MCParent
  Gateway = g
  None = None
  LINK_TABLE_SIZE = 3
  OutCap = 4
  InCap = 2
  Leg = {1, 2, 3, 4, 5, 6, 7, 8}
  MaxLife = 2
  MaxFaults = 1
INVARIANT TypeOK
INVARIANT OneCopyPerPath
INVARIANT LegsKeepDirection
PROPERTY MapComplete
PROPERTY FallsSilent
CHECK_DEADLOCK FALSE
