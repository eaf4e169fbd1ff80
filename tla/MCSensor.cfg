SPECIFICATION FairSpec
CONSTANTS
  t = t
  a = a
  b = b
  d = d
  g = g
  Node = {t, a, b, d}
  Parent <- MCParent
  Gateway = g
  DEFAULT_PERIOD = 3
  MaxPeriod = 5
  INBOUND_QUEUE_SIZE = 4
  MaxLosses = 1
  MaxLates = 1
INVARIANT TypeOK
INVARIANT CountedOnce
INVARIANT QueueSuffices
PROPERTY NoMissedRound
