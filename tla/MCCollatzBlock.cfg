SPECIFICATION Spec
CONSTANTS
  INT_LEN = 4
  BLEN = 2
  BLOCKS = 2
  BLOCKSIZE = 4
  Bases <- OddBases
INVARIANT TypeOK
INVARIANT WordsAreExact
INVARIANT OverflowIsExact
INVARIANT ComparesNumbers
PROPERTY FinishedMeansCleared
CHECK_DEADLOCK FALSE
