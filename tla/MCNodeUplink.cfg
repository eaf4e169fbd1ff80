SPECIFICATION FairSpec
CONSTANTS
  LINK_TABLE_SIZE = 4
INVARIANT TypeOK
INVARIANT AnswerSaves
INVARIANT ReservedSlot
INVARIANT FreezeIsExact
PROPERTY KeepsChecking
