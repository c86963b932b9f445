CONSTANTS
  ThreadCount = 2
  MaxReplays = 2
  UnservedPages = FALSE
SPECIFICATION FairSpec
INVARIANTS
  StartedOnce
  FinishIsAlone
  ExceptionsReported
  PoolIsExpendable
PROPERTIES
  InterruptEnds
