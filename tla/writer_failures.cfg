CONSTANTS
  m1 = m1
  f1 = f1
  f2 = f2
  d1 = d1
  d2 = d2
  r1 = r1
  r2 = r2
  Meta <- MCMeta
  Content <- MCContent
  Data <- MCData
  Reader <- MCReader
  None = None
  Damaged = Damaged
  MayFail = TRUE
SPECIFICATION FairSpec
INVARIANTS
  NoForeignData
PROPERTIES
  CloseReturns
