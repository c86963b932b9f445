CONSTANTS
  u1 = u1
  u2 = u2
  Url <- MCUrl
  None = None
  Damaged = Damaged
  Policies <- LatestOnly
  BlockLists <- NothingBlocked
  MaxSession = 2
  Interruptible = FALSE
  MoveMayFail = FALSE
  SetupMayFail = TRUE
SPECIFICATION Spec
PROPERTIES
  StartKeepsArchive
