CONSTANTS
  u1 = u1
  u2 = u2
  Url <- MCUrl
  None = None
  Damaged = Damaged
  Policies <- PairingPolicies
  BlockLists <- SometimesBlocked
  MaxSession = 3
  Interruptible = TRUE
  MoveMayFail = TRUE
  SetupMayFail = TRUE
SPECIFICATION Spec
INVARIANTS
  TypeOK
  NothingDestroyed
  BodyHasItsHeader
  IdleIsWhole
PROPERTIES
  PagesAccumulate
  FirstIsKept
