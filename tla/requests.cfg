CONSTANTS
  u1 = u1
  u2 = u2
  f1 = f1
  f2 = f2
  q1 = q1
  q2 = q2
  q3 = q3
  None = None
  Url <- MCUrl
  File <- MCFile
  Request <- MCRequest
  DownloadPolicies <- AllDownloadPolicies
  ServePolicies <- AllServePolicies
  Archived <- MCArchived
  Upstream <- MCUpstream
  Blocked <- NoUrl
  MaxThreads = 2
SPECIFICATION Spec
SYMMETRY Symmetry
INVARIANTS
  TypeOK
  RecordedPairing
  AnswersArePaired
  ReplaysAgree
  PageNotReplacedByFailure
  FreshIsServed
  AnsweredOnce
PROPERTIES
  EntryFrozen
