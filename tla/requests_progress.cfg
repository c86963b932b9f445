CONSTANTS
  u1 = u1
  u2 = u2
  f1 = f1
  f2 = f2
  q1 = q1
  q2 = q2
  q3 = q3
  None = None
  Url <- MCUrl
  File <- MCFile
  Request <- MCTwoRequests
  DownloadPolicies <- StandardDownload
  ServePolicies <- AllServePolicies
  Archived <- MCArchived
  Upstream <- WithStreams
  Blocked <- OneBlocked
  MaxThreads = 2
SPECIFICATION FairSpec
PROPERTIES
  AnsweredUnlessSilent
