SPECIFICATION Spec
CONSTANTS
  None = None
  Starts <- MCStarts
  Requests <- MCRequests
  Responses <- MCResponses
  BlockList <- MCBlockList
  ListedHosts <- MCListedHosts
  MaxRequests = 3
INVARIANTS
  ReplaysLikeRecorded
  RedirectsComeBack
  SecureStaysSecure
  BlockedIsNotServed
CHECK_DEADLOCK FALSE
