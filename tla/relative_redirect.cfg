SPECIFICATION Spec
CONSTANTS
  None = None
  Starts <- MCStarts
  Requests <- MCRequests
  Responses <- MCResponses
  BlockList <- MCBlockList
  ListedHosts <- MCListedHosts
  MaxRequests = 2
INVARIANTS
  ForwardedToADomain
CHECK_DEADLOCK FALSE
