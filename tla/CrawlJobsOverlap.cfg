SPECIFICATION FairSpec

CONSTANTS
  Jobs = {j1}
  Hosts = {h1}
  HostOf <- OneHost
  Requests = {r1, r2}
  None = None
  h1 = h1
  Endpoints = {"start", "rescan", "scan", "cancel", "recheck"}
  CancelSeen = {"queued", "running"}
  Overlap = TRUE
  FaultBudget = 1

INVARIANTS
  EventTracksEngine
  BlockedOnlyWhileOwned
  CompleteHasResults

PROPERTIES
  JobsEnd
