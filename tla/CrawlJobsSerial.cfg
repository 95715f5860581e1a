SPECIFICATION Spec

CONSTANTS
  Jobs = {j1, j2, j3}
  Hosts = {h1}
  HostOf <- OneHost
  Requests = {r1, r2}
  None = None
  h1 = h1
  Endpoints = {"start", "rescan", "scan", "cancel", "recheck"}
  CancelSeen = {"running"}
  Overlap = FALSE
  FaultBudget = 1

SYMMETRY JobsAndRequests

INVARIANTS
  OneCrawlPerDomain
  RecheckAlone

PROPERTIES
  LifecycleSpec
