CONSTANTS
  g = g
  h = h
  s = s
  t = t
  u = u
  v = v
  Pages = {p, q}
  Targets <- McTargets
  Hosts = {g, h}
  HostOf <- McHostOf
  BotBlocking = {}
  PageCap = 2
  JobCap = 3
  PerHost = 2
  Global = 1
  Delay = 2
  MaxAnchors = 3
SPECIFICATION FairSpec
INVARIANTS
  SourcesRetained
  SlotsSpaced
PROPERTIES
  CancelStopsRequests
  HostsIndependent
  ChecksEnd
CHECK_DEADLOCK FALSE
