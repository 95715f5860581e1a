CONSTANTS
  c1 = c1
  c2 = c2
  d = d
  Calls = {c1, c2, d}
  Detached = {d}
  ModelOf <- MCModels
  Preference <- MCPreference
  Keys = {"gemini"}
  PricedBy <- MCPrices
  Costs = {1, 2}
  WriteFaults = 1
SPECIFICATION UsageFairSpec
INVARIANTS
  PaidCallsRecorded
PROPERTIES
  ShutdownEnds
CHECK_DEADLOCK FALSE
