CONSTANTS
  i = i
  j = j
  k = k
  b = b
  Batches = {b}
  Images = {i, j, k}
  Limit = 2
  FaultBudget = 1
SPECIFICATION FairSpec
INVARIANTS
  CompletedAccounted
PROPERTIES
  HaltsWhenToldTo
  BatchEnds
CHECK_DEADLOCK FALSE
