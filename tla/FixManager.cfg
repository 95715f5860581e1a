CONSTANTS
  a = a
  b = b
  blank = blank
  old = old
  new = new
  r1 = r1
  r2 = r2
  Slots <- MCSlots
  FindingRank <- MCFindingRank
  RowRank <- MCRowRank
  Proposed <- MCProposed
  Typed = {new}
  Blank = blank
  Labelled = {b}
  Findings <- MCFindings
  Unresolvable <- MCUnresolvable
  Batch = 1
  Requests = {r1, r2}
  MaxGenerations = 3
SYMMETRY MCSymmetry
SPECIFICATION Spec
INVARIANTS
  
  AllLoaded
PROPERTIES
  LifecycleSpec
  ApprovedByOperator
CHECK_DEADLOCK FALSE
