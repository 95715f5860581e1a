CONSTANTS
  p = p
  q = q
  p1 = p1
  p2 = p2
  q1 = q1
  x1 = x1
  r1 = r1
  r2 = r2
  Pages = {p, q}
  Urls = {p1, p2, q1, x1}
  MatchOf <- MCMatch
  Unknown = unknown
  None = none
  Bundles <- MCBundles
  Imports <- MCImports
  Uploads <- MCUploads
  Requests = {r1, r2}
  OneAtATime = TRUE
  LastDay = 1
SYMMETRY MCSymmetry
SPECIFICATION Spec

  
PROPERTIES
  OnlyWhatItBrings
