CONSTANTS
  p = p
  q = q
  r1 = r1
  r2 = r2
  t = t
  u = u
  Pages = {p, q}
  Levels = {1, 2}
  Old = old
  New = new
  Links = {t, u, good}
  DeadAtFirst = {t, u}
  Good = good
  CodeOf <- MCOwnCodes
  Requests = {r1, r2}
SYMMETRY MCSymmetry
SPECIFICATION EditsSpec

  
PROPERTIES
  EditsOnTop
CHECK_DEADLOCK FALSE
