SPECIFICATION Spec

CONSTANTS
  homePage = homePage
  title = title
  orphan = orphan
  broken = broken
  Pages = {homePage}
  Codes = {title, orphan, broken}
  Listed = {title, orphan}
  Unrunnable = {orphan}
  Broken = broken
  LinksTo <- NoLinks
  Crawled <- OnOnePage
  Declared <- Orphans
  Requests = {r1, r2}
  FirstUse = TRUE
  Concurrent = {"check", "regenerate"}
  MaxCrashes = 1
  Endpoints = {"get", "regenerate", "check", "verify", "rescan", "mark_fixed"}

SYMMETRY RequestSymmetry

INVARIANTS
  AsTold
  
  
  
