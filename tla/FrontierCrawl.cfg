CONSTANTS
  home = home
  a = a
  b = b
  c = c
  d = d
  noPath = noPath
  search = search
  Urls <- McUrls
  Home = home
  Priority = {b}
  Sitemap = {a, d}
  Scans = {"full", "partial", "single"}
  Scope = {b, c}
  MaxPages = 3
  SkipOf <- NoSkips
  PathOf <- Queries
  NoPath = noPath
  VariantCap = 1
  Answers <- AnyWay
  Redirects <- HomeToCAndAToB
  Targets <- NotHome
  MaxAnchors = 2
SPECIFICATION FairSpec
INVARIANTS
  NothingLeftBehind
  DepthIsShortest
  OrphansAreSeeds
  ShortfallCovers
PROPERTIES
  OneFate
  LoopEnds
CHECK_DEADLOCK FALSE
