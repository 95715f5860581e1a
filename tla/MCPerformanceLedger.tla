------------------------ MODULE MCPerformanceLedger ------------------------
(* PerformanceLedger with two pages, one of them known by two addresses.   *)
EXTENDS PerformanceLedger, TLC

CONSTANTS p, q, p1, p2, q1, x1, r1, r2

MCMatch == (p1 :> p) @@ (p2 :> p) @@ (q1 :> q) @@ (x1 :> Unknown)
MCSymmetry == Permutations(Requests)

Both == {"gsc", "ga4"}
Entry(url, sections, clicks, shown, sessions, conversions) ==
  [url |-> url, sections |-> sections, clicks |-> clicks, shown |-> shown,
   sessions |-> sessions, conversions |-> conversions]
Searched(url, clicks, shown) == Entry(url, {"gsc"}, clicks, shown, None, None)
Visited(url, sessions, conversions) ==
  Entry(url, {"ga4"}, None, None, sessions, conversions)

MCBundles == {
  <<Searched(p1, 2, 4), Searched(p2, 1, 4), Searched(x1, 3, 3)>>,
  <<Searched(p2, 1, 2)>>,
  <<Visited(p1, 1, 0), Visited(p2, 2, 1)>>,
  <<Visited(p1, 3, 1), Visited(q1, 1, 0)>>,
  <<Entry(p1, Both, 0, 3, 1, 1), Visited(p2, 1, 1), Searched(q1, 1, 1)>>}
MCImports == {
  <<Searched(p1, 3, 4)>>,
  <<Searched(p2, 0, 1), Searched(p1, 1, 1), Searched(q1, 2, 2)>>}
MCUploads == {
  <<Entry(p1, Both, 1, 4, None, 1)>>,
  <<Entry(p2, Both, None, 4, None, None), Entry(q1, Both, 1, None, None, 0)>>}
=============================================================================
