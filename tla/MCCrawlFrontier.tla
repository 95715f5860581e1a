--------------------------- MODULE MCCrawlFrontier ---------------------------
(* CrawlFrontier on a site of five URLs: the start URL may                 *)
(* redirect to c, and a to b; d is known from the sitemap only, and is a   *)
(* query variant of the same search page as a.                             *)
EXTENDS CrawlFrontier

CONSTANTS home, a, b, c, d, noPath, search

McUrls == {home, a, b, c, d}
NotHome == {a, b, c}

NoSkips == [u \in Urls |-> "none"]
NoQueries == [u \in Urls |-> noPath]
NoRedirects == [u \in Urls |-> {}]

Queries == [NoQueries EXCEPT ![a] = search, ![d] = search]
HomeToCAndAToB == [NoRedirects EXCEPT ![home] = {c}, ![a] = {b}]

(* The redirecting page and d may be broken; the one it leads to, a seed,  *)
(* and the start URL may be unread or lost; c has no title.                *)
AnyWay == [u \in Urls |-> CASE u = a -> {"page", "broken"}
                            [] u = c -> {"bare", "broken"}
                            [] u = d -> {"page", "broken"}
                            [] OTHER -> {"page", "unread", "lost"}]
=============================================================================
