---------------------------- MODULE CrawlFrontier ----------------------------
(***************************************************************************)
(* The page loop of api/crawler/engine.py run_crawl: the queue seeded from *)
(* the start URL, the Search Console priorities and the sitemap, one       *)
(* iteration per dequeued URL with every way it can be skipped, fetched or *)
(* lost, the links it contributes, and what the finished crawl reports:    *)
(* orphans, click depths, the sources of a broken page, the shortfall of a *)
(* truncated crawl and the coverage of the sitemap.                        *)
(*                                                                         *)
(* The site is not known in advance: what a URL answers, and which anchors *)
(* a page holds in which order, is chosen when it is fetched.              *)
(***************************************************************************)
EXTENDS Integers, FiniteSets, SequencesExt

CONSTANTS
  Urls,         \* normalised URLs of the site
  Home,         \* the start URL
  Priority,     \* URLs of the uploaded priority file
  Sitemap,      \* URLs the sitemap declares
  Scans,        \* the kinds of crawl that are asked for
  Scope,        \* the URLs of the content types of a partial crawl
  MaxPages,     \* the page budget
  SkipOf,       \* why a URL is never fetched, "none" if it may be
  PathOf,       \* the path of a URL with a query string
  NoPath,       \* the PathOf of a URL without one
  VariantCap,   \* query variants allowed per path
  Answers,      \* what each URL may answer
  Redirects,    \* where each URL may redirect
  Targets,      \* bound on the URLs anchors point to
  MaxAnchors    \* bound on the anchors of one page that are followed

StaticSkips ==
  {"admin_path", "wordpress_archive", "robots_expected_disallow",
   "robots_blocked"}
SkipReasons == StaticSkips \cup {"query_variant_cap"}

(* An answer that becomes a page: with a title, without one (a PDF, a bare *)
(* document), or with an error status; and one that does not: counted as   *)
(* unread (timeout, SSRF block, login wall, parse error), or not counted   *)
(* (the fetch raised, a redirect loop).                                    *)
PageAnswers == {"page", "bare", "broken"}
AllAnswers  == PageAnswers \cup {"unread", "lost"}

ASSUME ConstantsAssumption ==
  /\ IsFiniteSet(Urls) /\ Home \in Urls
  /\ Priority \subseteq Urls /\ Sitemap \subseteq Urls /\ Scope \subseteq Urls
  /\ Targets \subseteq Urls
  /\ Scans \subseteq {"full", "partial", "single"}
  /\ MaxPages \in Nat /\ VariantCap \in Nat /\ MaxAnchors \in Nat
  /\ SkipOf \in [Urls -> StaticSkips \cup {"none"}]
  /\ DOMAIN PathOf = Urls
  /\ Answers \in [Urls -> SUBSET AllAnswers]
  /\ Redirects \in [Urls -> SUBSET Urls]

VARIABLES
  scan,               \* settings: the whole site, its content types in
                      \* scope_urls, or one page (single_page)
  phase,              \* "crawling", or how the loop ended
  cancelRequested,    \* the cancel event of the job
  queue,              \* queue; the depth of an entry is its depthMap
  visited,            \* visited
  depthMap,           \* depth_map, over the URLs it holds
  discoveredFrom,     \* discovered_from, over the URLs it holds
  discoveredFromAll,  \* discovered_from_all
  fate,               \* what became of each dequeued URL: its skip reason,
                      \* or its answer
  links,              \* page.links of the pages in all_pages
  landed,             \* final_url of the URLs that were fetched
  brokenSources,      \* the linking pages a broken page was reported with
  linksUnread,        \* pages_links_unread
  scopeSkipped,       \* scope_skipped_urls
  unfetched           \* unfetched_at_truncation

mapVars == <<depthMap, discoveredFrom, discoveredFromAll>>
pageVars == <<links, landed, brokenSources, linksUnread>>
vars == <<scan, phase, cancelRequested, queue, visited, mapVars, fate, pageVars,
          scopeSkipped, unfetched>>

NoDepth  == -1
FromSeed == {"(gsc-priority)", "(sitemap)"}

TypeOK ==
  /\ scan \in Scans
  /\ phase \in {"crawling", "complete", "truncated", "cancelled"}
  /\ cancelRequested \in BOOLEAN
  /\ queue \in Seq(Urls)
  /\ visited \subseteq Urls
  /\ depthMap \in [DOMAIN depthMap -> Nat \cup {NoDepth}]
  /\ DOMAIN depthMap \subseteq Urls
  /\ discoveredFrom \in [DOMAIN discoveredFrom -> Urls \cup FromSeed]
  /\ DOMAIN discoveredFrom \subseteq Urls
  /\ discoveredFromAll \in [Urls -> SUBSET Urls]
  /\ fate \in [Urls -> {"pending"} \cup SkipReasons \cup AllAnswers]
  /\ links \in [Urls -> SUBSET Urls]
  /\ landed \in [Urls -> Urls]
  /\ brokenSources \in [Urls -> SUBSET (Urls \cup FromSeed)]
  /\ linksUnread \in Nat
  /\ scopeSkipped \subseteq Urls
  /\ unfetched \in Nat

SinglePage == scan = "single"
Partial    == scan = "partial"

InScope(u) == ~Partial \/ u = Home \/ u \in Scope

(* all_pages, and the pages the cross-page checks reason about.            *)
Pages     == {u \in Urls : fate[u] \in PageAnswers}
HtmlPages == {u \in Urls : fate[u] \in {"page", "broken"}}

(* dict.setdefault over the keys of S.                                     *)
SetDefault(f, S, value) ==
  [u \in DOMAIN f \cup S |-> IF u \in DOMAIN f THEN f[u] ELSE value]

PrioritySeeds ==
  IF SinglePage THEN {} ELSE {u \in Priority \ {Home} : InScope(u)}

SitemapSeeds ==
  IF SinglePage THEN {} ELSE {u \in Sitemap \ {Home} : InScope(u)}

Seeds == PrioritySeeds \cup SitemapSeeds

(* The sitemap is a set, so its order is arbitrary.                        *)
Init ==
  /\ scan \in Scans
  /\ phase = "crawling"
  /\ cancelRequested = FALSE
  /\ \E p \in SetToSeqs(PrioritySeeds), s \in SetToSeqs(SitemapSeeds) :
       queue = <<Home>> \o p \o s
  /\ visited = {}
  /\ depthMap = [u \in {Home} \cup Seeds |-> IF u = Home THEN 0 ELSE NoDepth]
  /\ discoveredFrom =
       [u \in Seeds |->
          IF u \in PrioritySeeds THEN "(gsc-priority)" ELSE "(sitemap)"]
  /\ discoveredFromAll = [u \in Urls |-> {}]
  /\ fate = [u \in Urls |-> "pending"]
  /\ links = [u \in Urls |-> {}]
  /\ landed = [u \in Urls |-> u]
  /\ brokenSources = [u \in Urls |-> {}]
  /\ linksUnread = 0
  /\ scopeSkipped =
       IF SinglePage THEN {} ELSE {u \in Sitemap \ {Home} : ~InScope(u)}
  /\ unfetched = 0

-----------------------------------------------------------------------------
(* One iteration of the loop                                               *)

RequestCancel ==
  /\ phase = "crawling" /\ ~cancelRequested
  /\ cancelRequested' = TRUE
  /\ UNCHANGED <<scan, phase, queue, visited, mapVars, fate, pageVars,
                 scopeSkipped, unfetched>>

Cancelled ==
  /\ phase = "crawling" /\ queue # <<>> /\ cancelRequested
  /\ phase' = "cancelled"
  /\ UNCHANGED <<scan, cancelRequested, queue, visited, mapVars, fate,
                 pageVars, scopeSkipped, unfetched>>

QueueEmpty ==
  /\ phase = "crawling" /\ queue = <<>>
  /\ phase' = "complete"
  /\ UNCHANGED <<scan, cancelRequested, queue, visited, mapVars, fate,
                 pageVars, scopeSkipped, unfetched>>

Dequeues(u) ==
  /\ phase = "crawling" /\ queue # <<>> /\ ~cancelRequested
  /\ u = Head(queue)

AlreadyVisited(u) ==
  /\ Dequeues(u) /\ u \in visited
  /\ queue' = Tail(queue)
  /\ UNCHANGED <<scan, phase, cancelRequested, visited, mapVars, fate,
                 pageVars, scopeSkipped, unfetched>>

(* QueryVariantTracker has recorded the variants that were not refused.    *)
Variants(path) ==
  {v \in Urls :
     PathOf[v] = path /\ fate[v] \notin {"pending", "query_variant_cap"}}

(* The skip tests, in the order of the code.                               *)
SkipReason(u) ==
  IF PathOf[u] # NoPath /\ Cardinality(Variants(PathOf[u])) >= VariantCap
    THEN "query_variant_cap"
    ELSE SkipOf[u]

Skip(u) ==
  /\ Dequeues(u) /\ u \notin visited /\ SkipReason(u) # "none"
  /\ queue' = Tail(queue)
  /\ visited' = visited \cup {u}
  /\ fate' = [fate EXCEPT ![u] = SkipReason(u)]
  /\ UNCHANGED <<scan, phase, cancelRequested, mapVars, pageVars, scopeSkipped,
                 unfetched>>

BudgetSpent == Cardinality(Pages) >= MaxPages

(* Mutants of Truncate: the URL in hand is not counted; the truncation is  *)
(* not recorded.                                                           *)
TruncateAfterPop(u) ==
  /\ Dequeues(u) /\ u \notin visited /\ SkipReason(u) = "none" /\ BudgetSpent
  /\ phase' = "truncated"
  /\ unfetched' = Len(Tail(queue))
  /\ queue' = Tail(queue)
  /\ visited' = visited \cup {u}
  /\ UNCHANGED <<scan, cancelRequested, mapVars, fate, pageVars, scopeSkipped>>

TruncateUnrecorded(u) ==
  /\ Dequeues(u) /\ u \notin visited /\ SkipReason(u) = "none" /\ BudgetSpent
  /\ phase' = "complete"
  /\ unfetched' = Len(queue)
  /\ queue' = Tail(queue)
  /\ visited' = visited \cup {u}
  /\ UNCHANGED <<scan, cancelRequested, mapVars, fate, pageVars, scopeSkipped>>

Truncate(u) ==
  /\ Dequeues(u) /\ u \notin visited /\ SkipReason(u) = "none" /\ BudgetSpent
  /\ phase' = "truncated"
  /\ unfetched' = Len(queue)
  /\ queue' = Tail(queue)
  /\ visited' = visited \cup {u}
  /\ UNCHANGED <<scan, cancelRequested, mapVars, fate, pageVars, scopeSkipped>>

Fetches(u) ==
  Dequeues(u) /\ u \notin visited /\ SkipReason(u) = "none" /\ ~BudgetSpent

Landing(u) == {u} \cup Redirects[u]

(* Mutant of Seen: the destination of a redirect is not marked.            *)
SeenSourceOnly(u, dest) == visited \cup {u}

Seen(u, dest) == visited \cup {u, dest}

(* Mutant of FetchUnread: a page that timed out goes back to the queue.    *)
FetchUnreadRequeued(u, dest) ==
  /\ Fetches(u) /\ "unread" \in Answers[u]
  /\ queue' = Append(Tail(queue), u)
  /\ UNCHANGED <<scan, phase, cancelRequested, visited, mapVars, fate,
                 pageVars, scopeSkipped, unfetched>>

(* Timeout, SSRF block or login wall; a parse error also comes after the   *)
(* destination of a redirect has been marked visited.                      *)
FetchUnread(u, dest) ==
  /\ Fetches(u) /\ "unread" \in Answers[u]
  /\ queue' = Tail(queue)
  /\ visited' = Seen(u, dest)
  /\ fate' = [fate EXCEPT ![u] = "unread"]
  /\ landed' = [landed EXCEPT ![u] = dest]
  /\ linksUnread' = linksUnread + 1
  /\ UNCHANGED <<scan, phase, cancelRequested, mapVars, links, brokenSources,
                 scopeSkipped, unfetched>>

(* fetch_page raised, or gave up on a redirect loop.                       *)
FetchLost(u) ==
  /\ Fetches(u) /\ "lost" \in Answers[u]
  /\ queue' = Tail(queue)
  /\ visited' = visited \cup {u}
  /\ fate' = [fate EXCEPT ![u] = "lost"]
  /\ UNCHANGED <<scan, phase, cancelRequested, mapVars, pageVars, scopeSkipped,
                 unfetched>>

(* The linking pages a broken page is reported with, as known right now.   *)
SourcesOf(u) ==
  discoveredFromAll[u] \cup
    (IF u \in DOMAIN discoveredFrom
       THEN {discoveredFrom[u]} \ {"(sitemap)"} ELSE {})

(* Mutant of ChildDepth: an unknown depth is counted from.                 *)
ChildDepthUnguarded(u) == depthMap[u] + 1

ChildDepth(u) == IF depthMap[u] = NoDepth THEN NoDepth ELSE depthMap[u] + 1

(* The anchors of page u in document order: followed, those that go to the *)
(* queue, and the targets of the others, already visited or out of scope.  *)
FollowLinks(u, followed, others) ==
  /\ queue' = Tail(queue) \o followed
  /\ depthMap' = SetDefault(depthMap, Range(followed), ChildDepth(u))
  /\ discoveredFrom' = SetDefault(discoveredFrom, Range(followed), u)
  /\ discoveredFromAll' =
       [v \in Urls |->
          IF v \in Range(followed) \cup (others \cap visited')
            THEN discoveredFromAll[v] \cup {u} ELSE discoveredFromAll[v]]
  /\ scopeSkipped' = scopeSkipped \cup (others \ visited')
  /\ links' = [links EXCEPT ![u] = Range(followed) \cup others]

(* In single_page mode the links of the page are parsed but not followed.  *)
IgnoreLinks(u, targets) ==
  /\ queue' = Tail(queue)
  /\ links' = [links EXCEPT ![u] = targets]
  /\ UNCHANGED <<mapVars, scopeSkipped>>

Followable(seen) == {v \in Targets \ seen : InScope(v)}

FetchPage(u, dest) ==
  /\ Fetches(u)
  /\ visited' = Seen(u, dest)
  /\ landed' = [landed EXCEPT ![u] = dest]
  /\ \E answer \in Answers[u] \cap PageAnswers :
       /\ fate' = [fate EXCEPT ![u] = answer]
       /\ brokenSources' =
            [brokenSources EXCEPT ![u] =
               IF answer = "broken" THEN SourcesOf(u) ELSE {}]
  /\ IF SinglePage
       THEN \E targets \in SUBSET Targets : IgnoreLinks(u, targets)
       ELSE \E followed \in BoundedSeq(Followable(visited'), MaxAnchors),
               others \in SUBSET (Targets \ Followable(visited')) :
              FollowLinks(u, followed, others)
  /\ UNCHANGED <<scan, phase, cancelRequested, linksUnread, unfetched>>

Iteration(u) ==
  \/ AlreadyVisited(u) \/ Skip(u) \/ Truncate(u) \/ FetchLost(u)
  \/ \E dest \in Landing(u) : FetchUnread(u, dest) \/ FetchPage(u, dest)

Loop == Cancelled \/ QueueEmpty \/ \E u \in Urls : Iteration(u)

Next == RequestCancel \/ Loop

Spec == Init /\ [][Next]_vars

(* Every fetch returns or times out; a crawl need not be cancelled.        *)
FairSpec == Spec /\ WF_vars(Loop)

-----------------------------------------------------------------------------
(* What the finished crawl reports                                         *)

(* check_cross_page: pages no other crawled page links to, judged only     *)
(* when the loop ran out of URLs over the whole site.                      *)
LinkGraphComplete == phase = "complete" /\ ~SinglePage /\ ~Partial

(* Mutant of Linked: redirected pages do not link.                         *)
LinkedFromLanding ==
  {v \in Urls : \E p \in Pages \ {v} : v \in links[p] /\ landed[p] = p}

Linked == {v \in Urls : \E p \in Pages \ {v} : v \in links[p]}

Orphans == IF LinkGraphComplete THEN HtmlPages \ (Linked \cup {Home}) ELSE {}

(* _compute_click_depths: breadth first from the start URL over the links  *)
(* of the pages in all_pages, one level a round; a page it does not reach  *)
(* has no known depth.                                                     *)
NextLevel(depths, n) ==
  SetDefault(depths, {v \in Pages : \E p \in DOMAIN depths : v \in links[p]}, n)

(* The depths after n rounds; no page is farther than there are pages.     *)
Levels[n \in Nat] ==
  IF n = 0 THEN [u \in {Home} |-> 0] ELSE NextLevel(Levels[n - 1], n)

ClickDepths ==
  IF Home \in Pages THEN Levels[Cardinality(Pages)] ELSE depthMap

-----------------------------------------------------------------------------
(* Properties                                                              *)

(* Fetched or skipped, or its content read under a URL that redirects to it. *)
Handled(u) ==
  \/ fate[u] # "pending"
  \/ \E p \in Urls : landed[p] = u /\ fate[p] # "pending"

(* No URL is handled twice, and the destination of a redirect, whose       *)
(* content has been read, is not fetched again (visited in run_crawl).     *)
OneFate == [][\A u \in Urls : Handled(u) => fate'[u] = fate[u]]_vars

(* The crawl never holds more pages than its budget, whatever the skipped, *)
(* broken and unreadable URLs in between (max_pages in run_crawl).         *)
WithinBudget == Cardinality(Pages) <= MaxPages

(* A crawl that ran out of URLs has dealt with every seed and every        *)
(* in-scope link of every page it read: nothing fell between the queue,    *)
(* the duplicates in it and the visited set.                               *)
Wanted ==
  {Home} \cup Seeds
    \cup (IF SinglePage THEN {} ELSE UNION {links[p] : p \in Pages})

NothingLeftBehind ==
  phase = "complete" => \A u \in Wanted : InScope(u) => Handled(u)

(* A depth the loop could tell is the shortest click distance: first       *)
(* discovery through the FIFO queue is never beaten by a later one, seeds  *)
(* of unknown depth or not (depth_map in run_crawl).                       *)
DepthIsShortest ==
  LET depths == ClickDepths
  IN  \A p \in Pages \cap DOMAIN depthMap :
        depthMap[p] # NoDepth => p \in DOMAIN depths /\ depthMap[p] = depths[p]

(* Only a page known from a seed can be reported an orphan: one that was   *)
(* found through a link is linked, also by a page without a title or with  *)
(* an error status (check_cross_page, link_source_pages).                  *)
OrphansAreSeeds == Orphans \subseteq Seeds

(* Every source a broken page is reported with is a crawled page that      *)
(* links to it (E2.2 in run_crawl), or the mark of the priority file, which *)
(* is taken for a page there.                                              *)
SourcesLinkToIt ==
  \A u \in Urls : \A p \in brokenSources[u] :
    p \in FromSeed \/ (p \in Pages /\ u \in links[p])

(* The crawl of one page asks for no other URL, whatever the sitemap and   *)
(* the page list (single_page in run_crawl).                               *)
SinglePageStays == SinglePage => \A u \in Urls \ {Home} : fate[u] = "pending"

(* The loop ends on a finite site, or is cancelled.                        *)
LoopEnds == <>(phase # "crawling")

(* The shortfall a truncated crawl discloses is never less than the URLs   *)
(* it left: the one in hand and those queued and not visited (O1).         *)
ShortfallCovers ==
  phase = "truncated" => unfetched >= 1 + Cardinality(Range(queue) \ visited)

=============================================================================
