--------------------------- MODULE SiteAuditProofs ---------------------------
(***************************************************************************)
(* Proofs about SiteAudit for any site, pages, answers and number of       *)
(* re-checks at a time.                                                    *)
(***************************************************************************)
EXTENDS SiteAudit, FiniteSetTheorems, FunctionTheorems, SequenceTheorems, WellFoundedInduction,
        TLAPS

-----------------------------------------------------------------------------
(* The operators of the store                                              *)

(* What only a crawl can find is no broken link.                           *)
LEMMA NoSiteFindingIsALink ==
  ASSUME NEW c \in checks_a_single_page_scan_cannot_run
  PROVE  category[c] # "broken_link"
<1> DEFINE homes == {"metadata", "redirect", "crawlability", "security", "ai_readiness", "analytics"}
<1>1. \E k \in homes : c \in InCategory[k]
  <2>1. CASE c \in {"TITLE_DUPLICATE", "META_DESC_DUPLICATE"}
    BY <2>1 DEF InCategory, MetadataSection
  <2>2. CASE c = "REDIRECT_LOOP"
    BY <2>2 DEF InCategory, RedirectSection
  <2>3. CASE c \in {"PAGE_TIMEOUT", "LOGIN_REDIRECT", "ROBOTS_BLOCKED", "NOT_IN_SITEMAP",
                    "HIGH_CRAWL_DEPTH", "ORPHAN_PAGE"}
    BY <2>3 DEF InCategory, ReachSection, IndexSection
  <2>4. CASE c \in {"WWW_CANONICALIZATION", "HTTPS_REDIRECT_MISSING"}
    BY <2>4 DEF InCategory, SecuritySection, RedirectSecuritySection
  <2>5. CASE c = "ANALYTICS_ID_INCONSISTENT"
    BY <2>5 DEF InCategory, AnalyticsSection
  <2>6. CASE c \in {"LLMS_TXT_MISSING", "LLMS_TXT_INVALID", "AI_TXT_MISSING"}
    BY <2>6 DEF InCategory, AiAccessSection, AiAuthorSection
  <2>7. CASE c \in {"ENTITY_NAME_INCONSISTENT", "ENTITY_SAMEAS_MISSING", "ENTITY_HOURS_DEFAULT",
                    "ENTITY_NAP_INCOMPLETE", "ENTITY_FIELD_EMPTY"}
    BY <2>7 DEF InCategory, AgentSection
  <2>8. CASE c \in {"ENTITY_VALUE_PLACEHOLDER", "AUTHOR_IDENTITY_INCONSISTENT",
                    "NEAR_DUPLICATE_BODY", "BOILERPLATE_RATIO_HIGH"}
    BY <2>8 DEF InCategory, EntitySection
  <2> QED
    BY <2>1, <2>2, <2>3, <2>4, <2>5, <2>6, <2>7, <2>8 DEF checks_a_single_page_scan_cannot_run
<1>2. homes \subseteq Categories
  BY DEF Categories, InCategory
<1>3. c \in Codes /\ c \in InCategory[category[c]]
  BY <1>1, <1>2 DEF Codes, category
<1>4. c \notin InCategory.broken_link
  BY DEF InCategory, LinkSection, PlaceholderSection, checks_a_single_page_scan_cannot_run
<1> QED BY <1>3, <1>4

(* A row of a check, whatever its values.                                  *)
IsRow(x) ==
  /\ x = [k \in DOMAIN x |-> x[k]]
  /\ "page" \in DOMAIN x

LEMMA MadeRows ==
  ASSUME NEW c, NEW page
  PROVE  IsRow(make_issue(c, page)) /\ make_issue(c, page).page = page
BY DEF IsRow, make_issue

LEMMA PageRowsOfPage ==
  ASSUME NEW codes, NEW page, NEW r \in PageRows(codes, page)
  PROVE  IsRow(r) /\ r.page = page
BY MadeRows DEF PageRows

LEMMA ExternalRows ==
  ASSUME NEW u, NEW p, NEW web, NEW r \in external_checked(u, p, web)
  PROVE  IsRow(r)
<1> DEFINE external == SelectSeq(p.links, LAMBDA l : ~l.internal)
           checked == SubSeq(external, 1, AtMost(Len(external), EXTERNAL_LINK_CAP_PER_PAGE))
           on(l, code) == [make_issue(code, u) EXCEPT !.target = l.url.id]
           rows_of(l) ==
             IF is_bot_blocking_domain(l.url)
             THEN {[make_issue(c, l.url.id) EXCEPT !.source = u] :
                     c \in When(l.url.id \notin cfg.verified, "EXTERNAL_LINK_SKIPPED")}
             ELSE LET a == check_external_link(l.url, web[l.url.id]) IN
                  IF a.error # "" THEN {on(l, "EXTERNAL_LINK_TIMEOUT")}
                  ELSE {on(l, c) : c \in issue_for_status(a.status_code)}
<1>1. external_checked(u, p, web) = UNION {rows_of(checked[k]) : k \in DOMAIN checked}
  BY DEF external_checked
<1>2. PICK k \in DOMAIN checked : r \in rows_of(checked[k])
  <2> HIDE DEF checked, rows_of
  <2> QED BY <1>1
<1>3. ASSUME NEW l, NEW c PROVE IsRow(on(l, c))
  BY DEF IsRow, make_issue
<1>4. ASSUME NEW l, NEW c PROVE IsRow([make_issue(c, l.url.id) EXCEPT !.source = u])
  BY DEF IsRow, make_issue
<1>5. ASSUME NEW l, NEW x \in rows_of(l) PROVE IsRow(x)
  <2>1. CASE is_bot_blocking_domain(l.url)
    BY <1>4, <1>5, <2>1
  <2>2. CASE ~is_bot_blocking_domain(l.url)
    <3> HIDE DEF on
    <3> QED BY <1>3, <1>5, <2>2
  <2> QED BY <2>1, <2>2
<1> QED
  <2> HIDE DEF checked, rows_of
  <2> QED BY <1>2, <1>5

LEMMA CollapsedRows ==
  ASSUME NEW rows, \A r \in rows : IsRow(r),
         NEW r \in collapse_per_target_occurrences(rows)
  PROVE  IsRow(r)
BY DEF collapse_per_target_occurrences, IsRow

(* What a check of a page finds, it finds on that page.                    *)
LEMMA FoundOnPage ==
  ASSUME NEW u, NEW web, NEW r \in fetch_and_check_page(u, web)
  PROVE  r.page = u
<1> DEFINE answer == fetch_page(UrlOf[u], web[u], FALSE)
           p == parse_page(answer, cfg.start, bare[u] = bare[cfg.start.id])
           found == PageRows(page_codes(p, answer), u) \cup external_checked(u, p, web)
<1>1. CASE answer.status_code >= 400
  BY <1>1, PageRowsOfPage DEF fetch_and_check_page
<1>2. CASE ~(answer.status_code >= 400)
  <2>1. PICK x \in collapse_per_target_occurrences(found) : r = [x EXCEPT !.page = u]
    BY <1>2 DEF fetch_and_check_page, check_parsed
  <2>2. \A q \in found : IsRow(q)
    BY PageRowsOfPage, ExternalRows
  <2>3. IsRow(x)
    <3> HIDE DEF found
    <3> QED BY <2>1, <2>2, CollapsedRows
  <2> QED BY <2>1, <2>3 DEF IsRow
<1> QED BY <1>1, <1>2

LEMMA ReadingsOfPage ==
  ASSUME NEW u \in Rechecked, NEW seen \in Readings[u]
  PROVE  \A r \in seen.found : r.page = u
<1>1. PICK w \in Worlds, c \in Conditions : seen = Reading(w, c, u)
  BY DEF Readings
<1> QED BY <1>1, FoundOnPage DEF Reading

-----------------------------------------------------------------------------
(* The re-checks                                                           *)

(* What is kept of a re-check is of its page.                              *)
ScanOf(u, s) ==
  /\ s = [k \in DOMAIN s |-> s[k]]
  /\ DOMAIN s = {"phase", "old", "status", "found", "broken", "read"}
  /\ s.phase \in {"idle", "looked", "fetched", "replaced"}
  /\ \A r \in s.old \cup s.found : r.page = u

Scans ==
  /\ scan = [u \in Rechecked |-> scan[u]]
  /\ \A u \in Rechecked : ScanOf(u, scan[u])
  /\ statuses = [u \in DOMAIN statuses |-> statuses[u]]
  /\ reported = [u \in Rechecked |-> reported[u]]
  /\ \A u \in Rechecked : scan[u].phase # "idle" => u \in DOMAIN statuses

(* What each step of a re-check leaves of it.                              *)
LEMMA AfterLookup ==
  ASSUME Scans, NEW u \in Rechecked, Lookup(u)
  PROVE  /\ scan' = [scan EXCEPT ![u] = scan'[u]]
         /\ ScanOf(u, scan'[u]) /\ u \in DOMAIN statuses
         /\ scan'[u].phase = "looked" /\ scan'[u].old = page_issues(u)
<1> DEFINE broken == codes_on(broken_link_issues_for_source(u))
<1>1. scan'[u] = [scan[u] EXCEPT !.phase = "looked", !.old = page_issues(u), !.broken = broken]
  BY DEF Scans, Lookup
<1>2. scan' = [scan EXCEPT ![u] = scan'[u]] /\ u \in DOMAIN statuses
  BY DEF Scans, Lookup
<1>3. \A r \in page_issues(u) \cup scan[u].found : r.page = u
  BY DEF Scans, ScanOf, page_issues
<1>4. ScanOf(u, scan[u])
  BY DEF Scans
<1>5. ScanOf(u, scan'[u]) /\ scan'[u].phase = "looked" /\ scan'[u].old = page_issues(u)
  <2> HIDE DEF broken
  <2> QED BY <1>1, <1>3, <1>4 DEF ScanOf
<1> QED BY <1>2, <1>5

LEMMA AfterFetch ==
  ASSUME Scans, NEW u \in Rechecked, Fetch(u)
  PROVE  /\ scan' = [scan EXCEPT ![u] = scan'[u]]
         /\ ScanOf(u, scan'[u]) /\ u \in DOMAIN statuses
         /\ \/ scan'[u] = Idle
            \/ /\ scan'[u].phase = "fetched" /\ scan'[u].old = scan[u].old
               /\ \E seen \in Readings[u] :
                    /\ rescan_is_conclusive(seen.status)
                    /\ scan'[u].status = seen.status /\ scan'[u].found = seen.found
                    /\ scan'[u].read = seen.read
<1>1. PICK seen \in Readings[u] :
        scan' = [scan EXCEPT ![u] =
                   IF rescan_is_conclusive(seen.status)
                   THEN [@ EXCEPT !.phase = "fetched", !.status = seen.status,
                                  !.found = seen.found, !.read = seen.read]
                   ELSE Idle]
  BY DEF Fetch
<1>2. \A r \in seen.found : r.page = u
  BY ReadingsOfPage
<1>3. CASE rescan_is_conclusive(seen.status)
  <2>1. scan'[u] = [scan[u] EXCEPT !.phase = "fetched", !.status = seen.status,
                                   !.found = seen.found, !.read = seen.read]
    BY <1>1, <1>3 DEF Scans
  <2>2. /\ scan'[u].phase = "fetched" /\ scan'[u].old = scan[u].old
        /\ scan'[u].status = seen.status /\ scan'[u].found = seen.found
        /\ scan'[u].read = seen.read /\ ScanOf(u, scan'[u])
    BY <2>1, <1>2 DEF Scans, ScanOf
  <2> QED BY <1>1, <1>3, <2>1, <2>2 DEF Scans, Fetch
<1>4. CASE ~rescan_is_conclusive(seen.status)
  BY <1>1, <1>4 DEF Scans, ScanOf, Idle, Fetch
<1> QED BY <1>3, <1>4

LEMMA AfterReplace ==
  ASSUME Scans, NEW u \in Rechecked, Replace(u)
  PROVE  /\ scan' = [scan EXCEPT ![u] = scan'[u]]
         /\ ScanOf(u, scan'[u]) /\ u \in DOMAIN statuses
         /\ scan'[u].phase = "replaced"
         /\ scan'[u].old = scan[u].old /\ scan'[u].status = scan[u].status
         /\ scan'[u].found = scan[u].found /\ scan'[u].read = scan[u].read
BY DEF Scans, ScanOf, Replace

LEMMA AfterSave ==
  ASSUME Scans, NEW u \in Rechecked, Save(u)
  PROVE  /\ scan' = [scan EXCEPT ![u] = scan'[u]]
         /\ ScanOf(u, scan'[u]) /\ u \in DOMAIN statuses
         /\ scan'[u] = Idle
BY DEF Scans, ScanOf, Save, Idle

LEMMA StatusesOfPages ==
  ASSUME NEW pages
  PROVE  StatusOf(pages) = [u \in DOMAIN StatusOf(pages) |-> StatusOf(pages)[u]]
<1> DEFINE urls == {pages[k].url.id : k \in DOMAIN pages}
           status(u) == pages[CHOOSE k \in DOMAIN pages : pages[k].url.id = u].status_code
<1>1. StatusOf(pages) = [u \in urls |-> status(u)]
  BY DEF StatusOf
<1> HIDE DEF urls, status
<1> QED BY <1>1

LEMMA ScansInit == Init => Scans
<1> SUFFICES ASSUME Init
             PROVE  Scans
  OBVIOUS
<1>1. \A u : ScanOf(u, Idle)
  BY DEF ScanOf, Idle
<1>2. statuses = [u \in DOMAIN statuses |-> statuses[u]]
  <2>1. statuses = StatusOf(CrawlOf[Start].pages)
    BY DEF Init, StoredCrawl
  <2> QED BY <2>1, StatusesOfPages
<1>3. reported = [u \in Rechecked |-> reported[u]]
  BY DEF Init, StoredCrawl
<1>4. scan = [u \in Rechecked |-> Idle] /\ Idle.phase = "idle"
  BY DEF Init, Idle
<1> QED BY <1>1, <1>2, <1>3, <1>4 DEF Scans

LEMMA ScansNext == Scans /\ [Next]_vars => Scans'
<1> SUFFICES ASSUME Scans, [Next]_vars
             PROVE  Scans'
  OBVIOUS
<1>1. ASSUME NEW u \in Rechecked, Lookup(u)
      PROVE  Scans'
  <2>1. UNCHANGED <<statuses, reported>>
    BY <1>1 DEF Lookup
  <2> QED BY <1>1, <2>1, AfterLookup DEF Scans
<1>2. ASSUME NEW u \in Rechecked, Fetch(u)
      PROVE  Scans'
  <2>1. UNCHANGED <<statuses, reported>>
    BY <1>2 DEF Fetch
  <2> QED BY <1>2, <2>1, AfterFetch DEF Scans
<1>3. ASSUME NEW u \in Rechecked, Replace(u)
      PROVE  Scans'
  <2>1. statuses' = [statuses EXCEPT ![u] = scan[u].status] /\ UNCHANGED reported
    BY <1>3 DEF Replace
  <2> QED BY <1>3, <2>1, AfterReplace DEF Scans
<1>4. ASSUME NEW u \in Rechecked, Save(u)
      PROVE  Scans'
  <2>1. reported' = [reported EXCEPT ![u] = scan[u].read] /\ UNCHANGED statuses
    BY <1>4 DEF Save
  <2> QED BY <1>4, <2>1, AfterSave DEF Scans
<1>5. ASSUME NEW u \in DOMAIN statuses, NEW codes \in Claims, MarkFixed(u, codes)
      PROVE  Scans'
  BY <1>5 DEF MarkFixed, Scans
<1>6. CASE UNCHANGED vars
  BY <1>6 DEF vars, Scans
<1> QED BY <1>1, <1>2, <1>3, <1>4, <1>5, <1>6 DEF Next

-----------------------------------------------------------------------------
(* What only a crawl can find                                              *)

(* Such a finding of a page that is there is stored, or its page is being  *)
(* replaced; and it is among what a re-check that has begun will keep.     *)
Kept(r) ==
  /\ r.page \in Rechecked /\ r.code \in checks_a_single_page_scan_cannot_run
  /\ r \in issues \/ r.page \in gone \/ scan[r.page].phase = "replaced"
  /\ scan[r.page].phase # "idle" => r \in scan[r.page].old \/ r.page \in gone

AllKept == \A r \in sitewide : Kept(r)

LEMMA KeptInit == Init => AllKept
BY DEF Init, StoredCrawl, AllKept, Kept, Idle

LEMMA KeptNext == Scans /\ AllKept /\ [Next]_vars => AllKept'
<1> SUFFICES ASSUME Scans, AllKept, [Next]_vars, NEW r \in sitewide'
             PROVE  Kept(r)'
  BY DEF AllKept
<1>1. sitewide' = sitewide
  BY DEF Next, Lookup, Fetch, Replace, Save, MarkFixed, vars
<1>2. Kept(r)
  BY <1>1 DEF AllKept
<1>3. ASSUME NEW u \in Rechecked, Lookup(u)
      PROVE  Kept(r)'
  <2>1. UNCHANGED <<issues, gone>> /\ scan[u].phase = "idle"
    BY <1>3 DEF Lookup
  <2>2. CASE r.page = u
    BY <1>2, <1>3, <2>1, <2>2, AfterLookup DEF Kept, page_issues, Scans
  <2>3. CASE r.page # u
    BY <1>2, <1>3, <2>1, <2>3, AfterLookup DEF Kept, Scans
  <2> QED BY <2>2, <2>3
<1>4. ASSUME NEW u \in Rechecked, Fetch(u)
      PROVE  Kept(r)'
  <2>1. UNCHANGED <<issues, gone>> /\ scan[u].phase = "looked"
    BY <1>4 DEF Fetch
  <2>2. CASE r.page = u
    BY <1>2, <1>4, <2>1, <2>2, AfterFetch DEF Kept, Scans, Idle
  <2>3. CASE r.page # u
    BY <1>2, <1>4, <2>1, <2>3, AfterFetch DEF Kept, Scans
  <2> QED BY <2>2, <2>3
<1>5. ASSUME NEW u \in Rechecked, Replace(u)
      PROVE  Kept(r)'
  <2>1. /\ issues' = issues \ (page_issues(u) \cup broken_link_issues_for_source(u))
        /\ scan[u].phase = "fetched" /\ UNCHANGED gone
    BY <1>5 DEF Replace
  <2>2. CASE r.page = u
    BY <1>2, <1>5, <2>1, <2>2, AfterReplace DEF Kept, Scans
  <2>3. CASE r.page # u
    <3>1. r \notin broken_link_issues_for_source(u)
      BY <1>2, NoSiteFindingIsALink DEF Kept, broken_link_issues_for_source
    <3>2. r \in issues => r \in issues'
      BY <2>1, <2>3, <3>1 DEF page_issues
    <3> QED BY <1>2, <1>5, <2>1, <2>3, <3>2, AfterReplace DEF Kept, Scans
  <2> QED BY <2>2, <2>3
<1>6. ASSUME NEW u \in Rechecked, Save(u)
      PROVE  Kept(r)'
  <2>1. /\ issues' = issues \cup scan[u].found \cup carried_over(scan[u])
        /\ gone' = IF page_is_gone(scan[u].status) THEN gone \cup {u} ELSE gone
        /\ scan[u].phase = "replaced"
    BY <1>6 DEF Save
  <2>2. CASE r.page = u
    BY <1>2, <1>6, <2>1, <2>2, AfterSave DEF Kept, Scans, Idle, carried_over
  <2>3. CASE r.page # u
    BY <1>2, <1>6, <2>1, <2>3, AfterSave DEF Kept, Scans
  <2> QED BY <2>2, <2>3
<1>7. ASSUME NEW u \in DOMAIN statuses, NEW codes \in Claims, MarkFixed(u, codes)
      PROVE  Kept(r)'
  BY <1>2, <1>7 DEF MarkFixed, Kept
<1>8. CASE UNCHANGED vars
  BY <1>2, <1>8 DEF vars, Kept
<1> QED BY <1>3, <1>4, <1>5, <1>6, <1>7, <1>8 DEF Next

(* However its pages are checked again and in whatever order, a finding of *)
(* the crawl that no re-check can make stays stored as long as its page is *)
(* there (SiteFindingsSurvive).                                            *)
THEOREM CrawlFindingsSurvive == Spec => []SiteFindingsSurvive
<1>1. AllKept => SiteFindingsSurvive
  BY DEF AllKept, Kept, SiteFindingsSurvive
<1> QED BY ScansInit, ScansNext, KeptInit, KeptNext, <1>1, PTL DEF Spec

-----------------------------------------------------------------------------
(* The findings of a page, and the ledger                                  *)

(* One at a time, a re-check reports of what it looks at what a crawl of   *)
(* the page as it was read would report.                                   *)
RecheckAgrees ==
  \A u \in Rechecked : \A seen \in Readings[u] :
    rescan_is_conclusive(seen.status) /\ ~page_is_gone(seen.status) =>
      of_the_page(codes_on(seen.found)) = of_the_page(seen.read)

(* A re-check that has read its page holds one reading of it; once it      *)
(* replaces the findings there are none of the page, and the status stored *)
(* is the one it read.                                                     *)
Holds(u) ==
  /\ scan[u].phase \in {"fetched", "replaced"} =>
       \E seen \in Readings[u] :
         /\ rescan_is_conclusive(seen.status)
         /\ scan[u].status = seen.status /\ scan[u].found = seen.found
         /\ scan[u].read = seen.read
  /\ scan[u].phase = "replaced" => page_issues(u) = {} /\ statuses[u] = scan[u].status

Readable == \A u \in Rechecked : Holds(u)

(* What a re-check adds, it adds to its page.                              *)
LEMMA SavedOnPage ==
  ASSUME Scans, NEW u \in Rechecked, NEW v, v # u, Save(u)
  PROVE  page_issues(v)' = page_issues(v)
BY DEF Scans, ScanOf, Save, carried_over, page_issues

(* What it takes from other pages are broken links.                        *)
LEMMA ReplacedOnPage ==
  ASSUME NEW u \in Rechecked, NEW v, v # u, Replace(u)
  PROVE  /\ page_issues(v)' \subseteq page_issues(v)
         /\ of_the_page(codes_on(page_issues(v)))' = of_the_page(codes_on(page_issues(v)))
<1>1. issues' = issues \ (page_issues(u) \cup broken_link_issues_for_source(u))
  BY DEF Replace
<1>2. page_issues(v)' \subseteq page_issues(v)
  BY <1>1 DEF page_issues
<1>3. ASSUME NEW r \in page_issues(v), looked_at(r.code)
      PROVE  r \in page_issues(v)'
  BY <1>1, <1>3 DEF page_issues, looked_at, broken_link_issues_for_source
<1> QED BY <1>2, <1>3 DEF of_the_page, codes_on

LEMMA HoldsInit == Init => Readable
BY DEF Init, Readable, Holds, Idle

LEMMA HoldsNext == Scans /\ Readable /\ [Next]_vars => Readable'
<1> SUFFICES ASSUME Scans, Readable, [Next]_vars, NEW v \in Rechecked
             PROVE  Holds(v)'
  BY DEF Readable
<1>1. Holds(v)
  BY DEF Readable
<1>2. ASSUME NEW u \in Rechecked, Lookup(u)
      PROVE  Holds(v)'
  <2>1. UNCHANGED <<issues, statuses>>
    BY <1>2 DEF Lookup
  <2>2. page_issues(v)' = page_issues(v)
    BY <2>1 DEF page_issues
  <2> QED BY <1>1, <1>2, <2>1, <2>2, AfterLookup DEF Holds, Scans
<1>3. ASSUME NEW u \in Rechecked, Fetch(u)
      PROVE  Holds(v)'
  <2>1. UNCHANGED <<issues, statuses>>
    BY <1>3 DEF Fetch
  <2>2. page_issues(v)' = page_issues(v)
    BY <2>1 DEF page_issues
  <2>3. CASE v = u
    BY <1>3, <2>3, AfterFetch DEF Holds, Idle
  <2>4. CASE v # u
    BY <1>1, <1>3, <2>1, <2>2, <2>4, AfterFetch DEF Holds, Scans
  <2> QED BY <2>3, <2>4
<1>4. ASSUME NEW u \in Rechecked, Replace(u)
      PROVE  Holds(v)'
  <2>1. /\ issues' = issues \ (page_issues(u) \cup broken_link_issues_for_source(u))
        /\ statuses' = [statuses EXCEPT ![u] = scan[u].status]
        /\ scan[u].phase = "fetched"
    BY <1>4 DEF Replace
  <2>2. CASE v = u
    <3>1. page_issues(v)' = {}
      BY <2>1, <2>2 DEF page_issues
    <3>2. statuses'[u] = scan[u].status
      BY <1>4, <2>1, AfterReplace DEF Scans
    <3> QED BY <1>1, <1>4, <2>1, <2>2, <3>1, <3>2, AfterReplace DEF Holds
  <2>3. CASE v # u
    <3>1. page_issues(v)' \subseteq page_issues(v)
      BY <1>4, <2>3, ReplacedOnPage
    <3>2. statuses'[v] = statuses[v] \/ v \notin DOMAIN statuses
      BY <2>1, <2>3 DEF Scans
    <3>3. scan'[v] = scan[v]
      BY <1>4, <2>3, AfterReplace DEF Scans
    <3> QED BY <1>1, <3>1, <3>2, <3>3 DEF Holds, Scans
  <2> QED BY <2>2, <2>3
<1>5. ASSUME NEW u \in Rechecked, Save(u)
      PROVE  Holds(v)'
  <2>1. CASE v = u
    BY <1>5, <2>1, AfterSave DEF Holds, Idle
  <2>2. CASE v # u
    <3>1. scan'[v] = scan[v] /\ page_issues(v)' = page_issues(v)
      BY <1>5, <2>2, AfterSave, SavedOnPage DEF Scans
    <3>2. UNCHANGED statuses
      BY <1>5 DEF Save
    <3> QED BY <1>1, <3>1, <3>2 DEF Holds
  <2> QED BY <2>1, <2>2
<1>6. ASSUME NEW u \in DOMAIN statuses, NEW codes \in Claims, MarkFixed(u, codes)
      PROVE  Holds(v)'
  BY <1>1, <1>6 DEF MarkFixed, Holds, page_issues
<1>7. CASE UNCHANGED vars
  BY <1>1, <1>7 DEF vars, Holds, page_issues
<1> QED BY <1>2, <1>3, <1>4, <1>5, <1>6, <1>7 DEF Next

Matches(u) ==
  scan[u].phase # "replaced" /\ ~page_is_gone(statuses[u]) =>
    of_the_page(codes_on(page_issues(u))) = of_the_page(reported[u])

LEMMA MatchesInit == Init => StoredMatchesSite
BY DEF Init, StoredCrawl, StoredMatchesSite, reported_of, page_issues

LEMMA MatchesNext ==
  RecheckAgrees /\ Scans /\ Readable /\ StoredMatchesSite /\ [Next]_vars => StoredMatchesSite'
<1> SUFFICES ASSUME RecheckAgrees, Scans, Readable, StoredMatchesSite, [Next]_vars,
                    NEW v \in Rechecked
             PROVE  Matches(v)'
  BY DEF StoredMatchesSite, Matches
<1>1. Matches(v) /\ Holds(v)
  BY DEF StoredMatchesSite, Matches, Readable
<1>2. ASSUME NEW u \in Rechecked, Lookup(u)
      PROVE  Matches(v)'
  <2>1. UNCHANGED <<issues, statuses, reported>> /\ scan[u].phase = "idle"
    BY <1>2 DEF Lookup
  <2>2. scan'[v].phase # "replaced" => scan[v].phase # "replaced"
    BY <1>2, <2>1, AfterLookup DEF Scans
  <2> QED BY <1>1, <2>1, <2>2 DEF Matches, page_issues
<1>3. ASSUME NEW u \in Rechecked, Fetch(u)
      PROVE  Matches(v)'
  <2>1. UNCHANGED <<issues, statuses, reported>> /\ scan[u].phase = "looked"
    BY <1>3 DEF Fetch
  <2>2. scan'[v].phase # "replaced" => scan[v].phase # "replaced"
    BY <1>3, <2>1, AfterFetch DEF Scans
  <2> QED BY <1>1, <2>1, <2>2 DEF Matches, page_issues
<1>4. ASSUME NEW u \in Rechecked, Replace(u)
      PROVE  Matches(v)'
  <2>1. CASE v = u
    BY <1>4, <2>1, AfterReplace DEF Matches
  <2>2. CASE v # u
    <3>1. of_the_page(codes_on(page_issues(v)))' = of_the_page(codes_on(page_issues(v)))
      BY <1>4, <2>2, ReplacedOnPage
    <3>2. statuses' = [statuses EXCEPT ![u] = scan[u].status] /\ UNCHANGED reported
      BY <1>4 DEF Replace
    <3>3. v \in DOMAIN statuses => statuses'[v] = statuses[v]
      BY <2>2, <3>2 DEF Scans
    <3>4. scan'[v] = scan[v]
      BY <1>4, <2>2, AfterReplace DEF Scans
    <3> QED BY <1>1, <3>1, <3>2, <3>3, <3>4 DEF Matches
  <2> QED BY <2>1, <2>2
<1>5. ASSUME NEW u \in Rechecked, Save(u)
      PROVE  Matches(v)'
  <2>1. /\ issues' = issues \cup scan[u].found \cup carried_over(scan[u])
        /\ reported' = [reported EXCEPT ![u] = scan[u].read]
        /\ scan[u].phase = "replaced" /\ UNCHANGED statuses
    BY <1>5 DEF Save
  <2>2. CASE v = u
    <3>1. PICK seen \in Readings[v] :
            /\ rescan_is_conclusive(seen.status)
            /\ scan[v].status = seen.status /\ scan[v].found = seen.found
            /\ scan[v].read = seen.read
      BY <1>1, <2>1, <2>2 DEF Holds
    <3>2. page_issues(v) = {} /\ statuses[v] = seen.status
      BY <1>1, <2>1, <2>2, <3>1 DEF Holds
    <3>3. reported'[v] = seen.read
      BY <2>1, <2>2, <3>1 DEF Scans
    <3>4. page_issues(v)' = seen.found \cup carried_over(scan[v])
      <4>1. \A r \in seen.found : r.page = v
        BY ReadingsOfPage
      <4>2. \A r \in carried_over(scan[v]) : r.page = v
        BY DEF Scans, ScanOf, carried_over
      <4> QED BY <2>1, <2>2, <3>1, <3>2, <4>1, <4>2 DEF page_issues
    <3>5. of_the_page(codes_on(page_issues(v)))' = of_the_page(codes_on(seen.found))
      BY <3>4 DEF carried_over, of_the_page, codes_on
    <3> QED BY <2>1, <3>1, <3>2, <3>3, <3>5 DEF Matches, RecheckAgrees
  <2>3. CASE v # u
    <3>1. page_issues(v)' = page_issues(v) /\ scan'[v] = scan[v] /\ reported'[v] = reported[v]
      BY <1>5, <2>1, <2>3, SavedOnPage, AfterSave DEF Scans
    <3> QED BY <1>1, <2>1, <3>1 DEF Matches
  <2> QED BY <2>2, <2>3
<1>6. ASSUME NEW u \in DOMAIN statuses, NEW codes \in Claims, MarkFixed(u, codes)
      PROVE  Matches(v)'
  BY <1>1, <1>6 DEF MarkFixed, Matches, page_issues
<1>7. CASE UNCHANGED vars
  BY <1>1, <1>7 DEF vars, Matches, page_issues
<1> QED BY <1>2, <1>3, <1>4, <1>5, <1>6, <1>7 DEF Next

(* If a re-check alone reports what a crawl would, then so do the stored   *)
(* findings of each page whatever re-checks of it and of others ran, each  *)
(* between the steps of the others (StoredMatchesSite).                    *)
THEOREM StoredFindingsMatch == RecheckAgrees => (Spec => []StoredMatchesSite)
<1> SUFFICES ASSUME RecheckAgrees
             PROVE  Spec => []StoredMatchesSite
  OBVIOUS
<1>1. Scans /\ Readable /\ StoredMatchesSite /\ [Next]_vars => StoredMatchesSite'
  BY MatchesNext
<1> QED BY ScansInit, ScansNext, HoldsInit, HoldsNext, MatchesInit, <1>1, PTL DEF Spec

LEMMA FixedNext ==
  RecheckAgrees /\ Scans /\ Readable /\ FixedMeansFixed /\ [Next]_vars => FixedMeansFixed'
<1> SUFFICES ASSUME RecheckAgrees, Scans, Readable, FixedMeansFixed, [Next]_vars
             PROVE  FixedMeansFixed'
  OBVIOUS
<1>1. ASSUME NEW u \in Rechecked, Lookup(u) \/ Fetch(u) \/ Replace(u)
      PROVE  FixedMeansFixed'
  <2>1. ledger' = {}
    BY <1>1 DEF Lookup, Fetch, Replace
  <2> QED BY <2>1 DEF FixedMeansFixed
<1>2. ASSUME NEW u \in Rechecked, Save(u)
      PROVE  FixedMeansFixed'
  <2> SUFFICES ASSUME NEW f \in ledger', looked_at(f.code), ~page_is_gone(statuses'[f.page])
               PROVE  ~f.still
    BY DEF FixedMeansFixed
  <2>1. PICK k \in resolved_codes(scan[u]) :
          f = [page |-> u, code |-> k, by |-> "re-check", still |-> k \in scan[u].read]
    BY <1>2 DEF Save
  <2>2. scan[u].phase = "replaced" /\ UNCHANGED statuses
    BY <1>2 DEF Save
  <2>3. PICK seen \in Readings[u] :
          /\ rescan_is_conclusive(seen.status)
          /\ scan[u].status = seen.status /\ scan[u].found = seen.found
          /\ scan[u].read = seen.read
    BY <2>2 DEF Readable, Holds
  <2>4. ~page_is_gone(seen.status)
    BY <2>1, <2>2, <2>3 DEF Readable, Holds
  <2>5. k \notin codes_on(seen.found) /\ k \notin checks_a_single_page_scan_cannot_run
    BY <2>1, <2>3, <2>4 DEF resolved_codes
  <2>6. k \notin of_the_page(seen.read)
    BY <2>3, <2>4, <2>5 DEF RecheckAgrees, of_the_page
  <2>7. k \notin seen.read
    BY <2>1, <2>5, <2>6 DEF of_the_page
  <2> QED BY <2>1, <2>3, <2>7
<1>3. ASSUME NEW u \in DOMAIN statuses, NEW codes \in Claims, MarkFixed(u, codes)
      PROVE  FixedMeansFixed'
  BY <1>3 DEF MarkFixed, FixedMeansFixed
<1>4. CASE UNCHANGED vars
  BY <1>4 DEF vars, FixedMeansFixed
<1> QED BY <1>1, <1>2, <1>3, <1>4 DEF Next

(* If a re-check alone reports what a crawl would, then no interleaving of *)
(* re-checks, and no answer of the server that says nothing of the page,   *)
(* puts a code in the ledger that a crawl would report (FixedMeansFixed).  *)
THEOREM LedgerHoldsFixes == RecheckAgrees => (Spec => []FixedMeansFixed)
<1> SUFFICES ASSUME RecheckAgrees
             PROVE  Spec => []FixedMeansFixed
  OBVIOUS
<1>1. Scans /\ Readable /\ FixedMeansFixed /\ [Next]_vars => FixedMeansFixed'
  BY FixedNext
<1>2. Init => FixedMeansFixed
  BY DEF Init, FixedMeansFixed
<1> QED BY ScansInit, ScansNext, HoldsInit, HoldsNext, <1>1, <1>2, PTL DEF Spec

-----------------------------------------------------------------------------
(* Sums: by the least set of which a claim would fail                      *)

LEMMA LeastSubset ==
  ASSUME NEW S, IsFiniteSet(S), NEW F, F \subseteq SUBSET S, F # {}
  PROVE  \E T \in F : \A U \in F : ~ (U \subseteq T /\ U # T)
<1> DEFINE R == StrictSubsetOrdering(S)
<1>1. F \subseteq FiniteSubsetsOf(S)
  BY FS_FiniteSubsetsOfFinite
<1>2. IsWellFoundedOn(R, FiniteSubsetsOf(S))
  BY FS_StrictSubsetOrderingWellFounded
<1>3. PICK T \in F : \A U \in F : ~ (<<U, T>> \in R)
  <2> HIDE DEF R
  <2> QED BY <1>1, <1>2, WFMin, Zenon
<1> QED BY <1>3 DEF StrictSubsetOrdering

LEMMA LeastNumber ==
  ASSUME NEW m \in Nat, NEW N, N \subseteq 0..m, N # {}
  PROVE  \E n \in N : \A k \in N : n <= k
<1> DEFINE F == {0..n : n \in N}
<1>1. IsFiniteSet(0..m)
  BY FS_Interval
<1>2. F \subseteq SUBSET (0..m) /\ F # {}
  <2>1. \A n \in N : 0..n \subseteq 0..m
    OBVIOUS
  <2> QED BY <2>1
<1>3. PICK T \in F : \A U \in F : ~ (U \subseteq T /\ U # T)
  <2> DEFINE S == 0..m
  <2>1. IsFiniteSet(S) /\ F \subseteq SUBSET S /\ F # {}
    BY <1>1, <1>2
  <2> HIDE DEF F, S
  <2> QED BY <2>1, LeastSubset
<1>4. PICK n \in N : T = 0..n
  OBVIOUS
<1>5. ASSUME NEW k \in N, k < n
      PROVE  FALSE
  <2>1. 0..k \in F /\ 0..k \subseteq 0..n /\ n \in 0..n /\ n \notin 0..k
    BY <1>5
  <2> QED BY <1>3, <1>4, <2>1
<1> QED BY <1>4, <1>5

Picked(s) == CHOOSE x \in s : TRUE

Step(g, f, s) == IF s = {} THEN 0 ELSE f[Picked(s)] + g[s \ {Picked(s)}]

Sums(g, f, S) == g = [s \in SUBSET S |-> Step(g, f, s)]

LEMMA SumIsChosen ==
  ASSUME NEW f, NEW S
  PROVE  SumFunctionOnSet(f, S) = (CHOOSE g : Sums(g, f, S))[S]
BY DEF SumFunctionOnSet, FoldFunctionOnSet, MapThenFoldSet, Sums, Step, Picked

FirstSums(n, g, f, S) ==
  g = [s \in {t \in SUBSET S : Cardinality(t) <= n} |-> Step(g, f, s)]

LEMMA FirstSumsExist ==
  ASSUME NEW f, NEW S, IsFiniteSet(S), NEW m \in Nat
  PROVE  \E g : FirstSums(m, g, f, S)
<1> DEFINE D(n) == {t \in SUBSET S : Cardinality(t) <= n}
           N == {n \in 0..m : ~ \E g : FirstSums(n, g, f, S)}
<1>1. \A t \in SUBSET S : IsFiniteSet(t) /\ Cardinality(t) \in Nat
  BY FS_Subset, FS_CardinalityType
<1>2. SUFFICES ASSUME N # {}
               PROVE  FALSE
  OBVIOUS
<1>3. PICK n \in N : \A k \in N : n <= k
  <2> HIDE DEF N
  <2>1. N \subseteq 0..m
    BY DEF N
  <2> QED BY <1>2, <2>1, LeastNumber
<1>4. CASE n = 0
  <2>1. \A t \in D(0) : t = {}
    BY <1>1, FS_EmptySet
  <2> DEFINE h == [t \in D(0) |-> 0]
  <2>2. FirstSums(0, h, f, S)
    BY <2>1 DEF FirstSums, Step
  <2> QED BY <1>4, <2>2
<1>5. CASE n # 0
  <2>1. n - 1 \in 0..m /\ n - 1 \notin N
    BY <1>3, <1>5
  <2>2. PICK g : FirstSums(n - 1, g, f, S)
    BY <2>1
  <2> DEFINE h == [t \in D(n) |-> Step(g, f, t)]
  <2>3. \A t \in D(n) : t # {} => t \ {Picked(t)} \in D(n - 1) /\ t \ {Picked(t)} \in D(n)
    <3> SUFFICES ASSUME NEW t \in D(n), t # {}
                 PROVE  t \ {Picked(t)} \in D(n - 1) /\ t \ {Picked(t)} \in D(n)
      OBVIOUS
    <3>1. Picked(t) \in t
      BY DEF Picked
    <3>2. Cardinality(t \ {Picked(t)}) = Cardinality(t) - 1
      BY <1>1, <3>1, FS_RemoveElement
    <3> QED BY <1>1, <3>2
  <2>4. \A t \in D(n - 1) : h[t] = g[t]
    <3> SUFFICES ASSUME NEW t \in D(n - 1)
                 PROVE  h[t] = g[t]
      OBVIOUS
    <3>1. t \in D(n)
      BY <1>1
    <3>2. g[t] = Step(g, f, t)
      BY <2>2 DEF FirstSums
    <3> QED BY <3>1, <3>2
  <2>5. \A t \in D(n) : Step(h, f, t) = Step(g, f, t)
    <3> HIDE DEF D, h
    <3> QED BY <2>3, <2>4 DEF Step
  <2>6. FirstSums(n, h, f, S)
    BY <2>5 DEF FirstSums
  <2> QED BY <2>6
<1> QED BY <1>4, <1>5

LEMMA SumsExist ==
  ASSUME NEW f, NEW S, IsFiniteSet(S)
  PROVE  \E g : Sums(g, f, S)
<1>1. Cardinality(S) \in Nat
  BY FS_CardinalityType
<1>2. {t \in SUBSET S : Cardinality(t) <= Cardinality(S)} = SUBSET S
  BY FS_Subset
<1>3. PICK g : FirstSums(Cardinality(S), g, f, S)
  BY <1>1, FirstSumsExist
<1> QED BY <1>2, <1>3 DEF FirstSums, Sums

LEMMA SumsAgree ==
  ASSUME NEW f, NEW S, IsFiniteSet(S), NEW T \in SUBSET S,
         NEW g, Sums(g, f, S), NEW h, Sums(h, f, T)
  PROVE  \A s \in SUBSET T : g[s] = h[s]
<1> DEFINE F == {s \in SUBSET T : g[s] # h[s]}
<1>1. SUFFICES ASSUME F # {}
               PROVE  FALSE
  OBVIOUS
<1>2. F \subseteq SUBSET T /\ IsFiniteSet(T)
  BY FS_Subset
<1>3. PICK s \in F : \A u \in F : ~ (u \subseteq s /\ u # s)
  <2> HIDE DEF F
  <2> QED BY <1>1, <1>2, LeastSubset
<1>4. g[s] = Step(g, f, s) /\ h[s] = Step(h, f, s)
  BY DEF Sums
<1>5. s # {} => g[s \ {Picked(s)}] = h[s \ {Picked(s)}]
  BY <1>3 DEF Picked
<1> QED BY <1>3, <1>4, <1>5 DEF Step

(* The sum of a set is what one of its members adds to that of the others. *)
LEMMA SumOfChosen ==
  ASSUME NEW f, NEW S, IsFiniteSet(S)
  PROVE  /\ S = {} => SumFunctionOnSet(f, S) = 0
         /\ S # {} => SumFunctionOnSet(f, S)
                        = f[Picked(S)] + SumFunctionOnSet(f, S \ {Picked(S)})
<1> DEFINE G(s) == CHOOSE g : Sums(g, f, s)
           T == S \ {Picked(S)}
<1>1. IsFiniteSet(T)
  BY FS_Subset
<1>2. Sums(G(S), f, S) /\ Sums(G(T), f, T)
  BY <1>1, SumsExist, Zenon
<1>3. G(S)[S] = Step(G(S), f, S)
  <2> HIDE DEF G
  <2> QED BY <1>2 DEF Sums
<1>4. G(S)[T] = G(T)[T]
  <2> HIDE DEF G
  <2>1. T \in SUBSET S /\ T \in SUBSET T
    OBVIOUS
  <2> QED BY <1>1, <1>2, <2>1, SumsAgree
<1>5. SumFunctionOnSet(f, S) = G(S)[S] /\ SumFunctionOnSet(f, T) = G(T)[T]
  BY SumIsChosen
<1> QED
  <2> HIDE DEF G
  <2> QED BY <1>3, <1>4, <1>5 DEF Step

IsSummable(f, S) == IsFiniteSet(S) /\ \A x \in S : f[x] \in Nat

LEMMA SumIsNatural ==
  ASSUME NEW f, NEW S, IsSummable(f, S)
  PROVE  SumFunctionOnSet(f, S) \in Nat
<1> DEFINE F == {T \in SUBSET S : SumFunctionOnSet(f, T) \notin Nat}
<1>1. SUFFICES ASSUME F # {}
               PROVE  FALSE
  OBVIOUS
<1>2. PICK T \in F : \A U \in F : ~ (U \subseteq T /\ U # T)
  <2>1. F \subseteq SUBSET S /\ IsFiniteSet(S)
    BY DEF IsSummable
  <2> HIDE DEF F
  <2> QED BY <1>1, <2>1, LeastSubset
<1>3. IsFiniteSet(T)
  BY FS_Subset DEF IsSummable
<1>4. T # {} => SumFunctionOnSet(f, T \ {Picked(T)}) \in Nat /\ f[Picked(T)] \in Nat
  BY <1>2 DEF Picked, IsSummable
<1> QED BY <1>2, <1>3, <1>4, SumOfChosen

(* A sum does not depend on the order it is taken in.                      *)
LEMMA SumOfAny ==
  ASSUME NEW f, NEW S, IsSummable(f, S), NEW a \in S
  PROVE  SumFunctionOnSet(f, S) = f[a] + SumFunctionOnSet(f, S \ {a})
<1> DEFINE Sum(T) == SumFunctionOnSet(f, T)
           F == {T \in SUBSET S : \E x \in T : Sum(T) # f[x] + Sum(T \ {x})}
<1>1. SUFFICES ASSUME F # {}
               PROVE  FALSE
  OBVIOUS
<1>2. \A T \in SUBSET S : IsFiniteSet(T) /\ Sum(T) \in Nat
  BY FS_Subset, SumIsNatural DEF IsSummable
<1> HIDE DEF Sum
<1>3. PICK T \in F : \A U \in F : ~ (U \subseteq T /\ U # T)
  <2>1. F \subseteq SUBSET S /\ IsFiniteSet(S)
    BY DEF IsSummable
  <2> HIDE DEF F
  <2> QED BY <1>1, <2>1, LeastSubset
<1>4. PICK x \in T : Sum(T) # f[x] + Sum(T \ {x})
  OBVIOUS
<1> DEFINE c == Picked(T)
<1>5. c \in T
  BY <1>4 DEF Picked
<1>6. Sum(T) = f[c] + Sum(T \ {c})
  BY <1>2, <1>5, SumOfChosen DEF Sum
<1> HIDE DEF c
<1>7. c # x
  BY <1>4, <1>6
<1>8. Sum(T \ {c}) = f[x] + Sum((T \ {c}) \ {x})
  <2>1. T \ {c} \notin F
    BY <1>3, <1>5
  <2> QED BY <1>7, <2>1
<1>9. Sum(T \ {x}) = f[c] + Sum((T \ {x}) \ {c})
  <2>1. T \ {x} \notin F
    BY <1>3
  <2> QED BY <1>5, <1>7, <2>1
<1>10. (T \ {x}) \ {c} = (T \ {c}) \ {x}
  OBVIOUS
<1>11. /\ f[c] \in Nat /\ f[x] \in Nat
       /\ Sum((T \ {c}) \ {x}) \in Nat
  BY <1>2, <1>5 DEF IsSummable
<1>12. Sum(T \ {x}) = f[c] + Sum((T \ {c}) \ {x})
  BY <1>9, <1>10
<1>13. Sum(T) = f[x] + Sum(T \ {x})
  <2> DEFINE rest == Sum((T \ {c}) \ {x})
  <2>1. f[c] \in Nat /\ f[x] \in Nat /\ rest \in Nat
    BY <1>11
  <2>2. Sum(T) = f[c] + (f[x] + rest) /\ Sum(T \ {x}) = f[c] + rest
    BY <1>6, <1>8, <1>12
  <2> HIDE DEF rest, F
  <2> QED BY <2>1, <2>2
<1> QED BY <1>4, <1>13

(* More and greater numbers have a greater sum.                            *)
LEMMA SumGrows ==
  ASSUME NEW f, NEW R, NEW g, NEW S, IsSummable(f, R), IsSummable(g, S),
         R \subseteq S, \A x \in R : f[x] <= g[x]
  PROVE  SumFunctionOnSet(f, R) <= SumFunctionOnSet(g, S)
<1> DEFINE F == {T \in SUBSET S :
                   ~ (SumFunctionOnSet(f, R \cap T) <= SumFunctionOnSet(g, T))}
<1>1. SUFFICES ASSUME F # {}
               PROVE  FALSE
  <2>1. S \in SUBSET S /\ R \cap S = R
    OBVIOUS
  <2> QED BY <2>1
<1>2. PICK T \in F : \A U \in F : ~ (U \subseteq T /\ U # T)
  <2>1. F \subseteq SUBSET S /\ IsFiniteSet(S)
    BY DEF IsSummable
  <2> HIDE DEF F
  <2> QED BY <1>1, <2>1, LeastSubset
<1>0. ~ (SumFunctionOnSet(f, R \cap T) <= SumFunctionOnSet(g, T)) /\ T \subseteq S
  BY <1>2
<1>3. \A U \in SUBSET S : IsSummable(g, U) /\ IsSummable(f, R \cap U)
  BY FS_Subset DEF IsSummable
<1>4. CASE T = {}
  <2>1. R \cap T = {}
    BY <1>4
  <2>2. SumFunctionOnSet(f, R \cap T) = 0 /\ SumFunctionOnSet(g, T) = 0
    BY <1>3, <1>4, <2>1, SumOfChosen DEF IsSummable
  <2> QED BY <1>0, <2>2
<1>5. CASE T # {}
  <2>1. PICK x \in T : TRUE
    BY <1>5
  <2> DEFINE U == T \ {x}
  <2>2. SumFunctionOnSet(f, R \cap U) <= SumFunctionOnSet(g, U)
    BY <1>2, <2>1
  <2>3. SumFunctionOnSet(g, T) = g[x] + SumFunctionOnSet(g, U)
    BY <1>3, <2>1, SumOfAny
  <2>4. SumFunctionOnSet(f, R \cap U) \in Nat /\ SumFunctionOnSet(g, U) \in Nat
    BY <1>3, SumIsNatural
  <2>5. CASE x \in R
    <3>1. SumFunctionOnSet(f, R \cap T) = f[x] + SumFunctionOnSet(f, (R \cap T) \ {x})
      BY <1>3, <2>1, <2>5, SumOfAny
    <3>2. (R \cap T) \ {x} = R \cap U
      OBVIOUS
    <3>3. f[x] \in Nat /\ g[x] \in Nat /\ f[x] <= g[x]
      BY <2>1, <2>5 DEF IsSummable
    <3> HIDE DEF F, U
    <3> QED BY <1>0, <2>2, <2>3, <2>4, <3>1, <3>2, <3>3
  <2>6. CASE x \notin R
    <3>1. R \cap T = R \cap U
      BY <2>6
    <3>2. g[x] \in Nat
      BY <2>1 DEF IsSummable
    <3>3. SumFunctionOnSet(f, R \cap T) = SumFunctionOnSet(f, R \cap U)
      BY <3>1
    <3> HIDE DEF F, U
    <3> QED BY <1>0, <2>2, <2>3, <2>4, <3>2, <3>3
  <2> QED BY <2>5, <2>6
<1> QED BY <1>4, <1>5

(* A greater numerator never rounds to less, halves to the even number or  *)
(* not.                                                                    *)
LEMMA RoundDivGrows ==
  ASSUME NEW n \in Nat \ {0}, NEW a \in Nat, NEW b \in Nat, a <= b
  PROVE  RoundDiv(a, n) \in Nat /\ RoundDiv(b, n) \in Nat /\ RoundDiv(a, n) <= RoundDiv(b, n)
<1> DEFINE p == a \div n
           q == b \div n
           r == a % n
           s == b % n
           np == n * p
           nq == n * q
<1>1. p \in Nat /\ q \in Nat
  OBVIOUS
<1>2. r \in 0..(n - 1) /\ s \in 0..(n - 1)
  OBVIOUS
<1>3. a = np + r
  OBVIOUS
<1>4. b = nq + s
  OBVIOUS
<1>5. /\ RoundDiv(a, n) = IF 2 * r < n \/ (2 * r = n /\ p % 2 = 0) THEN p ELSE p + 1
      /\ RoundDiv(b, n) = IF 2 * s < n \/ (2 * s = n /\ q % 2 = 0) THEN q ELSE q + 1
  BY DEF RoundDiv
<1> HIDE DEF p, q, r, s
<1>6. np \in Nat /\ nq \in Nat
  BY <1>1
<1>7. q < p => np >= nq + n
  BY <1>1
<1>8. p = q => np = nq
  OBVIOUS
<1> HIDE DEF np, nq
<1>9. p <= q /\ (p = q => r <= s)
  BY <1>1, <1>2, <1>3, <1>4, <1>6, <1>7, <1>8
<1> QED BY <1>1, <1>2, <1>5, <1>9

-----------------------------------------------------------------------------
(* What a page is charged, and its score                                   *)

IsScored(rows) == IsFiniteSet(rows) /\ \A r \in rows : r.impact \in Nat

LEMMA ScoredPart ==
  ASSUME NEW rows, IsScored(rows), NEW R, R \subseteq rows
  PROVE  IsScored(R)
BY FS_Subset DEF IsScored

LEMMA ImpactGrows ==
  ASSUME NEW rows, IsScored(rows), NEW R, R \subseteq rows
  PROVE  ImpactSum(R) \in Nat /\ ImpactSum(rows) \in Nat /\ ImpactSum(R) <= ImpactSum(rows)
<1> DEFINE f == [r \in R |-> r.impact]
           g == [r \in rows |-> r.impact]
<1>1. IsSummable(f, R) /\ IsSummable(g, rows) /\ \A r \in R : f[r] <= g[r]
  BY FS_Subset DEF IsSummable, IsScored
<1>2. ImpactSum(R) = SumFunctionOnSet(f, R) /\ ImpactSum(rows) = SumFunctionOnSet(g, rows)
  BY DEF ImpactSum, SumFunction
<1> HIDE DEF f, g
<1> QED BY <1>1, <1>2, SumGrows, SumIsNatural

Fatal(rows) == {r \in rows : r.code \in PAGE_FATAL_CODES}
Kinds(rows) == {r.category : r \in rows \ Fatal(rows)}
Capped(rows) ==
  [k \in Kinds(rows) |->
     AtMost(ImpactSum({r \in rows \ Fatal(rows) : r.category = k}), CATEGORY_IMPACT_CAP)]

LEMMA DeductionOf ==
  ASSUME NEW rows
  PROVE  page_deduction(rows)
           = ImpactSum(Fatal(rows)) + SumFunctionOnSet(Capped(rows), Kinds(rows))
BY DEF page_deduction, SumFunction, Capped, Kinds, Fatal

LEMMA DeductionGrows ==
  ASSUME NEW rows, IsScored(rows), NEW R, R \subseteq rows
  PROVE  /\ page_deduction(R) \in Nat /\ page_deduction(rows) \in Nat
         /\ page_deduction(R) <= page_deduction(rows)
<1> DEFINE part(S, k) == {r \in S \ Fatal(S) : r.category = k}
<1>1. Fatal(R) \subseteq Fatal(rows) /\ IsScored(Fatal(rows))
  BY ScoredPart DEF Fatal
<1>2. Kinds(R) \subseteq Kinds(rows)
  BY DEF Kinds, Fatal
<1>3. \A k : part(R, k) \subseteq part(rows, k) /\ IsScored(part(rows, k))
  BY ScoredPart DEF Fatal
<1>4. \A k : /\ ImpactSum(part(R, k)) \in Nat /\ ImpactSum(part(rows, k)) \in Nat
             /\ ImpactSum(part(R, k)) <= ImpactSum(part(rows, k))
  <2> HIDE DEF part
  <2> QED BY <1>3, ImpactGrows
<1>5. \A k \in Kinds(rows) : Capped(rows)[k] \in Nat
  BY <1>4 DEF Capped, AtMost, CATEGORY_IMPACT_CAP
<1>6. \A k \in Kinds(R) : Capped(R)[k] \in Nat /\ Capped(R)[k] <= Capped(rows)[k]
  BY <1>2, <1>4 DEF Capped, AtMost, CATEGORY_IMPACT_CAP
<1>7. IsFiniteSet(Kinds(rows)) /\ IsFiniteSet(Kinds(R))
  <2>1. IsFiniteSet(rows \ Fatal(rows))
    BY FS_Subset DEF IsScored
  <2>2. IsFiniteSet(Kinds(rows))
    <3> DEFINE S == rows \ Fatal(rows)
               f == [r \in S |-> r.category]
    <3>1. f \in Surjection(S, Kinds(rows))
      BY DEF Kinds, Surjection
    <3> HIDE DEF f, S
    <3>2. IsFiniteSet(S)
      BY <2>1 DEF S
    <3> QED BY <3>1, <3>2, FS_Surjection
  <2> QED BY <1>2, <2>2, FS_Subset
<1>8. IsSummable(Capped(R), Kinds(R)) /\ IsSummable(Capped(rows), Kinds(rows))
  BY <1>5, <1>6, <1>7 DEF IsSummable
<1>9. /\ SumFunctionOnSet(Capped(R), Kinds(R)) \in Nat
      /\ SumFunctionOnSet(Capped(rows), Kinds(rows)) \in Nat
      /\ SumFunctionOnSet(Capped(R), Kinds(R)) <= SumFunctionOnSet(Capped(rows), Kinds(rows))
  BY <1>2, <1>6, <1>8, SumGrows, SumIsNatural
<1>10. /\ ImpactSum(Fatal(R)) \in Nat /\ ImpactSum(Fatal(rows)) \in Nat
       /\ ImpactSum(Fatal(R)) <= ImpactSum(Fatal(rows))
  BY <1>1, ImpactGrows
<1> QED BY <1>9, <1>10, DeductionOf

(* A page that is charged for less scores no less.                         *)
LEMMA ScoreGrows ==
  ASSUME NEW rows, IsScored(rows), NEW R, R \subseteq rows
  PROVE  /\ AtLeast0(100 - page_deduction(R)) \in Nat
         /\ AtLeast0(100 - page_deduction(rows)) \in Nat
         /\ AtLeast0(100 - page_deduction(rows)) <= AtLeast0(100 - page_deduction(R))
BY DeductionGrows DEF AtLeast0

-----------------------------------------------------------------------------
(* A code that is hidden                                                   *)

(* The codes that decide what else a page is charged for.                  *)
DecisiveCodes == DOMAIN CLUSTER_SUPPRESSION \cup NOINDEX_CODES

(* Without rows of other codes, a page is charged for a part of the same.  *)
LEMMA ChargedPart ==
  ASSUME NEW rows, NEW R, R \subseteq rows,
         codes_on(R) \cap DecisiveCodes = codes_on(rows) \cap DecisiveCodes
  PROVE  charged_page_rows(R) \subseteq charged_page_rows(rows)
<1>1. page_suppressed_codes(codes_on(R)) = page_suppressed_codes(codes_on(rows))
  BY Zenon DEF page_suppressed_codes, DecisiveCodes
<1>2. codes_on(R) \cap NOINDEX_CODES = codes_on(rows) \cap NOINDEX_CODES
  BY Zenon DEF DecisiveCodes
<1>3. \A r \in R : r \in noindex_reduced(rows) <=> r \in noindex_reduced(R)
  BY <1>2 DEF noindex_reduced
<1> QED BY <1>1, <1>3 DEF charged_page_rows

(* A page represents the same findings of the site when others are hidden. *)
LEMMA RowsOfPagePart ==
  ASSUME NEW rows, NEW c, NEW p
  PROVE  rows_of_page(p, {r \in rows : r.code # c}) = {r \in rows_of_page(p, rows) : r.code # c}
<1> DEFINE left == {r \in rows : r.code # c}
<1>1. ASSUME NEW d, d # c
      PROVE  site_scope_representative(d, left) = site_scope_representative(d, rows)
  <2>1. {r \in left : r.code = d} = {r \in rows : r.code = d}
    BY <1>1
  <2> HIDE DEF left
  <2> QED BY <2>1, Zenon DEF site_scope_representative
<1> QED BY <1>1 DEF rows_of_page

Shown(pages, rows, hidden, level) ==
  {r \in info_detail_rows(rows, level) : r.page \in pages /\ r.code \notin hidden}

PageScores(pages, rows, hidden, level) ==
  [p \in pages |->
     AtLeast0(100 - page_deduction(
       charged_page_rows(rows_of_page(p, Shown(pages, rows, hidden, level)))))]

LEMMA MeanOf ==
  ASSUME NEW pages, NEW rows, NEW hidden, NEW level
  PROVE  mean_page_score(pages, rows, hidden, level) =
           IF pages = {} THEN 100
           ELSE RoundDiv(SumFunctionOnSet(PageScores(pages, rows, hidden, level), pages),
                         Cardinality(pages))
BY DEF mean_page_score, SumFunction, PageScores, Shown

LEMMA HiddenScores ==
  ASSUME NEW pages, NEW rows, IsScored(rows), NEW level, NEW c, c \notin DecisiveCodes,
         NEW p \in pages
  PROVE  /\ PageScores(pages, rows, {}, level)[p] \in Nat
         /\ PageScores(pages, rows, {c}, level)[p] \in Nat
         /\ PageScores(pages, rows, {}, level)[p] <= PageScores(pages, rows, {c}, level)[p]
<1> DEFINE all == rows_of_page(p, Shown(pages, rows, {}, level))
           left == rows_of_page(p, Shown(pages, rows, {c}, level))
<1>1. Shown(pages, rows, {c}, level) = {r \in Shown(pages, rows, {}, level) : r.code # c}
  BY DEF Shown
<1>2. left = {r \in all : r.code # c}
  <2> DEFINE shown == Shown(pages, rows, {}, level)
  <2> HIDE DEF shown
  <2>1. rows_of_page(p, {r \in shown : r.code # c}) = {r \in rows_of_page(p, shown) : r.code # c}
    BY RowsOfPagePart
  <2> QED BY <1>1, <2>1 DEF shown
<1>3. all \subseteq rows
  BY DEF rows_of_page, Shown, info_detail_rows
<1> HIDE DEF all, left
<1>4. codes_on(left) \cap DecisiveCodes = codes_on(all) \cap DecisiveCodes
  BY <1>2 DEF codes_on
<1>5. charged_page_rows(left) \subseteq charged_page_rows(all)
  BY <1>2, <1>4, ChargedPart
<1>6. IsScored(charged_page_rows(all))
  <2>1. charged_page_rows(all) \subseteq rows
    BY <1>3 DEF charged_page_rows
  <2> QED BY <2>1, ScoredPart
<1>7. /\ PageScores(pages, rows, {}, level)[p]
           = AtLeast0(100 - page_deduction(charged_page_rows(all)))
      /\ PageScores(pages, rows, {c}, level)[p]
           = AtLeast0(100 - page_deduction(charged_page_rows(left)))
  BY DEF PageScores, all, left
<1> QED BY <1>5, <1>6, <1>7, ScoreGrows

LEMMA HiddenMean ==
  ASSUME NEW pages, IsFiniteSet(pages), NEW rows, IsScored(rows), NEW level,
         NEW c, c \notin DecisiveCodes
  PROVE  mean_page_score(pages, rows, {}, level) <= mean_page_score(pages, rows, {c}, level)
<1> DEFINE f == PageScores(pages, rows, {}, level)
           g == PageScores(pages, rows, {c}, level)
           n == Cardinality(pages)
<1>1. CASE pages = {}
  BY <1>1, MeanOf
<1>2. CASE pages # {}
  <2>1. n \in Nat \ {0}
    BY <1>2, FS_CardinalityType, FS_EmptySet
  <2>2. IsSummable(f, pages) /\ IsSummable(g, pages) /\ \A p \in pages : f[p] <= g[p]
    BY HiddenScores DEF IsSummable
  <2> HIDE DEF f, g, n
  <2>3. /\ SumFunctionOnSet(f, pages) \in Nat /\ SumFunctionOnSet(g, pages) \in Nat
        /\ SumFunctionOnSet(f, pages) <= SumFunctionOnSet(g, pages)
    BY <2>2, SumGrows, SumIsNatural
  <2>4. RoundDiv(SumFunctionOnSet(f, pages), n) <= RoundDiv(SumFunctionOnSet(g, pages), n)
    BY <2>1, <2>3, RoundDivGrows
  <2> QED BY <1>2, <2>4, MeanOf DEF f, g, n
<1> QED BY <1>1, <1>2

LEMMA RoundDivIsNatural ==
  ASSUME NEW n \in Nat \ {0}, NEW a \in Nat
  PROVE  RoundDiv(a, n) \in Nat
BY RoundDivGrows

LEMMA DensityIsANumber ==
  ASSUME NEW rows, IsFiniteSet(rows), NEW n \in Nat
  PROVE  density_health_score(rows, n) \in Nat
<1> DEFINE m == IF n = 0 THEN 1 ELSE n
           density(s) == AtMost(Cardinality({r \in rows : r.severity = s}), m)
           all == 50 * density("critical") + 30 * density("warning") + 10 * density("info")
<1>1. m \in Nat \ {0}
  OBVIOUS
<1>2. \A s : density(s) \in Nat
  <2>1. \A s : Cardinality({r \in rows : r.severity = s}) \in Nat
    BY FS_Subset, FS_CardinalityType
  <2> HIDE DEF m
  <2> QED BY <1>1, <2>1 DEF AtMost
<1>3. density_health_score(rows, n) = AtLeast0(100 - RoundDiv(all, m))
  BY DEF density_health_score
<1>4. all \in Nat
  <2> HIDE DEF density
  <2> QED BY <1>2
<1>5. RoundDiv(all, m) \in Nat
  <2> HIDE DEF m, all
  <2> QED BY <1>1, <1>4, RoundDivIsNatural
<1> HIDE DEF m, all
<1> QED BY <1>3, <1>5 DEF AtLeast0

LEMMA HiddenHealth ==
  ASSUME NEW pages, IsFiniteSet(pages), NEW rows, IsScored(rows), NEW level,
         NEW c, c \notin DecisiveCodes
  PROVE  compute_impact_health(pages, rows, {}, level)
           <= compute_impact_health(pages, rows, {c}, level)
<1>1. CASE rows # {} /\ ImpactSum(rows) = 0
  <2>1. density_health_score(rows, Cardinality(pages)) \in Nat
    BY DensityIsANumber, FS_CardinalityType DEF IsScored
  <2> QED BY <1>1, <2>1 DEF compute_impact_health
<1>2. CASE ~ (rows # {} /\ ImpactSum(rows) = 0)
  BY <1>2, HiddenMean DEF compute_impact_health
<1> QED BY <1>1, <1>2

-----------------------------------------------------------------------------
(* The lightest findings left out                                          *)

(* A code that decides what a page is charged for is none of the lightest. *)
LEMMA DecisiveCodesWeigh ==
  ASSUME NEW c \in DecisiveCodes
  PROVE  /\ c \notin PER_TARGET_CODES \cup {"SITEMAP_MISSING"}
         /\ ImpactOf(c) \in Nat /\ ImpactOf(c) >= 2
<1>1. c \in {"JSON_LD_MISSING", "RAW_HTML_JS_DEPENDENT", "CONTENT_THIN", "CENTRAL_CLAIM_BURIED",
             "CITATIONS_MISSING_SUBSTANTIAL_CONTENT", "CHUNKS_NOT_SELF_CONTAINED", "IMG_OVERSIZED",
             "IMG_ALT_MISSING", "IMG_ALT_GENERIC", "AI_BOT_BLANKET_DISALLOW", "REDIRECT_CHAIN",
             "LINK_STACKED_DUPLICATE", "NOINDEX_META", "NOINDEX_HEADER"}
  BY DEF DecisiveCodes, CLUSTER_SUPPRESSION, NOINDEX_CODES
<1>2. c \notin PER_TARGET_CODES \cup {"SITEMAP_MISSING"}
  BY <1>1 DEF PER_TARGET_CODES
<1>3. c \notin ImpactOf0 \cup ImpactOf1
  BY <1>1 DEF ImpactOf0, ImpactOf1
<1>4. ImpactOf(c) \in {2, 3, 4, 6, 9, 10}
  BY <1>3 DEF ImpactOf
<1> QED BY <1>2, <1>4

(* What a finding of the catalogue weighs. *)
LEMMA CataloguedWeight ==
  ASSUME NEW rows, Catalogued(rows), NEW r \in rows
  PROVE  /\ r.impact \in Nat
         /\ r.code \notin PER_TARGET_CODES \cup {"SITEMAP_MISSING"} => r.impact = ImpactOf(r.code)
BY Zenon DEF Catalogued, catalogued

(* The lower level leaves out no code that decides a charge. *)
LEMMA ListedPart ==
  ASSUME NEW rows, Catalogued(rows)
  PROVE  /\ info_detail_rows(rows, "all") = rows
         /\ codes_on(info_detail_rows(rows, "notable")) \cap DecisiveCodes
              = codes_on(rows) \cap DecisiveCodes
<1>1. \A r \in rows : ~ info_row_excluded(r.impact, "all")
  BY CataloguedWeight DEF info_row_excluded, INFO_DETAIL_MIN_IMPACT
<1>2. \A r \in rows : r.code \in DecisiveCodes => ~ info_row_excluded(r.impact, "notable")
  BY CataloguedWeight, DecisiveCodesWeigh DEF info_row_excluded, INFO_DETAIL_MIN_IMPACT
<1> QED BY <1>1, <1>2 DEF info_detail_rows, codes_on

LEMMA LevelNeverCosts ==
  ASSUME NEW rows, Catalogued(rows)
  PROVE  /\ compute_page_health(rows, "all") <= compute_page_health(rows, "notable")
         /\ compute_citability_grade(rows, "all") <= compute_citability_grade(rows, "notable")
<1> DEFINE all == charged_page_rows(rows)
           left == charged_page_rows(info_detail_rows(rows, "notable"))
           cited(S) == {r \in S : r.category = "ai_readiness"}
<1>1. info_detail_rows(rows, "notable") \subseteq rows
  BY DEF info_detail_rows
<1>2. left \subseteq all
  BY <1>1, ListedPart, ChargedPart
<1>3. IsScored(all)
  <2>1. IsScored(rows) /\ all \subseteq rows
    BY DEF IsScored, Catalogued, catalogued, charged_page_rows
  <2> QED BY <2>1, ScoredPart
<1>4. /\ compute_page_health(rows, "all") = AtLeast0(100 - page_deduction(all))
      /\ compute_page_health(rows, "notable") = AtLeast0(100 - page_deduction(left))
      /\ compute_citability_grade(rows, "all") = AtLeast0(100 - ImpactSum(cited(all)))
      /\ compute_citability_grade(rows, "notable") = AtLeast0(100 - ImpactSum(cited(left)))
  BY ListedPart DEF compute_page_health, compute_citability_grade
<1> HIDE DEF all, left
<1>5. cited(left) \subseteq cited(all) /\ IsScored(cited(all))
  BY <1>2, <1>3, ScoredPart
<1>6. /\ ImpactSum(cited(left)) \in Nat /\ ImpactSum(cited(all)) \in Nat
      /\ ImpactSum(cited(left)) <= ImpactSum(cited(all))
  BY <1>5, ImpactGrows
<1> HIDE DEF cited
<1>7. AtLeast0(100 - ImpactSum(cited(all))) <= AtLeast0(100 - ImpactSum(cited(left)))
  BY <1>6 DEF AtLeast0
<1>8. AtLeast0(100 - page_deduction(all)) <= AtLeast0(100 - page_deduction(left))
  BY <1>2, <1>3, ScoreGrows
<1> QED BY <1>4, <1>7, <1>8

-----------------------------------------------------------------------------
(* The scores of the store                                                 *)

(* The store and each re-check hold finitely many findings, each of the    *)
(* catalogue.                                                              *)
Scorable ==
  /\ Catalogued(issues) /\ IsFiniteSet(DOMAIN statuses)
  /\ \A u \in Rechecked : Catalogued(scan[u].old) /\ Catalogued(scan[u].found)

LEMMA CataloguedPart ==
  ASSUME NEW rows, Catalogued(rows), NEW R, R \subseteq rows
  PROVE  Catalogued(R)
BY FS_Subset DEF Catalogued

LEMMA CataloguedUnion ==
  ASSUME NEW rows, Catalogued(rows), NEW R, Catalogued(R)
  PROVE  Catalogued(rows \cup R)
BY FS_Union DEF Catalogued

LEMMA NothingIsCatalogued == Catalogued({})
BY FS_EmptySet DEF Catalogued

LEMMA CrawledPages == IsFiniteSet(DOMAIN StatusOf(CrawlOf[Start].pages))
<1> DEFINE pages == CrawlOf[Start].pages
           urls == {pages[k].url.id : k \in DOMAIN pages}
           f == [k \in DOMAIN pages |-> pages[k].url.id]
<1>1. IsFiniteSet(DOMAIN pages)
  BY FindingsAreCatalogued
<1>2. DOMAIN StatusOf(pages) = urls
  BY DEF StatusOf
<1>3. f \in Surjection(DOMAIN pages, urls)
  BY DEF Surjection
<1> HIDE DEF f, urls, pages
<1> QED
  <2>1. IsFiniteSet(urls)
    BY <1>1, <1>3, FS_Surjection
  <2> QED BY <1>2, <2>1 DEF pages

LEMMA ScorableInit == Init => Scorable
<1> SUFFICES ASSUME Init
             PROVE  Scorable
  OBVIOUS
<1>1. issues = CrawlOf[Start].rows /\ statuses = StatusOf(CrawlOf[Start].pages)
  BY DEF Init, StoredCrawl
<1>2. \A u \in Rechecked : scan[u].old = {} /\ scan[u].found = {}
  BY DEF Init, Idle
<1> QED BY <1>1, <1>2, CrawledPages, NothingIsCatalogued, FindingsAreCatalogued DEF Scorable

LEMMA ScorableNext == Scans /\ Scorable /\ [Next]_vars => Scorable'
<1> SUFFICES ASSUME Scans, Scorable, [Next]_vars
             PROVE  Scorable'
  OBVIOUS
<1>1. ASSUME NEW u \in Rechecked, Lookup(u)
      PROVE  Scorable'
  <2>1. UNCHANGED <<issues, statuses>>
    BY <1>1 DEF Lookup
  <2>2. scan' = [scan EXCEPT ![u].phase = "looked", ![u].old = page_issues(u),
                             ![u].broken = codes_on(broken_link_issues_for_source(u))]
    BY <1>1 DEF Lookup
  <2>3. scan'[u].old = page_issues(u) /\ scan'[u].found = scan[u].found
    BY <2>2 DEF Scans, ScanOf
  <2>4. Catalogued(page_issues(u))
    BY CataloguedPart DEF Scorable, page_issues
  <2> QED BY <1>1, <2>1, <2>3, <2>4, AfterLookup DEF Scorable, Scans
<1>2. ASSUME NEW u \in Rechecked, Fetch(u)
      PROVE  Scorable'
  <2>1. UNCHANGED <<issues, statuses>>
    BY <1>2 DEF Fetch
  <2>2. Catalogued(scan'[u].old) /\ Catalogued(scan'[u].found)
    <3>1. CASE scan'[u] = Idle
      <4>1. Idle.old = {} /\ Idle.found = {}
        BY DEF Idle
      <4> QED BY <3>1, <4>1, NothingIsCatalogued
    <3>2. CASE scan'[u] # Idle
      <4>1. scan'[u].old = scan[u].old /\ \E seen \in Readings[u] : scan'[u].found = seen.found
        BY <1>2, <3>2, AfterFetch
      <4> QED BY <4>1, FindingsAreCatalogued DEF Scorable
    <3> QED BY <3>1, <3>2
  <2> QED BY <1>2, <2>1, <2>2, AfterFetch DEF Scorable, Scans
<1>3. ASSUME NEW u \in Rechecked, Replace(u)
      PROVE  Scorable'
  <2>1. /\ issues' = issues \ (page_issues(u) \cup broken_link_issues_for_source(u))
        /\ DOMAIN statuses' = DOMAIN statuses
    BY <1>3 DEF Replace, Scans
  <2>2. Catalogued(issues')
    BY <2>1, CataloguedPart DEF Scorable
  <2> QED BY <1>3, <2>1, <2>2, AfterReplace DEF Scorable, Scans
<1>4. ASSUME NEW u \in Rechecked, Save(u)
      PROVE  Scorable'
  <2>1. issues' = issues \cup scan[u].found \cup carried_over(scan[u]) /\ UNCHANGED statuses
    BY <1>4 DEF Save
  <2>2. Catalogued(carried_over(scan[u]))
    <3>1. carried_over(scan[u]) \subseteq scan[u].old
      BY DEF carried_over
    <3> QED BY <3>1, CataloguedPart DEF Scorable
  <2>3. Catalogued(issues')
    <3>1. Catalogued(issues \cup scan[u].found)
      BY CataloguedUnion DEF Scorable
    <3> QED BY <2>1, <2>2, <3>1, CataloguedUnion
  <2>4. scan'[u].old = {} /\ scan'[u].found = {}
    BY <1>4, AfterSave DEF Idle
  <2>5. scan' = [scan EXCEPT ![u] = scan'[u]]
    BY <1>4, AfterSave
  <2> QED BY <2>1, <2>3, <2>4, <2>5, NothingIsCatalogued DEF Scorable, Scans
<1>5. ASSUME NEW u \in DOMAIN statuses, NEW codes \in Claims, MarkFixed(u, codes)
      PROVE  Scorable'
  BY <1>5 DEF MarkFixed, Scorable
<1>6. CASE UNCHANGED vars
  BY <1>6 DEF vars, Scorable
<1> QED BY <1>1, <1>2, <1>3, <1>4, <1>5, <1>6 DEF Next

LEMMA ScorableNeverCosts == Scorable => HidingNeverCosts
<1> SUFFICES ASSUME Scorable
             PROVE  HidingNeverCosts
  OBVIOUS
<1> DEFINE pages == DOMAIN statuses
<1>1. IsFiniteSet(pages) /\ IsScored(issues)
  BY DEF Scorable, Catalogued, catalogued, IsScored
<1>2. ASSUME NEW c \in codes_on(issues) \ (DOMAIN CLUSTER_SUPPRESSION \cup NOINDEX_CODES)
      PROVE  compute_impact_health(pages, issues, {}, "all")
               <= compute_impact_health(pages, issues, {c}, "all")
  <2>1. c \notin DecisiveCodes
    BY DEF DecisiveCodes
  <2> HIDE DEF pages
  <2> QED BY <1>1, <2>1, HiddenHealth
<1>3. ASSUME NEW p \in pages
      PROVE  LET on == get_page_issues_by_url(pages, issues, p) IN
             /\ compute_page_health(on, "all") <= compute_page_health(on, "notable")
             /\ compute_citability_grade(on, "all") <= compute_citability_grade(on, "notable")
  <2>1. get_page_issues_by_url(pages, issues, p) \subseteq issues
    BY DEF get_page_issues_by_url
  <2>2. Catalogued(get_page_issues_by_url(pages, issues, p))
    BY <2>1, CataloguedPart DEF Scorable
  <2> QED BY <2>2, LevelNeverCosts
<1> HIDE DEF pages
<1> QED BY <1>2, <1>3 DEF HidingNeverCosts, pages

(* Whatever the crawl found and however its pages are checked again, to    *)
(* hide a code or to leave the lightest findings out never lowers a score  *)
(* (HidingNeverCosts).                                                     *)
THEOREM ScoresOnlyGain == Spec => []HidingNeverCosts
BY ScansInit, ScansNext, ScorableInit, ScorableNext, ScorableNeverCosts, PTL DEF Spec

-----------------------------------------------------------------------------
(* Lists                                                                   *)

(* A list of a set: each element once.                                     *)
Lists(s, S) ==
  /\ s \in Seq(S)
  /\ \A i, j \in 1..Len(s) : s[i] = s[j] => i = j
  /\ \A x \in S : \E i \in 1..Len(s) : s[i] = x

LEMMA ListsAll ==
  ASSUME NEW s, NEW S, IsFiniteSet(S), Lists(s, S)
  PROVE  Len(s) = Cardinality(S) /\ Range(s) = S /\ Len(s) \in Nat /\ DOMAIN s = 1..Len(s)
<1>1. Len(s) \in Nat /\ DOMAIN s = 1..Len(s) /\ s \in [1..Len(s) -> S]
  BY DEF Lists
<1>2. s \in Bijection(1..Len(s), S)
  BY <1>1 DEF Lists, Bijection, Injection, IsInjective, Surjection
<1>3. Len(s) = Cardinality(S)
  <2> DEFINE D == 1..Len(s)
  <2>1. IsFiniteSet(D) /\ Cardinality(D) = Len(s)
    BY <1>1, FS_Interval
  <2>2. ExistsBijection(D, S)
    BY <1>2 DEF ExistsBijection
  <2> HIDE DEF D
  <2> QED BY <2>1, <2>2, FS_Bijection
<1> QED BY <1>1, <1>3 DEF Lists, Range

(* Keys are compared by their first part at first.                         *)
IsKey(a) == DOMAIN a \subseteq Nat \ {0} /\ 1 \in DOMAIN a /\ a[1] \in Int

LEMMA FirstPartDecides ==
  ASSUME NEW a, IsKey(a), NEW b, IsKey(b)
  PROVE  /\ a[1] > b[1] => Precedes(a, b)
         /\ Precedes(a, b) => a[1] >= b[1]
<1>1. ASSUME a[1] > b[1]
      PROVE  Precedes(a, b)
  <2>1. \A j \in 1 .. 1 - 1 : a[j] = b[j]
    OBVIOUS
  <2> QED BY <1>1, <2>1 DEF Precedes, IsKey
<1>2. ASSUME Precedes(a, b)
      PROVE  a[1] >= b[1]
  <2>1. PICK k \in DOMAIN a : a[k] > b[k] /\ \A j \in 1 .. k - 1 : a[j] = b[j]
    BY <1>2 DEF Precedes
  <2>2. k = 1 \/ 1 \in 1 .. k - 1
    BY DEF IsKey
  <2> QED BY <2>1, <2>2 DEF IsKey
<1> QED BY <1>1, <1>2

Falls(s, key) == \A i, j \in 1..Len(s) : i < j => key[s[i]][1] >= key[s[j]][1]

(* Where an element is inserted, and what the list is then.                *)
Place(s, x, key) ==
  LET after == {i \in DOMAIN s : Precedes(key[x], key[s[i]])}
  IN IF after = {} THEN Len(s) + 1 ELSE Min(after)

LEMMA PlaceIsFirst ==
  ASSUME NEW S, NEW s \in Seq(S), NEW x, NEW key
  PROVE  LET at == Place(s, x, key) IN
         /\ at \in 1 .. Len(s) + 1
         /\ \A i \in 1 .. Len(s) : i < at => ~ Precedes(key[x], key[s[i]])
         /\ at <= Len(s) => Precedes(key[x], key[s[at]])
<1> DEFINE after == {i \in DOMAIN s : Precedes(key[x], key[s[i]])}
<1>1. CASE after = {}
  BY <1>1 DEF Place
<1>2. CASE after # {}
  <2>1. after \subseteq 0..Len(s) /\ Len(s) \in Nat
    OBVIOUS
  <2>2. \E n \in after : \A k \in after : n <= k
    <3> HIDE DEF after
    <3> QED BY <1>2, <2>1, LeastNumber
  <2>3. Min(after) \in after /\ \A k \in after : Min(after) <= k
    <3> HIDE DEF after
    <3> QED BY <2>2 DEF Min
  <2>4. Place(s, x, key) = Min(after)
    BY <1>2 DEF Place
  <2>5. \A i \in 1 .. Len(s) : i < Min(after) => i \notin after
    <3> SUFFICES ASSUME NEW i \in 1 .. Len(s), i < Min(after), i \in after
                 PROVE  FALSE
      OBVIOUS
    <3>1. Min(after) <= i /\ Min(after) \in 0..Len(s)
      BY <2>1, <2>3
    <3> QED BY <2>1, <3>1
  <2>6. Precedes(key[x], key[s[Min(after)]]) /\ Min(after) \in 1 .. Len(s)
    BY <2>3
  <2>7. \A i \in 1 .. Len(s) : i < Min(after) => ~ Precedes(key[x], key[s[i]])
    BY <2>5
  <2> HIDE DEF after
  <2> QED BY <2>4, <2>6, <2>7
<1> QED BY <1>1, <1>2

IsGrown(t, s, x, at) ==
  /\ Len(t) = Len(s) + 1
  /\ \A i \in 1 .. Len(s) + 1 : t[i] = IF i < at THEN s[i] ELSE IF i = at THEN x ELSE s[i - 1]

LEMMA InsertedList ==
  ASSUME NEW S, NEW s \in Seq(S), NEW x, NEW key
  PROVE  /\ Inserted(s, x, key) \in Seq(S \cup {x})
         /\ IsGrown(Inserted(s, x, key), s, x, Place(s, x, key))
<1> DEFINE T == S \cup {x}
           at == Place(s, x, key)
           left == SubSeq(s, 1, at - 1)
           right == SubSeq(s, at, Len(s))
           front == left \o <<x>>
<1>1. at \in 1 .. Len(s) + 1 /\ Len(s) \in Nat
  BY PlaceIsFirst
<1>2. Inserted(s, x, key) = front \o right
  BY DEF Inserted, Place
<1> HIDE DEF at
<1>3. s \in Seq(T)
  OBVIOUS
<1>4. left \in Seq(T) /\ Len(left) = at - 1 /\ \A i \in 1 .. at - 1 : left[i] = s[i]
  BY <1>1, <1>3
<1>5. /\ right \in Seq(T) /\ Len(right) = Len(s) - at + 1
      /\ \A i \in 1 .. Len(s) - at + 1 : right[i] = s[at + i - 1]
  BY <1>1, <1>3
<1> HIDE DEF left, right
<1>6. <<x>> \in Seq(T) /\ Len(<<x>>) = 1 /\ <<x>>[1] = x
  OBVIOUS
<1>7. /\ front \in Seq(T) /\ Len(front) = at
      /\ \A i \in 1 .. at : front[i] = IF i < at THEN s[i] ELSE x
  BY <1>1, <1>4, <1>6
<1> HIDE DEF front
<1>8. front \o right \in Seq(T) /\ Len(front \o right) = Len(s) + 1
  <2>1. Len(front \o right) = Len(front) + Len(right) /\ front \o right \in Seq(T)
    BY <1>5, <1>7, ConcatProperties
  <2> QED BY <1>1, <1>5, <1>7, <2>1
<1>9. ASSUME NEW i \in 1 .. Len(s) + 1
      PROVE  (front \o right)[i] = IF i < at THEN s[i] ELSE IF i = at THEN x ELSE s[i - 1]
  <2>1. CASE i <= at
    <3>1. (front \o right)[i] = front[i]
      BY <1>1, <1>5, <1>7, <2>1
    <3> QED BY <1>1, <1>7, <2>1, <3>1
  <2>2. CASE i > at
    <3>1. (front \o right)[i] = right[i - at]
      BY <1>1, <1>5, <1>7, <2>2
    <3>2. i - at \in 1 .. Len(s) - at + 1 /\ at + (i - at) - 1 = i - 1
      BY <1>1, <2>2
    <3> QED BY <1>1, <1>5, <2>2, <3>1, <3>2
  <2>3. i <= at \/ i > at
    BY <1>1
  <2> QED BY <2>1, <2>2, <2>3
<1> QED BY <1>2, <1>8, <1>9 DEF at, IsGrown

LEMMA InsertedLists ==
  ASSUME NEW S, NEW s, Lists(s, S), NEW x, x \notin S, NEW key
  PROVE  Lists(Inserted(s, x, key), S \cup {x})
<1> DEFINE at == Place(s, x, key)
           t == Inserted(s, x, key)
<1>1. s \in Seq(S) /\ Len(s) \in Nat
  BY DEF Lists
<1>2. at \in 1 .. Len(s) + 1
  BY <1>1, PlaceIsFirst
<1> HIDE DEF at, t
<1>3. /\ t \in Seq(S \cup {x}) /\ Len(t) = Len(s) + 1
      /\ \A i \in 1 .. Len(s) + 1 : t[i] = IF i < at THEN s[i] ELSE IF i = at THEN x ELSE s[i - 1]
  <2>1. t \in Seq(S \cup {x}) /\ IsGrown(t, s, x, at)
    BY <1>1, InsertedList DEF at, t
  <2> QED BY <2>1 DEF IsGrown
<1>4. \A i \in 1 .. Len(s) : s[i] \in S
  BY <1>1
<1>5. ASSUME NEW i \in 1 .. Len(t), NEW j \in 1 .. Len(t), t[i] = t[j], i < j
      PROVE  FALSE
  <2>1. \A m, n \in 1 .. Len(s) : s[m] = s[n] => m = n
    BY DEF Lists
  <2>2. CASE i < at
    <3>1. i \in 1 .. Len(s) /\ t[i] = s[i]
      BY <1>1, <1>2, <1>3, <2>2
    <3>2. CASE j < at
      <4>1. j \in 1 .. Len(s) /\ t[j] = s[j]
        BY <1>1, <1>2, <1>3, <3>2
      <4>2. i = j
        BY <1>5, <2>1, <3>1, <4>1
      <4> QED BY <1>5, <3>1, <4>2
    <3>3. CASE j = at
      <4>1. t[j] = x
        BY <1>1, <1>2, <1>3, <3>3
      <4> QED BY <1>4, <1>5, <3>1, <4>1
    <3>4. CASE j > at
      <4>1. j - 1 \in 1 .. Len(s) /\ t[j] = s[j - 1] /\ i # j - 1
        BY <1>1, <1>2, <1>3, <2>2, <3>4
      <4> QED BY <1>5, <2>1, <3>1, <4>1
    <3> QED BY <1>2, <1>3, <3>2, <3>3, <3>4
  <2>3. CASE i >= at
    <3>1. j - 1 \in 1 .. Len(s) /\ t[j] = s[j - 1]
      BY <1>1, <1>2, <1>3, <1>5, <2>3
    <3>2. CASE i = at
      BY <1>1, <1>2, <1>3, <1>4, <1>5, <3>1, <3>2
    <3>3. CASE i > at
      <4>1. i - 1 \in 1 .. Len(s) /\ t[i] = s[i - 1] /\ i - 1 # j - 1
        BY <1>1, <1>2, <1>3, <1>5, <3>3
      <4> QED BY <1>5, <2>1, <3>1, <4>1
    <3> QED BY <1>2, <2>3, <3>2, <3>3
  <2> QED BY <1>2, <1>3, <2>2, <2>3
<1>6. ASSUME NEW y \in S \cup {x}
      PROVE  \E i \in 1 .. Len(t) : t[i] = y
  <2>1. CASE y = x
    BY <1>1, <1>2, <1>3, <2>1
  <2>2. CASE y \in S
    <3>1. PICK k \in 1 .. Len(s) : s[k] = y
      BY <2>2 DEF Lists
    <3>2. CASE k < at
      BY <1>1, <1>2, <1>3, <3>1, <3>2
    <3>3. CASE k >= at
      <4>1. k + 1 \in 1 .. Len(t) /\ t[k + 1] = s[k]
        BY <1>1, <1>2, <1>3, <3>1, <3>3
      <4> QED BY <3>1, <4>1
    <3> QED BY <1>2, <3>2, <3>3
  <2> QED BY <1>6, <2>1, <2>2
<1>7. \A i, j \in 1 .. Len(t) : t[i] = t[j] => i = j
  BY <1>1, <1>3, <1>5
<1> QED BY <1>3, <1>6, <1>7 DEF Lists, t

LEMMA InsertedFalls ==
  ASSUME NEW S, NEW s \in Seq(S), NEW x, NEW key, IsKey(key[x]), \A y \in S : IsKey(key[y]),
         Falls(s, key)
  PROVE  Falls(Inserted(s, x, key), key)
<1> DEFINE at == Place(s, x, key)
           t == Inserted(s, x, key)
           k(y) == key[y][1]
<1>1. /\ at \in 1 .. Len(s) + 1 /\ Len(s) \in Nat
      /\ \A i \in 1 .. Len(s) : i < at => ~ Precedes(key[x], key[s[i]])
      /\ at <= Len(s) => Precedes(key[x], key[s[at]])
  BY PlaceIsFirst
<1> HIDE DEF at, t
<1>2. /\ Len(t) = Len(s) + 1
      /\ \A i \in 1 .. Len(s) + 1 : t[i] = IF i < at THEN s[i] ELSE IF i = at THEN x ELSE s[i - 1]
  <2>1. IsGrown(t, s, x, at)
    BY InsertedList DEF at, t
  <2> QED BY <2>1 DEF IsGrown
<1>3. \A i \in 1 .. Len(s) : IsKey(key[s[i]]) /\ k(s[i]) \in Int
  BY DEF IsKey
<1>4. k(x) \in Int
  BY DEF IsKey
<1>5. \A i \in 1 .. Len(s) : i < at => k(s[i]) >= k(x)
  BY <1>1, <1>3, <1>4, FirstPartDecides
<1>6. at <= Len(s) => k(x) >= k(s[at])
  BY <1>1, <1>3, FirstPartDecides
<1>7. \A i, j \in 1 .. Len(s) : i < j => k(s[i]) >= k(s[j])
  BY DEF Falls
<1>8. \A j \in 1 .. Len(s) : j >= at => k(x) >= k(s[j])
  BY <1>1, <1>3, <1>4, <1>6, <1>7
<1> HIDE DEF k
<1>9. \A i, j \in 1 .. Len(t) : i < j => k(t[i]) >= k(t[j])
  <2> SUFFICES ASSUME NEW i \in 1 .. Len(t), NEW j \in 1 .. Len(t), i < j
               PROVE  k(t[i]) >= k(t[j])
    OBVIOUS
  <2>1. CASE j < at
    BY <1>1, <1>2, <1>7, <2>1
  <2>2. CASE j = at
    BY <1>1, <1>2, <1>5, <2>2
  <2>3. CASE j > at
    <3>1. t[j] = s[j - 1] /\ j - 1 \in 1 .. Len(s)
      BY <1>1, <1>2, <2>3
    <3>2. CASE i < at
      <4>1. t[i] = s[i] /\ i \in 1 .. Len(s) /\ i < j - 1
        BY <1>1, <1>2, <2>3, <3>2
      <4> QED BY <1>7, <3>1, <4>1
    <3>3. CASE i = at
      <4>1. t[i] = x /\ j - 1 >= at
        BY <1>1, <1>2, <2>3, <3>3
      <4> QED BY <1>8, <3>1, <4>1
    <3>4. CASE i > at
      <4>1. t[i] = s[i - 1] /\ i - 1 \in 1 .. Len(s) /\ i - 1 < j - 1
        BY <1>1, <1>2, <3>4
      <4> QED BY <1>7, <3>1, <4>1
    <3> QED BY <1>1, <3>2, <3>3, <3>4
  <2> QED BY <1>1, <2>1, <2>2, <2>3
<1> QED BY <1>9 DEF Falls, k, t

(* A list that is built one element after the other.                       *)
Turn(g, s, key) ==
  IF s = {} THEN <<>> ELSE Inserted(g[s \ {Picked(s)}], Picked(s), key)

Sorting(g, S, key) == g = [s \in SUBSET S |-> Turn(g, s, key)]

LEMMA SortedIsChosen ==
  ASSUME NEW S, NEW key
  PROVE  Sorted(S, key) = (CHOOSE g : Sorting(g, S, key))[S]
BY DEF Sorted, FoldSet, MapThenFoldSet, Sorting, Turn, Picked

FirstTurns(n, g, S, key) ==
  g = [s \in {t \in SUBSET S : Cardinality(t) <= n} |-> Turn(g, s, key)]

LEMMA FirstTurnsExist ==
  ASSUME NEW key, NEW S, IsFiniteSet(S), NEW m \in Nat
  PROVE  \E g : FirstTurns(m, g, S, key)
<1> DEFINE D(n) == {t \in SUBSET S : Cardinality(t) <= n}
           N == {n \in 0..m : ~ \E g : FirstTurns(n, g, S, key)}
<1>1. \A t \in SUBSET S : IsFiniteSet(t) /\ Cardinality(t) \in Nat
  BY FS_Subset, FS_CardinalityType
<1>2. SUFFICES ASSUME N # {}
               PROVE  FALSE
  OBVIOUS
<1>3. PICK n \in N : \A k \in N : n <= k
  <2> HIDE DEF N
  <2>1. N \subseteq 0..m
    BY DEF N
  <2> QED BY <1>2, <2>1, LeastNumber
<1>4. CASE n = 0
  <2>1. \A t \in D(0) : t = {}
    BY <1>1, FS_EmptySet
  <2> DEFINE h == [t \in D(0) |-> <<>>]
  <2>2. FirstTurns(0, h, S, key)
    BY <2>1 DEF FirstTurns, Turn
  <2> QED BY <1>4, <2>2
<1>5. CASE n # 0
  <2>1. n - 1 \in 0..m /\ n - 1 \notin N
    BY <1>3, <1>5
  <2>2. PICK g : FirstTurns(n - 1, g, S, key)
    BY <2>1
  <2> DEFINE h == [t \in D(n) |-> Turn(g, t, key)]
  <2>3. \A t \in D(n) : t # {} => t \ {Picked(t)} \in D(n - 1) /\ t \ {Picked(t)} \in D(n)
    <3> SUFFICES ASSUME NEW t \in D(n), t # {}
                 PROVE  t \ {Picked(t)} \in D(n - 1) /\ t \ {Picked(t)} \in D(n)
      OBVIOUS
    <3>1. Picked(t) \in t
      BY DEF Picked
    <3>2. Cardinality(t \ {Picked(t)}) = Cardinality(t) - 1
      BY <1>1, <3>1, FS_RemoveElement
    <3> QED BY <1>1, <3>2
  <2>4. \A t \in D(n - 1) : h[t] = g[t]
    <3> SUFFICES ASSUME NEW t \in D(n - 1)
                 PROVE  h[t] = g[t]
      OBVIOUS
    <3>1. t \in D(n)
      BY <1>1
    <3>2. g[t] = Turn(g, t, key)
      BY <2>2 DEF FirstTurns
    <3> QED BY <3>1, <3>2
  <2>5. \A t \in D(n) : Turn(h, t, key) = Turn(g, t, key)
    <3> HIDE DEF D, h
    <3> QED BY <2>3, <2>4 DEF Turn
  <2>6. FirstTurns(n, h, S, key)
    BY <2>5 DEF FirstTurns
  <2> QED BY <2>6
<1> QED BY <1>4, <1>5

LEMMA SortingExists ==
  ASSUME NEW key, NEW S, IsFiniteSet(S)
  PROVE  \E g : Sorting(g, S, key)
<1>1. Cardinality(S) \in Nat
  BY FS_CardinalityType
<1>2. {t \in SUBSET S : Cardinality(t) <= Cardinality(S)} = SUBSET S
  BY FS_Subset
<1>3. PICK g : FirstTurns(Cardinality(S), g, S, key)
  BY <1>1, FirstTurnsExist
<1> QED BY <1>2, <1>3 DEF FirstTurns, Sorting

(* What is sorted has every element once, the greatest first part first.   *)
IsKeyOf(key, S) == \A x \in S : IsKey(key[x])

LEMMA SortedList ==
  ASSUME NEW S, IsFiniteSet(S), NEW key, IsKeyOf(key, S)
  PROVE  Lists(Sorted(S, key), S) /\ Falls(Sorted(S, key), key)
<1>1. PICK g : Sorting(g, S, key) /\ Sorted(S, key) = g[S]
  <2> DEFINE G == CHOOSE g : Sorting(g, S, key)
  <2>1. Sorting(G, S, key)
    BY SortingExists
  <2> QED BY <2>1, SortedIsChosen
<1> DEFINE F == {T \in SUBSET S : ~ (Lists(g[T], T) /\ Falls(g[T], key))}
<1>2. SUFFICES ASSUME F # {}
               PROVE  FALSE
  BY <1>1
<1>3. PICK T \in F : \A U \in F : ~ (U \subseteq T /\ U # T)
  <2>1. F \subseteq SUBSET S
    OBVIOUS
  <2> HIDE DEF F
  <2> QED BY <1>2, <2>1, LeastSubset
<1>4. g[T] = Turn(g, T, key)
  BY <1>1 DEF Sorting
<1>5. CASE T = {}
  <2>1. g[T] = <<>>
    BY <1>4, <1>5 DEF Turn
  <2>2. Lists(<<>>, {}) /\ Falls(<<>>, key)
    BY DEF Lists, Falls
  <2> QED BY <1>3, <1>5, <2>1, <2>2
<1>6. CASE T # {}
  <2> DEFINE c == Picked(T)
             U == T \ {c}
  <2>1. c \in T
    BY <1>6 DEF Picked
  <2>2. g[T] = Inserted(g[U], c, key)
    BY <1>4, <1>6 DEF Turn
  <2> HIDE DEF c
  <2>3. Lists(g[U], U) /\ Falls(g[U], key)
    BY <1>3, <2>1
  <2>4. Lists(g[T], U \cup {c}) /\ U \cup {c} = T
    BY <2>1, <2>2, <2>3, InsertedLists
  <2>5. Falls(g[T], key)
    <3>1. g[U] \in Seq(U)
      BY <2>3 DEF Lists
    <3>2. IsKey(key[c]) /\ \A y \in U : IsKey(key[y])
      BY <2>1 DEF IsKeyOf
    <3> HIDE DEF U
    <3> QED BY <2>2, <2>3, <3>1, <3>2, InsertedFalls
  <2> QED BY <1>3, <2>4, <2>5
<1> QED BY <1>5, <1>6

(* The part of a list that is in a set.                                    *)
Taken(g, s, set, n) ==
  IF n = 0 THEN <<>> ELSE IF s[n] \in set THEN Append(g[n - 1], s[n]) ELSE g[n - 1]

Taking(g, s, set, m) == g = [n \in 0 .. m |-> Taken(g, s, set, n)]

LEMMA OnlyIsChosen ==
  ASSUME NEW s, NEW set
  PROVE  Only(s, set) = (CHOOSE g : Taking(g, s, set, Len(s)))[Len(s)]
BY DEF Only, Taking, Taken

LEMMA TakingExists ==
  ASSUME NEW s, NEW set, NEW m \in Nat
  PROVE  \E g : Taking(g, s, set, m)
<1> DEFINE N == {n \in 0 .. m : ~ \E g : Taking(g, s, set, n)}
<1>1. SUFFICES ASSUME N # {}
               PROVE  FALSE
  OBVIOUS
<1>2. PICK n \in N : \A k \in N : n <= k
  <2>1. N \subseteq 0 .. m
    OBVIOUS
  <2> HIDE DEF N
  <2> QED BY <1>1, <2>1, LeastNumber
<1>3. CASE n = 0
  <2> DEFINE h == [k \in 0 .. 0 |-> <<>>]
  <2>1. Taking(h, s, set, 0)
    BY DEF Taking, Taken
  <2> QED BY <1>3, <2>1
<1>4. CASE n # 0
  <2>1. n - 1 \in 0 .. m /\ n - 1 \notin N
    BY <1>2, <1>4
  <2>2. PICK g : Taking(g, s, set, n - 1)
    BY <2>1
  <2> DEFINE h == [k \in 0 .. n |-> Taken(g, s, set, k)]
  <2>3. \A k \in 0 .. n - 1 : h[k] = g[k]
    BY <2>2 DEF Taking
  <2>4. \A k \in 0 .. n : Taken(h, s, set, k) = Taken(g, s, set, k)
    <3> HIDE DEF h
    <3> QED BY <2>3 DEF Taken
  <2>5. Taking(h, s, set, n)
    BY <2>4 DEF Taking
  <2> QED BY <2>5
<1> QED BY <1>3, <1>4

LEMMA AppendedLists ==
  ASSUME NEW S, NEW s, Lists(s, S), NEW x, x \notin S
  PROVE  Lists(Append(s, x), S \cup {x})
<1> DEFINE t == Append(s, x)
<1>1. s \in Seq(S) /\ s \in Seq(S \cup {x}) /\ Len(s) \in Nat
  BY DEF Lists
<1>2. /\ t \in Seq(S \cup {x}) /\ Len(t) = Len(s) + 1
      /\ \A i \in 1 .. Len(s) : t[i] = s[i] /\ t[i] \in S
      /\ t[Len(s) + 1] = x
  BY <1>1
<1> HIDE DEF t
<1>3. \A i, j \in 1 .. Len(t) : t[i] = t[j] => i = j
  <2> SUFFICES ASSUME NEW i \in 1 .. Len(t), NEW j \in 1 .. Len(t), t[i] = t[j]
               PROVE  i = j
    OBVIOUS
  <2>1. CASE i = Len(t) /\ j = Len(t)
    BY <2>1
  <2>2. CASE i = Len(t) /\ j # Len(t)
    BY <1>1, <1>2, <2>2
  <2>3. CASE i # Len(t) /\ j = Len(t)
    BY <1>1, <1>2, <2>3
  <2>4. CASE i # Len(t) /\ j # Len(t)
    <3>1. i \in 1 .. Len(s) /\ j \in 1 .. Len(s) /\ s[i] = s[j]
      BY <1>1, <1>2, <2>4
    <3> QED BY <3>1 DEF Lists
  <2> QED BY <2>1, <2>2, <2>3, <2>4
<1>4. ASSUME NEW y \in S \cup {x}
      PROVE  \E i \in 1 .. Len(t) : t[i] = y
  <2>1. CASE y = x
    BY <1>1, <1>2, <2>1
  <2>2. CASE y \in S
    <3>1. PICK i \in 1 .. Len(s) : s[i] = y
      BY <2>2 DEF Lists
    <3> QED BY <1>1, <1>2, <3>1
  <2> QED BY <1>4, <2>1, <2>2
<1> QED BY <1>2, <1>3, <1>4 DEF Lists, t

LEMMA OnlyLists ==
  ASSUME NEW S, NEW s, Lists(s, S), NEW set
  PROVE  Lists(Only(s, set), S \cap set)
<1> DEFINE T(n) == {s[i] : i \in 1 .. n} \cap set
           m == Len(s)
<1>0. m \in Nat /\ \A i, j \in 1 .. m : s[i] = s[j] => i = j
  BY DEF Lists
<1>1. PICK g : Taking(g, s, set, m) /\ Only(s, set) = g[m]
  <2> DEFINE G == CHOOSE g : Taking(g, s, set, m)
  <2>1. Taking(G, s, set, m)
    BY <1>0, TakingExists
  <2> QED BY <2>1, OnlyIsChosen
<1>2. T(m) = S \cap set
  BY DEF Lists
<1> HIDE DEF m
<1> DEFINE N == {n \in 0 .. m : ~ Lists(g[n], T(n))}
<1>3. SUFFICES ASSUME N # {}
               PROVE  FALSE
  <2> HIDE DEF T
  <2>1. m \notin N => Lists(g[m], T(m))
    BY <1>0
  <2> QED BY <1>1, <1>2, <2>1
<1>4. PICK n \in N : \A k \in N : n <= k
  <2>1. N \subseteq 0 .. m
    OBVIOUS
  <2> HIDE DEF N
  <2> QED BY <1>0, <1>3, <2>1, LeastNumber
<1>5. g[n] = Taken(g, s, set, n)
  BY <1>1 DEF Taking
<1>6. CASE n = 0
  <2>1. g[n] = <<>> /\ T(n) = {}
    BY <1>5, <1>6 DEF Taken
  <2>2. Lists(<<>>, {})
    BY DEF Lists
  <2> QED BY <1>4, <2>1, <2>2
<1>7. CASE n # 0
  <2>1. n - 1 \in 0 .. m /\ n \in 1 .. m /\ Lists(g[n - 1], T(n - 1))
    BY <1>0, <1>4, <1>7
  <2>2. {s[i] : i \in 1 .. n} = {s[i] : i \in 1 .. n - 1} \cup {s[n]}
    <3>1. 1 .. n = (1 .. n - 1) \cup {n}
      BY <2>1, <1>0
    <3> QED BY <3>1
  <2>3. CASE s[n] \in set
    <3>1. T(n) = T(n - 1) \cup {s[n]} /\ g[n] = Append(g[n - 1], s[n])
      BY <1>5, <1>7, <2>2, <2>3 DEF Taken
    <3>2. s[n] \notin T(n - 1)
      BY <1>0, <2>1
    <3> HIDE DEF T
    <3>3. Lists(g[n], T(n))
      BY <2>1, <3>1, <3>2, AppendedLists
    <3> QED BY <1>4, <3>3
  <2>4. CASE s[n] \notin set
    <3>1. T(n) = T(n - 1) /\ g[n] = g[n - 1]
      BY <1>5, <1>7, <2>2, <2>4 DEF Taken
    <3> QED BY <1>4, <2>1, <3>1
  <2> QED BY <2>3, <2>4
<1> QED BY <1>6, <1>7

(* The pages of a list.                                                    *)
LEMMA SliceOf ==
  ASSUME NEW S, NEW s \in Seq(S), NEW n \in Nat \ {0}, NEW limit \in Nat \ {0}
  PROVE  LET start == (n - 1) * limit
             t == Slice(s, n, limit)
         IN  /\ t \in Seq(S) /\ Len(t) \in 0 .. limit
             /\ \A j \in 1 .. limit : j \in DOMAIN t <=> start + j <= Len(s)
             /\ \A j \in DOMAIN t : t[j] = s[start + j]
<1> DEFINE start == (n - 1) * limit
           end == AtMost(n * limit, Len(s))
<1>1. start \in Nat /\ n * limit = start + limit /\ Len(s) \in Nat
  OBVIOUS
<1>2. end = IF start + limit > Len(s) THEN Len(s) ELSE start + limit
  BY <1>1 DEF AtMost
<1>3. Slice(s, n, limit) = SubSeq(s, start + 1, end)
  BY DEF Slice
<1> HIDE DEF start, end
<1>4. \A i \in start + 1 .. end : i \in 1 .. Len(s)
  BY <1>1, <1>2
<1>5. /\ SubSeq(s, start + 1, end) \in Seq(S)
      /\ Len(SubSeq(s, start + 1, end)) = IF start + 1 <= end THEN end - start ELSE 0
      /\ \A j \in 1 .. end - start : SubSeq(s, start + 1, end)[j] = s[start + j]
  BY <1>1, <1>2, <1>4
<1> DEFINE t == Slice(s, n, limit)
<1>6. CASE start + 1 <= end
  <2>1. Len(t) = end - start /\ DOMAIN t = 1 .. end - start /\ Len(t) \in 0 .. limit
    BY <1>1, <1>2, <1>3, <1>5, <1>6
  <2>2. \A j \in 1 .. limit : j \in DOMAIN t <=> start + j <= Len(s)
    BY <1>1, <1>2, <2>1
  <2> QED BY <1>3, <1>5, <2>1, <2>2 DEF start
<1>7. CASE ~ (start + 1 <= end)
  <2>1. Len(t) = 0 /\ DOMAIN t = {}
    BY <1>1, <1>2, <1>3, <1>5, <1>7
  <2>2. \A j \in 1 .. limit : ~ (start + j <= Len(s))
    BY <1>1, <1>2, <1>7
  <2> QED BY <1>3, <1>5, <2>1, <2>2 DEF start
<1> QED BY <1>6, <1>7

LEMMA PagesSuffice ==
  ASSUME NEW n \in Nat, NEW limit \in Nat \ {0}
  PROVE  n \div limit + 1 \in Nat /\ n <= (n \div limit + 1) * limit
<1> DEFINE q == n \div limit
           r == n % limit
           lq == limit * q
<1>1. q \in Nat /\ r \in 0 .. limit - 1
  OBVIOUS
<1>2. n = lq + r
  OBVIOUS
<1> HIDE DEF q, r
<1>3. (q + 1) * limit = lq + limit /\ lq \in Nat
  BY <1>1
<1> HIDE DEF lq
<1>4. n <= (q + 1) * limit
  BY <1>1, <1>2, <1>3
<1> QED BY <1>1, <1>4 DEF q

PlacesOf(pages, limit) ==
  {p \in (DOMAIN pages) \X (1 .. limit) : p[2] \in DOMAIN pages[p[1]]}

IsPartition(pages, limit, S) ==
  /\ \A n \in DOMAIN pages : Len(pages[n]) <= limit
  /\ {pages[p[1]][p[2]] : p \in PlacesOf(pages, limit)} = S
  /\ Cardinality(PlacesOf(pages, limit)) = Cardinality(S)

LEMMA SlicesPartition ==
  ASSUME NEW S, IsFiniteSet(S), NEW s, Lists(s, S), NEW limit \in Nat \ {0},
         NEW last \in Nat, Len(s) <= last * limit,
         NEW pages, pages = [n \in 1 .. last |-> Slice(s, n, limit)]
  PROVE  IsPartition(pages, limit, S)
<1> DEFINE start(n) == (n - 1) * limit
           places == {p \in (DOMAIN pages) \X (1 .. limit) : p[2] \in DOMAIN pages[p[1]]}
           f == [p \in places |-> pages[p[1]][p[2]]]
<1>1. s \in Seq(S) /\ Len(s) \in Nat
  BY DEF Lists
<1>2. ASSUME NEW n \in 1 .. last
      PROVE  /\ pages[n] \in Seq(S) /\ Len(pages[n]) <= limit
             /\ \A j \in 1 .. limit : j \in DOMAIN pages[n] <=> start(n) + j <= Len(s)
             /\ \A j \in DOMAIN pages[n] : pages[n][j] = s[start(n) + j]
  <2> DEFINE t == Slice(s, n, limit)
  <2>1. /\ t \in Seq(S) /\ Len(t) \in 0 .. limit
        /\ \A j \in 1 .. limit : j \in DOMAIN t <=> start(n) + j <= Len(s)
        /\ \A j \in DOMAIN t : t[j] = s[start(n) + j]
    BY <1>1, SliceOf
  <2>2. pages[n] = t
    OBVIOUS
  <2> HIDE DEF t
  <2> QED BY <2>1, <2>2
<1>3. \A n \in 1 .. last : start(n) \in Nat
  OBVIOUS
<1>4. \A m, n \in 1 .. last : m < n => start(n) >= start(m) + limit
  <2> SUFFICES ASSUME NEW m \in 1 .. last, NEW n \in 1 .. last, m < n
               PROVE  start(n) >= start(m) + limit
    OBVIOUS
  <2>1. PICK d \in Nat : n = m + 1 + d
    <3>1. n - m - 1 \in Nat /\ n = m + 1 + (n - m - 1)
      OBVIOUS
    <3> QED BY <3>1
  <2>2. start(n) = start(m) + limit + d * limit /\ d * limit \in Nat
    BY <2>1
  <2> QED BY <2>2
<1>5. \A i \in 1 .. Len(s) : \E n \in 1 .. last, j \in 1 .. limit : i = start(n) + j
  <2> SUFFICES ASSUME NEW i \in 1 .. Len(s)
               PROVE  \E n \in 1 .. last, j \in 1 .. limit : i = start(n) + j
    OBVIOUS
  <2> DEFINE q == (i - 1) \div limit
             r == (i - 1) % limit
             lq == limit * q
  <2>1. q \in Nat /\ r \in 0 .. limit - 1
    BY <1>1
  <2>2. i - 1 = lq + r
    BY <1>1
  <2> HIDE DEF q, r
  <2>3. lq = start(q + 1) /\ lq \in Nat
    BY <2>1
  <2>4. q + 1 <= last
    <3> SUFFICES ASSUME q + 1 > last
                 PROVE  FALSE
      BY <2>1
    <3>1. q >= last
      BY <2>1
    <3>2. lq >= last * limit
      BY <2>1, <3>1
    <3> HIDE DEF lq
    <3> QED BY <1>1, <2>1, <2>2, <2>3, <3>2
  <2> HIDE DEF start, lq
  <2>5. i = start(q + 1) + (r + 1) /\ r + 1 \in 1 .. limit /\ q + 1 \in 1 .. last
    BY <2>1, <2>2, <2>3, <2>4
  <2> QED BY <2>5
<1> HIDE DEF start
<1>6. ASSUME NEW p \in places
      PROVE  /\ p[1] \in 1 .. last /\ p[2] \in 1 .. limit /\ p = <<p[1], p[2]>>
             /\ start(p[1]) + p[2] \in 1 .. Len(s) /\ f[p] = s[start(p[1]) + p[2]]
  <2>1. p[1] \in 1 .. last /\ p[2] \in 1 .. limit /\ p = <<p[1], p[2]>> /\ p[2] \in DOMAIN pages[p[1]]
    OBVIOUS
  <2>2. start(p[1]) + p[2] <= Len(s) /\ pages[p[1]][p[2]] = s[start(p[1]) + p[2]]
    BY <1>2, <2>1
  <2>3. start(p[1]) \in Nat
    BY <1>3, <2>1
  <2>4. f[p] = pages[p[1]][p[2]]
    OBVIOUS
  <2> HIDE DEF f, places
  <2> QED BY <1>1, <2>1, <2>2, <2>3, <2>4
<1>7. f \in [places -> S]
  BY <1>1, <1>6
<1>8. ASSUME NEW p \in places, NEW q \in places, f[p] = f[q]
      PROVE  p = q
  <2> HIDE DEF f, places
  <2>1. /\ p[1] \in 1 .. last /\ p[2] \in 1 .. limit /\ p = <<p[1], p[2]>>
        /\ q[1] \in 1 .. last /\ q[2] \in 1 .. limit /\ q = <<q[1], q[2]>>
    BY <1>6
  <2>2. start(p[1]) + p[2] = start(q[1]) + q[2]
    <3> DEFINE at(x) == start(x[1]) + x[2]
    <3>1. at(p) \in 1 .. Len(s) /\ f[p] = s[at(p)] /\ at(q) \in 1 .. Len(s) /\ f[q] = s[at(q)]
      BY <1>6
    <3> HIDE DEF at
    <3>2. at(p) = at(q)
      BY <1>8, <3>1 DEF Lists
    <3> QED BY <3>2 DEF at
  <2>3. start(p[1]) \in Nat /\ start(q[1]) \in Nat
    BY <1>3, <2>1
  <2>4. ~ p[1] < q[1] /\ ~ q[1] < p[1]
    BY <1>4, <2>1, <2>2, <2>3
  <2>5. p[1] = q[1]
    BY <2>1, <2>4
  <2>6. p[2] = q[2]
    BY <2>1, <2>2, <2>3, <2>5
  <2> QED BY <2>1, <2>5, <2>6
<1>9. ASSUME NEW x \in S
      PROVE  \E p \in places : f[p] = x
  <2>1. PICK i \in 1 .. Len(s) : s[i] = x
    BY DEF Lists
  <2>2. PICK n \in 1 .. last, j \in 1 .. limit : i = start(n) + j
    BY <1>5
  <2>3. <<n, j>> \in places
    BY <1>1, <1>2, <2>2
  <2>4. f[<<n, j>>] = x
    BY <1>2, <2>1, <2>2, <2>3
  <2> QED BY <2>3, <2>4
<1> HIDE DEF places
<1>10. f \in Bijection(places, S)
  <2> HIDE DEF f
  <2> QED BY <1>7, <1>8, <1>9 DEF Bijection, Injection, IsInjective, Surjection
<1>11. Cardinality(places) = Cardinality(S)
  <2>1. ExistsBijection(places, S)
    BY <1>10 DEF ExistsBijection
  <2>2. ExistsBijection(S, places)
    BY <2>1, Fun_ExistsBijSymmetric
  <2> QED BY <2>2, FS_Bijection
<1>12. {pages[p[1]][p[2]] : p \in places} = S
  <2>1. \A p \in places : pages[p[1]][p[2]] = f[p]
    OBVIOUS
  <2>2. \A p \in places : f[p] \in S
    BY <1>7
  <2> HIDE DEF f
  <2>3. \A x \in S : \E p \in places : pages[p[1]][p[2]] = x
    BY <1>9, <2>1
  <2>4. \A p \in places : pages[p[1]][p[2]] \in S
    BY <2>1, <2>2
  <2> QED BY <2>3, <2>4
<1> QED BY <1>2, <1>11, <1>12 DEF places, PlacesOf, IsPartition

LEMMA SubList ==
  ASSUME NEW S, NEW s \in Seq(S)
  PROVE  SubSeq(s, 1, Len(s)) = s
OBVIOUS

(* The filters of a list leave the findings that no rule and no level      *)
(* hides.                                                                  *)
LEMMA FilteredLists ==
  ASSUME NEW rows, IsFiniteSet(rows), NEW s, Lists(s, rows), NEW rules, NEW level
  PROVE  Lists(apply_info_detail(apply_domain_filter(s, rules).kept, level).kept,
               {r \in rows : ~ruled_out(r, rules) /\ ~is_excluded(r, level)})
<1> DEFINE out == {r \in rows : ruled_out(r, rules)}
           t == apply_domain_filter(s, rules).kept
           left == rows \ out
           low == {r \in left : is_excluded(r, level)}
           u == apply_info_detail(t, level).kept
<1>1. Range(s) = rows
  BY ListsAll
<1>2. t = Only(s, rows \ out)
  BY <1>1 DEF apply_domain_filter
<1>3. Lists(t, left)
  <2>1. Lists(Only(s, left), rows \cap left)
    <3> HIDE DEF left
    <3> QED BY OnlyLists
  <2>2. rows \cap left = left
    OBVIOUS
  <2> QED BY <1>2, <2>1, <2>2
<1>4. Range(t) = left
  <2>1. IsFiniteSet(left)
    BY FS_Subset
  <2> HIDE DEF left, t
  <2> QED BY <1>3, <2>1, ListsAll
<1> HIDE DEF t
<1>5. u = Only(t, left \ low)
  BY <1>4 DEF apply_info_detail
<1>6. Lists(u, left \cap (left \ low))
  <2> HIDE DEF left, low, u
  <2> QED BY <1>3, <1>5, OnlyLists
<1>7. left \cap (left \ low) = {r \in rows : ~ruled_out(r, rules) /\ ~is_excluded(r, level)}
  OBVIOUS
<1> HIDE DEF left, low
<1> QED BY <1>6, <1>7 DEF t

LEMMA ListOrder ==
  ASSUME NEW rows, IsScored(rows)
  PROVE  Lists(InListOrder(rows), rows)
<1> DEFINE key == [r \in rows |-> <<r.impact, 0 - SEVERITY_RANK(r.severity)>>]
<1>1. IsKeyOf(key, rows)
  <2> SUFFICES ASSUME NEW r \in rows
               PROVE  IsKey(key[r])
    BY DEF IsKeyOf
  <2>1. key[r] = <<r.impact, 0 - SEVERITY_RANK(r.severity)>> /\ r.impact \in Nat
    BY DEF IsScored
  <2> HIDE DEF key
  <2> QED BY <2>1 DEF IsKey
<1>2. InListOrder(rows) = Sorted(rows, key)
  BY DEF InListOrder
<1> HIDE DEF key
<1> QED BY <1>1, <1>2, SortedList DEF IsScored

Due(rows, rules, level) == {r \in rows : ~ruled_out(r, rules) /\ ~is_excluded(r, level)}

(* The list that is cut into pages.                                        *)
IsPaginated(s, rows, rules, level) ==
  \A n, limit : paginate_filtered(rows, rules, "", "", n, limit, level)
                  = [issues |-> Slice(s, n, limit), total |-> Len(s)]

LEMMA PaginatedList ==
  ASSUME NEW rows, IsScored(rows), NEW rules, NEW level
  PROVE  \E s : Lists(s, Due(rows, rules, level)) /\ IsPaginated(s, rows, rules, level)
<1> DEFINE all == InListOrder(rows)
           kept == apply_info_detail(apply_domain_filter(all, rules).kept, level).kept
<1>1. Lists(all, rows) /\ IsFiniteSet(rows)
  BY ListOrder DEF IsScored
<1> HIDE DEF all
<1>2. SelectedRows(rows, "", "") = rows
  BY DEF SelectedRows
<1>3. \A n, limit : get_issues(rows, "", "", n, limit) = [issues |-> Slice(all, n, limit), total |-> Len(all)]
  BY <1>2 DEF get_issues, all
<1>4. CASE rules = {} /\ level = "all"
  <2>1. \A n, limit : paginate_filtered(rows, rules, "", "", n, limit, level)
                        = [issues |-> Slice(all, n, limit), total |-> Len(all)]
    BY <1>3, <1>4 DEF paginate_filtered
  <2>2. Due(rows, rules, level) = rows
    <3>1. \A r \in rows : ~ruled_out(r, rules)
      BY <1>4 DEF ruled_out, rule_sets
    <3>2. \A r \in rows : ~is_excluded(r, level)
      BY <1>4 DEF is_excluded, info_row_excluded, INFO_DETAIL_MIN_IMPACT, IsScored
    <3> QED BY <3>1, <3>2 DEF Due
  <2> QED BY <1>1, <2>1, <2>2 DEF IsPaginated
<1>5. CASE ~ (rules = {} /\ level = "all")
  <2>1. Slice(all, 1, Cardinality(rows)) = all
    <3>1. Len(all) = Cardinality(rows) /\ all \in Seq(rows) /\ Len(all) \in Nat
      BY <1>1, ListsAll DEF Lists
    <3>2. AtMost(1 * Len(all), Len(all)) = Len(all) /\ (1 - 1) * Len(all) + 1 = 1
      BY <3>1 DEF AtMost
    <3> QED BY <3>1, <3>2, SubList DEF Slice
  <2>2. \A n, limit : paginate_filtered(rows, rules, "", "", n, limit, level)
                        = [issues |-> Slice(kept, n, limit), total |-> Len(kept)]
    <3> DEFINE got == get_issues(rows, "", "", 1, Cardinality(rows))
               cut == Slice(all, 1, Cardinality(rows))
    <3>1. got = [issues |-> cut, total |-> Len(all)]
      BY <1>3
    <3>2. cut = all
      BY <2>1
    <3>3. got.issues = all
      <4> HIDE DEF got, cut
      <4> QED BY <3>1, <3>2
    <3> QED BY <1>5, <3>3, Zenon DEF paginate_filtered
  <2>3. Lists(kept, Due(rows, rules, level))
    BY <1>1, FilteredLists DEF Due
  <2> HIDE DEF kept
  <2> QED BY <2>2, <2>3 DEF IsPaginated
<1> QED BY <1>4, <1>5

LEMMA Some ==
  ASSUME NEW S, IsFiniteSet(S)
  PROVE  Cardinality(S) \in Nat /\ (Cardinality(S) > 0 <=> S # {})
BY FS_CardinalityType, FS_EmptySet

LEMMA PartsCount ==
  ASSUME NEW S, IsFiniteSet(S), NEW T, T \subseteq S
  PROVE  Cardinality(S) = Cardinality(T) + Cardinality(S \ T)
<1>1. S \cap T = T
  OBVIOUS
<1>2. Cardinality(S \ T) = Cardinality(S) - Cardinality(T)
  BY <1>1, FS_Difference
<1>3. Cardinality(S) \in Nat /\ Cardinality(T) \in Nat
  BY FS_Subset, FS_CardinalityType
<1> QED BY <1>2, <1>3

LEMMA Ranks ==
  /\ SEVERITY_RANK("critical") = 1
  /\ SEVERITY_RANK("warning") = 2
  /\ SEVERITY_RANK("info") = 3
<1>1. /\ SEVERITIES[1] = "critical" /\ SEVERITIES[2] = "warning" /\ SEVERITIES[3] = "info"
  BY DEF SEVERITIES
<1>2. 1 .. 3 = {1, 2, 3}
  OBVIOUS
<1> QED BY <1>1, <1>2 DEF SEVERITY_RANK

Banded(rows) == \A r \in rows : r.severity \in {"critical", "warning", "info"}

LEMMA CataloguedIsBanded ==
  ASSUME NEW rows, Catalogued(rows)
  PROVE  Banded(rows)
BY DEF Banded, Catalogued, catalogued, severity_from_impact

Listed(rows, p, level) == {r \in rows : r.page = p /\ ~is_excluded(r, level)}

LEMMA CountsOf ==
  ASSUME NEW rows, IsScored(rows), Banded(rows), NEW p, NEW level,
         NEW sev \in {"critical", "warning", "info"}
  PROVE  LET c == issue_counts(rows, p, level) IN
         /\ c.total = Cardinality(Listed(rows, p, level)) /\ c.total \in Nat
         /\ qualifies(c, sev, FALSE)
              <=> \E r \in Listed(rows, p, level) : SEVERITY_RANK(r.severity) <= SEVERITY_RANK(sev)
         /\ qualifies(c, sev, TRUE)
              <=> \E r \in Listed(rows, p, "all") : SEVERITY_RANK(r.severity) <= SEVERITY_RANK(sev)
<1> DEFINE c == issue_counts(rows, p, level)
           on(s) == {r \in rows : r.page = p /\ r.severity = s}
           kept == {r \in on("info") : ~info_row_excluded(r.impact, level)}
           rest == on("info") \ kept
<1>1. /\ c.critical = Cardinality(on("critical")) /\ c.warning = Cardinality(on("warning"))
      /\ c.info = Cardinality(kept) /\ c.info_excluded = Cardinality(rest)
      /\ c.total = Cardinality(on("critical") \cup on("warning") \cup kept)
  BY DEF issue_counts
<1>2. \A r \in rows : ~is_excluded(r, "all")
  BY DEF is_excluded, info_row_excluded, INFO_DETAIL_MIN_IMPACT, IsScored
<1>3. /\ on("critical") \cup on("warning") \cup kept = Listed(rows, p, level)
      /\ on("critical") \cup on("warning") \cup (kept \cup rest) = Listed(rows, p, "all")
  BY <1>2 DEF Listed, is_excluded, Banded
<1>4. \A r \in on("critical") : SEVERITY_RANK(r.severity) = 1
  BY Ranks
<1>5. \A r \in on("warning") : SEVERITY_RANK(r.severity) = 2
  BY Ranks
<1>6. \A r \in kept \cup rest : SEVERITY_RANK(r.severity) = 3
  BY Ranks
<1>7. /\ IsFiniteSet(on("critical")) /\ IsFiniteSet(on("warning"))
      /\ IsFiniteSet(kept) /\ IsFiniteSet(rest) /\ IsFiniteSet(Listed(rows, p, level))
  BY FS_Subset DEF IsScored, Listed
<1> HIDE DEF on, kept, rest, c
<1>8. /\ c.critical \in Nat /\ (c.critical > 0 <=> on("critical") # {})
      /\ c.warning \in Nat /\ (c.warning > 0 <=> on("warning") # {})
      /\ c.info \in Nat /\ (c.info > 0 <=> kept # {})
      /\ c.info_excluded \in Nat /\ (c.info_excluded > 0 <=> rest # {})
      /\ c.total \in Nat
  BY <1>1, <1>3, <1>7, Some
<1>9. SEVERITY_RANK(sev) \in 1 .. 3
  BY Ranks
<1>10. /\ qualifies(c, sev, FALSE) <=> \/ on("critical") # {}
                                       \/ SEVERITY_RANK(sev) >= 2 /\ on("warning") # {}
                                       \/ SEVERITY_RANK(sev) >= 3 /\ kept # {}
       /\ qualifies(c, sev, TRUE) <=> \/ on("critical") # {}
                                      \/ SEVERITY_RANK(sev) >= 2 /\ on("warning") # {}
                                      \/ SEVERITY_RANK(sev) >= 3 /\ (kept # {} \/ rest # {})
  BY <1>8 DEF qualifies
<1>11. /\ (\E r \in Listed(rows, p, level) : SEVERITY_RANK(r.severity) <= SEVERITY_RANK(sev))
            <=> \/ on("critical") # {}
                \/ SEVERITY_RANK(sev) >= 2 /\ on("warning") # {}
                \/ SEVERITY_RANK(sev) >= 3 /\ kept # {}
       /\ (\E r \in Listed(rows, p, "all") : SEVERITY_RANK(r.severity) <= SEVERITY_RANK(sev))
            <=> \/ on("critical") # {}
                \/ SEVERITY_RANK(sev) >= 2 /\ on("warning") # {}
                \/ SEVERITY_RANK(sev) >= 3 /\ (kept # {} \/ rest # {})
  BY <1>3, <1>4, <1>5, <1>6, <1>9
<1> QED BY <1>1, <1>3, <1>8, <1>10, <1>11 DEF c

(* The table of the pages.                                                 *)
Qualified(pages, rows, sev, level) ==
  {p \in pages : \E r \in Listed(rows, p, level) :
                     SEVERITY_RANK(r.severity) <= SEVERITY_RANK(sev)}

IsTable(table, due, all) ==
  /\ Range(table.rows) = due /\ Len(table.rows) = Cardinality(due)
  /\ table.pages_hidden = Cardinality(all \ due)

LEMMA TableOf ==
  ASSUME NEW pages, IsFiniteSet(pages), NEW rows, IsScored(rows), Banded(rows), NEW level,
         NEW sev \in {"critical", "warning", "info"}
  PROVE  IsTable(get_pages_with_issue_counts(pages, rows, sev, level),
                 Qualified(pages, rows, sev, level), Qualified(pages, rows, sev, "all"))
<1> DEFINE counts(p) == issue_counts(rows, p, level)
           shown == {p \in pages : qualifies(counts(p), sev, FALSE)}
           key == [p \in shown |-> <<counts(p).total, 0 - UrlOrder[p]>>]
           due(l) == Qualified(pages, rows, sev, l)
           table == get_pages_with_issue_counts(pages, rows, sev, level)
<1>1. \A p : /\ counts(p).total \in Nat
             /\ qualifies(counts(p), sev, FALSE)
                  <=> \E r \in Listed(rows, p, level) : SEVERITY_RANK(r.severity) <= SEVERITY_RANK(sev)
             /\ qualifies(counts(p), sev, TRUE)
                  <=> \E r \in Listed(rows, p, "all") : SEVERITY_RANK(r.severity) <= SEVERITY_RANK(sev)
  BY CountsOf
<1>2. table = [rows |-> Sorted(shown, key),
               pages_hidden |-> Cardinality({p \in pages \ shown : qualifies(counts(p), sev, TRUE)})]
  BY DEF get_pages_with_issue_counts
<1> HIDE DEF counts, table
<1>3. shown = due(level)
  BY <1>1 DEF Qualified
<1>4. {p \in pages \ shown : qualifies(counts(p), sev, TRUE)} = due("all") \ due(level)
  BY <1>1 DEF Qualified
<1>5. IsKeyOf(key, shown) /\ IsFiniteSet(shown)
  <2>1. IsFiniteSet(shown)
    BY FS_Subset
  <2> SUFFICES ASSUME NEW p \in shown
               PROVE  IsKey(key[p])
    BY <2>1 DEF IsKeyOf
  <2>2. key[p] = <<counts(p).total, 0 - UrlOrder[p]>> /\ counts(p).total \in Nat
    BY <1>1
  <2> HIDE DEF key
  <2> QED BY <2>2 DEF IsKey
<1> HIDE DEF key, shown
<1>6. Range(Sorted(shown, key)) = shown /\ Len(Sorted(shown, key)) = Cardinality(shown)
  BY <1>5, SortedList, ListsAll
<1>7. /\ Range(table.rows) = due(level) /\ Len(table.rows) = Cardinality(due(level))
      /\ table.pages_hidden = Cardinality(due("all") \ due(level))
  <2> HIDE DEF due
  <2> QED BY <1>2, <1>3, <1>4, <1>6
<1> QED BY <1>7 DEF table, IsTable

IsSummary(summary, listed) ==
  /\ summary.total_issues = listed + summary.info.excluded
  /\ summary.by_severity["info"] = summary.info.scored + summary.info.excluded
  /\ \A k \in Categories :
       summary.by_category[k] = summary.by_category_scored[k] + summary.by_category_excluded[k]

LEMMA SummaryOf ==
  ASSUME NEW rows, IsScored(rows), NEW pages, NEW status, NEW level
  PROVE  IsSummary(get_summary(pages, status, rows, {}, level),
                   paginate_filtered(rows, {}, "", "", 1, 1, level).total)
<1> DEFINE summary == get_summary(pages, status, rows, {}, level)
           listed == paginate_filtered(rows, {}, "", "", 1, 1, level).total
           info == {r \in rows : r.severity = "info"}
           out == {r \in info : info_row_excluded(r.impact, level)}
           kept == {r \in info : ~info_row_excluded(r.impact, level)}
           due == Due(rows, {}, level)
<1>0. \A T : T \subseteq rows => IsFiniteSet(T)
  BY FS_Subset DEF IsScored
<1>1. /\ summary.total_issues = Cardinality(rows)
      /\ summary.by_severity["info"] = Cardinality(info)
      /\ summary.info.excluded = Cardinality(out)
      /\ summary.info.scored = Cardinality(kept)
  BY DEF get_summary, by_severity, info_tier_counts
<1>2. listed = Cardinality(due)
  <2>1. PICK s : Lists(s, due) /\ IsPaginated(s, rows, {}, level)
    BY PaginatedList
  <2>2. listed = Len(s)
    <3> DEFINE got == paginate_filtered(rows, {}, "", "", 1, 1, level)
    <3>1. got = [issues |-> Slice(s, 1, 1), total |-> Len(s)]
      BY <2>1 DEF IsPaginated
    <3>2. listed = got.total
      OBVIOUS
    <3> HIDE DEF got, listed
    <3> QED BY <3>1, <3>2
  <2>3. IsFiniteSet(due)
    BY <1>0 DEF Due
  <2> HIDE DEF due, listed
  <2> QED BY <2>1, <2>2, <2>3, ListsAll
<1>3. due = rows \ out
  BY DEF Due, is_excluded, ruled_out, rule_sets
<1>4. kept = info \ out
  OBVIOUS
<1>5. Cardinality(rows) = Cardinality(out) + Cardinality(rows \ out)
  <2> HIDE DEF info
  <2> QED BY PartsCount DEF IsScored, info
<1>6. Cardinality(info) = Cardinality(out) + Cardinality(info \ out)
  BY <1>0, PartsCount
<1>7. Cardinality(out) \in Nat /\ Cardinality(rows \ out) \in Nat /\ Cardinality(info \ out) \in Nat
  BY <1>0, FS_CardinalityType
<1>8. ASSUME NEW k \in Categories
      PROVE  summary.by_category[k]
               = summary.by_category_scored[k] + summary.by_category_excluded[k]
  <2> DEFINE on == {r \in rows : r.category = k}
             paid == {r \in on : scored(r, level)}
  <2>1. /\ {r \in {q \in rows : scored(q, level)} : r.category = k} = paid
        /\ {r \in {q \in rows : ~scored(q, level)} : r.category = k} = on \ paid
    OBVIOUS
  <2>2. /\ by_category(rows)[k] = Cardinality(on)
        /\ by_category({r \in rows : scored(r, level)})[k] = Cardinality(paid)
        /\ by_category({r \in rows : ~scored(r, level)})[k] = Cardinality(on \ paid)
    BY <2>1 DEF by_category
  <2>3. Cardinality(on) = Cardinality(paid) + Cardinality(on \ paid)
    BY <1>0, PartsCount
  <2>4. /\ summary.by_category = by_category(rows)
        /\ summary.by_category_scored = by_category({r \in rows : scored(r, level)})
        /\ summary.by_category_excluded = by_category({r \in rows : ~scored(r, level)})
    BY DEF get_summary
  <2> HIDE DEF on, paid, summary
  <2> QED BY <2>2, <2>3, <2>4
<1> HIDE DEF summary, listed, info, out, kept, due
<1>9. /\ summary.total_issues = listed + summary.info.excluded
      /\ summary.by_severity["info"] = summary.info.scored + summary.info.excluded
  BY <1>1, <1>2, <1>3, <1>4, <1>5, <1>6, <1>7
<1>10. IsSummary(summary, listed)
  BY <1>8, <1>9 DEF IsSummary
<1> QED BY <1>10 DEF summary, listed

-----------------------------------------------------------------------------
(* How far a defect reaches.                                               *)

LEMMA FullHygiene ==
  ASSUME NEW n \in Nat \ {0}, NEW a \in Nat, RoundDiv(100 * AtLeast0(n - a), n) = 100
  PROVE  200 * a <= n
<1> DEFINE b == 100 * AtLeast0(n - a)
           q == b \div n
           r == b % n
           nq == n * q
<1>1. b \in Nat
  BY DEF AtLeast0
<1>2. RoundDiv(b, n) = IF 2 * r < n \/ (2 * r = n /\ q % 2 = 0) THEN q ELSE q + 1
  BY DEF RoundDiv
<1>3. b = IF n - a < 0 THEN 0 ELSE 100 * n - 100 * a
  BY DEF AtLeast0
<1> HIDE DEF b
<1>4. q \in Nat /\ r \in 0 .. n - 1
  BY <1>1
<1>5. b = nq + r
  BY <1>1
<1> HIDE DEF q, r
<1>6. q \in {99, 100} /\ (q = 99 => 2 * r >= n)
  BY <1>2, <1>4 DEF b
<1>7. (q = 99 => nq = 99 * n) /\ (q = 100 => nq = 100 * n)
  OBVIOUS
<1> HIDE DEF nq
<1> QED BY <1>3, <1>4, <1>5, <1>6, <1>7

LEMMA ImageIsFinite ==
  ASSUME NEW S, IsFiniteSet(S), NEW f
  PROVE  IsFiniteSet({f[x] : x \in S}) /\ Cardinality({f[x] : x \in S}) <= Cardinality(S)
<1> DEFINE T == {f[x] : x \in S}
           g == [x \in S |-> f[x]]
<1>1. g \in Surjection(S, T)
  BY DEF Surjection
<1> HIDE DEF T, g
<1>2. IsFiniteSet(T) /\ Cardinality(T) <= Cardinality(S)
  BY <1>1, FS_Surjection
<1> QED BY <1>2 DEF T

LEMMA PrevalenceOf ==
  ASSUME NEW pages, IsFiniteSet(pages), NEW rows, Catalogued(rows)
  PROVE  LET prevalences == build_prevalence(pages, rows, {}) IN
         /\ \A d \in prevalences :
              d.affected_urls = {bare[r.page] : r \in {q \in rows : q.code = d.code}}
         /\ systemic(prevalences) = {} => site_hygiene_score(prevalences) = 100
         /\ site_hygiene_score(prevalences) = 100 =>
              \A d \in systemic(prevalences) : 200 * d.pages_affected <= d.indexable_pages
<1> DEFINE n == count_indexable_pages(pages, rows)
           counted == {r \in rows : /\ r.page # ""
                                    /\ issue_scope(r.code) # "site"
                                    /\ r.code \notin job_level_codes}
           urls(c) == {bare[r.page] : r \in {q \in counted : q.code = c}}
           found == compute_prevalence(rows, n)
<1>1. build_prevalence(pages, rows, {}) = found
  <2>1. {r \in rows : r.code \notin {}} = rows
    OBVIOUS
  <2> QED BY <2>1 DEF build_prevalence
<1>2. n \in Nat
  <2> DEFINE all == {bare[p] : p \in pages}
  <2>1. IsFiniteSet(all)
    BY ImageIsFinite
  <2>2. IsFiniteSet(indexable_pages(pages, rows))
    BY <2>1, FS_Subset DEF indexable_pages
  <2> QED BY <2>2, FS_CardinalityType DEF count_indexable_pages
<1> HIDE DEF n
<1>3. \A d \in found : /\ n # 0 /\ d.code \in codes_on(counted)
                       /\ d.affected_urls = urls(d.code)
                       /\ d.pages_affected = Cardinality(d.affected_urls)
                       /\ d.indexable_pages = n
  <2> DEFINE on(c) == {r \in counted : r.code = c}
             worst(c) == CHOOSE r \in on(c) : \A q \in on(c) : q.impact <= r.impact
             entry(c) == [code |-> c, severity |-> worst(c).severity, impact |-> worst(c).impact,
                          pages_affected |-> Cardinality(urls(c)), indexable_pages |-> n,
                          tier |-> classify(c, Cardinality(urls(c)), n), affected_urls |-> urls(c)]
  <2>1. found = IF n = 0 THEN {} ELSE {entry(c) : c \in codes_on(counted)}
    BY Zenon DEF compute_prevalence
  <2> SUFFICES ASSUME NEW d \in found
               PROVE  /\ n # 0 /\ d.code \in codes_on(counted)
                      /\ d.affected_urls = urls(d.code)
                      /\ d.pages_affected = Cardinality(d.affected_urls)
                      /\ d.indexable_pages = n
    OBVIOUS
  <2> HIDE DEF found, worst, urls, counted
  <2>2. n # 0
    BY <2>1
  <2>3. PICK c \in codes_on(counted) : d = entry(c)
    BY <2>1, <2>2
  <2> QED BY <2>2, <2>3
<1>4. \A d \in found : {q \in counted : q.code = d.code} = {q \in rows : q.code = d.code}
  <2> SUFFICES ASSUME NEW d \in found, NEW q \in rows, q.code = d.code
               PROVE  q \in counted
    OBVIOUS
  <2>1. PICK r \in counted : r.code = d.code
    BY <1>3 DEF codes_on
  <2>2. issue_scope(q.code) # "site" /\ q.code \notin job_level_codes
    BY <2>1
  <2>3. q.code # "SITEMAP_MISSING"
    BY <2>2 DEF job_level_codes
  <2>4. q.page # ""
    BY <2>3 DEF Catalogued, catalogued
  <2> QED BY <2>2, <2>4
<1>5. \A d \in found : d.affected_urls = {bare[r.page] : r \in {q \in rows : q.code = d.code}}
  BY <1>3, <1>4
<1> HIDE DEF found
<1>6. systemic(found) = {} => site_hygiene_score(found) = 100
  BY DEF site_hygiene_score
<1>7. ASSUME site_hygiene_score(found) = 100, NEW d \in systemic(found)
      PROVE  200 * d.pages_affected <= d.indexable_pages
  <2> DEFINE worst == systemic(found)
             affected == UNION {p.affected_urls : p \in worst}
  <2>1. worst # {} /\ d \in found /\ worst \subseteq found
    BY DEF systemic
  <2>2. n \in Nat \ {0} /\ d.indexable_pages = n
    BY <1>2, <1>3, <2>1
  <2>3. {p.indexable_pages : p \in worst} = {n}
    BY <1>3, <2>1
  <2>4. Max({n}) = n
    BY <2>2 DEF Max
  <2>5. RoundDiv(100 * AtLeast0(n - Cardinality(affected)), n) = 100
    BY <1>7, <2>1, <2>3, <2>4 DEF site_hygiene_score
  <2>6. IsFiniteSet(affected)
    <3> DEFINE all == {bare[r.page] : r \in rows}
               f == [r \in rows |-> bare[r.page]]
    <3>1. all = {f[r] : r \in rows}
      OBVIOUS
    <3>2. IsFiniteSet({f[r] : r \in rows})
      BY ImageIsFinite DEF Catalogued
    <3>3. \A p \in worst : p.affected_urls \subseteq all
      BY <1>5, <2>1
    <3>4. affected \subseteq all
      BY <3>3
    <3> HIDE DEF all, affected, f
    <3> QED BY <3>1, <3>2, <3>4, FS_Subset
  <2>7. d.affected_urls \subseteq affected
    OBVIOUS
  <2> HIDE DEF affected
  <2>8. /\ Cardinality(affected) \in Nat /\ Cardinality(d.affected_urls) \in Nat
        /\ Cardinality(d.affected_urls) <= Cardinality(affected)
    BY <2>6, <2>7, FS_Subset, FS_CardinalityType
  <2>9. 200 * Cardinality(affected) <= n
    BY <2>2, <2>5, <2>8, FullHygiene
  <2>10. d.pages_affected = Cardinality(d.affected_urls)
    BY <1>3, <2>1
  <2> QED BY <2>2, <2>8, <2>9, <2>10
<1> QED BY <1>1, <1>5, <1>6, <1>7

-----------------------------------------------------------------------------
(* The checklist.                                                          *)

Heavy(rows) == {r \in rows : r.page # "" /\ r.impact >= FIX_FOCUS_MIN_IMPACT}
Same(rows, r) == {q \in Heavy(rows) : q.page = r.page /\ q.code = r.code}
Item(rows, r) == CHOOSE q \in Same(rows, r) : \A x \in Same(rows, r) : rank(x) <= rank(q)

LEMMA ItemsOf ==
  ASSUME NEW rows
  PROVE  checklist_items(rows) = {Item(rows, r) : r \in Heavy(rows)}
BY DEF checklist_items, Item, Same, Heavy

LEMMA RankIsNatural ==
  ASSUME NEW rows, IsScored(rows), NEW r \in Heavy(rows)
  PROVE  rank(r) \in Nat
<1>1. EffortOf(r.code) \in {0, 1, 2, 3, 4}
  BY DEF EffortOf
<1>2. r.impact \in Nat /\ r.impact >= 4
  BY DEF Heavy, FIX_FOCUS_MIN_IMPACT, IsScored
<1> QED BY <1>1, <1>2 DEF rank, priority_rank

LEMMA GreatestOf ==
  ASSUME NEW S, IsFiniteSet(S), S # {}, NEW f, \A x \in S : f[x] \in Int
  PROVE  \E x \in S : \A y \in S : f[y] <= f[x]
<1> DEFINE above(x) == {y \in S : f[y] >= f[x]}
           F == {above(x) : x \in S}
<1>1. F \subseteq SUBSET S /\ F # {}
  OBVIOUS
<1>2. PICK T \in F : \A U \in F : ~ (U \subseteq T /\ U # T)
  <2> HIDE DEF F
  <2> QED BY <1>1, LeastSubset
<1>3. PICK x \in S : T = above(x)
  OBVIOUS
<1>4. ASSUME NEW y \in S, ~ (f[y] <= f[x])
      PROVE  FALSE
  <2>1. above(y) \subseteq above(x) /\ x \in above(x) /\ x \notin above(y)
    BY <1>4
  <2>2. above(y) \in F
    OBVIOUS
  <2> QED BY <1>2, <1>3, <2>1, <2>2
<1> QED BY <1>4

LEMMA ItemIs ==
  ASSUME NEW rows, IsScored(rows), NEW r \in Heavy(rows)
  PROVE  /\ Item(rows, r) \in Heavy(rows)
         /\ Item(rows, r).page = r.page /\ Item(rows, r).code = r.code
<1> DEFINE S == Same(rows, r)
           f == [x \in S |-> rank(x)]
<1>1. r \in S /\ S \subseteq Heavy(rows)
  BY DEF Same
<1>2. IsFiniteSet(S)
  <2>1. S \subseteq rows
    BY DEF Same, Heavy
  <2> QED BY <2>1, FS_Subset DEF IsScored
<1>3. \A x \in S : f[x] = rank(x) /\ f[x] \in Int
  BY <1>1, RankIsNatural
<1> HIDE DEF S, f
<1>4. \E x \in S : \A y \in S : f[y] <= f[x]
  BY <1>1, <1>2, <1>3, GreatestOf
<1>5. \E x \in S : \A y \in S : rank(y) <= rank(x)
  BY <1>3, <1>4
<1>6. Item(rows, r) \in Same(rows, r)
  BY <1>5 DEF S, Item
<1> QED BY <1>6 DEF Same

Pairs(rows) == {<<r.page, r.code>> : r \in rows}

LEMMA ItemsArePairs ==
  ASSUME NEW rows, IsScored(rows)
  PROVE  /\ checklist_items(rows) \subseteq Heavy(rows)
         /\ \A q, r \in checklist_items(rows) : q.page = r.page /\ q.code = r.code => q = r
         /\ Pairs(checklist_items(rows)) = Pairs(Heavy(rows))
<1> DEFINE items == checklist_items(rows)
<1>1. items = {Item(rows, r) : r \in Heavy(rows)}
  BY ItemsOf
<1> HIDE DEF items
<1>2. ASSUME NEW q \in items
      PROVE  q \in Heavy(rows) /\ q = Item(rows, q)
  <2>1. PICK r \in Heavy(rows) : q = Item(rows, r)
    BY <1>1
  <2>2. q \in Heavy(rows) /\ q.page = r.page /\ q.code = r.code
    BY <2>1, ItemIs
  <2>3. Same(rows, q) = Same(rows, r)
    BY <2>2 DEF Same
  <2> QED BY <2>1, <2>2, <2>3 DEF Item
<1>3. \A q, r \in items : q.page = r.page /\ q.code = r.code => q = r
  <2> SUFFICES ASSUME NEW q \in items, NEW r \in items, q.page = r.page /\ q.code = r.code
               PROVE  q = r
    OBVIOUS
  <2>1. Same(rows, q) = Same(rows, r)
    BY DEF Same
  <2>2. Item(rows, q) = Item(rows, r)
    BY <2>1 DEF Item
  <2> QED BY <1>2, <2>2
<1>4. Pairs(items) = Pairs(Heavy(rows))
  <2>1. \A r \in Heavy(rows) : /\ Item(rows, r) \in items
                               /\ <<Item(rows, r).page, Item(rows, r).code>> = <<r.page, r.code>>
    BY <1>1, ItemIs
  <2>2. Pairs(Heavy(rows)) \subseteq Pairs(items)
    BY <2>1 DEF Pairs
  <2>3. Pairs(items) \subseteq Pairs(Heavy(rows))
    BY <1>2 DEF Pairs
  <2> QED BY <2>2, <2>3
<1> QED BY <1>2, <1>3, <1>4 DEF items

(* The items of one reader are those of the findings meant for it.         *)
ForFocus(rows, focus) ==
  {r \in rows : /\ r.page # "" /\ r.impact >= FIX_FOCUS_MIN_IMPACT
                /\ is_agent_issue(r) <=> focus = "geo"}

LEMMA ItemsOfFocus ==
  ASSUME NEW rows, Catalogued(rows), NEW focus \in {"seo", "geo"}
  PROVE  /\ {r \in checklist_items(rows) : focus_bucket(r.category, r.code) = focus}
              = checklist_items(ForFocus(rows, focus))
         /\ Heavy(ForFocus(rows, focus)) = ForFocus(rows, focus)
<1> DEFINE part == ForFocus(rows, focus)
           agent(r) == is_agent_issue(r) <=> focus = "geo"
<1>0. IsScored(rows)
  BY DEF Catalogued, catalogued, IsScored
<1>1. \A r \in rows : focus_bucket(r.category, r.code) = focus <=> agent(r)
  BY DEF focus_bucket, is_agent_issue
<1>2. \A q, r \in rows : q.code = r.code => (agent(q) <=> agent(r))
  BY DEF is_agent_issue, Catalogued, catalogued
<1>3. Heavy(part) = part /\ part = {r \in Heavy(rows) : agent(r)}
  BY DEF Heavy, ForFocus
<1> HIDE DEF agent, part
<1>4. \A r \in part : Same(part, r) = Same(rows, r)
  BY <1>2, <1>3 DEF Same, Heavy
<1>5. \A r \in part : Item(part, r) = Item(rows, r)
  BY <1>4 DEF Item
<1>6. \A r \in Heavy(rows) : /\ r \in rows /\ Item(rows, r) \in rows
                             /\ agent(Item(rows, r)) <=> agent(r)
  <2>1. \A r \in Heavy(rows) : Item(rows, r) \in Heavy(rows) /\ Item(rows, r).code = r.code
    BY <1>0, ItemIs
  <2> QED BY <1>2, <2>1 DEF Heavy
<1>7. {q \in checklist_items(rows) : agent(q)} = {Item(rows, r) : r \in part}
  BY <1>3, <1>6, ItemsOf
<1>8. checklist_items(part) = {Item(rows, r) : r \in part}
  BY <1>3, <1>5, ItemsOf
<1>9. \A q \in checklist_items(rows) : focus_bucket(q.category, q.code) = focus <=> agent(q)
  BY <1>1, <1>6, ItemsOf
<1> QED BY <1>3, <1>7, <1>8, <1>9 DEF part

LEMMA PriorityIsNatural ==
  ASSUME NEW rows, IsScored(rows), NEW items, items \subseteq Heavy(rows), NEW p
  PROVE  page_priority(items, p) \in Nat
<1> DEFINE on == {r \in items : r.page = p}
           f == [r \in on |-> rank(r)]
<1>1. page_priority(items, p) = SumFunctionOnSet(f, on)
  BY DEF page_priority, SumFunction
<1>2. IsSummable(f, on)
  <2>1. on \subseteq rows
    BY DEF Heavy
  <2>2. IsFiniteSet(on)
    BY <2>1, FS_Subset DEF IsScored
  <2>3. \A r \in on : f[r] \in Nat
    BY RankIsNatural
  <2> QED BY <2>2, <2>3 DEF IsSummable
<1> HIDE DEF on, f
<1> QED BY <1>1, <1>2, SumIsNatural

LEMMA PairsCount ==
  ASSUME NEW items, IsFiniteSet(items),
         \A q, r \in items : q.page = r.page /\ q.code = r.code => q = r
  PROVE  Cardinality(Pairs(items)) = Cardinality(items)
<1> DEFINE f == [r \in items |-> <<r.page, r.code>>]
<1>1. f \in Bijection(items, Pairs(items))
  BY DEF Bijection, Injection, IsInjective, Surjection, Pairs
<1>2. ExistsBijection(items, Pairs(items))
  BY <1>1 DEF ExistsBijection
<1> QED BY <1>2, FS_Bijection

(* The first elements of a list.                                           *)
IsFirst(first, s, S, m) ==
  /\ Len(first) = m /\ Range(first) = {s[i] : i \in 1 .. m} /\ Range(first) \subseteq S
  /\ Len(s) = m + Cardinality(S \ Range(first))
  /\ \A x \in S \ Range(first) : \E i \in m + 1 .. Len(s) : s[i] = x

LEMMA FirstOf ==
  ASSUME NEW S, IsFiniteSet(S), NEW s, Lists(s, S), NEW m \in 0 .. Len(s)
  PROVE  IsFirst(SubSeq(s, 1, m), s, S, m)
<1> DEFINE first == SubSeq(s, 1, m)
           R == {s[i] : i \in 1 .. m}
<1>1. s \in Seq(S) /\ Len(s) \in Nat /\ m \in Nat /\ m <= Len(s)
  BY DEF Lists
<1>2. \A i \in 1 .. m : s[i] \in S
  BY <1>1
<1>3. first \in Seq(S) /\ Len(first) = m /\ \A i \in 1 .. m : first[i] = s[i]
  BY <1>1
<1>4. Range(first) = R
  <2>1. DOMAIN first = 1 .. m
    BY <1>3
  <2> HIDE DEF first
  <2> QED BY <1>3, <2>1 DEF Range
<1>5. Lists(first, R)
  <2>1. first \in Seq(R)
    <3>1. \A i \in 1 .. m : first[i] \in R
      BY <1>3
    <3> HIDE DEF R
    <3> QED BY <1>3, <3>1
  <2>2. \A i, j \in 1 .. m : first[i] = first[j] => i = j
    <3> SUFFICES ASSUME NEW i \in 1 .. m, NEW j \in 1 .. m, first[i] = first[j]
                 PROVE  i = j
      OBVIOUS
    <3>1. s[i] = s[j] /\ i \in 1 .. Len(s) /\ j \in 1 .. Len(s)
      BY <1>1, <1>3
    <3> QED BY <3>1 DEF Lists
  <2>3. \A x \in R : \E i \in 1 .. m : first[i] = x
    BY <1>3
  <2> QED BY <1>3, <2>1, <2>2, <2>3 DEF Lists
<1>6. R \subseteq S /\ IsFiniteSet(R)
  <2>1. R \subseteq S
    BY <1>2
  <2> QED BY <2>1, FS_Subset
<1> HIDE DEF first
<1>7. Cardinality(R) = m
  <2> HIDE DEF R
  <2> QED BY <1>3, <1>5, <1>6, ListsAll
<1>8. Len(s) = Cardinality(S)
  BY ListsAll
<1>9. Cardinality(S) = Cardinality(R) + Cardinality(S \ R)
  <2> HIDE DEF R
  <2> QED BY <1>6, PartsCount
<1>10. ASSUME NEW x \in S \ R
       PROVE  \E i \in m + 1 .. Len(s) : s[i] = x
  <2>1. PICK i \in 1 .. Len(s) : s[i] = x
    BY DEF Lists
  <2>2. ~ (i \in 1 .. m)
    BY <2>1
  <2> QED BY <1>1, <2>1, <2>2
<1> HIDE DEF R
<1>11. /\ Len(first) = m /\ Range(first) = R /\ Range(first) \subseteq S
       /\ Len(s) = m + Cardinality(S \ Range(first))
       /\ \A x \in S \ Range(first) : \E i \in m + 1 .. Len(s) : s[i] = x
  BY <1>3, <1>4, <1>6, <1>7, <1>8, <1>9, <1>10
<1> QED BY <1>11 DEF first, R, IsFirst

LeftOut(list, part) == {r.page : r \in part} \ Range(list.pages)

IsFocusList(list, part) ==
  /\ Cardinality(list.items) + list.items_hidden = Cardinality(Pairs(part))
  /\ Pairs(list.items) = Pairs({r \in part : r.page \notin LeftOut(list, part)})
  /\ list.pages_total = Len(list.pages) + Cardinality(LeftOut(list, part))
  /\ \A p \in LeftOut(list, part), q \in Range(list.pages) :
       page_priority(checklist_items(part), p) <= page_priority(checklist_items(part), q)
  /\ \A r \in list.items : ~is_excluded(r, "none")

LEMMA FocusListOf ==
  ASSUME NEW rows, IsScored(rows), NEW part, part \subseteq rows, Heavy(part) = part,
         NEW max_pages \in Nat
  PROVE  IsFocusList(build_focus_list(checklist_items(part), max_pages), part)
<1> DEFINE items == checklist_items(part)
           found == {r.page : r \in items}
           key == [p \in found |-> checklist_key(items, p)]
           pages == Sorted(found, key)
           m == AtMost(max_pages, Len(pages))
           shown == SubSeq(pages, 1, m)
           list == build_focus_list(items, max_pages)
           left == {r.page : r \in part} \ Range(list.pages)
           here == {r \in items : r.page \in Range(shown)}
<1>1. IsScored(part)
  BY ScoredPart
<1>2. /\ items \subseteq part /\ Pairs(items) = Pairs(part)
      /\ \A q, r \in items : q.page = r.page /\ q.code = r.code => q = r
  BY <1>1, ItemsArePairs
<1>3. list = [pages |-> shown, items |-> here, pages_total |-> Len(pages),
              items_hidden |-> Cardinality({r \in items : r.page \notin Range(shown)})]
  BY Zenon DEF build_focus_list
<1> HIDE DEF items, list
<1>4. \A r \in part : \E q \in items : q.page = r.page /\ q.code = r.code
  <2> SUFFICES ASSUME NEW r \in part
               PROVE  \E q \in items : q.page = r.page /\ q.code = r.code
    OBVIOUS
  <2>1. <<r.page, r.code>> \in Pairs(items)
    BY <1>2 DEF Pairs
  <2> QED BY <2>1 DEF Pairs
<1>5. found = {r.page : r \in part}
  BY <1>2, <1>4
<1>6. IsFiniteSet(items)
  BY <1>1, <1>2, FS_Subset DEF IsScored
<1>7. IsFiniteSet(found)
  <2> DEFINE f == [r \in items |-> r.page]
  <2>1. found = {f[r] : r \in items}
    OBVIOUS
  <2>2. IsFiniteSet({f[r] : r \in items})
    <3> HIDE DEF f
    <3> QED BY <1>6, ImageIsFinite
  <2> QED BY <2>1, <2>2
<1>8. \A p : page_priority(items, p) \in Nat
  BY <1>1, <1>2, PriorityIsNatural
<1>9. \A p \in found : key[p][1] = page_priority(items, p) /\ IsKey(key[p])
  <2> SUFFICES ASSUME NEW p \in found
               PROVE  key[p][1] = page_priority(items, p) /\ IsKey(key[p])
    OBVIOUS
  <2> DEFINE on == {r \in items : r.page = p}
             n == page_priority(items, p)
             k == key[p]
  <2>1. k = <<n, Cardinality({r \in on : r.severity = "critical"}),
              Cardinality(on), 0 - UrlOrder[p]>>
    BY Zenon DEF checklist_key
  <2>2. n \in Nat
    BY <1>8
  <2> HIDE DEF k, n, on
  <2> QED BY <2>1, <2>2 DEF IsKey, k, n
<1> HIDE DEF found, key
<1>10. Lists(pages, found) /\ Falls(pages, key)
  BY <1>7, <1>9, SortedList DEF IsKeyOf
<1> HIDE DEF pages
<1>11. m \in 0 .. Len(pages) /\ Len(pages) \in Nat
  BY <1>10 DEF AtMost, Lists
<1> HIDE DEF m
<1>12. /\ Len(shown) = m /\ Range(shown) = {pages[i] : i \in 1 .. m} /\ Range(shown) \subseteq found
       /\ Len(pages) = m + Cardinality(found \ Range(shown))
       /\ \A x \in found \ Range(shown) : \E i \in m + 1 .. Len(pages) : pages[i] = x
  <2>1. IsFirst(shown, pages, found, m)
    BY <1>7, <1>10, <1>11, FirstOf
  <2> HIDE DEF shown
  <2> QED BY <2>1 DEF IsFirst
<1> HIDE DEF shown
<1>13. left = found \ Range(shown)
  BY <1>3, <1>5
<1> HIDE DEF left
<1>14. list.pages_total = Len(list.pages) + Cardinality(left)
  BY <1>3, <1>12, <1>13
<1>15. ASSUME NEW p \in left, NEW q \in Range(shown)
       PROVE  page_priority(items, p) <= page_priority(items, q)
  <2>1. PICK i \in m + 1 .. Len(pages) : pages[i] = p
    BY <1>12, <1>13
  <2>2. PICK j \in 1 .. m : pages[j] = q
    BY <1>12
  <2>3. i \in 1 .. Len(pages) /\ j \in 1 .. Len(pages) /\ j < i
    BY <1>11
  <2>4. key[q][1] >= key[p][1]
    BY <1>10, <2>1, <2>2, <2>3 DEF Falls
  <2>5. p \in found /\ q \in found
    BY <1>12, <1>13
  <2> QED BY <1>8, <1>9, <2>4, <2>5
<1>16. Cardinality(list.items) + list.items_hidden = Cardinality(Pairs(part))
  <2>1. {r \in items : r.page \notin Range(shown)} = items \ here
    OBVIOUS
  <2>2. Cardinality(items) = Cardinality(here) + Cardinality(items \ here)
    BY <1>6, PartsCount
  <2>3. Cardinality(Pairs(items)) = Cardinality(items)
    BY <1>2, <1>6, PairsCount
  <2> HIDE DEF here
  <2> QED BY <1>2, <1>3, <2>1, <2>2, <2>3
<1>17. Pairs(here) = Pairs({r \in part : r.page \notin left})
  <2>1. \A r \in part : r.page \in found
    BY <1>5
  <2>2. \A r \in part : r.page \notin left <=> r.page \in Range(shown)
    BY <1>13, <2>1
  <2>3. here \subseteq {r \in part : r.page \notin left}
    BY <1>2, <2>2
  <2>4. \A r \in part : r.page \notin left => \E q \in here : q.page = r.page /\ q.code = r.code
    BY <1>4, <2>2
  <2> HIDE DEF here
  <2> QED BY <2>3, <2>4 DEF Pairs
<1>18. \A r \in here : ~is_excluded(r, "none")
  <2>1. \A r \in here : r \in part /\ r.impact >= 4 /\ r.impact \in Nat
    BY <1>1, <1>2 DEF Heavy, FIX_FOCUS_MIN_IMPACT, IsScored
  <2> HIDE DEF here
  <2> QED BY <2>1 DEF is_excluded, info_row_excluded
<1>19. list.pages = shown /\ list.items = here
  BY <1>3
<1> HIDE DEF here
<1>20. /\ Cardinality(list.items) + list.items_hidden = Cardinality(Pairs(part))
       /\ Pairs(list.items) = Pairs({r \in part : r.page \notin left})
       /\ list.pages_total = Len(list.pages) + Cardinality(left)
       /\ \A p \in left, q \in Range(list.pages) :
            page_priority(items, p) <= page_priority(items, q)
       /\ \A r \in list.items : ~is_excluded(r, "none")
  BY <1>14, <1>15, <1>16, <1>17, <1>18, <1>19
<1> QED BY <1>20, Zenon DEF items, list, left, IsFocusList, LeftOut

-----------------------------------------------------------------------------
(* The lists, the table, the summary and the checklist of the store        *)

(* What counts for the score is on every list but the one asked for without*)
(* findings.                                                               *)
LEMMA DetailKeepsWhatCounts ==
  ASSUME NEW r, r.impact \in Nat, NEW requested, requested # "none", scored(r, "notable")
  PROVE  ~is_excluded(r, resolve_info_detail("notable", requested))
<1>1. resolve_info_detail("notable", requested) \in {"notable", "all"}
  <2>1. requested # "key" => resolve_info_detail("notable", requested) \in {"notable", "all"}
    BY DEF resolve_info_detail, INFO_DETAIL_MIN_IMPACT
  <2>2. requested = "key" => ~ info_detail_rank(requested) < info_detail_rank("notable")
    <3>1. info_detail_rank("key") = 3 /\ info_detail_rank("notable") = 2
      <4>1. /\ INFO_DETAIL_LEVELS[1] = "all" /\ INFO_DETAIL_LEVELS[2] = "notable"
            /\ INFO_DETAIL_LEVELS[3] = "key" /\ INFO_DETAIL_LEVELS[4] = "none"
        BY DEF INFO_DETAIL_LEVELS
      <4>2. 1 .. 4 = {1, 2, 3, 4}
        OBVIOUS
      <4> QED BY <4>1, <4>2 DEF info_detail_rank
    <3> QED BY <3>1
  <2> QED BY <2>1, <2>2 DEF resolve_info_detail
<1>2. ~is_excluded(r, "all")
  BY DEF is_excluded, info_row_excluded, INFO_DETAIL_MIN_IMPACT
<1> QED BY <1>1, <1>2 DEF scored

(* The pages of the list show what is due, each finding once.              *)
LEMMA ListIsPartitioned ==
  ASSUME Catalogued(issues), NEW rules, NEW level, NEW limit \in Nat \ {0}
  PROVE  PagesPartitionTheList(rules, level, limit)
<1> DEFINE listed(n) == paginate_filtered(issues, rules, "", "", n, limit, level)
           last == Cardinality(issues) \div limit + 1
           pages == [n \in 1 .. last |-> listed(n).issues]
           due == Due(issues, rules, level)
<1>1. IsScored(issues) /\ IsFiniteSet(issues) /\ Cardinality(issues) \in Nat
  BY FS_CardinalityType DEF Catalogued, catalogued, IsScored
<1>2. PICK s : Lists(s, due) /\ IsPaginated(s, issues, rules, level)
  BY <1>1, PaginatedList
<1>3. \A n : listed(n).issues = Slice(s, n, limit) /\ listed(n).total = Len(s)
  <2> SUFFICES ASSUME NEW n
               PROVE  listed(n).issues = Slice(s, n, limit) /\ listed(n).total = Len(s)
    OBVIOUS
  <2> DEFINE got == listed(n)
             cut == Slice(s, n, limit)
  <2>1. got = [issues |-> cut, total |-> Len(s)]
    BY <1>2 DEF IsPaginated
  <2>2. got.issues = cut /\ got.total = Len(s)
    <3> HIDE DEF got, cut
    <3> QED BY <2>1
  <2> QED BY <2>2
<1>4. pages = [n \in 1 .. last |-> Slice(s, n, limit)]
  <2> HIDE DEF listed, last
  <2> QED BY <1>3
<1>5. IsFiniteSet(due) /\ Cardinality(due) <= Cardinality(issues) /\ Cardinality(due) \in Nat
  BY <1>1, FS_Subset, FS_CardinalityType DEF Due
<1>6. Len(s) = Cardinality(due)
  <2> HIDE DEF due
  <2> QED BY <1>2, <1>5, ListsAll
<1>7. last \in Nat /\ Len(s) <= last * limit
  <2>1. last \in Nat /\ Cardinality(issues) <= last * limit
    BY <1>1, PagesSuffice
  <2> HIDE DEF last, due
  <2>2. last * limit \in Nat
    BY <2>1
  <2> QED BY <1>1, <1>5, <1>6, <2>1, <2>2
<1>8. IsPartition(pages, limit, due)
  <2> HIDE DEF due, last, pages
  <2> QED BY <1>2, <1>4, <1>5, <1>7, SlicesPartition
<1>9. listed(1).total = Cardinality(due)
  BY <1>3, <1>6
<1> HIDE DEF listed, last
<1> QED BY <1>8, <1>9, Zenon DEF PagesPartitionTheList, Due, listed, last, IsPartition, PlacesOf

(* The table has a row for each page whose list has such a finding.        *)
LEMMA TableIsTheList ==
  ASSUME Catalogued(issues), IsFiniteSet(DOMAIN statuses), NEW level,
         NEW sev \in Range(SEVERITIES)
  PROVE  TableMatchesTheList(level, sev)
<1> DEFINE pages == DOMAIN statuses
           on(p, l) == {r \in get_page_issues_by_url(pages, issues, p) : ~is_excluded(r, l)}
           due(l) == {p \in pages : \E r \in on(p, l) : SEVERITY_RANK(r.severity) <= SEVERITY_RANK(sev)}
           table == get_pages_with_issue_counts(pages, issues, sev, level)
<1>1. IsScored(issues) /\ Banded(issues)
  BY CataloguedIsBanded DEF Catalogued, catalogued, IsScored
<1>2. sev \in {"critical", "warning", "info"}
  BY DEF SEVERITIES, Range
<1>3. \A p \in pages : \A l : on(p, l) = Listed(issues, p, l)
  BY DEF get_page_issues_by_url, Listed
<1>4. \A l : due(l) = Qualified(pages, issues, sev, l)
  <2> HIDE DEF pages, on
  <2> QED BY <1>3 DEF Qualified
<1>5. IsTable(table, due(level), due("all"))
  <2>1. IsTable(table, Qualified(pages, issues, sev, level), Qualified(pages, issues, sev, "all"))
    BY <1>1, <1>2, TableOf
  <2> HIDE DEF pages, due, table
  <2> QED BY <1>4, <2>1
<1>6. \A p \in due(level) : issue_counts(issues, p, level).total = Cardinality(on(p, level))
  <2> SUFFICES ASSUME NEW p \in due(level)
               PROVE  issue_counts(issues, p, level).total = Cardinality(on(p, level))
    OBVIOUS
  <2>1. issue_counts(issues, p, level).total = Cardinality(Listed(issues, p, level))
    BY <1>1, <1>2, CountsOf
  <2>2. on(p, level) = Listed(issues, p, level)
    BY <1>3
  <2> QED BY <2>1, <2>2
<1> QED BY <1>5, <1>6, Zenon DEF TableMatchesTheList, IsTable

(* The summary adds up to the list and what it leaves out.                 *)
LEMMA SummaryIsTheList ==
  ASSUME Catalogued(issues), NEW level
  PROVE  SummaryMatchesTheList(level)
<1>1. IsScored(issues)
  BY DEF Catalogued, catalogued, IsScored
<1>2. IsSummary(get_summary(DOMAIN statuses, statuses, issues, {}, level),
                paginate_filtered(issues, {}, "", "", 1, 1, level).total)
  BY <1>1, SummaryOf, Zenon
<1> QED BY <1>2, Zenon DEF SummaryMatchesTheList, IsSummary

(* The reach of a defect is told of the findings listed.                   *)
LEMMA PrevalenceIsTheList ==
  ASSUME Catalogued(issues), IsFiniteSet(DOMAIN statuses)
  PROVE  PrevalenceMatchesTheList
BY PrevalenceOf, Zenon DEF PrevalenceMatchesTheList

(* The checklist has the heavy findings of the pages, shown or told hidden.*)
LEMMA ChecklistIsTheList ==
  ASSUME Catalogued(issues), NEW max_pages \in Nat
  PROVE  ChecklistMatchesTheList(max_pages)
<1> DEFINE snapshot == build_snapshot(issues, max_pages)
           part(focus) == ForFocus(issues, focus)
<1>1. IsScored(issues)
  BY DEF Catalogued, catalogued, IsScored
<1>2. ASSUME NEW focus \in {"seo", "geo"}
      PROVE  IsFocusList(snapshot[focus], part(focus))
  <2> DEFINE P == part(focus)
  <2>1. /\ {r \in checklist_items(issues) : focus_bucket(r.category, r.code) = focus}
             = checklist_items(P)
        /\ Heavy(P) = P
    BY <1>2, ItemsOfFocus
  <2>2. snapshot[focus] = build_focus_list(checklist_items(P), max_pages)
    BY <1>2, <2>1 DEF build_snapshot
  <2>3. P \subseteq issues
    BY DEF ForFocus
  <2> HIDE DEF P, snapshot
  <2> QED BY <1>1, <2>1, <2>2, <2>3, FocusListOf DEF P
<1> QED BY <1>2, Zenon DEF ChecklistMatchesTheList, IsFocusList, LeftOut, Pairs, ForFocus

(* All views agree on whatever findings of the catalogue are stored.       *)
LEMMA ScorableViewsAgree == Scorable => ViewsAgree
<1> SUFFICES ASSUME Scorable
             PROVE  ViewsAgree
  OBVIOUS
<1>1. Catalogued(issues) /\ IsFiniteSet(DOMAIN statuses)
  BY DEF Scorable
<1>2. PrevalenceMatchesTheList
  BY <1>1, PrevalenceIsTheList
<1>3. ChecklistMatchesTheList(3)
  BY <1>1, ChecklistIsTheList
<1>4. \A requested \in {"", "all", "key"}, r \in issues :
        scored(r, "notable") => ~is_excluded(r, resolve_info_detail("notable", requested))
  <2>1. \A r \in issues : r.impact \in Nat
    BY <1>1 DEF Catalogued, catalogued
  <2>2. \A requested \in {"", "all", "key"} : requested # "none"
    BY Zenon
  <2> QED BY <2>1, <2>2, DetailKeepsWhatCounts, Zenon
<1>5. \A rules, level : PagesPartitionTheList(rules, level, 7)
  BY <1>1, ListIsPartitioned
<1>6. \A level : \A sev \in Range(SEVERITIES) : TableMatchesTheList(level, sev)
  BY <1>1, TableIsTheList
<1>7. \A level : SummaryMatchesTheList(level)
  BY <1>1, SummaryIsTheList
<1> QED BY <1>2, <1>3, <1>4, <1>5, <1>6, <1>7 DEF ViewsAgree

(* Whatever was checked again, and whatever rules and level of detail they *)
(* are asked with, the list, the table of pages, the summary, the reach of *)
(* defects and the checklist of a crawl agree (ViewsAgree).                *)
THEOREM TheViewsAgree == Spec => []ViewsAgree
BY ScansInit, ScansNext, ScorableInit, ScorableNext, ScorableViewsAgree, PTL DEF Spec

=============================================================================
