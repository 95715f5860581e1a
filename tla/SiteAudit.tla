------------------------------ MODULE SiteAudit ------------------------------
(***************************************************************************)
(* The stored findings of one crawl while its pages are checked again one  *)
(* at a time (api/routers/crawl.py, rescan_url and what it calls;          *)
(* api/services/sqlite_store.py), and the ledger of what was fixed.        *)
(*                                                                         *)
(* A re-check awaits the store and the network between its steps, and      *)
(* re-checks of several pages interleave; a page has one at a time.  The   *)
(* site may be any of the Worlds whenever a re-check fetches a page, and   *)
(* its server in any of the Conditions.                                    *)
(***************************************************************************)
EXTENDS SiteCrawl

CONSTANTS
    Worlds, Start,    \* what the site's pages may say, and what they said at the crawl
    WebOf,            \* the web of each world
    site, cfg,        \* what there is besides pages; what the operator chose
    Conditions,       \* of the server of a page that is fetched again
    Behind(_, _),     \* the answers of the server in a condition
    Rechecked,        \* the pages that are checked again
    Claims,           \* codes an operator says were fixed
    MaxScans          \* how many re-checks go on at a time

ASSUME ScansAllowed == MaxScans \in Nat \ {0}
ASSUME StartIsAWorld == Start \in Worlds

VARIABLES
    issues,     \* the stored findings
    statuses,   \* the status stored with each page
    links,      \* the broken links stored with the pages that have them
    scan,       \* the re-check of each page
    ledger,     \* what the last step recorded as fixed
    reported,   \* what a crawl reports of each page, as the last re-check read it
    gone,       \* the pages a re-check found to be gone
    sitewide    \* the findings of the crawl that a re-check cannot make

vars == <<issues, statuses, links, scan, ledger, reported, gone, sitewide>>

-----------------------------------------------------------------------------
\* The check of one page.  A page that is not answered is an error; of one
\* that cannot be read only the status is known.

status_of(u, web) == fetch_page(UrlOf[u], web[u], FALSE).status_code

external_checked(u, p, web) ==
    LET external == SelectSeq(p.links, LAMBDA l : ~l.internal)
        checked == SubSeq(external, 1, AtMost(Len(external), EXTERNAL_LINK_CAP_PER_PAGE))
        on(l, code) == [make_issue(code, u) EXCEPT !.target = l.url.id]
        rows_of(l) ==
            IF is_bot_blocking_domain(l.url)
            THEN {[make_issue(c, l.url.id) EXCEPT !.source = u] :
                    c \in When(l.url.id \notin cfg.verified, "EXTERNAL_LINK_SKIPPED")}
            ELSE LET r == check_external_link(l.url, web[l.url.id]) IN
                 IF r.error # "" THEN {on(l, "EXTERNAL_LINK_TIMEOUT")}
                 ELSE {on(l, c) : c \in issue_for_status(r.status_code)}
    IN UNION {rows_of(checked[k]) : k \in DOMAIN checked}

\* The defaults of the checks stand in for what only a crawl knows.
RecheckOptions ==
    [CheckDefaults EXCEPT !.suppress_h1_strings = cfg.h1s, !.suppress_banner_h1 = TRUE,
                          !.exempt_anchor_urls = cfg.exempt,
                          !.ignored_image_patterns = cfg.ignored]

(* Mutant of page_codes: the spelling of the URL is not checked. *)
page_codes_without_url(p, r) == check_page(p, RecheckOptions) \cup check_asset(r, cfg.img_limit)

page_codes(p, r) ==
    check_page(p, RecheckOptions) \cup check_url_structure(p.url)
    \cup check_asset(r, cfg.img_limit)

check_parsed(u, p, r, web) ==
    LET found == PageRows(page_codes(p, r), u) \cup external_checked(u, p, web)
    IN {[x EXCEPT !.page = u] : x \in collapse_per_target_occurrences(found)}

fetch_and_check_page(u, web) ==
    LET r == fetch_page(UrlOf[u], web[u], FALSE)
    IN IF r.status_code >= 400 THEN PageRows(issue_for_status(r.status_code), u)
       ELSE check_parsed(u, parse_page(r, cfg.start, bare[u] = bare[cfg.start.id]), r, web)

answered(status) == status # 0
rescan_is_conclusive(status) == status \in 1 .. 399 \cup {404, 410}

-----------------------------------------------------------------------------
\* A crawl of each world, and what a re-check may read of each page: its status,
\* the findings of the check, and what a crawl would report of it.

CrawlOf == [w \in Worlds |-> run_crawl(WebOf[w], site, cfg)]

reported_of(c, u) == codes_on({r \in c.rows : r.page = u})

Reading(w, c, u) ==
    LET web == [WebOf[w] EXCEPT ![u] = Behind(c, @)]
        status == status_of(u, web)
    IN [status |-> status,
        found |-> IF status = 0 THEN {} ELSE fetch_and_check_page(u, web),
        read |-> reported_of(CrawlOf[w], u)]

Readings == [u \in Rechecked |-> {Reading(w, c, u) : w \in Worlds, c \in Conditions}]

\* A crawl and a re-check end, and what they find is of the catalogue: the
\* weight is that of the scoring table, but for the findings that stand for
\* several links or weigh nothing; only a sitemap is missed on no page.
catalogued(r) ==
    /\ r.impact \in Nat
    /\ r.code \notin PER_TARGET_CODES \cup {"SITEMAP_MISSING"} => r.impact = ImpactOf(r.code)
    /\ r.severity = severity_from_impact(ImpactOf(r.code)) /\ r.category = category[r.code]
    /\ r.page = "" => r.code = "SITEMAP_MISSING"

Catalogued(rows) == IsFiniteSet(rows) /\ \A r \in rows : catalogued(r)

ASSUME FindingsAreCatalogued ==
    /\ IsFiniteSet(DOMAIN CrawlOf[Start].pages) /\ Catalogued(CrawlOf[Start].rows)
    /\ \A u \in Rechecked : \A seen \in Readings[u] : Catalogued(seen.found)

-----------------------------------------------------------------------------
\* The store.

\* The broken links of a page, wherever they are stored: by the source kept
\* with a finding, and by the links of the crawl.  A finding is of the category
\* of its code.
broken_link_issues_for_source(u) ==
    {r \in issues : category[r.code] = "broken_link"
                      /\ (r.source = u \/ [source |-> u, target |-> r.page] \in links)}

page_issues(u) == {r \in issues : r.page = u}

Idle == [phase |-> "idle", old |-> {}, status |-> 0, found |-> {}, broken |-> {}, read |-> {}]

Underway == {u \in Rechecked : scan[u].phase # "idle"}

\* What a crawl stores of its pages, findings and links.
StatusOf(pages) ==
    LET at(u) == CHOOSE k \in DOMAIN pages : pages[k].url.id = u
    IN [u \in {pages[k].url.id : k \in DOMAIN pages} |-> pages[at(u)].status_code]

StoredCrawl(c) ==
    /\ issues = c.rows
    /\ statuses = StatusOf(c.pages)
    /\ links = c.refs
    /\ reported = [u \in Rechecked |-> reported_of(c, u)]
    /\ sitewide = {r \in c.rows : r.page \in Rechecked
                                     /\ r.code \in checks_a_single_page_scan_cannot_run}

Init ==
    /\ StoredCrawl(CrawlOf[Start])
    /\ scan = [u \in Rechecked |-> Idle]
    /\ ledger = {}
    /\ gone = {}

\* The page is looked up with its findings, under the spellings it may be
\* stored under: the one it was asked for by is the one stored.
Lookup(u) ==
    /\ scan[u].phase = "idle"
    /\ Cardinality(Underway) < MaxScans
    /\ u \in DOMAIN statuses
    /\ scan' = [scan EXCEPT ![u].phase = "looked",
                            ![u].old = page_issues(u),
                            ![u].broken = codes_on(broken_link_issues_for_source(u))]
    /\ ledger' = {}
    /\ UNCHANGED <<issues, statuses, links, reported, gone, sitewide>>

\* A read that says nothing of the page ends the re-check.
Fetch(u) ==
    /\ scan[u].phase = "looked"
    /\ \E seen \in Readings[u] :
          scan' = [scan EXCEPT ![u] =
                     IF rescan_is_conclusive(seen.status)
                     THEN [@ EXCEPT !.phase = "fetched", !.status = seen.status,
                                    !.found = seen.found, !.read = seen.read]
                     ELSE Idle]
    /\ ledger' = {}
    /\ UNCHANGED <<issues, statuses, links, reported, gone, sitewide>>

\* The page is saved, then its findings and its broken links are deleted.
Replace(u) ==
    /\ scan[u].phase = "fetched"
    /\ statuses' = [statuses EXCEPT ![u] = scan[u].status]
    /\ issues' = issues \ (page_issues(u) \cup broken_link_issues_for_source(u))
    /\ scan' = [scan EXCEPT ![u].phase = "replaced"]
    /\ ledger' = {}
    /\ UNCHANGED <<links, reported, gone, sitewide>>

page_is_gone(status) == status \in {404, 410}

(* Mutant of carried_over: nothing survives the deletion. *)
carried_over_nothing(s) == {}
carried_over(s) ==
    IF page_is_gone(s.status) THEN {}
    ELSE {r \in s.old : r.code \in checks_a_single_page_scan_cannot_run}

resolved_codes(s) ==
    LET missing == (codes_on(s.old) \cup s.broken) \ codes_on(s.found) IN
    IF page_is_gone(s.status) THEN missing
    ELSE missing \ checks_a_single_page_scan_cannot_run

\* What was found is saved with what could not be checked, and what is not
\* found any more is recorded.
Save(u) ==
    /\ scan[u].phase = "replaced"
    /\ issues' = issues \cup scan[u].found \cup carried_over(scan[u])
    /\ ledger' = {[page |-> u, code |-> k, by |-> "re-check", still |-> k \in scan[u].read] :
                    k \in resolved_codes(scan[u])}
    /\ reported' = [reported EXCEPT ![u] = scan[u].read]
    /\ gone' = IF page_is_gone(scan[u].status) THEN gone \cup {u} ELSE gone
    /\ scan' = [scan EXCEPT ![u] = Idle]
    /\ UNCHANGED <<statuses, links, sitewide>>

\* An operator's word is recorded as it is given.
MarkFixed(u, codes) ==
    /\ ledger' = {[page |-> u, code |-> k, by |-> "operator", still |-> TRUE] : k \in codes}
    /\ UNCHANGED <<issues, statuses, links, scan, reported, gone, sitewide>>

Next ==
    \/ \E u \in Rechecked :
          \/ Lookup(u)
          \/ Fetch(u)
          \/ Replace(u)
          \/ Save(u)
    \/ \E u \in DOMAIN statuses, codes \in Claims : MarkFixed(u, codes)

Spec == Init /\ [][Next]_vars

-----------------------------------------------------------------------------
\* What a re-check looks at and a crawl does as well, in the same way: not the
\* broken links, which are reported on one page of all that have them, nor
\* redirects, images, ages of the server's own date, and what takes a renderer.
NotRechecked ==
    RedirectSection \cup InternalRedirectSection \cup ImageSection \cup AssetSection
    \cup {"AMPHTML_BROKEN", "CONTENT_STALE", "CANONICAL_MISSING", "PAGE_SIZE_LARGE",
          "CITATIONS_SOURCES_INACCESSIBLE", "JS_RENDERED_CONTENT_DIFFERS",
          "CONTENT_CLOAKING_DETECTED", "UA_CONTENT_DIFFERS", "IMG_ALT_MISSING", "MISSING_HSTS",
          "FAVICON_MISSING"}

looked_at(c) == category[c] # "broken_link" /\ c \notin NotRechecked
of_the_page(codes) ==
    {c \in codes : looked_at(c) /\ c \notin checks_a_single_page_scan_cannot_run}

Quiet == Underway = {} /\ ledger = {}

\* Types: every finding is one the catalogue knows, on a URL the crawl met.
TypeOK ==
    /\ \A r \in issues : r.code \in Codes /\ r.impact \in 0 .. 20
    /\ Rechecked \subseteq DOMAIN statuses /\ Range(statuses) \subseteq 0 .. 999
    /\ \A u \in Rechecked : scan[u].phase \in {"idle", "looked", "fetched", "replaced"}
    /\ gone \subseteq Rechecked

\* What a re-check records as fixed, a crawl of what it read does not report on
\* the page any more, unless the page is gone altogether: a refusal or a failure
\* of the server is no fix, and a check only a crawl makes has not been passed.
FixedMeansFixed ==
    \A f \in ledger :
        f.by = "re-check" /\ looked_at(f.code) => ~f.still \/ page_is_gone(statuses[f.page])

\* Whatever the order of the re-checks, the stored findings of a page are those
\* a crawl reports of what the page was when it was last read; of one that is
\* gone a crawl still reports its address.
StoredMatchesSite ==
    \A u \in Rechecked :
        scan[u].phase # "replaced" /\ ~page_is_gone(statuses[u]) =>
            of_the_page(codes_on(page_issues(u))) = of_the_page(reported[u])

\* What only a crawl can find stays with the page as long as the page is there,
\* however often it is checked again.
SiteFindingsSurvive ==
    \A r \in sitewide :
        r \in issues \/ r.page \in gone \/ scan[r.page].phase = "replaced"

\* To hide a code never lowers the score of the site, unless the code stands
\* for others or hides the page from search; nor does a level that leaves out
\* the lightest findings lower the score of a page.
HidingNeverCosts ==
    Quiet =>
        LET health(hidden) == compute_impact_health(DOMAIN statuses, issues, hidden, "all")
            on(p) == get_page_issues_by_url(DOMAIN statuses, issues, p)
        IN /\ \A c \in codes_on(issues) \ (DOMAIN CLUSTER_SUPPRESSION \cup NOINDEX_CODES) :
                health({}) <= health({c})
           /\ \A p \in DOMAIN statuses :
                /\ compute_page_health(on(p), "all") <= compute_page_health(on(p), "notable")
                /\ compute_citability_grade(on(p), "all") <= compute_citability_grade(on(p), "notable")

\* The pages of a list show the findings that no rule hides and no others, none
\* of them twice, and their total is what they show.
PagesPartitionTheList(rules, level, limit) ==
    LET listed(n) == paginate_filtered(issues, rules, "", "", n, limit, level)
        pages == [n \in 1 .. Cardinality(issues) \div limit + 1 |-> listed(n).issues]
        places == {p \in (DOMAIN pages) \X (1 .. limit) : p[2] \in DOMAIN pages[p[1]]}
        shown(p) == pages[p[1]][p[2]]
        due == {r \in issues : ~ruled_out(r, rules) /\ ~is_excluded(r, level)}
    IN /\ \A n \in DOMAIN pages : Len(pages[n]) <= limit
       /\ {shown(p) : p \in places} = due /\ Cardinality(places) = Cardinality(due)
       /\ listed(1).total = Cardinality(due)

\* The table of pages shows those that have a listed finding of the severity
\* asked for, and says how many more a higher level of detail would show.
TableMatchesTheList(level, severity) ==
    LET on(p, l) == {r \in get_page_issues_by_url(DOMAIN statuses, issues, p) : ~is_excluded(r, l)}
        due(l) == {p \in DOMAIN statuses :
                     \E r \in on(p, l) : SEVERITY_RANK(r.severity) <= SEVERITY_RANK(severity)}
        table == get_pages_with_issue_counts(DOMAIN statuses, issues, severity, level)
    IN /\ Range(table.rows) = due(level) /\ Len(table.rows) = Cardinality(due(level))
       /\ table.pages_hidden = Cardinality(due("all") \ due(level))
       /\ \A p \in due(level) : issue_counts(issues, p, level).total = Cardinality(on(p, level))

\* The summary counts what the list shows, and what it leaves out.
SummaryMatchesTheList(level) ==
    LET summary == get_summary(DOMAIN statuses, statuses, issues, {}, level)
        listed == paginate_filtered(issues, {}, "", "", 1, 1, level).total
    IN /\ summary.total_issues = listed + summary.info.excluded
       /\ summary.by_severity["info"] = summary.info.scored + summary.info.excluded
       /\ \A k \in Categories :
            summary.by_category[k] = summary.by_category_scored[k] + summary.by_category_excluded[k]

\* How far a defect reaches is told of listed findings of pages, and the
\* hygiene of the site is full if no systemic one is among them and only if
\* none reaches more than one page in two hundred.
PrevalenceMatchesTheList ==
    LET prevalences == build_prevalence(DOMAIN statuses, issues, {}) IN
    /\ \A d \in prevalences :
         d.affected_urls = {bare[r.page] : r \in {q \in issues : q.code = d.code}}
    /\ systemic(prevalences) = {} => site_hygiene_score(prevalences) = 100
    /\ site_hygiene_score(prevalences) = 100 =>
         \A d \in systemic(prevalences) : 200 * d.pages_affected <= d.indexable_pages

\* Every heavy finding of a page is an item of the checklist, counted once,
\* shown or told to be hidden; no hidden page has a greater priority than a
\* shown one, and no level of detail hides an item from the list.
ChecklistMatchesTheList(max_pages) ==
    LET snapshot == build_snapshot(issues, max_pages)
        heavy(focus) == {r \in issues : /\ r.page # "" /\ r.impact >= FIX_FOCUS_MIN_IMPACT
                                        /\ is_agent_issue(r) <=> focus = "geo"}
        pairs(rows) == {<<r.page, r.code>> : r \in rows}
    IN \A focus \in {"seo", "geo"} :
        LET list == snapshot[focus]
            left == {r.page : r \in heavy(focus)} \ Range(list.pages)
        IN /\ Cardinality(list.items) + list.items_hidden = Cardinality(pairs(heavy(focus)))
           /\ pairs(list.items) = pairs({r \in heavy(focus) : r.page \notin left})
           /\ list.pages_total = Len(list.pages) + Cardinality(left)
           /\ \A p \in left, q \in Range(list.pages) :
                page_priority(checklist_items(heavy(focus)), p)
                  <= page_priority(checklist_items(heavy(focus)), q)
           /\ \A r \in list.items : ~is_excluded(r, "none")

\* The list, the table of the pages, the summary and the checklist of a crawl
\* agree, whatever rules and level of detail they are asked with and whatever
\* was re-checked; what the score counts is on every list a reader may ask for.
ViewsAgree ==
    Quiet =>
        /\ PrevalenceMatchesTheList
        /\ ChecklistMatchesTheList(3)
        /\ \A requested \in {"", "all", "key"}, r \in issues :
             scored(r, "notable") => ~is_excluded(r, resolve_info_detail("notable", requested))
        /\ \A level \in {"all", "notable"} :
            /\ \A rules \in {{}, {[code |-> "THIN_CONTENT", severity |-> ""],
                                  [code |-> "", severity |-> "critical"]}} :
                  PagesPartitionTheList(rules, level, 7)
            /\ \A severity \in Range(SEVERITIES) : TableMatchesTheList(level, severity)
            /\ SummaryMatchesTheList(level)

\* "Nothing enters the ledger without a check behind it": what a re-check
\* records as fixed is not what a crawl of the same page reports.
ResolvedWasChecked == \A f \in ledger : f.by = "re-check" => ~f.still

=============================================================================
