------------------------------ MODULE SiteCrawl ------------------------------
(***************************************************************************)
(* One crawl of a site (api/crawler/engine.py, run_crawl), from its start  *)
(* URL to the rows it stores: the page loop and what it reports of each    *)
(* answer, the links to other sites, the images, the AMP versions, the     *)
(* checks across pages, and what is done to the findings at the end.       *)
(*                                                                         *)
(* A web gives each address the answers its fetches would get.  A site has *)
(* what is there besides pages: robots, files (its sitemaps), http, alt,   *)
(* llms_txt and ai_txt (places with url and answers), days, images (the    *)
(* answer of each image) and js (the rendered pages).  A cfg has what the  *)
(* operator chose: start, max_pages, single_page, scope, respect_robots,   *)
(* skip_archives, priority, groups, img_limit, page_limit, h1s, banner,    *)
(* verified, exempt and ignored.                                           *)
(*                                                                         *)
(* How the queue is bounded and what the crawl discloses of its coverage   *)
(* is CrawlFrontier; in what order external links are answered is          *)
(* ExternalLinks.                                                          *)
(***************************************************************************)
EXTENDS CrossPageChecks, ImageChecks, SiteFiles, Listing

CONSTANTS UrlOf,     \* the URL of each address
          lowered    \* each address with its path in lower case

PageRows(codes, page) == {make_issue(c, page) : c \in codes}

-----------------------------------------------------------------------------
\* What the status of an answer and its redirects are reported as.

issue_for_status(status) ==
    CASE status = 404 -> {"BROKEN_LINK_404"}
      [] status = 410 -> {"BROKEN_LINK_410"}
      [] status = 503 -> {"BROKEN_LINK_503"}
      [] status \in 500 .. 599 \ {503} -> {"BROKEN_LINK_5XX"}
      [] OTHER -> {}

is_trailing_slash_only(u, v) == bare[u.id] = bare[v.id]
is_case_normalise_only(u, v) == u.id # v.id /\ lowered[u.id] = lowered[v.id]

\* The hops that are neither the end nor the start with or without its slash.
real_intermediates(u, r) ==
    SelectSeq(r.chain, LAMBDA h : h.id # r.final.id /\ ~is_trailing_slash_only(h, u))

issues_for_redirect(u, r, base) ==
    LET direct == r.first_status = 301 /\ real_intermediates(u, r) = <<>>
    IN IF direct /\ is_trailing_slash_only(u, r.final) THEN {"REDIRECT_TRAILING_SLASH"}
       ELSE IF direct /\ is_case_normalise_only(u, r.final) THEN {"REDIRECT_CASE_NORMALISE"}
       ELSE When(r.first_status = 301,
                 IF is_same_domain(u, base) THEN "INTERNAL_REDIRECT_301" ELSE "REDIRECT_301")
            \cup When(r.first_status = 302, "REDIRECT_302")
            \cup When(real_intermediates(u, r) # <<>>, "REDIRECT_CHAIN")

PDF_SIZE_LIMIT == 10 * 1024 * 1024

check_asset(r, img_limit) ==
    When(r.content_type = "pdf" /\ r.length > PDF_SIZE_LIMIT, "PDF_TOO_LARGE")
    \cup When(r.content_type = "image" /\ r.length > img_limit * 1024, "IMG_OVERSIZED")

DEFAULT_PAGE_SIZE_LIMIT_KB == 300

CheckDefaults ==
    [suppress_h1_strings |-> {}, suppress_banner_h1 |-> FALSE, has_sitemap |-> FALSE,
     sitemap_urls |-> {}, favicon_emitted |-> FALSE, hsts_checked_hosts |-> {},
     page_size_limit_kb |-> DEFAULT_PAGE_SIZE_LIMIT_KB, exempt_anchor_urls |-> {},
     ignored_image_patterns |-> {}]

-----------------------------------------------------------------------------
\* The page loop.  from: where a URL was first seen, "(sitemap)" and
\* "(gsc-priority)" among it; sources: all the pages that link to it.

Seed(cfg, sitemap) ==
    LET usable(u) == /\ ~cfg.single_page /\ u # cfg.start
                     /\ is_same_domain(u, cfg.start)
                     /\ cfg.scope = {} \/ u.id \in cfg.scope
        known == {cfg.priority[k].id : k \in DOMAIN cfg.priority}
        priority == SelectSeq(cfg.priority, usable)
        listed == SelectSeq([k \in DOMAIN sitemap |-> UrlOf[sitemap[k]]], usable)
        seeds == priority \o listed
    IN [queue |-> <<[url |-> cfg.start.norm, depth |-> 0]>>
                  \o [k \in DOMAIN seeds |-> [url |-> seeds[k].norm, depth |-> Unknown]],
        depth |-> [x \in {seeds[k].norm : k \in DOMAIN seeds} |-> Unknown] @@ (cfg.start.norm :> 0),
        from |-> [x \in {seeds[k].norm : k \in DOMAIN seeds} |->
                    IF x \in known THEN "(gsc-priority)" ELSE "(sitemap)"],
        sources |-> <<>>, visited |-> {}, variants |-> {}, pages |-> <<>>, rows |-> {},
        refs |-> {}, external |-> <<>>, linkers |-> <<>>, images |-> <<>>, truncated |-> FALSE]

Of(f, x, default) == IF x \in DOMAIN f THEN f[x] ELSE default
AddedTo(s, x) == IF \E k \in DOMAIN s : s[k] = x THEN s ELSE Append(s, x)

\* The pages a URL is known from; that a priority is none is not noticed.
all_sources(s, x) ==
    LET first == Of(s.from, x, "(sitemap)")
        linked == Of(s.sources, x, <<>>)
    IN IF first = "(sitemap)" \/ (\E k \in DOMAIN linked : linked[k] = first) THEN linked
       ELSE <<first>> \o linked

\* A file that cannot be read is reported on the first page that leads to it,
\* a page on itself; the page's sources are kept as links.
BrokenRows(s, u, r) ==
    LET known == all_sources(s, u.id)
        first == Of(s.from, u.id, "")
        onSource == r.content_type # "html" /\ known # <<>>
    IN {[make_issue(c, IF onSource THEN known[1] ELSE u.id) EXCEPT
           !.target = u.id,
           !.source = IF first # "" THEN first ELSE IF known # <<>> THEN known[1] ELSE ""]
          : c \in issue_for_status(r.status_code)}

BrokenRefs(s, u, r) ==
    IF issue_for_status(r.status_code) = {} THEN {}
    ELSE {[source |-> x, target |-> u.id] : x \in Range(all_sources(s, u.id))}

ContentRows(s, p, r, cfg, sitemap) ==
    IF r.content_type # "html"
    THEN PageRows(check_asset(r, cfg.img_limit) \cup check_page(p, CheckDefaults), p.url.id)
    ELSE PageRows(check_page(p,
           [suppress_h1_strings |-> cfg.h1s, suppress_banner_h1 |-> cfg.banner,
            has_sitemap |-> sitemap # <<>>, sitemap_urls |-> Range(sitemap),
            favicon_emitted |-> \E x \in s.rows : x.code = "FAVICON_MISSING",
            hsts_checked_hosts |->
               {UrlOf[x.page].host : x \in {y \in s.rows : y.code = "MISSING_HSTS"}},
            page_size_limit_kb |-> cfg.page_limit, exempt_anchor_urls |-> cfg.exempt,
            ignored_image_patterns |-> cfg.ignored]), p.url.id)

EXTERNAL_LINK_CAP_PER_PAGE == 50
EXTERNAL_LINK_CAP_PER_JOB == 500

\* A link within the site is queued once more each time it is found on a page
\* before it is visited, at the depth of the first.
FollowInternal(s, u, child_depth, to, scope) ==
    IF to.norm \notin s.visited /\ scope # {} /\ to.norm \notin scope THEN s
    ELSE LET depth == [x \in {to.norm} |-> child_depth]
             new == IF to.norm \in s.visited THEN s
                    ELSE [s EXCEPT !.depth = @ @@ depth, !.from = @ @@ (to.norm :> u.id),
                                   !.queue = Append(@, [url |-> to.norm,
                                                        depth |-> Of(s.depth, to.norm, child_depth)])]
         IN [new EXCEPT !.sources = (to.norm :> AddedTo(Of(@, to.norm, <<>>), u.id)) @@ @]

FollowExternal(s, u, to) ==
    IF to.id \in DOMAIN s.linkers
    THEN [s EXCEPT !.linkers[to.id] = AddedTo(@, u.id)]
    ELSE IF Len(SelectSeq(s.external, LAMBDA e : e.source = u.id)) >= EXTERNAL_LINK_CAP_PER_PAGE
    THEN s
    ELSE [s EXCEPT !.external = Append(@, [source |-> u.id, target |-> to.id]),
                   !.linkers = @ @@ (to.id :> <<u.id>>)]

Follow(s, p, cfg) ==
    LET deeper == IF p.crawl_depth = Unknown THEN Unknown ELSE p.crawl_depth + 1
        scope == IF cfg.scope = {} THEN {} ELSE cfg.scope \cup {cfg.start.norm}
        follow(acc, l) == IF l.internal THEN FollowInternal(acc, p.url, deeper, l.url, scope)
                          ELSE FollowExternal(acc, p.url, l.url)
    IN IF cfg.single_page THEN s ELSE FoldLeft(follow, s, p.links)

\* The page p of the answer r is among the pages, with how it was reached.
Enter(s, u, p, r, cfg) ==
    LET moved == r.chain # <<>> IN
    [s EXCEPT
       !.visited = @ \cup (IF moved THEN {r.final.norm} ELSE {}),
       !.rows = @ \cup (IF ~moved THEN {}
                        ELSE {[make_issue(c, u.id) EXCEPT !.target = r.final.id] :
                                c \in issues_for_redirect(u, r, cfg.start)}),
       !.pages = Append(@, p),
       !.images = @ \o (IF r.content_type = "html" THEN image_data(r.doc, u.id) ELSE <<>>)]

\* An answer that is no error is checked, an error is reported; the links of an
\* error page written in HTML are followed, too.
CheckPage(s, u, p, r, cfg, sitemap) ==
    LET html == r.content_type = "html" IN
    IF r.status_code < 400
    THEN Follow([s EXCEPT !.rows = @ \cup ContentRows(s, p, r, cfg, sitemap)], p, cfg)
    ELSE LET failed == [s EXCEPT !.rows = @ \cup BrokenRows(s, u, r),
                                 !.refs = @ \cup (IF html THEN BrokenRefs(s, u, r) ELSE {})]
         IN IF html THEN Follow(failed, p, cfg) ELSE failed

AddParsed(s, u, p, r, cfg, sitemap) ==
    CheckPage(Enter(s, u, p, r, cfg), u, p, r, cfg, sitemap)

AddPage(s, u, depth, r, cfg, sitemap) ==
    AddParsed(s, u, [parse_page(r, cfg.start, u = cfg.start) EXCEPT
                       !.crawl_depth = depth, !.last_modified = r.last_modified],
              r, cfg, sitemap)

\* One URL of the queue that is to be fetched.
Fetched(s, u, depth, r, cfg, sitemap) ==
    LET report(code) == [s EXCEPT !.rows = @ \cup {make_issue(code, u.id)}] IN
    CASE r.error = "loop" -> report("REDIRECT_LOOP")
      [] r.error = "ssrf" -> s
      [] r.error \notin {"", "loop", "ssrf"} -> report("PAGE_TIMEOUT")
      [] r.error = "" /\ is_login_redirect(r) -> report("LOGIN_REDIRECT")
      [] OTHER -> AddPage(s, u, depth, r, cfg, sitemap)

Visit(s, web, cfg, robots, sitemap) ==
    LET u == UrlOf[Head(s.queue).url]
        rest == [s EXCEPT !.queue = Tail(@)]
        at == [rest EXCEPT !.visited = @ \cup {u.id}]
        counted == [at EXCEPT !.variants = @ \cup {u}]
        checked == [counted EXCEPT !.rows = @ \cup PageRows(check_url_structure(u), u.id)]
    IN IF u.id \in s.visited THEN rest
       ELSE IF too_many_variants(u, s.variants) THEN at
       ELSE IF is_admin_path(u) \/ (cfg.skip_archives /\ is_wp_noise_path(u)) THEN counted
       ELSE IF ~is_allowed(robots, u)
            THEN [counted EXCEPT !.rows =
                    @ \cup PageRows(When(~is_expected_disallow(u), "ROBOTS_BLOCKED"), u.id)]
       ELSE IF Len(s.pages) >= cfg.max_pages
            THEN [counted EXCEPT !.queue = <<>>, !.truncated = TRUE]
       ELSE Fetched(checked, u, Head(s.queue).depth, fetch_page(u, web[u.id], FALSE), cfg, sitemap)

\* The queue ends: an address is visited once, and adds what its links are.
QueueBound(s, web) ==
    Len(s.queue) + MapThenSumSet(LAMBDA x : Len(FlattenSeq([k \in DOMAIN web[x] |-> web[x][k].doc])),
                                 DOMAIN web)

PageLoop(s, web, cfg, robots, sitemap) ==
    FoldLeft(LAMBDA acc, k : IF acc.queue = <<>> THEN acc ELSE Visit(acc, web, cfg, robots, sitemap),
             s, [k \in 1 .. QueueBound(s, web) |-> k])

-----------------------------------------------------------------------------
\* The links to other sites.  A host that turns robots away is not asked, and
\* a refusal says nothing about the link; but what is gone is gone.

UNVERIFIABLE_STATUSES == {401, 403, 503, 999}
is_bot_blocking_domain(u) == "bot blocking" \in u.marks

external_codes(r) ==
    IF r.error # "" THEN {"EXTERNAL_LINK_TIMEOUT"}
    ELSE IF \/ r.status_code = 429
            \/ /\ r.status_code >= 400
               /\ r.status_code \notin {404, 410}
               /\ r.status_code \in UNVERIFIABLE_STATUSES \/ is_bot_blocking_domain(r.final)
    THEN {"EXTERNAL_LINK_SKIPPED"}
    ELSE issue_for_status(r.status_code)

\* The finding is stored on the page the link was first seen on; every page
\* with the link is kept with it, unless the host was not asked.
ExternalPhase(s, web, cfg) ==
    LET checked == SubSeq(s.external, 1, AtMost(Len(s.external), EXTERNAL_LINK_CAP_PER_JOB))
        unasked(e) == is_bot_blocking_domain(UrlOf[e.target])
        codes(e) == IF unasked(e) THEN When(e.target \notin cfg.verified, "EXTERNAL_LINK_SKIPPED")
                    ELSE external_codes(check_external_link(UrlOf[e.target], web[e.target]))
        rows(e) == {[make_issue(c, e.source) EXCEPT
                       !.target = e.target, !.source = IF unasked(e) THEN "" ELSE e.source]
                      : c \in codes(e)}
        refs(e) == IF unasked(e) \/ codes(e) = {} THEN {}
                   ELSE {[source |-> x, target |-> e.target] : x \in Range(s.linkers[e.target])}
    IN [rows |-> UNION {rows(checked[k]) : k \in DOMAIN checked},
        refs |-> UNION {refs(checked[k]) : k \in DOMAIN checked}]

-----------------------------------------------------------------------------
\* After the loop.

\* The crawler took the slash off itself when no page writes the link so.
is_self_inflicted_slash_redirect(x, pages) ==
    LET u == UrlOf[x.page] IN
    /\ x.code = "REDIRECT_TRAILING_SLASH"
    /\ ~\E k \in DOMAIN pages : \E j \in DOMAIN pages[k].links :
          LET l == pages[k].links[j] IN
          /\ l.internal
          /\ <<l.url.scheme, l.url.host, l.url.path>> = <<u.scheme, u.host, u.path>>
          /\ ~l.url.slash \/ u.path = <<>>

\* The pages at most n clicks away from the start.
click_depth(pages, start, x) ==
    LET known == {pages[k].url.norm : k \in DOMAIN pages}
        targets(y) == UNION {LET p == pages[k] IN
                             {p.links[j].url.norm : j \in {i \in DOMAIN p.links : p.links[i].internal}}
                             : k \in {i \in DOMAIN pages : pages[i].url.norm = y}}
        within_[n \in 0 .. Len(pages)] ==
            IF n = 0 THEN {start}
            ELSE within_[n - 1] \cup (UNION {targets(y) : y \in within_[n - 1]} \cap known)
        enough == {n \in 0 .. Len(pages) : x \in within_[n]}
    IN IF enough = {} THEN Unknown ELSE Min(enough)

WithClickDepths(pages, start) ==
    IF \A k \in DOMAIN pages : pages[k].url.norm # start THEN pages
    ELSE [k \in DOMAIN pages |->
            [pages[k] EXCEPT !.crawl_depth = click_depth(pages, start, pages[k].url.norm)]]

MAX_CLICK_DEPTH == 4

AmpStatuses(pages, web) ==
    [a \in {pages[k].amphtml_url : k \in DOMAIN pages} \ {""} |->
        check_external_link(UrlOf[a], web[a]).status_code]

has_content(p) == p.title # NoText \/ p.meta_description # NoText \/ p.h1_tags # <<>>

\* At most thirty sources are asked, which of them being left to chance; the
\* model asks all.
CitationCodes(ps, web) ==
    LET cited(p) == IF p.is_indexable /\ p.word_count > 200
                    THEN {Citations(p)[k].url.id : k \in DOMAIN Citations(p)} ELSE {}
        answer(x) == fetch_page(UrlOf[x], web[x], TRUE)
        inaccessible == {x \in UNION {cited(ps[k]) : k \in DOMAIN ps} :
                            answer(x).status_code = 0 \/ answer(x).status_code >= 400}
    IN UNION {PageRows(citation_source_issues(ps[k], inaccessible), ps[k].url.id) : k \in DOMAIN ps}

JS_RENDER_CAP == 10

RenderedRows(ps, js) ==
    LET rendered == SelectSeq(ps, LAMBDA p : p.is_indexable)
    IN UNION {PageRows(js_render_issues(js[rendered[k].url.id]), rendered[k].url.id)
                : k \in {j \in 1 .. AtMost(Len(rendered), JS_RENDER_CAP) :
                           rendered[j].url.id \in DOMAIN js}}

\* The groups of analyses an operator chooses from; security is always on.
ANALYSIS_CATEGORY_MAP ==
    [link_integrity |-> {"broken_link", "redirect"},
     seo_essentials |-> {"metadata", "url_structure"},
     site_structure |-> {"heading"},
     indexability |-> {"crawlability", "sitemap"},
     ai_readiness |-> {"ai_readiness", "rendering", "semantic_html"},
     analytics |-> {"analytics"},
     image |-> {"image"}]
AllGroups == DOMAIN ANALYSIS_CATEGORY_MAP

enabled_categories(groups) == {"security"} \cup UNION {ANALYSIS_CATEGORY_MAP[g] : g \in groups}

-----------------------------------------------------------------------------
SitemapMissing == {[make_issue("SITEMAP_MISSING", "") EXCEPT !.impact = 0]}

\* What the pages of a crawl show together.  content: those that have any.
ComparedRows(pages, content, s, web, site, cfg) ==
    LET complete == ~cfg.single_page /\ cfg.scope = {} /\ ~s.truncated
        compared == check_amphtml_links(pages, AmpStatuses(pages, web))
                    \cup check_cross_page(content, cfg.start.norm, complete, pages)
        deep == {k \in DOMAIN pages : pages[k].crawl_depth > MAX_CLICK_DEPTH}
    IN {x \in s.rows : ~is_self_inflicted_slash_redirect(x, pages)}
       \cup {make_issue(f.code, f.page) : f \in compared}
       \cup {make_issue("HIGH_CRAWL_DEPTH", pages[k].url.id) : k \in deep}
       \cup CitationCodes(content, web)
       \cup (IF "ai_readiness" \in cfg.groups THEN RenderedRows(content, site.js) ELSE {})

\* What is stored of a crawl: of each finding the one row per target, of the
\* kinds the operator asked for.
Stored(found, groups) ==
    {x \in collapse_per_target_occurrences(found) : x.category \in enabled_categories(groups)}

Results(pages, s, before, external, measured, web, site, cfg) ==
    [pages |-> pages,
     rows |-> Stored(before \cup external.rows \cup measured.findings
                     \cup ComparedRows(pages, SelectSeq(pages, has_content), s, web, site, cfg),
                     cfg.groups),
     refs |-> s.refs \cup external.refs,
     images |-> measured.images,
     truncated |-> s.truncated]

AfterLoop(s, before, web, site, cfg) ==
    Results(WithClickDepths(s.pages, cfg.start.norm), s, before, ExternalPhase(s, web, cfg),
            image_phase(s.images, site.images, cfg.img_limit), web, site, cfg)

run_crawl(web, site, cfg) ==
    LET robots == IF cfg.respect_robots THEN fetch_robots(site.robots) ELSE NoRobots
        sitemap == fetch_sitemap_recursive("sitemap.xml", robots_sitemaps(robots.lines), site.files)
        listed == [k \in DOMAIN sitemap.urls |-> UrlOf[sitemap.urls[k]].norm]
        before == PageRows(preflight(cfg.start, site, robots, sitemap), cfg.start.id)
                  \cup (IF sitemap.found THEN {} ELSE SitemapMissing)
    IN AfterLoop(PageLoop(Seed(cfg, listed), web, cfg, robots, listed), before, web, site, cfg)

=============================================================================
