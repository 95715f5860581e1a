---------------------------- MODULE HealthScore ----------------------------
(***************************************************************************)
(* The scores of a crawl (api/services/job_store_base.py, prevalence.py,   *)
(* info_tier_filter.py, checkers/links.py).  A row is a stored finding:    *)
(* code, page, category, impact, severity and how many links it stands     *)
(* for; the pages of a score are the crawled ones.                         *)
(***************************************************************************)
EXTENDS IssueRegistry, FiniteSets, FiniteSetsExt, Functions

CONSTANT UrlOrder   \* the rank of each URL in the order of strings

\* Python's round(a / b): to the nearest, halves to the even neighbour.
RoundDiv(a, b) ==
    LET q == a \div b
        r == 2 * (a % b)
    IN IF r < b \/ (r = b /\ q % 2 = 0) THEN q ELSE q + 1

AtLeast0(n) == IF n < 0 THEN 0 ELSE n
AtMost(n, m) == IF n > m THEN m ELSE n

-----------------------------------------------------------------------------
\* One finding per page and code for the links of a page that are affected:
\* a quarter more impact for each further link, up to twice.

PER_TARGET_CODES ==
    {"BROKEN_LINK_404", "BROKEN_LINK_410", "BROKEN_LINK_503", "BROKEN_LINK_5XX",
     "EXTERNAL_LINK_TIMEOUT", "EXTERNAL_LINK_SKIPPED", "REDIRECT_301", "REDIRECT_302"}

occurrence_impact(c, n) == RoundDiv(ImpactOf(c) * AtMost(n + 3, 8), 4)

\* The rows of one code on one page become one, of the severity they had.
collapse_per_target_occurrences(rows) ==
    LET alike(r) == {q \in rows : q.code = r.code /\ q.page = r.page}
        first(r) == CHOOSE q \in alike(r) : TRUE
        n(r) == Cardinality(alike(r))
    IN {r \in rows : r.code \notin PER_TARGET_CODES}
       \cup {[first(r) EXCEPT !.n = n(r),
                             !.impact = IF n(r) > 1 THEN occurrence_impact(r.code, n(r)) ELSE @]
             : r \in {q \in rows : q.code \in PER_TARGET_CODES}}

-----------------------------------------------------------------------------
\* What a page is charged for.

CLUSTER_SUPPRESSION ==
    [JSON_LD_MISSING |->
        {"SCHEMA_ORG_MISSING", "FAQ_SCHEMA_MISSING", "DATE_PUBLISHED_MISSING",
         "DATE_MODIFIED_MISSING", "SCHEMA_TYPE_CONFLICT", "SCHEMA_TYPE_MISMATCH",
         "SCHEMA_VISIBLE_MISMATCH", "SCHEMA_DEPRECATED_TYPE", "JSON_LD_INVALID"},
     RAW_HTML_JS_DEPENDENT |->
        {"AI_CONTENT_NOT_IN_TEXT", "CONTENT_NOT_EXTRACTABLE_NO_TEXT",
         "CONTACT_INFO_NOT_IN_HTML", "JS_DEPENDENT_NAVIGATION", "FAQ_ANSWERS_NOT_IN_HTML",
         "JS_RENDERED_CONTENT_DIFFERS", "SEMANTIC_DENSITY_LOW", "CONTENT_UNSTRUCTURED",
         "THIN_CONTENT", "CONTENT_THIN"},
     CONTENT_THIN |->
        {"THIN_CONTENT", "CONTENT_UNSTRUCTURED", "STRUCTURED_ELEMENTS_LOW",
         "SEMANTIC_DENSITY_LOW"},
     CENTRAL_CLAIM_BURIED |-> {"FIRST_VIEWPORT_NO_ANSWER", "GEO_SUMMARY_BURIED"},
     CITATIONS_MISSING_SUBSTANTIAL_CONTENT |->
        {"EXTERNAL_CITATIONS_LOW", "ORPHAN_CLAIM_TECHNICAL", "QUOTATIONS_MISSING",
         "LINK_PROFILE_PROMOTIONAL", "CITATIONS_ORPHANED", "CITATIONS_SOURCES_INACCESSIBLE"},
     CHUNKS_NOT_SELF_CONTAINED |-> {"SECTION_CROSS_REFERENCES", "SECTION_VAGUE_OPENER"},
     IMG_OVERSIZED |->
        {"IMG_POOR_COMPRESSION", "IMG_OVERSCALED", "IMG_FORMAT_LEGACY", "IMG_SLOW_LOAD",
         "IMG_NO_SRCSET"},
     IMG_ALT_MISSING |-> {"IMG_ALT_TOO_SHORT"},
     IMG_ALT_GENERIC |-> {"IMG_ALT_TOO_SHORT", "IMG_ALT_DUP_FILENAME", "IMG_ALT_MISUSED"},
     AI_BOT_BLANKET_DISALLOW |->
        {"AI_BOT_SEARCH_BLOCKED", "AI_BOT_USER_FETCH_BLOCKED", "ROBOTS_BLOCKED",
         "AI_BOT_NO_AI_DIRECTIVES"},
     REDIRECT_CHAIN |-> {"REDIRECT_301", "REDIRECT_302"},
     LINK_STACKED_DUPLICATE |-> {"LINK_EMPTY_ANCHOR"}]

CATEGORY_IMPACT_CAP == 20

PAGE_FATAL_CODES ==
    {"NOINDEX_META", "NOINDEX_HEADER", "ROBOTS_BLOCKED", "PAGE_TIMEOUT", "HTTP_PAGE",
     "HTTPS_REDIRECT_MISSING", "REDIRECT_LOOP", "LOGIN_REDIRECT"}

NOINDEX_CODES == {"NOINDEX_META", "NOINDEX_HEADER"}
NOINDEX_EXEMPT_CATEGORIES == {"security", "redirect"}

codes_on(rows) == {r.code : r \in rows}

page_suppressed_codes(codes) ==
    UNION {CLUSTER_SUPPRESSION[c] : c \in codes \cap DOMAIN CLUSTER_SUPPRESSION}

\* A page hidden from search answers for the noindex and for real risks only.
noindex_reduced(rows) ==
    IF codes_on(rows) \cap NOINDEX_CODES = {} THEN {}
    ELSE {r \in rows : r.code \notin NOINDEX_CODES /\ r.category \notin NOINDEX_EXEMPT_CATEGORIES}

charged_page_rows(rows) ==
    {r \in rows : r.code \notin page_suppressed_codes(codes_on(rows))} \ noindex_reduced(rows)

ImpactSum(rows) == SumFunction([r \in rows |-> r.impact])

page_deduction(rows) ==
    LET fatal == {r \in rows : r.code \in PAGE_FATAL_CODES}
        capped(k) == AtMost(ImpactSum({r \in rows \ fatal : r.category = k}), CATEGORY_IMPACT_CAP)
    IN ImpactSum(fatal) + SumFunction([k \in {r.category : r \in rows \ fatal} |-> capped(k)])

info_detail_rows(rows, level) == {r \in rows : ~info_row_excluded(r.impact, level)}

compute_page_health(rows, level) ==
    AtLeast0(100 - page_deduction(charged_page_rows(info_detail_rows(rows, level))))

compute_citability_grade(rows, level) ==
    LET charged == charged_page_rows(info_detail_rows(rows, level)) IN
    AtLeast0(100 - ImpactSum({r \in charged : r.category = "ai_readiness"}))

-----------------------------------------------------------------------------
\* The score of the site: the mean of its pages', a finding of the whole site
\* counting on the page it weighs most on, the lowest URL among equals.

site_scope_representative(c, rows) ==
    LET on == {r \in rows : r.code = c}
        worst == {r \in on : \A q \in on : q.impact <= r.impact}
    IN (CHOOSE r \in worst : \A q \in worst : UrlOrder[r.page] <= UrlOrder[q.page]).page

\* The rows a page answers for, those of the site-wide findings it represents
\* included.
rows_of_page(p, rows) ==
    {r \in rows : /\ r.page = p
                  /\ issue_scope(r.code) = "site" => site_scope_representative(r.code, rows) = p}

density_health_score(rows, pages) ==
    LET n == IF pages = 0 THEN 1 ELSE pages
        density(s) == AtMost(Cardinality({r \in rows : r.severity = s}), n)
    IN AtLeast0(100 - RoundDiv(50 * density("critical") + 30 * density("warning")
                               + 10 * density("info"), n))

(* Mutant of mean_page_score: clean pages do not count. *)
mean_of_pages_with_findings(pages, rows, suppressed, level) ==
    LET shown == {r \in info_detail_rows(rows, level) : r.page \in pages /\ r.code \notin suppressed}
        score(p) == AtLeast0(100 - page_deduction(charged_page_rows(rows_of_page(p, shown))))
        found == {r.page : r \in shown}
    IN IF found = {} THEN 100
       ELSE RoundDiv(SumFunction([p \in found |-> score(p)]), Cardinality(found))

\* The rows of URLs that were not crawled as pages are charged to none.
mean_page_score(pages, rows, suppressed, level) ==
    LET shown == {r \in info_detail_rows(rows, level) : r.page \in pages /\ r.code \notin suppressed}
        score(p) == AtLeast0(100 - page_deduction(charged_page_rows(rows_of_page(p, shown))))
    IN IF pages = {} THEN 100
       ELSE RoundDiv(SumFunction([p \in pages |-> score(p)]), Cardinality(pages))

\* Findings that all weigh nothing are scored by their density.
compute_impact_health(pages, rows, suppressed, level) ==
    IF rows # {} /\ ImpactSum(rows) = 0
    THEN density_health_score(rows, Cardinality(pages))
    ELSE mean_page_score(pages, rows, suppressed, level)

is_agent_issue(r) ==
    r.category \in AGENT_READINESS_CATEGORIES \/ r.code \in AGENT_READINESS_EXTRA_CODES

\* The score of the findings agents care about is given no counts by severity
\* and has no density to fall back on.
compute_agent_health_score(pages, rows, suppressed, level) ==
    mean_page_score(pages, {r \in rows : is_agent_issue(r)}, suppressed, level)

=============================================================================
