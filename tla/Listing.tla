------------------------------- MODULE Listing -------------------------------
(***************************************************************************)
(* What of a crawl's stored findings is shown: the rules an operator keeps *)
(* for a domain (api/services/domain_filter.py), the level of detail of    *)
(* the info band (info_tier_filter.py), the lists, the summary and the     *)
(* page table of the store (sqlite_store.py, routers/crawl.py), and the    *)
(* lens of how far a defect reaches (prevalence.py).                       *)
(***************************************************************************)
EXTENDS HealthScore, SequencesExt

CONSTANT bare   \* each URL without the slashes at its end

SEVERITIES == <<"critical", "warning", "info">>
SEVERITY_RANK(s) == CHOOSE k \in 1 .. 3 : SEVERITIES[k] = s

-----------------------------------------------------------------------------
\* A rule hides a code or a severity; a finding both hide counts for its code.

rule_sets(rules) ==
    [codes |-> {r.code : r \in {q \in rules : q.code # ""}},
     severities |-> {r.severity : r \in {q \in rules : q.severity # ""}}]

ruled_out(r, rules) ==
    r.code \in rule_sets(rules).codes \/ r.severity \in rule_sets(rules).severities

rule_of(r, rules) == IF r.code \in rule_sets(rules).codes THEN r.code ELSE r.severity

\* The elements of a list that are in a set, in the order of the list.
Only(s, set) ==
    LET only[n \in 0 .. Len(s)] ==
            IF n = 0 THEN <<>>
            ELSE IF s[n] \in set THEN Append(only[n - 1], s[n]) ELSE only[n - 1]
    IN only[Len(s)]

apply_domain_filter(s, rules) ==
    LET out == {r \in Range(s) : ruled_out(r, rules)}
        hidden == Only(s, out)
    IN [kept |-> Only(s, Range(s) \ out),
        hidden |-> Len(hidden),
        by_rule |-> [k \in {rule_of(r, rules) : r \in out} |->
                       Cardinality({i \in DOMAIN hidden : rule_of(hidden[i], rules) = k})]]

\* A reader may ask for more of the info band than the crawl scored, never
\* for less; what is no level is no request.
resolve_info_detail(job_detail, requested) ==
    IF requested \in DOMAIN INFO_DETAIL_MIN_IMPACT
       /\ info_detail_rank(requested) < info_detail_rank(job_detail)
    THEN requested ELSE job_detail

is_excluded(r, level) == r.severity = "info" /\ info_row_excluded(r.impact, level)

tier(r) == IF info_tier(r.impact) = "none" THEN "low" ELSE info_tier(r.impact)

\* How many of the rows of each tier.
TierCounts(s) ==
    [t \in {"high", "medium", "low"} |-> Cardinality({i \in DOMAIN s : tier(s[i]) = t})]

apply_info_detail(s, level) ==
    LET out == {r \in Range(s) : is_excluded(r, level)}
        hidden == Only(s, out)
    IN [kept |-> Only(s, Range(s) \ out),
        hidden |-> Len(hidden),
        by_tier |-> TierCounts(hidden)]

-----------------------------------------------------------------------------
\* A list in the order of a key of each element, the greatest first and the
\* first part of the key deciding; equals in the same order whenever asked.

Precedes(a, b) == \E k \in DOMAIN a : a[k] > b[k] /\ \A j \in 1 .. k - 1 : a[j] = b[j]

Inserted(s, x, key) ==
    LET after == {i \in DOMAIN s : Precedes(key[x], key[s[i]])}
        at == IF after = {} THEN Len(s) + 1 ELSE Min(after)
    IN SubSeq(s, 1, at - 1) \o <<x>> \o SubSeq(s, at, Len(s))

Sorted(S, key) == FoldSet(LAMBDA x, s : Inserted(s, x, key), <<>>, S)

\* The list of findings, heaviest first, a page of it at a time.

SelectedRows(rows, severity, cat) ==
    {r \in rows : /\ severity = "" \/ r.severity = severity
                  /\ cat = "" \/ r.category = cat}

InListOrder(rows) ==
    Sorted(rows, [r \in rows |-> <<r.impact, 0 - SEVERITY_RANK(r.severity)>>])

Slice(s, page, limit) == SubSeq(s, (page - 1) * limit + 1, AtMost(page * limit, Len(s)))

get_issues(rows, severity, cat, page, limit) ==
    LET s == InListOrder(SelectedRows(rows, severity, cat)) IN
    [issues |-> Slice(s, page, limit), total |-> Len(s)]

(* Mutant of paginate_filtered: the page is cut before it is filtered. *)
paginate_then_filter(rows, rules, severity, cat, page, limit, level) ==
    LET sliced == get_issues(rows, severity, cat, page, limit)
    IN [issues |-> apply_info_detail(apply_domain_filter(sliced.issues, rules).kept, level).kept,
        total |-> sliced.total]

\* Without rules and without a level to apply the store slices the list;
\* otherwise all of it is filtered and then sliced.
paginate_filtered(rows, rules, severity, cat, page, limit, level) ==
    IF rules = {} /\ level = "all"
    THEN get_issues(rows, severity, cat, page, limit)
    ELSE LET all == get_issues(rows, severity, cat, 1, Cardinality(rows)).issues
             kept == apply_info_detail(apply_domain_filter(all, rules).kept, level).kept
         IN [issues |-> Slice(kept, page, limit), total |-> Len(kept)]

\* Whether a finding counts for the score of its crawl.
scored(r, job_detail) == ~is_excluded(r, job_detail)

-----------------------------------------------------------------------------
\* The summary of a crawl.  Findings of a category that is none of the
\* catalogue's are counted by their severity only.

by_severity(rows) ==
    [s \in {"critical", "warning", "info"} |-> Cardinality({r \in rows : r.severity = s})]

by_category(rows) ==
    [k \in Categories |-> Cardinality({r \in rows : r.category = k})]

info_tier_counts(rows, level) ==
    LET info == {r \in rows : r.severity = "info"} IN
    [by_tier |-> [t \in {"high", "medium", "low"} |-> Cardinality({r \in info : tier(r) = t})],
     excluded |-> Cardinality({r \in info : info_row_excluded(r.impact, level)}),
     scored |-> Cardinality({r \in info : ~info_row_excluded(r.impact, level)})]

get_summary(pages, status, rows, suppressed, level) ==
    [pages_crawled |-> Cardinality(pages),
     pages_with_errors |-> Cardinality({p \in pages : status[p] >= 400}),
     total_issues |-> Cardinality(rows),
     by_severity |-> by_severity(rows),
     by_category |-> by_category(rows),
     by_category_scored |-> by_category({r \in rows : scored(r, level)}),
     by_category_excluded |-> by_category({r \in rows : ~scored(r, level)}),
     health_score |-> compute_impact_health(pages, rows, suppressed, level),
     agent_health_score |-> compute_agent_health_score(pages, rows, suppressed, level),
     info |-> info_tier_counts(rows, level)]

-----------------------------------------------------------------------------
\* The table of the crawled pages.  The findings on a URL that was not crawled
\* as a page are in none of its lines.

issue_counts(rows, p, level) ==
    LET on(s) == {r \in rows : r.page = p /\ r.severity = s}
        kept == {r \in on("info") : ~info_row_excluded(r.impact, level)}
    IN [critical |-> Cardinality(on("critical")),
        warning |-> Cardinality(on("warning")),
        info |-> Cardinality(kept),
        info_excluded |-> Cardinality(on("info") \ kept),
        total |-> Cardinality(on("critical") \cup on("warning") \cup kept)]

\* A page qualifies for a least severity by a finding at that severity or
\* above; it is hidden if only findings outside the level would qualify it.
qualifies(c, min_severity, at_all) ==
    LET info == IF at_all THEN c.info + c.info_excluded ELSE c.info
        least == SEVERITY_RANK(min_severity)
    IN \/ c.critical > 0
       \/ least >= 2 /\ c.warning > 0
       \/ least >= 3 /\ info > 0

get_pages_with_issue_counts(pages, rows, min_severity, level) ==
    LET counts(p) == issue_counts(rows, p, level)
        shown == {p \in pages : min_severity = "" \/ qualifies(counts(p), min_severity, FALSE)}
    IN [rows |-> Sorted(shown, [p \in shown |-> <<counts(p).total, 0 - UrlOrder[p]>>]),
        pages_hidden |-> Cardinality({p \in pages \ shown : qualifies(counts(p), min_severity, TRUE)})]

\* The findings stored on one page; none of a URL that is not a page.
get_page_issues_by_url(pages, rows, p) ==
    IF p \notin pages THEN {} ELSE {r \in rows : r.page = p}

-----------------------------------------------------------------------------
\* How far a defect reaches: the share of the indexable pages that have it.

NON_INDEXABLE_CODES == {"NOINDEX_META", "NOINDEX_HEADER", "ROBOTS_BLOCKED"}

never_escalate == {"EXTERNAL_LINK_SKIPPED", "PAGINATION_LINKS_PRESENT", "AI_CITED_PAGE"}
always_systemic == {"BROKEN_LINK_404", "BROKEN_LINK_410"}

\* Findings of the job rather than of a page.
job_level_codes ==
    {"FAVICON_MISSING", "SITEMAP_MISSING", "LLMS_TXT_MISSING", "LLMS_TXT_INVALID",
     "AI_TXT_MISSING", "AI_BOT_BLANKET_DISALLOW", "AI_BOT_DEPRECATED_DIRECTIVE",
     "AI_BOT_NO_AI_DIRECTIVES", "AI_BOT_SEARCH_BLOCKED", "AI_BOT_TABLE_STALE",
     "AI_BOT_TRAINING_DISALLOWED", "AI_BOT_USER_FETCH_BLOCKED"}

tiers == <<[name |-> "systemic", share |-> 30, pages |-> 20],
           [name |-> "widespread", share |-> 10, pages |-> 10],
           [name |-> "scattered", share |-> 0, pages |-> 0]>>

classify(code, affected, indexable) ==
    IF code \in never_escalate THEN "scattered"
    ELSE IF code \in always_systemic THEN "systemic"
    ELSE Head(SelectSeq(tiers, LAMBDA t : /\ 100 * affected >= t.share * indexable
                                          /\ affected >= t.pages)).name

indexable_pages(pages, rows) ==
    LET urls == {bare[p] : p \in pages}
        hidden == {bare[r.page] : r \in {q \in rows : q.code \in NON_INDEXABLE_CODES}}
    IN urls \ hidden

count_indexable_pages(pages, rows) == Cardinality(indexable_pages(pages, rows))

\* One entry per code of page scope; the weight and severity of its worst row.
compute_prevalence(rows, indexable) ==
    LET counted == {r \in rows : /\ r.page # ""
                                 /\ issue_scope(r.code) # "site"
                                 /\ r.code \notin job_level_codes}
        on(c) == {r \in counted : r.code = c}
        worst(c) == CHOOSE r \in on(c) : \A q \in on(c) : q.impact <= r.impact
        urls(c) == {bare[r.page] : r \in on(c)}
    IN IF indexable = 0 THEN {}
       ELSE {[code |-> c, severity |-> worst(c).severity, impact |-> worst(c).impact,
              pages_affected |-> Cardinality(urls(c)), indexable_pages |-> indexable,
              tier |-> classify(c, Cardinality(urls(c)), indexable),
              affected_urls |-> urls(c)] : c \in codes_on(counted)}

build_prevalence(pages, rows, suppressed) ==
    LET counted == {r \in rows : r.code \notin suppressed} IN
    compute_prevalence(counted, count_indexable_pages(pages, counted))

systemic(prevalences) == {p \in prevalences : p.tier = "systemic"}

\* The affected URLs are subtracted whether they are indexable or not.
site_hygiene_score(prevalences) ==
    LET rows == systemic(prevalences)
        indexable == Max({p.indexable_pages : p \in rows})
        affected == UNION {p.affected_urls : p \in rows}
    IN IF rows = {} THEN 100
       ELSE RoundDiv(100 * AtLeast0(indexable - Cardinality(affected)), indexable)

-----------------------------------------------------------------------------
\* The checklist of the heaviest findings (fix_focus.py): one item per page and
\* code, those of agents apart, pages by the weight of their items, and only
\* the first of them.

FIX_FOCUS_MIN_IMPACT == 4

rank(r) == priority_rank(r.impact, EffortOf(r.code))

checklist_items(rows) ==
    LET heavy == {r \in rows : r.page # "" /\ r.impact >= FIX_FOCUS_MIN_IMPACT}
        same(r) == {q \in heavy : q.page = r.page /\ q.code = r.code}
    IN {CHOOSE q \in same(r) : \A x \in same(r) : rank(x) <= rank(q) : r \in heavy}

page_priority(items, p) ==
    LET on == {r \in items : r.page = p} IN SumFunction([r \in on |-> rank(r)])

checklist_key(items, p) ==
    LET on == {r \in items : r.page = p} IN
    <<page_priority(items, p), Cardinality({r \in on : r.severity = "critical"}),
      Cardinality(on), 0 - UrlOrder[p]>>

build_focus_list(items, max_pages) ==
    LET found == {r.page : r \in items}
        pages == Sorted(found, [p \in found |-> checklist_key(items, p)])
        shown == SubSeq(pages, 1, AtMost(max_pages, Len(pages)))
    IN [pages |-> shown,
        items |-> {r \in items : r.page \in Range(shown)},
        pages_total |-> Len(pages),
        items_hidden |-> Cardinality({r \in items : r.page \notin Range(shown)})]

build_snapshot(rows, max_pages) ==
    [focus \in {"seo", "geo"} |->
        build_focus_list({r \in checklist_items(rows) : focus_bucket(r.category, r.code) = focus},
                         max_pages)]

=============================================================================
