-------------------------- MODULE CrossPageChecks --------------------------
(***************************************************************************)
(* The checks that compare the pages of a crawl                            *)
(* (api/crawler/checkers/cross_page.py), run once after the page loop.     *)
(* Pages come in the order they were crawled; a finding is a code and the  *)
(* URL of the page it is reported on.                                      *)
(***************************************************************************)
EXTENDS PageChecks

MIN_PAGES_SITE_CHECKS == 3
MIN_WORDS_FOR_DUP == 150

Report(code, p) == [code |-> code, page |-> p.url.id]

ReportWhere(code, ps, Holds(_)) ==
    {Report(code, ps[i]) : i \in {j \in DOMAIN ps : Holds(ps[j])}}

\* A page asked for under another URL than the one that answered is told by
\* its redirect_url, which nothing sets during a crawl.
live_pages(ps) == SelectSeq(ps, LAMBDA p : ~p.redirected /\ p.status_code \notin 300 .. 399)

-----------------------------------------------------------------------------
\* Duplicate titles and descriptions, among the pages that are their own
\* canonical version; a page that shares both and names none lacks a canonical.

Compared(ps) ==
    SelectSeq(live_pages(ps), LAMBDA p : p.canonical_url.id \in {"", p.url.id})

Shared(ps, p, Text(_)) ==
    /\ Text(p) # NoText
    /\ \E i \in DOMAIN ps : ps[i].url # p.url /\ Text(ps[i]) = Text(p)

Title(p) == p.title
Description(p) == p.meta_description

duplicates(ps) ==
    LET cs == Compared(ps)
        both(p) == \E i \in DOMAIN cs : /\ cs[i].url # p.url
                                        /\ NoText \notin {p.title, p.meta_description}
                                        /\ cs[i].title = p.title
                                        /\ cs[i].meta_description = p.meta_description
    IN ReportWhere("TITLE_DUPLICATE", cs, LAMBDA p : Shared(cs, p, Title))
       \cup ReportWhere("META_DESC_DUPLICATE", cs, LAMBDA p : Shared(cs, p, Description))
       \cup ReportWhere("CANONICAL_MISSING", cs,
                        LAMBDA p : both(p) /\ p.canonical_url.id = "" /\ ~p.url.query)

-----------------------------------------------------------------------------
\* Pages no other page links to, when the link graph is complete.

linked_urls(sources) ==
    UNION {LET p == sources[i] IN
           {p.links[k].url.norm : k \in {j \in DOMAIN p.links : p.links[j].internal}}
              \ {p.url.norm}
           : i \in DOMAIN sources}

check_orphan_pages(ps, start, sources) ==
    ReportWhere("ORPHAN_PAGE", ps,
                LAMBDA p : p.url.norm # start /\ p.url.norm \notin linked_urls(sources))

-----------------------------------------------------------------------------
\* Measurement ids: the first page without all the site's ids is reported.

measurement_ids(p) ==
    {p.analytics_tags[i].id : i \in {j \in DOMAIN p.analytics_tags :
        p.analytics_tags[j].type \in DIRECT_MEASUREMENT_TYPES \cup {"gtm"}}} \ {""}

check_analytics_consistency(ps) ==
    LET all == UNION {measurement_ids(ps[i]) : i \in DOMAIN ps}
        offenders == SelectSeq(ps, LAMBDA p : measurement_ids(p) # all)
    IN IF Len(ps) < 2 \/ offenders = <<>> THEN {}
       ELSE {Report("ANALYTICS_ID_INCONSISTENT", Head(offenders))}

-----------------------------------------------------------------------------
\* The organisation the site's structured data describes.

ENTITY_TYPES == {"Organization", "LocalBusiness", "NGO", "Corporation", "Person"}
ORG_TYPES == ENTITY_TYPES \ {"Person"}
ARTICLE_TYPES == {"Article", "BlogPosting", "NewsArticle", "TechArticle"}

Nodes(p, types) == {o \in p.schema_objs : o.types \cap types # {}}

\* A page that names several organisations says nothing of its own name.
org_names(p) ==
    LET named == {o \in Nodes(p, ORG_TYPES) : o.name # ""} IN
    (UNION {o.publishers : o \in p.schema_objs}
     \cup (IF Cardinality(named) = 1 THEN {o.name : o \in named} ELSE {})) \ {""}

authors(p) == UNION {o.authors : o \in Nodes(p, ARTICLE_TYPES)}

\* One name with two profiles, or one profile with two names.
author_conflict(all) ==
    \E a, b \in all : \/ a.name = b.name /\ a.url # b.url /\ "" \notin {a.url, b.url}
                      \/ a.url = b.url /\ a.name # b.name /\ a.url # ""

sameas_missing(p) ==
    LET nodes == Nodes(p, ENTITY_TYPES) IN nodes # {} /\ \A o \in nodes : ~o.same_as

\* Findings of the whole site are reported on its start page.
check_entity_consistency(ps, start) ==
    LET names == UNION {org_names(ps[i]) : i \in DOMAIN ps}
        writers == UNION {authors(ps[i]) : i \in DOMAIN ps}
        on_site(code) == [code |-> code, page |-> start]
    IN ReportWhere("ENTITY_SAMEAS_MISSING", ps, sameas_missing)
       \cup (IF Len(ps) < MIN_PAGES_SITE_CHECKS THEN {}
             ELSE {on_site(c) : c \in When(Cardinality(names) > 1, "ENTITY_NAME_INCONSISTENT")
                                   \cup When(author_conflict(writers),
                                             "AUTHOR_IDENTITY_INCONSISTENT")})

PREMISES_TYPES == {"LocalBusiness", "Place"}
ENTITY_NODE_TYPES == PREMISES_TYPES \cup {"Organization", "NGO", "Corporation"}
ADDRESS_SUBFIELDS ==
    {"streetAddress", "addressLocality", "addressRegion", "postalCode", "addressCountry"}

premises(o) == o.types \cap PREMISES_TYPES # {}

nap_required(o) ==
    {"url", "logo"} \cup (IF premises(o) THEN {"address", "telephone", "email"} ELSE {})

\* Of several entity nodes, those whose url is on the page's own host.
self_entity_nodes(p) ==
    LET nodes == Nodes(p, ENTITY_NODE_TYPES) IN
    IF Cardinality(nodes) <= 1 THEN nodes ELSE {o \in nodes : o.site = p.url.site}

\* values: what a node publishes for each field it has; address: the same for
\* the parts of its address, of which there is at most one.
check_nap(p) ==
    LET nodes == self_entity_nodes(p)
        missing(o) == \/ nap_required(o) \ DOMAIN o.values # {}
                      \/ premises(o) /\ \E a \in o.address : ADDRESS_SUBFIELDS \ DOMAIN a # {}
        empty(o) == \/ \E f \in nap_required(o) \cap DOMAIN o.values : o.values[f] = "empty"
                    \/ /\ premises(o)
                       /\ \E a \in o.address :
                             \E f \in ADDRESS_SUBFIELDS \cap DOMAIN a : a[f] = "empty"
    IN When(\E o \in nodes : empty(o), "ENTITY_FIELD_EMPTY")
       \cup When(\E o \in nodes : missing(o), "ENTITY_NAP_INCOMPLETE")

PLACEHOLDER_FIELDS == {"description", "name", "legalName", "alternateName", "slogan"}

\* A known filler, or a description of under five words.
check_placeholder_values(p) ==
    When(\E o \in p.schema_objs : \E f \in PLACEHOLDER_FIELDS \cap DOMAIN o.values :
            o.values[f] = "placeholder" \/ (f = "description" /\ o.values[f] = "short"),
         "ENTITY_VALUE_PLACEHOLDER")

\* The plugin's default of 09:00 to 17:00 on seven days.
check_default_hours(p) ==
    When(\E o \in Nodes(p, ENTITY_NODE_TYPES) : o.default_hours, "ENTITY_HOURS_DEFAULT")

\* Looked at on the start page, or else on the first page with such a node.
check_entity_values(ps, start) ==
    LET home == SelectSeq(ps, LAMBDA p : p.url.id = start)
        withNode == SelectSeq(ps, LAMBDA p : Nodes(p, ENTITY_NODE_TYPES) # {})
        candidates == IF home # <<>> THEN home ELSE withNode
    IN IF candidates = <<>> \/ Len(ps) < MIN_PAGES_SITE_CHECKS THEN {}
       ELSE LET p == Head(candidates) IN
            {Report(c, p) : c \in check_placeholder_values(p) \cup check_default_hours(p)
                                  \cup check_nap(p)}

-----------------------------------------------------------------------------
\* Near-identical bodies: a phrase stands for the runs of five words in it.

shingles(p) == {text_window(p)[i].id : i \in DOMAIN text_window(p)}

eligible(ps) ==
    SelectSeq(ps, LAMBDA p : text_window(p) # NoText /\ Count(text_window(p)) >= MIN_WORDS_FOR_DUP)

jaccard_near(a, b) ==
    LET common == Cardinality(a \cap b) IN
    common > 0 /\ 10 * common >= 8 * (Cardinality(a) + Cardinality(b) - common)

\* Runs found on a fifth of the pages, and on three at least.
boilerplate(es) ==
    LET fifth == (Len(es) + 4) \div 5
        least == IF fifth > 3 THEN fifth ELSE 3
        all == UNION {shingles(es[i]) : i \in DOMAIN es}
    IN {s \in all : Cardinality({i \in DOMAIN es : s \in shingles(es[i])}) >= least}

check_body_uniqueness(ps) ==
    LET es == eligible(ps)
        common == boilerplate(es)
    IN IF Len(ps) < MIN_PAGES_SITE_CHECKS \/ Len(es) < 2 THEN {}
       ELSE ReportWhere("BOILERPLATE_RATIO_HIGH", es,
                        LAMBDA p : /\ shingles(p) # {}
                                   /\ 10 * Cardinality(shingles(p) \cap common)
                                        >= 6 * Cardinality(shingles(p)))
            \cup ReportWhere("NEAR_DUPLICATE_BODY", es,
                   LAMBDA p : \E i \in DOMAIN es : /\ es[i].url # p.url
                                                  /\ jaccard_near(shingles(es[i]), shingles(p)))

-----------------------------------------------------------------------------
\* AMP versions that do not answer 200; a version not requested says nothing.
check_amphtml_links(ps, amp_statuses) ==
    ReportWhere("AMPHTML_BROKEN", ps,
                LAMBDA p : /\ p.amphtml_url \in DOMAIN amp_statuses
                           /\ amp_statuses[p.amphtml_url] # 200)

check_cross_page(ps, start, link_graph_complete, sources) ==
    LET live == live_pages(ps) IN
    duplicates(ps)
    \cup (IF link_graph_complete THEN check_orphan_pages(ps, start, sources) ELSE {})
    \cup check_entity_consistency(live, start)
    \cup check_entity_values(live, start)
    \cup check_body_uniqueness(live)
    \cup check_analytics_consistency(live)

=============================================================================
