----------------------------- MODULE PageChecks -----------------------------
(***************************************************************************)
(* The checks on one page (api/crawler/issue_checker.py and the checkers   *)
(* it calls): from what the parser read of a page to the codes of the      *)
(* findings it reports.                                                    *)
(*                                                                         *)
(* A page is a record with the parser's fields.                            *)
(***************************************************************************)
EXTENDS IssueRegistry, Markup

When(condition, code) == IF condition THEN {code} ELSE {}

\* Shares of a whole, as a numerator and a denominator; none is zero parts of
\* zero, below and above nothing.
Below(r, percent) == 100 * r[1] < percent * r[2]
Above(r, percent) == 100 * r[1] > percent * r[2]

-----------------------------------------------------------------------------
\* The type of a page, from its URL, its structured data, or its text.

infer_from_url(u) ==
    LET n == Len(u.path)
        first == IF n = 0 THEN "" ELSE u.path[1]
    IN CASE n = 0 \/ (n = 1 /\ first \in {"index", "home", "index.html", "home.html"}) -> "home"
         [] \/ n >= 2 /\ first \in {"team", "staff", "author"}
            \/ n >= 3 /\ first = "about" /\ u.path[2] = "team" -> "team_member"
         [] n >= 2 /\ first \in {"service", "services", "solutions", "offerings", "product",
                                 "products"} -> "service"
         [] n = 1 /\ first \in {"faq", "faqs", "help", "qa", "q-and-a",
                                "questions-and-answers"} -> "faq"
         [] n = 1 /\ first \in {"contact", "contact-us", "get-in-touch", "reach-out"} -> "contact"
         [] n = 1 /\ first \in {"about", "about-us", "our-story", "mission", "vision",
                                "who-we-are"} -> "about"
         [] n >= 2 /\ first \in {"blog", "article", "articles", "news", "post", "posts"}
              -> "article"
         [] OTHER -> "unknown"

infer_from_schema(types) ==
    LET has(ts) == types \cap ts # {}
    IN CASE has({"HomePage", "WebSite"}) -> "home"
         [] has({"Article", "NewsArticle", "BlogPosting"}) -> "article"
         [] has({"Person"}) -> "team_member"
         [] has({"Service", "Offer"}) -> "service"
         [] has({"FAQPage"}) -> "faq"
         [] has({"ContactPage"}) -> "contact"
         [] has({"AboutPage", "Organization"}) -> "about"
         [] OTHER -> "unknown"

infer_from_html_structure(p) ==
    IF Len(p.h1_tags) # 1 THEN "unknown"
    ELSE IF p.word_count < 500
         THEN IF matches(p.og_title, "home") THEN "home" ELSE "unknown"
         ELSE IF matches(p.meta_description, "article") THEN "article" ELSE "unknown"

infer_page_type(p) ==
    LET guesses == <<infer_from_url(p.url), infer_from_schema(p.schema_types),
                     infer_from_html_structure(p)>>
        known == SelectSeq(guesses, LAMBDA g : g # "unknown")
    IN IF known = <<>> THEN "unknown" ELSE Head(known)

\* Months after which a page of each type reads stale; a profile never does.
PAGE_TYPE_CADENCE(type) == IF type = "article" THEN 12 ELSE 24
NoCadence(type) == type = "team_member"

is_non_html_response(p) ==
    IF p.content_type # "" THEN p.content_type # "html" ELSE ~p.is_html_response

-----------------------------------------------------------------------------
\* Headings: those the operator suppressed, and a theme's banner, do not count.

\* No word of the page's part of the title is in the heading.
titles_mismatch(title, h) ==
    LET own == Words(SubSeq(title, 1, 1)) IN
    own # {} /\ Words(h) # {} /\ own \cap Words(h) = {}

Suppressed(h, texts) == h.level = 1 /\ h.text \in texts

Banner(p, o, h1s, outline) ==
    /\ o.suppress_banner_h1
    /\ p.title # NoText
    /\ Len(h1s) >= 2
    /\ LET tops == SelectSeq(outline, LAMBDA h : h.level = 1)
       IN \/ titles_mismatch(p.title, h1s[1])
          \/ tops # <<>> /\ tops[1].banner

effective_headings(p, o) ==
    LET h1s == SelectSeq(p.h1_tags, LAMBDA t : t \notin o.suppress_h1_strings)
        outline == SelectSeq(p.headings_outline,
                             LAMBDA h : ~Suppressed(h, o.suppress_h1_strings))
    IN IF Banner(p, o, h1s, outline)
       THEN [h1s |-> Tail(h1s),
             outline |-> SelectSeq(outline, LAMBDA h : ~Suppressed(h, {h1s[1]}))]
       ELSE [h1s |-> h1s, outline |-> outline]

check_headings(h) ==
    When(h.h1s = <<>>, "H1_MISSING")
    \cup When(Len(h.h1s) > 1, "H1_MULTIPLE")
    \cup When(\E i \in DOMAIN h.outline : h.outline[i].text = NoText, "HEADING_EMPTY")
    \cup When(\E i \in 2 .. Len(h.outline) : h.outline[i].level > h.outline[i - 1].level + 1,
              "HEADING_SKIP")

Level(p, k) == SelectSeq(p.headings_outline, LAMBDA h : h.level = k)

TitleAgainstHeadings(p, h) ==
    When(/\ p.title # NoText /\ h.h1s # <<>>
         /\ \A i \in DOMAIN h.h1s : titles_mismatch(p.title, h.h1s[i])
         /\ \A i \in DOMAIN p.headings_outline :
               LET e == p.headings_outline[i] IN
               e.level = 2 /\ e.text # NoText => titles_mismatch(p.title, e.text),
         "TITLE_H1_MISMATCH")

-----------------------------------------------------------------------------
\* Metadata, looked at on indexable pages only.

Length(t, least, most, short, long) ==
    When(Chars(t) < least, short) \cup When(Chars(t) > most, long)

check_canonical(p) ==
    IF p.canonical_url.id # ""
    THEN When(~is_same_domain(p.canonical_url, p.url), "CANONICAL_EXTERNAL")
    ELSE IF p.url.query THEN {"CANONICAL_MISSING"} ELSE {"CANONICAL_SELF_MISSING"}

check_metadata(p) ==
    (IF p.title = NoText THEN {"TITLE_MISSING"}
     ELSE Length(p.title, 30, 60, "TITLE_TOO_SHORT", "TITLE_TOO_LONG"))
    \cup
    (IF p.meta_description = NoText THEN {"META_DESC_MISSING"}
     ELSE Length(p.meta_description, 70, 160, "META_DESC_TOO_SHORT", "META_DESC_TOO_LONG"))
    \cup When(NoText \in {p.og_title, p.og_description, p.og_image, p.twitter_card},
              "SOCIAL_PREVIEW_METADATA_MISSING")
    \cup check_canonical(p)
    \cup When(~p.lang_attr, "LANG_MISSING")

-----------------------------------------------------------------------------
\* Reach, security and links.

check_crawlability(p) ==
    (IF p.is_indexable THEN {}
     ELSE {IF p.robots_source = "header" THEN "NOINDEX_HEADER" ELSE "NOINDEX_META"})
    \cup When(p.long_paragraph_count > 0, "PARA_TOO_LONG")
    \cup When(p.js_dependent_navigation, "JS_DEPENDENT_NAVIGATION")

\* A URL with a query is not expected in a sitemap.
InSitemap(p, o) ==
    \/ ~o.has_sitemap
    \/ ~p.is_indexable
    \/ p.url.query
    \/ p.final_url \in o.sitemap_urls
    \/ p.url.id \in o.sitemap_urls

\* has_hsts is "yes", "no", or "n/a" for a page not served over HTTPS.
check_security(p, o) ==
    IF p.url.scheme = "http" THEN {"HTTP_PAGE"}
    ELSE When(p.mixed_content_count > 0, "MIXED_CONTENT")
         \cup When(p.has_hsts = "no" /\ p.url.host \notin o.hsts_checked_hosts, "MISSING_HSTS")
         \cup When(p.unsafe_cross_origin_count > 0, "UNSAFE_CROSS_ORIGIN_LINK")

check_url_structure(u) ==
    When(u.n > 200, "URL_TOO_LONG")
    \cup When("upper" \in u.marks, "URL_UPPERCASE")
    \cup When("space" \in u.marks, "URL_HAS_SPACES")
    \cup When("underscore" \in u.marks, "URL_HAS_UNDERSCORES")

\* Images without alt text: those matching an ignored pattern do not count,
\* but a count whose images have no address does.
check_alt(p, o) ==
    LET srcs == p.img_missing_alt_srcs
        kept == {s \in srcs : s \notin o.ignored_image_patterns}
    IN When(p.img_missing_alt_count > 0 /\ (kept # {} \/ srcs = {}), "IMG_ALT_MISSING")

check_anchors(p, o) ==
    When(p.empty_anchor_hrefs \ o.exempt_anchor_urls # {}, "LINK_EMPTY_ANCHOR")
    \cup When(p.stacked_link_groups > 0, "LINK_STACKED_DUPLICATE")
    \cup When(p.is_indexable /\ \E i \in DOMAIN p.links : matches(p.links[i].text, "generic"),
              "ANCHOR_TEXT_GENERIC")
    \cup When(p.internal_nofollow_count > 0, "INTERNAL_NOFOLLOW")

check_placeholder_links(p) ==
    When("placeholder" \in p.placeholder_links, "PLACEHOLDER_LINK")
    \cup When("wrong_domain" \in p.placeholder_links, "WRONG_PLACEHOLDER_LINK")

-----------------------------------------------------------------------------
\* Semantic structure, the home page, and measurement.

check_semantic_html(p) ==
    IF p.status_code >= 400 THEN {}
    ELSE When(p.non_semantic_buttons > 0, "NON_SEMANTIC_BUTTON")
         \cup When(p.unnamed_interactive > 0, "INTERACTIVE_NO_ACCESSIBLE_NAME")
         \cup When(p.is_indexable /\ ~p.has_main_landmark, "LANDMARK_MAIN_MISSING")
         \cup When(p.is_homepage /\ ~p.has_nav_landmark, "LANDMARK_NAV_MISSING")

ORG_SCHEMA_TYPES ==
    {"Organization", "NGO", "NonprofitOrganization", "Corporation", "LocalBusiness",
     "EducationalOrganization", "GovernmentOrganization", "MedicalOrganization",
     "SportsOrganization", "PerformingGroup"}

check_homepage_agent_readiness(p) ==
    IF ~p.is_homepage THEN {}
    ELSE When(p.is_indexable /\ p.schema_types \cap ORG_SCHEMA_TYPES = {}, "SCHEMA_ORG_MISSING")
         \cup When(~p.contact_info_in_text, "CONTACT_INFO_NOT_IN_HTML")

DIRECT_MEASUREMENT_TYPES == {"ga4", "google_tag"}

\* Some call to action is measured and one that asks for a conversion is not.
check_cta_tracking(p) ==
    When(/\ \E c \in p.cta_elements : c.tracked
         /\ \E c \in p.cta_elements : c.conversion /\ ~c.tracked,
         "CTA_TRACKING_MISSING")

check_analytics(p) ==
    LET direct == SelectSeq(p.analytics_tags, LAMBDA t : t.type \in DIRECT_MEASUREMENT_TYPES)
        calls == SelectSeq(direct, LAMBDA t : t.via = "call")
        gtm == SelectSeq(p.analytics_tags, LAMBDA t : t.type = "gtm")
    IN (IF direct = <<>> /\ gtm = <<>>
        THEN {"ANALYTICS_TAG_MISSING"}
        ELSE When(Len(calls) >= 2 \/ (direct # <<>> /\ gtm # <<>>), "ANALYTICS_TAG_DUPLICATE")
             \cup When(p.has_consent_mode = "no", "CONSENT_MODE_MISSING")
             \cup check_cta_tracking(p))
       \cup When(\E i \in DOMAIN p.links : p.links[i].internal /\ "campaign" \in p.links[i].url.marks,
                 "SELF_REFERENCING_UTM")
       \cup When(p.untrackable_outbound_hrefs > 0, "OUTBOUND_LINK_UNTRACKABLE")

-----------------------------------------------------------------------------
\* Age: the server's date and the visible one, in days; Unknown if none.

Stale(type, days) == ~NoCadence(type) /\ days > PAGE_TYPE_CADENCE(type) * 30

check_content_date_stale_visible(p) ==
    /\ p.date_modified # Unknown
    /\ ~NoCadence(infer_page_type(p))
    /\ p.date_modified \div 30 > PAGE_TYPE_CADENCE(infer_page_type(p))

\* A year at least two years back, with no mention of this one, that is not
\* part of a copyright notice or of a range.
detect_outdated_stat(t) ==
    /\ ~matches(t, "this year")
    /\ matches(t, "past year")
    /\ ~matches(t, "copyright year")
    /\ ~matches(t, "year range")

\* The longest window of the page's first words that the parser kept.
text_window(p) ==
    IF p.first_1500_words # NoText THEN p.first_1500_words
    ELSE IF p.first_600_words # NoText THEN p.first_600_words ELSE p.first_200_words

check_age(p) ==
    When(/\ p.last_modified # Unknown /\ p.is_indexable
         /\ Stale(infer_page_type(p), p.last_modified), "CONTENT_STALE")
    \cup When(p.is_indexable /\ check_content_date_stale_visible(p), "CONTENT_DATE_STALE_VISIBLE")
    \cup When(/\ p.is_indexable /\ ~NoCadence(infer_page_type(p))
              /\ detect_outdated_stat(text_window(p)), "CONTENT_STAT_OUTDATED")

-----------------------------------------------------------------------------
\* Citations: the links to other hosts, less those of a list of platforms.

Citations(p) == SelectSeq(p.links, LAMBDA l : l.url.site # p.url.site /\ "platform" \notin l.url.marks)

attribution_style(p) ==
    LET footnote == matches(text_window(p), "footnote")
        inline == matches(text_window(p), "attribution")
    IN IF footnote THEN IF inline THEN "mixed" ELSE "footnote"
       ELSE IF inline \/ Citations(p) # <<>> THEN "inline" ELSE "none"

assess_citation_readiness(p) ==
    LET cs == Citations(p) IN
    IF p.word_count > 200 /\ cs = <<>> /\ attribution_style(p) = "none"
    THEN {"CITATIONS_MISSING_SUBSTANTIAL_CONTENT"}
    ELSE When(\E i \in DOMAIN cs : cs[i].text = NoText, "CITATIONS_ORPHANED")

citation_source_issues(p, inaccessible) ==
    LET cs == Citations(p) IN
    When(p.is_indexable /\ \E i \in DOMAIN cs : cs[i].url.id \in inaccessible,
         "CITATIONS_SOURCES_INACCESSIBLE")

js_render_issues(r) ==
    IF r.error THEN {}
    ELSE When(r.js_rendered_content_differs, "JS_RENDERED_CONTENT_DIFFERS")
         \cup When(r.content_cloaking_detected, "CONTENT_CLOAKING_DETECTED")
         \cup When(r.ua_content_differs, "UA_CONTENT_DIFFERS")

-----------------------------------------------------------------------------
\* Whether the content can be extracted: penalties from 100, extractable
\* above 50, and the first penalty that applies names the finding.

IMAGE_HEAVY_PENALTY == 55

Penalties(p) ==
    LET headings == Len(p.headings_outline) IN
    [no_text_content |-> IF p.word_count = 0 THEN 50 ELSE 0,
     thin_content |-> IF p.word_count > 0 /\ p.word_count < 100 THEN 60 ELSE 0,
     no_headings |-> IF headings = 0 /\ p.word_count > 200 THEN 55 ELSE 0,
     image_heavy |-> IF p.image_count > headings * 2 THEN IMAGE_HEAVY_PENALTY ELSE 0,
     no_structured_data |-> IF ~p.has_json_ld /\ p.word_count > 500 THEN 5 ELSE 0,
     unstructured_markup |-> IF Above(p.text_to_html_ratio, 50) THEN 5 ELSE 0]

assess_extractability(p) ==
    LET d == Penalties(p)
        total == d.no_text_content + d.thin_content + d.no_headings + d.image_heavy
                 + d.no_structured_data + d.unstructured_markup
    IN IF total > 100 THEN 0 ELSE 100 - total

diagnose_extractability(p) ==
    LET d == Penalties(p) IN
    IF assess_extractability(p) > 50 THEN {}
    ELSE CASE d.no_text_content > 0 -> {"CONTENT_NOT_EXTRACTABLE_NO_TEXT"}
           [] d.thin_content > 0 -> {"CONTENT_THIN"}
           [] d.no_headings > 0 -> {"CONTENT_UNSTRUCTURED"}
           [] d.image_heavy > 0 -> {"CONTENT_IMAGE_HEAVY"}
           [] OTHER -> {}

\* The sections of a page: how many siblings after its heading the first
\* paragraph, list or table comes; 0 when there is none.
BURIED_THRESHOLD == 3
is_answer_buried(p) == \E i \in DOMAIN p.sections : p.sections[i] >= BURIED_THRESHOLD

-----------------------------------------------------------------------------
\* Schema types against the type of the page.  No type counts as deprecated:
\* the table of deprecated types is empty.

SCHEMA_APPROPRIATENESS ==
    [home |-> {"Homepage", "Website", "Organization"},
     article |-> {"Article", "NewsArticle", "BlogPosting", "CreativeWork"},
     team_member |-> {"Person", "Employee", "Author"},
     service |-> {"Service", "Offer", "Product", "LocalBusiness"},
     faq |-> {"FAQPage", "QAPage"},
     contact |-> {"ContactPage", "LocalBusiness", "Organization"},
     about |-> {"AboutPage", "Organization", "Person"}]
DEPRECATED_SCHEMAS == {}

validate_schema_typing(p) ==
    LET type == infer_page_type(p) IN
    CASE p.schema_types \cap DEPRECATED_SCHEMAS # {} -> {"SCHEMA_DEPRECATED_TYPE"}
      [] {"Article", "Product"} \subseteq p.schema_types -> {"SCHEMA_TYPE_CONFLICT"}
      [] type = "unknown" -> {}
      [] OTHER -> When(p.schema_types \cap SCHEMA_APPROPRIATENESS[type] = {}, "SCHEMA_TYPE_MISMATCH")

-----------------------------------------------------------------------------
\* The checks for answer engines (checkers/ai_readiness.py).

count_statistics(p) ==
    hits(text_window(p), "statistic")
    + FoldLeft(LAMBDA n, h : n + hits(h.text, "statistic"), 0,
               SubSeq(p.headings_outline, 1, IF Len(p.headings_outline) < 10
                                             THEN Len(p.headings_outline) ELSE 10))

ExternalLinks(p) == SelectSeq(p.links, LAMBDA l : l.url.site # p.url.site)

count_orphan_claims(p) ==
    LET claims == hits(p.first_200_words, "claim")
        sources == Len(ExternalLinks(p))
    IN IF claims > sources THEN claims - sources ELSE 0

has_numbered_steps(p) ==
    \/ Len(SelectSeq(p.headings_outline, LAMBDA h : matches(h.text, "step"))) >= 2
    \/ p.ordered_list_item_count >= 2
    \/ hits(p.first_200_words, "numbered step") >= 2

is_technical(p) ==
    \/ p.schema_types \cap {"TechArticle", "HowTo"} # {}
    \/ InPath(p.url, {"how-to", "guide", "tutorial", "setup"})

is_article(p) ==
    \/ p.schema_types \cap {"BlogPosting", "Article", "NewsArticle"} # {}
    \/ InPath(p.url, {"blog", "post", "article", "news", "stories"})

\* More than four external links in five carry an affiliate or campaign mark.
promotional(p) ==
    LET external == SelectSeq(p.links, LAMBDA l : l.url.site # p.url.site)
        promo == SelectSeq(external, LAMBDA l : "affiliate" \in l.url.marks)
    IN external # <<>> /\ 10 * Len(promo) > 8 * Len(external)

HasHeading(p, pattern) ==
    \E i \in DOMAIN p.headings_outline : matches(p.headings_outline[i].text, pattern)

\* schema_objs: each JSON-LD node with its types, its completeness, whether it
\* is a root of its block (those must carry a type), and its authors.
check_schema_objs(p) ==
    When(\E o \in p.schema_objs : o.root /\ o.types = {}, "JSON_LD_INVALID")
    \cup When(\E o \in p.schema_objs : "HowTo" \in o.types /\ ~o.steps, "HOWTO_SCHEMA_INCOMPLETE")
    \cup When(\E o \in p.schema_objs : "Product" \in o.types /\ ~o.reviewed,
              "PRODUCT_REVIEW_SCHEMA_MISSING")
    \cup When(is_article(p) /\ \E o \in p.schema_objs : o.bare_author, "AUTHOR_CREDENTIALS_MISSING")

FAQ_ANSWER_MIN_CHARS == 40

\* faq_blocks: the length of the answer that follows each question.
check_faq(p) ==
    LET n == Len(p.faq_blocks)
        missing == Len(SelectSeq(p.faq_blocks, LAMBDA a : a < FAQ_ANSWER_MIN_CHARS))
    IN When("FAQPage" \notin p.schema_types /\ (HasHeading(p, "faq") \/ n >= 3),
            "FAQ_SCHEMA_MISSING")
       \cup When(missing >= 2 /\ 2 * missing >= n, "FAQ_ANSWERS_NOT_IN_HTML")

run_geo_checks(p) ==
    IF ~p.is_indexable \/ p.url.pdf THEN {}
    ELSE When(p.is_spa_shell /\ Below(p.text_to_html_ratio, 5), "RAW_HTML_JS_DEPENDENT")
         \cup (IF p.word_count < 500 THEN {}
               ELSE When(count_statistics(p) = 0, "STATISTICS_COUNT_LOW")
                    \cup When(ExternalLinks(p) = <<>>, "EXTERNAL_CITATIONS_LOW")
                    \cup When(p.blockquote_count + hits(text_window(p), "quotation") = 0,
                              "QUOTATIONS_MISSING")
                    \cup When(p.structured_element_count = 0, "STRUCTURED_ELEMENTS_LOW"))
         \cup When(is_technical(p) /\ p.word_count >= 300 /\ count_orphan_claims(p) >= 3,
                   "ORPHAN_CLAIM_TECHNICAL")
         \cup When(/\ p.word_count >= 200 /\ p.first_200_words # NoText
                   /\ ~matches(p.first_200_words, "answer"), "FIRST_VIEWPORT_NO_ANSWER")
         \cup When(p.word_count >= 200 /\ p.query_coverage_weak, "QUERY_COVERAGE_WEAK")
         \cup When(p.vague_opener_count > 0, "SECTION_VAGUE_OPENER")
         \cup When(p.cross_reference_count > 0, "SECTION_CROSS_REFERENCES")
         \cup When(is_article(p) /\ ~p.author_detected, "AUTHOR_BYLINE_MISSING")
         \cup When(is_article(p) /\ ~p.date_published, "DATE_PUBLISHED_MISSING")
         \cup When(is_article(p) /\ p.date_modified = Unknown, "DATE_MODIFIED_MISSING")
         \cup When(/\ is_technical(p) /\ p.word_count >= 200
                   /\ has_numbered_steps(p) /\ p.code_block_count = 0,
                   "CODE_BLOCK_MISSING_TECHNICAL")
         \cup When(HasHeading(p, "comparison") /\ p.table_count = 0, "COMPARISON_TABLE_MISSING")
         \cup When(p.word_count >= 300 /\ promotional(p), "LINK_PROFILE_PROMOTIONAL")
         \cup check_schema_objs(p)
         \cup check_faq(p)

-----------------------------------------------------------------------------
\* The rest of what answer engines can read of an indexable page.

VISUAL_COMPANION_PAGE_TYPES == {"article", "service", "faq"}

check_ai_no_visual_companion(p) ==
    When(/\ infer_page_type(p) \in VISUAL_COMPANION_PAGE_TYPES
         /\ p.word_count > 300 /\ p.image_count = 0, "AI_NO_VISUAL_COMPANION")

conversational_h2(p) ==
    LET h2s == Level(p, 2) IN
    IF h2s = <<>> THEN p.word_count < 300
    ELSE \E i \in DOMAIN h2s : matches(h2s[i].text, "question")

blog_sections(p) ==
    LET blog == \/ p.schema_types \cap {"BlogPosting", "Article"} # {}
                \/ InPath(p.url, {"blog", "post", "article", "news", "stories"})
                \/ \E i \in DOMAIN p.url.path : p.url.path[i] \in {"insight", "insights"}
        sections == SelectSeq(p.headings_outline,
                              LAMBDA h : h.level \in {2, 3} /\ Chars(h.text) > 5)
    IN p.word_count >= 500 /\ blog => Len(sections) >= 3

MAIN_CONTENT_LOW_RATIO == 40

check_ai_content(p) ==
    When(Below(p.text_to_html_ratio, 10), "SEMANTIC_DENSITY_LOW")
    \cup When(p.schema_types = {} /\ ~p.url.pdf, "JSON_LD_MISSING")
    \cup When(~p.url.pdf /\ ~conversational_h2(p), "CONVERSATIONAL_H2_MISSING")
    \cup When(~blog_sections(p), "BLOG_SECTIONS_MISSING")
    \cup (IF p.schema_types = {} THEN {} ELSE validate_schema_typing(p))
    \cup When(p.content_not_in_text, "AI_CONTENT_NOT_IN_TEXT")
    \cup When(p.ai_preview_suppressed, "AI_PREVIEW_SUPPRESSED")
    \cup When(p.ai_bot_blocked, "AI_PREVIEW_BLOCKED_AT_BOT")
    \cup check_ai_no_visual_companion(p)
    \cup When(Below(p.main_content_ratio, MAIN_CONTENT_LOW_RATIO),
              "AI_MAIN_CONTENT_LOW_RATIO")
    \cup When(is_answer_buried(p), "GEO_SUMMARY_BURIED")
    \cup diagnose_extractability(p)
    \cup (IF p.word_count > 200 THEN assess_citation_readiness(p) ELSE {})

-----------------------------------------------------------------------------
\* pdf_properties: "n/a" for a page that is not a PDF, else whether the
\* document's title and subject are both set.
pdf_document_property_issues(p) == When(p.pdf_properties = "missing", "DOCUMENT_PROPS_MISSING")

\* Everything one page is checked for.
check_page(p, o) ==
    IF is_non_html_response(p) THEN pdf_document_property_issues(p)
    ELSE LET h == effective_headings(p, o) IN
      (IF p.is_indexable
       THEN check_metadata(p) \cup TitleAgainstHeadings(p, h) \cup check_headings(h)
            \cup check_ai_content(p)
       ELSE {})
      \cup When(p.has_favicon = "no" /\ ~o.favicon_emitted, "FAVICON_MISSING")
      \cup check_crawlability(p)
      \cup When(~InSitemap(p, o), "NOT_IN_SITEMAP")
      \cup check_security(p, o)
      \cup check_analytics(p)
      \cup When(p.pagination, "PAGINATION_LINKS_PRESENT")
      \cup When(p.meta_refresh, "META_REFRESH_REDIRECT")
      \cup When(p.word_count \in 1 .. 299 /\ p.is_indexable, "THIN_CONTENT")
      \cup When(p.crawl_depth # Unknown /\ p.crawl_depth > 4, "HIGH_CRAWL_DEPTH")
      \cup check_age(p)
      \cup check_alt(p, o)
      \cup When(~p.has_viewport_meta, "MISSING_VIEWPORT_META")
      \cup check_anchors(p, o)
      \cup When(p.response_size_bytes > o.page_size_limit_kb * 1024, "PAGE_SIZE_LARGE")
      \cup When(p.schema_visible_mismatch, "SCHEMA_VISIBLE_MISMATCH")
      \cup pdf_document_property_issues(p)
      \cup run_geo_checks(p)
      \cup check_placeholder_links(p)
      \cup check_semantic_html(p)
      \cup check_homepage_agent_readiness(p)

=============================================================================
