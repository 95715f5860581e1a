---------------------------- MODULE IssueRegistry ----------------------------
(***************************************************************************)
(* The catalogue of findings (api/crawler/checkers/registry.py): the codes *)
(* of each section, their category, scoring scope and reach, the impact    *)
(* and effort of the scoring table and the calibration it is derived from, *)
(* and what make_issue builds from them.  Texts are left out.              *)
(***************************************************************************)
EXTENDS Naturals, Integers

-----------------------------------------------------------------------------
\* The sections of _CATALOGUE, in its order.

MetadataSection ==
    {"TITLE_MISSING", "TITLE_DUPLICATE", "TITLE_TOO_SHORT", "TITLE_TOO_LONG", "META_DESC_MISSING",
     "META_DESC_DUPLICATE", "META_DESC_TOO_SHORT", "META_DESC_TOO_LONG",
     "SOCIAL_PREVIEW_METADATA_MISSING", "CANONICAL_MISSING", "CANONICAL_EXTERNAL",
     "FAVICON_MISSING"}

HeadingSection ==
    {"H1_MISSING", "H1_MULTIPLE", "HEADING_SKIP", "HEADING_EMPTY"}

LinkSection ==
    {"BROKEN_LINK_404", "BROKEN_LINK_410", "BROKEN_LINK_5XX", "BROKEN_LINK_503",
     "EXTERNAL_LINK_SKIPPED", "EXTERNAL_LINK_TIMEOUT"}

RedirectSection ==
    {"REDIRECT_LOOP", "REDIRECT_301", "REDIRECT_302", "REDIRECT_CHAIN", "REDIRECT_TRAILING_SLASH",
     "REDIRECT_CASE_NORMALISE", "META_REFRESH_REDIRECT"}

ReachSection ==
    {"PAGE_TIMEOUT", "LOGIN_REDIRECT", "ROBOTS_BLOCKED", "NOINDEX_META", "NOINDEX_HEADER",
     "NOT_IN_SITEMAP", "PDF_TOO_LARGE"}

AssetSection ==
    {"IMG_OVERSIZED"}

IndexSection ==
    {"PAGINATION_LINKS_PRESENT", "THIN_CONTENT", "AMPHTML_BROKEN", "HIGH_CRAWL_DEPTH",
     "ORPHAN_PAGE", "CONTENT_STALE"}

SitemapSection ==
    {"SITEMAP_MISSING"}

SecuritySection ==
    {"HTTP_PAGE", "MIXED_CONTENT", "MISSING_HSTS", "UNSAFE_CROSS_ORIGIN_LINK",
     "WWW_CANONICALIZATION"}

UrlSection ==
    {"URL_UPPERCASE", "URL_HAS_SPACES", "URL_HAS_UNDERSCORES", "URL_TOO_LONG"}

AltSection ==
    {"IMG_ALT_MISSING"}

InternalRedirectSection ==
    {"INTERNAL_REDIRECT_301"}

ViewportSection ==
    {"MISSING_VIEWPORT_META"}

ImageSection ==
    {"IMG_BROKEN", "IMG_ALT_TOO_SHORT", "IMG_ALT_TOO_LONG", "IMG_ALT_GENERIC",
     "IMG_ALT_DUP_FILENAME", "IMG_ALT_MISUSED", "IMG_SLOW_LOAD", "IMG_OVERSCALED",
     "IMG_POOR_COMPRESSION", "IMG_FORMAT_LEGACY", "IMG_NO_SRCSET", "IMG_DUPLICATE_CONTENT"}

VitalsSection ==
    {"CWV_LCP_POOR", "CWV_INP_POOR", "CWV_CLS_POOR"}

AnchorSection ==
    {"LINK_STACKED_DUPLICATE", "LINK_EMPTY_ANCHOR", "ANCHOR_TEXT_GENERIC"}

MobileSection ==
    {"INTERNAL_NOFOLLOW", "PAGE_SIZE_LARGE"}

LanguageSection ==
    {"LANG_MISSING", "TITLE_H1_MISMATCH"}

RedirectSecuritySection ==
    {"HTTPS_REDIRECT_MISSING"}

CanonicalSelfSection ==
    {"CANONICAL_SELF_MISSING"}

AiAccessSection ==
    {"LLMS_TXT_MISSING", "LLMS_TXT_INVALID", "SEMANTIC_DENSITY_LOW", "DOCUMENT_PROPS_MISSING",
     "JSON_LD_MISSING", "CONVERSATIONAL_H2_MISSING", "BLOG_SECTIONS_MISSING",
     "AI_BOT_SEARCH_BLOCKED", "AI_BOT_TRAINING_DISALLOWED", "AI_BOT_USER_FETCH_BLOCKED",
     "AI_BOT_DEPRECATED_DIRECTIVE", "AI_BOT_NO_AI_DIRECTIVES", "AI_BOT_BLANKET_DISALLOW",
     "AI_BOT_TABLE_STALE", "SCHEMA_TYPE_MISMATCH", "SCHEMA_DEPRECATED_TYPE", "SCHEMA_TYPE_CONFLICT"}

AiContentSection ==
    {"SCHEMA_VISIBLE_MISMATCH", "AI_CONTENT_NOT_IN_TEXT", "AI_PREVIEW_SUPPRESSED",
     "AI_PREVIEW_BLOCKED_AT_BOT", "AI_NO_VISUAL_COMPANION", "AI_MAIN_CONTENT_LOW_RATIO",
     "CONTENT_NOT_EXTRACTABLE_NO_TEXT", "CONTENT_THIN", "CONTENT_UNSTRUCTURED",
     "CONTENT_IMAGE_HEAVY", "CITATIONS_MISSING_SUBSTANTIAL_CONTENT", "CITATIONS_ORPHANED",
     "CITATIONS_SOURCES_INACCESSIBLE", "STATISTICS_COUNT_LOW", "EXTERNAL_CITATIONS_LOW",
     "QUOTATIONS_MISSING"}

AiCitationSection ==
    {"ORPHAN_CLAIM_TECHNICAL", "RAW_HTML_JS_DEPENDENT", "JS_RENDERED_CONTENT_DIFFERS",
     "CONTENT_CLOAKING_DETECTED", "UA_CONTENT_DIFFERS", "FIRST_VIEWPORT_NO_ANSWER",
     "AUTHOR_BYLINE_MISSING", "DATE_PUBLISHED_MISSING", "DATE_MODIFIED_MISSING",
     "CODE_BLOCK_MISSING_TECHNICAL", "COMPARISON_TABLE_MISSING", "CHUNKS_NOT_SELF_CONTAINED",
     "CENTRAL_CLAIM_BURIED", "GEO_SUMMARY_BURIED", "LINK_PROFILE_PROMOTIONAL",
     "STRUCTURED_ELEMENTS_LOW", "JSON_LD_INVALID", "FAQ_SCHEMA_MISSING"}

AiAuthorSection ==
    {"FAQ_ANSWERS_NOT_IN_HTML", "PROMOTIONAL_CONTENT_INTERRUPTS", "AI_TXT_MISSING",
     "QUERY_COVERAGE_WEAK", "SECTION_VAGUE_OPENER", "SECTION_CROSS_REFERENCES"}

ParagraphSection ==
    {"PARA_TOO_LONG"}

AiSectionsSection ==
    {"CONTENT_DATE_STALE_VISIBLE", "CONTENT_STAT_OUTDATED", "AI_CITED_PAGE",
     "AI_HIGH_VALUE_UNCITED"}

NavigationSection ==
    {"JS_DEPENDENT_NAVIGATION"}

SemanticSection ==
    {"NON_SEMANTIC_BUTTON", "LANDMARK_MAIN_MISSING", "LANDMARK_NAV_MISSING",
     "INTERACTIVE_NO_ACCESSIBLE_NAME"}

PlaceholderSection ==
    {"PLACEHOLDER_LINK", "WRONG_PLACEHOLDER_LINK"}

AgentSection ==
    {"SCHEMA_ORG_MISSING", "CONTACT_INFO_NOT_IN_HTML", "ENTITY_NAME_INCONSISTENT",
     "ENTITY_SAMEAS_MISSING", "ENTITY_HOURS_DEFAULT", "ENTITY_NAP_INCOMPLETE", "ENTITY_FIELD_EMPTY"}

EntitySection ==
    {"ENTITY_VALUE_PLACEHOLDER", "AUTHOR_IDENTITY_INCONSISTENT", "NEAR_DUPLICATE_BODY",
     "BOILERPLATE_RATIO_HIGH", "HOWTO_SCHEMA_INCOMPLETE", "PRODUCT_REVIEW_SCHEMA_MISSING",
     "AUTHOR_CREDENTIALS_MISSING"}

AnalyticsSection ==
    {"ANALYTICS_TAG_MISSING", "ANALYTICS_TAG_DUPLICATE", "ANALYTICS_ID_INCONSISTENT",
     "CONSENT_MODE_MISSING", "SELF_REFERENCING_UTM", "OUTBOUND_LINK_UNTRACKABLE",
     "CTA_TRACKING_MISSING"}

-----------------------------------------------------------------------------
\* The category of each section's codes.

InCategory ==
    [metadata |->
        MetadataSection \cup AnchorSection \cup LanguageSection \cup CanonicalSelfSection,
     heading |-> HeadingSection,
     broken_link |-> LinkSection \cup PlaceholderSection,
     redirect |-> RedirectSection \cup InternalRedirectSection,
     crawlability |->
        ReachSection \cup IndexSection \cup ViewportSection \cup MobileSection
        \cup ParagraphSection,
     image |-> AssetSection \cup AltSection \cup ImageSection,
     sitemap |-> SitemapSection,
     security |-> SecuritySection \cup RedirectSecuritySection,
     url_structure |-> UrlSection,
     rendering |-> VitalsSection \cup NavigationSection,
     ai_readiness |->
        AiAccessSection \cup AiContentSection \cup AiCitationSection \cup AiAuthorSection
        \cup AiSectionsSection \cup AgentSection \cup EntitySection,
     semantic_html |-> SemanticSection,
     analytics |-> AnalyticsSection]

Categories == DOMAIN InCategory
Codes == UNION {InCategory[k] : k \in Categories}
category == [c \in Codes |-> CHOOSE k \in Categories : c \in InCategory[k]]

\* The findings charged once for the whole site, at their worst page.
SITE_SCOPED_CODES ==
    {"HTTP_PAGE", "MIXED_CONTENT", "MISSING_HSTS", "WWW_CANONICALIZATION", "HTTPS_REDIRECT_MISSING",
     "ENTITY_NAME_INCONSISTENT", "ENTITY_HOURS_DEFAULT", "ENTITY_NAP_INCOMPLETE",
     "ENTITY_FIELD_EMPTY", "ENTITY_VALUE_PLACEHOLDER", "AUTHOR_IDENTITY_INCONSISTENT",
     "NEAR_DUPLICATE_BODY", "ANALYTICS_ID_INCONSISTENT"}

issue_scope(c) == IF c \in SITE_SCOPED_CODES THEN "site" ELSE "page"

\* The codes flagged needs_full_crawl: a single-page scan cannot produce them.
checks_a_single_page_scan_cannot_run ==
    {"TITLE_DUPLICATE", "META_DESC_DUPLICATE", "REDIRECT_LOOP", "PAGE_TIMEOUT", "LOGIN_REDIRECT",
     "ROBOTS_BLOCKED", "NOT_IN_SITEMAP", "HIGH_CRAWL_DEPTH", "ORPHAN_PAGE", "WWW_CANONICALIZATION",
     "HTTPS_REDIRECT_MISSING", "LLMS_TXT_MISSING", "LLMS_TXT_INVALID", "AI_TXT_MISSING",
     "ENTITY_NAME_INCONSISTENT", "ENTITY_SAMEAS_MISSING", "ENTITY_HOURS_DEFAULT",
     "ENTITY_NAP_INCOMPLETE", "ENTITY_FIELD_EMPTY", "ENTITY_VALUE_PLACEHOLDER",
     "AUTHOR_IDENTITY_INCONSISTENT", "NEAR_DUPLICATE_BODY", "BOILERPLATE_RATIO_HIGH",
     "ANALYTICS_ID_INCONSISTENT"}

AGENT_READINESS_CATEGORIES == {"ai_readiness", "rendering", "semantic_html"}
AGENT_READINESS_EXTRA_CODES == {"PLACEHOLDER_LINK", "WRONG_PLACEHOLDER_LINK"}

\* Fix Focus and the Agent Health score sort the findings by this.
focus_bucket(cat, c) ==
    IF cat \in AGENT_READINESS_CATEGORIES \/ c \in AGENT_READINESS_EXTRA_CODES
    THEN "geo" ELSE "seo"

-----------------------------------------------------------------------------
\* The scoring table: impact and effort of each code.

ImpactOf0 ==
    {"REDIRECT_TRAILING_SLASH", "REDIRECT_CASE_NORMALISE", "UNSAFE_CROSS_ORIGIN_LINK",
     "EXTERNAL_LINK_SKIPPED", "PAGINATION_LINKS_PRESENT", "AI_BOT_TRAINING_DISALLOWED",
     "AI_BOT_TABLE_STALE", "AI_CITED_PAGE"}
ImpactOf1 ==
    {"BROKEN_LINK_503", "TITLE_TOO_SHORT", "SOCIAL_PREVIEW_METADATA_MISSING", "HEADING_SKIP",
     "MISSING_HSTS", "URL_TOO_LONG", "EXTERNAL_LINK_TIMEOUT", "PDF_TOO_LARGE", "IMG_ALT_TOO_SHORT",
     "IMG_ALT_TOO_LONG", "IMG_ALT_DUP_FILENAME", "IMG_ALT_MISUSED", "IMG_DUPLICATE_CONTENT",
     "TITLE_H1_MISMATCH", "LLMS_TXT_MISSING", "LLMS_TXT_INVALID", "SEMANTIC_DENSITY_LOW",
     "CONVERSATIONAL_H2_MISSING", "CONTENT_STALE", "HEADING_EMPTY", "AI_BOT_NO_AI_DIRECTIVES",
     "AI_NO_VISUAL_COMPANION", "CONTENT_IMAGE_HEAVY", "CITATIONS_ORPHANED",
     "CITATIONS_SOURCES_INACCESSIBLE", "CODE_BLOCK_MISSING_TECHNICAL", "COMPARISON_TABLE_MISSING",
     "LINK_PROFILE_PROMOTIONAL", "STRUCTURED_ELEMENTS_LOW", "PROMOTIONAL_CONTENT_INTERRUPTS",
     "AI_TXT_MISSING", "SECTION_VAGUE_OPENER", "SECTION_CROSS_REFERENCES", "PARA_TOO_LONG",
     "CONTENT_STAT_OUTDATED", "NON_SEMANTIC_BUTTON", "LANDMARK_MAIN_MISSING",
     "LANDMARK_NAV_MISSING", "INTERACTIVE_NO_ACCESSIBLE_NAME", "AUTHOR_IDENTITY_INCONSISTENT",
     "BOILERPLATE_RATIO_HIGH", "HOWTO_SCHEMA_INCOMPLETE", "AUTHOR_CREDENTIALS_MISSING",
     "OUTBOUND_LINK_UNTRACKABLE", "CTA_TRACKING_MISSING"}
ImpactOf3 ==
    {"BROKEN_LINK_5XX", "IMG_ALT_MISSING", "AI_BOT_USER_FETCH_BLOCKED", "CONTENT_UNSTRUCTURED",
     "CITATIONS_MISSING_SUBSTANTIAL_CONTENT", "STATISTICS_COUNT_LOW", "EXTERNAL_CITATIONS_LOW",
     "QUOTATIONS_MISSING", "ORPHAN_CLAIM_TECHNICAL"}
ImpactOf4 ==
    {"TITLE_DUPLICATE", "H1_MISSING", "MIXED_CONTENT", "THIN_CONTENT", "HIGH_CRAWL_DEPTH",
     "ORPHAN_PAGE", "IMG_BROKEN", "INTERNAL_NOFOLLOW", "JSON_LD_MISSING", "WWW_CANONICALIZATION",
     "AI_CONTENT_NOT_IN_TEXT", "AI_PREVIEW_SUPPRESSED", "AI_PREVIEW_BLOCKED_AT_BOT", "CONTENT_THIN",
     "AUTHOR_BYLINE_MISSING", "JSON_LD_INVALID", "FAQ_ANSWERS_NOT_IN_HTML", "SCHEMA_ORG_MISSING",
     "CONTACT_INFO_NOT_IN_HTML", "ENTITY_NAME_INCONSISTENT", "NEAR_DUPLICATE_BODY",
     "ANALYTICS_TAG_MISSING", "ANALYTICS_TAG_DUPLICATE"}
ImpactOf6 ==
    {"TITLE_MISSING", "CANONICAL_MISSING", "CANONICAL_EXTERNAL", "HTTP_PAGE", "PAGE_TIMEOUT",
     "MISSING_VIEWPORT_META", "HTTPS_REDIRECT_MISSING", "CWV_LCP_POOR", "CWV_INP_POOR",
     "CWV_CLS_POOR", "SCHEMA_VISIBLE_MISMATCH", "JS_RENDERED_CONTENT_DIFFERS",
     "CONTENT_CLOAKING_DETECTED", "UA_CONTENT_DIFFERS", "JS_DEPENDENT_NAVIGATION",
     "ENTITY_NAP_INCOMPLETE"}
ImpactOf9 ==
    {"ROBOTS_BLOCKED", "AI_BOT_SEARCH_BLOCKED", "AI_BOT_BLANKET_DISALLOW",
     "CONTENT_NOT_EXTRACTABLE_NO_TEXT", "RAW_HTML_JS_DEPENDENT"}
ImpactOf10 ==
    {"REDIRECT_LOOP", "NOINDEX_META", "NOINDEX_HEADER"}

ImpactOf(c) ==
    CASE c \in ImpactOf0 -> 0
      [] c \in ImpactOf1 -> 1
      [] c \in ImpactOf3 -> 3
      [] c \in ImpactOf4 -> 4
      [] c \in ImpactOf6 -> 6
      [] c \in ImpactOf9 -> 9
      [] c \in ImpactOf10 -> 10
      [] OTHER -> 2

EffortOf0 ==
    {"AI_CITED_PAGE"}
EffortOf1 ==
    {"REDIRECT_TRAILING_SLASH", "REDIRECT_CASE_NORMALISE", "TITLE_MISSING", "TITLE_TOO_SHORT",
     "TITLE_TOO_LONG", "META_DESC_MISSING", "META_DESC_TOO_SHORT", "META_DESC_TOO_LONG",
     "SOCIAL_PREVIEW_METADATA_MISSING", "H1_MISSING", "NOINDEX_META", "NOT_IN_SITEMAP",
     "UNSAFE_CROSS_ORIGIN_LINK", "EXTERNAL_LINK_TIMEOUT", "EXTERNAL_LINK_SKIPPED",
     "IMG_ALT_TOO_SHORT", "IMG_ALT_TOO_LONG", "IMG_ALT_GENERIC", "IMG_ALT_DUP_FILENAME",
     "LOGIN_REDIRECT", "INTERNAL_REDIRECT_301", "MISSING_VIEWPORT_META", "LANG_MISSING",
     "CANONICAL_SELF_MISSING", "LLMS_TXT_MISSING", "HEADING_EMPTY", "AI_BOT_SEARCH_BLOCKED",
     "AI_BOT_TRAINING_DISALLOWED", "AI_BOT_USER_FETCH_BLOCKED", "AI_BOT_DEPRECATED_DIRECTIVE",
     "AI_BOT_NO_AI_DIRECTIVES", "AI_BOT_BLANKET_DISALLOW", "AI_BOT_TABLE_STALE",
     "SCHEMA_DEPRECATED_TYPE", "AI_PREVIEW_SUPPRESSED", "AI_PREVIEW_BLOCKED_AT_BOT",
     "AI_NO_VISUAL_COMPANION", "AI_MAIN_CONTENT_LOW_RATIO", "CITATIONS_ORPHANED",
     "DATE_PUBLISHED_MISSING", "DATE_MODIFIED_MISSING", "AI_TXT_MISSING", "CONTENT_STAT_OUTDATED",
     "ENTITY_SAMEAS_MISSING", "ENTITY_HOURS_DEFAULT", "ENTITY_FIELD_EMPTY",
     "ENTITY_VALUE_PLACEHOLDER", "ANALYTICS_TAG_MISSING", "ANALYTICS_TAG_DUPLICATE",
     "SELF_REFERENCING_UTM", "OUTBOUND_LINK_UNTRACKABLE", "CTA_TRACKING_MISSING"}
EffortOf3 ==
    {"BROKEN_LINK_503", "REDIRECT_CHAIN", "CANONICAL_EXTERNAL", "HEADING_SKIP", "THIN_CONTENT",
     "HIGH_CRAWL_DEPTH", "PAGE_TIMEOUT", "AMPHTML_BROKEN", "IMG_OVERSCALED", "IMG_NO_SRCSET",
     "PAGE_SIZE_LARGE", "SEMANTIC_DENSITY_LOW", "CONTENT_STALE", "CWV_LCP_POOR", "CWV_INP_POOR",
     "CONTENT_THIN", "CONTENT_IMAGE_HEAVY", "CITATIONS_SOURCES_INACCESSIBLE",
     "RAW_HTML_JS_DEPENDENT", "UA_CONTENT_DIFFERS", "CENTRAL_CLAIM_BURIED", "GEO_SUMMARY_BURIED",
     "FAQ_ANSWERS_NOT_IN_HTML", "PROMOTIONAL_CONTENT_INTERRUPTS", "JS_DEPENDENT_NAVIGATION",
     "NON_SEMANTIC_BUTTON", "NEAR_DUPLICATE_BODY", "CONSENT_MODE_MISSING"}
EffortOf4 ==
    {"REDIRECT_LOOP", "CONTENT_NOT_EXTRACTABLE_NO_TEXT", "JS_RENDERED_CONTENT_DIFFERS",
     "CONTENT_CLOAKING_DETECTED", "CHUNKS_NOT_SELF_CONTAINED"}

EffortOf(c) ==
    CASE c \in EffortOf0 -> 0
      [] c \in EffortOf1 -> 1
      [] c \in EffortOf3 -> 3
      [] c \in EffortOf4 -> 4
      [] OTHER -> 2

\* The calibration record: how well a finding is supported and how large its
\* effect is; what is not listed is ("Established", "small").

EstablishedLarge ==
    {"AI_BOT_BLANKET_DISALLOW", "AI_BOT_SEARCH_BLOCKED", "CONTENT_NOT_EXTRACTABLE_NO_TEXT",
     "NOINDEX_HEADER", "NOINDEX_META", "RAW_HTML_JS_DEPENDENT", "REDIRECT_LOOP", "ROBOTS_BLOCKED"}
HeuristicSmall ==
    {"AI_BOT_NO_AI_DIRECTIVES", "AI_NO_VISUAL_COMPANION", "AI_TXT_MISSING",
     "AUTHOR_IDENTITY_INCONSISTENT", "BOILERPLATE_RATIO_HIGH", "BROKEN_LINK_503",
     "CITATIONS_ORPHANED", "CITATIONS_SOURCES_INACCESSIBLE", "CODE_BLOCK_MISSING_TECHNICAL",
     "COMPARISON_TABLE_MISSING", "CONTENT_IMAGE_HEAVY", "CONTENT_STALE", "CONTENT_STAT_OUTDATED",
     "CONVERSATIONAL_H2_MISSING", "EXTERNAL_LINK_TIMEOUT", "HEADING_EMPTY", "HEADING_SKIP",
     "IMG_ALT_DUP_FILENAME", "IMG_ALT_MISUSED", "IMG_ALT_TOO_LONG", "IMG_ALT_TOO_SHORT",
     "IMG_DUPLICATE_CONTENT", "INTERACTIVE_NO_ACCESSIBLE_NAME", "LANDMARK_MAIN_MISSING",
     "LANDMARK_NAV_MISSING", "LINK_PROFILE_PROMOTIONAL", "LLMS_TXT_INVALID", "LLMS_TXT_MISSING",
     "MISSING_HSTS", "NON_SEMANTIC_BUTTON", "PARA_TOO_LONG", "PDF_TOO_LARGE",
     "PROMOTIONAL_CONTENT_INTERRUPTS", "SECTION_CROSS_REFERENCES", "SECTION_VAGUE_OPENER",
     "SEMANTIC_DENSITY_LOW", "STRUCTURED_ELEMENTS_LOW", "TITLE_H1_MISMATCH", "TITLE_TOO_SHORT",
     "SOCIAL_PREVIEW_METADATA_MISSING", "URL_TOO_LONG", "HOWTO_SCHEMA_INCOMPLETE",
     "AUTHOR_CREDENTIALS_MISSING", "OUTBOUND_LINK_UNTRACKABLE", "CTA_TRACKING_MISSING"}
HeuristicNone ==
    {"AI_BOT_TABLE_STALE", "AI_HIGH_VALUE_UNCITED", "EXTERNAL_LINK_SKIPPED", "LOGIN_REDIRECT"}
EstablishedNone ==
    {"AI_BOT_TRAINING_DISALLOWED", "AI_CITED_PAGE", "PAGINATION_LINKS_PRESENT",
     "REDIRECT_CASE_NORMALISE", "REDIRECT_TRAILING_SLASH", "UNSAFE_CROSS_ORIGIN_LINK"}
ProxyModerate ==
    {"AI_CONTENT_NOT_IN_TEXT", "AUTHOR_BYLINE_MISSING", "CONTACT_INFO_NOT_IN_HTML", "CONTENT_THIN",
     "CONTENT_UNSTRUCTURED", "ENTITY_NAME_INCONSISTENT", "FAQ_ANSWERS_NOT_IN_HTML", "H1_MISSING",
     "HIGH_CRAWL_DEPTH", "IMG_BROKEN", "INTERNAL_NOFOLLOW", "JSON_LD_INVALID", "JSON_LD_MISSING",
     "MIXED_CONTENT", "NEAR_DUPLICATE_BODY", "ORPHAN_PAGE", "SCHEMA_ORG_MISSING", "THIN_CONTENT",
     "TITLE_DUPLICATE", "WWW_CANONICALIZATION", "ANALYTICS_TAG_MISSING", "ANALYTICS_TAG_DUPLICATE"}
HeuristicModerate ==
    {"AI_MAIN_CONTENT_LOW_RATIO", "BLOG_SECTIONS_MISSING", "CENTRAL_CLAIM_BURIED",
     "CHUNKS_NOT_SELF_CONTAINED", "ENTITY_HOURS_DEFAULT", "FIRST_VIEWPORT_NO_ANSWER",
     "GEO_SUMMARY_BURIED", "QUERY_COVERAGE_WEAK", "CONSENT_MODE_MISSING"}
EstablishedModerate ==
    {"AI_PREVIEW_BLOCKED_AT_BOT", "AI_PREVIEW_SUPPRESSED", "CWV_LCP_POOR", "CWV_INP_POOR",
     "CWV_CLS_POOR", "CANONICAL_EXTERNAL", "CANONICAL_MISSING", "ENTITY_NAP_INCOMPLETE",
     "HTTPS_REDIRECT_MISSING", "HTTP_PAGE", "JS_DEPENDENT_NAVIGATION",
     "JS_RENDERED_CONTENT_DIFFERS", "MISSING_VIEWPORT_META", "SCHEMA_VISIBLE_MISMATCH",
     "TITLE_MISSING"}
ProxySmall ==
    {"AMPHTML_BROKEN", "LINK_STACKED_DUPLICATE", "BROKEN_LINK_5XX", "CONTENT_DATE_STALE_VISIBLE",
     "DATE_MODIFIED_MISSING", "DATE_PUBLISHED_MISSING", "ENTITY_SAMEAS_MISSING",
     "ENTITY_VALUE_PLACEHOLDER", "IMG_FORMAT_LEGACY", "IMG_NO_SRCSET", "IMG_OVERSCALED",
     "IMG_POOR_COMPRESSION", "IMG_SLOW_LOAD", "LINK_EMPTY_ANCHOR", "PAGE_SIZE_LARGE",
     "PLACEHOLDER_LINK", "SCHEMA_TYPE_CONFLICT", "SCHEMA_TYPE_MISMATCH", "URL_UPPERCASE",
     "WRONG_PLACEHOLDER_LINK", "PRODUCT_REVIEW_SCHEMA_MISSING", "ANALYTICS_ID_INCONSISTENT",
     "SELF_REFERENCING_UTM"}
Measured ==
    {"CITATIONS_MISSING_SUBSTANTIAL_CONTENT", "EXTERNAL_CITATIONS_LOW", "ORPHAN_CLAIM_TECHNICAL",
     "QUOTATIONS_MISSING", "STATISTICS_COUNT_LOW"}
ProxyLarge ==
    {"CONTENT_CLOAKING_DETECTED", "PAGE_TIMEOUT", "UA_CONTENT_DIFFERS"}

IMPACT_MATRIX ==
    [Heuristic   |-> [none |-> 0, small |-> 1, moderate |-> 2, large |-> 3],
     Proxy       |-> [none |-> 0, small |-> 2, moderate |-> 4, large |-> 6],
     Established |-> [none |-> 0, small |-> 2, moderate |-> 6, large |-> 9]]

MEASURED_MATRIX == [none |-> 0, small |-> 2, moderate |-> 3, large |-> 4]

CALIBRATION(c) ==
    CASE c \in EstablishedLarge -> <<"Established", "large">>
      [] c \in HeuristicSmall -> <<"Heuristic", "small">>
      [] c \in HeuristicNone -> <<"Heuristic", "none">>
      [] c \in EstablishedNone -> <<"Established", "none">>
      [] c \in ProxyModerate -> <<"Proxy", "moderate">>
      [] c \in HeuristicModerate -> <<"Heuristic", "moderate">>
      [] c \in EstablishedModerate -> <<"Established", "moderate">>
      [] c \in ProxySmall -> <<"Proxy", "small">>
      [] c \in Measured -> <<"Heuristic", "moderate">>
      [] c \in ProxyLarge -> <<"Proxy", "large">>
      [] OTHER -> <<"Established", "small">>

\* The adjudicated deviations from the matrix.
IMPACT_OVERRIDES ==
    [AI_BOT_USER_FETCH_BLOCKED |-> 3,
     AI_HIGH_VALUE_UNCITED |-> 2,
     AI_PREVIEW_BLOCKED_AT_BOT |-> 4,
     AI_PREVIEW_SUPPRESSED |-> 4,
     BROKEN_LINK_5XX |-> 3,
     CONTENT_UNSTRUCTURED |-> 3,
     IMG_ALT_MISSING |-> 3,
     LOGIN_REDIRECT |-> 2]

PAGE_FATAL_10 == {"NOINDEX_HEADER", "NOINDEX_META", "REDIRECT_LOOP"}

derive_impact(c) ==
    LET cal == CALIBRATION(c) IN
    IF c \in DOMAIN IMPACT_OVERRIDES THEN IMPACT_OVERRIDES[c]
    ELSE IF c \in PAGE_FATAL_10 /\ cal = <<"Established", "large">> THEN 10
    ELSE IF c \in Measured THEN MEASURED_MATRIX[cal[2]]
    ELSE IMPACT_MATRIX[cal[1]][cal[2]]

\* The scoring table is the one the calibration gives.
ASSUME ImpactsAreDerived == \A c \in Codes : ImpactOf(c) = derive_impact(c)

-----------------------------------------------------------------------------
\* Severity and the tiers of the info band.

severity_from_impact(i) ==
    IF i >= 8 THEN "critical" ELSE IF i >= 4 THEN "warning" ELSE "info"

info_tier(i) ==
    IF i >= 4 THEN "none"
    ELSE IF i >= 3 THEN "high" ELSE IF i >= 2 THEN "medium" ELSE "low"

\* The levels of the info_detail setting, loosest first, and the least impact
\* of the info band each keeps; "none" keeps no row of the band.
INFO_DETAIL_LEVELS == <<"all", "notable", "key", "none">>
INFO_DETAIL_MIN_IMPACT == [all |-> 0, notable |-> 2, key |-> 3, none |-> 4]

info_detail_rank(level) == CHOOSE k \in 1 .. 4 : INFO_DETAIL_LEVELS[k] = level

info_row_excluded(i, level) == i < 4 /\ i < INFO_DETAIL_MIN_IMPACT[level]

\* What make_issue stores of a code found on a page; n counts the offending
\* links a per-target code stands for, source and target are the ends of a link.
priority_rank(i, e) == i * 10 - e * 6

make_issue(c, page) ==
    [code |-> c, page |-> page, category |-> category[c], impact |-> ImpactOf(c),
     severity |-> severity_from_impact(ImpactOf(c)), n |-> 1, source |-> "", target |-> ""]

=============================================================================
