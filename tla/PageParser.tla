----------------------------- MODULE PageParser -----------------------------
(***************************************************************************)
(* The HTML parser (api/crawler/parser.py): from the response of a server  *)
(* to the page the checks look at.                                         *)
(*                                                                         *)
(* A response has url and final (the URLs asked for and answered from),    *)
(* status_code, content_type, doc (NoDocument when there is no HTML), size *)
(* in bytes, x_robots (the directives of its header, each with the bot it  *)
(* names or ""), hsts, and pdf ("n/a", "set" or "missing" properties).     *)
(*                                                                         *)
(* What the parser asks of an element is an attribute here: href when it   *)
(* leads to a URL and action when it does not ("#", "fragment", "mailto",  *)
(* "javascript:void", ...), rel, content, src and so on.  A script of      *)
(* structured data has the sequence of the nodes of its block.             *)
(***************************************************************************)
EXTENDS Markup

NoDocument == <<>>

HEADINGS == <<"h1", "h2", "h3", "h4", "h5", "h6">>
AnyHeading == {HEADINGS[k] : k \in 1 .. 6}
LevelOf(tag) == CHOOSE k \in 1 .. 6 : HEADINGS[k] = tag

\* The elements of a set, in the order of the document, each read by R.
Read(d, S, R(_)) == LET s == InOrder(S) IN [k \in DOMAIN s |-> R(s[k])]

\* A value of the first element of a set, and the default if there is none.
OfFirst(S, R(_), default) == IF S = {} THEN default ELSE R(Min(S))

body(d) == find_all(d, {"body"})
BodyText(d) == IF body(d) = {} THEN TextOf(d, DOMAIN d) ELSE get_text(d, Min(body(d)))

With(d, tags, a, v) == {i \in find_all(d, tags) : Get(d[i], a, "") = v}
Linking(d) == {i \in find_all(d, {"a"}) : Has(d[i], "href")}

-----------------------------------------------------------------------------
\* The head of the document and the headers.

extract_title(d) == OfFirst(find_all(d, {"title"}), LAMBDA i : get_text(d, i), NoText)

\* The content of the first meta element of that name or property.
extract_meta(d, name) == OfFirst(With(d, {"meta"}, "name", name),
                                 LAMBDA i : Get(d[i], "content", NoText), NoText)

LinkRel(d, rel) == {i \in find_all(d, {"link"}) : rel \in Get(d[i], "rel", {})}
link_rel(d, rel) == OfFirst(LinkRel(d, rel), LAMBDA i : Get(d[i], "href", NoUrl), NoUrl)

\* Any noindex in the header hides the page, one meant for a single bot too.
robots_signals(r) ==
    IF \E x \in r.x_robots : x.directive = "noindex"
    THEN [is_indexable |-> FALSE, source |-> "header"]
    ELSE [is_indexable |-> "noindex" \notin OfFirst(With(r.doc, {"meta"}, "name", "robots"),
                                                    LAMBDA i : Get(r.doc[i], "content", {}), {}),
          source |-> "meta"]

AI_BOTS == {"gptbot", "claudebot", "perplexitybot", "google-extended"}

preview_suppressed(r) == \E x \in r.x_robots : x.bot = "" /\ x.directive \in {"nosnippet", "max-snippet:0"}
bot_blocked(r) == \E x \in r.x_robots : x.bot \in AI_BOTS /\ x.directive \in {"noindex", "nosnippet"}

\* A heading without text of its own has the text of a block inside it that
\* the tree builder moved out.
headings_outline(d) ==
    LET entry(i) == [level |-> LevelOf(d[i].tag),
                     text |-> IF get_text(d, i) # NoText THEN get_text(d, i)
                              ELSE Get(d[i], "recovered", NoText),
                     banner |-> "banner" \in d[i].marks]
    IN Read(d, find_all(d, AnyHeading), entry)

\* The metas that date a page have the age in days as their content.
DatedBy(d, name) == {i \in With(d, {"meta"}, "name", name) : Has(d[i], "content")}

-----------------------------------------------------------------------------
\* Structured data.

Scripts(d) == find_all(d, {"script"})
nodes(d) == FlattenSeq(Read(d, {i \in Scripts(d) : Has(d[i], "ld")}, LAMBDA i : d[i].attrs.ld))
NodesOf(d) == {nodes(d)[k] : k \in DOMAIN nodes(d)}

schema_types(d) ==
    UNION {n.types : n \in NodesOf(d)}
    \cup {d[i].attrs.itemtype : i \in {k \in DOMAIN d : Has(d[k], "itemtype")}}

\* claims: the phrases the checked fields of a node publish.
check_schema_visible_mismatch(d) ==
    LET visible == {p.id : p \in {TextOf(d, DOMAIN d)[k] : k \in DOMAIN TextOf(d, DOMAIN d)}} IN
    /\ visible # {}
    /\ \E n \in NodesOf(d) : n.claims \ visible # {}

\* Only the nodes at the top of a block are asked for the author and the dates.
top_nodes(d) == SelectSeq(nodes(d), LAMBDA n : n.top)

detect_author(d) ==
    \/ \E i \in Linking(d) : "author" \in Get(d[i], "rel", {})
    \/ \E i \in DOMAIN d : Get(d[i], "itemprop", "") = "author" \/ "author" \in d[i].marks
    \/ \E k \in DOMAIN top_nodes(d) : top_nodes(d)[k].author
    \/ With(d, {"meta"}, "name", "author") # {}

date_published(d) ==
    \/ \E k \in DOMAIN top_nodes(d) : top_nodes(d)[k].published
    \/ DatedBy(d, "published") # {}

date_modified(d) ==
    LET dated == SelectSeq(top_nodes(d), LAMBDA n : n.modified # Unknown) IN
    IF dated # <<>> THEN Head(dated).modified
    ELSE OfFirst(DatedBy(d, "modified"), LAMBDA i : d[i].attrs.content, Unknown)

-----------------------------------------------------------------------------
\* Links.

\* The first link to each address.
extract_links(d, base) ==
    LET first == {i \in Linking(d) : /\ OverHttp(d[i].attrs.href)
                                     /\ \A j \in Linking(d) :
                                           j < i => d[j].attrs.href.id # d[i].attrs.href.id}
    IN Read(d, first, LAMBDA i : [url |-> d[i].attrs.href, text |-> get_text(d, i),
                                  internal |-> is_same_domain(d[i].attrs.href, base)])

HasAlt(d, i) == Get(d[i], "alt", "") = "text"

accessible_name(d, i) ==
    LET images == {j \in below(d, i) : d[j].tag = "img"}
        labelled == {j \in below(d, i) : Has(d[j], "aria_label")}
    IN \/ Has(d[i], "aria_label") \/ Has(d[i], "title") \/ Has(d[i], "labelledby")
       \/ get_text(d, i) # NoText
       \/ images # {} /\ HasAlt(d, Min(images))
       \/ labelled # {}

empty_anchors(d) == {d[i].attrs.href.id : i \in {k \in Linking(d) : ~accessible_name(d, k)}}

internal_nofollow(d, base) ==
    {i \in Linking(d) : /\ is_same_domain(d[i].attrs.href, base)
                        /\ "nofollow" \in Get(d[i], "rel", {})}

\* A telephone link that opens a new window is of another origin, too.
unsafe_cross_origin(d, page) ==
    {i \in find_all(d, {"a"}) :
        /\ Has(d[i], "blank")
        /\ \/ Has(d[i], "href") /\ ~is_same_domain(d[i].attrs.href, page)
           \/ Get(d[i], "action", "") \in {"tel", "data"}
        /\ Get(d[i], "rel", {}) \cap {"noopener", "noreferrer"} = {}}

VISUALS == {"img", "svg", "picture", "i", "span"}

untrackable_outbound(d, page) ==
    {i \in Linking(d) :
        LET u == d[i].attrs.href
            images == {j \in below(d, i) : d[j].tag = "img"}
        IN /\ OverHttp(u) /\ ~is_same_domain(u, page)
           /\ get_text(d, i) = NoText
           /\ ~Has(d[i], "aria_label") /\ ~Has(d[i], "title")
           /\ images # {} => ~HasAlt(d, Min(images))
           /\ \E j \in below(d, i) : d[j].tag \in VISUALS}

\* Links that lead nowhere and look as if they should, and links to hosts that
\* templates are delivered with.  The first ten are kept, whatever their kind.
PLACEHOLDER_LIMIT == 10

toggle(e) == Get(e, "role", "") \in {"button", "tab", "menuitem"} \/ Has(e, "expands")

wrong_domain(u, base) ==
    \/ "placeholder host" \in u.marks
    \/ "stray host" \in u.marks /\ u.path = <<>> /\ ~is_same_domain(u, base)

placeholder_links(d, base) ==
    LET dead == {i \in find_all(d, {"a"}) :
                    /\ Get(d[i], "action", "") \in {"#", "javascript:void"}
                    /\ ~toggle(d[i])
                    /\ "button" \in d[i].marks \/ matches(get_text(d, i), "cta")}
        wrong == {i \in Linking(d) : wrong_domain(d[i].attrs.href, base)}
        kinds == Read(d, dead \cup wrong,
                      LAMBDA i : IF i \in dead THEN "placeholder" ELSE "wrong_domain")
    IN {kinds[k] : k \in {j \in DOMAIN kinds : j <= PLACEHOLDER_LIMIT}}

-----------------------------------------------------------------------------
\* Links to one place stacked inside one card: the deepest card answers.

NEVER_CARD_TAGS == {"main", "body", "html"}
CARD_TAGS == {"li", "article"}
MIN_GROUP_SIZE == 2
MAX_CARD_LINKS == 15
MIN_PAGE_TEXT == 500

looks_like_card(d, i) ==
    /\ d[i].tag \notin NEVER_CARD_TAGS
    /\ Get(d[i], "role", "") # "main"
    /\ "not card" \notin d[i].marks
    /\ IF d[i].tag \in CARD_TAGS
       THEN d[i].tag = "article" => Cardinality(find_all(d, {"article"})) >= 2
       ELSE "card" \in d[i].marks

\* The only candidate of a page is no card when it holds half of the text.
card_containers(d) ==
    LET candidates == {i \in DOMAIN d : looks_like_card(d, i) /\ within(d, i, {"body"})}
        total == Chars(BodyText(d))
    IN {i \in candidates :
          /\ Cardinality(below(d, i) \cap Linking(d)) <= MAX_CARD_LINKS
          /\ (Cardinality(candidates) <= 1 /\ total >= MIN_PAGE_TEXT)
                => 2 * Chars(get_text(d, i)) < total}

stacked_links(d) ==
    LET to(c) == {i \in below(d, c) \cap Linking(d) : TRUE}
        group(c, id) == {i \in to(c) : d[i].attrs.href.id = id}
        groups == {g \in card_containers(d) \X {d[i].attrs.href.id : i \in Linking(d)} :
                      Cardinality(group(g[1], g[2])) >= MIN_GROUP_SIZE}
    IN {g \in groups : \A h \in groups : ~(h[2] = g[2] /\ g[1] \in d[h[1]].up)}

-----------------------------------------------------------------------------
\* Images, mixed content and scripts.  The addresses an image may have, in
\* the order they are tried: its source, the lazy ones, the first of a set.

candidates_of(e) ==
    LET one(a) == IF Has(e, a) THEN <<e.attrs[a]>> ELSE <<>>
        set == Get(e, "srcset", <<>>)
    IN one("src") \o Get(e, "lazy", <<>>) \o SubSeq(set, 1, IF set = <<>> THEN 0 ELSE 1)

resolve_img_src(e) ==
    LET usable == SelectSeq(candidates_of(e), OverHttp) IN
    IF usable = <<>> THEN NoUrl ELSE Head(usable)

is_inline_data_image(e) ==
    LET all == candidates_of(e) IN
    all # <<>> /\ \A k \in DOMAIN all : all[k].scheme = "data"

\* alt is absent, "empty" (decorative), "blank", or "text".
alt_is_unusable(e) == Get(e, "alt", "blank") = "blank"

images(d) == find_all(d, {"img"})
image_urls(d) == {i \in images(d) : resolve_img_src(d[i]) # NoUrl}
no_alt(d) == {i \in images(d) : alt_is_unusable(d[i])}

img_missing_alt(d) ==
    {i \in no_alt(d) : ~(resolve_img_src(d[i]) = NoUrl /\ is_inline_data_image(d[i]))}

img_missing_alt_srcs(d) ==
    {resolve_img_src(d[i]).id : i \in no_alt(d) \cap image_urls(d)}

MIXED_TAGS == {"script", "iframe", "img", "audio", "video", "source"}

mixed_content(d, page) ==
    IF page.scheme # "https" THEN {}
    ELSE {i \in find_all(d, MIXED_TAGS) : Get(d[i], "src", NoUrl).scheme = "http"}
         \cup {i \in LinkRel(d, "stylesheet") : Get(d[i], "href", NoUrl).scheme = "http"}

\* loads, calls: the tag types a script's source and its text are signs of;
\* ids: the measurement ids in them.  Some types are nothing without an id.
TAG_SIGNATURES == <<"ga4", "google_tag", "gtm", "ua">>
REQUIRE_ID == {"google_tag", "ua"}

analytics_tags(d) ==
    LET of(i) ==
          LET ids == Get(d[i], "ids", [t \in {} |-> ""])
              found == SelectSeq(TAG_SIGNATURES,
                         LAMBDA t : /\ t \in Get(d[i], "loads", {}) \cup Get(d[i], "calls", {})
                                    /\ t \in REQUIRE_ID => t \in DOMAIN ids)
          IN [k \in DOMAIN found |->
                [type |-> found[k],
                 via |-> IF found[k] \in Get(d[i], "loads", {}) THEN "src" ELSE "call",
                 id |-> IF found[k] \in DOMAIN ids THEN ids[found[k]] ELSE ""]]
    IN FlattenSeq(Read(d, Scripts(d), of))

has_consent_mode(d) ==
    IF Scripts(d) = {} THEN "n/a"
    ELSE IF \E i \in Scripts(d) : Has(d[i], "consent") THEN "yes" ELSE "no"

\* Calls to action.  One is measured when it, or what is up to four levels
\* around it, bears the marks of a tracker.
MAX_CTA_ELEMENTS == 300
MAX_CTA_ANCESTORS == 4

cta_context(d, i) ==
    {j \in d[i].up : /\ d[j].tag \notin {"body", "html"}
                     /\ Cardinality({k \in d[i].up : k >= j}) <= MAX_CTA_ANCESTORS}

is_cta(e) ==
    \/ e.tag = "button" \/ Get(e, "role", "") = "button"
    \/ e.tag = "input" /\ Get(e, "type", "") \in {"submit", "button"}
    \/ e.tag = "a" /\ "button" \in e.marks

cta_elements(d) ==
    LET named == {i \in find_all(d, {"button", "a", "input"}) :
                     /\ is_cta(d[i])
                     /\ \/ get_text(d, i) # NoText
                        \/ \E a \in {"aria_label", "value", "title"} : Has(d[i], a)}
        kept == {i \in named : Cardinality({j \in named : j <= i}) <= MAX_CTA_ELEMENTS}
    IN {[tracked |-> \/ "tracked" \in d[i].marks \/ Has(d[i], "tracked_onclick")
                     \/ \E j \in cta_context(d, i) : "tracked" \in d[j].marks,
         conversion |-> \/ matches(get_text(d, i), "conversion")
                        \/ get_text(d, i) = NoText /\ Has(d[i], "conversion_label")] : i \in kept}

-----------------------------------------------------------------------------
\* Semantics: landmarks, navigation, buttons and fields.

has_landmark(d, tag, role) == \E i \in DOMAIN d : d[i].tag = tag \/ Get(d[i], "role", "") = role

\* A menu none of whose links leads anywhere; a fragment is somewhere.
js_dependent_navigation(d) ==
    LET regions == {i \in DOMAIN d : \/ d[i].tag = "nav"
                                     \/ Get(d[i], "role", "") = "navigation"
                                     \/ "nav" \in d[i].marks}
        usable(j) == /\ d[j].tag = "a"
                     /\ \/ Has(d[j], "href")
                        \/ Get(d[j], "action", "#") \notin {"#", "javascript:void", "javascript"}
    IN regions # {} /\ ~\E i \in regions : \E j \in below(d, i) : usable(j)

INTERACTIVE_ROLES ==
    {"button", "link", "menuitem", "tab", "checkbox", "radio", "switch", "option"}

non_semantic_buttons(d) ==
    {i \in find_all(d, {"div", "span"}) :
        /\ Get(d[i], "role", "") \notin INTERACTIVE_ROLES
        /\ Has(d[i], "onclick") \/ ("button" \in d[i].marks /\ Has(d[i], "tabindex"))}

NAMELESS_INPUT_TYPES ==
    {"text", "email", "tel", "url", "search", "password", "number", "date"}

labelled_field(d, i) ==
    \/ \E a \in {"aria_label", "title", "placeholder", "labelledby"} : Has(d[i], a)
    \/ Has(d[i], "id") /\ With(d, {"label"}, "for", d[i].attrs.id) # {}
    \/ within(d, i, {"label"})

unnamed_interactive(d) ==
    {i \in find_all(d, {"button"}) : ~accessible_name(d, i) /\ ~Has(d[i], "value")}
    \cup {i \in find_all(d, {"input", "select", "textarea"}) :
            /\ d[i].tag = "input" => Get(d[i], "type", "text") \in NAMELESS_INPUT_TYPES
            /\ ~labelled_field(d, i)}

has_contact_info(d) ==
    \/ \E i \in find_all(d, {"a"}) : Get(d[i], "action", "") \in {"mailto", "tel"}
    \/ matches(BodyText(d), "email") \/ matches(BodyText(d), "phone")

SPA_SHELL_IDS == {"root", "app", "__next", "__nuxt", "react-root", "vue-app"}
SPA_SHELL_TAGS == {"app-root", "ng-view", "ion-app"}

spa_shell(d) ==
    LET called(id) == {i \in DOMAIN d : Get(d[i], "id", "") = id} IN
    \/ \E id \in SPA_SHELL_IDS : called(id) # {} /\ Chars(get_text(d, Min(called(id)))) < 50
    \/ find_all(d, SPA_SHELL_TAGS) # {}

-----------------------------------------------------------------------------
\* The content of the body.

CHROME == {"nav", "header", "footer", "aside", "script", "style"}

count_words(d) == IF body(d) = {} THEN 0 ELSE Count(BodyText(decompose(d, CHROME)))

\* The main element, or one in that role, or the first article.
main_content_ratio(d) ==
    LET found == <<find_all(d, {"main"}), {i \in DOMAIN d : Get(d[i], "role", "") = "main"},
                   find_all(d, {"article"})>>
        main == SelectSeq(found, LAMBDA S : S # {})
    IN IF main = <<>> \/ body(d) = {} THEN <<0, 0>>
       ELSE <<Chars(get_text(d, Min(Head(main)))), Chars(BodyText(d))>>

DECORATIVE_TAGS == {"svg", "script", "style", "noscript", "#text"}
CONTENT_TAGS == {"p", "ul", "ol", "li", "table"}

\* Below a heading, up to the next: in which place the first paragraph, list
\* or table comes, 0 if there is none.
section_first_content_depth(d, h) ==
    LET after == siblings_after(d, h)
        ends == {i \in after : d[i].tag \in AnyHeading}
        blocks == {i \in after : /\ d[i].tag \notin DECORATIVE_TAGS
                                 /\ \A e \in ends : i < e}
        content == {i \in blocks : \E j \in {i} \cup below(d, i) : d[j].tag \in CONTENT_TAGS}
    IN IF content = {} THEN 0 ELSE Cardinality({i \in blocks : i <= Min(content)})

walk_sections(d) == Read(d, find_all(d, {"h2", "h3"}), LAMBDA h : section_first_content_depth(d, h))

detect_content_not_in_text(d) ==
    /\ find_all(d, {"h1"}) # {}
    /\ \/ find_all(d, {"iframe", "embed", "object"}) # {} /\ count_words(d) < 100
       \/ find_all(d, {"img", "video"}) # {} /\ count_words(d) < 50

loose_code(d) == {i \in find_all(d, {"code"}) : ~within(d, i, {"pre"})}

first_n_words(d, n) == FirstWords(BodyText(d), n)

\* The first block of text below a heading begins with an unexplained "this".
count_vague_openers(d) ==
    LET opener(h) ==
          LET after == siblings_after(d, h)
              stop == {i \in after : \/ d[i].tag \in {"h2", "h3", "p", "div", "section"}
                                     \/ d[i].text # NoText /\ below(d, i) = {}}
          IN IF stop = {} \/ d[Min(stop)].tag \in {"h2", "h3"} THEN NoText
             ELSE get_text(d, Min(stop))
    IN Cardinality({h \in find_all(d, {"h2", "h3"}) : matches(opener(h), "vague opener")})

long_paragraphs(d) ==
    {i \in find_all(d, {"p"}) : ~within(d, i, CHROME) /\ Count(get_text(d, i)) > 150}

\* Fewer than half of the first heading's words are in the introduction, or in
\* any subheading.
query_coverage_weak(d) ==
    LET tokens == OfFirst(find_all(d, {"h1"}), LAMBDA i : Words(get_text(d, i)), {})
        half(t) == 2 * Cardinality(tokens \cap Words(t)) >= Cardinality(tokens)
        subheadings == find_all(d, {"h2", "h3"})
    IN /\ Cardinality(tokens) >= 2
       /\ \/ ~half(first_n_words(d, 200))
          \/ subheadings # {} /\ \A h \in subheadings : ~half(get_text(d, h))

\* Questions and the text that goes with them: disclosure elements, the page
\* builder's accordions and toggles, and headings with what follows them.
FAQ_MIN_QUESTION_LEN == 6
faq_question(q) == Chars(q) >= FAQ_MIN_QUESTION_LEN /\ matches(q, "question mark")

faq_blocks(d) ==
    LET Marked(m) == {i \in DOMAIN d : m \in d[i].marks}
        titles(i) == LET s == {j \in below(d, i) : d[j].tag = "summary"} IN
                     IF d[i].tag = "details" /\ s # {} THEN s
                     ELSE below(d, i) \cap Marked("accordion title")
        folding(S) == {i \in S : titles(i) # {}}
        fold(i) == LET t == Min(titles(i)) IN
                   [q |-> get_text(d, t),
                    a |-> Chars(TextOf(d, ({i} \cup below(d, i)) \ ({t} \cup below(d, t))))]
        contents(i) == LET named == {j \in DOMAIN d : Get(d[j], "id", "") = Get(d[i], "controls", "?")}
                           next == {j \in Marked("toggle content") : j > i}
                       IN IF named # {} THEN named ELSE next
        toggled(i) == [q |-> get_text(d, i),
                       a |-> OfFirst(contents(i), LAMBDA j : Chars(get_text(d, j)), 0)]
        heading(h) == LET next == {i \in siblings_after(d, h) : d[i].tag \in AnyHeading}
                          upTo == {i \in siblings_after(d, h) \ find_all(d, {"#text"}) :
                                      \A e \in next : i < e}
                      IN [q |-> get_text(d, h),
                          a |-> Chars(TextOf(d, UNION {{i} \cup below(d, i) : i \in upTo}))]
        details == find_all(d, {"details"})
        all == Read(d, folding(details), fold)
               \o Read(d, folding(Marked("accordion item") \ details), fold)
               \o Read(d, Marked("toggle title"), toggled)
               \o Read(d, find_all(d, AnyHeading), heading)
        once(s) == {k \in DOMAIN s : \A j \in 1 .. k - 1 : s[j].q # s[k].q}
        answers(s) == Read(d, once(s), LAMBDA k : s[k].a)
    IN answers(SelectSeq(all, LAMBDA b : faq_question(b.q)))

-----------------------------------------------------------------------------
\* The fields are read one after the other from one tree.  Taking the first
\* words removes the chrome from that tree, and what is read after it is read
\* from what is left.

stripped(r) == decompose(r.doc, CHROME)

FromWhole(r, base, home) ==
    LET d == r.doc
        robots == robots_signals(r)
    IN [title |-> extract_title(d),
        meta_description |-> extract_meta(d, "description"),
        og_title |-> extract_meta(d, "og:title"),
        og_description |-> extract_meta(d, "og:description"),
        og_image |-> extract_meta(d, "og:image"),
        twitter_card |-> extract_meta(d, "twitter:card"),
        canonical_url |-> link_rel(d, "canonical"),
        h1_tags |-> Read(d, find_all(d, {"h1"}), LAMBDA i : get_text(d, i)),
        headings_outline |-> headings_outline(d),
        is_indexable |-> robots.is_indexable,
        robots_source |-> robots.source,
        links |-> extract_links(d, base),
        has_favicon |-> IF ~home THEN "n/a" ELSE IF LinkRel(d, "icon") # {} THEN "yes" ELSE "no",
        has_viewport_meta |-> With(d, {"meta"}, "name", "viewport") # {},
        schema_types |-> schema_types(d),
        schema_objs |-> NodesOf(d),
        has_json_ld |-> \E i \in Scripts(d) : Has(d[i], "ld"),
        schema_visible_mismatch |-> check_schema_visible_mismatch(d),
        word_count |-> count_words(d),
        pagination |-> \E rel \in {"next", "prev"} : link_rel(d, rel) # NoUrl,
        amphtml_url |-> link_rel(d, "amphtml").id,
        meta_refresh |-> OfFirst(With(d, {"meta"}, "http_equiv", "refresh"),
                                 LAMBDA i : Has(d[i], "content"), FALSE),
        mixed_content_count |-> Cardinality(mixed_content(d, r.final)),
        unsafe_cross_origin_count |-> Cardinality(unsafe_cross_origin(d, r.final)),
        has_hsts |-> IF r.final.scheme # "https" THEN "n/a" ELSE IF r.hsts THEN "yes" ELSE "no",
        img_missing_alt_count |-> Cardinality(img_missing_alt(d)),
        img_missing_alt_srcs |-> img_missing_alt_srcs(d),
        image_count |-> Cardinality(image_urls(d)),
        empty_anchor_hrefs |-> empty_anchors(d),
        stacked_link_groups |-> Cardinality(stacked_links(d)),
        internal_nofollow_count |-> Cardinality(internal_nofollow(d, base)),
        lang_attr |-> OfFirst(find_all(d, {"html"}), LAMBDA i : Has(d[i], "lang"), FALSE),
        text_to_html_ratio |-> <<Chars(TextOf(d, DOMAIN d)), r.size>>,
        main_content_ratio |-> main_content_ratio(d),
        analytics_tags |-> analytics_tags(d),
        has_consent_mode |-> has_consent_mode(d),
        untrackable_outbound_hrefs |-> Cardinality(untrackable_outbound(d, r.final)),
        cta_elements |-> cta_elements(d),
        is_spa_shell |-> spa_shell(d),
        author_detected |-> detect_author(d),
        date_published |-> date_published(d),
        date_modified |-> date_modified(d),
        code_block_count |-> Cardinality(find_all(d, {"pre"}) \cup loose_code(d)),
        ordered_list_item_count |->
            Cardinality({i \in find_all(d, {"li"}) : d[parent(d, i)].tag = "ol"}),
        table_count |-> Cardinality(find_all(d, {"table"})),
        structured_element_count |->
            Cardinality(find_all(d, {"ul", "ol", "table", "dl", "pre"}) \cup loose_code(d)),
        sections |-> walk_sections(d),
        content_not_in_text |-> detect_content_not_in_text(d),
        js_dependent_navigation |-> js_dependent_navigation(d),
        has_main_landmark |-> has_landmark(d, "main", "main"),
        has_nav_landmark |-> has_landmark(d, "nav", "navigation"),
        non_semantic_buttons |-> Cardinality(non_semantic_buttons(d)),
        unnamed_interactive |-> Cardinality(unnamed_interactive(d)),
        placeholder_links |-> placeholder_links(d, base),
        contact_info_in_text |-> home /\ has_contact_info(d),
        first_200_words |-> first_n_words(stripped(r), 200),
        first_600_words |-> first_n_words(stripped(r), 600),
        first_1500_words |-> first_n_words(stripped(r), 1500)]

FromStripped(d) ==
    [blockquote_count |-> Cardinality(find_all(d, {"blockquote"})),
     vague_opener_count |-> count_vague_openers(d),
     cross_reference_count |-> hits(BodyText(d), "cross reference"),
     long_paragraph_count |-> Cardinality(long_paragraphs(d)),
     query_coverage_weak |-> query_coverage_weak(d),
     faq_blocks |-> faq_blocks(d)]

FromResponse(r, home) ==
    [url |-> r.url, final_url |-> r.final.id, status_code |-> r.status_code,
     response_size_bytes |-> r.size, content_type |-> r.content_type,
     is_html_response |-> r.doc # NoDocument, is_homepage |-> home,
     pdf_properties |-> r.pdf,
     ai_preview_suppressed |-> r.doc # NoDocument /\ preview_suppressed(r),
     ai_bot_blocked |-> r.doc # NoDocument /\ bot_blocked(r),
     \* what the engine adds to the page later
     crawl_depth |-> Unknown, last_modified |-> Unknown, redirected |-> FALSE]

FromDocument(r, base, home) == FromWhole(r, base, home) @@ FromStripped(stripped(r))

\* A response without HTML is a page with nothing on it, indexable and not
\* the home page, whatever its headers say.
parse_page(r, base, home) ==
    LET html == r.doc # NoDocument
        none == [text_to_html_ratio |-> <<0, 0>>, has_main_landmark |-> TRUE,
                 has_nav_landmark |-> TRUE, has_hsts |-> "n/a"]
    IN (IF html THEN <<>> ELSE none)
       @@ FromDocument(IF html THEN r ELSE [r EXCEPT !.x_robots = {}, !.size = 0],
                       IF html THEN base ELSE r.url, html /\ home)
       @@ FromResponse(r, html /\ home)

=============================================================================
