----------------------------- MODULE MCSiteAudit -----------------------------
EXTENDS SiteAudit

\* URLs: of the site, with one segment of a path, and of other hosts.
OnSite(name) ==
    [NoUrl EXCEPT !.id = name, !.norm = name, !.scheme = "https", !.host = "site", !.site = "site",
                  !.path = IF name = "home" THEN <<>> ELSE <<name>>, !.slash = name = "home",
                  !.n = 20]
Other(name) == [OnSite(name) EXCEPT !.host = name, !.site = name, !.path = <<>>, !.slash = TRUE]

MCUrls ==
    {OnSite(x) : x \in {"home", "news", "gone", "pic"}}
    \cup {[OnSite("About_Us") EXCEPT !.marks = {"upper", "underscore"}],
          [OnSite("old") EXCEPT !.slash = TRUE],
          [OnSite("report") EXCEPT !.pdf = TRUE],
          Other("partner"), [Other("social") EXCEPT !.marks = {"bot blocking"}]}
MCUrlOf == [x \in {u.id : u \in MCUrls} |-> CHOOSE u \in MCUrls : u.id = x]
MCIds == DOMAIN MCUrlOf
MCSame == [x \in MCIds |-> x]
MCOrder ==
    LET s == <<"About_Us", "gone", "home", "news", "old", "partner", "pic", "report", "social">>
    IN [x \in MCIds |-> CHOOSE k \in DOMAIN s : s[k] = x]

\* Texts and elements.
NoMarks == [k \in {} |-> 0]
Text(id, n) == <<[id |-> id, n |-> 6 * n, count |-> n, words |-> {id}, marks |-> NoMarks]>>
El(tag, up, text, attrs) ==
    [tag |-> tag, up |-> up, text |-> text, marks |-> {}, attrs |-> attrs]
None == [k \in {} |-> ""]
Anchor(to) == El("a", {1, 2}, Text(to, 2), [href |-> MCUrlOf[to]])

\* A page: its title, headings, body and links.
Html(elements) ==
    <<El("html", {}, NoText, [lang |-> TRUE]), El("body", {1}, NoText, None)>> \o elements
Titled(id) == <<El("title", {1}, Text(id, 8), None)>>
H1(id) == <<El("h1", {1, 2}, Text(id, 3), None)>>
Para(id, n) == <<El("p", {1, 2}, Text(id, n), None)>>
Anchors(s) == [k \in DOMAIN s |-> Anchor(s[k])]
Dead == <<[El("a", {1, 2}, Text("donate", 2), [action |-> "#"]) EXCEPT !.marks = {"button"}]>>
Picture == <<El("img", {1, 2}, NoText, [src |-> MCUrlOf["pic"]])>>

Answer(x, status, type, doc) ==
    [NoAnswer EXCEPT !.url = MCUrlOf[x], !.final = MCUrlOf[x], !.first_status = status,
                     !.status_code = status, !.content_type = type, !.doc = doc, !.size = 4096,
                     !.length = 4096, !.hsts = TRUE]
Failing(x, error) == [Answer(x, 0, "", NoDocument) EXCEPT !.error = error]

\* What the site says: of its about page, of the page that comes and goes, and
\* whether the report is small and the partner answers.
MCWorlds ==
    [about : {"bad", "good", "deleted"}, gone : {"missing", "published"}, mended : BOOLEAN]
MCStart == [about |-> "bad", gone |-> "missing", mended |-> FALSE]

About(w) ==
    IF w.about = "bad"
    THEN Html(H1("first") \o H1("second") \o Para("short", 50) \o Picture \o Dead
              \o Anchors(<<"home", "gone", "partner", "social">>))
    ELSE Html(Titled("about us") \o H1("about us") \o Para("about", 120)
              \o Anchors(<<"home", "gone", "partner">>))
Gone(w) ==
    IF w.gone = "missing" THEN Answer("gone", 404, "html", Html(Para("not here", 10)))
    ELSE Answer("gone", 200, "html", Html(Titled("back") \o H1("back") \o Para("back", 60) \o Dead))

MCWebOf ==
    [w \in MCWorlds |->
       [home |-> <<Answer("home", 200, "html", Html(Titled("home") \o H1("home") \o Para("home", 200)
                     \o Anchors(<<"About_Us", "news", "old", "report", "gone">>)))>>,
        news |-> <<Answer("news", 200, "html", Html(Titled("home") \o H1("news") \o Para("news", 90)
                     \o Anchors(<<"home", "partner">>)))>>,
        About_Us |-> <<Answer("About_Us", IF w.about = "deleted" THEN 410 ELSE 200, "html",
                              About(w))>>,
        gone |-> <<Gone(w)>>,
        old |-> <<[Answer("news", 200, "html", Html(Titled("home") \o H1("news") \o Para("news", 90)))
                     EXCEPT !.first_status = 301, !.chain = <<MCUrlOf["old"]>>]>>,
        report |-> <<[Answer("report", 200, "pdf", NoDocument) EXCEPT
                        !.pdf = IF w.mended THEN "set" ELSE "missing",
                        !.length = IF w.mended THEN 4096 ELSE 11 * 1024 * 1024]>>,
        partner |-> <<Answer("partner", IF w.mended THEN 200 ELSE 404, "html", NoDocument)>>,
        social |-> <<Answer("social", 999, "html", NoDocument)>>,
        pic |-> <<Answer("pic", 200, "image", NoDocument)>>]]

Place(x, status) ==
    [url |-> [MCUrlOf["home"] EXCEPT !.id = x, !.host = x],
     answers |-> <<[Answer("home", status, "text", NoDocument) EXCEPT !.titled = TRUE]>>]
MCPicture ==
    [head |-> TRUE, head_size |-> 300000, mime |-> "legacy", status |-> 200, bytes |-> 300000,
     hash |-> "h", decodes |-> TRUE, image_type |-> TRUE, width |-> 2000, height |-> 1000,
     time |-> 100, late |-> FALSE]
MCSite ==
    [robots |-> [error |-> "", status_code |-> 200,
                 lines |-> <<[field |-> "user-agent", agent |-> "*"],
                             [field |-> "disallow", path |-> <<"private">>]>>],
     files |-> [f \in {"sitemap.xml"} |->
                  [status |-> 200, kind |-> "urlset", type |-> "", children |-> <<>>,
                   urls |-> <<"home", "news">>]],
     http |-> Place("http", 200), alt |-> Place("www", 404),
     llms_txt |-> Place("llms.txt", 404), ai_txt |-> Place("ai.txt", 200),
     days |-> 30, images |-> [x \in {"pic"} |-> MCPicture], js |-> [x \in {} |-> ""]]
MCCfg ==
    [start |-> MCUrlOf["home"], max_pages |-> 50, single_page |-> FALSE, scope |-> {},
     respect_robots |-> TRUE, skip_archives |-> TRUE, priority |-> <<>>, groups |-> AllGroups,
     img_limit |-> 200, page_limit |-> 300, h1s |-> {}, banner |-> TRUE, verified |-> {},
     exempt |-> {}, ignored |-> {}]

\* A page that answers, is busy at first, is refused, or is not there at all.
MCConditions == {"up", "flaky", "blocked", "down"}
MCBehind(c, answers) ==
    LET x == Head(answers).url.id IN
    CASE c = "up" -> answers
      [] c = "flaky" -> <<Answer(x, 503, "html", NoDocument)>> \o answers
      [] c = "blocked" -> <<Answer(x, 403, "html", NoDocument)>>
      [] c = "down" -> <<Failing(x, "timeout")>>

MCRechecked == {"About_Us", "gone", "report"}
MCClaims == {{"TITLE_MISSING"}}
=============================================================================
