------------------------------ MODULE SiteFiles ------------------------------
(***************************************************************************)
(* What a crawl asks a server for before and besides its pages: the        *)
(* fetcher with its one retry (api/crawler/fetcher.py), robots.txt         *)
(* (robots.py), the sitemaps (sitemap.py), which URLs are not pages worth  *)
(* a visit (normaliser.py), what robots.txt tells the bots of answer       *)
(* engines (services/ai_readiness.py, ai_bots.py), and the checks of the   *)
(* site made before its first page (engine.py).                            *)
(*                                                                         *)
(* An answer of a server has error ("" if there was a response), final,    *)
(* chain (the URLs redirected from), first_status, status_code, the fields *)
(* of a response the parser reads, last_modified (its age in days),        *)
(* length (the Content-Length), titled (a text that begins with "# Title") *)
(* and heads (a HEAD is answered like a GET).                              *)
(***************************************************************************)
EXTENDS IssueRegistry, Markup

NoAnswer ==
    [error |-> "", url |-> NoUrl, final |-> NoUrl, chain |-> <<>>, first_status |-> 0,
     status_code |-> 0, content_type |-> "", doc |-> <<>>, size |-> 0, x_robots |-> {},
     hsts |-> FALSE, pdf |-> "n/a", last_modified |-> Unknown, length |-> 0, titled |-> FALSE,
     heads |-> TRUE]

-----------------------------------------------------------------------------
\* Fetching.  answers: what the attempts of one fetch would each get.

MAX_RETRIES == 1
MAX_HTML_BYTES == 5 * 1024 * 1024

is_ssrf_safe(u) == "private" \notin u.marks

LOGIN_PATHS ==
    {<<"login">>, <<"logout">>, <<"signin">>, <<"signout">>, <<"wp-login.php">>,
     <<"user", "login">>, <<"user", "logout">>}

hops(a) == {a.chain[k] : k \in DOMAIN a.chain} \cup {a.final}
is_login_redirect(a) == \E u \in hops(a) : u.path \in LOGIN_PATHS /\ ~u.slash

Failed(u, final, error) == [NoAnswer EXCEPT !.url = u, !.final = final, !.error = error]

\* What one attempt gives: no body for a HEAD, nor one that is too large.
Received(u, a, is_head) ==
    LET unsafe == {h \in hops(a) : ~is_ssrf_safe(h)}
        read == ~is_head /\ a.content_type \in {"html", "pdf", "text"}
    IN IF a.error # "" THEN Failed(u, u, a.error)
       ELSE IF unsafe # {} THEN Failed(u, CHOOSE h \in unsafe : TRUE, "ssrf")
       ELSE IF is_head /\ ~a.heads THEN [NoAnswer EXCEPT !.url = u, !.final = a.final,
                                                         !.status_code = 405]
       ELSE [a EXCEPT !.url = u,
                      !.size = IF read THEN @ ELSE a.length,
                      !.doc = IF read /\ a.size <= MAX_HTML_BYTES THEN @ ELSE <<>>]

\* A loop of redirects and a private address are final at once; no response, a
\* server error and a rate limit are worth another attempt.
transient(r) ==
    \/ r.error \notin {"", "loop", "ssrf"}
    \/ r.status_code \in 500 .. 599 \cup {429}

fetch_page(u, answers, is_head) ==
    LET got(n) == Received(u, answers[IF n < Len(answers) THEN n ELSE Len(answers)], is_head)
        last == CHOOSE n \in 1 .. MAX_RETRIES + 1 :
                   /\ n = MAX_RETRIES + 1 \/ ~transient(got(n))
                   /\ \A k \in 1 .. n - 1 : transient(got(k))
    IN IF is_ssrf_safe(u) THEN got(last) ELSE Failed(u, u, "ssrf")

\* A HEAD, and a GET where that is not allowed.
check_external_link(u, answers) ==
    LET head == fetch_page(u, answers, TRUE) IN
    IF head.status_code = 405 THEN fetch_page(u, answers, FALSE) ELSE head

-----------------------------------------------------------------------------
\* URLs that are not visited.

is_admin_path(u) ==
    \/ u.path # <<>> /\ u.path[1] \in {"wp-admin", "admin"} /\ (Len(u.path) > 1 \/ u.slash)
    \/ u.path \in LOGIN_PATHS /\ ~u.slash

FEEDS == {"feed", "rss", "rss2", "atom"}

is_wp_noise_path(u) ==
    LET n == Len(u.path) IN
    \/ n > 0 /\ u.path[1] \in {"author", "category", "tag"} \cup FEEDS /\ (n > 1 \/ u.slash)
    \/ n > 0 /\ u.path[n] \in FEEDS /\ (~u.slash \/ u.path[n] = "feed")
    \/ u.marks \cap {"date archive", "page number", "archive query"} # {}

EXPECTED_DISALLOW ==
    {"cart", "checkout", "basket", "wishlist", "my-account", "account", "search", "wp-json"}

is_expected_disallow(u) ==
    \/ \E k \in DOMAIN u.path : u.path[k] \in EXPECTED_DISALLOW
    \/ "shop query" \in u.marks

\* Of the queries of one path only so many are visited.
QUERY_VARIANT_CAP == 50

variants_of(u, seen) == {v \in seen : v.query /\ v.path = u.path}
too_many_variants(u, seen) ==
    u.query /\ u \notin seen /\ Cardinality(variants_of(u, seen)) >= QUERY_VARIANT_CAP

-----------------------------------------------------------------------------
\* robots.txt: lines of a field and its value, with "blank" and "comment".

CRAWLER_AGENT == "NonprofitCrawler"

NoRobots == [known |-> FALSE, lines |-> <<>>]

fetch_robots(a) ==
    IF a.error # "" \/ a.status_code # 200 THEN NoRobots ELSE [known |-> TRUE, lines |-> a.lines]

LinesOf(lines, fields) == {i \in DOMAIN lines : lines[i].field \in fields}

\* The crawl delay, in tenths of a second: it follows the last agent named,
\* and one for this crawler replaces one for all.
crawl_delay(lines) ==
    LET after(i) == {j \in LinesOf(lines, {"blank", "comment"}) : j < i}
        agents(i) == {j \in LinesOf(lines, {"user-agent"}) : j < i /\ \A b \in after(i) : b < j}
        own(i) == \E j \in agents(i) : lines[j].agent = CRAWLER_AGENT
        heard(i) == /\ agents(i) # {}
                    /\ lines[Max(agents(i))].agent \in {CRAWLER_AGENT, "*"}
        said == {i \in LinesOf(lines, {"crawl-delay"}) : heard(i)}
        owned == {i \in said : own(i)}
    IN IF said = {} THEN 0
       ELSE lines[IF owned = {} THEN Min(said) ELSE Max(owned)].tenths

robots_sitemaps(lines) ==
    LET s == SelectSeq(lines, LAMBDA l : l.field = "sitemap") IN [k \in DOMAIN s |-> s[k].url]

\* What the standard library makes of the lines: entries of agents and rules.
\* A blank line ends an entry, and so does an agent after a rule.
Entries(lines) ==
    LET none == [agents |-> {}, rules |-> <<>>]
        add(acc) == IF acc.entry.rules = <<>> THEN acc.done ELSE Append(acc.done, acc.entry)
        next(acc, l) ==
            CASE l.field = "user-agent" ->
                   IF acc.entry.rules = <<>> THEN [acc EXCEPT !.entry.agents = @ \cup {l.agent}]
                   ELSE [done |-> add(acc), entry |-> [none EXCEPT !.agents = {l.agent}]]
              [] l.field \in {"disallow", "allow", "crawl-delay"} /\ acc.entry.agents # {} ->
                   [acc EXCEPT !.entry.rules = Append(@, l)]
              [] l.field = "blank" -> [done |-> add(acc), entry |-> none]
              [] OTHER -> acc
        all == FoldLeft(next, [done |-> <<>>, entry |-> none], lines)
    IN add(all)

\* A rule without a path allows everything.
rule_applies(l, u) ==
    l.field \in {"disallow", "allow"} /\ ("path" \in DOMAIN l => IsPrefix(l.path, u.path))

robots_allow(lines, u) ==
    LET own == SelectSeq(Entries(lines), LAMBDA e : CRAWLER_AGENT \in e.agents)
        all == SelectSeq(Entries(lines), LAMBDA e : "*" \in e.agents)
        rules == IF own # <<>> THEN Head(own).rules ELSE IF all # <<>> THEN Head(all).rules ELSE <<>>
        applying == SelectSeq(rules, LAMBDA l : rule_applies(l, u))
    IN applying = <<>> \/ Head(applying).field = "allow" \/ "path" \notin DOMAIN Head(applying)

is_allowed(robots, u) == robots.known => robots_allow(robots.lines, u)

-----------------------------------------------------------------------------
\* What the bots of answer engines are told.  A rule belongs to the agent named
\* last before it, whatever agents are grouped with that one.

AI_BOTS_BY_CATEGORY ==
    [search |-> {"OAI-SearchBot", "Claude-SearchBot", "PerplexityBot", "Applebot",
                 "DuckAssistBot"},
     training |-> {"GPTBot", "ClaudeBot", "CCBot", "Bytespider", "Amazonbot",
                   "Meta-ExternalAgent"},
     user_fetch |-> {"ChatGPT-User", "Claude-User", "Perplexity-User", "Google-Agent",
                     "Google-NotebookLM", "MistralAI-User"},
     training_optout |-> {"Google-Extended", "Applebot-Extended"},
     deprecated |-> {"anthropic-ai", "claude-web"}]

REVIEW_CADENCE_DAYS == 180

agents_mentioned(lines) == {lines[i].agent : i \in LinesOf(lines, {"user-agent"})}

disallowed_paths(lines, agent) ==
    LET named(i) == {j \in LinesOf(lines, {"user-agent"}) : j < i}
        of(i) == named(i) # {} /\ lines[Max(named(i))].agent = agent
    IN {lines[i].path : i \in {k \in LinesOf(lines, {"disallow"}) :
                                  of(k) /\ "path" \in DOMAIN lines[k]}}

is_blanket_disallow(lines) == <<>> \in disallowed_paths(lines, "*")

is_bot_blocked(lines, bot) ==
    <<>> \in disallowed_paths(lines, IF bot \in agents_mentioned(lines) THEN bot ELSE "*")

\* days: since the table of bots was reviewed.
check_ai_bot_access(robots, days) ==
    LET said == agents_mentioned(robots.lines)
        Where(condition, code) == IF condition THEN {code} ELSE {}
        blocked(kind, code) == Where(\E bot \in AI_BOTS_BY_CATEGORY[kind] :
                                        is_bot_blocked(robots.lines, bot), code)
    IN IF ~robots.known THEN {}
       ELSE IF is_blanket_disallow(robots.lines) THEN {"AI_BOT_BLANKET_DISALLOW"}
       ELSE Where(said \cap AI_BOTS_BY_CATEGORY.deprecated # {}, "AI_BOT_DEPRECATED_DIRECTIVE")
            \cup blocked("search", "AI_BOT_SEARCH_BLOCKED")
            \cup blocked("training", "AI_BOT_TRAINING_DISALLOWED")
            \cup blocked("user_fetch", "AI_BOT_USER_FETCH_BLOCKED")
            \cup Where(\A kind \in DOMAIN AI_BOTS_BY_CATEGORY :
                          said \cap AI_BOTS_BY_CATEGORY[kind] = {}, "AI_BOT_NO_AI_DIRECTIVES")
            \cup Where(days > REVIEW_CADENCE_DAYS, "AI_BOT_TABLE_STALE")

-----------------------------------------------------------------------------
\* Sitemaps.  A file has its status (0 if there is no response), its kind
\* ("index", "urlset" or other), the type its name tells, and what it lists.

SitemapNotFound(reached) ==
    [found |-> FALSE, reachable |-> reached, urls |-> <<>>, grouped |-> [t \in {} |-> <<>>]]

resolved_sitemaps(files) ==
    LET resolve[f \in DOMAIN files] ==
          LET file == files[f]
              children == SelectSeq(file.children, LAMBDA c : resolve[c].found)
              urls(s) == FlattenSeq([k \in DOMAIN s |-> resolve[s[k]].urls])
              types == {files[children[k]].type : k \in DOMAIN children} \ {""}
          IN IF file.status = 0 \/ file.status >= 500 THEN SitemapNotFound(FALSE)
             ELSE IF file.status # 200 \/ (file.kind = "index" /\ file.children = <<>>)
                     \/ file.kind \notin {"index", "urlset"}
                  THEN SitemapNotFound(TRUE)
             ELSE [found |-> TRUE, reachable |-> TRUE,
                   urls |-> IF file.kind = "index" THEN urls(children) ELSE file.urls,
                   grouped |-> [t \in types |->
                                  urls(SelectSeq(children, LAMBDA c : files[c].type = t))]]
    IN resolve

\* The standard place first, then those robots.txt names.
fetch_sitemap_recursive(standard, named, files) ==
    LET all == <<standard>> \o named
        at == resolved_sitemaps(files)
        found == SelectSeq(all, LAMBDA f : at[f].found)
    IN IF found # <<>> THEN at[Head(found)]
       ELSE SitemapNotFound(\E k \in DOMAIN all : at[all[k]].reachable)

-----------------------------------------------------------------------------
\* The checks of the site, before its first page.  site has the URL and the
\* answers of each place asked.  No answer over HTTP is no redirect either.

preflight(start, site, robots, sitemap) ==
    LET got(place) == fetch_page(site[place].url, site[place].answers, FALSE)
        Where(condition, code) == IF condition THEN {code} ELSE {}
    IN Where(start.scheme = "https" /\ got("http").final.scheme # "https",
             "HTTPS_REDIRECT_MISSING")
       \cup Where(got("alt").status_code = 200 /\ got("alt").final.host = site.alt.url.host,
                  "WWW_CANONICALIZATION")
       \cup (IF got("llms_txt").status_code # 200 THEN {"LLMS_TXT_MISSING"}
             ELSE Where(~got("llms_txt").titled, "LLMS_TXT_INVALID"))
       \cup check_ai_bot_access(robots, site.days)
       \cup Where(got("ai_txt").status_code # 200, "AI_TXT_MISSING")

=============================================================================
