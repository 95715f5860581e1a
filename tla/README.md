# Verification of TalkingToad

TLA+ models of TalkingToad (`api/`, a FastAPI service that crawls a site, checks
its pages, stores what it finds and helps fix it), TLC instances that check
them, and theorems proved with TLAPS. Two kinds of modules: the *processes*
(jobs, the crawl, the checklist, fixes, batches, AI calls, the performance
ledger), whose interleavings and failures are explored; and the *functions* (the
parser, the checks, the scores, the lists), written as operators over records
and put to work in a model of the stored findings of a crawl while its pages are
checked again. Every definition is translated from the Python code;
`PROJECT.json` maps it to the lines it stands for.

Contents: [inventory](#inventory), [modules](#modules), [runs](#runs),
[bounds](#bounds), [fairness](#fairness), [proofs](#proofs),
[what the code does otherwise than it says](#divergences),
[not modelled](#not-modelled), [what is left](#what-is-left).

## Inventory

One process, one asyncio event loop: code between two `await`s is atomic, and
anything else may happen at an `await`. All durable state is in SQLite, reached
through one shared `aiosqlite` connection.

| component | state | operations | interacts with | hard behaviour | what makes it correct | modules |
|---|---|---|---|---|---|---|
| Job layer, `routers/crawl.py`, `main.py` | rows of `crawl_jobs`; in memory `_cancel_events`, `_recheck_progress` | start, rescan, scan-page, cancel, recheck-all, the background crawl, start-up reaping | engine (a call with a cancel event and a progress callback), store | overlapping requests, restarts, calls that raise | one crawl per domain, a row never stays active without an owner, complete means saved | `JobLifecycle`, `CrawlJobs` |
| Page loop, `crawler/engine.py` | `queue`, `visited`, `depth_map`, `discovered_from(_all)`, counters | one iteration per URL; seeding; what is computed from the finished link graph | fetcher, parser, robots, cross-page checks | redirects, duplicates in the queue, seeds of unknown depth, truncation | nothing dropped, budget held, shortest depths, true sources and orphans | `CrawlFrontier` |
| External checks, `crawler/engine.py` | `external_link_queue`, sources, two semaphores, `_host_next_ok` | collect under quotas, one task per target | fetcher, cancel event | contention of two semaphores, sleeps, cancel | fetched once, polite, no deadlock | `ExternalLinks` |
| Findings of a crawl; image, asset and AMP phases | the result of a crawl | what each page, file, image, link and the site as a whole is reported for | everything below | order of phases, budgets, what a code is stored under | the rows are those of the site | `SiteCrawl`, `ImageChecks` |
| Page fetcher, robots, sitemap, normaliser | caches | fetch, retry once, follow redirects; parse | httpx | transient answers, loops | the last conclusive answer counts | `SiteFiles` |
| HTML parser | none | read a page | BeautifulSoup | none | what the checks need | `Markup`, `PageParser` |
| Issue checkers and registry | the catalogue | test one page, test all pages together, build a finding | parser | thresholds, groups of exclusive codes | as the catalogue says | `IssueRegistry`, `PageChecks`, `CrossPageChecks` |
| Page rescan, fixed ledger | issues, pages, links, `fixed_issues` | rescan one URL, mark fixed | store, fetcher, checks | stale reads around a fetch, two commits, a part of the checks under other options | no finding lost, none kept that is gone, nothing recorded unchecked | `FixFocus`, `SiteAudit` |
| Fix Focus | a snapshot per job | build, tick, regenerate, verify | store | read-modify-write on a shared connection | no lost tick; every heavy finding is an item | `FixFocus`, `Listing` |
| SQLite store | one connection, implicit transactions | one method per statement group | everything | another coroutine's commit ends your transaction | atomic updates | `FixFocus`, and the tables in the others |
| Scoring, lists | none | health, clusters, prevalence, collapse; filtered and paged lists, summary | store, operator's rules | rounding, clamping, filter before page | bounded, monotone, views agree | `HealthScore`, `Listing` |
| Fix Manager, `fix_manager_router.py` and its panel | `fixes` rows, WordPress, what the panel shows | propose in batches, review, apply, clear | WordPress, store | offsets into a recomputed list, overlapping applications, a crash between the remote and the local write | only what is approved is sent; a row reads applied only when it was | `FixLifecycle`, `FixManager` |
| WordPress fixers | posts, titles, shared blocks | read, edit and write a post whole; bulk edits; verify broken links | WordPress, store | lost answers, edits of one post by several | no edit undoes another | `SiteEdits` |
| Batch optimizer, `services/batch_optimizer.py` | `BatchState` in memory | start, pause, resume, cancel, one collecting and many image tasks | WordPress client, store | cancel between an upload and its record, client closed under tasks | limit held, pause stops, results account for images | `BatchOptimizer` |
| AI router, pricing, usage log | `ai_usage`, detached tasks | paid calls, their records, shutdown | providers, store | writes nobody waits for, a price lookup that raises | every paid call recorded | `AiUsage` |
| Performance ledger | monthly rows | bundle, live import, priority file | Search Console, GA4, crawled pages | partial sources, read-merge, stamps | a source changes only what it brings; as fresh as its oldest part | `PerformanceLedger` |
| Advisor, GEO report, rewriter, FAQ, blueprints | none | prompt, parse | AI router | none | wording | - |
| Reports, exports, rate limiter, authentication, renderer, web vitals, citations, the rest of the frontend, scripts | little or none | render, poll, one comparison | API | none of concurrency | layout | - |

## Modules

| module | models | notes |
|---|---|---|
| `JobLifecycle` | what `/status` promises a polling client | abstract specification |
| `CrawlJobs` | the job layer | implements `JobLifecycle` when requests come one at a time |
| `CrawlFrontier` | the page loop and the reports drawn from it | pure report operators beside the loop |
| `ExternalLinks` | collection and checking of external links | time in ticks |
| `BatchOptimizer` | batches of image optimisations | |
| `FixFocus` | the checklist, the re-scan of a page and the ledger of fixed findings, over the shared connection | statement by statement |
| `FixLifecycle` | what the Fix Manager promises for each page and field | abstract specification |
| `FixManager` | proposals, reviews, applications and the panel | implements `FixLifecycle` |
| `SiteEdits` | the one-click and bulk edits of WordPress, the verification of broken links | |
| `IssueRegistry` | the catalogue of codes, `make_issue` | functions |
| `Markup` | texts, URLs and HTML documents as records | external: BeautifulSoup, urllib |
| `PageParser` | from an answer to a parsed page | functions |
| `PageChecks`, `CrossPageChecks` | from a page, or all pages, to codes | functions |
| `SiteFiles` | fetcher, robots, sitemaps, URL rules, checks of the site | functions |
| `ImageChecks` | measuring, findings and scores of images | functions |
| `SiteCrawl` | a whole crawl as a function of the web, the site and the operator's choices | composes the six above |
| `HealthScore`, `Listing` | scores; lists, summary, page table, prevalence, the checklist's items | functions |
| `SiteAudit` | the stored findings of a crawl while pages are checked again | composes all of them |
| `PerformanceLedger` | the rows of a month under three writers | |
| `AiUsage` | paid calls, their records, the shutdown | |
| `MC*` | instances for TLC | |
| `CrawlJobsProofs`, `CrawlFrontierProofs`, `ExternalLinksProofs`, `FixFocusProofs`, `FixManagerProofs`, `SiteAuditProofs`, `PerformanceLedgerProofs` | theorems about the module they are named for | |
| `ServicesProofs` | theorems about `BatchOptimizer`, `AiUsage` and `SiteEdits` | |

The components meet where one calls another: the job layer sees the engine as a
background task that goes through `pages`, `links` and the saves, or raises;
`CrawlFrontier` and `ExternalLinks` are the inside of those two phases, and each
takes the cancel event as an event that may be set at any time. `SiteCrawl` is
the same crawl seen as a function: no cancel, no clock, but every page parsed
and checked. `SiteAudit` starts from its result and re-checks pages with the
same operators under the options of a re-check; it treats a store call as atomic
and looks at what is found, while `FixFocus` takes the findings as given and
looks at the statements and commits. `Listing` and `HealthScore` read the rows
`SiteAudit` keeps.

### CrawlJobs

The row of a job is `status`, `single` (a scan-page job) and `saved` (how many
of the separate save calls have been made). `event` is `_cancel_events`,
`rechecking` is `_recheck_progress[j]["running"]`; both die in `Restart`, which
also does what `lifespan` does before it serves: `fail_orphaned_jobs`. A request
is a process with a program counter that names the `await` it is suspended at,
so that every interleaving the event loop can produce is a behaviour. Store
calls are atomic: a statement is visible to the others on the connection once it
has executed. `BgRaises` and `HandlerRaises` are a store call, a fetch or a
network lookup that raises, at most `FaultBudget` times. The rescan of a job
recognised as a single page scans in the request; a whole-site job of one page
is recognised too (`_is_single_page_job` looks at `pages_total`), hence the
choice in `Rescan`. `HandlerRaises` lists the calls that can raise without a
handler.

`JobLifecycle` keeps the status of each row only: created, started, ended, and
once ended changed to `cancelled` at most, by a cancel that had read the row
while it was running (`CancelLate`). The refinement mapping is the identity on
`status`.

### CrawlFrontier

`fate[u]` is the skip reason or the answer of a dequeued URL: `page`, `bare` (a
document without a title, for instance a PDF), `broken` (an error status),
`unread` (reached but not read: timeout, SSRF block, login wall, parse error;
counted in `pages_links_unread`) and `lost` (the fetch raised or looped; not
counted). The site is not fixed in advance: what a URL answers, where a
redirect leads and which anchors a page holds is chosen when it is fetched.
`followed` is the anchors that go to the queue, in document order and with
repetitions, `others` those the code does not queue. The depth that a queue
entry carries is the one of `depth_map`, which is set when it is queued.
`Orphans` and `ClickDepths` are what `check_cross_page` and
`_compute_click_depths` return; the rounds of the breadth-first search are a
fold over the number of pages. `scan` is one of the three kinds of crawl that
share the loop. The analysis of a page is left to
`SiteCrawl`, the crawl delay is left out, and the retries of a fetch are one
request.

### ExternalLinks

A page contributes the first `PageCap` of its fresh targets; the tasks of the
first `JobCap` targets pass the semaphore of their host, take a slot of
`_host_next_ok`, sleep, and pass the global semaphore. Time is kept relative to
now: `owed` is the host's next slot and `due` the rest of a task's sleep. `Tick`
passes only when no task can run. The two semaphores hand out permits in FIFO
order; only the order of the global one (`line`) matters to a property. The
request itself, with its own HEAD and GET, is one `checking` stage of any length.

### BatchOptimizer

The collecting task logs in, makes the image tasks and appends results as they
return; an image task waits for a permit, looks at the status (polling while
paused), looks the image up, prepares it and sends it. `Cancel` ends the
collecting task, whose `async with` closes the client, and leaves the image
tasks alone.

### FixFocus

All handlers share one `aiosqlite` connection, which runs their statements one
after another in the order they arrive. `rows` is what a `SELECT` on it sees,
`disk` what is committed, `inTx` whether a transaction is open. Python's
`sqlite3` opens one before the first write and any handler's `commit` ends it,
whoever wrote; the `BEGIN IMMEDIATE` of `mutate_fix_focus` does not wait for the
others but raises if one is open (`BeginRaises`). So each statement and each
commit is a step of its own, and the program counter names the next one. The
two `SELECT`s of `_lookup_crawled_page` and its caller are one step. A crash
loses `rows` and the requests and keeps `disk`.

`rows.focus` is a function from the listed findings to their status, built from
the stored findings; `rows.issues` and `rows.ledger` are `issues` and
`fixed_issues` as sets of (page, code). The ghosts say what the operator and the
site have shown: `told` the status by the last change made to an item, `seen`
the findings that the last conclusive looks leave standing, `absent` those that
a look did not find again, `claimed` those declared fixed with `mark_fixed`,
which stands here for any other handler that writes and commits. What a look
finds is chosen freely among the codes that a single-page check can produce.

`Concurrent` is the set of operations that may overlap with one another once
the checklist is built; all others come alone, as from one panel that waits for
its answers. `LinksTo` is the internal links of a page: a re-scan clears the
broken-link findings of the pages it links to, and requests external links only.

Left out: the cap on listed pages and the order of the list, the deletion of a
job, rollbacks (a failing statement in `mutate_fix_focus` rolls back whatever is
pending, others' writes included), the summary recount, bulk fixes.

### FixManager

A slot is a page and a field. A row of `fixes` is a proposal with the generation
of the batch request that inserted it: every request draws fresh ids, and
`INSERT OR IGNORE` keeps the old row of a slot. `panel` is what `FixManager.jsx`
holds: the ids it shows, those it believes applied, the offset of the next batch.
`req` is the `await` a request is suspended at; the copies an application works
on are read once, before the login. The operator either waits for each answer
(`waits`) or lets requests overlap. `FindingGoes` is a re-scan or a declared fix
elsewhere, `Crash` the end of the process at any `await`. `FixLifecycle` keeps
the status and value of each pair and what the site holds; under the mapping a
row's value is what would be written (`Written`), since a label such as "use the
plugin's variable" is not the text that is sent.

### SiteEdits

Each edit reads the content of a post, edits its copy and writes the copy back
whole, or looks for a heading in the shared areas when the post lacks it. The
answer of a write that happened may be lost, and a bulk edit goes on with the
next post. `Free` is the one assumption on users: nobody edits one post twice at
a time. `CodeOf` says which code a dead target is reported by, because findings
are deleted by page and code.

### The checks and a crawl

A document is a tree of elements with the attributes the parser asks for, a text
a sequence of phrases with the counts the checks take of it, a URL its parts and
the marks the checks recognise in its spelling (`Markup`). On these records
`PageParser` computes what `parser.py` extracts, `PageChecks` the codes
`check_page` reports, in the order and with the early returns of the code,
`CrossPageChecks` those that compare pages, `SiteFiles` what is asked of the
server besides pages and `ImageChecks` the image phase. `run_crawl` of
`SiteCrawl` composes them: the page loop as a fold over an upper bound of the
queue, the phases after it, the one row per target, the groups the operator
chose. Its constants are a web (for each address the answers it would give, one
after another) and a site. Python's rounding, caps and sort keys are kept.

### SiteAudit

A re-check of a page is four steps between awaits: look up the page and its
findings, fetch and check it, replace (the page is saved, then the two deletes,
by page and by source of broken links: `Replace` joins them), save with what is
carried over and record what was resolved. Between the steps other re-checks
run and the site changes: at each fetch it is any of the `Worlds`, its server in
any of the `Conditions`. `reported` is a ghost: what a whole crawl of the world
the re-check read would report of the page. `links` and `sitewide` never change,
since a re-check does not refresh the links of the crawl.

### PerformanceLedger

`For` is the entries of a page, kept at their positions in what was sent (the
addresses of the join are not unique), `Fold` is `perf_join`, `Carry` the
read-merge of `ingest_bundle`, `Upsert` the `INSERT .. ON CONFLICT` with its
`COALESCE`s, and `Written` the row after each entry of a priority file, which are
written one after the other. Search Console reports no analytics, which is an
assumption on `Imports`. Clicks and impressions are kept
with the click rate as the pair it is the ratio of; the other columns behave as
one of these and are left out. `vintage` is a ghost that remembers when each part
of a row was generated. With `OneAtATime` a request waits for the one before it,
as it does with one producer; without it two bundles lose updates
([below](#divergences)).

### AiUsage

A call is asked, answered, priced and recorded; the record is a task of its own
that `lifespan` waits for once at shutdown. A call for a model its provider has
no price for is answered, raises and is not recorded; a detached call (the image
batches) may be answered after the shutdown took stock. Both are exceptions
`PaidCallsRecorded` names.

## Runs

Passing runs, with what they show:

| run | instance | checked |
|---|---|---|
| `CrawlJobsSerial` | three jobs of one host, two requests that do not overlap, cancels of running jobs, one fault, restarts | a host is never crawled by two jobs (`OneCrawlPerDomain`), nor crawled or re-checked during a re-check (`RecheckAlone`); the job table implements `JobLifecycle` (`LifecycleSpec`) |
| `CrawlJobsOverlap` | one job, two overlapping requests, cancels at any time, one fault, restarts | cancel events follow the tasks (`EventTracksEngine`); an active row has an owner (`BlockedOnlyWhileOwned`); `CompleteHasResults`; `JobsEnd` |
| `FrontierCrawl` | five URLs, sitemap and priority seeds, query variants, redirects, every answer, whole, partial and one-page crawls under a budget of three | `NothingLeftBehind`, `DepthIsShortest`, `OrphansAreSeeds`, each URL handled once (`OneFate`), a disclosed shortfall (`ShortfallCovers`), `LoopEnds` |
| `ExternalCollect` | two pages, four targets of two hosts, quota two, job cap three, two permits per host, one in all | `SourcesRetained`, `SlotsSpaced`, `HostsIndependent`, `CancelStopsRequests`, `ChecksEnd` |
| `BatchControls` | three images, two permits, one fault, controls at any time | `HaltsWhenToldTo`, `CompletedAccounted`, `BatchEnds` |
| `FixFocusSerial` | one page with a finding that a re-scan evaluates and one that needs a full crawl, checklist not built yet, all operations, ticks and rebuilds overlapping, one crash | no change undone (`AsTold`), ledger and verdicts rest on a look (`LedgerChecked`, `VerifiedWasChecked`), stored findings are what the looks left (`StoredAsSeen`) |
| `FixManager` | two proposals in batches of one by an operator who waits, on pages that all resolve or all but one, or one with overlapping requests | nothing is approved but by the operator (`ApprovedByOperator`), a row reads applied only when its value was sent (`LifecycleSpec`), what is shown can be acted on (`ShownIsStored`), the batches reach every finding (`AllLoaded`) |
| `SiteEdits` | two posts with one heading and two dead links, overlapping and bulk edits, lost answers | no edit undoes another (`EditsOnTop`), dead links keep their findings (`DeadLinksReported`) |
| `SiteAudit` | a site of six pages and files with two outside links, an image, three pages re-checked two at a time in any of twelve worlds and four conditions | what is recorded as fixed a crawl no longer reports (`FixedMeansFixed`); stored findings are those of the site as last read (`StoredMatchesSite`); what only a crawl finds survives (`SiteFindingsSurvive`); hiding a code or level never lowers a score (`HidingNeverCosts`); list, table, summary, prevalence and checklist agree (`ViewsAgree`) |
| `PerformanceLedger` | two pages, one with two addresses, two days, bundles, imports and priority files with and without each section | `OnlyWhatItBrings`, `AsFreshAsOldest` |
| `AiUsage` | two calls of requests, one without a price, one detached call, one failing write, shutdown at any time | `PaidCallsRecorded`, `ShutdownEnds` |

One run ends in a violation of a sentence of the repository:
`SiteAuditLedger` finds an entry of the ledger for a page nothing changed on,
where `crawl.py:1918` says "Nothing enters the ledger without a check behind
it."

Types are not run: each `TypeOK` of a module with proofs is a theorem, and those
of `SiteAudit`, `FixFocus` and the others document the state. A few further
properties (`LimitHeld`, `HostBound`, `RecheckEntryBacked`, `SourcesLinkToIt`,
`SinglePageStays`, `RequestsSpaced`, ...) are proved and not run either.

Deadlock is checked in the `CrawlJobs`, `FixFocus`, `SiteAudit` and
`PerformanceLedger` runs, where a client may always ask again and no state may be
final by accident; the crawl, the checks, the batch, the loaded and bounded
generations of the Fix Manager, the link panel of `SiteEdits` and the server
after its shutdown really end, so those configurations switch the check off, and
the first ones state termination as a liveness property instead.

## Bounds

| bound | where | why it is enough |
|---|---|---|
| `Jobs`, `Requests` | CrawlJobs | a job id is used once; a violation of the guard needs two jobs and a third to be re-checked, and every request suspends anywhere, so two of them show every race of two endpoints. The overlapping run has one job: its properties speak of one job at a time, and the theorems hold for any number |
| `FaultBudget`, `WriteFaults` | CrawlJobs, BatchOptimizer; AiUsage | each property is about what one failure leaves behind; the proofs hold for any number |
| `CancelSeen`, `Endpoints`, `Overlap` | CrawlJobs | choose which clients there are, for runs that state what holds with only those |
| five URLs, `MaxAnchors` 2 | CrawlFrontier | two paths of different length to one page, a duplicate in the queue, a redirect between two pages and an orphan fit together |
| `MaxPages` 3 | CrawlFrontier | below the number of URLs, so that truncation happens with duplicates and visited URLs queued |
| `VariantCap` 1 | CrawlFrontier | two variants of a path meet it |
| `PageCap` 2, `JobCap` 3, `MaxAnchors` 3 | ExternalLinks | a page links to more targets than its quota, and the pages together to more than the cap |
| `Delay` 2 | ExternalLinks | the least with which a partial wait differs from none and from all |
| `Limit` 2 of three images | BatchOptimizer | one waits while two hold a permit |
| one page, three codes, two requests, `MaxCrashes` 1 | FixFocus | a listed finding of each kind and the broken-link code; one request ticks while another rebuilds; a second crash starts from a state that one crash reaches |
| two slots, `Batch` 1, `MaxGenerations` 3, pages that all resolve or all but one | FixManager | a load of two batches and another load over its rows; a batch whose page does not resolve, where the loading stops short ([below](#divergences)) and `AllLoaded` promises only what the panel calls complete |
| two posts, two levels, two targets, two requests | SiteEdits | edits of one post while the other is edited, a heading in a post and in a shared area, two dead links of one page |
| `MaxScans` 2, the worlds and conditions of `MCSiteAudit` | SiteAudit | each page that is re-checked changes in a way of its own (a page mended or deleted, a page published, a file made small), so that every pair of changes meets every order of two re-checks; the site has a page of each kind the engine treats differently |
| two pages, four addresses, `LastDay` 1 | PerformanceLedger | a row merged from an old and a new source, a page folded from two addresses, an address that matches nothing |
| three calls | AiUsage | one of each kind |

Symmetry is used only in runs without liveness: of requests, and in `CrawlJobs`
of jobs where every job has the same host (`JobsAndRequests`).

The functions (`PageParser`, `PageChecks`, ...) are not enumerated over all
inputs: they are exercised by the worlds of `MCSiteAudit`, each property relating
two ways through the code (a re-check and a crawl, a list and a summary, a score
with and without a code), so that a definition that went astray on these inputs
in one of the two shows. Codes that occur in no world are covered by the mapping
only.

## Fairness

The runs of `CrawlJobsOverlap`, `FrontierCrawl`, `ExternalCollect`,
`BatchControls` and `AiUsage` state liveness; the others have safety properties
only and no fairness. Weak fairness of every task: the event loop runs what is
ready, and every request to a site or to WordPress has a timeout, so a suspended
task is resumed. For the crawl it is fairness of the loop as a whole, for a batch
of the collecting task and of each image task, for `AiUsage` of the scheduled
writes and of the shutdown that waits for them. Clients are never obliged to do
anything: cancels, pauses, resumes, arrivals and the shutdown are not fair.
`Restart` and faults are not fair. `JobsEnd` and `BatchEnds` are stated up to the
first fault, since a raised store call really does leave a row or a batch behind.

## Proofs

All theorems hold for every value of the constants allowed by the assumptions.

`CrawlJobsProofs`: types; `EventTracksEngine`, `BlockedOnlyWhileOwned`,
`CompleteHasResults`, `RecheckEntryBacked` with any overlap, faults and restarts;
and, when requests do not overlap and cancels reach running jobs only,
`OneCrawlPerDomain`, `RecheckAlone` and `LifecycleSpec`, the refinement of
`JobLifecycle`: every step that writes a status is one of its actions, because a
finishing task or scan still finds its row active. The inductive invariant ties
a job's row to its background task (a task past `scheduled` has its event, a task
that is finishing has saved all) and a request's program counter to the locals
it has read, since the guards alone do not say what a suspended request still
believes.

`CrawlFrontierProofs`: types, `WithinBudget`, `NothingLeftBehind`, `OneFate`,
`OrphansAreSeeds`, `SourcesLinkToIt`, `SinglePageStays`, `ShortfallCovers`,
`DepthIsShortest`.
`NothingLeftBehind` is not inductive: the invariant says that, while the loop
runs, a wanted URL is visited or queued, that the visited URLs are exactly the
handled ones and that what is queued has a depth. A page step needs its links to
be visited, out of scope or queued, which is what the three branches of the
anchor loop do. For orphans and sources the invariant says where what is queued
came from: it is the start URL, a seed, or linked from another crawled page
(`Grounded`, `Traced`); for the shortfall, that a queue is at least as long as
the set of what it holds (`RangeBound`). For the depths it says that there is a
level for each discovered URL, whether its depth is known or not, such that a link
leads at most one level down and the queue is in the order of the levels, those of
duplicates and visited URLs aside (`Layered`), and that a known depth is one more
than that of a page that links to the URL (`Rooted`). The first conjunct bounds each round
of the breadth-first search from below, the second reaches each page of known
depth by the round of its depth, and there are as many rounds as pages.

`ExternalLinksProofs`: types, `FetchedOnce`, `HostBound`, `GlobalBound`,
`SlotsSpaced`, `SourcesRetained`, `HostsIndependent`, `CancelStopsRequests`, and
`RequestsSpaced` under the assumption that there is a permit for every task: the
wait for a global permit is the only cause of bursts. The invariant for that one
says that a task in line holds a slot not in the past and that the host's next
slot is at least a delay after the last request. For the sources it says that a
target a crawled page links to has the page as a source, unless the page has
contributed as many targets as its quota allows (`QuotaInv`).

`FixFocusProofs`: types, and `NothingPending` with any overlap and crashes (an
open transaction always belongs to a request that is about to commit); that the
ledger holds nothing but what a look vouches for, the operator declared or a
broken internal link (`LedgerChecksAllButLinks`), so `LedgerChecked` on a site
without internal links. With `OnlyChecklistOverlaps`, `AsTold`: the invariant
says that overlapping requests are ticks and rebuilds of a built checklist, that
at most one of them is inside the transaction, and that what it is about to
write differs from `told` only in the items it changes; the first build finds no
tick to drop because nothing else runs while there is no checklist. With no
internal links besides and before any crash, `StoredAsSeen` and
`VerifiedWasChecked`: between the look and the last statement, `seen` is the
stored findings without those of the page plus what is about to be inserted, and
a code that only a full crawl checks is never among the codes the look leaves
unaccounted for, since it is carried over.

`FixManagerProofs`: types, `ApprovedByOperator` with any overlap, the refinement of
`FixLifecycle`, `ShownIsStored` and `AllLoaded`. The invariant of the refinement
(`Exact`) says that, with an operator who waits, one request at most is at work,
that every copy still to be sent is of a row that is still approved with that
value, and that a copy about to be marked applied is what the site holds. The
batches need another (`Waiting`): the offset of the batch in hand is where the
panel's last one ended; unless the findings changed, what the panel has advanced
over has a row and is shown, and a batch being proposed is still what it was cut
as; and when all pages resolve, no row lies ahead of the next batch and what is
shown is stored until a first batch replaces it. That no finding is skipped is
that the positions of the findings (`Before`, how many come earlier) are different
numbers below their count.

`SiteAuditProofs`: `SiteFindingsSurvive`, `StoredMatchesSite`,
`FixedMeansFixed`, `HidingNeverCosts` and `ViewsAgree`, for any site and any number
of re-checks at a time. The first holds because such a finding is among those a re-check read before it deletes
them (`Kept`), and no other page's re-check deletes it, since it is no broken link
(`NoSiteFindingIsALink`, over the catalogue). The other two are theorems about
the interleavings: they assume that a re-check alone reports of what it looks at
what a crawl of the page as it was read would (`RecheckAgrees`), which is a fact
about the checks of one page and not about order. It is the data half of the two
properties and TLC's: in the run `SiteAudit` each reading of each page in each
world and condition is the last re-check of some state, where `StoredMatchesSite`
says just that. The invariant (`Readable`) says that what a re-check holds is
one conclusive reading of its page, and that between its delete and its save no
finding of the page is stored and the stored status is the one it read.
The last two hold of any finite store of findings of the catalogue (`Scorable`, kept by every
step). For the scores: without the rows of a code
that decides nothing else (`DecisiveCodes`) a page is charged for a part of the
same rows (`ChargedPart`), stands for the same findings of the site
(`RowsOfPagePart`), and a sum over fewer rows is no greater (`SumGrows`), capped,
summed over the pages and rounded (`RoundDivGrows`); and no code that suppresses
others is light enough to be left out by a level (`DecisiveCodesWeigh`, over the
scoring table). For the lists: what is sorted by a key has every element once, the
greatest first part of the key first (`SortedList`); a filtered list keeps that
(`OnlyLists`), and its slices show each element in exactly one place
(`SlicesPartition`), so a page cannot come out short; the table, the summary, the
reach of defects and the checklist are then counts over the same finite set
(`TableOf`, `SummaryOf`, `PrevalenceOf`, `FocusListOf`), and a page cut off the
checklist has no greater priority than one shown because the list falls.

That a crawl and a re-check find finitely many findings of the catalogue (weight,
severity and category of their code, and no page only for a missing sitemap) is
the assumption `FindingsAreCatalogued`, which TLC evaluates: the page loop is a
fold, over which nothing can be proved here. The proof corrected the property: a
full hygiene score does not mean that there is no systemic defect, as the score is
rounded (`prevalence.py:210`), only that none reaches more than one page in two
hundred.

`PerformanceLedgerProofs`: `OnlyWhatItBrings` and `AsFreshAsOldest` for one request
at a time (`OneAtATime`; two overlapping bundles break the first,
[below](#divergences)). The invariant is `Undisturbed`: what the request in hand
has read is what the ledger still holds when it writes. The rest is about rows: a
row that only bundles wrote is stamped no later than its parts (`Dated`), since
a bundle that brings a part keeps the earlier stamp (`CarryKeeps`); and of the
entries of a priority file the last one of the page decides
(`LastEntryWrites`).

`ServicesProofs`: of the batches the types, `LimitHeld`, `HaltsWhenToldTo` and
`CompletedAccounted`, which rests on an invariant about results on their way: an
image has at most one result, and exactly one once it is collected; a success is
on WordPress; and a batch is closed only when all are collected (`Accounts`). Of
the AI calls the types and `PaidCallsRecorded`: a priced answer always has a
record that is pending, stored or lost; once the server drains, what it waits for
holds every pending record of a request, because no request is in flight by
then; so nothing of theirs is pending when it closes (`Drained`). Of the edits
`EditsOnTop`, from the invariant that no two requests hold edits of one post and
that a copy about to be written is the edit of what the post still holds; and
`DeadLinksReported` for a site where no two dead targets have one code
(`OwnCodes`), because what a verification is about to clear answered and a
repaired link does not die again.

Where a proof needs induction (the rounds of the search, the entries of a file, the
positions in a list), it takes the least element of a set of numbers, which exists
because the finite subsets of a set are well-founded (`Least`); and the equation
of a recursive function is derived from its `CHOOSE` by showing that its first
values exist and agree (`LevelsRecursion`, `WrittenRecursion`).

Only model-checked: liveness (`JobsEnd`, `LoopEnds`, `ChecksEnd`, `BatchEnds`,
`ShutdownEnds`; no prover here handles fairness), and `RecheckAgrees`, which
compares two readings of a document by the parser and the checks, folds over its
elements. Every safety property of a passing run is a theorem, under the
assumptions named above.

## Divergences

What was met while modelling; line numbers are of the source. The first is shown
by the run `SiteAuditLedger`, the others are visible in the models or were met
while reading the lines they map.

*The ledger and re-checks.*

- A re-check deletes every finding of its page and records those it did not find
  again as fixed, also those it does not look for and that are not flagged as
  needing a whole crawl: redirects, images, `AMPHTML_BROKEN`, `CONTENT_STALE`,
  citations, rendered pages, web vitals, bots (`crawl.py:1908`, against :1918).
- It does the same with every broken-link finding the links of the crawl relate
  to the page, internal ones too, although no internal link is requested; and
  with `EXTERNAL_LINK_SKIPPED` of a target that refuses. An external 503 is
  "skipped" for a crawl and "broken" for a re-check. Of a page that is gone a
  crawl still reports the spelling of its URL, a re-check does not.
- A re-check does not pass `page_size_limit_kb` (`crawl.py:381`), although
  `issue_checker.py:316` calls the default "inert on every real path"; it ignores
  the chosen groups of analyses and the banner switch, and reports
  `MISSING_HSTS` for each page where a crawl does so once per host.
- Two overlapping re-checks of one page may both insert what each found; a crash
  between the delete and the save leaves the page without findings.
- A verification of broken links deletes findings by page and code
  (`link_router.py:213`): a second dead link of the page with the same code loses
  its finding. `OwnCodes` is the assumption that there is none.

*The crawl.*

- Two overlapping starts of one host both crawl it (`crawl.py:1113`, against
  `docs/functional-specification.md:3067`); so do a start and a recheck-all.
- A queued job that is cancelled is taken back to `running` and completes; a
  cancel after the last page is answered and ignored (`crawl.py:803`).
- A page parsed after a broken page it links to is not among its reported sources
  (`engine.py:899`, against :892); a page over its external quota is missing as a
  source of targets another page contributes later (`engine.py:996`).
- A check that waited for a global permit is followed by the host's next check
  without the delay (`engine.py:1114`, against :745).
- `"(gsc-priority)"` is not filtered from the sources as `"(sitemap)"` is
  (`engine.py:861`, :891). A URL queued twice is counted twice in the shortfall.
  A URL whose fetch raised or looped is a hole in the link graph that
  `pages_links_unread` does not count.
- "Skip redirects" in the duplicate titles (`cross_page.py:101`) skips nothing:
  `redirect_url` is never set in a crawl.
- A site-scoped code is charged "exactly once" (`registry.py:745`), but not at
  all when the page it stands on is hidden from search.
- The image phase puts one ten-second limit around all its requests and drops
  every answer when it passes (`engine.py:1346`). Which thirty citation sources
  are asked depends on the order of a set. `HTTPS_REDIRECT_MISSING` is reported
  when port 80 does not answer at all (`engine.py:490`). A sitemap index that
  names itself is followed without end (`sitemap.py:342`). The rules of a group
  of user agents in `robots.txt` are kept for the last of them only.

*Checks, scores and lists.*

- `SCHEMA_APPROPRIATENESS["home"]` has `Website` where the type is `WebSite`
  (`schema_typing.py:21`); `"noindex" in x_robots` is a substring test
  (`parser.py:701`); the unsafe cross-origin check flags `tel:` links;
  `IMG_ALT_MISSING` is reported by the page check and by the image analyzer.
- Collapsed rows raise the impact and keep the severity (`links.py:128`); the site
  hygiene counts URLs that are not indexable (`prevalence.py:200`); the technical
  score of a duplicate image is never lowered (`image_analyzer.py:142`); the
  total of a paged list is not reduced by exempt anchors.

*Fixes.*

- A tick is lost when a third writer's commit ends the transaction of
  `mutate_fix_focus` between its `SELECT` and its `UPDATE`
  (`sqlite_store.py:345`, against :323 and :338), and a writer that finds a
  transaction open gets an error where the comment says that it waits. Two
  overlapping first uses of the checklist both build it.
- A batch of proposals whose pages match no post is answered empty, and the panel
  stops loading (`fix_manager_router.py:147`, `FixManager.jsx:422`).
- The trimming of a title writes the plugin's variable over a title it could not
  read (`wp_title_fixer.py:194`).
- A failed login leaves an image batch `running`; a batch can be started twice;
  a cancel between an upload and the append of its result drops the result,
  though `batch_optimizer.py:8` promises one per image.

*Performance and AI usage.*

- Two overlapping bundles: with `OneAtATime = FALSE`, `OnlyWhatItBrings` fails. A
  bundle with analytics only reads the row, one with search data writes it, and
  the first writes the old clicks, or zeros, over it (`performance.py:261`,
  against :185).
- A live import or a priority file stamps a row with today although the analytics
  it carries are older, and a bundle with a part of the analytics keeps the rest
  under the new stamp, against "never optimistically the newest"
  (`performance_freshness.py:57`): hence `bundled` in `AsFreshAsOldest`. A
  priority file does not fold two addresses of a page, the last one wins
  (`gsc_priority.py:190`). A month that starts with analytics only has zero
  clicks, which reads as a decay.
- A paid answer of a model without a price raises and is not recorded
  (`ai_router.py:442`); `blueprints.py` asks for one model whatever the provider.
  Calls below half a cent add up to nothing (`sqlite_store.py:1821`). Calls of an
  image batch that end after the shutdown took stock are lost.

## Not modelled

- Characters: percent-encoding, XML, CSS selectors, the readability formulae, date
  formats, prompts, help texts, reports and exports. They are sequential
  translations of one input, which unit tests reach.
- Remote services: the renderer, web vitals, the AI providers, Search Console's
  client (which blocks the event loop while it waits), WordPress itself beyond
  what the fixers ask of it.
- The backoff between attempts of a fetch, the crawl delay, the clocks of the
  image phase.
- Read-only endpoints, deletion of a job, the schema set-up, OAuth, the report
  over the usage rows.
- The rate limiter (a library's), authentication (a comparison), the frontend but
  for the Fix Manager's panel, maintenance scripts.
- Rollbacks in `FixFocus` (a failing statement in `mutate_fix_focus` rolls back
  whatever is pending, others' writes included), the summary recount, bulk fixes
  by issue.

## What is left

In the order of what it would add: overlapping re-scans and first builds in
`FixFocus` with what still holds of them; the image rows of a re-scan in
`SiteAudit`; `RecheckAgrees` for what a page's checks say of one document, which
would take an invariant of the folds of the parser; the media audit and the
session cache of the WordPress client.
