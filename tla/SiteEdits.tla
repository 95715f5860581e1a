------------------------------ MODULE SiteEdits ------------------------------
(***************************************************************************)
(* The one-click edits of a WordPress site outside the Fix Manager:        *)
(* replacing a link, changing the level or text of a heading or making it  *)
(* bold, on one page or on all that show it, trimming titles, applying one *)
(* fix, and clearing the findings of links that were repaired              *)
(* (api/services/wp_heading/, wp_title_fixer.py, wp_fixer.py,              *)
(* api/routers/link_router.py).                                            *)
(*                                                                         *)
(* Every edit of a post reads its content, edits the copy and writes the   *)
(* whole content back.                                                     *)
(***************************************************************************)
EXTENDS Naturals, Sequences, FiniteSets, SequencesExt

CONSTANTS
  Pages,       \* pages with a post
  Levels,      \* heading levels in use
  Old, New,    \* the text of the heading, and what it may be changed to
  Links,       \* targets the posts link to
  DeadAtFirst, \* those that answer an error when the site is crawled
  Good,        \* the target a link is replaced by
  CodeOf,      \* the issue code of each dead target
  Requests     \* requests that may overlap

Bold == 0      \* the level of a heading turned into a bold paragraph
Nowhere == 0   \* the level in the shared areas when they lack the heading
Titles == {"", "variable", "custom", "custom and site name"}

ASSUME EditsAssumption ==
  /\ IsFiniteSet(Pages) /\ Pages # {}
  /\ DeadAtFirst \subseteq Links /\ Good \notin DeadAtFirst
  /\ Levels \subseteq 1..6

VARIABLES
  panel,    \* the panel in use, "content", "titles" or "links"; chosen initially
  closed,   \* pages whose title meta cannot be read; chosen initially
  post,     \* content of each post: its heading and its links
  shared,   \* level of the heading in a widget, pattern or template part
  title,    \* SEO title override of each post
  outline,  \* levels at which the crawl saw the heading on each page
  dead,     \* targets that answer an error
  findings, \* broken-link findings, by page and target
  req

editVars == <<panel, closed, post, shared, title, outline, dead, findings, req>>
crawled == <<panel, closed, outline>>

Content == [level : Levels \cup {Bold}, text : {Old, New}, links : SUBSET Links]

Edits ==
  [kind : {"link"}, page : Pages, from : Links, to : {Good}]
  \cup {e \in [kind : {"level"}, page : Pages, from : Levels, to : Levels] :
          e.from # e.to}
  \cup [kind : {"text"}, page : Pages, from : Levels, to : {New}]
  \cup [kind : {"bold"}, page : Pages, from : Levels, to : {Bold}]
TitleEdits ==
  [kind : {"trim"}, page : Pages] \cup [kind : {"apply"}, page : Pages]

Idle == [at |-> "idle"]

EditsInit ==
  /\ panel \in {"content", "titles", "links"}
  /\ closed \in IF panel = "titles" THEN SUBSET Pages ELSE {{}}
  /\ post \in [Pages -> [level : IF panel = "content" THEN Levels ELSE {Bold},
                          text : {Old}, links : {DeadAtFirst}]]
  /\ shared \in IF panel = "content" THEN Levels \cup {Nowhere} ELSE {Nowhere}
  /\ title \in [Pages -> IF panel = "titles"
                          THEN {"", "custom", "custom and site name"} ELSE {""}]
  /\ outline = [p \in Pages |-> <<post[p].level>> \o
                  IF shared = Nowhere THEN <<>> ELSE <<shared>>]
  /\ dead = DeadAtFirst
  /\ findings = {f \in Pages \X Links : f[2] \in post[f[1]].links \cap dead}
  /\ req = [r \in Requests |-> Idle]

(* Nobody edits one post twice at a time.                                  *)
EditedBy(r) == IF "todo" \in DOMAIN req[r] THEN {e.page : e \in Range(req[r].todo)} ELSE {}
Free(r, pages) ==
  req[r] = Idle /\ \A q \in Requests : EditedBy(q) \cap pages = {}
Goto(r, there) == req' = [req EXCEPT ![r] = there]
Doing(r) == Head(req[r].todo)
At(r, step) == req[r].at = step

(* A failed edit of several is noted in the answer and the next one tried. *)
NextEdit(r) ==
  Goto(r, IF Len(req[r].todo) = 1 THEN Idle
          ELSE [at |-> "ready", todo |-> Tail(req[r].todo)])

(* What an edit makes of a content; the content itself if it does not find *)
(* the heading or the link.                                                *)
ReplaceLink(e, c) ==
  IF e.from \in c.links THEN [c EXCEPT !.links = (@ \ {e.from}) \cup {e.to}] ELSE c
ChangeLevel(e, c) ==
  IF c.level = e.from /\ c.text = Old THEN [c EXCEPT !.level = e.to] ELSE c
ChangeText(e, c) ==
  IF c.level = e.from /\ c.text = Old THEN [c EXCEPT !.text = e.to] ELSE c

Edited(e, c) ==
  IF e.kind = "link" THEN ReplaceLink(e, c)
  ELSE IF e.kind = "text" THEN ChangeText(e, c)
  ELSE ChangeLevel(e, c)

-----------------------------------------------------------------------------
(* The requests                                                            *)

EditOne(r) ==
  /\ panel # "links"
  /\ \E e \in IF panel = "content" THEN Edits ELSE TitleEdits :
       Free(r, {e.page}) /\ Goto(r, [at |-> "ready", todo |-> <<e>>])
  /\ UNCHANGED <<crawled, post, shared, title, dead, findings>>

(* One edit for every time the crawl saw the heading at that level, page   *)
(* by page from the stored outlines (which show it at most twice here).    *)
Seen(from) ==
  {o \in Pages \X (1..2) : o[2] \in DOMAIN outline[o[1]] /\ outline[o[1]][o[2]] = from}

PageByPage(order) ==
  \A i, k \in DOMAIN order :
    i < k /\ order[i][1] = order[k][1] => order[i + 1][1] = order[i][1]

BulkReplaceHeading(r) ==
  /\ panel = "content" /\ Free(r, Pages)
  /\ \E from \in Levels, to \in Levels :
       /\ from # to /\ Seen(from) # {}
       /\ \E order \in SetToSeqs(Seen(from)) :
            /\ PageByPage(order)
            /\ Goto(r, [at |-> "ready",
                        todo |-> [i \in DOMAIN order |->
                                    [kind |-> "level", page |-> order[i][1],
                                     from |-> from, to |-> to]]])
  /\ UNCHANGED <<crawled, post, shared, title, dead, findings>>

BulkTrimTitles(r) ==
  /\ panel = "titles" /\ Free(r, Pages)
  /\ \E order \in SetToSeqs(Pages) :
       Goto(r, [at |-> "ready",
                todo |-> [i \in DOMAIN order |->
                            [kind |-> "trim", page |-> order[i]]]])
  /\ UNCHANGED <<crawled, post, shared, title, dead, findings>>

-----------------------------------------------------------------------------
(* Edits of the content                                                    *)

(* The post is found and its content read, or it is not.  A level that is  *)
(* not found is looked for in the shared areas.                            *)
ReadPost(r) ==
  LET e == Doing(r)
      copy == Edited(e, post[e.page])
  IN
  /\ At(r, "ready") /\ e \in Edits
  /\ \/ NextEdit(r)
     \/ /\ copy # post[e.page]
        /\ Goto(r, [at |-> "write", todo |-> req[r].todo, copy |-> copy])
     \/ /\ copy = post[e.page]
        /\ IF e.kind = "level"
           THEN Goto(r, [at |-> "areas", todo |-> req[r].todo])
           ELSE NextEdit(r)
  /\ UNCHANGED <<crawled, post, shared, title, dead, findings>>

(* Mutant of Sent: a heading is edited in the content of the crawl.        *)
SentAsCrawled(r) ==
  IF Doing(r).kind = "link" THEN req[r].copy
  ELSE [req[r].copy EXCEPT !.links = DeadAtFirst]

Sent(r) == req[r].copy

(* The answer of a write that happened may be lost.                        *)
WritePost(r) ==
  /\ At(r, "write")
  /\ post' \in {post, [post EXCEPT ![Doing(r).page] = Sent(r)]}
  /\ NextEdit(r)
  /\ UNCHANGED <<crawled, shared, title, dead, findings>>

(* Block widgets, synced patterns, template parts: the first that has the  *)
(* heading at that level.                                                  *)
ReadShared(r) ==
  /\ At(r, "areas")
  /\ \/ NextEdit(r)
     \/ shared = Doing(r).from /\ Goto(r, [req[r] EXCEPT !.at = "write area"])
  /\ UNCHANGED <<crawled, post, shared, title, dead, findings>>

WriteShared(r) ==
  /\ At(r, "write area")
  /\ shared' \in {shared, Doing(r).to}
  /\ NextEdit(r)
  /\ UNCHANGED <<crawled, post, title, dead, findings>>

-----------------------------------------------------------------------------
(* Edits of the title                                                      *)

(* The new title, if there is one: the variable of the plugin where no     *)
(* override is set, or none can be read.                                   *)
Trimmed(p) ==
  IF p \in closed \/ title[p] = "" THEN {"variable"}
  ELSE IF title[p] = "custom and site name" THEN {"custom"} ELSE {}

ReadTitle(r) ==
  LET e == Doing(r) IN
  /\ At(r, "ready") /\ e \in TitleEdits
  /\ \/ NextEdit(r)
     \/ \E v \in IF e.kind = "trim" THEN Trimmed(e.page) ELSE Titles \ {""} :
          Goto(r, [at |-> "write title", todo |-> req[r].todo, value |-> v])
  /\ UNCHANGED <<crawled, post, shared, title, dead, findings>>

WriteTitle(r) ==
  /\ At(r, "write title")
  /\ title' \in {title, [title EXCEPT ![Doing(r).page] = req[r].value]}
  /\ NextEdit(r)
  /\ UNCHANGED <<crawled, post, shared, dead, findings>>

-----------------------------------------------------------------------------
(* Findings of broken links                                                *)

(* Mutant of Cleared: every finding of the page goes.                      *)
ClearedByPage(gone) ==
  {f \in findings : \E g \in findings : g[2] \in gone /\ g[1] = f[1]}

(* delete_issues_by_code_and_url, for each finding of a cleared target.    *)
Cleared(gone) ==
  {f \in findings : \E g \in findings :
     g[2] \in gone /\ g[1] = f[1] /\ CodeOf[g[2]] = CodeOf[f[2]]}

(* POST /verify-broken-links: the findings are read, every target is       *)
(* requested, and those that answer are cleared.                           *)
VerifyBrokenLinks(r) ==
  /\ panel = "links" /\ Free(r, {}) /\ findings # {}
  /\ Goto(r, [at |-> "verify", ok |-> {f[2] : f \in findings} \ dead])
  /\ UNCHANGED <<crawled, post, shared, title, dead, findings>>

ClearVerified(r) ==
  /\ At(r, "verify")
  /\ findings' = findings \ Cleared(req[r].ok)
  /\ Goto(r, Idle)
  /\ UNCHANGED <<crawled, post, shared, title, dead>>

(* Somebody repairs a target.                                              *)
Repair ==
  /\ panel = "links"
  /\ \E t \in dead : dead' = dead \ {t}
  /\ UNCHANGED <<crawled, post, shared, title, findings, req>>

EditsNext ==
  \/ \E r \in Requests :
       \/ EditOne(r) \/ BulkReplaceHeading(r) \/ BulkTrimTitles(r)
       \/ ReadPost(r) \/ WritePost(r) \/ ReadShared(r) \/ WriteShared(r)
       \/ ReadTitle(r) \/ WriteTitle(r)
       \/ VerifyBrokenLinks(r) \/ ClearVerified(r)
  \/ Repair

EditsSpec == EditsInit /\ [][EditsNext]_editVars

-----------------------------------------------------------------------------
(* As long as nobody edits one post twice at a time, what is written to a  *)
(* post is the edit that was asked for on top of what the post holds:      *)
(* whatever was edited since the crawl stays.                              *)
EditsOnTop ==
  [][\A p \in Pages :
       post'[p] # post[p] =>
         \E r \in Requests : At(r, "write") /\ post'[p] = Edited(Doing(r), post[p])]_editVars

(* A link that was dead at the crawl and still is keeps its finding,       *)
(* whatever else on its page is verified (verify_broken_links_endpoint).   *)
DeadLinksReported ==
  \A p \in Pages : \A t \in dead : <<p, t>> \in findings

=============================================================================
