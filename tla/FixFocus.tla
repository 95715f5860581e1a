------------------------------ MODULE FixFocus ------------------------------
(***************************************************************************)
(* The Fix Focus checklist and the re-scan of one page, over the one       *)
(* database connection every coroutine of the service shares: the stored   *)
(* findings of a job, its ledger of fixed findings, and the checklist      *)
(* snapshot with the operator's ticks and the re-scans' verdicts           *)
(* (api/routers/crawl.py, api/services/fix_focus.py, sqlite_store.py).     *)
(*                                                                         *)
(* Every statement of a handler is a step of its own: the connection       *)
(* serves the statements of all handlers in the order they arrive, a write *)
(* opens a transaction unless one is open, and a commit, whoever asks for  *)
(* it, commits whatever is pending.                                        *)
(***************************************************************************)
EXTENDS Naturals, FiniteSets

CONSTANTS
  Pages,       \* crawled pages of the job
  Codes,       \* issue codes
  Listed,      \* codes whose impact reaches FIX_FOCUS_MIN_IMPACT
  Unrunnable,  \* codes flagged needs_full_crawl
  Broken,      \* the code of a broken link or page
  LinksTo,     \* internal links of each page
  Crawled,     \* findings the crawl stored
  Declared,    \* findings the operator may declare fixed
  Requests,    \* slots for requests in flight
  Endpoints,   \* the operations clients may ask for
  FirstUse,    \* TRUE if the checklist has not been built yet
  Concurrent,  \* the operations that may overlap with each other
  MaxCrashes   \* bound on the crashes of the process

Items == Pages \X Codes
Operations == {"get", "regenerate", "check", "verify", "rescan", "mark_fixed"}
Statuses == {"open", "checked", "verified", "still_present", "not_checked"}

ASSUME ConstantsAssumption ==
  /\ Pages # {}
  /\ Listed \subseteq Codes /\ Unrunnable \subseteq Codes
  /\ Broken \in Codes \ Unrunnable
  /\ LinksTo \in [Pages -> SUBSET Pages]
  /\ Crawled \subseteq Items /\ Declared \subseteq Items
  /\ Endpoints \subseteq Operations /\ Concurrent \subseteq Operations
  /\ FirstUse \in BOOLEAN
  /\ MaxCrashes \in Nat

VARIABLES
  rows,      \* what the connection reads: job.fix_focus (once built), the
             \* rows of issues and of fixed_issues
  disk,      \* what is committed
  inTx,      \* in_transaction of the connection
  pc,        \* the next statement of each request
  req,       \* what each request was asked and has read so far
  told,      \* the status of each item by the last change made to it
  seen,      \* what the last conclusive look at each page leaves standing
  absent,    \* findings some conclusive look did not find again
  claimed,   \* findings the operator declared fixed
  crashes    \* crashes so far

ghostVars == <<told, seen, absent, claimed>>
vars == <<rows, disk, inTx, pc, req, told, seen, absent, claimed, crashes>>

---------------------------------------------------------------------------
(* The checklist (fix_focus.py): a snapshot is a function from the items   *)
(* it lists to their status.                                               *)

Snapshots == UNION {[S -> Statuses] : S \in SUBSET Items}
EmptySnapshot == [i \in {} |-> "open"]

build_snapshot(issues) ==
  [i \in {i \in issues : i[2] \in Listed} |-> "open"]

merge_checked_state(new, old) ==
  [i \in DOMAIN new |-> IF i \in DOMAIN old THEN old[i] ELSE new[i]]

set_checked(snap, item, tick) ==
  [i \in DOMAIN snap |->
     IF i = item THEN (IF tick THEN "checked" ELSE "open") ELSE snap[i]]

(* A code the re-scan could not evaluate keeps the operator's tick; one it *)
(* found again is still present; any other is verified as fixed.           *)
Verdict(status, code, present, unchecked) ==
  CASE code \in unchecked ->
         IF status = "checked" THEN "checked" ELSE "not_checked"
    [] code \in present \ unchecked -> "still_present"
    [] OTHER -> "verified"

apply_verify(snap, page, present, unchecked) ==
  [i \in DOMAIN snap |->
     IF i[1] = page THEN Verdict(snap[i], i[2], present, unchecked)
                    ELSE snap[i]]

---------------------------------------------------------------------------
(* Requests.                                                               *)

OnPage(p, codes) == {p} \X codes
CodesOf(items) == {i[2] : i \in items}

Blank ==
  [op |-> "none", page |-> CHOOSE p \in Pages : TRUE,
   code |-> Broken, tick |-> FALSE, had |-> FALSE, gone |-> FALSE,
   old |-> {}, linked |-> {}, found |-> {}, carried |-> {}, fixed |-> {},
   copy |-> EmptySnapshot]

Idle(r) == pc[r] = "idle"
Quiet == \A r \in Requests : Idle(r)

(* The requests of a client, or of two panels, overlap if their operations *)
(* are Concurrent and the checklist has been built; others come alone.     *)
MayOverlap(op) == op \in Concurrent /\ rows.built

Admitted(r, op) ==
  /\ Idle(r) /\ op \in Endpoints
  /\ Quiet \/ (MayOverlap(op) /\ \A s \in Requests :
                                    Idle(s) \/ MayOverlap(req[s].op))

Goto(r, next) ==
  /\ pc' = [pc EXCEPT ![r] = next]
  /\ req' = IF next = "idle" THEN [req EXCEPT ![r] = Blank] ELSE req

Receive(r, request, next) ==
  /\ Admitted(r, request.op)
  /\ pc' = [pc EXCEPT ![r] = next]
  /\ req' = [req EXCEPT ![r] = request]

(* A write joins the open transaction or opens one.                        *)
Store(new) == rows' = new /\ inTx' = TRUE /\ UNCHANGED disk

Init ==
  /\ rows = [built  |-> ~FirstUse,
             focus  |-> IF FirstUse THEN EmptySnapshot
                                    ELSE build_snapshot(Crawled),
             issues |-> Crawled,
             ledger |-> {}]
  /\ disk = rows
  /\ inTx = FALSE
  /\ pc = [r \in Requests |-> "idle"]
  /\ req = [r \in Requests |-> Blank]
  /\ told = [i \in Items |-> "open"]
  /\ seen = Crawled
  /\ absent = {} /\ claimed = {}
  /\ crashes = 0

---------------------------------------------------------------------------
(* get_job, the first statement of each handler.                           *)

GetFixFocus(r) ==
  /\ ~rows.built
  /\ Receive(r, [Blank EXCEPT !.op = "get"], "build")
  /\ UNCHANGED <<rows, disk, inTx, ghostVars, crashes>>

Regenerate(r) ==
  /\ Receive(r, [Blank EXCEPT !.op = "regenerate", !.had = rows.built], "build")
  /\ UNCHANGED <<rows, disk, inTx, ghostVars, crashes>>

Check(r) ==
  /\ \E i \in Items, tick \in BOOLEAN :
       Receive(r, [Blank EXCEPT !.op = "check", !.page = i[1], !.code = i[2],
                                !.tick = tick],
               IF rows.built THEN "begin" ELSE "build")
  /\ UNCHANGED <<rows, disk, inTx, ghostVars, crashes>>

VerifyPage(r) ==
  /\ \E p \in Pages :
       Receive(r, [Blank EXCEPT !.op = "verify", !.page = p],
               IF rows.built THEN "lookup" ELSE "build")
  /\ UNCHANGED <<rows, disk, inTx, ghostVars, crashes>>

RescanUrl(r) ==
  /\ \E p \in Pages :
       Receive(r, [Blank EXCEPT !.op = "rescan", !.page = p], "lookup")
  /\ UNCHANGED <<rows, disk, inTx, ghostVars, crashes>>

(* The operator declares a finding fixed: straight into the ledger.        *)
MarkFixed(r) ==
  /\ \E i \in Declared :
       /\ Receive(r, [Blank EXCEPT !.op = "mark_fixed", !.page = i[1],
                                   !.fixed = {i[2]}], "record")
       /\ claimed' = claimed \cup {i}
  /\ UNCHANGED <<rows, disk, inTx, told, seen, absent, crashes>>

---------------------------------------------------------------------------
(* _load_or_build_fix_focus: the snapshot is computed from the findings    *)
(* read now; a first build is stored whole, a rebuild is merged.           *)

Build(r) ==
  /\ pc[r] = "build"
  /\ req' = [req EXCEPT ![r].copy = build_snapshot(rows.issues)]
  /\ pc' = [pc EXCEPT ![r] = IF req[r].op = "regenerate" /\ req[r].had
                               THEN "begin" ELSE "store"]
  /\ UNCHANGED <<rows, disk, inTx, ghostVars, crashes>>

StoreSnapshot(r) ==
  /\ pc[r] = "store"
  /\ Store([rows EXCEPT !.built = TRUE, !.focus = req[r].copy])
  /\ Goto(r, "stored")
  /\ UNCHANGED <<ghostVars, crashes>>

---------------------------------------------------------------------------
(* mutate_fix_focus: BEGIN IMMEDIATE, SELECT, UPDATE, COMMIT.  BEGIN       *)
(* raises when a transaction is already open on the connection, whoever    *)
(* opened it, and the request is answered with an error.                   *)

(* Mutant of Begin: BEGIN joins the open transaction instead of raising.   *)
BeginNested(r) ==
  /\ pc[r] = "begin"
  /\ inTx' = TRUE
  /\ Goto(r, "select")
  /\ UNCHANGED <<rows, disk, ghostVars, crashes>>

Begin(r) ==
  /\ pc[r] = "begin"
  /\ ~inTx
  /\ inTx' = TRUE
  /\ Goto(r, "select")
  /\ UNCHANGED <<rows, disk, ghostVars, crashes>>

BeginRaises(r) ==
  /\ pc[r] = "begin"
  /\ inTx
  /\ Goto(r, "idle")
  /\ UNCHANGED <<rows, disk, inTx, ghostVars, crashes>>

Mutated(q, snap) ==
  CASE q.op = "check"  -> set_checked(snap, <<q.page, q.code>>, q.tick)
    [] q.op = "verify" ->
         apply_verify(snap, q.page, q.found \cup q.carried, q.carried)
    [] OTHER -> merge_checked_state(q.copy, snap)

Select(r) ==
  /\ pc[r] = "select"
  /\ req' = [req EXCEPT ![r].copy = Mutated(req[r], rows.focus)]
  /\ pc' = [pc EXCEPT ![r] = "update"]
  /\ UNCHANGED <<rows, disk, inTx, ghostVars, crashes>>

(* The items a mutation changes: the one that was toggled, those of the    *)
(* page that was verified, those a rebuilt checklist no longer lists.      *)
Changed(q) ==
  CASE q.op = "check"  -> {<<q.page, q.code>>} \cap DOMAIN q.copy
    [] q.op = "verify" -> {i \in DOMAIN q.copy : i[1] = q.page}
    [] OTHER -> Items \ DOMAIN q.copy

Update(r) ==
  /\ pc[r] = "update"
  /\ Store([rows EXCEPT !.focus = req[r].copy])
  /\ told' = [i \in Items |->
                IF i \notin Changed(req[r]) THEN told[i]
                ELSE IF i \in DOMAIN req[r].copy THEN req[r].copy[i]
                ELSE "open"]
  /\ Goto(r, "updated")
  /\ UNCHANGED <<seen, absent, claimed, crashes>>

---------------------------------------------------------------------------
(* rescan_url.                                                             *)

(* The findings stored under the page, and the broken-link codes of the    *)
(* pages it links to.                                                      *)
LinkedRows(p) == LinksTo[p] \X {Broken}

Lookup(r) ==
  /\ pc[r] = "lookup"
  /\ LET p == req[r].page IN
     req' = [req EXCEPT
       ![r].old    = CodesOf(rows.issues \cap OnPage(p, Codes)),
       ![r].linked = CodesOf(rows.issues \cap LinkedRows(p))]
  /\ pc' = [pc EXCEPT ![r] = "fetch"]
  /\ UNCHANGED <<rows, disk, inTx, ghostVars, crashes>>

(* Mutant of FetchInconclusive: an unreadable page, which shows no         *)
(* findings, verifies them all.                                            *)
FetchInconclusiveReconciles(r) ==
  /\ pc[r] = "fetch"
  /\ Goto(r, IF req[r].op = "verify" THEN "begin" ELSE "idle")
  /\ UNCHANGED <<rows, disk, inTx, ghostVars, crashes>>

(* No answer, an answer that does not parse, or a status that tells        *)
(* nothing (401, 403, 429, 5xx): nothing is written.                       *)
FetchInconclusive(r) ==
  /\ pc[r] = "fetch"
  /\ Goto(r, "idle")
  /\ UNCHANGED <<rows, disk, inTx, ghostVars, crashes>>

(* What a re-scan of a page that exists looks at.  It requests the page's  *)
(* external links and none of its internal ones.                           *)
Evaluated(p) ==
  Codes \ (Unrunnable \cup (IF LinksTo[p] = {} THEN {} ELSE {Broken}))

(* Mutant of CarriedOver: the deleted findings that need a full crawl are  *)
(* not stored again.                                                       *)
CarriedOverNothing(q) == {}

CarriedOver(q) == q.old \cap Unrunnable
(* Mutant of Resolved: codes the re-scan never evaluated count as          *)
(* resolved.                                                               *)
ResolvedUnchecked(q, found) == (q.old \cup q.linked) \ found

Resolved(q, found) == ((q.old \cup q.linked) \ found) \ Unrunnable

FetchPage(r) ==
  /\ pc[r] = "fetch"
  /\ LET q == req[r] IN
     \E found \in SUBSET (Codes \ Unrunnable) :
       /\ req' = [req EXCEPT ![r].found   = found,
                             ![r].carried = CarriedOver(q),
                             ![r].fixed   = Resolved(q, found)]
       /\ seen' = (seen \ OnPage(q.page, Evaluated(q.page)))
                    \cup OnPage(q.page, found)
       /\ absent' = absent \cup OnPage(q.page, Evaluated(q.page) \ found)
  /\ pc' = [pc EXCEPT ![r] = "save_page"]
  /\ UNCHANGED <<rows, disk, inTx, told, claimed, crashes>>

(* 404 and 410: the page is gone, and none of its findings carries over.   *)
FetchGone(r) ==
  /\ pc[r] = "fetch"
  /\ LET q == req[r] IN
       /\ req' = [req EXCEPT ![r].found = {Broken}, ![r].gone = TRUE,
                             ![r].fixed = (q.old \cup q.linked) \ {Broken}]
       /\ seen' = (seen \ OnPage(q.page, Codes)) \cup OnPage(q.page, {Broken})
       /\ absent' = absent \cup OnPage(q.page, Codes \ {Broken})
  /\ pc' = [pc EXCEPT ![r] = "save_page"]
  /\ UNCHANGED <<rows, disk, inTx, told, claimed, crashes>>

SavePage(r) ==
  /\ pc[r] = "save_page"
  /\ Store(rows)
  /\ Goto(r, "page_saved")
  /\ UNCHANGED <<ghostVars, crashes>>

DeleteIssuesForUrl(r) ==
  /\ pc[r] = "delete"
  /\ Store([rows EXCEPT !.issues = @ \ OnPage(req[r].page, Codes)])
  /\ Goto(r, "deleted")
  /\ UNCHANGED <<ghostVars, crashes>>

DeleteBrokenLinkIssues(r) ==
  /\ pc[r] = "delete_broken"
  /\ Store([rows EXCEPT !.issues = @ \ LinkedRows(req[r].page)])
  /\ Goto(r, "broken_deleted")
  /\ UNCHANGED <<ghostVars, crashes>>

SaveIssues(r) ==
  /\ pc[r] = "insert"
  /\ Store([rows EXCEPT !.issues =
              @ \cup OnPage(req[r].page, req[r].found \cup req[r].carried)])
  /\ Goto(r, "inserted")
  /\ UNCHANGED <<ghostVars, crashes>>

RecordFixedIssues(r) ==
  /\ pc[r] = "record"
  /\ Store([rows EXCEPT !.ledger =
              @ \cup OnPage(req[r].page, req[r].fixed)])
  /\ Goto(r, "recorded")
  /\ UNCHANGED <<ghostVars, crashes>>

---------------------------------------------------------------------------
(* Commits and crashes.                                                    *)

(* verify-page reconciles the checklist after the re-scan unless the page  *)
(* answered an error status.                                               *)
AfterRescan(q) == IF q.op = "verify" /\ ~q.gone THEN "begin" ELSE "idle"

AfterBuild(q) == CASE q.op = "check"  -> "begin"
                   [] q.op = "verify" -> "lookup"
                   [] OTHER -> "idle"

AfterCommit(q, stage) ==
  CASE stage = "stored"         -> AfterBuild(q)
    [] stage = "page_saved"     -> "delete"
    [] stage = "deleted"        -> "delete_broken"
    [] stage = "broken_deleted" -> "insert"
    [] stage = "inserted"       -> IF q.fixed = {} THEN AfterRescan(q)
                                                   ELSE "record"
    [] stage = "recorded"       -> AfterRescan(q)
    [] OTHER -> "idle"

Written == {"stored", "page_saved", "deleted", "broken_deleted", "inserted",
            "recorded", "updated"}

Commit(r) ==
  /\ pc[r] \in Written
  /\ disk' = rows /\ inTx' = FALSE
  /\ Goto(r, AfterCommit(req[r], pc[r]))
  /\ UNCHANGED <<rows, ghostVars, crashes>>

Crash ==
  /\ crashes < MaxCrashes
  /\ crashes' = crashes + 1
  /\ rows' = disk /\ inTx' = FALSE
  /\ pc' = [r \in Requests |-> "idle"]
  /\ req' = [r \in Requests |-> Blank]
  /\ told' = [i \in Items |-> IF i \in DOMAIN disk.focus THEN disk.focus[i]
                                                         ELSE "open"]
  /\ UNCHANGED <<disk, seen, absent, claimed>>

---------------------------------------------------------------------------
Ask(r) ==
  \/ GetFixFocus(r) \/ Regenerate(r) \/ Check(r)
  \/ VerifyPage(r) \/ RescanUrl(r) \/ MarkFixed(r)

Proceed(r) ==
  \/ Build(r) \/ StoreSnapshot(r)
  \/ Begin(r) \/ BeginRaises(r) \/ Select(r) \/ Update(r)
  \/ Lookup(r) \/ FetchInconclusive(r) \/ FetchPage(r) \/ FetchGone(r)
  \/ SavePage(r) \/ DeleteIssuesForUrl(r) \/ DeleteBrokenLinkIssues(r)
  \/ SaveIssues(r) \/ RecordFixedIssues(r) \/ Commit(r)

Next ==
  \/ \E r \in Requests : Ask(r) \/ Proceed(r)
  \/ Crash

Spec == Init /\ [][Next]_vars

---------------------------------------------------------------------------
(* Properties.                                                             *)

Stages == {"idle", "build", "store", "begin", "select", "update", "lookup",
           "fetch", "save_page", "delete", "delete_broken", "insert", "record"}
            \cup Written

Tables ==
  [built : BOOLEAN, focus : Snapshots,
   issues : SUBSET Items, ledger : SUBSET Items]

RequestData ==
  [op : Operations \cup {"none"}, page : Pages, code : Codes,
   tick : BOOLEAN, had : BOOLEAN, gone : BOOLEAN,
   old : SUBSET Codes, linked : SUBSET Codes, found : SUBSET Codes,
   carried : SUBSET Codes, fixed : SUBSET Codes, copy : Snapshots]

(* Types; and what the connection reads differs from what is committed     *)
(* only inside a transaction.                                              *)
TypeOK ==
  /\ rows \in Tables /\ disk \in Tables
  /\ inTx \in BOOLEAN /\ (~inTx => rows = disk)
  /\ pc \in [Requests -> Stages]
  /\ req \in [Requests -> RequestData]
  /\ told \in [Items -> Statuses]
  /\ {seen, absent, claimed} \subseteq SUBSET Items
  /\ crashes \in 0..MaxCrashes

(* No writer undoes another's: the checklist shows each item with the      *)
(* status the last change made to it gave, whatever snapshots other        *)
(* requests read, rebuilt or reconciled in the meantime.                   *)
AsTold == \A i \in DOMAIN rows.focus : rows.focus[i] = told[i]

(* What was answered survives a crash: once no request is in flight,       *)
(* nothing any of them wrote is still uncommitted.                         *)
NothingPending == Quiet => rows = disk

(* Nothing enters the ledger of fixed findings but what a conclusive look  *)
(* at the page evaluated and no longer found, or the operator declared.    *)
LedgerChecked == rows.ledger \subseteq absent \cup claimed

(* With no re-scan in flight, the stored findings of a job are what the    *)
(* last looks at its pages left standing: a re-scan clears nothing it      *)
(* could not evaluate, and keeps nothing it found gone.                    *)
StoredAsSeen == crashes = 0 /\ Quiet => rows.issues = seen

(* No item is shown as verified unless some look evaluated its code and    *)
(* did not find it: not after an unreadable page, nor for a check that     *)
(* needs a full crawl.                                                     *)
VerifiedWasChecked ==
  crashes = 0 =>
    \A i \in DOMAIN rows.focus : rows.focus[i] = "verified" => i \in absent

=============================================================================
