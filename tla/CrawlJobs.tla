----------------------------- MODULE CrawlJobs ------------------------------
(***************************************************************************)
(* The job layer of api/routers/crawl.py over the crawl_jobs table of      *)
(* api/services/sqlite_store.py: start, rescan, scan-page, cancel and      *)
(* recheck-all requests, the background crawl of each job, and the         *)
(* start-up reaper of api/main.py.                                         *)
(*                                                                         *)
(* Everything runs on one asyncio loop, so code between two awaits is      *)
(* atomic and anything may happen at an await: an action below is the      *)
(* code from one await to the next.  A store call is one action, since its *)
(* statement is visible to the other users of the shared connection as     *)
(* soon as it executes.  The durable state is the row of each job; the     *)
(* cancel events and the recheck table live in the process and die with it.*)
(***************************************************************************)
EXTENDS Naturals

CONSTANTS
  Jobs,         \* job ids; every id is used for at most one job
  Hosts,        \* target hosts, www. stripped
  HostOf,       \* the host of each job's target_url
  Requests,     \* concurrent HTTP requests, with the tasks they leave behind
  None,         \* no job, no host
  Endpoints,    \* the endpoints the clients use
  CancelSeen,   \* the statuses in which clients cancel a job
  Overlap,      \* TRUE when requests may overlap
  FaultBudget   \* bound on the number of store calls or fetches that raise

ASSUME ConstantsAssumption ==
  /\ HostOf \in [Jobs -> Hosts]
  /\ None \notin Jobs \cup Hosts
  /\ Endpoints \subseteq {"start", "rescan", "scan", "cancel", "recheck"}
  /\ CancelSeen \subseteq {"queued", "running"}
  /\ Overlap \in BOOLEAN
  /\ FaultBudget \in Nat

VARIABLES
  (* durable: one row of crawl_jobs per job, and its results               *)
  status,       \* "none" while the row does not exist
  single,       \* TRUE for a job created by scan-page
  saved,        \* how much of the results is in the tables
  (* in the process                                                        *)
  event,        \* _cancel_events: "absent", "clear" or "set"
  bg,           \* where the background crawl of a job is
  outcome,      \* the status the finished crawl is going to write
  rechecking,   \* _recheck_progress[j]["running"]
  (* the requests                                                          *)
  pc,           \* the await a request is suspended at
  job,          \* the job it works on
  host,         \* the host it wants to crawl
  seen,         \* the status its get_job returned
  attached,     \* its recheck task holds the entry that is in the table
  faults        \* store calls and fetches that have raised so far

rowVars == <<status, single, saved>>
memVars == <<event, bg, outcome, rechecking>>
reqVars == <<pc, job, host, seen, attached>>
vars    == <<rowVars, memVars, reqVars, faults>>

Terminal == {"complete", "cancelled", "failed"}
Active   == {"queued", "running"}

BgLive   == {"scheduled", "pages", "links", "save", "fail", "pop"}
BgStates == {"none", "done"} \cup BgLive

TaskStates == {"recheck_task", "recheck_loop"}
HandlerStates ==
  {"launch_guard", "launch_select", "launch_scope", "launch_insert",
   "launch_seed", "launch_schedule", "scan_insert", "scan_fetch", "scan_save",
   "scan_finish", "scan_fail", "cancel_decide", "cancel_write",
   "recheck_guard", "recheck_select", "recheck_others", "recheck_pages"}

RowTypeOK ==
  /\ status \in [Jobs -> {"none"} \cup Active \cup Terminal]
  /\ single \in [Jobs -> BOOLEAN]
  /\ saved \in [Jobs -> {"nothing", "pages", "all"}]

MemTypeOK ==
  /\ event \in [Jobs -> {"absent", "clear", "set"}]
  /\ bg \in [Jobs -> BgStates]
  /\ outcome \in [Jobs -> {"complete", "cancelled"}]
  /\ rechecking \in [Jobs -> BOOLEAN]

ReqTypeOK ==
  /\ pc \in [Requests -> {"idle"} \cup HandlerStates \cup TaskStates]
  /\ job \in [Requests -> Jobs \cup {None}]
  /\ host \in [Requests -> Hosts \cup {None}]
  /\ seen \in [Requests -> {"none"} \cup Active \cup Terminal]
  /\ attached \in [Requests -> BOOLEAN]

TypeOK == RowTypeOK /\ MemTypeOK /\ ReqTypeOK /\ faults \in Nat

Init ==
  /\ status = [j \in Jobs |-> "none"]
  /\ single = [j \in Jobs |-> FALSE]
  /\ saved = [j \in Jobs |-> "nothing"]
  /\ event = [j \in Jobs |-> "absent"]
  /\ bg = [j \in Jobs |-> "none"]
  /\ outcome = [j \in Jobs |-> "complete"]
  /\ rechecking = [j \in Jobs |-> FALSE]
  /\ pc = [r \in Requests |-> "idle"]
  /\ job = [r \in Requests |-> None]
  /\ host = [r \in Requests |-> None]
  /\ seen = [r \in Requests |-> "none"]
  /\ attached = [r \in Requests |-> FALSE]
  /\ faults = 0

Handling(r) == pc[r] \in HandlerStates

(* A request arrives at an endpoint the clients use.                       *)
Arrives(r, endpoint) ==
  /\ pc[r] = "idle"
  /\ endpoint \in Endpoints
  /\ Overlap \/ \A q \in Requests : ~Handling(q)

(* A request goes on to its next await.                                    *)
Goto(r, here, next) ==
  /\ pc[r] = here
  /\ pc' = [pc EXCEPT ![r] = next]
  /\ UNCHANGED <<job, host, seen, attached>>

(* A request answers, or its task ends, and its locals die with it.        *)
Leave(r, here) ==
  /\ pc[r] = here
  /\ pc' = [pc EXCEPT ![r] = "idle"]
  /\ job' = [job EXCEPT ![r] = None]
  /\ host' = [host EXCEPT ![r] = None]
  /\ seen' = [seen EXCEPT ![r] = "none"]
  /\ attached' = [attached EXCEPT ![r] = FALSE]

(* Mutant of ActiveOn: the guard counts only the running jobs.             *)
ActiveOnRunningOnly(h) == {j \in Jobs : HostOf[j] = h /\ status[j] = "running"}

ActiveOn(h) == {j \in Jobs : HostOf[j] = h /\ status[j] \in Active}

RecheckOn(h) == {j \in Jobs : HostOf[j] = h /\ rechecking[j]}

-----------------------------------------------------------------------------
(* POST /start and the common launcher                                     *)

StartCrawl(r, h) ==
  /\ Arrives(r, "start")
  /\ pc' = [pc EXCEPT ![r] = "launch_guard"]
  /\ host' = [host EXCEPT ![r] = h]
  /\ UNCHANGED <<rowVars, memVars, job, seen, attached, faults>>

(* Mutant of LaunchGuard: the launcher does not look at the re-checks.     *)
LaunchGuardSkipped(r) ==
  /\ Goto(r, "launch_guard", "launch_select")
  /\ UNCHANGED <<rowVars, memVars, faults>>

(* The scan over _recheck_progress runs before the first await; a running  *)
(* re-check of the host answers 409.                                       *)
LaunchGuard(r) ==
  /\ IF RecheckOn(host[r]) # {}
       THEN Leave(r, "launch_guard")
       ELSE Goto(r, "launch_guard", "launch_select")
  /\ UNCHANGED <<rowVars, memVars, faults>>

(* active_jobs_for_domain; a partial scan then resolves its scope over the *)
(* network, a full crawl goes straight to the INSERT.                      *)
LaunchSelect(r) ==
  /\ IF ActiveOn(host[r]) # {}
       THEN Leave(r, "launch_select")
       ELSE \E next \in {"launch_scope", "launch_insert"} :
              Goto(r, "launch_select", next)
  /\ UNCHANGED <<rowVars, memVars, faults>>

(* An empty scope answers 422.                                             *)
LaunchScope(r) ==
  /\ Leave(r, "launch_scope") \/ Goto(r, "launch_scope", "launch_insert")
  /\ UNCHANGED <<rowVars, memVars, faults>>

(* create_job under a fresh uuid; a priority seed is written by a second   *)
(* store call.                                                             *)
LaunchInsert(r, j) ==
  /\ status[j] = "none" /\ HostOf[j] = host[r]
  /\ pc[r] = "launch_insert"
  /\ \E next \in {"launch_seed", "launch_schedule"} :
       pc' = [pc EXCEPT ![r] = next]
  /\ status' = [status EXCEPT ![j] = "queued"]
  /\ job' = [job EXCEPT ![r] = j]
  /\ UNCHANGED <<single, saved, memVars, host, seen, attached, faults>>

LaunchSeed(r) ==
  /\ Goto(r, "launch_seed", "launch_schedule")
  /\ UNCHANGED <<rowVars, memVars, faults>>

(* The cancel event is registered and the background task added without an *)
(* await between them; the task starts once the response is out.           *)
LaunchSchedule(r) ==
  /\ Leave(r, "launch_schedule")
  /\ event' = [event EXCEPT ![job[r]] = "clear"]
  /\ bg' = [bg EXCEPT ![job[r]] = "scheduled"]
  /\ UNCHANGED <<rowVars, outcome, rechecking, faults>>

(* POST /{job_id}/rescan of a finished job.  A job recognised as a         *)
(* single-page scan is scanned again in the request; pages_total = 1 also  *)
(* makes a whole-site crawl of a one-page site look like one.              *)
Rescan(r, j) ==
  /\ Arrives(r, "rescan")
  /\ status[j] \in Terminal
  /\ \/ pc' = [pc EXCEPT ![r] = "scan_insert"]
     \/ ~single[j] /\ pc' = [pc EXCEPT ![r] = "launch_guard"]
  /\ host' = [host EXCEPT ![r] = HostOf[j]]
  /\ UNCHANGED <<rowVars, memVars, job, seen, attached, faults>>

-----------------------------------------------------------------------------
(* POST /scan-page: the scan runs inside the request, with no guard, no    *)
(* cancel event and no handler for what raises after the row exists.       *)

ScanPage(r, h) ==
  /\ Arrives(r, "scan")
  /\ pc' = [pc EXCEPT ![r] = "scan_insert"]
  /\ host' = [host EXCEPT ![r] = h]
  /\ UNCHANGED <<rowVars, memVars, job, seen, attached, faults>>

ScanInsert(r, j) ==
  /\ status[j] = "none" /\ HostOf[j] = host[r]
  /\ pc[r] = "scan_insert"
  /\ pc' = [pc EXCEPT ![r] = "scan_fetch"]
  /\ status' = [status EXCEPT ![j] = "running"]
  /\ single' = [single EXCEPT ![j] = TRUE]
  /\ job' = [job EXCEPT ![r] = j]
  /\ UNCHANGED <<saved, memVars, host, seen, attached, faults>>

(* The marker write, the settings lookup, the fetch and the checks.        *)
ScanFetch(r) ==
  /\ \E next \in {"scan_save", "scan_fail"} : Goto(r, "scan_fetch", next)
  /\ UNCHANGED <<rowVars, memVars, faults>>

(* save_pages, then issues and images.                                     *)
ScanSave(r) ==
  /\ pc[r] = "scan_save"
  /\ IF saved[job[r]] = "nothing"
       THEN /\ saved' = [saved EXCEPT ![job[r]] = "pages"]
            /\ Goto(r, "scan_save", "scan_save")
       ELSE /\ saved' = [saved EXCEPT ![job[r]] = "all"]
            /\ Goto(r, "scan_save", "scan_finish")
  /\ UNCHANGED <<status, single, memVars, faults>>

ScanFinish(r) ==
  /\ \/ /\ Leave(r, "scan_finish")
        /\ status' = [status EXCEPT ![job[r]] = "complete"]
     \/ /\ Leave(r, "scan_fail")
        /\ status' = [status EXCEPT ![job[r]] = "failed"]
  /\ UNCHANGED <<single, saved, memVars, faults>>

-----------------------------------------------------------------------------
(* POST /{job_id}/cancel                                                   *)

(* get_job; a finished job answers 409.                                    *)
CancelRead(r, j) ==
  /\ Arrives(r, "cancel")
  /\ status[j] \in CancelSeen
  /\ pc' = [pc EXCEPT ![r] = "cancel_decide"]
  /\ job' = [job EXCEPT ![r] = j]
  /\ seen' = [seen EXCEPT ![r] = status[j]]
  /\ UNCHANGED <<rowVars, memVars, host, attached, faults>>

(* On the status it read: a queued job is cancelled in the row, a running  *)
(* one through its event, and in the row again when it has none.           *)
CancelDecide(r) ==
  /\ pc[r] = "cancel_decide"
  /\ IF seen[r] = "running" /\ event[job[r]] # "absent"
       THEN /\ Leave(r, "cancel_decide")
            /\ event' = [event EXCEPT ![job[r]] = "set"]
       ELSE /\ Goto(r, "cancel_decide", "cancel_write")
            /\ UNCHANGED event
  /\ UNCHANGED <<rowVars, bg, outcome, rechecking, faults>>

CancelWrite(r) ==
  /\ Leave(r, "cancel_write")
  /\ status' = [status EXCEPT ![job[r]] = "cancelled"]
  /\ UNCHANGED <<single, saved, memVars, faults>>

-----------------------------------------------------------------------------
(* POST /{job_id}/recheck-all and its background task                      *)

(* get_job; an unfinished job answers 409.                                 *)
RecheckRead(r, j) ==
  /\ Arrives(r, "recheck")
  /\ status[j] \in Terminal
  /\ pc' = [pc EXCEPT ![r] = "recheck_guard"]
  /\ job' = [job EXCEPT ![r] = j]
  /\ host' = [host EXCEPT ![r] = HostOf[j]]
  /\ UNCHANGED <<rowVars, memVars, seen, attached, faults>>

RecheckGuard(r) ==
  /\ pc[r] = "recheck_guard"
  /\ IF rechecking[job[r]]
       THEN Leave(r, "recheck_guard")
       ELSE Goto(r, "recheck_guard", "recheck_select")
  /\ UNCHANGED <<rowVars, memVars, faults>>

RecheckSelect(r) ==
  /\ IF ActiveOn(host[r]) # {}
       THEN Leave(r, "recheck_select")
       ELSE Goto(r, "recheck_select", "recheck_others")
  /\ UNCHANGED <<rowVars, memVars, faults>>

RecheckOthers(r) ==
  /\ IF RecheckOn(host[r]) \ {job[r]} # {}
       THEN Leave(r, "recheck_others")
       ELSE Goto(r, "recheck_others", "recheck_pages")
  /\ UNCHANGED <<rowVars, memVars, faults>>

(* Mutant of RecheckStart: the finished job is marked running again.       *)
RecheckStartMarksRunning(r) ==
  /\ pc[r] = "recheck_pages"
  /\ pc' = [pc EXCEPT ![r] = "recheck_task"]
  /\ rechecking' = [rechecking EXCEPT ![job[r]] = TRUE]
  /\ attached' = [q \in Requests |-> attached[q] /\ job[q] # job[r]]
  /\ status' = [status EXCEPT ![job[r]] = "running"]
  /\ UNCHANGED <<single, saved, event, bg, outcome, job, host, seen, faults>>

(* After get_pages the entry of the job is replaced by a new one, which    *)
(* detaches a task that still holds the old one.                           *)
RecheckStart(r) ==
  /\ pc[r] = "recheck_pages"
  /\ pc' = [pc EXCEPT ![r] = "recheck_task"]
  /\ rechecking' = [rechecking EXCEPT ![job[r]] = TRUE]
  /\ attached' = [q \in Requests |-> attached[q] /\ job[q] # job[r]]
  /\ UNCHANGED <<rowVars, event, bg, outcome, job, host, seen, faults>>

(* The task takes the entry that is in the table when it first runs.       *)
RecheckTask(r) ==
  /\ pc[r] = "recheck_task"
  /\ pc' = [pc EXCEPT ![r] = "recheck_loop"]
  /\ attached' = [attached EXCEPT ![r] = TRUE]
  /\ UNCHANGED <<rowVars, memVars, job, host, seen, faults>>

(* Every page has been re-checked; the finally clears the task's entry.    *)
RecheckEnd(r) ==
  /\ Leave(r, "recheck_loop")
  /\ rechecking' = [rechecking EXCEPT ![job[r]] = @ /\ ~attached[r]]
  /\ UNCHANGED <<rowVars, event, bg, outcome, faults>>

-----------------------------------------------------------------------------
(* _run_crawl_background                                                   *)

BgStart(j) ==
  /\ bg[j] = "scheduled"
  /\ bg' = [bg EXCEPT ![j] = "pages"]
  /\ status' = [status EXCEPT ![j] = "running"]
  /\ UNCHANGED <<single, saved, event, outcome, rechecking, reqVars, faults>>

(* The page loop of run_crawl looks at the event before every page.        *)
BgCancelled(j) ==
  /\ bg[j] = "pages" /\ event[j] = "set"
  /\ bg' = [bg EXCEPT ![j] = "save"]
  /\ outcome' = [outcome EXCEPT ![j] = "cancelled"]
  /\ UNCHANGED <<rowVars, event, rechecking, reqVars, faults>>

(* The queue is empty or the page budget spent: on to the links, images    *)
(* and cross-page checks, where the event stops only the link checks.      *)
BgPagesDone(j) ==
  /\ bg[j] = "pages"
  /\ bg' = [bg EXCEPT ![j] = "links"]
  /\ UNCHANGED <<rowVars, event, outcome, rechecking, reqVars, faults>>

BgCrawlDone(j) ==
  /\ bg[j] = "links"
  /\ bg' = [bg EXCEPT ![j] = "save"]
  /\ outcome' = [outcome EXCEPT ![j] = "complete"]
  /\ UNCHANGED <<rowVars, event, rechecking, reqVars, faults>>

(* save_pages, then issues, links, images and the performance ledger.      *)
BgSave(j) ==
  /\ bg[j] = "save" /\ saved[j] # "all"
  /\ saved' = [saved EXCEPT ![j] = IF @ = "nothing" THEN "pages" ELSE "all"]
  /\ UNCHANGED <<status, single, memVars, reqVars, faults>>

(* Mutants of BgFinish: the status is written before the results are; the  *)
(* row of a cancelled crawl is left to the cancel request.                 *)
BgFinishEarly(j) ==
  /\ bg[j] = "save"
  /\ bg' = [bg EXCEPT ![j] = "pop"]
  /\ status' = [status EXCEPT ![j] = outcome[j]]
  /\ UNCHANGED <<single, saved, event, outcome, rechecking, reqVars, faults>>

BgFinishCompleteOnly(j) ==
  /\ bg[j] = "save" /\ saved[j] = "all"
  /\ bg' = [bg EXCEPT ![j] = "pop"]
  /\ status' =
       [status EXCEPT ![j] = IF outcome[j] = "complete" THEN "complete" ELSE @]
  /\ UNCHANGED <<single, saved, event, outcome, rechecking, reqVars, faults>>

BgFinish(j) ==
  /\ bg[j] = "save" /\ saved[j] = "all"
  /\ bg' = [bg EXCEPT ![j] = "pop"]
  /\ status' = [status EXCEPT ![j] = outcome[j]]
  /\ UNCHANGED <<single, saved, event, outcome, rechecking, reqVars, faults>>

BgFail(j) ==
  /\ bg[j] = "fail"
  /\ bg' = [bg EXCEPT ![j] = "pop"]
  /\ status' = [status EXCEPT ![j] = "failed"]
  /\ UNCHANGED <<single, saved, event, outcome, rechecking, reqVars, faults>>

(* Mutant of BgPop: the event is dropped only after a crawl that finished. *)
BgPopUnlessCancelled(j) ==
  /\ bg[j] = "pop"
  /\ bg' = [bg EXCEPT ![j] = "done"]
  /\ event' =
       [event EXCEPT ![j] = IF status[j] = "complete" THEN "absent" ELSE @]
  /\ outcome' = [outcome EXCEPT ![j] = "complete"]
  /\ UNCHANGED <<rowVars, rechecking, reqVars, faults>>

(* The finally runs once the last store call has returned, and the task's  *)
(* locals are gone.                                                        *)
BgPop(j) ==
  /\ bg[j] = "pop"
  /\ bg' = [bg EXCEPT ![j] = "done"]
  /\ event' = [event EXCEPT ![j] = "absent"]
  /\ outcome' = [outcome EXCEPT ![j] = "complete"]
  /\ UNCHANGED <<rowVars, rechecking, reqVars, faults>>

-----------------------------------------------------------------------------
(* Failures and restarts                                                   *)

(* A store call or the crawl raises: into the except branch, or out of it. *)
BgRaises(j) ==
  /\ faults < FaultBudget
  /\ \/ /\ bg[j] \in {"scheduled", "pages", "links", "save"}
        /\ bg' = [bg EXCEPT ![j] = "fail"]
     \/ bg[j] = "fail" /\ bg' = [bg EXCEPT ![j] = "pop"]
  /\ faults' = faults + 1
  /\ UNCHANGED <<rowVars, event, outcome, rechecking, reqVars>>

(* A call a handler awaits raises: the request ends with a 500 and what it *)
(* has written stays written.                                              *)
HandlerRaises(r) ==
  /\ faults < FaultBudget
  /\ pc[r] \in {"launch_select", "launch_scope", "launch_insert", "launch_seed",
               "scan_insert", "scan_fetch", "scan_save", "scan_finish", "scan_fail",
               "cancel_write", "recheck_select", "recheck_pages"}
  /\ Leave(r, pc[r])
  /\ faults' = faults + 1
  /\ UNCHANGED <<rowVars, memVars>>

(* The process dies, and the next one reaps the rows before it serves.     *)
Restart ==
  /\ status' =
       [j \in Jobs |-> IF status[j] \in Active THEN "failed" ELSE status[j]]
  /\ event' = [j \in Jobs |-> "absent"]
  /\ bg' = [j \in Jobs |-> IF bg[j] = "none" THEN "none" ELSE "done"]
  /\ outcome' = [j \in Jobs |-> "complete"]
  /\ rechecking' = [j \in Jobs |-> FALSE]
  /\ pc' = [r \in Requests |-> "idle"]
  /\ job' = [r \in Requests |-> None]
  /\ host' = [r \in Requests |-> None]
  /\ seen' = [r \in Requests |-> "none"]
  /\ attached' = [r \in Requests |-> FALSE]
  /\ UNCHANGED <<single, saved, faults>>

-----------------------------------------------------------------------------
Arrival(r) ==
  \/ \E h \in Hosts : StartCrawl(r, h) \/ ScanPage(r, h)
  \/ \E j \in Jobs : Rescan(r, j) \/ CancelRead(r, j) \/ RecheckRead(r, j)

Handler(r) ==
  \/ LaunchGuard(r) \/ LaunchSelect(r) \/ LaunchScope(r) \/ LaunchSeed(r)
  \/ LaunchSchedule(r) \/ ScanFetch(r) \/ ScanSave(r) \/ ScanFinish(r)
  \/ CancelDecide(r) \/ CancelWrite(r)
  \/ RecheckGuard(r) \/ RecheckSelect(r) \/ RecheckOthers(r) \/ RecheckStart(r)
  \/ RecheckTask(r) \/ RecheckEnd(r)
  \/ \E j \in Jobs : LaunchInsert(r, j) \/ ScanInsert(r, j)

Background(j) ==
  \/ BgStart(j) \/ BgCancelled(j) \/ BgPagesDone(j) \/ BgCrawlDone(j)
  \/ BgSave(j) \/ BgFinish(j) \/ BgFail(j) \/ BgPop(j)

Fault == (\E j \in Jobs : BgRaises(j)) \/ (\E r \in Requests : HandlerRaises(r))

Next ==
  \/ \E r \in Requests : Arrival(r) \/ Handler(r)
  \/ \E j \in Jobs : Background(j)
  \/ Fault
  \/ Restart

Spec == Init /\ [][Next]_vars

(* The event loop runs what is ready, and every fetch has a timeout; no    *)
(* client is obliged to send anything.                                     *)
Fairness ==
  /\ \A r \in Requests : WF_vars(Handler(r))
  /\ \A j \in Jobs : WF_vars(Background(j))

FairSpec == Spec /\ Fairness

-----------------------------------------------------------------------------
(* Properties                                                              *)

Fetching(j)   == bg[j] \in {"pages", "links"}
Rechecking(r) == pc[r] = "recheck_loop"

(* The politeness guard: a host is never crawled by two jobs at once       *)
(* (crawl.py, _launch_crawl).                                              *)
OneCrawlPerDomain ==
  \A i, j \in Jobs :
    i # j /\ Fetching(i) /\ Fetching(j) => HostOf[i] # HostOf[j]

(* Its other direction: no crawl and no second re-check fetches a host     *)
(* while a re-check does (crawl.py, recheck_all_pages and _launch_crawl).  *)
RecheckAlone ==
  \A r \in Requests : Rechecking(r) =>
    /\ \A j \in Jobs : Fetching(j) => HostOf[j] # HostOf[job[r]]
    /\ \A q \in Requests \ {r} :
         Rechecking(q) => HostOf[job[q]] # HostOf[job[r]]

(* A live background crawl always has its cancel event registered and a    *)
(* dead one never does: cancel_job tells a running engine from a row left  *)
(* by a restart by looking for the event.                                  *)
EventTracksEngine ==
  \A j \in Jobs : event[j] # "absent" <=> bg[j] \in BgLive

(* Something in this process is going to finish every queued or running    *)
(* row, so the row blocks its domain only for a while.  It takes a call    *)
(* that raised to leave one behind (between create_job and the task, or in *)
(* a single-page scan, or in the except branch itself).                    *)
Owned(j) ==
  \/ bg[j] \in BgLive
  \/ \E r \in Requests :
       /\ job[r] = j
       /\ pc[r] \in {"launch_seed", "launch_schedule",
                    "scan_fetch", "scan_save", "scan_finish", "scan_fail"}

BlockedOnlyWhileOwned ==
  faults = 0 => \A j \in Jobs : status[j] \in Active => Owned(j)

(* A job reads complete only when all its results are in the tables, after *)
(* any number of restarts, failures and late cancels.                      *)
CompleteHasResults == \A j \in Jobs : status[j] = "complete" => saved[j] = "all"

(* The running entry of _recheck_progress, which makes the launcher and    *)
(* recheck-all answer 409, is always one a live task is going to clear,    *)
(* even when overlapping requests replace each other's entry.              *)
RecheckEntryBacked ==
  \A j \in Jobs : rechecking[j] =>
    \E r \in Requests :
      /\ job[r] = j
      /\ pc[r] = "recheck_task" \/ (pc[r] = "recheck_loop" /\ attached[r])

(* Every queued or running job comes to an end, as long as nothing raises. *)
JobsEnd ==
  \A j \in Jobs :
    faults = 0 /\ status[j] \in Active ~> faults > 0 \/ status[j] \in Terminal

Lifecycle == INSTANCE JobLifecycle WITH Jobs <- Jobs, status <- status

(* The job table moves through the lifecycle a polling client relies on.   *)
LifecycleSpec == Lifecycle!Spec

=============================================================================
