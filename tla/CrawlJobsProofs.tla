-------------------------- MODULE CrawlJobsProofs ---------------------------
(***************************************************************************)
(* Theorems about CrawlJobs, for every set of jobs, hosts and requests.    *)
(***************************************************************************)
EXTENDS CrawlJobs, TLAPS

(* The states of a request that is working on a row of its own choosing.   *)
NeedsJob ==
  {"launch_seed", "launch_schedule", "scan_fetch", "scan_save", "scan_finish",
   "scan_fail", "cancel_decide", "cancel_write", "recheck_guard",
   "recheck_select", "recheck_others", "recheck_pages"} \cup TaskStates

JobKnown == \A r \in Requests : pc[r] \in NeedsJob => job[r] \in Jobs

Typed == TypeOK /\ JobKnown

USE DEF Active, Terminal, BgStates, BgLive, TaskStates, HandlerStates, NeedsJob

-----------------------------------------------------------------------------
(* Type correctness: every variable keeps its type, and a request that     *)
(* works on a job names one of Jobs.                                       *)
LEMMA TypedInit == Init => Typed
  BY ConstantsAssumption DEF Init, Typed, TypeOK, RowTypeOK, MemTypeOK, ReqTypeOK, JobKnown

ReqTyped == ReqTypeOK /\ JobKnown

(* A request that goes on, or leaves, keeps the types of the requests.     *)
LEMMA GotoTyped ==
  ASSUME ReqTyped, NEW r \in Requests,
         NEW here, NEW next \in HandlerStates, next \in NeedsJob => here \in NeedsJob,
         Goto(r, here, next)
  PROVE  ReqTyped'
  BY DEF ReqTyped, ReqTypeOK, JobKnown, Goto

LEMMA LeaveTyped ==
  ASSUME ReqTyped, NEW r \in Requests, NEW here, Leave(r, here)
  PROVE  ReqTyped'
  BY DEF ReqTyped, ReqTypeOK, JobKnown, Leave

LEMMA TypedStep == Typed /\ [Next]_vars => Typed'
  <1> SUFFICES ASSUME Typed, [Next]_vars PROVE Typed'
    OBVIOUS
  <1> USE ConstantsAssumption DEF Typed, TypeOK, RowTypeOK, MemTypeOK, ReqTypeOK, JobKnown, rowVars, memVars, reqVars
  <1>1. ASSUME NEW r \in Requests, Arrival(r) PROVE Typed'
    <2>1. ASSUME NEW h \in Hosts, StartCrawl(r, h) \/ ScanPage(r, h) PROVE Typed'
      BY <2>1 DEF StartCrawl, ScanPage, Arrives
    <2>2. ASSUME NEW j \in Jobs, Rescan(r, j) PROVE Typed'
      BY <2>2 DEF Rescan, Arrives
    <2>3. ASSUME NEW j \in Jobs, CancelRead(r, j) PROVE Typed'
      BY <2>3 DEF CancelRead, Arrives
    <2>4. ASSUME NEW j \in Jobs, RecheckRead(r, j) PROVE Typed'
      BY <2>4 DEF RecheckRead, Arrives
    <2> QED BY <1>1, <2>1, <2>2, <2>3, <2>4 DEF Arrival
  <1>2. ASSUME NEW r \in Requests, Handler(r) PROVE Typed'
    <2> USE DEF Goto, Leave
    <2>1. CASE LaunchGuard(r)
      BY <2>1, GotoTyped, LeaveTyped DEF LaunchGuard, ReqTyped
    <2>2. CASE LaunchSelect(r)
      BY <2>2, GotoTyped, LeaveTyped DEF LaunchSelect, ReqTyped
    <2>3. CASE LaunchScope(r)
      BY <2>3, GotoTyped, LeaveTyped DEF LaunchScope, ReqTyped
    <2>4. CASE LaunchSeed(r) BY <2>4 DEF LaunchSeed
    <2>5. CASE LaunchSchedule(r) BY <2>5 DEF LaunchSchedule
    <2>6. CASE ScanFetch(r) BY <2>6 DEF ScanFetch
    <2>7. CASE ScanSave(r) BY <2>7 DEF ScanSave
    <2>8. CASE ScanFinish(r)
      BY <2>8, GotoTyped, LeaveTyped DEF ScanFinish, ReqTyped
    <2>9. CASE CancelDecide(r)
      BY <2>9, GotoTyped, LeaveTyped DEF CancelDecide, ReqTyped
    <2>10. CASE CancelWrite(r) BY <2>10 DEF CancelWrite
    <2>11. CASE RecheckGuard(r)
      BY <2>11, GotoTyped, LeaveTyped DEF RecheckGuard, ReqTyped
    <2>12. CASE RecheckSelect(r)
      BY <2>12, GotoTyped, LeaveTyped DEF RecheckSelect, ReqTyped
    <2>13. CASE RecheckOthers(r)
      BY <2>13, GotoTyped, LeaveTyped DEF RecheckOthers, ReqTyped
    <2>14. CASE RecheckStart(r) BY <2>14 DEF RecheckStart
    <2>15. CASE RecheckTask(r) BY <2>15 DEF RecheckTask
    <2>16. CASE RecheckEnd(r) BY <2>16 DEF RecheckEnd
    <2>17. ASSUME NEW j \in Jobs, LaunchInsert(r, j) PROVE Typed'
      BY <2>17 DEF LaunchInsert
    <2>18. ASSUME NEW j \in Jobs, ScanInsert(r, j) PROVE Typed'
      BY <2>18 DEF ScanInsert
    <2> QED BY <1>2, <2>1, <2>2, <2>3, <2>4, <2>5, <2>6, <2>7, <2>8, <2>9, <2>10,
               <2>11, <2>12, <2>13, <2>14, <2>15, <2>16, <2>17, <2>18 DEF Handler
  <1>3. ASSUME NEW j \in Jobs, Background(j) PROVE Typed'
    <2>1. CASE BgStart(j) BY <2>1 DEF BgStart
    <2>2. CASE BgCancelled(j) BY <2>2 DEF BgCancelled
    <2>3. CASE BgPagesDone(j) BY <2>3 DEF BgPagesDone
    <2>4. CASE BgCrawlDone(j) BY <2>4 DEF BgCrawlDone
    <2>5. CASE BgSave(j) BY <2>5 DEF BgSave
    <2>6. CASE BgFinish(j) BY <2>6 DEF BgFinish
    <2>7. CASE BgFail(j) BY <2>7 DEF BgFail
    <2>8. CASE BgPop(j) BY <2>8 DEF BgPop
    <2> QED BY <1>3, <2>1, <2>2, <2>3, <2>4, <2>5, <2>6, <2>7, <2>8 DEF Background
  <1>4. CASE Fault
    <2>1. ASSUME NEW j \in Jobs, BgRaises(j) PROVE Typed'
      BY <2>1 DEF BgRaises
    <2>2. ASSUME NEW r \in Requests, HandlerRaises(r) PROVE Typed'
      BY <2>2 DEF HandlerRaises, Leave
    <2> QED BY <1>4, <2>1, <2>2 DEF Fault
  <1>5. CASE Restart
    BY <1>5 DEF Restart
  <1>6. CASE UNCHANGED vars
    BY <1>6 DEF vars
  <1> QED BY <1>1, <1>2, <1>3, <1>4, <1>5, <1>6 DEF Next

(* Every variable of the job layer keeps its type, whatever the endpoints, *)
(* the overlap of requests and the number of failures.                     *)
THEOREM TypeCorrect == Spec => []TypeOK
  <1>1. Typed => TypeOK
    BY DEF Typed
  <1> QED BY TypedInit, TypedStep, <1>1, PTL DEF Spec

-----------------------------------------------------------------------------
(* The cancel events and the live crawls                                   *)

LEMMA EventInit == Init => EventTracksEngine
  BY DEF Init, EventTracksEngine

LEMMA EventStep == Typed /\ EventTracksEngine /\ [Next]_vars => EventTracksEngine'
  <1> SUFFICES ASSUME Typed, EventTracksEngine, [Next]_vars PROVE EventTracksEngine'
    OBVIOUS
  <1> USE DEF Typed, TypeOK, MemTypeOK, ReqTypeOK, JobKnown, EventTracksEngine, memVars
  <1>1. CASE UNCHANGED <<event, bg>>
    BY <1>1
  <1>2. ASSUME NEW r \in Requests, Arrival(r) PROVE UNCHANGED <<event, bg>>
    BY <1>2 DEF Arrival, StartCrawl, ScanPage, Rescan, CancelRead, RecheckRead
  <1>3. ASSUME NEW r \in Requests, Handler(r) PROVE EventTracksEngine'
    <2>1. CASE LaunchSchedule(r)
      BY <2>1 DEF LaunchSchedule, Leave
    <2>2. CASE CancelDecide(r)
      BY <2>2 DEF CancelDecide, Leave
    <2>3. CASE UNCHANGED <<event, bg>>
      BY <2>3
    <2> QED
      BY <1>3, <2>1, <2>2, <2>3
      DEF Handler, LaunchGuard, LaunchSelect, LaunchScope, LaunchSeed, LaunchInsert,
          ScanInsert, ScanFetch, ScanSave, ScanFinish, CancelWrite, RecheckGuard,
          RecheckSelect, RecheckOthers, RecheckStart, RecheckTask, RecheckEnd
  <1>4. ASSUME NEW j \in Jobs, Background(j) PROVE EventTracksEngine'
    BY <1>4 DEF Background, BgStart, BgCancelled, BgPagesDone, BgCrawlDone, BgSave,
                BgFinish, BgFail, BgPop
  <1>5. CASE Fault
    BY <1>5 DEF Fault, BgRaises, HandlerRaises
  <1>6. CASE Restart
    BY <1>6 DEF Restart
  <1>7. CASE UNCHANGED vars
    BY <1>1, <1>7 DEF vars
  <1> QED BY <1>1, <1>2, <1>3, <1>4, <1>5, <1>6, <1>7 DEF Next

(* The event of a job is in _cancel_events exactly while its crawl lives,  *)
(* so the branch of cancel_job that finds no event never overwrites the    *)
(* row of a crawl that was live when it looked.                            *)
THEOREM EventsTrackEngines == Spec => []EventTracksEngine
  BY TypedInit, TypedStep, EventInit, EventStep, PTL DEF Spec

-----------------------------------------------------------------------------
(* Rows that block their domain                                            *)

(* A crawl that is over has left a final status unless a call raised, and  *)
(* a job that was ever scheduled has a row.                                *)
OverIsFinal ==
  faults = 0 => \A j \in Jobs : bg[j] \in {"pop", "done"} => status[j] \in Terminal

ScheduledHasRow ==
  /\ \A j \in Jobs : bg[j] # "none" => status[j] # "none"
  /\ \A r \in Requests :
       pc[r] \in {"launch_seed", "launch_schedule"} => status[job[r]] # "none"

OwnerInv == OverIsFinal /\ ScheduledHasRow /\ BlockedOnlyWhileOwned

LEMMA OwnerInit == Init => OwnerInv
  BY DEF Init, OwnerInv, OverIsFinal, ScheduledHasRow, BlockedOnlyWhileOwned

LEMMA OwnerStep == Typed /\ OwnerInv /\ [Next]_vars => OwnerInv'
  <1> SUFFICES ASSUME Typed, OwnerInv, [Next]_vars PROVE OwnerInv'
    OBVIOUS
  <1> USE DEF Typed, TypeOK, RowTypeOK, MemTypeOK, ReqTypeOK, JobKnown, OwnerInv,
              OverIsFinal, ScheduledHasRow, BlockedOnlyWhileOwned, Owned,
              rowVars, memVars, reqVars
  <1>1. ASSUME NEW r \in Requests, Arrival(r) PROVE OwnerInv'
    <2> USE DEF Arrives
    <2>1. CASE \E h \in Hosts : StartCrawl(r, h) \/ ScanPage(r, h)
      BY <2>1 DEF StartCrawl, ScanPage
    <2>2. ASSUME NEW j \in Jobs, Rescan(r, j) PROVE OwnerInv'
      BY <2>2 DEF Rescan
    <2>3. ASSUME NEW j \in Jobs, CancelRead(r, j) PROVE OwnerInv'
      BY <2>3 DEF CancelRead
    <2>4. ASSUME NEW j \in Jobs, RecheckRead(r, j) PROVE OwnerInv'
      BY <2>4 DEF RecheckRead
    <2> QED BY <1>1, <2>1, <2>2, <2>3, <2>4 DEF Arrival
  <1>2. ASSUME NEW r \in Requests, Handler(r) PROVE OwnerInv'
    <2> USE DEF Goto, Leave
    <2>1. CASE LaunchGuard(r) BY <2>1 DEF LaunchGuard
    <2>2. CASE LaunchSelect(r) BY <2>2 DEF LaunchSelect
    <2>3. CASE LaunchScope(r) BY <2>3 DEF LaunchScope
    <2>4. CASE LaunchSeed(r) BY <2>4 DEF LaunchSeed
    <2>5. CASE LaunchSchedule(r) BY <2>5 DEF LaunchSchedule
    <2>6. CASE ScanFetch(r) BY <2>6 DEF ScanFetch
    <2>7. CASE ScanSave(r) BY <2>7 DEF ScanSave
    <2>8. CASE ScanFinish(r) BY <2>8 DEF ScanFinish
    <2>9. CASE CancelDecide(r) BY <2>9 DEF CancelDecide
    <2>10. CASE CancelWrite(r) BY <2>10 DEF CancelWrite
    <2>11. CASE RecheckGuard(r) BY <2>11 DEF RecheckGuard
    <2>12. CASE RecheckSelect(r) BY <2>12 DEF RecheckSelect
    <2>13. CASE RecheckOthers(r) BY <2>13 DEF RecheckOthers
    <2>14. CASE RecheckStart(r) BY <2>14 DEF RecheckStart
    <2>15. CASE RecheckTask(r) BY <2>15 DEF RecheckTask
    <2>16. CASE RecheckEnd(r) BY <2>16 DEF RecheckEnd
    <2>17. ASSUME NEW j \in Jobs, LaunchInsert(r, j) PROVE OwnerInv'
      BY <2>17 DEF LaunchInsert
    <2>18. ASSUME NEW j \in Jobs, ScanInsert(r, j) PROVE OwnerInv'
      BY <2>18 DEF ScanInsert
    <2> QED BY <1>2, <2>1, <2>2, <2>3, <2>4, <2>5, <2>6, <2>7, <2>8, <2>9, <2>10,
               <2>11, <2>12, <2>13, <2>14, <2>15, <2>16, <2>17, <2>18 DEF Handler
  <1>3. ASSUME NEW j \in Jobs, Background(j) PROVE OwnerInv'
    <2>1. CASE BgStart(j) BY <2>1 DEF BgStart
    <2>2. CASE BgCancelled(j) BY <2>2 DEF BgCancelled
    <2>3. CASE BgPagesDone(j) BY <2>3 DEF BgPagesDone
    <2>4. CASE BgCrawlDone(j) BY <2>4 DEF BgCrawlDone
    <2>5. CASE BgSave(j) BY <2>5 DEF BgSave
    <2>6. CASE BgFinish(j) BY <2>6 DEF BgFinish
    <2>7. CASE BgFail(j) BY <2>7 DEF BgFail
    <2>8. CASE BgPop(j) BY <2>8 DEF BgPop
    <2> QED BY <1>3, <2>1, <2>2, <2>3, <2>4, <2>5, <2>6, <2>7, <2>8 DEF Background
  <1>4. CASE Fault
    <2>1. ASSUME NEW j \in Jobs, BgRaises(j) PROVE OwnerInv'
      BY <2>1 DEF BgRaises
    <2>2. ASSUME NEW r \in Requests, HandlerRaises(r) PROVE OwnerInv'
      BY <2>2 DEF HandlerRaises, Leave
    <2> QED BY <1>4, <2>1, <2>2 DEF Fault
  <1>5. CASE Restart
    BY <1>5 DEF Restart
  <1>6. CASE UNCHANGED vars
    BY <1>6 DEF vars
  <1> QED BY <1>1, <1>2, <1>3, <1>4, <1>5, <1>6 DEF Next

(* Until a call raises, every queued or running row has a live task or     *)
(* handler that is going to finish it: no domain stays blocked.            *)
THEOREM BlockedRowsAreOwned == Spec => []BlockedOnlyWhileOwned
  <1>1. OwnerInv => BlockedOnlyWhileOwned
    BY DEF OwnerInv
  <1> QED BY TypedInit, TypedStep, OwnerInit, OwnerStep, <1>1, PTL DEF Spec

-----------------------------------------------------------------------------
(* A complete job and its results                                          *)

ScanSavedFirst ==
  \A r \in Requests : pc[r] = "scan_finish" => saved[job[r]] = "all"

ResultsInv == ScanSavedFirst /\ CompleteHasResults

LEMMA ResultsInit == Init => ResultsInv
  BY DEF Init, ResultsInv, ScanSavedFirst, CompleteHasResults

LEMMA ResultsStep == Typed /\ ResultsInv /\ [Next]_vars => ResultsInv'
  <1> SUFFICES ASSUME Typed, ResultsInv, [Next]_vars PROVE ResultsInv'
    OBVIOUS
  <1> USE DEF Typed, TypeOK, RowTypeOK, MemTypeOK, ReqTypeOK, JobKnown,
              ResultsInv, ScanSavedFirst, CompleteHasResults, rowVars,
              memVars, reqVars
  <1>1. ASSUME NEW r \in Requests, Arrival(r) PROVE ResultsInv'
    <2> USE DEF Arrives
    <2>1. CASE \E h \in Hosts : StartCrawl(r, h) \/ ScanPage(r, h)
      BY <2>1 DEF StartCrawl, ScanPage
    <2>2. ASSUME NEW j \in Jobs, Rescan(r, j) PROVE ResultsInv'
      BY <2>2 DEF Rescan
    <2>3. ASSUME NEW j \in Jobs, CancelRead(r, j) PROVE ResultsInv'
      BY <2>3 DEF CancelRead
    <2>4. ASSUME NEW j \in Jobs, RecheckRead(r, j) PROVE ResultsInv'
      BY <2>4 DEF RecheckRead
    <2> QED BY <1>1, <2>1, <2>2, <2>3, <2>4 DEF Arrival
  <1>2. ASSUME NEW r \in Requests, Handler(r) PROVE ResultsInv'
    <2> USE DEF Goto, Leave
    <2>1. CASE LaunchGuard(r) BY <2>1 DEF LaunchGuard
    <2>2. CASE LaunchSelect(r) BY <2>2 DEF LaunchSelect
    <2>3. CASE LaunchScope(r) BY <2>3 DEF LaunchScope
    <2>4. CASE LaunchSeed(r) BY <2>4 DEF LaunchSeed
    <2>5. CASE LaunchSchedule(r) BY <2>5 DEF LaunchSchedule
    <2>6. CASE ScanFetch(r) BY <2>6 DEF ScanFetch
    <2>7. CASE ScanSave(r) BY <2>7 DEF ScanSave
    <2>8. CASE ScanFinish(r) BY <2>8 DEF ScanFinish
    <2>9. CASE CancelDecide(r) BY <2>9 DEF CancelDecide
    <2>10. CASE CancelWrite(r) BY <2>10 DEF CancelWrite
    <2>11. CASE RecheckGuard(r) BY <2>11 DEF RecheckGuard
    <2>12. CASE RecheckSelect(r) BY <2>12 DEF RecheckSelect
    <2>13. CASE RecheckOthers(r) BY <2>13 DEF RecheckOthers
    <2>14. CASE RecheckStart(r) BY <2>14 DEF RecheckStart
    <2>15. CASE RecheckTask(r) BY <2>15 DEF RecheckTask
    <2>16. CASE RecheckEnd(r) BY <2>16 DEF RecheckEnd
    <2>17. ASSUME NEW j \in Jobs, LaunchInsert(r, j) PROVE ResultsInv'
      BY <2>17 DEF LaunchInsert
    <2>18. ASSUME NEW j \in Jobs, ScanInsert(r, j) PROVE ResultsInv'
      BY <2>18 DEF ScanInsert
    <2> QED BY <1>2, <2>1, <2>2, <2>3, <2>4, <2>5, <2>6, <2>7, <2>8, <2>9,
               <2>10, <2>11, <2>12, <2>13, <2>14, <2>15, <2>16, <2>17, <2>18 DEF Handler
  <1>3. ASSUME NEW j \in Jobs, Background(j) PROVE ResultsInv'
    <2>1. CASE BgStart(j) BY <2>1 DEF BgStart
    <2>2. CASE BgCancelled(j) BY <2>2 DEF BgCancelled
    <2>3. CASE BgPagesDone(j) BY <2>3 DEF BgPagesDone
    <2>4. CASE BgCrawlDone(j) BY <2>4 DEF BgCrawlDone
    <2>5. CASE BgSave(j) BY <2>5 DEF BgSave
    <2>6. CASE BgFinish(j) BY <2>6 DEF BgFinish
    <2>7. CASE BgFail(j) BY <2>7 DEF BgFail
    <2>8. CASE BgPop(j) BY <2>8 DEF BgPop
    <2> QED BY <1>3, <2>1, <2>2, <2>3, <2>4, <2>5, <2>6, <2>7, <2>8 DEF Background
  <1>4. CASE Fault
    <2>1. ASSUME NEW j \in Jobs, BgRaises(j) PROVE ResultsInv'
      BY <2>1 DEF BgRaises
    <2>2. ASSUME NEW r \in Requests, HandlerRaises(r) PROVE ResultsInv'
      BY <2>2 DEF HandlerRaises, Leave
    <2> QED BY <1>4, <2>1, <2>2 DEF Fault
  <1>5. CASE Restart
    BY <1>5 DEF Restart
  <1>6. CASE UNCHANGED vars
    BY <1>6 DEF vars
  <1> QED BY <1>1, <1>2, <1>3, <1>4, <1>5, <1>6 DEF Next

(* A job never reads complete before its pages, issues, links and images   *)
(* are in the tables, in whatever order requests, crawls, failures and     *)
(* restarts interleave.                                                    *)
THEOREM CompleteJobsHaveResults == Spec => []CompleteHasResults
  <1>1. ResultsInv => CompleteHasResults
    BY DEF ResultsInv
  <1> QED BY TypedInit, TypedStep, ResultsInit, ResultsStep, <1>1, PTL DEF Spec

-----------------------------------------------------------------------------
(* The recheck table                                                       *)

LEMMA EntryInit == Init => RecheckEntryBacked
  BY DEF Init, RecheckEntryBacked

LEMMA EntryStep == Typed /\ RecheckEntryBacked /\ [Next]_vars => RecheckEntryBacked'
  <1> SUFFICES ASSUME Typed, RecheckEntryBacked, [Next]_vars PROVE RecheckEntryBacked'
    OBVIOUS
  <1> USE DEF Typed, TypeOK, RowTypeOK, MemTypeOK, ReqTypeOK, JobKnown,
              RecheckEntryBacked, rowVars, memVars, reqVars
  <1>1. ASSUME NEW r \in Requests, Arrival(r) PROVE RecheckEntryBacked'
    <2> USE DEF Arrives
    <2>1. CASE \E h \in Hosts : StartCrawl(r, h) \/ ScanPage(r, h)
      BY <2>1 DEF StartCrawl, ScanPage
    <2>2. ASSUME NEW j \in Jobs, Rescan(r, j) PROVE RecheckEntryBacked'
      BY <2>2 DEF Rescan
    <2>3. ASSUME NEW j \in Jobs, CancelRead(r, j) PROVE RecheckEntryBacked'
      BY <2>3 DEF CancelRead
    <2>4. ASSUME NEW j \in Jobs, RecheckRead(r, j) PROVE RecheckEntryBacked'
      BY <2>4 DEF RecheckRead
    <2> QED BY <1>1, <2>1, <2>2, <2>3, <2>4 DEF Arrival
  <1>2. ASSUME NEW r \in Requests, Handler(r) PROVE RecheckEntryBacked'
    <2> USE DEF Goto, Leave
    <2>1. CASE LaunchGuard(r) BY <2>1 DEF LaunchGuard
    <2>2. CASE LaunchSelect(r) BY <2>2 DEF LaunchSelect
    <2>3. CASE LaunchScope(r) BY <2>3 DEF LaunchScope
    <2>4. CASE LaunchSeed(r) BY <2>4 DEF LaunchSeed
    <2>5. CASE LaunchSchedule(r) BY <2>5 DEF LaunchSchedule
    <2>6. CASE ScanFetch(r) BY <2>6 DEF ScanFetch
    <2>7. CASE ScanSave(r) BY <2>7 DEF ScanSave
    <2>8. CASE ScanFinish(r) BY <2>8 DEF ScanFinish
    <2>9. CASE CancelDecide(r) BY <2>9 DEF CancelDecide
    <2>10. CASE CancelWrite(r) BY <2>10 DEF CancelWrite
    <2>11. CASE RecheckGuard(r) BY <2>11 DEF RecheckGuard
    <2>12. CASE RecheckSelect(r) BY <2>12 DEF RecheckSelect
    <2>13. CASE RecheckOthers(r) BY <2>13 DEF RecheckOthers
    <2>14. CASE RecheckStart(r) BY <2>14 DEF RecheckStart
    <2>15. CASE RecheckTask(r) BY <2>15 DEF RecheckTask
    <2>16. CASE RecheckEnd(r)
      <3> SUFFICES ASSUME NEW j \in Jobs, rechecking'[j]
                   PROVE  \E q \in Requests :
                            /\ job'[q] = j
                            /\ \/ pc'[q] = "recheck_task"
                               \/ pc'[q] = "recheck_loop" /\ attached'[q]
        OBVIOUS
      <3>1. rechecking[j] /\ (j = job[r] => ~attached[r])
        <4>1. /\ rechecking \in [Jobs -> BOOLEAN]
              /\ rechecking' = [rechecking EXCEPT ![job[r]] = rechecking[job[r]] /\ ~attached[r]]
          BY <2>16 DEF RecheckEnd
        <4>2. CASE j = job[r]
          BY <4>1, <4>2, Zenon
        <4>3. CASE j # job[r]
          BY <4>1, <4>3, Zenon
        <4> QED BY <4>2, <4>3
      <3>2. PICK q \in Requests :
              /\ job[q] = j
              /\ pc[q] = "recheck_task" \/ (pc[q] = "recheck_loop" /\ attached[q])
        BY <3>1
      <3>3. q # r
        BY <3>1, <3>2, <2>16 DEF RecheckEnd
      <3> QED BY <3>2, <3>3, <2>16 DEF RecheckEnd
    <2>17. ASSUME NEW j \in Jobs, LaunchInsert(r, j) PROVE RecheckEntryBacked'
      BY <2>17 DEF LaunchInsert
    <2>18. ASSUME NEW j \in Jobs, ScanInsert(r, j) PROVE RecheckEntryBacked'
      BY <2>18 DEF ScanInsert
    <2> QED BY <1>2, <2>1, <2>2, <2>3, <2>4, <2>5, <2>6, <2>7, <2>8, <2>9,
               <2>10, <2>11, <2>12, <2>13, <2>14, <2>15, <2>16, <2>17, <2>18 DEF Handler
  <1>3. ASSUME NEW j \in Jobs, Background(j) PROVE RecheckEntryBacked'
    <2>1. CASE BgStart(j) BY <2>1 DEF BgStart
    <2>2. CASE BgCancelled(j) BY <2>2 DEF BgCancelled
    <2>3. CASE BgPagesDone(j) BY <2>3 DEF BgPagesDone
    <2>4. CASE BgCrawlDone(j) BY <2>4 DEF BgCrawlDone
    <2>5. CASE BgSave(j) BY <2>5 DEF BgSave
    <2>6. CASE BgFinish(j) BY <2>6 DEF BgFinish
    <2>7. CASE BgFail(j) BY <2>7 DEF BgFail
    <2>8. CASE BgPop(j) BY <2>8 DEF BgPop
    <2> QED BY <1>3, <2>1, <2>2, <2>3, <2>4, <2>5, <2>6, <2>7, <2>8 DEF Background
  <1>4. CASE Fault
    <2>1. ASSUME NEW j \in Jobs, BgRaises(j) PROVE RecheckEntryBacked'
      BY <2>1 DEF BgRaises
    <2>2. ASSUME NEW r \in Requests, HandlerRaises(r) PROVE RecheckEntryBacked'
      BY <2>2 DEF HandlerRaises, Leave
    <2> QED BY <1>4, <2>1, <2>2 DEF Fault
  <1>5. CASE Restart
    BY <1>5 DEF Restart
  <1>6. CASE UNCHANGED vars
    BY <1>6 DEF vars
  <1> QED BY <1>1, <1>2, <1>3, <1>4, <1>5, <1>6 DEF Next

(* A running entry of _recheck_progress always has a live task that is     *)
(* going to clear it, however many requests replaced the entry.            *)
THEOREM RecheckEntriesAreBacked == Spec => []RecheckEntryBacked
  BY TypedInit, TypedStep, EntryInit, EntryStep, PTL DEF Spec

-----------------------------------------------------------------------------
(* The politeness guard, when requests do not overlap and no client        *)
(* cancels a job it saw queued                                             *)

SerialEnv == ~Overlap /\ CancelSeen \subseteq {"running"}

Idle(h)      == \A j \in Jobs : HostOf[j] = h => status[j] \notin Active
NoRecheck(h) == \A j \in Jobs : HostOf[j] = h => ~rechecking[j]
CrawlRow(j)  == status[j] \in Active /\ ~single[j]

OneHandler == \A q, r \in Requests : Handling(q) /\ Handling(r) => q = r

(* What the row of a job says about its background crawl.                  *)
RowTracksCrawl ==
  \A j \in Jobs :
    /\ status[j] = "none" => ~single[j] /\ bg[j] = "none"
    /\ bg[j] = "scheduled" => status[j] = "queued" /\ ~single[j]
    /\ bg[j] \in {"pages", "links", "save"} => status[j] = "running" /\ ~single[j]
    /\ bg[j] = "fail" => CrawlRow(j)

(* What a launch has learnt is still true when it acts on it.              *)
LaunchHolds ==
  \A r \in Requests :
    /\ pc[r] \in {"launch_select", "launch_scope", "launch_insert"} => NoRecheck(host[r])
    /\ pc[r] \in {"launch_scope", "launch_insert"} => Idle(host[r])
    /\ pc[r] \in {"launch_seed", "launch_schedule"} =>
         status[job[r]] = "queued" /\ ~single[job[r]] /\ bg[job[r]] = "none"

(* A cancel writes to the row of a job whose crawl is over.                *)
CancelHolds ==
  \A r \in Requests :
    /\ pc[r] \in {"cancel_decide", "cancel_write"} => status[job[r]] # "none"
    /\ pc[r] = "cancel_decide" => seen[r] = "running"
    /\ pc[r] = "cancel_write" => bg[job[r]] \in {"none", "done"}

(* What a recheck request has learnt is still true when it acts on it.     *)
RecheckHolds ==
  \A r \in Requests :
    /\ pc[r] \in {"recheck_guard", "recheck_select", "recheck_others", "recheck_pages"}
         => host[r] = HostOf[job[r]]
    /\ pc[r] \in {"recheck_select", "recheck_others"} => ~rechecking[job[r]]
    /\ pc[r] \in {"recheck_others", "recheck_pages"} => Idle(host[r])
    /\ pc[r] = "recheck_pages" => NoRecheck(host[r])

(* A single-page scan ends its own row.                                    *)
ScanHolds ==
  \A r \in Requests : pc[r] \in {"scan_fetch", "scan_save", "scan_finish", "scan_fail"} =>
    single[job[r]] /\ status[job[r]] = "running"

OneCrawlRow ==
  \A i, j \in Jobs : i # j /\ CrawlRow(i) /\ CrawlRow(j) => HostOf[i] # HostOf[j]

TaskAlone ==
  \A r \in Requests : pc[r] \in TaskStates =>
    /\ rechecking[job[r]]
    /\ \A j \in Jobs : CrawlRow(j) => HostOf[j] # HostOf[job[r]]
    /\ \A q \in Requests \ {r} : pc[q] \in TaskStates => HostOf[job[q]] # HostOf[job[r]]

SerialInv == /\ OneHandler /\ RowTracksCrawl /\ LaunchHolds /\ CancelHolds
             /\ RecheckHolds /\ ScanHolds /\ OneCrawlRow /\ TaskAlone

LEMMA SerialInit == Init => SerialInv
  BY DEF Init, SerialInv, OneHandler, Handling, RowTracksCrawl, LaunchHolds, CancelHolds,
         RecheckHolds, ScanHolds, OneCrawlRow, CrawlRow, TaskAlone

(* A request that leaves takes nothing with it that the others rely on.    *)
LEMMA SerialLeave ==
  ASSUME Typed, SerialInv, NEW r \in Requests, NEW here, Leave(r, here),
         UNCHANGED <<status, single, bg, rechecking>>
  PROVE  SerialInv'
  <1> USE DEF Typed, TypeOK, ReqTypeOK, SerialInv, Leave
  <1>1. OneHandler' BY DEF OneHandler, Handling
  <1>2. RowTracksCrawl' BY DEF RowTracksCrawl, CrawlRow
  <1>3. LaunchHolds' BY DEF LaunchHolds, Idle, NoRecheck
  <1>4. CancelHolds' BY DEF CancelHolds
  <1>5. RecheckHolds' BY DEF RecheckHolds, Idle, NoRecheck
  <1>6. ScanHolds' BY DEF ScanHolds
  <1>7. OneCrawlRow' BY DEF OneCrawlRow, CrawlRow
  <1>8. TaskAlone' BY DEF TaskAlone, CrawlRow
  <1> QED BY <1>1, <1>2, <1>3, <1>4, <1>5, <1>6, <1>7, <1>8

(* A handler that answers at once, because a guard refused the request or  *)
(* the event of a crawl could be set.                                      *)
AnswersAtOnce(r) ==
  \/ LaunchGuard(r) /\ RecheckOn(host[r]) # {}
  \/ LaunchSelect(r) /\ ActiveOn(host[r]) # {}
  \/ RecheckGuard(r) /\ rechecking[job[r]]
  \/ RecheckSelect(r) /\ ActiveOn(host[r]) # {}
  \/ RecheckOthers(r) /\ RecheckOn(host[r]) \ {job[r]} # {}
  \/ CancelDecide(r) /\ seen[r] = "running" /\ event[job[r]] # "absent"

LEMMA SerialAnswer ==
  ASSUME Typed, SerialInv, NEW r \in Requests, AnswersAtOnce(r)
  PROVE  SerialInv'
  <1>1. /\ \E here \in HandlerStates : Leave(r, here)
        /\ UNCHANGED <<status, single, bg, rechecking>>
    BY DEF AnswersAtOnce, LaunchGuard, LaunchSelect, RecheckGuard, RecheckSelect,
           RecheckOthers, CancelDecide, rowVars, memVars
  <1> QED BY <1>1, SerialLeave

(* The end of a single-page scan touches no row of a crawl.                *)
LEMMA SerialScanEnd ==
  ASSUME Typed, SerialInv, NEW r \in Requests, ScanFinish(r)
  PROVE  SerialInv'
  <1> USE DEF Typed, TypeOK, RowTypeOK, MemTypeOK, ReqTypeOK, JobKnown, SerialInv
  <1>1. /\ pc[r] \in {"scan_finish", "scan_fail"}
        /\ pc' = [pc EXCEPT ![r] = "idle"]
        /\ job' = [job EXCEPT ![r] = None]
        /\ host' = [host EXCEPT ![r] = None]
        /\ seen' = [seen EXCEPT ![r] = "none"]
        /\ UNCHANGED <<single, bg, rechecking>>
    BY DEF ScanFinish, Leave, memVars
  <1>2. /\ single[job[r]] /\ status[job[r]] = "running"
        /\ status'[job[r]] \in Terminal
        /\ \A j \in Jobs : j # job[r] => status'[j] = status[j]
    BY <1>1 DEF ScanFinish, ScanHolds
  <1>3. OneHandler' BY <1>1 DEF OneHandler, Handling
  <1>4. RowTracksCrawl' BY <1>1, <1>2 DEF RowTracksCrawl, CrawlRow
  <1>5. LaunchHolds' BY <1>1, <1>2 DEF LaunchHolds, Idle, NoRecheck
  <1>6. CancelHolds' BY <1>1, <1>2 DEF CancelHolds
  <1>7. RecheckHolds' BY <1>1, <1>2 DEF RecheckHolds, Idle, NoRecheck
  <1>8. ScanHolds' BY <1>1, <1>3 DEF ScanHolds, OneHandler, Handling
  <1>9. OneCrawlRow' BY <1>1, <1>2 DEF OneCrawlRow, CrawlRow
  <1>10. TaskAlone' BY <1>1, <1>2 DEF TaskAlone, CrawlRow
  <1> QED BY <1>3, <1>4, <1>5, <1>6, <1>7, <1>8, <1>9, <1>10

LEMMA SerialStep == SerialEnv /\ Typed /\ EventTracksEngine /\ SerialInv /\ [Next]_vars => SerialInv'
  <1> SUFFICES ASSUME SerialEnv, Typed, EventTracksEngine, SerialInv, [Next]_vars PROVE SerialInv'
    OBVIOUS
  <1>1. ASSUME NEW r \in Requests, AnswersAtOnce(r) PROVE SerialInv'
    BY <1>1, SerialAnswer
  <1>2. ASSUME NEW r \in Requests, ScanFinish(r) PROVE SerialInv'
    BY <1>2, SerialScanEnd
  <1> USE DEF Typed, TypeOK, RowTypeOK, MemTypeOK, ReqTypeOK, JobKnown,
              SerialEnv, EventTracksEngine, SerialInv, OneHandler, Handling,
              RowTracksCrawl, LaunchHolds, CancelHolds, RecheckHolds, ScanHolds,
              OneCrawlRow, CrawlRow, TaskAlone, Idle, NoRecheck, rowVars,
              memVars, reqVars
  <1>3. ASSUME NEW r \in Requests, Arrival(r) PROVE SerialInv'
    <2> USE DEF Arrives
    <2>1. CASE \E h \in Hosts : StartCrawl(r, h) \/ ScanPage(r, h)
      BY <2>1 DEF StartCrawl, ScanPage
    <2>2. ASSUME NEW j \in Jobs, Rescan(r, j) PROVE SerialInv'
      BY <2>2 DEF Rescan
    <2>3. ASSUME NEW j \in Jobs, CancelRead(r, j) PROVE SerialInv'
      BY <2>3 DEF CancelRead
    <2>4. ASSUME NEW j \in Jobs, RecheckRead(r, j) PROVE SerialInv'
      BY <2>4 DEF RecheckRead
    <2> QED BY <1>3, <2>1, <2>2, <2>3, <2>4 DEF Arrival
  <1>4. ASSUME NEW r \in Requests, Handler(r), ~AnswersAtOnce(r) PROVE SerialInv'
    <2> USE DEF Goto, Leave
    <2>1. CASE LaunchGuard(r)
      BY <1>4, <2>1 DEF AnswersAtOnce, LaunchGuard, RecheckOn
    <2>2. CASE LaunchSelect(r)
      BY <1>4, <2>2 DEF AnswersAtOnce, LaunchSelect, ActiveOn
    <2>3. CASE LaunchScope(r)
      <3>1. CASE Leave(r, "launch_scope")
        BY <2>3, <3>1 DEF LaunchScope
      <3>2. CASE Goto(r, "launch_scope", "launch_insert")
        BY <2>3, <3>2 DEF LaunchScope
      <3> QED BY <2>3, <3>1, <3>2 DEF LaunchScope
    <2>4. CASE LaunchSeed(r) BY <2>4 DEF LaunchSeed
    <2>5. CASE LaunchSchedule(r) BY <2>5 DEF LaunchSchedule
    <2>6. CASE ScanFetch(r) BY <2>6 DEF ScanFetch
    <2>7. CASE ScanSave(r) BY <2>7 DEF ScanSave
    <2>8. CASE ScanFinish(r) BY <1>2, <2>8
    <2>9. CASE CancelDecide(r)
      BY <1>4, <2>9 DEF AnswersAtOnce, CancelDecide
    <2>10. CASE CancelWrite(r) BY <2>10 DEF CancelWrite
    <2>11. CASE RecheckGuard(r)
      BY <1>4, <2>11 DEF AnswersAtOnce, RecheckGuard
    <2>12. CASE RecheckSelect(r)
      BY <1>4, <2>12 DEF AnswersAtOnce, RecheckSelect, ActiveOn
    <2>13. CASE RecheckOthers(r)
      BY <1>4, <2>13 DEF AnswersAtOnce, RecheckOthers, RecheckOn
    <2>14. CASE RecheckStart(r) BY <2>14 DEF RecheckStart
    <2>15. CASE RecheckTask(r) BY <2>15 DEF RecheckTask
    <2>16. CASE RecheckEnd(r) BY <2>16 DEF RecheckEnd
    <2>17. ASSUME NEW j \in Jobs, LaunchInsert(r, j) PROVE SerialInv'
      BY <2>17 DEF LaunchInsert
    <2>18. ASSUME NEW j \in Jobs, ScanInsert(r, j) PROVE SerialInv'
      BY <2>18 DEF ScanInsert
    <2> QED BY <1>4, <2>1, <2>2, <2>3, <2>4, <2>5, <2>6, <2>7, <2>8, <2>9,
               <2>10, <2>11, <2>12, <2>13, <2>14, <2>15, <2>16, <2>17, <2>18 DEF Handler
  <1>5. ASSUME NEW j \in Jobs, Background(j) PROVE SerialInv'
    <2>1. CASE BgStart(j) BY <2>1 DEF BgStart
    <2>2. CASE BgCancelled(j) BY <2>2 DEF BgCancelled
    <2>3. CASE BgPagesDone(j) BY <2>3 DEF BgPagesDone
    <2>4. CASE BgCrawlDone(j) BY <2>4 DEF BgCrawlDone
    <2>5. CASE BgSave(j) BY <2>5 DEF BgSave
    <2>6. CASE BgFinish(j) BY <2>6 DEF BgFinish
    <2>7. CASE BgFail(j) BY <2>7 DEF BgFail
    <2>8. CASE BgPop(j) BY <2>8 DEF BgPop
    <2> QED BY <1>5, <2>1, <2>2, <2>3, <2>4, <2>5, <2>6, <2>7, <2>8 DEF Background
  <1>6. CASE Fault
    <2>1. ASSUME NEW j \in Jobs, BgRaises(j) PROVE SerialInv'
      BY <2>1 DEF BgRaises
    <2>2. ASSUME NEW r \in Requests, HandlerRaises(r) PROVE SerialInv'
      BY <2>2 DEF HandlerRaises, Leave
    <2> QED BY <1>6, <2>1, <2>2 DEF Fault
  <1>7. CASE Restart
    BY <1>7 DEF Restart
  <1>8. CASE UNCHANGED vars
    BY <1>8 DEF vars
  <1> QED BY <1>1, <1>3, <1>4, <1>5, <1>6, <1>7, <1>8 DEF Next

(* One crawl per domain, and nothing else while a re-check runs: the       *)
(* politeness guard is sound for every number of jobs and hosts, with      *)
(* restarts, failures and cancels, as long as no request arrives while     *)
(* another is being handled and no client cancels a job it saw queued.     *)
THEOREM SerialGuardIsSound ==
  ASSUME SerialEnv
  PROVE  Spec => [](OneCrawlPerDomain /\ RecheckAlone)
  <1>1. SerialInv => OneCrawlPerDomain /\ RecheckAlone
    BY DEF SerialInv, OneCrawlPerDomain, RecheckAlone, Fetching, Rechecking, RowTracksCrawl,
           OneCrawlRow, CrawlRow, TaskAlone
  <1> QED BY SerialEnv, TypedInit, TypedStep, EventInit, EventStep, SerialInit, SerialStep,
             <1>1, PTL DEF Spec

(* Its first half by itself: of two jobs whose background crawls are both  *)
(* fetching, the targets are never on one host (crawl.py, _launch_crawl).  *)
COROLLARY HostsAreCrawledOnce ==
  ASSUME SerialEnv
  PROVE  Spec => []OneCrawlPerDomain
  <1> QED BY SerialEnv, SerialGuardIsSound, PTL

-----------------------------------------------------------------------------
(* The job table implements JobLifecycle.                                  *)

LifecycleNext == Lifecycle!Next \/ UNCHANGED status

LEMMA LifecycleInit == Init => Lifecycle!Init
  BY DEF Init, Lifecycle!Init

(* Ending any active jobs with one status, and a late cancel.              *)
LEMMA LifecycleEnd ==
  ASSUME Typed, NEW j \in Jobs, NEW o \in Terminal, status[j] \in Active,
         status' = [status EXCEPT ![j] = o]
  PROVE  Lifecycle!End
  <1>1. {j} \in SUBSET {i \in Jobs : status[i] \in Lifecycle!Active}
    BY DEF Lifecycle!Active
  <1>2. status' = [i \in Jobs |-> IF i \in {j} THEN o ELSE status[i]]
    BY DEF Typed, TypeOK, RowTypeOK
  <1> QED BY <1>1, <1>2 DEF Lifecycle!End, Lifecycle!Terminal

LEMMA LifecycleStep ==
  SerialEnv /\ Typed /\ SerialInv /\ [Next]_vars => LifecycleNext
  <1> SUFFICES ASSUME SerialEnv, Typed, SerialInv, [Next]_vars PROVE LifecycleNext
    OBVIOUS
  <1> USE DEF LifecycleNext, Lifecycle!Next
  <1>0. /\ status \in [Jobs -> {"none"} \cup Active \cup Terminal]
        /\ outcome \in [Jobs -> {"complete", "cancelled"}]
        /\ JobKnown
    BY DEF Typed, TypeOK, RowTypeOK, MemTypeOK
  <1>1. ASSUME NEW r \in Requests, Arrival(r) PROVE UNCHANGED status
    BY <1>1 DEF Arrival, StartCrawl, ScanPage, Rescan, CancelRead, RecheckRead, rowVars
  <1>2. ASSUME NEW r \in Requests, Handler(r) PROVE LifecycleNext
    <2>1. ASSUME NEW j \in Jobs, LaunchInsert(r, j) \/ ScanInsert(r, j)
          PROVE  Lifecycle!Create(j)
      BY <1>0, <2>1 DEF LaunchInsert, ScanInsert, Lifecycle!Create, Lifecycle!Active
    <2>2. CASE ScanFinish(r)
      <3>1. job[r] \in Jobs /\ status[job[r]] \in Active
        BY <1>0, <2>2 DEF ScanFinish, Leave, SerialInv, ScanHolds, JobKnown
      <3> QED BY <2>2, <3>1, LifecycleEnd DEF ScanFinish
    <2>3. CASE CancelWrite(r)
      <3>1. /\ job[r] \in Jobs /\ status[job[r]] # "none"
            /\ status' = [status EXCEPT ![job[r]] = "cancelled"]
        BY <1>0, <2>3 DEF CancelWrite, Leave, SerialInv, CancelHolds, JobKnown
      <3>2. CASE status[job[r]] \in Active
        BY <3>1, <3>2, LifecycleEnd
      <3>3. CASE status[job[r]] \in Terminal
        BY <3>1, <3>3 DEF Lifecycle!CancelLate, Lifecycle!Terminal
      <3> QED BY <1>0, <3>1, <3>2, <3>3
    <2>4. CASE \/ LaunchGuard(r) \/ LaunchSelect(r) \/ LaunchScope(r)
               \/ LaunchSeed(r) \/ LaunchSchedule(r) \/ ScanFetch(r)
               \/ ScanSave(r) \/ CancelDecide(r) \/ RecheckGuard(r)
               \/ RecheckSelect(r) \/ RecheckOthers(r) \/ RecheckStart(r)
               \/ RecheckTask(r) \/ RecheckEnd(r)
      BY <2>4 DEF LaunchGuard, LaunchSelect, LaunchScope, LaunchSeed,
         LaunchSchedule, ScanFetch, ScanSave, CancelDecide, RecheckGuard,
         RecheckSelect, RecheckOthers, RecheckStart, RecheckTask, RecheckEnd,
         rowVars
    <2> QED BY <1>2, <2>1, <2>2, <2>3, <2>4 DEF Handler
  <1>3. ASSUME NEW j \in Jobs, Background(j) PROVE LifecycleNext
    <2>1. CASE BgStart(j)
      BY <2>1 DEF BgStart, SerialInv, RowTracksCrawl, Lifecycle!Start
    <2>2. CASE BgFinish(j)
      BY <1>0, <2>2, LifecycleEnd DEF BgFinish, SerialInv, RowTracksCrawl
    <2>3. CASE BgFail(j)
      BY <2>3, LifecycleEnd DEF BgFail, SerialInv, RowTracksCrawl, CrawlRow
    <2>4. CASE \/ BgCancelled(j) \/ BgPagesDone(j) \/ BgCrawlDone(j)
               \/ BgSave(j) \/ BgPop(j)
      BY <2>4 DEF BgCancelled, BgPagesDone, BgCrawlDone, BgSave, BgPop, rowVars
    <2> QED BY <1>3, <2>1, <2>2, <2>3, <2>4 DEF Background
  <1>4. CASE Fault
    BY <1>4 DEF Fault, BgRaises, HandlerRaises, rowVars
  <1>5. CASE Restart
    <2> DEFINE S == {j \in Jobs : status[j] \in Active}
    <2>1. status' = [j \in Jobs |-> IF j \in S THEN "failed" ELSE status[j]]
      BY <1>5 DEF Restart
    <2>2. S \in SUBSET {j \in Jobs : status[j] \in Lifecycle!Active}
      BY DEF Lifecycle!Active
    <2> HIDE DEF S
    <2>3. Lifecycle!End
      BY <2>1, <2>2 DEF Lifecycle!End, Lifecycle!Terminal
    <2> QED BY <2>3
  <1>6. CASE UNCHANGED vars
    BY <1>6 DEF vars, rowVars
  <1> QED BY <1>1, <1>2, <1>3, <1>4, <1>5, <1>6 DEF Next

(* The job table implements the lifecycle a polling client relies on, for  *)
(* any number of jobs, faults and restarts: an ended job never runs again, *)
(* and no end is replaced but by a late cancel.                            *)
THEOREM JobsFollowTheLifecycle ==
  ASSUME SerialEnv
  PROVE  Spec => LifecycleSpec
  <1>1. LifecycleNext => [Lifecycle!Next]_status
    BY DEF LifecycleNext
  <1> QED BY SerialEnv, TypedInit, TypedStep, EventInit, EventStep, SerialInit,
             SerialStep, LifecycleInit, LifecycleStep, <1>1, PTL
          DEF Spec, LifecycleSpec, Lifecycle!Spec

=============================================================================
