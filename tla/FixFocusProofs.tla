--------------------------- MODULE FixFocusProofs ----------------------------
(***************************************************************************)
(* Theorems about FixFocus, for every set of pages, codes and requests.    *)
(***************************************************************************)
EXTENDS FixFocus, TLAPS

USE ConstantsAssumption

-----------------------------------------------------------------------------
(* The operators on snapshots return snapshots.                            *)

LEMMA SnapshotIntro ==
  ASSUME NEW S \in SUBSET Items, NEW f \in [S -> Statuses]
  PROVE  f \in Snapshots
  BY DEF Snapshots

LEMMA SnapshotElim ==
  ASSUME NEW f \in Snapshots
  PROVE  /\ DOMAIN f \in SUBSET Items
         /\ f \in [DOMAIN f -> Statuses]
  <1>1. PICK S \in SUBSET Items : f \in [S -> Statuses]
    BY DEF Snapshots
  <1> QED BY <1>1

LEMMA EmptyIsSnapshot == EmptySnapshot \in Snapshots
  <1>1. EmptySnapshot \in [{} -> Statuses]
    BY DEF EmptySnapshot
  <1> QED BY <1>1, SnapshotIntro

LEMMA BuildIsSnapshot ==
  ASSUME NEW issues \in SUBSET Items
  PROVE  build_snapshot(issues) \in Snapshots
  <1> DEFINE S == {i \in issues : i[2] \in Listed}
  <1>1. build_snapshot(issues) \in [S -> Statuses]
    BY DEF build_snapshot, Statuses
  <1> QED BY <1>1, SnapshotIntro

LEMMA MergeIsSnapshot ==
  ASSUME NEW new \in Snapshots, NEW old \in Snapshots
  PROVE  merge_checked_state(new, old) \in Snapshots
  <1>1. merge_checked_state(new, old) \in [DOMAIN new -> Statuses]
    BY SnapshotElim DEF merge_checked_state
  <1> QED BY <1>1, SnapshotElim, SnapshotIntro

LEMMA SetCheckedIsSnapshot ==
  ASSUME NEW snap \in Snapshots, NEW item, NEW tick
  PROVE  set_checked(snap, item, tick) \in Snapshots
  <1>1. set_checked(snap, item, tick) \in [DOMAIN snap -> Statuses]
    BY SnapshotElim DEF set_checked, Statuses
  <1> QED BY <1>1, SnapshotElim, SnapshotIntro

LEMMA VerdictIsStatus ==
  ASSUME NEW status, NEW code, NEW present, NEW unchecked
  PROVE  Verdict(status, code, present, unchecked) \in Statuses
  BY DEF Verdict, Statuses

LEMMA VerifyIsSnapshot ==
  ASSUME NEW snap \in Snapshots, NEW page, NEW present, NEW unchecked
  PROVE  apply_verify(snap, page, present, unchecked) \in Snapshots
  <1>1. apply_verify(snap, page, present, unchecked)
          \in [DOMAIN snap -> Statuses]
    BY SnapshotElim, VerdictIsStatus DEF apply_verify
  <1> QED BY <1>1, SnapshotElim, SnapshotIntro

LEMMA MutatedIsSnapshot ==
  ASSUME NEW q \in RequestData, NEW snap \in Snapshots
  PROVE  Mutated(q, snap) \in Snapshots
  BY SetCheckedIsSnapshot, VerifyIsSnapshot, MergeIsSnapshot
  DEF Mutated, RequestData

-----------------------------------------------------------------------------
(* Type correctness.                                                       *)

LEMMA CodesOfItems ==
  ASSUME NEW S \in SUBSET Items
  PROVE  CodesOf(S) \in SUBSET Codes
  BY DEF CodesOf, Items

LEMMA OnPageItems ==
  ASSUME NEW p \in Pages, NEW C \in SUBSET Codes
  PROVE  OnPage(p, C) \in SUBSET Items
  BY DEF OnPage, Items

LEMMA BlankTyped == Blank \in RequestData
  <1>1. (CHOOSE p \in Pages : TRUE) \in Pages
    OBVIOUS
  <1> QED BY <1>1, EmptyIsSnapshot DEF Blank, RequestData

LEMMA TypeInit == Init => TypeOK
  <1> SUFFICES ASSUME Init PROVE TypeOK
    OBVIOUS
  <1>1. rows \in Tables /\ disk = rows
    BY EmptyIsSnapshot, BuildIsSnapshot DEF Init, Tables
  <1>2. req \in [Requests -> RequestData]
    BY BlankTyped DEF Init
  <1>3. told \in [Items -> Statuses]
    BY DEF Init, Statuses
  <1>4. pc \in [Requests -> Stages] /\ {seen, absent, claimed} \subseteq SUBSET Items
    BY DEF Init, Stages
  <1>5. inTx = FALSE /\ crashes \in 0..MaxCrashes
    BY DEF Init
  <1> QED BY <1>1, <1>2, <1>3, <1>4, <1>5 DEF TypeOK

(* A request moves to another statement of its handler, or ends.           *)
LEMMA GotoTyped ==
  ASSUME pc \in [Requests -> Stages], req \in [Requests -> RequestData],
         NEW r \in Requests, NEW next \in Stages, Goto(r, next)
  PROVE  pc' \in [Requests -> Stages] /\ req' \in [Requests -> RequestData]
  BY BlankTyped DEF Goto

LEMMA ReceiveTyped ==
  ASSUME pc \in [Requests -> Stages], req \in [Requests -> RequestData],
         NEW r \in Requests, NEW q \in RequestData, NEW next \in Stages,
         Receive(r, q, next)
  PROVE  pc' \in [Requests -> Stages] /\ req' \in [Requests -> RequestData]
  BY DEF Receive

(* Where a handler goes after its commit.                                  *)
LEMMA AfterCommitStage ==
  ASSUME NEW q, NEW stage
  PROVE  AfterCommit(q, stage) \in {"idle", "begin", "lookup", "delete",
                                    "delete_broken", "insert", "record"}
  BY DEF AfterCommit, AfterBuild, AfterRescan

ReqTyped == pc \in [Requests -> Stages] /\ req \in [Requests -> RequestData]

LEMMA AskTyped ==
  ASSUME TypeOK, NEW r \in Requests, Ask(r)
  PROVE  TypeOK'
  <1> USE DEF TypeOK
  <1>1. ASSUME GetFixFocus(r) PROVE TypeOK'
    <2>1. [Blank EXCEPT !.op = "get"] \in RequestData
      BY BlankTyped DEF Blank, RequestData, Operations
    <2>2. ReqTyped'
      BY <1>1, <2>1, ReceiveTyped DEF GetFixFocus, ReqTyped, Stages
    <2> QED BY <1>1, <2>2 DEF GetFixFocus, ReqTyped, ghostVars
  <1>2. ASSUME Regenerate(r) PROVE TypeOK'
    <2>1. [Blank EXCEPT !.op = "regenerate", !.had = rows.built] \in RequestData
      BY BlankTyped DEF Blank, RequestData, Operations, Tables
    <2>2. ReqTyped'
      BY <1>2, <2>1, ReceiveTyped DEF Regenerate, ReqTyped, Stages
    <2> QED BY <1>2, <2>2 DEF Regenerate, ReqTyped, ghostVars
  <1>3. ASSUME Check(r) PROVE TypeOK'
    <2>1. ASSUME NEW i \in Items, NEW tick \in BOOLEAN
          PROVE  [Blank EXCEPT !.op = "check", !.page = i[1], !.code = i[2],
                               !.tick = tick] \in RequestData
      <3>1. i[1] \in Pages /\ i[2] \in Codes
        BY DEF Items
      <3> QED BY <3>1, BlankTyped DEF RequestData, Operations
    <2>2. ReqTyped'
      BY <1>3, <2>1, ReceiveTyped DEF Check, ReqTyped, Stages
    <2> QED BY <1>3, <2>2 DEF Check, ReqTyped, ghostVars
  <1>4. ASSUME VerifyPage(r) PROVE TypeOK'
    <2>1. ASSUME NEW p \in Pages
          PROVE  [Blank EXCEPT !.op = "verify", !.page = p] \in RequestData
      BY BlankTyped DEF Blank, RequestData, Operations
    <2>2. ReqTyped'
      BY <1>4, <2>1, ReceiveTyped DEF VerifyPage, ReqTyped, Stages
    <2> QED BY <1>4, <2>2 DEF VerifyPage, ReqTyped, ghostVars
  <1>5. ASSUME RescanUrl(r) PROVE TypeOK'
    <2>1. ASSUME NEW p \in Pages
          PROVE  [Blank EXCEPT !.op = "rescan", !.page = p] \in RequestData
      BY BlankTyped DEF Blank, RequestData, Operations
    <2>2. ReqTyped'
      BY <1>5, <2>1, ReceiveTyped DEF RescanUrl, ReqTyped, Stages
    <2> QED BY <1>5, <2>2 DEF RescanUrl, ReqTyped, ghostVars
  <1>6. ASSUME MarkFixed(r) PROVE TypeOK'
    <2>1. ASSUME NEW i \in Declared
          PROVE  [Blank EXCEPT !.op = "mark_fixed", !.page = i[1],
                               !.fixed = {i[2]}] \in RequestData
      <3>1. i[1] \in Pages /\ i[2] \in Codes
        BY DEF Items
      <3> QED BY <3>1, BlankTyped DEF RequestData, Operations
    <2>2. ReqTyped'
      BY <1>6, <2>1, ReceiveTyped DEF MarkFixed, ReqTyped, Stages
    <2> QED BY <1>6, <2>2 DEF MarkFixed, ReqTyped
  <1> QED BY <1>1, <1>2, <1>3, <1>4, <1>5, <1>6 DEF Ask

(* A handler that writes the same type of tables keeps TypeOK.             *)
LEMMA WriteTyped ==
  ASSUME TypeOK, NEW r \in Requests, NEW new \in Tables,
         NEW next \in Stages, Store(new), Goto(r, next),
         UNCHANGED <<seen, absent, claimed, crashes>>,
         told' \in [Items -> Statuses]
  PROVE  TypeOK'
  BY GotoTyped DEF TypeOK, Store

LEMMA ProceedTyped ==
  ASSUME TypeOK, NEW r \in Requests, Proceed(r)
  PROVE  TypeOK'
  <1> DEFINE q == req[r]
  <1>0. q \in RequestData /\ rows \in Tables
    BY DEF TypeOK
  <1> HIDE DEF q
  <1>1. ASSUME Build(r) PROVE TypeOK'
    <2>1. build_snapshot(rows.issues) \in Snapshots
      BY <1>0, BuildIsSnapshot DEF Tables
    <2>2. req' \in [Requests -> RequestData]
      BY <1>1, <2>1 DEF Build, TypeOK, RequestData
    <2>3. pc' \in [Requests -> Stages]
      BY <1>1 DEF Build, TypeOK, Stages
    <2> QED BY <1>1, <2>2, <2>3 DEF Build, TypeOK, ghostVars
  <1>2. ASSUME StoreSnapshot(r) PROVE TypeOK'
    <2>1. [rows EXCEPT !.built = TRUE, !.focus = req[r].copy] \in Tables
      BY <1>0 DEF Tables, RequestData, q
    <2> QED BY <1>2, <2>1, WriteTyped DEF StoreSnapshot, ghostVars, Stages, Written, TypeOK
  <1>3. ASSUME Begin(r) PROVE TypeOK'
    BY <1>3, GotoTyped DEF Begin, TypeOK, ghostVars, Stages
  <1>4. ASSUME BeginRaises(r) PROVE TypeOK'
    BY <1>4, GotoTyped DEF BeginRaises, TypeOK, ghostVars, Stages
  <1>5. ASSUME Select(r) PROVE TypeOK'
    <2>1. Mutated(req[r], rows.focus) \in Snapshots
      BY <1>0, MutatedIsSnapshot DEF Tables, q
    <2>2. req' \in [Requests -> RequestData]
      BY <1>5, <2>1 DEF Select, TypeOK, RequestData
    <2>3. pc' \in [Requests -> Stages]
      BY <1>5 DEF Select, TypeOK, Stages, Written
    <2> QED BY <1>5, <2>2, <2>3 DEF Select, TypeOK, ghostVars
  <1>6. ASSUME Update(r) PROVE TypeOK'
    <2>1. [rows EXCEPT !.focus = req[r].copy] \in Tables
      BY <1>0 DEF Tables, RequestData, q
    <2>2. ASSUME NEW i \in Items
          PROVE  (IF i \notin Changed(req[r]) THEN told[i]
                  ELSE IF i \in DOMAIN req[r].copy THEN req[r].copy[i]
                  ELSE "open") \in Statuses
      <3>1. req[r].copy \in Snapshots
        BY <1>0 DEF q, RequestData
      <3> QED BY <3>1, SnapshotElim DEF TypeOK, Statuses
    <2>3. told' \in [Items -> Statuses]
      BY <1>6, <2>2 DEF Update
    <2> QED BY <1>6, <2>1, <2>3, WriteTyped DEF Update, Stages, Written
  <1>7. ASSUME Lookup(r) PROVE TypeOK'
    <2> DEFINE old == CodesOf(rows.issues \cap OnPage(q.page, Codes))
               linked == CodesOf(rows.issues \cap LinkedRows(q.page))
    <2>1. old \in SUBSET Codes /\ linked \in SUBSET Codes
      BY <1>0, CodesOfItems DEF Tables
    <2>2. req' = [req EXCEPT ![r].old = old, ![r].linked = linked]
      BY <1>7 DEF Lookup, q
    <2> HIDE DEF old, linked
    <2>3. [req[r] EXCEPT !.old = old, !.linked = linked] \in RequestData
      BY <2>1, <1>0 DEF RequestData, q
    <2>4. req' = [req EXCEPT ![r] = [req[r] EXCEPT !.old = old, !.linked = linked]]
      BY <2>2 DEF TypeOK, RequestData
    <2>5. req' \in [Requests -> RequestData]
      BY <2>3, <2>4 DEF TypeOK
    <2>6. pc' \in [Requests -> Stages]
      BY <1>7 DEF Lookup, TypeOK, Stages
    <2> QED BY <1>7, <2>5, <2>6 DEF Lookup, TypeOK, ghostVars
  <1>8. ASSUME FetchInconclusive(r) PROVE TypeOK'
    BY <1>8, GotoTyped DEF FetchInconclusive, TypeOK, ghostVars, Stages
  <1>9. ASSUME FetchPage(r) PROVE TypeOK'
    <2>1. PICK found \in SUBSET (Codes \ Unrunnable) :
            /\ req' = [req EXCEPT ![r].found   = found,
                                 ![r].carried = CarriedOver(q),
                                 ![r].fixed   = Resolved(q, found)]
            /\ seen' = (seen \ OnPage(q.page, Evaluated(q.page)))
                         \cup OnPage(q.page, found)
            /\ absent' = absent \cup OnPage(q.page, Evaluated(q.page) \ found)
      BY <1>9 DEF FetchPage, q
    <2>2. req' \in [Requests -> RequestData]
      BY <1>0, <2>1 DEF TypeOK, RequestData, CarriedOver, Resolved, q
    <2>3. /\ OnPage(q.page, found) \in SUBSET Items
          /\ OnPage(q.page, Evaluated(q.page) \ found) \in SUBSET Items
      BY <1>0, OnPageItems DEF Evaluated, RequestData
    <2>4. {seen', absent', claimed'} \subseteq SUBSET Items
      BY <1>9, <2>1, <2>3 DEF FetchPage, TypeOK
    <2>5. pc' \in [Requests -> Stages]
      BY <1>9 DEF FetchPage, TypeOK, Stages
    <2> QED BY <1>9, <2>2, <2>4, <2>5 DEF FetchPage, TypeOK
  <1>10. ASSUME FetchGone(r) PROVE TypeOK'
    <2>1. req' \in [Requests -> RequestData]
      BY <1>0, <1>10 DEF FetchGone, TypeOK, RequestData, q
    <2>2. /\ OnPage(q.page, {Broken}) \in SUBSET Items
          /\ OnPage(q.page, Codes \ {Broken}) \in SUBSET Items
      BY <1>0, OnPageItems DEF RequestData
    <2>3. {seen', absent', claimed'} \subseteq SUBSET Items
      BY <1>10, <2>2 DEF FetchGone, TypeOK, q
    <2>4. pc' \in [Requests -> Stages]
      BY <1>10 DEF FetchGone, TypeOK, Stages
    <2> QED BY <1>10, <2>1, <2>3, <2>4 DEF FetchGone, TypeOK
  <1>11. ASSUME SavePage(r) PROVE TypeOK'
    BY <1>11, <1>0, WriteTyped DEF SavePage, ghostVars, Stages, Written, TypeOK
  <1>12. ASSUME DeleteIssuesForUrl(r) PROVE TypeOK'
    <2>1. [rows EXCEPT !.issues = @ \ OnPage(req[r].page, Codes)] \in Tables
      BY <1>0 DEF Tables
    <2> QED BY <1>12, <2>1, WriteTyped
            DEF DeleteIssuesForUrl, ghostVars, Stages, Written, TypeOK
  <1>13. ASSUME DeleteBrokenLinkIssues(r) PROVE TypeOK'
    <2>1. [rows EXCEPT !.issues = @ \ LinkedRows(req[r].page)] \in Tables
      BY <1>0 DEF Tables
    <2> QED BY <1>13, <2>1, WriteTyped
            DEF DeleteBrokenLinkIssues, ghostVars, Stages, Written, TypeOK
  <1>14. ASSUME SaveIssues(r) PROVE TypeOK'
    <2>1. OnPage(q.page, q.found \cup q.carried) \in SUBSET Items
      BY <1>0, OnPageItems DEF RequestData
    <2>2. [rows EXCEPT !.issues =
             @ \cup OnPage(req[r].page, req[r].found \cup req[r].carried)]
             \in Tables
      BY <1>0, <2>1 DEF Tables, q
    <2> QED BY <1>14, <2>2, WriteTyped
            DEF SaveIssues, ghostVars, Stages, Written, TypeOK
  <1>15. ASSUME RecordFixedIssues(r) PROVE TypeOK'
    <2>1. OnPage(q.page, q.fixed) \in SUBSET Items
      BY <1>0, OnPageItems DEF RequestData
    <2>2. [rows EXCEPT !.ledger = @ \cup OnPage(req[r].page, req[r].fixed)]
             \in Tables
      BY <1>0, <2>1 DEF Tables, q
    <2> QED BY <1>15, <2>2, WriteTyped
            DEF RecordFixedIssues, ghostVars, Stages, Written, TypeOK
  <1>16. ASSUME Commit(r) PROVE TypeOK'
    <2>1. AfterCommit(req[r], pc[r]) \in Stages
      BY AfterCommitStage DEF Stages
    <2> QED BY <1>16, <2>1, GotoTyped DEF Commit, TypeOK, ghostVars
  <1> QED BY <1>1, <1>2, <1>3, <1>4, <1>5, <1>6, <1>7, <1>8, <1>9, <1>10, <1>11,
             <1>12, <1>13, <1>14, <1>15, <1>16 DEF Proceed

LEMMA TypeStep == TypeOK /\ [Next]_vars => TypeOK'
  <1> SUFFICES ASSUME TypeOK, [Next]_vars PROVE TypeOK'
    OBVIOUS
  <1>1. CASE Crash
    <2>1. ASSUME NEW i \in Items
          PROVE  (IF i \in DOMAIN disk.focus THEN disk.focus[i] ELSE "open")
                   \in Statuses
      <3>1. disk.focus \in Snapshots
        BY DEF TypeOK, Tables
      <3> QED BY <3>1, SnapshotElim DEF Statuses
    <2>2. told' \in [Items -> Statuses]
      BY <1>1, <2>1 DEF Crash
    <2>3. crashes' \in 0..MaxCrashes
      BY <1>1 DEF Crash, TypeOK
    <2> QED BY <1>1, <2>2, <2>3, BlankTyped DEF Crash, TypeOK, Stages
  <1>2. CASE UNCHANGED vars
    BY <1>2 DEF vars, TypeOK
  <1> QED BY <1>1, <1>2, AskTyped, ProceedTyped DEF Next

(* Every variable of the checklist and of the re-scan keeps its type, and  *)
(* what the connection reads differs from what is committed only inside a  *)
(* transaction.                                                            *)
THEOREM TypeCorrect == Spec => []TypeOK
  BY TypeInit, TypeStep, PTL DEF Spec

-----------------------------------------------------------------------------
(* Commits.                                                                *)

(* The stages at which a request holds the open transaction.               *)
Holding == {"select", "update"} \cup Written

(* An open transaction belongs to a request that is about to commit.       *)
TransactionOwned == inTx => \E r \in Requests : pc[r] \in Holding

LEMMA OwnedStep == TypeOK /\ TransactionOwned /\ [Next]_vars => TransactionOwned'
  <1> SUFFICES ASSUME TypeOK, TransactionOwned, [Next]_vars
               PROVE  TransactionOwned'
    OBVIOUS
  <1> USE DEF TransactionOwned, Holding, Written
  <1>0. pc \in [Requests -> Stages] /\ inTx \in BOOLEAN
    BY DEF TypeOK
  <1>1. ASSUME NEW r \in Requests, Ask(r) PROVE TransactionOwned'
    <2>1. /\ pc[r] = "idle"
          /\ \A s \in Requests : s # r => pc'[s] = pc[s]
      BY <1>0, <1>1 DEF Ask, GetFixFocus, Regenerate, Check, VerifyPage,
         RescanUrl, MarkFixed, Receive, Admitted, Idle
    <2>2. inTx' = inTx
      BY <1>1 DEF Ask, GetFixFocus, Regenerate, Check, VerifyPage, RescanUrl,
                  MarkFixed
    <2> QED BY <2>1, <2>2
  <1>2. ASSUME NEW r \in Requests, Proceed(r) PROVE TransactionOwned'
    <2>1. \A s \in Requests : s # r => pc'[s] = pc[s]
      BY <1>0, <1>2 DEF Proceed, Build, StoreSnapshot, Begin, BeginRaises,
         Select, Update, Lookup, FetchInconclusive, FetchPage, FetchGone,
         SavePage, DeleteIssuesForUrl, DeleteBrokenLinkIssues, SaveIssues,
         RecordFixedIssues, Commit, Goto
    <2>2. CASE Build(r) \/ Lookup(r) \/ FetchPage(r) \/ FetchGone(r)
      BY <1>0, <2>1, <2>2 DEF Build, Lookup, FetchPage, FetchGone
    <2>3. CASE BeginRaises(r) \/ FetchInconclusive(r)
      BY <1>0, <2>1, <2>3 DEF BeginRaises, FetchInconclusive
    <2>4. CASE Begin(r) \/ Select(r)
      BY <1>0, <2>4 DEF Begin, Select, Goto
    <2>5. CASE \/ StoreSnapshot(r) \/ Update(r) \/ SavePage(r)
               \/ DeleteIssuesForUrl(r) \/ DeleteBrokenLinkIssues(r)
               \/ SaveIssues(r) \/ RecordFixedIssues(r)
      BY <1>0, <2>5 DEF StoreSnapshot, Update, SavePage, DeleteIssuesForUrl,
         DeleteBrokenLinkIssues, SaveIssues, RecordFixedIssues, Goto
    <2>6. CASE Commit(r)
      BY <2>6 DEF Commit
    <2> QED BY <1>2, <2>2, <2>3, <2>4, <2>5, <2>6 DEF Proceed
  <1>3. CASE Crash
    BY <1>3 DEF Crash
  <1>4. CASE UNCHANGED vars
    BY <1>4 DEF vars
  <1> QED BY <1>1, <1>2, <1>3, <1>4 DEF Next

(* Whatever overlaps and however often the process crashes, once no        *)
(* request is in flight nothing that was answered is uncommitted.          *)
THEOREM AnsweredIsCommitted == Spec => []NothingPending
  <1>1. Init => TransactionOwned
    BY DEF Init, TransactionOwned
  <1>2. TypeOK /\ TransactionOwned => NothingPending
    BY DEF TypeOK, TransactionOwned, NothingPending, Quiet, Idle, Holding, Written
  <1> QED BY TypeInit, TypeStep, OwnedStep, <1>1, <1>2, PTL DEF Spec

-----------------------------------------------------------------------------
(* The ledger of fixed findings.                                           *)

(* What a re-scan records without having looked: the broken links of a     *)
(* page to pages of the site.                                              *)
DeadLinks == {i \in Items : i[2] = Broken /\ LinksTo[i[1]] # {}}
Vouched == absent \cup claimed \cup DeadLinks

(* The ledger, committed or not, and what the requests in flight are about *)
(* to add to it.                                                           *)
LedgerVouched ==
  /\ rows.ledger \subseteq Vouched /\ disk.ledger \subseteq Vouched
  /\ \A r \in Requests : OnPage(req[r].page, req[r].fixed) \subseteq Vouched

LEMMA LedgerInit == Init => LedgerVouched
  BY DEF Init, LedgerVouched, Blank, OnPage

(* A step of one request keeps the ledger vouched for if what it adds and  *)
(* plans to add is.                                                        *)
LEMMA LedgerKept ==
  ASSUME LedgerVouched, Vouched \subseteq Vouched', NEW r \in Requests,
         \A s \in Requests : s # r => req'[s] = req[s],
         rows'.ledger \subseteq Vouched', disk' = disk \/ disk' = rows,
         OnPage(req'[r].page, req'[r].fixed) \subseteq Vouched'
  PROVE  LedgerVouched'
  BY DEF LedgerVouched

LEMMA LedgerStep == TypeOK /\ LedgerVouched /\ [Next]_vars => LedgerVouched'
  <1> SUFFICES ASSUME TypeOK, LedgerVouched, [Next]_vars PROVE LedgerVouched'
    OBVIOUS
  <1>0. /\ req \in [Requests -> RequestData]
        /\ rows \in Tables /\ disk \in Tables
    BY DEF TypeOK
  <1>1. absent \subseteq absent' /\ claimed \subseteq claimed'
    BY DEF Next, Ask, Proceed, GetFixFocus, Regenerate, Check, VerifyPage,
       RescanUrl, MarkFixed, Build, StoreSnapshot, Begin, BeginRaises, Select,
       Update, Lookup, FetchInconclusive, FetchPage, FetchGone, SavePage,
       DeleteIssuesForUrl, DeleteBrokenLinkIssues, SaveIssues,
       RecordFixedIssues, Commit, Crash, ghostVars, vars
  <1>2. Vouched \subseteq Vouched'
    BY <1>1 DEF Vouched
  <1>4. ASSUME NEW r \in Requests, Ask(r) PROVE LedgerVouched'
    <2>1. /\ rows' = rows /\ disk' = disk
          /\ \A s \in Requests : s # r => req'[s] = req[s]
      BY <1>0, <1>4 DEF Ask, GetFixFocus, Regenerate, Check, VerifyPage,
         RescanUrl, MarkFixed, Receive
    <2>2. OnPage(req'[r].page, req'[r].fixed) \subseteq Vouched'
      <3>1. CASE MarkFixed(r)
        <4>1. PICK i \in Declared :
                /\ req' = [req EXCEPT ![r] = [Blank EXCEPT !.op = "mark_fixed",
                                              !.page = i[1], !.fixed = {i[2]}]]
                /\ claimed' = claimed \cup {i}
          BY <3>1 DEF MarkFixed, Receive
        <4>2. req'[r].page = i[1] /\ req'[r].fixed = {i[2]}
          BY <1>0, <4>1 DEF Blank
        <4>3. i = <<i[1], i[2]>>
          BY DEF Items
        <4>4. OnPage(i[1], {i[2]}) = {i}
          BY <4>3 DEF OnPage
        <4> QED BY <4>1, <4>2, <4>4 DEF Vouched
      <3>2. CASE ~MarkFixed(r)
        <4>1. Blank \in RequestData /\ Blank.fixed = {}
          BY BlankTyped DEF Blank
        <4>2. ASSUME Check(r) PROVE req'[r].fixed = {}
          BY <1>0, <4>1, <4>2 DEF Check, Receive, RequestData
        <4>3. ASSUME GetFixFocus(r) PROVE req'[r].fixed = {}
          BY <1>0, <4>1, <4>3 DEF GetFixFocus, Receive, RequestData
        <4>4. ASSUME Regenerate(r) PROVE req'[r].fixed = {}
          BY <1>0, <4>1, <4>4 DEF Regenerate, Receive, RequestData
        <4>5. ASSUME VerifyPage(r) PROVE req'[r].fixed = {}
          BY <1>0, <4>1, <4>5 DEF VerifyPage, Receive, RequestData
        <4>6. ASSUME RescanUrl(r) PROVE req'[r].fixed = {}
          BY <1>0, <4>1, <4>6 DEF RescanUrl, Receive, RequestData
        <4>7. req'[r].fixed = {}
          BY <1>4, <3>2, <4>2, <4>3, <4>4, <4>5, <4>6 DEF Ask
        <4> QED BY <4>7 DEF OnPage
      <3> QED BY <3>1, <3>2
    <2> QED BY <1>2, <2>1, <2>2, LedgerKept DEF LedgerVouched
  <1>5. ASSUME NEW r \in Requests, Proceed(r) PROVE LedgerVouched'
    <2> DEFINE q == req[r]
    <2>0. q \in RequestData /\ OnPage(q.page, q.fixed) \subseteq Vouched
      BY <1>0 DEF LedgerVouched
    <2>1. \A s \in Requests : s # r => req'[s] = req[s]
      BY <1>0, <1>5 DEF Proceed, Build, StoreSnapshot, Begin, BeginRaises,
         Select, Update, Lookup, FetchInconclusive, FetchPage, FetchGone,
         SavePage, DeleteIssuesForUrl, DeleteBrokenLinkIssues, SaveIssues,
         RecordFixedIssues, Commit, Goto
    <2>2. disk' = disk \/ disk' = rows
      BY <1>5 DEF Proceed, Build, StoreSnapshot, Begin, BeginRaises,
         Select, Update, Lookup, FetchInconclusive, FetchPage, FetchGone,
         SavePage, DeleteIssuesForUrl, DeleteBrokenLinkIssues, SaveIssues,
         RecordFixedIssues, Commit, Store
    <2>3. rows'.ledger \subseteq Vouched'
      <3>1. CASE RecordFixedIssues(r)
        BY <1>0, <1>2, <2>0, <3>1
        DEF RecordFixedIssues, Store, Tables, LedgerVouched
      <3>2. CASE ~RecordFixedIssues(r)
        <4>1. rows'.ledger = rows.ledger
          BY <1>0, <1>5, <3>2 DEF Proceed, Build, StoreSnapshot, Begin,
             BeginRaises, Select, Update, Lookup, FetchInconclusive, FetchPage,
             FetchGone, SavePage, DeleteIssuesForUrl, DeleteBrokenLinkIssues,
             SaveIssues, Commit, Store, Tables
        <4> QED BY <1>2, <4>1 DEF LedgerVouched
      <3> QED BY <3>1, <3>2
    <2>4. OnPage(req'[r].page, req'[r].fixed) \subseteq Vouched'
      <3>1. CASE FetchPage(r)
        <4>1. PICK found \in SUBSET (Codes \ Unrunnable) :
                /\ req' = [req EXCEPT ![r].found   = found,
                                     ![r].carried = CarriedOver(q),
                                     ![r].fixed   = Resolved(q, found)]
                /\ absent' = absent
                     \cup OnPage(q.page, Evaluated(q.page) \ found)
          BY <3>1 DEF FetchPage
        <4>2. req'[r].page = q.page /\ req'[r].fixed = Resolved(q, found)
          BY <1>0, <4>1 DEF RequestData
        <4>3. Resolved(q, found) \subseteq Codes \ (Unrunnable \cup found)
          BY <2>0 DEF Resolved, RequestData
        <4>4. ASSUME NEW c \in Resolved(q, found)
              PROVE  <<q.page, c>> \in Vouched'
          <5>0. c \in Codes /\ c \notin Unrunnable \cup found /\ q.page \in Pages
            BY <4>3, <2>0 DEF RequestData
          <5>1. CASE c \in Evaluated(q.page)
            BY <4>1, <5>0, <5>1 DEF Vouched, OnPage
          <5>2. CASE c \notin Evaluated(q.page)
            <6>1. c = Broken /\ LinksTo[q.page] # {}
              BY <5>0, <5>2 DEF Evaluated
            <6> QED BY <5>0, <6>1 DEF Vouched, DeadLinks, Items
          <5> QED BY <5>1, <5>2
        <4> QED BY <4>2, <4>4 DEF OnPage
      <3>2. CASE FetchGone(r)
        <4>1. /\ req'[r].page = q.page
              /\ req'[r].fixed = (q.old \cup q.linked) \ {Broken}
              /\ absent' = absent \cup OnPage(q.page, Codes \ {Broken})
          BY <1>0, <3>2 DEF FetchGone, RequestData
        <4>2. (q.old \cup q.linked) \ {Broken} \subseteq Codes \ {Broken}
          BY <2>0 DEF RequestData
        <4> QED BY <4>1, <4>2 DEF OnPage, Vouched
      <3>3. CASE ~FetchPage(r) /\ ~FetchGone(r)
        <4>1. \/ req'[r] = Blank
              \/ req'[r].page = q.page /\ req'[r].fixed = q.fixed
          BY <1>0, <1>5, <3>3 DEF Proceed, Build, StoreSnapshot, Begin,
             BeginRaises, Select, Update, Lookup, FetchInconclusive,
             SavePage, DeleteIssuesForUrl, DeleteBrokenLinkIssues,
             SaveIssues, RecordFixedIssues, Commit, Goto, RequestData
        <4>2. OnPage(Blank.page, Blank.fixed) = {}
          BY DEF Blank, OnPage
        <4> QED BY <1>2, <2>0, <4>1, <4>2
      <3> QED BY <3>1, <3>2, <3>3
    <2> QED BY <1>2, <2>1, <2>2, <2>3, <2>4, LedgerKept
  <1>6. CASE Crash
    <2>1. \A r \in Requests : req'[r] = Blank
      BY <1>6 DEF Crash
    <2>2. OnPage(Blank.page, Blank.fixed) = {}
      BY DEF Blank, OnPage
    <2> QED BY <1>2, <1>6, <2>1, <2>2 DEF Crash, LedgerVouched
  <1>7. CASE UNCHANGED vars
    BY <1>7 DEF vars, LedgerVouched, Vouched
  <1> QED BY <1>4, <1>5, <1>6, <1>7 DEF Next

(* Nothing enters the ledger of fixed findings that no look at the page    *)
(* vouches for and no operator declared, but for the broken links of a     *)
(* page to others of the site, which a re-scan never requests: for any     *)
(* overlap of re-scans, rebuilds, ticks and crashes.                       *)
THEOREM LedgerChecksAllButLinks == Spec => [](rows.ledger \subseteq Vouched)
  <1>1. LedgerVouched => rows.ledger \subseteq Vouched
    BY DEF LedgerVouched
  <1> QED BY TypeInit, TypeStep, LedgerInit, LedgerStep, <1>1, PTL DEF Spec

(* On a site without internal links the ledger is all it claims to be.     *)
THEOREM LedgerIsChecked ==
  ASSUME \A p \in Pages : LinksTo[p] = {}
  PROVE  Spec => []LedgerChecked
  <1>1. LedgerVouched => LedgerChecked
    BY DEF LedgerVouched, Vouched, DeadLinks, LedgerChecked, Items
  <1> QED BY TypeInit, TypeStep, LedgerInit, LedgerStep, <1>1, PTL DEF Spec

-----------------------------------------------------------------------------
(* The requests take turns.                                                *)

Rescanning ==
  {"lookup", "fetch", "save_page", "page_saved", "delete", "deleted",
   "delete_broken", "broken_deleted", "insert", "inserted", "record",
   "recorded"}

(* The request has found that the checklist is still to be built.          *)
FirstBuild(r) ==
  \/ pc[r] = "store"
  \/ pc[r] = "build" /\ ~(req[r].op = "regenerate" /\ req[r].had)

(* The request rebuilds a checklist that it found built.                   *)
Rebuild(r) ==
  /\ pc[r] \in {"build", "begin", "select", "update"} /\ ~FirstBuild(r)
  /\ req[r].op \notin {"check", "verify"}

(* Two requests overlap only if their operations may, and once the         *)
(* checklist is built; one at most holds the transaction.                  *)
TakeTurns ==
  /\ \A r, s \in Requests :
       r # s /\ ~Idle(r) /\ ~Idle(s) => rows.built /\ req[r].op \in Concurrent
  /\ \A r \in Requests :
       pc[r] \in Rescanning => req[r].op \in {"verify", "rescan", "mark_fixed"}
  /\ \A r \in Requests : FirstBuild(r) => ~rows.built
  /\ \A r \in Requests : Rebuild(r) => rows.built
  /\ \A r \in Requests : pc[r] \in Holding => inTx
  /\ \A r, s \in Requests : pc[r] \in Holding /\ pc[s] \in Holding => r = s

(* What a request that has just arrived may be at.                         *)
Arrived(op, had, stage, built) ==
  \/ stage = "build" /\ op \in {"get", "check", "verify"} /\ ~built
  \/ stage = "build" /\ op = "regenerate" /\ had = built
  \/ stage = "begin" /\ op = "check" /\ built
  \/ stage = "lookup" /\ op \in {"verify", "rescan"}
  \/ stage = "record" /\ op = "mark_fixed"

LEMMA AskFrame ==
  ASSUME TypeOK, NEW r \in Requests, Ask(r)
  PROVE  /\ Admitted(r, req'[r].op)
         /\ Arrived(req'[r].op, req'[r].had, pc'[r], rows.built)
         /\ \A s \in Requests : s # r => pc'[s] = pc[s] /\ req'[s] = req[s]
         /\ UNCHANGED <<rows, disk, inTx, told, seen, absent, crashes>>
  <1> USE DEF TypeOK, Receive, ghostVars
  <1>0. /\ Blank \in RequestData /\ Blank.had = FALSE
        /\ rows.built \in BOOLEAN
    BY BlankTyped DEF Blank, Tables
  <1>1. ASSUME GetFixFocus(r) PROVE Arrived(req'[r].op, req'[r].had, pc'[r], rows.built)
    BY <1>0, <1>1 DEF GetFixFocus, Arrived, RequestData
  <1>2. ASSUME Regenerate(r) PROVE Arrived(req'[r].op, req'[r].had, pc'[r], rows.built)
    BY <1>0, <1>2 DEF Regenerate, Arrived, RequestData
  <1>3. ASSUME Check(r) PROVE Arrived(req'[r].op, req'[r].had, pc'[r], rows.built)
    BY <1>0, <1>3 DEF Check, Arrived, RequestData
  <1>4. ASSUME VerifyPage(r) PROVE Arrived(req'[r].op, req'[r].had, pc'[r], rows.built)
    BY <1>0, <1>4 DEF VerifyPage, Arrived, RequestData
  <1>5. ASSUME RescanUrl(r) PROVE Arrived(req'[r].op, req'[r].had, pc'[r], rows.built)
    BY <1>0, <1>5 DEF RescanUrl, Arrived, RequestData
  <1>6. ASSUME MarkFixed(r) PROVE Arrived(req'[r].op, req'[r].had, pc'[r], rows.built)
    BY <1>0, <1>6 DEF MarkFixed, Arrived, RequestData
  <1>7. Arrived(req'[r].op, req'[r].had, pc'[r], rows.built)
    BY <1>1, <1>2, <1>3, <1>4, <1>5, <1>6 DEF Ask
  <1>8. Admitted(r, req'[r].op)
    <2>1. CASE GetFixFocus(r) BY <2>1, <1>0 DEF GetFixFocus, RequestData
    <2>2. CASE Regenerate(r) BY <2>2, <1>0 DEF Regenerate, RequestData
    <2>3. CASE Check(r) BY <2>3, <1>0 DEF Check, RequestData
    <2>4. CASE VerifyPage(r) BY <2>4, <1>0 DEF VerifyPage, RequestData
    <2>5. CASE RescanUrl(r) BY <2>5, <1>0 DEF RescanUrl, RequestData
    <2>6. CASE MarkFixed(r) BY <2>6, <1>0 DEF MarkFixed, RequestData
    <2> QED BY <2>1, <2>2, <2>3, <2>4, <2>5, <2>6 DEF Ask
  <1>9. \A s \in Requests : s # r => pc'[s] = pc[s] /\ req'[s] = req[s]
    BY DEF Ask, GetFixFocus, Regenerate, Check, VerifyPage, RescanUrl, MarkFixed
  <1>10. UNCHANGED <<rows, disk, inTx, told, seen, absent, crashes>>
    BY DEF Ask, GetFixFocus, Regenerate, Check, VerifyPage, RescanUrl, MarkFixed
  <1> QED BY <1>7, <1>8, <1>9, <1>10

LEMMA ProceedFrame ==
  ASSUME TypeOK, NEW r \in Requests, Proceed(r)
  PROVE  /\ ~Idle(r)
         /\ \A s \in Requests : s # r => pc'[s] = pc[s] /\ req'[s] = req[s]
         /\ pc'[r] # "idle" => req'[r].op = req[r].op /\ req'[r].had = req[r].had
         /\ ~StoreSnapshot(r) => rows'.built = rows.built
  <1> USE DEF TypeOK
  <1>1. ~Idle(r)
    BY DEF Proceed, Build, StoreSnapshot, Begin, BeginRaises, Select, Update,
       Lookup, FetchInconclusive, FetchPage, FetchGone, SavePage,
       DeleteIssuesForUrl, DeleteBrokenLinkIssues, SaveIssues,
       RecordFixedIssues, Commit, Written, Idle
  <1>2. \A s \in Requests : s # r => pc'[s] = pc[s] /\ req'[s] = req[s]
    BY DEF Proceed, Build, StoreSnapshot, Begin, BeginRaises, Select, Update,
       Lookup, FetchInconclusive, FetchPage, FetchGone, SavePage,
       DeleteIssuesForUrl, DeleteBrokenLinkIssues, SaveIssues,
       RecordFixedIssues, Commit, Goto
  <1>3. pc'[r] # "idle" => req'[r].op = req[r].op /\ req'[r].had = req[r].had
    <2>0. req[r] \in RequestData
      OBVIOUS
    <2>1. CASE Build(r) BY <2>0, <2>1 DEF Build, RequestData
    <2>2. CASE Select(r) BY <2>0, <2>2 DEF Select, RequestData
    <2>3. CASE Lookup(r) BY <2>0, <2>3 DEF Lookup, RequestData
    <2>4. CASE FetchPage(r) BY <2>0, <2>4 DEF FetchPage, RequestData
    <2>5. CASE FetchGone(r) BY <2>0, <2>5 DEF FetchGone, RequestData
    <2>6. CASE \E next \in Stages : Goto(r, next)
      BY <2>6 DEF Goto
    <2>7. CASE Commit(r)
      BY <2>7 DEF Commit, Goto
    <2> QED BY <2>1, <2>2, <2>3, <2>4, <2>5, <2>6, <2>7
        DEF Proceed, StoreSnapshot, Begin, BeginRaises, Update,
        FetchInconclusive, SavePage, DeleteIssuesForUrl,
        DeleteBrokenLinkIssues, SaveIssues, RecordFixedIssues, Stages, Written
  <1>4. ~StoreSnapshot(r) => rows'.built = rows.built
    BY DEF Proceed, Build, Begin, BeginRaises, Select, Update,
       Lookup, FetchInconclusive, FetchPage, FetchGone, SavePage,
       DeleteIssuesForUrl, DeleteBrokenLinkIssues, SaveIssues,
       RecordFixedIssues, Commit, Store, Tables
  <1> QED BY <1>1, <1>2, <1>3, <1>4

(* Where a step takes a request.                                           *)
StepOf(r) ==
  LET op == req[r].op  here == pc[r]  next == pc'[r] IN
  \/ /\ here = "build" /\ inTx' = inTx /\ next \in {"begin", "store"}
     /\ next = "store" <=> ~(op = "regenerate" /\ req[r].had)
  \/ /\ here = "store" /\ next = "stored" /\ inTx' = TRUE
     /\ rows'.built
  \/ here = "begin" /\ ~inTx /\ next = "select" /\ inTx' = TRUE
  \/ here \in {"begin", "fetch"} /\ next = "idle" /\ inTx' = inTx
  \/ here = "select" /\ next = "update" /\ inTx' = inTx
  \/ here = "update" /\ next = "updated" /\ inTx' = TRUE
  \/ here \in {"lookup", "fetch"} /\ next \in {"fetch", "save_page"} /\ inTx' = inTx
  \/ /\ here \in Rescanning /\ here \notin Written /\ next \in Rescanning \cap Written
     /\ inTx' = TRUE
  \/ /\ here \in Written /\ inTx' = FALSE /\ next \notin {"build", "store"} \cup Holding
     /\ next \in Rescanning => here \in Rescanning \/ op = "verify"
     /\ next = "begin" => op \in {"check", "verify"}

LEMMA ProceedStep ==
  ASSUME TypeOK, NEW r \in Requests, Proceed(r)
  PROVE  StepOf(r)
  <1> USE DEF TypeOK, StepOf, Rescanning, Written
  <1>1. CASE Build(r) BY <1>1 DEF Build
  <1>2. CASE StoreSnapshot(r) BY <1>2 DEF StoreSnapshot, Store, Goto, Tables
  <1>3. CASE Begin(r) BY <1>3 DEF Begin, Goto
  <1>4. CASE BeginRaises(r) BY <1>4 DEF BeginRaises, Goto
  <1>5. CASE Select(r) BY <1>5 DEF Select
  <1>6. CASE Update(r) BY <1>6 DEF Update, Store, Goto
  <1>7. CASE Lookup(r) BY <1>7 DEF Lookup
  <1>8. CASE FetchInconclusive(r) BY <1>8 DEF FetchInconclusive, Goto
  <1>9. CASE FetchPage(r) BY <1>9 DEF FetchPage
  <1>10. CASE FetchGone(r) BY <1>10 DEF FetchGone
  <1>11. CASE SavePage(r) BY <1>11 DEF SavePage, Store, Goto
  <1>12. CASE DeleteIssuesForUrl(r) BY <1>12 DEF DeleteIssuesForUrl, Store, Goto
  <1>13. CASE DeleteBrokenLinkIssues(r)
    BY <1>13 DEF DeleteBrokenLinkIssues, Store, Goto
  <1>14. CASE SaveIssues(r) BY <1>14 DEF SaveIssues, Store, Goto
  <1>15. CASE RecordFixedIssues(r) BY <1>15 DEF RecordFixedIssues, Store, Goto
  <1>16. CASE Commit(r)
    <2>1. pc'[r] = AfterCommit(req[r], pc[r]) /\ inTx' = FALSE /\ pc[r] \in Written
      BY <1>16 DEF Commit, Goto
    <2> QED BY <2>1 DEF AfterCommit, AfterBuild, AfterRescan, Holding
  <1> QED BY <1>1, <1>2, <1>3, <1>4, <1>5, <1>6, <1>7, <1>8, <1>9, <1>10, <1>11,
             <1>12, <1>13, <1>14, <1>15, <1>16 DEF Proceed

(* The hypothesis of what follows: ticks and rebuilds of the checklist may *)
(* overlap, with themselves and with each other, and nothing else.         *)
OnlyChecklistOverlaps == Concurrent \subseteq {"check", "regenerate"}

LEMMA TurnsStep ==
  ASSUME OnlyChecklistOverlaps
  PROVE  TypeOK /\ TakeTurns /\ [Next]_vars => TakeTurns'
  <1> SUFFICES ASSUME TypeOK, TakeTurns, [Next]_vars PROVE TakeTurns'
    OBVIOUS
  <1>1. ASSUME NEW r \in Requests, Ask(r) PROVE TakeTurns'
    <2>1. /\ Admitted(r, req'[r].op)
          /\ Arrived(req'[r].op, req'[r].had, pc'[r], rows.built)
          /\ \A s \in Requests : s # r => pc'[s] = pc[s] /\ req'[s] = req[s]
          /\ rows' = rows /\ inTx' = inTx
      BY <1>1, AskFrame
    <2>2. pc[r] = "idle" /\ pc'[r] \in {"build", "begin", "lookup", "record"}
      BY <2>1 DEF Admitted, Idle, Arrived
    <2>3. ASSUME NEW s \in Requests, s # r, ~Idle(s)
          PROVE  /\ rows.built /\ req[s].op \in Concurrent
                 /\ req'[r].op \in Concurrent
      BY <2>1, <2>3 DEF Admitted, Quiet, MayOverlap
    <2>4. \A s, t \in Requests : s # t /\ ~Idle(s)' /\ ~Idle(t)' =>
            rows'.built /\ req'[s].op \in Concurrent
      BY <2>1, <2>3 DEF TakeTurns, Idle
    <2>5. \A s \in Requests : pc'[s] \in Rescanning =>
            req'[s].op \in {"verify", "rescan", "mark_fixed"}
      BY <2>1 DEF TakeTurns, Arrived, Rescanning
    <2>6. \A s \in Requests : FirstBuild(s)' => ~rows'.built
      <3>1. FirstBuild(r)' => ~rows'.built
        BY <2>1 DEF FirstBuild, Arrived
      <3> QED BY <3>1, <2>1 DEF TakeTurns, FirstBuild
    <2>7. \A s \in Requests : pc'[s] \in Holding => pc[s] \in Holding
      BY <2>1, <2>2 DEF Holding, Written
    <2>8. \A s \in Requests : Rebuild(s)' => rows'.built
      <3>1. Rebuild(r)' => rows'.built
        BY <2>1 DEF Rebuild, FirstBuild, Arrived
      <3> QED BY <3>1, <2>1 DEF TakeTurns, Rebuild, FirstBuild
    <2> QED BY <2>1, <2>4, <2>5, <2>6, <2>7, <2>8 DEF TakeTurns
  <1>2. ASSUME NEW r \in Requests, Proceed(r) PROVE TakeTurns'
    <2>1. /\ ~Idle(r)
          /\ \A s \in Requests : s # r => pc'[s] = pc[s] /\ req'[s] = req[s]
          /\ pc'[r] # "idle" => req'[r].op = req[r].op /\ req'[r].had = req[r].had
          /\ ~StoreSnapshot(r) => rows'.built = rows.built
      BY <1>2, ProceedFrame
    <2>2. StepOf(r)
      BY <1>2, ProceedStep
    <2>3. StoreSnapshot(r) => pc[r] = "store" /\ pc'[r] = "stored" /\ rows'.built
      BY <2>2 DEF StoreSnapshot, StepOf, Rescanning, Written
    <2>4. \A s, t \in Requests : s # t /\ ~Idle(s)' /\ ~Idle(t)' =>
            rows'.built /\ req'[s].op \in Concurrent
      BY <2>1, <2>3 DEF TakeTurns, Idle
    <2>5. \A s \in Requests : pc'[s] \in Rescanning =>
            req'[s].op \in {"verify", "rescan", "mark_fixed"}
      <3>1. pc'[r] \in Rescanning => pc[r] \in Rescanning \/ req[r].op = "verify"
        BY <2>2 DEF StepOf, Rescanning
      <3>2. pc'[r] \in Rescanning => pc'[r] # "idle"
        BY DEF Rescanning
      <3> QED BY <2>1, <3>1, <3>2 DEF TakeTurns
    <2>6. \A s \in Requests : FirstBuild(s)' => ~rows'.built
      <3>1. ASSUME FirstBuild(r)' PROVE ~rows'.built
        <4>1. pc[r] = "build" /\ ~(req[r].op = "regenerate" /\ req[r].had)
          BY <2>1, <2>2, <3>1 DEF StepOf, FirstBuild, Rescanning, Written, Holding
        <4> QED BY <2>1, <2>3, <4>1 DEF TakeTurns, FirstBuild
      <3>2. ASSUME NEW s \in Requests, s # r, FirstBuild(s)' PROVE FALSE
        <4>1. FirstBuild(s) /\ ~Idle(s)
          BY <2>1, <3>2 DEF FirstBuild, Idle
        <4> QED BY <2>1, <3>2, <4>1 DEF TakeTurns
      <3> QED BY <3>1, <3>2
    <2>7. ASSUME NEW s \in Requests, s # r, pc[s] \in Holding
          PROVE  pc[r] \notin Holding /\ pc'[r] \notin Holding /\ inTx'
      <3>0. ~Idle(s)
        BY <2>7 DEF Idle, Holding, Written
      <3>1. /\ pc[r] \notin Holding /\ inTx
            /\ rows.built /\ req[r].op \in {"check", "regenerate"}
        <4>1. rows.built /\ req[r].op \in Concurrent
          BY <2>1, <2>7, <3>0 DEF TakeTurns
        <4>2. pc[r] \notin Holding /\ inTx
          BY <2>7 DEF TakeTurns
        <4> QED BY <4>1, <4>2 DEF OnlyChecklistOverlaps
      <3>2. pc[r] # "store" /\ pc[r] \notin Rescanning
        BY <3>1 DEF TakeTurns, FirstBuild
      <3> QED BY <2>2, <3>1, <3>2 DEF StepOf, Holding, Written, Rescanning
    <2>8. pc'[r] \in Holding => inTx'
      BY <2>2 DEF TakeTurns, StepOf, Holding, Written, Rescanning
    <2>9. \A s \in Requests : pc'[s] \in Holding => inTx'
      BY <2>1, <2>7, <2>8
    <2>10. \A s, t \in Requests : pc'[s] \in Holding /\ pc'[t] \in Holding => s = t
      BY <2>1, <2>7 DEF TakeTurns
    <2>11. \A s \in Requests : Rebuild(s)' => rows'.built
      <3>1. rows.built => rows'.built
        BY <2>1, <2>3
      <3>2. ASSUME Rebuild(r)' PROVE Rebuild(r)
        BY <2>1, <2>2, <3>2
        DEF Rebuild, FirstBuild, StepOf, Holding, Written, Rescanning
      <3>3. \A s \in Requests : s # r /\ Rebuild(s)' => Rebuild(s)
        BY <2>1 DEF Rebuild, FirstBuild
      <3> QED BY <3>1, <3>2, <3>3 DEF TakeTurns
    <2> QED BY <2>4, <2>5, <2>6, <2>9, <2>10, <2>11 DEF TakeTurns
  <1>3. CASE Crash
    BY <1>3 DEF Crash, TakeTurns, Idle, FirstBuild, Rebuild, Rescanning, Holding, Written
  <1>4. CASE UNCHANGED vars
    BY <1>4 DEF vars, TakeTurns, Idle, FirstBuild, Rebuild
  <1> QED BY <1>1, <1>2, <1>3, <1>4 DEF Next

LEMMA TurnsInit == Init => TakeTurns
  BY DEF Init, TakeTurns, Idle, FirstBuild, Rebuild, Rescanning, Holding, Written

-----------------------------------------------------------------------------
(* The ticks and verdicts of the checklist.                                *)

AllOpen(snap) == \A i \in DOMAIN snap : snap[i] = "open"

(* A mutation about to be written changes what it was asked to and nothing *)
(* else.                                                                   *)
Prepared(r) ==
  /\ \A i \in DOMAIN req[r].copy :
       i \notin Changed(req[r]) => req[r].copy[i] = told[i]
  /\ req[r].op \in {"check", "verify"} => DOMAIN req[r].copy = DOMAIN rows.focus

(* A request holds a rebuilt checklist, on which nothing is ticked.        *)
HoldsRebuilt(r) ==
  \/ pc[r] = "store"
  \/ pc[r] \in {"begin", "select"} /\ req[r].op \notin {"check", "verify"}

ChecklistInv ==
  /\ AsTold
  /\ \A i \in Items : i \notin DOMAIN rows.focus => told[i] = "open"
  /\ ~rows.built => DOMAIN rows.focus = {}
  /\ ~disk.built => DOMAIN disk.focus = {}
  /\ \A r \in Requests : HoldsRebuilt(r) => AllOpen(req[r].copy)
  /\ \A r \in Requests : pc[r] = "update" => Prepared(r)

LEMMA ChecklistInit == Init => ChecklistInv
  <1> SUFFICES ASSUME Init PROVE ChecklistInv
    OBVIOUS
  <1>1. DOMAIN rows.focus \subseteq Items /\ AllOpen(rows.focus)
    BY DEF Init, AllOpen, EmptySnapshot, build_snapshot
  <1>2. ~rows.built => DOMAIN rows.focus = {}
    BY DEF Init, EmptySnapshot
  <1> QED BY <1>1, <1>2 DEF Init, ChecklistInv, AsTold, AllOpen, HoldsRebuilt

(* Steps that leave the stored checklist alone.                            *)
LEMMA ChecklistFrame ==
  ASSUME ChecklistInv,
         rows'.focus = rows.focus, rows'.built = rows.built,
         disk' = disk \/ disk' = rows, told' = told,
         \A r \in Requests :
           \/ pc'[r] \notin {"store", "begin", "select", "update"}
           \/ pc'[r] = pc[r] /\ req'[r] = req[r]
           \/ pc[r] = "begin" /\ pc'[r] = "select" /\ req'[r] = req[r]
           \/ pc'[r] = "begin" /\ req'[r].op \in {"check", "verify"}
           \/ pc'[r] \in {"store", "begin"} /\ AllOpen(req'[r].copy)
  PROVE  ChecklistInv'
  <1>1. AsTold' /\ \A i \in Items : i \notin DOMAIN rows'.focus => told'[i] = "open"
    BY DEF ChecklistInv, AsTold
  <1>2. /\ ~rows'.built => DOMAIN rows'.focus = {}
        /\ ~disk'.built => DOMAIN disk'.focus = {}
    BY DEF ChecklistInv
  <1>3. ASSUME NEW r \in Requests, HoldsRebuilt(r)'
        PROVE  AllOpen(req'[r].copy)
    BY <1>3 DEF ChecklistInv, HoldsRebuilt
  <1>4. ASSUME NEW r \in Requests, pc'[r] = "update"
        PROVE  Prepared(r)'
    <2>1. pc[r] = "update" /\ req'[r] = req[r]
      BY <1>4
    <2> QED BY <2>1 DEF ChecklistInv, Prepared, Changed
  <1> QED BY <1>1, <1>2, <1>3, <1>4 DEF ChecklistInv, AllOpen

(* What each mutation makes of a checklist.                                *)
LEMMA MutatedPrepared ==
  ASSUME TypeOK, ChecklistInv, NEW r \in Requests, HoldsRebuilt(r) \/ req[r].op \in {"check", "verify"},
         NEW i \in DOMAIN Mutated(req[r], rows.focus),
         i \notin Changed([req[r] EXCEPT !.copy = Mutated(req[r], rows.focus)])
  PROVE  Mutated(req[r], rows.focus)[i] = told[i]
  <1> DEFINE q == req[r]
  <1>0. q \in RequestData /\ rows.focus \in Snapshots /\ DOMAIN rows.focus \subseteq Items
    BY SnapshotElim DEF TypeOK, Tables
  <1>1. CASE q.op = "check"
    BY <1>0, <1>1 DEF Mutated, set_checked, Changed, RequestData, ChecklistInv, AsTold
  <1>2. CASE q.op = "verify"
    BY <1>0, <1>2 DEF Mutated, apply_verify, Changed, RequestData, ChecklistInv, AsTold
  <1>3. CASE q.op \notin {"check", "verify"}
    <2>1. AllOpen(q.copy) /\ q.copy \in Snapshots
      BY <1>0, <1>3 DEF ChecklistInv, RequestData
    <2>2. DOMAIN q.copy \subseteq Items
      BY <2>1, SnapshotElim
    <2>3. Mutated(q, rows.focus) = merge_checked_state(q.copy, rows.focus)
      BY <1>3 DEF Mutated
    <2> QED BY <2>1, <2>2, <2>3 DEF merge_checked_state, AllOpen, ChecklistInv, AsTold
  <1> QED BY <1>1, <1>2, <1>3

LEMMA ChecklistStep ==
  ASSUME OnlyChecklistOverlaps
  PROVE  TypeOK /\ TakeTurns /\ ChecklistInv /\ [Next]_vars => ChecklistInv'
  <1> SUFFICES ASSUME TypeOK, TakeTurns, ChecklistInv, [Next]_vars
               PROVE  ChecklistInv'
    OBVIOUS
  <1>0. /\ req \in [Requests -> RequestData] /\ pc \in [Requests -> Stages]
        /\ rows \in Tables /\ disk \in Tables /\ told \in [Items -> Statuses]
    BY DEF TypeOK
  <1>1. ASSUME NEW r \in Requests, Ask(r) PROVE ChecklistInv'
    BY <1>1, AskFrame, ChecklistFrame DEF Arrived
  <1>2. ASSUME NEW r \in Requests, Proceed(r) PROVE ChecklistInv'
    <2>0. /\ ~Idle(r)
          /\ \A s \in Requests : s # r => pc'[s] = pc[s] /\ req'[s] = req[s]
          /\ pc'[r] # "idle" => req'[r].op = req[r].op /\ req'[r].had = req[r].had
          /\ ~StoreSnapshot(r) => rows'.built = rows.built
      BY <1>2, ProceedFrame
    <2>1. CASE Build(r)
      <3>1. AllOpen(build_snapshot(rows.issues))
        BY DEF AllOpen, build_snapshot
      <3>2. pc'[r] \in {"store", "begin"} /\ req'[r].copy = build_snapshot(rows.issues)
        BY <1>0, <2>1 DEF Build, RequestData
      <3> QED BY <2>0, <2>1, <3>1, <3>2, ChecklistFrame DEF Build, ghostVars
    <2>2. CASE StoreSnapshot(r)
      <3>1. /\ rows'.focus = req[r].copy /\ rows'.built = TRUE
            /\ disk' = disk /\ told' = told /\ req' = req /\ pc'[r] = "stored"
        BY <1>0, <2>2 DEF StoreSnapshot, Store, Goto, ghostVars, Tables
      <3>2. ~rows.built /\ AllOpen(req[r].copy)
        BY <2>2 DEF StoreSnapshot, TakeTurns, FirstBuild, ChecklistInv, HoldsRebuilt
      <3>3. \A i \in Items : told[i] = "open"
        BY <3>2 DEF ChecklistInv
      <3>4. DOMAIN req[r].copy \subseteq Items
        BY <1>0, SnapshotElim DEF RequestData
      <3>5. \A s \in Requests : s # r => Idle(s)
        BY <2>0, <3>2 DEF TakeTurns
      <3>6. \A s \in Requests : pc'[s] \in {"idle", "stored"}
        BY <2>0, <3>1, <3>5 DEF Idle
      <3> QED BY <3>1, <3>2, <3>3, <3>4, <3>6
          DEF ChecklistInv, AsTold, AllOpen, HoldsRebuilt
    <2>3. CASE Begin(r)
      BY <1>0, <2>0, <2>3, ChecklistFrame DEF Begin, Goto, ghostVars
    <2>4. CASE Select(r)
      <3> DEFINE new == Mutated(req[r], rows.focus)
      <3>1. /\ req' = [req EXCEPT ![r] = [req[r] EXCEPT !.copy = new]]
            /\ pc' = [pc EXCEPT ![r] = "update"] /\ pc[r] = "select"
            /\ rows' = rows /\ disk' = disk /\ told' = told
        BY <1>0, <2>4 DEF Select, ghostVars, RequestData
      <3>2. HoldsRebuilt(r) \/ req[r].op \in {"check", "verify"}
        BY <3>1 DEF HoldsRebuilt
      <3>3. /\ req'[r] = [req[r] EXCEPT !.copy = new] /\ req'[r].copy = new
            /\ req'[r].op = req[r].op
        BY <1>0, <3>1 DEF RequestData
      <3>4. req[r].op \in {"check", "verify"} => DOMAIN new = DOMAIN rows.focus
        BY DEF Mutated, set_checked, apply_verify
      <3>5. \A i \in DOMAIN new : i \notin Changed(req'[r]) => new[i] = told[i]
        BY <3>2, <3>3, MutatedPrepared
      <3> HIDE DEF new
      <3>6. Prepared(r)'
        BY <3>1, <3>3, <3>4, <3>5 DEF Prepared
      <3>7. ASSUME NEW s \in Requests, s # r, pc[s] = "update" PROVE Prepared(s)'
        BY <2>0, <3>1, <3>7 DEF ChecklistInv, Prepared
      <3>8. \A s \in Requests : HoldsRebuilt(s)' => AllOpen(req[s].copy) /\ req'[s] = req[s]
        BY <1>0, <2>0, <3>1 DEF ChecklistInv, HoldsRebuilt
      <3> QED BY <1>0, <2>0, <3>1, <3>6, <3>7, <3>8 DEF ChecklistInv, AsTold
    <2>5. CASE Update(r)
      <3> DEFINE c == req[r].copy
      <3>1. /\ rows' = [rows EXCEPT !.focus = c] /\ disk' = disk /\ req' = req
            /\ pc[r] = "update" /\ pc' = [pc EXCEPT ![r] = "updated"]
            /\ told' = [i \in Items |->
                          IF i \notin Changed(req[r]) THEN told[i]
                          ELSE IF i \in DOMAIN c THEN c[i] ELSE "open"]
        BY <2>5 DEF Update, Store, Goto
      <3>2. Prepared(r) /\ DOMAIN c \subseteq Items /\ rows'.focus = c
        BY <1>0, <3>1, SnapshotElim DEF ChecklistInv, RequestData, Tables
      <3>3. AsTold'
        BY <3>1, <3>2 DEF AsTold, Prepared
      <3>4. ASSUME NEW i \in Items, i \notin DOMAIN c PROVE told'[i] = "open"
        <4>1. CASE req[r].op \in {"check", "verify"}
          BY <3>1, <3>2, <3>4, <4>1 DEF Prepared, ChecklistInv
        <4>2. CASE req[r].op \notin {"check", "verify"}
          BY <3>1, <3>4, <4>2 DEF Changed
        <4> QED BY <4>1, <4>2
      <3>5. ~rows'.built => DOMAIN rows'.focus = {}
        <4>1. rows'.built = rows.built
          BY <1>0, <3>1 DEF Tables
        <4>2. CASE req[r].op \in {"check", "verify"}
          BY <3>2, <4>1, <4>2 DEF Prepared, ChecklistInv
        <4>3. CASE req[r].op \notin {"check", "verify"}
          BY <3>1, <4>1, <4>3 DEF TakeTurns, Rebuild, FirstBuild
        <4> QED BY <4>2, <4>3
      <3>6. \A s \in Requests : pc'[s] # "update"
        BY <1>0, <2>0, <3>1 DEF TakeTurns, Holding, Written
      <3>7. \A s \in Requests : HoldsRebuilt(s)' => AllOpen(req[s].copy)
        BY <1>0, <3>1 DEF ChecklistInv, HoldsRebuilt
      <3> QED BY <3>1, <3>3, <3>4, <3>2, <3>5, <3>6, <3>7 DEF ChecklistInv
    <2>6. CASE Commit(r)
      <3>1. /\ rows' = rows /\ disk' = rows /\ told' = told
            /\ pc'[r] \notin {"store", "select", "update"}
            /\ pc'[r] = "begin" => req'[r].op \in {"check", "verify"}
        BY <1>0, <1>2, <2>6, AfterCommitStage DEF Commit, Goto, ghostVars,
           AfterCommit, AfterBuild, AfterRescan
      <3> QED BY <2>0, <3>1, ChecklistFrame
    <2>7. CASE \/ BeginRaises(r) \/ Lookup(r) \/ FetchInconclusive(r)
               \/ FetchPage(r) \/ FetchGone(r) \/ SavePage(r)
               \/ DeleteIssuesForUrl(r) \/ DeleteBrokenLinkIssues(r)
               \/ SaveIssues(r) \/ RecordFixedIssues(r)
      <3>1. /\ rows'.focus = rows.focus /\ rows'.built = rows.built
            /\ disk' = disk /\ told' = told
        BY <1>0, <2>7 DEF BeginRaises, Lookup, FetchInconclusive, FetchPage,
           FetchGone, SavePage, DeleteIssuesForUrl, DeleteBrokenLinkIssues,
           SaveIssues, RecordFixedIssues, Store, ghostVars, Tables
      <3>2. pc'[r] \notin {"store", "begin", "select", "update"}
        BY <1>0, <2>7 DEF BeginRaises, Lookup, FetchInconclusive, FetchPage,
           FetchGone, SavePage, DeleteIssuesForUrl, DeleteBrokenLinkIssues,
           SaveIssues, RecordFixedIssues, Goto
      <3> QED BY <2>0, <3>1, <3>2, ChecklistFrame
    <2> QED BY <1>2, <2>1, <2>2, <2>3, <2>4, <2>5, <2>6, <2>7 DEF Proceed
  <1>3. CASE Crash
    BY <1>0, <1>3, SnapshotElim DEF Crash, ChecklistInv, AsTold, HoldsRebuilt, Tables
  <1>4. CASE UNCHANGED vars
    BY <1>4 DEF vars, ChecklistInv, AsTold, HoldsRebuilt, Prepared, Changed
  <1> QED BY <1>1, <1>2, <1>3, <1>4 DEF Next

(* No writer undoes another's: every item is shown with the status the     *)
(* last change gave it, for any number of pages, items, overlapping ticks, *)
(* rebuilds and crashes, as long as nothing else overlaps.                 *)
THEOREM TicksAreKept ==
  ASSUME OnlyChecklistOverlaps
  PROVE  Spec => []AsTold
  <1>1. ChecklistInv => AsTold
    BY DEF ChecklistInv
  <1> QED BY TypeInit, TypeStep, TurnsInit, TurnsStep, ChecklistInit,
             ChecklistStep, <1>1, PTL DEF Spec

-----------------------------------------------------------------------------
(* The stored findings.                                                    *)

NoInternalLinks == \A p \in Pages : LinksTo[p] = {}

(* The stages between the look at a page and the storing of what it found. *)
Replacing ==
  {"save_page", "page_saved", "delete", "deleted", "delete_broken",
   "broken_deleted", "insert"}

(* Those of them after the deletion of the old findings.                   *)
Late == {"deleted", "delete_broken", "broken_deleted", "insert"}

(* The stages before it.                                                   *)
Before == {"build", "store", "stored", "lookup", "fetch"}

(* The findings that the re-scan of a page stores.                         *)
Findings(r) == OnPage(req[r].page, req[r].found \cup req[r].carried)

StoredInv ==
  /\ (\A r \in Requests : pc[r] \notin Replacing) => rows.issues = seen
  /\ \A r \in Requests : pc[r] = "fetch" =>
       req[r].old = CodesOf(rows.issues \cap OnPage(req[r].page, Codes))
  /\ \A r \in Requests : pc[r] \in Replacing =>
       seen = (rows.issues \ OnPage(req[r].page, Codes)) \cup Findings(r)
  /\ \A r \in Requests :
       pc[r] \in Late => rows.issues \cap OnPage(req[r].page, Codes) = {}
  /\ \A r \in Requests : pc[r] \in Before => req[r].carried = {}

LEMMA RescansAlone ==
  ASSUME OnlyChecklistOverlaps, TakeTurns, NEW r \in Requests,
         pc[r] \in Rescanning, NEW s \in Requests, s # r
  PROVE  Idle(s)
  BY DEF OnlyChecklistOverlaps, TakeTurns, Rescanning, Idle

(* Steps of one request that change neither the stored findings nor what   *)
(* was seen.                                                               *)
StoredKept(r) ==
  /\ pc'[r] \in Replacing => req'[r] = req[r]
  /\ pc'[r] \in Replacing <=> pc[r] \in Replacing
  /\ pc'[r] \in Late => pc[r] \in Late
  /\ pc'[r] = "fetch" =>
       req'[r].old = CodesOf(rows.issues \cap OnPage(req'[r].page, Codes))
  /\ pc'[r] \in Before => req'[r].carried = {}

LEMMA StoredFrame ==
  ASSUME StoredInv, rows'.issues = rows.issues, seen' = seen,
         NEW r \in Requests, StoredKept(r),
         \A s \in Requests : s # r => pc'[s] = pc[s] /\ req'[s] = req[s]
  PROVE  StoredInv'
  <1>1. \A s \in Requests : StoredKept(s)
    BY DEF StoredKept, StoredInv
  <1>2. ASSUME NEW s \in Requests, pc'[s] = "fetch"
        PROVE  req'[s].old = CodesOf(rows'.issues \cap OnPage(req'[s].page, Codes))
    BY <1>1, <1>2 DEF StoredKept
  <1>3. ASSUME NEW s \in Requests, pc'[s] \in Replacing
        PROVE  seen' = (rows'.issues \ OnPage(req'[s].page, Codes)) \cup Findings(s)'
    <2>1. req'[s] = req[s] /\ pc[s] \in Replacing
      BY <1>1, <1>3 DEF StoredKept
    <2> QED BY <2>1 DEF StoredInv, Findings
  <1>4. ASSUME NEW s \in Requests, pc'[s] \in Late
        PROVE  rows'.issues \cap OnPage(req'[s].page, Codes) = {}
    <2>1. req'[s] = req[s] /\ pc[s] \in Late
      BY <1>1, <1>4 DEF StoredKept, Late, Replacing
    <2> QED BY <2>1 DEF StoredInv
  <1>5. \A s \in Requests : pc'[s] \in Before => req'[s].carried = {}
    BY <1>1 DEF StoredKept
  <1>6. (\A s \in Requests : pc'[s] \notin Replacing) => rows'.issues = seen'
    BY <1>1 DEF StoredKept, StoredInv
  <1> QED BY <1>2, <1>3, <1>4, <1>5, <1>6 DEF StoredInv

(* What the look at a page leaves standing is what the re-scan will store. *)
LEMMA LookStored ==
  ASSUME NoInternalLinks, TypeOK, StoredInv, NEW r \in Requests,
         rows.issues = seen, pc[r] = "fetch", FetchPage(r) \/ FetchGone(r)
  PROVE  seen' = (rows.issues \ OnPage(req[r].page, Codes)) \cup Findings(r)'
  <1> DEFINE q == req[r]
  <1>0. q \in RequestData /\ rows.issues \subseteq Items
    BY DEF TypeOK, Tables
  <1>1. CASE FetchPage(r)
    <2>1. PICK found \in SUBSET (Codes \ Unrunnable) :
            /\ req' = [req EXCEPT ![r].found   = found,
                                 ![r].carried = CarriedOver(q),
                                 ![r].fixed   = Resolved(q, found)]
            /\ seen' = (seen \ OnPage(q.page, Evaluated(q.page)))
                         \cup OnPage(q.page, found)
      BY <1>1 DEF FetchPage
    <2>2. Findings(r)' = OnPage(q.page, found \cup (q.old \cap Unrunnable))
      BY <1>0, <2>1 DEF Findings, CarriedOver, TypeOK, RequestData
    <2>3. Evaluated(q.page) = Codes \ Unrunnable
      BY <1>0 DEF Evaluated, NoInternalLinks, RequestData
    <2>4. \A c \in Codes : c \in q.old <=> <<q.page, c>> \in rows.issues
      <3>1. q.old = {i[2] : i \in rows.issues \cap OnPage(q.page, Codes)}
        BY DEF StoredInv, CodesOf
      <3> QED BY <3>1 DEF OnPage
    <2>5. ASSUME NEW i \in Items
          PROVE  i \in seen' <=>
                   i \in (rows.issues \ OnPage(q.page, Codes)) \cup Findings(r)'
      <3>1. i = <<i[1], i[2]>> /\ i[2] \in Codes /\ i[1] \in Pages
        BY DEF Items
      <3>2. CASE i[1] = q.page
        BY <2>1, <2>2, <2>3, <2>4, <3>1, <3>2 DEF OnPage
      <3>3. CASE i[1] # q.page
        BY <2>1, <2>2, <2>3, <3>1, <3>3 DEF OnPage
      <3> QED BY <3>2, <3>3
    <2>6. seen' \subseteq Items /\ Findings(r)' \subseteq Items
      BY <1>0, <2>1, <2>2, OnPageItems DEF RequestData
    <2> QED BY <1>0, <2>5, <2>6
  <1>2. CASE FetchGone(r)
    <2>1. /\ seen' = (seen \ OnPage(q.page, Codes)) \cup OnPage(q.page, {Broken})
          /\ req'[r].page = q.page /\ req'[r].found = {Broken}
          /\ req'[r].carried = {}
      BY <1>0, <1>2 DEF FetchGone, TypeOK, RequestData, StoredInv, Before
    <2> QED BY <1>0, <2>1 DEF Findings
  <1> QED BY <1>1, <1>2

LEMMA StoredInit == Init => StoredInv
  BY DEF Init, StoredInv, Replacing, Late, Before

LEMMA StoredStep ==
  ASSUME OnlyChecklistOverlaps, NoInternalLinks
  PROVE  TypeOK /\ TakeTurns /\ StoredInv /\ [Next]_vars /\ crashes' = 0
           => StoredInv'
  <1> SUFFICES ASSUME TypeOK, TakeTurns, StoredInv, [Next]_vars, crashes' = 0
               PROVE  StoredInv'
    OBVIOUS
  <1>0. /\ req \in [Requests -> RequestData] /\ pc \in [Requests -> Stages]
        /\ rows \in Tables
    BY DEF TypeOK
  <1>1. ASSUME NEW r \in Requests, Ask(r) PROVE StoredInv'
    <2>1. /\ pc[r] = "idle" /\ pc'[r] \in {"build", "begin", "lookup", "record"}
          /\ \A s \in Requests : s # r => pc'[s] = pc[s] /\ req'[s] = req[s]
          /\ rows' = rows /\ seen' = seen
      BY <1>1, AskFrame DEF Admitted, Idle, Arrived
    <2>2. Blank \in RequestData /\ Blank.carried = {}
      BY BlankTyped DEF Blank
    <2>3. req'[r].carried = {}
      <3>1. CASE GetFixFocus(r)
        BY <1>0, <2>2, <3>1 DEF GetFixFocus, Receive, RequestData
      <3>2. CASE Regenerate(r)
        BY <1>0, <2>2, <3>2 DEF Regenerate, Receive, RequestData
      <3>3. CASE Check(r)
        BY <1>0, <2>2, <3>3 DEF Check, Receive, RequestData
      <3>4. CASE VerifyPage(r)
        BY <1>0, <2>2, <3>4 DEF VerifyPage, Receive, RequestData
      <3>5. CASE RescanUrl(r)
        BY <1>0, <2>2, <3>5 DEF RescanUrl, Receive, RequestData
      <3>6. CASE MarkFixed(r)
        BY <1>0, <2>2, <3>6 DEF MarkFixed, Receive, RequestData
      <3> QED BY <1>1, <3>1, <3>2, <3>3, <3>4, <3>5, <3>6 DEF Ask
    <2>4. StoredKept(r)
      <3>1. pc'[r] # "fetch" /\ pc[r] \notin Replacing /\ pc'[r] \notin Replacing \cup Late
        BY <2>1 DEF Replacing, Late
      <3> QED BY <2>3, <3>1 DEF StoredKept
    <2> QED BY <2>1, <2>4, StoredFrame
  <1>2. ASSUME NEW r \in Requests, Proceed(r) PROVE StoredInv'
    <2>0. \A s \in Requests : s # r => pc'[s] = pc[s] /\ req'[s] = req[s]
      BY <1>2, ProceedFrame
    <2>1. CASE Build(r)
      <3>1. /\ rows' = rows /\ seen' = seen /\ req'[r].carried = req[r].carried
            /\ pc[r] = "build" /\ pc'[r] \in {"store", "begin"}
        BY <1>0, <2>1 DEF Build, ghostVars, RequestData
      <3>2. StoredKept(r)
        BY <3>1 DEF StoredKept, StoredInv, Replacing, Late, Before
      <3> QED BY <2>0, <3>1, <3>2, StoredFrame
    <2>2. CASE Select(r)
      <3>1. /\ rows' = rows /\ seen' = seen
            /\ pc[r] = "select" /\ pc'[r] = "update"
        BY <1>0, <2>2 DEF Select, ghostVars
      <3>2. StoredKept(r)
        BY <3>1 DEF StoredKept, Replacing, Late, Before
      <3> QED BY <2>0, <3>1, <3>2, StoredFrame
    <2>3. CASE \/ StoreSnapshot(r) \/ Begin(r) \/ BeginRaises(r)
               \/ Update(r) \/ FetchInconclusive(r) \/ RecordFixedIssues(r)
      <3>1. /\ rows'.issues = rows.issues /\ seen' = seen
            /\ pc[r] \notin Replacing
            /\ pc'[r] \notin Replacing \cup Late \cup {"fetch"}
            /\ pc'[r] \in Before => pc[r] \in Before /\ req'[r] = req[r]
        BY <1>0, <2>3 DEF StoreSnapshot, Begin, BeginRaises, Update,
           FetchInconclusive, RecordFixedIssues, Store, Goto, ghostVars,
           Replacing, Late, Before, Tables
      <3>2. StoredKept(r)
        BY <3>1 DEF StoredKept, StoredInv
      <3> QED BY <2>0, <3>1, <3>2, StoredFrame
    <2>4. CASE Lookup(r)
      <3> DEFINE old == CodesOf(rows.issues \cap OnPage(req[r].page, Codes))
                 linked == CodesOf(rows.issues \cap LinkedRows(req[r].page))
      <3>1. /\ req' = [req EXCEPT ![r].old = old, ![r].linked = linked]
            /\ pc[r] = "lookup" /\ pc'[r] = "fetch"
            /\ rows' = rows /\ seen' = seen
        BY <1>0, <2>4 DEF Lookup, ghostVars
      <3> HIDE DEF old, linked
      <3>2. /\ req'[r].old = old /\ req'[r].page = req[r].page
            /\ req'[r].carried = req[r].carried
        BY <1>0, <3>1 DEF RequestData
      <3>3. StoredKept(r)
        BY <3>1, <3>2 DEF StoredKept, StoredInv, Replacing, Late, Before, old
      <3> QED BY <2>0, <3>1, <3>3, StoredFrame
    <2>5. CASE FetchPage(r) \/ FetchGone(r)
      <3>1. /\ pc[r] = "fetch" /\ pc'[r] = "save_page" /\ rows' = rows
            /\ req'[r].page = req[r].page
        <4>1. CASE FetchPage(r) BY <1>0, <4>1 DEF FetchPage, RequestData
        <4>2. CASE FetchGone(r) BY <1>0, <4>2 DEF FetchGone, RequestData
        <4> QED BY <2>5, <4>1, <4>2
      <3>2. \A s \in Requests : s # r => pc[s] = "idle"
        BY <3>1, RescansAlone DEF Rescanning, Idle
      <3>3. rows.issues = seen
        BY <3>1, <3>2 DEF StoredInv, Replacing
      <3>4. seen' = (rows.issues \ OnPage(req[r].page, Codes)) \cup Findings(r)'
        BY <2>5, <3>1, <3>3, LookStored
      <3> QED BY <2>0, <3>1, <3>2, <3>4 DEF StoredInv, Replacing, Late, Before
    <2>6. CASE \/ SavePage(r) \/ DeleteIssuesForUrl(r)
               \/ DeleteBrokenLinkIssues(r) \/ SaveIssues(r)
      <3> DEFINE page == req[r].page
      <3>0. /\ pc[r] \in Rescanning \cap Replacing /\ pc[r] # "idle"
            /\ pc'[r] \in {"page_saved", "deleted", "broken_deleted", "inserted"}
            /\ seen' = seen /\ req' = req
        BY <1>0, <2>6 DEF SavePage, DeleteIssuesForUrl, DeleteBrokenLinkIssues,
           SaveIssues, Goto, ghostVars, Replacing, Rescanning
      <3>1. \A s \in Requests : s # r => pc[s] = "idle" /\ pc'[s] = "idle"
        BY <2>0, <3>0, RescansAlone DEF Idle
      <3>2. seen = (rows.issues \ OnPage(page, Codes)) \cup Findings(r)
        BY <3>0 DEF StoredInv
      <3>3. CASE SavePage(r)
        <4>1. rows'.issues = rows.issues /\ pc'[r] = "page_saved"
          BY <1>0, <3>3 DEF SavePage, Store, Goto
        <4> QED BY <3>0, <3>1, <3>2, <4>1 DEF StoredInv, Findings, Replacing, Late, Before
      <3>4. CASE DeleteIssuesForUrl(r)
        <4>1. rows'.issues = rows.issues \ OnPage(page, Codes) /\ pc'[r] = "deleted"
          BY <1>0, <3>4 DEF DeleteIssuesForUrl, Store, Goto, Tables
        <4> QED BY <3>0, <3>1, <3>2, <4>1 DEF StoredInv, Findings, Replacing, Late, Before
      <3>5. CASE DeleteBrokenLinkIssues(r)
        <4>1. rows'.issues = rows.issues /\ pc[r] = "delete_broken"
                /\ pc'[r] = "broken_deleted"
          <5>1. page \in Pages
            BY <1>0 DEF RequestData
          <5>2. LinkedRows(page) = {}
            BY <5>1 DEF LinkedRows, NoInternalLinks
          <5> QED BY <1>0, <3>5, <5>2 DEF DeleteBrokenLinkIssues, Store, Goto, Tables
        <4> QED BY <3>0, <3>1, <3>2, <4>1 DEF StoredInv, Findings, Replacing, Late, Before
      <3>6. CASE SaveIssues(r)
        <4>1. /\ rows'.issues = rows.issues \cup Findings(r)
              /\ pc[r] = "insert" /\ pc'[r] = "inserted"
          BY <1>0, <3>6 DEF SaveIssues, Store, Goto, Tables, Findings
        <4>2. rows.issues \cap OnPage(page, Codes) = {}
          BY <4>1 DEF StoredInv, Late
        <4>3. rows'.issues = seen
          BY <3>2, <4>1, <4>2
        <4> QED BY <3>0, <3>1, <4>1, <4>3 DEF StoredInv, Replacing, Late, Before
      <3> QED BY <2>6, <3>3, <3>4, <3>5, <3>6
    <2>7. CASE Commit(r)
      <3>1. /\ rows' = rows /\ seen' = seen /\ pc[r] \in Written
            /\ pc'[r] = AfterCommit(req[r], pc[r])
            /\ pc'[r] # "idle" => req' = req
        BY <1>0, <2>7, AfterCommitStage DEF Commit, Goto, ghostVars, Stages
      <3>2. /\ pc'[r] \in Replacing <=> pc[r] \in Replacing
            /\ pc'[r] # "fetch"
            /\ pc'[r] \in Late => pc[r] \in Late
            /\ pc'[r] \in Before => pc[r] \in Before
        BY <3>1 DEF AfterCommit, AfterBuild, AfterRescan, Written, Replacing, Late, Before
      <3>3. pc'[r] \in Replacing \cup Before => req'[r] = req[r]
        BY <3>1 DEF Replacing, Before
      <3>4. StoredKept(r)
        BY <3>1, <3>2, <3>3 DEF StoredKept, StoredInv, Replacing, Before
      <3> QED BY <2>0, <3>1, <3>4, StoredFrame
    <2> QED BY <1>2, <2>1, <2>2, <2>3, <2>4, <2>5, <2>6, <2>7 DEF Proceed
  <1>3. ~Crash
    BY <1>0 DEF Crash, TypeOK
  <1>4. CASE UNCHANGED vars
    BY <1>4 DEF vars, StoredInv, Findings
  <1> QED BY <1>1, <1>2, <1>3, <1>4 DEF Next

(* The count of crashes never falls.                                       *)
LEMMA CrashesGrow == TypeOK /\ [Next]_vars /\ crashes' = 0 => crashes = 0
  <1> SUFFICES ASSUME TypeOK, [Next]_vars, crashes' = 0 PROVE crashes = 0
    OBVIOUS
  <1>1. ~Crash
    BY DEF Crash, TypeOK
  <1> QED BY <1>1 DEF Next, Ask, Proceed, GetFixFocus, Regenerate, Check,
      VerifyPage, RescanUrl, MarkFixed, Build, StoreSnapshot, Begin,
      BeginRaises, Select, Update, Lookup, FetchInconclusive, FetchPage,
      FetchGone, SavePage, DeleteIssuesForUrl, DeleteBrokenLinkIssues,
      SaveIssues, RecordFixedIssues, Commit, vars

(* With one re-scan at a time, no internal links and no crash, the stored  *)
(* findings are what the last looks at the pages left standing: a re-scan  *)
(* loses nothing it could not evaluate and keeps nothing it found gone.    *)
THEOREM RescansStoreWhatTheySaw ==
  ASSUME OnlyChecklistOverlaps, NoInternalLinks
  PROVE  Spec => []StoredAsSeen
  <1> DEFINE Inv == crashes = 0 => StoredInv
  <1>1. Init => Inv
    BY StoredInit
  <1>2. TypeOK /\ TakeTurns /\ Inv /\ [Next]_vars => Inv'
    BY StoredStep, CrashesGrow
  <1>3. Inv => StoredAsSeen
    BY DEF StoredInv, StoredAsSeen, Quiet, Idle, Replacing
  <1> HIDE DEF Inv
  <1> QED BY TypeInit, TypeStep, TurnsInit, TurnsStep, <1>1, <1>2, <1>3, PTL DEF Spec

-----------------------------------------------------------------------------
(* The verdicts.                                                           *)

AfterLook == Replacing \cup {"inserted", "record", "recorded", "begin", "select"}

(* A listed finding that only a full crawl can check is one the crawl left *)
(* standing, until its page is found gone.                                 *)
Known(i) == i[2] \in Unrunnable => i \in seen \cup absent

(* A re-scan that is about to reconcile the checklist accounts for every   *)
(* code of its page: found or carried over, or else looked for in vain, or *)
(* not among the findings the checklist can list.                          *)
Accounted(r) ==
  req[r].op = "verify" /\ pc[r] \in AfterLook =>
    \A c \in Codes \ (req[r].found \cup req[r].carried) :
      <<req[r].page, c>> \in absent \/ ~Known(<<req[r].page, c>>)

VerifiedBacked(snap) == \A i \in DOMAIN snap : snap[i] = "verified" => i \in absent
AllKnown(snap) == \A i \in DOMAIN snap : Known(i)

VerdictInv ==
  /\ AllKnown(rows.focus) /\ VerifiedBacked(rows.focus)
  /\ \A r \in Requests :
       HoldsRebuilt(r) \/ pc[r] = "update" => AllKnown(req[r].copy)
  /\ \A r \in Requests : pc[r] = "update" => VerifiedBacked(req[r].copy)
  /\ \A r \in Requests : Accounted(r)

LEMMA VerdictInit == Init => VerdictInv
  <1> SUFFICES ASSUME Init PROVE VerdictInv
    OBVIOUS
  <1>1. DOMAIN rows.focus \subseteq Crawled /\ AllOpen(rows.focus)
    BY DEF Init, AllOpen, EmptySnapshot, build_snapshot
  <1> QED BY <1>1 DEF Init, VerdictInv, AllKnown, Known, VerifiedBacked, AllOpen,
      HoldsRebuilt, Accounted, AfterLook, Replacing

(* Findings stay known, and absences are remembered.                       *)
LEMMA KnownStays ==
  ASSUME TypeOK, [Next]_vars, crashes' = 0
  PROVE  /\ absent \subseteq absent'
         /\ \A i \in Items : Known(i) => Known(i)'
  <1>0. ~Crash
    BY DEF Crash, TypeOK
  <1>1. ASSUME NEW r \in Requests, FetchPage(r)
        PROVE  absent \subseteq absent' /\ \A i \in Items : Known(i) => Known(i)'
    <2>1. PICK found \in SUBSET (Codes \ Unrunnable) :
            /\ seen' = (seen \ OnPage(req[r].page, Evaluated(req[r].page)))
                          \cup OnPage(req[r].page, found)
            /\ absent' = absent \cup
                 OnPage(req[r].page, Evaluated(req[r].page) \ found)
      BY <1>1 DEF FetchPage
    <2>2. Evaluated(req[r].page) \cap Unrunnable = {}
      BY DEF Evaluated
    <2> QED BY <2>1, <2>2 DEF Known, OnPage
  <1>2. ASSUME NEW r \in Requests, FetchGone(r)
        PROVE  absent \subseteq absent' /\ \A i \in Items : Known(i) => Known(i)'
    <2>1. /\ seen' = (seen \ OnPage(req[r].page, Codes))
                       \cup OnPage(req[r].page, {Broken})
          /\ absent' = absent \cup OnPage(req[r].page, Codes \ {Broken})
      BY <1>2 DEF FetchGone
    <2> QED BY <2>1 DEF Known, OnPage
  <1>3. CASE \A r \in Requests : ~FetchPage(r) /\ ~FetchGone(r)
    <2>1. UNCHANGED <<seen, absent>>
      BY <1>0, <1>3 DEF Next, Ask, Proceed, GetFixFocus, Regenerate, Check,
         VerifyPage, RescanUrl, MarkFixed, Build, StoreSnapshot, Begin,
         BeginRaises, Select, Update, Lookup, FetchInconclusive, SavePage,
         DeleteIssuesForUrl, DeleteBrokenLinkIssues, SaveIssues,
         RecordFixedIssues, Commit, ghostVars, vars
    <2> QED BY <2>1 DEF Known
  <1> QED BY <1>1, <1>2, <1>3

(* Steps of one request that leave the stored checklist alone.             *)
LEMMA VerdictFrame ==
  ASSUME TypeOK, VerdictInv, rows'.focus = rows.focus, absent \subseteq absent',
         \A i \in Items : Known(i) => Known(i)',
         NEW r \in Requests,
         \A s \in Requests : s # r => pc'[s] = pc[s] /\ req'[s] = req[s],
         \A s \in Requests : s # r => UNCHANGED <<seen, absent>> \/ pc[s] = "idle",
         HoldsRebuilt(r)' \/ pc'[r] = "update" => AllKnown(req[r].copy)',
         pc'[r] = "update" => VerifiedBacked(req[r].copy)',
         Accounted(r)'
  PROVE  VerdictInv'
  <1>0. DOMAIN rows.focus \subseteq Items
        /\ \A s \in Requests : DOMAIN req[s].copy \subseteq Items
    BY SnapshotElim DEF TypeOK, Tables, RequestData
  <1>1. AllKnown(rows.focus)' /\ VerifiedBacked(rows.focus)'
    BY <1>0 DEF VerdictInv, AllKnown, VerifiedBacked
  <1>2. ASSUME NEW s \in Requests, s # r, HoldsRebuilt(s)' \/ pc'[s] = "update"
        PROVE  AllKnown(req[s].copy)'
    <2>1. AllKnown(req[s].copy) /\ req'[s] = req[s]
      BY <1>2 DEF VerdictInv, HoldsRebuilt
    <2> QED BY <1>0, <2>1 DEF AllKnown
  <1>3. ASSUME NEW s \in Requests, s # r, pc'[s] = "update"
        PROVE  VerifiedBacked(req[s].copy)'
    <2>1. VerifiedBacked(req[s].copy) /\ req'[s] = req[s]
      BY <1>3 DEF VerdictInv
    <2> QED BY <2>1 DEF VerifiedBacked
  <1>4. ASSUME NEW s \in Requests, s # r PROVE Accounted(s)'
    <2>1. pc'[s] = pc[s] /\ req'[s] = req[s] /\ Accounted(s)
      BY <1>4 DEF VerdictInv
    <2>2. CASE pc[s] = "idle"
      BY <2>1, <2>2 DEF Accounted, AfterLook, Replacing
    <2>3. CASE UNCHANGED <<seen, absent>>
      BY <2>1, <2>3 DEF Accounted, Known
    <2> QED BY <1>4, <2>2, <2>3
  <1> QED BY <1>1, <1>2, <1>3, <1>4 DEF VerdictInv

(* What a mutation shows as verified is backed by a look at the page.      *)
LEMMA MutatedBacked ==
  ASSUME TypeOK, ChecklistInv, VerdictInv, NEW r \in Requests, pc[r] = "select"
  PROVE  /\ AllKnown(Mutated(req[r], rows.focus))
         /\ VerifiedBacked(Mutated(req[r], rows.focus))
  <1> DEFINE q == req[r]
             new == Mutated(q, rows.focus)
  <1>0. /\ q \in RequestData /\ rows.focus \in Snapshots
        /\ DOMAIN rows.focus \subseteq Items
    BY SnapshotElim DEF TypeOK, Tables
  <1>1. CASE q.op = "check"
    <2>1. new = set_checked(rows.focus, <<q.page, q.code>>, q.tick)
      BY <1>1 DEF Mutated
    <2> QED BY <2>1 DEF set_checked, VerdictInv, AllKnown, VerifiedBacked
  <1>2. CASE q.op = "verify"
    <2>1. new = apply_verify(rows.focus, q.page, q.found \cup q.carried, q.carried)
      BY <1>2 DEF Mutated
    <2>2. DOMAIN new = DOMAIN rows.focus
      BY <2>1 DEF apply_verify
    <2>3. ASSUME NEW i \in DOMAIN new, new[i] = "verified" PROVE i \in absent
      <3>1. CASE i[1] # q.page
        BY <2>1, <2>2, <2>3, <3>1 DEF apply_verify, VerdictInv, VerifiedBacked
      <3>2. CASE i[1] = q.page
        <4>1. i = <<q.page, i[2]>> /\ i[2] \in Codes
          BY <1>0, <2>2, <3>2 DEF Items
        <4>2. i[2] \notin q.found \cup q.carried
          BY <2>1, <2>2, <2>3, <3>2 DEF apply_verify, Verdict
        <4>3. i \in absent \/ ~Known(i)
          BY <1>2, <4>1, <4>2 DEF VerdictInv, Accounted, AfterLook
        <4>4. Known(i)
          BY <2>2 DEF VerdictInv, AllKnown
        <4> QED BY <4>3, <4>4
      <3> QED BY <3>1, <3>2
    <2> QED BY <2>2, <2>3 DEF VerdictInv, AllKnown, VerifiedBacked
  <1>3. CASE q.op \notin {"check", "verify"}
    <2>1. new = merge_checked_state(q.copy, rows.focus)
      BY <1>3 DEF Mutated
    <2>2. AllOpen(q.copy) /\ AllKnown(q.copy)
      BY <1>3 DEF ChecklistInv, VerdictInv, HoldsRebuilt
    <2> QED BY <2>1, <2>2
        DEF merge_checked_state, VerdictInv, AllKnown, VerifiedBacked, AllOpen
  <1> QED BY <1>1, <1>2, <1>3

LEMMA VerdictStep ==
  ASSUME OnlyChecklistOverlaps, NoInternalLinks
  PROVE  TypeOK /\ TakeTurns /\ ChecklistInv /\ StoredInv /\ VerdictInv
           /\ [Next]_vars /\ crashes' = 0 => VerdictInv'
  <1> SUFFICES ASSUME TypeOK, TakeTurns, ChecklistInv, StoredInv, VerdictInv,
                      [Next]_vars, crashes' = 0
               PROVE  VerdictInv'
    OBVIOUS
  <1>0. /\ req \in [Requests -> RequestData] /\ pc \in [Requests -> Stages]
        /\ rows \in Tables
    BY DEF TypeOK
  <1>9. /\ absent \subseteq absent'
        /\ \A i \in Items : Known(i) => Known(i)'
    BY KnownStays
  <1>1. ASSUME NEW r \in Requests, Ask(r) PROVE VerdictInv'
    <2>1. /\ Arrived(req'[r].op, req'[r].had, pc'[r], rows.built)
          /\ \A s \in Requests : s # r => pc'[s] = pc[s] /\ req'[s] = req[s]
          /\ UNCHANGED <<rows, seen, absent>>
      BY <1>1, AskFrame
    <2>2. ~HoldsRebuilt(r)' /\ pc'[r] # "update" /\ Accounted(r)'
      BY <2>1 DEF Arrived, HoldsRebuilt, Accounted, AfterLook, Replacing
    <2> QED BY <1>9, <2>1, <2>2, VerdictFrame
  <1>2. ASSUME NEW r \in Requests, Proceed(r) PROVE VerdictInv'
    <2>0. /\ ~Idle(r)
          /\ \A s \in Requests : s # r => pc'[s] = pc[s] /\ req'[s] = req[s]
          /\ pc'[r] # "idle" => req'[r].op = req[r].op
      BY <1>2, ProceedFrame
    <2>1. CASE Build(r)
      <3> DEFINE new == build_snapshot(rows.issues)
      <3>1. /\ rows' = rows /\ seen' = seen /\ absent' = absent
            /\ req'[r].copy = new /\ pc[r] = "build"
            /\ pc'[r] = "store" \/ (pc'[r] = "begin" /\ req[r].op = "regenerate")
        <4>1. req'[r].copy = new
          BY <1>0, <2>1 DEF Build, RequestData
        <4>2. pc'[r] = "store" \/ (pc'[r] = "begin" /\ req[r].op = "regenerate")
          BY <1>0, <2>1 DEF Build
        <4> QED BY <2>1, <4>1, <4>2 DEF Build, ghostVars
      <3>2. \A s \in Requests : pc[s] \notin Replacing
        <4>1. ASSUME NEW s \in Requests, pc[s] \in Replacing PROVE FALSE
          <5>1. s # r /\ pc[s] \in Rescanning
            BY <3>1, <4>1 DEF Replacing, Rescanning
          <5> QED BY <2>0, <5>1, RescansAlone
        <4> QED BY <4>1
      <3>3. AllKnown(new)
        BY <3>2 DEF StoredInv, AllKnown, Known, build_snapshot
      <3>4. AllKnown(req[r].copy)'
        BY <3>1, <3>3 DEF AllKnown, Known
      <3>5. Accounted(r)' /\ pc'[r] # "update"
        BY <2>0, <3>1 DEF Accounted, AfterLook, Replacing
      <3> QED BY <1>9, <2>0, <3>1, <3>4, <3>5, VerdictFrame
    <2>2. CASE StoreSnapshot(r)
      <3>1. /\ rows'.focus = req[r].copy /\ req' = req
            /\ pc[r] = "store" /\ pc'[r] = "stored"
            /\ seen' = seen /\ absent' = absent
        BY <1>0, <2>2 DEF StoreSnapshot, Store, Goto, ghostVars, Tables
      <3>2. AllOpen(req[r].copy) /\ AllKnown(req[r].copy)
        BY <3>1 DEF ChecklistInv, VerdictInv, HoldsRebuilt
      <3>3. AllKnown(rows.focus)' /\ VerifiedBacked(rows.focus)'
        BY <3>1, <3>2 DEF AllKnown, Known, VerifiedBacked, AllOpen
      <3>4. \A s \in Requests :
              /\ HoldsRebuilt(s)' => HoldsRebuilt(s)
              /\ pc'[s] = "update" => pc[s] = "update"
              /\ Accounted(s) => Accounted(s)'
        BY <2>0, <3>1 DEF HoldsRebuilt, Accounted, AfterLook, Replacing, Known
      <3> QED BY <3>1, <3>3, <3>4 DEF VerdictInv, AllKnown, Known, VerifiedBacked
    <2>3. CASE Begin(r)
      <3>1. /\ rows' = rows /\ req' = req /\ seen' = seen /\ absent' = absent
            /\ pc[r] = "begin" /\ pc'[r] = "select"
        BY <1>0, <2>3 DEF Begin, Goto, ghostVars
      <3>2. HoldsRebuilt(r)' => AllKnown(req[r].copy)'
        BY <3>1 DEF HoldsRebuilt, VerdictInv, AllKnown, Known
      <3>3. Accounted(r)' /\ pc'[r] # "update"
        BY <3>1 DEF VerdictInv, Accounted, AfterLook, Known
      <3> QED BY <1>9, <2>0, <3>1, <3>2, <3>3, VerdictFrame
    <2>4. CASE Select(r)
      <3>1. /\ rows' = rows /\ seen' = seen /\ absent' = absent
            /\ pc[r] = "select" /\ pc'[r] = "update"
            /\ req'[r].copy = Mutated(req[r], rows.focus)
        BY <1>0, <2>4 DEF Select, ghostVars, RequestData
      <3>2. AllKnown(req[r].copy)' /\ VerifiedBacked(req[r].copy)'
        BY <3>1, MutatedBacked DEF AllKnown, Known, VerifiedBacked
      <3>3. Accounted(r)'
        BY <3>1 DEF Accounted, AfterLook, Replacing
      <3> QED BY <1>9, <2>0, <3>1, <3>2, <3>3, VerdictFrame
    <2>5. CASE Update(r)
      <3>1. /\ rows'.focus = req[r].copy /\ req' = req
            /\ pc[r] = "update" /\ pc'[r] = "updated"
            /\ seen' = seen /\ absent' = absent
        BY <1>0, <2>5 DEF Update, Store, Goto, Tables
      <3>2. AllKnown(rows.focus)' /\ VerifiedBacked(rows.focus)'
        BY <3>1 DEF VerdictInv, AllKnown, Known, VerifiedBacked
      <3>3. \A s \in Requests :
              /\ HoldsRebuilt(s)' => HoldsRebuilt(s)
              /\ pc'[s] = "update" => pc[s] = "update"
              /\ Accounted(s) => Accounted(s)'
        BY <2>0, <3>1 DEF HoldsRebuilt, Accounted, AfterLook, Replacing, Known
      <3> QED BY <3>1, <3>2, <3>3 DEF VerdictInv, AllKnown, Known, VerifiedBacked
    <2>6. CASE FetchPage(r) \/ FetchGone(r)
      <3>1. pc[r] = "fetch" /\ pc'[r] = "save_page" /\ rows' = rows
        <4>1. CASE FetchPage(r) BY <1>0, <4>1 DEF FetchPage
        <4>2. CASE FetchGone(r) BY <1>0, <4>2 DEF FetchGone
        <4> QED BY <2>6, <4>1, <4>2
      <3>2. \A s \in Requests : s # r => pc[s] = "idle"
        BY <3>1, RescansAlone DEF Rescanning, Idle
      <3>3. rows.issues = seen
        BY <3>1, <3>2 DEF StoredInv, Replacing
      <3>4. ~HoldsRebuilt(r)' /\ pc'[r] # "update"
        BY <3>1 DEF HoldsRebuilt
      <3>5. Accounted(r)'
        <4> DEFINE q == req[r]
        <4>0. q \in RequestData
          BY <1>0
        <4>1. CASE FetchPage(r)
          <5>1. PICK found \in SUBSET (Codes \ Unrunnable) :
                  /\ req' = [req EXCEPT ![r].found   = found,
                                       ![r].carried = CarriedOver(q),
                                       ![r].fixed   = Resolved(q, found)]
                  /\ seen' = (seen \ OnPage(q.page, Evaluated(q.page)))
                               \cup OnPage(q.page, found)
                  /\ absent' = absent
                       \cup OnPage(q.page, Evaluated(q.page) \ found)
            BY <4>1 DEF FetchPage
          <5>2. /\ req'[r].page = q.page /\ req'[r].found = found
                /\ req'[r].carried = q.old \cap Unrunnable
            BY <1>0, <5>1 DEF CarriedOver, RequestData
          <5>3. Evaluated(q.page) = Codes \ Unrunnable
            BY <4>0 DEF Evaluated, NoInternalLinks, RequestData
          <5>4. ASSUME NEW c \in Codes \ (found \cup (q.old \cap Unrunnable))
                PROVE  <<q.page, c>> \in absent' \/ ~Known(<<q.page, c>>)'
            <6>1. CASE c \notin Unrunnable
              BY <5>1, <5>3, <5>4, <6>1 DEF OnPage
            <6>2. CASE c \in Unrunnable
              <7>1. <<q.page, c>> \notin seen
                <8>1. q.old = {i[2] : i \in rows.issues \cap OnPage(q.page, Codes)}
                  BY <3>1 DEF StoredInv, CodesOf
                <8> QED BY <3>3, <5>4, <6>2, <8>1 DEF OnPage
              <7>2. <<q.page, c>> \notin seen'
                BY <5>1, <6>2, <7>1 DEF OnPage
              <7> QED BY <5>2, <6>2, <7>2 DEF Known
            <6> QED BY <6>1, <6>2
          <5> QED BY <5>2, <5>4 DEF Accounted
        <4>2. CASE FetchGone(r)
          <5>1. /\ req'[r].page = q.page /\ req'[r].found = {Broken}
                /\ absent' = absent \cup OnPage(q.page, Codes \ {Broken})
            BY <1>0, <4>2 DEF FetchGone, RequestData
          <5> QED BY <5>1 DEF Accounted, OnPage
        <4> QED BY <2>6, <4>1, <4>2
      <3> QED BY <1>9, <2>0, <3>1, <3>2, <3>4, <3>5, VerdictFrame
    <2>7. CASE \/ BeginRaises(r) \/ FetchInconclusive(r) \/ Lookup(r)
      <3>1. /\ rows' = rows /\ seen' = seen /\ absent' = absent
            /\ pc'[r] \in {"idle", "fetch"}
        BY <1>0, <2>7 DEF BeginRaises, FetchInconclusive, Lookup, Goto, ghostVars
      <3>2. ~HoldsRebuilt(r)' /\ pc'[r] # "update" /\ Accounted(r)'
        BY <3>1 DEF HoldsRebuilt, Accounted, AfterLook, Replacing
      <3> QED BY <1>9, <2>0, <3>1, <3>2, VerdictFrame
    <2>8. CASE \/ SavePage(r) \/ DeleteIssuesForUrl(r)
               \/ DeleteBrokenLinkIssues(r) \/ SaveIssues(r)
               \/ RecordFixedIssues(r)
      <3>1. /\ rows'.focus = rows.focus /\ req' = req
            /\ seen' = seen /\ absent' = absent
            /\ pc[r] \in AfterLook
            /\ pc'[r] \notin {"store", "begin", "select", "update"}
        BY <1>0, <2>8 DEF SavePage, DeleteIssuesForUrl, DeleteBrokenLinkIssues,
           SaveIssues, RecordFixedIssues, Store, Goto, ghostVars, Tables,
           AfterLook, Replacing
      <3>2. ~HoldsRebuilt(r)' /\ pc'[r] # "update" /\ Accounted(r)'
        BY <3>1 DEF HoldsRebuilt, Accounted, VerdictInv, Known
      <3> QED BY <1>9, <2>0, <3>1, <3>2, VerdictFrame
    <2>9. CASE Commit(r)
      <3>1. /\ rows' = rows /\ seen' = seen /\ absent' = absent
            /\ pc'[r] = AfterCommit(req[r], pc[r]) /\ pc[r] \in Written
            /\ pc'[r] # "idle" => req' = req
        BY <1>0, <2>9, AfterCommitStage DEF Commit, Goto, ghostVars, Stages
      <3>2. ~HoldsRebuilt(r)' /\ pc'[r] # "update"
        BY <2>0, <3>1 DEF HoldsRebuilt, AfterCommit, AfterBuild, AfterRescan, Written
      <3>3. ASSUME req'[r].op = "verify", pc'[r] \in AfterLook
            PROVE  pc[r] \in AfterLook /\ req' = req
        BY <2>0, <3>1, <3>3
        DEF AfterCommit, AfterBuild, AfterRescan, Written, AfterLook, Replacing
      <3>4. Accounted(r)'
        BY <3>1, <3>3 DEF Accounted, VerdictInv, Known
      <3> QED BY <1>9, <2>0, <3>1, <3>2, <3>4, VerdictFrame
    <2> QED BY <1>2, <2>1, <2>2, <2>3, <2>4, <2>5, <2>6, <2>7, <2>8, <2>9 DEF Proceed
  <1>3. ~Crash
    BY DEF Crash, TypeOK
  <1>4. CASE UNCHANGED vars
    BY <1>4 DEF vars, VerdictInv, AllKnown, Known, VerifiedBacked, HoldsRebuilt, Accounted
  <1> QED BY <1>1, <1>2, <1>3, <1>4 DEF Next

(* With one re-scan at a time, no internal links and no crash, no item is  *)
(* shown as verified unless some look at its page evaluated its code and   *)
(* did not find it.                                                        *)
THEOREM VerdictsRestOnALook ==
  ASSUME OnlyChecklistOverlaps, NoInternalLinks
  PROVE  Spec => []VerifiedWasChecked
  <1> DEFINE Inv == crashes = 0 => StoredInv /\ VerdictInv
  <1>1. Init => Inv
    BY StoredInit, VerdictInit
  <1>2. TypeOK /\ TakeTurns /\ ChecklistInv /\ Inv /\ [Next]_vars => Inv'
    BY StoredStep, VerdictStep, CrashesGrow
  <1>3. Inv => VerifiedWasChecked
    BY DEF VerdictInv, VerifiedBacked, VerifiedWasChecked
  <1> HIDE DEF Inv
  <1> QED BY TypeInit, TypeStep, TurnsInit, TurnsStep, ChecklistInit,
             ChecklistStep, <1>1, <1>2, <1>3, PTL DEF Spec

=============================================================================
