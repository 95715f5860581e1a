---------------------------- MODULE JobLifecycle ----------------------------
(***************************************************************************)
(* What the job table promises a client that polls /status: a job is       *)
(* created queued (or running, for a single-page scan), may start and      *)
(* ends; once ended it never runs again, and no end is replaced by another *)
(* but by a late cancel.  This is the abstract specification CrawlJobs is  *)
(* shown to implement.                                                     *)
(***************************************************************************)

CONSTANT Jobs

VARIABLE status

Terminal == {"complete", "cancelled", "failed"}
Active   == {"queued", "running"}

Init == status = [j \in Jobs |-> "none"]

(* A row appears, waiting for its task or already being scanned.           *)
Create(j) ==
  /\ status[j] = "none"
  /\ \E s \in Active : status' = [status EXCEPT ![j] = s]

(* The background task picks the job up.                                   *)
Start(j) ==
  /\ status[j] = "queued"
  /\ status' = [status EXCEPT ![j] = "running"]

(* The job ends, whatever the outcome; a restart may end several at once.  *)
End ==
  \E S \in SUBSET {j \in Jobs : status[j] \in Active} :
    \E o \in Terminal :
      status' = [j \in Jobs |-> IF j \in S THEN o ELSE status[j]]

(* A cancel that was decided on while the job ran lands after its end.     *)
CancelLate(j) ==
  /\ status[j] \in Terminal
  /\ status' = [status EXCEPT ![j] = "cancelled"]

Next == End \/ \E j \in Jobs : Create(j) \/ Start(j) \/ CancelLate(j)

Spec == Init /\ [][Next]_status

=============================================================================
