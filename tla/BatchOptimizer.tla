--------------------------- MODULE BatchOptimizer ---------------------------
(***************************************************************************)
(* Batches of image optimisations, api/services/batch_optimizer.py: one    *)
(* background task per batch that collects the results, one task per image *)
(* behind a semaphore, and the pause, resume and cancel endpoints.         *)
(*                                                                         *)
(* A cancel ends the collecting task, which closes the WordPress client it *)
(* shares with the image tasks; the image tasks themselves are not         *)
(* cancelled.  An image is looked up in the store, prepared (downloaded,   *)
(* resized), and sent to WordPress.                                        *)
(***************************************************************************)
EXTENDS Naturals, FiniteSets

CONSTANTS
  Batches,      \* batches that clients start
  Images,       \* the images each of them is started with
  Limit,        \* parallel_limit
  FaultBudget   \* bound on the failed logins and store calls

ASSUME ConstantsAssumption ==
  /\ IsFiniteSet(Images) /\ Limit \in Nat \ {0} /\ FaultBudget \in Nat

VARIABLES
  status,     \* status of each batch, "none" before it is created
  collector,  \* where _process_batch is, "ended" also when it raised
  image,      \* where the task of each image is
  results,    \* the images in batch.results, with their success
  uploaded,   \* the images WordPress holds a new copy of, by batch
  faults

vars == <<status, collector, image, results, uploaded, faults>>

Ended    == {"completed", "cancelled"}
Holding  == {"polling", "lookup", "preparing", "sending"}
Returned == {"ok", "failed"}
ImageStates ==
  {"none", "queued", "raised", "collected"} \cup Holding \cup Returned

TypeOK ==
  /\ status \in [Batches -> {"none", "running", "paused"} \cup Ended]
  /\ collector \in
       [Batches -> {"none", "login", "collecting", "closing", "ended"}]
  /\ image \in [Batches -> [Images -> ImageStates]]
  /\ results \in [Batches -> SUBSET (Images \X BOOLEAN)]
  /\ uploaded \in [Batches -> SUBSET Images]
  /\ faults \in 0..FaultBudget

Init ==
  /\ status = [b \in Batches |-> "none"]
  /\ collector = [b \in Batches |-> "none"]
  /\ image = [b \in Batches |-> [i \in Images |-> "none"]]
  /\ results = [b \in Batches |-> {}]
  /\ uploaded = [b \in Batches |-> {}]
  /\ faults = 0

ClientOpen(b) == collector[b] = "collecting"

ImageGoes(b, i, here, there) ==
  /\ image[b][i] = here
  /\ image' = [image EXCEPT ![b][i] = there]

-----------------------------------------------------------------------------
(* The collecting task                                                     *)

(* POST start: create_batch and start_batch, with no await in between.     *)
Start(b) ==
  /\ status[b] = "none"
  /\ status' = [status EXCEPT ![b] = "running"]
  /\ collector' = [collector EXCEPT ![b] = "login"]
  /\ UNCHANGED <<image, results, uploaded, faults>>

(* The client is logged in, and as_completed makes a task of every image.  *)
Login(b) ==
  /\ collector[b] = "login"
  /\ collector' = [collector EXCEPT ![b] = "collecting"]
  /\ image' = [image EXCEPT ![b] = [i \in Images |-> "queued"]]
  /\ UNCHANGED <<status, results, uploaded, faults>>

LoginFails(b) ==
  /\ collector[b] = "login" /\ faults < FaultBudget
  /\ collector' = [collector EXCEPT ![b] = "ended"]
  /\ faults' = faults + 1
  /\ UNCHANGED <<status, image, results, uploaded>>

Collect(b, i) ==
  /\ collector[b] = "collecting" /\ image[b][i] \in Returned
  /\ results' = [results EXCEPT ![b] = @ \cup {<<i, image[b][i] = "ok">>}]
  /\ image' = [image EXCEPT ![b][i] = "collected"]
  /\ UNCHANGED <<status, collector, uploaded, faults>>

(* The exception of an image task is raised again where it is awaited.     *)
CollectRaises(b, i) ==
  /\ collector[b] = "collecting" /\ image[b][i] = "raised"
  /\ collector' = [collector EXCEPT ![b] = "ended"]
  /\ UNCHANGED <<status, image, results, uploaded, faults>>

CollectedAll(b) ==
  /\ collector[b] = "collecting" /\ \A i \in Images : image[b][i] = "collected"
  /\ collector' = [collector EXCEPT ![b] = "closing"]
  /\ UNCHANGED <<status, image, results, uploaded, faults>>

(* The client is closed and the batch is marked, whatever the status was.  *)
Complete(b) ==
  /\ collector[b] = "closing"
  /\ collector' = [collector EXCEPT ![b] = "ended"]
  /\ status' = [status EXCEPT ![b] = "completed"]
  /\ UNCHANGED <<image, results, uploaded, faults>>

-----------------------------------------------------------------------------
(* The task of one image                                                   *)

(* Mutant of Permit: a failed image keeps its permit.                      *)
PermitLeaked(b) ==
  Cardinality({i \in Images :
                 image[b][i] \in Holding \cup {"failed", "collected"}}) < Limit

Permit(b) == Cardinality({i \in Images : image[b][i] \in Holding}) < Limit

(* Mutant of Admit: a paused batch is not noticed.                         *)
AdmitPaused(b) == IF status[b] = "cancelled" THEN "failed" ELSE "lookup"

(* What the status tells the task to do.                                   *)
Admit(b) == CASE status[b] = "paused"    -> "polling"
              [] status[b] = "cancelled" -> "failed"
              [] OTHER                   -> "lookup"

Enter(b, i) ==
  /\ Permit(b)
  /\ ImageGoes(b, i, "queued", Admit(b))
  /\ UNCHANGED <<status, collector, results, uploaded, faults>>

Wake(b, i) ==
  /\ status[b] # "paused"
  /\ ImageGoes(b, i, "polling", Admit(b))
  /\ UNCHANGED <<status, collector, results, uploaded, faults>>

LookUp(b, i) ==
  /\ ImageGoes(b, i, "lookup", "preparing")
  /\ UNCHANGED <<status, collector, results, uploaded, faults>>

(* get_image_by_url is outside the try block.                              *)
LookUpRaises(b, i) ==
  /\ faults < FaultBudget
  /\ ImageGoes(b, i, "lookup", "raised")
  /\ faults' = faults + 1
  /\ UNCHANGED <<status, collector, results, uploaded>>

(* The download, the conversion or the validation fails, or the client is  *)
(* closed by the time it is needed.                                        *)
PrepareFails(b, i) ==
  /\ ImageGoes(b, i, "preparing", "failed")
  /\ UNCHANGED <<status, collector, results, uploaded, faults>>

Send(b, i) ==
  /\ ClientOpen(b)
  /\ ImageGoes(b, i, "preparing", "sending")
  /\ UNCHANGED <<status, collector, results, uploaded, faults>>

(* Mutant of Upload: reported before WordPress has it.                     *)
UploadUnconfirmed(b, i) ==
  /\ ClientOpen(b)
  /\ ImageGoes(b, i, "sending", "ok")
  /\ UNCHANGED <<status, collector, results, uploaded, faults>>

Upload(b, i) ==
  /\ ClientOpen(b)
  /\ ImageGoes(b, i, "sending", "ok")
  /\ uploaded' = [uploaded EXCEPT ![b] = @ \cup {i}]
  /\ UNCHANGED <<status, collector, results, faults>>

(* WordPress has the image, but its answer is lost: to a timeout, or to    *)
(* the client being closed.                                                *)
UploadUnanswered(b, i) ==
  /\ ImageGoes(b, i, "sending", "failed")
  /\ uploaded' = [uploaded EXCEPT ![b] = @ \cup {i}]
  /\ UNCHANGED <<status, collector, results, faults>>

UploadFails(b, i) ==
  /\ ImageGoes(b, i, "sending", "failed")
  /\ UNCHANGED <<status, collector, results, uploaded, faults>>

-----------------------------------------------------------------------------
(* The controls                                                            *)

Pause(b) ==
  /\ status[b] = "running"
  /\ status' = [status EXCEPT ![b] = "paused"]
  /\ UNCHANGED <<collector, image, results, uploaded, faults>>

Resume(b) ==
  /\ status[b] = "paused"
  /\ status' = [status EXCEPT ![b] = "running"]
  /\ UNCHANGED <<collector, image, results, uploaded, faults>>

(* The collecting task ends at its await and closes the client.            *)
Cancel(b) ==
  /\ status[b] \in {"running", "paused"}
  /\ status' = [status EXCEPT ![b] = "cancelled"]
  /\ collector' = [collector EXCEPT ![b] = "ended"]
  /\ UNCHANGED <<image, results, uploaded, faults>>

Task(b, i) ==
  \/ Enter(b, i) \/ Wake(b, i) \/ LookUp(b, i) \/ LookUpRaises(b, i)
  \/ PrepareFails(b, i) \/ Send(b, i)
  \/ Upload(b, i) \/ UploadUnanswered(b, i) \/ UploadFails(b, i)

Collector(b) ==
  \/ Login(b) \/ LoginFails(b) \/ CollectedAll(b) \/ Complete(b)
  \/ \E i \in Images : Collect(b, i) \/ CollectRaises(b, i)

Controls(b) == Start(b) \/ Pause(b) \/ Resume(b) \/ Cancel(b)

Next ==
  \E b \in Batches :
    Controls(b) \/ Collector(b) \/ \E i \in Images : Task(b, i)

Spec == Init /\ [][Next]_vars

(* The event loop runs every task, and every request of a task returns or  *)
(* times out; the clients need not do anything.                            *)
FairSpec ==
  /\ Spec
  /\ \A b \in Batches :
       WF_vars(Collector(b)) /\ \A i \in Images : WF_vars(Task(b, i))

-----------------------------------------------------------------------------
(* Properties                                                              *)

(* Never more than parallel_limit images of a batch at work, the paused    *)
(* ones included.                                                          *)
LimitHeld ==
  \A b \in Batches :
    Cardinality({i \in Images : image[b][i] \in Holding}) <= Limit

(* While a batch is paused or cancelled no image begins: an image that got *)
(* its permit before the pause waits as well (batch_pause_endpoint: "the   *)
(* queue stops advancing until resume is called").                         *)
HaltsWhenToldTo ==
  [][\A b \in Batches, i \in Images :
       status[b] \in {"paused", "cancelled"} /\ image'[b][i] = "lookup" =>
         image[b][i] = "lookup"]_vars

(* A completed batch accounts for every image: one result each, and a      *)
(* success only for what WordPress holds.                                  *)
CompletedAccounted ==
  \A b \in Batches : status[b] = "completed" =>
    /\ \A i \in Images :
         \E ok \in BOOLEAN : results[b] \cap ({i} \X BOOLEAN) = {<<i, ok>>}
    /\ {i \in Images : <<i, TRUE>> \in results[b]} \subseteq uploaded[b]

(* A batch that runs is completed, unless it is paused or cancelled, or a  *)
(* login or store call fails and ends its collecting task.                 *)
BatchEnds ==
  \A b \in Batches :
    faults = 0 /\ status[b] = "running" ~>
      faults > 0 \/ status[b] \in {"paused"} \cup Ended

=============================================================================
