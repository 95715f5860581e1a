---------------------------- MODULE ServicesProofs ----------------------------
(***************************************************************************)
(* Proofs about the services beside the crawl: BatchOptimizer, AiUsage and *)
(* SiteEdits, each for any values of its constants.                        *)
(***************************************************************************)
EXTENDS BatchOptimizer, AiUsage, SiteEdits, FiniteSetTheorems, SequenceTheorems, TLAPS

-----------------------------------------------------------------------------
(* BatchOptimizer: types                                                   *)

LEMMA TypeInit == Init => TypeOK
BY ConstantsAssumption DEF Init, TypeOK, ImageStates, Holding, Returned

LEMMA AdmitType ==
  ASSUME NEW b \in Batches, NEW i \in Images
  PROVE  Admit(b) \in {"polling", "failed", "lookup"}
BY DEF Admit

LEMMA ImageType ==
  ASSUME TypeOK, NEW b \in Batches, NEW i \in Images, NEW s \in ImageStates,
         image' = [image EXCEPT ![b][i] = s]
  PROVE  image' \in [Batches -> [Images -> ImageStates]]
BY DEF TypeOK

LEMMA TypeNext == TypeOK /\ [Next]_vars => TypeOK'
<1> SUFFICES ASSUME TypeOK, [Next]_vars
             PROVE  TypeOK'
  OBVIOUS
<1>0. FaultBudget \in Nat
  BY ConstantsAssumption
<1>1. CASE UNCHANGED vars
  BY <1>1 DEF vars, TypeOK
<1>2. ASSUME NEW b \in Batches, Controls(b)
      PROVE  TypeOK'
  BY <1>2 DEF Controls, Start, Pause, Resume, Cancel, TypeOK, Ended
<1>3. ASSUME NEW b \in Batches, Collector(b)
      PROVE  TypeOK'
  <2>1. CASE Login(b)
    BY <2>1 DEF Login, TypeOK, ImageStates
  <2>2. CASE LoginFails(b)
    BY <1>0, <2>2 DEF LoginFails, TypeOK
  <2>3. CASE CollectedAll(b) \/ Complete(b)
    BY <2>3 DEF CollectedAll, Complete, TypeOK, Ended
  <2>4. ASSUME NEW i \in Images, Collect(b, i)
        PROVE  TypeOK'
    <3>1. image' \in [Batches -> [Images -> ImageStates]]
      BY <2>4, ImageType DEF Collect, ImageStates
    <3>2. <<i, image[b][i] = "ok">> \in Images \X BOOLEAN
      OBVIOUS
    <3>3. results' \in [Batches -> SUBSET (Images \X BOOLEAN)]
      <4> DEFINE x == <<i, image[b][i] = "ok">>
      <4>1. x \in Images \X BOOLEAN
        BY <3>2
      <4>2. results' = [results EXCEPT ![b] = @ \cup {x}]
        BY <2>4 DEF Collect
      <4> HIDE DEF x
      <4> QED BY <4>1, <4>2 DEF TypeOK
    <3> QED BY <2>4, <3>1, <3>3 DEF Collect, TypeOK
  <2>5. ASSUME NEW i \in Images, CollectRaises(b, i)
        PROVE  TypeOK'
    BY <2>5 DEF CollectRaises, TypeOK
  <2> QED BY <1>3, <2>1, <2>2, <2>3, <2>4, <2>5 DEF Collector
<1>4. ASSUME NEW b \in Batches, NEW i \in Images, Task(b, i)
      PROVE  TypeOK'
  <2>1. image' \in [Batches -> [Images -> ImageStates]]
    <3>1. CASE Enter(b, i) \/ Wake(b, i)
      <4>1. Admit(b) \in ImageStates
        BY AdmitType DEF ImageStates, Holding, Returned
      <4> QED BY <3>1, <4>1, ImageType DEF Enter, Wake, ImageGoes
    <3>2. CASE ~(Enter(b, i) \/ Wake(b, i))
      BY <1>4, <3>2, ImageType
         DEF Task, LookUp, LookUpRaises, PrepareFails, Send, Upload,
             UploadUnanswered, UploadFails, ImageGoes, ImageStates, Holding, Returned
    <3> QED BY <3>1, <3>2
  <2>2. /\ UNCHANGED <<status, collector, results>>
        /\ faults' \in 0..FaultBudget
        /\ uploaded' \in [Batches -> SUBSET Images]
    BY <1>0, <1>4 DEF Task, Enter, Wake, LookUp, LookUpRaises, PrepareFails, Send,
                      Upload, UploadUnanswered, UploadFails, TypeOK
  <2> QED BY <2>1, <2>2 DEF TypeOK
<1> QED BY <1>1, <1>2, <1>3, <1>4 DEF Next

(* Every reachable state is well typed (TypeOK).                           *)
THEOREM TypeCorrect == Spec => []TypeOK
<1> QED BY TypeInit, TypeNext, PTL DEF Spec

-----------------------------------------------------------------------------
(* The limit: only an image that takes a permit joins those at work.       *)

AtWork(b) == {i \in Images : image[b][i] \in Holding}

LEMMA NoMoreAtWork ==
  ASSUME NEW b \in Batches, AtWork(b)' \subseteq AtWork(b),
         Cardinality(AtWork(b)) <= Limit
  PROVE  Cardinality(AtWork(b)') <= Limit
<1>1. IsFiniteSet(AtWork(b)) /\ IsFiniteSet(AtWork(b)')
  BY ConstantsAssumption, FS_Subset DEF AtWork
<1>2. Cardinality(AtWork(b)') <= Cardinality(AtWork(b))
  BY <1>1, FS_Subset
<1> QED BY <1>1, <1>2, FS_CardinalityType, ConstantsAssumption

LEMMA OneMoreAtWork ==
  ASSUME NEW b \in Batches, NEW i \in Images,
         AtWork(b)' \subseteq AtWork(b) \cup {i},
         Permit(b)
  PROVE  Cardinality(AtWork(b)') <= Limit
<1> DEFINE S == AtWork(b)
           T == AtWork(b)'
<1>1. IsFiniteSet(S) /\ Cardinality(S) < Limit /\ T \subseteq S \cup {i}
  BY ConstantsAssumption, FS_Subset DEF AtWork, Permit
<1> HIDE DEF S, T
<1>2. Cardinality(S) \in Nat /\ Limit \in Nat
  BY <1>1, FS_CardinalityType, ConstantsAssumption
<1>3. /\ IsFiniteSet(S \cup {i})
      /\ Cardinality(S \cup {i}) = IF i \in S THEN Cardinality(S) ELSE Cardinality(S) + 1
  BY <1>1, FS_AddElement
<1>4. Cardinality(S \cup {i}) <= Limit
  BY <1>1, <1>2, <1>3
<1>5. IsFiniteSet(T) /\ Cardinality(T) <= Cardinality(S \cup {i})
  BY <1>1, <1>3, FS_Subset
<1>6. Cardinality(T) <= Limit
  BY <1>2, <1>3, <1>4, <1>5, FS_CardinalityType
<1> QED BY <1>6 DEF T

LEMMA LimitNext == TypeOK /\ LimitHeld /\ [Next]_vars => LimitHeld'
<1> SUFFICES ASSUME TypeOK, LimitHeld, [Next]_vars, NEW c \in Batches
             PROVE  Cardinality(AtWork(c)') <= Limit
  BY DEF LimitHeld, AtWork
<1>0. Cardinality(AtWork(c)) <= Limit
  BY DEF LimitHeld, AtWork
<1>1. ASSUME UNCHANGED image
      PROVE  AtWork(c)' \subseteq AtWork(c)
  BY <1>1 DEF AtWork
<1>2. ASSUME NEW b \in Batches, Controls(b)
      PROVE  UNCHANGED image
  BY <1>2 DEF Controls, Start, Pause, Resume, Cancel
<1>3. ASSUME NEW b \in Batches, Collector(b)
      PROVE  AtWork(c)' \subseteq AtWork(c)
  <2>1. CASE Login(b)
    BY <2>1 DEF Login, AtWork, TypeOK, Holding
  <2>2. ASSUME NEW i \in Images, Collect(b, i)
        PROVE  AtWork(c)' \subseteq AtWork(c)
    BY <2>2 DEF Collect, AtWork, TypeOK, Holding
  <2>3. CASE UNCHANGED image
    BY <1>1, <2>3
  <2> QED BY <1>3, <2>1, <2>2, <2>3
          DEF Collector, LoginFails, CollectedAll, Complete, CollectRaises
<1>4. ASSUME NEW b \in Batches, NEW i \in Images, Task(b, i), ~Enter(b, i)
      PROVE  AtWork(c)' \subseteq AtWork(c)
  <2>1. /\ image[b][i] \in Holding
        /\ \E s : image' = [image EXCEPT ![b][i] = s]
    BY <1>4 DEF Task, Wake, LookUp, LookUpRaises, PrepareFails, Send, Upload,
                UploadUnanswered, UploadFails, ImageGoes, Holding
  <2> QED BY <2>1 DEF AtWork, TypeOK
<1>5. ASSUME NEW b \in Batches, NEW i \in Images, Enter(b, i)
      PROVE  Cardinality(AtWork(c)') <= Limit
  <2>1. CASE c = b
    <3>1. AtWork(b)' \subseteq AtWork(b) \cup {i}
      BY <1>5 DEF Enter, ImageGoes, AtWork, TypeOK
    <3> QED BY <1>5, <2>1, <3>1, OneMoreAtWork DEF Enter
  <2>2. CASE c # b
    <3>1. AtWork(c)' \subseteq AtWork(c)
      BY <1>5, <2>2 DEF Enter, ImageGoes, AtWork, TypeOK
    <3> QED BY <1>0, <3>1, NoMoreAtWork
  <2> QED BY <2>1, <2>2
<1> QED BY <1>0, <1>1, <1>2, <1>3, <1>4, <1>5, NoMoreAtWork DEF Next, vars

(* At most parallel_limit images of a batch are at work, however the       *)
(* controls and the tasks interleave (LimitHeld).                          *)
THEOREM LimitHolds == Spec => []LimitHeld
<1>1. Init => LimitHeld
  <2> SUFFICES ASSUME Init, NEW b \in Batches
               PROVE  Cardinality({i \in Images : image[b][i] \in Holding}) <= Limit
    BY DEF LimitHeld
  <2>1. {i \in Images : image[b][i] \in Holding} = {}
    BY DEF Init, Holding
  <2> QED BY <2>1, FS_EmptySet, ConstantsAssumption
<1> QED BY <1>1, TypeInit, TypeNext, LimitNext, PTL DEF Spec

-----------------------------------------------------------------------------
(* The controls                                                            *)

(* A batch that is paused or cancelled begins no image, also none that got *)
(* its permit before (HaltsWhenToldTo).                                    *)
THEOREM HaltsWhenTold == Spec => HaltsWhenToldTo
<1>1. ASSUME TypeOK, [Next]_vars, NEW b \in Batches, NEW i \in Images,
             status[b] \in {"paused", "cancelled"}, image'[b][i] = "lookup"
      PROVE  image[b][i] = "lookup"
  <2>1. CASE UNCHANGED image
    BY <1>1, <2>1
  <2>2. ASSUME NEW c \in Batches, Controls(c)
        PROVE  UNCHANGED image
    BY <2>2 DEF Controls, Start, Pause, Resume, Cancel
  <2>3. ASSUME NEW c \in Batches, Collector(c), ~UNCHANGED image
        PROVE  image[b][i] = "lookup"
    <3>1. CASE Login(c)
      BY <1>1, <3>1 DEF Login, TypeOK
    <3>2. ASSUME NEW j \in Images, Collect(c, j)
          PROVE  image[b][i] = "lookup"
      BY <1>1, <3>2 DEF Collect, TypeOK
    <3> QED BY <2>3, <3>1, <3>2
            DEF Collector, LoginFails, CollectedAll, Complete, CollectRaises
  <2>4. ASSUME NEW c \in Batches, NEW j \in Images, Task(c, j)
        PROVE  image[b][i] = "lookup"
    <3>1. CASE Enter(c, j) \/ Wake(c, j)
      <4>1. image' = [image EXCEPT ![c][j] = Admit(c)]
        BY <3>1 DEF Enter, Wake, ImageGoes
      <4>2. c = b => Admit(c) # "lookup"
        BY <1>1 DEF Admit
      <4> QED BY <1>1, <4>1, <4>2 DEF TypeOK
    <3>2. CASE LookUp(c, j) \/ LookUpRaises(c, j) \/ PrepareFails(c, j) \/ Send(c, j)
               \/ Upload(c, j) \/ UploadUnanswered(c, j) \/ UploadFails(c, j)
      BY <1>1, <3>2 DEF LookUp, LookUpRaises, PrepareFails, Send, Upload,
                        UploadUnanswered, UploadFails, ImageGoes, TypeOK
    <3> QED BY <2>4, <3>1, <3>2 DEF Task
  <2> QED BY <1>1, <2>1, <2>2, <2>3, <2>4 DEF Next, vars
<1>2. TypeOK /\ [Next]_vars =>
        [\A b \in Batches, i \in Images :
           status[b] \in {"paused", "cancelled"} /\ image'[b][i] = "lookup" =>
             image[b][i] = "lookup"]_vars
  BY <1>1
<1> QED BY <1>2, TypeCorrect, PTL DEF Spec, HaltsWhenToldTo

-----------------------------------------------------------------------------
(* What a completed batch accounts for                                     *)

Success(i) == <<i, TRUE>>
Failure(i) == <<i, FALSE>>

(* The results of an image: none until it is collected, one from then on.  *)
OneResultEach ==
  \A b \in Batches, i \in Images :
    /\ image[b][i] # "collected" => Success(i) \notin results[b] /\ Failure(i) \notin results[b]
    /\ image[b][i] = "collected" => (Success(i) \in results[b] <=> Failure(i) \notin results[b])

(* A success is reported of what WordPress holds.                          *)
SuccessUploaded ==
  \A b \in Batches, i \in Images :
    image[b][i] = "ok" \/ Success(i) \in results[b] => i \in uploaded[b]

(* A batch is completed from a collecting task that has collected all      *)
(* images, and no task starts once it is.                                  *)
CollectedFirst ==
  \A b \in Batches :
    /\ status[b] = "none" => collector[b] = "none"
    /\ collector[b] \in {"none", "login"} => \A i \in Images : image[b][i] = "none"
    /\ status[b] = "completed" => collector[b] = "ended"
    /\ collector[b] = "closing" \/ status[b] = "completed" =>
         \A i \in Images : image[b][i] = "collected"

Accounts == OneResultEach /\ SuccessUploaded /\ CollectedFirst

LEMMA AccountsInit == Init => Accounts
BY DEF Init, Accounts, OneResultEach, SuccessUploaded, CollectedFirst

LEMMA AccountsControls ==
  ASSUME TypeOK, Accounts, NEW b \in Batches, Controls(b)
  PROVE  Accounts'
<1>1. UNCHANGED <<image, results, uploaded>>
  BY DEF Controls, Start, Pause, Resume, Cancel
<1>2. OneResultEach' /\ SuccessUploaded'
  BY <1>1 DEF Accounts, OneResultEach, SuccessUploaded
<1>3. CollectedFirst'
  BY <1>1 DEF Controls, Start, Pause, Resume, Cancel, Accounts, CollectedFirst, TypeOK
<1> QED BY <1>2, <1>3 DEF Accounts

LEMMA AccountsCollect ==
  ASSUME TypeOK, Accounts, NEW b \in Batches, NEW j \in Images, Collect(b, j)
  PROVE  Accounts'
<1>1. /\ image[b][j] \in {"ok", "failed"}
      /\ image' = [image EXCEPT ![b][j] = "collected"]
      /\ UNCHANGED <<status, collector, uploaded>>
  BY DEF Collect, Returned
<1>2. \A c \in Batches, i \in Images :
        image'[c][i] = IF c = b /\ i = j THEN "collected" ELSE image[c][i]
  BY <1>1 DEF TypeOK
<1>3. \A c \in Batches \ {b} : results'[c] = results[c]
  BY DEF Collect, TypeOK
<1>4. Success(j) \notin results[b] /\ Failure(j) \notin results[b]
  BY <1>1 DEF Accounts, OneResultEach
<1>5. ASSUME image[b][j] = "ok"
      PROVE  OneResultEach' /\ SuccessUploaded'
  <2>1. <<j, image[b][j] = "ok">> = Success(j)
    BY <1>5 DEF Success
  <2>2. results'[b] = results[b] \cup {Success(j)}
    BY <2>1 DEF Collect, TypeOK
  <2>3. ASSUME NEW i \in Images
        PROVE  /\ Failure(i) \in results'[b] <=> Failure(i) \in results[b]
               /\ Success(i) \in results'[b] <=> Success(i) \in results[b] \/ i = j
    <3>1. Failure(i) # Success(j) /\ (Success(i) = Success(j) <=> i = j)
      BY DEF Success, Failure
    <3> QED BY <2>2, <3>1
  <2>4. OneResultEach'
    BY <1>2, <1>3, <1>4, <2>3 DEF Accounts, OneResultEach
  <2>5. SuccessUploaded'
    BY <1>1, <1>2, <1>3, <1>5, <2>3 DEF Accounts, SuccessUploaded
  <2> QED BY <2>4, <2>5
<1>6. ASSUME image[b][j] = "failed"
      PROVE  OneResultEach' /\ SuccessUploaded'
  <2>1. <<j, image[b][j] = "ok">> = Failure(j)
    BY <1>6 DEF Failure
  <2>2. results'[b] = results[b] \cup {Failure(j)}
    BY <2>1 DEF Collect, TypeOK
  <2>3. ASSUME NEW i \in Images
        PROVE  /\ Success(i) \in results'[b] <=> Success(i) \in results[b]
               /\ Failure(i) \in results'[b] <=> Failure(i) \in results[b] \/ i = j
    <3>1. Success(i) # Failure(j) /\ (Failure(i) = Failure(j) <=> i = j)
      BY DEF Success, Failure
    <3> QED BY <2>2, <3>1
  <2>4. OneResultEach'
    BY <1>2, <1>3, <1>4, <2>3 DEF Accounts, OneResultEach
  <2>5. SuccessUploaded'
    BY <1>1, <1>2, <1>3, <2>3 DEF Accounts, SuccessUploaded
  <2> QED BY <2>4, <2>5
<1>7. OneResultEach' /\ SuccessUploaded'
  BY <1>1, <1>5, <1>6
<1>8. CollectedFirst'
  BY <1>1, <1>2 DEF Collect, Accounts, CollectedFirst
<1> QED BY <1>7, <1>8 DEF Accounts

LEMMA AccountsCollector ==
  ASSUME TypeOK, Accounts, NEW b \in Batches, Collector(b),
         \A i \in Images : ~Collect(b, i)
  PROVE  Accounts'
<1>1. CASE Login(b)
  <2>1. /\ \A i \in Images : image[b][i] = "none"
        /\ \A c \in Batches, i \in Images :
             image'[c][i] = IF c = b THEN "queued" ELSE image[c][i]
    BY <1>1 DEF Login, Accounts, CollectedFirst, TypeOK
  <2>2. OneResultEach' /\ SuccessUploaded'
    BY <1>1, <2>1 DEF Login, Accounts, OneResultEach, SuccessUploaded
  <2>3. CollectedFirst'
    BY <1>1, <2>1 DEF Login, Accounts, CollectedFirst, TypeOK
  <2> QED BY <2>2, <2>3 DEF Accounts
<1>2. CASE ~Login(b)
  <2>1. UNCHANGED <<image, results, uploaded>>
    BY <1>2 DEF Collector, LoginFails, CollectedAll, Complete, CollectRaises
  <2>2. OneResultEach' /\ SuccessUploaded'
    BY <2>1 DEF Accounts, OneResultEach, SuccessUploaded
  <2>3. CollectedFirst'
    BY <1>2, <2>1 DEF Collector, LoginFails, CollectedAll, Complete, CollectRaises,
                      Accounts, CollectedFirst, TypeOK
  <2> QED BY <2>2, <2>3 DEF Accounts
<1> QED BY <1>1, <1>2

LEMMA AccountsTask ==
  ASSUME TypeOK, Accounts, NEW b \in Batches, NEW j \in Images, Task(b, j)
  PROVE  Accounts'
<1>1. UNCHANGED <<status, collector, results>>
  BY DEF Task, Enter, Wake, LookUp, LookUpRaises, PrepareFails, Send, Upload,
         UploadUnanswered, UploadFails
<1>2. PICK s : image' = [image EXCEPT ![b][j] = s] /\ s # "collected" /\ s # "none"
  BY AdmitType DEF Task, Enter, Wake, LookUp, LookUpRaises, PrepareFails, Send, Upload,
         UploadUnanswered, UploadFails, ImageGoes
<1>3. image[b][j] \notin {"none", "collected"}
  BY DEF Task, Enter, Wake, LookUp, LookUpRaises, PrepareFails, Send, Upload,
         UploadUnanswered, UploadFails, ImageGoes
<1>4. \A c \in Batches, i \in Images :
        image'[c][i] = IF c = b /\ i = j THEN s ELSE image[c][i]
  BY <1>2 DEF TypeOK
<1>5. /\ \A c \in Batches : uploaded[c] \subseteq uploaded'[c]
      /\ image'[b][j] = "ok" => j \in uploaded'[b]
  BY <1>4, AdmitType
     DEF Task, Enter, Wake, LookUp, LookUpRaises, PrepareFails, Send, Upload,
         UploadUnanswered, UploadFails, ImageGoes, TypeOK
<1>6. OneResultEach'
  BY <1>1, <1>2, <1>3, <1>4 DEF Accounts, OneResultEach
<1>7. SuccessUploaded'
  BY <1>1, <1>4, <1>5 DEF Accounts, SuccessUploaded
<1>8. CollectedFirst'
  BY <1>1, <1>3, <1>4 DEF Accounts, CollectedFirst
<1> QED BY <1>6, <1>7, <1>8 DEF Accounts

LEMMA AccountsNext == TypeOK /\ Accounts /\ [Next]_vars => Accounts'
<1>1. ASSUME Accounts, UNCHANGED vars
      PROVE  Accounts'
  BY <1>1 DEF Accounts, OneResultEach, SuccessUploaded, CollectedFirst, vars
<1> QED BY <1>1, AccountsControls, AccountsCollect, AccountsCollector, AccountsTask DEF Next

LEMMA AccountsSuffices == Accounts => CompletedAccounted
<1> SUFFICES ASSUME Accounts, NEW b \in Batches, status[b] = "completed"
             PROVE  /\ \A i \in Images :
                         \E ok \in BOOLEAN : results[b] \cap ({i} \X BOOLEAN) = {<<i, ok>>}
                    /\ {i \in Images : <<i, TRUE>> \in results[b]} \subseteq uploaded[b]
  BY DEF CompletedAccounted
<1>1. ASSUME NEW i \in Images
      PROVE  \E ok \in BOOLEAN : results[b] \cap ({i} \X BOOLEAN) = {<<i, ok>>}
  <2>1. Success(i) \in results[b] <=> Failure(i) \notin results[b]
    BY DEF Accounts, OneResultEach, CollectedFirst
  <2>2. {i} \X BOOLEAN = {Success(i), Failure(i)}
    <3>1. Success(i) \in {i} \X BOOLEAN /\ Failure(i) \in {i} \X BOOLEAN
      BY DEF Success, Failure
    <3>2. ASSUME NEW x \in {i} \X BOOLEAN
          PROVE  x \in {Success(i), Failure(i)}
      <4>1. PICK ok \in BOOLEAN : x = <<i, ok>>
        OBVIOUS
      <4>2. CASE ok = TRUE
        BY <4>1, <4>2, Zenon DEF Success
      <4>3. CASE ok = FALSE
        BY <4>1, <4>3, Zenon DEF Failure
      <4> QED BY <4>2, <4>3
    <3> QED BY <3>1, <3>2
  <2>3. CASE Success(i) \in results[b]
    <3>1. results[b] \cap ({i} \X BOOLEAN) = {Success(i)}
      BY <2>1, <2>2, <2>3
    <3> QED BY <3>1 DEF Success
  <2>4. CASE Success(i) \notin results[b]
    <3>1. results[b] \cap ({i} \X BOOLEAN) = {Failure(i)}
      BY <2>1, <2>2, <2>4
    <3> QED BY <3>1 DEF Failure
  <2> QED BY <2>3, <2>4
<1>2. {i \in Images : <<i, TRUE>> \in results[b]} \subseteq uploaded[b]
  BY DEF Accounts, SuccessUploaded, Success
<1> QED BY <1>1, <1>2

(* A completed batch holds one result of every image, and a success only   *)
(* of what WordPress has, whatever failed and however often it was paused  *)
(* (CompletedAccounted).                                                   *)
THEOREM CompletedBatchesAccount == Spec => []CompletedAccounted
<1> QED BY TypeInit, TypeNext, AccountsInit, AccountsNext, AccountsSuffices, PTL DEF Spec

-----------------------------------------------------------------------------
(***************************************************************************)
(* The AI calls a batch makes for the texts of its images are calls of a   *)
(* detached task: AiUsage, for any calls, models, prices and number of     *)
(* failing writes.  Its types, and that an orderly shutdown leaves no      *)
(* priced answer of a request without its record.                          *)
(***************************************************************************)
Written == pending \cup stored \cup lost

(* A record is made when its call is answered or has failed, once of each  *)
(* kind.                                                                   *)
FromCalls ==
  \A rec \in Written :
    /\ rec.call \in Calls
    /\ stage[rec.call] \in {"answered", "failed"}
    /\ rec.ok = FALSE => stage[rec.call] = "failed"

Types == UsageTypeOK /\ FromCalls

(* What has been paid for and priced has its record, written or not yet.   *)
Owes(c) == paid[c] > 0 /\ stage[c] # "unpriced"

Backed == \A c \in Calls : Owes(c) => Record(c, TRUE, paid[c]) \in Written

Unasked == \A c \in Calls : stage[c] \in {"new", "asked", "refused"} => paid[c] = 0

(* Once the shutdown began no request is answered any more, and it waits   *)
(* for the records of those that were.                                     *)
Awaited ==
  server.is # "up" =>
    \A c \in Calls \ Detached :
      /\ stage[c] # "asked"
      /\ Owes(c) => Record(c, TRUE, paid[c]) \in server.waits \cup stored \cup lost

ClosedWaits == server.is = "closed" => server.waits = {}

Drained == Backed /\ Unasked /\ Awaited /\ ClosedWaits

-----------------------------------------------------------------------------
(* A write that ends, either way.                                          *)
LEMMA WriteEnds ==
  ASSUME NEW rec \in pending, Persist(rec) \/ PersistFails(rec)
  PROVE  /\ pending' = pending \ {rec}
         /\ \/ stored' = stored \cup {rec} /\ lost' = lost
            \/ stored' = stored /\ lost' = lost \cup {rec}
         /\ UNCHANGED <<stage, paid, server>>
         /\ Written' = Written
BY DEF Persist, PersistFails, Written

(* A call whose stage changes, with the record this makes, if any.         *)
LEMMA TypesStep ==
  ASSUME Types, NEW c \in Calls,
         NEW x \in {"asked", "answered", "unpriced", "failed", "refused"},
         NEW R, stage' = [stage EXCEPT ![c] = x], pending' = pending \cup R,
         UNCHANGED <<stored, lost, server>>, paid' \in [Calls -> Costs \cup {0}],
         \A rec \in R : rec.call = c,
         \/ stage[c] \in {"new", "asked"} /\ R = {}
         \/ stage[c] = "asked" /\ x = "answered" /\ \A rec \in R : rec.ok # FALSE
         \/ stage[c] \in {"asked", "answered"} /\ x = "failed" /\ \A rec \in R : rec.ok = FALSE
  PROVE  Types'
<1>1. stage' \in [Calls -> {"new", "asked", "answered", "unpriced", "failed", "refused"}]
  BY DEF Types, UsageTypeOK
<1>2. stage'[c] = x /\ \A d \in Calls : d # c => stage'[d] = stage[d]
  BY DEF Types, UsageTypeOK
<1>3. R \cap stored = {}
  BY DEF Types, FromCalls, Written
<1>4. UsageTypeOK'
  BY <1>1, <1>3 DEF Types, UsageTypeOK
<1>5. ASSUME NEW rec \in Written
      PROVE  /\ stage'[rec.call] \in {"answered", "failed"}
             /\ rec.ok = FALSE => stage'[rec.call] = "failed"
  BY <1>2 DEF Types, FromCalls
<1>6. ASSUME NEW rec \in R
      PROVE  /\ stage'[rec.call] \in {"answered", "failed"}
             /\ rec.ok = FALSE => stage'[rec.call] = "failed"
  BY <1>2
<1>7. Written' = Written \cup R
  BY DEF Written
<1>8. FromCalls'
  BY <1>5, <1>6, <1>7 DEF Types, FromCalls
<1> QED BY <1>4, <1>8 DEF Types

LEMMA TypesInit == UsageInit => Types
BY DEF UsageInit, Types, UsageTypeOK, FromCalls, Written

LEMMA TypesNext == Types /\ [UsageNext]_usageVars => Types'
<1> SUFFICES ASSUME Types, [UsageNext]_usageVars
             PROVE  Types'
  OBVIOUS
<1>1. ASSUME NEW c \in Calls, Ask(c)
      PROVE  Types'
  <2> DEFINE R == {}
  <2>1. PICK x \in {"refused", "asked"} : stage' = [stage EXCEPT ![c] = x]
    BY <1>1 DEF Ask
  <2>2. stage[c] = "new" /\ pending' = pending \cup R /\ UNCHANGED <<paid, stored, lost, server>>
    BY <1>1 DEF Ask
  <2>3. paid' \in [Calls -> Costs \cup {0}]
    BY <2>2 DEF Types, UsageTypeOK
  <2>4. R = {} /\ \A rec \in R : rec.call = c
    OBVIOUS
  <2> HIDE DEF R
  <2> QED BY <2>1, <2>2, <2>3, <2>4, TypesStep
<1>2. ASSUME NEW c \in Calls, DriverFails(c) \/ ParseFails(c)
      PROVE  Types'
  <2> DEFINE R == {Record(c, FALSE, 0)}
  <2>1. /\ stage[c] \in {"asked", "answered"} /\ stage' = [stage EXCEPT ![c] = "failed"]
        /\ pending' = pending \cup R
        /\ UNCHANGED <<paid, stored, lost, server>>
    BY <1>2 DEF DriverFails, ParseFails
  <2>2. paid' \in [Calls -> Costs \cup {0}]
    BY <2>1 DEF Types, UsageTypeOK
  <2>3. \A rec \in R : rec.call = c /\ rec.ok = FALSE
    BY DEF Record
  <2> HIDE DEF R
  <2> QED BY <2>1, <2>2, <2>3, TypesStep
<1>3. ASSUME NEW c \in Calls, Answer(c)
      PROVE  Types'
  <2>1. PICK cost \in Costs :
          /\ paid' = [paid EXCEPT ![c] = cost]
          /\ \/ stage' = [stage EXCEPT ![c] = "answered"]
                /\ pending' = pending \cup {Record(c, TRUE, cost)}
             \/ stage' = [stage EXCEPT ![c] = "unpriced"] /\ pending' = pending
    BY <1>3 DEF Answer
  <2>2. stage[c] = "asked" /\ UNCHANGED <<stored, lost, server>>
    BY <1>3 DEF Answer
  <2>3. paid' \in [Calls -> Costs \cup {0}]
    BY <2>1 DEF Types, UsageTypeOK
  <2>4. CASE stage' = [stage EXCEPT ![c] = "answered"]
             /\ pending' = pending \cup {Record(c, TRUE, cost)}
    <3> DEFINE R == {Record(c, TRUE, cost)}
    <3>1. \A rec \in R : rec.call = c /\ rec.ok # FALSE
      <4>1. Record(c, TRUE, cost).call = c
        BY DEF Record
      <4>2. Record(c, TRUE, cost).ok
        BY DEF Record
      <4>3. Record(c, TRUE, cost).ok # FALSE
        BY <4>2
      <4> QED BY <4>1, <4>3
    <3>2. pending' = pending \cup R
      BY <2>4
    <3> HIDE DEF R
    <3> QED BY <2>2, <2>3, <2>4, <3>1, <3>2, TypesStep
  <2>5. CASE stage' = [stage EXCEPT ![c] = "unpriced"] /\ pending' = pending
    <3> DEFINE R == {}
    <3>1. pending' = pending \cup R /\ R = {} /\ \A rec \in R : rec.call = c
      BY <2>5
    <3> HIDE DEF R
    <3> QED BY <2>2, <2>3, <2>5, <3>1, TypesStep
  <2> QED BY <2>1, <2>4, <2>5
<1>4. ASSUME NEW rec \in pending, Persist(rec) \/ PersistFails(rec)
      PROVE  Types'
  <2>1. UsageTypeOK'
    BY <1>4, WriteEnds DEF Types, UsageTypeOK
  <2>2. FromCalls'
    BY <1>4, WriteEnds DEF Types, FromCalls
  <2> QED BY <2>1, <2>2 DEF Types
<1>5. CASE Shutdown
  BY <1>5 DEF Shutdown, Types, UsageTypeOK, FromCalls, Written
<1>6. CASE Close
  BY <1>6 DEF Close, Types, UsageTypeOK, FromCalls, Written
<1>7. CASE UNCHANGED usageVars
  BY <1>7 DEF usageVars, Types, UsageTypeOK, FromCalls, Written
<1> QED BY <1>1, <1>2, <1>3, <1>4, <1>5, <1>6, <1>7 DEF UsageNext

(* Every reachable state is well typed; no record is both written and      *)
(* waiting to be (TypeOK).                                                 *)
THEOREM UsageTypeCorrect == UsageSpec => []UsageTypeOK
<1>1. Types => UsageTypeOK
  BY DEF Types
<1> QED BY TypesInit, TypesNext, <1>1, PTL DEF UsageSpec

-----------------------------------------------------------------------------
(* The shutdown                                                            *)

LEMMA DrainedInit == UsageInit => Drained
BY DEF UsageInit, Drained, Backed, Unasked, Awaited, ClosedWaits, Owes

(* A call that goes on owes nothing new unless its record was made with    *)
(* it; no call of a request goes on being asked after the shutdown began.  *)
LEMMA DrainedStep ==
  ASSUME Types, Drained, NEW c \in Calls, NEW x, NEW R,
         stage' = [stage EXCEPT ![c] = x], pending' = pending \cup R,
         UNCHANGED <<stored, lost, server>>,
         \A d \in Calls : d # c => paid'[d] = paid[d],
         x \in {"asked", "refused"} => paid'[c] = 0,
         x # "new",
         Owes(c)' => Record(c, TRUE, paid'[c]) \in R \/ (Owes(c) /\ paid'[c] = paid[c]),
         server.is = "up" \/ c \in Detached \/ (x # "asked" /\ (Owes(c)' => Owes(c) /\ paid'[c] = paid[c]))
  PROVE  Drained'
<1>1. stage'[c] = x /\ \A d \in Calls : d # c => stage'[d] = stage[d]
  BY DEF Types, UsageTypeOK
<1>2. \A d \in Calls : d # c => (Owes(d)' <=> Owes(d))
  BY <1>1 DEF Owes
<1>3. Written' = Written \cup R
  BY DEF Written
<1>4. Backed'
  <2> SUFFICES ASSUME NEW d \in Calls, Owes(d)'
               PROVE  Record(d, TRUE, paid'[d]) \in Written'
    BY DEF Backed, Record, Provider
  <2>1. CASE d = c
    BY <1>3, <2>1 DEF Drained, Backed
  <2>2. CASE d # c
    BY <1>2, <1>3, <2>2 DEF Drained, Backed
  <2> QED BY <2>1, <2>2
<1>5. Unasked'
  BY <1>1 DEF Drained, Unasked
<1>6. Awaited'
  <2> SUFFICES ASSUME server.is # "up", NEW d \in Calls \ Detached
               PROVE  /\ stage'[d] # "asked"
                      /\ Owes(d)' => Record(d, TRUE, paid'[d]) \in
                                       server.waits \cup stored \cup lost
    BY DEF Awaited, Record, Provider
  <2>1. CASE d = c
    BY <1>1, <2>1 DEF Drained, Awaited
  <2>2. CASE d # c
    BY <1>1, <1>2, <2>2 DEF Drained, Awaited
  <2> QED BY <2>1, <2>2
<1>7. ClosedWaits'
  BY DEF Drained, ClosedWaits
<1> QED BY <1>4, <1>5, <1>6, <1>7 DEF Drained

LEMMA DrainedNext == Types /\ Drained /\ [UsageNext]_usageVars => Drained'
<1> SUFFICES ASSUME Types, Drained, [UsageNext]_usageVars
             PROVE  Drained'
  OBVIOUS
<1>1. ASSUME NEW c \in Calls, Ask(c)
      PROVE  Drained'
  <2>1. PICK x \in {"refused", "asked"} : stage' = [stage EXCEPT ![c] = x]
    BY <1>1 DEF Ask
  <2>2. /\ stage[c] = "new" /\ pending' = pending \cup {} /\ paid' = paid
        /\ UNCHANGED <<stored, lost, server>> /\ (server.is = "up" \/ c \in Detached)
    BY <1>1 DEF Ask
  <2>3. paid'[c] = 0 /\ ~Owes(c)'
    BY <2>2 DEF Drained, Unasked, Owes
  <2> QED BY <2>1, <2>2, <2>3, DrainedStep
<1>2. ASSUME NEW c \in Calls, DriverFails(c)
      PROVE  Drained'
  <2>1. /\ stage[c] = "asked" /\ stage' = [stage EXCEPT ![c] = "failed"]
        /\ pending' = pending \cup {Record(c, FALSE, 0)} /\ paid' = paid
        /\ UNCHANGED <<stored, lost, server>>
    BY <1>2 DEF DriverFails
  <2>2. ~Owes(c)'
    BY <2>1 DEF Drained, Unasked, Owes
  <2> QED BY <2>1, <2>2, DrainedStep
<1>3. ASSUME NEW c \in Calls, ParseFails(c)
      PROVE  Drained'
  <2>1. /\ stage[c] = "answered" /\ stage' = [stage EXCEPT ![c] = "failed"]
        /\ pending' = pending \cup {Record(c, FALSE, 0)} /\ paid' = paid
        /\ UNCHANGED <<stored, lost, server>>
    BY <1>3 DEF ParseFails
  <2>2. Owes(c)' => Owes(c)
    BY <2>1 DEF Owes
  <2> QED BY <2>1, <2>2, DrainedStep
<1>4. ASSUME NEW c \in Calls, Answer(c)
      PROVE  Drained'
  <2>1. PICK cost \in Costs :
          /\ paid' = [paid EXCEPT ![c] = cost]
          /\ \/ stage' = [stage EXCEPT ![c] = "answered"]
                /\ pending' = pending \cup {Record(c, TRUE, cost)}
             \/ stage' = [stage EXCEPT ![c] = "unpriced"] /\ pending' = pending
    BY <1>4 DEF Answer
  <2>2. stage[c] = "asked" /\ UNCHANGED <<stored, lost, server>>
    BY <1>4 DEF Answer
  <2>3. server.is = "up" \/ c \in Detached
    BY <2>2 DEF Drained, Awaited
  <2>4. paid'[c] = cost /\ \A d \in Calls : d # c => paid'[d] = paid[d]
    BY <2>1 DEF Types, UsageTypeOK
  <2>5. CASE stage' = [stage EXCEPT ![c] = "answered"]
             /\ pending' = pending \cup {Record(c, TRUE, cost)}
    <3> HIDE DEF Drained, Types
    <3> QED BY <2>2, <2>3, <2>4, <2>5, DrainedStep
  <2>6. CASE stage' = [stage EXCEPT ![c] = "unpriced"] /\ pending' = pending
    <3>1. ~Owes(c)'
      BY <2>6 DEF Owes, Types, UsageTypeOK
    <3>2. pending' = pending \cup {}
      BY <2>6
    <3> QED BY <2>2, <2>3, <2>4, <2>6, <3>1, <3>2, DrainedStep
  <2> QED BY <2>1, <2>5, <2>6
<1>5. ASSUME NEW rec \in pending, Persist(rec) \/ PersistFails(rec)
      PROVE  Drained'
  <2>1. /\ UNCHANGED <<stage, paid, server>> /\ Written' = Written
        /\ stored \subseteq stored' /\ lost \subseteq lost'
    BY <1>5, WriteEnds
  <2>2. \A c \in Calls : Owes(c)' <=> Owes(c)
    BY <2>1 DEF Owes
  <2>3. Backed'
    BY <2>1, <2>2 DEF Drained, Backed, Record, Provider
  <2>4. Awaited'
    BY <2>1, <2>2 DEF Drained, Awaited, Record, Provider
  <2>5. Unasked' /\ ClosedWaits'
    BY <2>1 DEF Drained, Unasked, ClosedWaits
  <2> QED BY <2>3, <2>4, <2>5 DEF Drained
<1>6. CASE Shutdown
  <2>1. /\ UNCHANGED <<stage, paid, pending, stored, lost>>
        /\ server'.is = "draining" /\ server'.waits = pending
        /\ \A c \in Calls \ Detached : stage[c] # "asked"
    BY <1>6 DEF Shutdown
  <2>2. \A c \in Calls : Owes(c)' <=> Owes(c)
    BY <2>1 DEF Owes
  <2>3. Backed' /\ Unasked' /\ ClosedWaits'
    BY <2>1, <2>2 DEF Drained, Backed, Unasked, ClosedWaits, Written, Record, Provider
  <2>4. Awaited'
    BY <2>1, <2>2 DEF Drained, Backed, Awaited, Written, Record, Provider
  <2> QED BY <2>3, <2>4 DEF Drained
<1>7. CASE Close
  <2>1. /\ UNCHANGED <<stage, paid, pending, stored, lost>>
        /\ server.is = "draining" /\ server.waits \cap pending = {}
        /\ server'.is = "closed" /\ server'.waits = {}
    BY <1>7 DEF Close
  <2>2. \A c \in Calls : Owes(c)' <=> Owes(c)
    BY <2>1 DEF Owes
  <2>3. Backed' /\ Unasked' /\ ClosedWaits'
    BY <2>1, <2>2 DEF Drained, Backed, Unasked, ClosedWaits, Written, Record, Provider
  <2>4. server.waits \subseteq stored \cup lost
    BY <2>1 DEF Types, UsageTypeOK
  <2>5. Awaited'
    BY <2>1, <2>2, <2>4 DEF Drained, Awaited, Record, Provider
  <2> QED BY <2>3, <2>5 DEF Drained
<1>8. CASE UNCHANGED usageVars
  BY <1>8 DEF usageVars, Drained, Backed, Unasked, Awaited, ClosedWaits, Owes, Written,
              Record, Provider
<1> QED BY <1>1, <1>2, <1>3, <1>4, <1>5, <1>6, <1>7, <1>8 DEF UsageNext

(* After an orderly shutdown every priced answer given to a request has    *)
(* its row, but for those whose own write failed (PaidCallsRecorded).      *)
THEOREM ShutdownKeepsRecords == UsageSpec => []PaidCallsRecorded
<1>1. Types /\ Drained => PaidCallsRecorded
  BY DEF Drained, Awaited, ClosedWaits, PaidCallsRecorded, Owes
<1> QED BY TypesInit, TypesNext, DrainedInit, DrainedNext, <1>1, PTL DEF UsageSpec

-----------------------------------------------------------------------------
(***************************************************************************)
(* SiteEdits, for any pages, levels, links and requests: no edit undoes    *)
(* another as long as nobody edits one post twice at a time, and a link    *)
(* that is still dead keeps its finding when no two dead targets have one  *)
(* code.                                                                   *)
(***************************************************************************)

AllEdits == Edits \cup TitleEdits

Steps == {"ready", "write", "areas", "write area", "write title"}

(* What a request in hand looks like, and the pages it is going to edit.   *)
IsWork(v) ==
  /\ {"at", "todo"} \subseteq DOMAIN v
  /\ v.at \in Steps
  /\ v.todo \in Seq(AllEdits) /\ v.todo # <<>>

IsState(v) == v = Idle \/ v = [at |-> "verify", ok |-> v.ok] \/ IsWork(v)

PagesOf(v) == IF "todo" \in DOMAIN v THEN {e.page : e \in Range(v.todo)} ELSE {}

Shape ==
  /\ req = [r \in Requests |-> req[r]]
  /\ \A r \in Requests : IsState(req[r])

Apart ==
  \A q \in Requests : \A r \in Requests :
    q # r => PagesOf(req[q]) \cap PagesOf(req[r]) = {}

(* Until it is written, a copy is the edit of what the post holds.         *)
Fresh ==
  /\ post = [p \in Pages |-> post[p]]
  /\ \A r \in Requests :
       At(r, "write") => req[r].copy = Edited(Doing(r), post[Doing(r).page])

EditInv == Shape /\ Apart /\ Fresh

-----------------------------------------------------------------------------
(* Requests, edits and the pages they are for.                             *)

LEMMA PageOfEdit == ASSUME NEW e \in AllEdits PROVE e.page \in Pages
  BY DEF AllEdits, Edits, TitleEdits

LEMMA StatesApart ==
  ASSUME NEW v
  PROVE  /\ v = Idle => v.at = "idle" /\ PagesOf(v) = {}
         /\ v = [at |-> "verify", ok |-> v.ok] => v.at = "verify" /\ PagesOf(v) = {}
         /\ IsWork(v) => PagesOf(v) = {v.todo[i].page : i \in 1..Len(v.todo)}
  <1>1. v = Idle => v.at = "idle" /\ PagesOf(v) = {}
    BY DEF Idle, PagesOf
  <1>2. v = [at |-> "verify", ok |-> v.ok] => v.at = "verify" /\ PagesOf(v) = {}
    BY DEF PagesOf
  <1>3. ASSUME IsWork(v) PROVE PagesOf(v) = {v.todo[i].page : i \in 1..Len(v.todo)}
    <2>1. DOMAIN v.todo = 1..Len(v.todo)
      BY <1>3 DEF IsWork
    <2>2. Range(v.todo) = {v.todo[i] : i \in 1..Len(v.todo)}
      BY <2>1 DEF Range
    <2>3. "todo" \in DOMAIN v
      BY <1>3 DEF IsWork
    <2> QED BY <2>2, <2>3 DEF PagesOf
  <1> QED BY <1>1, <1>2, <1>3

(* The edit in hand is the first of the list, and its page one of those    *)
(* the request is for.                                                     *)
LEMMA DoingOne ==
  ASSUME NEW r \in Requests, Shape, req[r].at \in Steps
  PROVE  /\ IsWork(req[r])
         /\ Doing(r) \in AllEdits
         /\ Doing(r).page \in Pages \cap PagesOf(req[r])
  <1>1. IsWork(req[r])
    BY StatesApart DEF Shape, IsState, Steps
  <1>2. /\ Doing(r) = req[r].todo[1] /\ 1 \in 1..Len(req[r].todo)
        /\ req[r].todo[1] \in AllEdits
    BY <1>1 DEF IsWork, Doing
  <1> QED BY <1>1, <1>2, StatesApart, PageOfEdit

(* A request goes on with a state whose pages nobody else is editing.      *)
LEMMA GoesOn ==
  ASSUME Shape, Apart, NEW r \in Requests, NEW v, Goto(r, v), IsState(v),
         \A q \in Requests \ {r} : PagesOf(req[q]) \cap PagesOf(v) = {}
  PROVE  /\ Shape' /\ Apart' /\ req'[r] = v
         /\ \A q \in Requests \ {r} : req'[q] = req[q]
  <1>1. /\ req' = [req EXCEPT ![r] = v] /\ DOMAIN req = Requests
    BY DEF Goto, Shape
  <1>2. /\ req'[r] = v /\ \A q \in Requests \ {r} : req'[q] = req[q]
        /\ req' = [q \in Requests |-> req'[q]]
    BY <1>1
  <1>3. Shape'
    BY <1>2 DEF Shape
  <1>4. Apart'
    <2> SUFFICES ASSUME NEW p \in Requests, NEW q \in Requests, p # q
                 PROVE  PagesOf(req'[p]) \cap PagesOf(req'[q]) = {}
      BY DEF Apart, PagesOf
    <2>1. CASE p = r
      BY <1>2, <2>1
    <2>2. CASE q = r
      BY <1>2, <2>2
    <2>3. CASE p # r /\ q # r
      BY <1>2, <2>3 DEF Apart
    <2> QED BY <2>1, <2>2, <2>3
  <1> QED BY <1>2, <1>3, <1>4

(* The same for one that stays with its list.                              *)
LEMMA StaysOn ==
  ASSUME Shape, Apart, NEW r \in Requests, NEW v, Goto(r, v), IsState(v),
         PagesOf(v) \subseteq PagesOf(req[r])
  PROVE  /\ Shape' /\ Apart' /\ req'[r] = v
         /\ \A q \in Requests \ {r} : req'[q] = req[q]
  <1>1. \A q \in Requests \ {r} : PagesOf(req[q]) \cap PagesOf(v) = {}
    BY DEF Apart
  <1> QED BY <1>1, GoesOn

LEMMA TailOfList ==
  ASSUME NEW S, NEW s \in Seq(S), s # <<>>, Len(s) # 1
  PROVE  /\ Tail(s) \in Seq(S) /\ Tail(s) # <<>>
         /\ \A i \in 1..Len(Tail(s)) :
              Tail(s)[i] = s[i + 1] /\ i + 1 \in 1..Len(s)
  <1> DEFINE t == Tail(s)
  <1>1. /\ t \in Seq(S) /\ Len(t) = Len(s) - 1
        /\ \A i \in 1..Len(t) : t[i] = s[i + 1]
    BY HeadTailProperties
  <1>2. Len(s) \in Nat /\ Len(s) # 0
    OBVIOUS
  <1> HIDE DEF t
  <1>3. Len(t) # 0 /\ t # <<>>
    BY <1>1, <1>2
  <1>4. \A i \in 1..Len(t) : i + 1 \in 1..Len(s)
    BY <1>1, <1>2
  <1>5. t \in Seq(S) /\ t # <<>> /\ \A i \in 1..Len(t) : t[i] = s[i + 1] /\ i + 1 \in 1..Len(s)
    BY <1>1, <1>3, <1>4
  <1> QED BY <1>5 DEF t

(* The next edit of a list is one of it.                                   *)
LEMMA NextOne ==
  ASSUME Shape, Apart, NEW r \in Requests, req[r].at \in Steps, NextEdit(r)
  PROVE  /\ Shape' /\ Apart' /\ req'[r].at \in {"idle", "ready"}
         /\ \A q \in Requests \ {r} : req'[q] = req[q]
  <1> DEFINE todo == req[r].todo
             next == [at |-> "ready", todo |-> Tail(todo)]
             v == IF Len(todo) = 1 THEN Idle ELSE next
  <1>1. /\ IsWork(req[r]) /\ todo \in Seq(AllEdits) /\ todo # <<>>
    BY DoingOne DEF IsWork
  <1>2. CASE Len(todo) = 1
    <2>1. v = Idle /\ IsState(v) /\ PagesOf(v) = {} /\ v.at = "idle"
      BY <1>2, StatesApart DEF IsState, Idle
    <2>2. Goto(r, v)
      BY DEF NextEdit
    <2> HIDE DEF v
    <2> QED BY <2>1, <2>2, StaysOn
  <1>3. CASE Len(todo) # 1
    <2>1. /\ Tail(todo) \in Seq(AllEdits) /\ Tail(todo) # <<>>
          /\ \A i \in 1..Len(Tail(todo)) :
               Tail(todo)[i] = todo[i + 1] /\ i + 1 \in 1..Len(todo)
      <3> HIDE DEF todo
      <3> QED BY <1>1, <1>3, TailOfList
    <2>2. IsWork(next)
      BY <2>1 DEF IsWork, Steps
    <2>3. PagesOf(next) \subseteq PagesOf(req[r])
      <3>1. PagesOf(next) = {next.todo[i].page : i \in 1..Len(next.todo)}
        <4> HIDE DEF next
        <4> QED BY <2>2, StatesApart
      <3>2. PagesOf(req[r]) = {todo[i].page : i \in 1..Len(todo)}
        BY <1>1, StatesApart
      <3> QED BY <2>1, <3>1, <3>2
    <2>4. v = next /\ Goto(r, next) /\ next.at = "ready"
      BY <1>3 DEF NextEdit
    <2> HIDE DEF next, v
    <2> QED BY <2>2, <2>3, <2>4, StaysOn DEF IsState
  <1> QED BY <1>2, <1>3

-----------------------------------------------------------------------------
(* The steps of a request.                                                 *)

LEMMA FreshKept ==
  ASSUME Fresh, NEW r \in Requests, post' = post,
         \A q \in Requests \ {r} : req'[q] = req[q], req'[r].at # "write"
  PROVE  Fresh'
  <1> SUFFICES ASSUME NEW q \in Requests, req'[q].at = "write"
               PROVE  req'[q].copy = Edited(Head(req'[q].todo), post[Head(req'[q].todo).page])
    BY DEF Fresh, At, Doing
  <1>1. q # r /\ req'[q] = req[q]
    OBVIOUS
  <1> QED BY <1>1 DEF Fresh, At, Doing

(* A request is taken up for pages nobody is editing.                      *)
LEMMA TakenUp ==
  ASSUME EditInv, NEW r \in Requests, NEW pages, Free(r, pages), NEW todo,
         todo \in Seq(AllEdits), todo # <<>>,
         \A i \in 1..Len(todo) : todo[i].page \in pages,
         Goto(r, [at |-> "ready", todo |-> todo]), post' = post
  PROVE  EditInv'
  <1> DEFINE v == [at |-> "ready", todo |-> todo]
  <1>1. IsWork(v) /\ v.at # "write" /\ v.todo = todo
    BY DEF IsWork, Steps
  <1>2. Goto(r, v)
    OBVIOUS
  <1> HIDE DEF v
  <1>3. PagesOf(v) \subseteq pages
    BY <1>1, StatesApart
  <1>4. \A q \in Requests \ {r} : PagesOf(req[q]) \cap PagesOf(v) = {}
    BY <1>3 DEF Free, EditedBy, PagesOf
  <1>5. /\ Shape' /\ Apart' /\ req'[r] = v
        /\ \A q \in Requests \ {r} : req'[q] = req[q]
    BY <1>1, <1>2, <1>4, GoesOn DEF EditInv, IsState
  <1> QED BY <1>1, <1>5, FreshKept DEF EditInv

LEMMA EditOneStep ==
  ASSUME EditInv, NEW r \in Requests, EditOne(r)
  PROVE  EditInv'
  <1>1. PICK e \in AllEdits :
          Free(r, {e.page}) /\ Goto(r, [at |-> "ready", todo |-> <<e>>])
    BY DEF EditOne, AllEdits
  <1>2. /\ <<e>> \in Seq(AllEdits) /\ <<e>> # <<>>
        /\ \A i \in 1..Len(<<e>>) : <<e>>[i].page \in {e.page}
    OBVIOUS
  <1>3. post' = post
    BY DEF EditOne
  <1> QED BY <1>1, <1>2, <1>3, TakenUp

(* A list of all the elements of a finite set.                             *)
LEMMA ListOfAll ==
  ASSUME NEW S, IsFiniteSet(S), S # {}, NEW order \in SetToSeqs(S)
  PROVE  /\ order \in Seq(S) /\ order # <<>>
         /\ DOMAIN order = 1..Len(order)
  <1>1. Cardinality(S) \in Nat /\ Cardinality(S) # 0
    BY FS_CardinalityType, FS_EmptySet
  <1>2. order \in [1..Cardinality(S) -> S]
    BY DEF SetToSeqs
  <1> QED BY <1>1, <1>2

LEMMA BulkReplaceStep ==
  ASSUME EditInv, NEW r \in Requests, BulkReplaceHeading(r)
  PROVE  EditInv'
  <1>1. PICK from \in Levels, to \in Levels :
          /\ from # to /\ Seen(from) # {}
          /\ \E order \in SetToSeqs(Seen(from)) :
               Goto(r, [at |-> "ready",
                        todo |-> [i \in DOMAIN order |->
                                    [kind |-> "level", page |-> order[i][1],
                                     from |-> from, to |-> to]]])
    BY DEF BulkReplaceHeading
  <1>2. PICK order \in SetToSeqs(Seen(from)) :
               Goto(r, [at |-> "ready",
                        todo |-> [i \in DOMAIN order |->
                                    [kind |-> "level", page |-> order[i][1],
                                     from |-> from, to |-> to]]])
    BY <1>1
  <1>3. Seen(from) \subseteq Pages \X (1..2)
    BY DEF Seen
  <1>4. IsFiniteSet(Seen(from))
    <2>1. IsFiniteSet(Pages) /\ IsFiniteSet(1..2)
      <3>1. IsFiniteSet(Pages)
        BY EditsAssumption
      <3>2. IsFiniteSet(1..2)
        <4>1. 1 \in Int /\ 2 \in Int
          OBVIOUS
        <4> QED BY ONLY <4>1, FS_Interval
      <3> QED BY <3>1, <3>2
    <2>2. IsFiniteSet(Pages \X (1..2))
      BY <2>1, FS_Product
    <2> QED BY <1>3, <2>2, FS_Subset
  <1>5. /\ order \in Seq(Seen(from)) /\ order # <<>> /\ DOMAIN order = 1..Len(order)
    BY <1>1, <1>4, ListOfAll
  <1> DEFINE edit(p) == [kind |-> "level", page |-> p, from |-> from, to |-> to]
             todo == [i \in 1..Len(order) |-> edit(order[i][1])]
  <1>6. Goto(r, [at |-> "ready", todo |-> todo])
    BY <1>2, <1>5
  <1>7. \A p \in Pages : edit(p) \in AllEdits /\ edit(p).page = p
    BY <1>1 DEF AllEdits, Edits
  <1>8. \A i \in 1..Len(order) : order[i][1] \in Pages
    BY <1>3, <1>5
  <1> HIDE DEF edit
  <1>9. /\ todo \in Seq(AllEdits) /\ todo # <<>> /\ Len(todo) = Len(order)
        /\ \A i \in 1..Len(todo) : todo[i].page \in Pages
    <2>1. Len(order) \in Nat /\ Len(order) # 0
      BY <1>5
    <2>2. todo \in [1..Len(order) -> AllEdits]
      BY <1>7, <1>8
    <2>3. todo \in Seq(AllEdits) /\ Len(todo) = Len(order) /\ todo # <<>>
      BY <2>1, <2>2
    <2> QED BY <1>7, <1>8, <2>3
  <1>10. post' = post /\ Free(r, Pages)
    BY DEF BulkReplaceHeading
  <1> HIDE DEF todo
  <1> QED BY <1>6, <1>9, <1>10, TakenUp

LEMMA BulkTrimStep ==
  ASSUME EditInv, NEW r \in Requests, BulkTrimTitles(r)
  PROVE  EditInv'
  <1>1. PICK order \in SetToSeqs(Pages) :
          Goto(r, [at |-> "ready",
                   todo |-> [i \in DOMAIN order |->
                               [kind |-> "trim", page |-> order[i]]]])
    BY DEF BulkTrimTitles
  <1>2. order \in Seq(Pages) /\ order # <<>> /\ DOMAIN order = 1..Len(order)
    BY EditsAssumption, ListOfAll
  <1> DEFINE edit(p) == [kind |-> "trim", page |-> p]
             todo == [i \in 1..Len(order) |-> edit(order[i])]
  <1>3. Goto(r, [at |-> "ready", todo |-> todo])
    BY <1>1, <1>2
  <1>4. \A p \in Pages : edit(p) \in AllEdits /\ edit(p).page = p
    BY DEF AllEdits, TitleEdits
  <1> HIDE DEF edit
  <1>5. /\ todo \in Seq(AllEdits) /\ todo # <<>> /\ Len(todo) = Len(order)
        /\ \A i \in 1..Len(todo) : todo[i].page \in Pages
    <2>1. Len(order) \in Nat /\ Len(order) # 0
      BY <1>2
    <2>2. \A i \in 1..Len(order) : order[i] \in Pages
      BY <1>2
    <2>3. todo \in [1..Len(order) -> AllEdits]
      BY <1>4, <2>2
    <2>4. todo \in Seq(AllEdits) /\ Len(todo) = Len(order) /\ todo # <<>>
      BY <2>1, <2>3
    <2> QED BY <1>4, <2>2, <2>4
  <1>6. post' = post /\ Free(r, Pages)
    BY DEF BulkTrimTitles
  <1> HIDE DEF todo
  <1> QED BY <1>3, <1>5, <1>6, TakenUp

LEMMA InHand ==
  ASSUME EditInv, NEW r \in Requests, req[r].at \in Steps
  PROVE  /\ IsWork(req[r]) /\ PagesOf(req[r]) = {req[r].todo[i].page : i \in 1..Len(req[r].todo)}
         /\ Doing(r).page \in Pages
  BY DoingOne, StatesApart DEF EditInv

(* A request goes to another step of the edit in hand.                     *)
LEMMA SameEdit ==
  ASSUME EditInv, NEW r \in Requests, req[r].at \in Steps, NEW v, IsWork(v),
         v.todo = req[r].todo, Goto(r, v)
  PROVE  /\ Shape' /\ Apart' /\ req'[r] = v
         /\ \A q \in Requests \ {r} : req'[q] = req[q]
  <1>1. PagesOf(v) = PagesOf(req[r])
    <2>1. PagesOf(v) = {v.todo[i].page : i \in 1..Len(v.todo)}
      BY StatesApart
    <2> QED BY <2>1, InHand
  <1> QED BY <1>1, StaysOn DEF EditInv, IsState

LEMMA SameEditStep ==
  ASSUME EditInv, NEW r \in Requests, req[r].at \in Steps, NEW v, IsWork(v),
         v.todo = req[r].todo, Goto(r, v), post' = post,
         v.at = "write" => v.copy = Edited(Doing(r), post[Doing(r).page])
  PROVE  EditInv'
  <1>1. /\ Shape' /\ Apart' /\ req'[r] = v
        /\ \A q \in Requests \ {r} : req'[q] = req[q]
    BY SameEdit
  <1>2. Fresh'
    <2> SUFFICES ASSUME NEW q \in Requests, req'[q].at = "write"
                 PROVE  req'[q].copy = Edited(Head(req'[q].todo), post[Head(req'[q].todo).page])
      BY DEF EditInv, Fresh, At, Doing
    <2>1. CASE q = r
      BY <1>1, <2>1 DEF Doing
    <2>2. CASE q # r
      BY <1>1, <2>2 DEF EditInv, Fresh, At, Doing
    <2> QED BY <2>1, <2>2
  <1> QED BY <1>1, <1>2 DEF EditInv

(* The edit in hand ends, and the post was left alone.                     *)
LEMMA NextOneStep ==
  ASSUME EditInv, NEW r \in Requests, req[r].at \in Steps, NextEdit(r), post' = post
  PROVE  EditInv'
  <1>1. /\ Shape' /\ Apart' /\ req'[r].at # "write"
        /\ \A q \in Requests \ {r} : req'[q] = req[q]
    BY NextOne DEF EditInv
  <1> QED BY <1>1, FreshKept DEF EditInv

LEMMA ReadPostStep ==
  ASSUME EditInv, NEW r \in Requests, ReadPost(r)
  PROVE  EditInv'
  <1>1. req[r].at \in Steps /\ post' = post
    BY DEF ReadPost, At, Steps
  <1> DEFINE copy == Edited(Doing(r), post[Doing(r).page])
             write == [at |-> "write", todo |-> req[r].todo, copy |-> copy]
             areas == [at |-> "areas", todo |-> req[r].todo]
  <1>2. NextEdit(r) \/ Goto(r, write) \/ Goto(r, areas)
    BY DEF ReadPost
  <1>3. IsWork(write) /\ write.todo = req[r].todo /\ write.copy = copy
    BY <1>1, InHand DEF IsWork, Steps
  <1>4. IsWork(areas) /\ areas.todo = req[r].todo /\ areas.at # "write"
    BY <1>1, InHand DEF IsWork, Steps
  <1> HIDE DEF write, areas
  <1>5. CASE NextEdit(r)
    BY <1>1, <1>5, NextOneStep
  <1>6. CASE Goto(r, write)
    BY <1>1, <1>3, <1>6, SameEditStep
  <1>7. CASE Goto(r, areas)
    BY <1>1, <1>4, <1>7, SameEditStep
  <1> QED BY <1>2, <1>5, <1>6, <1>7

(* What is written is the edit of what the post holds, and no other        *)
(* request holds a copy of that post.                                      *)
LEMMA WritePostStep ==
  ASSUME EditInv, NEW r \in Requests, WritePost(r)
  PROVE  /\ EditInv'
         /\ At(r, "write")
         /\ \A p \in Pages : post'[p] # post[p] => post'[p] = Edited(Doing(r), post[p])
  <1>1. req[r].at \in Steps /\ At(r, "write")
    BY DEF WritePost, At, Steps
  <1>2. /\ Shape' /\ Apart' /\ req'[r].at # "write"
        /\ \A q \in Requests \ {r} : req'[q] = req[q]
    BY <1>1, NextOne DEF EditInv, WritePost
  <1>3. req[r].copy = Edited(Doing(r), post[Doing(r).page]) /\ Doing(r).page \in Pages
    BY <1>1, InHand DEF EditInv, Fresh
  <1>4. /\ post' = [p \in Pages |-> post'[p]]
        /\ \A p \in Pages : p # Doing(r).page => post'[p] = post[p]
        /\ post'[Doing(r).page] \in {post[Doing(r).page], req[r].copy}
    BY <1>3 DEF WritePost, Sent, EditInv, Fresh
  <1>5. Fresh'
    <2> SUFFICES ASSUME NEW q \in Requests, req'[q].at = "write"
                 PROVE  req'[q].copy = Edited(Head(req'[q].todo), post'[Head(req'[q].todo).page])
      BY <1>4 DEF Fresh, At, Doing
    <2>1. q # r /\ req'[q] = req[q]
      BY <1>2
    <2>2. Doing(q).page \in PagesOf(req[q]) \cap Pages /\ Doing(r).page \in PagesOf(req[r])
      BY <1>1, <2>1, DoingOne DEF EditInv, Steps
    <2>3. Doing(q).page # Doing(r).page
      BY <2>1, <2>2 DEF EditInv, Apart
    <2>4. req[q].copy = Edited(Doing(q), post[Doing(q).page])
      BY <2>1 DEF EditInv, Fresh, At
    <2>5. post'[Doing(q).page] = post[Doing(q).page]
      BY <1>4, <2>2, <2>3
    <2> QED BY <2>1, <2>4, <2>5 DEF Doing
  <1> QED BY <1>1, <1>2, <1>3, <1>4, <1>5 DEF EditInv

LEMMA ReadSharedStep ==
  ASSUME EditInv, NEW r \in Requests, ReadShared(r)
  PROVE  EditInv'
  <1>1. req[r].at \in Steps /\ post' = post
    BY DEF ReadShared, At, Steps
  <1> DEFINE v == [req[r] EXCEPT !.at = "write area"]
  <1>2. NextEdit(r) \/ Goto(r, v)
    BY DEF ReadShared
  <1>3. IsWork(v) /\ v.todo = req[r].todo /\ v.at # "write"
    BY <1>1, InHand DEF IsWork, Steps
  <1> HIDE DEF v
  <1> QED BY <1>1, <1>2, <1>3, NextOneStep, SameEditStep

LEMMA ReadTitleStep ==
  ASSUME EditInv, NEW r \in Requests, ReadTitle(r)
  PROVE  EditInv'
  <1>1. req[r].at \in Steps /\ post' = post
    BY DEF ReadTitle, At, Steps
  <1>2. CASE NextEdit(r)
    BY <1>1, <1>2, NextOneStep
  <1>3. ASSUME NEW value,
               Goto(r, [at |-> "write title", todo |-> req[r].todo, value |-> value])
        PROVE  EditInv'
    <2> DEFINE v == [at |-> "write title", todo |-> req[r].todo, value |-> value]
    <2>1. Goto(r, v)
      BY <1>3
    <2>2. IsWork(v) /\ v.todo = req[r].todo /\ v.at # "write"
      BY <1>1, InHand DEF IsWork, Steps
    <2> HIDE DEF v
    <2> QED BY <1>1, <2>1, <2>2, SameEditStep
  <1> QED BY <1>2, <1>3 DEF ReadTitle

LEMMA OtherWriteStep ==
  ASSUME EditInv, NEW r \in Requests, WriteShared(r) \/ WriteTitle(r)
  PROVE  EditInv'
  <1>1. req[r].at \in Steps /\ post' = post /\ NextEdit(r)
    BY DEF WriteShared, WriteTitle, At, Steps
  <1> QED BY <1>1, NextOneStep

LEMMA VerifyStep ==
  ASSUME EditInv, NEW r \in Requests, VerifyBrokenLinks(r) \/ ClearVerified(r)
  PROVE  EditInv'
  <1>1. PICK v : /\ Goto(r, v) /\ post' = post
                 /\ v = Idle \/ v = [at |-> "verify", ok |-> v.ok]
    BY DEF VerifyBrokenLinks, ClearVerified
  <1>2. PagesOf(v) = {} /\ v.at # "write"
    BY <1>1, StatesApart
  <1>3. /\ Shape' /\ Apart' /\ req'[r] = v
        /\ \A q \in Requests \ {r} : req'[q] = req[q]
    BY <1>1, <1>2, StaysOn DEF EditInv, IsState
  <1> QED BY <1>1, <1>2, <1>3, FreshKept DEF EditInv

LEMMA EditInvInit == EditsInit => EditInv
  <1> SUFFICES ASSUME EditsInit PROVE EditInv
    OBVIOUS
  <1>1. \A r \in Requests : req[r] = Idle /\ PagesOf(Idle) = {} /\ Idle.at = "idle"
    BY StatesApart DEF EditsInit, Idle
  <1>2. Shape
    BY <1>1 DEF Shape, IsState, EditsInit
  <1>3. Apart
    BY <1>1 DEF Apart
  <1>4. Fresh
    BY <1>1 DEF Fresh, At, EditsInit
  <1> QED BY <1>2, <1>3, <1>4 DEF EditInv

EditsKept ==
  \A p \in Pages :
    post'[p] # post[p] =>
      \E r \in Requests : At(r, "write") /\ post'[p] = Edited(Doing(r), post[p])

LEMMA EditInvNext == EditInv /\ [EditsNext]_editVars => EditInv' /\ EditsKept
  <1> SUFFICES ASSUME EditInv, [EditsNext]_editVars PROVE EditInv' /\ EditsKept
    OBVIOUS
  <1>1. ASSUME NEW r \in Requests, EditOne(r) PROVE EditInv' /\ EditsKept
    BY <1>1, EditOneStep DEF EditOne, EditsKept
  <1>2. ASSUME NEW r \in Requests, BulkReplaceHeading(r) PROVE EditInv' /\ EditsKept
    BY <1>2, BulkReplaceStep DEF BulkReplaceHeading, EditsKept
  <1>3. ASSUME NEW r \in Requests, BulkTrimTitles(r) PROVE EditInv' /\ EditsKept
    BY <1>3, BulkTrimStep DEF BulkTrimTitles, EditsKept
  <1>4. ASSUME NEW r \in Requests, ReadPost(r) PROVE EditInv' /\ EditsKept
    BY <1>4, ReadPostStep DEF ReadPost, EditsKept
  <1>5. ASSUME NEW r \in Requests, WritePost(r) PROVE EditInv' /\ EditsKept
    BY <1>5, WritePostStep DEF EditsKept
  <1>6. ASSUME NEW r \in Requests, ReadShared(r) PROVE EditInv' /\ EditsKept
    BY <1>6, ReadSharedStep DEF ReadShared, EditsKept
  <1>7. ASSUME NEW r \in Requests, WriteShared(r) \/ WriteTitle(r)
        PROVE  EditInv' /\ EditsKept
    BY <1>7, OtherWriteStep DEF WriteShared, WriteTitle, EditsKept
  <1>8. ASSUME NEW r \in Requests, ReadTitle(r) PROVE EditInv' /\ EditsKept
    BY <1>8, ReadTitleStep DEF ReadTitle, EditsKept
  <1>9. ASSUME NEW r \in Requests, VerifyBrokenLinks(r) \/ ClearVerified(r)
        PROVE  EditInv' /\ EditsKept
    BY <1>9, VerifyStep DEF VerifyBrokenLinks, ClearVerified, EditsKept
  <1>10. CASE Repair \/ UNCHANGED editVars
    BY <1>10 DEF Repair, editVars, EditInv, Shape, Apart, Fresh, At, Doing, EditsKept
  <1> QED BY <1>1, <1>2, <1>3, <1>4, <1>5, <1>6, <1>7, <1>8, <1>9, <1>10 DEF EditsNext

(* As long as nobody edits one post twice at a time, what is written to a  *)
(* post is the edit that was asked for on top of what the post holds, for  *)
(* any pages, links, levels and requests (api/services/wp_heading/edit.py).*)
THEOREM NoEditUndoesAnother == EditsSpec => EditsOnTop
  <1>1. EditInv /\ [EditsNext]_editVars => [EditsKept]_editVars
    BY EditInvNext
  <1> QED BY <1>1, EditInvInit, EditInvNext, PTL DEF EditsSpec, EditsOnTop, EditsKept

-----------------------------------------------------------------------------
(* Findings of dead links.                                                 *)

(* No two targets that were dead at the crawl answer with one code.        *)
OwnCodes ==
  \A t \in DeadAtFirst : \A u \in DeadAtFirst : CodeOf[t] = CodeOf[u] => t = u

(* What a verification is about to clear answered, and still does.         *)
LinkInv ==
  /\ dead \subseteq DeadAtFirst
  /\ findings \subseteq Pages \X DeadAtFirst
  /\ \A r \in Requests : At(r, "verify") => req[r].ok \cap dead = {}

LEMMA LinkInit == EditsInit => LinkInv /\ DeadLinksReported
  <1> SUFFICES ASSUME EditsInit PROVE LinkInv /\ DeadLinksReported
    OBVIOUS
  <1>1. /\ dead = DeadAtFirst /\ \A p \in Pages : post[p].links = DeadAtFirst
    BY DEF EditsInit
  <1>2. findings = {f \in Pages \X Links : f[2] \in DeadAtFirst}
    BY <1>1 DEF EditsInit
  <1>3. findings = Pages \X DeadAtFirst
    BY <1>2, EditsAssumption
  <1>4. \A r \in Requests : ~At(r, "verify")
    BY DEF EditsInit, At, Idle
  <1> QED BY <1>1, <1>3, <1>4 DEF LinkInv, DeadLinksReported

(* A step that leaves the findings alone and verifies nothing.             *)
LEMMA LinksKept ==
  ASSUME LinkInv, DeadLinksReported, dead' \in SUBSET dead, findings' = findings,
         \A r \in Requests :
           req'[r].at = "verify" => req'[r].ok \cap dead = {}
  PROVE  LinkInv' /\ DeadLinksReported'
  BY DEF LinkInv, DeadLinksReported, At

LEMMA LinkStep ==
  OwnCodes /\ EditInv /\ LinkInv /\ DeadLinksReported /\ [EditsNext]_editVars
    => LinkInv' /\ DeadLinksReported'
  <1> SUFFICES ASSUME OwnCodes, EditInv, LinkInv, DeadLinksReported, [EditsNext]_editVars
               PROVE  LinkInv' /\ DeadLinksReported'
    OBVIOUS
  <1>0. req = [r \in Requests |-> req[r]]
    BY DEF EditInv, Shape
  <1>1. ASSUME NEW r \in Requests,
               EditOne(r) \/ BulkReplaceHeading(r) \/ BulkTrimTitles(r)
        PROVE  LinkInv' /\ DeadLinksReported'
    <2>1. \E todo : Goto(r, [at |-> "ready", todo |-> todo])
      BY <1>1 DEF EditOne, BulkReplaceHeading, BulkTrimTitles
    <2>2. dead' = dead /\ findings' = findings
      BY <1>1 DEF EditOne, BulkReplaceHeading, BulkTrimTitles
    <2> QED BY <1>0, <2>1, <2>2, LinksKept DEF Goto, LinkInv, At
  <1>2. ASSUME NEW r \in Requests,
               \/ ReadPost(r) \/ WritePost(r) \/ ReadShared(r)
               \/ WriteShared(r) \/ ReadTitle(r) \/ WriteTitle(r)
        PROVE  LinkInv' /\ DeadLinksReported'
    <2>1. req[r].at \in Steps /\ dead' = dead /\ findings' = findings
      BY <1>2 DEF ReadPost, WritePost, ReadShared, WriteShared, ReadTitle, WriteTitle, At, Steps
    <2>2. "at" \in DOMAIN req[r]
      BY <2>1, InHand DEF IsWork
    <2>3. /\ \A q \in Requests \ {r} : req'[q] = req[q]
          /\ req'[r].at # "verify"
      <3>1. CASE NextEdit(r)
        BY <2>1, <3>1, NextOne DEF EditInv
      <3>2. ASSUME NEW v, Goto(r, v), v.at # "verify"
            PROVE  /\ \A q \in Requests \ {r} : req'[q] = req[q]
                   /\ req'[r].at # "verify"
        BY <1>0, <3>2 DEF Goto
      <3>3. CASE ReadPost(r)
        <4>1. \/ NextEdit(r)
              \/ Goto(r, [at |-> "areas", todo |-> req[r].todo])
              \/ Goto(r, [at |-> "write", todo |-> req[r].todo,
                         copy |-> Edited(Doing(r), post[Doing(r).page])])
          BY <3>3 DEF ReadPost
        <4> QED BY <3>1, <3>2, <4>1
      <3>4. CASE ReadShared(r)
        <4>1. NextEdit(r) \/ Goto(r, [req[r] EXCEPT !.at = "write area"])
          BY <3>4 DEF ReadShared
        <4>2. [req[r] EXCEPT !.at = "write area"].at # "verify"
          BY <2>2
        <4> QED BY <3>1, <3>2, <4>1, <4>2
      <3>5. CASE ReadTitle(r)
        <4>1. \/ NextEdit(r)
              \/ \E v : Goto(r, [at |-> "write title", todo |-> req[r].todo, value |-> v])
          BY <3>5 DEF ReadTitle
        <4> QED BY <3>1, <3>2, <4>1
      <3>6. CASE WritePost(r) \/ WriteShared(r) \/ WriteTitle(r)
        BY <3>1, <3>6 DEF WritePost, WriteShared, WriteTitle
      <3> QED BY <1>2, <3>3, <3>4, <3>5, <3>6
    <2> QED BY <2>1, <2>3, LinksKept DEF LinkInv, At
  <1>3. ASSUME NEW r \in Requests, VerifyBrokenLinks(r)
        PROVE  LinkInv' /\ DeadLinksReported'
    <2> DEFINE ok == {f[2] : f \in findings} \ dead
    <2>1. req' = [req EXCEPT ![r] = [at |-> "verify", ok |-> ok]] /\ ok \cap dead = {}
      BY <1>3 DEF VerifyBrokenLinks, Goto
    <2>2. dead' = dead /\ findings' = findings
      BY <1>3 DEF VerifyBrokenLinks
    <2> HIDE DEF ok
    <2> QED BY <1>0, <2>1, <2>2, LinksKept DEF LinkInv, At
  <1>4. ASSUME NEW r \in Requests, ClearVerified(r)
        PROVE  LinkInv' /\ DeadLinksReported'
    <2>1. /\ req[r].ok \cap dead = {} /\ dead' = dead
          /\ findings' = findings \ Cleared(req[r].ok)
      BY <1>4 DEF ClearVerified, LinkInv, At
    <2>2. ASSUME NEW p \in Pages, NEW t \in dead
          PROVE  <<p, t>> \notin Cleared(req[r].ok)
      <3> SUFFICES ASSUME NEW g \in findings, g[2] \in req[r].ok, CodeOf[g[2]] = CodeOf[t]
                   PROVE  FALSE
        BY DEF Cleared
      <3>1. g[2] \in DeadAtFirst /\ t \in DeadAtFirst
        BY DEF LinkInv
      <3>2. g[2] = t
        BY <3>1 DEF OwnCodes
      <3> QED BY <2>1, <3>2
    <2>3. DeadLinksReported'
      BY <2>1, <2>2 DEF DeadLinksReported
    <2>4. req' = [req EXCEPT ![r] = Idle] /\ Idle.at = "idle"
      BY <1>4 DEF ClearVerified, Goto, Idle
    <2>5. \A q \in Requests : req'[q].at = "verify" => req'[q] = req[q]
      BY <1>0, <2>4
    <2> QED BY <2>1, <2>3, <2>5 DEF LinkInv, At
  <1>5. CASE Repair
    <2>1. dead' \subseteq dead /\ findings' = findings /\ req' = req
      BY <1>5 DEF Repair
    <2> QED BY <2>1, LinksKept DEF LinkInv, At
  <1>6. CASE UNCHANGED editVars
    BY <1>6, LinksKept DEF editVars, LinkInv, At
  <1> QED BY <1>1, <1>2, <1>3, <1>4, <1>5, <1>6 DEF EditsNext

(* A link that was dead at the crawl and still is keeps its finding, when  *)
(* verifications, repairs and edits overlap in any way, as long as no two  *)
(* dead targets have one code (verify_broken_links_endpoint).              *)
THEOREM DeadLinksKeepFindings ==
  ASSUME OwnCodes
  PROVE  EditsSpec => []DeadLinksReported
  <1> QED BY OwnCodes, EditInvInit, EditInvNext, LinkInit, LinkStep, PTL DEF EditsSpec

=============================================================================
