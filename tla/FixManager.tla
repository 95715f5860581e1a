----------------------------- MODULE FixManager -----------------------------
(***************************************************************************)
(* The Fix Manager: proposals for the pairs of a page and a field that     *)
(* have a fixable finding, api/routers/fix_manager_router.py, their rows   *)
(* in the fixes table, and the panel of the frontend that loads them batch *)
(* by batch, has them reviewed and applies them to WordPress.              *)
(*                                                                         *)
(* A slot is such a pair.  Its row is identified by the batch request that *)
(* created it, since every request draws fresh ids.                        *)
(***************************************************************************)
EXTENDS Naturals, FiniteSets

CONSTANTS
  Slots,
  FindingRank,    \* the order of get_all_issues
  RowRank,        \* the order by page and field of get_fixes
  Proposed,       \* the value _auto_propose makes for each slot
  Typed,          \* values the operator types
  Blank,          \* an empty proposal
  Labelled,       \* slots whose proposal is a label and not what is written
  Findings,       \* the slots with a finding initially, by what waits is
  Unresolvable,   \* the sets of slots whose pages may match no post, likewise
  Batch,          \* BATCH_SIZE of the panel
  Requests,       \* requests that may overlap
  MaxGenerations  \* bound on the batch requests

Values == Typed \cup {Blank} \cup {Proposed[s] : s \in Slots}

ASSUME ConstantsAssumption ==
  /\ IsFiniteSet(Slots) /\ Batch \in Nat \ {0} /\ MaxGenerations \in Nat
  /\ FindingRank \in [Slots -> Nat] /\ RowRank \in [Slots -> Nat]
  /\ \A s, t \in Slots : RowRank[s] = RowRank[t] => s = t
  /\ \A s, t \in Slots : FindingRank[s] = FindingRank[t] => s = t
  /\ Blank \notin Typed /\ Labelled \subseteq Slots
  /\ \A s \in Labelled : Proposed[s] # Blank
  /\ Findings \in [BOOLEAN -> SUBSET Slots]
  /\ Unresolvable \in [BOOLEAN -> SUBSET SUBSET Slots]

VARIABLES
  waits,      \* the operator sends one request at a time; chosen initially
  lost,       \* slots whose page resolves to no post; chosen initially
  found,      \* slots with a fixable finding
  shifted,    \* the findings changed since the first batch was asked for
  rows,       \* the fixes table
  generation, \* batch requests so far
  site,       \* the field of each slot in WordPress
  req,        \* where each request is
  panel       \* what the frontend shows

vars == <<waits, lost, found, shifted, rows, generation, site, req, panel>>
environment == <<waits, lost>>

Reviewed == {"pending", "approved", "skipped"}
NoRow == [status |-> "none"]
Row == [gen : 1..MaxGenerations, value : Values,
        status : Reviewed \cup {"applied", "failed"}]
Id == [slot : Slots, gen : 1..MaxGenerations]
Copy == [slot : Slots, gen : 1..MaxGenerations, value : Values]

Idle == [at |-> "idle"]
Request ==
  {Idle, [at |-> "reload"]}
  \cup [at : {"list"}, gen : 1..MaxGenerations, offset : Nat]
  \cup [at : {"propose"}, gen : 1..MaxGenerations, offset : Nat,
        batch : SUBSET Slots, more : BOOLEAN]
  \cup [at : {"update", "reply"}, fix : Id, value : Values, status : Reviewed]
  \cup [at : {"login", "send", "applied", "failed"}, todo : SUBSET Copy]

TypeOK ==
  /\ waits \in BOOLEAN /\ lost \subseteq Slots /\ found \subseteq Slots
  /\ shifted \in BOOLEAN
  /\ rows \in [Slots -> Row \cup {NoRow}]
  /\ generation \in 0..MaxGenerations
  /\ site \in [Slots -> Values]
  /\ req \in [Requests -> Request]
  /\ panel \in [shown : SUBSET Id, applied : SUBSET Id, next : Nat,
                more : BOOLEAN, error : BOOLEAN, loaded : BOOLEAN]

Init ==
  /\ waits \in BOOLEAN /\ lost \in Unresolvable[waits]
  /\ found = Findings[waits] /\ shifted = FALSE
  /\ rows = [s \in Slots |-> NoRow] /\ generation = 0
  /\ site = [s \in Slots |-> Blank]
  /\ req = [r \in Requests |-> Idle]
  /\ panel = [shown |-> {}, applied |-> {}, next |-> 0, more |-> FALSE,
              error |-> FALSE, loaded |-> FALSE]

Free(r) == req[r] = Idle /\ (waits => \A q \in Requests : req[q] = Idle)
Goto(r, there) == req' = [req EXCEPT ![r] = there]

Stored(f) == rows[f.slot] # NoRow /\ rows[f.slot].gen = f.gen
StoredIds == {f \in Id : Stored(f)}

-----------------------------------------------------------------------------
(* The panel loads the proposals                                           *)

(* Mutant of Deleted: the rows of an earlier generation stay.              *)
DeletedNever(offset) == rows

(* Only the first batch deletes the rows.                                  *)
Deleted(offset) == IF offset = 0 THEN [s \in Slots |-> NoRow] ELSE rows

(* POST /generate: the first batch deletes every row before WordPress is   *)
(* asked for anything.                                                     *)
LoadStart(r, offset) ==
  /\ Free(r) /\ generation < MaxGenerations
  /\ offset = 0 \/ (panel.more /\ panel.shown # {} /\ offset = panel.next)
  /\ generation' = generation + 1
  /\ rows' = Deleted(offset)
  /\ shifted' = IF offset = 0 THEN FALSE ELSE shifted
  /\ panel' = IF offset = 0
              THEN [panel EXCEPT !.next = 0, !.more = FALSE, !.error = FALSE,
                                 !.loaded = FALSE]
              ELSE [panel EXCEPT !.error = FALSE]
  /\ Goto(r, [at |-> "list", gen |-> generation + 1, offset |-> offset])
  /\ UNCHANGED <<environment, found, site>>

Load(r) == LoadStart(r, 0) \/ LoadStart(r, panel.next)

(* Mutant of BatchOf: the last slot of each batch is left out.             *)
BatchOfShort(offset) ==
  {s \in found :
     LET before == Cardinality({t \in found : FindingRank[t] < FindingRank[s]})
     IN  offset <= before /\ before < offset + Batch - 1}

(* all_fixable[offset: offset + limit]                                     *)
BatchOf(offset) ==
  {s \in found :
     LET before == Cardinality({t \in found : FindingRank[t] < FindingRank[s]})
     IN  offset <= before /\ before < offset + Batch}

(* The findings are listed anew for every batch.                           *)
LoadList(r) ==
  /\ req[r].at = "list" /\ found # {}
  /\ Goto(r, [at |-> "propose", gen |-> req[r].gen, offset |-> req[r].offset,
              batch |-> BatchOf(req[r].offset),
              more |-> req[r].offset + Batch < Cardinality(found)])
  /\ UNCHANGED <<environment, found, shifted, rows, generation, site, panel>>

LoadNothing(r) ==
  /\ req[r].at = "list" /\ found = {}
  /\ Goto(r, Idle)
  /\ panel' = [panel EXCEPT !.shown = IF req[r].offset = 0 THEN {} ELSE @,
                            !.next = req[r].offset, !.more = FALSE, !.error = TRUE]
  /\ UNCHANGED <<environment, found, shifted, rows, generation, site>>

(* The login, or anything else of WordPress, fails.                        *)
LoadFails(r) ==
  /\ req[r].at = "propose"
  /\ Goto(r, Idle)
  /\ panel' = [panel EXCEPT !.error = TRUE]
  /\ UNCHANGED <<environment, found, shifted, rows, generation, site>>

(* Mutant of Insert: an existing row takes the new proposal.               *)
InsertOrUpdate(proposals, gen) ==
  [s \in Slots |->
     IF s \notin proposals THEN rows[s]
     ELSE IF rows[s] = NoRow
          THEN [gen |-> gen, value |-> Proposed[s], status |-> "pending"]
          ELSE [rows[s] EXCEPT !.value = Proposed[s]]]

(* INSERT OR IGNORE: a pair that has a row keeps it.                       *)
Insert(proposals, gen) ==
  [s \in Slots |->
     IF s \in proposals /\ rows[s] = NoRow
     THEN [gen |-> gen, value |-> Proposed[s], status |-> "pending"]
     ELSE rows[s]]

(* The answer lists the proposals of the batch, stored or ignored, and the *)
(* panel asks for the next one after as many as it was answered.           *)
LoadSave(r) ==
  LET proposals == req[r].batch \ lost
      fresh == {[slot |-> s, gen |-> req[r].gen] : s \in proposals}
  IN
  /\ req[r].at = "propose"
  /\ rows' = Insert(proposals, req[r].gen)
  /\ panel' = [panel EXCEPT
                 !.shown   = IF req[r].offset = 0 THEN fresh ELSE @ \cup fresh,
                 !.applied = IF req[r].offset = 0 THEN {} ELSE @,
                 !.next    = req[r].offset + Cardinality(proposals),
                 !.more    = req[r].more,
                 !.loaded  = TRUE]
  /\ Goto(r, Idle)
  /\ UNCHANGED <<environment, found, shifted, generation, site>>

(* GET /{job_id}: when the panel opens, and after an answered application. *)
Open(r) ==
  /\ Free(r)
  /\ Goto(r, [at |-> "reload"])
  /\ panel' = [shown |-> {}, applied |-> {}, next |-> 0, more |-> FALSE,
               error |-> FALSE, loaded |-> FALSE]
  /\ UNCHANGED <<environment, found, shifted, rows, generation, site>>

Reload(r) ==
  /\ req[r].at = "reload"
  /\ panel' = [panel EXCEPT
                 !.shown   = StoredIds,
                 !.applied = {f \in StoredIds : rows[f.slot].status = "applied"}]
  /\ Goto(r, Idle)
  /\ UNCHANGED <<environment, found, shifted, rows, generation, site>>

Clear(r) ==
  /\ Free(r)
  /\ rows' = [s \in Slots |-> NoRow]
  /\ panel' = [panel EXCEPT !.shown = {}, !.applied = {}, !.error = FALSE,
                            !.loaded = FALSE]
  /\ UNCHANGED <<environment, found, shifted, generation, site, req>>

-----------------------------------------------------------------------------
(* The operator reviews a row                                              *)

(* PATCH /{fix_id}; a row that is gone is answered 404.  Skip sends no     *)
(* value, a label cannot be edited and a blank value not be approved.      *)
PatchStart(r, f, v, x) ==
  /\ Free(r) /\ f \in panel.shown \ panel.applied
  /\ f.slot \in Labelled => v = Proposed[f.slot]
  /\ x = "approved" => v # Blank
  /\ Stored(f)
  /\ Goto(r, [at |-> "update", fix |-> f, value |-> v, status |-> x])
  /\ UNCHANGED <<environment, found, shifted, rows, generation, site, panel>>

Patch(r) ==
  \E f \in panel.shown, v \in Values, x \in Reviewed : PatchStart(r, f, v, x)

(* update_fix: UPDATE by id, nothing when the row is gone.                 *)
With(f, status, value) ==
  IF Stored(f)
  THEN [rows EXCEPT ![f.slot] = [@ EXCEPT !.status = status, !.value = value]]
  ELSE rows

PatchUpdate(r) ==
  LET f == req[r].fix
      v == IF req[r].status = "skipped" /\ Stored(f) THEN rows[f.slot].value
           ELSE req[r].value
  IN
  /\ req[r].at = "update"
  /\ rows' = With(f, req[r].status, v)
  /\ Goto(r, [req[r] EXCEPT !.at = "reply"])
  /\ UNCHANGED <<environment, found, shifted, generation, site, panel>>

(* The row is read again for the answer.                                   *)
PatchReply(r) ==
  /\ req[r].at = "reply"
  /\ panel' = IF Stored(req[r].fix) /\ rows[req[r].fix.slot].status = "applied"
              THEN [panel EXCEPT !.applied = @ \cup ({req[r].fix} \cap panel.shown)]
              ELSE panel
  /\ Goto(r, Idle)
  /\ UNCHANGED <<environment, found, shifted, rows, generation, site>>

-----------------------------------------------------------------------------
(* The approved rows are applied                                           *)

(* Mutant of ApprovedCopies: what was approved is read when the row is     *)
(* reached, so that a retried row is sent as well.                         *)
ApprovedCopiesAndFailed ==
  {c \in Copy : Stored(c) /\ rows[c.slot].status \in {"approved", "failed"}
                /\ rows[c.slot].value = c.value}

ApprovedCopies ==
  {c \in Copy : Stored(c) /\ rows[c.slot].status = "approved"
                /\ rows[c.slot].value = c.value}

(* POST /apply reads the approved rows once, before it logs in.            *)
ApplyStart(r) ==
  /\ Free(r) /\ panel.shown # {}
  /\ Goto(r, IF ApprovedCopies = {} THEN [at |-> "reload"]
             ELSE [at |-> "login", todo |-> ApprovedCopies])
  /\ panel' = [panel EXCEPT !.error = FALSE]
  /\ UNCHANGED <<environment, found, shifted, rows, generation, site>>

ApplyLogin(r) ==
  /\ req[r].at = "login"
  /\ Goto(r, [req[r] EXCEPT !.at = "send"])
  /\ UNCHANGED <<environment, found, shifted, rows, generation, site, panel>>

First(todo, c) ==
  c \in todo /\ \A d \in todo : RowRank[c.slot] <= RowRank[d.slot]

(* What apply_fix writes: a label stands for the value of the plugin.      *)
Written(s, v) == IF s \in Labelled THEN Proposed[s] ELSE v

(* apply_fix for the next row.  A blank value is refused before anything   *)
(* is sent; an answer that is lost counts as a failure, written or not.    *)
ApplySend(r) ==
  /\ req[r].at = "send"
  /\ \E c \in req[r].todo : First(req[r].todo, c) /\
       \/ /\ c.value # Blank \/ c.slot \in Labelled
          /\ site' = [site EXCEPT ![c.slot] = Written(c.slot, c.value)]
          /\ \E there \in {"applied", "failed"} :
               Goto(r, [req[r] EXCEPT !.at = there])
       \/ /\ site' = site
          /\ Goto(r, [req[r] EXCEPT !.at = "failed"])
  /\ UNCHANGED <<environment, found, shifted, rows, generation, panel>>

(* update_fix settles the row, and the first failure ends the loop.        *)
ApplyMark(r) ==
  /\ req[r].at \in {"applied", "failed"}
  /\ \E c \in req[r].todo :
       /\ First(req[r].todo, c)
       /\ rows' = With(c, req[r].at, IF Stored(c) THEN rows[c.slot].value ELSE Blank)
       /\ Goto(r, IF req[r].at = "applied" /\ req[r].todo # {c}
                  THEN [at |-> "send", todo |-> req[r].todo \ {c}]
                  ELSE [at |-> "reload"])
  /\ UNCHANGED <<environment, found, shifted, generation, site, panel>>

(* The login or the call of the store raises: 500, and the panel keeps     *)
(* what it showed.                                                         *)
ApplyFails(r) ==
  /\ req[r].at \in {"login", "applied", "failed"}
  /\ Goto(r, Idle)
  /\ panel' = [panel EXCEPT !.error = TRUE]
  /\ UNCHANGED <<environment, found, shifted, rows, generation, site>>

-----------------------------------------------------------------------------
(* A re-scan or a declared fix removes a finding.                          *)
FindingGoes ==
  /\ \E s \in found : found' = found \ {s}
  /\ shifted' = TRUE
  /\ UNCHANGED <<environment, rows, generation, site, req, panel>>

(* The process dies; what it committed stays.                              *)
Crash ==
  /\ \E r \in Requests : req[r] # Idle
  /\ req' = [r \in Requests |-> Idle]
  /\ panel' = [panel EXCEPT !.error = TRUE]
  /\ UNCHANGED <<environment, found, shifted, rows, generation, site>>

Serve(r) ==
  \/ LoadList(r) \/ LoadNothing(r) \/ LoadFails(r) \/ LoadSave(r) \/ Reload(r)
  \/ PatchUpdate(r) \/ PatchReply(r)
  \/ ApplyLogin(r) \/ ApplySend(r) \/ ApplyMark(r) \/ ApplyFails(r)

Next ==
  \/ \E r \in Requests :
       Serve(r) \/ Load(r) \/ Open(r) \/ Clear(r) \/ Patch(r) \/ ApplyStart(r)
  \/ FindingGoes
  \/ Crash

Spec == Init /\ [][Next]_vars

-----------------------------------------------------------------------------
(* However requests overlap, a row becomes approved, or another value is   *)
(* approved, only by the operator's request for that value: neither a      *)
(* later batch nor an application approves anything (save_fixes).          *)
ApprovedByOperator ==
  [][\A s \in Slots :
       rows'[s].status = "approved" /\ rows'[s] # rows[s] =>
         \E r \in Requests :
           /\ req[r].at = "update" /\ req[r].status = "approved"
           /\ req[r].fix = [slot |-> s, gen |-> rows'[s].gen]
           /\ req[r].value = rows'[s].value]_vars

Settled == \A r \in Requests : req[r] = Idle

(* With an operator who waits and pages that all resolve, every proposal   *)
(* the panel shows without an error is a row: it can be approved, and is   *)
(* applied when it is.                                                     *)
ShownIsStored ==
  waits /\ lost = {} /\ Settled /\ ~panel.error => panel.shown \subseteq StoredIds

(* Once the last batch is loaded, every fixable finding whose page         *)
(* resolves is shown, if none changed meanwhile; and when every page       *)
(* resolves, the panel does not stop before it: the offsets of the batches *)
(* neither skip nor stop short (fix_manager_router.py:55-57).              *)
AllLoaded ==
  waits /\ Settled /\ ~panel.error /\ ~shifted /\ panel.loaded
  /\ (~panel.more \/ (lost = {} /\ panel.shown = {}))
  => found \ lost \subseteq {f.slot : f \in panel.shown}

(* The Fix Manager implements what it promises for each pair.              *)
statusOf == [s \in Slots |-> rows[s].status]
valueOf == [s \in Slots |-> IF rows[s] = NoRow THEN Blank ELSE Written(s, rows[s].value)]

Lifecycle == INSTANCE FixLifecycle
               WITH exact <- waits, status <- statusOf, value <- valueOf
LifecycleSpec == Lifecycle!Spec

=============================================================================
