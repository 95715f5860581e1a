-------------------------- MODULE FixManagerProofs --------------------------
(***************************************************************************)
(* Proofs about FixManager for any pages, values, batch size and overlap   *)
(* of requests: the types, that only the operator approves, that the rows  *)
(* and the site follow FixLifecycle, and that the batches of an operator   *)
(* who waits reach every finding and show only what is stored.             *)
(***************************************************************************)
EXTENDS FixManager, TLAPS, FiniteSetTheorems, WellFoundedInduction

-----------------------------------------------------------------------------
(* Types                                                                   *)

(* What a request knows, by where it is.                                   *)
LEMMA RequestFields ==
  ASSUME TypeOK, NEW r \in Requests
  PROVE  /\ req[r].at = "list" =>
              req[r].gen \in 1..MaxGenerations /\ req[r].offset \in Nat
         /\ req[r].at = "propose" =>
              /\ req[r].gen \in 1..MaxGenerations /\ req[r].offset \in Nat
              /\ req[r].batch \subseteq Slots /\ req[r].more \in BOOLEAN
         /\ req[r].at \in {"update", "reply"} =>
              req[r].fix \in Id /\ req[r].value \in Values /\ req[r].status \in Reviewed
         /\ req[r].at \in {"login", "send", "applied", "failed"} =>
              req[r].todo \subseteq Copy
BY DEF TypeOK, Request, Idle

LEMMA ValuesHas ==
  /\ Blank \in Values
  /\ \A s \in Slots : Proposed[s] \in Values
BY DEF Values

LEMMA TypeInit == Init => TypeOK
<1> SUFFICES ASSUME Init
             PROVE  TypeOK
  OBVIOUS
<1>1. lost \subseteq Slots /\ found \subseteq Slots
  BY ConstantsAssumption DEF Init
<1>2. req \in [Requests -> Request]
  BY DEF Init, Request
<1>3. generation \in 0..MaxGenerations
  BY ConstantsAssumption DEF Init
<1>7. waits \in BOOLEAN /\ shifted \in BOOLEAN
  BY DEF Init
<1>4. rows \in [Slots -> Row \cup {NoRow}]
  BY DEF Init
<1>6. site \in [Slots -> Values]
  BY ValuesHas DEF Init
<1>5. panel \in [shown : SUBSET Id, applied : SUBSET Id, next : Nat,
                 more : BOOLEAN, error : BOOLEAN, loaded : BOOLEAN]
  BY DEF Init
<1> QED BY <1>1, <1>2, <1>3, <1>4, <1>5, <1>6, <1>7 DEF TypeOK

LEMMA BatchType ==
  ASSUME TypeOK, NEW n \in Nat
  PROVE  BatchOf(n) \subseteq Slots
BY DEF BatchOf, TypeOK

LEMMA LoadStartType ==
  ASSUME TypeOK, NEW r \in Requests, NEW n \in {0, panel.next}, LoadStart(r, n)
  PROVE  TypeOK'
<1>1. n \in Nat /\ generation + 1 \in 1..MaxGenerations
  BY ConstantsAssumption DEF TypeOK, LoadStart
<1>2. [at |-> "list", gen |-> generation + 1, offset |-> n] \in Request
  BY <1>1 DEF Request
<1>3. req' \in [Requests -> Request]
  BY <1>2 DEF LoadStart, Goto, TypeOK
<1>4. rows' \in [Slots -> Row \cup {NoRow}]
  BY DEF LoadStart, Deleted, TypeOK
<1>5. panel' \in [shown : SUBSET Id, applied : SUBSET Id, next : Nat,
                  more : BOOLEAN, error : BOOLEAN, loaded : BOOLEAN]
  BY DEF LoadStart, TypeOK
<1>6. shifted' \in BOOLEAN /\ UNCHANGED <<environment, found, site>>
  BY DEF LoadStart, TypeOK
<1>7. generation' \in 0..MaxGenerations
  BY <1>1, ConstantsAssumption DEF LoadStart
<1> QED BY <1>3, <1>4, <1>5, <1>6, <1>7 DEF TypeOK, environment

LEMMA LoadListType ==
  ASSUME TypeOK, NEW r \in Requests, LoadList(r)
  PROVE  TypeOK'
<1>1. req[r].gen \in 1..MaxGenerations /\ req[r].offset \in Nat
  BY RequestFields DEF LoadList
<1>2. BatchOf(req[r].offset) \subseteq Slots
  BY <1>1, BatchType
<1>3. (req[r].offset + Batch < Cardinality(found)) \in BOOLEAN
  OBVIOUS
<1>4. [at |-> "propose", gen |-> req[r].gen, offset |-> req[r].offset,
       batch |-> BatchOf(req[r].offset),
       more |-> req[r].offset + Batch < Cardinality(found)] \in Request
  BY <1>1, <1>2, <1>3 DEF Request
<1>5. req' \in [Requests -> Request]
  BY <1>4 DEF LoadList, Goto, TypeOK
<1> QED BY <1>5 DEF LoadList, TypeOK, environment

LEMMA InsertType ==
  ASSUME TypeOK, NEW S \in SUBSET Slots, NEW g \in 1..MaxGenerations
  PROVE  Insert(S, g) \in [Slots -> Row \cup {NoRow}]
<1>1. ASSUME NEW s \in Slots
      PROVE  [gen |-> g, value |-> Proposed[s], status |-> "pending"] \in Row
  BY ValuesHas DEF Row, Reviewed
<1> QED BY <1>1 DEF Insert, TypeOK

LEMMA WithType ==
  ASSUME TypeOK, NEW f, f.slot \in Slots, NEW x \in Reviewed \cup {"applied", "failed"},
         NEW v \in Values
  PROVE  With(f, x, v) \in [Slots -> Row \cup {NoRow}]
<1>1. CASE Stored(f)
  <2>1. rows[f.slot] \in Row
    BY <1>1 DEF Stored, TypeOK
  <2>2. [rows[f.slot] EXCEPT !.status = x, !.value = v] \in Row
    BY <2>1 DEF Row
  <2> QED BY <1>1, <2>2 DEF With, TypeOK
<1>2. CASE ~Stored(f)
  BY <1>2 DEF With, TypeOK
<1> QED BY <1>1, <1>2

LEMMA LoadSaveType ==
  ASSUME TypeOK, NEW r \in Requests, LoadSave(r)
  PROVE  TypeOK'
<1> DEFINE proposals == req[r].batch \ lost
           fresh == {[slot |-> s, gen |-> req[r].gen] : s \in proposals}
<1>1. /\ req[r].gen \in 1..MaxGenerations /\ req[r].offset \in Nat
      /\ proposals \subseteq Slots /\ req[r].more \in BOOLEAN
  BY RequestFields DEF LoadSave
<1>2. fresh \subseteq Id
  BY <1>1 DEF Id
<1>3. req[r].offset + Cardinality(proposals) \in Nat
  BY <1>1, FS_Subset, FS_CardinalityType, ConstantsAssumption
<1>4. /\ rows' = Insert(proposals, req[r].gen)
      /\ panel' = [panel EXCEPT
                     !.shown   = IF req[r].offset = 0 THEN fresh ELSE @ \cup fresh,
                     !.applied = IF req[r].offset = 0 THEN {} ELSE @,
                     !.next    = req[r].offset + Cardinality(proposals),
                     !.more    = req[r].more,
                     !.loaded  = TRUE]
      /\ req' = [req EXCEPT ![r] = Idle]
      /\ UNCHANGED <<environment, found, shifted, generation, site>>
  BY DEF LoadSave, Goto
<1> HIDE DEF fresh, proposals
<1>5. rows' \in [Slots -> Row \cup {NoRow}]
  BY <1>1, <1>4, InsertType
<1>6. panel' \in [shown : SUBSET Id, applied : SUBSET Id, next : Nat,
                  more : BOOLEAN, error : BOOLEAN, loaded : BOOLEAN]
  BY <1>1, <1>2, <1>3, <1>4 DEF TypeOK
<1>7. req' \in [Requests -> Request]
  BY <1>4 DEF TypeOK, Request
<1> QED BY <1>4, <1>5, <1>6, <1>7 DEF TypeOK, environment

(* Steps that touch the panel, the requests or the findings only.          *)
LEMMA QuietType ==
  ASSUME TypeOK, UNCHANGED <<environment, rows, generation, site>>,
         found' \subseteq found, shifted' \in BOOLEAN,
         req' \in [Requests -> Request],
         panel' \in [shown : SUBSET Id, applied : SUBSET Id, next : Nat,
                     more : BOOLEAN, error : BOOLEAN, loaded : BOOLEAN]
  PROVE  TypeOK'
BY DEF TypeOK, environment

LEMMA IdleType ==
  ASSUME TypeOK, NEW r \in Requests, NEW q \in Request, Goto(r, q)
  PROVE  req' \in [Requests -> Request]
BY DEF TypeOK, Goto

LEMMA TypeNext == TypeOK /\ [Next]_vars => TypeOK'
<1> SUFFICES ASSUME TypeOK, [Next]_vars
             PROVE  TypeOK'
  OBVIOUS
<1> DEFINE Panel == [shown : SUBSET Id, applied : SUBSET Id, next : Nat,
                     more : BOOLEAN, error : BOOLEAN, loaded : BOOLEAN]
<1>1. CASE UNCHANGED vars
  BY <1>1 DEF vars, environment, TypeOK
<1>2. ASSUME NEW r \in Requests, Load(r)
      PROVE  TypeOK'
  BY <1>2, LoadStartType DEF Load
<1>3. Idle \in Request /\ [at |-> "reload"] \in Request
  BY DEF Request
<1>4. ASSUME NEW r \in Requests, LoadNothing(r) \/ LoadFails(r) \/ Open(r) \/ Reload(r)
      PROVE  TypeOK'
  <2>1. req' \in [Requests -> Request]
    BY <1>3, <1>4, IdleType DEF LoadNothing, LoadFails, Open, Reload
  <2>2. panel' \in Panel
    <3>1. CASE LoadNothing(r)
      BY <3>1, RequestFields DEF LoadNothing, TypeOK
    <3>2. CASE LoadFails(r)
      BY <3>2 DEF LoadFails, TypeOK
    <3>3. CASE Open(r)
      BY <3>3 DEF Open
    <3>4. CASE Reload(r)
      BY <3>4 DEF Reload, StoredIds, TypeOK
    <3> QED BY <1>4, <3>1, <3>2, <3>3, <3>4
  <2>3. UNCHANGED <<environment, found, shifted, rows, generation, site>>
    BY <1>4 DEF LoadNothing, LoadFails, Open, Reload
  <2>4. found' \subseteq found /\ shifted' \in BOOLEAN
    BY <2>3 DEF TypeOK
  <2> QED BY <2>1, <2>2, <2>3, <2>4, QuietType
<1>5. ASSUME NEW r \in Requests, Clear(r)
      PROVE  TypeOK'
  BY <1>5 DEF Clear, TypeOK, environment
<1>6. ASSUME NEW r \in Requests, Patch(r)
      PROVE  TypeOK'
  <2>1. PICK f \in panel.shown, v \in Values, x \in Reviewed : PatchStart(r, f, v, x)
    BY <1>6 DEF Patch
  <2>2. [at |-> "update", fix |-> f, value |-> v, status |-> x] \in Request
    BY DEF TypeOK, Request
  <2>3. req' \in [Requests -> Request]
    BY <2>1, <2>2, IdleType DEF PatchStart
  <2> QED BY <2>1, <2>3 DEF PatchStart, TypeOK, environment
<1>7. ASSUME NEW r \in Requests, PatchUpdate(r)
      PROVE  TypeOK'
  <2> DEFINE f == req[r].fix
             v == IF req[r].status = "skipped" /\ Stored(f) THEN rows[f.slot].value
                  ELSE req[r].value
  <2>1. f \in Id /\ req[r].value \in Values /\ req[r].status \in Reviewed
    BY <1>7, RequestFields DEF PatchUpdate
  <2>2. f.slot \in Slots
    BY <2>1 DEF Id
  <2>3. v \in Values
    <3>1. Stored(f) => rows[f.slot] \in Row
      BY <2>2 DEF Stored, TypeOK
    <3> QED BY <2>1, <3>1 DEF Row
  <2>4. rows' = With(f, req[r].status, v)
    BY <1>7 DEF PatchUpdate
  <2>5. rows' \in [Slots -> Row \cup {NoRow}]
    <3> HIDE DEF f, v
    <3> QED BY <2>1, <2>2, <2>3, <2>4, WithType
  <2>6. [req[r] EXCEPT !.at = "reply"] \in Request
    <3>1. req[r] \in [at : {"update", "reply"}, fix : Id, value : Values, status : Reviewed]
      BY <1>7 DEF PatchUpdate, TypeOK, Request, Idle
    <3> QED BY <3>1 DEF Request
  <2>7. req' \in [Requests -> Request]
    BY <1>7, <2>6, IdleType DEF PatchUpdate
  <2> QED BY <1>7, <2>5, <2>7 DEF PatchUpdate, TypeOK, environment
<1>8. ASSUME NEW r \in Requests, PatchReply(r)
      PROVE  TypeOK'
  <2>1. req' \in [Requests -> Request]
    BY <1>3, <1>8, IdleType DEF PatchReply
  <2>2. panel' \in Panel
    BY <1>8, RequestFields DEF PatchReply, TypeOK
  <2> QED BY <1>8, <2>1, <2>2 DEF PatchReply, TypeOK, environment
<1>9. ASSUME NEW r \in Requests, ApplyStart(r)
      PROVE  TypeOK'
  <2>1. [at |-> "login", todo |-> ApprovedCopies] \in Request
    BY DEF ApprovedCopies, Request
  <2>2. req' \in [Requests -> Request]
    BY <1>3, <1>9, <2>1, IdleType DEF ApplyStart
  <2> QED BY <1>9, <2>2 DEF ApplyStart, TypeOK, environment
<1>10. ASSUME NEW r \in Requests, NEW there \in {"send", "applied", "failed"},
              req[r].at \in {"login", "send"}
       PROVE  [req[r] EXCEPT !.at = there] \in Request
  <2>1. req[r] \in [at : {"login", "send", "applied", "failed"}, todo : SUBSET Copy]
    BY <1>10 DEF TypeOK, Request, Idle
  <2> QED BY <2>1 DEF Request
<1>11. ASSUME NEW r \in Requests, ApplyLogin(r)
       PROVE  TypeOK'
  <2>1. req' \in [Requests -> Request]
    BY <1>10, <1>11, IdleType DEF ApplyLogin
  <2> QED BY <1>11, <2>1 DEF ApplyLogin, TypeOK, environment
<1>12. ASSUME NEW r \in Requests, ApplySend(r)
       PROVE  TypeOK'
  <2>1. req[r].at = "send" /\ req[r].todo \subseteq Copy
    BY <1>12, RequestFields DEF ApplySend
  <2>2. PICK c \in req[r].todo :
          \/ /\ site' = [site EXCEPT ![c.slot] = Written(c.slot, c.value)]
             /\ \E there \in {"applied", "failed"} :
                  Goto(r, [req[r] EXCEPT !.at = there])
          \/ /\ site' = site
             /\ Goto(r, [req[r] EXCEPT !.at = "failed"])
    BY <1>12 DEF ApplySend
  <2>3. Written(c.slot, c.value) \in Values
    BY <2>1, ValuesHas DEF Written, Copy
  <2>4. site' \in [Slots -> Values]
    BY <2>2, <2>3 DEF TypeOK
  <2>5. req' \in [Requests -> Request]
    BY <1>10, <2>1, <2>2, IdleType
  <2> QED BY <1>12, <2>4, <2>5 DEF ApplySend, TypeOK, environment
<1>13. ASSUME NEW r \in Requests, ApplyMark(r)
       PROVE  TypeOK'
  <2>1. req[r].at \in {"applied", "failed"} /\ req[r].todo \subseteq Copy
    BY <1>13, RequestFields DEF ApplyMark
  <2>2. PICK c \in req[r].todo :
          /\ rows' = With(c, req[r].at, IF Stored(c) THEN rows[c.slot].value ELSE Blank)
          /\ Goto(r, IF req[r].at = "applied" /\ req[r].todo # {c}
                     THEN [at |-> "send", todo |-> req[r].todo \ {c}]
                     ELSE [at |-> "reload"])
    BY <1>13 DEF ApplyMark
  <2>3. c.slot \in Slots
    BY <2>1 DEF Copy
  <2>4. (IF Stored(c) THEN rows[c.slot].value ELSE Blank) \in Values
    <3>1. Stored(c) => rows[c.slot] \in Row
      BY <2>3 DEF Stored, TypeOK
    <3> QED BY <3>1, ValuesHas DEF Row
  <2>5. rows' \in [Slots -> Row \cup {NoRow}]
    BY <2>1, <2>2, <2>3, <2>4, WithType
  <2>6. [at |-> "send", todo |-> req[r].todo \ {c}] \in Request
    BY <2>1 DEF Request
  <2>7. req' \in [Requests -> Request]
    BY <1>3, <2>2, <2>6, IdleType
  <2> QED BY <1>13, <2>5, <2>7 DEF ApplyMark, TypeOK, environment
<1>14. ASSUME NEW r \in Requests, ApplyFails(r)
       PROVE  TypeOK'
  <2>1. req' \in [Requests -> Request]
    BY <1>3, <1>14, IdleType DEF ApplyFails
  <2> QED BY <1>14, <2>1 DEF ApplyFails, TypeOK, environment
<1>15. CASE FindingGoes
  BY <1>15 DEF FindingGoes, TypeOK, environment
<1>16. CASE Crash
  BY <1>3, <1>16 DEF Crash, TypeOK, environment
<1>17. ASSUME NEW r \in Requests, Serve(r)
       PROVE  TypeOK'
  BY <1>4, <1>7, <1>8, <1>11, <1>12, <1>13, <1>14, <1>17, LoadListType, LoadSaveType
     DEF Serve
<1> QED BY <1>1, <1>2, <1>4, <1>5, <1>6, <1>9, <1>15, <1>16, <1>17 DEF Next

(* Every reachable state of the Fix Manager is well typed (TypeOK).        *)
THEOREM TypeCorrect == Spec => []TypeOK
<1> QED BY TypeInit, TypeNext, PTL DEF Spec

-----------------------------------------------------------------------------
(* Approval                                                                *)

LEMMA StoredIsRow ==
  ASSUME TypeOK, NEW f, f.slot \in Slots, Stored(f)
  PROVE  rows[f.slot] \in Row /\ rows[f.slot].gen = f.gen
BY DEF Stored, TypeOK

(* What a store call leaves of a row.                                      *)
LEMMA WithRow ==
  ASSUME TypeOK, NEW f, f.slot \in Slots, NEW x, NEW v, NEW s \in Slots,
         rows' = With(f, x, v), rows'[s] # rows[s]
  PROVE  /\ s = f.slot /\ Stored(f)
         /\ rows'[s].status = x /\ rows'[s].value = v /\ rows'[s].gen = f.gen
<1>1. Stored(f) /\ rows' = [rows EXCEPT ![f.slot] = [@ EXCEPT !.status = x, !.value = v]]
  BY DEF With
<1>2. s = f.slot
  BY <1>1 DEF TypeOK
<1>3. rows[s] \in Row /\ rows[s].gen = f.gen
  BY <1>1, <1>2, StoredIsRow
<1>4. rows'[s] = [rows[s] EXCEPT !.status = x, !.value = v]
  BY <1>1, <1>2 DEF TypeOK
<1> QED BY <1>1, <1>2, <1>3, <1>4 DEF Row

LEMMA ApprovedStep ==
  ASSUME TypeOK, [Next]_vars,
         NEW s \in Slots, rows'[s].status = "approved", rows'[s] # rows[s]
  PROVE  \E r \in Requests :
           /\ req[r].at = "update" /\ req[r].status = "approved"
           /\ req[r].fix = [slot |-> s, gen |-> rows'[s].gen]
           /\ req[r].value = rows'[s].value
<1>1. ASSUME NEW r \in Requests, NEW n \in {0, panel.next}, LoadStart(r, n)
      PROVE  FALSE
  BY <1>1 DEF LoadStart, Deleted, NoRow
<1>2. ASSUME NEW r \in Requests, Clear(r)
      PROVE  FALSE
  BY <1>2 DEF Clear, NoRow
<1>3. ASSUME NEW r \in Requests, LoadSave(r)
      PROVE  FALSE
  BY <1>3 DEF LoadSave, Insert
<1>4. ASSUME NEW r \in Requests, ApplyMark(r)
      PROVE  FALSE
  <2>1. PICK c \in req[r].todo :
          rows' = With(c, req[r].at, IF Stored(c) THEN rows[c.slot].value ELSE Blank)
    BY <1>4 DEF ApplyMark
  <2>2. c.slot \in Slots
    BY <1>4, RequestFields DEF ApplyMark, Copy
  <2>3. rows'[s].status = req[r].at
    <3> DEFINE v == IF Stored(c) THEN rows[c.slot].value ELSE Blank
    <3>1. rows' = With(c, req[r].at, v)
      BY <2>1
    <3> HIDE DEF v
    <3> QED BY <2>2, <3>1, WithRow
  <2> QED BY <1>4, <2>3 DEF ApplyMark
<1>5. ASSUME NEW r \in Requests, PatchUpdate(r)
      PROVE  /\ req[r].at = "update" /\ req[r].status = "approved"
             /\ req[r].fix = [slot |-> s, gen |-> rows'[s].gen]
             /\ req[r].value = rows'[s].value
  <2> DEFINE f == req[r].fix
             v == IF req[r].status = "skipped" /\ Stored(f) THEN rows[f.slot].value
                  ELSE req[r].value
  <2>1. req[r].at = "update" /\ f \in Id /\ f.slot \in Slots
    BY <1>5, RequestFields DEF PatchUpdate, Id
  <2>2. rows' = With(f, req[r].status, v)
    BY <1>5 DEF PatchUpdate
  <2>3. /\ s = f.slot
        /\ rows'[s].status = req[r].status /\ rows'[s].value = v
        /\ rows'[s].gen = f.gen
    <3> HIDE DEF f, v
    <3> QED BY <2>1, <2>2, WithRow
  <2>4. f = [slot |-> s, gen |-> f.gen]
    <3> HIDE DEF f
    <3> QED BY <2>1, <2>3 DEF Id
  <2> QED BY <2>1, <2>3, <2>4
<1>6. ASSUME rows' = rows
      PROVE  FALSE
  BY <1>6
<1>7. ASSUME NEW r \in Requests,
             \/ LoadList(r) \/ LoadNothing(r) \/ LoadFails(r) \/ Open(r) \/ Reload(r)
             \/ Patch(r) \/ PatchReply(r) \/ ApplyStart(r)
             \/ ApplyLogin(r) \/ ApplySend(r) \/ ApplyFails(r)
      PROVE  rows' = rows
  BY <1>7 DEF LoadList, LoadNothing, LoadFails, Open, Reload, Patch, PatchStart,
              PatchReply, ApplyStart, ApplyLogin, ApplySend, ApplyFails
<1>8. CASE FindingGoes \/ Crash \/ UNCHANGED vars
  BY <1>6, <1>8 DEF FindingGoes, Crash, vars
<1> QED BY <1>1, <1>2, <1>3, <1>4, <1>5, <1>6, <1>7, <1>8 DEF Next, Load, Serve

(* Only the operator approves, however requests overlap                    *)
(* (ApprovedByOperator).                                                   *)
THEOREM OnlyTheOperatorApproves == Spec => ApprovedByOperator
<1> DEFINE Approving ==
      \A s \in Slots :
        rows'[s].status = "approved" /\ rows'[s] # rows[s] =>
          \E r \in Requests :
            /\ req[r].at = "update" /\ req[r].status = "approved"
            /\ req[r].fix = [slot |-> s, gen |-> rows'[s].gen]
            /\ req[r].value = rows'[s].value
<1>1. TypeOK /\ [Next]_vars => Approving
  BY ApprovedStep
<1> QED BY <1>1, TypeInit, TypeNext, PTL DEF Spec, ApprovedByOperator

-----------------------------------------------------------------------------
(* The operator who waits                                                  *)

Applying == {"login", "send", "applied", "failed"}

(* With an operator who waits, one request is under way at a time; what it *)
(* is applying is what the rows still say, and a row that is about to read *)
(* applied has its value on the site.                                      *)
Alone == \A r, q \in Requests : req[r] # Idle /\ req[q] # Idle => r = q

Current(c) ==
  Stored(c) /\ rows[c.slot].status = "approved" /\ rows[c.slot].value = c.value

StillApproved(r) == req[r].at \in Applying => \A c \in req[r].todo : Current(c)

Arrived(r) ==
  req[r].at = "applied" =>
    \A c \in req[r].todo : First(req[r].todo, c) => site[c.slot] = Written(c.slot, c.value)

Exact == waits => Alone /\ \A r \in Requests : StillApproved(r) /\ Arrived(r)

LEMMA ExactInit == Init => Exact
BY DEF Init, Exact, Alone, StillApproved, Arrived, Idle, Applying

(* A request that goes on is still the only one.                           *)
LEMMA AloneStep ==
  ASSUME Alone, NEW r \in Requests, NEW q, req' = [req EXCEPT ![r] = q],
         req \in [Requests -> Request],
         req[r] # Idle \/ \A p \in Requests : req[p] = Idle
  PROVE  Alone' /\ \A p \in Requests : p # r => req'[p] = Idle
BY DEF Alone

(* What is applied in one go are different pairs.                          *)
LEMMA FirstUnique ==
  ASSUME TypeOK, NEW T \in SUBSET Copy, \A c \in T : Current(c),
         NEW c \in T, NEW d \in T
  PROVE  /\ c.slot = d.slot => c = d
         /\ First(T, c) /\ First(T, d) => c = d
<1>1. c.slot = d.slot => c = d
  <2> SUFFICES ASSUME c.slot = d.slot
               PROVE  c = d
    OBVIOUS
  <2>1. c.gen = d.gen /\ c.value = d.value
    BY DEF Current, Stored
  <2> QED BY <2>1 DEF Copy
<1>2. ASSUME First(T, c), First(T, d)
      PROVE  c.slot = d.slot
  <2>1. RowRank[c.slot] <= RowRank[d.slot] /\ RowRank[d.slot] <= RowRank[c.slot]
    BY <1>2 DEF First
  <2>2. c.slot \in Slots /\ d.slot \in Slots
    BY DEF Copy
  <2>3. RowRank[c.slot] \in Nat /\ RowRank[d.slot] \in Nat
    BY <2>2, ConstantsAssumption
  <2>4. RowRank[c.slot] = RowRank[d.slot]
    BY <2>1, <2>3
  <2> QED BY <2>2, <2>4, ConstantsAssumption
<1> QED BY <1>1, <1>2

(* A request that only begins, or ends, leaves nothing to apply.           *)
LEMMA QuietExact ==
  ASSUME TypeOK, Exact, waits' = waits, NEW r \in Requests, NEW q,
         req' = [req EXCEPT ![r] = q],
         req[r] # Idle \/ (waits => \A p \in Requests : req[p] = Idle),
         q.at \notin Applying
  PROVE  Exact'
<1> SUFFICES ASSUME waits
             PROVE  Alone' /\ \A p \in Requests : StillApproved(p)' /\ Arrived(p)'
  BY DEF Exact
<1>1. req \in [Requests -> Request]
  BY DEF TypeOK
<1>2. Alone' /\ \A p \in Requests : p # r => req'[p] = Idle
  BY <1>1, AloneStep DEF Exact
<1>3. \A p \in Requests : req'[p].at \notin Applying
  BY <1>1, <1>2 DEF Idle, Applying
<1>4. \A p \in Requests : StillApproved(p)' /\ Arrived(p)'
  BY <1>3 DEF StillApproved, Arrived, Applying
<1> QED BY <1>2, <1>4

(* So does one that goes on applying what is left of the same rows.        *)
LEMMA ApplyingExact ==
  ASSUME TypeOK, Exact, waits' = waits, rows' = rows,
         NEW r \in Requests, NEW q, req' = [req EXCEPT ![r] = q],
         req[r] # Idle \/ (waits => \A p \in Requests : req[p] = Idle),
         waits => \A c \in q.todo : Current(c),
         waits /\ q.at = "applied" =>
           \A c \in q.todo : First(q.todo, c) => site'[c.slot] = Written(c.slot, c.value)
  PROVE  Exact'
<1> SUFFICES ASSUME waits
             PROVE  Alone' /\ \A p \in Requests : StillApproved(p)' /\ Arrived(p)'
  BY DEF Exact
<1>1. req \in [Requests -> Request] /\ req'[r] = q
  BY DEF TypeOK
<1>2. Alone' /\ \A p \in Requests : p # r => req'[p] = Idle
  BY <1>1, AloneStep DEF Exact
<1>3. ASSUME NEW p \in Requests, p # r
      PROVE  StillApproved(p)' /\ Arrived(p)'
  BY <1>2, <1>3 DEF StillApproved, Arrived, Idle, Applying
<1>4. StillApproved(r)' /\ Arrived(r)'
  BY <1>1 DEF StillApproved, Arrived, Current, Stored, First, Written
<1> QED BY <1>2, <1>3, <1>4

LEMMA ExactNext == TypeOK /\ Exact /\ [Next]_vars => Exact'
<1> SUFFICES ASSUME TypeOK, Exact, [Next]_vars
             PROVE  Exact'
  OBVIOUS
<1>0. Idle.at \notin Applying /\ [at |-> "reload"].at \notin Applying
  BY DEF Idle, Applying
<1>1. ASSUME NEW r \in Requests, NEW n \in {0, panel.next}, LoadStart(r, n)
      PROVE  Exact'
  <2> DEFINE q == [at |-> "list", gen |-> generation + 1, offset |-> n]
  <2>1. q.at \notin Applying
    BY DEF Applying
  <2> HIDE DEF q
  <2> QED BY <1>1, <2>1, QuietExact DEF LoadStart, Free, Goto, environment, q
<1>2. ASSUME NEW r \in Requests, LoadList(r)
      PROVE  Exact'
  <2>1. PICK q : q.at = "propose" /\ Goto(r, q)
    BY <1>2 DEF LoadList
  <2>2. req[r] # Idle /\ waits' = waits
    BY <1>2 DEF LoadList, Idle, environment
  <2> QED BY <2>1, <2>2, QuietExact DEF Goto, Applying
<1>3. ASSUME NEW r \in Requests,
             \/ LoadNothing(r) \/ LoadFails(r) \/ LoadSave(r) \/ Reload(r)
             \/ PatchReply(r) \/ ApplyFails(r)
      PROVE  Exact'
  <2>1. Goto(r, Idle) /\ req[r] # Idle /\ waits' = waits
    BY <1>3 DEF LoadNothing, LoadFails, LoadSave, Reload, PatchReply, ApplyFails,
                Idle, environment
  <2> QED BY <1>0, <2>1, QuietExact DEF Goto
<1>4. ASSUME NEW r \in Requests, Open(r)
      PROVE  Exact'
  BY <1>0, <1>4, QuietExact DEF Open, Free, Goto, environment
<1>5. ASSUME NEW r \in Requests, Clear(r)
      PROVE  Exact'
  <2>1. waits => \A p \in Requests : req'[p] = Idle
    BY <1>5 DEF Clear, Free
  <2> QED BY <1>5, <2>1 DEF Exact, Alone, StillApproved, Arrived, Idle, Applying, Clear,
                            environment
<1>6. ASSUME NEW r \in Requests, Patch(r)
      PROVE  Exact'
  <2>1. PICK q : q.at = "update" /\ Goto(r, q)
    BY <1>6 DEF Patch, PatchStart
  <2> QED BY <1>6, <2>1, QuietExact DEF Patch, PatchStart, Free, Goto, Applying, environment
<1>7. ASSUME NEW r \in Requests, PatchUpdate(r)
      PROVE  Exact'
  <2>1. req[r] \in [at : {"update", "reply"}, fix : Id, value : Values, status : Reviewed]
    BY <1>7 DEF PatchUpdate, TypeOK, Request, Idle
  <2>2. [req[r] EXCEPT !.at = "reply"].at = "reply"
    BY <2>1
  <2>3. req[r] # Idle
    BY <1>7 DEF PatchUpdate, Idle
  <2> QED BY <1>7, <2>2, <2>3, QuietExact DEF PatchUpdate, Goto, Applying, environment
<1>8. ASSUME NEW r \in Requests, ApplyStart(r)
      PROVE  Exact'
  <2>1. waits' = waits /\ rows' = rows
        /\ (waits => \A p \in Requests : req[p] = Idle)
    BY <1>8 DEF ApplyStart, Free, environment
  <2>2. CASE Goto(r, [at |-> "reload"])
    BY <1>0, <2>1, <2>2, QuietExact DEF Goto
  <2>3. CASE Goto(r, [at |-> "login", todo |-> ApprovedCopies])
    <3>1. \A c \in ApprovedCopies : Current(c)
      BY DEF ApprovedCopies, Current
    <3> QED BY <2>1, <2>3, <3>1, ApplyingExact DEF Goto
  <2> QED BY <1>8, <2>2, <2>3 DEF ApplyStart
<1>9. ASSUME NEW r \in Requests, req[r].at \in Applying
      PROVE  /\ req[r] # Idle /\ req[r].todo \subseteq Copy
             /\ waits => \A c \in req[r].todo : Current(c)
             /\ \A there : /\ [req[r] EXCEPT !.at = there].at = there
                           /\ [req[r] EXCEPT !.at = there].todo = req[r].todo
  <2>1. req[r] \in [at : {"login", "send", "applied", "failed"}, todo : SUBSET Copy]
    BY <1>9 DEF TypeOK, Request, Idle, Applying
  <2>2. req[r] # Idle
    BY <1>9 DEF Idle, Applying
  <2> QED BY <1>9, <2>1, <2>2 DEF Exact, StillApproved
<1>10. ASSUME NEW r \in Requests, ApplyLogin(r)
       PROVE  Exact'
  <2> DEFINE q == [req[r] EXCEPT !.at = "send"]
  <2>1. req[r].at \in Applying
    BY <1>10 DEF ApplyLogin, Applying
  <2>2. q.at = "send" /\ q.todo = req[r].todo
    BY <1>9, <2>1
  <2>3. req' = [req EXCEPT ![r] = q] /\ waits' = waits /\ rows' = rows
    BY <1>10 DEF ApplyLogin, Goto, environment
  <2> HIDE DEF q
  <2> QED BY <1>9, <2>1, <2>2, <2>3, ApplyingExact
<1>11. ASSUME NEW r \in Requests, ApplySend(r)
       PROVE  Exact'
  <2>1. req[r].at \in Applying /\ waits' = waits /\ rows' = rows
    BY <1>11 DEF ApplySend, Applying, environment
  <2>2. PICK c \in req[r].todo, there \in {"applied", "failed"} :
          /\ First(req[r].todo, c)
          /\ Goto(r, [req[r] EXCEPT !.at = there])
          /\ there = "applied" => site' = [site EXCEPT ![c.slot] = Written(c.slot, c.value)]
    BY <1>11 DEF ApplySend
  <2> DEFINE q == [req[r] EXCEPT !.at = there]
  <2>3. q.at = there /\ q.todo = req[r].todo /\ req' = [req EXCEPT ![r] = q]
    BY <1>9, <2>1, <2>2 DEF Goto
  <2>4. waits /\ there = "applied" =>
          \A d \in req[r].todo :
            First(req[r].todo, d) => site'[d.slot] = Written(d.slot, d.value)
    <3> SUFFICES ASSUME waits, there = "applied",
                        NEW d \in req[r].todo, First(req[r].todo, d)
                 PROVE  site'[d.slot] = Written(d.slot, d.value)
      OBVIOUS
    <3>1. d = c
      BY <1>9, <2>1, <2>2, FirstUnique
    <3>2. c.slot \in Slots
      BY <1>9, <2>1 DEF Copy
    <3> QED BY <2>2, <3>1, <3>2 DEF TypeOK
  <2> HIDE DEF q
  <2> QED BY <1>9, <2>1, <2>3, <2>4, ApplyingExact
<1>12. ASSUME NEW r \in Requests, ApplyMark(r)
       PROVE  Exact'
  <2>1. req[r].at \in Applying /\ waits' = waits
    BY <1>12 DEF ApplyMark, Applying, environment
  <2>2. PICK c \in req[r].todo :
          /\ rows' = With(c, req[r].at, IF Stored(c) THEN rows[c.slot].value ELSE Blank)
          /\ Goto(r, IF req[r].at = "applied" /\ req[r].todo # {c}
                     THEN [at |-> "send", todo |-> req[r].todo \ {c}]
                     ELSE [at |-> "reload"])
    BY <1>12 DEF ApplyMark
  <2>3. CASE Goto(r, [at |-> "reload"])
    BY <1>0, <1>9, <2>1, <2>3, QuietExact DEF Goto
  <2>4. CASE Goto(r, [at |-> "send", todo |-> req[r].todo \ {c}])
    <3> SUFFICES ASSUME waits
                 PROVE  Alone' /\ \A p \in Requests : StillApproved(p)' /\ Arrived(p)'
      BY <2>1 DEF Exact
    <3>1. req \in [Requests -> Request]
      BY DEF TypeOK
    <3>2. Alone' /\ \A p \in Requests : p # r => req'[p] = Idle
      BY <1>9, <2>1, <2>4, <3>1, AloneStep DEF Exact, Goto
    <3>3. req'[r] = [at |-> "send", todo |-> req[r].todo \ {c}]
      BY <2>4, <3>1 DEF Goto
    <3>4. ASSUME NEW d \in req[r].todo \ {c}
          PROVE  Current(d)'
      <4>1. d.slot # c.slot /\ d.slot \in Slots
        BY <1>9, <2>1, FirstUnique DEF Copy
      <4>2. rows'[d.slot] = rows[d.slot]
        BY <2>2, <4>1 DEF With, TypeOK
      <4>3. Current(d)
        BY <1>9, <2>1
      <4> QED BY <4>2, <4>3 DEF Current, Stored
    <3>5. \A p \in Requests : StillApproved(p)' /\ Arrived(p)'
      BY <3>2, <3>3, <3>4 DEF StillApproved, Arrived, Idle, Applying
    <3> QED BY <3>2, <3>5
  <2> QED BY <2>2, <2>3, <2>4
<1>13. CASE FindingGoes
  BY <1>13 DEF FindingGoes, environment, Exact, Alone, StillApproved, Arrived, Current,
               Stored, First, Written
<1>14. CASE Crash
  BY <1>14 DEF Crash, environment, Exact, Alone, StillApproved, Arrived, Idle, Applying
<1>15. CASE UNCHANGED vars
  BY <1>15 DEF vars, environment, Exact, Alone, StillApproved, Arrived, Current, Stored,
               First, Written
<1> QED BY <1>1, <1>2, <1>3, <1>4, <1>5, <1>6, <1>7, <1>8, <1>10, <1>11, <1>12,
           <1>13, <1>14, <1>15 DEF Next, Load, Serve

-----------------------------------------------------------------------------
(* The rows and the site follow FixLifecycle                               *)

LifecycleNext ==
  Lifecycle!Next \/ (UNCHANGED <<waits, statusOf, valueOf, site>>)

LEMMA WrittenType ==
  ASSUME NEW s \in Slots, NEW v \in Values
  PROVE  Written(s, v) \in Values
BY ValuesHas DEF Written

LEMMA ValueType == TypeOK => valueOf \in [Slots -> Values]
<1> SUFFICES ASSUME TypeOK, NEW s \in Slots
             PROVE  (IF rows[s] = NoRow THEN Blank ELSE Written(s, rows[s].value)) \in Values
  BY DEF valueOf
<1>1. CASE rows[s] = NoRow
  BY <1>1, ValuesHas
<1>2. CASE rows[s] # NoRow
  <2>1. rows[s].value \in Values
    BY <1>2 DEF TypeOK, Row
  <2> QED BY <1>2, <2>1, WrittenType
<1> QED BY <1>1, <1>2

LEMMA LifecycleInit == Init => Lifecycle!Init
<1> SUFFICES ASSUME Init
             PROVE  Lifecycle!Init
  OBVIOUS
<1>1. statusOf = [s \in Slots |-> "none"]
  BY DEF Init, statusOf, NoRow
<1>2. valueOf \in [Slots -> Values] /\ site \in [Slots -> Values]
  BY TypeInit, ValueType DEF TypeOK
<1>3. waits \in BOOLEAN
  BY DEF Init
<1> QED BY <1>1, <1>2, <1>3 DEF Lifecycle!Init

(* Removing all rows, also when there are none.                            *)
LEMMA ClearMaps ==
  ASSUME TypeOK', rows' = [s \in Slots |-> NoRow], UNCHANGED <<waits, site>>
  PROVE  LifecycleNext
<1>1. statusOf' = [s \in Slots |-> "none"]
  BY DEF statusOf, NoRow
<1>2. valueOf' \in [Slots -> Values]
  <2>1. valueOf' = [s \in Slots |-> Blank]
    BY DEF valueOf
  <2> QED BY <2>1, ValuesHas
<1>3. Lifecycle!Clear
  BY <1>1, <1>2 DEF Lifecycle!Clear
<1> QED BY <1>3 DEF LifecycleNext, Lifecycle!Next

LEMMA SameMaps ==
  ASSUME UNCHANGED <<waits, rows, site>>
  PROVE  LifecycleNext
BY DEF LifecycleNext, statusOf, valueOf, Written

(* A store call that leaves the row with another status, and its value or  *)
(* another one.                                                            *)
LEMMA WithMaps ==
  ASSUME TypeOK, NEW f, f.slot \in Slots, Stored(f), NEW x, NEW v \in Values,
         rows' = With(f, x, v)
  PROVE  /\ statusOf[f.slot] # "none"
         /\ statusOf' = [statusOf EXCEPT ![f.slot] = x]
         /\ valueOf' = [valueOf EXCEPT ![f.slot] = Written(f.slot, v)]
         /\ rows[f.slot] # NoRow /\ rows[f.slot] \in Row
<1>1. rows[f.slot] # NoRow /\ rows[f.slot] \in Row
  BY StoredIsRow DEF Stored
<1>2. rows' = [rows EXCEPT ![f.slot] = [@ EXCEPT !.status = x, !.value = v]]
  BY DEF With
<1>3. rows'[f.slot] = [rows[f.slot] EXCEPT !.status = x, !.value = v]
  BY <1>2 DEF TypeOK
<1>4. rows'[f.slot].status = x /\ rows'[f.slot].value = v /\ rows'[f.slot] # NoRow
  BY <1>1, <1>3 DEF Row, NoRow
<1>5. \A s \in Slots : s # f.slot => rows'[s] = rows[s]
  BY <1>2 DEF TypeOK
<1>6. statusOf[f.slot] # "none"
  BY <1>1 DEF statusOf, Row, Reviewed
<1>7. statusOf' = [statusOf EXCEPT ![f.slot] = x]
  BY <1>4, <1>5 DEF statusOf
<1>8. valueOf' = [valueOf EXCEPT ![f.slot] = Written(f.slot, v)]
  BY <1>4, <1>5 DEF valueOf, Written
<1> QED BY <1>1, <1>6, <1>7, <1>8

LEMMA LifecycleStep == TypeOK /\ TypeOK' /\ Exact /\ [Next]_vars => LifecycleNext
<1> SUFFICES ASSUME TypeOK, TypeOK', Exact, [Next]_vars
             PROVE  LifecycleNext
  OBVIOUS
<1>1. ASSUME NEW r \in Requests, NEW n \in {0, panel.next}, LoadStart(r, n)
      PROVE  LifecycleNext
  <2>1. UNCHANGED <<waits, site>>
    BY <1>1 DEF LoadStart, environment
  <2>2. CASE n = 0
    BY <1>1, <2>1, <2>2, ClearMaps DEF LoadStart, Deleted
  <2>3. CASE n # 0
    BY <1>1, <2>1, <2>3, SameMaps DEF LoadStart, Deleted
  <2> QED BY <2>2, <2>3
<1>2. ASSUME NEW r \in Requests, Clear(r)
      PROVE  LifecycleNext
  BY <1>2, ClearMaps DEF Clear, environment
<1>3. ASSUME NEW r \in Requests, LoadSave(r)
      PROVE  LifecycleNext
  <2> DEFINE proposals == req[r].batch \ lost
             S == {s \in Slots : s \in proposals /\ rows[s] = NoRow}
             v == [s \in S |-> Written(s, Proposed[s])]
  <2>1. rows' = Insert(proposals, req[r].gen) /\ UNCHANGED <<waits, site>>
    BY <1>3 DEF LoadSave, environment
  <2>2. \A s \in S : statusOf[s] = "none"
    BY DEF statusOf, NoRow
  <2>3. \A s \in Slots :
          IF s \in S
          THEN rows'[s] = [gen |-> req[r].gen, value |-> Proposed[s], status |-> "pending"]
          ELSE rows'[s] = rows[s]
    <3> HIDE DEF proposals
    <3> QED BY <2>1 DEF Insert
  <2>10. ASSUME NEW s \in S
         PROVE  /\ rows'[s].status = "pending" /\ rows'[s].value = Proposed[s]
                /\ rows'[s] # NoRow
    <3>1. rows'[s] = [gen |-> req[r].gen, value |-> Proposed[s], status |-> "pending"]
      BY <2>3
    <3>2. rows'[s].status = "pending" /\ rows'[s].value = Proposed[s]
      BY <3>1
    <3> QED BY <3>2 DEF NoRow
  <2>11. \A s \in Slots \ S : rows'[s] = rows[s]
    BY <2>3
  <2>4. statusOf' = [s \in Slots |-> IF s \in S THEN "pending" ELSE statusOf[s]]
    <3> HIDE DEF S
    <3> QED BY <2>10, <2>11 DEF statusOf
  <2>5. v \in [S -> Values]
    <3>1. \A s \in S : Written(s, Proposed[s]) \in Values
      BY ValuesHas, WrittenType
    <3> QED BY <3>1
  <2>7. valueOf' = [s \in Slots |-> IF s \in S THEN v[s] ELSE valueOf[s]]
    <3>1. \A s \in S : v[s] = Written(s, Proposed[s])
      OBVIOUS
    <3> HIDE DEF S, v
    <3> QED BY <2>10, <2>11, <3>1 DEF valueOf, Written
  <2>8. S \in SUBSET Slots
    OBVIOUS
  <2> HIDE DEF S, v
  <2>9. Lifecycle!Propose(S)
    BY <2>1, <2>2, <2>4, <2>5, <2>7 DEF Lifecycle!Propose
  <2> QED BY <2>8, <2>9 DEF LifecycleNext, Lifecycle!Next
<1>4. ASSUME NEW r \in Requests, PatchUpdate(r)
      PROVE  LifecycleNext
  <2> DEFINE f == req[r].fix
             v == IF req[r].status = "skipped" /\ Stored(f) THEN rows[f.slot].value
                  ELSE req[r].value
  <2>1. /\ f \in Id /\ f.slot \in Slots
        /\ req[r].status \in Reviewed /\ req[r].value \in Values
    BY <1>4, RequestFields DEF PatchUpdate, Id
  <2>2. v \in Values
    BY <2>1, StoredIsRow DEF Row
  <2>3. rows' = With(f, req[r].status, v) /\ UNCHANGED <<waits, site>>
    BY <1>4 DEF PatchUpdate, environment
  <2> HIDE DEF f, v
  <2>4. CASE ~Stored(f)
    BY <2>3, <2>4, SameMaps DEF With
  <2>5. CASE Stored(f)
    <3>1. /\ statusOf[f.slot] # "none"
          /\ statusOf' = [statusOf EXCEPT ![f.slot] = req[r].status]
          /\ valueOf' = [valueOf EXCEPT ![f.slot] = Written(f.slot, v)]
      BY <2>1, <2>2, <2>3, <2>5, WithMaps
    <3>2. Written(f.slot, v) \in Values
      BY <2>1, <2>2, WrittenType
    <3>3. Lifecycle!Review(f.slot)
      BY <2>1, <2>3, <3>1, <3>2 DEF Lifecycle!Review, Reviewed
    <3> QED BY <2>1, <3>3 DEF LifecycleNext, Lifecycle!Next
  <2> QED BY <2>4, <2>5
<1>5. ASSUME NEW r \in Requests, NEW c \in req[r].todo, req[r].at \in Applying, waits
      PROVE  /\ c.slot \in Slots /\ Stored(c) /\ statusOf[c.slot] = "approved"
             /\ valueOf[c.slot] = Written(c.slot, c.value)
  <2>1. c \in Copy
    BY <1>5, RequestFields DEF Applying
  <2>2. Current(c)
    BY <1>5 DEF Exact, StillApproved
  <2> QED BY <2>1, <2>2 DEF Current, Stored, statusOf, valueOf, Copy
<1>6. ASSUME NEW r \in Requests, ApplySend(r)
      PROVE  LifecycleNext
  <2>1. /\ req[r].at \in Applying /\ req[r].todo \subseteq Copy
        /\ UNCHANGED <<waits, rows>>
    BY <1>6, RequestFields DEF ApplySend, Applying, environment
  <2>2. CASE site' = site
    BY <2>1, <2>2, SameMaps
  <2>3. ASSUME NEW c \in req[r].todo,
               site' = [site EXCEPT ![c.slot] = Written(c.slot, c.value)]
        PROVE  LifecycleNext
    <3>1. c.slot \in Slots /\ c.value \in Values
      BY <2>1 DEF Copy
    <3>2. Written(c.slot, c.value) \in Values
      BY <3>1, WrittenType
    <3>3. waits => statusOf[c.slot] = "approved" /\ site'[c.slot] = valueOf[c.slot]
      BY <1>5, <2>1, <2>3, <3>1 DEF TypeOK
    <3>4. statusOf' = statusOf /\ valueOf' = valueOf
      BY <2>1 DEF statusOf, valueOf, Written
    <3>5. Lifecycle!Publish(c.slot)
      BY <2>1, <2>3, <3>2, <3>3, <3>4 DEF Lifecycle!Publish
    <3> QED BY <3>1, <3>5 DEF LifecycleNext, Lifecycle!Next
  <2> QED BY <1>6, <2>2, <2>3 DEF ApplySend
<1>7. ASSUME NEW r \in Requests, ApplyMark(r)
      PROVE  LifecycleNext
  <2>1. /\ req[r].at \in {"applied", "failed"} /\ req[r].at \in Applying
        /\ req[r].todo \subseteq Copy /\ UNCHANGED <<waits, site>>
    BY <1>7, RequestFields DEF ApplyMark, Applying, environment
  <2>2. PICK c \in req[r].todo :
          /\ First(req[r].todo, c)
          /\ rows' = With(c, req[r].at, IF Stored(c) THEN rows[c.slot].value ELSE Blank)
    BY <1>7 DEF ApplyMark
  <2>3. c.slot \in Slots
    BY <2>1 DEF Copy
  <2>4. CASE ~Stored(c)
    BY <2>1, <2>2, <2>4, SameMaps DEF With
  <2>5. CASE Stored(c)
    <3>1. rows[c.slot] \in Row /\ rows[c.slot].value \in Values
      BY <2>3, <2>5, StoredIsRow DEF Row
    <3>2. rows' = With(c, req[r].at, rows[c.slot].value)
      BY <2>2, <2>5
    <3>3. /\ statusOf[c.slot] # "none" /\ rows[c.slot] # NoRow
          /\ statusOf' = [statusOf EXCEPT ![c.slot] = req[r].at]
          /\ valueOf' = [valueOf EXCEPT ![c.slot] = Written(c.slot, rows[c.slot].value)]
      BY <2>3, <2>5, <3>1, <3>2, WithMaps
    <3>4. valueOf' = valueOf
      BY <2>3, <3>3 DEF valueOf
    <3>5. CASE req[r].at = "applied"
      <4>1. waits => statusOf[c.slot] = "approved" /\ site[c.slot] = valueOf[c.slot]
        BY <1>5, <2>1, <2>2, <3>5 DEF Exact, Arrived
      <4>2. Lifecycle!Settle(c.slot)
        BY <2>1, <3>3, <3>4, <3>5, <4>1 DEF Lifecycle!Settle
      <4> QED BY <2>3, <4>2 DEF LifecycleNext, Lifecycle!Next
    <3>6. CASE req[r].at = "failed"
      <4>1. waits => statusOf[c.slot] = "approved"
        BY <1>5, <2>1, <2>2
      <4>2. Lifecycle!Fail(c.slot)
        BY <2>1, <3>3, <3>4, <3>6, <4>1 DEF Lifecycle!Fail
      <4> QED BY <2>3, <4>2 DEF LifecycleNext, Lifecycle!Next
    <3> QED BY <2>1, <3>5, <3>6
  <2> QED BY <2>4, <2>5
<1>8. ASSUME NEW r \in Requests,
             \/ LoadList(r) \/ LoadNothing(r) \/ LoadFails(r) \/ Open(r) \/ Reload(r)
             \/ Patch(r) \/ PatchReply(r) \/ ApplyStart(r)
             \/ ApplyLogin(r) \/ ApplyFails(r)
      PROVE  LifecycleNext
  <2>1. UNCHANGED <<waits, rows, site>>
    BY <1>8 DEF LoadList, LoadNothing, LoadFails, Open, Reload, Patch, PatchStart,
                PatchReply, ApplyStart, ApplyLogin, ApplyFails, environment
  <2> QED BY <2>1, SameMaps
<1>9. CASE FindingGoes \/ Crash \/ UNCHANGED vars
  BY <1>9, SameMaps DEF FindingGoes, Crash, vars, environment
<1> QED BY <1>1, <1>2, <1>3, <1>4, <1>6, <1>7, <1>8, <1>9 DEF Next, Load, Serve

(* The fixes table and WordPress implement what the Fix Manager promises,  *)
(* for any pages, batches and overlap: only what is approved is sent, and  *)
(* with an operator who waits a row reads applied only when the site holds *)
(* its value (LifecycleSpec).                                              *)
THEOREM FixesFollowTheLifecycle == Spec => LifecycleSpec
<1>1. LifecycleNext => [Lifecycle!Next]_<<waits, statusOf, valueOf, site>>
  BY DEF LifecycleNext
<1> QED BY TypeInit, TypeNext, ExactInit, ExactNext, LifecycleInit, LifecycleStep, <1>1, PTL
        DEF Spec, LifecycleSpec, Lifecycle!Spec, Lifecycle!lvars

-----------------------------------------------------------------------------
(* Batches: the positions of the findings                                  *)

(* The position of a finding in the list the batches are cut from.         *)
Earlier(s) == {t \in found : FindingRank[t] < FindingRank[s]}
Before(s) == Cardinality(Earlier(s))

(* Every set of numbers that is not empty has a least one.                 *)
LEMMA Least ==
  ASSUME NEW T, T \subseteq Nat, T # {}
  PROVE  \E n \in T : \A m \in T : n <= m
<1>1. PICK k \in T : TRUE
  OBVIOUS
<1> DEFINE S == 0..k
           F == {0..m : m \in T \cap S}
           R == StrictSubsetOrdering(S)
<1>2. IsFiniteSet(S)
  BY <1>1, FS_Interval
<1>3. F \subseteq FiniteSubsetsOf(S) /\ F # {}
  <2>1. \A m \in T \cap S : 0..m \in SUBSET S
    OBVIOUS
  <2>2. 0..k \in F
    BY <1>1
  <2> QED BY <1>2, <2>1, <2>2, FS_FiniteSubsetsOfFinite
<1>4. IsWellFoundedOn(R, FiniteSubsetsOf(S))
  BY FS_StrictSubsetOrderingWellFounded
<1>5. PICK x \in F : \A y \in F : ~ (<<y, x>> \in R)
  <2> HIDE DEF F, R, S
  <2> QED BY <1>3, <1>4, WFMin, Zenon
<1>6. PICK n \in T \cap S : x = 0..n
  OBVIOUS
<1>7. ASSUME NEW m \in T, m < n
      PROVE  FALSE
  <2>1. m \in T \cap S
    BY <1>7, <1>1
  <2>2. 0..m \in F /\ 0..m \subseteq 0..n /\ n \notin 0..m /\ n \in 0..n
    BY <1>7, <2>1, <1>6
  <2>3. <<0..m, x>> \in R
    BY <2>1, <2>2, <1>6 DEF StrictSubsetOrdering
  <2> QED BY <1>5, <2>2, <2>3
<1> QED BY <1>6, <1>7

LEMMA FoundIsFinite ==
  ASSUME TypeOK
  PROVE  /\ IsFiniteSet(found) /\ Cardinality(found) \in Nat
         /\ \A S \in SUBSET found : IsFiniteSet(S) /\ Cardinality(S) \in Nat
<1>1. IsFiniteSet(found)
  BY ConstantsAssumption, FS_Subset DEF TypeOK
<1> QED BY <1>1, FS_Subset, FS_CardinalityType

LEMMA RankType ==
  ASSUME TypeOK, NEW s \in found
  PROVE  s \in Slots /\ FindingRank[s] \in Nat
BY ConstantsAssumption DEF TypeOK

LEMMA BeforeType ==
  ASSUME TypeOK, NEW s \in found
  PROVE  Before(s) \in Nat /\ Before(s) < Cardinality(found)
<1>1. Earlier(s) \subseteq found \ {s}
  BY RankType DEF Earlier
<1>2. IsFiniteSet(found) /\ Cardinality(found) \in Nat
  BY FoundIsFinite
<1>3. IsFiniteSet(found \ {s}) /\ Cardinality(found \ {s}) = Cardinality(found) - 1
  BY <1>2, FS_RemoveElement
<1>4. Cardinality(Earlier(s)) <= Cardinality(found \ {s})
  BY <1>1, <1>3, FS_Subset
<1>5. Cardinality(Earlier(s)) \in Nat
  BY FoundIsFinite DEF Earlier
<1> QED BY <1>2, <1>3, <1>4, <1>5 DEF Before

LEMMA BeforeGrows ==
  ASSUME TypeOK, NEW s \in found, NEW t \in found, FindingRank[s] < FindingRank[t]
  PROVE  Before(s) < Before(t)
<1>1. Earlier(s) \subseteq Earlier(t) \ {s} /\ s \in Earlier(t)
  BY RankType DEF Earlier
<1>2. IsFiniteSet(Earlier(t)) /\ Cardinality(Earlier(t)) \in Nat
  BY FoundIsFinite DEF Earlier
<1>3. /\ IsFiniteSet(Earlier(t) \ {s})
      /\ Cardinality(Earlier(t) \ {s}) = Cardinality(Earlier(t)) - 1
  BY <1>1, <1>2, FS_RemoveElement
<1>4. Cardinality(Earlier(s)) <= Cardinality(Earlier(t) \ {s})
  BY <1>1, <1>3, FS_Subset
<1> QED BY <1>2, <1>3, <1>4, BeforeType DEF Before

LEMMA BeforeInjective ==
  ASSUME TypeOK, NEW s \in found, NEW t \in found, Before(s) = Before(t)
  PROVE  s = t
<1>1. ~(FindingRank[s] < FindingRank[t]) /\ ~(FindingRank[t] < FindingRank[s])
  BY BeforeGrows, BeforeType
<1>2. FindingRank[s] = FindingRank[t]
  BY <1>1, RankType
<1> QED BY <1>2, RankType, ConstantsAssumption

(* No more findings fit into a window of the list than it is wide.         *)
LEMMA WindowSize ==
  ASSUME TypeOK, NEW m \in Nat, NEW n \in Nat, NEW S \in SUBSET found,
         \A s \in S : m <= Before(s) /\ Before(s) < m + n
  PROVE  Cardinality(S) <= n
<1> DEFINE T == m..(m + n - 1)
           f == [s \in S |-> Before(s)]
<1>1. IsFiniteSet(T) /\ Cardinality(T) = n
  BY FS_Interval
<1>2. f \in [S -> T]
  BY BeforeType
<1>3. f \in Injection(S, T)
  BY <1>2, BeforeInjective DEF Injection, IsInjective
<1> QED BY <1>1, <1>3, FS_Injection

LEMMA BatchSize ==
  ASSUME TypeOK, NEW n \in Nat
  PROVE  /\ BatchOf(n) \subseteq found /\ Cardinality(BatchOf(n)) \in Nat
         /\ Cardinality(BatchOf(n)) <= Batch
         /\ \A s \in found : s \in BatchOf(n) <=> n <= Before(s) /\ Before(s) < n + Batch
<1>1. /\ BatchOf(n) \subseteq found
      /\ \A s \in found : s \in BatchOf(n) <=> n <= Before(s) /\ Before(s) < n + Batch
  BY DEF BatchOf, Before, Earlier
<1>2. Batch \in Nat
  BY ConstantsAssumption
<1> QED BY <1>1, <1>2, WindowSize, FoundIsFinite

(* A batch has every finding it advances over.                             *)
LEMMA BatchReaches ==
  ASSUME TypeOK, NEW n \in Nat, NEW s \in BatchOf(n)
  PROVE  Before(s) < n + Cardinality(BatchOf(n))
<1> DEFINE A == {t \in found : Before(t) < n}
           B == BatchOf(n) \ {s}
<1>1. s \in found /\ Before(s) \in Nat /\ Before(s) < n + Batch /\ Batch \in Nat
  BY BatchSize, BeforeType, ConstantsAssumption
<1>2. Earlier(s) \subseteq A \cup B
  <2> SUFFICES ASSUME NEW t \in Earlier(s), t \notin A
               PROVE  t \in B
    OBVIOUS
  <2>1. t \in found /\ FindingRank[t] < FindingRank[s]
    BY DEF Earlier
  <2>2. Before(t) < Before(s) /\ Before(t) \in Nat /\ n <= Before(t)
    BY <1>1, <2>1, BeforeGrows, BeforeType
  <2> QED BY <1>1, <2>1, <2>2, BatchSize
<1>3. Cardinality(A) <= n
  BY WindowSize, BeforeType
<1>4. IsFiniteSet(BatchOf(n)) /\ Cardinality(BatchOf(n)) \in Nat
  BY BatchSize, FoundIsFinite
<1>5. IsFiniteSet(B) /\ Cardinality(B) = Cardinality(BatchOf(n)) - 1
  BY <1>4, FS_RemoveElement
<1>6. IsFiniteSet(A) /\ Cardinality(A) \in Nat
  BY FoundIsFinite
<1>7. /\ IsFiniteSet(A \cup B) /\ Cardinality(A \cup B) \in Nat
      /\ Cardinality(A \cup B) <= Cardinality(A) + Cardinality(B)
  <2>1. IsFiniteSet(A \cup B)
        /\ Cardinality(A \cup B) = Cardinality(A) + Cardinality(B) - Cardinality(A \cap B)
    BY <1>5, <1>6, FS_Union
  <2>2. Cardinality(A \cap B) \in Nat /\ Cardinality(A \cup B) \in Nat
    BY <1>6, <2>1, FS_Intersection, FS_CardinalityType
  <2> HIDE DEF A, B
  <2> QED BY <1>4, <1>5, <1>6, <2>1, <2>2
<1>8. Before(s) <= Cardinality(A \cup B)
  BY <1>2, <1>7, FS_Subset DEF Before
<1> HIDE DEF A, B
<1> QED BY <1>1, <1>3, <1>4, <1>5, <1>6, <1>7, <1>8

(* While findings are left beyond it, a batch is not empty.                *)
LEMMA BatchNotEmpty ==
  ASSUME TypeOK, NEW n \in Nat, n + Batch < Cardinality(found)
  PROVE  BatchOf(n) # {}
<1> DEFINE A == {t \in found : Before(t) < n}
           Rest == found \ A
<1>1. IsFiniteSet(A) /\ Cardinality(A) \in Nat /\ Cardinality(A) <= n
  BY WindowSize, BeforeType, FoundIsFinite
<1>2. Rest # {}
  <2> SUFFICES ASSUME Rest = {}
               PROVE  FALSE
    OBVIOUS
  <2>1. A = found
    OBVIOUS
  <2>2. Cardinality(found) <= n /\ Cardinality(found) \in Nat /\ Batch \in Nat
    <3> HIDE DEF A
    <3> QED BY <1>1, <2>1, ConstantsAssumption
  <2> QED BY <2>2
<1>3. PICK s \in Rest : \A t \in Rest : FindingRank[s] <= FindingRank[t]
  <2> DEFINE Ranks == {FindingRank[t] : t \in Rest}
  <2>1. Ranks \subseteq Nat /\ Ranks # {}
    BY <1>2, RankType
  <2>2. PICK k \in Ranks : \A j \in Ranks : k <= j
    <3> HIDE DEF Ranks
    <3> QED BY <2>1, Least
  <2> QED BY <2>2
<1>4. Earlier(s) \subseteq A
  <2> SUFFICES ASSUME NEW t \in Earlier(s), t \in Rest
               PROVE  FALSE
    BY DEF Earlier
  <2>1. t \in found /\ FindingRank[t] < FindingRank[s] /\ FindingRank[s] <= FindingRank[t]
    BY <1>3 DEF Earlier
  <2> QED BY <2>1, RankType
<1>5. Before(s) <= n
  <2>1. Cardinality(Earlier(s)) <= Cardinality(A)
    BY <1>1, <1>4, FS_Subset
  <2>2. s \in found
    OBVIOUS
  <2>3. Before(s) \in Nat
    BY <2>2, BeforeType
  <2> HIDE DEF A, Rest
  <2> QED BY <1>1, <2>1, <2>3 DEF Before
<1>6. s \in found /\ n <= Before(s) /\ Before(s) \in Nat /\ Batch \in Nat \ {0}
  BY BeforeType, ConstantsAssumption
<1> QED BY <1>5, <1>6, BatchSize

(* A finding that goes moves no other towards the end of the list.         *)
LEMMA BeforeShrinks ==
  ASSUME TypeOK, TypeOK', found' \subseteq found, NEW s \in found'
  PROVE  Before(s)' <= Before(s)
<1>1. Earlier(s)' \subseteq Earlier(s)
  BY DEF Earlier
<1>2. IsFiniteSet(Earlier(s))
  BY FoundIsFinite DEF Earlier
<1> QED BY <1>1, <1>2, FS_Subset DEF Before

-----------------------------------------------------------------------------
(* Loading, for an operator who waits                                      *)

Rowed == {s \in Slots : rows[s] # NoRow}
ShownSlots == {f.slot : f \in panel.shown}
Loading(r) == req[r].at \in {"list", "propose"}
Refreshing(r) == req[r].at \in Applying \cup {"reload"}

(* A first batch starts from nothing, a later one where the one before it  *)
(* ended; a list that was cleared is not continued.                        *)
BatchesInOrder ==
  /\ \A r \in Requests : Loading(r) =>
       IF req[r].offset = 0
       THEN ~panel.more /\ ~panel.loaded /\ Rowed = {}
       ELSE panel.more /\ panel.loaded /\ req[r].offset = panel.next
  /\ panel.more /\ ~panel.loaded => panel.shown = {} /\ Settled

(* Unless the findings change, a batch is what it was cut as.              *)
Counted ==
  \A r \in Requests : req[r].at = "propose" /\ ~shifted =>
    /\ req[r].batch = BatchOf(req[r].offset)
    /\ req[r].more <=> req[r].offset + Batch < Cardinality(found)

(* What the panel has advanced over has a row and is shown.                *)
Covered ==
  ~shifted /\ panel.loaded =>
    \A s \in found \ lost :
      ~panel.more \/ Before(s) < panel.next => s \in Rowed /\ s \in ShownSlots

(* When every page resolves, no row lies ahead of the next batch.          *)
RowsBehind ==
  /\ panel.more => \A s \in found : s \in Rowed => Before(s) < panel.next
  /\ \A r \in Requests : req[r].at = "propose" =>
       /\ \A s \in req[r].batch : s \notin Rowed
       /\ \A s \in req[r].batch :
            s \in found => Before(s) < req[r].offset + Cardinality(req[r].batch)
       /\ req[r].more => req[r].batch # {}

(* What the panel shows is stored, until it has been replaced and before   *)
(* the panel says so.                                                      *)
ShownBehind ==
  /\ panel.more => panel.shown \subseteq StoredIds
  /\ \/ panel.shown \subseteq StoredIds
     \/ panel.error
     \/ \E r \in Requests : Refreshing(r) \/ (Loading(r) /\ req[r].offset = 0)
  /\ panel.loaded /\ panel.more => panel.shown # {} /\ Rowed # {}

InOrder ==
  /\ BatchesInOrder /\ Counted /\ Covered
  /\ lost = {} => RowsBehind /\ ShownBehind

Waiting == waits => InOrder

LEMMA WaitingInit == Init => Waiting
<1> SUFFICES ASSUME Init
             PROVE  InOrder
  BY DEF Waiting
<1>1. \A r \in Requests : req[r].at = "idle"
  BY DEF Init, Idle
<1>2. ~panel.more /\ ~panel.loaded /\ panel.shown = {}
  BY DEF Init
<1> QED BY <1>1, <1>2 DEF InOrder, BatchesInOrder, Counted, Covered, RowsBehind,
                           ShownBehind, Loading

LEMMA StoredSlots ==
  ASSUME TypeOK
  PROVE  /\ \A s \in Rowed : [slot |-> s, gen |-> rows[s].gen] \in StoredIds
         /\ \A f \in StoredIds : f \in Id /\ f.slot \in Rowed
<1>1. ASSUME NEW s \in Rowed
      PROVE  [slot |-> s, gen |-> rows[s].gen] \in StoredIds
  <2>1. s \in Slots /\ rows[s] \in Row
    BY DEF Rowed, TypeOK
  <2>2. rows[s].gen \in 1..MaxGenerations
    BY <2>1 DEF Row
  <2> QED BY <2>1, <2>2 DEF StoredIds, Stored, Id, Rowed
<1>2. ASSUME NEW f \in StoredIds
      PROVE  f \in Id /\ f.slot \in Rowed
  BY DEF StoredIds, Stored, Id, Rowed
<1> QED BY <1>1, <1>2

(* The request that acts is the only one.                                  *)
LEMMA OnlyRequest ==
  ASSUME TypeOK, Alone, NEW r \in Requests, NEW q, Goto(r, q),
         req[r] # Idle \/ \A p \in Requests : req[p] = Idle
  PROVE  /\ req'[r] = q
         /\ \A p \in Requests : p # r => req[p] = Idle /\ req'[p] = Idle
         /\ \A p \in Requests : p # r =>
              ~Loading(p) /\ ~Loading(p)' /\ ~Refreshing(p) /\ ~Refreshing(p)'
<1>1. req \in [Requests -> Request] /\ req' = [req EXCEPT ![r] = q]
  BY DEF TypeOK, Goto
<1>2. req'[r] = q /\ \A p \in Requests : p # r => req[p] = Idle /\ req'[p] = Idle
  BY <1>1 DEF Alone
<1>3. Idle.at = "idle"
  BY DEF Idle
<1> QED BY <1>2, <1>3 DEF Loading, Refreshing, Applying

(* A step that loads nothing, removes no row and shows nothing else.       *)
LEMMA QuietWaiting ==
  ASSUME InOrder, UNCHANGED <<lost, found, shifted>>,
         Rowed' = Rowed, StoredIds' = StoredIds,
         panel'.more = panel.more, panel'.loaded = panel.loaded,
         panel'.next = panel.next, panel'.shown = panel.shown,
         \A p \in Requests : ~Loading(p)',
         panel.shown # {} \/ ~Settled,
         lost = {} => \/ panel.shown \subseteq StoredIds
                      \/ panel'.error
                      \/ \E p \in Requests : Refreshing(p)'
  PROVE  InOrder'
<1>1. BatchesInOrder'
  BY DEF InOrder, BatchesInOrder
<1>2. Counted'
  BY DEF Counted, Loading
<1>3. \A s : Before(s)' = Before(s)
  BY DEF Before, Earlier
<1>4. ShownSlots' = ShownSlots
  BY DEF ShownSlots
<1>5. Covered'
  BY <1>3, <1>4 DEF InOrder, Covered
<1>6. lost' = {} => RowsBehind'
  BY <1>3 DEF InOrder, RowsBehind, Loading
<1>7. lost' = {} => ShownBehind'
  BY DEF InOrder, ShownBehind
<1> QED BY <1>1, <1>2, <1>5, <1>6, <1>7 DEF InOrder

LEMMA FreeWaiting ==
  ASSUME waits, NEW r \in Requests, Free(r)
  PROVE  /\ \A p \in Requests : req[p] = Idle
         /\ Settled /\ \A p \in Requests : ~Loading(p) /\ ~Refreshing(p)
BY DEF Free, Settled, Loading, Refreshing, Idle, Applying

LEMMA LoadStartWaiting ==
  ASSUME TypeOK, waits, Alone, InOrder, NEW r \in Requests, NEW n \in {0, panel.next},
         LoadStart(r, n)
  PROVE  InOrder'
<1> DEFINE q == [at |-> "list", gen |-> generation + 1, offset |-> n]
<1>1. /\ \A p \in Requests : req[p] = Idle
      /\ Settled /\ \A p \in Requests : ~Loading(p) /\ ~Refreshing(p)
  BY FreeWaiting DEF LoadStart
<1>2. /\ req'[r] = q
      /\ \A p \in Requests : p # r => ~Loading(p)' /\ req'[p] = Idle
  BY <1>1, OnlyRequest DEF LoadStart
<1>3. \A p \in Requests : req'[p].at # "propose"
  BY <1>2 DEF Idle
<1>4. Counted'
  BY <1>3 DEF Counted
<1>5. UNCHANGED <<lost, found>>
  BY DEF LoadStart, environment
<1>6. CASE n = 0
  <2>1. /\ ~panel'.more /\ ~panel'.loaded /\ ~panel'.error /\ panel'.shown = panel.shown
        /\ rows' = [s \in Slots |-> NoRow]
    BY <1>6 DEF LoadStart, Deleted, TypeOK
  <2>2. Rowed' = {}
    BY <2>1 DEF Rowed
  <2>3. BatchesInOrder'
    BY <1>2, <1>6, <2>1, <2>2 DEF BatchesInOrder, Loading
  <2>4. Covered' /\ RowsBehind'
    BY <1>3, <2>1 DEF Covered, RowsBehind
  <2>5. Loading(r)' /\ req'[r].offset = 0
    BY <1>2, <1>6 DEF Loading
  <2>6. ShownBehind'
    BY <2>1, <2>5 DEF ShownBehind
  <2> QED BY <1>4, <2>3, <2>4, <2>6 DEF InOrder
<1>7. CASE n # 0
  <2>1. /\ panel.more /\ panel.shown # {} /\ n = panel.next
        /\ UNCHANGED <<rows, shifted>>
        /\ panel' = [panel EXCEPT !.error = FALSE]
    BY <1>7 DEF LoadStart, Deleted
  <2>2. panel.loaded
    BY <2>1 DEF InOrder, BatchesInOrder
  <2>3. /\ panel'.more = panel.more /\ panel'.loaded = panel.loaded
        /\ panel'.next = panel.next /\ panel'.shown = panel.shown
    BY <2>1 DEF TypeOK
  <2>4. Rowed' = Rowed /\ StoredIds' = StoredIds /\ ShownSlots' = ShownSlots
    BY <2>1, <2>3 DEF Rowed, StoredIds, Stored, ShownSlots
  <2>5. \A s : Before(s)' = Before(s)
    BY <1>5 DEF Before, Earlier
  <2>6. BatchesInOrder'
    BY <1>2, <1>7, <2>1, <2>2, <2>3 DEF BatchesInOrder, Loading
  <2>7. Covered'
    BY <1>5, <2>1, <2>3, <2>4, <2>5 DEF InOrder, Covered
  <2>8. lost' = {} => RowsBehind'
    BY <1>3, <1>5, <2>3, <2>4, <2>5 DEF InOrder, RowsBehind
  <2>9. lost' = {} => ShownBehind'
    BY <1>5, <2>1, <2>3, <2>4 DEF InOrder, ShownBehind
  <2> QED BY <1>4, <2>6, <2>7, <2>8, <2>9 DEF InOrder
<1> QED BY <1>6, <1>7

LEMMA LoadListWaiting ==
  ASSUME TypeOK, waits, Alone, InOrder, NEW r \in Requests, LoadList(r)
  PROVE  InOrder'
<1> DEFINE q == [at |-> "propose", gen |-> req[r].gen, offset |-> req[r].offset,
                 batch |-> BatchOf(req[r].offset),
                 more |-> req[r].offset + Batch < Cardinality(found)]
           n == req[r].offset
<1>1. /\ req[r].at = "list" /\ Goto(r, q) /\ n \in Nat
      /\ UNCHANGED <<lost, found, shifted, rows, panel>>
  BY RequestFields DEF LoadList, environment
<1>2. /\ req'[r] = q /\ Loading(r)
      /\ \A p \in Requests : p # r => ~Loading(p) /\ ~Loading(p)' /\ req'[p] = Idle
      /\ \A p \in Requests : ~Refreshing(p)
  <2>1. req[r] # Idle /\ Loading(r) /\ ~Refreshing(r)
    BY <1>1 DEF Idle, Loading, Refreshing, Applying
  <2> HIDE DEF q
  <2> QED BY <1>1, <2>1, OnlyRequest
<1>3. Rowed' = Rowed /\ StoredIds' = StoredIds /\ ShownSlots' = ShownSlots
  BY <1>1 DEF Rowed, StoredIds, Stored, ShownSlots
<1>4. \A s : Before(s)' = Before(s)
  BY <1>1 DEF Before, Earlier
<1>5. \A m : BatchOf(m)' = BatchOf(m)
  BY <1>1 DEF BatchOf
<1>6. \A p \in Requests : req'[p].at = "propose" => p = r
  BY <1>2 DEF Idle
<1>7. BatchesInOrder'
  <2>1. req'[r].offset = n /\ req[r] # Idle /\ ~Settled
    BY <1>1, <1>2 DEF Idle, Settled
  <2> QED BY <1>1, <1>2, <1>3, <2>1 DEF InOrder, BatchesInOrder
<1>8. Counted'
  <2>1. /\ req'[r].batch = BatchOf(n) /\ req'[r].offset = n
        /\ req'[r].more = (n + Batch < Cardinality(found))
    BY <1>2
  <2> HIDE DEF n
  <2> QED BY <1>1, <1>5, <1>6, <2>1 DEF Counted
<1>9. Covered'
  BY <1>1, <1>3, <1>4 DEF InOrder, Covered
<1>10. ASSUME lost = {}
       PROVE  RowsBehind'
  <2>1. panel'.more => \A s \in found' : s \in Rowed' => Before(s)' < panel'.next
    BY <1>1, <1>3, <1>4, <1>10 DEF InOrder, RowsBehind
  <2>2. ASSUME NEW s \in BatchOf(n)
        PROVE  s \notin Rowed
    <3>1. s \in found /\ n <= Before(s) /\ Before(s) \in Nat
      BY <1>1, BatchSize, BeforeType
    <3>2. CASE n = 0
      BY <1>2, <3>2 DEF InOrder, BatchesInOrder
    <3>3. CASE n # 0
      <4>1. panel.more /\ n = panel.next
        BY <1>2, <3>3 DEF InOrder, BatchesInOrder
      <4> QED BY <1>1, <1>10, <3>1, <4>1 DEF InOrder, RowsBehind
    <3> QED BY <3>2, <3>3
  <2>3. \A s \in BatchOf(n) : Before(s) < n + Cardinality(BatchOf(n))
    BY <1>1, BatchReaches
  <2>4. n + Batch < Cardinality(found) => BatchOf(n) # {}
    BY <1>1, BatchNotEmpty
  <2>5. /\ req'[r].batch = BatchOf(n) /\ req'[r].offset = n
        /\ req'[r].more = (n + Batch < Cardinality(found))
    BY <1>2
  <2> HIDE DEF n
  <2> QED BY <1>3, <1>4, <1>6, <2>1, <2>2, <2>3, <2>4, <2>5 DEF RowsBehind
<1>11. ASSUME lost = {}
       PROVE  ShownBehind'
  <2>1. Loading(r)' /\ req'[r].offset = req[r].offset
    BY <1>2 DEF Loading
  <2> QED BY <1>1, <1>2, <1>3, <1>11, <2>1 DEF InOrder, ShownBehind
<1> QED BY <1>1, <1>7, <1>8, <1>9, <1>10, <1>11 DEF InOrder

LEMMA LoadNothingWaiting ==
  ASSUME TypeOK, waits, Alone, InOrder, NEW r \in Requests, LoadNothing(r)
  PROVE  InOrder'
<1>1. req[r].at = "list" /\ req[r] # Idle /\ req[r].offset \in Nat /\ Goto(r, Idle)
  BY RequestFields DEF LoadNothing, Idle
<1>2. \A p \in Requests : req'[p] = Idle /\ ~Loading(p)' /\ req'[p].at # "propose"
  <2>1. \A p \in Requests : req'[p] = Idle
    BY <1>1, OnlyRequest
  <2> QED BY <2>1 DEF Loading, Idle
<1>3. panel'.more = FALSE /\ panel'.error = TRUE /\ found' = {}
  BY DEF LoadNothing, TypeOK
<1> QED BY <1>2, <1>3
        DEF InOrder, BatchesInOrder, Counted, Covered, RowsBehind, ShownBehind

LEMMA LoadFailsWaiting ==
  ASSUME TypeOK, waits, Alone, InOrder, NEW r \in Requests, LoadFails(r)
  PROVE  InOrder'
<1>1. req[r].at = "propose" /\ req[r] # Idle /\ Goto(r, Idle)
  BY DEF LoadFails, Idle
<1>2. \A p \in Requests : ~Loading(p)'
  <2>1. \A p \in Requests : req'[p] = Idle
    BY <1>1, OnlyRequest
  <2> QED BY <2>1 DEF Loading, Idle
<1>3. /\ panel'.more = panel.more /\ panel'.loaded = panel.loaded
      /\ panel'.next = panel.next /\ panel'.shown = panel.shown /\ panel'.error
      /\ UNCHANGED <<lost, found, shifted, rows>>
  BY DEF LoadFails, TypeOK, environment
<1>4. Rowed' = Rowed /\ StoredIds' = StoredIds
  BY <1>3 DEF Rowed, StoredIds, Stored
<1> QED BY <1>1, <1>2, <1>3, <1>4, QuietWaiting DEF Settled

LEMMA InsertRows ==
  ASSUME NEW S \in SUBSET Slots, NEW g, rows' = Insert(S, g)
  PROVE  /\ Rowed' = Rowed \cup S
         /\ \A s \in Rowed : rows'[s] = rows[s]
         /\ \A s \in S : s \notin Rowed =>
              rows'[s] = [gen |-> g, value |-> Proposed[s], status |-> "pending"]
<1>1. \A s \in Slots : rows'[s] =
        IF s \in S /\ rows[s] = NoRow
        THEN [gen |-> g, value |-> Proposed[s], status |-> "pending"] ELSE rows[s]
  BY DEF Insert
<1>2. \A v : [gen |-> g, value |-> v, status |-> "pending"] # NoRow
  <2>1. ASSUME NEW v, [gen |-> g, value |-> v, status |-> "pending"] = NoRow
        PROVE  FALSE
    <3>1. [gen |-> g, value |-> v, status |-> "pending"].status = "pending"
      OBVIOUS
    <3>2. NoRow.status = "none"
      BY DEF NoRow
    <3> QED BY <2>1, <3>1, <3>2
  <2> QED BY <2>1
<1> QED BY <1>1, <1>2 DEF Rowed

LEMMA ShownSlotOf ==
  ASSUME NEW s, NEW g, [slot |-> s, gen |-> g] \in panel'.shown
  PROVE  s \in ShownSlots'
<1>1. [slot |-> s, gen |-> g].slot = s
  OBVIOUS
<1> QED BY <1>1 DEF ShownSlots

LEMMA LoadSaveWaiting ==
  ASSUME TypeOK, TypeOK', waits, Alone, InOrder, NEW r \in Requests, LoadSave(r)
  PROVE  InOrder'
<1> DEFINE n == req[r].offset
           batch == req[r].batch
           proposals == batch \ lost
           fresh == {[slot |-> s, gen |-> req[r].gen] : s \in proposals}
<1>1. /\ req[r].at = "propose" /\ req[r] # Idle /\ Loading(r) /\ Goto(r, Idle)
      /\ n \in Nat /\ batch \subseteq Slots /\ req[r].gen \in 1..MaxGenerations
      /\ UNCHANGED <<lost, found, shifted>>
  BY RequestFields DEF LoadSave, Idle, Loading, environment
<1>2. \A p \in Requests : req'[p] = Idle /\ ~Loading(p)' /\ req'[p].at # "propose"
  <2>1. \A p \in Requests : req'[p] = Idle
    BY <1>1, OnlyRequest
  <2> QED BY <2>1 DEF Loading, Idle
<1>3. /\ panel'.more = req[r].more /\ panel'.loaded
      /\ panel'.next = n + Cardinality(proposals)
      /\ panel'.shown = IF n = 0 THEN fresh ELSE panel.shown \cup fresh
      /\ rows' = Insert(proposals, req[r].gen)
  BY DEF LoadSave, TypeOK
<1>4. /\ Rowed' = Rowed \cup proposals
      /\ \A s \in Rowed : rows'[s] = rows[s]
      /\ \A s \in proposals : s \notin Rowed => rows'[s] # NoRow /\ rows'[s].gen = req[r].gen
  <2> HIDE DEF proposals
  <2>1. proposals \subseteq Slots
    BY <1>1 DEF proposals
  <2>2. /\ Rowed' = Rowed \cup proposals
        /\ \A s \in Rowed : rows'[s] = rows[s]
        /\ \A s \in proposals : s \notin Rowed =>
             rows'[s] = [gen |-> req[r].gen, value |-> Proposed[s], status |-> "pending"]
    BY <1>3, <2>1, InsertRows
  <2>3. \A s \in proposals : rows'[s] # NoRow
    BY <2>1, <2>2 DEF Rowed
  <2>4. ASSUME NEW s \in proposals, s \notin Rowed
        PROVE  rows'[s].gen = req[r].gen
    <3>1. rows'[s] = [gen |-> req[r].gen, value |-> Proposed[s], status |-> "pending"]
      BY <2>2, <2>4
    <3> QED BY <3>1
  <2> QED BY <2>2, <2>3, <2>4
<1>5. /\ \A s \in proposals : s \in ShownSlots'
      /\ n # 0 => \A s \in ShownSlots : s \in ShownSlots'
  <2>1. ASSUME NEW s \in proposals
        PROVE  s \in ShownSlots'
    <3>1. [slot |-> s, gen |-> req[r].gen] \in panel'.shown
      BY <1>3
    <3> QED BY <3>1, ShownSlotOf
  <2>2. n # 0 => panel.shown \subseteq panel'.shown
    BY <1>3
  <2>3. n # 0 => \A s \in ShownSlots : s \in ShownSlots'
    BY <2>2 DEF ShownSlots
  <2> QED BY <2>1, <2>3
<1>6. \A s : Before(s)' = Before(s)
  BY <1>1 DEF Before, Earlier
<1>7. IsFiniteSet(batch) /\ Cardinality(batch) \in Nat /\ Cardinality(proposals) \in Nat
      /\ Cardinality(proposals) <= Cardinality(batch)
  <2>1. IsFiniteSet(batch)
    BY <1>1, ConstantsAssumption, FS_Subset
  <2> HIDE DEF batch
  <2>2. proposals \in SUBSET batch
    OBVIOUS
  <2> HIDE DEF proposals
  <2> QED BY <2>1, <2>2, FS_Subset, FS_CardinalityType
<1> HIDE DEF proposals, fresh
<1>8. BatchesInOrder' /\ Counted'
  BY <1>2, <1>3 DEF BatchesInOrder, Counted
<1>9. ASSUME ~shifted, NEW s \in found, s \notin lost,
             ~panel'.more \/ Before(s) < panel'.next
      PROVE  s \in Rowed' /\ s \in ShownSlots'
  <2>1. /\ batch = BatchOf(n) /\ Before(s) \in Nat /\ Before(s) < Cardinality(found)
        /\ req[r].more <=> n + Batch < Cardinality(found)
    BY <1>1, <1>9, BeforeType DEF InOrder, Counted
  <2>2. Cardinality(batch) <= Batch /\ Batch \in Nat /\ Cardinality(found) \in Nat
    BY <1>1, <2>1, BatchSize, FoundIsFinite, ConstantsAssumption
  <2>3. Before(s) < n + Batch
    BY <1>1, <1>3, <1>7, <1>9, <2>1, <2>2
  <2>4. CASE s \in batch
    BY <1>4, <1>5, <1>9, <2>4 DEF proposals
  <2>5. CASE s \notin batch
    <3>1. Before(s) < n /\ n # 0
      BY <1>1, <1>9, <2>1, <2>3, <2>5, BatchSize
    <3>2. panel.loaded /\ n = panel.next
      BY <1>1, <3>1 DEF InOrder, BatchesInOrder
    <3>3. s \in Rowed /\ s \in ShownSlots
      BY <1>9, <3>1, <3>2 DEF InOrder, Covered
    <3> QED BY <1>4, <1>5, <3>1, <3>3
  <2> QED BY <2>4, <2>5
<1>10. Covered'
  BY <1>1, <1>6, <1>9 DEF Covered
<1>11. ASSUME lost = {}
       PROVE  RowsBehind'
  <2>1. proposals = batch
    BY <1>11 DEF proposals
  <2>2. ASSUME NEW s \in found, s \in Rowed'
        PROVE  Before(s) < panel'.next
    <3>1. Before(s) \in Nat
      BY BeforeType
    <3>2. CASE s \in batch
      BY <1>1, <1>3, <1>11, <2>1, <3>2 DEF InOrder, RowsBehind
    <3>3. CASE s \notin batch
      <4>1. s \in Rowed
        BY <1>4, <2>1, <2>2, <3>3
      <4>2. panel.more /\ n = panel.next
        BY <1>1, <4>1 DEF InOrder, BatchesInOrder
      <4>3. Before(s) < n
        BY <1>11, <4>1, <4>2 DEF InOrder, RowsBehind
      <4> QED BY <1>1, <1>3, <1>7, <3>1, <4>3
    <3> QED BY <3>2, <3>3
  <2> QED BY <1>1, <1>2, <1>6, <2>2 DEF RowsBehind
<1>12. ASSUME lost = {}
       PROVE  ShownBehind'
  <2>1. proposals = batch
    BY <1>12 DEF proposals
  <2>2. \A s \in batch : s \notin Rowed
    BY <1>1, <1>12 DEF InOrder, RowsBehind
  <2>3. ASSUME NEW f \in fresh
        PROVE  f \in StoredIds'
    <3>1. PICK s \in batch : f = [slot |-> s, gen |-> req[r].gen]
      BY <2>1 DEF fresh
    <3>2. s \in Slots /\ f \in Id
      BY <1>1, <3>1 DEF Id
    <3> QED BY <1>4, <2>1, <2>2, <3>1, <3>2 DEF StoredIds, Stored
  <2>4. ASSUME NEW f \in panel.shown, n # 0
        PROVE  f \in StoredIds'
    <3>1. f \in StoredIds
      BY <1>1, <1>12, <2>4 DEF InOrder, BatchesInOrder, ShownBehind
    <3>2. f \in Id /\ f.slot \in Rowed
      BY <3>1, StoredSlots
    <3> QED BY <1>4, <3>1, <3>2 DEF StoredIds, Stored
  <2>5. panel'.shown \subseteq StoredIds'
    BY <1>3, <2>3, <2>4
  <2>6. ASSUME panel'.more
        PROVE  panel'.shown # {} /\ Rowed' # {}
    <3>1. PICK s \in batch : TRUE
      BY <1>1, <1>3, <1>12, <2>6 DEF InOrder, RowsBehind
    <3>2. [slot |-> s, gen |-> req[r].gen] \in fresh
      BY <2>1, <3>1 DEF fresh
    <3> QED BY <1>3, <1>4, <2>1, <3>1, <3>2
  <2> QED BY <2>5, <2>6 DEF ShownBehind
<1> QED BY <1>1, <1>8, <1>10, <1>11, <1>12 DEF InOrder

LEMMA OpenWaiting ==
  ASSUME TypeOK, waits, Alone, InOrder, NEW r \in Requests, Open(r)
  PROVE  InOrder'
<1>1. \A p \in Requests : ~Loading(p)' /\ req'[p].at # "propose"
  <2>1. \A p \in Requests : req[p] = Idle
    BY FreeWaiting DEF Open
  <2>2. /\ req'[r] = [at |-> "reload"]
        /\ \A p \in Requests : p # r => req'[p] = Idle
    BY <2>1, OnlyRequest DEF Open
  <2> QED BY <2>2 DEF Loading, Idle
<1>2. ~panel'.more /\ ~panel'.loaded /\ panel'.shown = {}
  BY DEF Open
<1> QED BY <1>1, <1>2
        DEF InOrder, BatchesInOrder, Counted, Covered, RowsBehind, ShownBehind

LEMMA ReloadWaiting ==
  ASSUME TypeOK, waits, Alone, InOrder, NEW r \in Requests, Reload(r)
  PROVE  InOrder'
<1>1. req[r].at = "reload" /\ req[r] # Idle /\ Goto(r, Idle) /\ ~Settled
  BY DEF Reload, Idle, Settled
<1>2. \A p \in Requests : ~Loading(p)' /\ req'[p].at # "propose"
  <2>1. \A p \in Requests : req'[p] = Idle
    BY <1>1, OnlyRequest
  <2> QED BY <2>1 DEF Loading, Idle
<1>3. /\ panel'.more = panel.more /\ panel'.loaded = panel.loaded
      /\ panel'.next = panel.next /\ panel'.shown = StoredIds
      /\ UNCHANGED <<lost, found, shifted, rows>>
  BY DEF Reload, TypeOK, environment
<1>4. Rowed' = Rowed /\ StoredIds' = StoredIds
  BY <1>3 DEF Rowed, StoredIds, Stored
<1>5. \A s \in Rowed : s \in ShownSlots'
  <2> SUFFICES ASSUME NEW s \in Rowed
               PROVE  s \in ShownSlots'
    OBVIOUS
  <2>1. [slot |-> s, gen |-> rows[s].gen] \in panel'.shown
    BY <1>3, StoredSlots
  <2> QED BY <2>1, ShownSlotOf
<1>6. \A s : Before(s)' = Before(s)
  BY <1>3 DEF Before, Earlier
<1>7. BatchesInOrder' /\ Counted'
  BY <1>1, <1>2, <1>3 DEF InOrder, BatchesInOrder, Counted
<1>8. Covered'
  BY <1>3, <1>4, <1>5, <1>6 DEF InOrder, Covered
<1>9. lost' = {} => RowsBehind'
  BY <1>2, <1>3, <1>4, <1>6 DEF InOrder, RowsBehind
<1>10. lost' = {} => ShownBehind'
  <2>1. Rowed # {} => StoredIds # {}
    BY StoredSlots
  <2> QED BY <1>3, <1>4, <2>1 DEF InOrder, ShownBehind
<1> QED BY <1>7, <1>8, <1>9, <1>10 DEF InOrder

LEMMA ClearWaiting ==
  ASSUME TypeOK, waits, Alone, InOrder, NEW r \in Requests, Clear(r)
  PROVE  InOrder'
<1>1. /\ \A p \in Requests : req'[p] = Idle
      /\ UNCHANGED req
  BY FreeWaiting DEF Clear
<1>2. \A p \in Requests : ~Loading(p)' /\ req'[p].at # "propose"
  BY <1>1 DEF Loading, Idle
<1>3. ~panel'.loaded /\ panel'.shown = {} /\ rows' = [s \in Slots |-> NoRow]
  BY DEF Clear, TypeOK
<1>4. Rowed' = {} /\ Settled'
  BY <1>1, <1>3 DEF Rowed, Settled
<1> QED BY <1>2, <1>3, <1>4
        DEF InOrder, BatchesInOrder, Counted, Covered, RowsBehind, ShownBehind

(* A store call keeps the rows that there are.                             *)
LEMMA WithKeepsRows ==
  ASSUME TypeOK, TypeOK', NEW f, f.slot \in Slots, NEW x, NEW v, rows' = With(f, x, v)
  PROVE  Rowed' = Rowed /\ StoredIds' = StoredIds
<1>1. ASSUME NEW s \in Slots, rows'[s] # rows[s]
      PROVE  rows[s] \in Row /\ rows'[s] \in Row /\ rows'[s].gen = rows[s].gen
  <2>1. s = f.slot /\ Stored(f) /\ rows'[s].status = x /\ rows'[s].gen = f.gen
    BY <1>1, WithRow
  <2>2. rows[s] \in Row /\ rows[s].gen = f.gen
    BY <2>1, StoredIsRow
  <2>3. rows' = [rows EXCEPT ![f.slot] = [@ EXCEPT !.status = x, !.value = v]]
    BY <2>1 DEF With
  <2>4. rows'[s] = [rows[s] EXCEPT !.status = x, !.value = v]
    BY <2>1, <2>3 DEF TypeOK
  <2>5. rows'[s].value = v /\ DOMAIN rows'[s] = DOMAIN rows[s]
    BY <2>2, <2>4 DEF Row
  <2>6. "value" \in DOMAIN rows'[s] /\ "value" \notin DOMAIN NoRow
    BY <2>2, <2>5 DEF Row, NoRow
  <2>7. rows'[s] # NoRow
    BY <2>6
  <2> QED BY <2>1, <2>2, <2>7 DEF TypeOK
<1>2. NoRow \notin Row
  BY DEF NoRow, Row
<1>3. Rowed' = Rowed
  BY <1>1, <1>2 DEF Rowed
<1>4. ASSUME NEW g \in Id
      PROVE  Stored(g)' <=> Stored(g)
  <2>1. g.slot \in Slots
    BY DEF Id
  <2> QED BY <1>1, <1>2, <2>1 DEF Stored
<1>5. StoredIds' = StoredIds
  BY <1>4 DEF StoredIds
<1> QED BY <1>3, <1>5

LEMMA PatchWaiting ==
  ASSUME TypeOK, waits, Alone, InOrder, NEW r \in Requests, Patch(r)
  PROVE  InOrder'
<1>1. PICK f \in panel.shown, v \in Values, x \in Reviewed : PatchStart(r, f, v, x)
  BY DEF Patch
<1> DEFINE q == [at |-> "update", fix |-> f, value |-> v, status |-> x]
<1>2. /\ Goto(r, q) /\ panel.shown # {}
      /\ UNCHANGED <<lost, found, shifted, rows, panel>>
  BY <1>1 DEF PatchStart, environment
<1>3. \A p \in Requests : req[p] = Idle /\ ~Loading(p) /\ ~Refreshing(p)
  BY <1>1, FreeWaiting DEF PatchStart
<1>4. req'[r] = q /\ \A p \in Requests : p # r => ~Loading(p)'
  BY <1>2, <1>3, OnlyRequest
<1>5. q.at = "update"
  OBVIOUS
<1> HIDE DEF q
<1>6. \A p \in Requests : ~Loading(p)'
  BY <1>4, <1>5 DEF Loading
<1>7. Rowed' = Rowed /\ StoredIds' = StoredIds
  BY <1>2 DEF Rowed, StoredIds, Stored
<1>8. lost = {} => panel.shown \subseteq StoredIds \/ panel'.error
  BY <1>2, <1>3 DEF InOrder, ShownBehind
<1> QED BY <1>2, <1>6, <1>7, <1>8, QuietWaiting

LEMMA ReviewWaiting ==
  ASSUME TypeOK, TypeOK', waits, Alone, InOrder, NEW r \in Requests,
         PatchUpdate(r) \/ PatchReply(r)
  PROVE  InOrder'
<1>1. /\ req[r].at \in {"update", "reply"} /\ req[r] # Idle /\ ~Settled
      /\ ~Loading(r) /\ ~Refreshing(r)
  BY DEF PatchUpdate, PatchReply, Idle, Settled, Loading, Refreshing, Applying
<1>2. PICK q : Goto(r, q) /\ q.at \in {"reply", "idle"}
  <2>1. CASE PatchUpdate(r)
    <3>1. [req[r] EXCEPT !.at = "reply"].at = "reply"
      <4>1. req[r] \in [at : {"update", "reply"}, fix : Id, value : Values, status : Reviewed]
        BY <1>1 DEF TypeOK, Request, Idle
      <4> QED BY <4>1
    <3> QED BY <2>1, <3>1 DEF PatchUpdate
  <2>2. CASE PatchReply(r)
    BY <2>2 DEF PatchReply, Idle
  <2> QED BY <2>1, <2>2
<1>3. /\ \A p \in Requests : ~Loading(p)'
      /\ \A p \in Requests : ~Loading(p) /\ ~Refreshing(p)
  <2>1. /\ req'[r] = q
        /\ \A p \in Requests : p # r =>
             ~Loading(p) /\ ~Loading(p)' /\ ~Refreshing(p) /\ ~Refreshing(p)'
    BY <1>1, <1>2, OnlyRequest
  <2> QED BY <1>1, <1>2, <2>1 DEF Loading
<1>4. /\ panel'.more = panel.more /\ panel'.loaded = panel.loaded
      /\ panel'.next = panel.next /\ panel'.shown = panel.shown
      /\ panel'.error = panel.error
      /\ UNCHANGED <<lost, found, shifted>>
  BY DEF PatchUpdate, PatchReply, TypeOK, environment
<1>5. Rowed' = Rowed /\ StoredIds' = StoredIds
  <2>1. CASE PatchUpdate(r)
    <3> DEFINE f == req[r].fix
               v == IF req[r].status = "skipped" /\ Stored(f) THEN rows[f.slot].value
                    ELSE req[r].value
    <3>1. rows' = With(f, req[r].status, v)
      BY <2>1 DEF PatchUpdate
    <3>2. f.slot \in Slots
      BY <1>1, RequestFields DEF Id
    <3> HIDE DEF f, v
    <3> QED BY <3>1, <3>2, WithKeepsRows
  <2>2. CASE PatchReply(r)
    BY <2>2 DEF PatchReply, Rowed, StoredIds, Stored
  <2> QED BY <2>1, <2>2
<1>6. lost = {} => panel.shown \subseteq StoredIds \/ panel'.error
  BY <1>3, <1>4 DEF InOrder, ShownBehind
<1> QED BY <1>1, <1>3, <1>4, <1>5, <1>6, QuietWaiting

LEMMA ApplyStartWaiting ==
  ASSUME TypeOK, waits, Alone, InOrder, NEW r \in Requests, ApplyStart(r)
  PROVE  InOrder'
<1> DEFINE q == IF ApprovedCopies = {} THEN [at |-> "reload"]
                ELSE [at |-> "login", todo |-> ApprovedCopies]
<1>1. /\ Goto(r, q) /\ panel.shown # {}
      /\ UNCHANGED <<lost, found, shifted, rows>>
      /\ panel'.more = panel.more /\ panel'.loaded = panel.loaded
      /\ panel'.next = panel.next /\ panel'.shown = panel.shown
  BY DEF ApplyStart, environment, TypeOK
<1>2. \A p \in Requests : req[p] = Idle
  BY FreeWaiting DEF ApplyStart
<1>3. q.at \in {"reload", "login"}
  OBVIOUS
<1> HIDE DEF q
<1>4. req'[r] = q /\ \A p \in Requests : p # r => ~Loading(p)'
  BY <1>1, <1>2, OnlyRequest
<1>5. Refreshing(r)' /\ \A p \in Requests : ~Loading(p)'
  BY <1>3, <1>4 DEF Loading, Refreshing, Applying
<1>6. Rowed' = Rowed /\ StoredIds' = StoredIds
  BY <1>1 DEF Rowed, StoredIds, Stored
<1> QED BY <1>1, <1>5, <1>6, QuietWaiting

LEMMA ApplyWaiting ==
  ASSUME TypeOK, TypeOK', waits, Alone, InOrder, NEW r \in Requests,
         ApplyLogin(r) \/ ApplySend(r) \/ ApplyMark(r) \/ ApplyFails(r)
  PROVE  InOrder'
<1>1. req[r].at \in Applying /\ req[r] # Idle /\ ~Settled
  BY DEF ApplyLogin, ApplySend, ApplyMark, ApplyFails, Applying, Idle, Settled
<1>2. req[r] \in [at : Applying, todo : SUBSET Copy]
  BY <1>1 DEF TypeOK, Request, Idle, Applying
<1>3. PICK q : /\ Goto(r, q)
               /\ q.at \in Applying \cup {"reload"} \/ (q = Idle /\ panel'.error)
  <2>1. CASE ApplyLogin(r)
    <3>1. [req[r] EXCEPT !.at = "send"].at = "send"
      BY <1>2
    <3> QED BY <2>1, <3>1 DEF ApplyLogin, Applying
  <2>2. CASE ApplySend(r)
    <3>1. PICK there \in {"applied", "failed"} : Goto(r, [req[r] EXCEPT !.at = there])
      BY <2>2 DEF ApplySend
    <3>2. [req[r] EXCEPT !.at = there].at = there
      BY <1>2
    <3> QED BY <3>1, <3>2 DEF Applying
  <2>3. CASE ApplyMark(r)
    <3>1. PICK c \in req[r].todo :
            Goto(r, IF req[r].at = "applied" /\ req[r].todo # {c}
                    THEN [at |-> "send", todo |-> req[r].todo \ {c}]
                    ELSE [at |-> "reload"])
      BY <2>3 DEF ApplyMark
    <3> QED BY <3>1 DEF Applying
  <2>4. CASE ApplyFails(r)
    BY <2>4 DEF ApplyFails, TypeOK
  <2> QED BY <2>1, <2>2, <2>3, <2>4
<1>4. /\ \A p \in Requests : ~Loading(p)'
      /\ Refreshing(r)' \/ panel'.error
  <2>1. /\ req'[r] = q
        /\ \A p \in Requests : p # r =>
             ~Loading(p) /\ ~Loading(p)' /\ ~Refreshing(p) /\ ~Refreshing(p)'
    BY <1>1, <1>3, OnlyRequest
  <2> QED BY <1>3, <2>1 DEF Loading, Refreshing, Applying, Idle
<1>5. /\ panel'.more = panel.more /\ panel'.loaded = panel.loaded
      /\ panel'.next = panel.next /\ panel'.shown = panel.shown
      /\ UNCHANGED <<lost, found, shifted>>
  BY DEF ApplyLogin, ApplySend, ApplyMark, ApplyFails, TypeOK, environment
<1>6. Rowed' = Rowed /\ StoredIds' = StoredIds
  <2>1. CASE ApplyMark(r)
    <3>1. PICK c \in req[r].todo :
            rows' = With(c, req[r].at, IF Stored(c) THEN rows[c.slot].value ELSE Blank)
      BY <2>1 DEF ApplyMark
    <3> DEFINE v == IF Stored(c) THEN rows[c.slot].value ELSE Blank
    <3>2. rows' = With(c, req[r].at, v)
      BY <3>1
    <3>3. c.slot \in Slots
      BY <1>2 DEF Copy
    <3> HIDE DEF v
    <3> QED BY <3>2, <3>3, WithKeepsRows
  <2>2. CASE ~ApplyMark(r)
    BY <2>2 DEF ApplyLogin, ApplySend, ApplyFails, Rowed, StoredIds, Stored
  <2> QED BY <2>1, <2>2
<1> QED BY <1>1, <1>4, <1>5, <1>6, QuietWaiting

LEMMA FindingGoesWaiting ==
  ASSUME TypeOK, TypeOK', waits, Alone, InOrder, FindingGoes
  PROVE  InOrder'
<1>1. /\ found' \subseteq found /\ shifted'
      /\ UNCHANGED <<lost, rows, req, panel>>
  BY DEF FindingGoes, environment
<1>2. \A s \in found' : Before(s)' <= Before(s)
  BY <1>1, BeforeShrinks
<1>3. \A s \in found' : Before(s) \in Nat /\ Before(s)' \in Nat
  <2>1. \A s \in found : Before(s) \in Nat
    BY BeforeType
  <2>2. IsFiniteSet(found') /\ \A S \in SUBSET found' : Cardinality(S) \in Nat
    <3>1. IsFiniteSet(found')
      BY <1>1, FoundIsFinite
    <3> QED BY <3>1, FS_Subset, FS_CardinalityType
  <2>3. \A s \in found' : Earlier(s)' \subseteq found'
    BY DEF Earlier
  <2> QED BY <1>1, <2>1, <2>2, <2>3 DEF Before
<1>4. Rowed' = Rowed /\ StoredIds' = StoredIds
  BY <1>1 DEF Rowed, StoredIds, Stored
<1>5. BatchesInOrder' /\ Counted' /\ Covered'
  BY <1>1, <1>4 DEF InOrder, BatchesInOrder, Loading, Settled, Counted, Covered
<1>6. ASSUME lost = {}
      PROVE  RowsBehind'
  <2>1. panel.next \in Nat
    BY DEF TypeOK
  <2>2. \A r \in Requests : req[r].at = "propose" =>
          req[r].offset + Cardinality(req[r].batch) \in Nat
    <3> SUFFICES ASSUME NEW r \in Requests, req[r].at = "propose"
                 PROVE  req[r].offset + Cardinality(req[r].batch) \in Nat
      OBVIOUS
    <3>1. req[r].offset \in Nat /\ req[r].batch \subseteq Slots
      BY RequestFields
    <3>2. Cardinality(req[r].batch) \in Nat
      BY <3>1, ConstantsAssumption, FS_Subset, FS_CardinalityType
    <3> QED BY <3>1, <3>2
  <2>3. panel'.more => \A s \in found' : s \in Rowed' => Before(s)' < panel'.next
    BY <1>1, <1>2, <1>3, <1>4, <1>6, <2>1 DEF InOrder, RowsBehind
  <2>4. \A r \in Requests : req[r].at = "propose" =>
          \A s \in req[r].batch :
            s \in found' => Before(s)' < req[r].offset + Cardinality(req[r].batch)
    BY <1>1, <1>2, <1>3, <1>6, <2>2 DEF InOrder, RowsBehind
  <2> QED BY <1>1, <1>4, <1>6, <2>3, <2>4 DEF InOrder, RowsBehind
<1>7. lost = {} => ShownBehind'
  BY <1>1, <1>4 DEF InOrder, ShownBehind, Refreshing, Loading
<1> QED BY <1>1, <1>5, <1>6, <1>7 DEF InOrder

LEMMA CrashWaiting ==
  ASSUME TypeOK, waits, InOrder, Crash
  PROVE  InOrder'
<1>1. ~Settled
  BY DEF Crash, Settled
<1>2. \A p \in Requests : req'[p] = Idle /\ ~Loading(p)'
  BY DEF Crash, Loading, Idle
<1>3. /\ panel'.more = panel.more /\ panel'.loaded = panel.loaded
      /\ panel'.next = panel.next /\ panel'.shown = panel.shown /\ panel'.error
      /\ UNCHANGED <<lost, found, shifted, rows>>
  BY DEF Crash, TypeOK, environment
<1>4. Rowed' = Rowed /\ StoredIds' = StoredIds
  BY <1>3 DEF Rowed, StoredIds, Stored
<1> QED BY <1>1, <1>2, <1>3, <1>4, QuietWaiting

LEMMA StutterWaiting ==
  ASSUME TypeOK, waits, InOrder, UNCHANGED vars
  PROVE  InOrder'
BY DEF vars, environment, InOrder, BatchesInOrder, Counted, Covered, RowsBehind, ShownBehind,
       Loading, Refreshing, Settled, Rowed, ShownSlots, Before, Earlier, BatchOf, StoredIds, Stored

LEMMA WaitingNext == TypeOK /\ TypeOK' /\ Exact /\ Waiting /\ [Next]_vars => Waiting'
<1> SUFFICES ASSUME TypeOK, TypeOK', Exact, Waiting, [Next]_vars, waits'
             PROVE  InOrder'
  BY DEF Waiting
<1>1. waits
  BY DEF Next, Serve, LoadList, LoadNothing, LoadFails, LoadSave, Reload, PatchUpdate,
         PatchReply, ApplyLogin, ApplySend, ApplyMark, ApplyFails, Load, LoadStart, Open,
         Clear, Patch, PatchStart, ApplyStart, FindingGoes, Crash, vars, environment
<1>2. Alone /\ InOrder
  BY <1>1 DEF Exact, Waiting
<1>3. ASSUME NEW r \in Requests, Serve(r)
      PROVE  InOrder'
  BY <1>1, <1>2, <1>3, LoadListWaiting, LoadNothingWaiting, LoadFailsWaiting,
     LoadSaveWaiting, ReloadWaiting, ReviewWaiting, ApplyWaiting DEF Serve
<1>4. ASSUME NEW r \in Requests, Load(r)
      PROVE  InOrder'
  BY <1>1, <1>2, <1>4, LoadStartWaiting DEF Load
<1>5. ASSUME NEW r \in Requests, Open(r) \/ Clear(r) \/ Patch(r) \/ ApplyStart(r)
      PROVE  InOrder'
  BY <1>1, <1>2, <1>5, OpenWaiting, ClearWaiting, PatchWaiting, ApplyStartWaiting
<1>6. CASE FindingGoes \/ Crash \/ UNCHANGED vars
  BY <1>1, <1>2, <1>6, FindingGoesWaiting, CrashWaiting, StutterWaiting
<1> QED BY <1>3, <1>4, <1>5, <1>6 DEF Next

(* With an operator who waits and pages that all resolve, what the panel   *)
(* shows without an error is stored, whatever failed, went away or was     *)
(* loaded again before (ShownIsStored).                                    *)
THEOREM ShownCanBeApproved == Spec => []ShownIsStored
<1>1. TypeOK /\ Waiting => ShownIsStored
  <2> SUFFICES ASSUME TypeOK, Waiting, waits, lost = {}, Settled, ~panel.error
               PROVE  panel.shown \subseteq StoredIds
    BY DEF ShownIsStored
  <2>1. \A r \in Requests : ~Refreshing(r) /\ ~Loading(r)
    BY DEF Settled, Refreshing, Loading, Applying, Idle
  <2> QED BY <2>1 DEF Waiting, InOrder, ShownBehind
<1> QED BY <1>1, TypeInit, TypeNext, ExactInit, ExactNext, WaitingInit, WaitingNext, PTL
        DEF Spec

(* Whatever the batch size and the number of findings, the batches of an   *)
(* operator who waits reach every finding whose page resolves (AllLoaded). *)
THEOREM BatchesReachAll == Spec => []AllLoaded
<1>1. TypeOK /\ Waiting => AllLoaded
  <2> SUFFICES ASSUME TypeOK, Waiting, waits, ~shifted, panel.loaded,
                      ~panel.more \/ (lost = {} /\ panel.shown = {}),
                      NEW s \in found \ lost
               PROVE  s \in ShownSlots
    BY DEF AllLoaded, ShownSlots
  <2>1. ~panel.more
    BY DEF Waiting, InOrder, ShownBehind
  <2> QED BY <2>1 DEF Waiting, InOrder, Covered
<1> QED BY <1>1, TypeInit, TypeNext, ExactInit, ExactNext, WaitingInit, WaitingNext, PTL
        DEF Spec

=============================================================================
