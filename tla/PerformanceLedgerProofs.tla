---------------------- MODULE PerformanceLedgerProofs ----------------------
(***************************************************************************)
(* What is proved about PerformanceLedger, for every set of pages, bundles,*)
(* imports and priority files, as long as a request waits for the one      *)
(* before it (OneAtATime): a write leaves alone what it brings nothing for *)
(* and a row only bundles wrote is as fresh as its oldest part.  Both rest *)
(* on Undisturbed: what the request in hand has read is still what the     *)
(* ledger holds when it writes.                                            *)
(***************************************************************************)
EXTENDS PerformanceLedger, TLAPS, FiniteSetTheorems, WellFoundedInduction

(* A row that has been written: every column, and a stamp.                 *)
IsRow(row) ==
  /\ row = [clicks |-> row.clicks, shown |-> row.shown, rate |-> row.rate,
            sessions |-> row.sessions, conversions |-> row.conversions,
            stamp |-> row.stamp]
  /\ row.stamp \in Nat

BundleBase(b) ==
  [p \in Pages |->
     LET own == For(b, p)
     IN  IF DOMAIN own = {} \/ (Brings(own, "gsc") /\ Brings(own, "ga4"))
         THEN NoRow ELSE ledger[p]]

(* A request in hand, with what the ledger holds now as what it read.      *)
BundleInHand(q) ==
  \E b \in Bundles, stamp \in 0..day :
    q = [at |-> "bundle", entries |-> b, stamp |-> stamp, base |-> BundleBase(b)]
UploadInHand(q) ==
  \E file \in Uploads, stamp \in 0..day :
    q = [at |-> "upload", entries |-> file, stamp |-> stamp, base |-> MergeMap(file)]

Undisturbed ==
  \A r \in Requests :
    request[r] = Idle \/ BundleInHand(request[r]) \/ UploadInHand(request[r])

Alone ==
  \A r, s \in Requests : request[r] # Idle /\ request[s] # Idle => r = s

Types ==
  /\ day \in Nat
  /\ request = [r \in Requests |-> request[r]]
  /\ \A p \in Pages : ledger[p] = NoRow \/ IsRow(ledger[p])
  /\ vintage \in [Pages -> [search : Count, analytics : Count, bundled : BOOLEAN]]

(* A row bundles alone wrote is stamped no later than its parts; a page    *)
(* without a row has none.                                                 *)
Dated ==
  \A p \in Pages : vintage[p].bundled =>
    \A part \in {vintage[p].search, vintage[p].analytics} :
      part # None => HasRow(p) /\ ledger[p].stamp <= part

Inv == Types /\ Alone /\ Undisturbed /\ Dated

(***************************************************************************)
(* Rows.                                                                   *)
(***************************************************************************)

(* No written row is NoRow.                                                *)
LEMMA RowsAreWritten == ASSUME NEW row, IsRow(row) PROVE row # NoRow
<1>1. SUFFICES ASSUME row = NoRow PROVE FALSE
  OBVIOUS
<1>2. "stamp" \in DOMAIN row
  BY DEF IsRow
<1>3. "stamp" \notin DOMAIN NoRow
  BY DEF NoRow
<1> QED BY <1>1, <1>2, <1>3

(* Entries folded to one record make a row, stamped as they are.           *)
LEMMA FoldMakesRow ==
  ASSUME NEW own, NEW stamp \in Nat
  PROVE  IsRow(Fold(own, stamp)) /\ Fold(own, stamp).stamp = stamp
BY DEF Fold, Record, IsRow

(* What is written over a row is the record, but for the analytics it      *)
(* lacks.                                                                  *)
LEMMA UpsertMakesRow ==
  ASSUME ConstantsAssumption, NEW row, NEW rec, IsRow(rec)
  PROVE  /\ IsRow(Upsert(row, rec))
         /\ Upsert(row, rec).stamp = rec.stamp
         /\ Search(Upsert(row, rec)) = Search(rec)
         /\ row # NoRow =>
              Analytics(Upsert(row, rec)) = <<OrElse(rec.sessions, row.sessions),
                                              OrElse(rec.conversions, row.conversions)>>
BY DEF ConstantsAssumption, Upsert, IsRow, OrElse, IsNone, Search, Analytics

(* What a bundle does not bring is what the row read had, and the record   *)
(* is then stamped no later than that row.                                 *)
LEMMA CarryKeeps ==
  ASSUME NEW rec, NEW own, NEW base, IsRow(rec), base = NoRow \/ IsRow(base)
  PROVE  /\ IsRow(Carry(rec, own, base))
         /\ \/ base = NoRow
            \/ Brings(own, "gsc") /\ Brings(own, "ga4")
            \/ /\ Carry(rec, own, base).stamp = Earlier(rec.stamp, base.stamp)
               /\ ~Brings(own, "gsc") => Search(Carry(rec, own, base)) = Search(base)
               /\ ~Brings(own, "ga4") =>
                    Analytics(Carry(rec, own, base)) = Analytics(base)
         /\ (base = NoRow \/ (Brings(own, "gsc") /\ Brings(own, "ga4"))) =>
              Carry(rec, own, base) = rec
<1>1. CASE base = NoRow \/ (Brings(own, "gsc") /\ Brings(own, "ga4"))
  BY <1>1 DEF Carry
<1>2. CASE ~(base = NoRow \/ (Brings(own, "gsc") /\ Brings(own, "ga4")))
  <2>1. Earlier(rec.stamp, base.stamp) \in Nat
    BY <1>2 DEF Earlier, IsRow
  <2> DEFINE search == IF Brings(own, "gsc") THEN rec
                       ELSE [rec EXCEPT !.clicks = base.clicks,
                                        !.shown = base.shown, !.rate = base.rate]
             both == IF Brings(own, "ga4") THEN search
                     ELSE [search EXCEPT !.sessions = base.sessions,
                                         !.conversions = base.conversions]
             result == [both EXCEPT !.stamp = Earlier(@, base.stamp)]
  <2>2. Carry(rec, own, base) = result
    BY <1>2 DEF Carry
  <2>3. IsRow(search) /\ search.stamp = rec.stamp
        /\ (~Brings(own, "gsc") => Search(search) = Search(base))
    BY DEF IsRow, Search
  <2>4. IsRow(both) /\ both.stamp = rec.stamp /\ Search(both) = Search(search)
        /\ (~Brings(own, "ga4") => Analytics(both) = Analytics(base))
    <3> HIDE DEF search
    <3> QED BY <2>3 DEF IsRow, Search, Analytics
  <2>5. /\ IsRow(result) /\ result.stamp = Earlier(rec.stamp, base.stamp)
        /\ Search(result) = Search(both) /\ Analytics(result) = Analytics(both)
    <3> HIDE DEF both
    <3> QED BY <2>1, <2>4 DEF IsRow, Search, Analytics
  <2> QED BY <1>2, <2>2, <2>3, <2>4, <2>5
<1> QED BY <1>1, <1>2

(***************************************************************************)
(* Priority files: entries of one page, written one after another.         *)
(***************************************************************************)

(* A set of numbers that is not empty has a least element.                 *)
LEMMA Least ==
  ASSUME NEW T, T \subseteq Nat, T # {}
  PROVE  \E n \in T : \A m \in T : n <= m
<1>1. PICK k \in T : TRUE
  OBVIOUS
<1> DEFINE S == 0..k
           F == {0..m : m \in T \cap S}
           R == StrictSubsetOrdering(S)
<1>2. IsFiniteSet(S)
  BY <1>1, FS_Interval
<1>3. F \subseteq FiniteSubsetsOf(S) /\ F # {}
  <2>1. \A m \in T \cap S : 0..m \in SUBSET S
    OBVIOUS
  <2>2. 0..k \in F
    BY <1>1
  <2> QED BY <1>2, <2>1, <2>2, FS_FiniteSubsetsOfFinite
<1>4. IsWellFoundedOn(R, FiniteSubsetsOf(S))
  BY FS_StrictSubsetOrderingWellFounded
<1>5. PICK x \in F : \A y \in F : ~ (<<y, x>> \in R)
  <2> HIDE DEF F, R, S
  <2> QED BY <1>3, <1>4, WFMin, Zenon
<1>6. PICK n \in T \cap S : x = 0..n
  OBVIOUS
<1>7. ASSUME NEW m \in T, m < n
      PROVE  FALSE
  <2>1. m \in T \cap S
    BY <1>7, <1>1
  <2>2. 0..m \in F /\ 0..m \subseteq 0..n /\ n \notin 0..m /\ n \in 0..n
    BY <1>7, <2>1, <1>6
  <2>3. <<0..m, x>> \in R
    BY <2>1, <2>2, <1>6 DEF StrictSubsetOrdering
  <2> QED BY <1>5, <2>2, <2>3
<1> QED BY <1>6, <1>7


Write(entries, stamp, p, base, row, n) ==
  IF n \in DOMAIN For(entries, p)
  THEN Upsert(row, UploadRecord(entries[n], stamp, base)) ELSE row

(* f gives the row of page p after each of the first n entries.            *)
FirstRows(f, n, entries, stamp, p, base) ==
  f = [i \in 0..n |-> IF i = 0 THEN ledger[p]
                      ELSE Write(entries, stamp, p, base, f[i - 1], i)]

LEMMA FirstRowsExist ==
  ASSUME NEW entries, NEW stamp, NEW p, NEW base
  PROVE  \A n \in Nat : \E f : FirstRows(f, n, entries, stamp, p, base)
<1> DEFINE T == {n \in Nat : ~ \E f : FirstRows(f, n, entries, stamp, p, base)}
<1>1. SUFFICES ASSUME T # {}
               PROVE  FALSE
  OBVIOUS
<1>2. PICK k \in T : \A i \in T : k <= i
  <2>1. T \subseteq Nat
    OBVIOUS
  <2> HIDE DEF T
  <2> QED BY <1>1, <2>1, Least
<1>3. CASE k = 0
  <2>1. FirstRows([i \in 0..0 |-> ledger[p]], 0, entries, stamp, p, base)
    BY DEF FirstRows
  <2> QED BY <1>2, <1>3, <2>1
<1>4. CASE k # 0
  <2>1. k - 1 \in Nat /\ k - 1 \notin T
    BY <1>2, <1>4
  <2>2. PICK g : FirstRows(g, k - 1, entries, stamp, p, base)
    BY <2>1
  <2> DEFINE h == [i \in 0..k |-> IF i = k THEN Write(entries, stamp, p, base, g[k - 1], k)
                                  ELSE g[i]]
  <2>3. ASSUME NEW i \in 0..k
        PROVE  h[i] = IF i = 0 THEN ledger[p]
                      ELSE Write(entries, stamp, p, base, h[i - 1], i)
    <3>1. CASE i = k
      BY <1>4, <3>1
    <3>2. CASE i # k /\ i # 0
      <4>1. i \in 0..(k - 1) /\ i - 1 \in 0..k /\ i - 1 # k
        BY <3>2
      <4>2. g[i] = Write(entries, stamp, p, base, g[i - 1], i)
        BY <2>2, <3>2, <4>1 DEF FirstRows
      <4> QED BY <3>2, <4>1, <4>2
    <3>3. CASE i # k /\ i = 0
      BY <2>1, <2>2, <3>3 DEF FirstRows
    <3> QED BY <3>1, <3>2, <3>3
  <2>4. FirstRows(h, k, entries, stamp, p, base)
    <3>1. h = [i \in 0..k |-> h[i]]
      OBVIOUS
    <3> HIDE DEF h
    <3> QED BY <2>3, <3>1 DEF FirstRows
  <2> QED BY <1>2, <2>4
<1> QED BY <1>3, <1>4

LEMMA WrittenRecursion ==
  ASSUME NEW entries \in Seq(Entries), NEW stamp, NEW p, NEW base
  PROVE  FirstRows(Written(entries, stamp, p, base), Len(entries), entries, stamp, p, base)
<1> DEFINE Rec(f) == FirstRows(f, Len(entries), entries, stamp, p, base)
<1>1. PICK g : Rec(g)
  <2>1. Len(entries) \in Nat
    OBVIOUS
  <2> QED BY <2>1, FirstRowsExist
<1>2. Written(entries, stamp, p, base) = CHOOSE f : Rec(f)
  BY DEF Written, FirstRows, Write
<1> HIDE DEF Rec
<1>3. Rec(Written(entries, stamp, p, base))
  BY <1>1, <1>2, Zenon
<1> QED BY <1>3 DEF Rec

LEMMA OwnEntries ==
  ASSUME NEW entries, NEW p
  PROVE  /\ DOMAIN For(entries, p) = {i \in DOMAIN entries : MatchOf[entries[i].url] = p}
         /\ \A i \in DOMAIN For(entries, p) : For(entries, p)[i] = entries[i]
BY DEF For, RestrictValues, Restrict

(* A priority file leaves each page the row its last entry for it wrote.   *)
LEMMA LastEntryWrites ==
  ASSUME NEW entries \in Seq(Entries), NEW stamp, NEW p, NEW base
  PROVE  \/ /\ DOMAIN For(entries, p) = {}
            /\ Written(entries, stamp, p, base)[Len(entries)] = ledger[p]
         \/ \E i \in DOMAIN For(entries, p) : \E before :
              Written(entries, stamp, p, base)[Len(entries)]
                = Upsert(before, UploadRecord(entries[i], stamp, base))
<1> DEFINE W == Written(entries, stamp, p, base)
           own == DOMAIN For(entries, p)
           ByEntry(row) == \E i \in own : \E before :
                             row = Upsert(before, UploadRecord(entries[i], stamp, base))
           T == {n \in 0..Len(entries) :
                   ~ ((own \cap 1..n = {} /\ W[n] = ledger[p]) \/ ByEntry(W[n]))}
<1>0. Len(entries) \in Nat /\ DOMAIN entries = 1..Len(entries)
  OBVIOUS
<1>1. /\ W[0] = ledger[p]
      /\ \A i \in 1..Len(entries) : W[i] = Write(entries, stamp, p, base, W[i - 1], i)
  <2>1. PICK f : f = W
    OBVIOUS
  <2>2. FirstRows(f, Len(entries), entries, stamp, p, base)
    BY <2>1, WrittenRecursion
  <2>3. Len(entries) \in Nat
    OBVIOUS
  <2>4. \A i \in 0..Len(entries) :
          f[i] = IF i = 0 THEN ledger[p] ELSE Write(entries, stamp, p, base, f[i - 1], i)
    BY <2>2 DEF FirstRows
  <2>5. /\ f[0] = ledger[p]
        /\ \A i \in 1..Len(entries) : f[i] = Write(entries, stamp, p, base, f[i - 1], i)
    BY <2>3, <2>4
  <2> HIDE DEF W
  <2> QED BY <2>1, <2>5
<1> HIDE DEF W
<1>2. T = {}
  <2>1. SUFFICES ASSUME T # {}
                 PROVE  FALSE
    OBVIOUS
  <2>2. PICK k \in T : \A i \in T : k <= i
    <3>1. T \subseteq Nat
      OBVIOUS
    <3> HIDE DEF T
    <3> QED BY <2>1, <3>1, Least
  <2>3. k # 0
    BY <1>1
  <2>4. k \in 1..Len(entries) /\ k - 1 \in 0..Len(entries) /\ k - 1 \notin T
    <3>1. k \in 1..Len(entries) /\ k - 1 \in 0..Len(entries)
      BY <2>2, <2>3, <1>0
    <3>2. ~ (k <= k - 1)
      BY <3>1, <1>0
    <3> QED BY <2>2, <3>1, <3>2, Zenon
  <2>5. (own \cap 1..(k - 1) = {} /\ W[k - 1] = ledger[p]) \/ ByEntry(W[k - 1])
    BY <2>4
  <2>6. W[k] = IF k \in own
               THEN Upsert(W[k - 1], UploadRecord(entries[k], stamp, base)) ELSE W[k - 1]
    BY <1>1, <2>4 DEF Write
  <2>7. CASE k \in own
    <3>1. ByEntry(W[k])
      BY <2>6, <2>7
    <3> QED BY <2>2, <3>1
  <2>8. CASE k \notin own
    <3>1. W[k] = W[k - 1] /\ 1..k = 1..(k - 1) \cup {k}
      BY <2>4, <2>6, <2>8
    <3>2. (own \cap 1..k = {} /\ W[k] = ledger[p]) \/ ByEntry(W[k])
      <4> HIDE DEF own, ByEntry
      <4> QED BY <2>5, <2>8, <3>1
    <3> QED BY <2>2, <3>2
  <2> QED BY <2>7, <2>8
<1>3. own \subseteq 1..Len(entries)
  BY <1>0, OwnEntries
<1>4. (own \cap 1..Len(entries) = {} /\ W[Len(entries)] = ledger[p])
      \/ ByEntry(W[Len(entries)])
  <2>1. Len(entries) \in 0..Len(entries)
    BY <1>0
  <2> HIDE DEF own, ByEntry
  <2> QED BY <1>2, <2>1
<1> QED BY <1>3, <1>4 DEF W

(***************************************************************************)
(* The writes.                                                             *)
(***************************************************************************)

(* A request that may begin under OneAtATime is the only one.              *)
LEMMA BeginsAlone ==
  ASSUME OneAtATime, NEW r \in Requests, MayBegin(r)
  PROVE  \A s \in Requests : request[s] = Idle
BY DEF MayBegin

(* What a saving bundle leaves on a page it has entries for.               *)
LEMMA BundleWrites ==
  ASSUME Types, Undisturbed, NEW r \in Requests, SaveBundle(r), NEW p \in Pages,
         DOMAIN For(request[r].entries, p) # {}
  PROVE  LET own == For(request[r].entries, p)
             old == ledger[p]
             new == ledger'[p]
         IN  /\ request[r].stamp \in Nat
             /\ IsRow(new)
             /\ old = NoRow => new.stamp = request[r].stamp
             /\ old # NoRow =>
                  \/ Brings(own, "gsc") /\ Brings(own, "ga4") /\ new.stamp = request[r].stamp
                  \/ /\ new.stamp = Earlier(request[r].stamp, old.stamp)
                     /\ ~Brings(own, "gsc") => Search(new) = Search(old)
                     /\ ~Brings(own, "ga4") => Analytics(new) = Analytics(old)
<1> DEFINE q == request[r]
           own == For(q.entries, p)
           rec == Fold(own, q.stamp)
           both == Brings(own, "gsc") /\ Brings(own, "ga4")
           carried == Carry(rec, own, q.base[p])
<1>1. BundleInHand(q)
  <2>1. q = Idle \/ BundleInHand(q) \/ UploadInHand(q)
    BY DEF Undisturbed
  <2>2. q.at = "bundle"
    BY DEF SaveBundle
  <2> HIDE DEF q
  <2>3. q # Idle
    BY <2>2 DEF Idle
  <2>4. ~UploadInHand(q)
    BY <2>2 DEF UploadInHand
  <2> QED BY <2>1, <2>3, <2>4
<1>2. /\ q.stamp \in Nat
      /\ q.base[p] = IF both THEN NoRow ELSE ledger[p]
  BY <1>1 DEF BundleInHand, BundleBase, Types
<1>3. IsRow(rec) /\ rec.stamp = q.stamp
  BY <1>2, FoldMakesRow
<1>4. ledger'[p] = Upsert(ledger[p], carried)
  BY DEF SaveBundle, Matched, BundleRecord
<1>5. q.base[p] = NoRow \/ IsRow(q.base[p])
  BY <1>2 DEF Types
<1> HIDE DEF rec, own, q
<1>6. /\ IsRow(carried)
      /\ \/ q.base[p] = NoRow
         \/ both
         \/ /\ carried.stamp = Earlier(rec.stamp, q.base[p].stamp)
            /\ ~Brings(own, "gsc") => Search(carried) = Search(q.base[p])
            /\ ~Brings(own, "ga4") => Analytics(carried) = Analytics(q.base[p])
      /\ q.base[p] = NoRow \/ both => carried = rec
  BY <1>3, <1>5, CarryKeeps
<1> HIDE DEF carried
<1>7. /\ IsRow(ledger'[p])
      /\ ledger'[p].stamp = carried.stamp
      /\ Search(ledger'[p]) = Search(carried)
      /\ ledger[p] # NoRow =>
           Analytics(ledger'[p]) = <<OrElse(carried.sessions, ledger[p].sessions),
                                     OrElse(carried.conversions, ledger[p].conversions)>>
  BY <1>4, <1>6, ConstantsAssumption, UpsertMakesRow
<1>8. CASE both
  BY <1>2, <1>3, <1>6, <1>7, <1>8 DEF q, own
<1>9. CASE ~both /\ ledger[p] = NoRow
  BY <1>2, <1>3, <1>6, <1>7, <1>9 DEF q, own
<1>10. CASE ~both /\ ledger[p] # NoRow
  <2>1. ~Brings(own, "ga4") => Analytics(ledger'[p]) = Analytics(ledger[p])
    BY <1>2, <1>6, <1>7, <1>10 DEF Analytics, OrElse
  <2>2. ledger'[p].stamp = Earlier(q.stamp, ledger[p].stamp)
    BY <1>2, <1>3, <1>6, <1>7, <1>10
  <2>3. ~Brings(own, "gsc") => Search(ledger'[p]) = Search(ledger[p])
    BY <1>2, <1>6, <1>7, <1>10
  <2> QED BY <1>2, <1>7, <1>10, <2>1, <2>2, <2>3 DEF q, own
<1> QED BY <1>8, <1>9, <1>10

(* A priority file writes a row to each page it has entries for, and with  *)
(* no clicks of its own keeps those that are there.                        *)
LEMMA UploadWrites ==
  ASSUME Types, Undisturbed, NEW r \in Requests, SaveUpload(r), NEW p \in Pages
  PROVE  LET own == For(request[r].entries, p)
         IN  /\ DOMAIN own = {} => ledger'[p] = ledger[p]
             /\ DOMAIN own # {} => IsRow(ledger'[p])
             /\ HasRow(p) => \/ \E i \in DOMAIN own : ~IsNone(own[i].clicks)
                             \/ ledger'[p].clicks = ledger[p].clicks
<1> DEFINE q == request[r]
<1>1. UploadInHand(q)
  <2>1. q = Idle \/ BundleInHand(q) \/ UploadInHand(q)
    BY DEF Undisturbed
  <2>2. q.at = "upload"
    BY DEF SaveUpload
  <2> HIDE DEF q
  <2>3. q # Idle
    BY <2>2 DEF Idle
  <2>4. ~BundleInHand(q)
    BY <2>2 DEF BundleInHand
  <2> QED BY <2>1, <2>3, <2>4
<1>2. PICK file \in Uploads, stamp \in 0..day :
        q = [at |-> "upload", entries |-> file, stamp |-> stamp, base |-> MergeMap(file)]
  BY <1>1 DEF UploadInHand
<1>3. stamp \in Nat /\ file \in Seq(Entries)
  BY ConstantsAssumption DEF ConstantsAssumption, Types
<1> DEFINE own == For(file, p)
           base == MergeMap(file)[p]
<1>4. request[r].entries = file /\ ledger'[p] = Written(file, stamp, p, base)[Len(file)]
  BY <1>2 DEF SaveUpload
<1>5. CASE DOMAIN own = {}
  BY <1>3, <1>4, <1>5, LastEntryWrites
<1>6. CASE DOMAIN own # {}
  <2>1. PICK i \in DOMAIN own : \E before :
          ledger'[p] = Upsert(before, UploadRecord(file[i], stamp, base))
    BY <1>3, <1>4, <1>6, LastEntryWrites
  <2> DEFINE rec == UploadRecord(file[i], stamp, base)
  <2>2. IsRow(rec)
    BY <1>3 DEF UploadRecord, IsRow
  <2>3. IsRow(ledger'[p]) /\ Search(ledger'[p]) = Search(rec)
    BY <2>1, <2>2, ConstantsAssumption, UpsertMakesRow
  <2>4. ASSUME HasRow(p), IsNone(own[i].clicks)
        PROVE  ledger'[p].clicks = ledger[p].clicks
    <3>1. own[i] = file[i] /\ i \in DOMAIN file
      BY OwnEntries
    <3>2. base = ledger[p]
      BY <1>6, <2>4, <3>1 DEF MergeMap, Omits, Matched
    <3>3. rec.clicks = ledger[p].clicks
      BY <2>4, <3>1, <3>2 DEF UploadRecord, OrElse, HasRow
    <3> QED BY <2>3, <3>3 DEF Search
  <2> QED BY <1>4, <1>6, <2>3, <2>4
<1> QED BY <1>5, <1>6

(* The live import writes rows without analytics: what a row has of them   *)
(* stays.                                                                  *)
LEMMA ImportWrites ==
  ASSUME Types, NEW rows \in Imports, NEW p \in Pages,
         DOMAIN For(rows, p) # {}
  PROVE  LET new == Upsert(ledger[p], Fold(For(rows, p), day))
         IN  IsRow(new) /\ (HasRow(p) => Analytics(new) = Analytics(ledger[p]))
<1> DEFINE own == For(rows, p)
           rec == Fold(own, day)
<1>1. day \in Nat
  BY DEF Types
<1>2. IsRow(rec)
  BY <1>1, FoldMakesRow
<1>3. /\ DOMAIN own \subseteq Nat
      /\ \A i \in DOMAIN own : own[i].sessions = None /\ own[i].conversions = None
  <2>1. /\ DOMAIN own \subseteq DOMAIN rows
        /\ \A i \in DOMAIN own : own[i] = rows[i]
    BY OwnEntries
  <2>2. /\ rows \in Seq(Entries)
        /\ \A i \in DOMAIN rows : rows[i].sessions = None /\ rows[i].conversions = None
    BY ConstantsAssumption DEF ConstantsAssumption
  <2>3. DOMAIN rows \subseteq Nat
    BY <2>2
  <2> HIDE DEF own
  <2> QED BY <2>1, <2>2, <2>3
<1>4. rec.sessions = None /\ rec.conversions = None
  <2>1. /\ Total([i \in DOMAIN own |-> own[i].sessions]) = None
        /\ Total([i \in DOMAIN own |-> own[i].conversions]) = None
    BY <1>3 DEF Total, IsNone
  <2>2. CASE Cardinality(DOMAIN own) = 1
    <3>1. \E i \in DOMAIN own : \A j \in DOMAIN own : i <= j
      <4> HIDE DEF own
      <4> QED BY <1>3, Least DEF own
    <3>2. Min(DOMAIN own) \in DOMAIN own
      <4> HIDE DEF own
      <4> QED BY <3>1 DEF Min
    <3> HIDE DEF own
    <3> QED BY <1>3, <2>2, <3>2 DEF Fold, Record
  <2>3. CASE Cardinality(DOMAIN own) # 1
    BY <2>1, <2>3 DEF Fold, Record
  <2> QED BY <2>2, <2>3
<1>5. /\ IsRow(Upsert(ledger[p], rec))
      /\ ledger[p] # NoRow =>
           Analytics(Upsert(ledger[p], rec)) = <<OrElse(rec.sessions, ledger[p].sessions),
                                                OrElse(rec.conversions, ledger[p].conversions)>>
  BY <1>2, ConstantsAssumption, UpsertMakesRow
<1> QED BY <1>4, <1>5 DEF OrElse, IsNone, Analytics, HasRow

(***************************************************************************)
(* The invariant.                                                          *)
(***************************************************************************)
LEMMA InvInit == Init => Inv
<1>1. SUFFICES ASSUME Init PROVE Inv
  OBVIOUS
<1>2. Types
  BY <1>1 DEF Init, Types, Unwritten, Count
<1>3. Alone /\ Undisturbed
  BY <1>1 DEF Init, Alone, Undisturbed
<1>4. Dated
  BY <1>1 DEF Init, Dated, Unwritten
<1> QED BY <1>2, <1>3, <1>4 DEF Inv

(* Beginning a request puts what it reads in its hands.                    *)
LEMMA BeginKeeps ==
  ASSUME OneAtATime, Inv, NEW r \in Requests, BeginBundle(r) \/ BeginUpload(r)
  PROVE  Inv'
<1>1. \A s \in Requests : request[s] = Idle
  BY BeginsAlone DEF BeginBundle, BeginUpload
<1>2. UNCHANGED <<day, ledger, vintage>>
  BY DEF BeginBundle, BeginUpload
<1>3. PICK q : /\ request' = [request EXCEPT ![r] = q]
               /\ BundleInHand(q) \/ UploadInHand(q)
  <2>1. CASE BeginBundle(r)
    BY <2>1 DEF BeginBundle, BundleInHand, BundleBase
  <2>2. CASE BeginUpload(r)
    <3>1. PICK file \in Uploads :
            request' = [request EXCEPT ![r] =
              [at |-> "upload", entries |-> file, stamp |-> day, base |-> MergeMap(file)]]
      BY <2>2 DEF BeginUpload
    <3>2. day \in 0..day
      BY DEF Inv, Types
    <3> QED BY <3>1, <3>2 DEF UploadInHand
  <2> QED BY <2>1, <2>2
<1>4. /\ request'[r] = q
      /\ \A s \in Requests \ {r} : request'[s] = Idle
      /\ request' = [s \in Requests |-> request'[s]]
  BY <1>1, <1>3 DEF Inv, Types
<1>5. Types'
  BY <1>2, <1>4 DEF Inv, Types, IsRow
<1>6. Alone'
  BY <1>4 DEF Alone
<1>7. BundleInHand(q)' \/ UploadInHand(q)'
  BY <1>2, <1>3 DEF BundleInHand, BundleBase, UploadInHand, MergeMap
<1>8. Undisturbed'
  BY <1>4, <1>7 DEF Undisturbed
<1>9. Dated'
  BY <1>2 DEF Inv, Dated, HasRow
<1> QED BY <1>5, <1>6, <1>8, <1>9 DEF Inv

(* The request that writes was the only one: nothing is in hand after it.  *)
LEMMA SavesAlone ==
  ASSUME Inv, NEW r \in Requests, SaveBundle(r) \/ SaveUpload(r)
  PROVE  /\ request' = [s \in Requests |-> Idle]
         /\ Alone' /\ Undisturbed'
<1>1. request[r].at # "idle" /\ request' = [request EXCEPT ![r] = Idle]
  BY DEF SaveBundle, SaveUpload
<1>2. request[r] # Idle
  BY <1>1 DEF Idle
<1>3. \A s \in Requests : s # r => request[s] = Idle
  BY <1>2 DEF Inv, Alone
<1>4. request' = [s \in Requests |-> Idle]
  BY <1>1, <1>3 DEF Inv, Types
<1> QED BY <1>4 DEF Alone, Undisturbed

LEMMA SaveBundleKeeps ==
  ASSUME Inv, NEW r \in Requests, SaveBundle(r)
  PROVE  Inv'
<1> DEFINE q == request[r]
           Own(p) == For(q.entries, p)
<1>1. /\ request' = [s \in Requests |-> Idle]
      /\ Alone' /\ Undisturbed'
      /\ day' = day
  BY SavesAlone DEF SaveBundle
<1>2. \A p \in Pages : DOMAIN Own(p) = {} => /\ ledger'[p] = ledger[p]
                                            /\ ~Brings(Own(p), "gsc")
                                            /\ ~Brings(Own(p), "ga4")
  BY DEF SaveBundle, Matched, Brings
<1>3. \A p \in Pages : DOMAIN Own(p) # {} =>
        /\ q.stamp \in Nat
        /\ IsRow(ledger'[p])
        /\ ledger[p] = NoRow => ledger'[p].stamp = q.stamp
        /\ ledger[p] # NoRow =>
             \/ /\ Brings(Own(p), "gsc") /\ Brings(Own(p), "ga4")
                /\ ledger'[p].stamp = q.stamp
             \/ ledger'[p].stamp = Earlier(q.stamp, ledger[p].stamp)
  BY BundleWrites DEF Inv
<1>4. \A p \in Pages :
        /\ vintage'[p].bundled = vintage[p].bundled
        /\ vintage'[p].search =
             IF Brings(Own(p), "gsc") THEN q.stamp ELSE vintage[p].search
        /\ vintage'[p].analytics =
             IF Brings(Own(p), "ga4") THEN q.stamp ELSE vintage[p].analytics
  BY DEF SaveBundle, Inv, Types
<1>5. q.stamp \in Nat
  <2>1. q = Idle \/ BundleInHand(q) \/ UploadInHand(q)
    BY DEF Inv, Undisturbed
  <2>2. q.at = "bundle"
    BY DEF SaveBundle
  <2> HIDE DEF q
  <2>3. q # Idle
    BY <2>2 DEF Idle
  <2> QED BY <2>1, <2>3 DEF BundleInHand, UploadInHand, Inv, Types
<1>6. Types'
  <2>1. \A p \in Pages : ledger'[p] = NoRow \/ IsRow(ledger'[p])
    BY <1>2, <1>3 DEF Inv, Types
  <2>2. vintage' \in [Pages -> [search : Count, analytics : Count, bundled : BOOLEAN]]
    BY <1>5 DEF SaveBundle, Inv, Types, Count
  <2> QED BY <1>1, <2>1, <2>2 DEF Inv, Types, IsRow
<1>7. Dated'
  <2>1. SUFFICES ASSUME NEW p \in Pages, vintage'[p].bundled,
                        NEW part \in {vintage'[p].search, vintage'[p].analytics},
                        part # None
                 PROVE  ledger'[p] # NoRow /\ ledger'[p].stamp <= part
    BY DEF Dated, HasRow
  <2>2. \A old \in {vintage[p].search, vintage[p].analytics} :
          /\ old \in Count
          /\ old # None => ledger[p] # NoRow /\ ledger[p].stamp <= old
    BY <1>4, <2>1 DEF Inv, Dated, HasRow, Types
  <2>3. CASE DOMAIN Own(p) = {}
    BY <1>2, <1>4, <2>1, <2>2, <2>3
  <2>4. CASE DOMAIN Own(p) # {}
    <3>1. ledger'[p] # NoRow
      BY <1>3, <2>4, RowsAreWritten
    <3>2. ledger[p] # NoRow => ledger[p].stamp \in Nat
      BY DEF Inv, Types, IsRow
    <3> HIDE DEF Own, q
    <3>3. CASE ledger[p] = NoRow
      BY <1>3, <1>4, <1>5, <2>1, <2>2, <2>4, <3>1, <3>3
    <3>4. CASE /\ ledger[p] # NoRow
               /\ Brings(Own(p), "gsc") /\ Brings(Own(p), "ga4")
               /\ ledger'[p].stamp = q.stamp
      BY <1>4, <1>5, <2>1, <3>1, <3>4
    <3>5. CASE /\ ledger[p] # NoRow
               /\ ledger'[p].stamp = Earlier(q.stamp, ledger[p].stamp)
      <4>1. ledger'[p].stamp <= q.stamp /\ ledger'[p].stamp <= ledger[p].stamp
            /\ ledger'[p].stamp \in Nat
        BY <1>5, <3>2, <3>5 DEF Earlier
      <4>2. CASE part = q.stamp
        BY <3>1, <4>1, <4>2
      <4>3. CASE part # q.stamp
        <5>1. part \in {vintage[p].search, vintage[p].analytics}
          BY <1>4, <2>1, <4>3
        <5>2. part \in Nat /\ ledger[p].stamp <= part
          BY <2>1, <2>2, <5>1 DEF Count
        <5> QED BY <3>1, <3>2, <3>5, <4>1, <5>2
      <4> QED BY <4>2, <4>3
    <3> QED BY <1>3, <2>4, <3>3, <3>4, <3>5
  <2> QED BY <2>3, <2>4
<1> QED BY <1>1, <1>6, <1>7 DEF Inv

(* Rows other paths wrote are no longer dated; the others are as they were.*)
LEMMA OverwrittenKeeps ==
  ASSUME Types, Dated, NEW entries, Overwritten(entries),
         \A p \in Pages : p \notin Matched(entries) => ledger'[p] = ledger[p]
  PROVE  /\ Dated'
         /\ vintage' \in [Pages -> [search : Count, analytics : Count, bundled : BOOLEAN]]
<1>1. \A p \in Pages :
        /\ vintage'[p].bundled = (vintage[p].bundled /\ p \notin Matched(entries))
        /\ vintage'[p].search = vintage[p].search
        /\ vintage'[p].analytics = vintage[p].analytics
  BY DEF Overwritten, Types
<1>2. vintage' \in [Pages -> [search : Count, analytics : Count, bundled : BOOLEAN]]
  BY DEF Overwritten, Types
<1>3. Dated'
  <2>1. SUFFICES ASSUME NEW p \in Pages, vintage'[p].bundled,
                        NEW part \in {vintage'[p].search, vintage'[p].analytics},
                        part # None
                 PROVE  ledger'[p] # NoRow /\ ledger'[p].stamp <= part
    BY DEF Dated, HasRow
  <2>2. vintage[p].bundled /\ ledger'[p] = ledger[p]
    BY <1>1, <2>1
  <2> QED BY <1>1, <2>1, <2>2 DEF Dated, HasRow
<1> QED BY <1>2, <1>3

LEMMA ImportKeeps ==
  ASSUME OneAtATime, Inv, NEW r \in Requests, ImportLive(r)
  PROVE  Inv'
<1>1. \A s \in Requests : request[s] = Idle
  BY BeginsAlone DEF ImportLive
<1>2. PICK rows \in Imports :
        /\ ledger' = [p \in Pages |->
             IF p \in Matched(rows)
             THEN Upsert(ledger[p], Fold(For(rows, p), day)) ELSE ledger[p]]
        /\ Overwritten(rows)
  BY DEF ImportLive
<1>3. day' = day /\ request' = request
  BY DEF ImportLive
<1>4. \A p \in Pages : ledger'[p] = NoRow \/ IsRow(ledger'[p])
  BY <1>2, ImportWrites DEF Inv, Types, Matched
<1>5. /\ Dated'
      /\ vintage' \in [Pages -> [search : Count, analytics : Count, bundled : BOOLEAN]]
  <2>1. \A p \in Pages : p \notin Matched(rows) => ledger'[p] = ledger[p]
    BY <1>2
  <2> QED BY <1>2, <2>1, OverwrittenKeeps DEF Inv
<1>6. Types'
  BY <1>3, <1>4, <1>5 DEF Inv, Types, IsRow
<1>7. Alone' /\ Undisturbed'
  BY <1>1, <1>3 DEF Alone, Undisturbed
<1> QED BY <1>5, <1>6, <1>7 DEF Inv

LEMMA SaveUploadKeeps ==
  ASSUME Inv, NEW r \in Requests, SaveUpload(r)
  PROVE  Inv'
<1>1. /\ request' = [s \in Requests |-> Idle]
      /\ Alone' /\ Undisturbed'
      /\ day' = day
  BY SavesAlone DEF SaveUpload
<1>2. \A p \in Pages :
        /\ p \notin Matched(request[r].entries) => ledger'[p] = ledger[p]
        /\ ledger'[p] = NoRow \/ IsRow(ledger'[p])
  BY UploadWrites DEF Inv, Types, Matched
<1>3. /\ Dated'
      /\ vintage' \in [Pages -> [search : Count, analytics : Count, bundled : BOOLEAN]]
  <2>1. Overwritten(request[r].entries)
    BY DEF SaveUpload
  <2> QED BY <1>2, <2>1, OverwrittenKeeps DEF Inv
<1>4. Types'
  BY <1>1, <1>2, <1>3 DEF Inv, Types, IsRow
<1> QED BY <1>1, <1>3, <1>4 DEF Inv

LEMMA TickKeeps == ASSUME Inv, Tick PROVE Inv'
<1>1. day' = day + 1 /\ UNCHANGED <<ledger, request, vintage>> /\ day \in Nat
  BY DEF Tick, Inv, Types
<1>2. Types' /\ Alone' /\ Dated'
  BY <1>1 DEF Inv, Types, IsRow, Alone, Dated, HasRow
<1>3. 0..day \subseteq 0..day'
  BY <1>1
<1>4. \A q : /\ BundleInHand(q) => BundleInHand(q)'
             /\ UploadInHand(q) => UploadInHand(q)'
  BY <1>1, <1>3 DEF BundleInHand, BundleBase, UploadInHand, MergeMap
<1>5. Undisturbed'
  BY <1>1, <1>4 DEF Inv, Undisturbed
<1> QED BY <1>2, <1>5 DEF Inv

LEMMA StutterKeeps == ASSUME Inv, UNCHANGED vars PROVE Inv'
BY DEF vars, Inv, Types, IsRow, Alone, Undisturbed, Dated, HasRow, BundleInHand,
       BundleBase, UploadInHand, MergeMap

LEMMA InvNext == ASSUME OneAtATime, Inv, [Next]_vars PROVE Inv'
BY BeginKeeps, SaveBundleKeeps, ImportKeeps, SaveUploadKeeps, TickKeeps, StutterKeeps
   DEF Next

(* What the request in hand has read is what the ledger still holds.       *)
THEOREM ReadStillTrue == OneAtATime => (Spec => []Undisturbed)
<1>1. SUFFICES ASSUME OneAtATime PROVE Spec => []Undisturbed
  OBVIOUS
<1>2. Init => Inv
  BY InvInit
<1>3. Inv /\ [Next]_vars => Inv'
  BY <1>1, InvNext
<1>4. Inv => Undisturbed
  BY DEF Inv
<1> QED BY <1>2, <1>3, <1>4, PTL DEF Spec

(* A row that bundles alone wrote is stamped no later than the oldest part *)
(* it still shows (AsFreshAsOldest).                                       *)
THEOREM FreshnessIsOfTheOldest == OneAtATime => (Spec => []AsFreshAsOldest)
<1>1. SUFFICES ASSUME OneAtATime PROVE Spec => []AsFreshAsOldest
  OBVIOUS
<1>2. Init => Inv
  BY InvInit
<1>3. Inv /\ [Next]_vars => Inv'
  BY <1>1, InvNext
<1>4. Inv => AsFreshAsOldest
  BY DEF Inv, Dated, AsFreshAsOldest, IsNone
<1> QED BY <1>2, <1>3, <1>4, PTL DEF Spec

LEMMA SafeStep ==
  ASSUME Inv, NEW p \in Pages, HasRow(p)
  PROVE  KeepsTheRest(p)
<1>1. ASSUME NEW r \in Requests, SaveBundle(r)
      PROVE  LET own == For(request[r].entries, p)
             IN  /\ ~Brings(own, "gsc") => Search(ledger'[p]) = Search(ledger[p])
                 /\ ~Brings(own, "ga4") => Analytics(ledger'[p]) = Analytics(ledger[p])
  <2>1. CASE DOMAIN For(request[r].entries, p) = {}
    BY <1>1, <2>1 DEF SaveBundle, Matched
  <2>2. CASE DOMAIN For(request[r].entries, p) # {}
    BY <1>1, <2>2, BundleWrites DEF Inv, HasRow
  <2> QED BY <2>1, <2>2
<1>2. ASSUME NEW r \in Requests, SaveUpload(r)
      PROVE  LET own == For(request[r].entries, p)
             IN  \/ \E i \in DOMAIN own : ~IsNone(own[i].clicks)
                 \/ ledger'[p].clicks = ledger[p].clicks
  BY <1>2, UploadWrites DEF Inv
<1>3. ASSUME NEW r \in Requests, ImportLive(r)
      PROVE  Analytics(ledger'[p]) = Analytics(ledger[p])
  BY <1>3, ImportWrites DEF Inv, ImportLive, Matched
<1> QED BY <1>1, <1>2, <1>3 DEF KeepsTheRest

(* A write leaves alone the part of a row it brings nothing for            *)
(* (OnlyWhatItBrings).                                                     *)
THEOREM WritesOnlyWhatTheyBring == OneAtATime => (Spec => OnlyWhatItBrings)
<1>1. SUFFICES ASSUME OneAtATime PROVE Spec => OnlyWhatItBrings
  OBVIOUS
<1>2. Init => Inv
  BY InvInit
<1>3. Inv /\ [Next]_vars => Inv'
  BY <1>1, InvNext
<1>4. Inv /\ [Next]_vars => [\A p \in Pages : HasRow(p) => KeepsTheRest(p)]_vars
  BY SafeStep
<1> QED BY <1>2, <1>3, <1>4, PTL DEF Spec, OnlyWhatItBrings
=============================================================================
