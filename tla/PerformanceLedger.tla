------------------------- MODULE PerformanceLedger -------------------------
(***************************************************************************)
(* The performance ledger: one row per crawled page and month, written by  *)
(* three paths: bundles of a reporting application                         *)
(* (api/routers/performance.py), the live Search Console import            *)
(* (api/routers/gsc.py) and the priority file uploaded with a crawl        *)
(* (api/services/gsc_priority.py, at the end of api/routers/crawl.py).     *)
(*                                                                         *)
(* Search columns are overwritten by every write, analytics columns only   *)
(* by a value that is there (SQLiteJobStore.save_performance_records).  A  *)
(* bundle and a priority file therefore read the row first and carry       *)
(* forward what they do not bring; other requests run between the read and *)
(* the write.  The average position behaves as the click rate, and the     *)
(* index state, the engagement and the query list as the conversions: they *)
(* are left out.                                                           *)
(***************************************************************************)
EXTENDS Naturals, Sequences, FiniteSets, SequencesExt, FiniteSetsExt

CONSTANTS
  Pages,        \* crawled pages
  Urls,         \* addresses the sources report on
  MatchOf,      \* the page each address matches, or Unknown
  Unknown, None,
  Bundles,      \* the bundles a producer may send: sequences of entries
  Imports,      \* the answers Search Console may give: likewise
  Uploads,      \* the priority files that may be uploaded: likewise
  Requests,
  OneAtATime,   \* whether a request waits for the one before it
  LastDay       \* bound on time

Count == Nat \cup {None}
Entries == [url : Urls, sections : SUBSET {"gsc", "ga4"}, clicks : Count,
            shown : Count, sessions : Count, conversions : Count]

(* Search Console reports no analytics.                                    *)
ASSUME ConstantsAssumption ==
  /\ None \notin Nat
  /\ MatchOf \in [Urls -> Pages \cup {Unknown}]
  /\ Bundles \cup Imports \cup Uploads \subseteq Seq(Entries)
  /\ \A rows \in Imports : \A i \in DOMAIN rows :
       rows[i].sessions = None /\ rows[i].conversions = None
  /\ OneAtATime \in BOOLEAN
  /\ LastDay \in Nat

VARIABLES
  day,      \* today
  ledger,   \* the rows of one month, by page
  request,  \* requests in hand
  vintage   \* history: when the parts of each row were generated, and whether
            \* nothing but bundles wrote it

vars == <<day, ledger, request, vintage>>

IsNone(v) == v = None
OrElse(v, w) == IF IsNone(v) THEN w ELSE v

(* A click rate is kept as the two counts it is the ratio of. *)
Rate(clicks, shown) == IF shown = 0 THEN <<0, 1>> ELSE <<clicks, shown>>

NoRow == [clicks |-> None]
HasRow(p) == ledger[p] # NoRow
Unwritten == [search |-> None, analytics |-> None, bundled |-> TRUE]
Idle == [at |-> "idle"]

(***************************************************************************)
(* Joining and folding (api/services/perf_join.py).                        *)
(***************************************************************************)

(* build_crawled_key_map and the loop over the bundle's pages: an address  *)
(* that matches no crawled page is held out.                               *)
For(entries, p) == RestrictValues(entries, LAMBDA e : MatchOf[e.url] = p)
Matched(entries) == {p \in Pages : DOMAIN For(entries, p) # {}}

(* _sum: what no source reports stays unknown. *)
Total(values) ==
  LET known == {i \in DOMAIN values : ~IsNone(values[i])}
  IN  IF known = {} THEN None ELSE MapThenSumSet(LAMBDA i : values[i], known)

Record(e, stamp) ==
  [clicks |-> OrElse(e.clicks, 0), shown |-> OrElse(e.shown, 0),
   rate |-> Rate(OrElse(e.clicks, 0), OrElse(e.shown, 0)),
   sessions |-> e.sessions, conversions |-> e.conversions, stamp |-> stamp]

(* fold_performance_rows, for the entries of one page: counts are added,   *)
(* rates computed again.                                                   *)
Fold(own, stamp) ==
  LET first == Record(own[Min(DOMAIN own)], stamp)
      clicks == Total([i \in DOMAIN own |-> OrElse(own[i].clicks, 0)])
      shown == Total([i \in DOMAIN own |-> OrElse(own[i].shown, 0)])
  IN  IF Cardinality(DOMAIN own) = 1 THEN first
      ELSE [first EXCEPT
             !.clicks = clicks,
             !.shown = shown,
             !.rate = IF shown > 0 THEN Rate(clicks, shown) ELSE @,
             !.sessions = Total([i \in DOMAIN own |-> own[i].sessions]),
             !.conversions = Total([i \in DOMAIN own |-> own[i].conversions])]

(* save_performance_records, for one row. *)
Upsert(row, rec) ==
  IF row = NoRow THEN rec
  ELSE [rec EXCEPT !.sessions = OrElse(@, row.sessions),
                   !.conversions = OrElse(@, row.conversions),
                   !.stamp = OrElse(@, row.stamp)]

(***************************************************************************)
(* Bundles.                                                                *)
(***************************************************************************)
Brings(own, section) == \E i \in DOMAIN own : section \in own[i].sections

(* Mutant of Earlier: the newest part counts.                              *)
Newer(a, b) == IF a <= b THEN b ELSE a

Earlier(a, b) == IF a <= b THEN a ELSE b

(* Mutant of Carry: the row is written as the bundle has it.               *)
CarryNothing(rec, own, base) == rec

(* The read-merge of ingest_bundle: rec with what the bundle does not      *)
(* bring taken from the row read before.                                   *)
Carry(rec, own, base) ==
  LET complete == Brings(own, "gsc") /\ Brings(own, "ga4")
      search == IF Brings(own, "gsc") THEN rec
                ELSE [rec EXCEPT !.clicks = base.clicks,
                                 !.shown = base.shown, !.rate = base.rate]
      both == IF Brings(own, "ga4") THEN search
              ELSE [search EXCEPT !.sessions = base.sessions,
                                  !.conversions = base.conversions]
  IN  IF base = NoRow \/ complete THEN rec
      ELSE [both EXCEPT !.stamp = Earlier(@, base.stamp)]

BundleRecord(r, p) ==
  LET own == For(r.entries, p)
  IN  Carry(Fold(own, r.stamp), own, r.base[p])

(***************************************************************************)
(* The priority file: an entry that lacks a search value takes it from the *)
(* row read before; entries of one page are written one after the other.   *)
(***************************************************************************)
Omits(e) == IsNone(e.clicks) \/ IsNone(e.shown)

UploadRecord(e, stamp, base) ==
  LET prior == IF base = NoRow THEN [clicks |-> 0, shown |-> 0] ELSE base
      clicks == OrElse(e.clicks, prior.clicks)
      shown == OrElse(e.shown, prior.shown)
  IN  [clicks |-> clicks, shown |-> shown, rate |-> Rate(clicks, shown),
       sessions |-> None, conversions |-> e.conversions, stamp |-> stamp]

(* What the row of page p has become once the first n entries are written. *)
Written(entries, stamp, p, base) ==
  LET Row[n \in 0..Len(entries)] ==
        IF n = 0 THEN ledger[p]
        ELSE IF n \in DOMAIN For(entries, p)
        THEN Upsert(Row[n - 1], UploadRecord(entries[n], stamp, base))
        ELSE Row[n - 1]
  IN  Row

(* build_existing_merge_map: rows are read only when a value is missing. *)
MergeMap(entries) ==
  [p \in Pages |->
     IF (\E i \in DOMAIN entries : Omits(entries[i])) /\ p \in Matched(entries)
     THEN ledger[p] ELSE NoRow]

(***************************************************************************)
(* Steps.                                                                  *)
(***************************************************************************)
Init ==
  /\ day = 0
  /\ ledger = [p \in Pages |-> NoRow]
  /\ request = [r \in Requests |-> Idle]
  /\ vintage = [p \in Pages |-> Unwritten]

MayBegin(r) ==
  /\ request[r] = Idle
  /\ OneAtATime => \A s \in Requests : request[s] = Idle

(* ingest_bundle up to the last read: a bundle was generated on some day   *)
(* before; only rows of pages that lack a section are read.                *)
BeginBundle(r) ==
  /\ MayBegin(r)
  /\ \E b \in Bundles, stamp \in 0..day :
       request' = [request EXCEPT ![r] =
         [at |-> "bundle", entries |-> b, stamp |-> stamp,
          base |-> [p \in Pages |->
            LET own == For(b, p)
            IN  IF DOMAIN own = {} \/ (Brings(own, "gsc") /\ Brings(own, "ga4"))
                THEN NoRow ELSE ledger[p]]]]
  /\ UNCHANGED <<day, ledger, vintage>>

SaveBundle(r) ==
  /\ request[r].at = "bundle"
  /\ ledger' = [p \in Pages |->
       IF p \in Matched(request[r].entries)
       THEN Upsert(ledger[p], BundleRecord(request[r], p)) ELSE ledger[p]]
  /\ vintage' = [p \in Pages |->
       LET own == For(request[r].entries, p)
       IN  [vintage[p] EXCEPT
              !.search = IF Brings(own, "gsc") THEN request[r].stamp ELSE @,
              !.analytics = IF Brings(own, "ga4") THEN request[r].stamp ELSE @]]
  /\ request' = [request EXCEPT ![r] = Idle]
  /\ UNCHANGED day

Overwritten(entries) ==
  vintage' = [p \in Pages |->
    [vintage[p] EXCEPT !.bundled = @ /\ p \notin Matched(entries)]]

(* gsc_ingest: nothing is awaited between the fetch and the write but the  *)
(* crawled pages.                                                          *)
ImportLive(r) ==
  /\ MayBegin(r)
  /\ \E rows \in Imports :
       /\ ledger' = [p \in Pages |->
            IF p \in Matched(rows)
            THEN Upsert(ledger[p], Fold(For(rows, p), day)) ELSE ledger[p]]
       /\ Overwritten(rows)
  /\ UNCHANGED <<day, request>>

BeginUpload(r) ==
  /\ MayBegin(r)
  /\ \E file \in Uploads :
       request' = [request EXCEPT ![r] =
         [at |-> "upload", entries |-> file, stamp |-> day,
          base |-> MergeMap(file)]]
  /\ UNCHANGED <<day, ledger, vintage>>

SaveUpload(r) ==
  /\ request[r].at = "upload"
  /\ ledger' = [p \in Pages |->
       LET file == request[r].entries
       IN  Written(file, request[r].stamp, p, request[r].base[p])[Len(file)]]
  /\ Overwritten(request[r].entries)
  /\ request' = [request EXCEPT ![r] = Idle]
  /\ UNCHANGED day

Tick ==
  /\ day < LastDay
  /\ day' = day + 1
  /\ UNCHANGED <<ledger, request, vintage>>

Next ==
  \/ Tick
  \/ \E r \in Requests :
       BeginBundle(r) \/ SaveBundle(r) \/ ImportLive(r)
       \/ BeginUpload(r) \/ SaveUpload(r)

Spec == Init /\ [][Next]_vars

(***************************************************************************)
(* Properties.                                                             *)
(***************************************************************************)
Search(row) == <<row.clicks, row.shown, row.rate>>
Analytics(row) == <<row.sessions, row.conversions>>

(* What a row keeps of the part a write brings nothing for. *)
KeepsTheRest(p) ==
  /\ \A r \in Requests : SaveBundle(r) =>
       LET own == For(request[r].entries, p)
       IN  /\ ~Brings(own, "gsc") => Search(ledger'[p]) = Search(ledger[p])
           /\ ~Brings(own, "ga4") => Analytics(ledger'[p]) = Analytics(ledger[p])
  /\ \A r \in Requests : SaveUpload(r) =>
       LET own == For(request[r].entries, p)
       IN  \/ \E i \in DOMAIN own : ~IsNone(own[i].clicks)
           \/ ledger'[p].clicks = ledger[p].clicks
  /\ \A r \in Requests : ImportLive(r) => Analytics(ledger'[p]) = Analytics(ledger[p])

(* A write leaves alone the part of a row it brings nothing for: a bundle  *)
(* without search data keeps the clicks of an earlier one, an import of    *)
(* search data the analytics (api/routers/performance.py:185-189).         *)
OnlyWhatItBrings == [][\A p \in Pages : HasRow(p) => KeepsTheRest(p)]_vars

(* A row that bundles alone wrote is stamped no later than the oldest part *)
(* it still shows (api/services/performance_freshness.py:60-66).           *)
AsFreshAsOldest ==
  \A p \in Pages : vintage[p].bundled /\ HasRow(p) =>
    \A part \in {vintage[p].search, vintage[p].analytics} :
      IsNone(part) \/ ledger[p].stamp <= part
=============================================================================
