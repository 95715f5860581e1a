------------------------- MODULE CrawlFrontierProofs -------------------------
(***************************************************************************)
(* Proofs about CrawlFrontier for every site, every choice of seeds, skips *)
(* and redirects and every budget: the types, the budget, that a completed *)
(* crawl leaves nothing behind, that no URL is handled twice, where orphans *)
(* and reported sources come from, that a shortfall is disclosed, and that *)
(* a known depth is the shortest click distance.                           *)
(***************************************************************************)
EXTENDS CrawlFrontier, TLAPS, FiniteSetTheorems, SequenceTheorems, WellFoundedInduction

(* Only what was fetched has landed elsewhere, and what was handled is     *)
(* visited; while the loop runs, and when it runs out of URLs, the visited *)
(* URLs are those that were handled.                                       *)
VisitedIsHandled ==
  /\ \A u \in Urls : fate[u] = "pending" => landed[u] = u
  /\ \A u \in Urls : Handled(u) => u \in visited
  /\ phase \in {"crawling", "complete"} => \A u \in visited : Handled(u)

(* Until the loop stops early, a wanted URL is visited or still queued.    *)
WantedIsQueued ==
  /\ phase = "complete" => queue = <<>>
  /\ phase \in {"crawling", "complete"} =>
       \A u \in Wanted : InScope(u) => u \in visited \cup Range(queue)

(* Whatever is queued has an entry in depth_map.                           *)
QueueHasDepth == Range(queue) \subseteq DOMAIN depthMap

IInv == TypeOK /\ QueueHasDepth /\ VisitedIsHandled /\ WantedIsQueued /\ WithinBudget

-----------------------------------------------------------------------------
(* Every set of numbers that is not empty has a least one.                 *)
LEMMA Least ==
  ASSUME NEW T, T \subseteq Nat, T # {}
  PROVE  \E n \in T : \A m \in T : n <= m
<1>1. PICK k \in T : TRUE
  OBVIOUS
<1> DEFINE S == 0..k
           F == {0..m : m \in T \cap S}
           R == StrictSubsetOrdering(S)
<1>2. IsFiniteSet(S)
  BY <1>1, FS_Interval
<1>3. F \subseteq FiniteSubsetsOf(S) /\ F # {}
  <2>1. \A m \in T \cap S : 0..m \in SUBSET S
    OBVIOUS
  <2>2. 0..k \in F
    BY <1>1
  <2> QED BY <1>2, <2>1, <2>2, FS_FiniteSubsetsOfFinite
<1>4. IsWellFoundedOn(R, FiniteSubsetsOf(S))
  BY FS_StrictSubsetOrderingWellFounded
<1>5. PICK x \in F : \A y \in F : ~ (<<y, x>> \in R)
  <2> HIDE DEF F, R, S
  <2> QED BY <1>3, <1>4, WFMin, Zenon
<1>6. PICK n \in T \cap S : x = 0..n
  OBVIOUS
<1>7. ASSUME NEW m \in T, m < n
      PROVE  FALSE
  <2>1. m \in T \cap S
    BY <1>7, <1>1
  <2>2. 0..m \in F /\ 0..m \subseteq 0..n /\ n \notin 0..m /\ n \in 0..n
    BY <1>7, <2>1, <1>6
  <2>3. <<0..m, x>> \in R
    BY <2>1, <2>2, <1>6 DEF StrictSubsetOrdering
  <2> QED BY <1>5, <2>2, <2>3
<1> QED BY <1>6, <1>7

(* The first URL of a non-empty queue, and what is left of it.             *)
LEMMA HeadAndTail ==
  ASSUME NEW S, NEW q \in Seq(S), q # <<>>
  PROVE  /\ Head(q) \in S /\ Tail(q) \in Seq(S)
         /\ Range(q) = {Head(q)} \cup Range(Tail(q))
<1>1. Head(q) \in S /\ Tail(q) \in Seq(S) /\ Len(Tail(q)) = Len(q) - 1
      /\ \A i \in 1..Len(Tail(q)) : Tail(q)[i] = q[i+1]
  BY HeadTailProperties
<1>2. Range(q) = {q[i] : i \in 1..Len(q)} /\ Range(Tail(q)) = {Tail(q)[i] : i \in 1..Len(Tail(q))}
  BY <1>1, RangeEquality
<1>3. Len(q) \in Nat /\ Len(q) > 0 /\ Head(q) = q[1]
  <2>1. Len(q) \in Nat /\ Len(q) # 0
    BY EmptySeq, LenProperties
  <2>2. Head(q) = q[1]
    OBVIOUS
  <2> QED BY <2>1, <2>2
<1>4. ASSUME NEW x \in Range(q)
      PROVE  x \in {Head(q)} \cup Range(Tail(q))
  <2>1. PICK i \in 1..Len(q) : x = q[i]
    BY <1>2
  <2>2. CASE i = 1
    BY <2>1, <2>2, <1>3
  <2>3. CASE i # 1
    <3>1. i - 1 \in 1..Len(Tail(q)) /\ (i - 1) + 1 = i
      BY <2>1, <2>3, <1>1, <1>3
    <3>2. x = Tail(q)[i - 1]
      BY <2>1, <3>1, <1>1
    <3> QED BY <3>1, <3>2, <1>2
  <2> QED BY <2>2, <2>3
<1>5. ASSUME NEW x \in Range(Tail(q))
      PROVE  x \in Range(q)
  <2>1. PICK i \in 1..Len(Tail(q)) : x = Tail(q)[i]
    BY <1>2
  <2>2. i + 1 \in 1..Len(q) /\ x = q[i + 1]
    BY <2>1, <1>1, <1>3
  <2> QED BY <2>2, <1>2
<1>6. Head(q) \in Range(q)
  BY <1>2, <1>3
<1> QED BY <1>1, <1>4, <1>5, <1>6

(* Concatenation joins the ranges.                                         *)
LEMMA ConcatRange ==
  ASSUME NEW S, NEW q \in Seq(S), NEW r \in Seq(S)
  PROVE  q \o r \in Seq(S) /\ Range(q \o r) = Range(q) \cup Range(r)
<1>1. q \o r \in Seq(S)
  BY ConcatProperties
<1>2. Range(q \o r) = Range(q) \cup Range(r)
  BY RangeConcatenation
<1> QED BY <1>1, <1>2

(* Every element of a finite set occurs in each of its orderings.          *)
LEMMA OrderingIsComplete ==
  ASSUME NEW S, IsFiniteSet(S), NEW q \in SetToSeqs(S)
  PROVE  q \in Seq(S) /\ Range(q) = S
<1> DEFINE n == Cardinality(S)
<1>1. n \in Nat
  BY FS_CardinalityType
<1>2. q \in [1..n -> S] /\ \A i, j \in 1..n : i # j => q[i] # q[j]
  BY DEF SetToSeqs
<1>3. q \in Injection(1..n, S)
  BY <1>2 DEF Injection, IsInjective
<1>4. IsFiniteSet(1..n) /\ Cardinality(1..n) = n
  BY <1>1, FS_Interval
<1>5. q \in Surjection(1..n, S)
  BY <1>3, <1>4, FS_Injection
<1> QED BY <1>1, <1>2, <1>5 DEF Surjection, Range

LEMMA SetDefaultType ==
  ASSUME NEW f, NEW S, NEW D, NEW v \in D, f \in [DOMAIN f -> D]
  PROVE  /\ SetDefault(f, S, v) \in [DOMAIN f \cup S -> D]
         /\ DOMAIN SetDefault(f, S, v) = DOMAIN f \cup S
  BY DEF SetDefault

LEMMA PagesFinite ==
  ASSUME ConstantsAssumption
  PROVE  IsFiniteSet(Pages) /\ Cardinality(Pages) \in Nat
<1>1. Pages \in SUBSET Urls
  BY DEF Pages
<1> QED BY <1>1, FS_Subset, FS_CardinalityType DEF ConstantsAssumption

-----------------------------------------------------------------------------
(* The kind of a crawl does not change, nor what depends on it alone.      *)
LEMMA ScanFixed ==
  ASSUME scan' = scan
  PROVE  /\ SinglePage' = SinglePage /\ Seeds' = Seeds
         /\ \A u : InScope(u)' = InScope(u)
  BY DEF SinglePage, Seeds, PrioritySeeds, SitemapSeeds, InScope, Partial

(* The queue starts with the start URL, and holds it and the seeds.        *)
LEMMA InitQueue ==
  ASSUME ConstantsAssumption, Init
  PROVE  /\ queue \in Seq(Urls) /\ Range(queue) = {Home} \cup Seeds
         /\ queue[1] = Home /\ 1 \in 1..Len(queue)
<1>1. PICK p \in SetToSeqs(PrioritySeeds), s \in SetToSeqs(SitemapSeeds) :
        queue = <<Home>> \o p \o s
  BY DEF Init
<1>2. /\ PrioritySeeds \subseteq Urls /\ SitemapSeeds \subseteq Urls /\ Home \in Urls
      /\ IsFiniteSet(PrioritySeeds) /\ IsFiniteSet(SitemapSeeds)
  <2>1. PrioritySeeds \subseteq Urls /\ SitemapSeeds \subseteq Urls
    BY DEF ConstantsAssumption, PrioritySeeds, SitemapSeeds
  <2> QED BY <2>1, FS_Subset DEF ConstantsAssumption
<1>3. p \in Seq(PrioritySeeds) /\ Range(p) = PrioritySeeds
      /\ s \in Seq(SitemapSeeds) /\ Range(s) = SitemapSeeds
  BY <1>2, OrderingIsComplete
<1>4. p \in Seq(Urls) /\ s \in Seq(Urls)
  BY <1>2, <1>3, SeqMonotonic
<1> DEFINE start == <<Home>>
           front == start \o p
<1>5. start \in Seq(Urls) /\ Range(start) = {Home} /\ Len(start) = 1 /\ start[1] = Home
  BY <1>2 DEF Range
<1> HIDE DEF start
<1>6. front \in Seq(Urls) /\ Range(front) = Range(start) \cup Range(p)
  BY <1>4, <1>5, ConcatRange
<1>7. Len(p) \in Nat /\ Len(s) \in Nat /\ Len(front) = 1 + Len(p) /\ front[1] = Home
  <2>1. Len(p) \in Nat /\ Len(s) \in Nat
    BY <1>4, LenProperties
  <2>2. 1 \in 1..(Len(start) + Len(p)) /\ 1 <= Len(start)
    BY <2>1, <1>5
  <2>3. /\ Len(start \o p) = Len(start) + Len(p)
        /\ \A i \in 1..(Len(start) + Len(p)) :
             (start \o p)[i] = IF i <= Len(start) THEN start[i] ELSE p[i - Len(start)]
    <3>1. start \in Seq(Urls) /\ p \in Seq(Urls)
      BY <1>4, <1>5
    <3> HIDE DEF front
    <3> QED BY <3>1, ConcatProperties
  <2> QED BY <1>5, <2>1, <2>2, <2>3
<1> HIDE DEF front
<1>8. front \o s \in Seq(Urls) /\ Range(front \o s) = Range(front) \cup Range(s)
  BY <1>4, <1>6, ConcatRange
<1>9. Len(front \o s) = 1 + Len(p) + Len(s) /\ (front \o s)[1] = Home
  <2>1. 1 \in 1..(Len(front) + Len(s)) /\ 1 <= Len(front)
    BY <1>7
  <2>2. /\ Len(front \o s) = Len(front) + Len(s)
        /\ \A i \in 1..(Len(front) + Len(s)) :
             (front \o s)[i] = IF i <= Len(front) THEN front[i] ELSE s[i - Len(front)]
    BY <1>4, <1>6, ConcatProperties
  <2> QED BY <1>7, <2>1, <2>2
<1>10. queue = front \o s
  BY <1>1 DEF front, start
<1>11. 1 \in 1..(1 + Len(p) + Len(s))
  BY <1>7
<1> QED BY <1>3, <1>5, <1>6, <1>8, <1>9, <1>10, <1>11 DEF Seeds

LEMMA InitOK ==
  ASSUME ConstantsAssumption, Init
  PROVE  IInv
<1>1. PrioritySeeds \subseteq Urls /\ SitemapSeeds \subseteq Urls
      /\ IsFiniteSet(PrioritySeeds) /\ IsFiniteSet(SitemapSeeds)
  <2>1. PrioritySeeds \subseteq Urls /\ SitemapSeeds \subseteq Urls
    BY DEF ConstantsAssumption, PrioritySeeds, SitemapSeeds
  <2> QED BY <2>1, FS_Subset DEF ConstantsAssumption
<1>2. Seeds \subseteq Urls /\ Home \in Urls /\ Urls # {}
  BY <1>1 DEF Seeds, ConstantsAssumption
<1>3. queue \in Seq(Urls) /\ Range(queue) = {Home} \cup Seeds
  BY InitQueue
<1>4. TypeOK
  BY <1>1, <1>2, <1>3 DEF Init, TypeOK, ConstantsAssumption, FromSeed, NoDepth, SkipReasons
<1>5. Pages = {} /\ \A u \in Urls : ~Handled(u)
  BY DEF Init, Pages, PageAnswers, Handled
<1>6. VisitedIsHandled
  BY <1>5 DEF Init, VisitedIsHandled
<1>7. WantedIsQueued
  BY <1>3, <1>5 DEF Init, WantedIsQueued, Wanted
<1>8. WithinBudget
  BY <1>5, FS_EmptySet DEF WithinBudget, ConstantsAssumption
<1>9. QueueHasDepth
  BY <1>3 DEF Init, QueueHasDepth
<1> QED BY <1>4, <1>6, <1>7, <1>8, <1>9 DEF IInv

-----------------------------------------------------------------------------
(* A step that gives u, not visited before, a fate other than a page's:    *)
(* nothing is wanted that was not wanted, and u leaves the queue.          *)
LEMMA NoPageStep ==
  ASSUME ConstantsAssumption, IInv, NEW u \in Urls, NEW dest \in Urls,
         Dequeues(u), u \notin visited,
         NEW f \in SkipReasons \cup AllAnswers, f \notin PageAnswers,
         queue' = Tail(queue), visited' = visited \cup {u, dest},
         fate' = [fate EXCEPT ![u] = f],
         \/ landed' = [landed EXCEPT ![u] = dest]
         \/ landed' = landed /\ dest = u,
         UNCHANGED <<scan, phase, links>>
  PROVE  VisitedIsHandled' /\ WantedIsQueued' /\ WithinBudget'
<1> USE DEF IInv
<1>1. queue # <<>> /\ phase = "crawling" /\ u = Head(queue)
  BY DEF Dequeues
<1>2. Range(queue) = {u} \cup Range(queue')
  BY <1>1, HeadAndTail DEF TypeOK
<1>3. fate[u] = "pending" /\ f # "pending"
  BY DEF VisitedIsHandled, Handled, TypeOK, SkipReasons, StaticSkips, AllAnswers, PageAnswers
<1>4. fate'[u] = f /\ \A v \in Urls \ {u} : fate'[v] = fate[v]
  BY DEF TypeOK
<1>5. Pages' = Pages
  BY <1>3, <1>4 DEF Pages, PageAnswers
<1>6. \A v \in Urls \ {u} : landed'[v] = landed[v]
  BY DEF TypeOK
<1>7. landed'[u] = dest \/ (dest = u /\ landed'[u] = landed[u])
  BY DEF TypeOK
<1>8. VisitedIsHandled'
  <2>1. ASSUME NEW v \in Urls, Handled(v)'
        PROVE  v \in visited'
    <3>1. CASE fate'[v] # "pending"
      BY <3>1, <1>4 DEF VisitedIsHandled, Handled
    <3>2. CASE \E p \in Urls : landed'[p] = v /\ fate'[p] # "pending"
      <4>1. PICK p \in Urls : landed'[p] = v /\ fate'[p] # "pending"
        BY <3>2
      <4>2. CASE p # u
        BY <4>1, <4>2, <1>4, <1>6 DEF VisitedIsHandled, Handled
      <4>3. CASE p = u /\ landed'[u] = dest
        BY <4>1, <4>3
      <4>4. CASE p = u /\ dest = u /\ landed'[u] = landed[u]
        BY <4>1, <4>4, <1>3 DEF VisitedIsHandled
      <4> QED BY <4>2, <4>3, <4>4, <1>7
    <3> QED BY <2>1, <3>1, <3>2 DEF Handled
  <2>2. ASSUME NEW v \in visited'
        PROVE  Handled(v)'
    <3>1. CASE v = u
      BY <3>1, <1>3, <1>4 DEF Handled
    <3>2. CASE v = dest /\ v # u
      BY <3>2, <1>3, <1>4, <1>7 DEF Handled
    <3>3. CASE v \in visited /\ v # u
      <4>1. Handled(v) /\ v \in Urls
        BY <3>3, <1>1 DEF VisitedIsHandled, TypeOK
      <4>2. \A p \in Urls : fate[p] # "pending" => p # u
        BY <1>3
      <4> QED BY <4>1, <4>2, <3>3, <1>4, <1>6 DEF Handled
    <3> QED BY <3>1, <3>2, <3>3
  <2>3. ASSUME NEW v \in Urls, fate'[v] = "pending"
        PROVE  landed'[v] = v
    BY <2>3, <1>3, <1>4, <1>6 DEF VisitedIsHandled
  <2> QED BY <2>1, <2>2, <2>3 DEF VisitedIsHandled
<1>9. WantedIsQueued'
  BY <1>1, <1>2, <1>5, ScanFixed DEF WantedIsQueued, Wanted
<1>10. WithinBudget'
  BY <1>5 DEF WithinBudget
<1> QED BY <1>8, <1>9, <1>10

-----------------------------------------------------------------------------
(* The step that adds page u: its links become wanted, and each of them is *)
(* visited, out of scope or put on the queue.                              *)
LEMMA PageStep ==
  ASSUME ConstantsAssumption, IInv, NEW u \in Urls, NEW dest \in Urls, FetchPage(u, dest),
         dest \in Landing(u)
  PROVE  VisitedIsHandled' /\ WantedIsQueued' /\ WithinBudget'
<1> USE DEF IInv
<1>1. queue # <<>> /\ phase = "crawling" /\ u = Head(queue) /\ u \notin visited
      /\ Cardinality(Pages) < MaxPages
  BY PagesFinite DEF FetchPage, Fetches, Dequeues, BudgetSpent, ConstantsAssumption
<1>2. Range(queue) = {u} \cup Range(Tail(queue)) /\ Tail(queue) \in Seq(Urls)
  BY <1>1, HeadAndTail DEF TypeOK
<1>3. PICK answer \in PageAnswers : fate' = [fate EXCEPT ![u] = answer]
  BY DEF FetchPage
<1>4. /\ fate[u] = "pending" /\ answer # "pending"
      /\ fate'[u] = answer /\ \A v \in Urls \ {u} : fate'[v] = fate[v]
  BY <1>1, <1>3 DEF VisitedIsHandled, Handled, TypeOK, PageAnswers
<1>5. /\ visited' = visited \cup {u, dest} /\ phase' = phase /\ scan' = scan
      /\ landed'[u] = dest /\ \A v \in Urls \ {u} : landed'[v] = landed[v]
  BY DEF FetchPage, Seen, TypeOK
<1>6. Pages' = Pages \cup {u} /\ u \notin Pages
  BY <1>3, <1>4 DEF Pages, PageAnswers
<1>7. VisitedIsHandled'
  <2>1. ASSUME NEW v \in Urls, Handled(v)'
        PROVE  v \in visited'
    <3>1. CASE fate'[v] # "pending"
      BY <3>1, <1>4, <1>5 DEF VisitedIsHandled, Handled
    <3>2. CASE \E p \in Urls : landed'[p] = v /\ fate'[p] # "pending"
      <4>1. PICK p \in Urls : landed'[p] = v /\ fate'[p] # "pending"
        BY <3>2
      <4>2. CASE p # u
        BY <4>1, <4>2, <1>4, <1>5 DEF VisitedIsHandled, Handled
      <4>3. CASE p = u
        BY <4>1, <4>3, <1>5
      <4> QED BY <4>2, <4>3
    <3> QED BY <2>1, <3>1, <3>2 DEF Handled
  <2>2. ASSUME NEW v \in visited'
        PROVE  Handled(v)'
    <3>1. CASE v \in {u, dest}
      BY <3>1, <1>4, <1>5 DEF Handled
    <3>2. CASE v \in visited /\ v # u
      <4>1. Handled(v) /\ v \in Urls
        BY <3>2, <1>1 DEF VisitedIsHandled, TypeOK
      <4>2. \A p \in Urls : fate[p] # "pending" => p # u
        BY <1>4
      <4> QED BY <4>1, <4>2, <3>2, <1>4, <1>5 DEF Handled
    <3> QED BY <3>1, <3>2, <1>5
  <2>3. ASSUME NEW v \in Urls, fate'[v] = "pending"
        PROVE  landed'[v] = v
    BY <2>3, <1>4, <1>5 DEF VisitedIsHandled
  <2> QED BY <2>1, <2>2, <2>3 DEF VisitedIsHandled
<1>8. WantedIsQueued'
  <2>1. CASE SinglePage
    <3>1. queue' = Tail(queue)
      BY <2>1 DEF FetchPage, IgnoreLinks
    <3>2. Wanted' = {Home} \cup Seeds /\ Wanted = {Home} \cup Seeds
      BY <2>1, <1>5, ScanFixed DEF Wanted
    <3> QED BY <3>1, <3>2, <1>1, <1>2, <1>5, ScanFixed DEF WantedIsQueued
  <2>2. CASE ~SinglePage
    <3>1. PICK followed \in BoundedSeq(Followable(visited'), MaxAnchors),
               others \in SUBSET (Targets \ Followable(visited')) :
                 FollowLinks(u, followed, others)
      BY <2>2 DEF FetchPage
    <3>2. followed \in Seq(Urls) /\ Range(followed) \subseteq Urls
      <4>1. followed \in Seq(Followable(visited'))
        BY <3>1 DEF BoundedSeq, SeqOf, ConstantsAssumption
      <4>2. Followable(visited') \subseteq Urls
        BY DEF Followable, ConstantsAssumption
      <4> QED BY <4>1, <4>2, SeqMonotonic, RangeOfSeq
    <3>3. Range(queue') = Range(Tail(queue)) \cup Range(followed)
      <4> DEFINE rest == Tail(queue)
      <4>1. rest \in Seq(Urls) /\ queue' = rest \o followed
        BY <1>2, <3>1 DEF FollowLinks
      <4> HIDE DEF rest
      <4>2. Range(queue') = Range(rest) \cup Range(followed)
        BY <4>1, <3>2, ConcatRange
      <4> QED BY <4>2 DEF rest
    <3>4. ASSUME NEW v \in Wanted', InScope(v)'
          PROVE  v \in visited' \cup Range(queue')
      <4>1. CASE v \in Wanted
        BY <4>1, <3>3, <3>4, <1>1, <1>2, <1>5, ScanFixed DEF WantedIsQueued
      <4>2. CASE v \notin Wanted
        <5>1. v \in Range(followed) \cup others
          BY <3>1, <4>2, <2>2, <1>5, <1>6, ScanFixed DEF Wanted, FollowLinks, TypeOK
        <5>2. CASE v \in Range(followed)
          BY <5>2, <3>3
        <5>3. CASE v \in others
          BY <5>3, <3>1, <3>4, <1>5, ScanFixed DEF Followable
        <5> QED BY <5>1, <5>2, <5>3
      <4> QED BY <4>1, <4>2
    <3> QED BY <3>4, <1>1, <1>5 DEF WantedIsQueued
  <2> QED BY <2>1, <2>2
<1>9. WithinBudget'
  <2>1. Cardinality(Pages \cup {u}) = Cardinality(Pages) + 1
    BY <1>6, PagesFinite, FS_AddElement
  <2> QED BY <2>1, <1>1, <1>6, PagesFinite DEF WithinBudget, ConstantsAssumption
<1> QED BY <1>7, <1>8, <1>9

-----------------------------------------------------------------------------
(* The types are kept, the partial maps by SetDefaultType.                 *)
LEMMA TypeStep ==
  ASSUME ConstantsAssumption, TypeOK, QueueHasDepth, [Next]_vars
  PROVE  TypeOK' /\ QueueHasDepth'
<1>1. CASE RequestCancel \/ Cancelled \/ QueueEmpty \/ UNCHANGED vars
  BY <1>1 DEF TypeOK, QueueHasDepth, RequestCancel, Cancelled, QueueEmpty, vars, mapVars, pageVars
<1>2. ASSUME NEW u \in Urls, AlreadyVisited(u) \/ Skip(u) \/ Truncate(u) \/ FetchLost(u)
      PROVE  TypeOK' /\ QueueHasDepth'
  <2>1. /\ queue # <<>> /\ Tail(queue) \in Seq(Urls) /\ Len(queue) \in Nat
        /\ Range(Tail(queue)) \subseteq DOMAIN depthMap
    BY <1>2, HeadAndTail, LenProperties
       DEF AlreadyVisited, Skip, Truncate, FetchLost, Fetches, Dequeues, TypeOK, QueueHasDepth
  <2>2. CASE AlreadyVisited(u)
    BY <2>1, <2>2 DEF AlreadyVisited, TypeOK, QueueHasDepth, mapVars, pageVars
  <2>3. CASE Skip(u)
    <3>1. SkipReason(u) \in SkipReasons
      BY <2>3 DEF Skip, SkipReason, SkipReasons, ConstantsAssumption
    <3> QED BY <2>1, <2>3, <3>1 DEF Skip, TypeOK, QueueHasDepth, mapVars, pageVars
  <2>4. CASE Truncate(u)
    BY <2>1, <2>4 DEF Truncate, TypeOK, QueueHasDepth, mapVars, pageVars
  <2>5. CASE FetchLost(u)
    BY <2>1, <2>5 DEF FetchLost, TypeOK, QueueHasDepth, mapVars, pageVars, AllAnswers
  <2> QED BY <1>2, <2>2, <2>3, <2>4, <2>5
<1>3. ASSUME NEW u \in Urls, NEW dest \in Landing(u), FetchUnread(u, dest)
      PROVE  TypeOK' /\ QueueHasDepth'
  <2>1. dest \in Urls
    BY DEF Landing, ConstantsAssumption
  <2>2. Tail(queue) \in Seq(Urls) /\ Range(Tail(queue)) \subseteq DOMAIN depthMap
    BY <1>3, HeadAndTail DEF FetchUnread, Fetches, Dequeues, TypeOK, QueueHasDepth
  <2> QED BY <1>3, <2>1, <2>2 DEF FetchUnread, Seen, TypeOK, QueueHasDepth, mapVars, AllAnswers
<1>4. ASSUME NEW u \in Urls, NEW dest \in Landing(u), FetchPage(u, dest)
      PROVE  TypeOK' /\ QueueHasDepth'
  <2>1. dest \in Urls
    BY DEF Landing, ConstantsAssumption
  <2>2. queue # <<>> /\ Tail(queue) \in Seq(Urls)
    BY <1>4, HeadAndTail DEF FetchPage, Fetches, Dequeues, TypeOK
  <2>3. visited' \subseteq Urls /\ landed' \in [Urls -> Urls]
    BY <1>4, <2>1 DEF FetchPage, Seen, TypeOK
  <2>4. fate' \in [Urls -> {"pending"} \cup SkipReasons \cup AllAnswers]
    BY <1>4 DEF FetchPage, TypeOK, AllAnswers
  <2>5. brokenSources' \in [Urls -> SUBSET (Urls \cup FromSeed)]
    <3>1. SourcesOf(u) \subseteq Urls \cup FromSeed
      BY DEF SourcesOf, TypeOK
    <3> QED BY <1>4, <3>1 DEF FetchPage, TypeOK
  <2>6. CASE SinglePage
    <3>1. PICK targets \in SUBSET Targets : IgnoreLinks(u, targets)
      BY <1>4, <2>6 DEF FetchPage
    <3>2. Range(Tail(queue)) \subseteq DOMAIN depthMap
      BY <2>2, HeadAndTail DEF TypeOK, QueueHasDepth
    <3> QED BY <1>4, <2>2, <2>3, <2>4, <2>5, <3>1, <3>2
            DEF FetchPage, IgnoreLinks, TypeOK, QueueHasDepth, mapVars, ConstantsAssumption
  <2>7. CASE ~SinglePage
    <3>1. PICK followed \in BoundedSeq(Followable(visited'), MaxAnchors),
               others \in SUBSET (Targets \ Followable(visited')) :
                 FollowLinks(u, followed, others)
      BY <1>4, <2>7 DEF FetchPage
    <3>2. followed \in Seq(Urls) /\ Range(followed) \subseteq Urls
      <4>1. followed \in Seq(Followable(visited'))
        BY <3>1 DEF BoundedSeq, SeqOf, ConstantsAssumption
      <4>2. Followable(visited') \subseteq Urls
        BY DEF Followable, ConstantsAssumption
      <4> QED BY <4>1, <4>2, SeqMonotonic, RangeOfSeq
    <3>3. queue' \in Seq(Urls)
      BY <3>1, <3>2, <2>2, ConcatProperties DEF FollowLinks
    <3> DEFINE new == Range(followed)
               child == ChildDepth(u)
    <3>4. child \in Nat \cup {NoDepth}
      <4>1. u \in DOMAIN depthMap
        BY <1>4, HeadAndTail DEF FetchPage, Fetches, Dequeues, TypeOK, QueueHasDepth
      <4> QED BY <4>1 DEF ChildDepth, TypeOK, NoDepth
    <3>5. depthMap' = SetDefault(depthMap, new, child)
          /\ discoveredFrom' = SetDefault(discoveredFrom, new, u)
      BY <3>1 DEF FollowLinks
    <3>8. new \subseteq Urls /\ Range(queue') = Range(Tail(queue)) \cup new
      <4> DEFINE rest == Tail(queue)
      <4>1. rest \in Seq(Urls) /\ queue' = rest \o followed
        BY <2>2, <3>1 DEF FollowLinks
      <4> HIDE DEF rest
      <4>2. Range(queue') = Range(rest) \cup Range(followed)
        BY <4>1, <3>2, ConcatRange
      <4> QED BY <4>2, <3>2 DEF rest
    <3> HIDE DEF new, child
    <3>9. /\ depthMap' \in [DOMAIN depthMap' -> Nat \cup {NoDepth}]
          /\ DOMAIN depthMap' = DOMAIN depthMap \cup new
      <4>1. SetDefault(depthMap, new, child) \in [DOMAIN depthMap \cup new -> Nat \cup {NoDepth}]
        BY <3>4, SetDefaultType DEF TypeOK
      <4> QED BY <4>1, <3>5
    <3>10. /\ discoveredFrom' \in [DOMAIN discoveredFrom' -> Urls \cup FromSeed]
           /\ DOMAIN discoveredFrom' = DOMAIN discoveredFrom \cup new
      <4>1. u \in Urls \cup FromSeed
        OBVIOUS
      <4>2. SetDefault(discoveredFrom, new, u) \in [DOMAIN discoveredFrom \cup new -> Urls \cup FromSeed]
        BY <4>1, SetDefaultType DEF TypeOK
      <4> QED BY <4>2, <3>5
    <3>6. discoveredFromAll' \in [Urls -> SUBSET Urls]
      BY <3>1 DEF FollowLinks, TypeOK
    <3>7. links' \in [Urls -> SUBSET Urls] /\ scopeSkipped' \subseteq Urls
      BY <3>1, <3>2 DEF FollowLinks, TypeOK, ConstantsAssumption
    <3>11. TypeOK'
      BY <1>4, <2>3, <2>4, <2>5, <3>3, <3>6, <3>7, <3>8, <3>9, <3>10 DEF FetchPage, TypeOK
    <3>12. QueueHasDepth'
      BY <2>2, <3>8, <3>9, HeadAndTail DEF QueueHasDepth, TypeOK
    <3> QED BY <3>11, <3>12
  <2> QED BY <2>6, <2>7
<1> QED BY <1>1, <1>2, <1>3, <1>4 DEF Next, Loop, Iteration

-----------------------------------------------------------------------------
LEMMA InvStep ==
  ASSUME ConstantsAssumption, IInv, [Next]_vars
  PROVE  IInv'
<1> USE DEF IInv
<1>1. TypeOK' /\ QueueHasDepth'
  BY TypeStep
<1>2. CASE UNCHANGED vars \/ RequestCancel
  <2>1. UNCHANGED <<scan, phase, queue, visited, fate, links, landed>>
    BY <1>2 DEF vars, mapVars, pageVars, RequestCancel
  <2> QED BY <1>1, <2>1, ScanFixed DEF VisitedIsHandled, Handled, WantedIsQueued, Wanted,
          WithinBudget, Pages
<1>3. CASE Cancelled
  BY <1>1, <1>3 DEF mapVars, pageVars, Cancelled, VisitedIsHandled, Handled,
     WantedIsQueued, WithinBudget, Pages
<1>4. CASE QueueEmpty
  BY <1>1, <1>4, ScanFixed DEF mapVars, pageVars, QueueEmpty, VisitedIsHandled, Handled,
     WantedIsQueued, Wanted, WithinBudget, Pages
<1>5. ASSUME NEW u \in Urls, AlreadyVisited(u)
      PROVE  IInv'
  <2>1. Range(queue) = {u} \cup Range(Tail(queue))
    BY <1>5, HeadAndTail DEF AlreadyVisited, Dequeues, TypeOK
  <2>2. WantedIsQueued'
    BY <1>5, <2>1, ScanFixed
       DEF AlreadyVisited, Dequeues, WantedIsQueued, Wanted, Pages, pageVars
  <2>3. VisitedIsHandled' /\ WithinBudget'
    BY <1>5 DEF AlreadyVisited, VisitedIsHandled, Handled, WithinBudget, Pages, pageVars
  <2> QED BY <1>1, <2>2, <2>3
<1>6. ASSUME NEW u \in Urls, Skip(u)
      PROVE  IInv'
  <2>1. SkipReason(u) \in SkipReasons
    BY <1>6 DEF Skip, SkipReason, SkipReasons, ConstantsAssumption
  <2>2. SkipReason(u) \notin PageAnswers
    BY <2>1 DEF SkipReasons, StaticSkips, PageAnswers
  <2>3. VisitedIsHandled' /\ WantedIsQueued' /\ WithinBudget'
    <3>1. /\ Dequeues(u) /\ u \notin visited /\ queue' = Tail(queue)
          /\ visited' = visited \cup {u, u} /\ fate' = [fate EXCEPT ![u] = SkipReason(u)]
          /\ UNCHANGED <<scan, phase, links>> /\ landed' = landed
      BY <1>6 DEF Skip, pageVars
    <3> DEFINE f == SkipReason(u)
    <3>2. f \in SkipReasons \cup AllAnswers /\ f \notin PageAnswers
      BY <2>1, <2>2
    <3>3. fate' = [fate EXCEPT ![u] = f]
      BY <3>1
    <3> HIDE DEF f
    <3> QED BY <3>1, <3>2, <3>3, NoPageStep
  <2> QED BY <1>1, <2>3
<1>7. ASSUME NEW u \in Urls, Truncate(u)
      PROVE  IInv'
  <2>1. phase' = "truncated" /\ Pages' = Pages /\ (\A v \in Urls : Handled(v)' <=> Handled(v))
    BY <1>7 DEF Truncate, Pages, Handled, pageVars
  <2>2. fate' = fate /\ landed' = landed /\ visited \subseteq visited'
    BY <1>7 DEF Truncate, pageVars
  <2>3. VisitedIsHandled' /\ WantedIsQueued' /\ WithinBudget'
    BY <2>1, <2>2 DEF VisitedIsHandled, WantedIsQueued, WithinBudget
  <2> QED BY <1>1, <2>3
<1>8. ASSUME NEW u \in Urls, FetchLost(u)
      PROVE  IInv'
  <2>1. "lost" \in AllAnswers /\ "lost" \notin PageAnswers
    BY DEF AllAnswers, PageAnswers
  <2>2. VisitedIsHandled' /\ WantedIsQueued' /\ WithinBudget'
    <3>1. /\ Dequeues(u) /\ u \notin visited /\ queue' = Tail(queue)
          /\ visited' = visited \cup {u, u} /\ fate' = [fate EXCEPT ![u] = "lost"]
          /\ UNCHANGED <<scan, phase, links>> /\ landed' = landed
      BY <1>8 DEF FetchLost, Fetches, pageVars
    <3> QED BY <3>1, <2>1, NoPageStep
  <2> QED BY <1>1, <2>2
<1>9. ASSUME NEW u \in Urls, NEW dest \in Landing(u), FetchUnread(u, dest)
      PROVE  IInv'
  <2>1. dest \in Urls /\ "unread" \in AllAnswers /\ "unread" \notin PageAnswers
    BY DEF AllAnswers, PageAnswers, Landing, ConstantsAssumption
  <2>2. VisitedIsHandled' /\ WantedIsQueued' /\ WithinBudget'
    BY <1>9, <2>1, NoPageStep DEF FetchUnread, Fetches, Seen
  <2> QED BY <1>1, <2>2
<1>10. ASSUME NEW u \in Urls, NEW dest \in Landing(u), FetchPage(u, dest)
       PROVE  IInv'
  <2>1. dest \in Urls
    BY DEF Landing, ConstantsAssumption
  <2> QED BY <1>1, <1>10, <2>1, PageStep
<1> QED BY <1>2, <1>3, <1>4, <1>5, <1>6, <1>7, <1>8, <1>9, <1>10 DEF Next, Loop, Iteration

(* The inductive invariant of the page loop.                               *)
THEOREM Invariance == Spec => []IInv
<1>1. Init => IInv
  BY ConstantsAssumption, InitOK
<1>2. IInv /\ [Next]_vars => IInv'
  BY ConstantsAssumption, InvStep
<1> QED BY <1>1, <1>2, PTL DEF Spec

(* The types of the page loop hold (run_crawl).                            *)
THEOREM TypeCorrect == Spec => []TypeOK
<1>1. IInv => TypeOK
  BY DEF IInv
<1> QED BY <1>1, Invariance, PTL

(* The crawl never holds more pages than its budget.                       *)
THEOREM BudgetHolds == Spec => []WithinBudget
<1>1. IInv => WithinBudget
  BY DEF IInv
<1> QED BY <1>1, Invariance, PTL

(* A crawl that ran out of URLs has handled every seed and every in-scope  *)
(* link of every page it read.                                             *)
THEOREM NothingIsLeftBehind == Spec => []NothingLeftBehind
<1>1. IInv => NothingLeftBehind
  <2> SUFFICES ASSUME IInv, phase = "complete",
                      NEW u \in Wanted, InScope(u)
               PROVE  Handled(u)
    BY DEF NothingLeftBehind
  <2>1. Range(queue) = {}
    BY DEF IInv, WantedIsQueued, Range
  <2>2. u \in visited
    BY <2>1 DEF IInv, WantedIsQueued
  <2> QED BY <2>2 DEF IInv, VisitedIsHandled
<1> QED BY <1>1, Invariance, PTL

(* No URL is fetched or skipped twice, and the destination of a redirect   *)
(* is not fetched again.                                                   *)
THEOREM EachUrlOnce == Spec => OneFate
<1>1. IInv /\ [Next]_vars =>
        [\A u \in Urls : Handled(u) => fate'[u] = fate[u]]_vars
  <2> SUFFICES ASSUME IInv, Next, NEW v \in Urls, Handled(v)
               PROVE  fate'[v] = fate[v]
    OBVIOUS
  <2>1. v \in visited
    BY DEF IInv, VisitedIsHandled
  <2>2. CASE RequestCancel \/ Cancelled \/ QueueEmpty
    BY <2>2 DEF RequestCancel, Cancelled, QueueEmpty
  <2>3. ASSUME NEW u \in Urls, Iteration(u)
        PROVE  fate'[v] = fate[v]
    <3>1. CASE u \in visited
      BY <2>3, <3>1 DEF Iteration, AlreadyVisited, Skip, Truncate, FetchLost, FetchUnread,
         FetchPage, Fetches
    <3>2. CASE u \notin visited
      <4>1. u # v
        BY <3>2, <2>1
      <4> QED BY <2>3, <3>2, <4>1 DEF Iteration, AlreadyVisited, Skip, Truncate, FetchLost,
              FetchUnread, FetchPage, IInv, TypeOK
    <3> QED BY <3>1, <3>2
  <2> QED BY <2>2, <2>3 DEF Next, Loop
<1> QED BY <1>1, Invariance, PTL DEF Spec, OneFate

-----------------------------------------------------------------------------
(* Where the URLs come from                                                *)

LinkedBy(v, p) == p \in Pages /\ v \in links[p]

(* Whatever is queued or was dealt with is the start URL, a seed, or       *)
(* linked from another page.                                               *)
Grounded ==
  \A v \in Urls :
    v \in Range(queue) \/ fate[v] # "pending" =>
      v = Home \/ v \in Seeds \/ \E p \in Pages \ {v} : v \in links[p]

(* The recorded sources of a URL link to it, or are the marks of seeds.    *)
Traced ==
  \A v \in Urls :
    /\ \A p \in discoveredFromAll[v] : LinkedBy(v, p)
    /\ v \in DOMAIN discoveredFrom =>
         discoveredFrom[v] \in FromSeed \/ LinkedBy(v, discoveredFrom[v])

(* The crawl of one page queues nothing but its start URL.                 *)
Alone == SinglePage => Range(queue) \subseteq {Home}

Origins == Grounded /\ Traced /\ SourcesLinkToIt /\ Alone /\ SinglePageStays

LEMMA InitOrigins ==
  ASSUME ConstantsAssumption, Init
  PROVE  Origins
<1>1. Range(queue) = {Home} \cup Seeds
  BY InitQueue
<1>2. Grounded
  BY <1>1 DEF Init, Grounded
<1>3. Traced /\ SourcesLinkToIt
  BY DEF Init, Traced, SourcesLinkToIt, FromSeed
<1>4. Alone /\ SinglePageStays
  BY <1>1 DEF Init, Alone, SinglePageStays, Seeds, PrioritySeeds, SitemapSeeds
<1> QED BY <1>2, <1>3, <1>4 DEF Origins

(* A step that takes u from the queue without adding a page.               *)
LEMMA OriginsOfOthers ==
  ASSUME ConstantsAssumption, IInv, Origins, NEW u \in Urls, Dequeues(u),
         queue' = Tail(queue), UNCHANGED <<scan, mapVars, links, brokenSources>>,
         \/ fate' = fate
         \/ \E f \in SkipReasons \cup AllAnswers :
              f \notin PageAnswers /\ u \notin visited /\ fate' = [fate EXCEPT ![u] = f]
  PROVE  Origins'
<1>1. /\ queue # <<>> /\ u \in Range(queue)
      /\ Range(queue') \subseteq Range(queue)
  BY HeadAndTail DEF Dequeues, IInv, TypeOK
<1>2. Pages' = Pages /\ \A v \in Urls : fate'[v] # "pending" => v = u \/ fate[v] # "pending"
  <2>1. CASE fate' = fate
    BY <2>1 DEF Pages
  <2>2. ASSUME NEW f \in SkipReasons \cup AllAnswers,
               f \notin PageAnswers, u \notin visited, fate' = [fate EXCEPT ![u] = f]
        PROVE  <1>2!1 /\ <1>2!2
    <3>1. fate[u] = "pending"
      BY <2>2 DEF IInv, VisitedIsHandled, Handled
    <3> QED BY <2>2, <3>1 DEF Pages, PageAnswers, IInv, TypeOK
  <2> QED BY <2>1, <2>2
<1>3. Seeds' = Seeds /\ SinglePage' = SinglePage
  BY ScanFixed
<1>4. Grounded'
  BY <1>1, <1>2, <1>3 DEF Origins, Grounded
<1>5. Traced' /\ SourcesLinkToIt'
  BY <1>2 DEF Origins, Traced, SourcesLinkToIt, LinkedBy, mapVars
<1>6. Alone' /\ SinglePageStays'
  BY <1>1, <1>2, <1>3 DEF Origins, Alone, SinglePageStays
<1> QED BY <1>4, <1>5, <1>6 DEF Origins

(* A page is added: its links get it as a source, and it was queued itself. *)
LEMMA OriginsOfPage ==
  ASSUME ConstantsAssumption, IInv, Origins, NEW u \in Urls, NEW dest \in Urls,
         FetchPage(u, dest)
  PROVE  Origins'
<1>1. /\ queue # <<>> /\ u \in Range(queue) /\ u \notin visited
      /\ Tail(queue) \in Seq(Urls) /\ Range(Tail(queue)) \subseteq Range(queue)
  BY HeadAndTail DEF FetchPage, Fetches, Dequeues, IInv, TypeOK
<1>2. PICK answer \in PageAnswers :
        /\ fate' = [fate EXCEPT ![u] = answer]
        /\ brokenSources' = [brokenSources EXCEPT ![u] =
                               IF answer = "broken" THEN SourcesOf(u) ELSE {}]
  BY DEF FetchPage
<1>3. fate[u] = "pending"
  BY <1>1 DEF IInv, VisitedIsHandled, Handled
<1>4. /\ Pages' = Pages \cup {u} /\ u \notin Pages
      /\ \A v \in Urls : fate'[v] # "pending" => v = u \/ fate[v] # "pending"
  BY <1>2, <1>3 DEF Pages, PageAnswers, IInv, TypeOK
<1>5. scan' = scan /\ Seeds' = Seeds /\ SinglePage' = SinglePage /\ u \in visited'
  BY ScanFixed DEF FetchPage, Seen
<1>6. \A p \in Urls \ {u} : links'[p] = links[p]
  BY DEF FetchPage, IgnoreLinks, FollowLinks, IInv, TypeOK
<1>7. \A v, p : LinkedBy(v, p) => LinkedBy(v, p)'
  BY <1>4, <1>6 DEF LinkedBy, Pages
<1>8. SourcesLinkToIt'
  <2>1. ASSUME NEW v \in Urls, NEW p \in brokenSources'[v]
        PROVE  p \in FromSeed \/ LinkedBy(v, p)
    <3>1. CASE p \in brokenSources[v]
      BY <3>1 DEF Origins, SourcesLinkToIt, LinkedBy
    <3>2. CASE p \notin brokenSources[v]
      <4>1. v = u /\ p \in SourcesOf(u)
        BY <1>2, <2>1, <3>2 DEF IInv, TypeOK
      <4> QED BY <4>1 DEF SourcesOf, Origins, Traced
    <3> QED BY <3>1, <3>2
  <2> QED BY <1>7, <2>1 DEF SourcesLinkToIt, LinkedBy
<1>9. CASE SinglePage
  <2>1. queue' = Tail(queue) /\ UNCHANGED mapVars
    BY <1>9 DEF FetchPage, IgnoreLinks
  <2>2. Alone' /\ SinglePageStays'
    BY <1>1, <1>4, <1>5, <1>9, <2>1 DEF Origins, Alone, SinglePageStays
  <2>3. Traced'
    BY <1>7, <2>1 DEF Origins, Traced, mapVars
  <2>4. Grounded'
    BY <1>1, <1>4, <1>5, <1>6, <2>1 DEF Origins, Grounded, Pages
  <2> QED BY <1>8, <2>2, <2>3, <2>4 DEF Origins
<1>10. CASE ~SinglePage
  <2>1. PICK followed \in BoundedSeq(Followable(visited'), MaxAnchors),
             others \in SUBSET (Targets \ Followable(visited')) :
               FollowLinks(u, followed, others)
    BY <1>10 DEF FetchPage
  <2>2. /\ followed \in Seq(Urls) /\ Range(followed) \subseteq Urls
        /\ Range(followed) \cap visited' = {}
    <3>1. followed \in Seq(Followable(visited'))
      BY <2>1 DEF BoundedSeq, SeqOf, ConstantsAssumption
    <3>2. Followable(visited') \subseteq Urls /\ Followable(visited') \cap visited' = {}
      BY DEF Followable, ConstantsAssumption
    <3>3. Range(followed) \subseteq Followable(visited')
      BY <3>1, RangeOfSeq
    <3> QED BY <3>1, <3>2, <3>3, SeqMonotonic
  <2>3. Range(queue') = Range(Tail(queue)) \cup Range(followed)
    <3> DEFINE rest == Tail(queue)
    <3>1. rest \in Seq(Urls) /\ queue' = rest \o followed
      BY <1>1, <2>1 DEF FollowLinks
    <3> HIDE DEF rest
    <3>2. Range(queue') = Range(rest) \cup Range(followed)
      BY <2>2, <3>1, ConcatRange
    <3> QED BY <3>2 DEF rest
  <2>4. \A v \in Range(followed) \cup others : LinkedBy(v, u)'
    BY <1>4, <2>1 DEF LinkedBy, FollowLinks, IInv, TypeOK
  <2>5. Grounded'
    <3> SUFFICES ASSUME NEW v \in Urls, v \in Range(queue') \/ fate'[v] # "pending"
                 PROVE  v = Home \/ v \in Seeds' \/ \E p \in Pages' \ {v} : v \in links'[p]
      BY DEF Grounded
    <3>1. CASE v \in Range(queue) \/ fate[v] # "pending"
      BY <1>4, <1>5, <1>6, <3>1 DEF Origins, Grounded, Pages
    <3>2. CASE v \in Range(followed)
      <4>1. v # u
        BY <1>5, <2>2, <3>2
      <4> QED BY <2>4, <3>2, <4>1 DEF LinkedBy
    <3> QED BY <1>1, <1>4, <2>3, <3>1, <3>2
  <2>6. Traced'
    <3> SUFFICES ASSUME NEW v \in Urls
                 PROVE  /\ \A p \in discoveredFromAll'[v] : LinkedBy(v, p)'
                        /\ v \in DOMAIN discoveredFrom' =>
                             \/ discoveredFrom'[v] \in FromSeed
                             \/ LinkedBy(v, discoveredFrom[v])'
      BY DEF Traced, LinkedBy
    <3>1. \A p \in discoveredFromAll'[v] : LinkedBy(v, p)'
      <4>1. \A p \in discoveredFromAll'[v] :
              p \in discoveredFromAll[v] \/ (p = u /\ v \in Range(followed) \cup others)
        BY <2>1 DEF FollowLinks
      <4> QED BY <1>7, <2>4, <4>1 DEF Origins, Traced
    <3>2. ASSUME v \in DOMAIN discoveredFrom'
          PROVE  \/ discoveredFrom'[v] \in FromSeed
                 \/ LinkedBy(v, discoveredFrom[v])'
      <4> DEFINE new == Range(followed)
      <4>1. discoveredFrom' = SetDefault(discoveredFrom, new, u)
        BY <2>1 DEF FollowLinks
      <4> HIDE DEF new
      <4>2. CASE v \in DOMAIN discoveredFrom
        <5>1. discoveredFrom'[v] = discoveredFrom[v]
          BY <4>1, <4>2 DEF SetDefault
        <5>2. discoveredFrom[v] \in FromSeed \/ LinkedBy(v, discoveredFrom[v])
          BY <4>2 DEF Origins, Traced
        <5> QED BY <1>7, <5>1, <5>2 DEF LinkedBy
      <4>3. CASE v \notin DOMAIN discoveredFrom
        <5>1. v \in new /\ discoveredFrom'[v] = u
          BY <3>2, <4>1, <4>3 DEF SetDefault
        <5> QED BY <2>4, <5>1 DEF new, LinkedBy
      <4> QED BY <4>2, <4>3
    <3> QED BY <3>1, <3>2
  <2>7. Alone' /\ SinglePageStays'
    BY <1>5, <1>10 DEF Alone, SinglePageStays
  <2> QED BY <1>8, <2>5, <2>6, <2>7 DEF Origins
<1> QED BY <1>9, <1>10

LEMMA OriginsStep ==
  ASSUME ConstantsAssumption, IInv, Origins, [Next]_vars
  PROVE  Origins'
<1>1. CASE RequestCancel \/ Cancelled \/ QueueEmpty \/ UNCHANGED vars
  <2>1. UNCHANGED <<scan, queue, fate, mapVars, links, brokenSources>>
    BY <1>1 DEF RequestCancel, Cancelled, QueueEmpty, vars, pageVars
  <2>2. Pages' = Pages /\ Seeds' = Seeds /\ SinglePage' = SinglePage
    BY <2>1, ScanFixed DEF Pages
  <2> QED BY <2>1, <2>2 DEF Origins, Grounded, Traced, LinkedBy, SourcesLinkToIt, Alone,
             SinglePageStays, mapVars
<1>2. ASSUME NEW u \in Urls, AlreadyVisited(u) \/ Truncate(u)
      PROVE  Origins'
  <2>1. /\ Dequeues(u) /\ queue' = Tail(queue) /\ fate' = fate
        /\ UNCHANGED <<scan, mapVars, links, brokenSources>>
    BY <1>2 DEF AlreadyVisited, Truncate, pageVars
  <2> QED BY <2>1, OriginsOfOthers
<1>3. ASSUME NEW u \in Urls, Skip(u)
      PROVE  Origins'
  <2> DEFINE f == SkipReason(u)
  <2>1. f \in SkipReasons
    BY <1>3 DEF Skip, SkipReason, SkipReasons, ConstantsAssumption
  <2>2. f \notin PageAnswers
    BY <2>1 DEF SkipReasons, StaticSkips, PageAnswers
  <2>3. /\ Dequeues(u) /\ u \notin visited /\ queue' = Tail(queue)
        /\ fate' = [fate EXCEPT ![u] = f]
        /\ UNCHANGED <<scan, mapVars, links, brokenSources>>
    BY <1>3 DEF Skip, pageVars
  <2> HIDE DEF f
  <2> QED BY <2>1, <2>2, <2>3, OriginsOfOthers
<1>4. ASSUME NEW u \in Urls, FetchLost(u)
      PROVE  Origins'
  <2>1. "lost" \in AllAnswers /\ "lost" \notin PageAnswers
    BY DEF AllAnswers, PageAnswers
  <2>2. /\ Dequeues(u) /\ u \notin visited /\ queue' = Tail(queue)
        /\ fate' = [fate EXCEPT ![u] = "lost"]
        /\ UNCHANGED <<scan, mapVars, links, brokenSources>>
    BY <1>4 DEF FetchLost, Fetches, pageVars
  <2> QED BY <2>1, <2>2, OriginsOfOthers
<1>5. ASSUME NEW u \in Urls, NEW dest \in Landing(u), FetchUnread(u, dest)
      PROVE  Origins'
  <2>1. "unread" \in AllAnswers /\ "unread" \notin PageAnswers
    BY DEF AllAnswers, PageAnswers
  <2>2. /\ Dequeues(u) /\ u \notin visited /\ queue' = Tail(queue)
        /\ fate' = [fate EXCEPT ![u] = "unread"]
        /\ UNCHANGED <<scan, mapVars, links, brokenSources>>
    BY <1>5 DEF FetchUnread, Fetches
  <2> QED BY <2>1, <2>2, OriginsOfOthers
<1>6. ASSUME NEW u \in Urls, NEW dest \in Landing(u), FetchPage(u, dest)
      PROVE  Origins'
  <2>1. dest \in Urls
    BY DEF Landing, ConstantsAssumption
  <2> QED BY <1>6, <2>1, OriginsOfPage
<1> QED BY <1>1, <1>2, <1>3, <1>4, <1>5, <1>6 DEF Next, Loop, Iteration

LEMMA OriginsHold == Spec => []Origins
<1>1. Init => Origins
  BY ConstantsAssumption, InitOrigins
<1>2. IInv /\ Origins /\ [Next]_vars => Origins'
  BY ConstantsAssumption, OriginsStep
<1> QED BY <1>1, <1>2, Invariance, PTL DEF Spec

(* Only a page known from a seed can be reported an orphan.                *)
THEOREM OrphansComeFromSeeds == Spec => []OrphansAreSeeds
<1>1. Origins => OrphansAreSeeds
  <2> SUFFICES ASSUME Origins, NEW v \in Orphans
               PROVE  v \in Seeds
    BY DEF OrphansAreSeeds
  <2>1. v \in Urls /\ v \notin Linked /\ v # Home /\ fate[v] # "pending"
    BY DEF Orphans, HtmlPages
  <2> QED BY <2>1 DEF Origins, Grounded, Linked
<1> QED BY <1>1, OriginsHold, PTL

(* The sources a broken page is reported with link to it.                  *)
THEOREM SourcesAreReal == Spec => []SourcesLinkToIt
<1>1. Origins => SourcesLinkToIt
  BY DEF Origins
<1> QED BY <1>1, OriginsHold, PTL

(* The crawl of one page asks for no other URL.                            *)
THEOREM OnePageOnly == Spec => []SinglePageStays
<1>1. Origins => SinglePageStays
  BY DEF Origins
<1> QED BY <1>1, OriginsHold, PTL

-----------------------------------------------------------------------------
(* The shortfall of a truncated crawl                                      *)

(* A sequence has at most as many elements as places.                      *)
LEMMA RangeBound ==
  ASSUME NEW S, NEW q \in Seq(S)
  PROVE  IsFiniteSet(Range(q)) /\ Cardinality(Range(q)) <= Len(q)
<1>1. Len(q) \in Nat /\ q \in [1..Len(q) -> S] /\ DOMAIN q = 1..Len(q)
  BY LenProperties
<1>2. IsFiniteSet(1..Len(q)) /\ Cardinality(1..Len(q)) = Len(q)
  BY <1>1, FS_Interval
<1>3. q \in Surjection(1..Len(q), Range(q))
  BY <1>1 DEF Surjection, Range
<1> QED BY <1>2, <1>3, FS_Surjection

(* A truncated crawl discloses at least the URLs it left in the queue.     *)
THEOREM ShortfallIsCovered == Spec => []ShortfallCovers
<1>1. Init => ShortfallCovers
  BY DEF Init, ShortfallCovers
<1>2. IInv /\ ShortfallCovers /\ [Next]_vars => ShortfallCovers'
  <2> SUFFICES ASSUME IInv, ShortfallCovers, [Next]_vars, phase' = "truncated"
               PROVE  unfetched' >= 1 + Cardinality(Range(queue') \ visited')
    BY DEF ShortfallCovers
  <2>1. CASE phase = "truncated"
    <3>1. UNCHANGED <<phase, queue, visited, unfetched>>
      BY <2>1 DEF Next, Loop, Iteration, RequestCancel, Cancelled, QueueEmpty, AlreadyVisited,
         Skip, Truncate, FetchLost, FetchUnread, FetchPage, Fetches, Dequeues, vars
    <3> QED BY <2>1, <3>1 DEF ShortfallCovers
  <2>2. CASE phase # "truncated"
    <3>1. PICK u \in Urls : Truncate(u)
      BY <2>2 DEF Next, Loop, Iteration, RequestCancel, Cancelled, QueueEmpty, AlreadyVisited,
         Skip, FetchLost, FetchUnread, FetchPage, Fetches, Dequeues, vars
    <3>2. queue # <<>> /\ queue' = Tail(queue) /\ unfetched' = Len(queue)
      BY <3>1 DEF Truncate, Dequeues
    <3>3. queue' \in Seq(Urls) /\ Len(queue') = Len(queue) - 1 /\ Len(queue) \in Nat
      BY <3>2, HeadTailProperties, LenProperties DEF IInv, TypeOK
    <3>4. IsFiniteSet(Range(queue')) /\ Cardinality(Range(queue')) <= Len(queue')
      BY <3>3, RangeBound
    <3>5. /\ Cardinality(Range(queue') \ visited') \in Nat
          /\ Cardinality(Range(queue') \ visited') <= Cardinality(Range(queue'))
          /\ Cardinality(Range(queue')) \in Nat
      <4>1. (Range(queue') \ visited') \in SUBSET Range(queue')
        OBVIOUS
      <4> QED BY <3>4, <4>1, FS_Subset, FS_CardinalityType
    <3> QED BY <3>2, <3>3, <3>4, <3>5
  <2> QED BY <2>1, <2>2
<1> QED BY <1>1, <1>2, Invariance, PTL DEF Spec

-----------------------------------------------------------------------------
(* Click depths                                                            *)

Waiting == Range(queue) \ visited
Known(u) == u \in DOMAIN depthMap /\ depthMap[u] # NoDepth

(* y has a place in q with none of the late URLs at it or before it.       *)
InLine(q, y, late) ==
  \E i \in 1..Len(q) : q[i] = y /\ \A j \in 1..i : q[j] \notin late

(* phi is a level for each URL that was discovered, whether its depth is   *)
(* known or not: a link leads at most one level down, and the URLs in the  *)
(* queue wait in the order of their levels, at most one level apart.       *)
IsLevel(phi) ==
  /\ phi \in [DOMAIN depthMap -> Nat]
  /\ phi[Home] = 0
  /\ \A u \in Urls : Known(u) => phi[u] = depthMap[u]
  /\ \A p \in Pages : \A v \in links[p] \cap DOMAIN depthMap : phi[v] <= phi[p] + 1
  /\ \A x \in DOMAIN depthMap, y \in Waiting : phi[x] <= phi[y] + 1
  /\ \A y \in Waiting :
       InLine(queue, y, {x \in DOMAIN depthMap \ visited : phi[x] > phi[y]})

Layered == \E phi : IsLevel(phi)

(* A known depth is one more than that of a page that links to the URL.    *)
Rooted ==
  /\ Known(Home) /\ depthMap[Home] = 0
  /\ Pages \subseteq DOMAIN depthMap
  /\ DOMAIN depthMap \subseteq visited \cup Range(queue)
  /\ \A u \in Urls \ {Home} : Known(u) =>
       \E p \in Pages : u \in links[p] /\ Known(p) /\ depthMap[u] = depthMap[p] + 1
  /\ \A p \in Pages : \A v \in links[p] :
       v \in DOMAIN depthMap \/ v \in visited \/ ~InScope(v) \/ SinglePage

LEMMA InLineHead ==
  ASSUME NEW S, NEW q \in Seq(S), NEW y, NEW late, InLine(q, y, late)
  PROVE  q[1] \notin late
<1>1. PICK i \in 1..Len(q) : q[i] = y /\ \A j \in 1..i : q[j] \notin late
  BY DEF InLine
<1>2. Len(q) \in Nat
  BY LenProperties
<1>3. 1 \in 1..i
  BY <1>2
<1> QED BY <1>1, <1>3

(* Who is not first keeps the place when the first leaves.                 *)
LEMMA InLineTail ==
  ASSUME NEW S, NEW q \in Seq(S), q # <<>>, NEW y, y # Head(q), NEW late,
         InLine(q, y, late), NEW later, later \cap Range(Tail(q)) \subseteq late
  PROVE  InLine(Tail(q), y, later)
<1> DEFINE t == Tail(q)
<1>1. t \in Seq(S) /\ Len(t) = Len(q) - 1 /\ \A i \in 1..Len(t) : t[i] = q[i+1]
  BY HeadTailProperties
<1>2. PICK i \in 1..Len(q) : q[i] = y /\ \A j \in 1..i : q[j] \notin late
  BY DEF InLine
<1>3. Len(q) \in Nat /\ Len(t) \in Nat
  BY <1>1, LenProperties
<1>4. i # 1
  BY <1>2
<1>5. i - 1 \in 1..Len(t) /\ t[i - 1] = y
  <2>1. i - 1 \in 1..Len(t) /\ (i - 1) + 1 = i
    BY <1>1, <1>3, <1>4
  <2> QED BY <2>1, <1>1, <1>2
<1>6. ASSUME NEW j \in 1..(i - 1)
      PROVE  t[j] \notin later
  <2>1. j \in 1..Len(t) /\ j + 1 \in 1..i
    BY <1>1, <1>3, <1>4
  <2>2. t[j] = q[j + 1] /\ t[j] \in Range(t)
    BY <2>1, <1>1, RangeEquality
  <2> QED BY <2>1, <2>2, <1>2
<1> QED BY <1>5, <1>6 DEF InLine

LEMMA InLineConcat ==
  ASSUME NEW S, NEW q \in Seq(S), NEW r \in Seq(S), NEW y, NEW late, InLine(q, y, late)
  PROVE  InLine(q \o r, y, late)
<1>1. Len(q) \in Nat /\ Len(r) \in Nat
  BY LenProperties
<1>2. Len(q \o r) = Len(q) + Len(r) /\ \A i \in 1..Len(q) : (q \o r)[i] = q[i]
  <2>1. Len(q \o r) = Len(q) + Len(r)
        /\ \A i \in 1..(Len(q) + Len(r)) : (q \o r)[i] = IF i <= Len(q) THEN q[i] ELSE r[i - Len(q)]
    BY ConcatProperties
  <2>2. \A i \in 1..Len(q) : i \in 1..(Len(q) + Len(r)) /\ i <= Len(q)
    BY <1>1
  <2> QED BY <2>1, <2>2
<1>3. PICK i \in 1..Len(q) : q[i] = y /\ \A j \in 1..i : q[j] \notin late
  BY DEF InLine
<1>4. i \in 1..Len(q \o r) /\ \A j \in 1..i : j \in 1..Len(q)
  BY <1>1, <1>2
<1> QED BY <1>2, <1>3, <1>4 DEF InLine

LEMMA InLineOfNone ==
  ASSUME NEW S, NEW q \in Seq(S), NEW y \in Range(q), NEW late, late = {}
  PROVE  InLine(q, y, late)
<1>1. PICK i \in 1..Len(q) : q[i] = y
  BY RangeEquality
<1> QED BY <1>1 DEF InLine

-----------------------------------------------------------------------------
LEMMA InitLayered ==
  ASSUME ConstantsAssumption, Init
  PROVE  Layered /\ Rooted
<1>0. IInv
  BY InitOK
<1>1. PrioritySeeds \subseteq Urls /\ SitemapSeeds \subseteq Urls /\ Home \notin Seeds
      /\ Seeds \subseteq Urls /\ Home \in Urls /\ queue \in Seq(Urls)
  BY <1>0 DEF ConstantsAssumption, PrioritySeeds, SitemapSeeds, Seeds, IInv, TypeOK
<1>2. Range(queue) = {Home} \cup Seeds /\ queue[1] = Home /\ 1 \in 1..Len(queue)
  BY InitQueue
<1>3. Pages = {} /\ DOMAIN depthMap = {Home} \cup Seeds /\ depthMap[Home] = 0
      /\ \A u \in Seeds : depthMap[u] = NoDepth
  BY <1>1 DEF Init, Pages, PageAnswers
<1>4. PICK phi : phi = [u \in DOMAIN depthMap |-> IF u = Home THEN 0 ELSE 1]
  OBVIOUS
<1>5. /\ phi \in [DOMAIN depthMap -> Nat] /\ phi[Home] = 0
      /\ \A u \in Seeds : phi[u] = 1
  BY <1>1, <1>3, <1>4
<1>6. ASSUME NEW y \in Waiting
      PROVE  InLine(queue, y, {x \in DOMAIN depthMap \ visited : phi[x] > phi[y]})
  <2> DEFINE late == {x \in DOMAIN depthMap \ visited : phi[x] > phi[y]}
  <2>1. CASE y = Home
    <3>1. Home \notin late
      BY <1>5, <2>1
    <3>2. \A j \in 1..1 : queue[j] \notin late
      BY <1>2, <3>1
    <3> QED BY <1>2, <2>1, <3>2 DEF InLine
  <2>2. CASE y # Home
    <3>1. y \in Seeds /\ y \in Range(queue)
      BY <1>2, <2>2 DEF Waiting
    <3>2. late = {}
      BY <1>3, <1>5, <3>1
    <3> HIDE DEF late
    <3>3. InLine(queue, y, late)
      BY <1>1, <3>1, <3>2, InLineOfNone
    <3> QED BY <3>3 DEF late
  <2> QED BY <2>1, <2>2
<1>7. \A x \in DOMAIN depthMap, y \in Waiting : phi[x] <= phi[y] + 1
  BY <1>2, <1>3, <1>5 DEF Waiting
<1>8. \A u \in Urls : Known(u) => phi[u] = depthMap[u]
  BY <1>3, <1>5 DEF Known
<1>9. IsLevel(phi)
  BY <1>3, <1>5, <1>6, <1>7, <1>8 DEF IsLevel
<1>10. Rooted
  BY <1>2, <1>3 DEF Rooted, Known, NoDepth
<1> QED BY <1>9, <1>10 DEF Layered

(* A step that adds no page takes at most the first URL from the queue,    *)
(* which is visited then.                                                  *)
LEMMA LayeredOfOthers ==
  ASSUME IInv, Layered, Rooted,
         \/ queue' = queue
         \/ queue # <<>> /\ queue' = Tail(queue) /\ Head(queue) \in visited',
         visited \subseteq visited', Pages' = Pages,
         UNCHANGED <<scan, depthMap, links>>
  PROVE  Layered' /\ Rooted'
<1>1. PICK phi : IsLevel(phi)
  BY DEF Layered
<1>2. queue \in Seq(Urls)
  BY DEF IInv, TypeOK
<1>3. Waiting' \subseteq Waiting /\ Range(queue) \subseteq Range(queue') \cup visited'
  <2>1. CASE queue' = queue
    BY <2>1 DEF Waiting
  <2>2. CASE queue # <<>> /\ queue' = Tail(queue) /\ Head(queue) \in visited'
    BY <1>2, <2>2, HeadAndTail DEF Waiting
  <2> QED BY <2>1, <2>2
<1>4. \A u : Known(u)' = Known(u) /\ InScope(u)' = InScope(u) /\ SinglePage' = SinglePage
  BY ScanFixed DEF Known
<1>5. Rooted'
  BY <1>3, <1>4 DEF Rooted
<1>6. ASSUME NEW y \in Waiting'
      PROVE  InLine(queue', y, {x \in DOMAIN depthMap \ visited' : phi[x] > phi[y]})
  <2> DEFINE late == {x \in DOMAIN depthMap \ visited : phi[x] > phi[y]}
             later == {x \in DOMAIN depthMap \ visited' : phi[x] > phi[y]}
  <2>1. InLine(queue, y, late) /\ later \subseteq late
    BY <1>1, <1>3, <1>6 DEF IsLevel
  <2> HIDE DEF late, later
  <2>2. CASE queue' = queue
    BY <2>1, <2>2 DEF InLine, later
  <2>3. CASE queue # <<>> /\ queue' = Tail(queue) /\ Head(queue) \in visited'
    <3>1. y # Head(queue)
      BY <1>6, <2>3 DEF Waiting
    <3>2. InLine(Tail(queue), y, later)
      BY <1>2, <2>1, <2>3, <3>1, InLineTail
    <3> QED BY <2>3, <3>2 DEF later
  <2> QED BY <2>2, <2>3
<1>7. IsLevel(phi)'
  BY <1>1, <1>3, <1>4, <1>6 DEF IsLevel
<1> QED BY <1>5, <1>7 DEF Layered

(* The page step: what it discovers is one level below the page, whose     *)
(* level is the least of those in the queue.                               *)
LEMMA LayeredOfPage ==
  ASSUME ConstantsAssumption, IInv, Layered, Rooted, NEW u \in Urls, NEW dest \in Urls,
         FetchPage(u, dest), ~SinglePage
  PROVE  Layered' /\ Rooted'
<1>1. PICK phi : IsLevel(phi)
  BY DEF Layered
<1>2. PICK followed \in BoundedSeq(Followable(visited'), MaxAnchors),
           others \in SUBSET (Targets \ Followable(visited')) :
             FollowLinks(u, followed, others)
  BY DEF FetchPage
<1> DEFINE new == Range(followed)
           rest == Tail(queue)
<1>3. /\ followed \in Seq(Urls) /\ new \subseteq Urls
      /\ \A v \in new : v \notin visited' /\ InScope(v)
  <2>1. followed \in Seq(Followable(visited'))
    BY <1>2 DEF BoundedSeq, SeqOf, ConstantsAssumption
  <2>2. Followable(visited') \subseteq Urls /\ \A v \in Followable(visited') : v \notin visited' /\ InScope(v)
    BY DEF Followable, ConstantsAssumption
  <2>3. Range(followed) \subseteq Followable(visited')
    BY <2>1, RangeOfSeq
  <2> QED BY <2>1, <2>2, <2>3, SeqMonotonic
<1>4. /\ queue \in Seq(Urls) /\ queue # <<>> /\ u = Head(queue) /\ u \notin visited
      /\ rest \in Seq(Urls) /\ Range(queue) = {u} \cup Range(rest)
      /\ visited' = visited \cup {u, dest} /\ scan' = scan
  BY HeadAndTail DEF FetchPage, Fetches, Dequeues, IInv, TypeOK, Seen
<1>5. queue' = rest \o followed /\ Range(queue') = Range(rest) \cup new
  <2>1. queue' = rest \o followed
    BY <1>2 DEF FollowLinks
  <2> HIDE DEF rest
  <2>2. Range(rest \o followed) = Range(rest) \cup Range(followed)
    BY <1>3, <1>4, ConcatRange
  <2> QED BY <2>1, <2>2
<1>6. u \in Waiting /\ u \in DOMAIN depthMap /\ Range(queue) \subseteq DOMAIN depthMap
  BY <1>4 DEF Waiting, IInv, QueueHasDepth
<1>7. /\ DOMAIN depthMap' = DOMAIN depthMap \cup new
      /\ \A v \in DOMAIN depthMap : depthMap'[v] = depthMap[v]
      /\ \A v \in new \ DOMAIN depthMap : depthMap'[v] = ChildDepth(u)
  BY <1>2 DEF FollowLinks, SetDefault
<1>8. Pages' = Pages \cup {u} /\ u \notin Pages
  <2>1. PICK answer \in PageAnswers : fate' = [fate EXCEPT ![u] = answer]
    BY DEF FetchPage
  <2>2. fate[u] = "pending"
    BY <1>4 DEF IInv, VisitedIsHandled, Handled
  <2> QED BY <2>1, <2>2 DEF Pages, PageAnswers, IInv, TypeOK
<1>9. links'[u] = new \cup others /\ \A p \in Pages : links'[p] = links[p]
  BY <1>2, <1>8 DEF FollowLinks, Pages, IInv, TypeOK
<1>10. SinglePage' = SinglePage /\ \A v : InScope(v)' = InScope(v)
  BY <1>4, ScanFixed
<1>11. \A p \in Pages : \A v \in links[p] \cap new : v \in DOMAIN depthMap
  BY <1>3, <1>4 DEF Rooted
<1>12. /\ \A x \in DOMAIN depthMap : phi[x] \in Nat /\ phi[x] <= phi[u] + 1
       /\ \A y \in Waiting : phi[u] <= phi[y]
  <2>1. \A x \in DOMAIN depthMap : phi[x] \in Nat /\ phi[x] <= phi[u] + 1
    BY <1>1, <1>6 DEF IsLevel
  <2>2. ASSUME NEW y \in Waiting
        PROVE  phi[u] <= phi[y]
    <3> DEFINE late == {x \in DOMAIN depthMap \ visited : phi[x] > phi[y]}
    <3>1. InLine(queue, y, late)
      BY <1>1 DEF IsLevel
    <3>2. queue[1] = u
      BY <1>4
    <3>3. u \notin late
      <4> HIDE DEF late
      <4> QED BY <1>4, <3>1, <3>2, InLineHead
    <3>4. y \in DOMAIN depthMap
      BY <1>6 DEF Waiting
    <3> QED BY <1>4, <1>6, <2>1, <3>3, <3>4
  <2> QED BY <2>1, <2>2
<1>13. PICK psi : psi = [v \in DOMAIN depthMap' |->
                           IF v \in DOMAIN depthMap THEN phi[v] ELSE phi[u] + 1]
  OBVIOUS
<1>14. /\ psi \in [DOMAIN depthMap' -> Nat]
       /\ \A v \in DOMAIN depthMap : psi[v] = phi[v]
       /\ \A v \in new \ DOMAIN depthMap : psi[v] = phi[u] + 1
       /\ \A v \in DOMAIN depthMap' : psi[v] <= phi[u] + 1
  BY <1>6, <1>7, <1>12, <1>13
<1>15. \A y \in Waiting' : \/ y \in Waiting \ {u} /\ y \in DOMAIN depthMap /\ y \in Range(rest)
                           \/ y \in new \ DOMAIN depthMap
  <2> SUFFICES ASSUME NEW y \in Waiting', y \notin new \/ y \in DOMAIN depthMap
               PROVE  y \in Waiting \ {u} /\ y \in DOMAIN depthMap /\ y \in Range(rest)
    OBVIOUS
  <2>1. y \in Range(queue') /\ y \notin visited' /\ y \notin visited /\ y # u
    BY <1>4 DEF Waiting
  <2>2. y \in Range(queue)
    BY <1>4, <1>5, <1>6, <2>1 DEF Rooted
  <2> QED BY <1>4, <1>6, <2>1, <2>2 DEF Waiting
<1>16. psi[Home] = 0
  BY <1>1, <1>14 DEF IsLevel, Rooted, Known
<1>17. ASSUME NEW v \in Urls, Known(v)'
       PROVE  psi[v] = depthMap'[v]
  <2>1. CASE v \in DOMAIN depthMap
    BY <1>1, <1>7, <1>14, <1>17, <2>1 DEF Known, IsLevel
  <2>2. CASE v \notin DOMAIN depthMap
    <3>1. v \in new /\ depthMap'[v] = ChildDepth(u) /\ ChildDepth(u) # NoDepth
      BY <1>7, <1>17, <2>2 DEF Known
    <3>2. Known(u) /\ depthMap'[v] = depthMap[u] + 1
      BY <1>6, <3>1 DEF ChildDepth, Known
    <3> QED BY <1>1, <1>14, <2>2, <3>1, <3>2 DEF IsLevel
  <2> QED BY <2>1, <2>2
<1>18. ASSUME NEW p \in Pages', NEW v \in links'[p] \cap DOMAIN depthMap'
       PROVE  psi[v] <= psi[p] + 1
  <2>1. CASE p = u
    BY <1>6, <1>14, <2>1
  <2>2. CASE p # u
    <3>1. p \in Pages /\ v \in links[p] /\ p \in DOMAIN depthMap
      BY <1>8, <1>9, <1>18, <2>2 DEF Rooted
    <3>2. v \in DOMAIN depthMap
      BY <1>7, <1>11, <3>1
    <3> QED BY <1>1, <1>14, <3>1, <3>2 DEF IsLevel
  <2> QED BY <2>1, <2>2
<1>19. ASSUME NEW x \in DOMAIN depthMap', NEW y \in Waiting'
       PROVE  psi[x] <= psi[y] + 1
  <2>1. psi[x] \in Nat /\ psi[x] <= phi[u] + 1 /\ phi[u] \in Nat
    BY <1>6, <1>12, <1>14
  <2>2. psi[y] \in Nat /\ phi[u] <= psi[y]
    BY <1>6, <1>12, <1>14, <1>15
  <2> QED BY <2>1, <2>2
<1>20. ASSUME NEW y \in Waiting'
       PROVE  InLine(queue', y, {x \in DOMAIN depthMap' \ visited' : psi[x] > psi[y]})
  <2> DEFINE later == {x \in DOMAIN depthMap' \ visited' : psi[x] > psi[y]}
  <2>1. CASE y \in Waiting \ {u} /\ y \in DOMAIN depthMap /\ y \in Range(rest)
    <3> DEFINE late == {x \in DOMAIN depthMap \ visited : phi[x] > phi[y]}
    <3>1. InLine(queue, y, late)
      BY <1>1, <2>1 DEF IsLevel
    <3>2. later \cap Range(rest) \subseteq late
      <4>1. Range(rest) \subseteq DOMAIN depthMap /\ visited \subseteq visited'
        BY <1>4, <1>6
      <4> QED BY <1>14, <2>1, <4>1
    <3> HIDE DEF late, later
    <3>3. InLine(rest, y, later)
      BY <1>4, <2>1, <3>1, <3>2, InLineTail
    <3> HIDE DEF rest
    <3>4. InLine(rest \o followed, y, later)
      BY <1>3, <1>4, <3>3, InLineConcat
    <3> QED BY <1>5, <3>4 DEF later
  <2>2. CASE y \in new \ DOMAIN depthMap
    <3>1. psi[y] = phi[u] + 1
      BY <1>14, <2>2
    <3>2. \A x \in DOMAIN depthMap' : psi[x] \in Nat /\ psi[x] <= psi[y]
      BY <1>14, <3>1
    <3>3. later = {}
      BY <1>12, <1>6, <3>1, <3>2
    <3>4. queue' \in Seq(Urls) /\ y \in Range(queue')
      <4> HIDE DEF rest
      <4> QED BY <1>3, <1>4, <1>5, <2>2, ConcatProperties
    <3> HIDE DEF later
    <3>5. InLine(queue', y, later)
      BY <3>3, <3>4, InLineOfNone
    <3> QED BY <3>5 DEF later
  <2> QED BY <1>15, <2>1, <2>2
<1>21. IsLevel(psi)'
  BY <1>14, <1>16, <1>17, <1>18, <1>19, <1>20 DEF IsLevel
<1>22. Known(Home)' /\ depthMap'[Home] = 0
  BY <1>7 DEF Rooted, Known
<1>23. Pages' \subseteq DOMAIN depthMap'
  BY <1>6, <1>7, <1>8 DEF Rooted
<1>24. DOMAIN depthMap' \subseteq visited' \cup Range(queue')
  BY <1>4, <1>5, <1>7 DEF Rooted
<1>25. \A v \in DOMAIN depthMap : Known(v) => Known(v)'
  BY <1>7 DEF Known
<1>26. ASSUME NEW v \in Urls \ {Home}, Known(v)'
       PROVE  \E p \in Pages' : v \in links'[p] /\ Known(p)' /\ depthMap'[v] = depthMap'[p] + 1
  <2>1. CASE v \in DOMAIN depthMap
    <3>1. Known(v)
      BY <1>7, <1>26, <2>1 DEF Known
    <3>2. PICK p \in Pages : v \in links[p] /\ Known(p) /\ depthMap[v] = depthMap[p] + 1
      BY <3>1 DEF Rooted
    <3>3. p \in Pages' /\ v \in links'[p] /\ Known(p)' /\ p \in DOMAIN depthMap
      BY <1>8, <1>9, <1>25, <3>2 DEF Known
    <3> QED BY <1>7, <2>1, <3>2, <3>3
  <2>2. CASE v \notin DOMAIN depthMap
    <3>1. v \in new /\ depthMap'[v] = ChildDepth(u) /\ ChildDepth(u) # NoDepth
      BY <1>7, <1>26, <2>2 DEF Known
    <3>2. Known(u) /\ depthMap'[v] = depthMap[u] + 1
      BY <1>6, <3>1 DEF ChildDepth, Known
    <3> QED BY <1>6, <1>7, <1>8, <1>9, <1>25, <3>1, <3>2
  <2> QED BY <2>1, <2>2
<1>27. ASSUME NEW p \in Pages', NEW v \in links'[p]
       PROVE  v \in DOMAIN depthMap' \/ v \in visited' \/ ~InScope(v)' \/ SinglePage'
  <2>1. CASE p = u
    <3>1. v \in new \/ v \in others
      BY <1>9, <1>27, <2>1
    <3>2. v \in others => v \in visited' \/ ~InScope(v)
      BY <1>2 DEF Followable
    <3> QED BY <1>7, <1>10, <3>1, <3>2
  <2>2. CASE p # u
    <3>1. p \in Pages /\ v \in links[p]
      BY <1>8, <1>9, <1>27, <2>2
    <3> QED BY <1>4, <1>7, <1>10, <3>1 DEF Rooted
  <2> QED BY <2>1, <2>2
<1>28. Rooted'
  BY <1>22, <1>23, <1>24, <1>26, <1>27 DEF Rooted
<1> QED BY <1>21, <1>28 DEF Layered

(* In single_page mode the page step discovers nothing.                    *)
LEMMA LayeredOfSinglePage ==
  ASSUME ConstantsAssumption, IInv, Layered, Rooted, NEW u \in Urls, NEW dest \in Urls,
         FetchPage(u, dest), SinglePage
  PROVE  Layered' /\ Rooted'
<1>1. PICK phi : IsLevel(phi)
  BY DEF Layered
<1>2. PICK targets \in SUBSET Targets : IgnoreLinks(u, targets)
  BY DEF FetchPage
<1>3. /\ queue \in Seq(Urls) /\ queue # <<>> /\ u = Head(queue) /\ u \notin visited
      /\ Range(queue) = {u} \cup Range(Tail(queue))
      /\ visited' = visited \cup {u, dest} /\ scan' = scan
      /\ queue' = Tail(queue) /\ depthMap' = depthMap
  BY <1>2, HeadAndTail DEF FetchPage, IgnoreLinks, mapVars, Fetches, Dequeues, IInv, TypeOK, Seen
<1>4. u \in Waiting /\ u \in DOMAIN depthMap
  BY <1>3 DEF Waiting, IInv, QueueHasDepth
<1>5. Pages' = Pages \cup {u} /\ u \notin Pages
  <2>1. PICK answer \in PageAnswers : fate' = [fate EXCEPT ![u] = answer]
    BY DEF FetchPage
  <2>2. fate[u] = "pending"
    BY <1>3 DEF IInv, VisitedIsHandled, Handled
  <2> QED BY <2>1, <2>2 DEF Pages, PageAnswers, IInv, TypeOK
<1>6. \A p \in Pages : links'[p] = links[p]
  BY <1>2, <1>5 DEF IgnoreLinks, Pages, IInv, TypeOK
<1>7. SinglePage'
  BY <1>3, ScanFixed
<1>8. \A v : Known(v)' <=> Known(v)
  BY <1>3 DEF Known
<1>9. Waiting' \subseteq Waiting \ {u}
  BY <1>3 DEF Waiting
<1>10. ASSUME NEW p \in Pages', NEW v \in links'[p] \cap DOMAIN depthMap
       PROVE  phi[v] <= phi[p] + 1
  <2>1. CASE p = u
    BY <1>1, <1>4, <2>1 DEF IsLevel
  <2>2. CASE p # u
    BY <1>1, <1>5, <1>6, <1>10, <2>2 DEF IsLevel
  <2> QED BY <2>1, <2>2
<1>11. ASSUME NEW y \in Waiting'
       PROVE  InLine(queue', y, {x \in DOMAIN depthMap \ visited' : phi[x] > phi[y]})
  <2> DEFINE late == {x \in DOMAIN depthMap \ visited : phi[x] > phi[y]}
             later == {x \in DOMAIN depthMap \ visited' : phi[x] > phi[y]}
  <2>1. InLine(queue, y, late) /\ later \subseteq late
    BY <1>1, <1>3, <1>9, <1>11 DEF IsLevel
  <2> HIDE DEF late, later
  <2>2. InLine(Tail(queue), y, later)
    BY <1>3, <1>9, <1>11, <2>1, InLineTail
  <2> QED BY <1>3, <2>2 DEF later
<1>12. IsLevel(phi)'
  BY <1>1, <1>3, <1>8, <1>9, <1>10, <1>11 DEF IsLevel
<1>13. ASSUME NEW v \in Urls \ {Home}, Known(v)'
       PROVE  \E p \in Pages' : v \in links'[p] /\ Known(p)' /\ depthMap'[v] = depthMap'[p] + 1
  <2>1. PICK p \in Pages : v \in links[p] /\ Known(p) /\ depthMap[v] = depthMap[p] + 1
    BY <1>8, <1>13 DEF Rooted
  <2> QED BY <1>3, <1>5, <1>6, <1>8, <2>1
<1>14. Rooted'
  BY <1>3, <1>4, <1>5, <1>7, <1>8, <1>13 DEF Rooted
<1> QED BY <1>12, <1>14 DEF Layered

LEMMA LayeredStep ==
  ASSUME ConstantsAssumption, IInv, Layered, Rooted, [Next]_vars
  PROVE  Layered' /\ Rooted'
<1>1. CASE RequestCancel \/ Cancelled \/ QueueEmpty \/ UNCHANGED vars
  <2>1. UNCHANGED <<scan, queue, visited, fate, depthMap, links>>
    BY <1>1 DEF RequestCancel, Cancelled, QueueEmpty, vars, mapVars, pageVars
  <2>2. Pages' = Pages
    BY <2>1 DEF Pages
  <2> QED BY <2>1, <2>2, LayeredOfOthers
<1>2. ASSUME NEW u \in Urls, AlreadyVisited(u) \/ Truncate(u) \/ Skip(u) \/ FetchLost(u)
             \/ \E dest \in Landing(u) : FetchUnread(u, dest)
      PROVE  Layered' /\ Rooted'
  <2>1. /\ queue # <<>> /\ queue' = Tail(queue) /\ u = Head(queue) /\ u \in visited'
        /\ visited \subseteq visited' /\ UNCHANGED <<scan, depthMap, links>>
    BY <1>2 DEF AlreadyVisited, Truncate, Skip, FetchLost, FetchUnread, Fetches, Dequeues,
       Seen, mapVars, pageVars
  <2>2. \/ fate' = fate
        \/ \E f \in SkipReasons \cup {"lost", "unread"} :
             u \notin visited /\ fate' = [fate EXCEPT ![u] = f]
    <3>1. Skip(u) => SkipReason(u) \in SkipReasons
      BY DEF Skip, SkipReason, SkipReasons, ConstantsAssumption
    <3> QED BY <1>2, <3>1 DEF AlreadyVisited, Truncate, Skip, FetchLost, FetchUnread, Fetches
  <2>3. Pages' = Pages
    <3>1. CASE fate' = fate
      BY <3>1 DEF Pages
    <3>2. CASE fate' # fate
      <4>1. PICK f \in SkipReasons \cup {"lost", "unread"} :
              u \notin visited /\ fate' = [fate EXCEPT ![u] = f]
        BY <2>2, <3>2
      <4>2. f \notin PageAnswers
        BY DEF SkipReasons, StaticSkips, PageAnswers
      <4>3. fate[u] = "pending"
        BY <4>1 DEF IInv, VisitedIsHandled, Handled
      <4> QED BY <4>1, <4>2, <4>3 DEF Pages, PageAnswers, IInv, TypeOK
    <3> QED BY <3>1, <3>2
  <2> QED BY <2>1, <2>3, LayeredOfOthers
<1>3. ASSUME NEW u \in Urls, NEW dest \in Landing(u), FetchPage(u, dest)
      PROVE  Layered' /\ Rooted'
  <2>1. dest \in Urls
    BY DEF Landing, ConstantsAssumption
  <2> QED BY <1>3, <2>1, LayeredOfPage, LayeredOfSinglePage
<1> QED BY <1>1, <1>2, <1>3 DEF Next, Loop, Iteration

-----------------------------------------------------------------------------
(* The rounds of the breadth-first search. That the recursive function     *)
(* satisfies its equation is proved from its first rounds, which exist and *)
(* agree.                                                                  *)
Start == [u \in {Home} |-> 0]

FirstLevels(g, n) ==
  /\ DOMAIN g = 0..n /\ g[0] = Start
  /\ \A i \in 1..n : g[i] = NextLevel(g[i - 1], i)

LEMMA FirstLevelsAgree ==
  ASSUME NEW n \in Nat, NEW m \in Nat, NEW g, FirstLevels(g, n), NEW h, FirstLevels(h, m)
  PROVE  \A i \in Nat : i <= n /\ i <= m => g[i] = h[i]
<1> DEFINE T == {i \in Nat : i <= n /\ i <= m /\ g[i] # h[i]}
<1>1. SUFFICES ASSUME T # {}
               PROVE  FALSE
  OBVIOUS
<1>2. PICK k \in T : \A i \in T : k <= i
  <2>1. T \subseteq Nat
    OBVIOUS
  <2> HIDE DEF T
  <2> QED BY <1>1, <2>1, Least
<1>3. k # 0
  BY DEF FirstLevels
<1>4. k - 1 \in Nat /\ k - 1 \notin T /\ k \in 1..n /\ k \in 1..m
  BY <1>2, <1>3
<1>5. g[k - 1] = h[k - 1]
  BY <1>4
<1>6. g[k] = NextLevel(g[k - 1], k) /\ h[k] = NextLevel(h[k - 1], k)
  BY <1>4 DEF FirstLevels
<1> QED BY <1>2, <1>5, <1>6

LEMMA FirstLevelsExist == \A n \in Nat : \E g : FirstLevels(g, n)
<1> DEFINE T == {n \in Nat : ~ \E g : FirstLevels(g, n)}
<1>1. SUFFICES ASSUME T # {}
               PROVE  FALSE
  OBVIOUS
<1>2. PICK k \in T : \A i \in T : k <= i
  <2>1. T \subseteq Nat
    OBVIOUS
  <2> HIDE DEF T
  <2> QED BY <1>1, <2>1, Least
<1>3. CASE k = 0
  <2>1. FirstLevels([i \in 0..0 |-> Start], 0)
    BY DEF FirstLevels
  <2> QED BY <1>2, <1>3, <2>1
<1>4. CASE k # 0
  <2>1. k - 1 \in Nat /\ k - 1 \notin T
    BY <1>2, <1>4
  <2>2. PICK g : FirstLevels(g, k - 1)
    BY <2>1
  <2> DEFINE h == [i \in 0..k |-> IF i = k THEN NextLevel(g[k - 1], k) ELSE g[i]]
  <2>3. DOMAIN h = 0..k /\ h[0] = Start
    BY <1>4, <2>2 DEF FirstLevels
  <2>4. ASSUME NEW i \in 1..k
        PROVE  h[i] = NextLevel(h[i - 1], i)
    <3>1. i \in 0..k /\ i - 1 \in 0..k /\ i - 1 # k /\ (i # k => i \in 1..(k - 1))
      BY <2>1
    <3>2. h[i - 1] = g[i - 1]
      BY <3>1
    <3>3. CASE i = k
      BY <3>1, <3>2, <3>3
    <3>4. CASE i # k
      BY <2>2, <3>1, <3>2, <3>4 DEF FirstLevels
    <3> QED BY <3>3, <3>4
  <2>5. FirstLevels(h, k)
    <3> HIDE DEF h
    <3> QED BY <2>3, <2>4 DEF FirstLevels
  <2> QED BY <1>2, <2>5
<1> QED BY <1>3, <1>4

LEMMA LevelsRecursion ==
  /\ Levels[0] = Start
  /\ \A n \in Nat : Levels[n + 1] = NextLevel(Levels[n], n + 1)
<1> DEFINE First(n) == CHOOSE g : FirstLevels(g, n)
           G == [n \in Nat |-> First(n)[n]]
           Rec(f) == f = [n \in Nat |-> IF n = 0 THEN [u \in {Home} |-> 0] ELSE NextLevel(f[n - 1], n)]
<1>1. \A n \in Nat : FirstLevels(First(n), n)
  BY FirstLevelsExist
<1> HIDE DEF First
<1>2. G[0] = Start
  BY <1>1 DEF FirstLevels
<1>3. ASSUME NEW n \in Nat, n # 0
      PROVE  G[n] = NextLevel(G[n - 1], n)
  <2>1. n - 1 \in Nat /\ n \in 1..n /\ n - 1 <= n
    BY <1>3
  <2>2. First(n)[n] = NextLevel(First(n)[n - 1], n)
    BY <1>1, <2>1 DEF FirstLevels
  <2>3. First(n)[n - 1] = First(n - 1)[n - 1]
    BY <1>1, <2>1, FirstLevelsAgree
  <2> QED BY <2>1, <2>2, <2>3
<1>4. Rec(G)
  <2>1. \A n \in Nat : G[n] = IF n = 0 THEN Start ELSE NextLevel(G[n - 1], n)
    BY <1>2, <1>3
  <2>2. G = [n \in Nat |-> G[n]]
    OBVIOUS
  <2> HIDE DEF G
  <2> QED BY <2>1, <2>2 DEF Start
<1>5. Levels = CHOOSE f : Rec(f)
  BY DEF Levels
<1>6. Rec(Levels)
  <2> HIDE DEF Rec, G
  <2> QED BY <1>4, <1>5, Zenon
<1>7. \A n \in Nat : Levels[n] = IF n = 0 THEN Start ELSE NextLevel(Levels[n - 1], n)
  <2> HIDE DEF G
  <2>1. PICK f : f = Levels
    OBVIOUS
  <2>2. Rec(f)
    BY <1>6, <2>1
  <2>3. \A n \in Nat : f[n] = IF n = 0 THEN Start ELSE NextLevel(f[n - 1], n)
    BY <2>2 DEF Start
  <2> QED BY <2>1, <2>3
<1> QED BY <1>7

LEMMA NextLevelValues ==
  ASSUME NEW d, NEW n
  PROVE  /\ DOMAIN NextLevel(d, n) =
              DOMAIN d \cup {v \in Pages : \E p \in DOMAIN d : v \in links[p]}
         /\ \A u \in DOMAIN NextLevel(d, n) :
              NextLevel(d, n)[u] = IF u \in DOMAIN d THEN d[u] ELSE n
  BY DEF NextLevel, SetDefault

LEMMA LevelsNext ==
  \A n \in Nat :
    /\ DOMAIN Levels[n + 1] =
         DOMAIN Levels[n] \cup {v \in Pages : \E p \in DOMAIN Levels[n] : v \in links[p]}
    /\ \A u \in DOMAIN Levels[n + 1] :
         Levels[n + 1][u] = IF u \in DOMAIN Levels[n] THEN Levels[n][u] ELSE n + 1
<1> TAKE n \in Nat
<1> DEFINE k == n + 1
<1>1. Levels[k] = NextLevel(Levels[n], k)
  BY LevelsRecursion
<1> HIDE DEF k
<1>2. /\ DOMAIN NextLevel(Levels[n], k) =
           DOMAIN Levels[n] \cup {v \in Pages : \E p \in DOMAIN Levels[n] : v \in links[p]}
      /\ \A u \in DOMAIN NextLevel(Levels[n], k) :
           NextLevel(Levels[n], k)[u] = IF u \in DOMAIN Levels[n] THEN Levels[n][u] ELSE k
  BY NextLevelValues, Zenon
<1>3. /\ DOMAIN Levels[k] =
           DOMAIN Levels[n] \cup {v \in Pages : \E p \in DOMAIN Levels[n] : v \in links[p]}
      /\ \A u \in DOMAIN Levels[k] :
           Levels[k][u] = IF u \in DOMAIN Levels[n] THEN Levels[n][u] ELSE k
  BY <1>1, <1>2, Zenon
<1> QED BY <1>3 DEF k

(* What the search reaches is a page, and no round is earlier than the     *)
(* level of what it reaches.                                               *)
LEMMA NotBeforeItsLevel ==
  ASSUME IInv, Rooted, Home \in Pages, NEW phi, IsLevel(phi)
  PROVE  \A n \in Nat : \A u \in DOMAIN Levels[n] :
           u \in Pages /\ Levels[n][u] \in 0..n /\ phi[u] <= Levels[n][u]
<1> DEFINE Good(n) == \A u \in DOMAIN Levels[n] :
                        u \in Pages /\ Levels[n][u] \in 0..n /\ phi[u] <= Levels[n][u]
           T == {n \in Nat : ~Good(n)}
<1>1. SUFFICES ASSUME T # {}
               PROVE  FALSE
  OBVIOUS
<1>2. PICK k \in T : \A i \in T : k <= i
  <2>1. T \subseteq Nat
    OBVIOUS
  <2> HIDE DEF T
  <2> QED BY <1>1, <2>1, Least
<1>3. k # 0
  <2>1. Good(0)
    BY LevelsRecursion DEF Start, IsLevel
  <2> QED BY <1>2, <2>1
<1> DEFINE m == k - 1
<1>4. m \in Nat /\ k = m + 1 /\ Good(m)
  BY <1>2, <1>3
<1>5. /\ DOMAIN Levels[k] =
           DOMAIN Levels[m] \cup {v \in Pages : \E p \in DOMAIN Levels[m] : v \in links[p]}
      /\ \A u \in DOMAIN Levels[k] :
           Levels[k][u] = IF u \in DOMAIN Levels[m] THEN Levels[m][u] ELSE k
  BY <1>4, LevelsNext
<1>6. ASSUME NEW u \in DOMAIN Levels[k]
      PROVE  u \in Pages /\ Levels[k][u] \in 0..k /\ phi[u] <= Levels[k][u]
  <2>1. CASE u \in DOMAIN Levels[m]
    <3>1. Levels[k][u] = Levels[m][u]
      BY <1>5, <1>6, <2>1
    <3> QED BY <1>4, <2>1, <3>1
  <2>2. CASE u \notin DOMAIN Levels[m]
    <3>1. u \in Pages /\ Levels[k][u] = k
      BY <1>5, <1>6, <2>2
    <3>2. PICK p \in DOMAIN Levels[m] : u \in links[p]
      BY <1>5, <1>6, <2>2
    <3>3. p \in Pages /\ Levels[m][p] \in 0..m /\ phi[p] <= Levels[m][p]
      BY <1>4, <3>2
    <3>4. p \in DOMAIN depthMap /\ u \in DOMAIN depthMap /\ phi[u] <= phi[p] + 1
      BY <3>1, <3>2, <3>3 DEF Rooted, IsLevel
    <3>5. phi[p] \in Nat /\ phi[u] \in Nat
      BY <3>4 DEF IsLevel
    <3> QED BY <1>4, <3>1, <3>3, <3>4, <3>5
  <2> QED BY <2>1, <2>2
<1> QED BY <1>2, <1>6

(* A page of known depth is reached by the round of its depth.             *)
LEMMA ReachedByItsDepth ==
  ASSUME TypeOK, Rooted, Home \in Pages,
         \A n \in Nat : \A u \in DOMAIN Levels[n] : Levels[n][u] \in 0..n
  PROVE  \A n \in Nat : \A u \in Pages : Known(u) /\ depthMap[u] <= n =>
           u \in DOMAIN Levels[n] /\ Levels[n][u] <= depthMap[u]
<1> DEFINE Good(n) == \A u \in Pages : Known(u) /\ depthMap[u] <= n =>
                        u \in DOMAIN Levels[n] /\ Levels[n][u] <= depthMap[u]
           T == {n \in Nat : ~Good(n)}
<1>1. SUFFICES ASSUME T # {}
               PROVE  FALSE
  OBVIOUS
<1>2. PICK k \in T : \A i \in T : k <= i
  <2>1. T \subseteq Nat
    OBVIOUS
  <2> HIDE DEF T
  <2> QED BY <1>1, <2>1, Least
<1>3. \A u : Known(u) => depthMap[u] \in Nat
  BY DEF TypeOK, Known
<1>4. ASSUME NEW u \in Pages, Known(u), depthMap[u] <= k
      PROVE  u \in DOMAIN Levels[k] /\ Levels[k][u] <= depthMap[u]
  <2>1. CASE u = Home /\ k = 0
    BY <2>1, LevelsRecursion DEF Start, Rooted
  <2>2. CASE u # Home
    <3>1. PICK p \in Pages : u \in links[p] /\ Known(p) /\ depthMap[u] = depthMap[p] + 1
      BY <1>4, <2>2 DEF Rooted, Pages
    <3> DEFINE m == k - 1
    <3>2. m \in Nat /\ k = m + 1 /\ depthMap[p] <= m
      BY <1>3, <1>4, <3>1
    <3>3. /\ Good(m)
          /\ DOMAIN Levels[k] =
               DOMAIN Levels[m] \cup {v \in Pages : \E w \in DOMAIN Levels[m] : v \in links[w]}
          /\ \A v \in DOMAIN Levels[k] :
               Levels[k][v] = IF v \in DOMAIN Levels[m] THEN Levels[m][v] ELSE k
      BY <1>2, <3>2, LevelsNext
    <3>4. p \in DOMAIN Levels[m]
      BY <3>1, <3>2, <3>3
    <3>5. u \in DOMAIN Levels[k]
      BY <3>1, <3>3, <3>4
    <3>6. CASE depthMap[u] <= m
      <4>1. u \in DOMAIN Levels[m] /\ Levels[m][u] <= depthMap[u]
        BY <1>4, <3>3, <3>6
      <4> QED BY <3>3, <3>5, <4>1
    <3>7. CASE ~(depthMap[u] <= m)
      <4>1. depthMap[u] = k
        BY <1>3, <1>4, <3>2, <3>7
      <4>2. Levels[k][u] \in 0..k
        BY <3>5
      <4> QED BY <3>5, <4>1, <4>2
    <3> QED BY <3>6, <3>7
  <2>3. CASE u = Home /\ k # 0
    <3> DEFINE m == k - 1
    <3>1. m \in Nat /\ k = m + 1 /\ m \notin T
      BY <1>2, <2>3
    <3>2. /\ Good(m)
          /\ DOMAIN Levels[k] =
               DOMAIN Levels[m] \cup {v \in Pages : \E p \in DOMAIN Levels[m] : v \in links[p]}
          /\ \A v \in DOMAIN Levels[k] :
               Levels[k][v] = IF v \in DOMAIN Levels[m] THEN Levels[m][v] ELSE k
      BY <3>1, LevelsNext
    <3>3. Known(Home) /\ depthMap[Home] = 0
      BY DEF Rooted
    <3>4. Home \in DOMAIN Levels[m] /\ Levels[m][Home] <= 0
      BY <3>1, <3>2, <3>3
    <3>5. Home \in DOMAIN Levels[k] /\ Levels[k][Home] = Levels[m][Home]
      BY <3>2, <3>4
    <3> QED BY <2>3, <3>3, <3>4, <3>5
  <2> QED BY <2>1, <2>2, <2>3
<1> QED BY <1>2, <1>4

(* Above a page of known depth there is one of every smaller depth, so no  *)
(* depth exceeds the number of pages.                                      *)
LEMMA DepthBound ==
  ASSUME ConstantsAssumption, TypeOK, Rooted, NEW u \in Pages, Known(u)
  PROVE  depthMap[u] <= Cardinality(Pages)
<1> DEFINE d == depthMap[u]
           T == {n \in 0..d : ~ \E p \in Pages : Known(p) /\ depthMap[p] = d - n}
<1>1. \A v : Known(v) => depthMap[v] \in Nat
  BY DEF TypeOK, Known
<1>2. T = {}
  <2>1. SUFFICES ASSUME T # {}
                 PROVE  FALSE
    OBVIOUS
  <2>2. PICK k \in T : \A i \in T : k <= i
    <3>1. T \subseteq Nat
      OBVIOUS
    <3> HIDE DEF T
    <3> QED BY <2>1, <3>1, Least
  <2>3. k # 0 /\ d \in Nat
    BY <1>1, <2>2
  <2>4. k - 1 \in 0..d /\ k - 1 \notin T
    BY <2>2, <2>3
  <2>5. PICK p \in Pages : Known(p) /\ depthMap[p] = d - (k - 1)
    BY <2>4
  <2>6. p # Home
    BY <2>2, <2>3, <2>5 DEF Rooted
  <2>7. PICK q \in Pages : Known(q) /\ depthMap[p] = depthMap[q] + 1
    BY <2>5, <2>6 DEF Rooted, Pages
  <2>8. depthMap[q] = d - k
    BY <1>1, <2>2, <2>3, <2>5, <2>7
  <2> QED BY <2>2, <2>7, <2>8
<1>3. d \in Nat /\ IsFiniteSet(Pages) /\ Cardinality(Pages) \in Nat
  BY <1>1, PagesFinite
<1> DEFINE h == [n \in 0..d |-> CHOOSE p \in Pages : Known(p) /\ depthMap[p] = d - n]
<1>4. \A n \in 0..d : h[n] \in Pages /\ depthMap[h[n]] = d - n
  BY <1>2
<1>5. h \in Injection(0..d, Pages)
  <2>1. h \in [0..d -> Pages]
    BY <1>4
  <2> HIDE DEF h
  <2>2. \A m, n \in 0..d : h[m] = h[n] => m = n
    BY <1>3, <1>4
  <2> QED BY <2>1, <2>2 DEF Injection, IsInjective
<1>6. IsFiniteSet(0..d) /\ Cardinality(0..d) = d + 1
  <2> HIDE DEF d
  <2>1. 0 \in Int /\ d \in Int /\ ~(0 > d)
    BY <1>3
  <2> QED BY <2>1, FS_Interval
<1>7. Cardinality(0..d) <= Cardinality(Pages)
  <2> HIDE DEF h, d
  <2> QED BY <1>3, <1>5, FS_Injection
<1> QED BY <1>3, <1>6, <1>7

(* A depth the loop could tell is the shortest click distance over the     *)
(* links of the crawled pages (depth_map and _compute_click_depths).       *)
THEOREM DepthsAreShortest == Spec => []DepthIsShortest
<1>1. Init => Layered /\ Rooted
  BY ConstantsAssumption, InitLayered
<1>2. IInv /\ Layered /\ Rooted /\ [Next]_vars => Layered' /\ Rooted'
  BY ConstantsAssumption, LayeredStep
<1>3. IInv /\ Layered /\ Rooted => DepthIsShortest
  <2> SUFFICES ASSUME IInv, Layered, Rooted,
                      NEW u \in Pages \cap DOMAIN depthMap, depthMap[u] # NoDepth
               PROVE  u \in DOMAIN ClickDepths /\ depthMap[u] = ClickDepths[u]
    BY DEF DepthIsShortest
  <2>1. CASE Home \notin Pages
    BY <2>1 DEF ClickDepths
  <2>2. CASE Home \in Pages
    <3> DEFINE n == Cardinality(Pages)
    <3>1. PICK phi : IsLevel(phi)
      BY DEF Layered
    <3>2. /\ Known(u) /\ phi[u] = depthMap[u] /\ n \in Nat /\ depthMap[u] <= n
          /\ depthMap[u] \in Nat
      <4>1. Known(u) /\ u \in Urls
        BY DEF Known, Pages
      <4> QED BY ConstantsAssumption, <3>1, <4>1, DepthBound, PagesFinite
              DEF IsLevel, IInv, TypeOK, Known
    <3>3. \A k \in Nat : \A v \in DOMAIN Levels[k] :
            v \in Pages /\ Levels[k][v] \in 0..k /\ phi[v] <= Levels[k][v]
      BY <2>2, <3>1, NotBeforeItsLevel
    <3>4. u \in DOMAIN Levels[n] /\ Levels[n][u] <= depthMap[u]
      BY <2>2, <3>2, <3>3, ReachedByItsDepth DEF IInv
    <3>5. Levels[n][u] \in 0..n /\ phi[u] <= Levels[n][u]
      BY <3>2, <3>3, <3>4
    <3>6. Levels[n][u] = depthMap[u]
      BY <3>2, <3>4, <3>5
    <3> QED BY <2>2, <3>4, <3>6 DEF ClickDepths
  <2> QED BY <2>1, <2>2
<1> QED BY <1>1, <1>2, <1>3, Invariance, PTL DEF Spec

=============================================================================
