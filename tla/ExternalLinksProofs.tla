------------------------- MODULE ExternalLinksProofs -------------------------
(***************************************************************************)
(* Proofs about ExternalLinks for all pages, targets, hosts, quotas, caps, *)
(* bounds and delays: the types, that a target is fetched once and keeps   *)
(* its sources, the bounds on concurrent requests, the spacing of the time *)
(* slots, that no host waits for another, that a cancel stops the          *)
(* requests, and that the requests themselves are spaced as long as no     *)
(* task waits for a global permit, which the code does not allow for.      *)
(***************************************************************************)
EXTENDS ExternalLinks, TLAPS, FiniteSetTheorems, SequenceTheorems

LEMMA MinOfTwo ==
  ASSUME NEW m \in Int, NEW n \in Int
  PROVE  Min({m, n}) = IF m <= n THEN m ELSE n
BY DEF Min

LEMMA BoundedSeqIsSeq ==
  ASSUME NEW S, NEW n \in Nat, NEW s \in BoundedSeq(S, n)
  PROVE  s \in Seq(S)
<1>1. PICK m \in 0..n : s \in [1..m -> S]
  BY DEF BoundedSeq, SeqOf
<1>2. m \in Nat
  BY <1>1
<1> QED BY <1>1, <1>2, SeqDef

(* The quota keeps a first part of the anchors.                            *)
LEMMA ContributedProperties ==
  ASSUME NEW S, NEW a \in Seq(S)
  PROVE  /\ Contributed(a) \in Seq(S)
         /\ Len(Contributed(a)) <= Len(a)
         /\ \A i \in 1..Len(Contributed(a)) : Contributed(a)[i] = a[i]
<1>1. PageCap \in Nat
  BY ConstantsAssumption
<1>2. Len(a) \in Nat /\ \A i \in 1..Len(a) : a[i] \in S
  BY LenProperties, ElementOfSeq
<1>3. CASE Len(a) <= PageCap
  BY <1>2, <1>3 DEF Contributed
<1>4. CASE ~(Len(a) <= PageCap)
  <2>1. PageCap < Len(a) /\ \A i \in 1..PageCap : a[i] \in S
    BY <1>1, <1>2, <1>4
  <2>2. /\ SubSeq(a, 1, PageCap) \in Seq(S)
        /\ Len(SubSeq(a, 1, PageCap)) = IF 1 <= PageCap THEN PageCap - 1 + 1 ELSE 0
        /\ \A i \in 1 .. PageCap - 1 + 1 : SubSeq(a, 1, PageCap)[i] = a[1 + i - 1]
    BY <1>1, <2>1, SubSeqProperties
  <2>3. Len(SubSeq(a, 1, PageCap)) = PageCap
    BY <1>1, <2>2
  <2>4. \A i \in 1..PageCap : SubSeq(a, 1, PageCap)[i] = a[i]
    BY <1>1, <2>2
  <2> QED BY <1>1, <1>2, <1>4, <2>1, <2>2, <2>3, <2>4 DEF Contributed
<1> QED BY <1>3, <1>4

(* What one page adds to the queue.                                        *)
Added(p, a) ==
  [i \in DOMAIN Contributed(a) |-> [source |-> p, target |-> Contributed(a)[i]]]

LEMMA AddedProperties ==
  ASSUME NEW p \in Pages, NEW a \in Seq(Targets)
  PROVE  /\ Added(p, a) \in Seq([source : Pages, target : Targets])
         /\ Len(Added(p, a)) = Len(Contributed(a))
         /\ Len(Contributed(a)) \in Nat
         /\ \A i \in 1..Len(Contributed(a)) :
              Added(p, a)[i].target = Contributed(a)[i] /\ Added(p, a)[i].source = p
<1> DEFINE c == Contributed(a)
<1>1. c \in Seq(Targets)
  BY ContributedProperties
<1> HIDE DEF c
<1>2. Len(c) \in Nat /\ DOMAIN c = 1..Len(c) /\ \A i \in 1..Len(c) : c[i] \in Targets
  BY <1>1, LenProperties, ElementOfSeq
<1>3. [i \in DOMAIN c |-> [source |-> p, target |-> c[i]]]
        \in [1..Len(c) -> [source : Pages, target : Targets]]
  BY <1>2
<1>4. [i \in DOMAIN c |-> [source |-> p, target |-> c[i]]]
        \in Seq([source : Pages, target : Targets])
  BY <1>2, <1>3, SeqDef
<1>5. Len([i \in DOMAIN c |-> [source |-> p, target |-> c[i]]]) = Len(c)
  BY <1>2, <1>3, <1>4, LenProperties
<1> QED BY <1>2, <1>4, <1>5 DEF Added, c

-----------------------------------------------------------------------------
(* Types                                                                   *)

LEMMA TypeInit == Init => TypeOK
<1> SUFFICES ASSUME Init
             PROVE  TypeOK
  OBVIOUS
<1>1. Delay \in 0..Delay
  BY ConstantsAssumption
<1>2. DOMAIN linked \subseteq Pages /\ linked \in [DOMAIN linked -> SUBSET Targets]
  <2>1. <<>> \in Seq(SUBSET Targets) /\ Len(<<>>) = 0
    BY EmptySeq
  <2>2. <<>> \in [1..0 -> SUBSET Targets] /\ DOMAIN <<>> = 1..0
    BY <2>1, LenProperties
  <2>3. 1..0 = {}
    OBVIOUS
  <2> QED BY <2>2, <2>3 DEF Init
<1>3. queue \in Seq([source : Pages, target : Targets]) /\ line \in Seq(Targets)
  BY EmptySeq DEF Init
<1> QED BY <1>1, <1>2, <1>3 DEF Init, TypeOK, Stages, Settled

LEMMA CollectType ==
  ASSUME TypeOK, NEW p \in Pages, Collect(p)
  PROVE  TypeOK'
<1>1. PICK known \in SUBSET (Targets \ Fresh), a \in BoundedSeq(Fresh, MaxAnchors) :
        /\ linked' = [q \in DOMAIN linked \cup {p} |->
                        IF q = p THEN known \cup Range(a) ELSE linked[q]]
        /\ queue' = queue \o Added(p, a)
        /\ sources' = [t \in Targets |-> IF t \in Sourced(known, a)
                                           THEN sources[t] \cup {p} ELSE sources[t]]
        /\ UNCHANGED <<phase, stage, line, timeVars, cancelled>>
  BY DEF Collect, Added
<1>2. a \in Seq(Fresh) /\ Fresh \subseteq Targets
  BY BoundedSeqIsSeq, ConstantsAssumption DEF Fresh
<1>3. a \in Seq(Targets) /\ Range(a) \subseteq Targets
  <2>1. a \in Seq(Targets)
    BY <1>2, SeqMonotonic
  <2> QED BY <2>1, LenProperties DEF Range
<1>4. queue' \in Seq([source : Pages, target : Targets])
  <2> DEFINE added == Added(p, a)
  <2>1. added \in Seq([source : Pages, target : Targets])
    BY <1>3, AddedProperties
  <2> HIDE DEF added
  <2>2. queue' = queue \o added
    BY <1>1 DEF added
  <2> QED BY <2>1, <2>2, ConcatProperties DEF TypeOK
<1>5. DOMAIN linked' \subseteq Pages /\ linked' \in [DOMAIN linked' -> SUBSET Targets]
  BY <1>1, <1>3 DEF TypeOK
<1>6. sources' \in [Targets -> SUBSET Pages]
  BY <1>1 DEF TypeOK
<1> QED BY <1>1, <1>4, <1>5, <1>6 DEF TypeOK, timeVars

LEMMA TickType ==
  ASSUME TypeOK, Tick
  PROVE  TypeOK'
<1>1. Delay \in Nat
  BY ConstantsAssumption
<1>2. \A n \in Nat : LessOne(n) \in Nat
  BY DEF LessOne
<1>3. \A n \in 0..Delay : Min({n + 1, Delay}) \in 0..Delay
  BY <1>1, MinOfTwo
<1>4. owed' \in [Hosts -> Nat] /\ due' \in [Targets -> Nat] /\ since' \in [Hosts -> 0..Delay]
  BY <1>2, <1>3 DEF Tick, TypeOK
<1> QED BY <1>4 DEF Tick, TypeOK, collectVars

LEMMA CheckType ==
  ASSUME TypeOK, NEW t \in Targets, Check(t)
  PROVE  TypeOK'
<1>1. HostOf[t] \in Hosts /\ Delay \in Nat
  BY ConstantsAssumption
<1>2. CASE EnterHost(t)
  BY <1>1, <1>2 DEF EnterHost, NextSlot, TypeOK, Stages, Settled, collectVars
<1>3. CASE GiveUpAtHost(t)
  BY <1>3 DEF GiveUpAtHost, TypeOK, Stages, Settled, collectVars, timeVars
<1>4. CASE JoinLine(t)
  BY <1>4, AppendProperties DEF JoinLine, TypeOK, Stages, Settled, collectVars, timeVars
<1>5. CASE Start(t)
  <2>1. line' \in Seq(Targets)
    BY <1>5, HeadTailProperties DEF Start, NextInLine, TypeOK
  <2> QED BY <1>1, <1>5, <2>1 DEF Start, TypeOK, Stages, Settled, collectVars
<1>6. CASE GiveUpInLine(t)
  <2>1. line' \in Seq(Targets)
    BY <1>6, HeadTailProperties DEF GiveUpInLine, NextInLine, TypeOK
  <2> QED BY <1>6, <2>1 DEF GiveUpInLine, TypeOK, Stages, Settled, collectVars, timeVars
<1>7. CASE Finish(t)
  BY <1>7 DEF Finish, TypeOK, Stages, Settled, collectVars, timeVars
<1> QED BY <1>2, <1>3, <1>4, <1>5, <1>6, <1>7 DEF Check

LEMMA TypeStep == TypeOK /\ [Next]_vars => TypeOK'
<1> SUFFICES ASSUME TypeOK, [Next]_vars
             PROVE  TypeOK'
  OBVIOUS
<1>1. CASE \E p \in Pages : Collect(p)
  BY <1>1, CollectType
<1>2. CASE BeginChecks
  BY <1>2 DEF BeginChecks, TypeOK, Stages, Settled, collectVars, timeVars
<1>3. CASE EndChecks
  BY <1>3 DEF EndChecks, TypeOK, collectVars, timeVars
<1>4. CASE RequestCancel
  BY <1>4 DEF RequestCancel, TypeOK, collectVars, timeVars
<1>5. CASE Tick
  BY <1>5, TickType
<1>6. CASE \E t \in Targets : Check(t)
  BY <1>6, CheckType
<1>7. CASE UNCHANGED vars
  BY <1>7 DEF vars, TypeOK, collectVars, timeVars
<1> QED BY <1>1, <1>2, <1>3, <1>4, <1>5, <1>6, <1>7 DEF Next

(* Every reachable state is well typed.                                    *)
THEOREM TypeCorrect == Spec => []TypeOK
BY TypeInit, TypeStep, PTL DEF Spec

-----------------------------------------------------------------------------
(* A target is fetched once                                                *)

(* Whatever is queued is known, so no later page takes it for fresh.       *)
QueuedIsKnown == \A i \in DOMAIN queue : queue[i].target \notin Fresh

QueueInv == QueuedIsKnown /\ FetchedOnce

LEMMA CollectQueue ==
  ASSUME TypeOK, QueueInv, NEW p \in Pages, Collect(p)
  PROVE  QueueInv'
<1>1. PICK known \in SUBSET (Targets \ Fresh), a \in BoundedSeq(Fresh, MaxAnchors) :
        /\ IsInjective(a)
        /\ queue' = queue \o Added(p, a)
        /\ sources' = [t \in Targets |-> IF t \in Sourced(known, a)
                                           THEN sources[t] \cup {p} ELSE sources[t]]
  BY DEF Collect, Added
<1> DEFINE Item == [source : Pages, target : Targets]
           added == Added(p, a)
           c == Contributed(a)
           n == Len(queue)
<1>2. a \in Seq(Fresh) /\ Fresh \subseteq Targets
  BY BoundedSeqIsSeq, ConstantsAssumption DEF Fresh
<1>3. a \in Seq(Targets)
  BY <1>2, SeqMonotonic
<1>4. c \in Seq(Fresh) /\ Len(c) \in Nat /\ \A i \in 1..Len(c) : c[i] \in Fresh
  <2>1. c \in Seq(Fresh)
    BY <1>2, ContributedProperties
  <2> HIDE DEF c
  <2> QED BY <2>1, LenProperties, ElementOfSeq
<1>5. \A i, j \in 1..Len(c) : c[i] = c[j] => i = j
  <2>1. Len(c) <= Len(a) /\ \A i \in 1..Len(c) : c[i] = a[i]
    BY <1>2, ContributedProperties
  <2>2. Len(a) \in Nat /\ DOMAIN a = 1..Len(a)
    BY <1>2, LenProperties
  <2> HIDE DEF c
  <2> QED BY <1>1, <1>4, <2>1, <2>2 DEF IsInjective
<1>6. added \in Seq(Item) /\ Len(added) = Len(c) /\ \A i \in 1..Len(c) : added[i].target = c[i]
  BY <1>3, AddedProperties
<1>7. queue \in Seq(Item) /\ n \in Nat /\ DOMAIN queue = 1..n
  BY LenProperties DEF TypeOK
<1> HIDE DEF added, c, Item
<1>8. /\ queue' = queue \o added
      /\ DOMAIN queue' = 1..(n + Len(c))
      /\ \A i \in 1..(n + Len(c)) : queue'[i] = IF i <= n THEN queue[i] ELSE added[i - n]
  <2>1. queue' = queue \o added
    BY <1>1 DEF added
  <2>2. queue' \in Seq(Item) /\ Len(queue') = n + Len(c)
        /\ \A i \in 1..(n + Len(c)) : queue'[i] = IF i <= n THEN queue[i] ELSE added[i - n]
    <3>1. /\ queue \o added \in Seq(Item)
          /\ Len(queue \o added) = Len(queue) + Len(added)
          /\ \A i \in 1..(Len(queue) + Len(added)) :
               (queue \o added)[i] = IF i <= Len(queue) THEN queue[i] ELSE added[i - Len(queue)]
      BY <1>6, <1>7, ConcatProperties
    <3> QED BY <2>1, <3>1, <1>6
  <2>3. DOMAIN queue' = 1..Len(queue')
    BY <2>2, LenProperties
  <2> QED BY <2>1, <2>2, <2>3
<1>9. ASSUME NEW i \in 1..(n + Len(c))
      PROVE  \/ i \in 1..n /\ queue'[i].target = queue[i].target /\ queue[i].target \notin Fresh
             \/ i - n \in 1..Len(c) /\ queue'[i].target = c[i - n] /\ c[i - n] \in Fresh
  <2>1. CASE i <= n
    BY <2>1, <1>7, <1>8 DEF QueueInv, QueuedIsKnown
  <2>2. CASE ~(i <= n)
    <3>1. i - n \in 1..Len(c)
      BY <2>2, <1>4, <1>7
    <3> QED BY <2>2, <3>1, <1>4, <1>6, <1>8
  <2> QED BY <2>1, <2>2
<1>10. FetchedOnce'
  <2> SUFFICES ASSUME NEW i \in 1..(n + Len(c)), NEW j \in 1..(n + Len(c)),
                      queue'[i].target = queue'[j].target
               PROVE  i = j
    BY <1>8 DEF FetchedOnce
  <2>1. CASE i \in 1..n /\ j \in 1..n
    BY <2>1, <1>7, <1>8 DEF QueueInv, FetchedOnce
  <2>2. CASE i \notin 1..n /\ j \notin 1..n
    <3>1. i - n \in 1..Len(c) /\ j - n \in 1..Len(c) /\ c[i - n] = c[j - n]
      BY <2>2, <1>9
    <3> QED BY <3>1, <1>5, <1>7
  <2>3. CASE i \in 1..n /\ j \notin 1..n
    BY <2>3, <1>4, <1>7, <1>9
  <2>4. CASE i \notin 1..n /\ j \in 1..n
    BY <2>4, <1>4, <1>7, <1>9
  <2> QED BY <2>1, <2>2, <2>3, <2>4
<1>11. QueuedIsKnown'
  <2>1. \A t \in Targets : t \notin Fresh => t \notin Fresh'
    BY <1>1 DEF Fresh, TypeOK
  <2>2. \A i \in 1..Len(c) : c[i] \in Range(c)
    <3>1. DOMAIN c = 1..Len(c)
      BY <1>4, LenProperties
    <3> QED BY <3>1 DEF Range
  <2>3. \A i \in 1..Len(c) : c[i] \notin Fresh'
    BY <1>1, <1>2, <1>4, <2>2 DEF Sourced, Fresh, c
  <2>4. \A i \in 1..n : queue[i].target \in Targets
    <3>1. \A i \in 1..n : queue[i] \in Item
      BY <1>7, ElementOfSeq
    <3> QED BY <3>1 DEF Item
  <2> SUFFICES ASSUME NEW i \in 1..(n + Len(c))
               PROVE  queue'[i].target \notin Fresh'
    BY <1>8 DEF QueuedIsKnown
  <2> QED BY <1>9, <2>1, <2>3, <2>4
<1> QED BY <1>10, <1>11 DEF QueueInv

LEMMA QueueStep == TypeOK /\ QueueInv /\ [Next]_vars => QueueInv'
<1> SUFFICES ASSUME TypeOK, QueueInv, [Next]_vars
             PROVE  QueueInv'
  OBVIOUS
<1>1. CASE \E p \in Pages : Collect(p)
  BY <1>1, CollectQueue
<1>2. CASE UNCHANGED collectVars
  BY <1>2 DEF collectVars, QueueInv, QueuedIsKnown, FetchedOnce, Fresh
<1>3. ~(\E p \in Pages : Collect(p)) => UNCHANGED collectVars
  BY DEF Next, Check, BeginChecks, EndChecks, RequestCancel, Tick, EnterHost, GiveUpAtHost,
         JoinLine, Start, GiveUpInLine, Finish, vars
<1> QED BY <1>1, <1>2, <1>3

(* A target is fetched once, however many pages link to it, in any order,  *)
(* and whatever the quota.                                                 *)
THEOREM EachTargetFetchedOnce == Spec => []FetchedOnce
<1>1. Init => QueueInv
  BY DEF Init, QueueInv, QueuedIsKnown, FetchedOnce
<1>2. QueueInv => FetchedOnce
  BY DEF QueueInv
<1> QED BY <1>1, <1>2, QueueStep, TypeCorrect, PTL DEF Spec

-----------------------------------------------------------------------------
(* A target keeps its sources                                              *)

(* Only crawled pages contribute, and one that links to a target without   *)
(* being its source has contributed all it may.                            *)
QuotaInv ==
  /\ \A i \in DOMAIN queue : queue[i].source \in DOMAIN linked
  /\ \A p \in DOMAIN linked : \A t \in linked[p] :
       p \in sources[t] \/ Cardinality(ContributionsOf(p)) = PageCap

LEMMA CollectQuota ==
  ASSUME TypeOK, QuotaInv, NEW p \in Pages, Collect(p)
  PROVE  QuotaInv'
<1>1. PICK known \in SUBSET (Targets \ Fresh), a \in BoundedSeq(Fresh, MaxAnchors) :
        /\ linked' = [q \in DOMAIN linked \cup {p} |->
                        IF q = p THEN known \cup Range(a) ELSE linked[q]]
        /\ queue' = queue \o Added(p, a)
        /\ sources' = [t \in Targets |-> IF t \in Sourced(known, a)
                                           THEN sources[t] \cup {p} ELSE sources[t]]
  BY DEF Collect, Added
<1> DEFINE Item == [source : Pages, target : Targets]
           added == Added(p, a)
           c == Contributed(a)
           n == Len(queue)
<1>2. a \in Seq(Targets) /\ Range(a) \subseteq Targets /\ known \subseteq Targets
  <2>1. a \in Seq(Fresh) /\ Fresh \subseteq Targets
    BY BoundedSeqIsSeq, ConstantsAssumption DEF Fresh
  <2>2. a \in Seq(Targets)
    BY <2>1, SeqMonotonic
  <2> QED BY <2>2, RangeOfSeq
<1>3. /\ added \in Seq(Item) /\ Len(added) = Len(c) /\ Len(c) \in Nat
      /\ \A i \in 1..Len(c) : added[i].source = p
  BY <1>2, AddedProperties
<1>4. queue \in Seq(Item) /\ n \in Nat /\ DOMAIN queue = 1..n
  BY LenProperties DEF TypeOK
<1>5. p \notin DOMAIN linked /\ DOMAIN linked' = DOMAIN linked \cup {p}
  BY <1>1 DEF Collect
<1>6. \/ c = a
      \/ Len(c) = PageCap
  <2>1. Len(a) \in Nat /\ PageCap \in Nat /\ \A i \in 1..Len(a) : a[i] \in Targets
    BY <1>2, LenProperties, ElementOfSeq, ConstantsAssumption
  <2>2. CASE Len(a) <= PageCap
    BY <2>2 DEF Contributed
  <2>3. CASE ~(Len(a) <= PageCap)
    <3>1. PageCap < Len(a) /\ \A i \in 1..PageCap : a[i] \in Targets
      BY <2>1, <2>3
    <3>2. Len(SubSeq(a, 1, PageCap)) = IF 1 <= PageCap THEN PageCap - 1 + 1 ELSE 0
      BY <1>2, <2>1, <3>1, SubSeqProperties
    <3>3. Len(SubSeq(a, 1, PageCap)) = PageCap
      BY <2>1, <3>2
    <3> QED BY <2>3, <3>3 DEF Contributed
  <2> QED BY <2>2, <2>3
<1>7. known \cup Range(c) = Sourced(known, a)
  BY DEF Sourced
<1> HIDE DEF added, c, Item
<1>8. /\ DOMAIN queue' = 1..(n + Len(c))
      /\ \A i \in 1..(n + Len(c)) : queue'[i] = IF i <= n THEN queue[i] ELSE added[i - n]
  <2>1. queue' = queue \o added
    BY <1>1 DEF added
  <2>2. /\ queue \o added \in Seq(Item)
        /\ Len(queue \o added) = Len(queue) + Len(added)
        /\ \A i \in 1..(Len(queue) + Len(added)) :
             (queue \o added)[i] = IF i <= Len(queue) THEN queue[i] ELSE added[i - Len(queue)]
    BY <1>3, <1>4, ConcatProperties
  <2>3. queue' \in Seq(Item) /\ Len(queue') = n + Len(c)
    BY <1>3, <2>1, <2>2
  <2> QED BY <1>3, <2>1, <2>2, <2>3, LenProperties
<1>9. ASSUME NEW i \in 1..(n + Len(c))
      PROVE  IF i <= n THEN i \in 1..n /\ queue'[i] = queue[i]
                       ELSE queue'[i].source = p
  <2>1. CASE i <= n
    BY <1>4, <1>8, <2>1
  <2>2. CASE ~(i <= n)
    <3>1. i - n \in 1..Len(c)
      BY <1>3, <1>4, <2>2
    <3> QED BY <1>3, <1>8, <2>2, <3>1
  <2> QED BY <2>1, <2>2
<1>10. \A i \in DOMAIN queue' : queue'[i].source \in DOMAIN linked'
  BY <1>4, <1>5, <1>8, <1>9 DEF QuotaInv
<1>11. \A i \in 1..n : queue[i].source # p
  BY <1>4, <1>5 DEF QuotaInv
<1>12. ASSUME NEW q \in DOMAIN linked', NEW t \in linked'[q]
       PROVE  q \in sources'[t] \/ Cardinality(ContributionsOf(q)') = PageCap
  <2>1. CASE q # p
    <3>1. q \in DOMAIN linked /\ t \in linked[q] /\ t \in Targets
      BY <1>1, <1>5, <2>1 DEF TypeOK
    <3>2. ContributionsOf(q)' = ContributionsOf(q)
      <4>1. \A i \in DOMAIN queue' : queue'[i].source = q => i \in 1..n /\ queue'[i] = queue[i]
        BY <1>8, <1>9, <2>1
      <4>2. \A i \in 1..n : i \in DOMAIN queue' /\ queue'[i] = queue[i]
        <5> SUFFICES ASSUME NEW i \in 1..n
                     PROVE  i \in DOMAIN queue' /\ queue'[i] = queue[i]
          OBVIOUS
        <5>1. i \in 1..(n + Len(c)) /\ i <= n
          BY <1>3, <1>4
        <5> QED BY <1>8, <1>9, <5>1
      <4> QED BY <1>4, <4>1, <4>2 DEF ContributionsOf
    <3>3. sources[t] \subseteq sources'[t]
      BY <1>1, <3>1
    <3> QED BY <3>1, <3>2, <3>3 DEF QuotaInv
  <2>2. CASE q = p /\ t \in Sourced(known, a)
    <3>1. t \in Targets
      BY <1>1, <1>2, <2>2
    <3> QED BY <1>1, <2>2, <3>1
  <2>3. CASE q = p /\ t \notin Sourced(known, a)
    <3>1. t \in Range(a) /\ t \notin Range(c)
      BY <1>1, <1>7, <2>3
    <3>2. Len(c) = PageCap
      BY <1>6, <3>1
    <3>3. ContributionsOf(p)' = (n + 1)..(n + PageCap)
      <4>1. ASSUME NEW i \in DOMAIN queue', queue'[i].source = p
            PROVE  i \in (n + 1)..(n + PageCap)
        <5>1. i \in 1..(n + Len(c)) /\ ~(i <= n)
          BY <1>8, <1>9, <1>11, <4>1
        <5> QED BY <1>3, <1>4, <3>2, <5>1
      <4>2. ASSUME NEW i \in (n + 1)..(n + PageCap)
            PROVE  i \in DOMAIN queue' /\ queue'[i].source = p
        <5>1. i \in 1..(n + Len(c)) /\ ~(i <= n)
          BY <1>3, <1>4, <3>2
        <5> QED BY <1>8, <1>9, <5>1
      <4> QED BY <4>1, <4>2 DEF ContributionsOf
    <3>4. Cardinality((n + 1)..(n + PageCap)) = PageCap
      <4>1. n + 1 \in Int /\ n + PageCap \in Int /\ PageCap \in Nat
        BY <1>4, ConstantsAssumption
      <4>2. Cardinality((n + 1)..(n + PageCap)) =
              IF n + 1 > n + PageCap THEN 0 ELSE n + PageCap - (n + 1) + 1
        BY <4>1, FS_Interval
      <4> QED BY <1>4, <4>1, <4>2
    <3> QED BY <2>3, <3>3, <3>4
  <2> QED BY <2>1, <2>2, <2>3
<1> QED BY <1>10, <1>12 DEF QuotaInv

(* Every page that links to a target that is fetched is one of its sources *)
(* unless it had used up its quota, for every order of the pages.          *)
THEOREM SourcesAreRetained == Spec => []SourcesRetained
<1>1. Init => QuotaInv
  BY DEF Init, QuotaInv
<1>2. TypeOK /\ QuotaInv /\ [Next]_vars => QuotaInv'
  <2> SUFFICES ASSUME TypeOK, QuotaInv, [Next]_vars
               PROVE  QuotaInv'
    OBVIOUS
  <2>1. CASE \E p \in Pages : Collect(p)
    BY <2>1, CollectQuota
  <2>2. CASE UNCHANGED collectVars
    BY <2>2 DEF collectVars, QuotaInv, ContributionsOf
  <2>3. ~(\E p \in Pages : Collect(p)) => UNCHANGED collectVars
    BY DEF Next, Check, BeginChecks, EndChecks, RequestCancel, Tick, EnterHost, GiveUpAtHost,
           JoinLine, Start, GiveUpInLine, Finish, vars
  <2> QED BY <2>1, <2>2, <2>3
<1>3. QuotaInv => SourcesRetained
  BY DEF QuotaInv, SourcesRetained
<1> QED BY <1>1, <1>2, <1>3, TypeCorrect, PTL DEF Spec

-----------------------------------------------------------------------------
(* The bounds on concurrent requests                                       *)

HostPermits == \A h \in Hosts : Cardinality(HostHolders(h)) <= PerHost

BoundsInv == HostPermits /\ GlobalBound

(* A set of targets that gains at most one element while below its bound.  *)
LEMMA OneMore ==
  ASSUME NEW S \in SUBSET Targets, NEW T \in SUBSET Targets, NEW x, NEW n \in Nat,
         Cardinality(S) < n, T \subseteq S \cup {x}
  PROVE  Cardinality(T) <= n
<1>1. IsFiniteSet(S)
  BY FS_Subset, ConstantsAssumption
<1>2. /\ IsFiniteSet(S \cup {x})
      /\ Cardinality(S \cup {x}) = IF x \in S THEN Cardinality(S) ELSE Cardinality(S) + 1
  BY <1>1, FS_AddElement
<1>3. Cardinality(T) <= Cardinality(S \cup {x})
  BY <1>2, FS_Subset
<1>4. IsFiniteSet(T)
  BY FS_Subset, ConstantsAssumption
<1>5. Cardinality(S) \in Nat /\ Cardinality(T) \in Nat
  BY <1>1, <1>4, FS_CardinalityType
<1> QED BY <1>2, <1>3, <1>5

LEMMA NoMore ==
  ASSUME NEW S \in SUBSET Targets, NEW T \in SUBSET S
  PROVE  Cardinality(T) <= Cardinality(S) /\ Cardinality(T) \in Nat /\ Cardinality(S) \in Nat
<1>1. IsFiniteSet(S)
  BY FS_Subset, ConstantsAssumption
<1>2. IsFiniteSet(T) /\ Cardinality(T) <= Cardinality(S)
  BY <1>1, FS_Subset
<1> QED BY <1>1, <1>2, FS_CardinalityType

LEMMA EnterHostBounds ==
  ASSUME TypeOK, BoundsInv, NEW t \in Targets, EnterHost(t)
  PROVE  BoundsInv'
<1>1. PerHost \in Nat /\ HostOf[t] \in Hosts
  BY ConstantsAssumption
<1>2. ASSUME NEW h \in Hosts
      PROVE  Cardinality(HostHolders(h)') <= PerHost
  <2> DEFINE S == HostHolders(h)
             T == HostHolders(h)'
  <2>1. S \in SUBSET Targets /\ T \in SUBSET Targets
    BY DEF HostHolders
  <2>2. CASE h = HostOf[t]
    <3>1. T \subseteq S \cup {t}
      BY <2>2 DEF EnterHost, HostHolders, TypeOK
    <3>2. Cardinality(S) < PerHost
      BY <2>2 DEF EnterHost, HostPermit
    <3> HIDE DEF S, T
    <3>3. Cardinality(T) <= PerHost
      BY <1>1, <2>1, <3>1, <3>2, OneMore
    <3> QED BY <3>3 DEF T
  <2>3. CASE h # HostOf[t]
    <3>1. T = S
      BY <2>3 DEF EnterHost, HostHolders, TypeOK
    <3> QED BY <3>1 DEF BoundsInv, HostPermits
  <2> QED BY <2>2, <2>3
<1>3. Checking' = Checking
  BY DEF EnterHost, Checking, TypeOK
<1> QED BY <1>2, <1>3 DEF BoundsInv, HostPermits, GlobalBound

LEMMA StartBounds ==
  ASSUME TypeOK, BoundsInv, NEW t \in Targets, Start(t)
  PROVE  BoundsInv'
<1>1. ASSUME NEW h \in Hosts
      PROVE  HostHolders(h)' = HostHolders(h)
  BY DEF Start, NextInLine, HostHolders, TypeOK
<1>2. Cardinality(Checking') <= Global
  <2> DEFINE S == Checking
             T == Checking'
  <2>1. S \in SUBSET Targets /\ T \in SUBSET Targets /\ T \subseteq S \cup {t}
    BY DEF Start, Checking, TypeOK
  <2>2. Cardinality(S) < Global /\ Global \in Nat
    BY ConstantsAssumption DEF Start, NextInLine, GlobalPermit
  <2> HIDE DEF S, T
  <2>3. Cardinality(T) <= Global
    BY <2>1, <2>2, OneMore
  <2> QED BY <2>3 DEF T
<1> QED BY <1>1, <1>2 DEF BoundsInv, HostPermits, GlobalBound

(* Every other step leaves the holders alone, or some of them leave.       *)
LEMMA LeavingBounds ==
  ASSUME BoundsInv, \A h \in Hosts : HostHolders(h)' \subseteq HostHolders(h),
         Checking' \subseteq Checking
  PROVE  BoundsInv'
<1>1. PerHost \in Nat /\ Global \in Nat
  BY ConstantsAssumption
<1>2. ASSUME NEW h \in Hosts
      PROVE  Cardinality(HostHolders(h)') <= PerHost
  <2> DEFINE S == HostHolders(h)
             T == HostHolders(h)'
  <2>1. S \in SUBSET Targets /\ T \in SUBSET S
    BY DEF HostHolders
  <2>2. Cardinality(S) <= PerHost
    BY DEF BoundsInv, HostPermits
  <2> HIDE DEF S, T
  <2>3. Cardinality(T) <= PerHost
    BY <1>1, <2>1, <2>2, NoMore
  <2> QED BY <2>3 DEF T
<1>3. Cardinality(Checking') <= Global
  <2> DEFINE S == Checking
             T == Checking'
  <2>1. S \in SUBSET Targets /\ T \in SUBSET S
    BY DEF Checking
  <2>2. Cardinality(S) <= Global
    BY DEF BoundsInv, GlobalBound
  <2> HIDE DEF S, T
  <2>3. Cardinality(T) <= Global
    BY <1>1, <2>1, <2>2, NoMore
  <2> QED BY <2>3 DEF T
<1> QED BY <1>2, <1>3 DEF BoundsInv, HostPermits, GlobalBound

LEMMA BoundsStep == TypeOK /\ BoundsInv /\ [Next]_vars => BoundsInv'
<1> SUFFICES ASSUME TypeOK, BoundsInv, [Next]_vars
             PROVE  BoundsInv'
  OBVIOUS
<1>1. CASE \E t \in Targets : EnterHost(t)
  BY <1>1, EnterHostBounds
<1>2. CASE \E t \in Targets : Start(t)
  BY <1>2, StartBounds
<1>3. CASE \E t \in Targets : GiveUpAtHost(t) \/ JoinLine(t) \/ GiveUpInLine(t) \/ Finish(t)
  <2>1. /\ \A h \in Hosts : HostHolders(h)' \subseteq HostHolders(h)
        /\ Checking' \subseteq Checking
    BY <1>3 DEF GiveUpAtHost, JoinLine, GiveUpInLine, NextInLine, Finish, HostHolders,
                Checking, TypeOK
  <2> QED BY <2>1, LeavingBounds
<1>4. CASE BeginChecks
  <2>1. /\ \A h \in Hosts : HostHolders(h)' \subseteq HostHolders(h)
        /\ Checking' \subseteq Checking
    BY <1>4 DEF BeginChecks, HostHolders, Checking
  <2> QED BY <2>1, LeavingBounds
<1>5. CASE UNCHANGED stage
  BY <1>5 DEF BoundsInv, HostPermits, GlobalBound, HostHolders, Checking
<1>6. \/ \E t \in Targets : EnterHost(t)
      \/ \E t \in Targets : Start(t)
      \/ \E t \in Targets : GiveUpAtHost(t) \/ JoinLine(t) \/ GiveUpInLine(t) \/ Finish(t)
      \/ BeginChecks
      \/ UNCHANGED stage
  BY DEF Next, Check, Collect, EndChecks, RequestCancel, Tick, vars
<1> QED BY <1>1, <1>2, <1>3, <1>4, <1>5, <1>6

LEMMA BoundsInit == Init => BoundsInv
<1> SUFFICES ASSUME Init
             PROVE  BoundsInv
  OBVIOUS
<1>1. Checking = {} /\ \A h \in Hosts : HostHolders(h) = {}
  BY DEF Init, Checking, HostHolders
<1> QED BY <1>1, FS_EmptySet, ConstantsAssumption DEF BoundsInv, HostPermits, GlobalBound

(* Never more than PerHost requests at once against one host: the permit   *)
(* is held from the wait for the time slot to the answer.                  *)
THEOREM HostBoundHolds == Spec => []HostBound
<1>1. TypeOK /\ BoundsInv => HostBound
  <2> SUFFICES ASSUME TypeOK, BoundsInv, NEW h \in Hosts
               PROVE  Cardinality({t \in Checking : HostOf[t] = h}) <= PerHost
    BY DEF HostBound
  <2> DEFINE S == HostHolders(h)
             T == {t \in Checking : HostOf[t] = h}
  <2>1. S \in SUBSET Targets /\ T \in SUBSET S
    BY DEF HostHolders, Checking
  <2>2. Cardinality(S) <= PerHost /\ PerHost \in Nat
    BY ConstantsAssumption DEF BoundsInv, HostPermits
  <2> HIDE DEF S, T
  <2>3. Cardinality(T) <= PerHost
    BY <2>1, <2>2, NoMore
  <2> QED BY <2>3 DEF T
<1> QED BY <1>1, BoundsInit, BoundsStep, TypeCorrect, PTL DEF Spec

(* Never more than Global requests at once.                                *)
THEOREM GlobalBoundHolds == Spec => []GlobalBound
<1>1. BoundsInv => GlobalBound
  BY DEF BoundsInv
<1> QED BY <1>1, BoundsInit, BoundsStep, TypeCorrect, PTL DEF Spec

-----------------------------------------------------------------------------
(* The time slots of a host                                                *)

(* The next slot of a host is Delay after every slot that is still to come. *)
OwedAfterDue ==
  \A t \in Targets : stage[t] = "spacing" => due[t] + Delay <= owed[HostOf[t]]

SlotsInv == OwedAfterDue /\ SlotsSpaced

LEMMA EnterHostSlots ==
  ASSUME TypeOK, SlotsInv, NEW t \in Targets, EnterHost(t)
  PROVE  SlotsInv'
<1>1. Delay \in Nat /\ HostOf \in [Targets -> Hosts]
  BY ConstantsAssumption
<1>2. /\ stage' = [stage EXCEPT ![t] = "spacing"]
      /\ due' = [due EXCEPT ![t] = owed[HostOf[t]]]
      /\ owed' = [owed EXCEPT ![HostOf[t]] = owed[HostOf[t]] + Delay]
      /\ stage[t] # "spacing"
  BY DEF EnterHost, NextSlot
<1>3. owed \in [Hosts -> Nat] /\ due \in [Targets -> Nat] /\ stage \in [Targets -> Stages]
  BY DEF TypeOK
<1>4. \A u \in Targets : u # t => due'[u] = due[u] /\ stage'[u] = stage[u]
  BY <1>2, <1>3
<1>5. /\ due'[t] = owed[HostOf[t]]
      /\ \A h \in Hosts : owed'[h] = IF h = HostOf[t] THEN owed[h] + Delay ELSE owed[h]
  BY <1>1, <1>2, <1>3
<1>6. OwedAfterDue'
  <2> SUFFICES ASSUME NEW u \in Targets, stage'[u] = "spacing"
               PROVE  due'[u] + Delay <= owed'[HostOf[u]]
    BY DEF OwedAfterDue
  <2>1. HostOf[u] \in Hosts /\ owed[HostOf[u]] \in Nat
    BY <1>1, <1>3
  <2>2. CASE u = t
    BY <2>1, <2>2, <1>1, <1>5
  <2>3. CASE u # t
    <3>1. due[u] + Delay <= owed[HostOf[u]] /\ due[u] \in Nat
      BY <2>3, <1>3, <1>4 DEF SlotsInv, OwedAfterDue
    <3> QED BY <2>1, <2>3, <3>1, <1>1, <1>4, <1>5
  <2> QED BY <2>2, <2>3
<1>7. SlotsSpaced'
  <2> SUFFICES ASSUME NEW u \in Targets, NEW w \in Targets, u # w, HostOf[u] = HostOf[w],
                      stage'[u] = "spacing", stage'[w] = "spacing"
               PROVE  due'[u] + Delay <= due'[w] \/ due'[w] + Delay <= due'[u]
    BY DEF SlotsSpaced
  <2>1. CASE u # t /\ w # t
    BY <2>1, <1>4 DEF SlotsInv, SlotsSpaced
  <2>2. CASE u = t
    <3>1. due[w] + Delay <= owed[HostOf[w]]
      BY <2>2, <1>4 DEF SlotsInv, OwedAfterDue
    <3> QED BY <2>2, <3>1, <1>4, <1>5
  <2>3. CASE w = t
    <3>1. due[u] + Delay <= owed[HostOf[u]]
      BY <2>3, <1>4 DEF SlotsInv, OwedAfterDue
    <3> QED BY <2>3, <3>1, <1>4, <1>5
  <2> QED BY <2>1, <2>2, <2>3
<1> QED BY <1>6, <1>7 DEF SlotsInv

(* A tick shortens every sleep and every debt by one: no sleeping task is  *)
(* due when time passes.                                                   *)
LEMMA TickSlots ==
  ASSUME TypeOK, SlotsInv, Tick
  PROVE  SlotsInv'
<1>1. Delay \in Nat /\ HostOf \in [Targets -> Hosts]
  BY ConstantsAssumption
<1>2. owed \in [Hosts -> Nat] /\ due \in [Targets -> Nat] /\ stage' = stage
  BY DEF TypeOK, Tick
<1>3. ASSUME NEW t \in Targets, stage[t] = "spacing"
      PROVE  /\ due[t] \in Nat \ {0} /\ due'[t] = due[t] - 1
             /\ owed[HostOf[t]] \in Nat /\ due[t] + Delay <= owed[HostOf[t]]
             /\ owed'[HostOf[t]] = owed[HostOf[t]] - 1
  <2>1. due[t] \in Nat /\ due[t] # 0
    BY <1>2, <1>3 DEF Tick, Ready
  <2>2. due'[t] = due[t] - 1
    BY <2>1, <1>2 DEF Tick, LessOne
  <2>3. due[t] + Delay <= owed[HostOf[t]] /\ HostOf[t] \in Hosts /\ owed[HostOf[t]] \in Nat
    BY <1>1, <1>2, <1>3 DEF SlotsInv, OwedAfterDue
  <2>4. owed[HostOf[t]] # 0
    BY <1>1, <2>1, <2>3
  <2>5. owed'[HostOf[t]] = owed[HostOf[t]] - 1
    BY <2>3, <2>4 DEF Tick, LessOne
  <2> QED BY <2>1, <2>2, <2>3, <2>5
<1>4. OwedAfterDue'
  <2> SUFFICES ASSUME NEW t \in Targets, stage[t] = "spacing"
               PROVE  due'[t] + Delay <= owed'[HostOf[t]]
    BY <1>2 DEF OwedAfterDue
  <2> QED BY <1>1, <1>3
<1>5. SlotsSpaced'
  <2> SUFFICES ASSUME NEW t \in Targets, NEW u \in Targets, t # u, HostOf[t] = HostOf[u],
                      stage[t] = "spacing", stage[u] = "spacing"
               PROVE  due'[t] + Delay <= due'[u] \/ due'[u] + Delay <= due'[t]
    BY <1>2 DEF SlotsSpaced
  <2>1. due[t] + Delay <= due[u] \/ due[u] + Delay <= due[t]
    BY DEF SlotsInv, SlotsSpaced
  <2> QED BY <2>1, <1>1, <1>3
<1> QED BY <1>4, <1>5 DEF SlotsInv

LEMMA SlotsStep == TypeOK /\ SlotsInv /\ [Next]_vars => SlotsInv'
<1> SUFFICES ASSUME TypeOK, SlotsInv, [Next]_vars
             PROVE  SlotsInv'
  OBVIOUS
<1>1. CASE \E t \in Targets : EnterHost(t)
  BY <1>1, EnterHostSlots
<1>2. CASE Tick
  BY <1>2, TickSlots
<1>3. CASE /\ UNCHANGED <<owed, due>>
           /\ \A t \in Targets : stage'[t] = "spacing" => stage[t] = "spacing"
  BY <1>3 DEF SlotsInv, OwedAfterDue, SlotsSpaced
<1>4. ASSUME NEW t \in Targets,
             GiveUpAtHost(t) \/ JoinLine(t) \/ Start(t) \/ GiveUpInLine(t) \/ Finish(t)
      PROVE  /\ UNCHANGED <<owed, due>>
             /\ \A u \in Targets : stage'[u] = "spacing" => stage[u] = "spacing"
  BY <1>4 DEF GiveUpAtHost, JoinLine, Start, GiveUpInLine, NextInLine, Finish, TypeOK, timeVars
<1>5. BeginChecks => /\ UNCHANGED <<owed, due>>
                     /\ \A u \in Targets : stage'[u] = "spacing" => stage[u] = "spacing"
  BY DEF BeginChecks, timeVars
<1>6. (\E p \in Pages : Collect(p)) \/ EndChecks \/ RequestCancel \/ UNCHANGED vars =>
        UNCHANGED <<owed, due, stage>>
  BY DEF Collect, EndChecks, RequestCancel, vars, timeVars
<1> QED BY <1>1, <1>2, <1>3, <1>4, <1>5, <1>6 DEF Next, Check

(* The time slots of one host are Delay apart, however many tasks may be   *)
(* inside its semaphore: the point of reserving the slot before the sleep. *)
THEOREM SlotsAreSpaced == Spec => []SlotsSpaced
<1>1. Init => SlotsInv
  BY DEF Init, SlotsInv, OwedAfterDue, SlotsSpaced
<1>2. SlotsInv => SlotsSpaced
  BY DEF SlotsInv
<1> QED BY <1>1, <1>2, SlotsStep, TypeCorrect, PTL DEF Spec

-----------------------------------------------------------------------------
(* The requests to a host, when no task ever waits for a global permit     *)

Uncontended == Cardinality(Targets) <= Global

(* The line holds the tasks that are in line, each once, and nobody is in  *)
(* it before the checks begin.                                             *)
LineInv ==
  /\ phase = "collect" => line = <<>> /\ \A t \in Targets : stage[t] = "none"
  /\ \A i \in 1..Len(line) : stage[line[i]] = "line"
  /\ \A t \in Targets : stage[t] = "line" => \E i \in 1..Len(line) : line[i] = t
  /\ \A i, j \in 1..Len(line) : line[i] = line[j] => i = j

LEMMA JoinLineLine ==
  ASSUME TypeOK, LineInv, NEW t \in Targets, JoinLine(t)
  PROVE  LineInv'
<1>1. line \in Seq(Targets) /\ Len(line) \in Nat /\ \A i \in 1..Len(line) : line[i] \in Targets
  BY LenProperties, ElementOfSeq DEF TypeOK
<1>2. /\ Len(line') = Len(line) + 1 /\ line' # <<>>
      /\ \A i \in 1..Len(line) : line'[i] = line[i]
      /\ line'[Len(line) + 1] = t
  BY <1>1, AppendProperties DEF JoinLine
<1>3. stage[t] = "spacing" /\ stage' = [stage EXCEPT ![t] = "line"] /\ phase' = phase
      /\ stage \in [Targets -> Stages]
  BY DEF JoinLine, TypeOK
<1>4. phase # "collect"
  BY <1>3 DEF LineInv
<1>5. \A i \in 1..Len(line) : line[i] # t
  BY <1>3 DEF LineInv
<1>6. \A i \in 1..Len(line') : stage'[line'[i]] = "line"
  BY <1>1, <1>2, <1>3, <1>5 DEF LineInv
<1>7. \A u \in Targets : stage'[u] = "line" => \E i \in 1..Len(line') : line'[i] = u
  <2> SUFFICES ASSUME NEW u \in Targets, stage'[u] = "line"
               PROVE  \E i \in 1..Len(line') : line'[i] = u
    OBVIOUS
  <2>1. CASE u = t
    BY <2>1, <1>1, <1>2
  <2>2. CASE u # t
    <3>1. PICK i \in 1..Len(line) : line[i] = u
      BY <2>2, <1>3 DEF LineInv
    <3> QED BY <3>1, <1>1, <1>2
  <2> QED BY <2>1, <2>2
<1>8. \A i, j \in 1..Len(line') : line'[i] = line'[j] => i = j
  BY <1>1, <1>2, <1>5 DEF LineInv
<1> QED BY <1>3, <1>4, <1>6, <1>7, <1>8 DEF LineInv

(* The first task in line leaves it.                                       *)
LEMMA LeaveLine ==
  ASSUME TypeOK, LineInv, NEW t \in Targets, NextInLine(t), NEW x, x # "line",
         stage' = [stage EXCEPT ![t] = x], line' = Tail(line), phase' = phase
  PROVE  LineInv'
<1>1. line \in Seq(Targets) /\ Len(line) \in Nat /\ \A i \in 1..Len(line) : line[i] \in Targets
  BY LenProperties, ElementOfSeq DEF TypeOK
<1>2. line # <<>> /\ line[1] = t /\ stage[t] = "line"
  BY DEF NextInLine
<1>3. Len(line') = Len(line) - 1 /\ \A i \in 1..Len(line') : line'[i] = line[i + 1]
  BY <1>1, <1>2, HeadTailProperties
<1>4. stage \in [Targets -> Stages] /\ phase # "collect" /\ Len(line) > 0
  <2>1. Len(line) # 0
    BY <1>1, <1>2, EmptySeq
  <2> QED BY <2>1, <1>1, <1>2 DEF TypeOK, LineInv
<1>5. ASSUME NEW i \in 1..Len(line')
      PROVE  i + 1 \in 1..Len(line) /\ line'[i] = line[i + 1] /\ line[i + 1] # t
  <2>1. i + 1 \in 1..Len(line) /\ line'[i] = line[i + 1] /\ i + 1 # 1 /\ 1 \in 1..Len(line)
    BY <1>1, <1>3, <1>4
  <2> QED BY <2>1, <1>2 DEF LineInv
<1>6. \A i \in 1..Len(line') : stage'[line'[i]] = "line"
  BY <1>1, <1>4, <1>5 DEF LineInv
<1>7. \A u \in Targets : stage'[u] = "line" => \E i \in 1..Len(line') : line'[i] = u
  <2> SUFFICES ASSUME NEW u \in Targets, stage'[u] = "line"
               PROVE  \E i \in 1..Len(line') : line'[i] = u
    OBVIOUS
  <2>1. u # t /\ stage[u] = "line"
    BY <1>4
  <2>2. PICK i \in 1..Len(line) : line[i] = u
    BY <2>1 DEF LineInv
  <2>3. i # 1
    BY <1>2, <2>1, <2>2
  <2>4. i - 1 \in 1..Len(line') /\ (i - 1) + 1 = i
    BY <1>1, <1>3, <2>3
  <2> QED BY <1>3, <2>2, <2>4
<1>8. \A i, j \in 1..Len(line') : line'[i] = line'[j] => i = j
  <2> SUFFICES ASSUME NEW i \in 1..Len(line'), NEW j \in 1..Len(line'), line'[i] = line'[j]
               PROVE  i = j
    OBVIOUS
  <2>1. i + 1 = j + 1
    BY <1>5 DEF LineInv
  <2> QED BY <2>1, <1>1, <1>3
<1> QED BY <1>4, <1>6, <1>7, <1>8 DEF LineInv

LEMMA LineStep == TypeOK /\ LineInv /\ [Next]_vars => LineInv'
<1> SUFFICES ASSUME TypeOK, LineInv, [Next]_vars
             PROVE  LineInv'
  OBVIOUS
<1>1. CASE \E t \in Targets : JoinLine(t)
  BY <1>1, JoinLineLine
<1>2. ASSUME NEW t \in Targets, Start(t)
      PROVE  LineInv'
  BY <1>2, LeaveLine DEF Start
<1>3. ASSUME NEW t \in Targets, GiveUpInLine(t)
      PROVE  LineInv'
  BY <1>3, LeaveLine DEF GiveUpInLine
<1>4. ASSUME NEW t \in Targets, NEW x \in Stages \ {"line"}, stage[t] \notin {"none", "line"},
             stage' = [stage EXCEPT ![t] = x], line' = line, phase' = phase
      PROVE  LineInv'
  <2>1. \A i \in 1..Len(line) : line[i] \in Targets
    BY ElementOfSeq DEF TypeOK
  <2> QED BY <1>4, <2>1 DEF LineInv, TypeOK
<1>5. ASSUME NEW t \in Targets, EnterHost(t) \/ GiveUpAtHost(t) \/ Finish(t)
      PROVE  LineInv'
  BY <1>4, <1>5 DEF EnterHost, GiveUpAtHost, Finish, Stages, Settled
<1>6. CASE BeginChecks
  <2>1. line = <<>> /\ line' = <<>> /\ phase' = "check" /\ Len(line') = 0
    BY <1>6 DEF BeginChecks, LineInv
  <2>2. \A t \in Targets : stage'[t] # "line"
    BY <1>6 DEF BeginChecks
  <2> QED BY <2>1, <2>2 DEF LineInv
<1>7. CASE line' = line /\ stage' = stage /\ (phase' = phase \/ phase' = "done")
  BY <1>7 DEF LineInv
<1>8. (\E p \in Pages : Collect(p)) \/ EndChecks \/ RequestCancel \/ Tick \/ UNCHANGED vars =>
        line' = line /\ stage' = stage /\ (phase' = phase \/ phase' = "done")
  BY DEF Collect, EndChecks, RequestCancel, Tick, vars
<1> QED BY <1>1, <1>2, <1>3, <1>5, <1>6, <1>7, <1>8 DEF Next, Check

(* Somebody is first in line as soon as anybody is in it.                  *)
LEMMA SomebodyIsFirst ==
  ASSUME TypeOK, LineInv, NEW t \in Targets, stage[t] = "line"
  PROVE  line # <<>> /\ Head(line) \in Targets /\ stage[Head(line)] = "line"
<1>1. line \in Seq(Targets) /\ Len(line) \in Nat
  BY LenProperties DEF TypeOK
<1>2. PICK i \in 1..Len(line) : line[i] = t
  BY DEF LineInv
<1>3. 1 \in 1..Len(line)
  BY <1>1, <1>2
<1>4. line # <<>>
  BY <1>3, EmptySeq
<1> QED BY <1>1, <1>3, <1>4, ElementOfSeq DEF LineInv

(* Time passes for a task in line only while every global permit is held   *)
(* by a request in flight: nobody waits for the spacing of another host.   *)
THEOREM HostsDoNotWait == Spec => HostsIndependent
<1> DEFINE Inv == TypeOK /\ LineInv /\ BoundsInv
<1>1. Init => Inv
  <2>1. Init => LineInv
    BY DEF Init, LineInv
  <2> QED BY <2>1, TypeInit, BoundsInit
<1>2. Inv /\ [Next]_vars => Inv'
  BY TypeStep, LineStep, BoundsStep
<1>3. Inv /\ [Next]_vars =>
        [timeVars' # timeVars /\ stage' = stage =>
           \A t \in Targets : stage[t] = "line" => Cardinality(Checking) = Global]_vars
  <2> SUFFICES ASSUME Inv, [Next]_vars, timeVars' # timeVars, stage' = stage,
                      NEW t \in Targets, stage[t] = "line"
               PROVE  Cardinality(Checking) = Global
    OBVIOUS
  <2>1. Tick
    BY DEF Next, Check, Collect, BeginChecks, EndChecks, RequestCancel, EnterHost,
           GiveUpAtHost, JoinLine, Start, GiveUpInLine, NextInLine, Finish, vars, TypeOK
  <2>2. line # <<>> /\ Head(line) \in Targets /\ stage[Head(line)] = "line"
    BY SomebodyIsFirst
  <2>3. ~GlobalPermit
    BY <2>1, <2>2 DEF Tick, Ready, NextInLine
  <2>4. Cardinality(Checking) \in Nat /\ Global \in Nat
    <3>1. Checking \in SUBSET Targets
      BY DEF Checking
    <3> QED BY <3>1, NoMore, ConstantsAssumption
  <2> QED BY <2>3, <2>4 DEF GlobalPermit, BoundsInv, GlobalBound
<1> HIDE DEF Inv
<1> QED BY <1>1, <1>2, <1>3, PTL DEF Spec, HostsIndependent

(* Once the job is cancelled no further request starts, wherever its task  *)
(* was waiting.                                                            *)
THEOREM CancelHolds == Spec => CancelStopsRequests
<1>1. TypeOK /\ [Next]_vars =>
        [cancelled => \A t \in Targets : stage'[t] = "checking" => stage[t] = "checking"]_vars
  <2> SUFFICES ASSUME TypeOK, [Next]_vars, cancelled, NEW t \in Targets, stage'[t] = "checking"
               PROVE  stage[t] = "checking"
    OBVIOUS
  <2> QED
    BY DEF Next, Check, Collect, BeginChecks, EndChecks, RequestCancel, Tick, EnterHost,
           GiveUpAtHost, JoinLine, Start, GiveUpInLine, Finish, vars, TypeOK
<1> QED BY <1>1, TypeCorrect, PTL DEF Spec, CancelStopsRequests

(* When permits abound, whoever is first in line can start at once.        *)
LEMMA FirstInLineIsReady ==
  ASSUME Uncontended, TypeOK, LineInv, NEW t \in Targets, stage[t] = "line"
  PROVE  \E u \in Targets : Ready(u)
<1>1. line \in Seq(Targets) /\ Len(line) \in Nat
  BY LenProperties DEF TypeOK
<1>2. PICK i \in 1..Len(line) : line[i] = t
  BY DEF LineInv
<1>3. 1 \in 1..Len(line) /\ line # <<>> /\ line[1] \in Targets /\ stage[line[1]] = "line"
  <2>1. 1 \in 1..Len(line)
    BY <1>1, <1>2
  <2>2. line # <<>>
    BY <2>1, EmptySeq
  <2> QED BY <1>1, <2>1, <2>2, ElementOfSeq DEF LineInv
<1>4. Cardinality(Checking) < Global
  <2> DEFINE S == Targets \ {t}
             C == Checking
  <2>1. IsFiniteSet(Targets) /\ Cardinality(Targets) \in Nat /\ Global \in Nat
    BY ConstantsAssumption, FS_CardinalityType
  <2>2. Cardinality(S) = Cardinality(Targets) - 1
    BY <2>1, FS_RemoveElement
  <2>3. S \in SUBSET Targets /\ C \in SUBSET S
    BY DEF Checking
  <2> HIDE DEF S, C
  <2>4. Cardinality(C) <= Cardinality(S) /\ Cardinality(C) \in Nat
    BY <2>3, NoMore
  <2>5. Cardinality(C) < Global
    BY <2>1, <2>2, <2>4 DEF Uncontended
  <2> QED BY <2>5 DEF C
<1> QED BY <1>3, <1>4 DEF Ready, NextInLine, GlobalPermit

(* The last request to a host and its next slot, a sleeping task's slot,   *)
(* and a task in line are all a Delay apart.                               *)
HostRested == \A h \in Hosts : since[h] + owed[h] >= Delay
SleeperRested ==
  \A t \in Targets : stage[t] = "spacing" => since[HostOf[t]] + due[t] >= Delay
LineRested ==
  \A t \in Targets : stage[t] = "line" =>
    /\ since[HostOf[t]] >= Delay /\ owed[HostOf[t]] >= Delay
    /\ \A u \in Targets : u # t /\ HostOf[u] = HostOf[t] =>
         /\ stage[u] = "spacing" => due[u] >= Delay
         /\ stage[u] = "line" => Delay = 0

RestInv == HostRested /\ SleeperRested /\ LineRested

LEMMA EnterHostRest ==
  ASSUME TypeOK, RestInv, NEW t \in Targets, EnterHost(t)
  PROVE  RestInv'
<1>1. Delay \in Nat /\ HostOf \in [Targets -> Hosts]
  BY ConstantsAssumption
<1>2. owed \in [Hosts -> Nat] /\ due \in [Targets -> Nat] /\ stage \in [Targets -> Stages]
      /\ since \in [Hosts -> 0..Delay]
  BY DEF TypeOK
<1>3. /\ \A u \in Targets : u # t => due'[u] = due[u] /\ stage'[u] = stage[u]
      /\ due'[t] = owed[HostOf[t]] /\ stage'[t] = "spacing" /\ since' = since
      /\ \A h \in Hosts : owed'[h] = IF h = HostOf[t] THEN owed[h] + Delay ELSE owed[h]
  BY <1>1, <1>2 DEF EnterHost, NextSlot
<1>4. \A h \in Hosts : owed[h] \in Nat /\ owed'[h] \in Nat /\ owed'[h] >= owed[h] /\ since[h] \in Nat
  BY <1>1, <1>2, <1>3
<1>5. HostRested'
  BY <1>1, <1>3, <1>4 DEF RestInv, HostRested
<1>6. SleeperRested'
  <2> SUFFICES ASSUME NEW u \in Targets, stage'[u] = "spacing"
               PROVE  since'[HostOf[u]] + due'[u] >= Delay
    BY DEF SleeperRested
  <2>1. CASE u = t
    BY <2>1, <1>1, <1>3 DEF RestInv, HostRested
  <2>2. CASE u # t
    BY <2>2, <1>3 DEF RestInv, SleeperRested
  <2> QED BY <2>1, <2>2
<1>7. LineRested'
  <2> SUFFICES ASSUME NEW u \in Targets, stage'[u] = "line"
               PROVE  /\ since'[HostOf[u]] >= Delay /\ owed'[HostOf[u]] >= Delay
                      /\ \A w \in Targets : w # u /\ HostOf[w] = HostOf[u] =>
                           /\ stage'[w] = "spacing" => due'[w] >= Delay
                           /\ stage'[w] = "line" => Delay = 0
    BY DEF LineRested
  <2>1. u # t /\ stage[u] = "line"
    BY <1>3
  <2>2. /\ since[HostOf[u]] >= Delay /\ owed[HostOf[u]] >= Delay
        /\ \A w \in Targets : w # u /\ HostOf[w] = HostOf[u] =>
             /\ stage[w] = "spacing" => due[w] >= Delay
             /\ stage[w] = "line" => Delay = 0
    BY <2>1 DEF RestInv, LineRested
  <2>3. since'[HostOf[u]] >= Delay /\ owed'[HostOf[u]] >= Delay
    BY <2>2, <1>1, <1>3, <1>4
  <2>4. ASSUME NEW w \in Targets, w # u, HostOf[w] = HostOf[u]
        PROVE  /\ stage'[w] = "spacing" => due'[w] >= Delay
               /\ stage'[w] = "line" => Delay = 0
    BY <2>2, <2>4, <1>3
  <2> QED BY <2>3, <2>4
<1> QED BY <1>5, <1>6, <1>7 DEF RestInv

LEMMA JoinLineRest ==
  ASSUME TypeOK, RestInv, SlotsInv, NEW t \in Targets, JoinLine(t)
  PROVE  RestInv'
<1>1. Delay \in Nat /\ HostOf \in [Targets -> Hosts]
  BY ConstantsAssumption
<1>2. owed \in [Hosts -> Nat] /\ due \in [Targets -> Nat] /\ stage \in [Targets -> Stages]
      /\ since \in [Hosts -> 0..Delay]
  BY DEF TypeOK
<1>3. /\ \A u \in Targets : u # t => stage'[u] = stage[u]
      /\ stage[t] = "spacing" /\ stage'[t] = "line" /\ due[t] = 0
      /\ since' = since /\ owed' = owed /\ due' = due
  BY <1>2 DEF JoinLine, timeVars
<1>4. since[HostOf[t]] >= Delay /\ owed[HostOf[t]] >= Delay
  BY <1>1, <1>2, <1>3 DEF RestInv, SleeperRested, SlotsInv, OwedAfterDue
<1>5. ASSUME NEW u \in Targets, u # t, HostOf[u] = HostOf[t]
      PROVE  /\ stage[u] = "spacing" => due[u] >= Delay
             /\ stage[u] = "line" => Delay = 0
  <2>1. ASSUME stage[u] = "spacing"
        PROVE  due[u] >= Delay
    <3>1. due[t] + Delay <= due[u] \/ due[u] + Delay <= due[t]
      BY <1>3, <1>5, <2>1 DEF SlotsInv, SlotsSpaced
    <3> QED BY <3>1, <1>1, <1>2, <1>3
  <2>2. ASSUME stage[u] = "line"
        PROVE  Delay = 0
    <3>1. due[t] >= Delay
      BY <1>3, <1>5, <2>2 DEF RestInv, LineRested
    <3> QED BY <3>1, <1>1, <1>3
  <2> QED BY <2>1, <2>2
<1>6. HostRested' /\ SleeperRested'
  BY <1>3 DEF RestInv, HostRested, SleeperRested
<1>7. LineRested'
  <2> SUFFICES ASSUME NEW u \in Targets, stage'[u] = "line"
               PROVE  /\ since[HostOf[u]] >= Delay /\ owed[HostOf[u]] >= Delay
                      /\ \A w \in Targets : w # u /\ HostOf[w] = HostOf[u] =>
                           /\ stage'[w] = "spacing" => due[w] >= Delay
                           /\ stage'[w] = "line" => Delay = 0
    BY <1>3 DEF LineRested
  <2>1. CASE u = t
    BY <2>1, <1>3, <1>4, <1>5
  <2>2. CASE u # t
    BY <2>2, <1>3, <1>5 DEF RestInv, LineRested
  <2> QED BY <2>1, <2>2
<1> QED BY <1>6, <1>7 DEF RestInv

LEMMA StartRest ==
  ASSUME TypeOK, RestInv, NEW t \in Targets, Start(t)
  PROVE  RestInv' /\ since[HostOf[t]] >= Delay
<1>1. Delay \in Nat /\ HostOf \in [Targets -> Hosts]
  BY ConstantsAssumption
<1>2. owed \in [Hosts -> Nat] /\ due \in [Targets -> Nat] /\ stage \in [Targets -> Stages]
      /\ since \in [Hosts -> 0..Delay]
  BY DEF TypeOK
<1>3. /\ \A u \in Targets : u # t => stage'[u] = stage[u]
      /\ stage[t] = "line" /\ stage'[t] = "checking" /\ owed' = owed /\ due' = due
      /\ \A h \in Hosts : since'[h] = IF h = HostOf[t] THEN 0 ELSE since[h]
  BY <1>1, <1>2 DEF Start, NextInLine
<1>4. /\ since[HostOf[t]] >= Delay /\ owed[HostOf[t]] >= Delay
      /\ \A u \in Targets : u # t /\ HostOf[u] = HostOf[t] =>
           /\ stage[u] = "spacing" => due[u] >= Delay
           /\ stage[u] = "line" => Delay = 0
  BY <1>3 DEF RestInv, LineRested
<1>5. HostRested'
  BY <1>1, <1>2, <1>3, <1>4 DEF RestInv, HostRested
<1>6. SleeperRested'
  <2> SUFFICES ASSUME NEW u \in Targets, stage'[u] = "spacing"
               PROVE  since'[HostOf[u]] + due[u] >= Delay
    BY <1>3 DEF SleeperRested
  <2>1. u # t /\ stage[u] = "spacing" /\ HostOf[u] \in Hosts /\ due[u] \in Nat
    BY <1>1, <1>2, <1>3
  <2>2. CASE HostOf[u] = HostOf[t]
    BY <2>1, <2>2, <1>1, <1>3, <1>4
  <2>3. CASE HostOf[u] # HostOf[t]
    BY <2>1, <2>3, <1>3 DEF RestInv, SleeperRested
  <2> QED BY <2>2, <2>3
<1>7. LineRested'
  <2> SUFFICES ASSUME NEW u \in Targets, stage'[u] = "line"
               PROVE  /\ since'[HostOf[u]] >= Delay /\ owed[HostOf[u]] >= Delay
                      /\ \A w \in Targets : w # u /\ HostOf[w] = HostOf[u] =>
                           /\ stage'[w] = "spacing" => due[w] >= Delay
                           /\ stage'[w] = "line" => Delay = 0
    BY <1>3 DEF LineRested
  <2>1. u # t /\ stage[u] = "line" /\ HostOf[u] \in Hosts
    BY <1>1, <1>3
  <2>2. /\ since[HostOf[u]] >= Delay /\ owed[HostOf[u]] >= Delay
        /\ \A w \in Targets : w # u /\ HostOf[w] = HostOf[u] =>
             /\ stage[w] = "spacing" => due[w] >= Delay
             /\ stage[w] = "line" => Delay = 0
    BY <2>1 DEF RestInv, LineRested
  <2>3. since'[HostOf[u]] >= Delay
    <3>1. CASE HostOf[u] = HostOf[t]
      BY <3>1, <2>1, <1>3, <1>4
    <3>2. CASE HostOf[u] # HostOf[t]
      BY <3>2, <2>1, <2>2, <1>3
    <3> QED BY <3>1, <3>2
  <2>4. ASSUME NEW w \in Targets, w # u, HostOf[w] = HostOf[u]
        PROVE  /\ stage'[w] = "spacing" => due[w] >= Delay
               /\ stage'[w] = "line" => Delay = 0
    BY <2>2, <2>4, <1>3
  <2> QED BY <2>2, <2>3, <2>4
<1> QED BY <1>4, <1>5, <1>6, <1>7 DEF RestInv

LEMMA TickRest ==
  ASSUME Uncontended, TypeOK, RestInv, LineInv, Tick
  PROVE  RestInv'
<1>1. Delay \in Nat /\ HostOf \in [Targets -> Hosts]
  BY ConstantsAssumption
<1>2. owed \in [Hosts -> Nat] /\ due \in [Targets -> Nat] /\ stage' = stage
      /\ since \in [Hosts -> 0..Delay]
  BY DEF TypeOK, Tick
<1>3. \A t \in Targets : stage[t] # "line"
  BY FirstInLineIsReady DEF Tick
<1>4. ASSUME NEW h \in Hosts
      PROVE  since'[h] = IF since[h] + 1 <= Delay THEN since[h] + 1 ELSE Delay
  BY <1>1, <1>2, MinOfTwo DEF Tick
<1>5. HostRested'
  <2> SUFFICES ASSUME NEW h \in Hosts
               PROVE  since'[h] + owed'[h] >= Delay
    BY DEF HostRested
  <2>1. since[h] + owed[h] >= Delay /\ since[h] \in 0..Delay /\ owed[h] \in Nat
    BY <1>2 DEF RestInv, HostRested
  <2>2. owed'[h] = IF owed[h] = 0 THEN 0 ELSE owed[h] - 1
    BY DEF Tick, LessOne
  <2> QED BY <2>1, <2>2, <1>1, <1>4
<1>6. SleeperRested'
  <2> SUFFICES ASSUME NEW t \in Targets, stage[t] = "spacing"
               PROVE  since'[HostOf[t]] + due'[t] >= Delay
    BY <1>2 DEF SleeperRested
  <2>1. since[HostOf[t]] + due[t] >= Delay /\ due[t] \in Nat
        /\ HostOf[t] \in Hosts /\ since[HostOf[t]] \in 0..Delay
    BY <1>1, <1>2 DEF RestInv, SleeperRested
  <2>2. due'[t] = IF due[t] = 0 THEN 0 ELSE due[t] - 1
    BY DEF Tick, LessOne
  <2> QED BY <2>1, <2>2, <1>1, <1>4
<1>7. LineRested'
  BY <1>2, <1>3 DEF LineRested
<1> QED BY <1>5, <1>6, <1>7 DEF RestInv

LEMMA RestStep ==
  ASSUME Uncontended
  PROVE  TypeOK /\ SlotsInv /\ LineInv /\ RestInv /\ [Next]_vars => RestInv'
<1> SUFFICES ASSUME TypeOK, SlotsInv, LineInv, RestInv, [Next]_vars
             PROVE  RestInv'
  OBVIOUS
<1>1. CASE \E t \in Targets : EnterHost(t)
  BY <1>1, EnterHostRest
<1>2. CASE \E t \in Targets : JoinLine(t)
  BY <1>2, JoinLineRest
<1>3. CASE \E t \in Targets : Start(t)
  BY <1>3, StartRest
<1>4. CASE Tick
  BY <1>4, TickRest
<1>5. CASE /\ UNCHANGED timeVars
           /\ \A t \in Targets : stage'[t] \in {"spacing", "line"} => stage'[t] = stage[t]
  BY <1>5 DEF RestInv, HostRested, SleeperRested, LineRested, timeVars
<1>6. ASSUME NEW t \in Targets, GiveUpAtHost(t) \/ GiveUpInLine(t) \/ Finish(t)
      PROVE  /\ UNCHANGED timeVars
             /\ \A u \in Targets : stage'[u] \in {"spacing", "line"} => stage'[u] = stage[u]
  BY <1>6 DEF GiveUpAtHost, GiveUpInLine, Finish, TypeOK
<1>7. BeginChecks => /\ UNCHANGED timeVars
                     /\ \A u \in Targets : stage'[u] \in {"spacing", "line"} => stage'[u] = stage[u]
  BY DEF BeginChecks
<1>8. (\E p \in Pages : Collect(p)) \/ EndChecks \/ RequestCancel \/ UNCHANGED vars =>
        UNCHANGED <<timeVars, stage>>
  BY DEF Collect, EndChecks, RequestCancel, vars
<1> QED BY <1>1, <1>2, <1>3, <1>4, <1>5, <1>6, <1>7, <1>8 DEF Next, Check

(* The requests to a host start at least Delay apart, whatever the number  *)
(* allowed per host, as long as there is a global permit for every task:   *)
(* waiting for a global permit is the only way two requests can come too   *)
(* close.                                                                  *)
THEOREM UncontendedRequestsAreSpaced ==
  ASSUME Uncontended
  PROVE  Spec => RequestsSpaced
<1> DEFINE Inv == TypeOK /\ SlotsInv /\ LineInv /\ RestInv
<1>1. Init => Inv
  <2> SUFFICES ASSUME Init
               PROVE  Inv
    OBVIOUS
  <2>1. TypeOK
    BY TypeInit
  <2>2. LineInv
    BY DEF Init, LineInv
  <2>3. SlotsInv /\ SleeperRested /\ LineRested
    BY DEF Init, SlotsInv, OwedAfterDue, SlotsSpaced, SleeperRested, LineRested
  <2>4. HostRested
    BY ConstantsAssumption DEF Init, HostRested
  <2> QED BY <2>1, <2>2, <2>3, <2>4 DEF RestInv
<1>2. Inv /\ [Next]_vars => Inv'
  BY TypeStep, SlotsStep, LineStep, RestStep
<1>3. Inv /\ [Next]_vars =>
        [\A t \in Targets :
           stage[t] # "checking" /\ stage'[t] = "checking" => since[HostOf[t]] >= Delay]_vars
  <2> SUFFICES ASSUME Inv, [Next]_vars, NEW t \in Targets,
                      stage[t] # "checking", stage'[t] = "checking"
               PROVE  since[HostOf[t]] >= Delay
    OBVIOUS
  <2>1. Start(t)
    BY DEF Next, Check, Collect, BeginChecks, EndChecks, RequestCancel, Tick, EnterHost,
           GiveUpAtHost, JoinLine, Start, GiveUpInLine, NextInLine, Finish, vars, TypeOK
  <2> QED BY <2>1, StartRest
<1> HIDE DEF Inv
<1> QED BY <1>1, <1>2, <1>3, PTL DEF Spec, RequestsSpaced

=============================================================================
