---------------------------- MODULE ExternalLinks ----------------------------
(***************************************************************************)
(* The external links of a crawl, api/crawler/engine.py run_crawl: how the *)
(* pages contribute targets under a quota per page, and how the collected  *)
(* targets are then verified, each by a task that passes the semaphore of  *)
(* its host, waits for the host's next time slot, and passes the global    *)
(* semaphore, while the job may be cancelled.                              *)
(*                                                                         *)
(* Time is kept relative to now, in ticks: owed[h] is _host_next_ok[h] less*)
(* the current time, due[t] is the rest of a task's sleep.  A tick passes  *)
(* only when no task can run, so computation takes no time and a request   *)
(* takes any number of ticks.                                              *)
(***************************************************************************)
EXTENDS Integers, FiniteSets, SequencesExt

CONSTANTS
  Pages,         \* crawled pages
  Targets,       \* external link targets
  Hosts,
  HostOf,        \* the host of each target
  BotBlocking,   \* targets on a host known to block bots
  PageCap,       \* _EXTERNAL_LINK_CAP_PER_PAGE
  JobCap,        \* _EXTERNAL_LINK_CAP_PER_JOB
  PerHost,       \* _EXT_PER_HOST_CONCURRENCY
  Global,        \* _EXT_CONCURRENCY
  Delay,         \* _EXT_PER_HOST_DELAY_S, in ticks
  MaxAnchors     \* bound on the targets one page links to

ASSUME ConstantsAssumption ==
  /\ IsFiniteSet(Pages) /\ IsFiniteSet(Targets)
  /\ HostOf \in [Targets -> Hosts]
  /\ BotBlocking \subseteq Targets
  /\ PageCap \in Nat /\ JobCap \in Nat /\ Delay \in Nat /\ MaxAnchors \in Nat
  /\ PerHost \in Nat \ {0} /\ Global \in Nat \ {0}

VARIABLES
  phase,      \* "collect", "check" or "done"
  linked,     \* the external targets of each page crawled so far
  queue,      \* external_link_queue: who contributed which target
  sources,    \* external_target_sources, {} for a target it does not hold
  stage,      \* where the task of a target is
  line,       \* the tasks waiting for the global semaphore, in order
  owed,       \* _host_next_ok, relative to now
  due,        \* what is left of the sleep of a task
  since,      \* ticks since the last request to a host, up to Delay
  cancelled   \* the cancel event

collectVars == <<linked, queue, sources>>
timeVars    == <<owed, due, since>>
vars == <<phase, collectVars, stage, line, timeVars, cancelled>>

(* "none" before its task exists, which is for ever for a target over a    *)
(* cap; "filtered" when known to block bots; "unchecked" when its task     *)
(* found the job cancelled.                                                *)
Settled == {"filtered", "answered", "unchecked"}
Stages  == {"none", "host_queue", "spacing", "line", "checking"} \cup Settled

TypeOK ==
  /\ phase \in {"collect", "check", "done"}
  /\ DOMAIN linked \subseteq Pages
  /\ linked \in [DOMAIN linked -> SUBSET Targets]
  /\ queue \in Seq([source : Pages, target : Targets])
  /\ sources \in [Targets -> SUBSET Pages]
  /\ stage \in [Targets -> Stages]
  /\ line \in Seq(Targets)
  /\ owed \in [Hosts -> Nat]
  /\ due \in [Targets -> Nat]
  /\ since \in [Hosts -> 0..Delay]
  /\ cancelled \in BOOLEAN

Init ==
  /\ phase = "collect"
  /\ linked = <<>> /\ queue = <<>>
  /\ sources = [t \in Targets |-> {}]
  /\ stage = [t \in Targets |-> "none"]
  /\ line = <<>>
  /\ owed = [h \in Hosts |-> 0]
  /\ due = [t \in Targets |-> 0]
  /\ since = [h \in Hosts |-> Delay]
  /\ cancelled = FALSE

-----------------------------------------------------------------------------
(* Collection, page after page                                             *)

Fresh == {t \in Targets : sources[t] = {}}

(* What is left of the fresh targets under the quota of the page.          *)
Contributed(anchors) ==
  IF Len(anchors) <= PageCap THEN anchors ELSE SubSeq(anchors, 1, PageCap)

(* Mutant of Sourced: only the page that contributes a target is kept.     *)
SourcedFirst(known, anchors) == Range(Contributed(anchors))

(* The targets a page becomes a source of.                                 *)
Sourced(known, anchors) == known \cup Range(Contributed(anchors))

(* The page links to known targets, which cost it nothing, and to fresh    *)
(* ones, in document order.  A repeated anchor changes nothing.            *)
Collect(p) ==
  /\ phase = "collect" /\ p \in Pages \ DOMAIN linked
  /\ \E known \in SUBSET (Targets \ Fresh),
         anchors \in BoundedSeq(Fresh, MaxAnchors) :
       /\ IsInjective(anchors)
       /\ linked' = [q \in DOMAIN linked \cup {p} |->
                       IF q = p THEN known \cup Range(anchors) ELSE linked[q]]
       /\ queue' = queue \o [i \in DOMAIN Contributed(anchors) |->
                              [source |-> p, target |-> Contributed(anchors)[i]]]
       /\ sources' =
            [t \in Targets |-> IF t \in Sourced(known, anchors)
                                 THEN sources[t] \cup {p} ELSE sources[t]]
  /\ UNCHANGED <<phase, stage, line, timeVars, cancelled>>

Admitted == {queue[i].target : i \in 1..Min({JobCap, Len(queue)})}

(* The pages are crawled: a task for every admitted target that the        *)
(* bot-blocking list does not settle.                                      *)
BeginChecks ==
  /\ phase = "collect"
  /\ phase' = "check"
  /\ stage' = [t \in Targets |-> IF t \notin Admitted THEN "none"
                                 ELSE IF t \in BotBlocking THEN "filtered"
                                 ELSE "host_queue"]
  /\ UNCHANGED <<collectVars, line, timeVars, cancelled>>

-----------------------------------------------------------------------------
(* The check of one target                                                 *)

Checking == {t \in Targets : stage[t] = "checking"}

(* Mutant of HostHolders: the permit is never given back.                  *)
HostHoldersForEver(h) ==
  {t \in Targets :
     HostOf[t] = h /\ stage[t] \in {"spacing", "line", "checking", "answered"}}

(* The tasks inside the semaphore of their host.                           *)
HostHolders(h) ==
  {t \in Targets :
     HostOf[t] = h /\ stage[t] \in {"spacing", "line", "checking"}}

HostPermit(h) == Cardinality(HostHolders(h)) < PerHost

(* Mutant of GlobalPermit: a sleeping task holds a permit.                 *)
GlobalPermitAsleep ==
  Cardinality(Checking \cup {t \in Targets : stage[t] = "spacing"}) < Global

GlobalPermit == Cardinality(Checking) < Global

(* Mutant of NextSlot: the next slot is counted from now, not from the     *)
(* slot just taken.                                                        *)
NextSlotFromNow(h) == Delay

NextSlot(h) == owed[h] + Delay

(* Inside the semaphore of the host the task takes the host's next time    *)
(* slot and sleeps until then.                                             *)
EnterHost(t) ==
  /\ stage[t] = "host_queue" /\ HostPermit(HostOf[t]) /\ ~cancelled
  /\ stage' = [stage EXCEPT ![t] = "spacing"]
  /\ due' = [due EXCEPT ![t] = owed[HostOf[t]]]
  /\ owed' = [owed EXCEPT ![HostOf[t]] = NextSlot(HostOf[t])]
  /\ UNCHANGED <<phase, collectVars, line, since, cancelled>>

GiveUpAtHost(t) ==
  /\ stage[t] = "host_queue" /\ HostPermit(HostOf[t]) /\ cancelled
  /\ stage' = [stage EXCEPT ![t] = "unchecked"]
  /\ UNCHANGED <<phase, collectVars, line, timeVars, cancelled>>

JoinLine(t) ==
  /\ stage[t] = "spacing" /\ due[t] = 0
  /\ stage' = [stage EXCEPT ![t] = "line"]
  /\ line' = Append(line, t)
  /\ UNCHANGED <<phase, collectVars, timeVars, cancelled>>

NextInLine(t) ==
  stage[t] = "line" /\ line # <<>> /\ t = Head(line) /\ GlobalPermit

(* Mutant of Start: the second look at the cancel event is missing.        *)
StartRegardless(t) ==
  /\ NextInLine(t)
  /\ stage' = [stage EXCEPT ![t] = "checking"]
  /\ line' = Tail(line)
  /\ since' = [since EXCEPT ![HostOf[t]] = 0]
  /\ UNCHANGED <<phase, collectVars, owed, due, cancelled>>

Start(t) ==
  /\ NextInLine(t) /\ ~cancelled
  /\ stage' = [stage EXCEPT ![t] = "checking"]
  /\ line' = Tail(line)
  /\ since' = [since EXCEPT ![HostOf[t]] = 0]
  /\ UNCHANGED <<phase, collectVars, owed, due, cancelled>>

GiveUpInLine(t) ==
  /\ NextInLine(t) /\ cancelled
  /\ stage' = [stage EXCEPT ![t] = "unchecked"]
  /\ line' = Tail(line)
  /\ UNCHANGED <<phase, collectVars, timeVars, cancelled>>

(* fetch_page answers or times out, after its own retries.                 *)
Finish(t) ==
  /\ stage[t] = "checking"
  /\ stage' = [stage EXCEPT ![t] = "answered"]
  /\ UNCHANGED <<phase, collectVars, line, timeVars, cancelled>>

Ready(t) ==
  \/ stage[t] = "host_queue" /\ HostPermit(HostOf[t])
  \/ stage[t] = "spacing" /\ due[t] = 0
  \/ NextInLine(t)

LessOne(n) == IF n = 0 THEN 0 ELSE n - 1

Tick ==
  /\ phase = "check" /\ \A t \in Targets : ~Ready(t)
  /\ owed' = [h \in Hosts |-> LessOne(owed[h])]
  /\ due' = [t \in Targets |-> LessOne(due[t])]
  /\ since' = [h \in Hosts |-> Min({since[h] + 1, Delay})]
  /\ UNCHANGED <<phase, collectVars, stage, line, cancelled>>

(* as_completed is exhausted, and the crawl goes on to the images.         *)
EndChecks ==
  /\ phase = "check"
  /\ \A t \in Targets : stage[t] \in Settled \cup {"none"}
  /\ phase' = "done"
  /\ UNCHANGED <<collectVars, stage, line, timeVars, cancelled>>

RequestCancel ==
  /\ phase = "check" /\ ~cancelled
  /\ cancelled' = TRUE
  /\ UNCHANGED <<phase, collectVars, stage, line, timeVars>>

Check(t) ==
  \/ EnterHost(t) \/ GiveUpAtHost(t) \/ JoinLine(t)
  \/ Start(t) \/ GiveUpInLine(t) \/ Finish(t)

Next ==
  \/ \E p \in Pages : Collect(p)
  \/ BeginChecks \/ EndChecks \/ RequestCancel \/ Tick
  \/ \E t \in Targets : Check(t)

Spec == Init /\ [][Next]_vars

(* The pages end, the event loop runs every task that can run, every       *)
(* request is answered or times out, and time passes.                      *)
FairSpec ==
  /\ Spec
  /\ WF_vars(BeginChecks) /\ WF_vars(EndChecks) /\ WF_vars(Tick)
  /\ \A t \in Targets : WF_vars(Check(t))

-----------------------------------------------------------------------------
(* Properties                                                              *)

(* A target is fetched once however many pages link to it (E2.1).          *)
FetchedOnce ==
  \A i, j \in DOMAIN queue : queue[i].target = queue[j].target => i = j

(* Every page that links to a target that will be fetched is retained as   *)
(* one of its sources (E2.1), unless the page had used up its quota on     *)
(* other targets.                                                          *)
ContributionsOf(p) == {i \in DOMAIN queue : queue[i].source = p}

SourcesRetained ==
  \A i \in DOMAIN queue, p \in DOMAIN linked :
    queue[i].target \in linked[p] =>
      p \in sources[queue[i].target] \/ Cardinality(ContributionsOf(p)) = PageCap

(* Never more requests at once against one host than its bound (EL1).      *)
HostBound ==
  \A h \in Hosts : Cardinality({t \in Checking : HostOf[t] = h}) <= PerHost

(* Never more requests at once than the global bound.                      *)
GlobalBound == Cardinality(Checking) <= Global

(* The time slots taken on one host are Delay apart, also when several     *)
(* tasks may be inside its semaphore: the slot is reserved before the      *)
(* sleep (EL2).                                                            *)
SlotsSpaced ==
  \A t, u \in Targets :
    t # u /\ HostOf[t] = HostOf[u]
      /\ stage[t] = "spacing" /\ stage[u] = "spacing" =>
      due[t] + Delay <= due[u] \/ due[u] + Delay <= due[t]

(* The requests to one host start at least Delay apart.                    *)
RequestsSpaced ==
  [][\A t \in Targets :
       stage[t] # "checking" /\ stage'[t] = "checking" =>
         since[HostOf[t]] >= Delay]_vars

(* A host pays for its own politeness only: time passes for a link whose   *)
(* host is idle and owed nothing only while all the global permits are in  *)
(* use on the network (the order of the semaphores in _check_one).         *)
HostsIndependent ==
  [][timeVars' # timeVars /\ stage' = stage =>
       \A t \in Targets :
         stage[t] = "line" => Cardinality(Checking) = Global]_vars

(* Once the job is cancelled no further request starts, whether a task was *)
(* waiting for its host, asleep, or in line (both tests of cancel_event).  *)
CancelStopsRequests ==
  [][cancelled =>
       \A t \in Targets :
         stage'[t] = "checking" => stage[t] = "checking"]_vars

(* The phase ends: no order of the semaphores deadlocks.                   *)
ChecksEnd == <>(phase = "done")

=============================================================================
