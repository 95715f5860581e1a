------------------------------- MODULE AiUsage -------------------------------
(***************************************************************************)
(* Paid AI calls and the record of what they used: the router that picks a *)
(* provider, asks it and prices the answer (api/services/ai_router.py,     *)
(* api/services/ai_pricing.py, api/services/providers/), the logger that   *)
(* writes each record by a task of its own (api/services/usage_logger.py)  *)
(* and the shutdown that waits for those tasks (api/main.py).              *)
(***************************************************************************)
EXTENDS Naturals, FiniteSets, FiniteSetsExt

CONSTANTS
  Calls,       \* calls that may be made
  Detached,    \* those made by a task that no request waits for (image batches)
  ModelOf,     \* the model each caller asks for
  Preference,  \* providers, in the order they are tried: a sequence
  Keys,        \* providers with a key
  PricedBy,    \* providers whose price list knows a model
  Costs,       \* what an answer may cost
  WriteFaults  \* bound on failing writes

ASSUME UsageAssumption ==
  /\ Detached \subseteq Calls
  /\ Costs \subseteq Nat
  /\ WriteFaults \in Nat

VARIABLES
  stage,    \* of each call: new, asked, answered, unpriced, failed, refused
  paid,     \* what each answer cost
  pending,  \* records whose task has not ended
  stored,   \* rows of ai_usage
  lost,     \* records whose write failed
  server    \* up, draining or closed, with the tasks shutdown waits for

usageVars == <<stage, paid, pending, stored, lost, server>>

Refused == "none"

(* _resolve_credentials: the first provider in order of preference that    *)
(* has a key.                                                              *)
Provider ==
  LET usable == {i \in DOMAIN Preference : Preference[i] \in Keys}
  IN  IF usable = {} THEN Refused ELSE Preference[Min(usable)]

Record(c, ok, cost) ==
  [call |-> c, provider |-> Provider, model |-> ModelOf[c], ok |-> ok, cost |-> cost]

UsageInit ==
  /\ stage = [c \in Calls |-> "new"]
  /\ paid = [c \in Calls |-> 0]
  /\ pending = {} /\ stored = {} /\ lost = {}
  /\ server = [is |-> "up", waits |-> {}]

(* _call: requests are refused once the server shuts down, tasks go on. *)
Ask(c) ==
  /\ stage[c] = "new"
  /\ server.is = "up" \/ c \in Detached
  /\ stage' = [stage EXCEPT ![c] = IF Provider = Refused THEN "refused" ELSE "asked"]
  /\ UNCHANGED <<paid, pending, stored, lost, server>>

(* The driver raises: transport, status or shape of the answer. *)
DriverFails(c) ==
  /\ stage[c] = "asked"
  /\ stage' = [stage EXCEPT ![c] = "failed"]
  /\ pending' = pending \cup {Record(c, FALSE, 0)}
  /\ UNCHANGED <<paid, stored, lost, server>>

(* The provider answers; pricing raises for a model it does not know, and  *)
(* the answer goes with its usage.                                         *)
Answer(c) ==
  /\ stage[c] = "asked"
  /\ \E cost \in Costs :
       /\ paid' = [paid EXCEPT ![c] = cost]
       /\ IF Provider \in PricedBy[ModelOf[c]]
          THEN /\ stage' = [stage EXCEPT ![c] = "answered"]
               /\ pending' = pending \cup {Record(c, TRUE, cost)}
          ELSE /\ stage' = [stage EXCEPT ![c] = "unpriced"]
               /\ UNCHANGED pending
  /\ UNCHANGED <<stored, lost, server>>

(* record_parse_failure: the advisor cannot read the answer and records a  *)
(* second event for the call, in the same request.                         *)
ParseFails(c) ==
  /\ stage[c] = "answered"
  /\ server.is = "up" \/ c \in Detached
  /\ stage' = [stage EXCEPT ![c] = "failed"]
  /\ pending' = pending \cup {Record(c, FALSE, 0)}
  /\ UNCHANGED <<paid, stored, lost, server>>

(* Mutant of Persist: no write runs once shutdown began. *)
PersistWhileUp(rec) ==
  /\ rec \in pending /\ server.is = "up"
  /\ pending' = pending \ {rec}
  /\ stored' = stored \cup {rec}
  /\ UNCHANGED <<stage, paid, lost, server>>

(* _persist *)
Persist(rec) ==
  /\ rec \in pending /\ server.is # "closed"
  /\ pending' = pending \ {rec}
  /\ stored' = stored \cup {rec}
  /\ UNCHANGED <<stage, paid, lost, server>>

(* _persist swallows what the store raises. *)
PersistFails(rec) ==
  /\ rec \in pending
  /\ server.is = "closed" \/ Cardinality(lost) < WriteFaults
  /\ pending' = pending \ {rec}
  /\ lost' = lost \cup {rec}
  /\ UNCHANGED <<stage, paid, stored, server>>

(* lifespan, after its yield: no request is being answered; await_pending  *)
(* waits for the tasks there are now.                                      *)
Shutdown ==
  /\ server.is = "up"
  /\ \A c \in Calls \ Detached : stage[c] # "asked"
  /\ server' = [is |-> "draining", waits |-> pending]
  /\ UNCHANGED <<stage, paid, pending, stored, lost>>

(* Mutant of Close: the store is closed without waiting. *)
CloseAtOnce ==
  /\ server.is = "draining"
  /\ server' = [is |-> "closed", waits |-> {}]
  /\ UNCHANGED <<stage, paid, pending, stored, lost>>

Close ==
  /\ server.is = "draining"
  /\ server.waits \cap pending = {}
  /\ server' = [is |-> "closed", waits |-> {}]
  /\ UNCHANGED <<stage, paid, pending, stored, lost>>

UsageNext ==
  \/ Shutdown \/ Close
  \/ \E c \in Calls : Ask(c) \/ DriverFails(c) \/ Answer(c) \/ ParseFails(c)
  \/ \E rec \in pending : Persist(rec) \/ PersistFails(rec)

UsageSpec == UsageInit /\ [][UsageNext]_usageVars

(* Every scheduled write is run by the event loop, and shutdown goes on    *)
(* when what it waits for has ended.                                       *)
UsageFairSpec ==
  /\ UsageSpec
  /\ WF_usageVars(\E rec \in pending : Persist(rec) \/ PersistFails(rec))
  /\ WF_usageVars(Close)

(***************************************************************************)
(* Properties.                                                             *)
(***************************************************************************)
UsageTypeOK ==
  /\ stage \in [Calls -> {"new", "asked", "answered", "unpriced", "failed", "refused"}]
  /\ paid \in [Calls -> Costs \cup {0}]
  /\ server.is \in {"up", "draining", "closed"} /\ server.waits \subseteq
       (pending \cup stored \cup lost)
  /\ pending \cap stored = {}

(* After an orderly shutdown the usage of every priced answer given to a   *)
(* request is stored, unless its own write failed (api/main.py:144-150).   *)
PaidCallsRecorded ==
  server.is = "closed" =>
    \A c \in Calls \ Detached :
      paid[c] > 0 /\ stage[c] # "unpriced" =>
        Record(c, TRUE, paid[c]) \in stored \cup lost

(* A shutdown comes to its end, whatever tasks are in flight. *)
ShutdownEnds == server.is = "draining" ~> server.is = "closed"
=============================================================================
