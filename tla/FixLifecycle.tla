---------------------------- MODULE FixLifecycle ----------------------------
(***************************************************************************)
(* What the Fix Manager promises for each pair of a page and a field: a    *)
(* value is proposed, the operator changes, approves or skips it, and only *)
(* an approved value is sent to the site and then reads applied.  With an  *)
(* operator who waits for every answer (exact), a row reads applied only   *)
(* while the site holds its value.  FixManager is shown to implement it.   *)
(***************************************************************************)

CONSTANTS Slots, Values

VARIABLES
  exact,   \* the operator waits for each answer before the next request
  status,  \* of each pair's row, "none" without one
  value,   \* the proposed value of each row
  site     \* what the site holds

lvars == <<exact, status, value, site>>

Init ==
  /\ exact \in BOOLEAN
  /\ status = [s \in Slots |-> "none"]
  /\ value \in [Slots -> Values] /\ site \in [Slots -> Values]

(* Rows appear as proposals, whatever value they had before they vanished. *)
Propose(S) ==
  /\ \A s \in S : status[s] = "none"
  /\ status' = [s \in Slots |-> IF s \in S THEN "pending" ELSE status[s]]
  /\ \E v \in [S -> Values] :
       value' = [s \in Slots |-> IF s \in S THEN v[s] ELSE value[s]]
  /\ UNCHANGED <<exact, site>>

(* All rows are removed.                                                   *)
Clear ==
  /\ status' = [s \in Slots |-> "none"]
  /\ value' \in [Slots -> Values]
  /\ UNCHANGED <<exact, site>>

Review(s) ==
  /\ status[s] # "none"
  /\ \E v \in Values, x \in {"pending", "approved", "skipped"} :
       /\ status' = [status EXCEPT ![s] = x]
       /\ value' = [value EXCEPT ![s] = v]
  /\ UNCHANGED <<exact, site>>

(* The approved value is sent, and when it is known to have arrived the    *)
(* row is settled.                                                         *)
Publish(s) ==
  /\ exact => status[s] = "approved" /\ site'[s] = value[s]
  /\ \E v \in Values : site' = [site EXCEPT ![s] = v]
  /\ UNCHANGED <<exact, status, value>>

Settle(s) ==
  /\ status[s] # "none"
  /\ exact => status[s] = "approved" /\ site[s] = value[s]
  /\ status' = [status EXCEPT ![s] = "applied"]
  /\ UNCHANGED <<exact, value, site>>

Fail(s) ==
  /\ status[s] # "none"
  /\ exact => status[s] = "approved"
  /\ status' = [status EXCEPT ![s] = "failed"]
  /\ UNCHANGED <<exact, value, site>>

Next ==
  \/ Clear
  \/ \E S \in SUBSET Slots : Propose(S)
  \/ \E s \in Slots : Review(s) \/ Publish(s) \/ Settle(s) \/ Fail(s)

Spec == Init /\ [][Next]_lvars

=============================================================================
