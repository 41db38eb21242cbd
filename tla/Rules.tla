--------------------------------- MODULE Rules ---------------------------------
(***************************************************************************)
(* The escalation_rules table and the rules API: create, partial update,   *)
(* delete, each a single statement, at any time.                           *)
(*                                                                         *)
(* Of a rule's columns only what the notify action depends on is kept: a   *)
(* rule is firing if it is active and its action is notify, else silent.   *)
(* What it matches is the business of who lists discrepancies.  An id, a   *)
(* UUID, is never used again.                                              *)
(***************************************************************************)
CONSTANT RuleIds

VARIABLE rules  \* per id: the state of its row

RuleStates == {"new", "firing", "silent", "deleted"}

RulesInit == rules \in [RuleIds -> RuleStates \ {"deleted"}]

Exists(k) == rules[k] \in {"firing", "silent"}

\* What List(activeOnly) gives an engine that is to notify.
FiringRules == {k \in RuleIds : rules[k] = "firing"}

--------------------------------------------------------------------------------
(* The statements of the store.                                            *)

Create(k, state) == rules[k] = "new" /\ rules' = [rules EXCEPT ![k] = state]

\* Of the columns a caller may set, only is_active and action matter here.
Update(k, state) == Exists(k) /\ rules' = [rules EXCEPT ![k] = state]

\* notification_log references escalation_rules, without ON DELETE: the statement
\* fails while a notification names the rule.
Delete(k, referenced) ==
    Exists(k) /\ ~referenced /\ rules' = [rules EXCEPT ![k] = "deleted"]

--------------------------------------------------------------------------------
(* The handlers.  A request that validation, the UNIQUE name, a foreign    *)
(* key or the lack of the rule refuses changes nothing.                    *)

\* A new rule is active; whether it fires depends on its action.
CreateRule(k) == \E state \in {"firing", "silent"} : Create(k, state)

UpdateRule(k) == \E state \in {"firing", "silent"} : Update(k, state)

\* A rule that has notified cannot be deleted: the answer is 500.
DeleteRule(k, referenced) == Delete(k, referenced)
================================================================================
