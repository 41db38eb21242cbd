------------------------------ MODULE Escalation -------------------------------
(***************************************************************************)
(* The escalation engine: one goroutine that, on every tick, walks over    *)
(* the active tenants, their active rules in priority order, and the       *)
(* discrepancies each rule lists, and acts on them one after the other.    *)
(*                                                                         *)
(* Its statements run on the pool, each in a transaction of its own: the   *)
(* list, the dedup query, the UPDATE of the severity, the UPDATE of the    *)
(* status and the INSERT of the event are five separate steps, between     *)
(* which the API may do anything.  A list is acted on as it was read.      *)
(***************************************************************************)
EXTENDS LedgerStore, Sequences

CONSTANTS
    ruleLists,  \* per tenant: the lists of active rules, in the order of priority,
                \* that the rules API leaves in the table at one time or another
    MaxAge,     \* bound: ages in hours are not told apart above it
    NoSeverity  \* an action_config without new_severity

\* The columns of a rule.  new_severity is free text in a JSON column: it need
\* not be a severity the discrepancies table accepts.
Rule == [severityMatch: SeverityMatches, triggerStatus: TriggerStatuses,
         afterHrs: Int, action: RuleActions,
         newSeverity: Severities \cup {"unknown", NoSeverity}]

ASSUME RuleAssumption == \A t \in Tenants : ruleLists[t] \subseteq Seq(Rule)
ASSUME MaxAgeAssumption == MaxAge \in Nat

VARIABLES
    epc,            \* where the engine is
    tenantsLeft,    \* the tenants it has still to evaluate
    tenant,         \* the tenant it evaluates
    rulesLeft,      \* the rules of that tenant not yet done, the current first
    listed,         \* the discrepancies the current rule listed, not yet done
    disc,           \* the discrepancy it acts on
    age             \* hours since each discrepancy was created

engineVars == <<epc, tenantsLeft, tenant, rulesLeft, listed, disc>>
escVars == <<engineVars, age>>

EnginePCs == {"idle", "tenants", "rules", "items",
              "severity", "status", "append"}

EngineTypeOK ==
    /\ epc \in EnginePCs
    /\ tenantsLeft \subseteq Tenants
    /\ tenant \in Tenants
    /\ rulesLeft \in Seq(Rule)
    /\ listed \subseteq Discs
    /\ disc \in Discs
    /\ age \in [Discs -> 0..MaxAge]

EngineInit ==
    /\ epc = "idle"
    /\ tenantsLeft = {}
    /\ tenant \in Tenants
    /\ rulesLeft = <<>>
    /\ listed = {}
    /\ disc \in Discs
    /\ age = [d \in Discs |-> 0]

rule == Head(rulesLeft)

\* The event type, and with it the status, of the action of a rule.
EventOfAction(action) == IF action = "escalate" THEN "escalated" ELSE "auto_closed"

\* created_at < now - trigger_after_hrs.
OlderThan(hrs) == {d \in Discs : age[d] > hrs}

HourPasses ==
    /\ \E d \in Discs : rows[d].status # "absent" /\ age[d] < MaxAge
    /\ age' = [d \in Discs |-> IF rows[d].status = "absent" \/ age[d] = MaxAge
                               THEN age[d] ELSE age[d] + 1]
    /\ UNCHANGED <<storeVars, engineVars>>

--------------------------------------------------------------------------------
\* A tick of Start, and getActiveTenantIDs.  Which tenants are active is not
\* modelled further; a failed query is a pass over none.
Evaluate ==
    /\ epc = "idle"
    /\ \E active \in SUBSET Tenants : tenantsLeft' = active
    /\ epc' = "tenants"
    /\ UNCHANGED <<storeVars, tenant, rulesLeft, listed, disc, age>>

EvaluateEnds ==
    /\ epc = "tenants"
    /\ tenantsLeft = {}
    /\ epc' = "idle"
    /\ UNCHANGED <<storeVars, tenantsLeft, tenant, rulesLeft, listed, disc, age>>

\* evaluateTenant: the rules are read once, as they are by now, and acted on
\* even if they are changed or deleted meanwhile; an error skips the tenant.
evaluateTenant(t) ==
    /\ epc = "tenants"
    /\ t \in tenantsLeft
    /\ tenantsLeft' = tenantsLeft \ {t}
    /\ tenant' = t
    /\ \/ rulesLeft' \in ruleLists[t] /\ epc' = "rules"
       \/ UNCHANGED <<rulesLeft, epc>>
    /\ UNCHANGED <<storeVars, listed, disc, age>>

evaluateTenantEnds ==
    /\ epc = "rules"
    /\ rulesLeft = <<>>
    /\ epc' = "tenants"
    /\ UNCHANGED <<storeVars, tenantsLeft, tenant, rulesLeft, listed, disc, age>>

\* evaluateRule: the discrepancies are listed once; an error skips the rule.
evaluateRule ==
    /\ epc = "rules"
    /\ rulesLeft # <<>>
    /\ \/ listed' = ListForEscalation(tenant, rule.triggerStatus,
                        rule.severityMatch, OlderThan(rule.afterHrs))
       \/ listed' = {}
    /\ epc' = "items"
    /\ UNCHANGED <<storeVars, tenantsLeft, tenant, rulesLeft, disc, age>>

evaluateRuleEnds ==
    /\ epc = "items"
    /\ listed = {}
    /\ rulesLeft' = Tail(rulesLeft)
    /\ epc' = "rules"
    /\ UNCHANGED <<storeVars, tenantsLeft, tenant, listed, disc, age>>

\* executeAction for a notify rule touches neither table (module Notification).
executeNotify(d) ==
    /\ epc = "items"
    /\ d \in listed
    /\ rule.action = "notify"
    /\ listed' = listed \ {d}
    /\ UNCHANGED <<storeVars, epc, tenantsLeft, tenant, rulesLeft, disc, age>>

\* Mutant: no dedup query.
StartActionAnew(d) ==
    LET type == EventOfAction(rule.action)
    IN  /\ epc = "items"
        /\ d \in listed
        /\ rule.action # "notify"
        /\ ValidTransition(rule.triggerStatus, TargetStatus[type])
        /\ listed' = listed \ {d}
        /\ disc' = d
        /\ epc' = "status"
        /\ UNCHANGED <<storeVars, tenantsLeft, tenant, rulesLeft, age>>

\* Mutant: no verdict of the state machine.
StartActionUnchecked(d) ==
    LET type == EventOfAction(rule.action)
    IN  /\ epc = "items"
        /\ d \in listed
        /\ rule.action # "notify"
        /\ ~ExistsForDiscrepancy(tenant, d, type)
        /\ listed' = listed \ {d}
        /\ disc' = d
        /\ epc' = "status"
        /\ UNCHANGED <<storeVars, tenantsLeft, tenant, rulesLeft, age>>

\* executeEscalate and executeAutoClose up to their first write: the dedup query
\* and the state machine's verdict on the status that was listed, which is the
\* rule's trigger status.  A failed query, a previous event or a negative verdict
\* ends the action.
StartAction(d) ==
    LET type == EventOfAction(rule.action)
    IN  /\ epc = "items"
        /\ d \in listed
        /\ rule.action # "notify"
        /\ listed' = listed \ {d}
        /\ \/ /\ ~ExistsForDiscrepancy(tenant, d, type)
              /\ ValidTransition(rule.triggerStatus, TargetStatus[type])
              /\ disc' = d
              /\ epc' = IF rule.action = "escalate"
                           /\ rule.newSeverity # NoSeverity
                        THEN "severity" ELSE "status"
           \/ UNCHANGED <<epc, disc>>
        /\ UNCHANGED <<storeVars, tenantsLeft, tenant, rulesLeft, age>>

\* executeEscalate's UpdateSeverity, which the CHECK constraint refuses for a
\* value that is no severity: the action then ends.
UpgradeSeverity ==
    /\ epc = "severity"
    /\ \/ UpdateSeverity(disc, rule.newSeverity) /\ epc' = "status"
       \/ rule.newSeverity \notin Severities /\ epc' = "items" /\ UNCHANGED rows
    /\ UNCHANGED <<events, nextSeq, lock, tenantsLeft, tenant, rulesLeft,
                   listed, disc, age>>

\* The UpdateStatus of both actions: it applies to whatever the status is by
\* now.  escalated erases resolved_at, auto_closed sets it.
ChangeStatus ==
    /\ epc = "status"
    /\ UpdateStatus(disc, TargetStatus[EventOfAction(rule.action)],
                    rule.action = "auto_close")
    /\ epc' = "append"
    /\ UNCHANGED <<events, nextSeq, lock, tenantsLeft, tenant, rulesLeft,
                   listed, disc, age>>

\* The AppendWith of both actions.
AppendOutcome ==
    /\ epc = "append"
    /\ AppendEvent(tenant, disc, EventOfAction(rule.action), "escalation")
    /\ epc' = "items"
    /\ UNCHANGED <<rows, lock, tenantsLeft, tenant, rulesLeft, listed, disc, age>>

\* A write fails: the error is logged and the engine goes on with the next
\* discrepancy.  What the action did before stays done.  (A write that succeeds but is reported as failed is this step
\* after the write.)
ActionFails ==
    /\ epc \in {"severity", "status", "append"}
    /\ epc' = "items"
    /\ UNCHANGED <<storeVars, tenantsLeft, tenant, rulesLeft, listed, disc, age>>

\* The process stops or dies; after a restart the engine waits for its tick.
EngineStops ==
    /\ epc # "idle"
    /\ epc' = "idle"
    /\ tenantsLeft' = {}
    /\ rulesLeft' = <<>>
    /\ listed' = {}
    /\ UNCHANGED <<storeVars, tenant, disc, age>>

\* The engine at work, as long as nothing goes wrong.
EnginePass ==
    \/ EvaluateEnds
    \/ \E t \in Tenants : evaluateTenant(t)
    \/ evaluateTenantEnds
    \/ evaluateRule
    \/ evaluateRuleEnds
    \/ \E d \in Discs : executeNotify(d) \/ StartAction(d)
    \/ UpgradeSeverity
    \/ ChangeStatus
    \/ AppendOutcome

EngineNext ==
    \/ Evaluate
    \/ EnginePass
    \/ ActionFails
    \/ EngineStops
    \/ HourPasses
================================================================================
