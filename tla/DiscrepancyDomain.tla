--------------------------- MODULE DiscrepancyDomain ---------------------------
(***************************************************************************)
(* The vocabulary of package domain: the lifecycle of a discrepancy, the   *)
(* events of the audit trail and the escalation rules.  Constant-level     *)
(* only: every other module of the project is built on these definitions.  *)
(***************************************************************************)

\* The six lifecycle states of a discrepancy row.
Statuses == {"open", "acknowledged", "investigating",
             "resolved", "escalated", "auto_closed"}

\* The severities the table's CHECK constraint accepts.
Severities == {"low", "medium", "high", "critical"}

\* The allowed changes of status, <<current, next>>.
validTransitions ==
    {<<"open", "acknowledged">>, <<"open", "auto_closed">>,
     <<"acknowledged", "investigating">>,
     <<"investigating", "resolved">>, <<"investigating", "escalated">>,
     <<"escalated", "resolved">>}

\* False for a current status that has no entry in the table.
ValidTransition(from, to) == <<from, to>> \in validTransitions

\* The statuses without a transition out.
TerminalStatuses == {"resolved", "auto_closed"}

EventTypes == {"received", "acknowledged", "investigation_started",
               "note_added", "escalated", "resolved", "auto_closed"}

\* The actor_type column of an event: who appended it.
ActorTypes == {"system", "user", "escalation"}

\* An event type stands for a change of status unless it is one of these two.
StatusEventTypes == EventTypes \ {"received", "note_added"}

\* The status a handler writes in the row beside an event of this type.
TargetStatus ==
    [t \in StatusEventTypes |->
        IF t = "investigation_started" THEN "investigating" ELSE t]

\* Escalation rules: what a rule may do, and which statuses may trigger it.
RuleActions == {"notify", "escalate", "auto_close"}
TriggerStatuses == {"open", "acknowledged", "investigating"}
SeverityMatches == Severities \cup {"*"}

\* The wildcard matches every severity, any other value only itself.
MatchesSeverity(match, severity) == match = "*" \/ match = severity
================================================================================
