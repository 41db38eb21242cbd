-------------------------------- MODULE MCLedger -------------------------------
(* Small instances of Ledger for TLC.                                      *)
EXTENDS Ledger, TLC

CONSTANTS d1, t1, r1, r2, r3

MCDiscs == {d1}
MCTenants == {t1}
MCTenantOf == d1 :> t1

\* A request for each step to an escalation, and one that comes late.
MCRequests == {r1, r2, r3}
MCTwoRequests == {r1, r2}

\* One rule per action of the engine.
EscalateRule == [severityMatch |-> "*", triggerStatus |-> "investigating",
                 afterHrs |-> 0, action |-> "escalate",
                 newSeverity |-> "critical"]
AutoCloseRule == [severityMatch |-> "*", triggerStatus |-> "open",
                  afterHrs |-> 0, action |-> "auto_close",
                  newSeverity |-> NoSeverity]
NotifyRule == [severityMatch |-> "*", triggerStatus |-> "acknowledged",
               afterHrs |-> 0, action |-> "notify", newSeverity |-> NoSeverity]
\* An escalation whose new severity the table does not accept.
RefusedRule == [severityMatch |-> "high", triggerStatus |-> "investigating",
                afterHrs |-> 0, action |-> "escalate",
                newSeverity |-> "unknown"]
\* A rule the state machine never lets act: acknowledged is not escalated.
IdleRule == [severityMatch |-> "*", triggerStatus |-> "acknowledged",
             afterHrs |-> 0, action |-> "escalate", newSeverity |-> NoSeverity]

\* The rules of two passes need not be the same: another order, edited ones.
PlainEscalateRule == [EscalateRule EXCEPT !.newSeverity = NoSeverity]
MCRuleLists == t1 :> {<<RefusedRule, EscalateRule, AutoCloseRule, IdleRule,
                        NotifyRule>>,
                      <<AutoCloseRule, PlainEscalateRule>>}
\* The rule whose update may meet the lock of any request.
MCLiveRuleLists == t1 :> {<<AutoCloseRule>>}

MCSymmetry == Permutations(Requests)
================================================================================
