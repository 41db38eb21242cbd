-------------------------------- MODULE Ledger ---------------------------------
(***************************************************************************)
(* The API's workflow endpoints and the escalation engine over one pair of *)
(* tables: the composition of Workflow and Escalation.  The endpoints      *)
(* write row and event in one transaction and take the row lock; the       *)
(* engine writes them in two statements and only waits for the lock.       *)
(***************************************************************************)
EXTENDS Workflow, Escalation

ledgerVars == <<rows, events, nextSeq, lock, pc, call, seen, mine, resp,
                epc, tenantsLeft, tenant, rulesLeft, listed, disc, age>>

\* Every variable has its type.
LedgerTypeOK == TypeOK /\ EngineTypeOK

LedgerInit == Init /\ EngineInit

LedgerNext ==
    \/ Next /\ UNCHANGED escVars
    \/ EngineNext /\ UNCHANGED requestVars

\* The engine's goroutine and every handler keep running; the ticker fires.
\* Nothing makes a statement fail or a process stop.
LedgerFairness ==
    /\ \A r \in Requests : WF_ledgerVars(Serve(r) /\ UNCHANGED escVars)
    /\ WF_ledgerVars(EnginePass /\ UNCHANGED requestVars)

LedgerSpec == LedgerInit /\ [][LedgerNext]_ledgerVars
LedgerFairSpec == LedgerSpec /\ LedgerFairness

--------------------------------------------------------------------------------
\* Whatever races, failures and restarts there are, the engine records at most
\* one escalation and at most one automatic closing of a discrepancy.  The status
\* alone does not ensure it: a request that read an older status may set an
\* escalated discrepancy back, and the next pass lists it again.
RecordedOnce ==
    \A d \in Discs : \A type \in {"escalated", "auto_closed"} :
        Cardinality({e \in events : e.disc = d /\ e.type = type}) <= 1

\* The endpoints stay consistent beside the engine: row and trail disagree only
\* where the engine wrote last (a status without its event) or where its event
\* got the highest number although its update was not the last.  When neither is
\* the engine's, the last change in the trail is the one the row shows.
OnlyTheEngineDrifts ==
    \A d \in Discs :
        LET trail == StatusEvents(d)
        IN  \/ rows[d].status \in {"escalated", "auto_closed"}
            \/ trail = {} /\ rows[d].status \in {"absent", "open"}
            \/ \E e \in trail :
                  /\ \A f \in trail : f.seq <= e.seq
                  /\ \/ e.actorType = "escalation"
                     \/ RowMatches(rows[d], e.type)

\* Every pass ends: the engine is never left waiting for a row lock.
EveryPassEnds == epc # "idle" ~> epc = "idle"

\* Nothing is in progress.
Quiescent == epc = "idle" /\ \A r \in Requests : pc[r] \in {"idle", "done"}

\* Migration 003: "Every discrepancy state change creates a new immutable event
\* row."  Once nothing is in progress, the row agrees with its latest event.
EveryChangeRecorded == Quiescent => RowIsProjection
================================================================================
