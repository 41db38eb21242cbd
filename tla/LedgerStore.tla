------------------------------ MODULE LedgerStore ------------------------------
(***************************************************************************)
(* The two tables every writer of the service shares, as PostgreSQL keeps  *)
(* them at READ COMMITTED: committed discrepancy rows, committed ledger    *)
(* events, the BIGSERIAL counter behind sequence_num, and the row lock an  *)
(* UPDATE takes and keeps until its transaction ends.                      *)
(*                                                                         *)
(* A discrepancy is identified here by its (tenant_id, external_id) pair,  *)
(* which the table declares UNIQUE; its row does not exist ("absent") until *)
(* ingestion creates it.  Rows are never deleted.                          *)
(***************************************************************************)
EXTENDS DiscrepancyDomain, Integers, FiniteSets

CONSTANTS
    Discs,      \* the discrepancies
    Tenants,    \* the tenants
    tenantOf,   \* the tenant each discrepancy belongs to
    IngestedSeverities, \* the severities publishers send
    Writers,    \* whoever may hold a row lock: the workflow requests
    NoOne       \* the holder of a free row lock

ASSUME TenantAssumption == tenantOf \in [Discs -> Tenants]
ASSUME SeverityAssumption == IngestedSeverities \subseteq Severities
ASSUME NoOneAssumption == NoOne \notin Writers

VARIABLES
    rows,       \* committed discrepancy rows
    events,     \* committed ledger_events rows
    nextSeq,    \* the next value of the sequence behind sequence_num
    lock        \* the transaction whose UPDATE locked each row, or NoOne

storeVars == <<rows, events, nextSeq, lock>>

\* The columns of a discrepancy row that some step reads or writes.  A
\* resolved_at is kept as whether it is set: no step of the writers compares it.
Row == [status: Statuses \cup {"absent"}, severity: Severities,
        resolvedAt: BOOLEAN]

AbsentRow == [status |-> "absent", severity |-> "low", resolvedAt |-> FALSE]

\* An immutable audit event.
LedgerEvent == [seq: Nat \ {0}, tenant: Tenants, disc: Discs,
                type: EventTypes, actorType: ActorTypes]

StoreTypeOK ==
    /\ rows \in [Discs -> Row]
    /\ events \in SUBSET LedgerEvent
    /\ nextSeq \in Nat \ {0}
    /\ lock \in [Discs -> Writers \cup {NoOne}]

StoreInit ==
    /\ rows = [d \in Discs |-> AbsentRow]
    /\ events = {}
    /\ nextSeq = 1
    /\ lock = [d \in Discs |-> NoOne]

--------------------------------------------------------------------------------
(* Reads.  Each is one SQL statement over committed state.                 *)

\* Mutant: a WHERE clause without the tenant.
OwnsById(t, d) == rows[d].status # "absent"

\* The WHERE tenant_id = $1 AND id = $2 of every read and write of a row.
Owns(t, d) == rows[d].status # "absent" /\ tenantOf[d] = t

\* MAX(sequence_num) of the discrepancy's events, 0 if there are none.
GetLatestSequence(t, d) ==
    LET mine == {e \in events : e.tenant = t /\ e.disc = d}
    IN  IF mine = {} THEN 0
        ELSE (CHOOSE e \in mine : \A f \in mine : f.seq <= e.seq).seq

\* SELECT EXISTS over the events of one type.
ExistsForDiscrepancy(t, d, type) ==
    \E e \in events : e.tenant = t /\ e.disc = d /\ e.type = type

\* The candidates of an escalation rule: the discrepancies of the tenant in
\* the trigger status, old enough, of a matching severity.
ListForEscalation(t, status, match, old) ==
    {d \in Discs : /\ Owns(t, d)
                   /\ rows[d].status = status
                   /\ d \in old
                   /\ MatchesSeverity(match, rows[d].severity)}

--------------------------------------------------------------------------------
(* Writes, as the parts an action is made of.                              *)

\* The event AppendWith inserts; the database numbers it.
NewLedgerEvent(n, t, d, type, actorType) ==
    [seq |-> n, tenant |-> t, disc |-> d, type |-> type,
     actorType |-> actorType]

\* INSERT on the pool: numbered, committed and visible in one step.
AppendEvent(t, d, type, actorType) ==
    /\ events' = events \cup {NewLedgerEvent(nextSeq, t, d, type, actorType)}
    /\ nextSeq' = nextSeq + 1

\* The row after UPDATE ... SET status, resolved_at: no status precondition,
\* and a nil resolved_at erases the column.
UpdatedRow(row, newStatus, resolvedAt) ==
    [status |-> newStatus, severity |-> row.severity, resolvedAt |-> resolvedAt]

\* UPDATE on the pool: waits for the row lock, commits at once.
UpdateStatus(d, newStatus, resolvedAt) ==
    /\ lock[d] = NoOne
    /\ rows' = [rows EXCEPT ![d] = UpdatedRow(@, newStatus, resolvedAt)]

\* As UpdateStatus, for the severity column.  The CHECK constraint makes the
\* statement fail for a value that is no severity.
UpdateSeverity(d, newSeverity) ==
    /\ lock[d] = NoOne
    /\ newSeverity \in Severities
    /\ rows' = [rows EXCEPT ![d].severity = newSeverity]

\* INSERT of a discrepancy: UNIQUE(tenant_id, external_id) refuses a second
\* one.  The row is created open.
Create(d, severity) ==
    /\ rows[d].status = "absent"
    /\ rows' = [rows EXCEPT ![d] = [status |-> "open", severity |-> severity,
                                    resolvedAt |-> FALSE]]

--------------------------------------------------------------------------------
(* Ingestion as the other writers see it (module Ingestion has its own     *)
(* steps, and IngestionProofs shows that they are these): a row appears,   *)
(* and its received event later or never.                                  *)

IntakeCreate(d) ==
    /\ \E s \in IngestedSeverities : Create(d, s)
    /\ UNCHANGED <<events, nextSeq, lock>>

IntakeReceived(d) ==
    /\ rows[d].status # "absent"
    /\ ~ExistsForDiscrepancy(tenantOf[d], d, "received")
    /\ AppendEvent(tenantOf[d], d, "received", "system")
    /\ UNCHANGED <<rows, lock>>

Intake == \E d \in Discs : IntakeCreate(d) \/ IntakeReceived(d)

--------------------------------------------------------------------------------
\* The events of d that stand for a change of its status.
StatusEvents(d) == {e \in events : e.disc = d /\ e.type \in StatusEventTypes}

\* The row a change to the status of this event type leaves behind.
RowMatches(row, type) ==
    /\ row.status = TargetStatus[type]
    /\ row.resolvedAt <=> TargetStatus[type] \in TerminalStatuses
================================================================================
