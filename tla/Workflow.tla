------------------------------- MODULE Workflow --------------------------------
(***************************************************************************)
(* The workflow endpoints of the API: Acknowledge, Investigate, Resolve    *)
(* and AddNote, served concurrently.  Every SQL statement of a handler is  *)
(* a step of its own, so that two requests interleave between any two      *)
(* statements:                                                             *)
(*                                                                         *)
(*   check   the optimistic lock, on the pool, before any transaction      *)
(*   read    BEGIN and the SELECT of the row (no FOR UPDATE), then the     *)
(*           state machine's verdict on what was read                      *)
(*   update  the UPDATE, which waits for the row lock and then keeps it    *)
(*   append  the INSERT of the event, which takes a sequence number        *)
(*   commit  COMMIT: row and event become visible, the lock is released    *)
(*                                                                         *)
(* AddNote has no transaction: check, noteGet, noteAppend.                 *)
(***************************************************************************)
EXTENDS LedgerStore

CONSTANTS
    Requests,           \* the HTTP requests; each is served once
    ExpectedSequences,  \* the values clients send as expected_sequence
    NoValue             \* a field that is not there

ASSUME RequestAssumption == Requests \subseteq Writers
ASSUME SequenceAssumption == ExpectedSequences \subseteq Int

VARIABLES
    pc,         \* where each request is
    call,       \* what it asks for
    seen,       \* the status its transaction read
    mine,       \* the sequence number its INSERT took, 0 before
    resp        \* its answer, "none" while it has none

requestVars == <<pc, call, seen, mine, resp>>
vars == <<rows, events, nextSeq, lock, pc, call, seen, mine, resp>>

Ops == {"Acknowledge", "Investigate", "Resolve", "AddNote"}

\* The event type each handler passes on.
EventOf ==
    [op \in Ops |-> IF op = "Acknowledge" THEN "acknowledged"
                    ELSE IF op = "Investigate" THEN "investigation_started"
                    ELSE IF op = "Resolve" THEN "resolved"
                    ELSE "note_added"]

\* The status each handler passes to executeTransition.
TargetOf(op) == TargetStatus[EventOf[op]]

\* Only Resolve passes a resolved_at; the others pass nil.
StampsResolvedAt(op) == op = "Resolve"

\* The parts of workflowRequest the handlers act on, with the tenant of the
\* request's context and the discrepancy of its URL.  expected_sequence is a
\* JSON number that int64() truncates; it is kept here truncated.
Call == [op: Ops, tenant: Tenants, disc: Discs,
         expected: ExpectedSequences \cup {NoValue}]

PCs == {"idle", "check", "read", "update", "append", "commit",
        "noteGet", "noteAppend", "done"}

\* bad is 400, notfound 404, conflict and invalid are both 409.  error is 500,
\* or no answer at all: the client went away or the process died.
Responses == {"none", "ok", "bad", "conflict", "notfound", "invalid", "error"}

\* The request was well-formed and a handler is working on it.
Served(r) == pc[r] \notin {"idle", "done"}

RequestTypeOK ==
    /\ pc \in [Requests -> PCs]
    /\ call \in [Requests -> Call \cup {NoValue}]
    /\ \A r \in Requests : Served(r) => call[r] \in Call
    /\ seen \in [Requests -> Statuses \cup {"absent"}]
    /\ mine \in [Requests -> Nat]
    /\ resp \in [Requests -> Responses]

\* Every variable has its type.
TypeOK == StoreTypeOK /\ RequestTypeOK

RequestInit ==
    /\ pc = [r \in Requests |-> "idle"]
    /\ call = [r \in Requests |-> NoValue]
    /\ seen = [r \in Requests |-> "absent"]
    /\ mine = [r \in Requests |-> 0]
    /\ resp = [r \in Requests |-> "none"]

Goto(r, label) == pc' = [pc EXCEPT ![r] = label]

\* Respond and stop.
Answer(r, answer) ==
    /\ Goto(r, "done")
    /\ resp' = [resp EXCEPT ![r] = answer]

--------------------------------------------------------------------------------
\* Mutant: a transaction that is never ended keeps its lock.
UnlockForgotten(r) == UNCHANGED lock

\* The row lock of an ended transaction is released, in whatever way it ends.
Unlock(r) ==
    lock' = [lock EXCEPT ![call[r].disc] = IF @ = r THEN NoOne ELSE @]

\* Mutant: the handler goes on after it has answered 400.
ParseRequestGoesOn(r) ==
    /\ pc[r] = "idle"
    /\ resp' = [resp EXCEPT ![r] = "bad"]
    /\ Goto(r, "check")
    /\ UNCHANGED <<storeVars, call, seen, mine>>

\* parseTenantAndDiscrepancy, decodeWorkflowRequest and the required fields
\* of the handler refuse the request, or pass it on with its parameters.
ParseRequest(r) ==
    /\ pc[r] = "idle"
    /\ \/ Answer(r, "bad") /\ UNCHANGED call
       \/ /\ \E c \in Call : call' = [call EXCEPT ![r] = c]
          /\ Goto(r, "check")
          /\ UNCHANGED resp
    /\ UNCHANGED <<storeVars, seen, mine>>

\* checkOptimisticLock: compares MAX(sequence_num) with the expectation, on a
\* connection of its own, before the transaction begins.
CheckOptimisticLock(r) ==
    LET c == call[r]
        passed == c.expected \in {NoValue, GetLatestSequence(c.tenant, c.disc)}
    IN  /\ pc[r] = "check"
        /\ \/ /\ passed
              /\ Goto(r, IF c.op = "AddNote" THEN "noteGet" ELSE "read")
              /\ UNCHANGED resp
           \/ ~passed /\ Answer(r, "conflict")
        /\ UNCHANGED <<storeVars, call, seen, mine>>

\* Mutant: the state machine is not asked.
ReadWithoutVerdict(r) ==
    /\ pc[r] = "read"
    /\ Owns(call[r].tenant, call[r].disc)
    /\ seen' = [seen EXCEPT ![r] = rows[call[r].disc].status]
    /\ Goto(r, "update")
    /\ UNCHANGED <<storeVars, call, mine, resp>>

\* executeTransition up to the verdict: Begin, GetByIDWith, ValidTransition.
ReadAndValidate(r) ==
    LET c == call[r]
        status == rows[c.disc].status
    IN  /\ pc[r] = "read"
        /\ \/ ~Owns(c.tenant, c.disc) /\ Answer(r, "notfound") /\ UNCHANGED seen
           \/ /\ Owns(c.tenant, c.disc)
              /\ ~ValidTransition(status, TargetOf(c.op))
              /\ Answer(r, "invalid")
              /\ UNCHANGED seen
           \/ /\ Owns(c.tenant, c.disc)
              /\ ValidTransition(status, TargetOf(c.op))
              /\ seen' = [seen EXCEPT ![r] = status]
              /\ Goto(r, "update")
              /\ UNCHANGED resp
        /\ UNCHANGED <<storeVars, call, mine>>

\* Mutant: the UPDATE comes after the INSERT, so that the event is numbered before
\* the row is locked.
UpdateAfterAppend(r) ==
    /\ pc[r] = "update"
    /\ Goto(r, "append")
    /\ UNCHANGED <<storeVars, call, seen, mine, resp>>

\* UpdateStatusWith in the transaction: waits for the row lock and takes it.
\* The new row stays private until the commit.
UpdateStatusWith(r) ==
    /\ pc[r] = "update"
    /\ lock[call[r].disc] = NoOne
    /\ lock' = [lock EXCEPT ![call[r].disc] = r]
    /\ Goto(r, "append")
    /\ UNCHANGED <<rows, events, nextSeq, call, seen, mine, resp>>

\* AppendWith in the transaction: the event gets its number now, and is
\* visible to the others only after the commit.
AppendWith(r) ==
    /\ pc[r] = "append"
    /\ mine' = [mine EXCEPT ![r] = nextSeq]
    /\ nextSeq' = nextSeq + 1
    /\ Goto(r, "commit")
    /\ UNCHANGED <<rows, events, lock, call, seen, resp>>

\* tx.Commit: the private row and event become visible together.  The commit
\* may succeed although the caller sees it fail (its context ended while the
\* database worked on it): the answer is then an error.
Commit(r) ==
    LET c == call[r]
    IN  /\ pc[r] = "commit"
        /\ rows' = [rows EXCEPT ![c.disc] =
                       UpdatedRow(@, TargetOf(c.op), StampsResolvedAt(c.op))]
        /\ events' = events \cup
              {NewLedgerEvent(mine[r], c.tenant, c.disc, EventOf[c.op], "user")}
        /\ Unlock(r)
        /\ \E answer \in {"ok", "error"} : Answer(r, answer)
        /\ UNCHANGED <<nextSeq, call, seen, mine>>

\* AddNote's GetByID.
NoteGetByID(r) ==
    LET c == call[r]
    IN  /\ pc[r] = "noteGet"
        /\ \/ Owns(c.tenant, c.disc) /\ Goto(r, "noteAppend") /\ UNCHANGED resp
           \/ ~Owns(c.tenant, c.disc) /\ Answer(r, "notfound")
        /\ UNCHANGED <<storeVars, call, seen, mine>>

\* AddNote's Append on the pool.  As for a commit, the insert may take effect
\* although the caller is told it failed, or is told nothing.
NoteAppend(r) ==
    LET c == call[r]
    IN  /\ pc[r] = "noteAppend"
        /\ AppendEvent(c.tenant, c.disc, "note_added", "user")
        /\ mine' = [mine EXCEPT ![r] = nextSeq]
        /\ \E answer \in {"ok", "error"} : Answer(r, answer)
        /\ UNCHANGED <<rows, lock, call, seen>>

\* Mutant: the error of tx.Commit is ignored.
AbortUnnoticed(r) ==
    /\ pc[r] = "commit"
    /\ Unlock(r)
    /\ Answer(r, "ok")
    /\ UNCHANGED <<rows, events, nextSeq, call, seen, mine>>

\* A statement fails, the client disconnects or the process dies: the deferred
\* Rollback, or the database on losing the connection, discards the
\* transaction.  GetByIDWith and GetByID answer not found for every error.
Abort(r) ==
    /\ pc[r] \in {"check", "read", "update", "append", "commit",
                  "noteGet", "noteAppend"}
    /\ Unlock(r)
    /\ \/ Answer(r, "error")
       \/ pc[r] \in {"read", "noteGet"} /\ Answer(r, "notfound")
    /\ UNCHANGED <<rows, events, nextSeq, call, seen, mine>>

--------------------------------------------------------------------------------
(* Ingestion beside the handlers.                                          *)

IngestCreate(d) == IntakeCreate(d) /\ UNCHANGED requestVars

IngestReceived(d) == IntakeReceived(d) /\ UNCHANGED requestVars

--------------------------------------------------------------------------------
\* What the server does with request r once it has parsed it.
Serve(r) ==
    \/ CheckOptimisticLock(r)
    \/ ReadAndValidate(r)
    \/ UpdateStatusWith(r)
    \/ AppendWith(r)
    \/ Commit(r)
    \/ NoteGetByID(r)
    \/ NoteAppend(r)

RequestNext(r) == ParseRequest(r) \/ Serve(r) \/ Abort(r)

Init == StoreInit /\ RequestInit

Next ==
    \/ \E r \in Requests : RequestNext(r)
    \/ \E d \in Discs : IngestCreate(d) \/ IngestReceived(d)

\* The Go scheduler runs every goroutine and the database answers every
\* statement; nothing obliges a client to send a request, an error to occur or
\* a discrepancy to arrive.
Fairness == \A r \in Requests : WF_vars(Serve(r))

Spec == Init /\ [][Next]_vars
FairSpec == Spec /\ Fairness

--------------------------------------------------------------------------------
(* Properties.                                                             *)

\* The row never contradicts the audit trail: its status and its resolved_at
\* are those of the highest-numbered status event committed for it, or those of
\* a new row if there is none.  Races may lose an update (see
\* TerminalStatesAreFinal), rollbacks and lost answers may leave gaps in the
\* numbering, yet row and trail agree, because executeTransition numbers its
\* event while it holds the row lock.
RowIsProjection ==
    \A d \in Discs :
        \/ /\ StatusEvents(d) = {}
           /\ rows[d].status \in {"absent", "open"}
           /\ ~rows[d].resolvedAt
        \/ \E e \in StatusEvents(d) :
              /\ \A f \in StatusEvents(d) : f.seq <= e.seq
              /\ RowMatches(rows[d], e.type)

\* Every change on record was allowed from a status the discrepancy had on
\* record before it, at a smaller sequence number: no resolution without an
\* investigation, no investigation without an acknowledgement, even when the
\* status a handler validated was overwritten before it committed.
TransitionsJustified ==
    \A d \in Discs : \A e \in StatusEvents(d) :
        \E from \in Statuses :
            /\ ValidTransition(from, TargetStatus[e.type])
            /\ \/ from = "open"
               \/ \E f \in StatusEvents(d) : /\ f.seq < e.seq
                                             /\ TargetStatus[f.type] = from

\* Answers and ledger agree: a request answered 200 or 201 has its event in the
\* ledger, and a user event is that of exactly one request, which was not told
\* that it was refused.
EventsTraceable ==
    /\ \A r \in Requests : resp[r] = "ok" =>
          NewLedgerEvent(mine[r], call[r].tenant, call[r].disc,
                         EventOf[call[r].op], "user") \in events
    /\ \A e \in events : e.actorType = "user" =>
          \E r \in Requests :
             /\ {q \in Requests : mine[q] = e.seq} = {r}
             /\ resp[r] \in {"ok", "error"}

\* Whatever tenant a request runs under, it leaves events only on
\* discrepancies of that tenant.
TenantIsolation == \A e \in events : e.tenant = tenantOf[e.disc]

\* Every well-formed request is answered or dropped: no handler waits forever,
\* for the row lock in particular.
EveryRequestEnds == \A r \in Requests : pc[r] = "check" ~> pc[r] = "done"

\* The audit trail as an auditor sees it.
StatusView == [d \in Discs |-> rows[d].status]
TrailEntry(e) ==
    [disc |-> e.disc, seq |-> e.seq, to |-> TargetStatus[e.type]]
TrailView ==
    {TrailEntry(e) : e \in {f \in events : f.type \in StatusEventTypes}}

Trail == INSTANCE AuditTrail WITH status <- StatusView, trail <- TrailView

\* The endpoints implement the abstract audit trail: a status changes in the
\* very step that makes its event visible, in the order of the numbers.
ImplementsAuditTrail == Trail!TrailSpec

--------------------------------------------------------------------------------
(* What the repository says and the endpoints do not guarantee.            *)

\* discrepancy.go: "resolved and auto_closed are terminal states - no
\* transitions out."
TerminalStatesAreFinal ==
    [][\A d \in Discs : rows[d].status \in TerminalStatuses =>
                            rows'[d].status = rows[d].status]_vars

\* Optimistic locking: of the requests that expect the same sequence of a
\* discrepancy, at most one succeeds.
OneWinnerPerSequence ==
    \A r, q \in Requests :
        /\ resp[r] = "ok" /\ resp[q] = "ok"
        /\ call[r].disc = call[q].disc
        /\ call[r].expected = call[q].expected
        /\ call[r].expected # NoValue
        => r = q
================================================================================
