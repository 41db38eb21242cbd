---------------------------- MODULE WorkflowProofs -----------------------------
(***************************************************************************)
(* Theorems about the workflow endpoints, for any set of requests,         *)
(* discrepancies and tenants.                                              *)
(***************************************************************************)
EXTENDS Workflow, TLAPS

\* The status request r validated is on record, below the number of its event
\* if it already has one, and the state machine allows the change.
ReadOnRecord(r) ==
    LET c == call[r]
    IN  /\ ValidTransition(seen[r], TargetOf(c.op))
        /\ \/ seen[r] = "open"
           \/ \E f \in StatusEvents(c.disc) :
                 /\ TargetStatus[f.type] = seen[r]
                 /\ pc[r] = "commit" => f.seq < mine[r]

\* What is true of a request at each point of its handler, whoever else writes:
\* it owns the row it is to write, holds its lock from the UPDATE to the end,
\* and has a number of its own.
HandlerInv(r) ==
    /\ mine[r] < nextSeq
    /\ pc[r] \in {"read", "update", "append", "commit"} =>
          call[r].op # "AddNote"
    /\ pc[r] \in {"update", "append", "commit", "noteAppend"} =>
          Owns(call[r].tenant, call[r].disc)
    /\ pc[r] \in {"append", "commit"} => lock[call[r].disc] = r
    /\ pc[r] = "commit" => mine[r] > 0

\* ... and, while only the endpoints write: what it read is on record, and its
\* number is the highest of its discrepancy when it commits.
RequestInv(r) ==
    /\ HandlerInv(r)
    /\ pc[r] \in {"update", "append", "commit"} => ReadOnRecord(r)
    /\ pc[r] = "commit" =>
          \A e \in StatusEvents(call[r].disc) : e.seq < mine[r]

Numbered == \A e \in events : e.seq < nextSeq

\* The inductive invariant.
IInv ==
    /\ TypeOK
    /\ Numbered
    /\ \A r \in Requests : RequestInv(r)
    /\ RowIsProjection
    /\ TransitionsJustified
    /\ TenantIsolation

--------------------------------------------------------------------------------
(* The operators the handlers are built from.                              *)

\* The transitions the endpoints ask for lead to a status, are recorded by an
\* event that stands for it, and stamp resolved_at just for a terminal one.
LEMMA TransitionTargets ==
    ASSUME NEW op \in Ops, op # "AddNote"
    PROVE  /\ EventOf[op] \in StatusEventTypes
           /\ TargetOf(op) \in Statuses
           /\ StampsResolvedAt(op) <=> TargetOf(op) \in TerminalStatuses
    BY DEF Ops, EventOf, TargetOf, TargetStatus, StatusEventTypes, EventTypes,
           Statuses, StampsResolvedAt, TerminalStatuses

\* Every operation has an event type.
LEMMA EventTypesOfOps == ASSUME NEW op \in Ops PROVE EventOf[op] \in EventTypes
    BY DEF Ops, EventOf, EventTypes

\* A change of columns keeps a row a row.
LEMMA RowTypes ==
    ASSUME NEW row \in Row, NEW status \in Statuses, NEW stamp \in BOOLEAN
    PROVE  /\ UpdatedRow(row, status, stamp) \in Row
           /\ UpdatedRow(row, status, stamp).status = status
           /\ UpdatedRow(row, status, stamp).resolvedAt = stamp
    BY DEF Row, UpdatedRow

--------------------------------------------------------------------------------
(* Type correctness.                                                       *)

\* The parameters of a request that is being served are well-formed.
LEMMA ServedCalls ==
    ASSUME TypeOK, NEW r \in Requests, Served(r)
    PROVE  /\ call[r] \in Call
           /\ call[r].op \in Ops
           /\ call[r].tenant \in Tenants
           /\ call[r].disc \in Discs
    BY DEF TypeOK, RequestTypeOK, Call

\* A step keeps every variable's type.
LEMMA TypeStep ==
    ASSUME TypeOK, \A r \in Requests : HandlerInv(r), [Next]_vars
    PROVE  TypeOK'
<1> USE DEF TypeOK, RequestTypeOK, PCs, Responses, Goto, Answer
<1>1. ASSUME NEW r \in Requests, ParseRequest(r) PROVE TypeOK'
    BY <1>1 DEF ParseRequest, storeVars, StoreTypeOK, Served
<1>2. ASSUME NEW r \in Requests, CheckOptimisticLock(r) PROVE TypeOK'
    BY <1>2 DEF CheckOptimisticLock, storeVars, StoreTypeOK, Served
<1>3. ASSUME NEW r \in Requests, ReadAndValidate(r) PROVE TypeOK'
  <2>1. Served(r)
    BY <1>3 DEF ReadAndValidate, Served
  <2>2. rows[call[r].disc].status \in Statuses \cup {"absent"}
    BY <2>1, ServedCalls DEF StoreTypeOK, Row
  <2>3. CASE seen' = seen
    BY <1>3, <2>3 DEF ReadAndValidate, storeVars, StoreTypeOK, Served
  <2>4. CASE seen' = [seen EXCEPT ![r] = rows[call[r].disc].status]
    BY <1>3, <2>2, <2>4 DEF ReadAndValidate, storeVars, StoreTypeOK, Served
  <2> QED BY <1>3, <2>3, <2>4 DEF ReadAndValidate
<1>4. ASSUME NEW r \in Requests, UpdateStatusWith(r) PROVE TypeOK'
  <2>1. call[r].disc \in Discs
    BY <1>4, ServedCalls DEF UpdateStatusWith, Served
  <2> QED BY <1>4, <2>1, RequestAssumption
          DEF UpdateStatusWith, StoreTypeOK, Served
<1>5. ASSUME NEW r \in Requests, AppendWith(r) PROVE TypeOK'
    BY <1>5 DEF AppendWith, StoreTypeOK, Served
<1>6. ASSUME NEW r \in Requests, Commit(r) PROVE TypeOK'
  <2> DEFINE c == call[r]
  <2>1. /\ c.op \in Ops /\ c.tenant \in Tenants /\ c.disc \in Discs
        /\ c.op # "AddNote" /\ mine[r] \in Nat \ {0}
    BY <1>6, ServedCalls DEF Commit, Served, HandlerInv
  <2>2. UpdatedRow(rows[c.disc], TargetOf(c.op), StampsResolvedAt(c.op)) \in Row
    BY <2>1, TransitionTargets, RowTypes DEF StoreTypeOK, StampsResolvedAt
  <2>3. NewLedgerEvent(mine[r], c.tenant, c.disc, EventOf[c.op], "user")
           \in LedgerEvent
    BY <2>1, EventTypesOfOps DEF NewLedgerEvent, LedgerEvent, ActorTypes
  <2>4. lock' \in [Discs -> Writers \cup {NoOne}]
    BY <1>6, <2>1 DEF Commit, Unlock, StoreTypeOK
  <2>5. StoreTypeOK'
    BY <1>6, <2>2, <2>3, <2>4 DEF Commit, StoreTypeOK
  <2> QED BY <1>6, <2>5 DEF Commit, Served
<1>7. ASSUME NEW r \in Requests, NoteGetByID(r) PROVE TypeOK'
    BY <1>7 DEF NoteGetByID, storeVars, StoreTypeOK, Served
<1>8. ASSUME NEW r \in Requests, NoteAppend(r) PROVE TypeOK'
  <2> DEFINE c == call[r]
  <2>1. c.tenant \in Tenants /\ c.disc \in Discs
    BY <1>8, ServedCalls DEF NoteAppend, Served
  <2>2. NewLedgerEvent(nextSeq, c.tenant, c.disc, "note_added", "user")
           \in LedgerEvent
    BY <2>1 DEF StoreTypeOK, NewLedgerEvent, LedgerEvent, EventTypes, ActorTypes
  <2>3. StoreTypeOK'
    BY <1>8, <2>2 DEF NoteAppend, AppendEvent, StoreTypeOK
  <2> QED BY <1>8, <2>3 DEF NoteAppend, Served, StoreTypeOK
<1>9. ASSUME NEW r \in Requests, Abort(r) PROVE TypeOK'
  <2>1. call[r].disc \in Discs
    BY <1>9, ServedCalls DEF Abort, Served
  <2>2. lock' \in [Discs -> Writers \cup {NoOne}]
    BY <1>9, <2>1 DEF Abort, Unlock, StoreTypeOK
  <2> QED BY <1>9, <2>2 DEF Abort, Served, StoreTypeOK
<1>10. ASSUME NEW d \in Discs, IngestCreate(d) PROVE TypeOK'
  <2>1. PICK s \in IngestedSeverities : Create(d, s)
    BY <1>10 DEF IngestCreate, IntakeCreate
  <2>2. [status |-> "open", severity |-> s, resolvedAt |-> FALSE] \in Row
    BY SeverityAssumption DEF Row, Statuses
  <2>3. rows' \in [Discs -> Row]
    BY <2>1, <2>2 DEF Create, StoreTypeOK
  <2> QED BY <1>10, <2>3 DEF IngestCreate, IntakeCreate, requestVars, StoreTypeOK, Served
<1>11. ASSUME NEW d \in Discs, IngestReceived(d) PROVE TypeOK'
  <2>1. NewLedgerEvent(nextSeq, tenantOf[d], d, "received", "system")
           \in LedgerEvent
    BY TenantAssumption
       DEF StoreTypeOK, NewLedgerEvent, LedgerEvent, EventTypes, ActorTypes
  <2>2. StoreTypeOK'
    BY <1>11, <2>1 DEF IngestReceived, IntakeReceived, AppendEvent, StoreTypeOK
  <2> QED BY <1>11, <2>2 DEF IngestReceived, IntakeReceived, requestVars, Served
<1>12. CASE UNCHANGED vars
    BY <1>12 DEF vars, StoreTypeOK, Served
<1> QED BY <1>1, <1>2, <1>3, <1>4, <1>5, <1>6, <1>7, <1>8, <1>9, <1>10, <1>11,
          <1>12 DEF Next, RequestNext, Serve

--------------------------------------------------------------------------------
(* The inductive invariant.                                                *)

\* A step that neither writes a row, adds an event nor takes a number keeps
\* what the invariant says of the tables.
LEMMA QuietStep ==
    ASSUME IInv, UNCHANGED <<rows, events>>, nextSeq' \in Nat,
           nextSeq' >= nextSeq
    PROVE  (Numbered /\ RowIsProjection /\ TransitionsJustified
              /\ TenantIsolation)'
<1>1. \A d \in Discs : StatusEvents(d)' = StatusEvents(d)
    BY DEF StatusEvents
<1>2. Numbered'
    BY DEF IInv, Numbered, TypeOK, StoreTypeOK, LedgerEvent
<1> QED BY <1>1, <1>2 DEF IInv, RowIsProjection, TransitionsJustified,
          TenantIsolation, RowMatches

\* What the invariant says of a request survives the steps of the others, as
\* long as they add only events, leave it its lock, and commit no status event
\* on its discrepancy between its INSERT and its COMMIT.
LEMMA OtherRequest ==
    ASSUME IInv, NEW q \in Requests,
           pc'[q] = pc[q], call'[q] = call[q], seen'[q] = seen[q],
           mine'[q] = mine[q],
           nextSeq' \in Nat, nextSeq' >= nextSeq,
           events \subseteq events',
           \A d \in Discs : rows[d].status # "absent" =>
                                rows'[d].status # "absent",
           pc[q] \in {"append", "commit"} => lock'[call[q].disc] = q,
           pc[q] = "commit" =>
              \A e \in StatusEvents(call[q].disc)' : e.seq < mine[q]
    PROVE  RequestInv(q)'
<1> USE DEF IInv
<1>1. RequestInv(q) /\ mine[q] \in Nat /\ nextSeq \in Nat
    BY DEF TypeOK, RequestTypeOK, StoreTypeOK
<1>2. Served(q) => call[q].disc \in Discs
    BY ServedCalls
<1>3. mine'[q] < nextSeq'
    BY <1>1 DEF RequestInv, HandlerInv
<1>4. pc[q] \in {"update", "append", "commit", "noteAppend"} =>
          Owns(call[q].tenant, call[q].disc)'
    BY <1>1, <1>2 DEF RequestInv, HandlerInv, Owns, Served
<1>5. ReadOnRecord(q) => ReadOnRecord(q)'
    BY DEF ReadOnRecord, StatusEvents
<1> QED BY <1>1, <1>3, <1>4, <1>5 DEF RequestInv, HandlerInv

\* A committed status event, numbered above those before it and justified by
\* one of them, leaves row and trail in agreement.
LEMMA StatusEventAdded ==
    ASSUME IInv, TypeOK', NEW ev \in LedgerEvent,
           ev.type \in StatusEventTypes,
           events' = events \cup {ev},
           \A d \in Discs : d # ev.disc => rows'[d] = rows[d],
           RowMatches(rows'[ev.disc], ev.type),
           \A e \in StatusEvents(ev.disc) : e.seq < ev.seq,
           \E from \in Statuses :
              /\ ValidTransition(from, TargetStatus[ev.type])
              /\ \/ from = "open"
                 \/ \E f \in StatusEvents(ev.disc) :
                        f.seq < ev.seq /\ TargetStatus[f.type] = from
    PROVE  RowIsProjection' /\ TransitionsJustified'
<1> USE DEF IInv
<1>0. ev.disc \in Discs /\ ev.seq \in Nat
    BY DEF LedgerEvent
<1>1. StatusEvents(ev.disc)' = StatusEvents(ev.disc) \cup {ev}
    BY DEF StatusEvents
<1>2. \A d \in Discs : d # ev.disc => StatusEvents(d)' = StatusEvents(d)
    BY DEF StatusEvents
<1>3. \A e \in events : e.seq \in Nat
    BY DEF TypeOK, StoreTypeOK, LedgerEvent
<1>4. RowIsProjection'
  <2>1. \E e \in StatusEvents(ev.disc)' :
           /\ \A f \in StatusEvents(ev.disc)' : f.seq <= e.seq
           /\ RowMatches(rows[ev.disc], e.type)'
    <3>1. \A f \in StatusEvents(ev.disc)' : f.seq <= ev.seq
      BY <1>0, <1>1, <1>3 DEF StatusEvents
    <3> QED BY <1>1, <3>1
  <2>2. \A d \in Discs : d # ev.disc =>
           \/ /\ StatusEvents(d)' = {}
              /\ rows'[d].status \in {"absent", "open"}
              /\ ~rows'[d].resolvedAt
           \/ \E e \in StatusEvents(d)' :
                 /\ \A f \in StatusEvents(d)' : f.seq <= e.seq
                 /\ RowMatches(rows'[d], e.type)
    BY <1>2 DEF RowIsProjection
  <2> QED BY <2>1, <2>2 DEF RowIsProjection
<1>5. TransitionsJustified'
  <2> SUFFICES ASSUME NEW d \in Discs, NEW e \in StatusEvents(d)'
               PROVE  \E from \in Statuses :
                         /\ ValidTransition(from, TargetStatus[e.type])
                         /\ \/ from = "open"
                            \/ \E f \in StatusEvents(d)' :
                                  /\ f.seq < e.seq
                                  /\ TargetStatus[f.type] = from
    BY DEF TransitionsJustified
  <2>1. CASE e \in StatusEvents(d)
    BY <2>1, <1>1, <1>2 DEF TransitionsJustified
  <2>2. CASE e \notin StatusEvents(d)
    BY <2>2, <1>1, <1>2
  <2> QED BY <2>1, <2>2
<1> QED BY <1>4, <1>5

\* An event that is not about the status changes nothing for row and trail.
LEMMA OtherEventAdded ==
    ASSUME IInv, NEW ev, ev.type \notin StatusEventTypes,
           events' = events \cup {ev}, UNCHANGED rows
    PROVE  /\ RowIsProjection' /\ TransitionsJustified'
           /\ \A d : StatusEvents(d)' = StatusEvents(d)
<1>1. \A d : StatusEvents(d)' = StatusEvents(d)
    BY DEF StatusEvents
<1> QED BY <1>1 DEF IInv, RowIsProjection, TransitionsJustified, RowMatches

\* The event a commit makes visible.
CommittedEvent(r) ==
    NewLedgerEvent(mine[r], call[r].tenant, call[r].disc, EventOf[call[r].op],
                   "user")

\* What is known of a request that is about to commit.
LEMMA CommitReady ==
    ASSUME IInv, NEW r \in Requests, Commit(r)
    PROVE  /\ call[r].op \in Ops \ {"AddNote"} /\ call[r].tenant \in Tenants
           /\ call[r].disc \in Discs /\ mine[r] \in Nat \ {0}
           /\ mine[r] < nextSeq /\ Owns(call[r].tenant, call[r].disc)
           /\ ReadOnRecord(r) /\ pc[r] = "commit"
           /\ lock[call[r].disc] = r
           /\ \A e \in StatusEvents(call[r].disc) : e.seq < mine[r]
    BY ServedCalls
       DEF IInv, Commit, Served, RequestInv, HandlerInv, TypeOK, RequestTypeOK

\* What a commit does, in terms of the event it makes visible.
LEMMA CommitWrites ==
    ASSUME TypeOK, NEW r \in Requests, HandlerInv(r), Commit(r)
    PROVE  LET c == call[r]
               ev == CommittedEvent(r)
           IN  /\ ev \in LedgerEvent /\ ev.type \in StatusEventTypes
               /\ ev.seq = mine[r] /\ ev.tenant = c.tenant /\ ev.disc = c.disc
               /\ ev.type = EventOf[c.op] /\ ev.actorType = "user"
               /\ events' = events \cup {ev}
               /\ \A d \in Discs \ {c.disc} : rows'[d] = rows[d]
               /\ RowMatches(rows'[c.disc], ev.type)
               /\ rows'[c.disc].status # "absent"
               /\ nextSeq' = nextSeq /\ call' = call /\ seen' = seen
               /\ mine' = mine
               /\ pc' = [pc EXCEPT ![r] = "done"]
               /\ lock' = [lock EXCEPT ![c.disc] = NoOne]
<1> DEFINE c == call[r]
           ev == CommittedEvent(r)
<1>0. /\ c.op \in Ops \ {"AddNote"} /\ c.tenant \in Tenants /\ c.disc \in Discs
      /\ mine[r] \in Nat \ {0} /\ lock[c.disc] = r
    BY ServedCalls
       DEF Commit, Served, HandlerInv, TypeOK, RequestTypeOK
<1>1. /\ ev.seq = mine[r] /\ ev.tenant = c.tenant /\ ev.disc = c.disc
      /\ ev.type = EventOf[c.op] /\ ev.type \in StatusEventTypes
      /\ ev \in LedgerEvent /\ ev.actorType = "user"
    BY <1>0, EventTypesOfOps, TransitionTargets
       DEF CommittedEvent, NewLedgerEvent, LedgerEvent, ActorTypes
<1>2. /\ events' = events \cup {ev}
      /\ rows' = [rows EXCEPT ![c.disc] = UpdatedRow(rows[c.disc],
                     TargetOf(c.op), StampsResolvedAt(c.op))]
      /\ nextSeq' = nextSeq /\ call' = call /\ seen' = seen /\ mine' = mine
      /\ pc' = [pc EXCEPT ![r] = "done"]
      /\ lock' = [lock EXCEPT ![c.disc] = NoOne]
    BY <1>0 DEF Commit, CommittedEvent, Answer, Goto, Unlock
<1>3. RowMatches(rows'[c.disc], ev.type) /\ rows'[c.disc].status # "absent"
  <2>1. /\ rows'[c.disc].status = TargetOf(c.op)
        /\ rows'[c.disc].resolvedAt = StampsResolvedAt(c.op)
    <3>1. /\ c.disc \in Discs /\ rows[c.disc] \in Row
          /\ TargetOf(c.op) \in Statuses /\ StampsResolvedAt(c.op) \in BOOLEAN
      BY <1>0, TransitionTargets
         DEF StampsResolvedAt, TypeOK, StoreTypeOK
    <3>2. rows'[c.disc] = UpdatedRow(rows[c.disc], TargetOf(c.op),
                                     StampsResolvedAt(c.op))
      BY <1>2, <3>1 DEF TypeOK, StoreTypeOK
    <3> QED BY <3>1, <3>2, RowTypes
  <2> QED BY <1>1, <2>1, <1>0, TransitionTargets
             DEF RowMatches, TargetOf, Statuses
<1>4. \A d \in Discs \ {c.disc} : rows'[d] = rows[d]
    BY <1>2 DEF TypeOK, StoreTypeOK
<1> QED BY <1>1, <1>2, <1>3, <1>4

\* It is justified by what the request read.
LEMMA CommitEffect ==
    ASSUME IInv, NEW r \in Requests, Commit(r)
    PROVE  LET c == call[r]
               ev == CommittedEvent(r)
           IN  /\ ev \in LedgerEvent /\ ev.type \in StatusEventTypes
               /\ ev.seq = mine[r] /\ ev.tenant = c.tenant /\ ev.disc = c.disc
               /\ events' = events \cup {ev}
               /\ \A d \in Discs \ {c.disc} : rows'[d] = rows[d]
               /\ RowMatches(rows'[c.disc], ev.type)
               /\ rows'[c.disc].status # "absent"
               /\ nextSeq' = nextSeq /\ call' = call /\ seen' = seen
               /\ mine' = mine
               /\ pc' = [pc EXCEPT ![r] = "done"]
               /\ lock' = [lock EXCEPT ![c.disc] = NoOne]
               /\ \E from \in Statuses :
                     /\ ValidTransition(from, TargetStatus[ev.type])
                     /\ \/ from = "open"
                        \/ \E f \in StatusEvents(ev.disc) :
                              f.seq < ev.seq /\ TargetStatus[f.type] = from
<1> DEFINE c == call[r]
           ev == CommittedEvent(r)
<1>1. /\ TypeOK /\ HandlerInv(r)
      /\ ev.seq = mine[r] /\ ev.disc = c.disc /\ ev.type = EventOf[c.op]
    BY CommitWrites DEF IInv, RequestInv
<1>2. \E from \in Statuses :
         /\ ValidTransition(from, TargetStatus[ev.type])
         /\ \/ from = "open"
            \/ \E f \in StatusEvents(ev.disc) :
                   f.seq < ev.seq /\ TargetStatus[f.type] = from
  <2>1. seen[r] \in Statuses
    BY CommitReady DEF ReadOnRecord, ValidTransition, validTransitions, Statuses
  <2> QED BY <1>1, <2>1, CommitReady DEF ReadOnRecord, TargetOf
<1> QED BY <1>1, <1>2, CommitWrites

\* Every step preserves the inductive invariant.
LEMMA InvariantStep == IInv /\ [Next]_vars => IInv'
<1> SUFFICES ASSUME IInv, [Next]_vars PROVE IInv'
    OBVIOUS
<1> USE DEF IInv
<1>0. TypeOK /\ TypeOK' /\ \A r \in Requests : RequestInv(r)
    BY TypeStep DEF RequestInv
<1>a. nextSeq \in Nat
    BY DEF TypeOK, StoreTypeOK
<1>b. ASSUME NEW r \in Requests, UNCHANGED <<rows, events, nextSeq>>,
             RequestInv(r)',
             \A q \in Requests \ {r} :
                /\ pc'[q] = pc[q] /\ call'[q] = call[q] /\ seen'[q] = seen[q]
                /\ mine'[q] = mine[q]
                /\ pc[q] \in {"append", "commit"} => lock'[call[q].disc] = q
      PROVE  IInv'
  <2>1. (Numbered /\ RowIsProjection /\ TransitionsJustified
           /\ TenantIsolation)'
    BY <1>a, <1>b, QuietStep
  <2>2. ASSUME NEW q \in Requests \ {r} PROVE RequestInv(q)'
    <3>1. pc[q] = "commit" =>
             \A e \in StatusEvents(call[q].disc)' : e.seq < mine[q]
      BY <1>0, <1>b DEF RequestInv, HandlerInv, StatusEvents
    <3> QED BY <1>a, <1>b, <3>1, OtherRequest
  <2> QED BY <1>0, <1>b, <2>1, <2>2
<1>1. ASSUME NEW r \in Requests, ParseRequest(r) PROVE IInv'
  <2>1. RequestInv(r)'
    BY <1>0, <1>1 DEF ParseRequest, RequestInv, HandlerInv, Goto, Answer, storeVars,
                      TypeOK, RequestTypeOK
  <2> QED BY <1>0, <1>1, <1>b, <2>1 DEF ParseRequest, RequestInv, HandlerInv, Goto, Answer,
             storeVars, TypeOK, RequestTypeOK
<1>2. ASSUME NEW r \in Requests, CheckOptimisticLock(r) PROVE IInv'
  <2>1. RequestInv(r)'
    BY <1>0, <1>2 DEF CheckOptimisticLock, RequestInv, HandlerInv, Goto, Answer, storeVars,
                      TypeOK, RequestTypeOK
  <2> QED BY <1>0, <1>2, <1>b, <2>1 DEF CheckOptimisticLock, RequestInv, HandlerInv, Goto,
             Answer, storeVars, TypeOK, RequestTypeOK
<1>3. ASSUME NEW r \in Requests, ReadAndValidate(r) PROVE IInv'
  <2> DEFINE c == call[r]
             status == rows[c.disc].status
  <2>1. c.disc \in Discs /\ c.op \in Ops /\ c.op # "AddNote"
    BY <1>0, <1>3, ServedCalls DEF ReadAndValidate, Served, RequestInv, HandlerInv
  <2>2. CASE /\ Owns(c.tenant, c.disc)
             /\ ValidTransition(status, TargetOf(c.op))
             /\ seen' = [seen EXCEPT ![r] = status]
             /\ Goto(r, "update")
    <3>1. seen'[r] = status /\ pc'[r] = "update"
      BY <2>2 DEF Goto, TypeOK, RequestTypeOK
    <3>2. \/ status = "open"
          \/ \E f \in StatusEvents(c.disc) : TargetStatus[f.type] = status
      BY <2>1, <2>2 DEF RowIsProjection, RowMatches, Owns
    <3>3. ReadOnRecord(r)'
      BY <1>3, <2>2, <3>1, <3>2
         DEF ReadAndValidate, storeVars, ReadOnRecord, StatusEvents
    <3>4. RequestInv(r)'
      BY <1>0, <1>3, <2>1, <2>2, <3>1, <3>3
         DEF ReadAndValidate, storeVars, RequestInv, HandlerInv, Owns
    <3> QED BY <1>0, <1>3, <1>b, <2>2, <3>4 DEF ReadAndValidate, RequestInv, HandlerInv,
               Goto, storeVars, TypeOK, RequestTypeOK
  <2>3. CASE \E answer \in {"notfound", "invalid"} :
                Answer(r, answer) /\ UNCHANGED seen
    <3>1. RequestInv(r)'
      BY <1>0, <1>3, <2>3 DEF ReadAndValidate, RequestInv, HandlerInv, Goto, Answer,
         storeVars, TypeOK, RequestTypeOK
    <3> QED BY <1>0, <1>3, <1>b, <2>3, <3>1 DEF ReadAndValidate, RequestInv, HandlerInv,
               Goto, Answer, storeVars, TypeOK, RequestTypeOK
  <2> QED BY <1>3, <2>2, <2>3 DEF ReadAndValidate
<1>4. ASSUME NEW r \in Requests, UpdateStatusWith(r) PROVE IInv'
  <2>1. call[r].disc \in Discs
    BY <1>0, <1>4, ServedCalls DEF UpdateStatusWith, Served
  <2>2. /\ lock'[call[r].disc] = r /\ pc'[r] = "append"
        /\ UNCHANGED <<rows, events, nextSeq, call, seen, mine>>
    BY <1>4, <2>1 DEF UpdateStatusWith, Goto, TypeOK, StoreTypeOK, RequestTypeOK
  <2>3. ReadOnRecord(r)'
    BY <1>0, <1>4, <2>2
       DEF UpdateStatusWith, RequestInv, HandlerInv, ReadOnRecord, StatusEvents
  <2>4. RequestInv(r)'
    BY <1>0, <1>4, <2>2, <2>3 DEF UpdateStatusWith, RequestInv, HandlerInv, Owns
  <2>5. \A q \in Requests \ {r} :
           /\ pc'[q] = pc[q]
           /\ pc[q] \in {"append", "commit"} => lock'[call[q].disc] = q
    BY <1>0, <1>4, RequestAssumption, NoOneAssumption DEF UpdateStatusWith,
       Goto, RequestInv, HandlerInv, TypeOK, StoreTypeOK, RequestTypeOK
  <2> QED BY <1>b, <2>2, <2>4, <2>5
<1>5. ASSUME NEW r \in Requests, AppendWith(r) PROVE IInv'
  <2>1. /\ mine'[r] = nextSeq /\ nextSeq' = nextSeq + 1 /\ pc'[r] = "commit"
        /\ UNCHANGED <<rows, events, lock, call, seen>>
        /\ \A q \in Requests \ {r} : pc'[q] = pc[q] /\ mine'[q] = mine[q]
    BY <1>5 DEF AppendWith, Goto, TypeOK, RequestTypeOK
  <2>2. \A e \in StatusEvents(call[r].disc) : e.seq < nextSeq
    BY DEF Numbered, StatusEvents
  <2>3. ReadOnRecord(r)'
    BY <1>0, <1>5, <2>1, <2>2
       DEF AppendWith, RequestInv, HandlerInv, ReadOnRecord, StatusEvents
  <2>4. RequestInv(r)'
    <3>1. nextSeq > 0 /\ nextSeq < nextSeq + 1
      BY DEF TypeOK, StoreTypeOK
    <3> QED BY <1>0, <1>5, <2>1, <2>2, <2>3, <3>1
               DEF AppendWith, RequestInv, HandlerInv, Owns, StatusEvents
  <2>5. ASSUME NEW q \in Requests \ {r} PROVE RequestInv(q)'
    <3>1. pc[q] = "commit" =>
             \A e \in StatusEvents(call[q].disc)' : e.seq < mine[q]
      BY <1>0, <2>1 DEF RequestInv, HandlerInv, StatusEvents
    <3>2. pc[q] \in {"append", "commit"} => lock'[call[q].disc] = q
      BY <1>0, <2>1 DEF RequestInv, HandlerInv
    <3> QED BY <1>a, <2>1, <3>1, <3>2, OtherRequest
  <2>6. (Numbered /\ RowIsProjection /\ TransitionsJustified
           /\ TenantIsolation)'
    BY <1>a, <2>1, QuietStep
  <2> QED BY <1>0, <2>4, <2>5, <2>6
<1>6. ASSUME NEW r \in Requests, Commit(r) PROVE IInv'
  <2> DEFINE c == call[r]
             ev == CommittedEvent(r)
  <2>1. /\ c.disc \in Discs /\ mine[r] < nextSeq
        /\ Owns(c.tenant, c.disc) /\ pc[r] = "commit" /\ lock[c.disc] = r
        /\ \A e \in StatusEvents(c.disc) : e.seq < mine[r]
    BY <1>6, CommitReady
  <2>2. /\ ev.seq = mine[r] /\ ev.tenant = c.tenant /\ ev.disc = c.disc
        /\ ev.type \in StatusEventTypes /\ ev \in LedgerEvent
    BY <1>6, CommitEffect
  <2>3. /\ events' = events \cup {ev}
        /\ \A d \in Discs \ {c.disc} : rows'[d] = rows[d]
        /\ nextSeq' = nextSeq /\ call' = call /\ seen' = seen /\ mine' = mine
        /\ pc' = [pc EXCEPT ![r] = "done"]
        /\ lock' = [lock EXCEPT ![c.disc] = NoOne]
    BY <1>6, CommitEffect
  <2>4. RowMatches(rows'[c.disc], ev.type) /\ rows'[c.disc].status # "absent"
    BY <1>6, CommitEffect
  <2>5. \E from \in Statuses :
           /\ ValidTransition(from, TargetStatus[ev.type])
           /\ \/ from = "open"
              \/ \E f \in StatusEvents(ev.disc) :
                     f.seq < ev.seq /\ TargetStatus[f.type] = from
    BY <1>6, CommitEffect
  <2>6. RowIsProjection' /\ TransitionsJustified'
    BY <1>0, <2>1, <2>2, <2>3, <2>4, <2>5, StatusEventAdded
  <2>7. Numbered' /\ TenantIsolation'
    BY <2>1, <2>2, <2>3 DEF Numbered, TenantIsolation, Owns
  <2>8. RequestInv(r)'
    BY <1>0, <2>3 DEF RequestInv, HandlerInv, TypeOK, RequestTypeOK
  <2>9. ASSUME NEW q \in Requests \ {r} PROVE RequestInv(q)'
    <3>1. pc[q] \in {"append", "commit"} =>
             call[q].disc # c.disc /\ lock'[call[q].disc] = q
      BY <1>0, <2>1, <2>3 DEF RequestInv, HandlerInv, TypeOK, StoreTypeOK
    <3>2. pc[q] = "commit" =>
             \A e \in StatusEvents(call[q].disc)' : e.seq < mine[q]
      BY <1>0, <2>2, <2>3, <3>1 DEF RequestInv, HandlerInv, StatusEvents
    <3>3. \A d \in Discs : rows[d].status # "absent" =>
                               rows'[d].status # "absent"
      BY <2>3, <2>4 DEF TypeOK, StoreTypeOK
    <3>4. /\ pc'[q] = pc[q] /\ events \subseteq events'
          /\ nextSeq' \in Nat /\ nextSeq' >= nextSeq
      BY <1>a, <2>3 DEF TypeOK, RequestTypeOK
    <3> QED BY <2>3, <3>1, <3>2, <3>3, <3>4, OtherRequest
  <2> QED BY <1>0, <2>6, <2>7, <2>8, <2>9
<1>7. ASSUME NEW r \in Requests, NoteGetByID(r) PROVE IInv'
  <2>1. RequestInv(r)'
    BY <1>0, <1>7 DEF NoteGetByID, RequestInv, HandlerInv, Goto, Answer, storeVars, Owns,
                      TypeOK, RequestTypeOK
  <2> QED BY <1>0, <1>7, <1>b, <2>1 DEF NoteGetByID, RequestInv, HandlerInv, Goto, Answer,
             storeVars, TypeOK, RequestTypeOK
\* An event that is not about the status is added by a note and by ingestion.
<1>c. ASSUME NEW t \in Tenants, NEW d \in Discs, Owns(t, d),
             NEW type \in EventTypes \ StatusEventTypes, NEW actorType,
             AppendEvent(t, d, type, actorType), UNCHANGED <<rows, lock>>,
             \A q \in Requests :
                \/ /\ pc'[q] = pc[q] /\ call'[q] = call[q]
                   /\ seen'[q] = seen[q] /\ mine'[q] = mine[q]
                \/ pc'[q] = "done" /\ mine'[q] = nextSeq
      PROVE  IInv'
  <2> DEFINE ev == NewLedgerEvent(nextSeq, t, d, type, actorType)
  <2>1. /\ ev.seq = nextSeq /\ ev.tenant = t /\ ev.disc = d
        /\ ev.type \notin StatusEventTypes
        /\ events' = events \cup {ev} /\ nextSeq' = nextSeq + 1
    BY <1>c DEF NewLedgerEvent, AppendEvent
  <2>2. /\ RowIsProjection' /\ TransitionsJustified'
        /\ \A x : StatusEvents(x)' = StatusEvents(x)
    BY <1>c, <2>1, OtherEventAdded
  <2>3. Numbered'
    BY <1>a, <2>1 DEF Numbered, TypeOK, StoreTypeOK, LedgerEvent
  <2>4. TenantIsolation'
    BY <1>c, <2>1 DEF TenantIsolation, Owns
  <2>5. ASSUME NEW q \in Requests, pc'[q] = pc[q], call'[q] = call[q],
               seen'[q] = seen[q], mine'[q] = mine[q]
        PROVE  RequestInv(q)'
    <3>1. pc[q] = "commit" =>
             \A e \in StatusEvents(call[q].disc)' : e.seq < mine[q]
      BY <1>0, <2>1, <2>5 DEF RequestInv, HandlerInv, StatusEvents
    <3>2. pc[q] \in {"append", "commit"} => lock'[call[q].disc] = q
      BY <1>0, <1>c DEF RequestInv, HandlerInv
    <3>3. nextSeq' \in Nat /\ nextSeq' >= nextSeq /\ events \subseteq events'
      BY <1>a, <2>1
    <3> QED BY <1>c, <2>5, <3>1, <3>2, <3>3, OtherRequest
  <2>6. ASSUME NEW q \in Requests, pc'[q] = "done", mine'[q] = nextSeq
        PROVE  RequestInv(q)'
    BY <1>a, <2>1, <2>6 DEF RequestInv, HandlerInv
  <2> QED BY <1>0, <1>c, <2>2, <2>3, <2>4, <2>5, <2>6
<1>8. ASSUME NEW r \in Requests, NoteAppend(r) PROVE IInv'
  <2> DEFINE c == call[r]
  <2>1. /\ c.tenant \in Tenants /\ c.disc \in Discs /\ Owns(c.tenant, c.disc)
        /\ "note_added" \in EventTypes \ StatusEventTypes
    BY <1>0, <1>8, ServedCalls
       DEF NoteAppend, Served, RequestInv, HandlerInv, EventTypes, StatusEventTypes
  <2>2. \A q \in Requests :
           \/ /\ pc'[q] = pc[q] /\ call'[q] = call[q]
              /\ seen'[q] = seen[q] /\ mine'[q] = mine[q]
           \/ pc'[q] = "done" /\ mine'[q] = nextSeq
    BY <1>8 DEF NoteAppend, Answer, Goto, TypeOK, RequestTypeOK
  <2> QED BY <1>8, <1>c, <2>1, <2>2 DEF NoteAppend
<1>9. ASSUME NEW r \in Requests, Abort(r) PROVE IInv'
  <2>1. /\ pc' = [pc EXCEPT ![r] = "done"]
        /\ UNCHANGED <<rows, events, nextSeq, call, seen, mine>>
    BY <1>9 DEF Abort, Answer, Goto
  <2>2. RequestInv(r)'
    BY <1>0, <2>1 DEF RequestInv, HandlerInv, TypeOK, RequestTypeOK
  <2>3. \A q \in Requests \ {r} :
           pc[q] \in {"append", "commit"} => lock'[call[q].disc] = q
    BY <1>0, <1>9, ServedCalls
       DEF Abort, Unlock, Served, RequestInv, HandlerInv, TypeOK, StoreTypeOK
  <2> QED BY <1>b, <2>1, <2>2, <2>3 DEF TypeOK, RequestTypeOK
<1>10. ASSUME NEW d \in Discs, IngestCreate(d) PROVE IInv'
  <2>1. PICK s \in IngestedSeverities : Create(d, s)
    BY <1>10 DEF IngestCreate, IntakeCreate
  <2>2. /\ rows[d].status = "absent"
        /\ rows'[d].status = "open" /\ rows'[d].resolvedAt = FALSE
        /\ \A x \in Discs \ {d} : rows'[x] = rows[x]
        /\ UNCHANGED <<events, nextSeq, lock, pc, call, seen, mine>>
    BY <1>10, <2>1 DEF IngestCreate, IntakeCreate, Create, requestVars, TypeOK, StoreTypeOK
  <2>3. \A x : StatusEvents(x)' = StatusEvents(x)
    BY <2>2 DEF StatusEvents
  <2>4. StatusEvents(d) = {}
    <3>1. \A t \in StatusEventTypes : TargetStatus[t] # "absent"
      BY DEF TargetStatus, StatusEventTypes, EventTypes
    <3> QED BY <2>2, <3>1 DEF RowIsProjection, RowMatches, StatusEvents
  <2>5. RowIsProjection'
    <3>1. ASSUME NEW x \in Discs \ {d}
          PROVE  \/ /\ StatusEvents(x)' = {}
                    /\ rows'[x].status \in {"absent", "open"}
                    /\ ~rows'[x].resolvedAt
                 \/ \E e \in StatusEvents(x)' :
                       /\ \A f \in StatusEvents(x)' : f.seq <= e.seq
                       /\ RowMatches(rows'[x], e.type)
      BY <2>2, <2>3 DEF RowIsProjection
    <3> QED BY <2>2, <2>3, <2>4, <3>1 DEF RowIsProjection
  <2>6. (TransitionsJustified /\ Numbered /\ TenantIsolation)'
    BY <2>2, <2>3 DEF TransitionsJustified, Numbered, TenantIsolation
  <2>7. ASSUME NEW q \in Requests PROVE RequestInv(q)'
    <3>1. \A x \in Discs : rows[x].status # "absent" =>
                               rows'[x].status # "absent"
      BY <2>2
    <3>2. nextSeq' \in Nat /\ nextSeq' >= nextSeq
      BY <1>a, <2>2
    <3> QED BY <1>0, <2>2, <2>3, <3>1, <3>2, OtherRequest DEF RequestInv, HandlerInv
  <2> QED BY <1>0, <2>5, <2>6, <2>7
<1>11. ASSUME NEW d \in Discs, IngestReceived(d) PROVE IInv'
  <2>1. /\ tenantOf[d] \in Tenants /\ Owns(tenantOf[d], d)
        /\ "received" \in EventTypes \ StatusEventTypes
    BY <1>11, TenantAssumption
       DEF IngestReceived, IntakeReceived, Owns, EventTypes, StatusEventTypes
  <2> QED BY <1>11, <1>c, <2>1 DEF IngestReceived, IntakeReceived, requestVars
<1>12. CASE UNCHANGED vars
  <2>1. (Numbered /\ RowIsProjection /\ TransitionsJustified
           /\ TenantIsolation)'
    BY <1>12, <1>a, QuietStep DEF vars
  <2>2. ASSUME NEW q \in Requests PROVE RequestInv(q)'
    BY <1>0, <1>12 DEF vars, RequestInv, HandlerInv, ReadOnRecord, Owns, StatusEvents
  <2> QED BY <1>0, <2>1, <2>2
<1> QED BY <1>1, <1>2, <1>3, <1>4, <1>5, <1>6, <1>7, <1>8, <1>9, <1>10, <1>11,
          <1>12 DEF Next, RequestNext, Serve

\* Nothing has happened yet: the invariant holds initially.
LEMMA InvariantInit == Init => IInv
<1> SUFFICES ASSUME Init PROVE IInv
    OBVIOUS
<1> USE DEF Init, StoreInit, RequestInit
<1>1. TypeOK
  <2>1. AbsentRow \in Row
    BY DEF AbsentRow, Row, Severities
  <2> QED BY <2>1 DEF TypeOK, StoreTypeOK, RequestTypeOK, PCs, Responses, Served
<1>2. \A d : StatusEvents(d) = {}
    BY DEF StatusEvents
<1>3. RowIsProjection
    BY <1>2 DEF RowIsProjection, AbsentRow
<1>4. \A r \in Requests : RequestInv(r)
    BY DEF RequestInv, HandlerInv
<1> QED BY <1>1, <1>2, <1>3, <1>4
        DEF IInv, Numbered, TransitionsJustified, TenantIsolation

\* The inductive invariant holds in every reachable state.
LEMMA InductiveInvariant == Spec => []IInv
    BY InvariantInit, InvariantStep, PTL DEF Spec

--------------------------------------------------------------------------------
(* What the endpoints guarantee.                                           *)

\* Every variable keeps its type, whatever the requests do.
THEOREM TypeCorrect == Spec => []TypeOK
<1>1. IInv => TypeOK
    BY DEF IInv
<1> QED BY <1>1, InductiveInvariant, PTL

\* The discrepancy row always agrees with the latest status event, for any
\* number of concurrent requests, rollbacks and lost answers.
THEOREM RowAgreesWithTrail == Spec => []RowIsProjection
<1>1. IInv => RowIsProjection
    BY DEF IInv
<1> QED BY <1>1, InductiveInvariant, PTL

\* Every recorded change was allowed from a status recorded before it.
THEOREM ChangesAreJustified == Spec => []TransitionsJustified
<1>1. IInv => TransitionsJustified
    BY DEF IInv
<1> QED BY <1>1, InductiveInvariant, PTL

\* No request leaves an event on another tenant's discrepancy.
THEOREM TenantsAreIsolated == Spec => []TenantIsolation
<1>1. IInv => TenantIsolation
    BY DEF IInv
<1> QED BY <1>1, InductiveInvariant, PTL

--------------------------------------------------------------------------------
(* Answers and ledger.                                                     *)

\* A number is that of one request, an answer is the end of a request, and
\* answers and ledger agree.
TraceInv ==
    /\ \A q, r \in Requests : mine[q] = mine[r] => q = r \/ mine[q] = 0
    /\ \A r \in Requests : resp[r] # "none" => pc[r] = "done"
    /\ EventsTraceable

\* Only AddNote leaves the path of the transitions.
NotesOnly ==
    \A r \in Requests : pc[r] \in {"noteGet", "noteAppend"} =>
                            call[r].op = "AddNote"

\* Every step keeps it so.
LEMMA NotesStep == IInv /\ NotesOnly /\ [Next]_vars => NotesOnly'
<1> SUFFICES ASSUME TypeOK, NotesOnly, [Next]_vars PROVE NotesOnly'
    BY DEF IInv
<1> USE DEF NotesOnly, TypeOK, RequestTypeOK
<1>1. ASSUME NEW r \in Requests, RequestNext(r) PROVE NotesOnly'
    BY <1>1 DEF RequestNext, Serve, ParseRequest, CheckOptimisticLock,
                ReadAndValidate, UpdateStatusWith, AppendWith, Commit,
                NoteGetByID, NoteAppend, Abort, Answer, Goto
<1>2. CASE UNCHANGED <<pc, call>>
    BY <1>2
<1> QED BY <1>1, <1>2 DEF Next, IngestCreate, IngestReceived, requestVars, vars

\* The request of a recorded user event is done: no other step touches it.
LEMMA EventOfOneRequest ==
    ASSUME IInv, TraceInv, NEW e \in events, e.actorType = "user"
    PROVE  \E r \in Requests :
              mine[r] = e.seq /\ resp[r] \in {"ok", "error"} /\ pc[r] = "done"
    BY DEF TraceInv, EventsTraceable

\* It is enough to find the request of every user event, and the event of every
\* request answered ok.
LEMMA TraceFrom ==
    ASSUME TypeOK',
           (\A q, r \in Requests : mine[q] = mine[r] => q = r \/ mine[q] = 0)',
           (\A r \in Requests : resp[r] # "none" => pc[r] = "done")',
           \A r \in Requests : resp'[r] = "ok" =>
              NewLedgerEvent(mine'[r], call'[r].tenant, call'[r].disc,
                             EventOf[call'[r].op], "user") \in events',
           \A e \in events' : e.actorType = "user" =>
              \E r \in Requests :
                 mine'[r] = e.seq /\ resp'[r] \in {"ok", "error"}
    PROVE  TraceInv'
<1>1. \A e \in events' : e.seq # 0
    BY DEF TypeOK, StoreTypeOK, LedgerEvent
<1>2. ASSUME NEW e \in events', e.actorType = "user"
      PROVE  \E r \in Requests : /\ {q \in Requests : mine'[q] = e.seq} = {r}
                                 /\ resp'[r] \in {"ok", "error"}
  <2>1. PICK r \in Requests : mine'[r] = e.seq /\ resp'[r] \in {"ok", "error"}
    BY <1>2
  <2>2. {q \in Requests : mine'[q] = e.seq} = {r}
    BY <1>1, <2>1
  <2> QED BY <2>1, <2>2
<1> QED BY <1>2 DEF TraceInv, EventsTraceable

\* Every step keeps answers and ledger in agreement.
LEMMA TraceStep == IInv /\ NotesOnly /\ TraceInv /\ [Next]_vars => TraceInv'
<1> SUFFICES ASSUME IInv, NotesOnly, TraceInv, [Next]_vars PROVE TraceInv'
    OBVIOUS
<1>0. TypeOK /\ TypeOK' /\ nextSeq \in Nat \ {0}
    BY TypeStep DEF IInv, RequestInv, TypeOK, StoreTypeOK
<1>1. \A r \in Requests : mine[r] < nextSeq /\ mine[r] \in Nat
    BY DEF IInv, RequestInv, HandlerInv, TypeOK, RequestTypeOK
\* A step that takes no number and adds no user event: its request moves on,
\* or ends without success.
<1>a. ASSUME NEW r \in Requests, UNCHANGED mine, events \subseteq events',
             \A e \in events' \ events : e.actorType # "user",
             \A q \in Requests \ {r} : /\ pc'[q] = pc[q] /\ resp'[q] = resp[q]
                                       /\ call'[q] = call[q],
             pc[r] # "done",
             \/ resp'[r] = resp[r]
             \/ pc'[r] = "done" /\ resp'[r] # "ok"
      PROVE  TraceInv'
  <2>0. resp[r] = "none"
    BY <1>a DEF TraceInv
  <2>1. \A q \in Requests : resp'[q] # "none" => pc'[q] = "done"
    BY <1>a, <2>0 DEF TraceInv
  <2>2. \A q \in Requests : resp'[q] = "ok" => q # r
    BY <1>a, <2>0
  <2>3. \A q \in Requests : resp'[q] = "ok" =>
           NewLedgerEvent(mine'[q], call'[q].tenant, call'[q].disc,
                          EventOf[call'[q].op], "user") \in events'
    BY <1>a, <2>2 DEF TraceInv, EventsTraceable
  <2>4. ASSUME NEW e \in events', e.actorType = "user"
        PROVE  \E q \in Requests :
                  mine'[q] = e.seq /\ resp'[q] \in {"ok", "error"}
    <3>1. PICK q \in Requests :
             mine[q] = e.seq /\ resp[q] \in {"ok", "error"} /\ pc[q] = "done"
      BY <1>a, <2>4, EventOfOneRequest
    <3> QED BY <1>a, <3>1
  <2>5. \A q, x \in Requests : mine'[q] = mine'[x] => q = x \/ mine'[q] = 0
    BY <1>a DEF TraceInv
  <2> QED BY <1>0, <2>1, <2>3, <2>4, <2>5, TraceFrom
\* A step that makes visible the event of its request, under the number the
\* request has by now.
<1>b. ASSUME NEW r \in Requests, UNCHANGED call, pc[r] # "done",
             pc' = [pc EXCEPT ![r] = "done"],
             resp'[r] \in {"ok", "error"},
             \A q \in Requests \ {r} : /\ mine'[q] = mine[q]
                                       /\ resp'[q] = resp[q],
             \/ mine' = mine
             \/ mine'[r] = nextSeq,
             events' = events \cup
                {NewLedgerEvent(mine'[r], call[r].tenant, call[r].disc,
                                EventOf[call[r].op], "user")}
      PROVE  TraceInv'
  <2>1. \A q \in Requests : resp'[q] # "none" => pc'[q] = "done"
    BY <1>0, <1>b DEF TraceInv, TypeOK, RequestTypeOK
  <2>2. \A q, x \in Requests : mine'[q] = mine'[x] => q = x \/ mine'[q] = 0
    BY <1>0, <1>1, <1>b DEF TraceInv
  <2>3. \A q \in Requests : resp'[q] = "ok" =>
           NewLedgerEvent(mine'[q], call'[q].tenant, call'[q].disc,
                          EventOf[call'[q].op], "user") \in events'
    BY <1>b DEF TraceInv, EventsTraceable
  <2>4. ASSUME NEW e \in events', e.actorType = "user"
        PROVE  \E q \in Requests :
                  mine'[q] = e.seq /\ resp'[q] \in {"ok", "error"}
    <3>1. CASE e \in events
      <4>1. PICK q \in Requests :
               mine[q] = e.seq /\ resp[q] \in {"ok", "error"} /\ pc[q] = "done"
        BY <2>4, <3>1, EventOfOneRequest
      <4> QED BY <1>b, <4>1
    <3>2. CASE e \notin events
      BY <1>b, <3>2 DEF NewLedgerEvent
    <3> QED BY <3>1, <3>2
  <2> QED BY <1>0, <2>1, <2>2, <2>3, <2>4, TraceFrom
<1>2. ASSUME NEW r \in Requests,
             \/ ParseRequest(r) \/ CheckOptimisticLock(r) \/ ReadAndValidate(r)
             \/ UpdateStatusWith(r) \/ NoteGetByID(r) \/ Abort(r)
      PROVE  TraceInv'
  <2>1. /\ UNCHANGED <<mine, events>> /\ pc[r] # "done"
        /\ \A q \in Requests \ {r} : /\ pc'[q] = pc[q] /\ resp'[q] = resp[q]
                                     /\ call'[q] = call[q]
        /\ \/ resp'[r] = resp[r]
           \/ pc'[r] = "done" /\ resp'[r] # "ok"
    BY <1>0, <1>2
       DEF ParseRequest, CheckOptimisticLock, ReadAndValidate, UpdateStatusWith,
           NoteGetByID, Abort, Answer, Goto, storeVars, TypeOK, RequestTypeOK
  <2> QED BY <1>a, <2>1
<1>3. ASSUME NEW r \in Requests, AppendWith(r) PROVE TraceInv'
  <2>1. /\ mine' = [mine EXCEPT ![r] = nextSeq] /\ pc[r] # "done"
        /\ pc' = [pc EXCEPT ![r] = "commit"]
        /\ UNCHANGED <<events, call, resp>>
    BY <1>3 DEF AppendWith, Goto
  <2>2. resp[r] = "none"
    BY <2>1 DEF TraceInv
  <2>3. /\ mine'[r] = nextSeq
        /\ \A q \in Requests \ {r} : mine'[q] = mine[q] /\ pc'[q] = pc[q]
    BY <1>0, <2>1 DEF TypeOK, RequestTypeOK
  <2>4. \A q \in Requests : resp'[q] # "none" => pc'[q] = "done"
    BY <2>1, <2>2, <2>3 DEF TraceInv
  <2>5. \A q, x \in Requests : mine'[q] = mine'[x] => q = x \/ mine'[q] = 0
    BY <1>0, <1>1, <2>3 DEF TraceInv
  <2>6. \A q \in Requests : resp'[q] = "ok" =>
           NewLedgerEvent(mine'[q], call'[q].tenant, call'[q].disc,
                          EventOf[call'[q].op], "user") \in events'
    BY <2>1, <2>2, <2>3 DEF TraceInv, EventsTraceable
  <2>7. ASSUME NEW e \in events', e.actorType = "user"
        PROVE  \E q \in Requests :
                  mine'[q] = e.seq /\ resp'[q] \in {"ok", "error"}
    <3>1. PICK q \in Requests :
             mine[q] = e.seq /\ resp[q] \in {"ok", "error"} /\ pc[q] = "done"
      BY <2>1, <2>7, EventOfOneRequest
    <3> QED BY <2>1, <2>3, <3>1
  <2> QED BY <1>0, <2>4, <2>5, <2>6, <2>7, TraceFrom
<1>4. ASSUME NEW r \in Requests, Commit(r) PROVE TraceInv'
    BY <1>0, <1>4, <1>b DEF Commit, Answer, Goto, TypeOK, RequestTypeOK
<1>5. ASSUME NEW r \in Requests, NoteAppend(r) PROVE TraceInv'
  <2>1. EventOf[call[r].op] = "note_added"
    <3>1. call[r].op \in Ops /\ call[r].op = "AddNote"
      BY <1>5, ServedCalls DEF NoteAppend, Served, IInv, NotesOnly
    <3> QED BY <3>1 DEF EventOf, Ops
  <2> QED BY <1>0, <1>5, <1>b, <2>1
          DEF NoteAppend, AppendEvent, Answer, Goto, TypeOK, RequestTypeOK
<1>6. ASSUME UNCHANGED <<pc, call, mine, resp>>, events \subseteq events',
             \A e \in events' \ events : e.actorType # "user"
      PROVE  TraceInv'
  <2>1. \A e \in events' : e.actorType = "user" => e \in events
    BY <1>6
  <2> QED BY <1>6, <2>1 DEF TraceInv, EventsTraceable
<1>7. ASSUME NEW d \in Discs, IngestCreate(d) \/ IngestReceived(d)
      PROVE  TraceInv'
    BY <1>6, <1>7 DEF IngestCreate, IntakeCreate, IngestReceived, IntakeReceived,
                      AppendEvent, NewLedgerEvent, requestVars
<1>8. CASE UNCHANGED vars
    BY <1>6, <1>8 DEF vars
<1> QED BY <1>2, <1>3, <1>4, <1>5, <1>7, <1>8 DEF Next, RequestNext, Serve

\* Answers and ledger agree, for any number of concurrent requests: a success
\* is on record, and every user event is that of exactly one request that was
\* not told it was refused.
THEOREM EventsAreTraceable == Spec => []EventsTraceable
<1>1. Init => TraceInv /\ NotesOnly
    BY DEF Init, StoreInit, RequestInit, TraceInv, EventsTraceable, NotesOnly
<1>2. TraceInv => EventsTraceable
    BY DEF TraceInv
<1> QED BY <1>1, <1>2, NotesStep, TraceStep, InductiveInvariant, PTL
        DEF Spec

--------------------------------------------------------------------------------
(* The endpoints implement the abstract audit trail.                       *)

\* A step that leaves the status columns and the status events alone is a
\* stuttering step of the audit trail.
LEMMA TrailStutters ==
    ASSUME \A d \in Discs : rows'[d].status = rows[d].status,
           {f \in events' : f.type \in StatusEventTypes}
              = {f \in events : f.type \in StatusEventTypes}
    PROVE  UNCHANGED Trail!trailVars
<1>1. StatusView' = StatusView
    BY DEF StatusView
<1>2. TrailView' = TrailView
    BY DEF TrailView
<1> QED BY <1>1, <1>2 DEF Trail!trailVars

\* Every step of the endpoints is a step of the audit trail, or none.
LEMMA TrailStep == IInv /\ [Next]_vars => [Trail!TrailNext]_(Trail!trailVars)
<1> SUFFICES ASSUME IInv, [Next]_vars, ~UNCHANGED Trail!trailVars
             PROVE  Trail!TrailNext
    OBVIOUS
<1>1. ASSUME NEW r \in Requests, Commit(r) PROVE Trail!TrailNext
  <2> DEFINE d == call[r].disc
             ev == CommittedEvent(r)
             en == TrailEntry(ev)
  <2>1. /\ d \in Discs /\ rows[d].status # "absent"
        /\ ev.disc = d /\ ev.seq = mine[r] /\ ev.type \in StatusEventTypes
        /\ events' = events \cup {ev}
        /\ \A x \in Discs \ {d} : rows'[x] = rows[x]
        /\ rows'[d].status = TargetStatus[ev.type]
        /\ \A e \in StatusEvents(d) : e.seq < ev.seq
    BY <1>1, CommitReady, CommitEffect DEF Owns, RowMatches
  <2>2. en.disc = d /\ en.seq = ev.seq /\ en.to = TargetStatus[ev.type]
    BY <2>1 DEF TrailEntry
  <2>3. StatusView' = [StatusView EXCEPT ![d] = en.to]
    BY <2>1, <2>2 DEF StatusView
  <2>4. TrailView' = TrailView \cup {en}
    BY <2>1 DEF TrailView
  <2>5. Trail!Entries(d) = {TrailEntry(e) : e \in StatusEvents(d)}
    BY DEF Trail!Entries, TrailView, TrailEntry, StatusEvents
  <2>6. \A f \in Trail!Entries(d) : f.seq < en.seq
    BY <2>1, <2>2, <2>5 DEF TrailEntry
  <2>7. en \notin TrailView
    <3>1. mine[r] \in Nat
      BY <1>1, CommitReady
    <3> QED BY <2>1, <2>2, <2>6, <3>1 DEF Trail!Entries
  <2>8. \E from \in Statuses :
           Trail!OnRecord(d, from) /\ ValidTransition(from, en.to)
    <3>1. PICK from \in Statuses :
             /\ ValidTransition(from, en.to)
             /\ \/ from = "open"
                \/ \E f \in StatusEvents(d) : TargetStatus[f.type] = from
      BY <1>1, <2>1, <2>2, CommitEffect
    <3>2. \A f \in StatusEvents(d) :
             /\ TrailEntry(f) \in Trail!Entries(d)
             /\ TrailEntry(f).to = TargetStatus[f.type]
      BY <2>5 DEF TrailEntry
    <3>3. Trail!OnRecord(d, from)
      BY <3>1, <3>2 DEF Trail!OnRecord
    <3> QED BY <3>1, <3>3
  <2>9. StatusView[d] # "absent"
    BY <2>1 DEF StatusView
  <2> QED BY <2>1, <2>2, <2>3, <2>4, <2>6, <2>7, <2>8, <2>9
          DEF Trail!TrailNext, Trail!Change, Trail!ValidTransition,
              Trail!validTransitions, ValidTransition, validTransitions,
              Trail!Statuses, Statuses
<1>2. ASSUME NEW d \in Discs, IngestCreate(d) PROVE Trail!TrailNext
  <2>1. PICK s \in IngestedSeverities : Create(d, s)
    BY <1>2 DEF IngestCreate, IntakeCreate
  <2>2. StatusView[d] = "absent"
    BY <2>1 DEF Create, StatusView
  <2>3. StatusView' = [StatusView EXCEPT ![d] = "open"]
    BY <2>1 DEF Create, StatusView, IInv, TypeOK, StoreTypeOK
  <2>4. TrailView' = TrailView
    BY <1>2 DEF IngestCreate, IntakeCreate, TrailView
  <2> QED BY <2>2, <2>3, <2>4 DEF Trail!TrailNext, Trail!Register
<1>3. CASE UNCHANGED <<rows, events>>
    BY <1>3, TrailStutters
<1>4. ASSUME UNCHANGED rows, NEW t, NEW d, NEW a,
             NEW type \in {"note_added", "received"},
             AppendEvent(t, d, type, a)
      PROVE  FALSE
  <2>1. NewLedgerEvent(nextSeq, t, d, type, a).type = type
    BY DEF NewLedgerEvent
  <2> QED BY <1>4, <2>1, TrailStutters DEF AppendEvent, StatusEventTypes
<1>5. ASSUME NEW r \in Requests, NoteAppend(r) PROVE FALSE
    BY <1>4, <1>5 DEF NoteAppend
<1>6. ASSUME NEW d \in Discs, IngestReceived(d) PROVE FALSE
    BY <1>4, <1>6 DEF IngestReceived, IntakeReceived
<1>7. ASSUME NEW r \in Requests,
             \/ ParseRequest(r) \/ CheckOptimisticLock(r) \/ ReadAndValidate(r)
             \/ UpdateStatusWith(r) \/ AppendWith(r) \/ NoteGetByID(r)
             \/ Abort(r)
      PROVE  UNCHANGED <<rows, events>>
    BY <1>7 DEF ParseRequest, CheckOptimisticLock, ReadAndValidate, storeVars,
                UpdateStatusWith, AppendWith, NoteGetByID, Abort
<1>8. CASE UNCHANGED vars
    BY <1>3, <1>8 DEF vars
<1> QED BY <1>1, <1>2, <1>3, <1>5, <1>6, <1>7, <1>8
        DEF Next, RequestNext, Serve

\* For any number of concurrent requests, the endpoints implement the abstract
\* audit trail: row and event change together and in the order of the numbers.
THEOREM EndpointsImplementAuditTrail == Spec => ImplementsAuditTrail
<1>1. Init => Trail!TrailInit
    BY DEF Init, StoreInit, Trail!TrailInit, StatusView, TrailView, AbsentRow
<1> QED BY <1>1, TrailStep, InductiveInvariant, PTL
        DEF Spec, ImplementsAuditTrail, Trail!TrailSpec
================================================================================
