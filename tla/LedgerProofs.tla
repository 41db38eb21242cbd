------------------------------ MODULE LedgerProofs -----------------------------
(***************************************************************************)
(* Theorems about the workflow endpoints and the escalation engine over    *)
(* the same tables, for any requests, discrepancies, tenants and lists of  *)
(* rules.                                                                  *)
(***************************************************************************)
EXTENDS Ledger, WorkflowProofs, FiniteSetTheorems, SequenceTheorems

--------------------------------------------------------------------------------
(* The inductive invariant.                                                *)

\* The events E explain that a discrepancy has, or had, the status s: one below
\* n led to it.  The engine may leave its status without an event: then an
\* escalation still has the investigation it started from on record.
Explains(E, s, n) ==
    \/ s \in {"open", "auto_closed"}
    \/ \E f \in E : /\ f.seq < n
                    /\ \/ TargetStatus[f.type] = s
                       \/ s = "escalated" /\ TargetStatus[f.type] = "investigating"

\* E has an event of the highest number, if it has any.
HasLatest(E) == E = {} \/ \E e \in E : \A f \in E : f.seq <= e.seq

\* What is true of a discrepancy: without a row it has no status events, and
\* its status is explained by the events so far.
DiscInv(d) ==
    /\ rows[d].status = "absent" => StatusEvents(d) = {}
    /\ rows[d].status # "absent" =>
          Explains(StatusEvents(d), rows[d].status, nextSeq)
    /\ HasLatest(StatusEvents(d))

\* The engine's events are unique.
Once ==
    \A e, f \in events :
        /\ e.disc = f.disc /\ e.type = f.type
        /\ e.type \in {"escalated", "auto_closed"}
        => e = f

TableInv ==
    /\ Numbered
    /\ TenantIsolation
    /\ \A d \in Discs : DiscInv(d)
    /\ TransitionsJustified
    /\ OnlyTheEngineDrifts
    /\ Once

\* What is true of a request although the engine writes too: the status it
\* read is explained, below its number if it has one, and the status events
\* above its number when it commits are the engine's.
ServedInv(r) ==
    /\ HandlerInv(r)
    /\ pc[r] \in {"update", "append", "commit"} =>
          /\ ValidTransition(seen[r], TargetOf(call[r].op))
          /\ Explains(StatusEvents(call[r].disc), seen[r],
                      IF pc[r] = "commit" THEN mine[r] ELSE nextSeq)
    /\ pc[r] = "commit" =>
          \A e \in StatusEvents(call[r].disc) :
              e.seq < mine[r] \/ e.actorType = "escalation"

\* A discrepancy the current rule has listed: of the tenant, and explained in
\* the rule's trigger status, whatever its status is by now.
Candidate(d) ==
    /\ Owns(tenant, d)
    /\ Explains(StatusEvents(d), rule.triggerStatus, nextSeq)

\* The engine acts on candidates, and on one that has no event of its action:
\* nobody else appends such an event.
EngineInv ==
    /\ epc \in {"items", "severity", "status", "append"} =>
          /\ rulesLeft # <<>>
          /\ \A d \in listed : Candidate(d)
    /\ epc \in {"severity", "status", "append"} =>
          LET type == EventOfAction(rule.action)
          IN  /\ Candidate(disc)
              /\ ValidTransition(rule.triggerStatus, TargetStatus[type])
              /\ \A e \in events : e.disc = disc => e.type # type

LedgerInv ==
    /\ LedgerTypeOK
    /\ TableInv
    /\ \A r \in Requests : ServedInv(r)
    /\ EngineInv

--------------------------------------------------------------------------------
(* The operators.                                                          *)

\* The rule the engine is at is a rule.
LEMMA CurrentRule ==
    ASSUME EngineTypeOK, rulesLeft # <<>>
    PROVE  rule \in Rule /\ Tail(rulesLeft) \in Seq(Rule)
<1>1. rulesLeft \in Seq(Rule)
    BY DEF EngineTypeOK
<1> QED BY <1>1, HeadTailProperties DEF rule

\* The engine's event types, the statuses they stand for, and where the state
\* machine lets them start.
LEMMA ActionTargets ==
    ASSUME NEW action
    PROVE  LET type == EventOfAction(action)
           IN  /\ type \in {"escalated", "auto_closed"}
               /\ type \in EventTypes /\ type \in StatusEventTypes
               /\ TargetStatus[type] = type /\ type \in Statuses
               /\ \A from : ValidTransition(from, "escalated") =>
                                from = "investigating"
    BY DEF EventOfAction, EventTypes, StatusEventTypes, TargetStatus, Statuses,
           ValidTransition, validTransitions

\* More events, or a higher bound, explain no less.
LEMMA ExplainsMore ==
    ASSUME NEW E, NEW F, E \subseteq F, NEW m \in Nat, NEW n \in Nat, m <= n,
           \A f \in F : f.seq \in Nat, NEW s, Explains(E, s, m)
    PROVE  Explains(F, s, n)
    BY DEF Explains

\* From a status that is explained, the state machine's verdict makes a change
\* justified.
LEMMA ExplainedIsJustified ==
    ASSUME NEW E, NEW s, NEW n, NEW to, Explains(E, s, n), ValidTransition(s, to)
    PROVE  \E from \in Statuses :
              /\ ValidTransition(from, to)
              /\ \/ from = "open"
                 \/ \E f \in E : f.seq < n /\ TargetStatus[f.type] = from
<1>1. /\ s \in Statuses \ {"auto_closed"}
      /\ s = "escalated" => ValidTransition("investigating", to)
      /\ "investigating" \in Statuses
    BY DEF ValidTransition, validTransitions, Statuses
<1> QED BY <1>1 DEF Explains

\* An event more has a latest event, if the events before it have.
LEMMA LatestOfMore ==
    ASSUME NEW E, HasLatest(E), NEW ev, ev.seq \in Nat,
           \A f \in E : f.seq \in Nat
    PROVE  HasLatest(E \cup {ev})
<1>1. CASE E = {}
    BY <1>1 DEF HasLatest
<1>2. ASSUME NEW e \in E, \A f \in E : f.seq <= e.seq
      PROVE  HasLatest(E \cup {ev})
  <2>1. CASE ev.seq <= e.seq
    BY <1>2, <2>1 DEF HasLatest
  <2>2. CASE e.seq <= ev.seq
    <3>1. \A f \in E \cup {ev} : f.seq <= ev.seq
      BY <1>2, <2>2
    <3> QED BY <3>1 DEF HasLatest
  <2> QED BY <1>2, <2>1, <2>2
<1> QED BY <1>1, <1>2 DEF HasLatest

\* The numbers in the tables are natural numbers.
LEMMA Numbers ==
    ASSUME LedgerTypeOK
    PROVE  /\ nextSeq \in Nat
           /\ \A e \in events : e.seq \in Nat
           /\ \A d : StatusEvents(d) \subseteq events
           /\ \A r \in Requests : mine[r] \in Nat
    BY DEF LedgerTypeOK, TypeOK, StoreTypeOK, RequestTypeOK, LedgerEvent,
           StatusEvents

--------------------------------------------------------------------------------
(* The tables.                                                             *)

\* A step that changes neither status events nor the status and resolved_at
\* columns, and adds no event of the engine's types, keeps what is said of
\* the tables.
LEMMA TablesKept ==
    ASSUME LedgerInv, LedgerTypeOK', nextSeq' >= nextSeq,
           \A d \in Discs : /\ rows'[d].status = rows[d].status
                            /\ rows'[d].resolvedAt = rows[d].resolvedAt
                            /\ StatusEvents(d)' = StatusEvents(d),
           \A e \in events' \ events :
              /\ e.seq < nextSeq' /\ e.tenant = tenantOf[e.disc]
              /\ e.type \notin {"escalated", "auto_closed"}
    PROVE  TableInv'
<1> USE DEF LedgerInv, TableInv
<1>0. /\ nextSeq \in Nat /\ nextSeq' \in Nat
      /\ \A e \in events : e.seq \in Nat
      /\ \A d \in Discs : \A e \in StatusEvents(d) : e.seq \in Nat
    BY Numbers DEF LedgerTypeOK, TypeOK, StoreTypeOK
<1>1. Numbered'
    BY <1>0 DEF Numbered
<1>2. TenantIsolation'
    BY DEF TenantIsolation
<1>3. ASSUME NEW d \in Discs PROVE DiscInv(d)'
  <2>1. /\ DiscInv(d) /\ rows'[d].status = rows[d].status
        /\ StatusEvents(d)' = StatusEvents(d)
    OBVIOUS
  <2>2. rows[d].status # "absent" =>
           Explains(StatusEvents(d), rows[d].status, nextSeq')
    BY <1>0, <2>1, ExplainsMore DEF DiscInv
  <2> QED BY <2>1, <2>2 DEF DiscInv
<1>4. TransitionsJustified'
    BY DEF TransitionsJustified
<1>5. OnlyTheEngineDrifts'
    BY DEF OnlyTheEngineDrifts, RowMatches
<1>6. Once'
    BY DEF Once
<1> QED BY <1>1, <1>2, <1>3, <1>4, <1>5, <1>6

\* A status event is added: above all others by the engine, which leaves the
\* row; or by a commit, which sets the row to match and may find only events of
\* the engine above its own.
LEMMA StatusRecorded ==
    ASSUME LedgerInv, LedgerTypeOK', NEW ev \in LedgerEvent, NEW s,
           ev.type \in StatusEventTypes, events' = events \cup {ev},
           ev.tenant = tenantOf[ev.disc],
           nextSeq' >= nextSeq, ev.seq < nextSeq',
           \A d \in Discs \ {ev.disc} : rows'[d] = rows[d],
           rows[ev.disc].status # "absent",
           ValidTransition(s, TargetStatus[ev.type]),
           Explains(StatusEvents(ev.disc), s, ev.seq),
           \/ /\ ev.actorType = "escalation"
              /\ rows'[ev.disc] = rows[ev.disc]
              /\ \A e \in StatusEvents(ev.disc) : e.seq < ev.seq
           \/ /\ RowMatches(rows'[ev.disc], ev.type)
              /\ rows'[ev.disc].status # "absent"
              /\ \A e \in StatusEvents(ev.disc) :
                    e.seq < ev.seq \/ e.actorType = "escalation",
           ev.type \in {"escalated", "auto_closed"} =>
              \A e \in events : e.disc = ev.disc => e.type # ev.type
    PROVE  TableInv'
<1> DEFINE d0 == ev.disc
           E == StatusEvents(d0)
<1> USE DEF LedgerInv, TableInv
<1>0. /\ nextSeq \in Nat /\ nextSeq' \in Nat /\ ev.seq \in Nat /\ d0 \in Discs
      /\ \A e \in events : e.seq \in Nat
      /\ \A d \in Discs : \A e \in StatusEvents(d) : e.seq \in Nat
    BY Numbers DEF LedgerTypeOK, TypeOK, StoreTypeOK, LedgerEvent
<1>a. StatusEvents(d0)' = E \cup {ev}
    BY DEF StatusEvents
<1>b. \A d \in Discs \ {d0} : StatusEvents(d)' = StatusEvents(d)
    BY DEF StatusEvents
<1>c. /\ E \subseteq E \cup {ev} /\ \A e \in E \cup {ev} : e.seq \in Nat
      /\ DiscInv(d0) /\ HasLatest(E)
    BY <1>0 DEF DiscInv
<1> HIDE DEF E
<1>1. Numbered'
    BY <1>0 DEF Numbered
<1>2. TenantIsolation'
    BY DEF TenantIsolation
<1>3. ASSUME NEW d \in Discs PROVE DiscInv(d)'
  <2>1. CASE d # d0
    <3>1. /\ DiscInv(d) /\ rows'[d] = rows[d]
          /\ StatusEvents(d)' = StatusEvents(d)
      BY <1>b, <2>1
    <3>2. rows[d].status # "absent" =>
             Explains(StatusEvents(d), rows[d].status, nextSeq')
      BY <1>0, <3>1, ExplainsMore DEF DiscInv
    <3> QED BY <3>1, <3>2 DEF DiscInv
  <2>2. CASE d = d0
    <3>1. HasLatest(E \cup {ev})
      BY <1>0, <1>c, LatestOfMore
    <3>2. CASE rows'[d0] = rows[d0]
      <4>1. Explains(E, rows[d0].status, nextSeq)
        BY <1>c DEF DiscInv, E
      <4>2. Explains(E \cup {ev}, rows[d0].status, nextSeq')
        BY <1>0, <1>c, <4>1, ExplainsMore
      <4> QED BY <1>a, <2>2, <3>1, <3>2, <4>2 DEF DiscInv
    <3>3. CASE /\ RowMatches(rows'[d0], ev.type)
               /\ rows'[d0].status # "absent"
      <4>1. Explains(E \cup {ev}, rows'[d0].status, nextSeq')
        BY <3>3 DEF Explains, RowMatches
      <4> QED BY <1>a, <2>2, <3>1, <3>3, <4>1 DEF DiscInv
    <3> QED BY <3>2, <3>3
  <2> QED BY <2>1, <2>2
<1>4. TransitionsJustified'
  <2> SUFFICES ASSUME NEW d \in Discs, NEW e \in StatusEvents(d)'
               PROVE  \E from \in Statuses :
                         /\ ValidTransition(from, TargetStatus[e.type])
                         /\ \/ from = "open"
                            \/ \E f \in StatusEvents(d)' :
                                  /\ f.seq < e.seq
                                  /\ TargetStatus[f.type] = from
    BY DEF TransitionsJustified
  <2>1. CASE e \in StatusEvents(d)
    BY <2>1, <1>a, <1>b DEF TransitionsJustified, E
  <2>2. CASE e \notin StatusEvents(d)
    <3>1. d = d0 /\ e = ev
      BY <1>a, <1>b, <2>2 DEF E
    <3>2. PICK from \in Statuses :
             /\ ValidTransition(from, TargetStatus[ev.type])
             /\ \/ from = "open"
                \/ \E f \in E : f.seq < ev.seq /\ TargetStatus[f.type] = from
      BY ExplainedIsJustified DEF E
    <3> QED BY <1>a, <3>1, <3>2
  <2> QED BY <2>1, <2>2
<1>5. OnlyTheEngineDrifts'
  <2> DEFINE Fine(T, row) ==
               \/ row.status \in {"escalated", "auto_closed"}
               \/ T = {} /\ row.status \in {"absent", "open"}
               \/ \E e \in T : /\ \A f \in T : f.seq <= e.seq
                               /\ \/ e.actorType = "escalation"
                                  \/ RowMatches(row, e.type)
  <2>1. \A d \in Discs : Fine(StatusEvents(d), rows[d])
    BY DEF OnlyTheEngineDrifts
  <2>2. Fine(E \cup {ev}, rows'[d0])
    <3>1. CASE \A e \in E : e.seq <= ev.seq
      <4>1. \A e \in E \cup {ev} : e.seq <= ev.seq
        BY <1>0, <3>1
      <4> QED BY <4>1
    <3>2. CASE ~ \A e \in E : e.seq <= ev.seq
      <4>1. PICK e \in E : \A f \in E : f.seq <= e.seq
        BY <1>c, <3>2 DEF HasLatest
      <4>2. /\ \A f \in E \cup {ev} : f.seq <= e.seq
            /\ ~(e.seq < ev.seq)
        BY <1>0, <1>c, <3>2, <4>1
      <4>3. e.actorType = "escalation"
        BY <4>2 DEF E
      <4> QED BY <4>2, <4>3
    <3> QED BY <3>1, <3>2
  <2>3. \A d \in Discs : Fine(StatusEvents(d)', rows'[d])
    BY <1>a, <1>b, <2>1, <2>2
  <2> QED BY <2>3 DEF OnlyTheEngineDrifts
<1>6. Once'
    BY DEF Once
<1> QED BY <1>1, <1>2, <1>3, <1>4, <1>5, <1>6

--------------------------------------------------------------------------------
(* The steps of the others.                                                *)

\* What is said of a request survives the steps of the others, as long as they
\* only add events, leave it its lock, and commit no user's status event on its
\* discrepancy between its INSERT and its COMMIT.
LEMMA RequestKept ==
    ASSUME LedgerInv, LedgerTypeOK', NEW q \in Requests,
           pc'[q] = pc[q], call'[q] = call[q], seen'[q] = seen[q],
           mine'[q] = mine[q],
           nextSeq' >= nextSeq, events \subseteq events',
           \A d \in Discs : rows[d].status # "absent" =>
                                rows'[d].status # "absent",
           pc[q] \in {"append", "commit"} => lock'[call[q].disc] = q,
           pc[q] = "commit" =>
              \A e \in StatusEvents(call[q].disc)' \ StatusEvents(call[q].disc) :
                  e.actorType = "escalation"
    PROVE  ServedInv(q)'
<1> DEFINE d == call[q].disc
           bound == IF pc[q] = "commit" THEN mine[q] ELSE nextSeq
           bound2 == IF pc[q] = "commit" THEN mine[q] ELSE nextSeq'
<1>0. /\ ServedInv(q) /\ HandlerInv(q) /\ TypeOK
      /\ nextSeq \in Nat /\ nextSeq' \in Nat /\ mine[q] \in Nat
      /\ \A e \in StatusEvents(d)' : e.seq \in Nat
    BY Numbers DEF LedgerInv, ServedInv, LedgerTypeOK, TypeOK, StoreTypeOK,
                   LedgerEvent, StatusEvents
<1>1. HandlerInv(q)'
  <2>1. mine'[q] < nextSeq'
    BY <1>0 DEF HandlerInv
  <2>2. pc[q] \in {"update", "append", "commit", "noteAppend"} =>
            Owns(call[q].tenant, call[q].disc)'
    BY <1>0, ServedCalls DEF HandlerInv, Owns, Served
  <2> QED BY <1>0, <2>1, <2>2 DEF HandlerInv
<1>2. StatusEvents(d) \subseteq StatusEvents(d)'
    BY DEF StatusEvents
<1>3. bound \in Nat /\ bound2 \in Nat /\ bound <= bound2
    BY <1>0
<1>4. Explains(StatusEvents(d), seen[q], bound) =>
          Explains(StatusEvents(d)', seen[q], bound2)
    BY <1>0, <1>2, <1>3, ExplainsMore
<1>5. pc[q] = "commit" => \A e \in StatusEvents(d)' :
                              e.seq < mine[q] \/ e.actorType = "escalation"
    BY <1>0 DEF ServedInv
<1> QED BY <1>0, <1>1, <1>4, <1>5 DEF ServedInv

\* What is said of the engine survives the steps of the requests and of
\* ingestion, which add no event of the engine's types.
LEMMA EngineKept ==
    ASSUME LedgerInv, LedgerTypeOK', UNCHANGED escVars,
           nextSeq' >= nextSeq, events \subseteq events',
           \A d \in Discs : rows[d].status # "absent" =>
                                rows'[d].status # "absent",
           \A e \in events' \ events : e.type \notin {"escalated", "auto_closed"}
    PROVE  EngineInv'
<1> USE DEF LedgerInv
<1>0. /\ nextSeq \in Nat /\ nextSeq' \in Nat
      /\ \A e \in events' : e.seq \in Nat
      /\ listed \subseteq Discs /\ disc \in Discs
    BY DEF LedgerTypeOK, TypeOK, StoreTypeOK, LedgerEvent, EngineTypeOK
<1>1. /\ epc' = epc /\ tenant' = tenant /\ rulesLeft' = rulesLeft
      /\ listed' = listed /\ disc' = disc /\ rule' = rule
    BY DEF escVars, engineVars, rule
<1>2. ASSUME NEW d \in Discs, Candidate(d) PROVE Candidate(d)'
  <2>1. /\ StatusEvents(d) \subseteq StatusEvents(d)'
        /\ \A e \in StatusEvents(d)' : e.seq \in Nat
    BY <1>0 DEF StatusEvents
  <2>2. Explains(StatusEvents(d)', rule.triggerStatus, nextSeq')
    BY <1>0, <1>2, <2>1, ExplainsMore DEF Candidate
  <2>3. Owns(tenant, d)'
    BY <1>1, <1>2 DEF Candidate, Owns
  <2> QED BY <1>1, <2>2, <2>3 DEF Candidate
<1>3. epc \in {"items", "severity", "status", "append"} =>
         rulesLeft' # <<>> /\ \A d \in listed' : Candidate(d)'
    BY <1>0, <1>1, <1>2 DEF EngineInv
<1>4. ASSUME epc \in {"severity", "status", "append"}
      PROVE  LET type == EventOfAction(rule.action)
             IN  /\ Candidate(disc)'
                 /\ ValidTransition(rule.triggerStatus, TargetStatus[type])
                 /\ \A e \in events' : e.disc = disc => e.type # type
  <2>1. Candidate(disc)'
    <3>1. PICK d \in Discs : d = disc
      BY <1>0
    <3> QED BY <1>1, <1>2, <1>4, <3>1 DEF EngineInv, Candidate, Owns, StatusEvents
  <2>2. EventOfAction(rule.action) \in {"escalated", "auto_closed"}
    BY ActionTargets
  <2> QED BY <1>4, <2>1, <2>2 DEF EngineInv
<1> QED BY <1>1, <1>3, <1>4 DEF EngineInv

--------------------------------------------------------------------------------
(* The steps of the endpoints and of ingestion.                            *)

\* A step of a request, or of ingestion, preserves the invariant.
LEMMA EndpointStep ==
    ASSUME LedgerInv, Next, UNCHANGED escVars
    PROVE  LedgerInv'
<1> USE DEF LedgerInv
<1>0. /\ TypeOK /\ TypeOK' /\ LedgerTypeOK'
      /\ \A r \in Requests : ServedInv(r) /\ HandlerInv(r)
  <2>1. TypeOK /\ \A r \in Requests : ServedInv(r) /\ HandlerInv(r)
    BY DEF LedgerTypeOK, ServedInv
  <2>2. TypeOK'
    BY <2>1, TypeStep
  <2>3. EngineTypeOK'
    BY DEF LedgerTypeOK, EngineTypeOK, escVars, engineVars
  <2> QED BY <2>1, <2>2, <2>3 DEF LedgerTypeOK
<1>1. /\ nextSeq \in Nat \ {0} /\ \A r \in Requests : mine[r] \in Nat
      /\ \A e \in events : e.seq \in Nat
      /\ \A d : StatusEvents(d) \subseteq events
    BY Numbers, <1>0 DEF TypeOK, StoreTypeOK
\* A step of r that writes neither table.
<1>a. ASSUME NEW r \in Requests, UNCHANGED <<rows, events>>,
             nextSeq' >= nextSeq, ServedInv(r)',
             \A q \in Requests \ {r} :
                /\ pc'[q] = pc[q] /\ call'[q] = call[q] /\ seen'[q] = seen[q]
                /\ mine'[q] = mine[q]
                /\ pc[q] \in {"append", "commit"} => lock'[call[q].disc] = q
      PROVE  LedgerInv'
  <2>1. \A d : StatusEvents(d)' = StatusEvents(d)
    BY <1>a DEF StatusEvents
  <2>2. TableInv'
    BY <1>0, <1>a, <2>1, TablesKept
  <2>3. EngineInv'
    BY <1>0, <1>a, EngineKept
  <2>4. ASSUME NEW q \in Requests \ {r} PROVE ServedInv(q)'
    <3>1. \A e \in StatusEvents(call[q].disc)' \ StatusEvents(call[q].disc) :
             e.actorType = "escalation"
      BY <1>a DEF StatusEvents
    <3> QED BY <1>0, <1>a, <3>1, RequestKept
  <2> QED BY <1>0, <1>a, <2>2, <2>3, <2>4
\* A step that ends the request r in a way that leaves nothing behind.
<1>b. ASSUME NEW r \in Requests, pc'[r] \in {"idle", "check", "noteGet", "done"},
             mine'[r] < nextSeq'
      PROVE  ServedInv(r)'
    BY <1>b DEF ServedInv, HandlerInv
<1>2. ASSUME NEW r \in Requests, ParseRequest(r) PROVE LedgerInv'
  <2>1. /\ pc'[r] \in {"check", "done"} /\ mine'[r] < nextSeq'
        /\ UNCHANGED <<rows, events, nextSeq, lock, seen, mine>>
        /\ \A q \in Requests \ {r} : pc'[q] = pc[q] /\ call'[q] = call[q]
    BY <1>0, <1>2 DEF ParseRequest, Answer, Goto, storeVars, HandlerInv, TypeOK,
                      RequestTypeOK
  <2>2. \A q \in Requests : pc[q] \in {"append", "commit"} =>
                                lock[call[q].disc] = q
    BY <1>0 DEF HandlerInv
  <2> QED BY <1>1, <1>a, <1>b, <2>1, <2>2
<1>3. ASSUME NEW r \in Requests, CheckOptimisticLock(r) PROVE LedgerInv'
  <2>1. /\ UNCHANGED <<rows, events, nextSeq, lock, call, seen, mine>>
        /\ pc' \in {[pc EXCEPT ![r] = x] : x \in {"noteGet", "read", "done"}}
        /\ pc'[r] = "read" => call[r].op # "AddNote"
    BY <1>0, <1>3 DEF CheckOptimisticLock, Answer, Goto, storeVars, TypeOK,
                      RequestTypeOK
  <2>2. \A q \in Requests : pc[q] \in {"append", "commit"} =>
                                lock[call[q].disc] = q
    BY <1>0 DEF HandlerInv
  <2>3. pc'[r] \in {"noteGet", "read", "done"} /\ mine[r] < nextSeq
    BY <1>0, <2>1 DEF HandlerInv, TypeOK, RequestTypeOK
  <2>4. ServedInv(r)'
    BY <2>1, <2>3 DEF ServedInv, HandlerInv
  <2>5. \A q \in Requests \ {r} : pc'[q] = pc[q]
    BY <1>0, <2>1 DEF TypeOK, RequestTypeOK
  <2> QED BY <1>1, <1>a, <2>1, <2>2, <2>4, <2>5
<1>4. ASSUME NEW r \in Requests, ReadAndValidate(r) PROVE LedgerInv'
  <2> DEFINE d == call[r].disc
  <2>0. d \in Discs /\ call[r].op \in Ops /\ call[r].op # "AddNote"
    BY <1>0, <1>4, ServedCalls DEF ReadAndValidate, Served, HandlerInv
  <2>1. /\ UNCHANGED <<rows, events, nextSeq, lock, call, mine>>
        /\ \A q \in Requests \ {r} : pc'[q] = pc[q] /\ seen'[q] = seen[q]
        /\ \A q \in Requests : mine[q] < nextSeq
        /\ \A q \in Requests : pc[q] \in {"append", "commit"} =>
                                   lock[call[q].disc] = q
    BY <1>0, <1>4 DEF ReadAndValidate, storeVars, Answer, Goto, HandlerInv,
                      TypeOK, RequestTypeOK
  <2>2. ServedInv(r)'
    <3>1. CASE pc'[r] = "done"
      BY <1>b, <2>1, <3>1
    <3>2. CASE pc'[r] # "done"
      <4>1. /\ pc'[r] = "update" /\ seen'[r] = rows[d].status
            /\ Owns(call[r].tenant, d)
            /\ ValidTransition(rows[d].status, TargetOf(call[r].op))
        BY <1>0, <1>4, <3>2 DEF ReadAndValidate, Answer, Goto, TypeOK,
                                RequestTypeOK
      <4>2. Explains(StatusEvents(d), rows[d].status, nextSeq)
        BY <2>0, <4>1 DEF TableInv, DiscInv, Owns
      <4>3. Explains(StatusEvents(call[r].disc)', seen'[r], nextSeq')
        BY <2>1, <4>1, <4>2 DEF StatusEvents
      <4> QED BY <2>0, <2>1, <4>1, <4>3 DEF ServedInv, HandlerInv, Owns
    <3> QED BY <3>1, <3>2
  <2> QED BY <1>1, <1>a, <2>1, <2>2
<1>5. ASSUME NEW r \in Requests, UpdateStatusWith(r) PROVE LedgerInv'
  <2> DEFINE d == call[r].disc
  <2>0. d \in Discs /\ NoOne \notin Requests
    BY <1>0, <1>5, ServedCalls, RequestAssumption, NoOneAssumption
       DEF UpdateStatusWith, Served
  <2>1. /\ UNCHANGED <<rows, events, nextSeq, call, seen, mine>>
        /\ pc[r] = "update" /\ pc'[r] = "append"
        /\ lock[d] = NoOne /\ lock'[d] = r
        /\ \A x \in Discs \ {d} : lock'[x] = lock[x]
        /\ \A q \in Requests \ {r} : pc'[q] = pc[q]
    BY <1>0, <1>5, <2>0 DEF UpdateStatusWith, Goto, TypeOK, RequestTypeOK,
                            StoreTypeOK
  <2>2. ServedInv(r)'
    BY <1>0, <2>1 DEF ServedInv, HandlerInv, Owns, StatusEvents
  <2>3. ASSUME NEW q \in Requests \ {r}, pc[q] \in {"append", "commit"}
        PROVE  lock'[call[q].disc] = q
    <3>1. lock[call[q].disc] = q /\ call[q].disc \in Discs
      BY <1>0, <2>3, ServedCalls DEF HandlerInv, Served
    <3> QED BY <2>0, <2>1, <3>1
  <2> QED BY <1>1, <1>a, <2>1, <2>2, <2>3
<1>6. ASSUME NEW r \in Requests, AppendWith(r) PROVE LedgerInv'
  <2> DEFINE d == call[r].disc
  <2>1. /\ UNCHANGED <<rows, events, lock, call, seen>>
        /\ pc[r] = "append" /\ pc'[r] = "commit" /\ mine'[r] = nextSeq
        /\ nextSeq' = nextSeq + 1 /\ nextSeq' > nextSeq /\ nextSeq > 0
        /\ nextSeq' >= nextSeq
        /\ \A q \in Requests \ {r} : pc'[q] = pc[q] /\ mine'[q] = mine[q]
        /\ \A q \in Requests : pc[q] \in {"append", "commit"} =>
                                   lock[call[q].disc] = q
    BY <1>0, <1>1, <1>6 DEF AppendWith, Goto, HandlerInv, TypeOK, RequestTypeOK
  <2>2. StatusEvents(d)' = StatusEvents(d)
    BY <2>1 DEF StatusEvents
  <2>3. \A e \in StatusEvents(d) : e.seq < nextSeq
    BY <1>1 DEF TableInv, Numbered
  <2>4. HandlerInv(r)'
    BY <1>0, <2>1 DEF HandlerInv, Owns
  <2>5. ServedInv(r)'
    BY <1>0, <2>1, <2>2, <2>3, <2>4 DEF ServedInv
  <2> QED BY <1>1, <1>a, <2>1, <2>5
<1>7. ASSUME NEW r \in Requests, Commit(r) PROVE LedgerInv'
  <2> DEFINE c == call[r]
             ev == CommittedEvent(r)
  <2>1. /\ c.op \in Ops /\ c.op # "AddNote" /\ c.disc \in Discs
        /\ mine[r] \in Nat /\ mine[r] < nextSeq
        /\ Owns(c.tenant, c.disc) /\ pc[r] = "commit" /\ lock[c.disc] = r
        /\ ValidTransition(seen[r], TargetOf(c.op))
        /\ Explains(StatusEvents(c.disc), seen[r], mine[r])
        /\ \A e \in StatusEvents(c.disc) :
              e.seq < mine[r] \/ e.actorType = "escalation"
    BY <1>0, <1>1, <1>7, ServedCalls DEF Commit, Served, HandlerInv, ServedInv
  <2>2. /\ ev.seq = mine[r] /\ ev.tenant = c.tenant /\ ev.disc = c.disc
        /\ ev.type = EventOf[c.op] /\ ev.actorType = "user"
        /\ ev.type \in StatusEventTypes /\ ev \in LedgerEvent
    BY <1>0, <1>7, CommitWrites
  <2>3. /\ events' = events \cup {ev}
        /\ \A x \in Discs \ {c.disc} : rows'[x] = rows[x]
        /\ nextSeq' = nextSeq /\ call' = call /\ seen' = seen /\ mine' = mine
        /\ pc' = [pc EXCEPT ![r] = "done"]
        /\ lock' = [lock EXCEPT ![c.disc] = NoOne]
    BY <1>0, <1>7, CommitWrites
  <2>4. RowMatches(rows'[c.disc], ev.type) /\ rows'[c.disc].status # "absent"
    BY <1>0, <1>7, CommitWrites
  <2>5. ev.type \notin {"escalated", "auto_closed"}
    BY <2>1, <2>2 DEF EventOf, Ops
  <2>6. /\ nextSeq' >= nextSeq /\ events \subseteq events'
        /\ \A x \in Discs : rows[x].status # "absent" =>
                                rows'[x].status # "absent"
    BY <1>1, <2>3, <2>4
  <2>7. TableInv'
    <3>1. ValidTransition(seen[r], TargetStatus[ev.type])
      BY <2>1, <2>2 DEF TargetOf
    <3>2. ev.tenant = tenantOf[ev.disc] /\ rows[ev.disc].status # "absent"
      BY <2>1, <2>2 DEF Owns
    <3> HIDE DEF ev
    <3> QED BY <1>0, <2>1, <2>2, <2>3, <2>4, <2>5, <2>6, <3>1, <3>2,
               StatusRecorded
  <2>8. EngineInv'
    BY <1>0, <2>3, <2>5, <2>6, EngineKept
  <2>9. ServedInv(r)'
    BY <1>0, <1>b, <2>1, <2>3 DEF TypeOK, RequestTypeOK
  <2>10. ASSUME NEW q \in Requests \ {r} PROVE ServedInv(q)'
    <3>1. pc[q] \in {"append", "commit"} =>
             call[q].disc # c.disc /\ lock'[call[q].disc] = q
      BY <1>0, <2>1, <2>3 DEF HandlerInv, TypeOK, StoreTypeOK
    <3>2. pc[q] = "commit" =>
             \A e \in StatusEvents(call[q].disc)' \ StatusEvents(call[q].disc) :
                 e.actorType = "escalation"
      BY <2>2, <2>3, <3>1 DEF StatusEvents
    <3>3. pc'[q] = pc[q]
      BY <1>0, <2>3 DEF TypeOK, RequestTypeOK
    <3> QED BY <1>0, <2>3, <2>6, <3>1, <3>2, <3>3, RequestKept
  <2> QED BY <1>0, <2>7, <2>8, <2>9, <2>10
<1>8. ASSUME NEW r \in Requests, NoteGetByID(r) PROVE LedgerInv'
  <2>1. /\ UNCHANGED <<rows, events, nextSeq, lock, call, seen, mine>>
        /\ pc'[r] \in {"noteAppend", "done"}
        /\ pc'[r] = "noteAppend" => Owns(call[r].tenant, call[r].disc)
        /\ \A q \in Requests \ {r} : pc'[q] = pc[q]
        /\ \A q \in Requests : mine[q] < nextSeq
        /\ \A q \in Requests : pc[q] \in {"append", "commit"} =>
                                   lock[call[q].disc] = q
    BY <1>0, <1>8 DEF NoteGetByID, storeVars, Answer, Goto, HandlerInv, TypeOK,
                      RequestTypeOK
  <2>2. ServedInv(r)'
    BY <2>1 DEF ServedInv, HandlerInv, Owns
  <2> QED BY <1>1, <1>a, <2>1, <2>2
<1>9. ASSUME NEW r \in Requests, Abort(r) PROVE LedgerInv'
  <2>1. /\ pc' = [pc EXCEPT ![r] = "done"]
        /\ UNCHANGED <<rows, events, nextSeq, call, seen, mine>>
    BY <1>9 DEF Abort, Answer, Goto
  <2>2. ServedInv(r)'
    BY <1>0, <1>b, <2>1 DEF HandlerInv, TypeOK, RequestTypeOK
  <2>3. \A q \in Requests \ {r} :
           pc[q] \in {"append", "commit"} => lock'[call[q].disc] = q
    BY <1>0, <1>9, ServedCalls
       DEF Abort, Unlock, Served, HandlerInv, TypeOK, StoreTypeOK
  <2>4. \A q \in Requests \ {r} : pc'[q] = pc[q]
    BY <1>0, <2>1 DEF TypeOK, RequestTypeOK
  <2> QED BY <1>1, <1>a, <2>1, <2>2, <2>3, <2>4
\* An event that is not about the status is added by a note and by ingestion.
<1>c. ASSUME NEW t \in Tenants, NEW d \in Discs, Owns(t, d),
             NEW type \in EventTypes \ StatusEventTypes, NEW actorType,
             AppendEvent(t, d, type, actorType), UNCHANGED <<rows, lock>>,
             \A q \in Requests :
                \/ /\ pc'[q] = pc[q] /\ call'[q] = call[q]
                   /\ seen'[q] = seen[q] /\ mine'[q] = mine[q]
                \/ pc'[q] = "done" /\ mine'[q] = nextSeq
      PROVE  LedgerInv'
  <2> DEFINE ev == NewLedgerEvent(nextSeq, t, d, type, actorType)
  <2>1. /\ ev.seq = nextSeq /\ ev.tenant = tenantOf[ev.disc]
        /\ ev.type \notin StatusEventTypes
        /\ ev.type \notin {"escalated", "auto_closed"}
        /\ events' = events \cup {ev}
        /\ nextSeq' = nextSeq + 1 /\ nextSeq' >= nextSeq /\ ev.seq < nextSeq'
    BY <1>1, <1>c DEF NewLedgerEvent, AppendEvent, Owns, EventTypes,
                      StatusEventTypes
  <2> HIDE DEF ev
  <2>2. \A x : StatusEvents(x)' = StatusEvents(x)
    BY <2>1 DEF StatusEvents
  <2>3. TableInv'
    BY <1>0, <1>c, <2>1, <2>2, TablesKept
  <2>4. EngineInv'
    BY <1>0, <1>c, <2>1, EngineKept
  <2>5. ASSUME NEW q \in Requests, pc'[q] = pc[q], call'[q] = call[q],
               seen'[q] = seen[q], mine'[q] = mine[q]
        PROVE  ServedInv(q)'
    <3>1. \A e \in StatusEvents(call[q].disc)' \ StatusEvents(call[q].disc) :
             e.actorType = "escalation"
      BY <2>1, <2>5 DEF StatusEvents
    <3>2. pc[q] \in {"append", "commit"} => lock'[call[q].disc] = q
      BY <1>0, <1>c DEF HandlerInv
    <3> QED BY <1>0, <1>c, <2>1, <2>5, <3>1, <3>2, RequestKept
  <2>6. ASSUME NEW q \in Requests, pc'[q] = "done", mine'[q] = nextSeq
        PROVE  ServedInv(q)'
    BY <1>1, <1>b, <2>1, <2>6
  <2> QED BY <1>0, <1>c, <2>3, <2>4, <2>5, <2>6
<1>10. ASSUME NEW r \in Requests, NoteAppend(r) PROVE LedgerInv'
  <2> DEFINE c == call[r]
  <2>1. /\ c.tenant \in Tenants /\ c.disc \in Discs /\ Owns(c.tenant, c.disc)
        /\ "note_added" \in EventTypes \ StatusEventTypes
    BY <1>0, <1>10, ServedCalls
       DEF NoteAppend, Served, HandlerInv, EventTypes, StatusEventTypes
  <2>2. \A q \in Requests :
           \/ /\ pc'[q] = pc[q] /\ call'[q] = call[q]
              /\ seen'[q] = seen[q] /\ mine'[q] = mine[q]
           \/ pc'[q] = "done" /\ mine'[q] = nextSeq
    BY <1>0, <1>10 DEF NoteAppend, Answer, Goto, TypeOK, RequestTypeOK
  <2> QED BY <1>10, <1>c, <2>1, <2>2 DEF NoteAppend
<1>11. ASSUME NEW d \in Discs, IngestReceived(d) PROVE LedgerInv'
  <2>1. /\ tenantOf[d] \in Tenants /\ Owns(tenantOf[d], d)
        /\ "received" \in EventTypes \ StatusEventTypes
    BY <1>11, TenantAssumption
       DEF IngestReceived, IntakeReceived, Owns, EventTypes, StatusEventTypes
  <2> QED BY <1>11, <1>c, <2>1 DEF IngestReceived, IntakeReceived, requestVars
<1>12. ASSUME NEW d \in Discs, IngestCreate(d) PROVE LedgerInv'
  <2>1. /\ rows[d].status = "absent" /\ rows'[d].status = "open"
        /\ \A x \in Discs \ {d} : rows'[x] = rows[x]
        /\ UNCHANGED <<events, nextSeq, lock, pc, call, seen, mine>>
    BY <1>0, <1>12 DEF IngestCreate, IntakeCreate, Create, requestVars, TypeOK,
                       StoreTypeOK
  <2>2. \A x : StatusEvents(x)' = StatusEvents(x)
    BY <2>1 DEF StatusEvents
  <2>3. StatusEvents(d) = {}
    BY <2>1 DEF TableInv, DiscInv
  <2>4. ASSUME NEW x \in Discs PROVE DiscInv(x)'
    <3>1. DiscInv(x)
      BY DEF TableInv
    <3>2. CASE x = d
      BY <2>1, <2>2, <2>3, <3>2 DEF DiscInv, Explains, HasLatest
    <3>3. CASE x # d
      BY <2>1, <2>2, <3>1, <3>3 DEF DiscInv
    <3> QED BY <3>2, <3>3
  <2>5. OnlyTheEngineDrifts'
    <3> SUFFICES ASSUME NEW x \in Discs
                 PROVE  \/ rows'[x].status \in {"escalated", "auto_closed"}
                        \/ StatusEvents(x)' = {} /\ rows'[x].status \in {"absent", "open"}
                        \/ \E e \in StatusEvents(x)' :
                              /\ \A f \in StatusEvents(x)' : f.seq <= e.seq
                              /\ \/ e.actorType = "escalation"
                                 \/ RowMatches(rows'[x], e.type)
      BY DEF OnlyTheEngineDrifts
    <3>1. CASE x = d
      BY <2>1, <2>2, <2>3, <3>1
    <3>2. CASE x # d
      BY <2>1, <2>2, <3>2 DEF TableInv, OnlyTheEngineDrifts
    <3> QED BY <3>1, <3>2
  <2>6. (Numbered /\ TenantIsolation /\ TransitionsJustified /\ Once)'
    BY <2>1, <2>2
       DEF TableInv, Numbered, TenantIsolation, TransitionsJustified, Once
  <2>7. /\ nextSeq' >= nextSeq
        /\ \A x \in Discs : rows[x].status # "absent" =>
                                rows'[x].status # "absent"
    BY <1>1, <2>1
  <2>8. EngineInv'
    BY <1>0, <2>1, <2>7, EngineKept
  <2>9. ASSUME NEW q \in Requests PROVE ServedInv(q)'
    <3>1. \A e \in StatusEvents(call[q].disc)' \ StatusEvents(call[q].disc) :
             e.actorType = "escalation"
      BY <2>1 DEF StatusEvents
    <3>2. pc[q] \in {"append", "commit"} => lock'[call[q].disc] = q
      BY <1>0, <2>1 DEF HandlerInv
    <3> QED BY <1>0, <2>1, <2>7, <3>1, <3>2, RequestKept
  <2> QED BY <1>0, <2>4, <2>5, <2>6, <2>8, <2>9 DEF TableInv
<1> QED BY <1>2, <1>3, <1>4, <1>5, <1>6, <1>7, <1>8, <1>9, <1>10, <1>11, <1>12
        DEF Next, RequestNext, Serve

--------------------------------------------------------------------------------
(* The steps of the engine.                                                *)

\* What is known of the engine between the verdict and the end of an action.
LEMMA ActionReady ==
    ASSUME LedgerInv, epc \in {"severity", "status", "append"}
    PROVE  LET type == EventOfAction(rule.action)
           IN  /\ rulesLeft # <<>> /\ rule \in Rule
               /\ disc \in Discs /\ Owns(tenant, disc)
               /\ tenant \in Tenants /\ tenant = tenantOf[disc]
               /\ rows[disc] \in Row /\ rows[disc].status # "absent"
               /\ Explains(StatusEvents(disc), rule.triggerStatus, nextSeq)
               /\ ValidTransition(rule.triggerStatus, TargetStatus[type])
               /\ \A e \in events : e.disc = disc => e.type # type
<1>1. rulesLeft # <<>> /\ EngineTypeOK /\ disc \in Discs /\ tenant \in Tenants
    BY DEF LedgerInv, LedgerTypeOK, EngineTypeOK, EngineInv
<1>2. rows[disc] \in Row
    BY <1>1 DEF LedgerInv, LedgerTypeOK, TypeOK, StoreTypeOK
<1> QED BY <1>1, <1>2, CurrentRule DEF LedgerInv, EngineInv, Candidate, Owns

\* Every step of the engine keeps every variable's type.
LEMMA EngineTypes ==
    ASSUME LedgerInv, EngineNext, UNCHANGED requestVars
    PROVE  LedgerTypeOK'
<1> USE DEF LedgerInv, LedgerTypeOK
\* A step that leaves the tables.
<1>a. ASSUME UNCHANGED storeVars, EngineTypeOK' PROVE LedgerTypeOK'
    BY <1>a DEF storeVars, requestVars, TypeOK, StoreTypeOK, RequestTypeOK, Served
<1>b. ASSUME StoreTypeOK', EngineTypeOK' PROVE LedgerTypeOK'
    BY <1>b DEF requestVars, TypeOK, RequestTypeOK, Served
<1>1. CASE Evaluate
    BY <1>1, <1>a DEF Evaluate, EngineTypeOK, EnginePCs
<1>2. CASE EvaluateEnds
    BY <1>2, <1>a DEF EvaluateEnds, EngineTypeOK, EnginePCs
<1>3. ASSUME NEW t \in Tenants, evaluateTenant(t) PROVE LedgerTypeOK'
  <2>1. rulesLeft' \in Seq(Rule)
    BY <1>3, RuleAssumption DEF evaluateTenant, EngineTypeOK
  <2> QED BY <1>3, <1>a, <2>1 DEF evaluateTenant, EngineTypeOK, EnginePCs
<1>4. CASE evaluateTenantEnds
    BY <1>4, <1>a DEF evaluateTenantEnds, EngineTypeOK, EnginePCs
<1>5. CASE evaluateRule
    BY <1>5, <1>a DEF evaluateRule, ListForEscalation, EngineTypeOK, EnginePCs
<1>6. CASE evaluateRuleEnds
  <2>1. rulesLeft # <<>>
    BY <1>6 DEF evaluateRuleEnds, EngineInv
  <2>2. Tail(rulesLeft) \in Seq(Rule)
    BY <2>1, CurrentRule
  <2> QED BY <1>6, <1>a, <2>2 DEF evaluateRuleEnds, EngineTypeOK, EnginePCs
<1>7. ASSUME NEW d \in Discs, executeNotify(d) PROVE LedgerTypeOK'
    BY <1>7, <1>a DEF executeNotify, EngineTypeOK
<1>8. ASSUME NEW d \in Discs, StartAction(d) PROVE LedgerTypeOK'
    BY <1>8, <1>a DEF StartAction, EngineTypeOK, EnginePCs
<1>9. CASE UpgradeSeverity
  <2>1. disc \in Discs /\ rows[disc] \in Row
    BY <1>9, ActionReady DEF UpgradeSeverity
  <2>2. rows' \in [Discs -> Row]
    <3>1. \A s \in Severities : [rows[disc] EXCEPT !.severity = s] \in Row
      BY <2>1 DEF Row
    <3> QED BY <1>9, <2>1, <3>1
            DEF UpgradeSeverity, UpdateSeverity, TypeOK, StoreTypeOK
  <2>3. StoreTypeOK'
    BY <1>9, <2>2 DEF UpgradeSeverity, TypeOK, StoreTypeOK
  <2>4. EngineTypeOK'
    BY <1>9 DEF UpgradeSeverity, EngineTypeOK, EnginePCs
  <2> QED BY <1>b, <2>3, <2>4
<1>10. CASE ChangeStatus
  <2>1. disc \in Discs /\ rows[disc] \in Row
    BY <1>10, ActionReady DEF ChangeStatus
  <2>2. TargetStatus[EventOfAction(rule.action)] \in Statuses
    BY ActionTargets
  <2>3. rows' \in [Discs -> Row]
    <3>1. UpdatedRow(rows[disc], TargetStatus[EventOfAction(rule.action)],
                     rule.action = "auto_close") \in Row
      BY <2>1, <2>2, RowTypes
    <3> QED BY <1>10, <3>1 DEF ChangeStatus, UpdateStatus, TypeOK, StoreTypeOK
  <2>4. StoreTypeOK'
    BY <1>10, <2>3 DEF ChangeStatus, TypeOK, StoreTypeOK
  <2>5. EngineTypeOK'
    BY <1>10 DEF ChangeStatus, EngineTypeOK, EnginePCs
  <2> QED BY <1>b, <2>4, <2>5
<1>11. CASE AppendOutcome
  <2>1. /\ disc \in Discs /\ tenant \in Tenants
        /\ EventOfAction(rule.action) \in EventTypes
    BY <1>11, ActionReady, ActionTargets DEF AppendOutcome
  <2>2. NewLedgerEvent(nextSeq, tenant, disc, EventOfAction(rule.action),
                       "escalation") \in LedgerEvent
    BY <2>1 DEF NewLedgerEvent, LedgerEvent, ActorTypes, TypeOK, StoreTypeOK
  <2>3. StoreTypeOK'
    BY <1>11, <2>2 DEF AppendOutcome, AppendEvent, TypeOK, StoreTypeOK
  <2>4. EngineTypeOK'
    BY <1>11 DEF AppendOutcome, EngineTypeOK, EnginePCs
  <2> QED BY <1>b, <2>3, <2>4
<1>12. CASE ActionFails
    BY <1>12, <1>a DEF ActionFails, EngineTypeOK, EnginePCs
<1>13. CASE EngineStops
    BY <1>13, <1>a DEF EngineStops, EngineTypeOK, EnginePCs
<1>14. CASE HourPasses
  <2>1. age' \in [Discs -> 0..MaxAge]
    BY <1>14, MaxAgeAssumption DEF HourPasses, EngineTypeOK
  <2> QED BY <1>14, <1>a, <2>1 DEF HourPasses, engineVars, EngineTypeOK
<1> QED BY <1>1, <1>2, <1>3, <1>4, <1>5, <1>6, <1>7, <1>8, <1>9, <1>10, <1>11,
          <1>12, <1>13, <1>14 DEF EngineNext, EnginePass

\* A step of the engine preserves the invariant.
LEMMA EngineStep ==
    ASSUME LedgerInv, EngineNext, UNCHANGED requestVars
    PROVE  LedgerInv'
<1> USE DEF LedgerInv
<1>0. /\ LedgerTypeOK' /\ TypeOK /\ TypeOK' /\ EngineTypeOK
      /\ nextSeq \in Nat \ {0} /\ \A e \in events : e.seq \in Nat
    BY EngineTypes, Numbers DEF LedgerTypeOK, TypeOK, StoreTypeOK
<1>1. UNCHANGED <<pc, call, seen, mine>>
    BY DEF requestVars
\* What is said of the requests survives every step of the engine.
<1>a. ASSUME UNCHANGED lock, nextSeq' >= nextSeq, events \subseteq events',
             \A e \in events' \ events : e.actorType = "escalation",
             \A d \in Discs : rows[d].status # "absent" =>
                                  rows'[d].status # "absent",
             TableInv', EngineInv'
      PROVE  LedgerInv'
  <2>1. ASSUME NEW q \in Requests PROVE ServedInv(q)'
    <3>1. \A e \in StatusEvents(call[q].disc)' \ StatusEvents(call[q].disc) :
             e.actorType = "escalation"
      BY <1>1, <1>a DEF StatusEvents
    <3>2. pc[q] \in {"append", "commit"} => lock'[call[q].disc] = q
      BY <1>a DEF ServedInv, HandlerInv
    <3> QED BY <1>0, <1>1, <1>a, <3>1, <3>2, RequestKept
  <2> QED BY <1>0, <1>a, <2>1
<1>b. ASSUME UNCHANGED storeVars, EngineInv' PROVE LedgerInv'
  <2>1. /\ UNCHANGED <<rows, events, nextSeq, lock>> /\ nextSeq' >= nextSeq
        /\ \A d : StatusEvents(d)' = StatusEvents(d)
    BY <1>0, <1>b DEF storeVars, StatusEvents
  <2>2. TableInv'
    BY <1>0, <2>1, TablesKept
  <2> QED BY <1>0, <1>a, <1>b, <2>1, <2>2
\* As long as the tables, the tenant and the rule stay, so do the candidates.
<1>c. ASSUME UNCHANGED <<rows, events, nextSeq, tenant, rulesLeft>>, NEW d
      PROVE  Candidate(d) <=> Candidate(d)'
    BY <1>c DEF Candidate, Owns, StatusEvents, rule
<1>2. CASE Evaluate \/ EvaluateEnds \/ evaluateTenantEnds
    BY <1>2, <1>b DEF Evaluate, EvaluateEnds, evaluateTenantEnds, EngineInv
<1>3. ASSUME NEW t \in Tenants, evaluateTenant(t) PROVE LedgerInv'
    BY <1>3, <1>b DEF evaluateTenant, EngineInv
<1>4. CASE evaluateRule
  <2>1. /\ UNCHANGED <<rows, events, nextSeq, lock, tenant, rulesLeft>>
        /\ UNCHANGED storeVars
        /\ epc' = "items" /\ rulesLeft # <<>>
    BY <1>4 DEF evaluateRule, storeVars
  <2>2. ASSUME NEW d \in listed' PROVE Candidate(d)
    <3>1. d \in Discs /\ Owns(tenant, d) /\ rows[d].status = rule.triggerStatus
      BY <1>4, <2>2 DEF evaluateRule, ListForEscalation
    <3>2. DiscInv(d)
      BY <3>1 DEF TableInv
    <3> QED BY <3>1, <3>2 DEF DiscInv, Candidate, Owns
  <2>3. EngineInv'
    BY <1>c, <2>1, <2>2 DEF EngineInv
  <2> QED BY <1>b, <2>1, <2>3
<1>5. CASE evaluateRuleEnds \/ EngineStops
    BY <1>5, <1>b DEF evaluateRuleEnds, EngineStops, EngineInv
<1>6. ASSUME NEW d \in Discs, executeNotify(d) PROVE LedgerInv'
  <2>1. /\ UNCHANGED <<rows, events, nextSeq, lock, tenant, rulesLeft>>
        /\ UNCHANGED storeVars
        /\ epc = "items" /\ epc' = "items" /\ listed' \subseteq listed
    BY <1>6 DEF executeNotify, storeVars
  <2>2. EngineInv'
    BY <1>c, <2>1 DEF EngineInv
  <2> QED BY <1>b, <2>1, <2>2
<1>7. ASSUME NEW d \in Discs, StartAction(d) PROVE LedgerInv'
  <2> DEFINE type == EventOfAction(rule.action)
  <2>1. /\ UNCHANGED <<rows, events, nextSeq, lock, tenant, rulesLeft>>
        /\ UNCHANGED storeVars /\ rule' = rule
        /\ epc = "items" /\ d \in listed /\ listed' \subseteq listed
    BY <1>7 DEF StartAction, storeVars, rule
  <2>2. \A x \in listed : Candidate(x) /\ Candidate(x)'
    BY <1>c, <2>1 DEF EngineInv
  <2>3. CASE epc' = "items"
    BY <2>1, <2>2, <2>3, <1>b DEF EngineInv
  <2>4. CASE epc' # "items"
    <3>1. /\ ~ExistsForDiscrepancy(tenant, d, type)
          /\ ValidTransition(rule.triggerStatus, TargetStatus[type])
          /\ disc' = d /\ epc' \in {"severity", "status"}
      BY <1>7, <2>1, <2>4 DEF StartAction
    <3>2. \A e \in events : e.disc = d => e.type # type
      BY <2>1, <2>2, <3>1
         DEF ExistsForDiscrepancy, Candidate, Owns, TableInv, TenantIsolation
    <3>3. Candidate(disc)'
      BY <2>1, <2>2, <3>1 DEF Candidate, Owns, StatusEvents
    <3>4. EngineInv'
      BY <2>1, <2>2, <3>1, <3>2, <3>3 DEF EngineInv
    <3> QED BY <1>b, <2>1, <3>4
  <2> QED BY <2>3, <2>4
<1>8. CASE ActionFails
  <2>1. /\ UNCHANGED <<rows, events, nextSeq, lock, tenant, rulesLeft, listed>>
        /\ UNCHANGED storeVars
        /\ epc \in {"severity", "status", "append"} /\ epc' = "items"
    BY <1>8 DEF ActionFails, storeVars
  <2>2. EngineInv'
    BY <1>c, <2>1 DEF EngineInv
  <2> QED BY <1>b, <2>1, <2>2
<1>9. CASE HourPasses
  <2>1. /\ UNCHANGED <<rows, events, nextSeq, tenant, rulesLeft, listed, epc, disc>>
        /\ UNCHANGED storeVars /\ rule' = rule
    BY <1>9 DEF HourPasses, storeVars, engineVars, rule
  <2>2. Candidate(disc)' <=> Candidate(disc)
    BY <2>1 DEF Candidate, Owns, StatusEvents
  <2>3. EngineInv'
    BY <1>c, <2>1, <2>2 DEF EngineInv
  <2> QED BY <1>b, <2>1, <2>3
\* A write of the row of disc that is not the INSERT of an event: the row is
\* still there.
<1>d. ASSUME UNCHANGED <<events, nextSeq, lock, tenant, rulesLeft, listed, disc>>,
             epc \in {"severity", "status"},
             epc' \in {"items", "status", "append"},
             \A d \in Discs : rows[d].status # "absent" =>
                                  rows'[d].status # "absent"
      PROVE  EngineInv'
  <2>1. rule' = rule /\ \A d : StatusEvents(d)' = StatusEvents(d)
    BY <1>d DEF rule, StatusEvents
  <2>2. ASSUME NEW d \in Discs, Candidate(d) PROVE Candidate(d)'
    BY <1>d, <2>1, <2>2 DEF Candidate, Owns
  <2>3. \A d \in listed' : Candidate(d)'
    BY <1>0, <1>d, <2>2 DEF EngineInv, EngineTypeOK
  <2>4. Candidate(disc)'
    <3>1. PICK d \in Discs : d = disc
      BY <1>0 DEF EngineTypeOK
    <3> QED BY <1>d, <2>1, <2>2, <3>1 DEF EngineInv, Candidate, Owns, StatusEvents
  <2> QED BY <1>d, <2>1, <2>3, <2>4 DEF EngineInv
<1>10. CASE UpgradeSeverity
  <2>1. disc \in Discs /\ rows[disc] \in Row
    BY <1>10, ActionReady DEF UpgradeSeverity
  <2>2. \A d \in Discs : /\ rows'[d].status = rows[d].status
                         /\ rows'[d].resolvedAt = rows[d].resolvedAt
    <3>1. \A s : /\ [rows[disc] EXCEPT !.severity = s].status = rows[disc].status
                 /\ [rows[disc] EXCEPT !.severity = s].resolvedAt
                       = rows[disc].resolvedAt
      BY <2>1 DEF Row
    <3>2. CASE UNCHANGED rows
      BY <3>2
    <3>3. CASE rows' = [rows EXCEPT ![disc] =
                           [rows[disc] EXCEPT !.severity = rule.newSeverity]]
      <4>1. /\ rows'[disc] = [rows[disc] EXCEPT !.severity = rule.newSeverity]
            /\ \A d \in Discs \ {disc} : rows'[d] = rows[d]
        BY <1>0, <2>1, <3>3 DEF TypeOK, StoreTypeOK
      <4>2. /\ rows'[disc].status = rows[disc].status
            /\ rows'[disc].resolvedAt = rows[disc].resolvedAt
        BY <3>1, <4>1
      <4> QED BY <4>1, <4>2
    <3> QED BY <1>10, <3>2, <3>3 DEF UpgradeSeverity, UpdateSeverity
  <2>3. /\ UNCHANGED <<events, nextSeq, lock, tenant, rulesLeft, listed, disc>>
        /\ epc = "severity" /\ epc' \in {"items", "status"}
        /\ nextSeq' >= nextSeq
        /\ \A d : StatusEvents(d)' = StatusEvents(d)
    BY <1>0, <1>10 DEF UpgradeSeverity, StatusEvents
  <2>4. TableInv'
    BY <1>0, <2>2, <2>3, TablesKept
  <2>5. EngineInv'
    BY <1>d, <2>2, <2>3
  <2> QED BY <1>a, <2>2, <2>3, <2>4, <2>5
<1>11. CASE ChangeStatus
  <2> DEFINE type == EventOfAction(rule.action)
  <2>1. /\ disc \in Discs /\ rows[disc] \in Row
        /\ Explains(StatusEvents(disc), rule.triggerStatus, nextSeq)
        /\ ValidTransition(rule.triggerStatus, TargetStatus[type])
    BY <1>11, ActionReady DEF ChangeStatus
  <2>2. /\ type \in {"escalated", "auto_closed"} /\ TargetStatus[type] = type
        /\ type = "escalated" => rule.triggerStatus = "investigating"
    BY <2>1, ActionTargets
  <2>3. rows'[disc].status = type /\ type # "absent"
    BY <1>0, <1>11, <2>1, <2>2
       DEF ChangeStatus, UpdateStatus, UpdatedRow, TypeOK, StoreTypeOK
  <2>4. /\ UNCHANGED <<events, nextSeq, lock, tenant, rulesLeft, listed, disc>>
        /\ epc = "status" /\ epc' = "append" /\ nextSeq' >= nextSeq
        /\ \A d \in Discs \ {disc} : rows'[d] = rows[d]
        /\ \A d : StatusEvents(d)' = StatusEvents(d)
    BY <1>0, <1>11 DEF ChangeStatus, UpdateStatus, StatusEvents, TypeOK,
                       StoreTypeOK
  <2>5. Explains(StatusEvents(disc), type, nextSeq)
    BY <2>1, <2>2 DEF Explains
  <2> HIDE DEF type
  <2>6. ASSUME NEW d \in Discs PROVE DiscInv(d)'
    <3>1. DiscInv(d)
      BY DEF TableInv
    <3>2. CASE d = disc
      <4>1. /\ rows'[d].status = type /\ StatusEvents(d)' = StatusEvents(d)
            /\ Explains(StatusEvents(d), type, nextSeq)
        BY <2>3, <2>4, <2>5, <3>2
      <4> QED BY <2>3, <2>4, <3>1, <4>1 DEF DiscInv
    <3>3. CASE d # disc
      BY <2>4, <3>1, <3>3 DEF DiscInv
    <3> QED BY <3>2, <3>3
  <2>7. OnlyTheEngineDrifts'
    <3> SUFFICES ASSUME NEW x \in Discs
                 PROVE  \/ rows'[x].status \in {"escalated", "auto_closed"}
                        \/ /\ StatusEvents(x)' = {}
                           /\ rows'[x].status \in {"absent", "open"}
                        \/ \E e \in StatusEvents(x)' :
                              /\ \A f \in StatusEvents(x)' : f.seq <= e.seq
                              /\ \/ e.actorType = "escalation"
                                 \/ RowMatches(rows'[x], e.type)
      BY DEF OnlyTheEngineDrifts
    <3>1. CASE x = disc
      BY <2>2, <2>3, <3>1
    <3>2. CASE x # disc
      BY <2>4, <3>2 DEF TableInv, OnlyTheEngineDrifts
    <3> QED BY <3>1, <3>2
  <2>8. (Numbered /\ TenantIsolation /\ TransitionsJustified /\ Once)'
    BY <2>4 DEF TableInv, Numbered, TenantIsolation, TransitionsJustified, Once
  <2>9. \A d \in Discs : rows[d].status # "absent" => rows'[d].status # "absent"
    BY <2>3, <2>4
  <2>10. EngineInv'
    BY <1>d, <2>4, <2>9
  <2> QED BY <1>a, <2>4, <2>6, <2>7, <2>8, <2>9, <2>10 DEF TableInv
<1>12. CASE AppendOutcome
  <2> DEFINE type == EventOfAction(rule.action)
             ev == NewLedgerEvent(nextSeq, tenant, disc, type, "escalation")
             s == rule.triggerStatus
  <2>1. /\ disc \in Discs /\ tenant \in Tenants /\ tenant = tenantOf[disc]
        /\ rows[disc].status # "absent"
        /\ Explains(StatusEvents(disc), s, nextSeq)
        /\ ValidTransition(s, TargetStatus[type])
        /\ \A e \in events : e.disc = disc => e.type # type
    BY <1>12, ActionReady DEF AppendOutcome
  <2>2. type \in EventTypes /\ type \in StatusEventTypes
    BY ActionTargets
  <2>3. /\ ev.seq = nextSeq /\ ev.tenant = tenant /\ ev.disc = disc
        /\ ev.type = type /\ ev.actorType = "escalation" /\ ev \in LedgerEvent
    BY <1>0, <2>1, <2>2 DEF NewLedgerEvent, LedgerEvent, ActorTypes
  <2>4. /\ events' = events \cup {ev} /\ nextSeq' = nextSeq + 1
        /\ nextSeq' >= nextSeq /\ ev.seq < nextSeq'
        /\ UNCHANGED <<rows, lock, tenant, rulesLeft, listed, disc>>
        /\ epc = "append" /\ epc' = "items"
    BY <1>0, <1>12, <2>3 DEF AppendOutcome, AppendEvent
  <2> HIDE DEF ev, type, s
  <2>5. \A e \in StatusEvents(ev.disc) : e.seq < ev.seq
    BY <1>0, <2>3 DEF TableInv, Numbered, StatusEvents
  <2>6. TableInv'
    BY <1>0, <2>1, <2>2, <2>3, <2>4, <2>5, StatusRecorded
  <2>7. EngineInv'
    <3>1. ASSUME NEW d \in listed PROVE Candidate(d)'
      <4>1. Candidate(d) /\ rule' = rule /\ nextSeq' \in Nat
        BY <1>0, <2>4 DEF EngineInv, rule, TypeOK, StoreTypeOK
      <4>2. /\ StatusEvents(d) \subseteq StatusEvents(d)'
            /\ \A e \in StatusEvents(d)' : e.seq \in Nat
        BY <1>0, <2>3, <2>4 DEF StatusEvents
      <4>3. Explains(StatusEvents(d)', rule.triggerStatus, nextSeq')
        BY <1>0, <2>4, <4>1, <4>2, ExplainsMore DEF Candidate
      <4> QED BY <2>4, <4>1, <4>3 DEF Candidate, Owns
    <3> QED BY <2>4, <3>1 DEF EngineInv
  <2> QED BY <1>a, <2>3, <2>4, <2>6, <2>7
<1> QED BY <1>2, <1>3, <1>4, <1>5, <1>6, <1>7, <1>8, <1>9, <1>10, <1>11, <1>12
        DEF EngineNext, EnginePass

--------------------------------------------------------------------------------
(* What the endpoints and the engine guarantee together.                   *)

\* Nothing has happened yet: the invariant holds initially.
LEMMA LedgerInvInit == LedgerInit => LedgerInv
<1> SUFFICES ASSUME LedgerInit PROVE LedgerInv
    OBVIOUS
<1> USE DEF LedgerInit, Init, StoreInit, RequestInit, EngineInit
<1>1. IInv
    BY InvariantInit
<1>2. EngineTypeOK
    BY MaxAgeAssumption DEF EngineTypeOK, EnginePCs
<1>3. \A d : StatusEvents(d) = {}
    BY DEF StatusEvents
<1>4. TableInv
    BY <1>1, <1>3 DEF IInv, TableInv, DiscInv, HasLatest, OnlyTheEngineDrifts,
                      Once, AbsentRow
<1>5. \A r \in Requests : ServedInv(r)
    BY <1>1 DEF IInv, RequestInv, ServedInv
<1>6. EngineInv
    BY DEF EngineInv
<1> QED BY <1>1, <1>2, <1>4, <1>5, <1>6 DEF LedgerInv, LedgerTypeOK, IInv

\* The inductive invariant holds in every reachable state.
LEMMA LedgerInvHolds == LedgerSpec => []LedgerInv
<1>1. LedgerInv /\ UNCHANGED ledgerVars => LedgerInv'
  <2> SUFFICES ASSUME LedgerInv, UNCHANGED ledgerVars PROVE LedgerInv'
    OBVIOUS
  <2> USE DEF ledgerVars
  <2>1. LedgerTypeOK'
    BY DEF LedgerInv, LedgerTypeOK, TypeOK, StoreTypeOK, RequestTypeOK, Served,
           EngineTypeOK
  <2>2. /\ \A d : StatusEvents(d)' = StatusEvents(d)
        /\ nextSeq' >= nextSeq /\ UNCHANGED escVars
    BY Numbers DEF LedgerInv, StatusEvents, escVars, engineVars
  <2>3. TableInv'
    BY <2>1, <2>2, TablesKept
  <2>4. EngineInv'
    BY <2>1, <2>2, EngineKept
  <2>5. ASSUME NEW q \in Requests PROVE ServedInv(q)'
    <3>1. \A e \in StatusEvents(call[q].disc)' \ StatusEvents(call[q].disc) :
             e.actorType = "escalation"
      BY DEF StatusEvents
    <3>2. pc[q] \in {"append", "commit"} => lock'[call[q].disc] = q
      BY DEF LedgerInv, ServedInv, HandlerInv
    <3> QED BY <2>1, <2>2, <3>1, <3>2, RequestKept
  <2> QED BY <2>1, <2>3, <2>4, <2>5 DEF LedgerInv
<1>2. LedgerInv /\ [LedgerNext]_ledgerVars => LedgerInv'
    BY <1>1, EndpointStep, EngineStep DEF LedgerNext
<1> QED BY <1>2, LedgerInvInit, PTL DEF LedgerSpec

\* Every variable keeps its type, whatever endpoints and engine do.
THEOREM LedgerTypeCorrect == LedgerSpec => []LedgerTypeOK
<1>1. LedgerInv => LedgerTypeOK
    BY DEF LedgerInv
<1> QED BY <1>1, LedgerInvHolds, PTL

\* The engine records at most one escalation and at most one automatic closing
\* of a discrepancy, for any rules, any number of passes, failures and restarts:
\* nobody else appends such events between its dedup query and its INSERT.
THEOREM RecordedOnceHolds == LedgerSpec => []RecordedOnce
<1>1. LedgerInv => RecordedOnce
  <2> SUFFICES ASSUME LedgerInv, NEW d \in Discs,
                      NEW type \in {"escalated", "auto_closed"}
               PROVE  Cardinality({e \in events : e.disc = d /\ e.type = type}) <= 1
    BY DEF RecordedOnce
  <2> DEFINE R == {e \in events : e.disc = d /\ e.type = type}
  <2>1. CASE R = {}
    BY <2>1, FS_EmptySet
  <2>2. CASE R # {}
    <3>1. PICK e : e \in R
      BY <2>2
    <3>2. R = {e}
      BY <3>1 DEF LedgerInv, TableInv, Once
    <3>3. Cardinality({e}) = 1
      BY FS_Singleton
    <3> QED BY <3>2, <3>3
  <2> QED BY <2>1, <2>2
<1> QED BY <1>1, LedgerInvHolds, PTL

\* Every recorded change, the engine's included, was allowed from a status
\* recorded before it, although the engine acts on a status it listed earlier and
\* may leave a change of its own without an event.
THEOREM LedgerChangesAreJustified == LedgerSpec => []TransitionsJustified
<1>1. LedgerInv => TransitionsJustified
    BY DEF LedgerInv, TableInv
<1> QED BY <1>1, LedgerInvHolds, PTL

\* Row and trail disagree only by the doing of the engine: never because of two
\* users.
THEOREM OnlyTheEngineDriftsHolds == LedgerSpec => []OnlyTheEngineDrifts
<1>1. LedgerInv => OnlyTheEngineDrifts
    BY DEF LedgerInv, TableInv
<1> QED BY <1>1, LedgerInvHolds, PTL

\* No event is left on another tenant's discrepancy, by a request or by the
\* engine.
THEOREM LedgerTenantsAreIsolated == LedgerSpec => []TenantIsolation
<1>1. LedgerInv => TenantIsolation
    BY DEF LedgerInv, TableInv
<1> QED BY <1>1, LedgerInvHolds, PTL
================================================================================
