# Financial Compliance Ledger: a TLA+ development

The Financial Compliance Ledger (`src/`) stores reconciliation discrepancies and
an append-only trail of events about them. Messages bring discrepancies in, an
HTTP API moves them through a workflow, background jobs escalate, notify, report
and clean up. All of these run at the same time over one PostgreSQL database,
mostly without transactions. This directory models those parts in TLA+, checks
small instances with TLC, and proves every safety property of theirs with TLAPS.

To run: `tlc -config X.cfg M` for each pair in `PROJECT.json` under `runs`,
`tlapm M.tla` for each module `M` whose name ends in `Proofs`.

## 1. The system

| Part | State | Operations | Modelled by |
|---|---|---|---|
| Domain (`internal/domain`) | none | state machine of a discrepancy, event types, rules | `DiscrepancyDomain` |
| Stores (`internal/store`) | tables `discrepancies`, `ledger_events` | Create, UpdateStatus, UpdateSeverity, Append, the reads that decide writes | `LedgerStore` |
| Workflow endpoints (`handlers/discrepancies_actions.go`, `_workflow.go`) | one transaction per request | Acknowledge, Investigate, Resolve, AddNote | `Workflow` |
| Escalation engine (`engine/escalation*.go`) | its loops over tenants, rules, discrepancies | escalate, auto_close, notify | `Escalation`, `Ledger` |
| Ingestion (`engine/ingestion*.go`) | the JetStream subscription | handleMessage | `Ingestion` |
| Notifications (`engine/escalation_notify.go`, `notification_retry.go`, `notify/hub_client.go`) | table `notification_log` | executeNotify, RetryPending, SendEvent | `Notification` |
| Reports (`internal/report`, `handlers/reports*.go`, `engine/report_cleanup.go`) | table `reports`, files | Create, Generate, Download, Cleanup | `Reports` |
| Rules API (`handlers/rules.go`, `store/rule_store.go`) | table `escalation_rules` | Create, Update, Delete | `Rules` |
| RAG feed (`engine/rag_*.go`) | a watermark in memory | runSync, FeedResolved | `RagFeed` |
| Rate limiting (`middleware/ratelimit.go`) | a counter and a window per address | allow | `RateLimiter` |
| Tenant authentication and API (`middleware/tenant.go`, `handlers/tenant.go`) | a cache; table `tenants` | Handler, Register | `Access` |
| Queries (`handlers/discrepancies.go`, `DiscrepancyStore.List`) | none: a cursor the client keeps | List | `Listing` |
| Statistics, health, metrics | none of their own | read-only | not modelled |

How they meet: ingestion creates the rows the endpoints and the engine update;
endpoints and engine write the same two tables, the former in a transaction that
holds the row lock, the latter statement by statement; the engine's notify action
and the retrier share `notification_log` and the hub client; generator, cleaner
and downloads share `reports` and a directory; the rules API edits what the engine has
read for its pass, and what the notification log refers to; the RAG syncer reads, by a
time a handler took before its commit, what endpoints and engine close; every request
passes the limiter and all but three routes the tenant cache. One process runs all of it. It may
die at any point, and nothing but the database, the stream and the files survives.

What is hard here, and what makes each part correct:

- **Workflow.** A status is read without a lock, validated, and overwritten later;
  numbers of events are taken inside open transactions; a commit may succeed and be
  reported as failed. Correct means that row and trail agree, every recorded change
  was allowed, answers do not contradict the ledger, tenants stay apart.
- **Escalation.** The listing is stale when it is used, and row and event are two
  statements. Correct means that each outcome is recorded at most once, that every
  recorded change was allowed, and that users' changes stay consistent beside it.
- **Ingestion.** At-least-once delivery over a handler of three statements. Correct
  means that Ack implies a stored discrepancy, one `received` per discrepancy, and
  every message settled in the end.
- **Notifications.** Two goroutines, one table, no locks or constraints. Correct means
  one row per rule and discrepancy, a bounded number of attempts, no overwritten
  outcome, no request about what the hub has answered unless the answer was lost, and
  every failed notification ends as sent or out of attempts.
- **Reports.** Files and rows have no common transaction. Correct means that only whole
  files are served, only expired ones are missing, and each expired one is cleaned.
- **Rules.** Edited and deleted while the engine holds copies of them. Correct means that
  the engine's promises hold whatever the lists, and the notifications' whatever is deleted.
- **RAG feed.** A watermark by a time that is older than the commit. Correct means that a
  closing is fed unless its upload failed, it was committed too late or it was too old at
  a restart.
- **Access.** Fixed windows; a cache that nobody invalidates, filled by lookups that end in
  any order. Correct means a bound on what a minute lets through, no refusal of who keeps to
  the limit, and a bound on how stale a verdict is.
- **Listing.** Pages read at different times, over rows that appear and change meanwhile.
  Correct means no row twice, none missing that was there all along, and an end.

`PROJECT.json` lists the individual hazards, each at its line.

## 2. Modules

`DiscrepancyDomain` <- `LedgerStore` <- `Workflow`, `Escalation` <- `Ledger`;
`LedgerStore` <- `Ingestion`; `Rules` <- `Notification`; `RateLimiter` <- `Access`;
`Reports`, `RagFeed` and `Listing` stand alone;
`AuditTrail` is an abstract specification; the theorems about a component are in its
`*Proofs` module (`AccessProofs` has the limiter's too);
each `MC*` module gives constants their values.

**What a step is.** Every SQL statement, HTTP request and file operation that another
actor can tell from the next is a step of its own, so that everything interleaves as it
does at run time. PostgreSQL runs at READ COMMITTED: a statement sees what is committed
when it starts; an UPDATE waits for the row lock and then overwrites. A statement may
fail, and may take effect although its caller is told that it failed. Actions bear the
names of the Go functions; `PROJECT.json` maps each to its lines.

**LedgerStore.** `rows` and `events` are the two tables as committed, `nextSeq` is the
BIGSERIAL, `lock` the row locks of open transactions. A row keeps status, severity and
whether `resolved_at` is set; an event keeps number, tenant, discrepancy, type and actor
type. Amounts, texts and times are left out: no decision depends on them.

**Workflow.** A request goes `check` (optimistic lock, on the pool), `read` (BEGIN,
SELECT without FOR UPDATE, verdict), `update` (takes the lock), `append` (takes the
number), `commit`; a note has no transaction. What a transaction has written stays out
of `rows` and `events` until `Commit` makes it visible. `Abort` is every failure:
statement, client or process. `IngestCreate` and `IngestReceived` stand for ingestion:
they are the two writes of `LedgerStore!Intake`, which `IngestionIsIntake` proves of the
handler itself.

**AuditTrail** says what the endpoints promise to an auditor: a discrepancy's status and
its numbered entries change in one step, entries appear in the order of their numbers,
and each change is allowed from a status on record. `Workflow!ImplementsAuditTrail` maps
the tables to it: committed rows to `status`, committed status events to `trail`.

**Escalation** is one pass of the engine: tenants, their rules, `ListForEscalation`, then
for each listed discrepancy the dedup query, the verdict on the *listed* status,
UpdateSeverity, UpdateStatus, AppendWith, each on its own. `ruleLists` has the lists the
rules API may leave behind; every pass reads any one of them. `HourPasses` ages
discrepancies up to `MaxAge`. **Ledger** runs it beside the endpoints.

**Ingestion** has the handler's queries and inserts as steps, over a stream that delivers
again until acknowledged or terminated. JetStream is external: copies of a message may
wait in the client's queue (AckWait is shorter than the handler's timeouts), and an Ack
may be lost.

**Notification** has the engine's executeNotify, the retrier with the rows it once read
(a set; `Oldest` gives the order it takes them in),
and SendEvent with its attempts, for a hub that answers, refuses or fails at will. An answer
of an enabled hub may itself say `skipped`, as that of a disabled one does. A restart may turn
the hub on or off, since that is configuration. `answered` is a history variable: whether the
hub answered about a row (`yes`), and whether the update that was to record the answer failed or
the process died before it (`lost`). The statuses are those of the table's CHECK, which refuses
the fifth constant of `notification.go`, `skipped`.

**Rules** has the table and the API: a rule is new, firing (active, with action notify),
silent or deleted. `Notification` extends it: the engine reads the firing rules once per
pass, `ChangeRule` may come between any two steps, and a foreign key ties the log to the
table.

**RateLimiter** and **Access**: `allow` is atomic, as its mutex makes it. A request then is
answered, registers a tenant, or goes `auth` (the cache), `query` and `result` (the lookup,
whose snapshot and whose answer are two moments). A clock counts ticks for windows, cache
entries and the lookup's timeout. An operator who (de)activates a tenant with SQL is
external: no code of the service does. `admits` is a history variable, the times of the
latest requests let through; `changedAt` and `was`, the time of a tenant's last change and its
status until then, are others.

**RagFeed**: `runSync` takes its time, `ListResolved` reads all rows, `FeedResolved` uploads
each, `SyncEnds` moves the watermark. The writers are a closing that takes its time
(`StampClosing`; any number of them at once) and commits later, or never, and the late request of `workflow_terminal`
that reopens. `excused` collects the closings that have a reason not to be fed: a failed or
disabled upload, a commit behind the watermark, an age above `Lookback` at a restart.

**Listing**: a client walks from page to page with the cursor it was given. Rows get their
`created_at` when the INSERT begins and appear when it commits, ids are in no order of time,
and a row may join or leave the client's filter at any time. `settled` holds the rows that
have matched since the first page. `listPage` is the set of the pages that `ORDER BY`
(`Descending`) and `LIMIT` (`Cut`) admit; `QueryHasOneAnswer` proves that there is just one.

**Reports** has a generator per report, the cleaner and downloads. A file is absent,
partial (the empty PDF placeholder, a failed write) or full. A conversion that reports a
failure may leave any of these behind. `Expire` is the passing of the retention period, at any
point of a generation.

Operators marked *Mutant* are wrong versions of the definition after them, listed in
`PROJECT.json`: each is a plausible bug that breaks the property it is paired with.

## 3. Runs

| Run | Shows | Bounds |
|---|---|---|
| `workflow_safety` | `RowIsProjection`, `TransitionsJustified`, `EventsTraceable`, `TenantIsolation`, `ImplementsAuditTrail` | 4 requests under 2 tenants, 1 discrepancy |
| `ledger_safety` | `RecordedOnce`, `TransitionsJustified`, `OnlyTheEngineDrifts` | 3 requests, 2 lists of 5 and 2 rules, 1 discrepancy, age 0..1 |
| `ledger_live` | `EveryPassEnds`, `EveryRequestEnds` | 2 requests, the closing rule, 1 discrepancy |
| `ingestion` | `AckedIsPersisted`, `ReceivedOnce`, `EveryMessageSettles` | 3 messages, 2 overlapping copies, 1 restart |
| `notification` | `NotifiedOnce`, `AttemptsBounded`, `NoSharedRow`, `NoRepeatedSend`, `SettledIsFinal`, `SentIsAnswered`, `RetriesSettle` | 1 rule, 2 discrepancies, limit of 3 attempts, 1 restart |
| `reports` | `ServedIsComplete`, `OnlyExpiredIsMissing`, `CleanedLeavesNoFile`, `OutcomeIsFinal`, `ExpiredIsCleaned` | 2 reports, 1 download, 1 restart |
| `access` | `BurstBounded`, `RefusedAtLimit`, `VerdictsAreRecent` | 2 requests at a time, 1 address, 1 tenant, limit 2, window 2, TTL 2, lookup 1, clock 0..5 |
| `rag_feed` | `OnlyExcusedIsLost`, `ClosedIsFed` | 1 discrepancy, lookback 1, clock 0..3, 1 restart |
| `listing` | `WalkIsComplete`, `WalkEnds` | 4 rows, clock 1..2, limits none, 1 and above the cap (default 2, cap 3) |

Each run with invariants also checks its module's type invariant. Why the bounds are enough:

- *One discrepancy* for workflow and ledger: every guard and write concerns the row, the
  events and the lock of one discrepancy; discrepancies share only the sequence, whose
  gaps aborted requests already produce. The theorems drop the bound altogether.
- *Four requests*: acknowledge, investigate, resolve, and one that validated an old status
  and commits after the others. With three (`ledger_safety`) the engine plays the fourth.
- *Expected sequences* are left out of the safety run: the check only ever stops a request
  and changes no table. `workflow_optimistic` and `ledger_live` have them.
- *Messages*: one that can be stored, one that the table's CHECK refuses for the same
  discrepancy, one without a required field; two copies of the first, so that a redelivery
  waits while the first is handled.
- *Rules*: one per action of the engine, one whose new severity the table refuses and one
  the state machine never lets act. For liveness the closing rule is enough: its update is
  the one that can meet the lock of any request.
- *Access*: addresses share nothing, tenants neither; two requests are enough for one lookup
  to overwrite the entry of another, and five ticks for two windows, or a lookup, the life
  of its entry and one tick more. A limit of 2 tells the request that opens a window from
  the others.
- *RAG*: every guard concerns one closing and the watermark, so that one discrepancy, which
  may be reopened and closed again, meets every case; three ticks hold a closing, a pass,
  and a restart beyond the lookback.
- *Listing*: four rows make a full page of each size, one that is followed by an empty page
  (limit 1 or 2), and one more row than the cap of 3. Two times give equal and different
  `created_at`.
- *One restart* everywhere: it may come at every step, and a second one adds a start from
  a state that a first also reaches.

Deadlock is checked where something can always happen (engine, stream); elsewhere the
system may be idle when every request is served, and the cfg says so.

Symmetry (interchangeable requests) is used in runs without liveness only.

### Fairness

- `Fairness`, `LedgerFairness`: weak fairness of each handler and of the engine's pass. Go
  schedules every goroutine, PostgreSQL answers every statement, the ticker fires. Nothing
  makes a client send a request, a statement fail or the process stop, so `ParseRequest`,
  `Abort`, `ActionFails` and `EngineStops` have none.
- `IngestFairness`: the server delivers what is not settled, and the callback runs.
- `NotifyFairness`: retrier and ticker run, SendEvent ends (its attempts and the HTTP
  timeout are bounded), and the update after a retry does not fail on all of the repeated
  rounds (strong fairness). Nothing is assumed of the hub.
- `RagFairness`: the ticker fires and a pass goes on; the query does not fail on every one
  of the repeated passes (strong fairness). Nothing is assumed of the uploads or the writers.
- `ListingFairness`: the client asks for the next page while it has a cursor, and is answered.
- `CleanerFairness`: the daily round comes; neither Remove nor MarkCleaned of a report
  fails on every round (strong fairness: rounds repeat for ever).

## 4. Findings

Three runs check what a comment, a migration or an interface of the repository says, and TLC
finds the code do otherwise. `PROJECT.json` quotes the lines.

| Run | Said | Happens |
|---|---|---|
| `workflow_terminal` | resolved and auto_closed have no transitions out | a request that validated an older status commits after the resolution and overwrites it; `resolved_at` is erased |
| `workflow_optimistic` | expected_sequence is an optimistic lock | it is compared before the transaction begins: two requests with the same expectation both succeed |
| `ledger_recorded` | every state change creates an event | the engine's event fails, or the process stops, after its status is committed |

Met on the way, without a run of their own:

- Migration 003 speaks of a monotonically increasing order per discrepancy; a note may be
  numbered and visible while a transaction with a smaller number is still open.
- `README.md:9` counts the receipt among the recorded changes; `persistDiscrepancy`
  acknowledges a message although the insert of `received` failed (`ingestion_handler.go:208`).
- `notification_retry.go:137` marks a notification as sent when the hub is disabled
  (`SentIsAnswered` has that exception); `escalation_notify.go:13-15` speaks of a status
  "skipped" for that case, the engine records `pending`.
- The engine can also overwrite a terminal status, since it validates the status it listed.
- `ratelimit.go:26-28` promises a rolling 60-second window; the window is fixed, so that a
  minute can see up to one request less than twice the limit (`BurstBounded`).
- `.agent/rules/CODEBASE_CONTEXT.md:171` says that the tenant cache is invalidated on tenant
  update; nothing does (`VerdictsAreRecent` states the delay).
- `discrepancies.go:32-33` names `date_from` and `date_to`; `parseListFilters` reads neither.
- `openapi.yaml:67-76` documents `page` and `per_page` for the list of discrepancies; the handler
  reads `cursor` and `limit`, which `Listing` models.
- A rule that has once notified can never be deleted: the foreign key refuses, and the answer
  is 500.

## 5. Proofs

Every invariant and every safety action property that a run checks is also a theorem, for
any sets of requests, discrepancies, tenants, rules, messages, reports, rows and addresses,
and any limits, windows, timeouts and numbers of restarts. The assumptions are the named
ones of the modules that declare the constants: functions have their domains, numbers are
natural, `NoOne`, `NoRecord` and their like are not values they stand apart from, and a
table has finitely many ids. TLC evaluates each of them in the runs.

| Module | Theorems (`Spec => []...` of the property in brackets, unless said otherwise) |
|---|---|
| `WorkflowProofs` | `TypeCorrect` (`TypeOK`), `RowAgreesWithTrail` (`RowIsProjection`), `ChangesAreJustified` (`TransitionsJustified`), `TenantsAreIsolated` (`TenantIsolation`), `EventsAreTraceable` (`EventsTraceable`), `EndpointsImplementAuditTrail` (the refinement `ImplementsAuditTrail`) |
| `LedgerProofs` | `LedgerTypeCorrect` (`LedgerTypeOK`), `RecordedOnceHolds` (`RecordedOnce`), `LedgerChangesAreJustified` (`TransitionsJustified`), `OnlyTheEngineDriftsHolds` (`OnlyTheEngineDrifts`), `LedgerTenantsAreIsolated` (`TenantIsolation`) |
| `IngestionProofs` | `IngestTypeCorrect` (`IngestTypeOK`), `AckedIsPersistedHolds` (`AckedIsPersisted`), `ReceivedOnceHolds` (`ReceivedOnce`), `IngestionIsIntake` (`IngestSpec => [][Intake]_storeVars`) |
| `NotificationProofs` | `NotifyTypeCorrect` (`NotifyTypeOK`), `NotifiedOnceHolds` (`NotifiedOnce`), `AttemptsBoundedHolds` (`AttemptsBounded`), `NoSharedRowHolds` (`NoSharedRow`), `NoRepeatedSendHolds` (`NoRepeatedSend`), and the action properties `SettledIsFinalHolds` (`SettledIsFinal`), `SentIsAnsweredHolds` (`SentIsAnswered`) |
| `ReportsProofs` | `ReportTypeCorrect` (`ReportTypeOK`), `ServedIsCompleteHolds` (`ServedIsComplete`), `OnlyExpiredIsMissingHolds` (`OnlyExpiredIsMissing`), `CleanedLeavesNoFileHolds` (`CleanedLeavesNoFile`), and the action property `OutcomeIsFinalHolds` (`OutcomeIsFinal`) |
| `RagFeedProofs` | `RagTypeCorrect` (`RagTypeOK`), `OnlyExcusedIsLostHolds` (`OnlyExcusedIsLost`) |
| `AccessProofs` | `AccessTypeCorrect` (`AccessTypeOK`), `BurstBoundedHolds` (`BurstBounded`), and the action properties `RefusedAtLimitHolds` (`RefusedAtLimit`), `VerdictsAreRecentHolds` (`VerdictsAreRecent`) |
| `ListingProofs` | `ListingTypeCorrect` (`ListingTypeOK`), `WalkIsCompleteHolds` (`WalkIsComplete`), `QueryHasOneAnswer` (in every well-typed state a query has exactly one answer) |

None of the properties is inductive as it stands. Each proof has one inductive invariant;
on the instance of the component's run TLC finds it true, too. A lemma `...Step` has one step per action, and lemmas
of their own say what the operators return.

- **`IInv`** (workflow): a commit makes a row and an event visible of which the state before
  it says nothing. `IInv` adds what a request carries: from `append` on it holds the row
  lock (`HandlerInv`), so that no other status event of its discrepancy can become visible;
  at `commit` its number is therefore above that of every visible status event
  (`RequestInv`, which gives `RowIsProjection` and the order of the abstract trail); what
  it validated is still on record, below its number, although the row may have changed
  since (`ReadOnRecord`, which gives `TransitionsJustified`); it passed the tenant check;
  and all numbers are below the sequence (`Numbered`). `CommitEffect` carries the step that
  matters; `OtherRequest` says that a request is not disturbed by others. The refinement
  maps `Commit` to `Change`, `IngestCreate` to `Register` and every other step to a stutter.
  `TraceInv` adds, for `EventsTraceable`, that no two requests have taken the same number
  and that an answer is the end of a request.
- **`LedgerInv`** (workflow and engine): much of `IInv` fails here, since the engine writes
  row and event without the lock. What remains: a status, in the row or read by a request,
  is *explained* (`Explains`) by an event below its reader's number, or is one the engine can leave
  without one; the status events above a committing request's number are the engine's
  (`ServedInv`, which gives `OnlyTheEngineDrifts`); the engine's discrepancy had the trigger
  status on record when it was listed, and has no event of the rule's kind between the dedup
  query and the append, because nobody else appends one (`EngineInv`, which gives
  `RecordedOnce` and `TransitionsJustified`). A trail has an event of the highest number
  (`HasLatest`), which stands in for finiteness.
- **`IngestInv`**: events have their rows; past Create the message's row is there, and
  before Append its receipt is not recorded (`HandlerInv`). One handler at a time is what
  makes the dedup query and the insert safe.
- **`NotifyInv`**: the engine alone inserts, so that between its dedup query and its insert the
  pair has no row, and the row it created stays `pending` with no attempts until it records the
  outcome (`EngineInv`); the retrier's list stays true of the table, since nobody else writes
  a failed row (`RetrierInv`). The two together keep the goroutines apart. A row that is to be
  retried has no answer but the one the retrier is about to record (`AnswersSettle`, which gives
  `NoRepeatedSend`).
- **`ReportsInv`**: the file a completed report names is whole, or gone because the report
  has expired (`FileInv`); the cleaner works on expired, completed reports only and marks one
  whose file is gone (`CleanerInv`); a download holds the right name whatever the cleaner
  did since (`DownloadInv`).
- **`RagInv`**: `NothingSkipped` extends `OnlyExcusedIsLost` to every point of a pass: a
  closing that the syncer will not look at again is fed, excused or in the list at hand.
- **`AccessInv`**: the record of an address against the history of what it let through
  (`Consistent`): the last `count` requests belong to the open window, which the first of
  them began, and whatever lies a full limit before that one is more than a window older;
  a cache entry, and what a lookup has found, was true of the tenant within a bounded time
  (`CacheInv`, `RequestInv`).
- **`ListingInv`**: the cursor is the last row listed (`CursorInv`), and a row that matched
  since the first page is listed or lies below the cursor (`NothingSkipped`), although the
  row of the cursor may have left the filter. `QueryHasOneAnswer` goes by the least place
  where two answers differ, and by the least limit without one.

Only model-checked, because fairness and ENABLED are out of the prover's reach: the liveness
properties `EveryRequestEnds`, `EveryPassEnds`, `EveryMessageSettles`, `RetriesSettle`,
`ExpiredIsCleaned`, `ClosedIsFed` and `WalkEnds`. The runs that expect a violation have
counterexamples, not proofs.

## 6. Not modelled

- Formatting, logging, rendering and statistics; the contents of a report.
- Single reads for clients (GetByID, GetMe, report and rule lists, stats, health, metrics):
  each is one statement, changes nothing and decides nothing.
- Process, routing, configuration: wiring and I/O; starts and stops enter as restarts.
- How an address is taken from a request's headers, and how keys are hashed.
- Two processes over one database: `main` runs one, and engine and retrier assume it.
- A download whose connection breaks while the file is sent, at the server's WriteTimeout
  (`main.go:124`) for one: the client sees it from the Content-Length.
- `shouldDeadLetter` for a message without a delivery count, which goes on: JetStream
  delivers none.
- The fallbacks of the engine without a notification store, which `main` never wires.

## 7. Plan

1. Core: domain, stores, workflow, abstract trail, proofs; escalation and its
   composition; ingestion; notifications; reports. *Done.*
2. The remaining parts that keep state or are walked over time: rules under a running pass,
   RAG watermark, tenant cache, rate limiter, pagination. *Done.* `Ingestion` in place of
   the two stand-ins in `Workflow` was left: its handler is sequential, and what the
   endpoints see of it are exactly those two statements.
3. Prove more: the safety invariants and action properties of every component, and the
   stand-ins for ingestion. *Done.*
4. Left: an abstract specification for the composition with the engine (the audit trail
   holds for users' changes only, since the engine's status and event are two steps), and
   one for what the retrier and the engine promise together about a notification.
