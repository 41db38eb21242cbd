----------------------------- MODULE Notification ------------------------------
(***************************************************************************)
(* Notifications: the notify action of the escalation engine, the retrier, *)
(* the hub client they share, and the notification_log table between them. *)
(*                                                                         *)
(* The engine and the retrier are two goroutines of one process.  The      *)
(* engine reads the rules once per pass, and may list a (rule,             *)
(* discrepancy) pair again on every pass; the retrier works through a list *)
(* it read once.  Queries, inserts, updates and HTTP requests are separate *)
(* steps, each of which may fail, and between which the rules API may      *)
(* change or delete a rule.                                                *)
(***************************************************************************)
EXTENDS Rules, Integers, Sequences, FiniteSets

CONSTANTS
    Discs,          \* the discrepancies that notify rules list
    maxRetries,     \* MaxNotificationRetries
    MaxCrashes      \* bound: restarts of the process

ASSUME RetryAssumption == maxRetries \in Nat /\ MaxCrashes \in Nat

\* What a notification is about.
Pairs == [rule: RuleIds, disc: Discs]

VARIABLES
    hubEnabled, \* NotificationHubEnabled, read when the process starts
    log,        \* the notification_log table; a row's id is its index
    answered,   \* per row: the hub answered a request about it, without a 5xx
    held,       \* the notify rules the engine read at the start of its pass
    npc,        \* where the engine is in executeNotify
    npair,      \* the pair it notifies about
    nid,        \* the row it created
    rpc,        \* where the retrier is
    todo,       \* the listed rows it has still to retry: [id, attempts]
    tries,      \* per goroutine: the requests of its current SendEvent
    result,     \* per goroutine: how its last SendEvent ended
    crashes     \* restarts so far

notifyVars == <<rules, hubEnabled, log, answered, held, npc, npair, nid,
                rpc, todo, tries, result, crashes>>

\* The statuses the table's CHECK accepts; of those that the code names it
\* refuses "skipped".
NotifStatuses == {"pending", "sent", "failed", "retrying"}

Senders == {"engine", "retrier"}
Results == {"error", "skipped", "response"}

\* Whether the hub answered about a row, and if so whether the process lost the
\* answer before it recorded it.
AnswerStates == {"no", "yes", "lost"}

\* Every variable has its type.
NotifyTypeOK ==
    /\ rules \in [RuleIds -> RuleStates]
    /\ held \subseteq RuleIds
    /\ hubEnabled \in BOOLEAN
    /\ log \in Seq([pair: Pairs, status: NotifStatuses, attempts: Nat])
    /\ answered \in Seq(AnswerStates) /\ Len(answered) = Len(log)
    /\ npc \in {"idle", "create", "send", "update"}
    /\ npair \in Pairs
    /\ nid \in 0..Len(log)
    /\ rpc \in {"idle", "item", "send", "update"}
    /\ todo \subseteq [id: 1..Len(log), attempts: Nat]
    /\ tries \in [Senders -> Nat]
    /\ result \in [Senders -> Results]
    /\ crashes \in 0..MaxCrashes

NotifyInit ==
    /\ RulesInit
    /\ held = {}
    /\ hubEnabled \in BOOLEAN
    /\ log = <<>>
    /\ answered = <<>>
    /\ npc = "idle"
    /\ npair \in Pairs
    /\ nid = 0
    /\ rpc = "idle"
    /\ todo = {}
    /\ tries = [s \in Senders |-> 0]
    /\ result = [s \in Senders |-> "error"]
    /\ crashes = 0

engineNVars == <<held, npc, npair, nid>>
retrierVars == <<rpc, todo>>
processVars == <<rules, hubEnabled, crashes>>

--------------------------------------------------------------------------------
(* The table.                                                              *)

GetByRuleAndDiscrepancy(p) == {i \in DOMAIN log : log[i].pair = p}

\* The INSERT, which the foreign key refuses for a rule that is gone.
CreateRow(p) ==
    /\ Exists(p.rule)
    /\ log' = Append(log, [pair |-> p, status |-> "pending", attempts |-> 0])
    /\ answered' = Append(answered, "no")

UpdateStatus(id, status, attempts) ==
    log' = [log EXCEPT ![id] = [@ EXCEPT !.status = status,
                                         !.attempts = attempts]]

\* Mutants of the WHERE clause of ListPendingRetries: one attempt too many; the
\* status not looked at; first failures left out.
RetryableOnceMore(n) ==
    n.status \in {"failed", "retrying"} /\ n.attempts <= maxRetries
RetryableAnyStatus(n) == n.attempts < maxRetries
RetryableRetrying(n) == n.status = "retrying" /\ n.attempts < maxRetries

\* Failed or retrying, with attempts left.
Retryable(n) == n.status \in {"failed", "retrying"} /\ n.attempts < maxRetries

ListPendingRetries ==
    {[id |-> i, attempts |-> log[i].attempts] :
        i \in {j \in DOMAIN log : Retryable(log[j])}}

\* They are listed, and retried, in the order of created_at.
Oldest(notifs) == CHOOSE n \in notifs : \A m \in notifs : n.id <= m.id

--------------------------------------------------------------------------------
(* The hub client.                                                         *)

\* How many requests one SendEvent makes at most.
maxAttempts == IF maxRetries <= 0 THEN 1 ELSE maxRetries

\* Mutant: the last answer is returned without its error.
GaveUpQuietly == "response"

\* How a SendEvent ends that has no attempts left, or whose context ends.
GaveUp == "error"

SendBegins(s) == tries' = [tries EXCEPT ![s] = 0]

\* One turn of SendEvent about row id: no request at all if the hub is
\* disabled, else a request that is answered (4xx included, and with any status
\* in its body, "skipped" too), or fails and is repeated while attempts are left;
\* between requests the context may end.  Over is whether SendEvent returns.
SendEvent(s, id, over) ==
    \/ /\ ~hubEnabled
       /\ over
       /\ result' = [result EXCEPT ![s] = "skipped"]
       /\ UNCHANGED <<answered, tries>>
    \/ /\ hubEnabled
       /\ over
       /\ \E r \in {"response", "skipped"} : result' = [result EXCEPT ![s] = r]
       /\ answered' = [answered EXCEPT ![id] = "yes"]
       /\ UNCHANGED tries
    \/ /\ hubEnabled
       /\ tries' = [tries EXCEPT ![s] = @ + 1]
       /\ over \/ tries[s] + 1 < maxAttempts
       /\ result' = [result EXCEPT ![s] = IF over THEN GaveUp ELSE "error"]
       /\ UNCHANGED answered

\* The outcomes about these rows are not recorded: an answer is lost.
Unrecorded(ids) ==
    answered' = [i \in DOMAIN answered |->
                    IF i \in ids /\ answered[i] = "yes" THEN "lost" ELSE answered[i]]

--------------------------------------------------------------------------------
(* executeNotify.                                                          *)

\* evaluateTenant reads the active rules, for the whole of a pass.
ReadRules ==
    /\ npc = "idle"
    /\ held' = FiringRules
    /\ UNCHANGED <<log, answered, npc, npair, nid, retrierVars, tries, result,
                   processVars>>

\* Mutant: no dedup query.
notificationAssumedNew(p) ==
    /\ npc = "idle"
    /\ p.rule \in held
    /\ npair' = p
    /\ npc' = "create"
    /\ UNCHANGED <<log, answered, held, nid, retrierVars, tries, result, processVars>>

\* The engine comes to a listed pair: the dedup query, which may fail.
notificationExists(p) ==
    /\ npc = "idle"
    /\ p.rule \in held
    /\ GetByRuleAndDiscrepancy(p) = {}
    /\ npair' = p
    /\ npc' = "create"
    /\ UNCHANGED <<log, answered, held, nid, retrierVars, tries, result, processVars>>

\* The insert.  If it is reported as failed the action ends, although the row
\* may be there.
createNotificationLog ==
    /\ npc = "create"
    /\ \/ /\ CreateRow(npair)
          /\ nid' = Len(log) + 1
          /\ npc' \in {"send", "idle"}
       \/ UNCHANGED <<log, answered, nid>> /\ npc' = "idle"
    /\ SendBegins("engine")
    /\ UNCHANGED <<held, npair, retrierVars, result, processVars>>

sendViaHub ==
    /\ npc = "send"
    /\ \E over \in BOOLEAN :
          /\ SendEvent("engine", nid, over)
          /\ npc' = IF over THEN "update" ELSE "send"
    /\ UNCHANGED <<log, held, npair, nid, retrierVars, processVars>>

\* Mutants: the hub's "skipped" is stored as it is; it counts as a failure.
EngineStatusSkipped(r) ==
    IF r = "error" THEN "failed" ELSE IF r = "skipped" THEN "skipped" ELSE "sent"

EngineStatusRetried(r) == IF r \in {"error", "skipped"} THEN "failed" ELSE "sent"

\* The status an outcome of SendEvent leads to: a "skipped" keeps the
\* row pending.
EngineStatus(r) ==
    IF r = "error" THEN "failed" ELSE IF r = "skipped" THEN "pending" ELSE "sent"

\* sendViaHub's UpdateStatus, with attempts 1.  Its own error is ignored.
RecordSend ==
    /\ npc = "update"
    /\ \/ /\ UpdateStatus(nid, EngineStatus(result["engine"]), 1)
          /\ UNCHANGED answered
       \/ Unrecorded({nid}) /\ UNCHANGED log
    /\ npc' = "idle"
    /\ UNCHANGED <<held, npair, nid, retrierVars, tries, result, processVars>>

--------------------------------------------------------------------------------
(* The retrier.                                                            *)

\* A tick: the list is read once; if the query fails the round is over.
RetryPending ==
    /\ rpc = "idle"
    /\ ListPendingRetries # {}
    /\ todo' = ListPendingRetries
    /\ rpc' = "item"
    /\ UNCHANGED <<log, answered, engineNVars, tries, result, processVars>>

RetryRoundEnds ==
    /\ rpc = "item"
    /\ todo = {}
    /\ rpc' = "idle"
    /\ UNCHANGED <<log, answered, engineNVars, todo, tries, result, processVars>>

retryOne ==
    /\ rpc = "item"
    /\ todo # {}
    /\ rpc' = "send"
    /\ SendBegins("retrier")
    /\ UNCHANGED <<log, answered, engineNVars, todo, result, processVars>>

RetrySend ==
    /\ rpc = "send"
    /\ \E over \in BOOLEAN :
          /\ SendEvent("retrier", Oldest(todo).id, over)
          /\ rpc' = IF over THEN "update" ELSE "send"
    /\ UNCHANGED <<log, engineNVars, todo, processVars>>

\* The status an outcome leads to after newAttempts: unlike the engine, the
\* retrier takes every outcome but an error for a delivery.
RetryStatus(r, newAttempts) ==
    IF r # "error" THEN "sent"
    ELSE IF newAttempts >= maxRetries THEN "failed" ELSE "retrying"

\* retryOne's UpdateStatus.
RecordRetry ==
    LET n == Oldest(todo)
        newAttempts == n.attempts + 1
    IN  /\ rpc = "update"
        /\ UpdateStatus(n.id, RetryStatus(result["retrier"], newAttempts),
                        newAttempts)
        /\ todo' = todo \ {n}
        /\ rpc' = "item"
        /\ UNCHANGED <<answered, engineNVars, tries, result, processVars>>

\* ... and its failure, which is logged.
RecordRetryFails ==
    /\ rpc = "update"
    /\ Unrecorded({Oldest(todo).id})
    /\ todo' = todo \ {Oldest(todo)}
    /\ rpc' = "item"
    /\ UNCHANGED <<log, engineNVars, tries, result, processVars>>

\* The rows that a goroutine is about to record an outcome for.
Updating == {i \in DOMAIN log : \/ npc = "update" /\ i = nid
                                \/ rpc = "update" /\ i = Oldest(todo).id}

\* The process dies; nothing but the table survives, and the next one may be
\* configured differently.
Crash ==
    /\ crashes < MaxCrashes
    /\ crashes' = crashes + 1
    /\ hubEnabled' \in BOOLEAN
    /\ held' = {}
    /\ npc' = "idle"
    /\ rpc' = "idle"
    /\ todo' = {}
    /\ Unrecorded(Updating)
    /\ UNCHANGED <<rules, log, npair, nid, tries, result>>

\* The rules API, at any time.
ChangeRule(k) ==
    /\ \/ CreateRule(k)
       \/ UpdateRule(k)
       \/ DeleteRule(k, \E i \in DOMAIN log : log[i].pair.rule = k)
    /\ UNCHANGED <<log, answered, engineNVars, retrierVars, tries, result,
                   hubEnabled, crashes>>

--------------------------------------------------------------------------------
EngineNotifies ==
    \/ createNotificationLog
    \/ sendViaHub
    \/ RecordSend

RetrierRuns ==
    \/ RetryPending
    \/ RetryRoundEnds
    \/ retryOne
    \/ RetrySend
    \/ RecordRetry
    \/ RecordRetryFails

NotifyNext ==
    \/ ReadRules
    \/ \E p \in Pairs : notificationExists(p)
    \/ EngineNotifies
    \/ RetrierRuns
    \/ \E k \in RuleIds : ChangeRule(k)
    \/ Crash

\* Both goroutines run, the ticker fires, a SendEvent ends, and the update after
\* a retry does not fail for ever.  Nothing is assumed of the hub.
NotifyFairness ==
    /\ WF_notifyVars(RetryPending \/ RetryRoundEnds \/ retryOne)
    /\ WF_notifyVars(RetrySend /\ rpc' = "update")
    /\ SF_notifyVars(RecordRetry)
    /\ WF_notifyVars(RecordRetry \/ RecordRetryFails)

NotifySpec == NotifyInit /\ [][NotifyNext]_notifyVars
NotifyFairSpec == NotifySpec /\ NotifyFairness

--------------------------------------------------------------------------------
\* A rule fires once per discrepancy, through crashes, failed inserts that took
\* effect, and any number of passes: the dedup query and the insert are separate
\* statements without a UNIQUE constraint.
NotifiedOnce ==
    \A p \in Pairs : Cardinality(GetByRuleAndDiscrepancy(p)) <= 1

\* The attempts on record never exceed the limit, nor the first attempt.
AttemptsBounded ==
    \A i \in DOMAIN log : log[i].attempts <= maxAttempts

\* The engine and the retrier never work on the same row at once, though
\* neither locks it: UpdateStatus would overwrite the other's outcome.
NoSharedRow ==
    npc \in {"send", "update"} =>
        \A n \in todo : n.id # nid

\* A row that was sent, or failed with no attempts left, is never written again,
\* and attempts never fall: the retrier writes from a list it read before.
SettledIsFinal ==
    [][\A i \in DOMAIN log :
          /\ log'[i].attempts >= log[i].attempts
          /\ \/ log[i].status = "sent"
             \/ log[i].status = "failed" /\ log[i].attempts >= maxRetries
             => log'[i] = log[i]]_notifyVars

\* A failed notification with attempts left is retried until it is sent or its
\* attempts are used up, whatever the hub does and whenever the process restarts.
RetriesSettle ==
    \A i \in 1..Cardinality(Pairs) :
        (i \in DOMAIN log /\ log[i].status \in {"failed", "retrying"})
            ~> (/\ i \in DOMAIN log
                /\ log[i].status = "sent" \/ log[i].attempts >= maxRetries)

\* The hub is not asked again about a notification that it has answered, unless
\* the process lost the answer (the update failed, or the process died before
\* it): neither from a list the retrier read earlier, nor on a later pass of the
\* engine, nor because of what the answer said.
NoRepeatedSend ==
    /\ npc = "send" => answered[nid] # "yes"
    /\ rpc = "send" => answered[Oldest(todo).id] # "yes"

\* A row becomes sent only when the hub has answered a request about it, or when
\* the hub is disabled: the retrier then takes "skipped" for a delivery, which
\* the engine does not.
SentIsAnswered ==
    [][\A i \in DOMAIN log :
          log[i].status # "sent" /\ log'[i].status = "sent"
              => answered[i] # "no" \/ ~hubEnabled]_notifyVars
================================================================================
