--------------------------- MODULE NotificationProofs --------------------------
(***************************************************************************)
(* Theorems about notifications, for any set of rules and discrepancies,   *)
(* any limit on the retries and any number of crashes.                     *)
(***************************************************************************)
EXTENDS Notification, FiniteSetTheorems, SequenceTheorems, WellFoundedInduction,
        TLAPS

--------------------------------------------------------------------------------
(* The operators the two goroutines are built from.                        *)

\* Every nonempty set of naturals has a least element.
LEMMA LeastNatural ==
    ASSUME NEW T \in SUBSET Nat, T # {}
    PROVE  \E x \in T : \A y \in T : x <= y
<1>1. PICK x \in T : \A y \in T : ~ (<<y, x>> \in OpToRel(<, Nat))
    BY NatLessThanWellFounded, WFMin
<1>2. ASSUME NEW y \in T PROVE x <= y
  <2>1. ~ (y < x)
    BY <1>1 DEF OpToRel
  <2> QED BY <2>1
<1> QED BY <1>2

\* Of a list that is not empty the oldest entry is one of its entries.
LEMMA OldestIsListed ==
    ASSUME NEW T, \A n \in T : n.id \in Nat, T # {}
    PROVE  Oldest(T) \in T
<1>1. PICK x \in {n.id : n \in T} : \A y \in {n.id : n \in T} : x <= y
    BY LeastNatural
<1>2. \E n \in T : \A m \in T : n.id <= m.id
    BY <1>1
<1> QED BY <1>2 DEF Oldest

\* The rows of the table.
NotifRow == [pair: Pairs, status: NotifStatuses, attempts: Nat]

\* A row of the table has its columns.
LEMMA RowTypes ==
    ASSUME NotifyTypeOK
    PROVE  /\ DOMAIN log = 1..Len(log)
           /\ \A i \in 1..Len(log) : log[i].attempts \in Nat
<1>1. log \in Seq(NotifRow)
    BY DEF NotifyTypeOK, NotifRow
<1>2. \A row \in NotifRow : row.attempts \in Nat
    BY DEF NotifRow
<1> QED BY <1>1, <1>2

\* An UPDATE writes one row, and of that row only the status and the attempts.
LEMMA RowUpdated ==
    ASSUME NotifyTypeOK, NEW id \in 1..Len(log), NEW status \in NotifStatuses,
           NEW attempts \in Nat, UpdateStatus(id, status, attempts)
    PROVE  /\ log' \in Seq(NotifRow) /\ Len(log') = Len(log)
           /\ DOMAIN log = 1..Len(log) /\ DOMAIN log' = 1..Len(log)
           /\ log'[id].pair = log[id].pair /\ log'[id].status = status
           /\ log'[id].attempts = attempts
           /\ \A j \in 1..Len(log) : j # id => log'[j] = log[j]
           /\ \A j \in 1..Len(log) : log'[j].pair = log[j].pair
<1> DEFINE row == [log[id] EXCEPT !.status = status, !.attempts = attempts]
<1>0. log \in Seq(NotifRow)
    BY DEF NotifyTypeOK, NotifRow
<1>1. log \in Seq(NotifRow) /\ log[id] \in NotifRow
    BY <1>0
<1>2. /\ row \in NotifRow /\ row.pair = log[id].pair
      /\ row.status = status /\ row.attempts = attempts
    BY <1>1 DEF NotifRow
<1>3. log' = [log EXCEPT ![id] = row]
    BY DEF UpdateStatus
<1> HIDE DEF row
<1> QED BY <1>1, <1>2, <1>3, ExceptSeq

\* An INSERT adds a pending row at the end, about which nobody was asked.
LEMMA RowCreated ==
    ASSUME NotifyTypeOK, NEW p \in Pairs, CreateRow(p)
    PROVE  /\ log' \in Seq(NotifRow) /\ Len(log') = Len(log) + 1
           /\ Len(log) \in Nat
           /\ DOMAIN log = 1..Len(log) /\ DOMAIN log' = 1..(Len(log) + 1)
           /\ log'[Len(log) + 1].pair = p
           /\ log'[Len(log) + 1].status = "pending"
           /\ log'[Len(log) + 1].attempts = 0
           /\ \A j \in 1..Len(log) : log'[j] = log[j]
           /\ answered' \in Seq(AnswerStates) /\ Len(answered') = Len(log) + 1
           /\ answered'[Len(log) + 1] = "no"
           /\ \A j \in 1..Len(log) : answered'[j] = answered[j]
<1> DEFINE row == [pair |-> p, status |-> "pending", attempts |-> 0]
<1>1. /\ log \in Seq(NotifRow)
      /\ answered \in Seq(AnswerStates) /\ Len(answered) = Len(log)
    BY DEF NotifyTypeOK, NotifRow
<1>2. /\ row \in NotifRow /\ row.pair = p
      /\ row.status = "pending" /\ row.attempts = 0
    BY DEF NotifRow, NotifStatuses
<1>3. log' = Append(log, row) /\ answered' = Append(answered, "no")
    BY DEF CreateRow
<1> HIDE DEF row
<1>4. /\ answered' \in Seq(AnswerStates) /\ Len(answered') = Len(log) + 1
      /\ answered'[Len(log) + 1] = "no"
      /\ \A j \in 1..Len(log) : answered'[j] = answered[j]
  <2>1. "no" \in AnswerStates
    BY DEF AnswerStates
  <2> QED BY <1>1, <1>3, <2>1, AppendProperties
<1>5. /\ log' \in Seq(NotifRow) /\ Len(log') = Len(log) + 1
      /\ log'[Len(log) + 1] = row
      /\ \A j \in 1..Len(log) : log'[j] = log[j]
    BY <1>1, <1>2, <1>3, AppendProperties
<1>6. /\ Len(log) \in Nat /\ DOMAIN log = 1..Len(log)
      /\ DOMAIN log' = 1..(Len(log) + 1)
    BY <1>1, <1>5
<1> QED BY <1>2, <1>4, <1>5, <1>6

\* What one turn of SendEvent changes: the requests and the result of its
\* goroutine, and that the hub answered about its row, after which it is over.
LEMMA SendStep ==
    ASSUME NotifyTypeOK, NEW s \in Senders, NEW id \in 1..Len(log),
           NEW over \in BOOLEAN, SendEvent(s, id, over)
    PROVE  /\ tries' \in [Senders -> Nat]
           /\ result' \in [Senders -> Results]
           /\ \A x \in Senders \ {s} : result'[x] = result[x]
           /\ answered' \in Seq(AnswerStates) /\ Len(answered') = Len(answered)
           /\ \A j \in 1..Len(log) : j # id => answered'[j] = answered[j]
           /\ \/ /\ answered'[id] = answered[id]
                 /\ result'[s] = "error" \/ (result'[s] = "skipped" /\ ~hubEnabled)
              \/ answered'[id] = "yes" /\ over /\ result'[s] # "error"
<1>1. /\ answered \in Seq(AnswerStates) /\ Len(answered) = Len(log)
      /\ tries \in [Senders -> Nat] /\ result \in [Senders -> Results]
    BY DEF NotifyTypeOK
<1>2. CASE /\ UNCHANGED answered
           /\ result'[s] = "error" \/ (result'[s] = "skipped" /\ ~hubEnabled)
    BY <1>1, <1>2 DEF SendEvent, Results, GaveUp
<1>3. CASE /\ answered' = [answered EXCEPT ![id] = "yes"] /\ over
           /\ \E r \in {"response", "skipped"} : result' = [result EXCEPT ![s] = r]
           /\ UNCHANGED tries
  <2>1. "yes" \in AnswerStates
    BY DEF AnswerStates
  <2>2. /\ answered' \in Seq(AnswerStates) /\ Len(answered') = Len(answered)
        /\ \A j \in 1..Len(log) :
              answered'[j] = IF j = id THEN "yes" ELSE answered[j]
    BY <1>1, <1>3, <2>1, ExceptSeq
  <2>3. /\ result' \in [Senders -> Results] /\ result'[s] # "error"
        /\ \A x \in Senders \ {s} : result'[x] = result[x]
    BY <1>1, <1>3 DEF Results
  <2> QED BY <1>1, <1>3, <2>2, <2>3
<1> QED BY <1>1, <1>2, <1>3 DEF SendEvent, GaveUp, Results

\* What is not recorded turns answers about those rows into lost ones.
LEMMA AnswersLost ==
    ASSUME NotifyTypeOK, NEW ids, Unrecorded(ids)
    PROVE  /\ answered' \in Seq(AnswerStates) /\ Len(answered') = Len(log)
           /\ \A j \in 1..Len(log) :
                 answered'[j] = IF j \in ids /\ answered[j] = "yes" THEN "lost"
                                ELSE answered[j]
<1>1. /\ answered \in Seq(AnswerStates) /\ Len(answered) = Len(log)
      /\ Len(log) \in Nat /\ DOMAIN answered = 1..Len(log)
    BY DEF NotifyTypeOK
<1>2. /\ answered' = [i \in 1..Len(log) |->
                         IF i \in ids /\ answered[i] = "yes" THEN "lost"
                         ELSE answered[i]]
      /\ \A i \in 1..Len(log) : answered[i] \in AnswerStates
    BY <1>1 DEF Unrecorded
<1>3. answered' \in [1..Len(log) -> AnswerStates]
    BY <1>2 DEF AnswerStates
<1> QED BY <1>1, <1>2, <1>3, IsASeq, LenProperties

--------------------------------------------------------------------------------
(* The inductive invariant.                                                *)

\* A pair has one row at most.
RowPerPair ==
    \A i, j \in DOMAIN log : log[i].pair = log[j].pair => i = j

\* The engine is the only one to insert, so that its dedup query stays true
\* until the insert; and the row it created is still as it was created, until
\* it records the outcome.
EngineInv ==
    /\ npc = "create" => \A i \in DOMAIN log : log[i].pair # npair
    /\ npc \in {"send", "update"} =>
          /\ nid \in 1..Len(log)
          /\ log[nid].status = "pending" /\ log[nid].attempts = 0
    /\ npc = "send" => answered[nid] = "no"
    /\ npc = "update" =>
          /\ result["engine"] = "error" => answered[nid] = "no"
          /\ result["engine"] = "response" => answered[nid] # "no"

\* The list the retrier works through stays current: nobody else writes a
\* row on it.  An outcome other than an error is an answer, or there is no hub.
RetrierInv ==
    /\ \A n \in todo :
          /\ log[n.id].status \in {"failed", "retrying"}
          /\ log[n.id].attempts = n.attempts
          /\ n.attempts < maxRetries
    /\ rpc \in {"send", "update"} => todo # {}
    /\ rpc = "update" =>
          LET id == Oldest(todo).id
          IN  /\ result["retrier"] = "error" => answered[id] # "yes"
              /\ result["retrier"] # "error" => answered[id] # "no" \/ ~hubEnabled

\* A row that is to be retried has no answer, but for the one that the retrier
\* is about to record.
AnswersSettle ==
    \A i \in DOMAIN log :
        log[i].status \in {"failed", "retrying"} /\ answered[i] = "yes"
            => rpc = "update" /\ i = Oldest(todo).id

NotifyInv ==
    /\ NotifyTypeOK
    /\ RowPerPair
    /\ AttemptsBounded
    /\ EngineInv
    /\ RetrierInv
    /\ AnswersSettle

\* The row the retrier is at, and what the table has of it.
LEMMA CurrentRow ==
    ASSUME NotifyInv, rpc \in {"send", "update"}
    PROVE  /\ Oldest(todo) \in todo
           /\ Oldest(todo).id \in 1..Len(log)
           /\ Oldest(todo).attempts \in Nat
           /\ log[Oldest(todo).id].status \in {"failed", "retrying"}
           /\ log[Oldest(todo).id].attempts = Oldest(todo).attempts
           /\ Oldest(todo).attempts < maxRetries
<1>1. todo # {} /\ todo \subseteq [id: 1..Len(log), attempts: Nat]
    BY DEF NotifyInv, RetrierInv, NotifyTypeOK
<1>2. \A n \in todo : n.id \in Nat
    BY <1>1 DEF NotifyInv, NotifyTypeOK
<1>3. Oldest(todo) \in todo
    BY <1>1, <1>2, OldestIsListed
<1> QED BY <1>1, <1>3 DEF NotifyInv, RetrierInv

\* The limit is a natural number, and leaves room for the first attempt.
LEMMA AttemptsLimit ==
    /\ maxRetries \in Nat /\ maxAttempts \in Nat
    /\ maxAttempts >= 1 /\ maxAttempts >= maxRetries
    BY RetryAssumption DEF maxAttempts

\* Writing the row of id, whose pair stays, breaks nothing said of the table as
\* long as the attempts written are within the limit.
LEMMA TableAfterUpdate ==
    ASSUME NotifyInv, NEW id \in 1..Len(log), NEW status \in NotifStatuses,
           NEW attempts \in Nat, attempts <= maxAttempts,
           UpdateStatus(id, status, attempts)
    PROVE  (RowPerPair /\ AttemptsBounded)'
<1>1. /\ DOMAIN log = 1..Len(log) /\ DOMAIN log' = 1..Len(log)
      /\ log'[id].attempts = attempts
      /\ \A j \in 1..Len(log) : j # id => log'[j] = log[j]
      /\ \A j \in 1..Len(log) : log'[j].pair = log[j].pair
    BY RowUpdated DEF NotifyInv
<1>2. RowPerPair'
    BY <1>1 DEF NotifyInv, RowPerPair
<1>3. AttemptsBounded'
    BY <1>1 DEF NotifyInv, AttemptsBounded, maxAttempts
<1> QED BY <1>2, <1>3

\* The steps of the engine preserve the invariant.
LEMMA EngineStep ==
    ASSUME NotifyInv, ReadRules \/ EngineNotifies
                        \/ (\E p \in Pairs : notificationExists(p))
    PROVE  NotifyInv'
<1> USE DEF NotifyInv, processVars, retrierVars
<1>0. DOMAIN log = 1..Len(log) /\ Len(log) \in Nat
    BY DEF NotifyTypeOK
<1>1. CASE ReadRules
  <2> USE <1>1 DEF ReadRules
  <2>1. NotifyTypeOK'
    BY DEF NotifyTypeOK, FiringRules
  <2>2. (RowPerPair /\ AttemptsBounded)'
    BY DEF RowPerPair, AttemptsBounded
  <2>3. EngineInv'
    BY DEF EngineInv
  <2>4. RetrierInv' /\ AnswersSettle'
    BY DEF RetrierInv, AnswersSettle
  <2> QED BY <2>1, <2>2, <2>3, <2>4
<1>2. ASSUME NEW p \in Pairs, notificationExists(p) PROVE NotifyInv'
  <2> USE <1>2 DEF notificationExists
  <2>1. NotifyTypeOK'
    BY DEF NotifyTypeOK
  <2>2. (RowPerPair /\ AttemptsBounded)'
    BY DEF RowPerPair, AttemptsBounded
  <2>3. EngineInv'
    BY DEF EngineInv, GetByRuleAndDiscrepancy
  <2>4. RetrierInv' /\ AnswersSettle'
    BY DEF RetrierInv, AnswersSettle
  <2> QED BY <2>1, <2>2, <2>3, <2>4
<1>3. ASSUME createNotificationLog, CreateRow(npair) PROVE NotifyInv'
  <2>0. npair \in Pairs /\ npc = "create" /\ todo' = todo /\ rpc' = rpc
    BY <1>3 DEF createNotificationLog, NotifyTypeOK
  <2>a. /\ npc' \in {"send", "idle"}
        /\ npc' = "send" => nid' = Len(log) + 1
        /\ nid' \in 0..(Len(log) + 1)
    BY <1>0, <1>3 DEF createNotificationLog, NotifyTypeOK
  <2>b. /\ log' \in Seq(NotifRow) /\ Len(log') = Len(log) + 1
        /\ DOMAIN log' = 1..(Len(log) + 1)
        /\ log'[Len(log) + 1].pair = npair
        /\ log'[Len(log) + 1].status = "pending"
        /\ log'[Len(log) + 1].attempts = 0
        /\ \A j \in 1..Len(log) : log'[j] = log[j]
        /\ answered' \in Seq(AnswerStates) /\ Len(answered') = Len(log) + 1
        /\ answered'[Len(log) + 1] = "no"
        /\ \A j \in 1..Len(log) : answered'[j] = answered[j]
    BY <1>3, <2>0, RowCreated
  <2>c. \A j \in DOMAIN log' : j = Len(log) + 1 \/ j \in 1..Len(log)
    BY <1>0, <2>b
  <2>d. todo \subseteq [id: 1..(Len(log) + 1), attempts: Nat]
    BY <1>0 DEF NotifyTypeOK
  <2>1. NotifyTypeOK'
    BY <1>3, <2>a, <2>b, <2>d
       DEF createNotificationLog, NotifyTypeOK, NotifRow, SendBegins
  <2>2. RowPerPair'
    BY <1>0, <2>0, <2>b, <2>c DEF RowPerPair, EngineInv
  <2>3. AttemptsBounded'
    BY <1>0, <2>b, <2>c, AttemptsLimit DEF AttemptsBounded
  <2>4. AnswersSettle'
    BY <1>0, <2>0, <2>b, <2>c DEF AnswersSettle
  <2>5. EngineInv'
    BY <1>0, <2>a, <2>b DEF EngineInv
  <2>6. RetrierInv'
    <3>1. \A n \in todo : n.id \in 1..Len(log)
      BY DEF NotifyTypeOK
    <3>2. \A n \in todo' :
             /\ log'[n.id].status \in {"failed", "retrying"}
             /\ log'[n.id].attempts = n.attempts
             /\ n.attempts < maxRetries
      BY <2>0, <2>b, <3>1 DEF RetrierInv
    <3>3. result' = result /\ hubEnabled' = hubEnabled
      BY <1>3 DEF createNotificationLog
    <3>4. rpc = "update" => answered'[Oldest(todo).id] = answered[Oldest(todo).id]
      BY <2>b, CurrentRow
    <3> QED BY <2>0, <3>2, <3>3, <3>4 DEF RetrierInv
  <2> QED BY <2>1, <2>2, <2>3, <2>4, <2>5, <2>6
<1>4. ASSUME createNotificationLog, ~CreateRow(npair) PROVE NotifyInv'
  <2>0. /\ UNCHANGED <<log, answered, nid, held, npair, rpc, todo, result, rules,
                       hubEnabled, crashes>>
        /\ npc' = "idle" /\ tries' = [tries EXCEPT !["engine"] = 0]
    BY <1>4 DEF createNotificationLog, SendBegins
  <2>1. NotifyTypeOK'
    BY <2>0 DEF NotifyTypeOK
  <2>2. (RowPerPair /\ AttemptsBounded)'
    BY <2>0 DEF RowPerPair, AttemptsBounded
  <2>3. EngineInv' /\ RetrierInv' /\ AnswersSettle'
    BY <2>0 DEF EngineInv, RetrierInv, AnswersSettle
  <2> QED BY <2>1, <2>2, <2>3
<1>5. CASE sendViaHub
  <2>1. PICK over \in BOOLEAN : /\ SendEvent("engine", nid, over)
                                /\ npc' = IF over THEN "update" ELSE "send"
    BY <1>5 DEF sendViaHub
  <2>2. /\ UNCHANGED <<log, held, npair, nid, rpc, todo, rules, hubEnabled,
                       crashes>>
        /\ npc = "send" /\ npc' \in {"send", "update"}
        /\ nid \in 1..Len(log) /\ "engine" \in Senders
    BY <1>5, <2>1 DEF sendViaHub, EngineInv, Senders
  <2>3. /\ tries' \in [Senders -> Nat]
        /\ result' \in [Senders -> Results]
        /\ result'["retrier"] = result["retrier"]
        /\ answered' \in Seq(AnswerStates) /\ Len(answered') = Len(answered)
        /\ \A j \in 1..Len(log) : j # nid => answered'[j] = answered[j]
        /\ \/ answered'[nid] = answered[nid] /\ result'["engine"] # "response"
           \/ answered'[nid] = "yes" /\ over /\ result'["engine"] # "error"
    BY <2>1, <2>2, SendStep DEF Senders
  <2>4. NotifyTypeOK'
    BY <2>2, <2>3 DEF NotifyTypeOK
  <2>5. (RowPerPair /\ AttemptsBounded)'
    BY <2>2 DEF RowPerPair, AttemptsBounded
  <2>6. EngineInv'
    BY <2>1, <2>2, <2>3 DEF EngineInv
  <2>7. RetrierInv'
    <3>1. rpc = "update" => Oldest(todo).id \in 1..Len(log) /\ Oldest(todo).id # nid
      BY <2>2, CurrentRow DEF EngineInv
    <3> QED BY <2>2, <2>3, <3>1 DEF RetrierInv
  <2>8. AnswersSettle'
    BY <1>0, <2>2, <2>3 DEF AnswersSettle, EngineInv
  <2> QED BY <2>4, <2>5, <2>6, <2>7, <2>8
<1>6. ASSUME RecordSend, UpdateStatus(nid, EngineStatus(result["engine"]), 1),
             UNCHANGED answered
      PROVE  NotifyInv'
  <2> DEFINE status == EngineStatus(result["engine"])
  <2>1. /\ npc = "update" /\ npc' = "idle" /\ nid \in 1..Len(log)
        /\ log[nid].status = "pending"
        /\ UNCHANGED <<answered, held, npair, nid, rpc, todo, tries, result,
                       rules, hubEnabled, crashes>>
    BY <1>6 DEF RecordSend, EngineInv
  <2>2. status \in NotifStatuses
    BY DEF EngineStatus, NotifStatuses
  <2> HIDE DEF status
  <2>3. /\ log' \in Seq(NotifRow) /\ Len(log') = Len(log)
        /\ DOMAIN log' = 1..Len(log) /\ log'[nid].status = status
        /\ \A j \in 1..Len(log) : j # nid => log'[j] = log[j]
    BY <1>6, <2>1, <2>2, RowUpdated DEF status
  <2>4. NotifyTypeOK'
    BY <2>1, <2>3 DEF NotifyTypeOK, NotifRow
  <2>5. (RowPerPair /\ AttemptsBounded)'
    BY <1>6, <2>1, <2>2, AttemptsLimit, TableAfterUpdate DEF status
  <2>6. EngineInv'
    BY <2>1 DEF EngineInv
  <2>7. RetrierInv'
    <3>1. \A n \in todo : n.id \in 1..Len(log) /\ n.id # nid
      BY <2>1 DEF NotifyTypeOK, RetrierInv
    <3> QED BY <2>1, <2>3, <3>1 DEF RetrierInv
  <2>8. AnswersSettle'
    <3>1. status = "failed" => answered[nid] = "no"
      BY <2>1 DEF status, EngineStatus, EngineInv
    <3>2. status # "retrying"
      BY DEF status, EngineStatus
    <3> QED BY <1>0, <2>1, <2>3, <3>1, <3>2 DEF AnswersSettle
  <2> QED BY <2>4, <2>5, <2>6, <2>7, <2>8
<1>7. ASSUME RecordSend, UNCHANGED log, Unrecorded({nid}) PROVE NotifyInv'
  <2> USE <1>7 DEF RecordSend
  <2>0. /\ answered' \in Seq(AnswerStates) /\ Len(answered') = Len(log)
        /\ \A j \in 1..Len(log) : \/ answered'[j] = answered[j]
                                   \/ answered'[j] = "lost"
    BY AnswersLost
  <2>1. NotifyTypeOK'
    BY <2>0 DEF NotifyTypeOK
  <2>2. (RowPerPair /\ AttemptsBounded)'
    BY DEF RowPerPair, AttemptsBounded
  <2>3. EngineInv'
    BY DEF EngineInv
  <2>4. RetrierInv'
    <3>1. rpc = "update" => Oldest(todo).id \in 1..Len(log)
      BY CurrentRow
    <3> QED BY <2>0, <3>1 DEF RetrierInv
  <2>5. AnswersSettle'
    BY <1>0, <2>0 DEF AnswersSettle
  <2> QED BY <2>1, <2>2, <2>3, <2>4, <2>5
<1>8. CASE RecordSend
    BY <1>6, <1>7, <1>8 DEF RecordSend
<1> QED BY <1>1, <1>2, <1>3, <1>4, <1>5, <1>8 DEF EngineNotifies

\* The steps of the retrier preserve the invariant.
LEMMA RetrierStep == ASSUME NotifyInv, RetrierRuns PROVE NotifyInv'
<1> USE DEF NotifyInv, processVars, engineNVars
<1>0. DOMAIN log = 1..Len(log) /\ Len(log) \in Nat
    BY DEF NotifyTypeOK
\* Only RecordRetry writes to the table.
<1>a. ASSUME UNCHANGED <<log, npc, npair, nid>>, NotifyTypeOK', RetrierInv',
             AnswersSettle', result'["engine"] = result["engine"],
             npc \in {"send", "update"} => answered'[nid] = answered[nid]
      PROVE  NotifyInv'
  <2>1. (RowPerPair /\ AttemptsBounded)'
    BY <1>a DEF RowPerPair, AttemptsBounded
  <2>2. EngineInv'
    BY <1>a DEF EngineInv
  <2> QED BY <1>a, <2>1, <2>2
<1>1. CASE RetryPending
  <2> USE <1>1 DEF RetryPending
  <2>1. \A n \in todo' : \E i \in 1..Len(log) :
           /\ n = [id |-> i, attempts |-> log[i].attempts]
           /\ log[i].attempts \in Nat /\ Retryable(log[i])
    BY RowTypes DEF ListPendingRetries
  <2>2. \A n \in todo' :
           /\ n \in [id: 1..Len(log), attempts: Nat]
           /\ n.id \in 1..Len(log) /\ n.attempts = log[n.id].attempts
           /\ Retryable(log[n.id])
    BY <2>1
  <2>3. NotifyTypeOK'
    BY <2>2 DEF NotifyTypeOK
  <2>4. RetrierInv'
    BY <2>2 DEF RetrierInv, Retryable
  <2>5. AnswersSettle'
    BY DEF AnswersSettle
  <2> QED BY <1>a, <2>3, <2>4, <2>5
<1>2. CASE RetryRoundEnds
    BY <1>2, <1>a DEF RetryRoundEnds, NotifyTypeOK, RetrierInv, AnswersSettle
<1>3. CASE retryOne
    BY <1>3, <1>a DEF retryOne, SendBegins, NotifyTypeOK, RetrierInv, AnswersSettle
<1>4. CASE RetrySend
  <2> DEFINE id == Oldest(todo).id
  <2>1. PICK over \in BOOLEAN : /\ SendEvent("retrier", id, over)
                                /\ rpc' = IF over THEN "update" ELSE "send"
    BY <1>4 DEF RetrySend
  <2>2. /\ UNCHANGED <<log, held, npc, npair, nid, todo, rules, hubEnabled,
                       crashes>>
        /\ rpc = "send" /\ rpc' \in {"send", "update"}
        /\ id \in 1..Len(log) /\ "retrier" \in Senders
    BY <1>4, <2>1, CurrentRow DEF RetrySend, Senders
  <2> HIDE DEF id
  <2>3. /\ tries' \in [Senders -> Nat]
        /\ result' \in [Senders -> Results]
        /\ result'["engine"] = result["engine"]
        /\ answered' \in Seq(AnswerStates) /\ Len(answered') = Len(answered)
        /\ \A j \in 1..Len(log) : j # id => answered'[j] = answered[j]
        /\ \/ /\ answered'[id] = answered[id]
              /\ result'["retrier"] = "error" \/ ~hubEnabled
           \/ answered'[id] = "yes" /\ over /\ result'["retrier"] # "error"
    BY <2>1, <2>2, SendStep DEF Senders
  <2>4. NotifyTypeOK'
    BY <2>2, <2>3 DEF NotifyTypeOK
  <2>5. answered[id] # "yes"
    BY <1>0, <2>2, CurrentRow DEF AnswersSettle, id
  <2>6. RetrierInv'
    BY <2>2, <2>3, <2>5 DEF RetrierInv, id
  <2>7. AnswersSettle'
    BY <1>0, <2>1, <2>2, <2>3 DEF AnswersSettle, id
  <2>8. npc \in {"send", "update"} => answered'[nid] = answered[nid]
    BY <2>2, <2>3, CurrentRow DEF EngineInv, id
  <2> QED BY <1>a, <2>2, <2>3, <2>4, <2>6, <2>7, <2>8
<1>5. CASE RecordRetry
  <2> DEFINE n == Oldest(todo)
             newAttempts == n.attempts + 1
             status == RetryStatus(result["retrier"], newAttempts)
  <2>1. /\ n \in todo /\ n.id \in 1..Len(log) /\ n.attempts \in Nat
        /\ log[n.id].status \in {"failed", "retrying"}
        /\ log[n.id].attempts = n.attempts /\ n.attempts < maxRetries
    BY <1>5, CurrentRow DEF RecordRetry
  <2>2. status \in NotifStatuses
    BY DEF RetryStatus, NotifStatuses
  <2>3. newAttempts \in Nat /\ newAttempts <= maxAttempts
    BY <2>1, AttemptsLimit
  <2>4. /\ UpdateStatus(n.id, status, newAttempts)
        /\ todo' = todo \ {n} /\ rpc' = "item"
        /\ UNCHANGED <<answered, held, npc, npair, nid, tries, result, rules,
                       hubEnabled, crashes>>
    BY <1>5 DEF RecordRetry
  <2> HIDE DEF n, newAttempts, status
  <2>5. /\ log' \in Seq(NotifRow) /\ Len(log') = Len(log)
        /\ DOMAIN log' = 1..Len(log)
        /\ \A j \in 1..Len(log) : j # n.id => log'[j] = log[j]
        /\ log'[n.id].status = status
        /\ \A j \in 1..Len(log) : log'[j].pair = log[j].pair
    BY <2>1, <2>2, <2>3, <2>4, RowUpdated
  <2>6. NotifyTypeOK'
    BY <2>4, <2>5 DEF NotifyTypeOK, NotifRow
  <2>7. (RowPerPair /\ AttemptsBounded)'
    BY <2>1, <2>2, <2>3, <2>4, TableAfterUpdate
  <2>8. EngineInv'
    BY <1>0, <2>1, <2>4, <2>5 DEF EngineInv
  <2>9. RetrierInv'
    <3>1. ASSUME NEW m \in todo \ {n} PROVE m.id \in 1..Len(log) /\ m.id # n.id
      <4>1. /\ m \in [id: 1..Len(log), attempts: Nat]
            /\ n \in [id: 1..Len(log), attempts: Nat]
        BY <2>1 DEF NotifyTypeOK
      <4>2. log[m.id].attempts = m.attempts
        BY DEF RetrierInv
      <4> QED BY <2>1, <4>1, <4>2
    <3> QED BY <2>4, <2>5, <3>1 DEF RetrierInv
  <2>10. AnswersSettle'
    <3>1. result["retrier"] = "error" => answered[n.id] # "yes"
      BY <1>5 DEF RecordRetry, RetrierInv, n
    <3>2. result["retrier"] # "error" => status = "sent"
      BY DEF status, RetryStatus
    <3> QED BY <1>0, <2>4, <2>5, <3>1, <3>2 DEF AnswersSettle, n
  <2> QED BY <2>6, <2>7, <2>8, <2>9, <2>10
<1>6. CASE RecordRetryFails
  <2> USE <1>6 DEF RecordRetryFails
  <2>1. /\ answered' \in Seq(AnswerStates) /\ Len(answered') = Len(log)
        /\ \A j \in 1..Len(log) :
              answered'[j] = IF j \in {Oldest(todo).id} /\ answered[j] = "yes"
                             THEN "lost" ELSE answered[j]
    BY AnswersLost
  <2>2. NotifyTypeOK'
    BY <2>1 DEF NotifyTypeOK
  <2>3. RetrierInv'
    BY DEF RetrierInv
  <2>4. AnswersSettle'
    BY <1>0, <2>1 DEF AnswersSettle
  <2>5. npc \in {"send", "update"} => answered'[nid] = answered[nid]
    BY <2>1, CurrentRow DEF EngineInv
  <2> QED BY <1>a, <2>2, <2>3, <2>4, <2>5
<1> QED BY <1>1, <1>2, <1>3, <1>4, <1>5, <1>6 DEF RetrierRuns

\* So do the rules API, a crash and a step of something else.
LEMMA EnvironmentStep ==
    ASSUME NotifyInv,
           (\E k \in RuleIds : ChangeRule(k)) \/ Crash \/ UNCHANGED notifyVars
    PROVE  NotifyInv'
<1> USE DEF NotifyInv, engineNVars, retrierVars
<1>1. ASSUME NEW k \in RuleIds, ChangeRule(k) PROVE NotifyInv'
  <2>1. /\ UNCHANGED <<log, answered, held, npc, npair, nid, rpc, todo, tries,
                       result, hubEnabled, crashes>>
        /\ rules' \in [RuleIds -> RuleStates]
    BY <1>1 DEF ChangeRule, CreateRule, UpdateRule, DeleteRule, Create, Update,
                Delete, NotifyTypeOK, RuleStates
  <2>2. NotifyTypeOK'
    BY <2>1 DEF NotifyTypeOK
  <2>3. (RowPerPair /\ AttemptsBounded)'
    BY <2>1 DEF RowPerPair, AttemptsBounded
  <2>4. EngineInv' /\ RetrierInv' /\ AnswersSettle'
    BY <2>1 DEF EngineInv, RetrierInv, AnswersSettle
  <2> QED BY <2>2, <2>3, <2>4
<1>2. CASE Crash
  <2> USE <1>2 DEF Crash
  <2>1. /\ answered' \in Seq(AnswerStates) /\ Len(answered') = Len(log)
        /\ \A j \in 1..Len(log) :
              answered'[j] = IF j \in Updating /\ answered[j] = "yes"
                             THEN "lost" ELSE answered[j]
    BY AnswersLost
  <2>2. NotifyTypeOK'
    BY <2>1, RetryAssumption DEF NotifyTypeOK
  <2>3. (RowPerPair /\ AttemptsBounded)'
    BY DEF RowPerPair, AttemptsBounded
  <2>4. EngineInv' /\ RetrierInv'
    BY DEF EngineInv, RetrierInv
  <2>5. AnswersSettle'
    <3>1. DOMAIN log = 1..Len(log)
      BY DEF NotifyTypeOK
    <3>2. ASSUME NEW i \in DOMAIN log, log[i].status \in {"failed", "retrying"}
          PROVE  answered'[i] # "yes"
      BY <2>1, <3>1, <3>2 DEF AnswersSettle, Updating
    <3> QED BY <3>2 DEF AnswersSettle
  <2> QED BY <2>2, <2>3, <2>4, <2>5
<1>3. CASE UNCHANGED notifyVars
    BY <1>3 DEF notifyVars, NotifyTypeOK, RowPerPair, AttemptsBounded,
                EngineInv, RetrierInv, AnswersSettle
<1> QED BY <1>1, <1>2, <1>3

\* Nothing has happened yet: the invariant holds initially.
LEMMA NotifyInvInit == NotifyInit => NotifyInv
    BY RetryAssumption
       DEF NotifyInit, RulesInit, RuleStates, NotifyInv, NotifyTypeOK, Senders,
           Results, RowPerPair, AttemptsBounded, EngineInv, RetrierInv,
           AnswersSettle

\* The inductive invariant holds in every reachable state.
LEMMA NotifyInvHolds == NotifySpec => []NotifyInv
<1>1. NotifyInv /\ [NotifyNext]_notifyVars => NotifyInv'
    BY EngineStep, RetrierStep, EnvironmentStep DEF NotifyNext
<1> QED BY <1>1, NotifyInvInit, PTL DEF NotifySpec

--------------------------------------------------------------------------------
(* What is guaranteed.                                                     *)

\* Every variable keeps its type.
THEOREM NotifyTypeCorrect == NotifySpec => []NotifyTypeOK
<1>1. NotifyInv => NotifyTypeOK
    BY DEF NotifyInv
<1> QED BY <1>1, NotifyInvHolds, PTL

\* A rule fires at most once per discrepancy, for any number of passes, failed
\* inserts and crashes, although no constraint of the table ensures it: the
\* engine is the only one that inserts.
THEOREM NotifiedOnceHolds == NotifySpec => []NotifiedOnce
<1>1. NotifyInv => NotifiedOnce
  <2> SUFFICES ASSUME NotifyInv, NEW p \in Pairs
               PROVE  Cardinality(GetByRuleAndDiscrepancy(p)) <= 1
    BY DEF NotifiedOnce
  <2> DEFINE R == GetByRuleAndDiscrepancy(p)
  <2>1. CASE R = {}
    BY <2>1, FS_EmptySet
  <2>2. CASE R # {}
    <3>1. PICK i : i \in R
      BY <2>2
    <3>2. R = {i}
      BY <3>1 DEF GetByRuleAndDiscrepancy, NotifyInv, RowPerPair
    <3>3. Cardinality({i}) = 1
      BY FS_Singleton
    <3> QED BY <3>2, <3>3
  <2> QED BY <2>1, <2>2
<1> QED BY <1>1, NotifyInvHolds, PTL

\* The attempts on record stay within the limit.
THEOREM AttemptsBoundedHolds == NotifySpec => []AttemptsBounded
<1>1. NotifyInv => AttemptsBounded
    BY DEF NotifyInv
<1> QED BY <1>1, NotifyInvHolds, PTL

\* The engine and the retrier never work on the same row at once, without a
\* lock: the one has rows that are pending, the other rows that are not.
THEOREM NoSharedRowHolds == NotifySpec => []NoSharedRow
<1>1. NotifyInv => NoSharedRow
    BY DEF NotifyInv, NoSharedRow, EngineInv, RetrierInv
<1> QED BY <1>1, NotifyInvHolds, PTL

\* The hub is asked again about a notification it has answered only if the
\* answer was never recorded: a row that is still to be retried has no answer.
THEOREM NoRepeatedSendHolds == NotifySpec => []NoRepeatedSend
<1>1. NotifyInv => NoRepeatedSend
  <2> SUFFICES ASSUME NotifyInv PROVE NoRepeatedSend
    OBVIOUS
  <2>1. npc = "send" => answered[nid] # "yes"
    BY DEF NotifyInv, EngineInv
  <2>2. DOMAIN log = 1..Len(log)
    BY DEF NotifyInv, NotifyTypeOK
  <2>3. rpc = "send" => answered[Oldest(todo).id] # "yes"
    BY <2>2, CurrentRow DEF NotifyInv, AnswersSettle
  <2> QED BY <2>1, <2>3 DEF NoRepeatedSend
<1> QED BY <1>1, NotifyInvHolds, PTL

\* The writes of a step: none, a new row, the engine's outcome on a row that is
\* pending, or the retrier's on a row that is not settled.
LEMMA TableWrites ==
    ASSUME NotifyInv, [NotifyNext]_notifyVars
    PROVE  \/ UNCHANGED log
           \/ CreateRow(npair)
           \/ /\ npc = "update"
              /\ UpdateStatus(nid, EngineStatus(result["engine"]), 1)
           \/ /\ rpc = "update"
              /\ UpdateStatus(Oldest(todo).id,
                     RetryStatus(result["retrier"], Oldest(todo).attempts + 1),
                     Oldest(todo).attempts + 1)
    BY DEF NotifyNext, notifyVars, ReadRules, notificationExists, EngineNotifies,
           createNotificationLog, sendViaHub, RecordSend, RetrierRuns,
           RetryPending, RetryRoundEnds, retryOne, RetrySend, RecordRetry,
           RecordRetryFails, ChangeRule, Crash

\* A row that is sent, or failed for good, is never written again, and attempts
\* never fall, although the retrier writes from a list it read earlier.
THEOREM SettledIsFinalHolds == NotifySpec => SettledIsFinal
<1> DEFINE Kept ==
      \A i \in DOMAIN log :
          /\ log'[i].attempts >= log[i].attempts
          /\ (\/ log[i].status = "sent"
              \/ log[i].status = "failed" /\ log[i].attempts >= maxRetries)
             => log'[i] = log[i]
<1>1. NotifyInv /\ [NotifyNext]_notifyVars => [Kept]_notifyVars
  <2> SUFFICES ASSUME NotifyInv, [NotifyNext]_notifyVars PROVE Kept
    OBVIOUS
  <2>0. /\ DOMAIN log = 1..Len(log) /\ Len(log) \in Nat /\ NotifyTypeOK
        /\ \A i \in 1..Len(log) : log[i].attempts \in Nat
    BY RowTypes DEF NotifyInv, NotifyTypeOK
  <2>1. CASE UNCHANGED log
    BY <2>0, <2>1
  <2>2. CASE CreateRow(npair)
    <3>1. \A j \in 1..Len(log) : log'[j] = log[j]
      BY <2>0, <2>2, RowCreated DEF NotifyTypeOK
    <3> QED BY <2>0, <3>1
  <2>3. ASSUME NEW id \in 1..Len(log), NEW status \in NotifStatuses,
               NEW attempts \in Nat, UpdateStatus(id, status, attempts),
               log[id].attempts <= attempts,
               \/ log[id].status = "pending"
               \/ /\ log[id].status \in {"failed", "retrying"}
                  /\ log[id].attempts < maxRetries
        PROVE  Kept
    <3>1. /\ log'[id].attempts = attempts
          /\ \A j \in 1..Len(log) : j # id => log'[j] = log[j]
      BY <2>0, <2>3, RowUpdated
    <3>2. \A i \in DOMAIN log : log'[i].attempts >= log[i].attempts
      BY <2>0, <2>3, <3>1
    <3>3. log[id].status # "sent" /\ ~(log[id].status = "failed"
                                         /\ log[id].attempts >= maxRetries)
      BY <2>0, <2>3, AttemptsLimit
    <3> QED BY <2>0, <3>1, <3>2, <3>3
  <2>4. CASE /\ npc = "update"
             /\ UpdateStatus(nid, EngineStatus(result["engine"]), 1)
    <3>1. EngineStatus(result["engine"]) \in NotifStatuses
      BY DEF EngineStatus, NotifStatuses
    <3> QED BY <2>3, <2>4, <3>1 DEF NotifyInv, EngineInv
  <2>5. CASE /\ rpc = "update"
             /\ UpdateStatus(Oldest(todo).id,
                    RetryStatus(result["retrier"], Oldest(todo).attempts + 1),
                    Oldest(todo).attempts + 1)
    <3>1. RetryStatus(result["retrier"], Oldest(todo).attempts + 1)
             \in NotifStatuses
      BY DEF RetryStatus, NotifStatuses
    <3> QED BY <2>3, <2>5, <3>1, CurrentRow
  <2> QED BY <2>1, <2>2, <2>4, <2>5, TableWrites
<1> QED BY <1>1, NotifyInvHolds, PTL DEF NotifySpec, SettledIsFinal

\* A row becomes sent only when the hub has answered about it, or is disabled.
THEOREM SentIsAnsweredHolds == NotifySpec => SentIsAnswered
<1> DEFINE Answered ==
      \A i \in DOMAIN log :
          log[i].status # "sent" /\ log'[i].status = "sent"
              => answered[i] # "no" \/ ~hubEnabled
<1>1. NotifyInv /\ [NotifyNext]_notifyVars => [Answered]_notifyVars
  <2> SUFFICES ASSUME NotifyInv, [NotifyNext]_notifyVars PROVE Answered
    OBVIOUS
  <2>0. /\ DOMAIN log = 1..Len(log) /\ Len(log) \in Nat /\ NotifyTypeOK
        /\ result["engine"] \in Results /\ result["retrier"] \in Results
    BY DEF NotifyInv, NotifyTypeOK, Senders
  <2>1. CASE UNCHANGED log
    BY <2>1
  <2>2. CASE CreateRow(npair)
    <3>1. \A j \in 1..Len(log) : log'[j] = log[j]
      BY <2>0, <2>2, RowCreated DEF NotifyTypeOK
    <3> QED BY <2>0, <3>1
  <2>3. ASSUME NEW id \in 1..Len(log), NEW status \in NotifStatuses,
               NEW attempts \in Nat, UpdateStatus(id, status, attempts),
               status = "sent" => answered[id] # "no" \/ ~hubEnabled
        PROVE  Answered
    <3>1. /\ log'[id].status = status
          /\ \A j \in 1..Len(log) : j # id => log'[j] = log[j]
      BY <2>0, <2>3, RowUpdated
    <3> QED BY <2>0, <2>3, <3>1
  <2>4. CASE /\ npc = "update"
             /\ UpdateStatus(nid, EngineStatus(result["engine"]), 1)
    <3>1. EngineStatus(result["engine"]) \in NotifStatuses
      BY DEF EngineStatus, NotifStatuses
    <3>2. EngineStatus(result["engine"]) = "sent" => answered[nid] # "no"
      BY <2>0, <2>4 DEF EngineStatus, NotifyInv, EngineInv, Results
    <3> QED BY <2>3, <2>4, <3>1, <3>2 DEF NotifyInv, EngineInv
  <2>5. CASE /\ rpc = "update"
             /\ UpdateStatus(Oldest(todo).id,
                    RetryStatus(result["retrier"], Oldest(todo).attempts + 1),
                    Oldest(todo).attempts + 1)
    <3> DEFINE s == RetryStatus(result["retrier"], Oldest(todo).attempts + 1)
    <3>1. s \in NotifStatuses
      BY DEF RetryStatus, NotifStatuses
    <3>2. s = "sent" => answered[Oldest(todo).id] # "no" \/ ~hubEnabled
      BY <2>0, <2>5 DEF RetryStatus, NotifyInv, RetrierInv, Results
    <3> QED BY <2>3, <2>5, <3>1, <3>2, CurrentRow
  <2> QED BY <2>1, <2>2, <2>4, <2>5, TableWrites
<1> QED BY <1>1, NotifyInvHolds, PTL DEF NotifySpec, SentIsAnswered
================================================================================
